------------------------------- MODULE IdMap -------------------------------
(***************************************************************************)
(* The actor <-> id map, internal/idmap/idmap.go, used by several          *)
(* goroutines at once.                                                     *)
(*                                                                         *)
(* Intern looks the key up under the read lock, gives the lock up, and     *)
(* looks again under the write lock before it assigns.  Snapshot copies    *)
(* the keys under one read lock and computes the checksum under another.   *)
(* A section under a lock is one step; other goroutines run in between.    *)
(* The text that is hashed is in module Checksum.                          *)
(***************************************************************************)
EXTENDS Checksum

CONSTANTS
    Keys,       \* actor keys, any texts
    Goroutines,
    MaxStored,  \* bound: no further snapshot is begun or damaged after so many
    Replicas    \* bound: what another replica of the map may hold

ASSUME MapAssumption ==
    /\ Keys \subseteq Seq(Characters) /\ Replicas \subseteq Seq(Seq(Characters))
    /\ MaxStored \in Nat

VARIABLES
    map,      \* [fwd, rev]: rev[i + 1] is the key with id i
    op,       \* what each goroutine is in the middle of
    returned, \* the results of Intern so far
    stored    \* the snapshots on disk

vars == <<map, op, returned, stored>>

-----------------------------------------------------------------------------
NoId == -1 \* not a key of fwd
Map  == [fwd : [Keys -> Nat \cup {NoId}], rev : Seq(Keys)]

empty == [fwd |-> [k \in Keys |-> NoId], rev |-> <<>>]

\* Op.keys: the key being interned, or the copy of rev a snapshot has taken.
Op   == [kind : {"none", "intern", "snapshot"}, keys : Seq(Keys)]
none == [kind |-> "none", keys |-> <<>>]

Result == [key : Keys, id : Nat]

\* kind: as Snapshot wrote it, with no key interned between its two locks or
\* with some, or damaged since.
Snapshot == [keys : Seq(Keys), checksum : Text, kind : {"quiet", "raced", "damaged"}]

-----------------------------------------------------------------------------
(* Operations on the map itself *)

Has(m, key) == m.fwd[key] # NoId

AssignFromOne(m, key) == \* mutant: the id is taken after the append
    [fwd |-> [m.fwd EXCEPT ![key] = Len(m.rev) + 1], rev |-> Append(m.rev, key)]
Assign(m, key) ==
    [fwd |-> [m.fwd EXCEPT ![key] = Len(m.rev)], rev |-> Append(m.rev, key)]

\* Intern's section under the write lock.
InternWithoutRecheck(m, key) == Assign(m, key) \* mutant: no second look
InternWithoutAssign(m, key)  == m              \* mutant: a new key stays unknown
InternLocked(m, key) == IF Has(m, key) THEN m ELSE Assign(m, key)

Checksum(m) == Encode(m.rev)

\* What Load makes of a snapshot, and whether it accepts it.
Loaded(s) == FoldLeft(InternLocked, empty, s.keys)

LoadsInjective(s) == Cardinality(ToSet(s.keys)) = Len(s.keys) \* mutant: checksum ignored
Loads(s) ==
    /\ Cardinality(ToSet(s.keys)) = Len(s.keys)
    /\ Checksum(Loaded(s)) = s.checksum

-----------------------------------------------------------------------------
(* Goroutines *)

\* Intern, under the read lock: the id, or go for the write lock.
InternFast(g, key) ==
    /\ op[g] = none
    /\ \/ /\ Has(map, key)
          /\ returned' = returned \cup {[key |-> key, id |-> map.fwd[key]]}
          /\ UNCHANGED op
       \/ /\ ~Has(map, key)
          /\ op' = [op EXCEPT ![g] = [kind |-> "intern", keys |-> <<key>>]]
          /\ UNCHANGED returned
    /\ UNCHANGED <<map, stored>>

InternSlow(g) ==
    /\ op[g].kind = "intern"
    /\ LET key == op[g].keys[1] IN
        /\ map' = InternLocked(map, key)
        /\ returned' = returned \cup {[key |-> key, id |-> map'.fwd[key]]}
    /\ op' = [op EXCEPT ![g] = none]
    /\ UNCHANGED stored

SnapshotKeys(g) ==
    /\ op[g] = none
    /\ Cardinality(stored) < MaxStored
    /\ op' = [op EXCEPT ![g] = [kind |-> "snapshot", keys |-> map.rev]]
    /\ UNCHANGED <<map, returned, stored>>

SnapshotChecksum(g) ==
    /\ op[g].kind = "snapshot"
    /\ stored' = stored \cup
          {[keys |-> op[g].keys, checksum |-> Checksum(map),
            kind |-> IF op[g].keys = map.rev THEN "quiet" ELSE "raced"]}
    /\ op' = [op EXCEPT ![g] = none]
    /\ UNCHANGED <<map, returned>>

\* A stored file is damaged: other keys, under the same checksum or under their
\* own.
Damage ==
    \E s \in stored, keys \in BoundedSeq(Keys, Len(map.rev)) :
        /\ s.kind # "damaged" /\ Cardinality(stored) < MaxStored
        /\ \E sum \in {s.checksum, Encode(keys)} :
              stored' = stored \cup {[keys |-> keys, checksum |-> sum, kind |-> "damaged"]}
        /\ UNCHANGED <<map, op, returned>>

Init ==
    /\ map = empty
    /\ op = [g \in Goroutines |-> none]
    /\ returned = {}
    /\ stored = {}

Next ==
    \/ \E g \in Goroutines :
        \/ \E key \in Keys : InternFast(g, key)
        \/ InternSlow(g)
        \/ SnapshotKeys(g)
        \/ SnapshotChecksum(g)
    \/ Damage

Spec == Init /\ [][Next]_vars

-----------------------------------------------------------------------------
(* Properties *)

TypeOK ==
    /\ map \in Map
    /\ op \in [Goroutines -> Op]
    /\ returned \subseteq Result
    /\ stored \subseteq Snapshot

\* fwd and rev are inverse to each other, whatever goroutines race for a key:
\* each key has one id and each id one key.
OneIdPerKey ==
    /\ \A k \in Keys : Has(map, k) => map.fwd[k] + 1 \in DOMAIN map.rev /\ map.rev[map.fwd[k] + 1] = k
    /\ \A i \in DOMAIN map.rev : map.fwd[map.rev[i]] = i - 1

\* An id Intern ever returned still names the key it was returned for: nobody
\* is accused in another's place (idmap.go:5-10).
ReturnedIdsName == \A r \in returned : r.id + 1 \in DOMAIN map.rev /\ map.rev[r.id + 1] = r.key

\* Ids are never reused or moved.
NeverReassigned == [][\A k \in Keys : Has(map, k) => map'.fwd[k] = map.fwd[k]]_vars

\* Two key lists that only one text belongs to, if they are different: the one
\* has no NUL in a key, and the other has none either or is not shorter.
Separable(other, rev) == Clean(rev) /\ (Clean(other) \/ Len(other) >= Len(rev))

\* "a snapshot can be [...] compared against this value" (idmap.go:97): when the
\* checksum of a file is one that the live map has had, and Load accepts the
\* file, then every key in it has the id the live map gives it, whatever else
\* has been done to the file.  (A file that brings its own checksum is for the
\* comparison to find; what a NUL can do is in ChecksumsDecide.)
AcceptedSnapshotsAgree ==
    \A s \in stored, n \in 0 .. Len(map.rev) :
        LET had == SubSeq(map.rev, 1, n)
        IN  Loads(s) /\ s.checksum = Encode(had) /\ Separable(s.keys, had) =>
                \A k \in Keys : Has(Loaded(s), k) => Loaded(s).fwd[k] = map.fwd[k]

\* "Snapshot writes the map so it can be reloaded or audited" (idmap.go:114):
\* Load accepts what it wrote exactly if no key was interned between its two
\* locks; otherwise the file is lost.
SnapshotsReload == \A s \in stored : s.kind # "damaged" => (Loads(s) <=> s.kind = "quiet")

\* Replicas that the text tells apart agree exactly if their checksums do: also
\* when keys look like ids, and also when the other one has NULs in its keys,
\* unless it has fewer of them.
ChecksumsSeparate ==
    \A rev \in Replicas : Separable(rev, map.rev) =>
        (rev = map.rev <=> Encode(rev) = Encode(map.rev))

\* "Two replicas of the map agree if and only if their checksums agree"
\* (idmap.go:96), whatever their keys are.
ChecksumsDecide == \A rev \in Replicas : rev = map.rev <=> Encode(rev) = Encode(map.rev)
=============================================================================
