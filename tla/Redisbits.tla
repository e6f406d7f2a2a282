----------------------------- MODULE Redisbits -----------------------------
(***************************************************************************)
(* The bitmaps of one window in Redis, internal/redisbits/redisbits.go.    *)
(*                                                                         *)
(* Redis executes one command at a time; Add and Difference are several,   *)
(* so other clients run in between and a client may fail or crash there.   *)
(* The keys of another window are other keys, and are left out.            *)
(***************************************************************************)
EXTENDS Integers, Sequences, FiniteSets

CONSTANTS
    Clients,
    Sets,        \* SetChanged, SetJustified, ...
    Pairs,       \* bound: the differences asked for, <<minuend, subtrahend>>
    Capacity,    \* Store.capacity
    WordBits, ByteBits, \* as in Bitset
    AddedIds,    \* bound: the ids added
    MaxAdds,     \* bound: calls of Add
    MaxCalls,    \* bound: calls of Difference
    Faults       \* whether commands fail and clients crash

ASSUME StoreAssumption ==
    /\ Capacity \in Nat \ {0} /\ {WordBits, ByteBits} \subseteq Nat \ {0}
    /\ Sets # {} /\ Pairs \subseteq Sets \X Sets
    /\ AddedIds \subseteq Nat
    /\ {MaxAdds, MaxCalls} \subseteq Nat /\ Faults \in BOOLEAN

VARIABLES
    redis,  \* the bitmaps, by key
    call,   \* what each client is doing
    adds,   \* calls of Add so far
    calls,  \* calls of Difference so far
    left    \* the keys without a TTL that crashed calls still had to DEL or EXPIRE

vars == <<redis, call, adds, calls, left>>

B == INSTANCE Bitset

-----------------------------------------------------------------------------
(* Redis *)

Key(set) == <<"set", set>>

NotKey(sub)       == <<"not", sub>>
DiffKey(min, sub) == <<"diff", min, sub>>

SetKeys     == {Key(s) : s \in Sets}
ScratchKeys == {NotKey(p[2]) : p \in Pairs} \cup {DiffKey(p[1], p[2]) : p \in Pairs}
Keys        == SetKeys \cup ScratchKeys

\* len: in bytes; an absent key has length 0.
Positions(len) == 0 .. len * ByteBits - 1
Bitmap == {b \in [len : 0 .. B!Pieces(Capacity, ByteBits),
                  bits : SUBSET Positions(B!Pieces(Capacity, ByteBits)), ttl : BOOLEAN] :
              b.bits \subseteq Positions(b.len)}
absent == [len |-> 0, bits |-> {}, ttl |-> FALSE]

Larger(m, n) == IF m < n THEN n ELSE m

\* Those of the keys that stay if nobody does anything more.
Lasting(keys) == {k \in keys : redis'[k] # absent /\ ~redis'[k].ttl}

Put(key, len, bits, ttl) ==
    /\ redis' = [redis EXCEPT ![key] = [len |-> len, bits |-> bits, ttl |-> ttl]]
    /\ left' = Lasting(left)

SETBIT(key, id, on) ==
    LET old == redis[key]
    IN  Put(key, Larger(old.len, id \div ByteBits + 1),
            IF on THEN old.bits \cup {id} ELSE old.bits \ {id}, old.ttl)

EXPIRE(key) == IF redis[key] = absent THEN UNCHANGED <<redis, left>>
               ELSE Put(key, redis[key].len, redis[key].bits, TRUE)

\* A result key loses its TTL; an empty result deletes it.
BITOPNOT(dst, src) == Put(dst, redis[src].len, Positions(redis[src].len) \ redis[src].bits, FALSE)

BITOPAND(dst, x, y) ==
    Put(dst, Larger(redis[x].len, redis[y].len), redis[x].bits \cap redis[y].bits, FALSE)

DEL(keys) ==
    /\ redis' = [k \in Keys |-> IF k \in keys THEN absent ELSE redis[k]]
    /\ left' = Lasting(left)

\* GET: the bytes of the string, as module Bitset has them.  Bit 0 is the most
\* significant one of the first byte.
GET(key) == [k \in 1 .. redis[key].len |->
                {v \in 0 .. ByteBits - 1 : k * ByteBits - 1 - v \in redis[key].bits}]

-----------------------------------------------------------------------------
(* Calls *)

\* min0, sub0: the two sets when Difference was called.  alone: no other call
\* has used its scratch keys.  kept: its window has not been dropped.  ok, res:
\* what it returns, an error or the ids.
Call == [at : {"idle", "expire", "pin minuend", "expire minuend", "pin subtrahend",
               "expire subtrahend", "not", "and", "count", "get", "return"},
         min : Sets, sub : Sets, min0 : SUBSET (0 .. Capacity - 1), sub0 : SUBSET (0 .. Capacity - 1),
         alone : BOOLEAN, kept : BOOLEAN, ok : BOOLEAN, res : SUBSET (0 .. Capacity - 1)]

AnySet  == CHOOSE s \in Sets : TRUE
idle == [at |-> "idle", min |-> AnySet, sub |-> AnySet, min0 |-> {}, sub0 |-> {},
         alone |-> TRUE, kept |-> TRUE, ok |-> FALSE, res |-> {}]

AllIdle  == \A c \in Clients : call[c] = idle
Members(set) == redis[Key(set)].bits

Goes(c, from, to) ==
    /\ call[c].at = from
    /\ call' = [call EXCEPT ![c].at = to]
    /\ UNCHANGED <<adds, calls>>

AnyId(id)   == TRUE                            \* mutant
InSpace(id) == id < Capacity

\* Add: SETBIT, then EXPIRE.  An id outside the capacity is an error.
Add(c, set, id) ==
    /\ call[c] = idle /\ adds < MaxAdds
    /\ InSpace(id)
    /\ SETBIT(Key(set), id, TRUE)
    /\ call' = [call EXCEPT ![c] = [idle EXCEPT !.at = "expire", !.min = set]]
    /\ adds' = adds + 1
    /\ UNCHANGED calls

ExpireAdded(c) ==
    /\ call[c].at = "expire"
    /\ EXPIRE(Key(call[c].min))
    /\ call' = [call EXCEPT ![c] = idle]
    /\ UNCHANGED <<adds, calls>>

Unpinned == "not"                              \* mutant: PinCapacity is off
Pinned   == "pin minuend"

\* c is in a call of Difference; with this subtrahend.
Differs(c)     == call[c].at \notin {"idle", "expire"}
Shares(c, sub) == Differs(c) /\ call[c].sub = sub

Difference(c, min, sub) ==
    /\ call[c] = idle /\ calls < MaxCalls
    /\ call' = [d \in Clients |->
          IF d = c THEN [idle EXCEPT !.at = Pinned, !.min = min, !.sub = sub,
                                     !.min0 = Members(min), !.sub0 = Members(sub),
                                     !.alone = \A e \in Clients : ~Shares(e, sub)]
          ELSE [call[d] EXCEPT !.alone = @ /\ ~Shares(d, sub)]]
    /\ calls' = calls + 1
    /\ UNCHANGED <<redis, adds, left>>

\* Pin: a zero at the last addressable bit.
Pin(c) ==
    LET me == call[c] IN
    \/ Goes(c, "pin minuend", "expire minuend") /\ SETBIT(Key(me.min), Capacity - 1, FALSE)
    \/ Goes(c, "expire minuend", "pin subtrahend") /\ EXPIRE(Key(me.min))
    \/ Goes(c, "pin subtrahend", "expire subtrahend") /\ SETBIT(Key(me.sub), Capacity - 1, FALSE)
    \/ Goes(c, "expire subtrahend", "not") /\ EXPIRE(Key(me.sub))

Combine(c) ==
    LET me == call[c] IN
    \/ Goes(c, "not", "and") /\ BITOPNOT(NotKey(me.sub), Key(me.sub))
    \/ Goes(c, "and", "count") /\ BITOPAND(DiffKey(me.min, me.sub), Key(me.min), NotKey(me.sub))

Returning(c, ok, res) ==
    /\ call' = [call EXCEPT ![c].at = "return", ![c].ok = ok, ![c].res = res]
    /\ UNCHANGED <<redis, adds, calls, left>>

\* BITCOUNT; nothing more is read when there is nothing.  GET of a key that is
\* gone is an error.
Fetch(c) ==
    LET dst == DiffKey(call[c].min, call[c].sub) IN
    \/ /\ call[c].at = "count" /\ redis[dst].bits = {}
       /\ Returning(c, TRUE, {})
    \/ /\ Goes(c, "count", "get") /\ redis[dst].bits # {}
       /\ UNCHANGED <<redis, left>>
    \/ /\ call[c].at = "get"
       /\ \/ redis[dst] = absent /\ Returning(c, FALSE, {})
          \/ redis[dst] # absent
             /\ Returning(c, TRUE, B!Ids(B!FromBytes(GET(dst), Capacity)))

\* The deferred DEL.
ScratchOfNot(me) == {NotKey(me.sub)}           \* mutant: the result stays
Scratch(me)      == {NotKey(me.sub), DiffKey(me.min, me.sub)}

Cleanup(c) ==
    /\ call[c].at = "return"
    /\ DEL(Scratch(call[c]))
    /\ call' = [call EXCEPT ![c] = idle]
    /\ UNCHANGED <<adds, calls>>

\* A command fails after the defer statement was reached.
CommandFails(c) ==
    /\ Faults /\ call[c].at \in {"not", "and", "count", "get"}
    /\ Returning(c, FALSE, {})

\* The keys a call has written that it is still to give a TTL or to delete.
Owed(me) ==
    CASE me.at \in {"expire", "expire minuend"} -> {Key(me.min)}
      [] me.at = "expire subtrahend"           -> {Key(me.sub)}
      [] me.at = "and"                         -> {NotKey(me.sub)}
      [] me.at \in {"count", "get", "return"}   -> Scratch(me)
      [] OTHER                                 -> {}

\* The client crashes, or a command fails that no DEL follows: a SETBIT or
\* EXPIRE, or the deferred DEL itself, as after its context is cancelled.
Crash(c) ==
    /\ Faults /\ call[c] # idle
    /\ call' = [call EXCEPT ![c] = idle]
    /\ UNCHANGED <<redis, adds, calls>>
    /\ left' = Lasting(left \cup Owed(call[c]))

\* Nothing keeps a caller from dropping a window that others work on.
DropWindow ==
    /\ DEL(SetKeys)
    /\ call' = [c \in Clients |-> IF Differs(c) THEN [call[c] EXCEPT !.kept = FALSE] ELSE call[c]]
    /\ UNCHANGED <<adds, calls>>

\* A TTL is hours, a call is milliseconds: a key expires between calls.
KeyExpires(k) ==
    /\ AllIdle /\ redis[k].ttl
    /\ DEL({k})
    /\ UNCHANGED <<call, adds, calls>>

\* Count and Load only read.
Init ==
    /\ redis = [k \in Keys |-> absent]
    /\ call = [c \in Clients |-> idle]
    /\ adds = 0 /\ calls = 0 /\ left = {}

Next ==
    \/ \E c \in Clients :
        \/ \E set \in Sets, id \in AddedIds : Add(c, set, id)
        \/ \E p \in Pairs : Difference(c, p[1], p[2])
        \/ ExpireAdded(c) \/ Pin(c) \/ Combine(c) \/ Fetch(c) \/ Cleanup(c)
        \/ CommandFails(c) \/ Crash(c)
    \/ DropWindow
    \/ \E k \in Keys : KeyExpires(k)

Spec == Init /\ [][Next]_vars

-----------------------------------------------------------------------------
(* Properties *)

TypeOK ==
    /\ redis \in [Keys -> Bitmap]
    /\ call \in [Clients -> Call]
    /\ adds \in 0 .. MaxAdds /\ calls \in 0 .. MaxCalls /\ left \subseteq Keys

Returned(c) == call[c].at = "return" /\ call[c].ok

\* Pin writes a zero over the last id, so nothing is said of it here.
LastId == Capacity - 1

\* "computes minuend \ subtrahend" (redisbits.go:111), for a caller that shares
\* no scratch key with another one, of a window that is not dropped: whoever was
\* a member at the call and is not justified by its end is in the answer, whatever
\* is added, fails or crashes meanwhile, and whatever scratch keys earlier crashes
\* have left.
NoMemberLost ==
    \A c \in Clients : Returned(c) /\ call[c].alone /\ call[c].kept =>
        (call[c].min0 \ Members(call[c].sub)) \ {LastId} \subseteq call[c].res

\* Nobody is in the answer who is no member, or was justified at the call; this
\* holds of callers that share scratch keys as well.
NoFalseMember ==
    \A c \in Clients : Returned(c) /\ call[c].kept =>
        call[c].res \ {LastId} \subseteq Members(call[c].min) \ call[c].sub0

\* A key that stays without a TTL is one that a crashed call still had to delete
\* or to give one: a call that ends leaves none, whatever others do to its keys.
OnlyCrashesLeak ==
    AllIdle => \A k \in Keys : redis[k] = absent \/ redis[k].ttl \/ k \in left

\* "a Go-side set and a Redis-side bitmap of the same members compare byte for
\* byte" (bitset.go:142): what Load makes of two bitmaps has the members they
\* have, and the word-wise algebra is that of sets, for a second operand of
\* another capacity, too: "a shorter subtrahend can never erase a member".  Only
\* Union takes in ids of a larger operand up to the end of its own last word,
\* and ToBytes panics exactly if one of them is beyond its last byte.
BitsetAgrees ==
    AllIdle => \A p \in Pairs, cap \in 1 .. Capacity + WordBits :
        LET a == B!FromBytes(GET(Key(p[1])), Capacity)
            b == B!FromBytes(GET(Key(p[2])), cap)
            inCap == {id \in Members(p[2]) : id < cap}
            both  == B!Union(b, a)
            inWords == {id \in Members(p[1]) : id < WordBits * B!Pieces(cap, WordBits)}
        IN  /\ B!Ids(B!Difference(a, b)) = Members(p[1]) \ inCap
            /\ B!Ids(B!Intersect(a, b)) = Members(p[1]) \cap inCap
            /\ B!Ids(both) = inWords \cup inCap
            /\ B!ToBytes(both) = B!Panic <=> \E id \in inWords : id >= ByteBits * B!Pieces(cap, ByteBits)
            /\ \A id \in 0 .. cap : B!Has(b, id) <=> id \in inCap
            /\ B!Count(b) = Cardinality(inCap) /\ (B!IsEmpty(b) <=> inCap = {})
            /\ B!FromBytes(B!ToBytes(b), cap) = b
            /\ redis[Key(p[2])].len = Len(B!ToBytes(a)) /\ cap = Capacity =>
                  B!ToBytes(b) = GET(Key(p[2]))

\* "The TTL is only so a crashed audit does not leak keys forever"
\* (redisbits.go:55): whatever crashes, a key that stays has a TTL.
NothingLeaks == AllIdle => \A k \in Keys : redis[k] = absent \/ redis[k].ttl

\* Pin is "safe to call before or after the window has members"
\* (redisbits.go:78), so the last id is a member like the others.
LastIdIsKept ==
    \A c \in Clients : Returned(c) /\ call[c].alone /\ call[c].kept =>
        (LastId \in call[c].min0 \ call[c].sub0 => LastId \in call[c].res)
=============================================================================
