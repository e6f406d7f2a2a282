------------------------------- MODULE Report -------------------------------
(***************************************************************************)
(* The evidence trail: report.Writer appending to a file, pgstore.Store    *)
(* keeping a copy of each entry, and the check both share, report.Verify.  *)
(*                                                                         *)
(* Append holds Writer.mu throughout and is one step; the insert that the  *)
(* daemon makes of the entry is another one, and the process may fail or   *)
(* stop in between.  A hash stands for what was hashed: the encoding has   *)
(* no ambiguity (JSON holds no NUL) and SHA-256 is taken as free of        *)
(* collisions.  Files and tables outlive the process.                      *)
(***************************************************************************)
EXTENDS Integers, Sequences, SequencesExt, FiniteSetsExt

CONSTANTS
    Payloads,      \* bound: what is reported
    LongPayloads,  \* those whose line exceeds the buffer Verify reads with
    JsonbPayloads, \* those whose keys already are in the order JSONB keeps
    Times,         \* bound: the values of time.Now
    Micro,         \* a microsecond in clock units; TIMESTAMPTZ keeps no less
    Faults,        \* whether writes and inserts may fail
    MaxRuns        \* bound: starts of the daemon

ASSUME ReportAssumption ==
    /\ Times \subseteq Nat \ {0} /\ Micro \in Nat \ {0}
    /\ LongPayloads \subseteq Payloads /\ JsonbPayloads \subseteq Payloads
    /\ Faults \in BOOLEAN /\ MaxRuns \in Nat

VARIABLES
    file,    \* the lines of the report file
    torn,    \* the last line lacks its newline
    running, \* the daemon runs
    seq,     \* Writer.seq
    prev,    \* Writer.prev
    stuck,   \* the bufio.Writer has failed and keeps its error
    outbox,  \* the entry appended and not yet inserted, if any
    rows,    \* the history table
    acked,   \* acked[r]: what Append returned without error in run r
    clock    \* the last time.Now

vars == <<file, torn, running, seq, prev, stuck, outbox, rows, acked, clock>>

-----------------------------------------------------------------------------
(* Entries and their verification *)

GenesisHash == <<>>

HashWithoutPayload(n, ts, payload, p) == <<n, ts, p>> \* mutant
Hash(n, ts, payload, p)               == <<n, ts, payload, p>>

Link(n, ts, payload, p) ==
    [seq |-> n, ts |-> ts, payload |-> payload, prev |-> p, hash |-> Hash(n, ts, payload, p)]

\* A payload as json.Marshal renders it: the keys in the order of the struct.
Rendered(body) == [body |-> body, keys |-> "struct"]

\* A line that does not parse.  Verify stops at it, as at one out of sequence.
Junk == Link(-1, 0, Rendered("junk"), GenesisHash)

\* What Verify checks of line i, given that it has accepted all before.
GoodAlone(L, i)    == L[i].hash = Hash(L[i].seq, L[i].ts, L[i].payload, L[i].prev) \* mutant
GoodUnlinked(L, i) == L[i].seq = i - 1         \* mutant: prev_hash is not compared
                      /\ L[i].hash = Hash(L[i].seq, L[i].ts, L[i].payload, L[i].prev)
Good(L, i) ==
    /\ L[i].seq = i - 1
    /\ L[i].prev = IF i = 1 THEN GenesisHash ELSE L[i - 1].hash
    /\ L[i].hash = Hash(L[i].seq, L[i].ts, L[i].payload, L[i].prev)

Readable(L, i) == L[i].payload.body \notin LongPayloads

Accepts(L, n) == n <= Len(L) /\ \A i \in 1 .. n : Readable(L, i) /\ Good(L, i)

\* Verify: the entries it accepts, their head, and whether that was all.
Verify(L) ==
    LET n == Max({k \in 0 .. Len(L) : Accepts(L, k)})
    IN  [entries |-> SubSeq(L, 1, n), ok |-> n = Len(L),
         head |-> IF n = 0 THEN GenesisHash ELSE L[n].hash]

-----------------------------------------------------------------------------
(* The report file *)

Idle == outbox = <<>>

\* os.OpenFile with O_APPEND, report.NewWriter: a fresh chain.
Start ==
    /\ ~running /\ Len(acked) < MaxRuns
    /\ running' = TRUE
    /\ seq' = 0 /\ prev' = GenesisHash /\ stuck' = FALSE
    /\ acked' = Append(acked, <<>>)
    /\ UNCHANGED <<file, torn, outbox, rows, clock>>

\* The process ends, between any two steps.
Stop ==
    /\ running
    /\ running' = FALSE
    /\ outbox' = <<>>
    /\ UNCHANGED <<file, torn, seq, prev, stuck, rows, acked, clock>>

\* A line written after an unfinished one becomes part of it.
Put(line) == file' = IF torn THEN [file EXCEPT ![Len(file)] = Junk] ELSE Append(file, line)

IgnoreError(s) == TRUE                         \* mutant
CanWrite(s)    == ~s

\* What Append may write next.
NextEntries == {Link(seq, ts, Rendered(body), prev) : ts \in {t \in Times : t > clock},
                                                      body \in Payloads}

\* Once the buffered writer has failed, Append returns its error and changes
\* nothing.
Writing(e) ==
    /\ running /\ Idle /\ CanWrite(stuck)
    /\ clock' = e.ts
    /\ UNCHANGED <<running, rows>>

AppendEntry(e) ==
    /\ Writing(e)
    /\ Put(e) /\ torn' = FALSE
    /\ acked' = [acked EXCEPT ![Len(acked)] = Append(@, e)]
    /\ seq' = seq + 1 /\ prev' = e.hash
    /\ outbox' = <<e>>
    /\ UNCHANGED stuck

\* The write fails after nothing, a part, or all but the newline is in the
\* file.  The daemon logs it and goes on to the next alert.
AppendFails(e) ==
    /\ Faults
    /\ Writing(e)
    /\ \/ UNCHANGED <<file, torn>>
       \/ torn' = TRUE /\ \E line \in {e, Junk} : Put(line)
    /\ stuck' = TRUE
    /\ UNCHANGED <<seq, prev, outbox, acked>>

-----------------------------------------------------------------------------
(* The history table *)

RoundedUp(ts) == ts + Micro - (ts % Micro)     \* mutant
Truncated(ts) == ts - (ts % Micro)

\* An entry as TIMESTAMPTZ and JSONB give it back.
Stored(e) ==
    [e EXCEPT !.ts = Truncated(@),
              !.payload.keys = IF e.payload.body \in JsonbPayloads THEN @ ELSE "jsonb"]

\* PRIMARY KEY (seq), UNIQUE (hash)
Conflict(e) == \E row \in rows : row.seq = e.seq \/ row.hash = e.hash

Insert ==
    \E e \in ToSet(outbox) :
        /\ rows' = IF Conflict(e) THEN rows ELSE rows \cup {Stored(e)}
        /\ outbox' = <<>>
        /\ UNCHANGED <<file, torn, running, seq, prev, stuck, acked, clock>>

\* No connection, or the context is cancelled already; logged, not retried.
InsertFails ==
    /\ Faults /\ ~Idle
    /\ outbox' = <<>>
    /\ UNCHANGED <<file, torn, running, seq, prev, stuck, rows, acked, clock>>

\* ORDER BY seq: the i-th row has i - 1 rows before it.
Entries ==
    [i \in 1 .. Cardinality(rows) |->
        CHOOSE row \in rows : Cardinality({r \in rows : r.seq < row.seq}) = i - 1]

\* Head, Entries and Verify only read.
Read == UNCHANGED vars

Init ==
    /\ file = <<>> /\ torn = FALSE
    /\ running = FALSE
    /\ seq = 0 /\ prev = GenesisHash /\ stuck = FALSE
    /\ outbox = <<>> /\ rows = {} /\ acked = <<>>
    /\ clock = 0

Next ==
    \/ Start \/ Stop \/ Insert \/ InsertFails \/ Read
    \/ \E e \in NextEntries : AppendEntry(e) \/ AppendFails(e)

Spec == Init /\ [][Next]_vars

-----------------------------------------------------------------------------
(* Properties *)

IsEntry(e, now) ==
    /\ e.seq \in Nat /\ e.ts \in 1 .. now
    /\ e.payload \in [body : Payloads, keys : {"struct"}]
    /\ e = Link(e.seq, e.ts, e.payload, e.prev)

TypeOK ==
    /\ \A i \in DOMAIN file : file[i] = Junk \/ IsEntry(file[i], clock)
    /\ \A r \in DOMAIN acked : \A i \in DOMAIN acked[r] : IsEntry(acked[r][i], clock)
    /\ \A e \in ToSet(outbox) : IsEntry(e, clock)
    /\ \A row \in rows : row.seq \in Nat /\ row.ts \in 0 .. clock
    /\ {torn, running, stuck} \subseteq BOOLEAN
    /\ seq \in Nat /\ clock \in Nat

\* What the first run acknowledged is in the file, in order, and Verify accepts
\* it up to the first line too long for it, whatever writes failed later and
\* however often the daemon was started again.  (Append writes before it advances seq and prev; bufio
\* keeps its error, so nothing is acknowledged behind a torn line.)
AcknowledgedEndures ==
    acked # <<>> =>
        /\ Len(acked[1]) <= Len(file)
        /\ \A i \in DOMAIN acked[1] : file[i] = acked[1][i]
        /\ \A n \in DOMAIN acked[1] :
              (\A i \in 1 .. n : Readable(acked[1], i)) => Accepts(file, n)

\* Ways to touch line i and leave the others alone.
EditedAt(i) ==
    {[file EXCEPT ![i].payload.body = body] : body \in Payloads \ (LongPayloads \cup {file[i].payload.body})}
    \cup {[file EXCEPT ![i].ts = ts] : ts \in Times \ {file[i].ts}}
MovedAt(i) ==
    {[file EXCEPT ![i] = file[j], ![j] = file[i]] : j \in i + 1 .. Len(file)}
    \cup {RemoveAt(file, k) : k \in {i} \ {Len(file)}}
\* ... with the hash of that line computed again.
ReforgedAt(i) == {[L EXCEPT ![i] = Link(@.seq, @.ts, @.payload, @.prev)] : L \in EditedAt(i)}
\* ... with all hashes computed again.
Rehashed(L) ==
    LET hash[i \in 0 .. Len(L)] ==
            IF i = 0 THEN GenesisHash ELSE Hash(L[i].seq, L[i].ts, L[i].payload, hash[i - 1])
    IN  hash
Relinked(L) == [i \in DOMAIN L |-> Link(L[i].seq, L[i].ts, L[i].payload, Rehashed(L)[i - 1])]

\* "the chain stops verifying at exactly the entry that was touched"
\* (report.go:7): at the line, or the one after it when its own hash was made
\* to fit.  Only a chain rewritten or cut to its end verifies, and then its
\* head is not the one Head has published.
TamperingShows ==
    Verify(file).ok /\ Verify(file).head = prev =>
        \A i \in DOMAIN file :
            /\ \A L \in EditedAt(i) \cup MovedAt(i) : Len(Verify(L).entries) = i - 1
            /\ \A L \in ReforgedAt(i) : Len(Verify(L).entries) = i /\ Verify(L).head # prev
            /\ \A L \in EditedAt(i) : Verify(Relinked(L)).ok /\ Verify(Relinked(L)).head # prev
            /\ Verify(SubSeq(file, 1, i - 1)).head # prev

\* Restarts and failed inserts leave rows of several runs in the table; what
\* Verify accepts of them is always the beginning of one run's report.
HistoryNeverMixes ==
    LET accepted == Verify(Entries).entries
    IN  accepted = <<>> \/ \E r \in DOMAIN acked : IsPrefix(accepted, acked[r])

\* The file is opened with O_APPEND and each start begins a fresh chain
\* (main.go:86, report.go:62): once entries of two runs are in it, it never
\* verifies as a whole again, though nobody has touched it, and whatever lines
\* are written, torn or joined later.
RestartBreaksTheChain ==
    \A r, s \in DOMAIN acked :
        r # s /\ acked[r] # <<>> /\ acked[s] # <<>> => ~Verify(file).ok

\* "the database copy stands on its own as evidence" (pgstore.go:149): so should
\* the table, when every insert was made.
HistoryVerifies == Verify(Entries).ok
=============================================================================
