# Cause-justified change monitoring: TLA+ models and proofs

The program under `src/` watches two independent channels, state *changes* and
authorized *causes*, and reports every actor whose state changed in a window
without a cause. This directory models what its correctness rests on, checks the
models with TLC, and proves the central theorems with TLAPS.

## The system

| part | state | operations | talks to |
|---|---|---|---|
| invariant engine, `internal/monitor` | open windows (four bit vectors, two sums and evidence per actor), set of closed windows, pending alerts, all under one mutex | `ObserveChange`, `ObserveCause`, `CloseDue`, `CloseAll` | id map, bit vectors; called by the daemon |
| id map, `internal/idmap` | key→id map and id→key list under an RWMutex | `Intern`, `Lookup`, `Name(s)`, `Checksum`, `Snapshot`, `Load` | engine |
| bit vectors, `internal/bitset` | fixed-capacity words | `Add`, set algebra, byte conversion | engine, Redis store |
| settlement checkpoint, `internal/checkpoint` | accounts, failures per window and actor, flagged actors, under one mutex | `Credit`, `Ban`, `Settle`, `WithdrawalAllowed`, reads | independent second layer |
| Redis bitmaps, `internal/redisbits` | bitmap and scratch keys in Redis | `Pin`, `Add`, `Difference`, `Load`, `DropWindow` | Redis |
| report, `internal/report` | next sequence number, previous hash, a file | `Append`, `Head`, `Verify` | daemon, history |
| history, `internal/pgstore` | one table | `Append`, `Entries`, `Verify` | daemon, Postgres |
| channels, `internal/channels` | none | forward keyspace notifications and bus messages into Go channels | Redis, NATS, daemon |
| daemon, `cmd/auditd` | channels, ticker, context | one select loop: ingest, tick, shutdown | all of the above |

The daemon's loop is the only caller of the engine in production, but the engine
is documented as safe for concurrent use and releases its mutex inside
`CloseDue` and `CloseAll`; that is where its concurrency is.

What makes each part correct, and what is hard about it:

* **engine** — a verdict is exactly Changed \ Justified (and its companions) over
  what was recorded before the window was closed; each window is judged once; a
  refused event is answered, never recorded and never forgotten. Hard: closing is
  three critical sections, the verdict is computed without the lock.
* **id map** — a bijection that only grows. Hard: double-checked locking,
  snapshots taken while other goroutines intern.
* **checkpoint** — all legs or none, nobody overdrawn, money conserved, the gate
  closed to exactly the right actors. Hard: netting, blame, integer width, bursts
  spread over windows that arrive out of order.
* **Redis bitmaps** — the same set difference as in memory. Hard: several
  commands per operation, shared scratch keys, crashes, lengths.
* **report and history** — a chain that verifies exactly when nobody edited it.
  Hard: failed writes, restarts, what the database does to the bytes.
* **daemon** — every event is judged or alerted, every alert recorded. Hard:
  ticks racing buffered events, lag, shutdown, restart, a channel that dies.

`PROJECT.json` lists the hazards one by one with their lines.

## Modules

| module | models |
|---|---|
| `CauseJustified` | what one monitor promises, in terms of actors and windows: no ids, locks, closers or queues |
| `Monitor` | `monitor.go`, implements `CauseJustified` |
| `MCMonitor` | values for TLC |
| `MonitorProofs`, `VerdictProofs` | theorems about `Monitor` |
| `RefinementProofs` | that `Monitor` implements `CauseJustified` |
| `IdMap`, `MCIdMap`, `IdMapProofs` | `idmap.go` used by several goroutines |
| `Checksum` | the encoding `Map.Checksum` hashes, on top of `IdMap` |
| `Ledger` | what the checkpoint promises, in exact integers and without loops |
| `Checkpoint` | `checkpoint.go`, implements `Ledger` |
| `CheckpointProofs` | theorems about `Checkpoint` |
| `Report`, `ReportProofs` | `report.go` and `pgstore.go`: the chain in a file and its copy in a table |
| `Auditd` | `cmd/auditd/main.go` and the two channels, around an instance of `Monitor` |
| `AuditdProofs` | theorems about the whole daemon |
| `Bitset` | the words and bytes of `bitset.go`, as operators |
| `Redisbits`, `MCRedisbits` | `redisbits.go`, command by command, with `Bitset` |
| `RedisbitsProofs` | theorems about `Redisbits` |

### Monitor

`open` and `closed` are the keys of the maps `windows` and `closed`; `window[w]`
is the window object, kept after it has left the map because the closer still
reads it; `pending` is the slice of alerts raised at ingest; `closer[c]` is a
goroutine inside `CloseDue` or `CloseAll` (the keys it has listed, the one it is
judging, the alerts it has found); `delivered` is what calls returned.

`ObserveChange` and `ObserveCause` run under the mutex from start to end and are
one action each. A close is `CloseDue`/`CloseAll` (list under the lock),
`CloseWindow` (the locked part of `closeWindow`), `Judge` (the rest of it,
without the lock) and `Return` (`drainPending` and the return), with anything in
between. An alert carries the number of the Observe call that raised it, so that
two alerts with the same text are told apart; verdict alerts carry 0. Evidence
lines are reduced to the channel they came from, which is what the evidence
property needs. `Intern` runs inside the engine's critical section and is atomic
here; `IdMap` has its own steps. `MaxEvidencePerActor` is positive, as after
`withDefaults`; a negative setting, which shows no evidence, is left out.

The sums wrap at `IntLimit`. `CauseJustified` sums exactly, so the refinement
also says that nothing wrapped; the runs choose amounts for which this is so.

### IdMap and Checksum

`op[g]` is the goroutine between two critical sections: missed under the read
lock and on its way to the write lock, or with a copy of the keys and on its way
to the checksum. `Load` is an operator over a stored snapshot, built from the
same locked section of `Intern` folded over the keys. `Damage` (external) puts
other keys into a file, under its checksum, as the test of `Load` does, or under
their own. A key is a sequence of characters, of which NUL may be one. A checksum
stands for the text that was hashed, which `Checksum` builds with ids in decimal
and NULs in between; SHA-256 is taken to be free of collisions. Two key lists are
`Separable` if NULs cannot make their texts equal. `Replicas` are the maps that
the live one is compared with: those of up to two short keys in the run, any set
of key lists in the proof.

### Checkpoint and Ledger

Every method of `Book` holds its mutex throughout, so a call is a step. `Netted`
is the netting loop in `IntLimit` arithmetic, `Blamed` the first check that fails
in the code's order. Failures are counted, not listed. Accounts are numbers, in
the order in which names sort. `credited` is a history variable: everything
`Credit` was given. `Credit` adds without a check, so balances can wrap; `Solvent`
is about the books to which no more was credited than fits an int64. `Ledger` nets with sums over sets of
legs and lets any party at fault be blamed.

### Report

`file` and `rows` outlive the process; `seq`, `prev` and `stuck` are the writer of
the current run (`stuck` is the error that a `bufio.Writer` keeps for ever);
`outbox` holds the entry between `rep.Append` and `pg.Append` in the daemon's
`emit`. A failed write leaves nothing, a fragment, or a line without its newline
in the file; the next line written, by the next run, is glued to it. A hash is
the tuple of what was hashed. `Verify` is the longest prefix whose every line
passes the loop's checks. `Rehashed` gives the hashes of a file's lines computed
anew, and `Relinked` is the file with them. `Stored` is what Postgres does to an entry: times lose
what is below a microsecond, keys take JSONB's order. Tampering is not part of
the behaviour: `TamperingShows` tries every edit, move, removal, re-hash and
truncation on every file the writer can produce. Process failures are modelled,
loss of unsynced data by the operating system is not.

### Auditd

`transport[c]` holds what is on its way on channel `c` in Redis pub/sub or NATS,
`sending[c]` the event a `Run` goroutine has stamped and not yet put into its Go
channel `buffer[c]`; `alive` are the goroutines that run. `loop` says where
`main` is: in the `select`, inside `CloseDue`/`CloseAll`, in `emit`, or returned.
`tick` is `Ticker.C`, which holds one tick and drops the others. `report`,
`dropped` and `postgres` are what became of each alert. `heard` is a history
variable: each event the loop has read, and whether that was before the deadline
of its window.

The engine is not a copy: `Engine` is an INSTANCE of `Monitor` on eight of the
daemon's variables, with the loop as its only closer, and `Receive`,
`TickArrives`, `ContextDone` and `Closing` call its actions. Closing keeps its
steps, so channels fill, time passes and a signal arrives in the middle.
`Operate` is the audited system: an operation changes a watched key and publishes
its cause at one time; the cause may lack a time or not parse, and there are
writes to keys nobody watches. Losing a message in the transport gives a change
without a cause and a cause without a change. `FeedTakes` stamps with the time of
reading (rediskeyspace.go:141), `BusTakes` only what has no time of its own.
Every operation is a deposit, with amounts off: kinds, producers and amounts are
the business of `Monitor`. The unit of time is a second, the ticker's period.

A restarted daemon has a new engine and empty Go channels, so it is `Init` at a
later `StartTime`; what is left of the old one is the report file and the table,
and those restarts are in `Report`.

### Redisbits and Bitset

`redis[key]` is a string: its length in bytes, the bits that are one, and whether
it has a TTL. One Redis command is one step; a call is several. `call[c]` is where
client `c` is in `Add` (SETBIT, EXPIRE) or `Difference` (two times Pin, NOT, AND,
BITCOUNT, GET, the deferred DEL), with the two sets as they were when
it was called, whether another call has used the same scratch keys, and whether
the window has been dropped meanwhile (`DropWindow` may run at any time). A command
fails after the `defer` (its DEL still runs) or before it, a client crashes
anywhere. `Owed` says which keys a call is still to delete or to give a TTL;
`left` is a history variable, those that crashed calls owed and that stay. A TTL is hours and a call is milliseconds, so keys expire between calls.

`Bitset` has the word-wise algebra for operands of different capacity, and the
two conversions with their reversed bit order. `ToBytes` panics (`Panic`) on a vector
that `Union` gave ids beyond its bytes. `Bitset` has no state, and
`BitsetAgrees` compares it with the sets themselves on every bitmap that
`Redisbits` reaches. `Monitor` uses what that shows: a bit vector is a set of ids
below the capacity, and `Add` refuses the others.

## Runs

| run | instance | shows |
|---|---|---|
| `engine_closers` | 2 actors, 1 id, 2 windows, 2 closers, 3 calls, amounts -1 and 2, `CheckAmounts`, a producer that is not trusted | all safety properties and the refinement under every interleaving of two closers with ingest; with one id the second actor exceeds the capacity |
| `idmap_race` | 3 keys (empty, one like an id, one with NULs), 2 goroutines, 2 stored files | bijection, stable ids; `Load` accepts exactly the snapshots during which nothing was interned, and no file that disagrees under a checksum the map has had; separable key lists have different checksums |
| `idmap_checksum` | the same keys, 1 goroutine | **violation**: a map of one key with NULs and one of two keys have one checksum |
| `book` | 2 accounts, credits 1 and 2, 2 legs of 0 or 1, 2 windows, 4 calls | solvency, conservation, exact gate; `Settle` implements `Ledger`, and treats each list of legs as `Ledger` says of that list |
| `book_overflow` | 3 accounts, integers from -4 to 3, legs of 3 | **violation**: overflow in the netting lets an unfunded settlement pass |
| `report` | 3 payloads (one over 16 MiB), 4 instants, 3 starts, failing writes and inserts | acknowledged entries endure, tampering shows, a report of two runs never verifies, history never mixes runs |
| `report_history` | alerts with keys in struct order, times on whole microseconds | **violation**: the table does not verify |
| `auditd` | 1 actor, window 2, grace 1, Go channels of 1, 3 messages, clock to 3, any lag; loss, dead channels, failing appends, a signal; `FairSpec` | an event read in time is never held against its actor, nothing read is forgotten, windows get reported, live channels get read |
| `auditd_lag` | 1 authorized operation, lag 1, grace 1, no fault | **violation**: a notification read one second late raises two accusations |
| `redisbits` | 2 clients, capacity 5, words of 4 bits, bytes of 2, ids 3, 4 and 6, 3 adds, 2 differences, drops, failures and crashes | answers are sound for everybody and complete for a caller alone on its scratch keys, only what crashed calls owed leaks, memory and Redis agree |
| `redisbits_leak` | 1 client, 1 id, crashes | **violation**: a key without a TTL stays after a crash |
| `redisbits_last` | 1 client, ids 0 and 4, nothing fails | **violation**: `Difference` removes the member with the last id |

**Bounds.** Each bound is the smallest that lets the cases happen that the
properties are about; every run reaches them, as the mutants confirm.

* *Engine*: a violation needs one window, the two sides of a pair, a second actor or
  a refused event, and two closers; three calls and two windows cover that, and
  the proofs do away with the bounds for what they prove. A third closer would do
  what the second does.
* *Id map*: two goroutines for the double check in `Intern`, three keys for a
  permuted snapshot; the third key is the text that follows the empty key in the
  map of the other two, so that it can be mistaken for them.
* *Book*: two legs give pass-through, double spending and a fault in either leg; a
  burst of two failures can be spread over two windows.
* *Report*: four entries over three starts give a torn line with something before
  and after it, and a table with rows of two runs; a microsecond of two clock
  units puts every other entry on one.
* *Daemon*: three messages are an operation and half of another, so that one side
  waits in a full Go channel behind the other; starting at 1 with a window of 2
  puts operations at the end of a window; at time 3 the first deadline is reached.
  The clock stops at 3 and goes on ticking, so a window after the first is closed
  by a signal only. `AuditdProofs` has no such bounds.
* *Redis*: a capacity of 5 is not a multiple of a word or of a byte, and the ids lie
  on both sides of a word's end, the second being the last bit, and outside;
  with two calls one client's DEL falls anywhere into the other's.

A refinement hides the arguments of a call: a step that treats one call as the
abstract specification treats another would pass. `EventsAreAnswered` and
`SettlesAsAsked` close this gap by comparing the two call by call.

**Deadlock** is not checked in the two daemon runs, where the daemon returns. In
the others some step is always possible.

**Fairness.** Only run `auditd` needs it; safety assumes none. `Auditd!FairSpec` says:

* time passes (weak fairness of `Advance`);
* the goroutines run (weak fairness of `FeedTakes`, `BusTakes`, `Send`, of the loop's
  steps): none holds a lock another one waits for, and the sinks answer or fail;
* `select` does not pass over a ready case for ever (strong fairness of `Receive` and
  `ContextDone`): Go picks uniformly among the cases that are ready.

Nothing is assumed of the audited system, the transport, a signal or a failure.

**Mutants.** Operators marked `mutant` stand next to the definition they break; each
is a bug that could be made at that place, and a property named in
`PROJECT.json` fails under it.

## Findings

1. `Snapshot` (idmap.go:115-124) copies the keys and computes the checksum under two
   separate read locks. A key interned in between makes a snapshot that `Load`
   refuses. `SnapshotsReload` (run `idmap_race`) says that this, and nothing else,
   makes `Load` refuse a snapshot.
2. `Checksum` (idmap.go:104) separates ids and keys by NULs and does not escape those
   in keys, which nothing keeps out. The maps `["", "1"]` and `["\x001\x001"]`
   assign different ids and have one checksum, against "if and only if"
   (idmap.go:96; run `idmap_checksum`).
3. `Settle` (checkpoint.go:136-158) nets and checks in int64. Legs that add up to more
   than 2^63 wrap, and a payer without funds can pass the check (run `book_overflow`).
4. The report after a restart (report.go:63, main.go:81-86) is two chains in one file
   and does not verify, whatever is written later. `RestartBreaksTheChain` (run
   `report`) says so of every report to which two runs have added.
5. `pgstore.Verify` fails on real alerts: JSONB reorders `start` and `end`, and
   TIMESTAMPTZ drops nanoseconds (pgstore.go:32, 37), both of which are hashed
   (run `report_history`).
6. `Pin` (redisbits.go:81) writes a zero over the bit of id `capacity-1`, an id that
   `Add` accepts, and `Difference` pins both sets first: that actor is never in an
   answer (run `redisbits_last`). The engine's own verdict (bitset.go) does not have
   this.
7. A crash between SETBIT and EXPIRE (redisbits.go:93-96), or between BITOP and the
   deferred DEL (redisbits.go:127-134), leaves a key without a TTL, though the TTL is
   there "so a crashed audit does not leak keys forever" (redisbits.go:55; run
   `redisbits_leak`).
8. Under lag the change is stamped when it is read (rediskeyspace.go:141) and falls
   into a later window than its cause. The grace period, which that file's comment
   trusts with this, only delays the closing of a window: both windows accuse an
   authorized actor, however long the grace (run `auditd_lag`).

Limits the models make explicit without a finding of their own:

* A stored map whose file brings the checksum of its own keys is accepted by `Load`:
  the checksum guards against damage, not against another file. `AcceptedSnapshotsAgree`
  is about a file under a checksum that the live map has had.
* `Verify` (report.go:131) does not read lines over 16 MiB, which `Append` writes, so
  `AcknowledgedEndures` reaches up to the first such line.
* Callers of `Difference` that share a subtrahend share a scratch key: one's DEL can
  take members from the other's answer (`NoMemberLost` is for a caller alone;
  `NoFalseMember` is for all).
* `Union` (bitset.go:103) with an operand of larger capacity takes in ids beyond its own
  capacity, up to the end of its last word, and `ToBytes` panics if one of them is
  beyond its last byte (bitset.go:149). `BitsetAgrees` says exactly when; no caller in
  the repository mixes capacities.
* Once the context is done every insert into Postgres fails, and it is then that the
  last alerts are emitted (`Insert`): they are in the report only. Events still in
  the Go channels are not read any more.
* An event read after the deadline of a window that nobody had opened opens it, and
  the next tick closes it: an accusation, and a late event for the counterpart.
  `GraceIsKept` is about events read in time.
* `closed` (monitor.go:355) grows by a key per window for the life of the process.

## Proofs

All theorems hold for every value of the constants that satisfies the module's
named assumption (`ConfigAssumption`, `MapAssumption`, `BookAssumption`,
`ReportAssumption`, `DaemonAssumption`, `StoreAssumption`), with any number of actors, closers,
goroutines, clients and windows. The actors of the checkpoint are finitely many, since
their money is added up.

* `MonitorProofs!TypeCorrect`. `TypeOK` alone is not inductive: that a verdict names
  actors needs every recorded id to have been handed out, and that `Judge` reads a
  window needs the closer to hold a key. `TypeInv` adds both.
* `MonitorProofs!ReportsOnce`. `OnceInv` adds to `TypeInv` that open and closed windows
  are disjoint, that pending alerts carry call numbers already used, and that
  verdict alerts and judging closers belong to closed windows. A window a closer
  takes out of the map then has no verdict yet, and a drained alert is new.
* `MonitorProofs!WindowsFreeze` follows from the same invariant: only `Ingest` writes a
  window and it refuses closed ones.
* `VerdictProofs!VerdictsAreExact`, `EvidenceIsSound`. `VerdictInv` adds to `OnceInv`
  that ids name distinct actors (`Distinct`), that every closed window is still being
  judged or has its whole verdict among the alerts (`ClosedIsJudged`), that an alert
  raised at close belongs to its window's verdict as computed now
  (`AlertsAreVerdicts`, with `VerdictStable`: neither later events nor ids handed
  out later change a verdict), and that what the evidence shows of an id agrees
  with its bits (`EvidenceAgrees`). `NamesOfDifference` and `SumsOfNames` then turn a
  difference of bits, and a comparison of sums by id, into the ones by actor of
  `CauseJustified`.
* `RefinementProofs!EngineImplements`, `EventsAnswered`: the engine implements
  `CauseJustified`, step by step, and answers each call as asked. The hypothesis is
  `SumsFit`: `MaxCalls` steps of the largest size that occurs stay below `IntLimit`,
  since the abstract sums do not wrap. `RefineInv` adds to `VerdictInv` that after so
  many calls no sum is larger than so many steps (`SumsBounded`) and that the sums of
  an id nobody has yet are zero (`SumsUntouched`); what `CauseJustified` sees
  (`Tracked`, `Changed`, `Justified`, ...) is then read off bits and sums by actor.
  Each action then maps to one abstract step or a stutter (`Intern` and the lock are
  invisible; listing, judging and returning are one closer's progress).
* `IdMapProofs`: `OneIdPerKey`, `ReturnedIdsName` and the types are inductive together;
  `InternLockedKeeps` says what the locked section preserves.
* `IdMapProofs!ChecksumsAreReliable`, for keys of any length. Two texts that are equal are
  equal up to the end of each line, by induction: the lines start at one place and
  with one number, so a key without NULs ends where its NUL stands, and the other
  line, if its key has NULs, can only be longer (`LinesDecide`). As long as one list
  has no NULs and is not the longer one, the texts are different (`EncodeSeparates`);
  that is what `Separable` asks for, and finding 2 is what remains.
* `IdMapProofs!SnapshotsReloadUnlessRaced`, `SnapshotsAgree`. What `Load` builds, a fold of
  `Intern` over the keys, is a bijection with these keys (`LoadedIsBijective`).
  `SnapInv` adds that a snapshot has the first keys of the live map, under their own
  checksum if it was quiet and under that of a longer list if it was raced. The text of
  a longer list is longer than that of its beginning (`EncodeGrows`), so `Load`
  refuses the raced ones, whatever their keys; and a file it accepts under a checksum
  of the live map, if separable, has that map's keys and so its ids.
* `CheckpointProofs!GateExact`. `GateInv` adds that an alert names a window that does
  hold a burst; without it a flag could count a window below the threshold.
* `CheckpointProofs!AlwaysSolvent`, `BookImplements`, `SettlesExactly`, `TypeCorrect`. A
  settlement is a fold of its legs into a net per account, and the money is a fold
  over the accounts. The hypotheses are what finding 2 shows to be needed:
  `AmountsFit` that the legs of one settlement fit an int64, `BookFits` that the
  money fits as well. Solvency needs the former only, since `SolventInv` speaks of a
  book as long as what was credited to it fits an int64, and that only grows. Under them the net never wraps, equals the difference
  of the sums that `Ledger` takes over sets of legs, adds up to zero over all accounts,
  and so applying it keeps the total; and who is first at fault in the code's
  order is at fault in `Ledger`.
* `ReportProofs!ReportEndures`. `EndureInv` adds that a torn line always comes after
  the first run's entries, and that while the first writer works the file holds its
  entries only and it stands at their end.
* `ReportProofs!HistoryOfOneRun`. `HistoryInv` says that the lines a run acknowledged
  are chained from its first on (`Linked`), that the writer stands at the end of its
  run (`WriterAtEnd`), that what is on its way to the table was acknowledged, and that
  a table row is an acknowledged entry as `Stored` leaves it, one row per sequence
  number (`TableInv`). The rows `Verify` accepts then chain back, hash by hash, to the
  beginning of the run that wrote the last of them.
* `ReportProofs!RestartsAreVisible`. `RestartInv` adds that once two runs have had entries
  acknowledged, some line's number is not its place (`OutOfOrder`): a new run's first
  entry has number 0 and is not the first line, or it is lost in a torn line. What
  is appended or joined later leaves that line so (`PutOrder`).
* `ReportProofs!TamperingIsExposed`, from the types alone, for a file of any length: a line
  changed, moved or removed breaks the chain at itself (`EditShows`, `MoveShows`),
  one that is hashed again breaks it at the next (`ReforgeShows`), and a chain cut or
  remade to its end has another head (`CutShows`, `RelinkShows`).
* `AuditdProofs!GraceHolds`, `DaemonTypeCorrect`. `GraceIsKept` speaks of alerts and of
  what was read; between the two are the ids and the bits. `GraceInv` says that an
  id names one actor (`Distinct`), that every bit stands for an event read
  (`RecordedWasHeard`), that every event read in time has its bit unless its id
  does not fit (`HeardWasRecorded`), and that while the daemon runs a window is
  closed, or listed for closing, only after its deadline (`ClosedWhenDue`). An event
  in time then never finds its window closed, so it is recorded; a difference of
  bits is a difference of what was read; and nothing read after the close is in
  time, which is why an alert once `Deserved` stays so.
* `AuditdProofs!EventsAnswered`. `AnswerInv` follows an event on the way to its answer:
  it is recorded in an open or closed window or an alert names it (`HeardIsKept`);
  a closed window is being judged or its verdict is among the alerts
  (`ClosedIsJudged`, with `VerdictStable`: ids handed out later do not change a
  verdict); alerts are pending, in a closer's or `emit`'s hands only while the loop
  is there, or recorded (`InHand`); and the last close lists all that is open
  (`LeavingClosesAll`). No alert disappears in any step, and back in the `select`
  the answer is therefore where the property says.
* `RedisbitsProofs!NobodyForgotten`, `NobodyNamedFalsely`, `KeysGo`, `StoreTypeCorrect`.
  `StoreInv` has three parts. `Sound(c)` and `Complete(c)` say of each stage of a call
  what its complement and its result must hold by then: the complement names nobody
  justified at the call, and, if the client is alone on its scratch keys, everybody
  else, for which the length that `Pin` gave the subtrahend is needed. `Owned` says
  that each key without a TTL is `Owed` by a call that is yet to delete it or to give it
  one, or is in `left`; a crash moves what its call owed from the one to the other. `Gentle` is what every command guarantees the
  calls of others: sets lose nobody but the last id, complements and results are
  only replaced by ones of the present sets. `StepOf` concludes from it that the
  calls of others keep their parts, so each action's lemma is about its own client.
* `RedisbitsProofs!BitsAreSets`, for every word and byte size and two capacities.
  `BitsRead` and `PiecesTogether` say that cutting a set of numbers into bytes or words
  and reading them gives the set. What `FromBytes` and `Add` make is therefore
  `Packed`, the words of a set; the word-wise operations on two of these are those of
  sets (`AlgebraAgrees`), `Has` and `IsEmpty` look into the right word, `Count`, a sum over
  the words, is the cardinality (`PackedCount`), and the bytes are the ones that Redis
  has when the lengths agree (`BytesBack`, `BytesSame`). After a `Union` with a larger
  operand the vector holds ids up to the end of its last word, and `ToBytes` panics
  exactly if one is beyond its last byte.

Several proofs need induction over data, and the library's induction theorems take
an operator, which the provers cannot instantiate. Here induction is over a SET of
what has the property (`AllNumbers`, `AllSubsets`, `GreatestOf`), from the library's fact that
a nonempty subset of a well-founded set has a minimal element (`WFMin`). A fold or
a recursive function is a CHOOSE of a function that satisfies its equation: the
proofs show that there is one (`FoldUnfolds`, `LoadingExists`, `HashesExist`,
`ConcatenationExists`) and that any other has the same value.

Only model-checked: liveness (`WindowsGetReported`, `EveryEventIsRead`), which is about
fairness and ENABLED. The runs that end in a violation have nothing to prove.

## Not modelled

* `KeyspaceFeed.CheckConfig`: one check of a server setting at start. It accepts
  settings under which none of the watched commands is announced
  (rediskeyspace.go:91); the silent channel that follows is in run `auditd` as loss.
* `CauseBus.Publish`, for producers and the demo: it marshals and sends.
* Flags, opening of connections and files, logging, and the text of alerts and
  evidence: no property is about them.
* The scenario driver, a demo script over the public API, the benchmarks and the
  deployment files, which have no state of their own.
