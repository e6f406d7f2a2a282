------------------------------ MODULE Monitor ------------------------------
(***************************************************************************)
(* The invariant engine, internal/monitor/monitor.go.                      *)
(*                                                                         *)
(* ObserveChange and ObserveCause hold Monitor.mu from start to end, so    *)
(* each is one step.  CloseDue and CloseAll take the lock three times: to  *)
(* list the windows to close, once per window in closeWindow, and to drain *)
(* the pending alerts; other goroutines run in between.  A closer is a     *)
(* goroutine inside one of these two calls.                                *)
(*                                                                         *)
(* An Id is what idmap.Map.Intern returns; Intern runs under Monitor.mu    *)
(* and is atomic here (module IdMap has its own two critical sections).    *)
(***************************************************************************)
EXTENDS Integers, Sequences

CONSTANTS
    Actors,            \* actor keys
    WindowSize, Grace, \* Config.WindowSize, Config.Grace, in clock units
    EventTimes,        \* bound: the event times that occur
    ClockTimes,        \* bound: the values of now passed to CloseDue
    Capacity,          \* Config.Capacity
    Kinds, DerivedCauseKinds, RootCauseKinds,
    Producers, TrustedProducers,
    Deltas, Amounts,   \* bound: values of ChangeEvent.Delta, CauseEvent.Amount
    CheckAmounts,      \* Config.CheckAmounts
    IntLimit,          \* an int64 ranges over -IntLimit .. IntLimit - 1
    MaxEvidence,       \* Config.MaxEvidencePerActor
    Closers,           \* goroutines that call CloseDue or CloseAll
    MaxCalls           \* bound: Observe calls in a behaviour

ASSUME ConfigAssumption ==
    /\ WindowSize \in Nat \ {0} /\ Grace \in Nat
    /\ EventTimes \subseteq Nat /\ ClockTimes \subseteq Nat
    /\ Capacity \in Nat \ {0}
    /\ IntLimit \in Nat \ {0}
    /\ Deltas \subseteq Int /\ Amounts \subseteq Int
    /\ CheckAmounts \in BOOLEAN
    /\ MaxEvidence \in Nat \ {0} /\ MaxCalls \in Nat

VARIABLES
    ids,       \* idmap: ids[i + 1] is the key with id i
    open,      \* keys of Monitor.windows
    closed,    \* keys of Monitor.closed
    window,    \* the window objects, by start
    pending,   \* Monitor.pending
    calls,     \* number of Observe calls so far
    closer,    \* what each closer is doing
    delivered  \* alerts returned to callers

vars == <<ids, open, closed, window, pending, calls, closer, delivered>>

-----------------------------------------------------------------------------
(* Values *)

Ids      == 0 .. Capacity - 1
Channels == {"change", "cause"}
Int64    == -IntLimit .. IntLimit - 1

\* int64 addition wraps.
Wrap(x) == ((x + IntLimit) % (2 * IntLimit)) - IntLimit

\* time.Truncate
WindowStart(ts) == ts - (ts % WindowSize)
Starts == {WindowStart(ts) : ts \in EventTimes}

Window == [changed : SUBSET Ids, justified : SUBSET Ids,
           derived : SUBSET Ids, rooted : SUBSET Ids,
           changeSum : [Ids -> Int64], causeSum : [Ids -> Int64],
           evidence : [Ids -> Seq(Channels)]]

newWindow == [changed |-> {}, justified |-> {}, derived |-> {}, rooted |-> {},
              changeSum |-> [i \in Ids |-> 0], causeSum |-> [i \in Ids |-> 0],
              evidence |-> [i \in Ids |-> <<>>]]

IngestTypes  == {"late_event", "capacity_exceeded", "untrusted_producer"}
VerdictTypes == {"unauthorized_change", "missing_change", "forged_cause", "amount_mismatch"}

\* call: which Observe call raised the alert, 0 for an alert raised at close.
Alert == [type : IngestTypes \cup VerdictTypes, window : Starts,
          actors : SUBSET Actors, call : 0 .. MaxCalls]

NoKey  == -1
Closer == [at : {"idle", "closing", "judging"}, due : SUBSET Starts,
           key : Starts \cup {NoKey}, out : SUBSET Alert]
idleCloser == [at |-> "idle", due |-> {}, key |-> NoKey, out |-> {}]

-----------------------------------------------------------------------------
(* The id map, as the engine uses it *)

Interned == {ids[i] : i \in DOMAIN ids}

\* Intern's result: the id of the key, or the next free one.
IdOf(a) == IF a \in Interned THEN (CHOOSE i \in DOMAIN ids : ids[i] = a) - 1
                             ELSE Len(ids)

Intern(a) == ids' = IF a \in Interned THEN ids ELSE Append(ids, a)

Names(S) == {ids[i + 1] : i \in S}

-----------------------------------------------------------------------------
(* Ingest *)

NeverLate(w) == FALSE                          \* mutant: closed is not consulted
IsLate(w)    == w \in closed

FitsOneMore(id) == id <= Capacity              \* mutant
Fits(id)        == id < Capacity               \* bitset.Set.Add's return value

AnyProducer(producer) == TRUE                  \* mutant: no allow-list
Trusted(producer) == TrustedProducers = {} \/ producer \in TrustedProducers

AddEvidenceShort(lines, channel) ==            \* mutant: off by one
    IF Len(lines) + 1 < MaxEvidence THEN Append(lines, channel) ELSE lines
AddEvidence(lines, channel) ==
    IF Len(lines) < MaxEvidence THEN Append(lines, channel) ELSE lines

RaiseOver(type, w, a) ==                       \* mutant: earlier alerts are overwritten
    pending' = {[type |-> type, window |-> w, actors |-> {a}, call |-> calls + 1]}
Raise(type, w, a) ==
    pending' = pending \cup {[type |-> type, window |-> w, actors |-> {a}, call |-> calls + 1]}

RecordChange(win, id, delta) ==
    [win EXCEPT !.changed = @ \cup {id},
                !.changeSum[id] = Wrap(@ + delta),
                !.evidence[id] = AddEvidence(@, "change")]

RecordCause(win, id, kind, amount) ==
    [win EXCEPT !.justified = @ \cup {id},
                !.derived   = IF kind \in DerivedCauseKinds THEN @ \cup {id} ELSE @,
                !.rooted    = IF kind \in RootCauseKinds THEN @ \cup {id} ELSE @,
                !.causeSum[id] = Wrap(@ + amount),
                !.evidence[id] = AddEvidence(@, "cause")]

\* The common part of both handlers once the event is accepted: find or create
\* the window, intern the actor, set the bit or raise capacity_exceeded.
Ingest(a, w, win) ==
    \/ /\ IsLate(w)
       /\ Raise("late_event", w, a)
       /\ UNCHANGED <<ids, open, window>>
    \/ /\ ~IsLate(w)
       /\ open' = open \cup {w}
       /\ Intern(a)
       /\ \/ /\ ~Fits(IdOf(a))
             /\ Raise("capacity_exceeded", w, a)
             /\ UNCHANGED window
          \/ /\ Fits(IdOf(a))
             /\ window' = [window EXCEPT ![w] = win]
             /\ UNCHANGED pending

Called == /\ calls < MaxCalls
          /\ calls' = calls + 1
          /\ UNCHANGED <<closed, closer, delivered>>

ObserveChange(a, ts, delta) ==
    LET w == WindowStart(ts) IN
    /\ Called
    /\ Ingest(a, w, RecordChange(window[w], IdOf(a), delta))

\* Producer identity is checked before the window is even looked up.
RejectCause(a, ts, producer) ==
    /\ Called
    /\ ~Trusted(producer)
    /\ Raise("untrusted_producer", WindowStart(ts), a)
    /\ UNCHANGED <<ids, open, window>>

ObserveCause(a, ts, kind, producer, amount) ==
    LET w == WindowStart(ts) IN
    \/ RejectCause(a, ts, producer)
    \/ /\ Called
       /\ Trusted(producer)
       /\ Ingest(a, w, RecordCause(window[w], IdOf(a), kind, amount))

-----------------------------------------------------------------------------
(* Closing *)

DueAtEnd(now, w) == now >= w + WindowSize      \* mutant: no grace
DueBy(now, w)    == now >= w + WindowSize + Grace

\* CloseDue, CloseAll: list the keys under the lock.  CloseDue takes the due
\* ones.  The slice is sorted, so a closer takes its keys in ascending order.
BeginClose(c, due) ==
    /\ closer[c].at = "idle"
    /\ closer' = [closer EXCEPT ![c] = [idleCloser EXCEPT !.at = "closing", !.due = due]]
    /\ UNCHANGED <<ids, open, closed, window, pending, calls, delivered>>

CloseDue(c, now) == BeginClose(c, {w \in open : DueBy(now, w)})
CloseAll(c)      == BeginClose(c, open)

\* closeWindow, the locked part: nothing to do when another closer was faster.
AlwaysOpen(key) == TRUE                        \* mutant: no nil check
StillOpen(key)  == key \in open

CloseWindow(c) ==
    \E key \in closer[c].due :
        /\ closer[c].at = "closing"
        /\ \A other \in closer[c].due : key <= other
        /\ IF StillOpen(key)
           THEN /\ open' = open \ {key}
                /\ closed' = closed \cup {key}
                /\ closer' = [closer EXCEPT ![c].due = @ \ {key},
                                            ![c].key = key, ![c].at = "judging"]
           ELSE /\ closer' = [closer EXCEPT ![c].due = @ \ {key}]
                /\ UNCHANGED <<open, closed>>
        /\ UNCHANGED <<ids, window, pending, calls, delivered>>

Charge(type, key, S) == [type |-> type, window |-> key, actors |-> Names(S), call |-> 0]

SwappedDifference(S, T) == T \ S               \* mutant
Difference(S, T)        == S \ T               \* bitset.Difference

\* Mutant: the sums are compared for everybody with a cause.
MismatchedCauses(w) == {i \in w.justified : CheckAmounts /\ w.causeSum[i] # w.changeSum[i]}
Mismatched(w) == {i \in w.changed : CheckAmounts /\ w.causeSum[i] # w.changeSum[i]}

Verdict(key) ==
    LET w == window[key] IN
    {alert \in {Charge("unauthorized_change", key, Difference(w.changed, w.justified)),
                Charge("missing_change", key, Difference(w.justified, w.changed)),
                Charge("forged_cause", key, Difference(w.derived, w.rooted)),
                Charge("amount_mismatch", key, Mismatched(w))} :
        alert.actors # {}}

\* closeWindow after the unlock: the window object is no longer shared.
Judge(c) ==
    /\ closer[c].at = "judging"
    /\ closer' = [closer EXCEPT ![c].out = @ \cup Verdict(closer[c].key),
                                ![c].key = NoKey, ![c].at = "closing"]
    /\ UNCHANGED <<ids, open, closed, window, pending, calls, delivered>>

\* What the call returns: everything pending, then what it found itself.
PendingOnly(c) == pending                      \* mutant: out is dropped
Batch(c)       == pending \cup closer[c].out

\* drainPending
Return(c) ==
    /\ closer[c].at = "closing" /\ closer[c].due = {}
    /\ delivered' = delivered \cup Batch(c)
    /\ pending' = {}
    /\ closer' = [closer EXCEPT ![c] = idleCloser]
    /\ UNCHANGED <<ids, open, closed, window, calls>>

-----------------------------------------------------------------------------
Init ==
    /\ ids = <<>>
    /\ open = {} /\ closed = {}
    /\ window = [w \in Starts |-> newWindow]
    /\ pending = {} /\ delivered = {}
    /\ calls = 0
    /\ closer = [c \in Closers |-> idleCloser]

Observe ==
    \E a \in Actors, ts \in EventTimes :
        \/ \E d \in Deltas : ObserveChange(a, ts, d)
        \/ \E k \in Kinds, p \in Producers, n \in Amounts : ObserveCause(a, ts, k, p, n)

Continue(c) == CloseWindow(c) \/ Judge(c) \/ Return(c)

Close(c) ==
    \/ \E now \in ClockTimes : CloseDue(c, now)
    \/ CloseAll(c)
    \/ Continue(c)

Next == Observe \/ \E c \in Closers : Close(c)

Spec == Init /\ [][Next]_vars

-----------------------------------------------------------------------------
(* Properties *)

TypeOK ==
    /\ ids \in Seq(Actors)
    /\ open \subseteq Starts /\ closed \subseteq Starts
    /\ window \in [Starts -> Window]
    /\ pending \subseteq Alert /\ delivered \subseteq Alert
    /\ calls \in 0 .. MaxCalls
    /\ closer \in [Closers -> Closer]

\* No two closers work on one window, and none works on a window some verdict
\* has been given for.
JudgedOnce ==
    \A c, d \in Closers : closer[c].at = "judging" =>
        /\ c # d /\ closer[d].at = "judging" => closer[c].key # closer[d].key
        /\ \A al \in delivered \cup closer[d].out : al.call = 0 => al.window # closer[c].key

\* An alert is in one place: pending, the batch of one call, or delivered.
InOnePlace ==
    /\ pending \cap delivered = {}
    /\ \A c, d \in Closers : /\ closer[c].out \cap delivered = {}
                             /\ c # d => closer[c].out \cap closer[d].out = {}

\* Concurrent CloseDue and CloseAll (a tick and a shutdown, say) never judge a
\* window twice and never return an alert twice.  (closeWindow's nil check;
\* drainPending's swap under the lock.)
ReportedOnce == JudgedOnce /\ InOnePlace

\* A closed window stays closed and its sets stay what they were when it was
\* taken out of the map: the verdict, computed without the lock, does not
\* depend on when it is computed.
FrozenAfterClose ==
    [][\A w \in closed : w \in closed' /\ w \notin open' /\ window'[w] = window[w]]_vars

\* The evidence shown with a charge supports it: an actor accused of an
\* unauthorized change is shown with changes only, one with a missing change
\* with causes only, and nobody is named without any evidence.
EvidenceOf(al) == {window[al.window].evidence[i] :
                      i \in {j \in Ids : j < Len(ids) /\ ids[j + 1] \in al.actors}}

EvidenceSupportsCharge ==
    \A c \in Closers : \A al \in delivered \cup closer[c].out :
        al.type \in VerdictTypes =>
            \A lines \in EvidenceOf(al) :
                /\ lines # <<>>
                /\ al.type = "unauthorized_change" => \A k \in DOMAIN lines : lines[k] = "change"
                /\ al.type = "missing_change" => \A k \in DOMAIN lines : lines[k] = "cause"

-----------------------------------------------------------------------------
(* The engine implements CauseJustified *)

\* What a window's sum for the id of a says of a.
SumFor(a, sums) == IF a \in Interned /\ IdOf(a) \in Ids THEN sums[IdOf(a)] ELSE 0

PhaseOf(w) == IF w \notin closed THEN "open"
              ELSE IF \E c \in Closers : closer[c].key = w THEN "sealed" ELSE "judged"

Abstract == INSTANCE CauseJustified WITH
    tracked    <- {ids[i] : i \in {j \in DOMAIN ids : j <= Capacity}},
    changed    <- [w \in Starts |-> Names(window[w].changed)],
    justified  <- [w \in Starts |-> Names(window[w].justified)],
    derived    <- [w \in Starts |-> Names(window[w].derived)],
    rooted     <- [w \in Starts |-> Names(window[w].rooted)],
    moved      <- [w \in Starts |-> [a \in Actors |-> SumFor(a, window[w].changeSum)]],
    authorized <- [w \in Starts |-> [a \in Actors |-> SumFor(a, window[w].causeSum)]],
    phase      <- [w \in Starts |-> PhaseOf(w)],
    findings   <- pending \cup delivered \cup UNION {closer[c].out : c \in Closers}

\* Every step of the engine is a step of CauseJustified or changes nothing in
\* it: ids, closers and lock hand-overs do not show.  In particular every
\* refused event becomes exactly one finding and no finding is ever lost.
ImplementsCauseJustified == Abstract!Spec

\* Event for event: a change, and a cause from a trusted producer, is recorded
\* for its own actor in its own window, with its kind and its amount, or it is
\* refused by name; a cause from outside the allow-list is never recorded.
EventsAreAnswered ==
    [][\A a \in Actors, ts \in EventTimes :
        LET w       == WindowStart(ts)
            Refused == \E type \in {"late_event", "capacity_exceeded"} : Abstract!Refuse(type, a, w)
        IN  /\ \A d \in Deltas : ObserveChange(a, ts, d) => Abstract!Change(a, w, d) \/ Refused
            /\ \A k \in Kinds, p \in Producers, n \in Amounts :
                ObserveCause(a, ts, k, p, n) =>
                    Abstract!Cause(a, w, k, p, n) \/ Abstract!Distrust(a, w, p) \/ Refused]_vars

\* CauseJustified!FindingsAreExact of the engine's own state: actor for actor,
\* the alerts about a window are the verdict over what was recorded in it.
AccusationsAreExact == Abstract!FindingsAreExact
=============================================================================
