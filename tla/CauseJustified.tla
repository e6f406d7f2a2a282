--------------------------- MODULE CauseJustified ---------------------------
(***************************************************************************)
(* What one monitor promises, in terms of actors and windows only.         *)
(*                                                                         *)
(* Every call of ObserveChange / ObserveCause is either recorded in the    *)
(* window of its event time or answered with a finding.  A window is       *)
(* sealed, then judged once, and its verdict is computed from everything   *)
(* recorded before it was sealed:  V(w) = Changed(w) \ Justified(w), its   *)
(* converse, and the nested and conservation invariants.                   *)
(*                                                                         *)
(* There are no ids, no locks, no closers and no queues here: module       *)
(* Monitor has them and implements this one.                               *)
(***************************************************************************)
EXTENDS Integers, FiniteSets

CONSTANTS
    Actors,            \* actor keys
    WindowSize,        \* Config.WindowSize
    EventTimes,        \* the event times that occur
    Capacity,          \* Config.Capacity: how many actors can be tracked
    Kinds,             \* cause kinds
    DerivedCauseKinds, \* Config.DerivedCauseKinds
    RootCauseKinds,    \* Config.RootCauseKinds
    Producers,         \* publisher identities
    TrustedProducers,  \* Config.TrustedProducers; {} trusts everyone
    Deltas,            \* values of ChangeEvent.Delta
    Amounts,           \* values of CauseEvent.Amount
    CheckAmounts,      \* Config.CheckAmounts
    MaxCalls           \* bound: Observe calls in a behaviour

VARIABLES
    calls,      \* Observe calls so far
    tracked,    \* actors the monitor can see
    changed,    \* changed[w]: actors with a recorded change in w
    justified,  \* justified[w]: actors with a recorded cause in w
    derived,    \* derived[w]: ... with a derived cause
    rooted,     \* rooted[w]: ... with a root cause
    moved,      \* moved[w][a]: sum of the deltas
    authorized, \* authorized[w][a]: sum of the authorized amounts
    phase,      \* phase[w]
    findings    \* every alert ever raised

vars == <<calls, tracked, changed, justified, derived, rooted,
          moved, authorized, phase, findings>>

WindowOf(ts) == (ts \div WindowSize) * WindowSize
Windows      == {WindowOf(ts) : ts \in EventTimes}

\* call is the number of the Observe call that raised the finding; 0 for a
\* finding of a window's verdict.
Finding(type, w, actors, call) ==
    [type |-> type, window |-> w, actors |-> actors, call |-> call]

Init ==
    /\ calls = 0
    /\ tracked = {}
    /\ changed    = [w \in Windows |-> {}]
    /\ justified  = [w \in Windows |-> {}]
    /\ derived    = [w \in Windows |-> {}]
    /\ rooted     = [w \in Windows |-> {}]
    /\ moved      = [w \in Windows |-> [a \in Actors |-> 0]]
    /\ authorized = [w \in Windows |-> [a \in Actors |-> 0]]
    /\ phase      = [w \in Windows |-> "open"]
    /\ findings = {}

-----------------------------------------------------------------------------
(* Observe calls *)

Called == calls < MaxCalls /\ calls' = calls + 1

Track(a) ==
    /\ a \in tracked \/ Cardinality(tracked) < Capacity
    /\ tracked' = tracked \cup {a}

\* The call changes nothing but is answered with a finding.
Refuse(type, a, w) ==
    /\ Called
    /\ \/ type = "late_event" /\ phase[w] # "open"
       \/ /\ type = "capacity_exceeded"
          /\ phase[w] = "open" /\ a \notin tracked /\ Cardinality(tracked) >= Capacity
    /\ findings' = findings \cup {Finding(type, w, {a}, calls + 1)}
    /\ UNCHANGED <<tracked, changed, justified, derived, rooted, moved, authorized, phase>>

\* A cause from outside the allow-list, whatever the state of its window.
Distrust(a, w, producer) ==
    /\ Called
    /\ TrustedProducers # {} /\ producer \notin TrustedProducers
    /\ findings' = findings \cup {Finding("untrusted_producer", w, {a}, calls + 1)}
    /\ UNCHANGED <<tracked, changed, justified, derived, rooted, moved, authorized, phase>>

Change(a, w, delta) ==
    /\ Called
    /\ phase[w] = "open"
    /\ Track(a)
    /\ changed' = [changed EXCEPT ![w] = @ \cup {a}]
    /\ moved'   = [moved EXCEPT ![w][a] = @ + delta]
    /\ UNCHANGED <<justified, derived, rooted, authorized, phase, findings>>

Cause(a, w, kind, producer, amount) ==
    /\ Called
    /\ TrustedProducers = {} \/ producer \in TrustedProducers
    /\ phase[w] = "open"
    /\ Track(a)
    /\ justified'  = [justified EXCEPT ![w] = @ \cup {a}]
    /\ derived'    = [derived EXCEPT ![w] = @ \cup {x \in {a} : kind \in DerivedCauseKinds}]
    /\ rooted'     = [rooted EXCEPT ![w] = @ \cup {x \in {a} : kind \in RootCauseKinds}]
    /\ authorized' = [authorized EXCEPT ![w][a] = @ + amount]
    /\ UNCHANGED <<changed, moved, phase, findings>>

-----------------------------------------------------------------------------
(* Closing *)

Verdict(w) ==
    {f \in {Finding("unauthorized_change", w, changed[w] \ justified[w], 0),
            Finding("missing_change",      w, justified[w] \ changed[w], 0),
            Finding("forged_cause",        w, derived[w] \ rooted[w], 0),
            Finding("amount_mismatch",     w,
                    {a \in changed[w] : CheckAmounts /\ moved[w][a] # authorized[w][a]}, 0)} :
        f.actors # {}}

Seal(w) ==
    /\ phase[w] = "open"
    /\ phase' = [phase EXCEPT ![w] = "sealed"]
    /\ UNCHANGED <<calls, tracked, changed, justified, derived, rooted, moved, authorized, findings>>

Judge(w) ==
    /\ phase[w] = "sealed"
    /\ phase' = [phase EXCEPT ![w] = "judged"]
    /\ findings' = findings \cup Verdict(w)
    /\ UNCHANGED <<calls, tracked, changed, justified, derived, rooted, moved, authorized>>

Next ==
    \E w \in Windows :
        \/ Seal(w)
        \/ Judge(w)
        \/ \E a \in Actors :
            \/ \E type \in {"late_event", "capacity_exceeded"} : Refuse(type, a, w)
            \/ \E p \in Producers : Distrust(a, w, p)
            \/ \E d \in Deltas : Change(a, w, d)
            \/ \E k \in Kinds, p \in Producers, n \in Amounts : Cause(a, w, k, p, n)

Spec == Init /\ [][Next]_vars

-----------------------------------------------------------------------------
\* The findings about a window are exactly its verdict once it is judged and
\* none before: nobody is accused who is not in Changed \ Justified of the
\* recorded events, nobody in it is left out, and nothing recorded afterwards
\* can make a verdict wrong (monitor.go closeWindow, README A2).
FindingsAreExact ==
    \A w \in Windows :
        {f \in findings : f.window = w /\ f.call = 0}
            = IF phase[w] = "judged" THEN Verdict(w) ELSE {}
=============================================================================
