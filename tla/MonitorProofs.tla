--------------------------- MODULE MonitorProofs ---------------------------
(* Theorems about Monitor, for every configuration, actor set and closer set. *)
EXTENDS Monitor, TLAPS

-----------------------------------------------------------------------------
(* Type correctness *)

\* The ids a window mentions.
Recorded(win) == win.changed \cup win.justified \cup win.derived \cup win.rooted

\* TypeOK is not inductive: that an alert names actors needs every recorded id
\* to be one that Intern handed out, and that Judge looks at a window needs a
\* judging closer to hold a key.
TypeInv ==
    /\ TypeOK
    /\ \A w \in Starts : \A i \in Recorded(window[w]) : i < Len(ids)
    /\ \A c \in Closers : closer[c].at = "judging" => closer[c].key \in Starts

\* int64 addition stays in int64.
LEMMA WrapIsInt64 == \A x \in Int : Wrap(x) \in Int64
<1> SUFFICES ASSUME NEW x \in Int PROVE Wrap(x) \in Int64
  OBVIOUS
<1> DEFINE m == 2 * IntLimit
           r == (x + IntLimit) % m
<1>1. m \in Nat \ {0}
  BY ConfigAssumption
<1>2. r \in 0 .. m - 1
  <2> HIDE DEF m
  <2> QED BY <1>1, ConfigAssumption
<1>3. QED
  BY <1>2, ConfigAssumption DEF Wrap, Int64

\* Interning a key keeps the map a sequence of keys and returns an id in it.
LEMMA InternTyped ==
    ASSUME ids \in Seq(Actors), NEW a \in Actors, Intern(a)
    PROVE  /\ ids' \in Seq(Actors)
           /\ Len(ids) <= Len(ids')
           /\ IdOf(a) \in 0 .. Len(ids') - 1
<1>1. CASE a \in Interned
  <2>1. PICK i \in DOMAIN ids : ids[i] = a
    BY <1>1 DEF Interned
  <2>2. (CHOOSE j \in DOMAIN ids : ids[j] = a) \in 1 .. Len(ids)
    BY <2>1
  <2> QED BY <1>1, <2>2 DEF Intern, IdOf
<1>2. CASE a \notin Interned
  BY <1>2 DEF Intern, IdOf
<1> QED BY <1>1, <1>2

LEMMA EvidenceTyped ==
    ASSUME NEW lines \in Seq(Channels), NEW channel \in Channels
    PROVE  AddEvidence(lines, channel) \in Seq(Channels)
BY DEF AddEvidence

\* Recording an event in a window gives a window that mentions one id more.
LEMMA RecordChangeTyped ==
    ASSUME NEW win \in Window, NEW id \in Ids, NEW delta \in Int
    PROVE  /\ RecordChange(win, id, delta) \in Window
           /\ Recorded(RecordChange(win, id, delta)) = Recorded(win) \cup {id}
<1>1. Wrap(win.changeSum[id] + delta) \in Int64
  <2>1. win.changeSum \in [Ids -> Int64]
    BY DEF Window
  <2>2. win.changeSum[id] + delta \in Int
    BY <2>1, ConfigAssumption DEF Int64
  <2> QED BY <2>2, WrapIsInt64
<1>2. AddEvidence(win.evidence[id], "change") \in Seq(Channels)
  BY EvidenceTyped DEF Window, Channels
<1> QED BY <1>1, <1>2 DEF RecordChange, Window, Recorded

LEMMA RecordCauseTyped ==
    ASSUME NEW win \in Window, NEW id \in Ids, NEW kind, NEW amount \in Int
    PROVE  /\ RecordCause(win, id, kind, amount) \in Window
           /\ Recorded(RecordCause(win, id, kind, amount)) = Recorded(win) \cup {id}
<1>1. Wrap(win.causeSum[id] + amount) \in Int64
  <2>1. win.causeSum \in [Ids -> Int64]
    BY DEF Window
  <2>2. win.causeSum[id] + amount \in Int
    BY <2>1, ConfigAssumption DEF Int64
  <2> QED BY <2>2, WrapIsInt64
<1>2. AddEvidence(win.evidence[id], "cause") \in Seq(Channels)
  BY EvidenceTyped DEF Window, Channels
<1> DEFINE d == IF kind \in DerivedCauseKinds THEN win.derived \cup {id} ELSE win.derived
           r == IF kind \in RootCauseKinds THEN win.rooted \cup {id} ELSE win.rooted
           sums  == [win.causeSum EXCEPT ![id] = Wrap(@ + amount)]
           lines == [win.evidence EXCEPT ![id] = AddEvidence(@, "cause")]
           new == [changed |-> win.changed, justified |-> win.justified \cup {id},
                   derived |-> d, rooted |-> r, changeSum |-> win.changeSum,
                   causeSum |-> sums, evidence |-> lines]
<1>3. d \in {win.derived, win.derived \cup {id}} /\ r \in {win.rooted, win.rooted \cup {id}}
  OBVIOUS
<1>4. sums \in [Ids -> Int64] /\ lines \in [Ids -> Seq(Channels)]
  BY <1>1, <1>2 DEF Window
<1>5. RecordCause(win, id, kind, amount) =
        [win EXCEPT !.justified = @ \cup {id}, !.derived = d, !.rooted = r,
                    !.causeSum = sums, !.evidence = lines]
  BY DEF RecordCause, Window
<1> HIDE DEF d, r, sums, lines
<1>6. RecordCause(win, id, kind, amount) = new
  BY <1>5 DEF Window
<1>7. new \in Window
  BY <1>3, <1>4 DEF Window
<1>8. Recorded(new) = Recorded(win) \cup {id}
  BY <1>3 DEF Recorded
<1> QED BY <1>6, <1>7, <1>8

\* An alert raised at ingest is a well-formed alert.
LEMMA RaiseTyped ==
    ASSUME TypeOK, calls < MaxCalls, NEW a \in Actors, NEW w \in Starts,
           NEW type \in IngestTypes, Raise(type, w, a)
    PROVE  pending' \subseteq Alert
<1>1. calls + 1 \in 0 .. MaxCalls
  BY ConfigAssumption DEF TypeOK
<1>2. [type |-> type, window |-> w, actors |-> {a}, call |-> calls + 1] \in Alert
  BY <1>1 DEF Alert
<1> QED BY <1>2 DEF Raise, TypeOK

\* The common part of the two handlers.
LEMMA IngestTyped ==
    ASSUME TypeInv, NEW a \in Actors, NEW w \in Starts, NEW win, Called, Ingest(a, w, win),
           IdOf(a) \in Ids => /\ win \in Window
                              /\ Recorded(win) = Recorded(window[w]) \cup {IdOf(a)}
    PROVE  TypeInv'
<1>1. calls' \in 0 .. MaxCalls
  BY ConfigAssumption DEF TypeInv, TypeOK, Called
<1>2. CASE IsLate(w) /\ Raise("late_event", w, a) /\ UNCHANGED <<ids, open, window>>
  <2>1. pending' \subseteq Alert
    BY <1>2, RaiseTyped DEF TypeInv, Called, IngestTypes
  <2> QED BY <1>1, <1>2, <2>1 DEF TypeInv, TypeOK, Called, Recorded
<1>3. CASE ~IsLate(w) /\ open' = open \cup {w} /\ Intern(a)
  <2>1. /\ ids' \in Seq(Actors)
        /\ Len(ids) <= Len(ids')
        /\ IdOf(a) \in 0 .. Len(ids') - 1
    BY <1>3, InternTyped DEF TypeInv, TypeOK
  <2>2. Len(ids) \in Nat /\ Len(ids') \in Nat
    BY <2>1 DEF TypeInv, TypeOK
  <2>3. \A v \in Starts : Recorded(window[v]) \subseteq Ids
    BY DEF TypeInv, TypeOK, Window, Recorded
  <2>4. CASE ~Fits(IdOf(a)) /\ Raise("capacity_exceeded", w, a) /\ UNCHANGED window
    <3>1. pending' \subseteq Alert
      BY <1>3, <2>4, RaiseTyped DEF TypeInv, Called, IngestTypes
    <3>2. \A v \in Starts : \A i \in Recorded(window[v])' : i < Len(ids')
      BY <2>1, <2>2, <2>3, <2>4 DEF TypeInv, Ids, Recorded
    <3> QED BY <1>1, <1>3, <2>1, <2>4, <3>1, <3>2 DEF TypeInv, TypeOK, Called, Recorded
  <2>5. CASE Fits(IdOf(a)) /\ window' = [window EXCEPT ![w] = win] /\ UNCHANGED pending
    <3>1. IdOf(a) \in Ids
      BY <2>1, <2>2, <2>5, ConfigAssumption DEF Fits, Ids
    <3>2. window' \in [Starts -> Window]
      BY <2>5, <3>1 DEF TypeInv, TypeOK
    <3>3. ASSUME NEW v \in Starts, NEW i \in Recorded(window'[v]) PROVE i < Len(ids')
      <4>1. i \in Recorded(window[v]) \/ i = IdOf(a)
        BY <2>5, <3>1, <3>3 DEF TypeInv, TypeOK
      <4>2. CASE i = IdOf(a)
        BY <2>1, <2>2, <4>2
      <4>3. CASE i \in Recorded(window[v])
        BY <2>1, <2>2, <2>3, <4>3 DEF TypeInv, Ids
      <4> QED BY <4>1, <4>2, <4>3
    <3> QED BY <1>1, <1>3, <2>1, <2>5, <3>2, <3>3 DEF TypeInv, TypeOK, Called, Recorded
  <2> QED BY <1>3, <2>4, <2>5 DEF Ingest
<1> QED BY <1>2, <1>3 DEF Ingest

\* Everybody a verdict names is an actor.
LEMMA VerdictTyped ==
    ASSUME TypeInv, NEW key \in Starts
    PROVE  Verdict(key) \subseteq {al \in Alert : al.window = key /\ al.call = 0}
<1> DEFINE w == window[key]
<1>1. w \in Window /\ Recorded(w) \subseteq Ids /\ \A i \in Recorded(w) : i < Len(ids)
  BY DEF TypeInv, TypeOK, Window, Recorded
<1>2. ASSUME NEW S \in SUBSET Recorded(w) PROVE Names(S) \subseteq Actors
  <2>1. ASSUME NEW i \in S PROVE ids[i + 1] \in Actors
    <3>1. i + 1 \in 1 .. Len(ids)
      BY <1>1, ConfigAssumption DEF Ids, TypeInv, TypeOK
    <3> QED BY <3>1 DEF TypeInv, TypeOK
  <2> QED BY <2>1 DEF Names
<1>3. ASSUME NEW type \in VerdictTypes, NEW S \in SUBSET Recorded(w)
      PROVE  Charge(type, key, S) \in {al \in Alert : al.window = key /\ al.call = 0}
  BY <1>2, ConfigAssumption DEF Charge, Alert
<1>4. /\ Difference(w.changed, w.justified) \subseteq Recorded(w)
      /\ Difference(w.justified, w.changed) \subseteq Recorded(w)
      /\ Difference(w.derived, w.rooted) \subseteq Recorded(w)
      /\ Mismatched(w) \subseteq Recorded(w)
  BY DEF Difference, Mismatched, Recorded
<1> HIDE DEF w
<1> QED BY <1>3, <1>4 DEF Verdict, VerdictTypes, w

LEMMA TypeInit == Init => TypeInv
<1> SUFFICES ASSUME Init PROVE TypeInv
  OBVIOUS
<1>1. newWindow \in Window
  <2>1. 0 \in Int64
    BY ConfigAssumption DEF Int64
  <2> QED BY <2>1 DEF newWindow, Window
<1>2. Recorded(newWindow) = {}
  BY DEF newWindow, Recorded
<1>3. \A c \in Closers : closer[c] = idleCloser
  BY DEF Init
<1>4. idleCloser \in Closer /\ idleCloser.at # "judging"
  BY DEF idleCloser, Closer
<1>5. TypeOK
  <2>1. closer \in [Closers -> Closer]
    BY <1>4 DEF Init
  <2> QED BY <1>1, <2>1, ConfigAssumption DEF Init, TypeOK
<1> QED BY <1>2, <1>3, <1>4, <1>5 DEF TypeInv, Init

LEMMA TypeNext == TypeInv /\ [Next]_vars => TypeInv'
<1> SUFFICES ASSUME TypeInv, [Next]_vars PROVE TypeInv'
  OBVIOUS
<1>1. ASSUME NEW a \in Actors, NEW ts \in EventTimes, NEW d \in Deltas, ObserveChange(a, ts, d)
      PROVE  TypeInv'
  <2> DEFINE w == WindowStart(ts)
             win == RecordChange(window[w], IdOf(a), d)
  <2>1. w \in Starts /\ d \in Int
    BY ConfigAssumption DEF Starts
  <2>2. IdOf(a) \in Ids => win \in Window /\ Recorded(win) = Recorded(window[w]) \cup {IdOf(a)}
    BY <2>1, RecordChangeTyped DEF TypeInv, TypeOK
  <2>3. Called /\ Ingest(a, w, win)
    BY <1>1 DEF ObserveChange
  <2> HIDE DEF w, win
  <2> QED BY <2>1, <2>2, <2>3, IngestTyped
<1>2. ASSUME NEW a \in Actors, NEW ts \in EventTimes, NEW k \in Kinds, NEW p \in Producers,
             NEW n \in Amounts, ObserveCause(a, ts, k, p, n)
      PROVE  TypeInv'
  <2> DEFINE w == WindowStart(ts)
             win == RecordCause(window[w], IdOf(a), k, n)
  <2>1. w \in Starts /\ n \in Int
    BY ConfigAssumption DEF Starts
  <2>2. IdOf(a) \in Ids => win \in Window /\ Recorded(win) = Recorded(window[w]) \cup {IdOf(a)}
    BY <2>1, RecordCauseTyped DEF TypeInv, TypeOK
  <2>3. CASE RejectCause(a, ts, p)
    <3>1. pending' \subseteq Alert
      BY <2>1, <2>3, RaiseTyped DEF RejectCause, TypeInv, Called, IngestTypes
    <3>2. calls' \in 0 .. MaxCalls
      BY <2>3, ConfigAssumption DEF RejectCause, TypeInv, TypeOK, Called
    <3> QED BY <2>3, <3>1, <3>2 DEF RejectCause, TypeInv, TypeOK, Called, Recorded
  <2>4. CASE Called /\ Ingest(a, w, win)
    <3> HIDE DEF w, win
    <3> QED BY <2>1, <2>2, <2>4, IngestTyped
  <2> QED BY <1>2, <2>3, <2>4 DEF ObserveCause
<1>3. ASSUME NEW c \in Closers, NEW due \in SUBSET open, BeginClose(c, due) PROVE TypeInv'
  <2>1. [idleCloser EXCEPT !.at = "closing", !.due = due] \in Closer
    BY DEF idleCloser, Closer, TypeInv, TypeOK
  <2>2. [idleCloser EXCEPT !.at = "closing", !.due = due].at = "closing"
    BY DEF idleCloser
  <2> QED BY <1>3, <2>1, <2>2 DEF BeginClose, TypeInv, TypeOK, Recorded
<1>4. ASSUME NEW c \in Closers, CloseWindow(c) PROVE TypeInv'
  <2>1. PICK key \in closer[c].due : CloseWindow(c)!(key)
    BY <1>4 DEF CloseWindow
  <2>2. key \in Starts /\ closer[c] \in Closer
    BY DEF TypeInv, TypeOK, Closer
  <2>3. closer' \in [Closers -> Closer] /\ \A d \in Closers : closer'[d].at = "judging" => closer'[d].key \in Starts
    <3>1. CASE StillOpen(key)
      <4>1. closer' = [closer EXCEPT ![c] = [closer[c] EXCEPT !.due = @ \ {key}, !.key = key, !.at = "judging"]]
        BY <2>1, <2>2, <3>1 DEF TypeInv, TypeOK, Closer
      <4> QED BY <2>2, <4>1 DEF TypeInv, TypeOK, Closer
    <3>2. CASE ~StillOpen(key)
      <4>1. closer' = [closer EXCEPT ![c] = [closer[c] EXCEPT !.due = @ \ {key}]]
        BY <2>1, <2>2, <3>2 DEF TypeInv, TypeOK, Closer
      <4> QED BY <2>2, <4>1 DEF TypeInv, TypeOK, Closer
    <3> QED BY <3>1, <3>2
  <2> QED BY <2>1, <2>2, <2>3 DEF TypeInv, TypeOK, Recorded
<1>5. ASSUME NEW c \in Closers, Judge(c) PROVE TypeInv'
  <2>1. closer[c].key \in Starts /\ closer[c] \in Closer
    BY <1>5 DEF Judge, TypeInv, TypeOK
  <2>2. Verdict(closer[c].key) \subseteq Alert
    BY <2>1, VerdictTyped
  <2>3. closer' = [closer EXCEPT ![c] = [closer[c] EXCEPT !.out = @ \cup Verdict(closer[c].key),
                                                          !.key = NoKey, !.at = "closing"]]
    BY <1>5, <2>1 DEF Judge, TypeInv, TypeOK, Closer
  <2> QED BY <1>5, <2>1, <2>2, <2>3 DEF Judge, TypeInv, TypeOK, Closer, Recorded
<1>6. ASSUME NEW c \in Closers, Return(c) PROVE TypeInv'
  <2>1. idleCloser \in Closer /\ idleCloser.at # "judging"
    BY DEF idleCloser, Closer
  <2>2. delivered' \subseteq Alert
    BY <1>6 DEF Return, Batch, TypeInv, TypeOK, Closer
  <2> QED BY <1>6, <2>1, <2>2 DEF Return, TypeInv, TypeOK, Recorded
<1>7. CASE UNCHANGED vars
  BY <1>7 DEF vars, TypeInv, TypeOK, Recorded
<1> QED
  BY <1>1, <1>2, <1>3, <1>4, <1>5, <1>6, <1>7
     DEF Next, Observe, Close, CloseDue, CloseAll, Continue

\* Monitor.go's state has its types in every reachable state: whatever the
\* window size, the capacity, the actors and the number of goroutines closing.
THEOREM TypeCorrect == Spec => []TypeOK
<1>1. Spec => []TypeInv
  BY TypeInit, TypeNext, PTL DEF Spec
<1>2. TypeInv => TypeOK
  BY DEF TypeInv
<1> QED BY <1>1, <1>2, PTL

-----------------------------------------------------------------------------
(* Windows are judged once, and judged as they were when they were closed *)

\* A closed window is never in the map again.
ClosedForGood == open \cap closed = {}

\* Alerts raised at ingest are numbered by their call, so a new one is new;
\* alerts of a verdict are about a closed window.
AlertsPlaced ==
    /\ \A al \in pending : al.call \in 1 .. calls
    /\ \A al \in delivered : al.call \in 0 .. calls /\ (al.call = 0 => al.window \in closed)
    /\ \A c \in Closers : \A al \in closer[c].out : al.call = 0 /\ al.window \in closed
    /\ \A c \in Closers : closer[c].at = "judging" => closer[c].key \in closed

OnceInv == TypeInv /\ ClosedForGood /\ AlertsPlaced /\ ReportedOnce

LEMMA OnceInit == Init => OnceInv
<1> SUFFICES ASSUME Init PROVE OnceInv
  OBVIOUS
<1>1. TypeInv
  BY TypeInit
<1>2. \A c \in Closers : closer[c] = idleCloser
  BY DEF Init
<1>3. idleCloser.out = {} /\ idleCloser.at = "idle"
  BY DEF idleCloser
<1>4. ClosedForGood /\ AlertsPlaced /\ ReportedOnce
  BY <1>2, <1>3 DEF Init, ClosedForGood, AlertsPlaced, ReportedOnce, JudgedOnce, InOnePlace
<1> QED BY <1>1, <1>4 DEF OnceInv

\* What an Observe call does, whichever alternative it takes: at most one new
\* alert, numbered by the call, and at most one new open window, not closed.
LEMMA ObserveOnce ==
    ASSUME OnceInv, TypeInv', Called,
           pending' = pending \/ \E type, w, a : Raise(type, w, a),
           open' \cap closed = {}
    PROVE  OnceInv'
<1>1. calls \in Nat /\ calls' = calls + 1
      /\ closed' = closed /\ closer' = closer /\ delivered' = delivered
  BY ConfigAssumption DEF Called, OnceInv, TypeInv, TypeOK
<1>2. \A al \in pending' : al.call \in 1 .. calls' /\ (al \notin pending => al.call = calls')
  <2>1. CASE pending' = pending
    BY <1>1, <2>1 DEF OnceInv, AlertsPlaced
  <2>2. ASSUME NEW type, NEW w, NEW a, Raise(type, w, a)
        PROVE  \A al \in pending' : al.call \in 1 .. calls' /\ (al \notin pending => al.call = calls')
    BY <1>1, <2>2 DEF OnceInv, AlertsPlaced, Raise
  <2> QED BY <2>1, <2>2
<1>3. AlertsPlaced'
  BY <1>1, <1>2 DEF OnceInv, AlertsPlaced
<1>4. pending' \cap delivered' = {}
  <2> SUFFICES ASSUME NEW al \in pending', al \in delivered PROVE FALSE
    BY <1>1
  <2>1. al.call \in 0 .. calls
    BY DEF OnceInv, AlertsPlaced
  <2>2. al \in pending
    BY <1>1, <1>2, <2>1
  <2> QED BY <2>2 DEF OnceInv, ReportedOnce, InOnePlace
<1>5. ReportedOnce'
  BY <1>1, <1>4 DEF OnceInv, ReportedOnce, JudgedOnce, InOnePlace
<1> QED BY <1>1, <1>3, <1>5 DEF OnceInv, ClosedForGood

LEMMA IngestOnce ==
    ASSUME OnceInv, TypeInv', NEW a, NEW w, NEW win, Called, Ingest(a, w, win)
    PROVE  OnceInv'
<1>1. pending' = pending \/ \E type, v, b : Raise(type, v, b)
  BY DEF Ingest
<1>2. open' \cap closed = {}
  BY DEF Ingest, IsLate, OnceInv, ClosedForGood
<1> QED BY <1>1, <1>2, ObserveOnce

LEMMA OnceNext == OnceInv /\ [Next]_vars => OnceInv'
<1> SUFFICES ASSUME OnceInv, [Next]_vars PROVE OnceInv'
  OBVIOUS
<1> TypeInv'
  BY TypeNext DEF OnceInv
<1>1. ASSUME NEW a, NEW ts, NEW d, ObserveChange(a, ts, d) PROVE OnceInv'
  BY <1>1, IngestOnce DEF ObserveChange
<1>2. ASSUME NEW a, NEW ts, NEW k, NEW p, NEW n, ObserveCause(a, ts, k, p, n) PROVE OnceInv'
  <2>1. CASE RejectCause(a, ts, p)
    <3>1. Raise("untrusted_producer", WindowStart(ts), a)
      BY <2>1 DEF RejectCause
    <3>2. Called /\ open' = open
      BY <2>1 DEF RejectCause
    <3>3. \E type, w, b : Raise(type, w, b)
      BY <3>1
    <3> QED BY <3>2, <3>3, ObserveOnce DEF OnceInv, ClosedForGood
  <2>2. CASE ~RejectCause(a, ts, p)
    BY <1>2, <2>2, IngestOnce DEF ObserveCause
  <2> QED BY <2>1, <2>2
<1>3. ASSUME NEW c \in Closers, NEW due, BeginClose(c, due) PROVE OnceInv'
  <2>1. /\ closer[c].at = "idle"
        /\ closer'[c].at = "closing" /\ closer'[c].out = {}
        /\ \A d \in Closers \ {c} : closer'[d] = closer[d]
    BY <1>3 DEF BeginClose, idleCloser, OnceInv, TypeInv, TypeOK
  <2>2. \A d \in Closers : closer'[d].out \subseteq closer[d].out
    BY <2>1
  <2>3. \A d \in Closers : closer'[d].at = "judging" => d # c /\ closer'[d] = closer[d]
    BY <2>1
  <2>4. AlertsPlaced' /\ ClosedForGood'
    BY <1>3, <2>2, <2>3 DEF BeginClose, OnceInv, AlertsPlaced, ClosedForGood
  <2>5. JudgedOnce'
    BY <1>3, <2>2, <2>3 DEF BeginClose, OnceInv, ReportedOnce, JudgedOnce
  <2>6. InOnePlace'
    BY <1>3, <2>2 DEF BeginClose, OnceInv, ReportedOnce, InOnePlace
  <2> QED BY <2>4, <2>5, <2>6 DEF OnceInv, ReportedOnce
<1>4. ASSUME NEW c \in Closers, CloseWindow(c) PROVE OnceInv'
  <2>1. PICK key \in closer[c].due : CloseWindow(c)!(key)
    BY <1>4 DEF CloseWindow
  <2>2. key \in Starts /\ closer[c] \in Closer
    BY DEF OnceInv, TypeInv, TypeOK, Closer
  <2>3. /\ \A d \in Closers \ {c} : closer'[d] = closer[d]
        /\ closer'[c].out = closer[c].out
    BY <2>1, <2>2 DEF OnceInv, TypeInv, TypeOK, Closer
  <2>4. CASE StillOpen(key)
    <3>1. closer'[c].at = "judging" /\ closer'[c].key = key
      BY <2>1, <2>2, <2>4 DEF OnceInv, TypeInv, TypeOK, Closer
    <3>2. open' = open \ {key} /\ closed' = closed \cup {key} /\ key \notin closed
      BY <2>1, <2>4 DEF StillOpen, OnceInv, ClosedForGood
    <3>3. AlertsPlaced' /\ ClosedForGood'
      BY <2>1, <2>3, <3>1, <3>2 DEF OnceInv, AlertsPlaced, ClosedForGood
    <3>4. \A d \in Closers \ {c} : closer[d].at = "judging" => closer[d].key # key
      BY <3>2 DEF OnceInv, AlertsPlaced
    <3>5. \A d \in Closers : closer'[d].out = closer[d].out
      BY <2>3
    <3>6. \A d \in Closers : \A al \in delivered \cup closer[d].out : al.call = 0 => al.window # key
      BY <3>2 DEF OnceInv, AlertsPlaced
    <3>7. JudgedOnce'
      BY <2>1, <2>3, <3>1, <3>4, <3>5, <3>6 DEF OnceInv, ReportedOnce, JudgedOnce
    <3>8. InOnePlace'
      BY <2>1, <3>5 DEF OnceInv, ReportedOnce, InOnePlace
    <3> QED BY <3>3, <3>7, <3>8 DEF OnceInv, ReportedOnce
  <2>5. CASE ~StillOpen(key)
    <3>1. closer'[c].at = "closing"
      BY <2>1, <2>2, <2>5 DEF OnceInv, TypeInv, TypeOK, Closer
    <3>2. AlertsPlaced' /\ ClosedForGood'
      BY <2>1, <2>3, <2>5, <3>1 DEF OnceInv, AlertsPlaced, ClosedForGood
    <3>3. JudgedOnce'
      BY <2>1, <2>3, <3>1 DEF OnceInv, ReportedOnce, JudgedOnce
    <3>4. InOnePlace'
      BY <2>1, <2>3 DEF OnceInv, ReportedOnce, InOnePlace
    <3> QED BY <3>2, <3>3, <3>4 DEF OnceInv, ReportedOnce
  <2> QED BY <2>4, <2>5
<1>5. ASSUME NEW c \in Closers, Judge(c) PROVE OnceInv'
  <2> DEFINE key == closer[c].key
  <2>1. key \in Starts /\ key \in closed /\ closer[c].at = "judging"
    BY <1>5 DEF Judge, OnceInv, TypeInv, AlertsPlaced
  <2>2. \A al \in Verdict(key) : al.window = key /\ al.call = 0
    BY <2>1, VerdictTyped DEF OnceInv
  <2>3. /\ \A d \in Closers \ {c} : closer'[d] = closer[d]
        /\ closer'[c].at = "closing"
        /\ closer'[c].out = closer[c].out \cup Verdict(key)
        /\ closed' = closed /\ open' = open /\ calls' = calls
        /\ pending' = pending /\ delivered' = delivered
    BY <1>5 DEF Judge, OnceInv, TypeInv, TypeOK, Closer
  <2>4. \A d \in Closers : \A al \in Verdict(key) : al \notin delivered \cup closer[d].out
    BY <2>1, <2>2 DEF OnceInv, ReportedOnce, JudgedOnce
  <2>5. \A d \in Closers : closer'[d].at = "judging" =>
           d # c /\ closer'[d] = closer[d] /\ closer[d].key # key
    BY <2>1, <2>3 DEF OnceInv, ReportedOnce, JudgedOnce
  <2> HIDE DEF key
  <2>6. AlertsPlaced'
    <3>1. \A d \in Closers : \A al \in closer'[d].out : al \in closer[d].out \cup Verdict(key)
      BY <2>3
    <3>2. \A d \in Closers : \A al \in closer'[d].out : al.call = 0 /\ al.window \in closed
      BY <2>1, <2>2, <2>3, <3>1 DEF OnceInv, AlertsPlaced
    <3> QED BY <2>3, <2>5, <3>2 DEF OnceInv, AlertsPlaced
  <2>7. JudgedOnce'
    <3> SUFFICES ASSUME NEW b \in Closers, NEW d \in Closers, closer'[b].at = "judging"
                 PROVE  /\ b # d /\ closer'[d].at = "judging" => closer'[b].key # closer'[d].key
                        /\ \A al \in delivered \cup closer'[d].out : al.call = 0 => al.window # closer'[b].key
      BY <2>3 DEF JudgedOnce
    <3>1. b # c /\ closer'[b] = closer[b] /\ closer[b].key # key
      BY <2>5
    <3>2. \A al \in delivered \cup closer[d].out : al.call = 0 => al.window # closer[b].key
      BY <3>1 DEF OnceInv, ReportedOnce, JudgedOnce
    <3>3. \A al \in closer'[d].out : al \in closer[d].out \cup Verdict(key)
      BY <2>3
    <3>4. \A al \in delivered \cup closer'[d].out : al.call = 0 => al.window # closer'[b].key
      BY <2>2, <3>1, <3>2, <3>3
    <3>5. b # d /\ closer'[d].at = "judging" => closer'[b].key # closer'[d].key
      BY <2>5, <3>1 DEF OnceInv, ReportedOnce, JudgedOnce
    <3> QED BY <3>4, <3>5
  <2>8. InOnePlace'
    BY <2>3, <2>4 DEF OnceInv, ReportedOnce, InOnePlace
  <2>9. ClosedForGood'
    BY <2>3 DEF OnceInv, ClosedForGood
  <2> QED BY <2>6, <2>7, <2>8, <2>9 DEF OnceInv, ReportedOnce
<1>6. ASSUME NEW c \in Closers, Return(c) PROVE OnceInv'
  <2>1. /\ \A d \in Closers \ {c} : closer'[d] = closer[d]
        /\ closer'[c].at = "idle" /\ closer'[c].out = {}
        /\ closer[c].at = "closing"
        /\ pending' = {} /\ delivered' = delivered \cup pending \cup closer[c].out
    BY <1>6 DEF Return, Batch, idleCloser, OnceInv, TypeInv, TypeOK
  <2>2. calls \in Nat
    BY ConfigAssumption DEF OnceInv, TypeInv, TypeOK
  <2>3. AlertsPlaced' /\ ClosedForGood'
    BY <1>6, <2>1, <2>2 DEF Return, OnceInv, AlertsPlaced, ClosedForGood
  <2>4. \A al \in pending : al.call # 0
    BY <2>2 DEF OnceInv, AlertsPlaced
  <2>5. \A d \in Closers : closer'[d].out \subseteq closer[d].out
    BY <2>1
  <2>6. JudgedOnce'
    <3> SUFFICES ASSUME NEW b \in Closers, NEW d \in Closers, closer'[b].at = "judging"
                 PROVE  /\ b # d /\ closer'[d].at = "judging" => closer'[b].key # closer'[d].key
                        /\ \A al \in delivered' \cup closer'[d].out : al.call = 0 => al.window # closer'[b].key
      BY DEF JudgedOnce
    <3>1. b # c /\ closer'[b] = closer[b]
      BY <2>1
    <3>2. \A e \in Closers : \A al \in delivered \cup closer[e].out : al.call = 0 => al.window # closer[b].key
      BY <3>1 DEF OnceInv, ReportedOnce, JudgedOnce
    <3>3. \A al \in delivered' \cup closer'[d].out : al.call = 0 => al.window # closer'[b].key
      BY <2>1, <2>4, <2>5, <3>1, <3>2
    <3>4. b # d /\ closer'[d].at = "judging" => closer'[b].key # closer'[d].key
      BY <2>1, <3>1 DEF OnceInv, ReportedOnce, JudgedOnce
    <3> QED BY <3>3, <3>4
  <2>7. InOnePlace'
    <3>1. \A d \in Closers : closer'[d].out \cap delivered' = {}
      BY <2>1, <2>4 DEF OnceInv, ReportedOnce, InOnePlace, AlertsPlaced
    <3> QED BY <2>1, <2>5, <3>1 DEF OnceInv, ReportedOnce, InOnePlace
  <2> QED BY <2>3, <2>6, <2>7 DEF OnceInv, ReportedOnce
<1>7. CASE UNCHANGED vars
  BY <1>7 DEF vars, OnceInv, ClosedForGood, AlertsPlaced, ReportedOnce, JudgedOnce, InOnePlace
<1> QED
  BY <1>1, <1>2, <1>3, <1>4, <1>5, <1>6, <1>7
     DEF Next, Observe, Close, CloseDue, CloseAll, Continue

LEMMA SpecOnceInv == Spec => []OnceInv
BY OnceInit, OnceNext, PTL DEF Spec

\* However many goroutines call CloseDue and CloseAll at once, a window is
\* judged by one of them and every alert is returned by one call only.
THEOREM ReportsOnce == Spec => []ReportedOnce
<1>1. OnceInv => ReportedOnce
  BY DEF OnceInv
<1> QED BY <1>1, SpecOnceInv, PTL

\* Once closeWindow has taken a window out of the map, no event is recorded in
\* it and it never comes back.
THEOREM WindowsFreeze == Spec => FrozenAfterClose
<1> DEFINE Frozen == \A w \in closed : w \in closed' /\ w \notin open' /\ window'[w] = window[w]
<1>1. ASSUME OnceInv, OnceInv', [Next]_vars PROVE [Frozen]_vars
  <2>1. ASSUME NEW a, NEW ts, NEW win, Ingest(a, ts, win) PROVE \A w \in closed : window'[w] = window[w]
    BY <1>1, <2>1 DEF Ingest, IsLate, OnceInv, TypeInv, TypeOK
  <2>2. \A w \in closed : window'[w] = window[w]
    BY <1>1, <2>1 DEF Next, Observe, ObserveChange, ObserveCause, RejectCause, Close, CloseDue, CloseAll,
                      BeginClose, Continue, CloseWindow, Judge, Return, vars
  <2>3. closed \subseteq closed'
    BY <1>1 DEF Next, Observe, ObserveChange, ObserveCause, RejectCause, Called, Close, CloseDue, CloseAll,
                BeginClose, Continue, CloseWindow, Judge, Return, vars
  <2> QED BY <1>1, <2>2, <2>3 DEF OnceInv, ClosedForGood
<1>2. OnceInv /\ OnceInv' /\ [Next]_vars => [Frozen]_vars
  BY <1>1
<1> QED BY <1>2, SpecOnceInv, PTL DEF Spec, FrozenAfterClose

=============================================================================
