--------------------------- MODULE VerdictProofs ---------------------------
(* What Monitor accuses actors of, and the evidence it shows, for every      *)
(* configuration, actor set and closer set.                                  *)
EXTENDS MonitorProofs

\* Every alert ever raised.
Found == pending \cup delivered \cup UNION {closer[c].out : c \in Closers}

Distinct == \A i, j \in DOMAIN ids : ids[i] = ids[j] => i = j

\* A closer holds a window only while it judges it, and alerts only in a call.
KeysHeld == \A c \in Closers : /\ closer[c].at # "judging" => closer[c].key = NoKey
                               /\ closer[c].at = "idle" => closer[c].out = {}

\* A closed window is being judged, or its verdict is among the alerts.
ClosedIsJudged ==
    \A w \in closed : (\E c \in Closers : closer[c].key = w) \/ Verdict(w) \subseteq Found

\* An alert raised at close is part of its window's verdict, as it is now.
AlertsAreVerdicts ==
    \A al \in Found : /\ al.call = 0 => al \in Verdict(al.window)
                      /\ al.type \in VerdictTypes => al.call = 0

\* The evidence for an id agrees with its bits.
Agrees(win, i) ==
    /\ i \in win.changed \cup win.justified => win.evidence[i] # <<>>
    /\ i \notin win.changed => \A k \in DOMAIN win.evidence[i] : win.evidence[i][k] # "change"
    /\ i \notin win.justified => \A k \in DOMAIN win.evidence[i] : win.evidence[i][k] # "cause"

EvidenceAgrees ==
    \A w \in Starts : /\ window[w].derived \cup window[w].rooted \subseteq window[w].justified
                      /\ \A i \in Ids : Agrees(window[w], i)

VerdictInv ==
    OnceInv /\ Distinct /\ KeysHeld /\ ClosedIsJudged /\ AlertsAreVerdicts /\ EvidenceAgrees

-----------------------------------------------------------------------------
(* Ids and verdicts *)

LEMMA StartsAreNumbers == \A w \in Starts : w \in Nat /\ w # NoKey
<1>1. ASSUME NEW ts \in Nat PROVE WindowStart(ts) \in Nat
  BY ConfigAssumption DEF WindowStart
<1> QED BY <1>1, ConfigAssumption DEF Starts, NoKey

\* Interning keeps the ids there are and names the actor.
LEMMA InternKeeps ==
    ASSUME ids \in Seq(Actors), Distinct, NEW a \in Actors, Intern(a)
    PROVE  Distinct' /\ \A i \in DOMAIN ids : i \in DOMAIN ids' /\ ids'[i] = ids[i]
<1>1. CASE a \in Interned
  BY <1>1 DEF Intern, Distinct
<1>2. CASE a \notin Interned
  <2>1. ids' = Append(ids, a)
    BY <1>2 DEF Intern
  <2>2. \A i \in DOMAIN ids : ids[i] # a
    BY <1>2 DEF Interned
  <2> QED BY <2>1, <2>2 DEF Distinct
<1> QED BY <1>1, <1>2

\* A window that does not change has the verdict it had: ids handed out later
\* do not show.
LEMMA VerdictStable ==
    ASSUME TypeInv, NEW w \in Starts, window'[w] = window[w],
           \A i \in DOMAIN ids : ids'[i] = ids[i]
    PROVE  Verdict(w)' = Verdict(w)
<1> DEFINE win == window[w]
<1>1. \A i \in Recorded(win) : i + 1 \in DOMAIN ids
  <2>1. Recorded(win) \subseteq Nat /\ ids \in Seq(Actors)
    BY ConfigAssumption DEF TypeInv, TypeOK, Window, Recorded, Ids
  <2> QED BY <2>1 DEF TypeInv
<1>2. \A S : S \subseteq Recorded(win) => {ids'[i + 1] : i \in S} = {ids[i + 1] : i \in S}
  BY <1>1
<1>3. Mismatched(window'[w]) = Mismatched(win)
  OBVIOUS
<1>4. /\ win.changed \ win.justified \subseteq Recorded(win)
      /\ win.justified \ win.changed \subseteq Recorded(win)
      /\ win.derived \ win.rooted \subseteq Recorded(win)
      /\ Mismatched(win) \subseteq Recorded(win)
  BY DEF Recorded, Mismatched
<1>5. /\ {ids'[i + 1] : i \in win.changed \ win.justified} = {ids[i + 1] : i \in win.changed \ win.justified}
      /\ {ids'[i + 1] : i \in win.justified \ win.changed} = {ids[i + 1] : i \in win.justified \ win.changed}
      /\ {ids'[i + 1] : i \in win.derived \ win.rooted} = {ids[i + 1] : i \in win.derived \ win.rooted}
      /\ {ids'[i + 1] : i \in Mismatched(win)} = {ids[i + 1] : i \in Mismatched(win)}
  BY <1>2, <1>4
<1> QED BY <1>3, <1>5 DEF Verdict, Charge, Names, Difference

\* What is in a verdict.
LEMMA InVerdict ==
    ASSUME NEW key, NEW al \in Verdict(key)
    PROVE  /\ al.window = key /\ al.call = 0 /\ al.type \in VerdictTypes
           /\ \/ al.type = "unauthorized_change"
                 /\ al.actors = Names(window[key].changed \ window[key].justified)
              \/ al.type = "missing_change"
                 /\ al.actors = Names(window[key].justified \ window[key].changed)
              \/ al.type = "forged_cause"
                 /\ al.actors = Names(window[key].derived \ window[key].rooted)
              \/ al.type = "amount_mismatch"
                 /\ al.actors = Names(Mismatched(window[key]))
BY DEF Verdict, Charge, Difference, VerdictTypes

-----------------------------------------------------------------------------
(* Recording keeps evidence and bits in agreement *)

LEMMA AddEvidenceDoes ==
    ASSUME NEW lines \in Seq(Channels), NEW channel \in Channels
    PROVE  LET new == AddEvidence(lines, channel)
           IN  /\ new \in Seq(Channels) /\ new # <<>>
               /\ \A k \in DOMAIN new : new[k] = channel \/ (k \in DOMAIN lines /\ new[k] = lines[k])
<1>1. CASE Len(lines) < MaxEvidence
  BY <1>1 DEF AddEvidence
<1>2. CASE ~(Len(lines) < MaxEvidence)
  BY <1>2, ConfigAssumption DEF AddEvidence
<1> QED BY <1>1, <1>2

LEMMA RecordChangeAgrees ==
    ASSUME NEW win \in Window, NEW id \in Ids, NEW delta,
           \A i \in Ids : Agrees(win, i), win.derived \cup win.rooted \subseteq win.justified
    PROVE  LET new == RecordChange(win, id, delta)
           IN  /\ \A i \in Ids : Agrees(new, i)
               /\ new.derived \cup new.rooted \subseteq new.justified
<1> DEFINE new   == RecordChange(win, id, delta)
           lines == AddEvidence(win.evidence[id], "change")
<1>1. /\ new.changed = win.changed \cup {id} /\ new.justified = win.justified
      /\ new.derived = win.derived /\ new.rooted = win.rooted
      /\ new.evidence = [win.evidence EXCEPT ![id] = lines]
  BY DEF RecordChange, Window
<1>2. win.evidence \in [Ids -> Seq(Channels)] /\ "change" \in Channels
  BY DEF Window, Channels
<1>3. /\ lines # <<>>
      /\ \A k \in DOMAIN lines :
            lines[k] = "change" \/ (k \in DOMAIN win.evidence[id] /\ lines[k] = win.evidence[id][k])
  BY <1>2, AddEvidenceDoes
<1>4. new.evidence[id] = lines /\ \A i \in Ids \ {id} : new.evidence[i] = win.evidence[i]
  <2> HIDE DEF lines, new
  <2> QED BY <1>1, <1>2
<1> HIDE DEF new, lines
<1>5. Agrees(new, id)
  BY <1>1, <1>3, <1>4 DEF Agrees
<1>6. \A i \in Ids \ {id} : Agrees(new, i)
  BY <1>1, <1>4 DEF Agrees
<1>7. new.derived \cup new.rooted \subseteq new.justified
  BY <1>1
<1> QED BY <1>5, <1>6, <1>7 DEF new

LEMMA RecordCauseAgrees ==
    ASSUME NEW win \in Window, NEW id \in Ids, NEW kind, NEW amount,
           \A i \in Ids : Agrees(win, i), win.derived \cup win.rooted \subseteq win.justified
    PROVE  LET new == RecordCause(win, id, kind, amount)
           IN  /\ \A i \in Ids : Agrees(new, i)
               /\ new.derived \cup new.rooted \subseteq new.justified
<1> DEFINE new   == RecordCause(win, id, kind, amount)
           lines == AddEvidence(win.evidence[id], "cause")
<1>1. /\ new.changed = win.changed /\ new.justified = win.justified \cup {id}
      /\ new.derived \subseteq win.derived \cup {id} /\ new.rooted \subseteq win.rooted \cup {id}
      /\ new.evidence = [win.evidence EXCEPT ![id] = lines]
  BY DEF RecordCause, Window
<1>2. win.evidence \in [Ids -> Seq(Channels)] /\ "cause" \in Channels
  BY DEF Window, Channels
<1>3. /\ lines # <<>>
      /\ \A k \in DOMAIN lines :
            lines[k] = "cause" \/ (k \in DOMAIN win.evidence[id] /\ lines[k] = win.evidence[id][k])
  BY <1>2, AddEvidenceDoes
<1>4. new.evidence[id] = lines /\ \A i \in Ids \ {id} : new.evidence[i] = win.evidence[i]
  <2> HIDE DEF lines, new
  <2> QED BY <1>1, <1>2
<1> HIDE DEF new, lines
<1>5. Agrees(new, id)
  BY <1>1, <1>3, <1>4 DEF Agrees
<1>6. \A i \in Ids \ {id} : Agrees(new, i)
  BY <1>1, <1>4 DEF Agrees
<1>7. new.derived \cup new.rooted \subseteq new.justified
  BY <1>1
<1> QED BY <1>5, <1>6, <1>7 DEF new

-----------------------------------------------------------------------------
(* Steps *)

LEMMA VerdictInit == Init => VerdictInv
<1> SUFFICES ASSUME Init PROVE VerdictInv
  OBVIOUS
<1>1. OnceInv
  BY OnceInit
<1>2. \A c \in Closers : closer[c].key = NoKey /\ closer[c].out = {}
  BY DEF Init, idleCloser
<1>3. Found = {}
  BY <1>2 DEF Found, Init
<1>4. Distinct
  BY DEF Init, Distinct
<1>5. KeysHeld /\ ClosedIsJudged /\ AlertsAreVerdicts
  BY <1>2, <1>3 DEF Init, KeysHeld, ClosedIsJudged, AlertsAreVerdicts
<1>6. EvidenceAgrees
  <2>1. ASSUME NEW w \in Starts
        PROVE  /\ window[w].derived \cup window[w].rooted \subseteq window[w].justified
               /\ \A i \in Ids : Agrees(window[w], i)
    <3>1. window[w] = newWindow
      BY DEF Init
    <3>2. /\ newWindow.changed = {} /\ newWindow.justified = {}
          /\ newWindow.derived = {} /\ newWindow.rooted = {}
          /\ \A i \in Ids : newWindow.evidence[i] = <<>>
      BY DEF newWindow
    <3> QED BY <3>1, <3>2 DEF Agrees
  <2> QED BY <2>1 DEF EvidenceAgrees
<1> QED BY <1>1, <1>4, <1>5, <1>6 DEF VerdictInv

\* A call of ObserveChange or ObserveCause.
LEMMA ObserveVerdicts ==
    ASSUME VerdictInv, OnceInv', Called, Distinct', EvidenceAgrees',
           \A i \in DOMAIN ids : ids'[i] = ids[i],
           \A w \in closed : window'[w] = window[w],
           pending \subseteq pending', \A al \in pending' \ pending : al.type \notin VerdictTypes
    PROVE  VerdictInv'
<1>1. closed' = closed /\ closer' = closer /\ delivered' = delivered
  BY DEF Called
<1>2. closed \subseteq Starts /\ TypeInv
  BY DEF VerdictInv, OnceInv, TypeInv, TypeOK
<1>3. \A w \in closed : Verdict(w)' = Verdict(w)
  BY <1>2, VerdictStable
<1>4. Found' = Found \cup pending' /\ pending' \subseteq Found'
  BY <1>1 DEF Found
<1>5. KeysHeld'
  BY <1>1 DEF VerdictInv, KeysHeld
<1>6. ClosedIsJudged'
  BY <1>1, <1>3, <1>4 DEF VerdictInv, ClosedIsJudged
<1>7. \A al \in pending' : al.call # 0
  <2>1. \A al \in pending' : al.call \in 1 .. calls'
    BY DEF OnceInv, AlertsPlaced
  <2>2. calls' \in Nat
    BY ConfigAssumption DEF OnceInv, TypeInv, TypeOK
  <2> QED BY <2>1, <2>2
<1>8. \A al \in Found : al.call = 0 => al.window \in closed
  <2>1. \A al \in pending : al.call # 0
    BY <1>7
  <2> QED BY <2>1 DEF VerdictInv, OnceInv, AlertsPlaced, Found
<1>9. ASSUME NEW al \in Found'
      PROVE  (al.call = 0 => al \in Verdict(al.window)') /\ (al.type \in VerdictTypes => al.call = 0)
  <2>1. CASE al \in Found
    <3>1. al.call = 0 => al \in Verdict(al.window)
      BY <2>1 DEF VerdictInv, AlertsAreVerdicts
    <3>2. al.type \in VerdictTypes => al.call = 0
      BY <2>1 DEF VerdictInv, AlertsAreVerdicts
    <3> QED BY <1>3, <1>8, <2>1, <3>1, <3>2
  <2>2. CASE al \in pending' \ pending
    BY <1>7, <2>2
  <2> QED BY <1>4, <2>1, <2>2 DEF Found
<1> QED BY <1>5, <1>6, <1>9 DEF VerdictInv, AlertsAreVerdicts

LEMMA IngestVerdicts ==
    ASSUME VerdictInv, OnceInv', NEW a \in Actors, NEW w \in Starts, NEW win, Called, Ingest(a, w, win),
           IdOf(a) \in Ids => /\ \A i \in Ids : Agrees(win, i)
                              /\ win.derived \cup win.rooted \subseteq win.justified
    PROVE  VerdictInv'
<1>1. /\ ids \in Seq(Actors) /\ Distinct /\ EvidenceAgrees
      /\ window \in [Starts -> Window]
  BY DEF VerdictInv, OnceInv, TypeInv, TypeOK
<1>2. CASE IsLate(w) /\ Raise("late_event", w, a) /\ UNCHANGED <<ids, open, window>>
  <2>1. Distinct' /\ EvidenceAgrees'
    BY <1>1, <1>2 DEF Distinct, EvidenceAgrees
  <2>2. pending \subseteq pending' /\ \A al \in pending' \ pending : al.type \notin VerdictTypes
    BY <1>2 DEF Raise, VerdictTypes
  <2> QED BY <1>2, <2>1, <2>2, ObserveVerdicts
<1>3. CASE ~IsLate(w) /\ Intern(a)
  <2>1. Distinct' /\ \A i \in DOMAIN ids : ids'[i] = ids[i]
    BY <1>1, <1>3, InternKeeps
  <2>2. CASE ~Fits(IdOf(a)) /\ Raise("capacity_exceeded", w, a) /\ UNCHANGED window
    <3>1. EvidenceAgrees'
      BY <1>1, <2>2 DEF EvidenceAgrees
    <3>2. pending \subseteq pending' /\ \A al \in pending' \ pending : al.type \notin VerdictTypes
      BY <2>2 DEF Raise, VerdictTypes
    <3> QED BY <2>1, <2>2, <3>1, <3>2, ObserveVerdicts
  <2>3. CASE Fits(IdOf(a)) /\ window' = [window EXCEPT ![w] = win] /\ UNCHANGED pending
    <3>1. IdOf(a) \in Ids
      <4>1. IdOf(a) \in Nat
        <5>1. IdOf(a) \in 0 .. Len(ids') - 1 /\ ids' \in Seq(Actors)
          BY <1>1, <1>3, InternTyped
        <5> QED BY <5>1
      <4> QED BY <2>3, <4>1, ConfigAssumption DEF Fits, Ids
    <3>2. EvidenceAgrees'
      BY <1>1, <2>3, <3>1 DEF EvidenceAgrees
    <3>3. \A v \in closed : window'[v] = window[v]
      <4>1. w \notin closed /\ closed \subseteq Starts
        BY <1>3 DEF IsLate, VerdictInv, OnceInv, TypeInv, TypeOK
      <4> QED BY <1>1, <2>3, <4>1
    <3> QED BY <2>1, <2>3, <3>2, <3>3, ObserveVerdicts
  <2> QED BY <1>3, <2>2, <2>3 DEF Ingest
<1> QED BY <1>2, <1>3 DEF Ingest

\* A step of a closer leaves ids and windows alone.
LEMMA CloserVerdicts ==
    ASSUME VerdictInv, OnceInv', UNCHANGED <<ids, window>>, KeysHeld',
           \A w \in closed' : (\E c \in Closers : closer'[c].key = w) \/ Verdict(w) \subseteq Found',
           \A al \in Found' \ Found : \E w \in Starts : al \in Verdict(w)
    PROVE  VerdictInv'
<1>1. \A w : Verdict(w)' = Verdict(w)
  BY DEF Verdict, Charge, Names, Difference, Mismatched
<1>2. ClosedIsJudged'
  BY <1>1 DEF ClosedIsJudged
<1>3. ASSUME NEW al \in Found'
      PROVE  (al.call = 0 => al \in Verdict(al.window)') /\ (al.type \in VerdictTypes => al.call = 0)
  <2>1. CASE al \in Found
    BY <1>1, <2>1 DEF VerdictInv, AlertsAreVerdicts
  <2>2. CASE al \notin Found
    BY <1>1, <2>2, InVerdict
  <2> QED BY <2>1, <2>2
<1>4. Distinct' /\ EvidenceAgrees'
  BY DEF VerdictInv, Distinct, EvidenceAgrees
<1> QED BY <1>2, <1>3, <1>4 DEF VerdictInv, AlertsAreVerdicts

LEMMA VerdictNext == VerdictInv /\ [Next]_vars => VerdictInv'
<1> SUFFICES ASSUME VerdictInv, [Next]_vars PROVE VerdictInv'
  OBVIOUS
<1> OnceInv'
  BY OnceNext DEF VerdictInv
<1>0. /\ window \in [Starts -> Window] /\ closer \in [Closers -> Closer] /\ EvidenceAgrees
      /\ closed \subseteq Starts /\ TypeInv /\ KeysHeld /\ ClosedIsJudged
      /\ \A c \in Closers : closer[c] \in Closer
  BY DEF VerdictInv, OnceInv, TypeInv, TypeOK
<1>1. ASSUME NEW a \in Actors, NEW ts \in EventTimes, NEW d \in Deltas, ObserveChange(a, ts, d)
      PROVE  VerdictInv'
  <2>1. PICK w \in Starts : w = WindowStart(ts)
    BY DEF Starts
  <2>2. Called /\ Ingest(a, w, RecordChange(window[w], IdOf(a), d))
    BY <1>1, <2>1 DEF ObserveChange
  <2>3. window[w] \in Window /\ (\A i \in Ids : Agrees(window[w], i))
        /\ window[w].derived \cup window[w].rooted \subseteq window[w].justified
    BY <1>0 DEF EvidenceAgrees
  <2> QED BY <2>2, <2>3, RecordChangeAgrees, IngestVerdicts
<1>2. ASSUME NEW a \in Actors, NEW ts \in EventTimes, NEW k \in Kinds, NEW p \in Producers, NEW n \in Amounts,
             ObserveCause(a, ts, k, p, n)
      PROVE  VerdictInv'
  <2>1. PICK w \in Starts : w = WindowStart(ts)
    BY DEF Starts
  <2>2. CASE RejectCause(a, ts, p)
    <3>1. Called /\ Raise("untrusted_producer", w, a) /\ UNCHANGED <<ids, open, window>>
      BY <2>1, <2>2 DEF RejectCause
    <3>2. pending \subseteq pending' /\ \A al \in pending' \ pending : al.type \notin VerdictTypes
      BY <3>1 DEF Raise, VerdictTypes
    <3>3. Distinct' /\ EvidenceAgrees'
      BY <3>1 DEF VerdictInv, Distinct, EvidenceAgrees
    <3> QED BY <3>1, <3>2, <3>3, ObserveVerdicts
  <2>3. CASE ~RejectCause(a, ts, p)
    <3>1. Called /\ Ingest(a, w, RecordCause(window[w], IdOf(a), k, n))
      BY <1>2, <2>1, <2>3 DEF ObserveCause
    <3>2. window[w] \in Window /\ (\A i \in Ids : Agrees(window[w], i))
          /\ window[w].derived \cup window[w].rooted \subseteq window[w].justified
      BY <1>0 DEF EvidenceAgrees
    <3> QED BY <3>1, <3>2, RecordCauseAgrees, IngestVerdicts
  <2> QED BY <2>2, <2>3
<1>3. ASSUME NEW c \in Closers, NEW due, BeginClose(c, due) PROVE VerdictInv'
  <2>1. /\ closer[c].at = "idle"
        /\ closer'[c].at = "closing" /\ closer'[c].out = {} /\ closer'[c].key = NoKey
        /\ \A d \in Closers \ {c} : closer'[d] = closer[d]
        /\ UNCHANGED <<ids, open, closed, window, pending, calls, delivered>>
    BY <1>0, <1>3 DEF BeginClose, idleCloser
  <2>2. closer[c].out = {} /\ closer[c].key = NoKey
    BY <1>0, <2>1 DEF KeysHeld
  <2>3. \A d \in Closers : closer'[d].out = closer[d].out /\ closer'[d].key = closer[d].key
    BY <2>1, <2>2
  <2>4. Found' = Found
    BY <2>1, <2>3 DEF Found
  <2>5. KeysHeld'
    BY <1>0, <2>1 DEF KeysHeld
  <2>6. \A w \in closed' : (\E d \in Closers : closer'[d].key = w) \/ Verdict(w) \subseteq Found'
    BY <1>0, <2>1, <2>3, <2>4 DEF ClosedIsJudged
  <2> QED BY <2>1, <2>4, <2>5, <2>6, CloserVerdicts
<1>4. ASSUME NEW c \in Closers, CloseWindow(c) PROVE VerdictInv'
  <2>1. PICK key \in closer[c].due : CloseWindow(c)!(key)
    BY <1>4 DEF CloseWindow
  <2>2. /\ closer[c].at = "closing" /\ closer[c].key = NoKey /\ key \in Starts
        /\ UNCHANGED <<ids, window, pending, calls, delivered>>
    BY <1>0, <2>1 DEF KeysHeld, Closer
  <2>3. /\ \A d \in Closers \ {c} : closer'[d] = closer[d]
        /\ closer'[c].out = closer[c].out
    BY <1>0, <2>1 DEF Closer
  <2>4. Found' = Found
    <3>1. \A d \in Closers : closer'[d].out = closer[d].out
      BY <2>3
    <3> QED BY <2>2, <3>1 DEF Found
  <2>5. \A w \in closed : (\E d \in Closers : closer'[d].key = w) \/ Verdict(w) \subseteq Found'
    <3> SUFFICES ASSUME NEW w \in closed
                 PROVE  (\E d \in Closers : closer'[d].key = w) \/ Verdict(w) \subseteq Found'
      OBVIOUS
    <3>1. closer[c].key # w
      BY <1>0, <2>2, StartsAreNumbers
    <3> QED BY <1>0, <2>3, <2>4, <3>1 DEF ClosedIsJudged
  <2>6. CASE StillOpen(key)
    <3>1. closer'[c].at = "judging" /\ closer'[c].key = key /\ closed' = closed \cup {key}
      BY <1>0, <2>1, <2>6 DEF Closer
    <3>2. KeysHeld'
      BY <1>0, <2>3, <3>1 DEF KeysHeld
    <3> QED BY <2>2, <2>4, <2>5, <3>1, <3>2, CloserVerdicts
  <2>7. CASE ~StillOpen(key)
    <3>1. closer'[c].at = "closing" /\ closer'[c].key = NoKey /\ closed' = closed
      BY <1>0, <2>1, <2>2, <2>7 DEF Closer
    <3>2. KeysHeld'
      BY <1>0, <2>3, <3>1 DEF KeysHeld
    <3> QED BY <2>2, <2>4, <2>5, <3>1, <3>2, CloserVerdicts
  <2> QED BY <2>6, <2>7
<1>5. ASSUME NEW c \in Closers, Judge(c) PROVE VerdictInv'
  <2>1. PICK key : key = closer[c].key
    OBVIOUS
  <2>2. /\ closer[c].at = "judging" /\ key \in Starts
        /\ UNCHANGED <<ids, open, closed, window, pending, calls, delivered>>
    BY <1>0, <1>5, <2>1 DEF Judge, TypeInv
  <2>3. /\ \A d \in Closers \ {c} : closer'[d] = closer[d]
        /\ closer'[c].at = "closing" /\ closer'[c].key = NoKey
        /\ closer'[c].out = closer[c].out \cup Verdict(key)
    BY <1>0, <1>5, <2>1 DEF Judge, Closer
  <2>4. Found' = Found \cup Verdict(key)
    BY <2>2, <2>3 DEF Found
  <2>5. KeysHeld'
    BY <1>0, <2>3 DEF KeysHeld
  <2>6. \A w \in closed' : (\E d \in Closers : closer'[d].key = w) \/ Verdict(w) \subseteq Found'
    BY <1>0, <2>1, <2>2, <2>3, <2>4 DEF ClosedIsJudged
  <2> QED BY <2>2, <2>4, <2>5, <2>6, CloserVerdicts
<1>6. ASSUME NEW c \in Closers, Return(c) PROVE VerdictInv'
  <2>1. /\ \A d \in Closers \ {c} : closer'[d] = closer[d]
        /\ closer'[c].at = "idle" /\ closer'[c].out = {} /\ closer'[c].key = NoKey
        /\ closer[c].at = "closing"
        /\ pending' = {} /\ delivered' = delivered \cup pending \cup closer[c].out
        /\ UNCHANGED <<ids, open, closed, window, calls>>
    BY <1>0, <1>6 DEF Return, Batch, idleCloser
  <2>2. closer[c].key = NoKey
    BY <1>0, <2>1 DEF KeysHeld
  <2>3. Found' = Found
    BY <2>1 DEF Found
  <2>4. KeysHeld'
    BY <1>0, <2>1 DEF KeysHeld
  <2>5. \A d \in Closers : closer'[d].key = closer[d].key
    BY <2>1, <2>2
  <2>6. \A w \in closed' : (\E d \in Closers : closer'[d].key = w) \/ Verdict(w) \subseteq Found'
    BY <1>0, <2>1, <2>3, <2>5 DEF ClosedIsJudged
  <2> QED BY <2>1, <2>3, <2>4, <2>6, CloserVerdicts
<1>7. CASE UNCHANGED vars
  <2>1. Found' = Found
    BY <1>7 DEF vars, Found
  <2>2. KeysHeld'
    BY <1>0, <1>7 DEF vars, KeysHeld
  <2> QED BY <1>0, <1>7, <2>1, <2>2, CloserVerdicts DEF vars, ClosedIsJudged
<1> QED
  BY <1>1, <1>2, <1>3, <1>4, <1>5, <1>6, <1>7
     DEF Next, Observe, Close, CloseDue, CloseAll, Continue

LEMMA SpecVerdictInv == Spec => []VerdictInv
BY VerdictInit, VerdictNext, PTL DEF Spec

-----------------------------------------------------------------------------
(* Theorems *)

\* monitor.go:356-421: the evidence shown with a charge supports it.  Whoever is
\* accused has evidence; of a change without a cause there is no cause in it, of
\* a cause without a change no change, however short the list is kept.
THEOREM EvidenceIsSound == Spec => []EvidenceSupportsCharge
<1>1. VerdictInv => EvidenceSupportsCharge
  <2> SUFFICES ASSUME VerdictInv, NEW c \in Closers, NEW al \in delivered \cup closer[c].out,
                      al.type \in VerdictTypes, NEW lines \in EvidenceOf(al)
               PROVE  /\ lines # <<>>
                      /\ al.type = "unauthorized_change" => \A k \in DOMAIN lines : lines[k] = "change"
                      /\ al.type = "missing_change" => \A k \in DOMAIN lines : lines[k] = "cause"
    BY DEF EvidenceSupportsCharge
  <2>0. al \in Found /\ ids \in Seq(Actors) /\ window \in [Starts -> Window] /\ closed \subseteq Starts
    BY DEF Found, VerdictInv, OnceInv, TypeInv, TypeOK
  <2>1. al.call = 0 /\ al \in Verdict(al.window)
    BY <2>0 DEF VerdictInv, AlertsAreVerdicts
  <2>2. al.window \in Starts
    BY <2>0, <2>1 DEF VerdictInv, OnceInv, AlertsPlaced
  <2>3. PICK w \in Starts : w = al.window
    BY <2>2
  <2>4. window[w] \in Window /\ Recorded(window[w]) \subseteq Ids
    BY <2>0 DEF Window, Recorded
  <2>5. PICK i \in Ids : i < Len(ids) /\ ids[i + 1] \in al.actors /\ lines = window[w].evidence[i]
    BY <2>3 DEF EvidenceOf
  <2>6. \A S : S \subseteq Recorded(window[w]) /\ ids[i + 1] \in Names(S) => i \in S
    <3> SUFFICES ASSUME NEW S, S \subseteq Recorded(window[w]), ids[i + 1] \in Names(S) PROVE i \in S
      OBVIOUS
    <3>1. PICK j \in S : ids[j + 1] = ids[i + 1]
      BY DEF Names
    <3>2. j \in Ids /\ j < Len(ids)
      BY <2>4, <3>1 DEF VerdictInv, OnceInv, TypeInv
    <3>3. j + 1 \in DOMAIN ids /\ i + 1 \in DOMAIN ids
      BY <2>0, <2>5, <3>2, ConfigAssumption DEF Ids
    <3>4. j + 1 = i + 1
      BY <3>1, <3>3 DEF VerdictInv, Distinct
    <3> QED BY <3>1, <3>2, <3>4, <2>5, ConfigAssumption DEF Ids
  <2>7. /\ al.type = "unauthorized_change" => i \in window[w].changed \ window[w].justified
        /\ al.type = "missing_change" => i \in window[w].justified \ window[w].changed
        /\ i \in window[w].changed \cup window[w].justified
    <3>1. window[w].derived \subseteq window[w].justified
      BY DEF VerdictInv, EvidenceAgrees
    <3>2. Mismatched(window[w]) \subseteq window[w].changed
      BY DEF Mismatched
    <3>3. /\ window[w].changed \ window[w].justified \subseteq Recorded(window[w])
          /\ window[w].justified \ window[w].changed \subseteq Recorded(window[w])
          /\ window[w].derived \ window[w].rooted \subseteq Recorded(window[w])
          /\ Mismatched(window[w]) \subseteq Recorded(window[w])
      BY <3>2 DEF Recorded
    <3>4. /\ ids[i + 1] \in Names(window[w].changed \ window[w].justified) =>
                i \in window[w].changed \ window[w].justified
          /\ ids[i + 1] \in Names(window[w].justified \ window[w].changed) =>
                i \in window[w].justified \ window[w].changed
          /\ ids[i + 1] \in Names(window[w].derived \ window[w].rooted) =>
                i \in window[w].derived \ window[w].rooted
          /\ ids[i + 1] \in Names(Mismatched(window[w])) => i \in Mismatched(window[w])
      BY <2>6, <3>3
    <3>5. /\ ids[i + 1] \in al.actors
          /\ \/ al.type = "unauthorized_change"
                /\ al.actors = Names(window[w].changed \ window[w].justified)
             \/ al.type = "missing_change"
                /\ al.actors = Names(window[w].justified \ window[w].changed)
             \/ al.type = "forged_cause"
                /\ al.actors = Names(window[w].derived \ window[w].rooted)
             \/ al.type = "amount_mismatch"
                /\ al.actors = Names(Mismatched(window[w]))
      <4>1. al \in Verdict(w)
        BY <2>1, <2>3
      <4> QED BY <2>5, <4>1, InVerdict
    <3>6. \/ al.type = "unauthorized_change" /\ i \in window[w].changed \ window[w].justified
          \/ al.type = "missing_change" /\ i \in window[w].justified \ window[w].changed
          \/ al.type = "forged_cause" /\ i \in window[w].derived \ window[w].rooted
          \/ al.type = "amount_mismatch" /\ i \in Mismatched(window[w])
      BY <3>4, <3>5
    <3> QED BY <3>1, <3>2, <3>6
  <2>8. Agrees(window[w], i)
    BY DEF VerdictInv, EvidenceAgrees
  <2>9. \A k \in DOMAIN lines : lines[k] \in {"change", "cause"}
    <3>1. lines \in Seq(Channels)
      BY <2>4, <2>5 DEF Window
    <3> QED BY <3>1 DEF Channels
  <2> QED BY <2>5, <2>7, <2>8, <2>9 DEF Agrees
<1> QED BY <1>1, SpecVerdictInv, PTL

LEMMA SameWindows == \A ts \in EventTimes : (ts \div WindowSize) * WindowSize = WindowStart(ts)
<1> SUFFICES ASSUME NEW ts \in Nat PROVE (ts \div WindowSize) * WindowSize = ts - (ts % WindowSize)
  BY ConfigAssumption DEF WindowStart
<1>1. WindowSize \in Nat \ {0}
  BY ConfigAssumption
<1>2. ts = (ts \div WindowSize) * WindowSize + (ts % WindowSize)
  BY <1>1
<1>3. (ts \div WindowSize) * WindowSize \in Int /\ ts % WindowSize \in Int
  BY <1>1
<1> QED BY <1>2, <1>3

\* In terms of actors the verdict is the one CauseJustified gives.
LEMMA NamesOfDifference ==
    ASSUME ids \in Seq(Actors), Distinct, NEW S, NEW T, S \cup T \subseteq Nat,
           \A i \in S \cup T : i < Len(ids)
    PROVE  Names(S) \ Names(T) = Names(S \ T)
<1>1. \A i \in S \cup T : i + 1 \in DOMAIN ids
  OBVIOUS
<1>2. ASSUME NEW i \in S, NEW j \in T, ids[i + 1] = ids[j + 1] PROVE i = j
  <2>1. i + 1 = j + 1
    BY <1>1, <1>2 DEF Distinct
  <2> QED BY <2>1
<1> QED BY <1>2 DEF Names

LEMMA SumsOfNames ==
    ASSUME ids \in Seq(Actors), Distinct, NEW i \in Ids, i < Len(ids), NEW sums
    PROVE  ids[i + 1] \in Actors /\ SumFor(ids[i + 1], sums) = sums[i]
<1>1. i \in Nat /\ i + 1 \in DOMAIN ids
  BY ConfigAssumption DEF Ids
<1>2. ids[i + 1] \in Interned
  BY <1>1 DEF Interned
<1>3. (CHOOSE j \in DOMAIN ids : ids[j] = ids[i + 1]) = i + 1
  BY <1>1 DEF Distinct
<1>4. IdOf(ids[i + 1]) = i
  <2> DEFINE first == CHOOSE j \in DOMAIN ids : ids[j] = ids[i + 1]
  <2>1. IdOf(ids[i + 1]) = first - 1
    BY <1>2, Zenon DEF IdOf
  <2>2. first = i + 1
    BY <1>3
  <2> HIDE DEF first
  <2> QED BY <1>1, <2>1, <2>2
<1> QED BY <1>1, <1>2, <1>4 DEF SumFor

LEMMA VerdictIsAbstract ==
    ASSUME VerdictInv, NEW w \in Starts
    PROVE  Abstract!Verdict(w) = Verdict(w)
<1> DEFINE win == window[w]
<1>1. /\ ids \in Seq(Actors) /\ Distinct /\ win \in Window
      /\ Recorded(win) \subseteq Nat /\ Recorded(win) \subseteq Ids
      /\ \A i \in Recorded(win) : i < Len(ids)
  <2>1. ids \in Seq(Actors) /\ Distinct /\ win \in Window
    BY DEF VerdictInv, OnceInv, TypeInv, TypeOK
  <2>2. \A i \in Recorded(win) : i < Len(ids)
    BY DEF VerdictInv, OnceInv, TypeInv
  <2>3. Recorded(win) \subseteq Ids
    BY <2>1 DEF Window, Recorded
  <2>4. Ids \subseteq Nat
    BY ConfigAssumption DEF Ids
  <2> HIDE DEF win
  <2> QED BY <2>1, <2>2, <2>3, <2>4
<1>2. /\ Names(win.changed) \ Names(win.justified) = Names(win.changed \ win.justified)
      /\ Names(win.justified) \ Names(win.changed) = Names(win.justified \ win.changed)
      /\ Names(win.derived) \ Names(win.rooted) = Names(win.derived \ win.rooted)
  BY <1>1, NamesOfDifference DEF Recorded
<1> DEFINE Moved(a) == [b \in Actors |-> SumFor(b, win.changeSum)][a]
           Authorized(a) == [b \in Actors |-> SumFor(b, win.causeSum)][a]
<1>3. \A i \in win.changed : /\ Moved(ids[i + 1]) = win.changeSum[i]
                             /\ Authorized(ids[i + 1]) = win.causeSum[i]
  BY <1>1, SumsOfNames DEF Recorded
<1> HIDE DEF Moved, Authorized
<1>4. {a \in Names(win.changed) : CheckAmounts /\ Moved(a) # Authorized(a)} = Names(Mismatched(win))
  BY <1>3 DEF Names, Mismatched
<1>5. Abstract!Verdict(w) =
         {f \in {Charge("unauthorized_change", w, win.changed \ win.justified),
                 Charge("missing_change", w, win.justified \ win.changed),
                 Charge("forged_cause", w, win.derived \ win.rooted),
                 Charge("amount_mismatch", w, Mismatched(win))} : f.actors # {}}
  BY <1>2, <1>4, ZenonT(40) DEF Abstract!Verdict, Abstract!Finding, Charge, Moved, Authorized
<1> QED BY <1>5 DEF Verdict, Difference

\* README A2, monitor.go closeWindow: for every number of closers and every
\* interleaving with ingest, the alerts about a window are exactly the verdict
\* over what was recorded in it: nobody outside Changed \ Justified is accused,
\* nobody in it is left out, and nothing that comes later makes a verdict wrong.
THEOREM VerdictsAreExact == Spec => []AccusationsAreExact
<1>1. VerdictInv => AccusationsAreExact
  <2> SUFFICES ASSUME VerdictInv PROVE Abstract!FindingsAreExact
    BY DEF AccusationsAreExact
  <2>1. \A ts \in EventTimes : Abstract!WindowOf(ts) = WindowStart(ts)
    BY SameWindows DEF Abstract!WindowOf
  <2>2. Abstract!Windows = Starts
    BY <2>1 DEF Abstract!Windows, Starts
  <2>3. \A al \in Found : al.call = 0 => /\ al.window \in closed
                                         /\ \A c \in Closers : closer[c].key # al.window
    <3> SUFFICES ASSUME NEW al \in Found, al.call = 0
                 PROVE  /\ al.window \in closed
                        /\ \A c \in Closers : closer[c].key # al.window
      OBVIOUS
    <3>1. al \notin pending
      <4>1. calls \in Nat
        BY ConfigAssumption DEF VerdictInv, OnceInv, TypeInv, TypeOK
      <4> QED BY <4>1 DEF VerdictInv, OnceInv, AlertsPlaced
    <3>2. al.window \in closed /\ closed \subseteq Starts
      BY <3>1 DEF Found, VerdictInv, OnceInv, AlertsPlaced, TypeInv, TypeOK
    <3>3. ASSUME NEW c \in Closers, closer[c].key = al.window PROVE FALSE
      <4>1. closer[c].at = "judging"
        BY <3>2, <3>3, StartsAreNumbers DEF VerdictInv, KeysHeld
      <4> QED BY <3>1, <3>3, <4>1 DEF Found, VerdictInv, OnceInv, ReportedOnce, JudgedOnce
    <3> QED BY <3>2, <3>3
  <2>4. ASSUME NEW w \in Starts
        PROVE  {f \in Found : f.window = w /\ f.call = 0}
                  = IF PhaseOf(w) = "judged" THEN Verdict(w) ELSE {}
    <3>1. CASE PhaseOf(w) = "judged"
      <4>1. w \in closed /\ \A c \in Closers : closer[c].key # w
        BY <3>1 DEF PhaseOf
      <4>2. Verdict(w) \subseteq Found
        BY <4>1 DEF VerdictInv, ClosedIsJudged
      <4>3. \A f \in Found : f.window = w /\ f.call = 0 => f \in Verdict(w)
        BY DEF VerdictInv, AlertsAreVerdicts
      <4> QED BY <3>1, <4>2, <4>3, InVerdict
    <3>2. CASE PhaseOf(w) # "judged"
      <4>1. w \notin closed \/ \E c \in Closers : closer[c].key = w
        BY <3>2 DEF PhaseOf
      <4> QED BY <2>3, <3>2, <4>1
    <3> QED BY <3>1, <3>2
  <2>5. \A w \in Starts : [v \in Starts |-> PhaseOf(v)][w] = PhaseOf(w)
    OBVIOUS
  <2> QED BY <2>2, <2>4, <2>5, VerdictIsAbstract DEF Abstract!FindingsAreExact, Found
<1> QED BY <1>1, SpecVerdictInv, PTL
=============================================================================
