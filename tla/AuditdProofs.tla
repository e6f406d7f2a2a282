---------------------------- MODULE AuditdProofs ----------------------------
(* The grace period, for every daemon: any number of actors, any window,     *)
(* grace and capacity, any faults and any order in which select picks.       *)
EXTENDS Auditd, TLAPS

-----------------------------------------------------------------------------
(* The inductive invariant *)

\* The bits that say an event of channel c was recorded.
SetFor(c, win) == IF c = "change" THEN win.changed ELSE win.justified

\* An id names one actor.
Distinct == \A i, j \in DOMAIN ids : ids[i] = ids[j] => i = j

\* Among the events hs, one of channel c is about a in w.
Says(hs, c, a, w) == \E h \in hs : h.channel = c /\ h.actor = a /\ h.window = w

\* Every bit stands for an event the loop has read.
RecordedWasHeard ==
    \A w \in Engine!Starts :
        /\ window[w].derived = {}
        /\ \A c \in Channels : \A i \in SetFor(c, window[w]) :
              i + 1 \in DOMAIN ids /\ Says(heard, c, ids[i + 1], w)

\* Every event read in time has its bit, if its actor's id fits.
HeardWasRecorded ==
    \A h \in heard : h.inTime =>
        \E i \in DOMAIN ids :
            ids[i] = h.actor /\ (i <= Capacity => i - 1 \in SetFor(h.channel, window[h.window]))

\* Before the daemon leaves, windows are closed, and listed, after their deadline.
ClosedWhenDue ==
    /\ tick # NoTick => tick <= now
    /\ loop = "select" => ~leaving
    /\ closer[Loop].at = "judging" => closer[Loop].key \in closed
    /\ \A w \in closed \cup closer[Loop].due : leaving \/ Deadline(w) <= now

Against(mine, other, a, w) ==
    HeardOf(mine, a, w) # {} /\ \A h \in HeardOf(other, a, w) : ~h.inTime

\* What GraceIsKept says of an alert, which is about a closed window.
Deserved(al) ==
    \A a \in al.actors :
        /\ al.type = "unauthorized_change" =>
              al.window \in closed /\ Against("change", "cause", a, al.window)
        /\ al.type = "missing_change" =>
              al.window \in closed /\ Against("cause", "change", a, al.window)
        /\ al.type = "late_event" =>
              \E c \in Channels : \E h \in HeardOf(c, a, al.window) : ~h.inTime

Alerts == pending \cup closer[Loop].out \cup Emitted

GraceInv ==
    /\ TypeOK
    /\ Distinct /\ RecordedWasHeard /\ HeardWasRecorded
    /\ ClosedWhenDue
    /\ \A al \in Alerts : Deserved(al)

-----------------------------------------------------------------------------
(* The engine's operators *)

LEMMA Numbers ==
    /\ WindowSize \in Nat \ {0} /\ Grace \in Nat /\ Capacity \in Nat \ {0}
    /\ MaxTime \in Nat /\ MaxMessages \in Nat
    /\ Times \subseteq Nat /\ NoTick \in Int /\ NoTick \notin Times
<1>1. MaxTime \in {MaxMessages, LastOp, MaxTime, MaxLag} /\ MaxMessages \in {MaxMessages, LastOp, MaxTime, MaxLag}
  OBVIOUS
<1>2. MaxTime \in Nat /\ MaxMessages \in Nat
  BY <1>1, DaemonAssumption
<1>3. Times \subseteq Nat /\ NoTick \in Int /\ NoTick \notin Times
  BY <1>2 DEF Times, NoTick
<1> QED BY <1>2, <1>3, DaemonAssumption

LEMMA WindowStarts ==
    /\ Engine!Starts \subseteq Int
    /\ \A ts \in Times : Engine!WindowStart(ts) \in Engine!Starts
<1>1. \A ts \in Nat : ts % WindowSize \in Int
  BY Numbers
<1>2. \A ts \in Times : Engine!WindowStart(ts) \in Int
  BY <1>1, Numbers DEF Engine!WindowStart
<1> QED BY <1>2 DEF Engine!Starts

\* Interning keeps the ids there are and names the actor.
LEMMA InternKeeps ==
    ASSUME ids \in Seq(Actors), Distinct, NEW a \in Actors, Engine!Intern(a)
    PROVE  /\ ids' \in Seq(Actors) /\ Distinct'
           /\ Engine!IdOf(a) \in Nat
           /\ Engine!IdOf(a) + 1 \in DOMAIN ids' /\ ids'[Engine!IdOf(a) + 1] = a
           /\ \A i \in DOMAIN ids : i \in DOMAIN ids' /\ ids'[i] = ids[i]
<1>1. CASE a \in Engine!Interned
  <2>1. PICK i \in DOMAIN ids : ids[i] = a
    BY <1>1 DEF Engine!Interned
  <2> DEFINE k == CHOOSE j \in DOMAIN ids : ids[j] = a
  <2>2. k \in 1 .. Len(ids) /\ ids[k] = a
    BY <2>1
  <2>3. Engine!IdOf(a) = k - 1 /\ ids' = ids
    BY <1>1 DEF Engine!IdOf, Engine!Intern
  <2> HIDE DEF k
  <2> QED BY <2>2, <2>3 DEF Distinct
<1>2. CASE a \notin Engine!Interned
  <2>1. Engine!IdOf(a) = Len(ids) /\ ids' = Append(ids, a)
    BY <1>2 DEF Engine!IdOf, Engine!Intern
  <2>2. \A i \in DOMAIN ids : ids[i] # a
    BY <1>2 DEF Engine!Interned
  <2> QED BY <2>1, <2>2 DEF Distinct
<1> QED BY <1>1, <1>2

\* Recording an event sets one bit, of its own channel.
LEMMA RecordSetsBit ==
    ASSUME NEW win \in Engine!Window, win.derived = {}, NEW id \in Engine!Ids
    PROVE  /\ LET new == Engine!RecordChange(win, id, 0) IN
                 /\ new \in Engine!Window /\ new.derived = {}
                 /\ new.changed = win.changed \cup {id} /\ new.justified = win.justified
           /\ LET new == Engine!RecordCause(win, id, Kind, 0) IN
                 /\ new \in Engine!Window /\ new.derived = {}
                 /\ new.justified = win.justified \cup {id} /\ new.changed = win.changed
<1>1. \A x \in Int : Engine!Wrap(x) \in Engine!Int64
  BY DEF Engine!Wrap, Engine!Int64
<1>2. /\ Engine!Wrap(win.changeSum[id] + 0) \in Engine!Int64
      /\ Engine!Wrap(win.causeSum[id] + 0) \in Engine!Int64
  <2>1. /\ win.changeSum \in [Engine!Ids -> Engine!Int64]
        /\ win.causeSum \in [Engine!Ids -> Engine!Int64]
    BY DEF Engine!Window
  <2>2. win.changeSum[id] \in Int /\ win.causeSum[id] \in Int
    BY <2>1 DEF Engine!Int64
  <2> QED BY <1>1, <2>2
<1>3. \A c \in Engine!Channels : Engine!AddEvidence(win.evidence[id], c) \in Seq(Engine!Channels)
  <2>1. win.evidence[id] \in Seq(Engine!Channels)
    BY DEF Engine!Window
  <2> QED BY <2>1 DEF Engine!AddEvidence
<1>4. "change" \in Engine!Channels /\ "cause" \in Engine!Channels
  BY DEF Engine!Channels
<1>5. ASSUME NEW new, new = Engine!RecordChange(win, id, 0)
      PROVE  /\ new \in Engine!Window /\ new.derived = {}
             /\ new.changed = win.changed \cup {id} /\ new.justified = win.justified
  <2> DEFINE sums  == [win.changeSum EXCEPT ![id] = Engine!Wrap(@ + 0)]
             lines == [win.evidence EXCEPT ![id] = Engine!AddEvidence(@, "change")]
  <2>1. sums \in [Engine!Ids -> Engine!Int64] /\ lines \in [Engine!Ids -> Seq(Engine!Channels)]
    BY <1>2, <1>3, <1>4 DEF Engine!Window
  <2>2. new = [win EXCEPT !.changed = @ \cup {id}, !.changeSum = sums, !.evidence = lines]
    BY <1>5 DEF Engine!RecordChange, Engine!Window
  <2> HIDE DEF sums, lines
  <2> QED BY <2>1, <2>2 DEF Engine!Window
<1>6. ASSUME NEW new, new = Engine!RecordCause(win, id, Kind, 0)
      PROVE  /\ new \in Engine!Window /\ new.derived = {}
             /\ new.justified = win.justified \cup {id} /\ new.changed = win.changed
  <2> DEFINE sums  == [win.causeSum EXCEPT ![id] = Engine!Wrap(@ + 0)]
             lines == [win.evidence EXCEPT ![id] = Engine!AddEvidence(@, "cause")]
  <2>1. sums \in [Engine!Ids -> Engine!Int64] /\ lines \in [Engine!Ids -> Seq(Engine!Channels)]
    BY <1>2, <1>3, <1>4 DEF Engine!Window
  <2>2. new = [win EXCEPT !.justified = @ \cup {id}, !.derived = @, !.rooted = @ \cup {id},
                          !.causeSum = sums, !.evidence = lines]
    BY <1>6 DEF Engine!RecordCause, Engine!Window
  <2> HIDE DEF sums, lines
  <2> QED BY <2>1, <2>2 DEF Engine!Window
<1> QED BY <1>5, <1>6

-----------------------------------------------------------------------------
(* Steps *)

\* Outside Receive nothing is recorded; closing more windows, in time, and
\* raising what is deserved keeps the invariant.
LEMMA QuietStep ==
    ASSUME GraceInv, TypeOK', ClosedWhenDue', UNCHANGED <<ids, window, heard>>,
           closed \subseteq closed',
           \A al \in Alerts' : al \in Alerts \/ Deserved(al)'
    PROVE  GraceInv'
<1>1. Distinct' /\ RecordedWasHeard' /\ HeardWasRecorded'
  BY DEF GraceInv, Distinct, RecordedWasHeard, HeardWasRecorded
<1>2. ASSUME NEW al, Deserved(al) PROVE Deserved(al)'
  <2>1. \A c, a, w : HeardOf(c, a, w)' = HeardOf(c, a, w)
    BY DEF HeardOf
  <2> QED BY <1>2, <2>1 DEF Deserved, Against
<1> QED BY <1>1, <1>2 DEF GraceInv

\* What happens around the loop does not touch the engine.
LEMMA AroundLoop ==
    ASSUME GraceInv, UNCHANGED <<engine, mainLoop, sinks>>,
           /\ now' \in Times /\ sent' \in 0 .. MaxMessages
           /\ transport' \in [Channels -> Seq(Message)]
           /\ alive' \subseteq Channels
           /\ sending' \in [Channels -> Seq(Event)] /\ buffer' \in [Channels -> Seq(Event)]
           /\ tick' \in Times \cup {NoTick} /\ cancelled' \in BOOLEAN,
           now <= now', tick' # NoTick => tick' <= now'
    PROVE  GraceInv'
<1> USE DEF engine, mainLoop, sinks
<1>1. TypeOK'
  BY DEF GraceInv, TypeOK, Engine!TypeOK
<1>2. ClosedWhenDue'
  <2>1. closed \cup closer[Loop].due \subseteq Int
    BY WindowStarts DEF GraceInv, TypeOK, Engine!TypeOK, Engine!Closer
  <2>2. \A w \in Int : Deadline(w) \in Int
    BY Numbers DEF Deadline
  <2>3. now \in Int /\ now' \in Int
    BY Numbers DEF GraceInv, TypeOK
  <2>4. \A w \in closed \cup closer[Loop].due : leaving \/ Deadline(w) <= now'
    <3>1. ASSUME NEW w \in closed \cup closer[Loop].due, ~leaving PROVE Deadline(w) <= now'
      <4>1. Deadline(w) <= now
        BY <3>1 DEF GraceInv, ClosedWhenDue
      <4>2. Deadline(w) \in Int
        BY <2>1, <2>2
      <4> QED BY <4>1, <4>2, <2>3
    <3> QED BY <3>1
  <2>5. \A w : Deadline(w)' = Deadline(w)
    BY DEF Deadline
  <2> QED BY <2>4, <2>5 DEF GraceInv, ClosedWhenDue
<1>3. Alerts' = Alerts
  BY DEF Alerts, Emitted
<1> QED BY <1>1, <1>2, <1>3, QuietStep

LEMMA MessagesTyped ==
    ASSUME NEW op, NEW a \in Actors, now \in Times, NEW c \in Channels
    PROVE  Messages(op, a)[c] \in Seq(Message)
<1> DEFINE One(stamped, good) == <<[actor |-> a, at |-> now, stamped |-> stamped, good |-> good]>>
<1>1. \A stamped, good \in BOOLEAN : One(stamped, good) \in Seq(Message)
  BY DEF Message
<1>2. Messages(op, a) = [change |-> One(FALSE, op # "elsewhere"),
         cause |-> IF op = "elsewhere" THEN <<>> ELSE One(op # "unstamped", op # "unreadable")]
  BY DEF Messages
<1> HIDE DEF One
<1>3. Messages(op, a)["change"] = One(FALSE, op # "elsewhere")
  BY <1>2
<1>4. Messages(op, a)["cause"] = IF op = "elsewhere" THEN <<>> ELSE One(op # "unstamped", op # "unreadable")
  BY <1>2
<1>5. <<>> \in Seq(Message)
  OBVIOUS
<1> QED BY <1>1, <1>3, <1>4, <1>5 DEF Channels

\* The invariant's typing of the daemon's own state.
LEMMA Typed ==
    ASSUME GraceInv
    PROVE  /\ now \in Nat /\ now \in Times /\ now <= MaxTime /\ sent \in 0 .. MaxMessages
           /\ transport \in [Channels -> Seq(Message)]
           /\ alive \subseteq Channels
           /\ sending \in [Channels -> Seq(Event)] /\ buffer \in [Channels -> Seq(Event)]
           /\ tick \in Times \cup {NoTick} /\ tick \in Int /\ cancelled \in BOOLEAN
           /\ tick # NoTick => tick <= now
<1>1. now \in Nat /\ now <= MaxTime
  BY Numbers DEF GraceInv, TypeOK, Times
<1>2. tick \in Int
  <2>1. tick \in Times \cup {NoTick}
    BY DEF GraceInv, TypeOK
  <2> QED BY <2>1, Numbers
<1> QED BY <1>1, <1>2 DEF GraceInv, TypeOK, ClosedWhenDue

LEMMA WorldKeeps == ASSUME GraceInv, World PROVE GraceInv'
<1> USE Typed
<1>1. ASSUME Advance PROVE GraceInv'
  <2> DEFINE next == IF now < MaxTime THEN now + 1 ELSE now
  <2>1. now' = next /\ tick' \in {tick, next}
    BY <1>1 DEF Advance, NextTick
  <2>2. next \in Times /\ now <= next
    BY Numbers DEF Times
  <2> HIDE DEF next
  <2>3. tick' # NoTick => tick' <= now'
    <3>1. next \in Int /\ now \in Int
      BY <2>2, Numbers
    <3>2. CASE tick' = next
      BY <2>1, <3>1, <3>2
    <3>3. CASE tick' = tick
      <4>1. tick # NoTick => tick <= now
        OBVIOUS
      <4>2. tick \in Int
        OBVIOUS
      <4> QED BY <2>1, <2>2, <3>1, <3>3, <4>1, <4>2
    <3> QED BY <2>1, <3>2, <3>3
  <2>4. UNCHANGED <<engine, sent, feeds, cancelled, mainLoop, sinks>>
    BY <1>1 DEF Advance
  <2> QED BY <2>1, <2>2, <2>3, <2>4, AroundLoop DEF feeds
<1>2. ASSUME Signal PROVE GraceInv'
  BY <1>2, AroundLoop DEF Signal, feeds
<1>3. ASSUME NEW op \in Operations, NEW a \in Actors, Operate(op, a) PROVE GraceInv'
  <2>1. transport' \in [Channels -> Seq(Message)]
    BY <1>3, MessagesTyped DEF Operate
  <2>2. sent' \in 0 .. MaxMessages
    <3>1. "change" \in Channels /\ "cause" \in Channels
      BY DEF Channels
    <3>2. Len(Messages(op, a)["change"]) \in Nat /\ Len(Messages(op, a)["cause"]) \in Nat
      BY <3>1, MessagesTyped
    <3> DEFINE m == Len(Messages(op, a)["change"])
               n == Len(Messages(op, a)["cause"])
    <3>3. sent' = sent + m + n /\ sent' <= MaxMessages
      BY <1>3 DEF Operate
    <3>4. m \in Nat /\ n \in Nat
      BY <3>2
    <3> HIDE DEF m, n
    <3> QED BY <3>3, <3>4, Numbers
  <2> QED BY <1>3, <2>1, <2>2, AroundLoop DEF Operate
<1>4. ASSUME NEW c \in Channels, Lose(c) PROVE GraceInv'
  <2>1. transport[c] \in Seq(Message) /\ transport[c] # <<>>
    BY <1>4 DEF Lose
  <2>2. Tail(transport[c]) \in Seq(Message)
    BY <2>1
  <2>3. transport' \in [Channels -> Seq(Message)]
    BY <1>4, <2>2 DEF Lose
  <2> QED BY <1>4, <2>3, AroundLoop DEF Lose, InFeed
<1>5. ASSUME NEW c \in Channels, StopChannel(c) PROVE GraceInv'
  <2>1. sending' \in [Channels -> Seq(Event)]
    <3>1. <<>> \in Seq(Event)
      OBVIOUS
    <3> QED BY <1>5, <3>1 DEF StopChannel
  <2>2. alive' \subseteq Channels /\ UNCHANGED <<transport, buffer>> /\ InFeed
    BY <1>5 DEF StopChannel
  <2> QED BY <2>1, <2>2, AroundLoop DEF InFeed
<1> QED BY <1>1, <1>2, <1>3, <1>4, <1>5 DEF World

LEMMA ForwardKeeps == ASSUME GraceInv, Forward PROVE GraceInv'
<1> USE Typed
<1>1. ASSUME NEW c \in Channels, NEW events \in Seq(Event), transport[c] # <<>>, Taken(c, events)
      PROVE  GraceInv'
  <2>1. Tail(transport[c]) \in Seq(Message)
    BY <1>1
  <2>2. transport' \in [Channels -> Seq(Message)] /\ sending' \in [Channels -> Seq(Event)]
    BY <1>1, <2>1 DEF Taken
  <2> QED BY <1>1, <2>2, AroundLoop DEF Taken, InFeed
<1>2. ASSUME NEW m \in Message, NEW ts \in Times PROVE Forwarded(m, ts) \in Seq(Event)
  <2>1. [actor |-> m.actor, at |-> m.at, ts |-> ts] \in Event
    BY DEF Message, Event
  <2> QED BY <2>1 DEF Forwarded
<1>3. ASSUME NEW c \in Channels, transport[c] # <<>>
      PROVE  Head(transport[c]) \in Message
  <2>1. transport[c] \in Seq(Message)
    OBVIOUS
  <2> QED BY <1>3, <2>1
<1>4. "change" \in Channels /\ "cause" \in Channels
  BY DEF Channels
<1>5. ASSUME FeedTakes PROVE GraceInv'
  BY <1>1, <1>2, <1>3, <1>4, <1>5 DEF FeedTakes
<1>6. ASSUME BusTakes PROVE GraceInv'
  <2>1. Stamp(Head(transport["cause"])) \in Times
    BY <1>3, <1>4, <1>6 DEF BusTakes, Stamp, Message
  <2> QED BY <1>1, <1>2, <1>3, <1>4, <1>6, <2>1 DEF BusTakes
<1>7. ASSUME NEW c \in Channels, Send(c) PROVE GraceInv'
  <2>1. buffer' \in [Channels -> Seq(Event)] /\ sending' \in [Channels -> Seq(Event)]
    <3>1. buffer[c] \o sending[c] \in Seq(Event)
      OBVIOUS
    <3> QED BY <1>7, <3>1 DEF Send
  <2> QED BY <1>7, <2>1, AroundLoop DEF Send, InFeed
<1> QED BY <1>5, <1>6, <1>7 DEF Forward

-----------------------------------------------------------------------------
(* Receive *)

LEMMA RaiseTyped ==
    ASSUME GraceInv, Engine!Called, NEW a \in Actors, NEW w \in Engine!Starts,
           NEW type \in Engine!IngestTypes, Engine!Raise(type, w, a)
    PROVE  pending' \subseteq Engine!Alert /\ calls' \in 0 .. MaxMessages
<1> DEFINE al == [type |-> type, window |-> w, actors |-> {a}, call |-> calls + 1]
<1>1. calls + 1 \in 0 .. MaxMessages /\ calls' = calls + 1
  <2>1. calls \in 0 .. MaxMessages /\ calls < MaxMessages
    BY DEF Engine!Called, GraceInv, TypeOK, Engine!TypeOK
  <2> QED BY <2>1, Numbers DEF Engine!Called
<1>2. al \in Engine!Alert
  BY <1>1 DEF Engine!Alert
<1>3. pending' = pending \cup {al}
  BY DEF Engine!Raise
<1> HIDE DEF al
<1> QED BY <1>1, <1>2, <1>3 DEF GraceInv, TypeOK, Engine!TypeOK

\* What the engine does with an event of channel c: win is the window with it
\* recorded.
LEMMA IngestTyped ==
    ASSUME GraceInv, NEW a \in Actors, NEW w \in Engine!Starts, NEW win,
           Engine!Called, Engine!Ingest(a, w, win),
           Engine!IdOf(a) \in Engine!Ids => win \in Engine!Window
    PROVE  Engine!TypeOK' /\ Distinct'
<1> USE DEF Engine!Ids
<1>1. UNCHANGED <<closed, closer, delivered>>
  BY DEF Engine!Called
<1>2. calls' \in 0 .. MaxMessages
  <2>1. calls \in 0 .. MaxMessages /\ calls < MaxMessages
    BY DEF Engine!Called, GraceInv, TypeOK, Engine!TypeOK
  <2> QED BY <2>1, Numbers DEF Engine!Called
<1>3. CASE Engine!IsLate(w)
  <2>1. Engine!Raise("late_event", w, a) /\ UNCHANGED <<ids, open, window>>
    BY <1>3 DEF Engine!Ingest
  <2>2. pending' \subseteq Engine!Alert
    BY <2>1, RaiseTyped DEF Engine!IngestTypes
  <2> QED BY <1>1, <1>2, <2>1, <2>2 DEF GraceInv, TypeOK, Engine!TypeOK, Distinct
<1>4. CASE ~Engine!IsLate(w)
  <2>1. open' = open \cup {w} /\ Engine!Intern(a)
    BY <1>4 DEF Engine!Ingest
  <2>2. /\ ids' \in Seq(Actors) /\ Distinct' /\ Engine!IdOf(a) \in Nat
    BY <2>1, InternKeeps DEF GraceInv, TypeOK, Engine!TypeOK
  <2>3. pending' \subseteq Engine!Alert /\ window' \in [Engine!Starts -> Engine!Window]
    <3>1. CASE ~Engine!Fits(Engine!IdOf(a))
      <4>1. Engine!Raise("capacity_exceeded", w, a) /\ UNCHANGED window
        BY <1>4, <3>1 DEF Engine!Ingest
      <4>2. pending' \subseteq Engine!Alert
        BY <4>1, RaiseTyped DEF Engine!IngestTypes
      <4> QED BY <4>1, <4>2 DEF GraceInv, TypeOK, Engine!TypeOK
    <3>2. CASE Engine!Fits(Engine!IdOf(a))
      <4>1. window' = [window EXCEPT ![w] = win] /\ UNCHANGED pending
        BY <1>4, <3>2 DEF Engine!Ingest
      <4>2. Engine!IdOf(a) \in Engine!Ids
        BY <2>2, <3>2, Numbers DEF Engine!Fits
      <4> QED BY <4>1, <4>2 DEF GraceInv, TypeOK, Engine!TypeOK
    <3> QED BY <3>1, <3>2
  <2> QED BY <1>1, <1>2, <2>1, <2>2, <2>3 DEF GraceInv, TypeOK, Engine!TypeOK
<1> QED BY <1>3, <1>4

\* The loop reads an event in the select, so a closed window was due and an
\* event for it is not in time.
LEMMA LateIsLate ==
    ASSUME GraceInv, loop = "select", NEW w \in Engine!Starts, w \in closed
    PROVE  ~(now < Deadline(w))
<1>1. Deadline(w) <= now
  BY DEF GraceInv, ClosedWhenDue
<1>2. Deadline(w) \in Int /\ now \in Int
  BY WindowStarts, Numbers, Typed DEF Deadline
<1> QED BY <1>1, <1>2

LEMMA IngestRecords ==
    ASSUME GraceInv, loop = "select",
           NEW c \in Channels, NEW a \in Actors, NEW w \in Engine!Starts, NEW win,
           Engine!Called, Engine!Ingest(a, w, win),
           Engine!IdOf(a) \in Engine!Ids =>
               /\ win \in Engine!Window /\ win.derived = {}
               /\ SetFor(c, win) = SetFor(c, window[w]) \cup {Engine!IdOf(a)}
               /\ \A d \in Channels \ {c} : SetFor(d, win) = SetFor(d, window[w]),
           heard' = heard \cup {[channel |-> c, actor |-> a, window |-> w,
                                  inTime |-> now < Deadline(w)]}
    PROVE  RecordedWasHeard' /\ HeardWasRecorded'
<1> DEFINE id == Engine!IdOf(a)
           h  == [channel |-> c, actor |-> a, window |-> w, inTime |-> now < Deadline(w)]
<1>0. heard' = heard \cup {h} /\ h.channel = c /\ h.actor = a /\ h.window = w /\ h.inTime = (now < Deadline(w))
  OBVIOUS
<1>1. \A d \in Channels : \A b, v : Says(heard, d, b, v) => Says(heard', d, b, v)
  BY <1>0 DEF Says
<1>2. Says(heard', c, a, w)
  BY <1>0 DEF Says
<1>3. window \in [Engine!Starts -> Engine!Window] /\ ids \in Seq(Actors) /\ heard \subseteq Heard
  BY DEF GraceInv, TypeOK, Engine!TypeOK
<1> HIDE DEF h
<1>4. CASE Engine!IsLate(w)
  <2>1. UNCHANGED <<ids, window>> /\ ~h.inTime
    BY <1>0, <1>4, LateIsLate DEF Engine!Ingest, Engine!IsLate
  <2>2. RecordedWasHeard'
    <3> SUFFICES ASSUME NEW v \in Engine!Starts
                 PROVE  /\ window'[v].derived = {}
                        /\ \A d \in Channels : \A i \in SetFor(d, window'[v]) :
                              i + 1 \in DOMAIN ids' /\ Says(heard', d, ids'[i + 1], v)
      BY DEF RecordedWasHeard, SetFor, Says
    <3> QED BY <1>1, <2>1 DEF GraceInv, RecordedWasHeard
  <2>3. HeardWasRecorded'
    BY <1>0, <2>1 DEF GraceInv, HeardWasRecorded, SetFor
  <2> QED BY <2>2, <2>3
<1>5. CASE ~Engine!IsLate(w)
  <2>1. Engine!Intern(a)
    BY <1>5 DEF Engine!Ingest
  <2>2. /\ id \in Nat /\ id + 1 \in DOMAIN ids' /\ ids'[id + 1] = a
        /\ \A i \in DOMAIN ids : i \in DOMAIN ids' /\ ids'[i] = ids[i]
    BY <1>3, <2>1, InternKeeps DEF GraceInv
  <2>3. /\ Engine!Fits(id) <=> id \in Engine!Ids
        /\ ~Engine!Fits(id) => window' = window
        /\ Engine!Fits(id) => window' = [window EXCEPT ![w] = win]
    BY <1>5, <2>2, Numbers DEF Engine!Ingest, Engine!Fits, Engine!Ids
  <2> HIDE DEF id
  <2>4. ASSUME NEW v \in Engine!Starts, NEW d \in Channels
        PROVE  /\ window'[v].derived = {}
               /\ SetFor(d, window[v]) \subseteq SetFor(d, window'[v])
               /\ \A i \in SetFor(d, window'[v]) :
                     i \in SetFor(d, window[v]) \/ (i = id /\ v = w /\ d = c)
               /\ v = w /\ d = c /\ id \in Engine!Ids => id \in SetFor(d, window'[v])
    <3>1. window[v].derived = {}
      BY DEF GraceInv, RecordedWasHeard
    <3>2. CASE Engine!Fits(id) /\ v = w
      <4>1. window'[v] = win
        BY <1>3, <2>3, <3>2
      <4> QED BY <2>3, <3>2, <4>1 DEF id
    <3>3. CASE ~(Engine!Fits(id) /\ v = w)
      <4>1. window'[v] = window[v]
        BY <1>3, <2>3, <3>3
      <4> QED BY <2>3, <3>1, <3>3, <4>1
    <3> QED BY <3>2, <3>3
  <2>5. RecordedWasHeard'
    <3> SUFFICES ASSUME NEW v \in Engine!Starts
                 PROVE  /\ window'[v].derived = {}
                        /\ \A d \in Channels : \A i \in SetFor(d, window'[v]) :
                              i + 1 \in DOMAIN ids' /\ Says(heard', d, ids'[i + 1], v)
      BY DEF RecordedWasHeard, SetFor, Says
    <3>1. window'[v].derived = {}
      BY <2>4 DEF Channels
    <3>2. ASSUME NEW d \in Channels, NEW i \in SetFor(d, window'[v])
          PROVE  i + 1 \in DOMAIN ids' /\ Says(heard', d, ids'[i + 1], v)
      <4>1. CASE i \in SetFor(d, window[v])
        <5>1. i + 1 \in DOMAIN ids /\ Says(heard, d, ids[i + 1], v)
          BY <4>1 DEF GraceInv, RecordedWasHeard
        <5> QED BY <1>1, <2>2, <5>1
      <4>2. CASE i = id /\ v = w /\ d = c
        BY <1>2, <2>2, <4>2
      <4> QED BY <2>4, <4>1, <4>2
    <3> QED BY <3>1, <3>2
  <2>6. HeardWasRecorded'
    <3> SUFFICES ASSUME NEW g \in heard', g.inTime
                 PROVE  \E i \in DOMAIN ids' :
                           /\ ids'[i] = g.actor
                           /\ i <= Capacity => i - 1 \in SetFor(g.channel, window'[g.window])
      BY DEF HeardWasRecorded, SetFor
    <3>1. CASE g \in heard
      <4>1. PICK i \in DOMAIN ids :
               ids[i] = g.actor /\ (i <= Capacity => i - 1 \in SetFor(g.channel, window[g.window]))
        BY <3>1 DEF GraceInv, HeardWasRecorded
      <4>2. g.channel \in Channels /\ g.window \in Engine!Starts
        BY <1>3, <3>1 DEF Heard
      <4>3. SetFor(g.channel, window[g.window]) \subseteq SetFor(g.channel, window'[g.window])
        BY <2>4, <4>2
      <4> QED BY <2>2, <4>1, <4>3
    <3>2. CASE g = h
      <4>1. id + 1 <= Capacity => id \in Engine!Ids
        BY <2>2, Numbers DEF Engine!Ids
      <4>2. id + 1 <= Capacity => id \in SetFor(c, window'[w])
        BY <2>4, <4>1
      <4>3. (id + 1) - 1 = id
        BY <2>2
      <4> QED BY <1>0, <2>2, <3>2, <4>2, <4>3
    <3> QED BY <1>0, <3>1, <3>2
  <2> QED BY <2>5, <2>6
<1> QED BY <1>4, <1>5

\* An event the loop reads once a window is closed takes no charge about it back.
LEMMA HeardKeepsDeserved ==
    ASSUME GraceInv, loop = "select", NEW al, Deserved(al), UNCHANGED closed,
           NEW h \in Heard, heard' = heard \cup {h}, h.inTime = (now < Deadline(h.window))
    PROVE  Deserved(al)'
<1>1. \A c, a, w : /\ HeardOf(c, a, w) \subseteq HeardOf(c, a, w)'
                   /\ HeardOf(c, a, w)' \subseteq HeardOf(c, a, w) \cup {h}
                   /\ \A g \in HeardOf(c, a, w)' : g.window = w
  BY DEF HeardOf
<1>2. h.window \in closed => ~h.inTime
  BY LateIsLate DEF Heard
<1>3. ASSUME NEW mine, NEW other, NEW a, NEW w, w \in closed, Against(mine, other, a, w)
      PROVE  Against(mine, other, a, w)'
  BY <1>1, <1>2, <1>3 DEF Against
<1>4. ASSUME NEW a \in al.actors
      PROVE  /\ al.type = "unauthorized_change" =>
                   al.window \in closed' /\ Against("change", "cause", a, al.window)'
             /\ al.type = "missing_change" =>
                   al.window \in closed' /\ Against("cause", "change", a, al.window)'
             /\ al.type = "late_event" =>
                   \E c \in Channels : \E g \in HeardOf(c, a, al.window)' : ~g.inTime
  <2>1. al.type = "late_event" =>
          \E c \in Channels : \E g \in HeardOf(c, a, al.window)' : ~g.inTime
    BY <1>1, <1>4 DEF Deserved
  <2> QED BY <1>3, <1>4, <2>1 DEF Deserved
<1> QED BY <1>4 DEF Deserved

LEMMA LateDeserved ==
    ASSUME NEW al, NEW a, al.type = "late_event", al.actors = {a},
           NEW h, h \in heard', h.channel \in Channels, h.actor = a, h.window = al.window, ~h.inTime
    PROVE  Deserved(al)'
<1>1. h \in HeardOf(h.channel, a, al.window)'
  BY DEF HeardOf
<1> QED BY <1>1 DEF Deserved

LEMMA ReceiveKeeps == ASSUME GraceInv, NEW c \in Channels, Receive(c) PROVE GraceInv'
<1> DEFINE e  == Head(buffer[c])
           a  == e.actor
           w  == Engine!WindowStart(e.ts)
           id == Engine!IdOf(a)
           h  == [channel |-> c, actor |-> a, window |-> w, inTime |-> now < Deadline(w)]
<1>1. /\ loop = "select" /\ buffer[c] # <<>> /\ Observe(c, e) /\ heard' = heard \cup {h}
      /\ buffer' = [buffer EXCEPT ![c] = Tail(@)]
      /\ UNCHANGED <<tick, loop, leaving, batch, sinks>> /\ InLoop
  BY DEF Receive
<1>2. buffer[c] \in Seq(Event) /\ e \in Event
  <2>1. buffer[c] \in Seq(Event)
    BY Typed
  <2> QED BY <1>1, <2>1
<1>3. a \in Actors /\ w \in Engine!Starts
  BY <1>2, WindowStarts DEF Event
<1>4. h \in Heard
  BY <1>3 DEF Heard
<1> HIDE DEF e, a, w, id
<1>5. window[w] \in Engine!Window /\ window[w].derived = {}
  BY <1>3 DEF GraceInv, TypeOK, Engine!TypeOK, RecordedWasHeard
<1>6. PICK win :
        /\ Engine!Called /\ Engine!Ingest(a, w, win)
        /\ id \in Engine!Ids =>
             /\ win \in Engine!Window /\ win.derived = {}
             /\ SetFor(c, win) = SetFor(c, window[w]) \cup {id}
             /\ \A d \in Channels \ {c} : SetFor(d, win) = SetFor(d, window[w])
  <2>1. CASE c = "change"
    <3>1. /\ Engine!Called
          /\ Engine!Ingest(a, w, Engine!RecordChange(window[w], id, 0))
      BY <1>1, <2>1 DEF Observe, Engine!ObserveChange, a, w, id
    <3> QED BY <1>5, <2>1, <3>1, RecordSetsBit DEF SetFor, Channels
  <2>2. CASE c = "cause"
    <3>1. /\ Engine!Called
          /\ Engine!Ingest(a, w, Engine!RecordCause(window[w], id, Kind, 0))
      BY <1>1, <2>2 DEF Observe, Engine!ObserveCause, Engine!RejectCause, Engine!Trusted, a, w, id
    <3> QED BY <1>5, <2>2, <3>1, RecordSetsBit DEF SetFor, Channels
  <2> QED BY <2>1, <2>2 DEF Channels
<1>7. Engine!TypeOK' /\ Distinct'
  BY <1>3, <1>6, IngestTyped DEF id
<1>8. RecordedWasHeard' /\ HeardWasRecorded'
  BY <1>1, <1>3, <1>6, IngestRecords DEF id
<1>9. UNCHANGED <<closed, closer, delivered>>
  BY <1>6 DEF Engine!Called
<1>10. TypeOK'
  <2>1. Tail(buffer[c]) \in Seq(Event)
    BY <1>1, <1>2
  <2>2. buffer' \in [Channels -> Seq(Event)]
    BY <1>1, <2>1, Typed
  <2>3. heard' \subseteq Heard
    BY <1>1, <1>4 DEF GraceInv, TypeOK
  <2> QED BY <1>1, <1>7, <2>2, <2>3 DEF GraceInv, TypeOK, InLoop, sinks
<1>11. ClosedWhenDue'
  BY <1>1, <1>9 DEF GraceInv, ClosedWhenDue, InLoop, Deadline
<1>12. ASSUME NEW al, Deserved(al) PROVE Deserved(al)'
  <2>1. h.inTime = (now < Deadline(h.window))
    OBVIOUS
  <2> HIDE DEF h
  <2> QED BY <1>1, <1>4, <1>9, <1>12, <2>1, HeardKeepsDeserved
<1>13. ASSUME NEW al \in pending' PROVE Deserved(al)'
  <2>1. CASE al \in pending
    BY <1>12, <2>1 DEF GraceInv, Alerts
  <2>2. CASE Engine!IsLate(w) /\ al.type = "late_event" /\ al.window = w /\ al.actors = {a}
    <3>1. ~h.inTime
      BY <1>1, <1>3, <2>2, LateIsLate DEF Engine!IsLate
    <3>2. h \in heard' /\ h.channel = c /\ h.actor = a /\ h.window = w
      BY <1>1
    <3> HIDE DEF h
    <3> QED BY <2>2, <3>1, <3>2, LateDeserved
  <2>3. CASE al.type = "capacity_exceeded"
    BY <2>3 DEF Deserved
  <2> QED BY <1>6, <2>1, <2>2, <2>3 DEF Engine!Ingest, Engine!Raise
<1>14. \A al \in Alerts' : Deserved(al)'
  <2>1. Alerts' \subseteq Alerts \cup pending'
    BY <1>1, <1>9 DEF Alerts, Emitted, sinks
  <2> QED BY <1>12, <1>13, <2>1 DEF GraceInv
<1> QED BY <1>7, <1>8, <1>10, <1>11, <1>14 DEF GraceInv

-----------------------------------------------------------------------------
(* Closing and emitting *)

\* The bits of one channel without the other's are charges that are deserved.
LEMMA DifferenceDeserved ==
    ASSUME GraceInv, NEW mine \in Channels, NEW other \in Channels, mine # other,
           NEW w \in Engine!Starts,
           NEW a \in Engine!Names(Engine!Difference(SetFor(mine, window[w]), SetFor(other, window[w])))
    PROVE  a \in Actors /\ Against(mine, other, a, w)
<1>1. PICK i \in SetFor(mine, window[w]) : i \notin SetFor(other, window[w]) /\ a = ids[i + 1]
  BY DEF Engine!Names, Engine!Difference
<1>2. i + 1 \in DOMAIN ids /\ Says(heard, mine, a, w)
  BY <1>1 DEF GraceInv, RecordedWasHeard
<1>3. ids \in Seq(Actors) /\ window[w] \in Engine!Window
  BY DEF GraceInv, TypeOK, Engine!TypeOK
<1>4. i \in Engine!Ids
  BY <1>1, <1>3 DEF SetFor, Engine!Window
<1>5. ASSUME NEW h \in HeardOf(other, a, w), h.inTime PROVE FALSE
  <2>1. PICK j \in DOMAIN ids :
           ids[j] = a /\ (j <= Capacity => j - 1 \in SetFor(other, window[w]))
    BY <1>5 DEF HeardOf, GraceInv, HeardWasRecorded
  <2>2. j = i + 1
    BY <1>1, <1>2, <2>1 DEF GraceInv, Distinct
  <2>3. j <= Capacity /\ j - 1 = i
    BY <1>4, <2>2, Numbers DEF Engine!Ids
  <2> QED BY <1>1, <2>1, <2>3
<1> QED BY <1>1, <1>2, <1>3, <1>5 DEF Against, HeardOf, Says

LEMMA VerdictDeserved ==
    ASSUME GraceInv, NEW w \in Engine!Starts, w \in closed, NEW al \in Engine!Verdict(w)
    PROVE  al \in Engine!Alert /\ Deserved(al)
<1> DEFINE changed == window[w].changed
           justified == window[w].justified
<1>1. /\ changed = SetFor("change", window[w]) /\ justified = SetFor("cause", window[w])
      /\ window[w].derived = {}
  BY DEF GraceInv, RecordedWasHeard, SetFor
<1>2. al.actors # {}
  BY DEF Engine!Verdict
<1>3. /\ Engine!Names(Engine!Difference(window[w].derived, window[w].rooted)) = {}
      /\ Engine!Names(Engine!Mismatched(window[w])) = {}
  BY <1>1 DEF Engine!Names, Engine!Difference, Engine!Mismatched
<1> DEFINE un == [type |-> "unauthorized_change", window |-> w,
                  actors |-> Engine!Names(Engine!Difference(changed, justified)), call |-> 0]
           mi == [type |-> "missing_change", window |-> w,
                  actors |-> Engine!Names(Engine!Difference(justified, changed)), call |-> 0]
<1>4. al = un \/ al = mi
  BY <1>2, <1>3 DEF Engine!Verdict, Engine!Charge
<1>5. "change" \in Channels /\ "cause" \in Channels /\ 0 \in 0 .. MaxMessages
  BY Numbers DEF Channels
<1>6. CASE al = un
  <2>1. \A a \in al.actors : a \in Actors /\ Against("change", "cause", a, w)
    BY <1>1, <1>5, <1>6, DifferenceDeserved
  <2> QED BY <1>5, <1>6, <2>1 DEF Engine!Alert, Engine!VerdictTypes, Deserved
<1>7. CASE al = mi
  <2>1. \A a \in al.actors : a \in Actors /\ Against("cause", "change", a, w)
    BY <1>1, <1>5, <1>7, DifferenceDeserved
  <2> QED BY <1>5, <1>7, <2>1 DEF Engine!Alert, Engine!VerdictTypes, Deserved
<1> QED BY <1>4, <1>6, <1>7

\* Listing windows: those due by the tick, or any when the daemon leaves.
LEMMA BeginKeeps ==
    ASSUME GraceInv, NEW due \in SUBSET open, Engine!BeginClose(Loop, due),
           loop' = "closing", leaving' \in BOOLEAN, leaving => leaving',
           tick' \in {tick, NoTick},
           \A w \in due : leaving' \/ Deadline(w) <= now,
           UNCHANGED <<buffer, batch, heard, sinks>>, InLoop
    PROVE  GraceInv'
<1> USE DEF sinks, InLoop
<1> DEFINE me == [Engine!idleCloser EXCEPT !.at = "closing", !.due = due]
<1>1. /\ closer' = [closer EXCEPT ![Loop] = me]
      /\ UNCHANGED <<ids, open, closed, window, pending, calls, delivered>>
  BY DEF Engine!BeginClose
<1>2. closer \in [{Loop} -> Engine!Closer] /\ due \subseteq Engine!Starts
  BY DEF GraceInv, TypeOK, Engine!TypeOK
<1>3. me \in Engine!Closer /\ me.at = "closing" /\ me.due = due /\ me.out = {}
  BY <1>2 DEF Engine!idleCloser, Engine!Closer
<1> HIDE DEF me
<1>4. /\ closer' \in [{Loop} -> Engine!Closer]
      /\ closer'[Loop].at = "closing" /\ closer'[Loop].due = due /\ closer'[Loop].out = {}
  BY <1>1, <1>2, <1>3
<1>5. TypeOK'
  BY <1>1, <1>4 DEF GraceInv, TypeOK, Engine!TypeOK
<1>6. ClosedWhenDue'
  BY <1>1, <1>4 DEF GraceInv, ClosedWhenDue, Deadline
<1>7. Alerts' \subseteq Alerts
  BY <1>1, <1>4 DEF Alerts, Emitted
<1> QED BY <1>1, <1>5, <1>6, <1>7, QuietStep

LEMMA TickKeeps == ASSUME GraceInv, TickArrives PROVE GraceInv'
<1> DEFINE due == {w \in open : Engine!DueBy(tick, w)}
<1>1. due \subseteq Int
  BY WindowStarts DEF GraceInv, TypeOK, Engine!TypeOK
<1>2. tick \in Int /\ now \in Int /\ tick <= now
  BY Typed DEF TickArrives
<1>3. ASSUME NEW w \in due PROVE Deadline(w) <= now
  <2>1. tick >= w + WindowSize + Grace
    BY DEF Engine!DueBy
  <2> QED BY <1>1, <1>2, <2>1, Numbers DEF Deadline
<1> QED BY <1>3, BeginKeeps DEF TickArrives, Engine!CloseDue, GraceInv, TypeOK

LEMMA DoneKeeps == ASSUME GraceInv, ContextDone PROVE GraceInv'
BY BeginKeeps DEF ContextDone, Engine!CloseAll, GraceInv, TypeOK

LEMMA CloseWindowKeeps ==
    ASSUME GraceInv, Engine!CloseWindow(Loop), loop = "closing",
           UNCHANGED <<loop, batch, buffer, tick, leaving, heard, sinks>>, InLoop
    PROVE  GraceInv'
<1> USE DEF sinks, InLoop
<1>1. PICK key \in closer[Loop].due :
        /\ \/ /\ key \in open /\ open' = open \ {key} /\ closed' = closed \cup {key}
              /\ closer' = [closer EXCEPT ![Loop].due = @ \ {key},
                                         ![Loop].key = key, ![Loop].at = "judging"]
           \/ /\ closer' = [closer EXCEPT ![Loop].due = @ \ {key}]
              /\ UNCHANGED <<open, closed>>
        /\ UNCHANGED <<ids, window, pending, calls, delivered>>
  BY DEF Engine!CloseWindow, Engine!StillOpen
<1> DEFINE me == closer[Loop]
<1>2. closer \in [{Loop} -> Engine!Closer] /\ me \in Engine!Closer /\ key \in Engine!Starts
  BY DEF GraceInv, TypeOK, Engine!TypeOK, Engine!Closer
<1>3. /\ closer' \in [{Loop} -> Engine!Closer]
      /\ closer'[Loop].due = me.due \ {key} /\ closer'[Loop].out = me.out
      /\ \/ closer'[Loop].at = "judging" /\ closer'[Loop].key = key
            /\ open' = open \ {key} /\ closed' = closed \cup {key}
         \/ closer'[Loop].at = me.at /\ closer'[Loop].key = me.key /\ UNCHANGED <<open, closed>>
  BY <1>1, <1>2 DEF Engine!Closer
<1>4. TypeOK'
  BY <1>1, <1>2, <1>3 DEF GraceInv, TypeOK, Engine!TypeOK
<1>5. ClosedWhenDue'
  BY <1>3 DEF GraceInv, ClosedWhenDue, Deadline
<1>6. Alerts' = Alerts
  BY <1>1, <1>3 DEF Alerts, Emitted
<1> QED BY <1>1, <1>3, <1>4, <1>5, <1>6, QuietStep, SMTT(20)

LEMMA JudgeKeeps ==
    ASSUME GraceInv, Engine!Judge(Loop),
           UNCHANGED <<loop, batch, buffer, tick, leaving, heard, sinks>>, InLoop
    PROVE  GraceInv'
<1> USE DEF sinks, InLoop
<1> DEFINE me == closer[Loop]
           verdict == Engine!Verdict(me.key)
<1>1. /\ me.at = "judging"
      /\ closer' = [closer EXCEPT ![Loop].out = @ \cup verdict,
                                 ![Loop].key = Engine!NoKey, ![Loop].at = "closing"]
      /\ UNCHANGED <<ids, open, closed, window, pending, calls, delivered>>
  BY DEF Engine!Judge
<1>2. closer \in [{Loop} -> Engine!Closer] /\ me \in Engine!Closer /\ me.key \in Engine!Starts /\ me.key \in closed
  BY <1>1 DEF GraceInv, TypeOK, Engine!TypeOK, ClosedWhenDue
<1>3. \A al \in verdict : al \in Engine!Alert /\ Deserved(al)
  BY <1>2, VerdictDeserved
<1> HIDE DEF verdict
<1>4. /\ closer' \in [{Loop} -> Engine!Closer]
      /\ closer'[Loop].due = me.due /\ closer'[Loop].out = me.out \cup verdict
      /\ closer'[Loop].at = "closing"
  BY <1>1, <1>2, <1>3 DEF Engine!Closer
<1>5. TypeOK'
  BY <1>1, <1>4 DEF GraceInv, TypeOK, Engine!TypeOK
<1>6. ClosedWhenDue'
  BY <1>1, <1>4 DEF GraceInv, ClosedWhenDue, Deadline
<1>7. \A al \in Alerts' : al \in Alerts \/ al \in verdict
  BY <1>1, <1>4 DEF Alerts, Emitted
<1>8. ASSUME NEW al, Deserved(al) PROVE Deserved(al)'
  BY <1>1, <1>8 DEF Deserved, Against, HeardOf
<1> QED BY <1>1, <1>3, <1>5, <1>6, <1>7, <1>8, QuietStep

LEMMA ReturnKeeps ==
    ASSUME GraceInv, Engine!Return(Loop), batch' = Engine!Batch(Loop), loop' = Emitting(batch'),
           UNCHANGED <<buffer, tick, leaving, heard, sinks>>, InLoop
    PROVE  GraceInv'
<1> USE DEF sinks, InLoop
<1>1. /\ closer' = [closer EXCEPT ![Loop] = [at |-> "idle", due |-> {}, key |-> Engine!NoKey, out |-> {}]]
      /\ pending' = {} /\ delivered' = delivered \cup batch'
      /\ batch' = pending \cup closer[Loop].out
      /\ UNCHANGED <<ids, open, closed, window, calls>>
  BY DEF Engine!Return, Engine!Batch, Engine!idleCloser
<1>2. closer \in [{Loop} -> Engine!Closer] /\ closer[Loop].out \subseteq Engine!Alert
  BY DEF GraceInv, TypeOK, Engine!TypeOK, Engine!Closer
<1>3. closer' \in [{Loop} -> Engine!Closer]
      /\ closer'[Loop] = [at |-> "idle", due |-> {}, key |-> Engine!NoKey, out |-> {}]
  BY <1>1, <1>2 DEF Engine!Closer
<1>4. loop' \in {"select", "emitting", "returned"} /\ (loop' = "select" => ~leaving)
  BY DEF Emitting
<1>5. TypeOK'
  BY <1>1, <1>2, <1>3, <1>4 DEF GraceInv, TypeOK, Engine!TypeOK
<1>6. ClosedWhenDue'
  BY <1>1, <1>3, <1>4 DEF GraceInv, ClosedWhenDue, Deadline
<1>7. Alerts' \subseteq Alerts
  BY <1>1, <1>3 DEF Alerts, Emitted
<1> QED BY <1>1, <1>5, <1>6, <1>7, QuietStep

LEMMA EmitKeeps == ASSUME GraceInv, NEW al \in batch, Emit(al) PROVE GraceInv'
<1> USE DEF InLoop, engine
<1>1. /\ batch' = batch \ {al} /\ report' \subseteq report \cup {al}
      /\ dropped' \subseteq dropped \cup {al} /\ postgres' \subseteq postgres \cup {al}
      /\ UNCHANGED <<engine, buffer, tick, leaving, heard>> /\ InLoop
  BY DEF Emit, Rest, AppendAlert, AppendFails, Insert
<1>2. loop' \in {"select", "emitting", "returned"} /\ (loop' = "select" => ~leaving)
  BY DEF Emit, Emitting
<1>3. al \in Engine!Alert
  BY DEF GraceInv, TypeOK
<1>4. TypeOK'
  BY <1>1, <1>2, <1>3 DEF GraceInv, TypeOK, Engine!TypeOK
<1>5. ClosedWhenDue'
  BY <1>1, <1>2 DEF GraceInv, ClosedWhenDue, Deadline
<1>6. Alerts' \subseteq Alerts
  BY <1>1 DEF Alerts, Emitted
<1> QED BY <1>1, <1>4, <1>5, <1>6, QuietStep

-----------------------------------------------------------------------------
(* The theorems *)

LEMMA GraceInit == Init => GraceInv
<1> SUFFICES ASSUME Init PROVE GraceInv
  OBVIOUS
<1> USE DEF Init, Engine!Init
<1>1. Engine!newWindow \in Engine!Window /\ Engine!newWindow.derived = {}
      /\ Engine!newWindow.changed = {} /\ Engine!newWindow.justified = {}
  <2>1. 0 \in Engine!Int64 /\ <<>> \in Seq(Engine!Channels)
    BY DEF Engine!Int64
  <2> QED BY <2>1 DEF Engine!newWindow, Engine!Window
<1>2. Engine!idleCloser \in Engine!Closer
  BY DEF Engine!idleCloser, Engine!Closer
<1>3. StartTime \in Times /\ 0 \in 0 .. MaxMessages
  <2>1. StartTime \in 0 .. MaxTime
    BY DaemonAssumption
  <2> QED BY <2>1, Numbers DEF Times
<1>4. TypeOK
  <2>1. Engine!TypeOK
    BY <1>1, <1>2, <1>3 DEF Engine!TypeOK
  <2>2. /\ transport \in [Channels -> Seq(Message)]
        /\ sending \in [Channels -> Seq(Event)] /\ buffer \in [Channels -> Seq(Event)]
    <3>1. <<>> \in Seq(Message) /\ <<>> \in Seq(Event)
      OBVIOUS
    <3> QED BY <3>1
  <2>3. {cancelled, leaving} \subseteq BOOLEAN
    OBVIOUS
  <2> QED BY <1>3, <2>1, <2>2, <2>3 DEF TypeOK
<1>5. Distinct /\ RecordedWasHeard /\ HeardWasRecorded
  BY <1>1 DEF Distinct, RecordedWasHeard, HeardWasRecorded, SetFor
<1>6. ClosedWhenDue /\ Alerts = {}
  BY DEF ClosedWhenDue, Alerts, Emitted, Engine!idleCloser
<1> QED BY <1>4, <1>5, <1>6 DEF GraceInv

LEMMA GraceNext == GraceInv /\ [Next]_vars => GraceInv'
<1> SUFFICES ASSUME GraceInv, [Next]_vars PROVE GraceInv'
  OBVIOUS
<1>1. CASE World
  BY <1>1, WorldKeeps
<1>2. CASE Forward
  BY <1>2, ForwardKeeps
<1>3. CASE TickArrives
  BY <1>3, TickKeeps
<1>4. CASE ContextDone
  BY <1>4, DoneKeeps
<1>5. CASE Closing
  BY <1>5, CloseWindowKeeps, JudgeKeeps, ReturnKeeps DEF Closing
<1>6. ASSUME NEW c \in Channels, Receive(c) PROVE GraceInv'
  BY <1>6, ReceiveKeeps
<1>7. ASSUME NEW al \in batch, Emit(al) PROVE GraceInv'
  BY <1>7, EmitKeeps
<1>8. CASE UNCHANGED vars
  BY <1>8, AroundLoop, Typed DEF vars, feeds
<1> QED BY <1>1, <1>2, <1>3, <1>4, <1>5, <1>6, <1>7, <1>8 DEF Next, LoopStep

LEMMA SpecGraceInv == Spec => []GraceInv
BY GraceInit, GraceNext, PTL DEF Spec

\* The engine and the channels of the daemon keep their types, whatever the
\* loop is interleaved with.
THEOREM DaemonTypeCorrect == Spec => []TypeOK
<1>1. GraceInv => TypeOK
  BY DEF GraceInv
<1> QED BY <1>1, SpecGraceInv, PTL

\* No charge is ever raised against an event the loop read before the deadline
\* of its window, for any grace, any lag and any order of ticks and events.
THEOREM GraceHolds == Spec => []GraceIsKept
<1>1. GraceInv => GraceIsKept
  BY DEF GraceInv, Alerts, Deserved, Against, GraceIsKept
<1> QED BY <1>1, SpecGraceInv, PTL

-----------------------------------------------------------------------------
(* Every event is answered *)

\* What was read is recorded in a window that is or was open, or an alert
\* names it.
HeardIsKept ==
    \A h \in heard :
        \/ \E al \in Alerts : al.window = h.window /\ h.actor \in al.actors
        \/ /\ h.window \in open \cup closed
           /\ \E i \in DOMAIN ids :
                 ids[i] = h.actor /\ i - 1 \in SetFor(h.channel, window[h.window])

\* The verdict of a closed window is being computed or has been given.
ClosedIsJudged ==
    \A w \in closed : \/ closer[Loop].at = "judging" /\ closer[Loop].key = w
                      \/ Engine!Verdict(w) \subseteq Alerts

\* Alerts are in the engine's hands only while the loop is in a call of it, and
\* in emit's only while it is there.
InHand ==
    /\ loop # "closing" => closer[Loop].at = "idle" /\ closer[Loop].out = {}
    /\ loop # "emitting" => batch = {}

\* The last close leaves nothing open.
LeavingClosesAll ==
    /\ loop = "returned" => leaving
    /\ leaving => \/ loop = "closing" /\ open \subseteq closer[Loop].due
                  \/ loop \in {"emitting", "returned"} /\ open = {} /\ pending = {}

AnswerInv ==
    /\ GraceInv
    /\ HeardIsKept /\ ClosedIsJudged
    /\ InHand /\ LeavingClosesAll

\* What is recorded about a window, and who has which id, decides its verdict.
LEMMA VerdictStable ==
    ASSUME GraceInv, NEW w \in Engine!Starts, window'[w] = window[w],
           \A i \in DOMAIN ids : ids'[i] = ids[i]
    PROVE  Engine!Verdict(w)' = Engine!Verdict(w)
<1> DEFINE win == window[w]
<1>1. \A i \in win.changed \cup win.justified : i + 1 \in DOMAIN ids
  BY DEF GraceInv, RecordedWasHeard, SetFor, Channels
<1>2. win.derived = {}
  BY DEF GraceInv, RecordedWasHeard
<1>3. \A S : S \subseteq win.changed \cup win.justified =>
               {ids'[i + 1] : i \in S} = {ids[i + 1] : i \in S}
  BY <1>1
<1>4. /\ {ids'[i + 1] : i \in win.changed \ win.justified} = {ids[i + 1] : i \in win.changed \ win.justified}
      /\ {ids'[i + 1] : i \in win.justified \ win.changed} = {ids[i + 1] : i \in win.justified \ win.changed}
      /\ {ids'[i + 1] : i \in win.derived \ win.rooted} = {ids[i + 1] : i \in win.derived \ win.rooted}
  BY <1>2, <1>3
<1>5. Engine!Mismatched(window'[w]) = {} /\ Engine!Mismatched(win) = {}
  BY DEF Engine!Mismatched
<1>6. {ids'[i + 1] : i \in {}} = {ids[i + 1] : i \in {}}
  OBVIOUS
<1> QED BY <1>4, <1>5, <1>6 DEF Engine!Verdict, Engine!Charge, Engine!Names, Engine!Difference, Engine!Mismatched

LEMMA AroundLoopAnswers ==
    ASSUME AnswerInv, GraceInv', UNCHANGED <<engine, mainLoop, sinks>>
    PROVE  AnswerInv'
<1> USE DEF engine, mainLoop, sinks
<1>1. Alerts' = Alerts
  BY DEF Alerts, Emitted
<1>2. HeardIsKept'
  BY <1>1 DEF AnswerInv, HeardIsKept, SetFor
<1>3. ClosedIsJudged'
  <2>1. \A w \in closed : Engine!Verdict(w)' = Engine!Verdict(w)
    BY VerdictStable DEF AnswerInv, GraceInv, TypeOK, Engine!TypeOK
  <2> QED BY <1>1, <2>1 DEF AnswerInv, ClosedIsJudged
<1>4. InHand' /\ LeavingClosesAll'
  BY DEF AnswerInv, InHand, LeavingClosesAll
<1> QED BY <1>2, <1>3, <1>4 DEF AnswerInv

LEMMA AlertNames ==
    ASSUME NEW type, NEW w, NEW a, NEW n, NEW S, NEW T,
           T = S \cup {[type |-> type, window |-> w, actors |-> {a}, call |-> n]}
    PROVE  \E al \in T : al.window = w /\ a \in al.actors
<1> DEFINE al == [type |-> type, window |-> w, actors |-> {a}, call |-> n]
<1>1. al \in T /\ al.window = w /\ a \in al.actors
  OBVIOUS
<1> QED BY <1>1

LEMMA IngestAnswers ==
    ASSUME AnswerInv, GraceInv', loop = "select", UNCHANGED <<closed, closer, batch, report, dropped>>,
           NEW c \in Channels, NEW a \in Actors, NEW w \in Engine!Starts, NEW win,
           Engine!Ingest(a, w, win),
           Engine!IdOf(a) \in Engine!Ids =>
               /\ SetFor(c, win) = SetFor(c, window[w]) \cup {Engine!IdOf(a)}
               /\ \A d \in Channels \ {c} : SetFor(d, win) = SetFor(d, window[w]),
           heard' = heard \cup {[channel |-> c, actor |-> a, window |-> w,
                                  inTime |-> now < Deadline(w)]}
    PROVE  HeardIsKept' /\ ClosedIsJudged'
<1> DEFINE id == Engine!IdOf(a)
           h  == [channel |-> c, actor |-> a, window |-> w, inTime |-> now < Deadline(w)]
<1>0. heard' = heard \cup {h} /\ h.channel = c /\ h.actor = a /\ h.window = w
  OBVIOUS
<1> HIDE DEF h
<1>1. /\ window \in [Engine!Starts -> Engine!Window] /\ ids \in Seq(Actors)
      /\ heard \subseteq Heard /\ closed \subseteq Engine!Starts
  BY DEF AnswerInv, GraceInv, TypeOK, Engine!TypeOK
<1>2. pending \subseteq pending' /\ Alerts' = pending' \cup Alerts
  BY DEF Engine!Ingest, Engine!Raise, Alerts, Emitted
<1>3. /\ open \cup closed \subseteq open' \cup closed'
      /\ \A i \in DOMAIN ids : i \in DOMAIN ids' /\ ids'[i] = ids[i]
      /\ \A v \in Engine!Starts, d \in Channels :
            /\ v \in closed => window'[v] = window[v]
            /\ SetFor(d, window[v]) \subseteq SetFor(d, window'[v])
      /\ \/ \E al \in pending' : al.window = w /\ a \in al.actors
         \/ w \in open' /\ id + 1 \in DOMAIN ids' /\ ids'[id + 1] = a
            /\ (id + 1) - 1 = id /\ id \in SetFor(c, window'[w])
  <2>1. CASE Engine!IsLate(w)
    <3>1. /\ UNCHANGED <<ids, open, window>>
          /\ pending' = pending \cup {[type |-> "late_event", window |-> w, actors |-> {a}, call |-> calls + 1]}
      BY <2>1 DEF Engine!Ingest, Engine!Raise
    <3>2. \E al \in pending' : al.window = w /\ a \in al.actors
      BY <3>1, AlertNames, ZenonT(40)
    <3> QED BY <3>1, <3>2
  <2>2. CASE ~Engine!IsLate(w)
    <3>1. open' = open \cup {w} /\ Engine!Intern(a) /\ w \notin closed
      BY <2>2 DEF Engine!Ingest, Engine!IsLate
    <3>2. /\ id \in Nat /\ id + 1 \in DOMAIN ids' /\ ids'[id + 1] = a
          /\ \A i \in DOMAIN ids : i \in DOMAIN ids' /\ ids'[i] = ids[i]
      BY <1>1, <3>1, InternKeeps DEF AnswerInv, GraceInv
    <3>3. CASE ~Engine!Fits(id)
      <4>1. /\ window' = window
            /\ pending' = pending \cup {[type |-> "capacity_exceeded", window |-> w, actors |-> {a}, call |-> calls + 1]}
        BY <2>2, <3>3 DEF Engine!Ingest, Engine!Raise
      <4>2. \E al \in pending' : al.window = w /\ a \in al.actors
        BY <4>1, AlertNames
      <4> QED BY <3>1, <3>2, <4>1, <4>2
    <3>4. CASE Engine!Fits(id)
      <4>1. window' = [window EXCEPT ![w] = win] /\ id \in Engine!Ids
        BY <2>2, <3>2, <3>4, Numbers DEF Engine!Ingest, Engine!Fits, Engine!Ids
      <4>2. \A v \in Engine!Starts : window'[v] = IF v = w THEN win ELSE window[v]
        BY <1>1, <4>1
      <4> HIDE DEF id
      <4>3. SetFor(c, window'[w]) = SetFor(c, window[w]) \cup {id}
            /\ \A d \in Channels \ {c} : SetFor(d, window'[w]) = SetFor(d, window[w])
        BY <4>1, <4>2 DEF id
      <4>4. \A v \in Engine!Starts, d \in Channels : SetFor(d, window[v]) \subseteq SetFor(d, window'[v])
        BY <4>2, <4>3
      <4>5. \A v \in Engine!Starts : v \in closed => window'[v] = window[v]
        BY <3>1, <4>2
      <4>6. (id + 1) - 1 = id /\ id \in SetFor(c, window'[w])
        BY <3>2, <4>3
      <4> QED BY <3>1, <3>2, <4>4, <4>5, <4>6
    <3> QED BY <3>3, <3>4
  <2> QED BY <2>1, <2>2
<1> HIDE DEF id
<1>4. HeardIsKept'
  <2> SUFFICES ASSUME NEW g \in heard'
               PROVE  \/ \E al \in Alerts' : al.window = g.window /\ g.actor \in al.actors
                      \/ /\ g.window \in open' \cup closed'
                         /\ \E i \in DOMAIN ids' :
                               ids'[i] = g.actor /\ i - 1 \in SetFor(g.channel, window'[g.window])
    BY DEF HeardIsKept, SetFor
  <2>1. CASE g \in heard
    <3>1. g.channel \in Channels /\ g.window \in Engine!Starts
      BY <1>1, <2>1 DEF Heard
    <3>2. CASE \E al \in Alerts : al.window = g.window /\ g.actor \in al.actors
      BY <1>2, <3>2
    <3>3. CASE /\ g.window \in open \cup closed
               /\ \E i \in DOMAIN ids : ids[i] = g.actor /\ i - 1 \in SetFor(g.channel, window[g.window])
      BY <1>3, <3>1, <3>3
    <3> QED BY <2>1, <3>2, <3>3 DEF AnswerInv, HeardIsKept
  <2>2. CASE g = h
    <3>1. CASE \E al \in pending' : al.window = w /\ a \in al.actors
      BY <1>0, <1>2, <2>2, <3>1
    <3>2. CASE w \in open' /\ id + 1 \in DOMAIN ids' /\ ids'[id + 1] = a
               /\ (id + 1) - 1 = id /\ id \in SetFor(c, window'[w])
      BY <1>0, <2>2, <3>2
    <3> QED BY <1>3, <3>1, <3>2
  <2> QED BY <1>0, <2>1, <2>2
<1>5. ClosedIsJudged'
  <2>1. \A v \in closed : Engine!Verdict(v)' = Engine!Verdict(v)
    BY <1>1, <1>3, VerdictStable DEF AnswerInv
  <2>2. Alerts \subseteq Alerts'
    BY <1>2
  <2> QED BY <2>1, <2>2 DEF AnswerInv, ClosedIsJudged
<1> QED BY <1>4, <1>5

LEMMA ReceiveAnswers ==
    ASSUME AnswerInv, GraceInv', NEW c \in Channels, Receive(c) PROVE AnswerInv'
<1> DEFINE e  == Head(buffer[c])
           a  == e.actor
           w  == Engine!WindowStart(e.ts)
           id == Engine!IdOf(a)
<1>1. /\ loop = "select" /\ buffer[c] # <<>> /\ Observe(c, e)
      /\ heard' = heard \cup {[channel |-> c, actor |-> a, window |-> w, inTime |-> now < Deadline(w)]}
      /\ UNCHANGED <<loop, leaving, batch, report, dropped>>
  BY DEF Receive, sinks
<1>2. e \in Event
  <2>1. buffer[c] \in Seq(Event)
    BY Typed DEF AnswerInv
  <2> QED BY <1>1, <2>1
<1>3. a \in Actors /\ w \in Engine!Starts
  BY <1>2, WindowStarts DEF Event
<1> HIDE DEF e, a, w, id
<1>4. window[w] \in Engine!Window /\ window[w].derived = {}
  BY <1>3 DEF AnswerInv, GraceInv, TypeOK, Engine!TypeOK, RecordedWasHeard
<1>5. PICK win :
        /\ Engine!Called /\ Engine!Ingest(a, w, win)
        /\ id \in Engine!Ids =>
             /\ SetFor(c, win) = SetFor(c, window[w]) \cup {id}
             /\ \A d \in Channels \ {c} : SetFor(d, win) = SetFor(d, window[w])
  <2>1. CASE c = "change"
    <3>1. /\ Engine!Called
          /\ Engine!Ingest(a, w, Engine!RecordChange(window[w], id, 0))
      BY <1>1, <2>1 DEF Observe, Engine!ObserveChange, a, w, id
    <3> QED BY <1>4, <2>1, <3>1, RecordSetsBit DEF SetFor, Channels
  <2>2. CASE c = "cause"
    <3>1. /\ Engine!Called
          /\ Engine!Ingest(a, w, Engine!RecordCause(window[w], id, Kind, 0))
      BY <1>1, <2>2 DEF Observe, Engine!ObserveCause, Engine!RejectCause, Engine!Trusted, a, w, id
    <3> QED BY <1>4, <2>2, <3>1, RecordSetsBit DEF SetFor, Channels
  <2> QED BY <2>1, <2>2 DEF Channels
<1>6. UNCHANGED <<closed, closer>>
  BY <1>5 DEF Engine!Called
<1>7. HeardIsKept' /\ ClosedIsJudged'
  BY <1>1, <1>3, <1>5, <1>6, IngestAnswers DEF id
<1>8. InHand' /\ LeavingClosesAll'
  BY <1>1, <1>6 DEF AnswerInv, InHand, LeavingClosesAll
<1> QED BY <1>7, <1>8 DEF AnswerInv

\* A close begins: nothing moves yet, and the last one lists all that is open.
LEMMA BeginAnswers ==
    ASSUME AnswerInv, GraceInv', NEW due \in SUBSET open, Engine!BeginClose(Loop, due),
           loop = "select", loop' = "closing", leaving' => open \subseteq due,
           UNCHANGED <<batch, heard, sinks>>
    PROVE  AnswerInv'
<1> USE DEF sinks
<1> DEFINE me == [Engine!idleCloser EXCEPT !.at = "closing", !.due = due]
<1>1. /\ closer' = [closer EXCEPT ![Loop] = me]
      /\ UNCHANGED <<ids, open, closed, window, pending>>
  BY DEF Engine!BeginClose
<1>2. closer \in [{Loop} -> Engine!Closer]
  BY DEF AnswerInv, GraceInv, TypeOK, Engine!TypeOK
<1>3. me.at = "closing" /\ me.due = due /\ me.out = {}
  BY DEF Engine!idleCloser
<1> HIDE DEF me
<1>4. closer'[Loop].at = "closing" /\ closer'[Loop].due = due /\ closer'[Loop].out = {}
  BY <1>1, <1>2, <1>3
<1>5. closer[Loop].at = "idle" /\ closer[Loop].out = {}
  BY DEF AnswerInv, InHand
<1>6. Alerts' = Alerts
  BY <1>1, <1>4, <1>5 DEF Alerts, Emitted
<1>7. HeardIsKept'
  BY <1>1, <1>6 DEF AnswerInv, HeardIsKept, SetFor
<1>8. ClosedIsJudged'
  <2>1. \A w \in closed : Engine!Verdict(w)' = Engine!Verdict(w)
    BY <1>1, VerdictStable DEF AnswerInv, GraceInv, TypeOK, Engine!TypeOK
  <2> QED BY <1>1, <1>5, <1>6, <2>1 DEF AnswerInv, ClosedIsJudged
<1>9. InHand' /\ LeavingClosesAll'
  BY <1>1, <1>4 DEF AnswerInv, InHand, LeavingClosesAll
<1> QED BY <1>7, <1>8, <1>9 DEF AnswerInv

LEMMA CloseWindowAnswers ==
    ASSUME AnswerInv, GraceInv', Engine!CloseWindow(Loop), loop = "closing",
           UNCHANGED <<loop, batch, leaving, heard, sinks>>
    PROVE  AnswerInv'
<1> USE DEF sinks
<1> DEFINE me == closer[Loop]
<1>1. PICK key \in me.due :
        /\ me.at = "closing"
        /\ \/ /\ key \in open /\ open' = open \ {key} /\ closed' = closed \cup {key}
              /\ closer' = [closer EXCEPT ![Loop].due = @ \ {key},
                                         ![Loop].key = key, ![Loop].at = "judging"]
           \/ /\ key \notin open
              /\ closer' = [closer EXCEPT ![Loop].due = @ \ {key}]
              /\ UNCHANGED <<open, closed>>
        /\ UNCHANGED <<ids, window, pending>>
  BY DEF Engine!CloseWindow, Engine!StillOpen
<1>2. closer \in [{Loop} -> Engine!Closer] /\ me \in Engine!Closer
  BY DEF AnswerInv, GraceInv, TypeOK, Engine!TypeOK
<1>3. /\ closer'[Loop].due = me.due \ {key} /\ closer'[Loop].out = me.out
      /\ \/ closer'[Loop].at = "judging" /\ closer'[Loop].key = key
            /\ open' = open \ {key} /\ closed' = closed \cup {key}
         \/ closer'[Loop].at = "closing" /\ key \notin open /\ UNCHANGED <<open, closed>>
  BY <1>1, <1>2 DEF Engine!Closer
<1>4. Alerts' = Alerts
  BY <1>1, <1>3 DEF Alerts, Emitted
<1>5. HeardIsKept'
  <2>1. open' \cup closed' = open \cup closed \cup closed'
    BY <1>3
  <2> QED BY <1>1, <1>4, <2>1 DEF AnswerInv, HeardIsKept, SetFor
<1>6. ClosedIsJudged'
  <2>1. \A w \in closed : Engine!Verdict(w)' = Engine!Verdict(w)
    BY <1>1, VerdictStable DEF AnswerInv, GraceInv, TypeOK, Engine!TypeOK
  <2>2. \A w \in closed : Engine!Verdict(w) \subseteq Alerts
    BY <1>1 DEF AnswerInv, ClosedIsJudged
  <2> QED BY <1>3, <1>4, <2>1, <2>2 DEF ClosedIsJudged
<1>7. InHand' /\ LeavingClosesAll'
  BY <1>3 DEF AnswerInv, InHand, LeavingClosesAll
<1> QED BY <1>5, <1>6, <1>7, SMTT(20) DEF AnswerInv

LEMMA JudgeAnswers ==
    ASSUME AnswerInv, GraceInv', Engine!Judge(Loop), loop = "closing",
           UNCHANGED <<loop, batch, leaving, heard, sinks>>
    PROVE  AnswerInv'
<1> USE DEF sinks
<1> DEFINE me == closer[Loop]
           verdict == Engine!Verdict(me.key)
<1>1. /\ me.at = "judging"
      /\ closer' = [closer EXCEPT ![Loop].out = @ \cup verdict,
                                 ![Loop].key = Engine!NoKey, ![Loop].at = "closing"]
      /\ UNCHANGED <<ids, open, closed, window, pending>>
  BY DEF Engine!Judge
<1>2. closer \in [{Loop} -> Engine!Closer] /\ me \in Engine!Closer
  BY DEF AnswerInv, GraceInv, TypeOK, Engine!TypeOK
<1> HIDE DEF verdict
<1>3. closer'[Loop].due = me.due /\ closer'[Loop].out = me.out \cup verdict
      /\ closer'[Loop].at = "closing"
  BY <1>1, <1>2 DEF Engine!Closer
<1>4. Alerts' = Alerts \cup verdict
  BY <1>1, <1>3 DEF Alerts, Emitted
<1>5. HeardIsKept'
  <2>1. Alerts \subseteq Alerts'
    BY <1>4
  <2> QED BY <1>1, <2>1 DEF AnswerInv, HeardIsKept, SetFor
<1>6. ClosedIsJudged'
  <2>1. \A w \in closed : Engine!Verdict(w)' = Engine!Verdict(w)
    BY <1>1, VerdictStable DEF AnswerInv, GraceInv, TypeOK, Engine!TypeOK
  <2>2. \A w \in closed : w = me.key \/ Engine!Verdict(w) \subseteq Alerts
    BY DEF AnswerInv, ClosedIsJudged
  <2>3. \A w \in closed : Engine!Verdict(w) \subseteq Alerts \cup verdict
    BY <2>2 DEF verdict
  <2> QED BY <1>1, <1>4, <2>1, <2>3 DEF ClosedIsJudged
<1>7. InHand' /\ LeavingClosesAll'
  BY <1>1, <1>3 DEF AnswerInv, InHand, LeavingClosesAll
<1> QED BY <1>5, <1>6, <1>7 DEF AnswerInv

LEMMA ReturnAnswers ==
    ASSUME AnswerInv, GraceInv', Engine!Return(Loop), batch' = Engine!Batch(Loop),
           loop = "closing", loop' = Emitting(batch'), UNCHANGED <<leaving, heard, sinks>>
    PROVE  AnswerInv'
<1> USE DEF sinks
<1>1. /\ closer[Loop].at = "closing" /\ closer[Loop].due = {}
      /\ closer' = [closer EXCEPT ![Loop] = Engine!idleCloser]
      /\ pending' = {} /\ batch' = pending \cup closer[Loop].out
      /\ UNCHANGED <<ids, open, closed, window>>
  BY DEF Engine!Return, Engine!Batch
<1>2. closer \in [{Loop} -> Engine!Closer]
  BY DEF AnswerInv, GraceInv, TypeOK, Engine!TypeOK
<1>3. closer'[Loop].at = "idle" /\ closer'[Loop].out = {}
  BY <1>1, <1>2 DEF Engine!idleCloser
<1>4. batch = {}
  BY DEF AnswerInv, InHand
<1>5. Alerts' = Alerts
  BY <1>1, <1>3, <1>4 DEF Alerts, Emitted
<1>6. HeardIsKept'
  BY <1>1, <1>5 DEF AnswerInv, HeardIsKept, SetFor
<1>7. ClosedIsJudged'
  <2>1. \A w \in closed : Engine!Verdict(w)' = Engine!Verdict(w)
    BY <1>1, VerdictStable DEF AnswerInv, GraceInv, TypeOK, Engine!TypeOK
  <2> QED BY <1>1, <1>5, <2>1 DEF AnswerInv, ClosedIsJudged
<1>8. InHand'
  BY <1>3 DEF InHand, Emitting
<1>9. LeavingClosesAll'
  <2>1. leaving => open = {}
    BY <1>1 DEF AnswerInv, LeavingClosesAll
  <2> QED BY <1>1, <2>1 DEF LeavingClosesAll, Emitting
<1> QED BY <1>6, <1>7, <1>8, <1>9 DEF AnswerInv

LEMMA EmitAnswers ==
    ASSUME AnswerInv, GraceInv', NEW al \in batch, Emit(al) PROVE AnswerInv'
<1>1. /\ loop = "emitting" /\ batch' = batch \ {al} /\ loop' = Emitting(batch')
      /\ report' \cup dropped' = report \cup dropped \cup {al}
      /\ UNCHANGED <<ids, open, closed, window, pending, closer, leaving, heard>>
  BY DEF Emit, Rest, AppendAlert, AppendFails, engine
<1>2. Alerts' = Alerts
  BY <1>1 DEF Alerts, Emitted
<1>3. HeardIsKept'
  BY <1>1, <1>2 DEF AnswerInv, HeardIsKept, SetFor
<1>4. ClosedIsJudged'
  <2>1. \A w \in closed : Engine!Verdict(w)' = Engine!Verdict(w)
    BY <1>1, VerdictStable DEF AnswerInv, GraceInv, TypeOK, Engine!TypeOK
  <2> QED BY <1>1, <1>2, <2>1 DEF AnswerInv, ClosedIsJudged
<1>5. InHand' /\ LeavingClosesAll'
  BY <1>1 DEF AnswerInv, InHand, LeavingClosesAll, Emitting
<1> QED BY <1>3, <1>4, <1>5 DEF AnswerInv

LEMMA AnswerInit == Init => AnswerInv
<1> SUFFICES ASSUME Init PROVE AnswerInv
  OBVIOUS
<1>1. GraceInv
  BY GraceInit
<1>2. HeardIsKept /\ ClosedIsJudged /\ LeavingClosesAll
  BY DEF Init, Engine!Init, HeardIsKept, ClosedIsJudged, LeavingClosesAll
<1>3. InHand
  BY DEF Init, Engine!Init, InHand, Engine!idleCloser
<1> QED BY <1>1, <1>2, <1>3 DEF AnswerInv

LEMMA AnswerNext == AnswerInv /\ [Next]_vars => AnswerInv'
<1> SUFFICES ASSUME AnswerInv, [Next]_vars PROVE AnswerInv'
  OBVIOUS
<1>1. GraceInv'
  BY GraceNext DEF AnswerInv
<1>2. CASE World \/ Forward \/ UNCHANGED vars
  <2>1. UNCHANGED <<engine, mainLoop, sinks>>
    BY <1>2 DEF World, Forward, Advance, Signal, Operate, Lose, StopChannel, FeedTakes, BusTakes,
                Taken, Send, InFeed, vars
  <2> QED BY <1>1, <2>1, AroundLoopAnswers
<1>3. CASE TickArrives
  <2>1. ~leaving
    BY <1>3 DEF TickArrives, AnswerInv, GraceInv, ClosedWhenDue
  <2> QED BY <1>1, <1>3, <2>1, BeginAnswers DEF TickArrives, Engine!CloseDue
<1>4. CASE ContextDone
  BY <1>1, <1>4, BeginAnswers DEF ContextDone, Engine!CloseAll
<1>5. CASE Closing
  BY <1>1, <1>5, CloseWindowAnswers, JudgeAnswers, ReturnAnswers DEF Closing
<1>6. ASSUME NEW c \in Channels, Receive(c) PROVE AnswerInv'
  BY <1>1, <1>6, ReceiveAnswers
<1>7. ASSUME NEW al \in batch, Emit(al) PROVE AnswerInv'
  BY <1>1, <1>7, EmitAnswers
<1> QED BY <1>2, <1>3, <1>4, <1>5, <1>6, <1>7 DEF Next, LoopStep

\* What a closed window holds of one channel and not of the other is charged.
LEMMA DifferenceCharged ==
    ASSUME GraceInv, NEW c \in Channels, NEW d \in Channels, c # d,
           NEW w \in Engine!Starts, NEW i \in SetFor(c, window[w]), i \notin SetFor(d, window[w])
    PROVE  \E al \in Engine!Verdict(w) : al.window = w /\ ids[i + 1] \in al.actors
<1> DEFINE S  == Engine!Difference(SetFor(c, window[w]), SetFor(d, window[w]))
           type == IF c = "change" THEN "unauthorized_change" ELSE "missing_change"
           al == Engine!Charge(type, w, S)
<1>1. ids[i + 1] \in Engine!Names(S)
  BY DEF Engine!Names, Engine!Difference
<1>2. al.window = w /\ al.actors = Engine!Names(S)
  BY DEF Engine!Charge
<1>3. al \in {Engine!Charge("unauthorized_change", w, Engine!Difference(window[w].changed, window[w].justified)),
              Engine!Charge("missing_change", w, Engine!Difference(window[w].justified, window[w].changed))}
  BY DEF SetFor, Channels
<1> HIDE DEF al
<1>4. al \in Engine!Verdict(w)
  BY <1>1, <1>2, <1>3 DEF Engine!Verdict
<1> QED BY <1>1, <1>2, <1>4

\* The half of an operation that was read is answered by the other half or by
\* an alert that names its actor, whatever became of the other half.
THEOREM EventsAnswered == Spec => []EveryEventIsAnswered
<1>1. ASSUME AnswerInv PROVE EveryEventIsAnswered
  <2>1. loop = "returned" => open = {} /\ pending = {}
    BY <1>1 DEF AnswerInv, LeavingClosesAll
  <2>2. ASSUME loop \in {"select", "returned"}, NEW c \in Channels, NEW d \in Channels, NEW h \in heard,
               c # d, h.channel = c, h.window \notin open, HeardOf(d, h.actor, h.window) = {}
        PROVE  \E al \in pending \cup report \cup dropped :
                  al.window = h.window /\ h.actor \in al.actors
    <3>1. Alerts = pending \cup report \cup dropped /\ closer[Loop].at = "idle"
      BY <1>1, <2>2 DEF AnswerInv, InHand, Alerts, Emitted
    <3>2. CASE \E al \in Alerts : al.window = h.window /\ h.actor \in al.actors
      BY <3>1, <3>2
    <3>3. CASE /\ h.window \in open \cup closed
               /\ \E i \in DOMAIN ids : ids[i] = h.actor /\ i - 1 \in SetFor(c, window[h.window])
      <4>1. PICK j \in DOMAIN ids : ids[j] = h.actor /\ j - 1 \in SetFor(c, window[h.window])
        BY <3>3
      <4>2. h.window \in closed /\ h.window \in Engine!Starts /\ ids \in Seq(Actors)
        BY <1>1, <2>2, <3>3 DEF AnswerInv, GraceInv, TypeOK, Engine!TypeOK
      <4>3. Engine!Verdict(h.window) \subseteq Alerts
        BY <1>1, <3>1, <4>2 DEF AnswerInv, ClosedIsJudged
      <4>4. (j - 1) + 1 = j
        BY <4>2
      <4>5. j - 1 \notin SetFor(d, window[h.window])
        BY <1>1, <2>2, <4>1, <4>2, <4>4 DEF AnswerInv, GraceInv, RecordedWasHeard, Says, HeardOf
      <4>6. \E al \in Engine!Verdict(h.window) : al.window = h.window /\ ids[(j - 1) + 1] \in al.actors
        BY <1>1, <2>2, <4>1, <4>2, <4>5, DifferenceCharged DEF AnswerInv
      <4> QED BY <3>1, <4>1, <4>3, <4>4, <4>6
    <3> QED BY <1>1, <2>2, <3>2, <3>3 DEF AnswerInv, HeardIsKept
  <2> QED BY <2>1, <2>2 DEF EveryEventIsAnswered
<1>2. Spec => []AnswerInv
  BY AnswerInit, AnswerNext, PTL DEF Spec
<1> QED BY <1>1, <1>2, PTL
=============================================================================
