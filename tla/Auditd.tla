------------------------------- MODULE Auditd -------------------------------
(***************************************************************************)
(* The daemon, cmd/auditd/main.go, around the engine of module Monitor and *)
(* between the two channels of internal/channels and its sinks.            *)
(*                                                                         *)
(* Each channel is a queue in the transport (Redis pub/sub, core NATS and  *)
(* the client libraries), a goroutine that takes a message, stamps it and  *)
(* sends it on, and a bounded Go channel.  One loop selects among the two  *)
(* Go channels, the ticker and the context; it is the only caller of the   *)
(* engine, whose steps are those of module Monitor.  The environment       *)
(* operates on the audited system while all this runs.                     *)
(*                                                                         *)
(* The unit of time is a second, the period of the ticker.  A restarted    *)
(* daemon has a new engine and empty channels: it is Init at a later time. *)
(***************************************************************************)
EXTENDS Integers, Sequences, SequencesExt, FiniteSets

CONSTANTS
    Actors, WindowSize, Grace, Capacity, \* as in Monitor
    ChannelCap, \* capacity of the Go channels, 4096 in the code
    Operations, \* bound: what happens in the audited system
    MaxMessages, \* bound: how many messages that makes
    StartTime,  \* when the daemon starts
    LastOp,     \* bound: nothing happens later than that
    MaxTime,    \* bound: the clock stops there and goes on ticking
    MaxLag,     \* bound: an event is read at most so long after it happened
    Faults      \* bound: what may go wrong

ASSUME DaemonAssumption ==
    /\ WindowSize \in Nat \ {0} /\ Grace \in Nat
    /\ Capacity \in Nat \ {0} /\ ChannelCap \in Nat \ {0}
    /\ Operations \subseteq {"authorized", "unstamped", "unreadable", "elsewhere"}
    /\ {MaxMessages, LastOp, MaxTime, MaxLag} \subseteq Nat /\ StartTime \in 0 .. MaxTime
    /\ Faults \subseteq {"loss", "dead channel", "report", "postgres", "signal"}

Channels == {"change", "cause"}
Times    == 0 .. MaxTime
Loop     == "loop"
Kind     == "deposit.credited"

VARIABLES
    ids, open, closed, window, pending, calls, closer, delivered, \* the engine
    now,       \* the clock
    sent,      \* number of messages so far
    transport, \* messages on their way, by channel
    alive,     \* the channels whose goroutine runs
    sending,   \* the event a goroutine is sending, if any
    buffer,    \* the Go channels
    tick,      \* Ticker.C
    cancelled, \* the context is done
    loop,      \* where the loop is
    leaving,   \* it is in the case that returns
    batch,     \* alerts emit has not come to
    report,    \* alerts appended to the report and printed
    dropped,   \* alerts whose append failed
    postgres,  \* alerts in the history
    heard      \* what the loop has read, and whether before the deadline

engine   == <<ids, open, closed, window, pending, calls, closer, delivered>>
feeds    == <<transport, alive, sending, buffer>>
mainLoop == <<loop, leaving, batch, heard>>
sinks    == <<report, dropped, postgres>>
vars     == <<engine, now, sent, feeds, tick, cancelled, mainLoop, sinks>>

Engine == INSTANCE Monitor WITH
    EventTimes <- Times, ClockTimes <- Times,
    Kinds <- {Kind}, DerivedCauseKinds <- {}, RootCauseKinds <- {Kind},
    Producers <- {"service"}, TrustedProducers <- {},
    Deltas <- {0}, Amounts <- {0}, CheckAmounts <- FALSE, IntLimit <- 1,
    MaxEvidence <- 1, Closers <- {Loop}, MaxCalls <- MaxMessages

NoTick == -1

\* at: when it happened.  A message carries that time if it is stamped; a
\* notification never is.  good: a write to a protected key; parses and names
\* an actor.
Message == [actor : Actors, at : Times, stamped : BOOLEAN, good : BOOLEAN]
Event   == [actor : Actors, at : Times, ts : Times]
Heard   == [channel : Channels, actor : Actors, window : Engine!Starts, inTime : BOOLEAN]

Deadline(w) == w + WindowSize + Grace

-----------------------------------------------------------------------------
(* The audited system *)

\* An operation changes a key and publishes its cause.  The cause may lack a
\* time or not parse, and there are writes to keys nobody watches; a change
\* without a cause, and a cause without a change, is one the transport loses.

Messages(op, a) ==
    LET One(stamped, good) == <<[actor |-> a, at |-> now, stamped |-> stamped, good |-> good]>>
    IN  [change |-> One(FALSE, op # "elsewhere"),
         cause  |-> IF op = "elsewhere" THEN <<>> ELSE One(op # "unstamped", op # "unreadable")]

Operate(op, a) ==
    /\ now <= LastOp
    /\ sent' = sent + Len(Messages(op, a)["change"]) + Len(Messages(op, a)["cause"])
    /\ sent' <= MaxMessages
    /\ transport' = [c \in Channels |-> transport[c] \o Messages(op, a)[c]]
    /\ UNCHANGED <<engine, now, alive, sending, buffer, tick, cancelled, mainLoop, sinks>>

\* What was not read yet, oldest first.
Unread(c) == buffer[c] \o sending[c] \o transport[c]

\* A second passes.  A tick that finds Ticker.C full is dropped.
TickOnce(t) == IF t = StartTime + 1 THEN t ELSE tick \* mutant: a timer
NextTick(t) == IF tick = NoTick THEN t ELSE tick

Advance ==
    LET next == IF now < MaxTime THEN now + 1 ELSE now
    IN  /\ now' = next
        /\ tick' = NextTick(next)
        /\ <<now', tick'>> # <<now, tick>>
        /\ \A c \in Channels : \A i \in DOMAIN Unread(c) : next <= Unread(c)[i].at + MaxLag
        /\ UNCHANGED <<engine, sent, feeds, cancelled, mainLoop, sinks>>

\* SIGINT, SIGTERM
Signal ==
    /\ "signal" \in Faults
    /\ ~cancelled /\ cancelled' = TRUE
    /\ UNCHANGED <<engine, now, sent, feeds, tick, mainLoop, sinks>>

-----------------------------------------------------------------------------
(* KeyspaceFeed.Run, CauseBus.Run *)

InFeed == UNCHANGED <<engine, now, sent, tick, cancelled, mainLoop, sinks>>

Lose(c) ==
    /\ "loss" \in Faults
    /\ transport[c] # <<>>
    /\ transport' = [transport EXCEPT ![c] = Tail(@)]
    /\ UNCHANGED <<alive, sending, buffer>> /\ InFeed

\* The context is done, or the subscription fails or ends while Run waits for
\* a message.  A bus that has lost NATS for good is as silent as one that ended.
StopChannel(c) ==
    /\ c \in alive
    /\ cancelled \/ ("dead channel" \in Faults /\ sending[c] = <<>>)
    /\ alive' = alive \ {c}
    /\ sending' = [sending EXCEPT ![c] = <<>>]
    /\ UNCHANGED <<transport, buffer>> /\ InFeed

Taken(c, events) ==
    /\ c \in alive /\ sending[c] = <<>>
    /\ sending' = [sending EXCEPT ![c] = events]
    /\ transport' = [transport EXCEPT ![c] = Tail(@)]
    /\ UNCHANGED <<alive, buffer>> /\ InFeed

Forwarded(m, ts) == IF m.good THEN <<[actor |-> m.actor, at |-> m.at, ts |-> ts]>> ELSE <<>>

\* KeyspaceFeed stamps on arrival.  Other events and other keys go no further.
FeedTakes ==
    /\ transport["change"] # <<>>
    /\ LET m == Head(transport["change"]) IN Taken("change", Forwarded(m, now))

NeverStamp(m) == IF m.stamped THEN m.at ELSE NoTick \* mutant: no fallback
Stamp(m)      == IF m.stamped THEN m.at ELSE now

\* CauseBus stamps what has no time.  What does not parse is logged and skipped.
BusTakes ==
    /\ transport["cause"] # <<>>
    /\ LET m == Head(transport["cause"]) IN Taken("cause", Forwarded(m, Stamp(m)))

HasRoomForTwo(c) == Len(buffer[c]) + 1 < ChannelCap \* mutant: off by one
HasRoom(c)       == Len(buffer[c]) < ChannelCap

Send(c) ==
    /\ c \in alive /\ sending[c] # <<>> /\ HasRoom(c)
    /\ buffer' = [buffer EXCEPT ![c] = @ \o sending[c]]
    /\ sending' = [sending EXCEPT ![c] = <<>>]
    /\ UNCHANGED <<transport, alive>> /\ InFeed

-----------------------------------------------------------------------------
(* The loop *)

InLoop == UNCHANGED <<now, sent, transport, alive, sending, cancelled>>

Observe(c, e) ==
    \/ c = "change" /\ Engine!ObserveChange(e.actor, e.ts, 0)
    \/ c = "cause"  /\ Engine!ObserveCause(e.actor, e.ts, Kind, "service", 0)

\* case ev := <-changes, case ev := <-causes
Receive(c) ==
    /\ loop = "select" /\ buffer[c] # <<>>
    /\ LET e == Head(buffer[c])
           w == Engine!WindowStart(e.ts)
       IN
        /\ Observe(c, e)
        /\ heard' = heard \cup {[channel |-> c, actor |-> e.actor, window |-> w, inTime |-> now < Deadline(w)]}
    /\ buffer' = [buffer EXCEPT ![c] = Tail(@)]
    /\ UNCHANGED <<tick, loop, leaving, batch, sinks>> /\ InLoop

\* case now := <-tick.C
TickArrives ==
    /\ loop = "select" /\ tick # NoTick
    /\ Engine!CloseDue(Loop, tick)
    /\ tick' = NoTick
    /\ loop' = "closing"
    /\ UNCHANGED <<buffer, leaving, batch, heard, sinks>> /\ InLoop

\* case <-ctx.Done()
ContextDone ==
    /\ loop = "select" /\ cancelled
    /\ Engine!CloseAll(Loop)
    /\ loop' = "closing" /\ leaving' = TRUE
    /\ UNCHANGED <<buffer, tick, batch, heard, sinks>> /\ InLoop

\* Where the loop is when emit still has rest to do.
Emitting(rest) == IF rest # {} THEN "emitting" ELSE IF leaving THEN "returned" ELSE "select"

\* Inside CloseDue or CloseAll.
Closing ==
    /\ loop = "closing"
    /\ \/ (Engine!CloseWindow(Loop) \/ Engine!Judge(Loop)) /\ UNCHANGED <<loop, batch>>
       \/ /\ Engine!Return(Loop)
          /\ batch' = Engine!Batch(Loop)
          /\ loop' = Emitting(batch')
    /\ UNCHANGED <<buffer, tick, leaving, heard, sinks>> /\ InLoop

\* The insert is made under the context of the daemon.
Insert(al) ==
    \/ ~cancelled /\ postgres' = postgres \cup {al}
    \/ (cancelled \/ "postgres" \in Faults) /\ UNCHANGED postgres

AppendAlert(al) == report' = report \cup {al} /\ UNCHANGED dropped /\ Insert(al)
AppendFails(al) == "report" \in Faults /\ dropped' = dropped \cup {al} /\ UNCHANGED <<report, postgres>>

EmitNoMore(al) == {}                           \* mutant: return after one alert
Rest(al)       == batch \ {al}

Emit(al) ==
    /\ loop = "emitting" /\ al \in batch
    /\ AppendAlert(al) \/ AppendFails(al)
    /\ batch' = Rest(al)
    /\ loop' = Emitting(batch')
    /\ UNCHANGED <<engine, buffer, tick, leaving, heard>> /\ InLoop

-----------------------------------------------------------------------------
Init ==
    /\ Engine!Init
    /\ now = StartTime /\ sent = 0
    /\ transport = [c \in Channels |-> <<>>] /\ sending = transport /\ buffer = transport
    /\ alive = Channels
    /\ tick = NoTick /\ cancelled = FALSE
    /\ loop = "select" /\ leaving = FALSE /\ batch = {} /\ heard = {}
    /\ report = {} /\ dropped = {} /\ postgres = {}

World ==
    \/ Advance \/ Signal
    \/ \E op \in Operations, a \in Actors : Operate(op, a)
    \/ \E c \in Channels : Lose(c) \/ StopChannel(c)

Forward == FeedTakes \/ BusTakes \/ \E c \in Channels : Send(c)

LoopStep ==
    \/ TickArrives \/ ContextDone \/ Closing
    \/ \E c \in Channels : Receive(c)
    \/ \E al \in batch : Emit(al)

Next == World \/ LoopStep \/ Forward

Spec == Init /\ [][Next]_vars

\* Time passes, goroutines run, and select, which picks at random among the
\* cases that are ready, does not pass over one for ever.
FairSpec ==
    /\ Spec
    /\ WF_vars(Advance) /\ WF_vars(LoopStep) /\ SF_vars(ContextDone)
    /\ WF_vars(FeedTakes) /\ WF_vars(BusTakes)
    /\ \A c \in Channels : WF_vars(Send(c)) /\ SF_vars(Receive(c))

-----------------------------------------------------------------------------
(* Properties *)

TypeOK ==
    /\ Engine!TypeOK
    /\ now \in Times /\ sent \in 0 .. MaxMessages
    /\ transport \in [Channels -> Seq(Message)]
    /\ alive \subseteq Channels
    /\ sending \in [Channels -> Seq(Event)] /\ buffer \in [Channels -> Seq(Event)]
    /\ tick \in Times \cup {NoTick} /\ {cancelled, leaving} \subseteq BOOLEAN
    /\ loop \in {"select", "closing", "emitting", "returned"}
    /\ {batch, report, dropped, postgres} \subseteq SUBSET Engine!Alert
    /\ heard \subseteq Heard

HeardOf(c, a, w) == {h \in heard : h.channel = c /\ h.actor = a /\ h.window = w}

Emitted == batch \cup report \cup dropped

\* An event the loop reads before the deadline of its window is in time, however
\* select orders it with ticks old and new: no charge, and no late_event, is
\* ever raised against it.  (main.go:178 closes by the time of the tick.)
GraceIsKept ==
    \A al \in Emitted : \A a \in al.actors :
        LET Against(mine, other) ==
                /\ HeardOf(mine, a, al.window) # {}
                /\ \A h \in HeardOf(other, a, al.window) : ~h.inTime
        IN  /\ al.type = "unauthorized_change" => Against("change", "cause")
            /\ al.type = "missing_change" => Against("cause", "change")
            /\ al.type = "late_event" =>
                  \E c \in Channels : \E h \in HeardOf(c, a, al.window) : ~h.inTime

\* Whatever the loop reads has a counterpart in its window, or an alert names
\* its actor there, once that window is closed and when the daemon returns: the
\* half of an operation that was read is never silently forgotten, whatever
\* became of the other half.
EveryEventIsAnswered ==
    /\ loop = "returned" => open = {} /\ pending = {}
    /\ loop \in {"select", "returned"} =>
        \A c, d \in Channels, h \in heard :
            c # d /\ h.channel = c /\ h.window \notin open =>
                \/ HeardOf(d, h.actor, h.window) # {}
                \/ \E al \in pending \cup report \cup dropped :
                      al.window = h.window /\ h.actor \in al.actors

\* A window the clock or a signal makes due is closed, and each alert of its
\* verdict is appended to the report or lost to a failed append.
WindowsGetReported ==
    \A w \in Engine!Starts :
        w \in open /\ (Deadline(w) <= MaxTime \/ cancelled)
            ~> w \in closed /\ Engine!Verdict(w) \subseteq report \cup dropped

\* What a live channel holds is read or lost in the transport; back-pressure of
\* a full Go channel does not stop it for good.
EveryEventIsRead ==
    \A c \in Channels : Unread(c) # <<>> ~> Unread(c) = <<>> \/ cancelled \/ c \notin alive

\* "Under lag that shifts events toward later windows, which is what the grace
\* period absorbs" (rediskeyspace.go:38): when every operation is authorized and
\* every event is read within the grace period, nobody is accused.
GraceAbsorbsLag == \A al \in Emitted : al.type \notin Engine!VerdictTypes
=============================================================================
