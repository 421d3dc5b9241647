------------------------------ MODULE LivePlane ------------------------------
(***************************************************************************)
(* The live plane: the text of a running turn, shown before it is durable.  *)
(*                                                                          *)
(* A worker coalesces the deltas of a model call into snapshots and writes   *)
(* the newest one to a retained row (live-turn.ts, cms_publish_live).  The   *)
(* portal hears of each write (live-plane.js), fetches what did not fit in   *)
(* the notification, and forwards it on a socket (ws.js) to the browser      *)
(* (api-client.js), which shows a preview until the durable event, the idle  *)
(* snapshot or the end of the turn takes its place (controller.js,           *)
(* history.js).  The durable events come to the browser on a way of their    *)
(* own, so that the two may overtake each other, and everything on the live  *)
(* way may be lost.                                                          *)
(*                                                                          *)
(* There is one session, the topic "turn" (snapshots only) and one browser.  *)
(* A model call ("stream") has one reasoning and one message, between its    *)
(* turn_start and its turn_end; a text is its length, 1 being the reasoning  *)
(* alone.  The socket keeps the order of its messages and counts as quick:   *)
(* what lags is the notification, the read, the durable event and, when a     *)
(* subscription begins, the browser behind the messages sent at once.         *)
(***************************************************************************)
EXTENDS Integers, Sequences, FiniteSets

CONSTANTS
  MaxTurns,    \* bound: attempts at a turn
  MaxStreams,  \* bound: model calls
  MaxText,     \* bound: the length of a text
  MaxDeltas,   \* bound: deltas, of all model calls
  MaxLag,      \* bound: notifications under way
  Large,       \* the lengths that do not fit in a notification
  MaxFaults,   \* bound: losses, crashes, departures, late starts, repeated events
  MaxWork      \* bound: attempts, deltas and faults together

ASSUME LiveConstants ==
  /\ {MaxTurns, MaxStreams} \subseteq Nat \ {0} /\ MaxText \in Nat \ {0, 1}
  /\ MaxDeltas \in Nat /\ MaxLag \in Nat \ {0}
  /\ Large \subseteq 1 .. MaxText /\ {MaxFaults, MaxWork} \subseteq Nat

VARIABLES
  \* The worker.
  turn,      \* the attempts that have begun; busy: the last one still runs
  busy,
  streams,   \* the model calls that have begun
  deltas,    \* the deltas that have come
  live,      \* LiveTurnCoalescer: stream, text, sent, idleSent, timer
  pub,       \* LatestValuePublisher of each attempt: flight, pending
  \* The database.
  row,       \* live_state: seq, value and the events it is younger than
  late,      \* statements whose client no longer waits
  log,       \* session_events
  \* The portal.
  relay,     \* up, listened (epoch > 0), seen (deliveredSeq), notes, read (pointerReads);
             \* ghost: unheard, the last write that the subscription missed (MissesWrite)
  sub,       \* the socket's subscription: at, seen (burstSeq), queued, burst
  \* The browser.
  online,    \* the socket is open
  attached,  \* the session is the active one
  viewer,    \* prev (liveSequences), shown, closed, ended, cursor; ghost: taken, the
             \* last sequence handled since the subscription began
  \* Bookkeeping.
  faults,
  lossy      \* ghost: what has happened to the writes

worker == <<turn, busy, streams, deltas, live, pub>>
database == <<row, late, log>>
portal == <<relay, sub>>
browser == <<online, attached, viewer>>
vars == <<worker, database, portal, browser, faults, lossy>>

Streams == 1 .. MaxStreams
Turns == 1 .. MaxTurns

None == [none |-> TRUE]
Live(s, n) == [phase |-> "live", stream |-> s, text |-> n]
Idle(s) == [phase |-> "idle", stream |-> s, text |-> 0]
Values == [phase : {"live"}, stream : Streams, text : 1 .. MaxText]
            \cup [phase : {"idle"}, stream : 0 .. MaxStreams, text : {0}]

\* A text has a message, and not only a reasoning, from here on.
HasMessage(n) == n >= 2

\* updated_at, as the events that are older; a notification has none.
NoTime == -1
Messages == [seq : Nat, value : Values, at : Nat \cup {NoTime}]
Notes == [seq : Nat \ {0}, value : Values]
Events == [kind : {"message"}, stream : Streams] \cup [kind : {"terminal"}, stream : {0}]

\* { kind: "unavailable" }: the transport makes it an idle tick of no stream.
Unavailable == [seq |-> 0, value |-> Idle(0), at |-> NoTime]

\* Among the events there is an end of a turn after the first `from`, up to `to`.
EndedBetween(events, from, to) == \E i \in (from + 1) .. to : events[i].kind = "terminal"

\* Among the first `to` events there is the message of the stream.
Recorded(events, to, s) ==
  \E i \in 1 .. to : events[i].kind = "message" /\ events[i].stream = s

Reads == [at : {"none", "asked", "answered"}, value : Messages \cup {None}, again : BOOLEAN]

\* The state has its types: a publisher that is idle holds nothing back, a relay
\* has listened once it is connected and has no notifications when it is not, and
\* without a subscription no read is under way and no sequence is remembered.
TypeOK ==
  /\ turn \in 0 .. MaxTurns /\ busy \in BOOLEAN /\ streams \in 0 .. MaxStreams
  /\ deltas \in 0 .. MaxDeltas
  /\ live \in [stream : 0 .. MaxStreams, text : 0 .. MaxText, sent : 0 .. MaxText,
               idleSent : BOOLEAN, timer : BOOLEAN]
  /\ pub \in [Turns -> [flight : Values \cup {None}, pending : Values \cup {None}]]
  /\ \A t \in Turns : pub[t].flight = None => pub[t].pending = None
  /\ row = None \/ (row \in Messages /\ row.seq > 0 /\ row.at # NoTime)
  /\ late \subseteq Values /\ log \in Seq(Events)
  /\ relay \in [up : BOOLEAN, listened : BOOLEAN, seen : Nat, unheard : Nat,
                notes : Seq(Notes), read : Reads]
  /\ relay.up => relay.listened
  /\ ~relay.up => relay.notes = <<>>
  /\ sub \in [at : {"off", "asked", "answered", "sent", "on"}, seen : Nat,
              queued : Seq(Messages), burst : Messages \cup {None}]
  /\ sub.at # "off" => online /\ attached
  /\ sub.at = "off" => relay.read.at = "none" /\ relay.seen = 0 /\ relay.unheard = 0
  /\ online \in BOOLEAN /\ attached \in BOOLEAN
  /\ viewer \in [prev : Nat, taken : Nat, shown : [Streams -> 0 .. MaxText],
                 closed : SUBSET Streams, ended : SUBSET Streams, cursor : Nat]
  /\ \A s \in viewer.ended : viewer.shown[s] > 0 /\ s \in viewer.closed
  /\ viewer.cursor <= Len(log)
  /\ faults \in 0 .. MaxFaults /\ lossy \subseteq {"dropped", "late", "reset", "unread"}

NewLive == [stream |-> 0, text |-> 0, sent |-> 0, idleSent |-> TRUE, timer |-> FALSE]
NoRead == [at |-> "none", value |-> None, again |-> FALSE]
NoSub == [at |-> "off", seen |-> 0, queued |-> <<>>, burst |-> None]

\* The relay of a portal that has started, and one whose connection listens.
Relay(listens) == [up |-> listens, listened |-> listens, seen |-> 0, unheard |-> 0,
                   notes |-> <<>>, read |-> NoRead]
NewRelay == Relay(FALSE)
Listening == Relay(TRUE)

\* The session is shown by a portal that listens, or by one that has just
\* started: it serves before its first LISTEN, which counts as a fault.
Init ==
  /\ turn = 0 /\ busy = FALSE /\ streams = 0 /\ deltas = 0 /\ live = NewLive
  /\ pub = [t \in Turns |-> [flight |-> None, pending |-> None]]
  /\ row = None /\ late = {} /\ log = <<>>
  /\ \/ relay = Listening /\ sub = [NoSub EXCEPT !.at = "on"] /\ faults = 0
     \/ relay = NewRelay /\ sub = [NoSub EXCEPT !.at = "asked"] /\ faults = 1 /\ MaxFaults > 0
  /\ online = TRUE /\ attached = TRUE
  /\ viewer = [prev |-> 0, taken |-> 0, shown |-> [s \in Streams |-> 0],
               closed |-> {}, ended |-> {}, cursor |-> 0]
  /\ lossy = {}

\* The bounds on attempts, deltas and faults together.
MoreWork == turn + deltas + faults < MaxWork
Fault == faults < MaxFaults /\ MoreWork /\ faults' = faults + 1

-----------------------------------------------------------------------------
(***************************************************************************)
(* The worker: coalescer and publisher.                                     *)
(***************************************************************************)

\* pump: one write in flight, one replaceable value that waits.
Pump(p) ==
  IF p.flight = None THEN [flight |-> p.pending, pending |-> None] ELSE p

enqueue(p, value) == Pump([p EXCEPT !.pending = value])

\* flushLive: what it emits, and the coalescer afterwards.
Flush(p, l) == IF l.text > 0 /\ l.text # l.sent THEN enqueue(p, Live(l.stream, l.text)) ELSE p
Flushed(l) == [l EXCEPT !.sent = l.text, !.timer = FALSE]

Emit(p) == pub' = [pub EXCEPT ![turn] = p]

\* An activity begins to run a turn, with a coalescer and a publisher of its
\* own; the publisher of the turn before may still be writing.
ActivityBegins ==
  /\ ~busy /\ turn < MaxTurns /\ MoreWork
  /\ busy' = TRUE /\ turn' = turn + 1 /\ live' = NewLive
  /\ UNCHANGED <<streams, deltas, pub, database, portal, browser, faults, lossy>>

\* assistant.turn_start
startTurn ==
  /\ busy /\ streams < MaxStreams
  /\ streams' = streams + 1
  /\ live' = [NewLive EXCEPT !.stream = streams + 1, !.idleSent = FALSE]
  /\ UNCHANGED <<turn, busy, deltas, pub, database, portal, browser, faults, lossy>>

\* messageDelta and reasoningDelta.  Enough text and enough time since the last
\* flush write at once; otherwise the timer will.
Delta ==
  /\ busy /\ ~live.idleSent /\ live.text < MaxText /\ deltas < MaxDeltas /\ MoreWork
  /\ deltas' = deltas + 1
  /\ LET grown == [live EXCEPT !.text = @ + 1]
     IN \/ live' = Flushed(grown) /\ Emit(Flush(pub[turn], grown))
        \/ live' = [grown EXCEPT !.timer = TRUE] /\ UNCHANGED pub
  /\ UNCHANGED <<turn, busy, streams, database, portal, browser, faults, lossy>>

TimerFlush ==
  /\ live.timer
  /\ live' = Flushed(live) /\ Emit(Flush(pub[turn], live))
  /\ UNCHANGED <<turn, busy, streams, deltas, database, portal, browser, faults, lossy>>

\* finalMessage; the event itself is recorded.
finalMessage ==
  /\ busy /\ ~live.idleSent /\ ~Recorded(log, Len(log), live.stream)
  /\ LET whole == [live EXCEPT !.text = MaxText]
     IN live' = Flushed(whole) /\ Emit(Flush(pub[turn], whole))
  /\ log' = Append(log, [kind |-> "message", stream |-> live.stream])
  /\ UNCHANGED <<turn, busy, streams, deltas, row, late, portal, browser, faults, lossy>>

\* Bug: no idle snapshot while the timer is set.
EndingIfQuiet(p, l) ==
  IF l.idleSent \/ l.timer THEN Flush(p, l) ELSE enqueue(Flush(p, l), Idle(l.stream))

\* finishTurn: the last text, and once the snapshot that ends the preview.
\* Nothing of the stream is looked at again.
Ending(p, l) == IF l.idleSent THEN Flush(p, l) ELSE enqueue(Flush(p, l), Idle(l.stream))

\* assistant.turn_end and session.idle
finishTurn ==
  /\ busy /\ ~live.idleSent
  /\ live' = NewLive /\ Emit(Ending(pub[turn], live))
  /\ UNCHANGED <<turn, busy, streams, deltas, database, portal, browser, faults, lossy>>

\* The finally of runTurn, and then the terminal event, which waits for the
\* other events but not for the publisher.
ActivityEnds ==
  /\ busy /\ busy' = FALSE
  /\ live' = NewLive /\ Emit(Ending(pub[turn], live))
  /\ log' = Append(log, [kind |-> "terminal", stream |-> 0])
  /\ UNCHANGED <<turn, streams, deltas, row, late, portal, browser, faults, lossy>>

\* The worker dies: nothing more is emitted, and statements it has sent may
\* still be executed.
WorkerCrashes ==
  /\ busy /\ Fault /\ busy' = FALSE
  /\ live' = NewLive
  /\ pub' = [t \in Turns |-> [flight |-> None, pending |-> None]]
  /\ late' = late \cup ({pub[t].flight : t \in Turns} \ {None})
  /\ lossy' = lossy \cup {"dropped"}
  /\ UNCHANGED <<turn, streams, deltas, row, log, portal, browser>>

-----------------------------------------------------------------------------
(***************************************************************************)
(* The retained row.                                                        *)
(***************************************************************************)

IsLarge(value) == value.phase = "live" /\ value.text \in Large

\* The subscription has read its burst and the relay has not listened yet: a
\* write is not heard of, and the first LISTEN will not read it.
MissesWrite == ~relay.listened /\ sub.at \in {"answered", "sent", "on"}

\* cms_publish_live: the row and its notification, in one statement.
publish_live(value) ==
  LET seq == IF row = None THEN 1 ELSE row.seq + 1
      note == [seq |-> seq, value |-> value]
  IN /\ Len(relay.notes) < MaxLag
     /\ row' = [seq |-> seq, value |-> value, at |-> Len(log)]
     /\ relay' = [relay EXCEPT !.notes = IF relay.up THEN Append(@, note) ELSE @,
                               !.unheard = IF MissesWrite THEN seq ELSE @]

\* The promise of the write settles, and the publisher pumps.
Pumped(p) == Pump([p EXCEPT !.flight = None])

Published(t) ==
  /\ pub[t].flight # None
  /\ publish_live(pub[t].flight)
  /\ pub' = [pub EXCEPT ![t] = Pumped(@)]
  /\ UNCHANGED <<turn, busy, streams, deltas, live, late, log, sub, browser, faults, lossy>>

\* The write fails, or the plane seems not to be there: the value is dropped.
PublishFails(t) ==
  /\ pub[t].flight # None /\ Fault
  /\ pub' = [pub EXCEPT ![t] = Pumped(@)]
  /\ lossy' = lossy \cup {"dropped"}
  /\ UNCHANGED <<turn, busy, streams, deltas, live, database, portal, browser>>

\* query_timeout: the client gives up, the statement may still be executed.
PublishTimesOut(t) ==
  /\ pub[t].flight # None /\ Fault
  /\ late' = late \cup {pub[t].flight}
  /\ pub' = [pub EXCEPT ![t] = Pumped(@)]
  /\ lossy' = lossy \cup {"dropped"}
  /\ UNCHANGED <<turn, busy, streams, deltas, live, row, log, portal, browser>>

LateWrite ==
  \E value \in late :
    /\ publish_live(value) /\ late' = late \ {value}
    /\ lossy' = lossy \cup {"late"}
    /\ UNCHANGED <<worker, log, sub, browser, faults>>

\* The database restarts: the unlogged row is gone, and every connection.
DatabaseCrashes ==
  /\ Fault
  /\ row' = None /\ late' = {}
  /\ pub' = [t \in Turns |-> Pumped(pub[t])]
  /\ relay' = [relay EXCEPT !.up = FALSE, !.notes = <<>>]
  /\ lossy' = lossy \cup {"reset"}
  /\ UNCHANGED <<turn, busy, streams, deltas, live, log, sub, browser>>

-----------------------------------------------------------------------------
(***************************************************************************)
(* The browser: what a live message does to what it shows.                  *)
(***************************************************************************)

Shown(v) == {s \in Streams : v.shown[s] > 0}
Without(v, ss) == [s \in Streams |-> IF s \in ss THEN 0 ELSE v.shown[s]]

\* clearLiveTurnFromHistory: previews go, and their streams are closed.
Clear(v, ss) == [v EXCEPT !.shown = Without(v, ss), !.closed = @ \cup ss, !.ended = @ \ ss]

\* An idle tick closes its stream, or all that are shown when it names none.
\* What has not been visible for long goes at once, the rest when a timer ends.
OnIdle(v, s) ==
  LET over == {t \in Shown(v) : s = 0 \/ t = s \/ t \in v.closed}
      mine == IF s = 0 THEN Shown(v) ELSE {s}
  IN {[v EXCEPT !.shown = Without(v, over \ keep), !.closed = @ \cup mine, !.ended = keep] :
        keep \in SUBSET over}

\* Bug: the messages that are recorded already are not looked at.
OnLiveForgets(v, message) ==
  IF message.value.stream \in v.closed THEN v
  ELSE [v EXCEPT !.shown[message.value.stream] = message.value.text]

\* applyLiveTurnToHistory, unless the row is older than an end that is known.
OnLive(v, message) ==
  LET s == message.value.stream
      n == message.value.text
  IN IF \/ message.at # NoTime /\ EndedBetween(log, message.at, v.cursor)
        \/ HasMessage(n) /\ Recorded(log, v.cursor, s)
        \/ s \in v.closed
     THEN v ELSE [v EXCEPT !.shown[s] = n]

\* mergeSessionEvent of a live tick
Tick(v, message) ==
  IF message.value.phase = "idle" THEN OnIdle(v, message.value.stream) ELSE {OnLive(v, message)}

\* Bug: every message counts as new.
FreshAlways(v, message) == TRUE

\* handleLiveMessage: what is not newer is ignored, and "unavailable" forgets
\* what was the newest.
Fresh(v, message) == message.seq > v.prev

handleLiveMessage(v, message) ==
  IF message.seq = 0 THEN Tick([v EXCEPT !.prev = 0], message)
  ELSE IF Fresh(v, message) THEN Tick([v EXCEPT !.prev = message.seq, !.taken = message.seq], message)
  ELSE {v}

-----------------------------------------------------------------------------
(***************************************************************************)
(* The portal: one LISTEN connection, and the socket of the browser.        *)
(***************************************************************************)

\* The callback of the subscription: updates wait while the burst is read.  What
\* comes while the browser still has messages of the burst to handle is behind them.
Forward(message) ==
  \/ sub.at = "on" /\ viewer' \in handleLiveMessage(viewer, message) /\ UNCHANGED sub
  \/ /\ sub.at \in {"asked", "answered"}
     /\ sub' = [sub EXCEPT !.queued = Append(@, message)] /\ UNCHANGED viewer

\* deliver with the data at hand.
Deliver(r, message) ==
  IF message.seq > r.seen
  THEN relay' = [r EXCEPT !.seen = message.seq] /\ Forward(message)
  ELSE relay' = r /\ UNCHANGED <<sub, viewer>>

\* A notification arrives: it is delivered, or the row is read, or read again.
Notified ==
  /\ relay.notes # <<>>
  /\ LET note == Head(relay.notes)
         rest == [relay EXCEPT !.notes = Tail(@)]
     IN \/ sub.at = "off" /\ relay' = rest /\ UNCHANGED <<sub, viewer>>
        \/ /\ sub.at # "off" /\ ~IsLarge(note.value)
           /\ Deliver(rest, [seq |-> note.seq, value |-> note.value, at |-> NoTime])
        \/ /\ sub.at # "off" /\ IsLarge(note.value)
           /\ relay' = IF relay.read.at = "none"
                       THEN [rest EXCEPT !.read.at = "asked"]
                       ELSE [rest EXCEPT !.read.again = TRUE]
           /\ UNCHANGED <<sub, viewer>>
  /\ UNCHANGED <<worker, database, online, attached, faults, lossy>>

\* getLive of the relay: the row as it is now, and its arrival.
PointerRead ==
  /\ relay.read.at = "asked"
  /\ relay' = [relay EXCEPT !.read.at = "answered", !.read.value = row]
  /\ UNCHANGED <<worker, database, sub, browser, faults, lossy>>

\* Bug: a pointer that came during the read is forgotten.
NoNextRead(read) == NoRead

\* A pointer that came during the read asks for another one.
NextRead(read) == IF read.again THEN [NoRead EXCEPT !.at = "asked"] ELSE NoRead

PointerArrives ==
  /\ relay.read.at = "answered"
  /\ LET rest == [relay EXCEPT !.read = NextRead(@)]
     IN IF relay.read.value = None THEN relay' = rest /\ UNCHANGED <<sub, viewer>>
        ELSE Deliver(rest, relay.read.value)
  /\ UNCHANGED <<worker, database, online, attached, faults, lossy>>

\* The read fails, and with it the reads that were to follow.
PointerFails ==
  /\ relay.read.at # "none" /\ Fault
  /\ relay' = [relay EXCEPT !.read = NoRead]
  /\ lossy' = lossy \cup {"unread"}
  /\ UNCHANGED <<worker, database, sub, browser>>

RelayLost ==
  /\ relay.up /\ Fault
  /\ relay' = [relay EXCEPT !.up = FALSE, !.notes = <<>>]
  /\ UNCHANGED <<worker, database, sub, browser, lossy>>

\* connect, the first time: nobody is told, and nothing is read.
Connect ==
  /\ ~relay.up /\ ~relay.listened
  /\ relay' = [Listening EXCEPT !.unheard = relay.unheard]
  /\ UNCHANGED <<worker, database, sub, browser, faults, lossy>>

\* connect, again: subscribers release their previews, and the row is read.
Reconnect ==
  /\ ~relay.up /\ relay.listened
  /\ IF sub.at = "off"
     THEN relay' = Listening /\ UNCHANGED <<sub, viewer>>
     ELSE relay' = [Listening EXCEPT !.read.at = "asked"] /\ Forward(Unavailable)
  /\ UNCHANGED <<worker, database, online, attached, faults, lossy>>

\* subscribeLive of ws.js: the updates are subscribed to, then the row is read.
BurstRead ==
  /\ sub.at = "asked"
  /\ sub' = [sub EXCEPT !.at = "answered", !.burst = row]
  /\ UNCHANGED <<worker, database, relay, browser, faults, lossy>>

\* The row is sent, and behind it the updates that waited.
Burst ==
  /\ sub.at = "answered"
  /\ IF sub.burst = None THEN UNCHANGED viewer
                         ELSE viewer' \in handleLiveMessage(viewer, sub.burst)
  /\ sub' = IF sub.queued = <<>> THEN [NoSub EXCEPT !.at = "on"]
            ELSE [sub EXCEPT !.at = "sent", !.burst = None,
                             !.seen = IF sub.burst = None THEN 0 ELSE sub.burst.seq]
  /\ UNCHANGED <<worker, database, relay, online, attached, faults, lossy>>

\* The next update that waited; one that is not newer than what was sent is
\* left out.
SendQueued ==
  /\ sub.at = "sent"
  /\ LET update == Head(sub.queued)
         sent == update.seq = 0 \/ update.seq > sub.seen
     IN /\ IF sent THEN viewer' \in handleLiveMessage(viewer, update) ELSE UNCHANGED viewer
        /\ sub' = IF Tail(sub.queued) = <<>> THEN [NoSub EXCEPT !.at = "on"]
                  ELSE [sub EXCEPT !.queued = Tail(@),
                                   !.seen = IF sent /\ update.seq # 0 THEN update.seq ELSE @]
  /\ UNCHANGED <<worker, database, relay, online, attached, faults, lossy>>

\* Bug: the read that is under way outlives the subscription.
UnsubscribedKeepsRead(r) == [r EXCEPT !.seen = 0, !.unheard = 0]

\* The last subscriber leaves the relay.
Unsubscribed(r) == [r EXCEPT !.seen = 0, !.unheard = 0, !.read = NoRead]

\* The read fails: no subscription, and an error that means "unavailable".
SubscribeFails ==
  /\ sub.at \in {"asked", "answered"}
  /\ sub' = NoSub /\ relay' = Unsubscribed(relay)
  /\ viewer' \in handleLiveMessage(viewer, Unavailable)
  /\ UNCHANGED <<worker, database, online, attached, faults, lossy>>

-----------------------------------------------------------------------------
(***************************************************************************)
(* The browser: durable events, timers, and the way to the portal.           *)
(***************************************************************************)

\* The timer of an idle tick.
GraceEnds ==
  /\ viewer.ended # {}
  /\ viewer' = [viewer EXCEPT !.shown = Without(viewer, viewer.ended), !.ended = {}]
  /\ UNCHANGED <<worker, database, portal, online, attached, faults, lossy>>

\* The next durable event.  A message takes the place of the preview that has
\* its id; the end of a turn clears every preview and the timer.
TakeEvent ==
  /\ attached /\ viewer.cursor < Len(log)
  /\ LET event == log[viewer.cursor + 1]
         next == [viewer EXCEPT !.cursor = @ + 1]
     IN viewer' = IF event.kind = "terminal" THEN Clear(next, Shown(next))
                  ELSE Clear(next, {s \in {event.stream} : HasMessage(next.shown[s])})
  /\ UNCHANGED <<worker, database, portal, online, attached, faults, lossy>>

\* The end of a turn comes a second time: the timer is stopped, and then the
\* event is ignored.
EventAgain ==
  /\ attached /\ viewer.ended # {} /\ EndedBetween(log, 0, viewer.cursor) /\ Fault
  /\ viewer' = [viewer EXCEPT !.ended = {}]
  /\ UNCHANGED <<worker, database, portal, online, attached, lossy>>

\* loadSessionHistory: the events so far replace the history; previews stay
\* unless their message, or a new end of a turn, is among the events.
Reload ==
  /\ attached /\ viewer.cursor < Len(log) /\ Fault
  /\ LET ends == EndedBetween(log, viewer.cursor, Len(log))
         gone == {s \in Shown(viewer) : ends \/ (HasMessage(viewer.shown[s]) /\ Recorded(log, Len(log), s))}
     IN viewer' = [viewer EXCEPT !.cursor = Len(log), !.shown = Without(viewer, gone),
                                 !.ended = @ \ gone]
  /\ UNCHANGED <<worker, database, portal, online, attached, lossy>>

\* The socket closes, on its own or because the portal restarts: the handlers
\* are told that the plane is unavailable.
SocketLost ==
  /\ online /\ Fault /\ online' = FALSE
  /\ sub' = NoSub /\ relay' \in {Unsubscribed(relay), NewRelay}
  /\ viewer' \in (IF attached THEN OnIdle(viewer, 0) ELSE {viewer})
  /\ UNCHANGED <<worker, database, attached, lossy>>

\* resubscribeAll
SocketBack ==
  /\ ~online /\ online' = TRUE
  /\ viewer' = [viewer EXCEPT !.prev = 0, !.taken = 0]
  /\ sub' = IF attached THEN [NoSub EXCEPT !.at = "asked"] ELSE NoSub
  /\ UNCHANGED <<worker, database, relay, attached, faults, lossy>>

\* detachActiveSession, and the return to the session.
Detach ==
  /\ attached /\ Fault /\ attached' = FALSE
  /\ viewer' = [viewer EXCEPT !.prev = 0, !.taken = 0, !.shown = [s \in Streams |-> 0],
                             !.ended = {}]
  /\ sub' = NoSub /\ relay' = Unsubscribed(relay)
  /\ UNCHANGED <<worker, database, online, lossy>>

Attach ==
  /\ ~attached /\ attached' = TRUE
  /\ sub' = IF online THEN [NoSub EXCEPT !.at = "asked"] ELSE NoSub
  /\ UNCHANGED <<worker, database, relay, online, viewer, faults, lossy>>

-----------------------------------------------------------------------------
WorkerSteps == ActivityBegins \/ startTurn \/ Delta \/ finalMessage \/ finishTurn \/ ActivityEnds
PortalSteps == Notified \/ PointerRead \/ PointerArrives \/ Connect \/ Reconnect
               \/ BurstRead \/ Burst \/ SendQueued
BrowserSteps == GraceEnds \/ TakeEvent \/ SocketBack \/ Attach
Disturbances ==
  \/ WorkerCrashes \/ LateWrite \/ DatabaseCrashes
  \/ PointerFails \/ RelayLost \/ SubscribeFails
  \/ EventAgain \/ Reload \/ SocketLost \/ Detach
  \/ \E t \in Turns : PublishFails(t) \/ PublishTimesOut(t)

Next ==
  \/ WorkerSteps \/ TimerFlush \/ (\E t \in Turns : Published(t))
  \/ PortalSteps \/ BrowserSteps \/ Disturbances

Spec == Init /\ [][Next]_vars

-----------------------------------------------------------------------------
(***************************************************************************)
(* Properties.                                                              *)
(***************************************************************************)

\* When no turn runs and nothing is being written, the retained row does not
\* show a running turn, in whatever order the publishers of two turns have
\* written, unless a write was dropped or executed late (finishTurn,
\* LatestValuePublisher).
RowEndsIdle ==
  (~busy /\ late = {} /\ lossy = {} /\ \A t \in Turns : pub[t].flight = None)
    => row = None \/ row.value.phase = "idle"

\* A preview that is over stays so, and "durable content always wins": a late
\* tick, a reconnect, a reload of the history or a return to the session never
\* shows more of a closed stream than is shown already, and never shows a
\* message that the browser has from its events, whichever way was the faster
\* one (closedLiveStreams, closedLiveKeys, applyLiveTurnToHistory).
NoRevival ==
  [][\A s \in Streams :
       /\ s \in viewer.closed =>
            s \in viewer'.closed /\ viewer'.shown[s] \in {0, viewer.shown[s]}
       /\ HasMessage(viewer'.shown[s]) => ~Recorded(log', viewer'.cursor, s)]_vars

\* A preview never loses text, although the row, the notifications, the pointer
\* reads and the burst reach the browser on different ways, unless a statement
\* was executed after its client had given up ("late") or a restart of the
\* database has emptied the table and begun the sequence anew ("reset") (deliver,
\* handleLiveMessage, subscribeLive).
PreviewsGrow ==
  [][lossy' \subseteq {"dropped", "unread"} =>
       \A s \in Streams : viewer'.shown[s] = 0 \/ viewer'.shown[s] >= viewer.shown[s]]_vars

\* Nothing is under way: no timer, no write, no notification, no read, and the
\* connections are there.
Settled ==
  /\ ~live.timer /\ \A t \in Turns : pub[t].flight = None
  /\ relay.up /\ relay.notes = <<>> /\ relay.read.at = "none"
  /\ online /\ sub.at \in {"on", "off"}

\* What the model has written reaches the row, and the row the browser, also
\* when the model then stalls: when nothing is under way any more, the last
\* snapshot that the browser has handled since it subscribed is the newest row.
\* No snapshot is lost by replacing it, by reading the row, by subscribing anew
\* or by a connection that was lost, unless a write or a read has failed, there
\* is no subscription, or the row was written after the burst of a subscription
\* that came before the first LISTEN of the portal: that row arrives only with
\* the next write (scheduleOrFlush, pump, pointerReads, isReconnect, the burst of
\* subscribeLive).
NewestArrives ==
  (Settled /\ lossy = {} /\ sub.at = "on")
    => /\ live.sent = live.text
       /\ row = None \/ row.seq \in {viewer.taken, relay.unheard}
=============================================================================
