-------------------------- MODULE LivePlane_proofs --------------------------
(***************************************************************************)
(* Proofs about the live plane: for any number of attempts, streams, deltas *)
(* and faults, texts of any length and notifications of any delay.          *)
(*                                                                          *)
(* The argument.  The worker comes first (WorkerInv): the publishers of     *)
(* later attempts hold later streams, and each writes the texts of a stream *)
(* in order, with an idle snapshot at the end.  So the row owes an idle     *)
(* snapshot while it shows a running turn (RowOwed), and no text that is    *)
(* still to be written is shorter than one that was (NoneShorter).          *)
(*                                                                          *)
(* Then the portal and the browser (RestInv).  What is on the way to the    *)
(* browser has once been the row (Known), and every step changes previews   *)
(* only by closing them or by a newer message that was on the way (View).   *)
(* With the events this keeps durable messages from being previewed         *)
(* (Durable); with the order of the texts (Growing) a message that counts   *)
(* as new is never shorter than what is shown, also after a reconnect has   *)
(* made the browser forget which one was the newest.                        *)
(*                                                                          *)
(* Last, the row is always on its way to a subscriber (Arriving).  This is  *)
(* not inductive without saying why: the last notification is that of the   *)
(* row, a read that found an older row is followed by something, and an     *)
(* update behind the burst is left out only when it has been handled.       *)
(***************************************************************************)
EXTENDS LivePlane, TLAPS, SequenceTheorems

(* A publisher: the write under way and the value that waits.               *)
Slots == [flight : Values \cup {None}, pending : Values \cup {None}]

(* None is no value, no message and no notification.                        *)
LEMMA NotNone ==
  /\ \A x \in Values : x # None
  /\ \A m \in Messages : m # None
  /\ \A n \in Notes : n # None
<1>1. DOMAIN None = {"none"}
  BY DEF None
<1>2. \A x \in Values : "phase" \in DOMAIN x
  BY DEF Values
<1>3. \A m \in Messages : "seq" \in DOMAIN m
  BY DEF Messages
<1>4. \A n \in Notes : "seq" \in DOMAIN n
  BY DEF Notes
<1> QED
  BY <1>1, <1>2, <1>3, <1>4

(* The parts of TypeOK: the worker, ...                                     *)
WorkerType ==
  /\ turn \in 0 .. MaxTurns /\ busy \in BOOLEAN /\ streams \in 0 .. MaxStreams
  /\ deltas \in 0 .. MaxDeltas
  /\ live \in [stream : 0 .. MaxStreams, text : 0 .. MaxText, sent : 0 .. MaxText,
               idleSent : BOOLEAN, timer : BOOLEAN]
  /\ pub \in [Turns -> Slots]
  /\ \A t \in Turns : pub[t].flight = None => pub[t].pending = None

(* ... the database, ...                                                    *)
DatabaseType ==
  /\ row = None \/ (row \in Messages /\ row.seq > 0 /\ row.at # NoTime)
  /\ late \subseteq Values /\ log \in Seq(Events)

(* ... the relay, ...                                                       *)
RelayType ==
  /\ relay \in [up : BOOLEAN, listened : BOOLEAN, seen : Nat, unheard : Nat,
                notes : Seq(Notes), read : Reads]
  /\ relay.up => relay.listened
  /\ ~relay.up => relay.notes = <<>>

(* ... the subscription, ...                                                *)
SubType ==
  sub \in [at : {"off", "asked", "answered", "sent", "on"}, seen : Nat,
           queued : Seq(Messages), burst : Messages \cup {None}]

(* ... what it needs and what it owns, ...                                  *)
SubOpen ==
  /\ sub.at # "off" => online /\ attached
  /\ sub.at = "off" => relay.read.at = "none" /\ relay.seen = 0 /\ relay.unheard = 0

(* ... what a browser shows, ...                                            *)
Viewers ==
  {v \in [prev : Nat, taken : Nat, shown : [Streams -> 0 .. MaxText],
          closed : SUBSET Streams, ended : SUBSET Streams, cursor : Nat] :
     \A s \in v.ended : v.shown[s] > 0 /\ s \in v.closed}

(* ... the browser, ...                                                     *)
BrowserType ==
  /\ online \in BOOLEAN /\ attached \in BOOLEAN
  /\ viewer \in Viewers /\ viewer.cursor <= Len(log)

(* ... and the bookkeeping.                                                 *)
CountersType ==
  faults \in 0 .. MaxFaults /\ lossy \subseteq {"dropped", "late", "reset", "unread"}

(* TypeOK is its parts.                                                     *)
LEMMA TypeParts ==
  TypeOK <=> /\ WorkerType /\ DatabaseType /\ RelayType /\ SubType /\ SubOpen
             /\ BrowserType /\ CountersType
BY DEF TypeOK, WorkerType, DatabaseType, RelayType, SubType, SubOpen, BrowserType, CountersType,
       Viewers, Slots

-----------------------------------------------------------------------------
(***************************************************************************)
(* The publisher.                                                           *)
(***************************************************************************)

(* A value that is enqueued is written at once, or replaces the one that    *)
(* waits.                                                                   *)
LEMMA EnqueueType ==
  ASSUME NEW p \in Slots, p.flight = None => p.pending = None, NEW x \in Values
  PROVE  /\ enqueue(p, x) \in Slots
         /\ enqueue(p, x).flight # None
         /\ enqueue(p, x) = IF p.flight = None THEN [flight |-> x, pending |-> None]
                            ELSE [flight |-> p.flight, pending |-> x]
BY NotNone DEF enqueue, Pump, Slots

(* After a write the value that waits is written.                           *)
LEMMA PumpedType ==
  ASSUME NEW p \in Slots
  PROVE  Pumped(p) = [flight |-> p.pending, pending |-> None] /\ Pumped(p) \in Slots
BY DEF Pumped, Pump, Slots

-----------------------------------------------------------------------------
(***************************************************************************)
(* The previews.                                                            *)
(***************************************************************************)

(* Previews stay as they are, or go.                                        *)
Kept(v, w) == \A s \in Streams : w.shown[s] \in {0, v.shown[s]}

(* An idle tick shows nothing new and opens no stream; the tick of no       *)
(* stream closes every stream that is still shown.                          *)
LEMMA OnIdleFacts ==
  ASSUME NEW v \in Viewers, NEW s \in 0 .. MaxStreams, NEW w \in OnIdle(v, s)
  PROVE  /\ w \in Viewers /\ w.cursor = v.cursor /\ w.prev = v.prev /\ w.taken = v.taken
         /\ v.closed \subseteq w.closed /\ Kept(v, w)
         /\ s = 0 => Shown(w) \subseteq w.closed
<1> DEFINE over == {t \in Shown(v) : s = 0 \/ t = s \/ t \in v.closed}
           mine == IF s = 0 THEN Shown(v) ELSE {s}
<1>1. PICK keep \in SUBSET over :
        w = [v EXCEPT !.shown = Without(v, over \ keep), !.closed = @ \cup mine, !.ended = keep]
  BY DEF OnIdle
<1>2. mine \subseteq Streams
  BY LiveConstants DEF Shown, Streams
<1>3. Without(v, over \ keep) \in [Streams -> 0 .. MaxText]
  BY LiveConstants DEF Without, Viewers
<1>4. over \subseteq Streams /\ over \subseteq v.closed \cup mine
  BY DEF Shown
<1>5. /\ w.shown = Without(v, over \ keep) /\ w.closed = v.closed \cup mine /\ w.ended = keep
      /\ w.cursor = v.cursor /\ w.prev = v.prev /\ w.taken = v.taken
  BY <1>1 DEF Viewers
<1>6. w \in [prev : Nat, taken : Nat, shown : [Streams -> 0 .. MaxText],
            closed : SUBSET Streams, ended : SUBSET Streams, cursor : Nat]
  <2> HIDE DEF over, mine
  <2> QED
    BY <1>1, <1>2, <1>3, <1>4 DEF Viewers
<1>7. \A t \in w.ended : w.shown[t] > 0 /\ t \in w.closed
  <2>1. \A t \in over : v.shown[t] > 0
    BY DEF Shown
  <2> QED
    BY <1>4, <1>5, <2>1 DEF Without
<1>8. Kept(v, w)
  BY <1>5 DEF Kept, Without
<1>9. s = 0 => Shown(w) \subseteq w.closed
  BY <1>5, <1>8 DEF Kept, Shown
<1> QED
  BY <1>5, <1>6, <1>7, <1>8, <1>9 DEF Viewers

(* A live tick changes at most the preview of its stream, and only when     *)
(* that stream is not closed and its message is not known from the events.  *)
LEMMA OnLiveFacts ==
  ASSUME NEW v \in Viewers, NEW m \in Messages, m.value.phase = "live"
  PROVE  LET w == OnLive(v, m) s == m.value.stream
         IN /\ w \in Viewers /\ w.cursor = v.cursor /\ w.prev = v.prev /\ w.taken = v.taken
            /\ v.closed = w.closed
            /\ \A t \in Streams : t # s => w.shown[t] = v.shown[t]
            /\ \/ w = v
               \/ /\ s \in Streams /\ w.shown[s] = m.value.text /\ s \notin v.closed
                  /\ ~(HasMessage(m.value.text) /\ Recorded(log, v.cursor, s))
<1> DEFINE s == m.value.stream
           w == OnLive(v, m)
<1>1. s \in Streams /\ m.value.text \in 0 .. MaxText /\ m.value.text > 0
  BY LiveConstants DEF Messages, Values
<1>2. CASE w = v
  BY <1>2
<1>3. CASE w # v
  <2>1. /\ w = [v EXCEPT !.shown[s] = m.value.text] /\ s \notin v.closed
        /\ ~(HasMessage(m.value.text) /\ Recorded(log, v.cursor, s))
    BY <1>3 DEF OnLive
  <2>2. /\ w.shown = [v.shown EXCEPT ![s] = m.value.text] /\ w.cursor = v.cursor
        /\ w.prev = v.prev /\ w.taken = v.taken /\ w.closed = v.closed /\ w.ended = v.ended
    BY <2>1 DEF Viewers
  <2>3. w.shown[s] = m.value.text /\ \A t \in Streams : t # s => w.shown[t] = v.shown[t]
    BY <1>1, <2>2 DEF Viewers
  <2>4. w \in [prev : Nat, taken : Nat, shown : [Streams -> 0 .. MaxText],
              closed : SUBSET Streams, ended : SUBSET Streams, cursor : Nat]
    <3>1. [v.shown EXCEPT ![s] = m.value.text] \in [Streams -> 0 .. MaxText]
      BY <1>1 DEF Viewers
    <3> QED
      BY <2>1, <3>1 DEF Viewers
  <2>5. w \in Viewers
    BY <2>1, <2>2, <2>3, <2>4 DEF Viewers
  <2> QED
    BY <1>1, <2>1, <2>2, <2>3, <2>5
<1> QED
  BY <1>2, <1>3

(* The stream s is shown as the message has it.                             *)
Gains(v, m, w, s) ==
  /\ m.seq > v.prev /\ m.value.phase = "live" /\ m.value.stream = s
  /\ w.shown[s] = m.value.text /\ s \notin v.closed
  /\ ~(HasMessage(m.value.text) /\ Recorded(log, v.cursor, s))

(* What a message does to the browser: it tells it to forget, is newer, or  *)
(* is ignored.                                                              *)
Handled(v, m, w) ==
  /\ w \in Viewers /\ w.cursor = v.cursor /\ v.closed \subseteq w.closed
  /\ \A s \in Streams : w.shown[s] \in {0, v.shown[s]} \/ Gains(v, m, w, s)
  /\ \/ m.seq = 0 /\ w.prev = 0 /\ w.taken = v.taken /\ Shown(w) \subseteq w.closed
     \/ m.seq > v.prev /\ w.prev = m.seq /\ w.taken = m.seq
     \/ m.seq > 0 /\ m.seq <= v.prev /\ w = v

(* handleLiveMessage does this.                                             *)
LEMMA HandleFacts ==
  ASSUME NEW v \in Viewers, NEW m \in Messages, m.seq = 0 => m.value = Idle(0),
         NEW w \in handleLiveMessage(v, m)
  PROVE  Handled(v, m, w)
<1>1. m.seq \in Nat /\ v.prev \in Nat /\ m.value \in Values
  BY DEF Messages, Viewers
<1>2. m.value.phase \in {"live", "idle"} /\ m.value.stream \in 0 .. MaxStreams
  BY <1>1, LiveConstants DEF Values, Streams
<1>3. CASE m.seq = 0
  <2> DEFINE u == [v EXCEPT !.prev = 0]
  <2>1. u \in Viewers /\ u.prev = 0 /\ u.taken = v.taken /\ u.shown = v.shown
        /\ u.closed = v.closed /\ u.cursor = v.cursor
    BY DEF Viewers
  <2>2. m.value.phase = "idle" /\ m.value.stream = 0
    BY <1>3 DEF Idle
  <2>3. w \in OnIdle(u, 0)
    BY <1>3, <2>2 DEF handleLiveMessage, Tick
  <2> HIDE DEF u
  <2>4. /\ w \in Viewers /\ w.cursor = u.cursor /\ w.prev = u.prev /\ w.taken = u.taken
        /\ u.closed \subseteq w.closed /\ Kept(u, w) /\ Shown(w) \subseteq w.closed
    BY <2>1, <2>3, OnIdleFacts, LiveConstants
  <2> QED
    BY <1>3, <2>1, <2>4 DEF Handled, Kept
<1>4. CASE m.seq # 0 /\ m.seq > v.prev
  <2> DEFINE u == [v EXCEPT !.prev = m.seq, !.taken = m.seq]
  <2>1. u \in Viewers /\ u.prev = m.seq /\ u.taken = m.seq /\ u.shown = v.shown
        /\ u.closed = v.closed /\ u.cursor = v.cursor
    BY <1>1 DEF Viewers
  <2>2. w \in Tick(u, m)
    BY <1>4 DEF handleLiveMessage, Fresh
  <2> HIDE DEF u
  <2>3. CASE m.value.phase = "idle"
    <3>1. w \in OnIdle(u, m.value.stream)
      BY <2>2, <2>3 DEF Tick
    <3>2. /\ w \in Viewers /\ w.cursor = u.cursor /\ w.prev = u.prev /\ w.taken = u.taken
          /\ u.closed \subseteq w.closed /\ Kept(u, w)
      BY <1>2, <2>1, <3>1, OnIdleFacts
    <3> QED
      BY <1>4, <2>1, <3>2 DEF Handled, Kept
  <2>4. CASE m.value.phase = "live"
    <3>1. w = OnLive(u, m)
      BY <2>2, <2>4 DEF Tick
    <3> DEFINE s == m.value.stream
    <3>2. /\ w \in Viewers /\ w.cursor = u.cursor /\ w.prev = u.prev /\ w.taken = u.taken
          /\ u.closed = w.closed
          /\ \A t \in Streams : t # s => w.shown[t] = u.shown[t]
          /\ \/ w = u
             \/ /\ s \in Streams /\ w.shown[s] = m.value.text /\ s \notin u.closed
                /\ ~(HasMessage(m.value.text) /\ Recorded(log, u.cursor, s))
      BY <2>1, <2>4, <3>1, OnLiveFacts
    <3>3. ASSUME NEW t \in Streams
          PROVE  w.shown[t] \in {0, v.shown[t]} \/ Gains(v, m, w, t)
      BY <1>4, <2>1, <2>4, <3>2 DEF Gains
    <3> QED
      BY <1>4, <2>1, <3>2, <3>3 DEF Handled
  <2> QED
    BY <1>2, <2>3, <2>4
<1>5. CASE m.seq # 0 /\ ~(m.seq > v.prev)
  <2>1. w = v
    BY <1>5 DEF handleLiveMessage, Fresh
  <2> QED
    BY <1>1, <1>5, <2>1 DEF Handled
<1> QED
  BY <1>3, <1>4, <1>5

-----------------------------------------------------------------------------
(***************************************************************************)
(* The worker.                                                              *)
(***************************************************************************)

(* The coalescers.                                                          *)
Lives == [stream : 0 .. MaxStreams, text : 0 .. MaxText, sent : 0 .. MaxText,
          idleSent : BOOLEAN, timer : BOOLEAN]

(* A snapshot of a running turn.                                            *)
IsLive(x) == x.phase = "live"

(* The values that a publisher holds, ...                                   *)
Held(p) == {p.flight, p.pending} \ {None}

(* ... the one it will write last, ...                                      *)
Newest(p) == IF p.pending # None THEN p.pending ELSE p.flight

(* ... and how they are held: nothing waits while nothing is written, ...   *)
Upright(p) == p.flight = None => p.pending = None

(* ... and of one stream the shorter text is written first.                 *)
Ordered(p) ==
  (p.flight # None /\ p.pending # None /\ IsLive(p.flight) /\ IsLive(p.pending)
   /\ p.flight.stream = p.pending.stream) => p.flight.text <= p.pending.text

(* The coalescer works on the last stream, and only while an attempt runs;  *)
(* what it has not emitted yet has a timer.                                 *)
LiveOK ==
  /\ live.idleSent => live = NewLive
  /\ ~live.idleSent => busy /\ live.stream = streams /\ streams >= 1
  /\ busy => turn >= 1
  /\ live.sent <= live.text /\ (live.sent # live.text => live.timer)

(* The publishers of later attempts hold later streams, no stream is held   *)
(* before it has begun, and no text of the open stream is longer than what  *)
(* was emitted.                                                             *)
PubOK ==
  /\ \A t \in Turns : t > turn => pub[t].flight = None
  /\ \A t \in Turns : Ordered(pub[t])
  /\ \A t \in Turns : \A x \in Held(pub[t]) : x.stream <= streams
  /\ \A t, u \in Turns : t < u =>
       \A x \in Held(pub[t]), y \in Held(pub[u]) : x.stream < y.stream
  /\ ~live.idleSent => \A t \in Turns : t # turn =>
       \A x \in Held(pub[t]) : x.stream < live.stream
  /\ ~live.idleSent => \A t \in Turns : \A x \in Held(pub[t]) :
       IsLive(x) /\ x.stream = live.stream => x.text <= live.sent

(* The invariant of the worker.                                             *)
WorkerInv == WorkerType /\ LiveOK /\ PubOK

(* The types of the values.                                                 *)
LEMMA ValueTypes ==
  /\ \A x \in Values : /\ x.stream \in 0 .. MaxStreams /\ x.text \in 0 .. MaxText
                       /\ x.phase \in {"live", "idle"}
                       /\ IsLive(x) => x.stream \in Streams /\ x.text > 0
  /\ \A s \in Streams, n \in 1 .. MaxText : Live(s, n) \in Values
  /\ \A s \in 0 .. MaxStreams : Idle(s) \in Values
BY LiveConstants DEF Values, Streams, IsLive, Live, Idle

(* The types of what a publisher holds.                                     *)
LEMMA SlotTypes ==
  ASSUME NEW p \in Slots
  PROVE  /\ Held(p) \subseteq Values
         /\ p.flight \in Values \cup {None} /\ p.pending \in Values \cup {None}
BY DEF Slots, Held

(* Enqueuing makes the value the newest one, and keeps the order when no    *)
(* text of its stream is longer.                                            *)
LEMMA EnqueueFacts ==
  ASSUME NEW p \in Slots, Upright(p), NEW x \in Values
  PROVE  LET q == enqueue(p, x)
         IN /\ q \in Slots /\ Upright(q) /\ q.flight # None /\ Newest(q) = x
            /\ Held(q) \subseteq Held(p) \cup {x}
            /\ (\A y \in Held(p) : IsLive(y) /\ IsLive(x) /\ y.stream = x.stream =>
                                     y.text <= x.text)
                 => Ordered(q)
<1> DEFINE q == enqueue(p, x)
<1>1. q \in Slots /\ q.flight # None /\ x # None /\ x \in Values
  BY EnqueueType, NotNone DEF Upright
<1>2. CASE p.flight = None
  <2>1. q.flight = x /\ q.pending = None
    BY <1>2, EnqueueType DEF Upright
  <2> QED
    BY <1>1, <2>1 DEF Newest, Upright, Held, Ordered
<1>3. CASE p.flight # None
  <2>1. q.flight = p.flight /\ q.pending = x
    BY <1>3, EnqueueType DEF Upright
  <2> QED
    BY <1>1, <1>3, <2>1 DEF Newest, Upright, Held, Ordered
<1> QED
  BY <1>2, <1>3

(* After a write the publisher holds no more than before, and what waited   *)
(* is under way.                                                            *)
LEMMA PumpedFacts ==
  ASSUME NEW p \in Slots, Upright(p)
  PROVE  LET q == Pumped(p)
         IN /\ q \in Slots /\ Upright(q) /\ Ordered(q)
            /\ Held(q) \subseteq Held(p)
            /\ Newest(q) = None \/ Newest(q) = Newest(p)
            /\ p.pending # None => q.flight # None
<1> DEFINE q == Pumped(p)
<1>1. q.flight = p.pending /\ q.pending = None /\ q \in Slots
  BY PumpedType
<1> QED
  BY <1>1 DEF Newest, Upright, Held, Ordered

(* A flush adds the current text, or nothing.                               *)
LEMMA FlushFacts ==
  ASSUME NEW p \in Slots, Upright(p), NEW l \in Lives, l.text > 0 => l.stream \in Streams
  PROVE  LET q == Flush(p, l)
             x == Live(l.stream, l.text)
         IN /\ q \in Slots /\ Upright(q)
            /\ p.flight # None => q.flight # None
            /\ \/ q = p
               \/ l.text > 0 /\ x \in Values /\ Held(q) \subseteq Held(p) \cup {x} /\ Newest(q) = x
            /\ (Ordered(p) /\ \A y \in Held(p) : IsLive(y) /\ y.stream = l.stream => y.text <= l.text)
                 => Ordered(q)
<1> DEFINE x == Live(l.stream, l.text)
           q == Flush(p, l)
<1>1. CASE l.text > 0 /\ l.text # l.sent
  <2>1. l.text \in 1 .. MaxText
    BY <1>1, LiveConstants DEF Lives
  <2>2. x \in Values /\ x.stream = l.stream /\ x.text = l.text
    BY <1>1, <2>1, ValueTypes DEF Live
  <2>3. q = enqueue(p, x)
    BY <1>1 DEF Flush
  <2> HIDE DEF x, q
  <2> QED
    BY <1>1, <2>2, <2>3, EnqueueFacts DEF x, q
<1>2. CASE ~(l.text > 0 /\ l.text # l.sent)
  BY <1>2 DEF Flush
<1> QED
  BY <1>1, <1>2

(* The end of a stream leaves the idle snapshot as the newest value.        *)
LEMMA EndingFacts ==
  ASSUME NEW p \in Slots, Upright(p), NEW l \in Lives, l.text > 0 => l.stream \in Streams,
         Ordered(p), l.idleSent => l.text = 0,
         \A y \in Held(p) : IsLive(y) /\ y.stream = l.stream => y.text <= l.text
  PROVE  LET q == Ending(p, l)
             x == Live(l.stream, l.text)
         IN /\ q \in Slots /\ Upright(q) /\ Ordered(q)
            /\ p.flight # None => q.flight # None
            /\ \/ l.idleSent /\ q = p
               \/ /\ ~l.idleSent /\ q.flight # None /\ Newest(q) = Idle(l.stream)
                  /\ Held(q) \subseteq Held(p) \cup {Idle(l.stream)} \cup
                                     (IF l.text > 0 THEN {x} ELSE {})
<1> DEFINE x == Live(l.stream, l.text)
           f == Flush(p, l)
           q == Ending(p, l)
<1>1. /\ f \in Slots /\ Upright(f) /\ Ordered(f)
      /\ p.flight # None => f.flight # None
      /\ \/ f = p
         \/ l.text > 0 /\ x \in Values /\ Held(f) \subseteq Held(p) \cup {x}
  BY FlushFacts
<1>2. CASE l.idleSent
  BY <1>1, <1>2 DEF Ending, Flush
<1>3. CASE ~l.idleSent
  <2>1. q = enqueue(f, Idle(l.stream))
    BY <1>3 DEF Ending
  <2>2. Idle(l.stream) \in Values /\ ~IsLive(Idle(l.stream))
    BY ValueTypes DEF Lives, Idle, IsLive
  <2> HIDE DEF x, q, f
  <2>3. /\ q \in Slots /\ Upright(q) /\ q.flight # None /\ Newest(q) = Idle(l.stream)
        /\ Held(q) \subseteq Held(f) \cup {Idle(l.stream)} /\ Ordered(q)
    BY <1>1, <2>1, <2>2, EnqueueFacts
  <2> QED
    BY <1>1, <1>3, <2>3 DEF x, q
<1> QED
  BY <1>2, <1>3

-----------------------------------------------------------------------------
(***************************************************************************)
(* Texts of a stream only grow.                                             *)
(***************************************************************************)

(* What the publishers and the coalescer still have of a stream has the     *)
(* length n or more.                                                        *)
AtLeast(s, n) ==
  /\ \A t \in Turns : \A x \in Held(pub[t]) : IsLive(x) /\ x.stream = s => n <= x.text
  /\ ~live.idleSent /\ live.stream = s => n <= live.sent

(* No step makes what is still to be written of a stream shorter.           *)
NoneShorter == \A s \in Streams, n \in Nat : s <= streams /\ AtLeast(s, n) => AtLeast(s, n)'

(* To emit the current text of the open stream keeps the publishers in      *)
(* order.                                                                   *)
LEMMA EmitFacts ==
  ASSUME WorkerInv, turn \in Turns, ~live.idleSent,
         NEW q \in Slots, Upright(q), Ordered(q), pub' = [pub EXCEPT ![turn] = q],
         UNCHANGED <<turn, streams>>,
         NEW n \in Nat, live.sent <= n,
         \A x \in Held(q) : \/ x \in Held(pub[turn])
                            \/ x.stream = live.stream /\ (IsLive(x) => x.text = n),
         live'.idleSent \/ (live'.stream = live.stream /\ live'.sent = n)
  PROVE  /\ pub' \in [Turns -> Slots] /\ \A t \in Turns : Upright(pub'[t])
         /\ PubOK' /\ NoneShorter
<1>1. /\ pub \in [Turns -> Slots] /\ \A t \in Turns : Upright(pub[t])
      /\ live \in Lives /\ live.sent \in Nat /\ live.stream = streams
      /\ turn \in Nat /\ streams \in Nat /\ \A t \in Turns : t \in Nat
  BY LiveConstants DEF WorkerInv, WorkerType, LiveOK, Upright, Lives, Turns
<1>2. /\ pub' \in [Turns -> Slots] /\ pub'[turn] = q
      /\ \A t \in Turns : t # turn => pub'[t] = pub[t]
  BY <1>1
<1>3. \A t \in Turns : Upright(pub'[t]) /\ Ordered(pub'[t])
  BY <1>1, <1>2 DEF WorkerInv, PubOK
<1>4. \A t \in Turns : \A x \in Held(pub[t]) :
        x.stream \in Nat /\ x.text \in Nat /\ x.stream <= streams
  BY <1>1, SlotTypes, ValueTypes, LiveConstants DEF WorkerInv, PubOK
<1>5. \A t \in Turns : t > turn => Held(pub[t]) = {}
  BY <1>1 DEF Held, Upright, WorkerInv, PubOK
<1>6. \A t \in Turns : t # turn => \A x \in Held(pub[t]) : x.stream < live.stream
  BY DEF WorkerInv, PubOK
<1>7. \A t \in Turns : \A x \in Held(pub[t]) :
        IsLive(x) /\ x.stream = live.stream => x.text <= live.sent
  BY DEF WorkerInv, PubOK
<1>8. PubOK'
  <2>1. \A t \in Turns : t > turn' => pub'[t].flight = None
    BY <1>1, <1>2 DEF WorkerInv, PubOK
  <2>2. \A t \in Turns : \A x \in Held(pub'[t]) : x.stream <= streams'
    BY <1>1, <1>2, <1>4
  <2>3. ASSUME NEW t \in Turns, NEW u \in Turns, t < u,
               NEW x \in Held(pub'[t]), NEW y \in Held(pub'[u])
        PROVE  x.stream < y.stream
    <3>1. CASE t # turn /\ u # turn
      BY <1>2, <2>3, <3>1 DEF WorkerInv, PubOK
    <3>2. CASE t = turn
      BY <1>1, <1>2, <1>5, <2>3, <3>2
    <3>3. CASE u = turn
      <4>1. t # turn /\ x \in Held(pub[t])
        BY <1>1, <1>2, <2>3, <3>3
      <4>2. CASE y \in Held(pub[turn])
        BY <2>3, <3>3, <4>1, <4>2 DEF WorkerInv, PubOK
      <4>3. CASE y.stream = live.stream
        BY <1>6, <4>1, <4>3
      <4> QED
        BY <1>2, <3>3, <4>2, <4>3
    <3> QED
      BY <3>1, <3>2, <3>3
  <2>4. ~live'.idleSent => \A t \in Turns : t # turn' =>
          \A x \in Held(pub'[t]) : x.stream < live'.stream
    BY <1>2, <1>6
  <2>5. ASSUME ~live'.idleSent, NEW t \in Turns, NEW x \in Held(pub'[t]),
               IsLive(x), x.stream = live'.stream
        PROVE  x.text <= live'.sent
    <3>1. CASE x \in Held(pub[t])
      BY <1>1, <1>4, <1>7, <2>5, <3>1
    <3>2. CASE x \notin Held(pub[t])
      BY <1>2, <2>5, <3>2
    <3> QED
      BY <3>1, <3>2
  <2> QED
    BY <1>3, <2>1, <2>2, <2>3, <2>4, <2>5 DEF PubOK
<1>9. ASSUME NEW s \in Streams, NEW m \in Nat, AtLeast(s, m)
      PROVE  AtLeast(s, m)'
  <2>1. ASSUME NEW t \in Turns, NEW x \in Held(pub'[t]), IsLive(x), x.stream = s
        PROVE  m <= x.text
    <3>1. CASE x \in Held(pub[t])
      BY <1>9, <2>1, <3>1 DEF AtLeast
    <3>2. CASE x \notin Held(pub[t])
      BY <1>1, <1>2, <1>9, <2>1, <3>2 DEF AtLeast
    <3> QED
      BY <3>1, <3>2
  <2>2. ~live'.idleSent /\ live'.stream = s => m <= live'.sent
    BY <1>1, <1>9 DEF AtLeast
  <2> QED
    BY <2>1, <2>2 DEF AtLeast
<1> QED
  BY <1>2, <1>3, <1>8, <1>9 DEF NoneShorter

(* To pump keeps the publishers in order.                                   *)
LEMMA PumpFacts ==
  ASSUME WorkerInv, pub' \in [Turns -> Slots],
         \A t \in Turns : pub'[t] = pub[t] \/ pub'[t] = Pumped(pub[t]),
         UNCHANGED <<turn, busy, streams, deltas, live>>
  PROVE  WorkerInv' /\ NoneShorter
<1>1. \A t \in Turns : pub[t] \in Slots /\ Upright(pub[t])
  BY DEF WorkerInv, WorkerType, Upright
<1>2. \A t \in Turns : /\ Upright(pub'[t]) /\ Held(pub'[t]) \subseteq Held(pub[t])
                       /\ Ordered(pub'[t])
  BY <1>1, PumpedFacts DEF WorkerInv, PubOK
<1>3. \A t \in Turns : pub[t].flight = None => pub'[t].flight = None
  BY <1>1, PumpedType DEF Upright
<1>4. WorkerType' /\ LiveOK'
  BY <1>2 DEF WorkerInv, WorkerType, LiveOK, Upright
<1>5. PubOK'
  BY <1>2, <1>3 DEF WorkerInv, PubOK
<1> QED
  BY <1>2, <1>4, <1>5 DEF WorkerInv, NoneShorter, AtLeast

-----------------------------------------------------------------------------
(***************************************************************************)
(* The steps of the worker.                                                 *)
(***************************************************************************)

(* What a publisher writes last is an idle snapshot, unless its stream is   *)
(* open.                                                                    *)
Closing == \A t \in Turns :
  \/ Newest(pub[t]) = None
  \/ Newest(pub[t]).phase = "idle"
  \/ t = turn /\ ~live.idleSent

(* An idle snapshot is still to come.                                       *)
Owing == ~live.idleSent \/ \E t \in Turns : pub[t].flight # None

(* What every step is shown to do to the worker.                            *)
WorkerGoal == WorkerInv' /\ NoneShorter /\ (Closing => Closing')

(* Growing and flushing the open stream.                                    *)
LEMMA FlushStep ==
  ASSUME WorkerInv, ~live.idleSent, NEW n \in 0 .. MaxText, live.text <= n,
         live' = Flushed([live EXCEPT !.text = n]),
         Emit(Flush(pub[turn], [live EXCEPT !.text = n])),
         UNCHANGED <<turn, busy, streams>>, deltas' \in 0 .. MaxDeltas
  PROVE  WorkerGoal /\ (Owing => Owing')
<1> DEFINE l == [live EXCEPT !.text = n]
           q == Flush(pub[turn], l)
<1>1. /\ turn \in Turns /\ busy /\ live \in Lives /\ live.stream \in Streams
      /\ pub \in [Turns -> Slots] /\ pub[turn] \in Slots /\ Upright(pub[turn])
      /\ live.sent <= live.text /\ n \in Nat /\ live.sent \in Nat /\ live.text \in Nat
  BY LiveConstants DEF WorkerInv, WorkerType, LiveOK, Lives, Turns, Streams, Upright
<1>2. /\ l \in Lives /\ l.stream = live.stream /\ l.text = n /\ l.sent = live.sent
      /\ l.idleSent = live.idleSent
  BY <1>1 DEF Lives
<1>3. /\ live' \in Lives /\ live'.stream = live.stream /\ live'.text = n /\ live'.sent = n
      /\ live'.idleSent = live.idleSent /\ live'.timer = FALSE
  <2> HIDE DEF l
  <2> QED
    BY <1>1, <1>2 DEF Lives, Flushed, l
<1> HIDE DEF l
<1>4. pub' = [pub EXCEPT ![turn] = q]
  BY DEF Emit, l
<1>5. Ordered(pub[turn]) /\ \A y \in Held(pub[turn]) :
        IsLive(y) /\ y.stream = l.stream => y.text <= l.text
  <2>1. \A y \in Held(pub[turn]) : y.text \in Nat
    BY <1>1, SlotTypes, ValueTypes, LiveConstants
  <2> QED
    BY <1>1, <1>2, <2>1 DEF WorkerInv, PubOK
<1>6. /\ q \in Slots /\ Upright(q) /\ Ordered(q)
      /\ pub[turn].flight # None => q.flight # None
      /\ \/ q = pub[turn]
         \/ Held(q) \subseteq Held(pub[turn]) \cup {Live(l.stream, n)} /\ Newest(q) = Live(l.stream, n)
  BY <1>1, <1>2, <1>5, FlushFacts
<1> HIDE DEF q
<1>7. \A x \in Held(q) : \/ x \in Held(pub[turn])
                         \/ x.stream = live.stream /\ (IsLive(x) => x.text = n)
  BY <1>2, <1>6 DEF Live
<1>8. /\ pub' \in [Turns -> Slots] /\ \A t \in Turns : Upright(pub'[t])
      /\ PubOK' /\ NoneShorter
  <2>1. live.sent <= n
    BY <1>1
  <2>2. live'.idleSent \/ (live'.stream = live.stream /\ live'.sent = n)
    BY <1>3
  <2>3. turn \in Turns /\ n \in Nat /\ UNCHANGED <<turn, streams>>
    BY <1>1
  <2>4. q \in Slots /\ Upright(q) /\ Ordered(q)
    BY <1>6
  <2> QED
    BY <1>4, <1>7, <2>1, <2>2, <2>3, <2>4, EmitFacts
<1>9. WorkerType' /\ LiveOK'
  BY <1>1, <1>3, <1>8 DEF WorkerInv, WorkerType, LiveOK, Upright, Lives
<1>10. Closing => Closing'
  BY <1>1, <1>3, <1>4 DEF Closing
<1>11. Owing => Owing'
  BY <1>3 DEF Owing
<1> QED
  BY <1>8, <1>9, <1>10, <1>11 DEF WorkerGoal, WorkerInv

(* A new coalescer.                                                         *)
LEMMA NewLiveType ==
  /\ NewLive \in Lives /\ NewLive.idleSent = TRUE /\ NewLive.text = 0 /\ NewLive.sent = 0
  /\ NewLive.timer = FALSE /\ NewLive.stream = 0
BY LiveConstants DEF NewLive, Lives

(* Ending the open stream.                                                  *)
LEMMA EndingStep ==
  ASSUME WorkerInv, busy, live' = NewLive, Emit(Ending(pub[turn], live)),
         UNCHANGED <<turn, streams, deltas>>, busy' \in BOOLEAN, busy' => busy
  PROVE  WorkerGoal /\ (Owing => Owing')
<1> DEFINE q == Ending(pub[turn], live)
<1>1. /\ turn \in Turns /\ live \in Lives /\ pub \in [Turns -> Slots] /\ pub[turn] \in Slots
      /\ Upright(pub[turn]) /\ live.sent <= live.text /\ live.sent \in Nat /\ live.text \in Nat
      /\ live.text > 0 => live.stream \in Streams
      /\ live.idleSent => live = NewLive /\ live.text = 0
  BY LiveConstants, NewLiveType DEF WorkerInv, WorkerType, LiveOK, Lives, Turns, Streams, Upright
<1>2. Ordered(pub[turn]) /\ \A y \in Held(pub[turn]) :
        IsLive(y) /\ y.stream = live.stream => y.text <= live.text
  <2>1. \A y \in Held(pub[turn]) : y.text \in Nat /\ (IsLive(y) => y.stream \in Streams)
    BY <1>1, SlotTypes, ValueTypes, LiveConstants
  <2>2. 0 \notin Streams
    BY LiveConstants DEF Streams
  <2> QED
    BY <1>1, <2>1, <2>2, NewLiveType DEF WorkerInv, PubOK
<1>3. pub' = [pub EXCEPT ![turn] = q]
  BY DEF Emit
<1>4. LET x == Live(live.stream, live.text)
      IN /\ q \in Slots /\ Upright(q) /\ Ordered(q)
         /\ pub[turn].flight # None => q.flight # None
         /\ \/ live.idleSent /\ q = pub[turn]
            \/ /\ ~live.idleSent /\ q.flight # None /\ Newest(q) = Idle(live.stream)
               /\ Held(q) \subseteq Held(pub[turn]) \cup {Idle(live.stream)} \cup
                                  (IF live.text > 0 THEN {x} ELSE {})
  BY <1>1, <1>2, EndingFacts
<1> HIDE DEF q
<1>5. CASE live.idleSent
  <2>1. pub' = pub /\ live' = live
    BY <1>1, <1>3, <1>4, <1>5
  <2>2. WorkerInv'
    BY <1>1, <1>5, <2>1, NewLiveType DEF WorkerInv, WorkerType, LiveOK, PubOK, Lives
  <2> QED
    BY <2>1, <2>2 DEF WorkerGoal, NoneShorter, AtLeast, Closing, Owing
<1>6. CASE ~live.idleSent
  <2>1. \A x \in Held(q) : \/ x \in Held(pub[turn])
                           \/ x.stream = live.stream /\ (IsLive(x) => x.text = live.text)
    BY <1>4, <1>6 DEF Live, Idle, IsLive
  <2>2. /\ pub' \in [Turns -> Slots] /\ \A t \in Turns : Upright(pub'[t])
        /\ PubOK' /\ NoneShorter
    BY <1>1, <1>3, <1>4, <1>6, <2>1, NewLiveType, EmitFacts
  <2>3. WorkerType' /\ LiveOK'
    BY <1>1, <2>2, NewLiveType DEF WorkerInv, WorkerType, LiveOK, Upright, Lives
  <2>4. /\ pub'[turn] = q /\ \A t \in Turns : t # turn => pub'[t] = pub[t]
    BY <1>1, <1>3
  <2>5. Closing => Closing'
    <3>1. Idle(live.stream).phase = "idle"
      BY DEF Idle
    <3> QED
      BY <1>4, <1>6, <2>4, <3>1 DEF Closing
  <2>6. Owing'
    BY <1>1, <1>4, <1>6, <2>4 DEF Owing
  <2> QED
    BY <2>2, <2>3, <2>5, <2>6 DEF WorkerGoal, WorkerInv
<1> QED
  BY <1>5, <1>6

(* A step that leaves the worker alone.                                     *)
LEMMA WorkerStill ==
  ASSUME WorkerInv, UNCHANGED worker
  PROVE  WorkerGoal /\ (Owing => Owing')
BY DEF worker, WorkerGoal, WorkerInv, WorkerType, LiveOK, PubOK, NoneShorter, AtLeast, Closing, Owing

(* An attempt begins with publishers behind it that hold older streams      *)
(* only.                                                                    *)
LEMMA ActivityBeginsStep ==
  ASSUME WorkerInv, ActivityBegins
  PROVE  WorkerGoal /\ (Owing => Owing')
<1>1. live' = live /\ live.idleSent /\ UNCHANGED <<streams, deltas, pub>> /\ busy' = TRUE
  BY DEF WorkerInv, LiveOK, ActivityBegins
<1>2. turn \in Nat /\ turn' = turn + 1 /\ turn' \in 0 .. MaxTurns /\ \A t \in Turns : t \in Nat
  BY LiveConstants DEF WorkerInv, WorkerType, ActivityBegins, Turns
<1>3. WorkerType' /\ LiveOK'
  BY <1>1, <1>2 DEF WorkerInv, WorkerType, LiveOK
<1>4. PubOK'
  <2>1. \A t \in Turns : t > turn' => t > turn
    BY <1>2
  <2> QED
    BY <1>1, <2>1 DEF WorkerInv, PubOK
<1> QED
  BY <1>1, <1>3, <1>4 DEF WorkerGoal, WorkerInv, NoneShorter, AtLeast, Closing, Owing

(* A new stream is later than everything that is held.                      *)
LEMMA StartTurnStep ==
  ASSUME WorkerInv, startTurn
  PROVE  WorkerGoal /\ (Owing => Owing')
<1>1. /\ streams \in Nat /\ streams' = streams + 1 /\ streams' \in 0 .. MaxStreams
      /\ UNCHANGED <<turn, busy, deltas, pub>> /\ busy
  BY LiveConstants DEF WorkerInv, WorkerType, startTurn
<1>2. /\ live' \in Lives /\ live'.stream = streams + 1 /\ live'.text = 0 /\ live'.sent = 0
      /\ live'.idleSent = FALSE /\ live'.timer = FALSE
  BY <1>1, NewLiveType DEF startTurn, Lives
<1>3. WorkerType' /\ LiveOK'
  BY <1>1, <1>2 DEF WorkerInv, WorkerType, LiveOK, Lives
<1>4. \A t \in Turns : \A x \in Held(pub[t]) : x.stream \in Nat /\ x.stream <= streams
  BY SlotTypes, ValueTypes, LiveConstants DEF WorkerInv, WorkerType, PubOK
<1>5. PubOK'
  BY <1>1, <1>2, <1>4 DEF WorkerInv, PubOK
<1>6. NoneShorter
  BY <1>1, <1>2, LiveConstants DEF NoneShorter, AtLeast, Streams
<1>7. (Closing => Closing') /\ Owing'
  BY <1>1, <1>2 DEF Closing, Owing
<1> QED
  BY <1>3, <1>5, <1>6, <1>7 DEF WorkerGoal, WorkerInv

(* A delta.                                                                 *)
LEMMA DeltaStep ==
  ASSUME WorkerInv, Delta
  PROVE  WorkerGoal /\ (Owing => Owing')
<1> DEFINE n == live.text + 1
           grown == [live EXCEPT !.text = n]
<1>1. /\ live \in Lives /\ live.text \in Nat /\ n \in 0 .. MaxText /\ live.text <= n
      /\ ~live.idleSent /\ deltas' \in 0 .. MaxDeltas /\ UNCHANGED <<turn, busy, streams>>
  BY LiveConstants DEF WorkerInv, WorkerType, Delta, Lives
<1>2. CASE live' = Flushed(grown) /\ Emit(Flush(pub[turn], grown))
  <2> HIDE DEF n
  <2> QED
    BY <1>1, <1>2, FlushStep
<1>3. CASE live' = [grown EXCEPT !.timer = TRUE] /\ UNCHANGED pub
  <2>1. /\ live' \in Lives /\ live'.stream = live.stream /\ live'.text = n /\ live'.sent = live.sent
        /\ live'.idleSent = live.idleSent /\ live'.timer = TRUE
    BY <1>1, <1>3 DEF Lives
  <2>2. live.sent <= n
    BY <1>1 DEF WorkerInv, LiveOK, Lives
  <2> HIDE DEF n
  <2>3. WorkerInv'
    BY <1>1, <1>3, <2>1, <2>2 DEF WorkerInv, WorkerType, LiveOK, PubOK, Lives
  <2> QED
    BY <1>1, <1>3, <2>1, <2>3 DEF WorkerGoal, NoneShorter, AtLeast, Closing, Owing
<1> QED
  BY <1>2, <1>3 DEF Delta

(* The timer of the coalescer.                                              *)
LEMMA TimerFlushStep ==
  ASSUME WorkerInv, TimerFlush
  PROVE  WorkerGoal /\ (Owing => Owing')
<1>1. live \in Lives /\ ~live.idleSent /\ live.text \in 0 .. MaxText /\ live.text <= live.text
  BY NewLiveType, LiveConstants DEF WorkerInv, WorkerType, LiveOK, TimerFlush, Lives
<1>2. live = [live EXCEPT !.text = live.text]
  BY <1>1 DEF Lives
<1>3. deltas' \in 0 .. MaxDeltas /\ UNCHANGED <<turn, busy, streams>>
  BY DEF WorkerInv, WorkerType, TimerFlush
<1>4. /\ live' = Flushed([live EXCEPT !.text = live.text])
      /\ Emit(Flush(pub[turn], [live EXCEPT !.text = live.text]))
  BY <1>2 DEF TimerFlush
<1> QED
  BY <1>1, <1>3, <1>4, FlushStep

(* The final message.                                                       *)
LEMMA FinalMessageStep ==
  ASSUME WorkerInv, finalMessage
  PROVE  WorkerGoal /\ (Owing => Owing')
<1>1. live.text <= MaxText /\ ~live.idleSent /\ MaxText \in 0 .. MaxText
  BY LiveConstants DEF WorkerInv, WorkerType, finalMessage, Lives
<1>2. deltas' \in 0 .. MaxDeltas /\ UNCHANGED <<turn, busy, streams>>
  BY DEF WorkerInv, WorkerType, finalMessage
<1>3. /\ live' = Flushed([live EXCEPT !.text = MaxText])
      /\ Emit(Flush(pub[turn], [live EXCEPT !.text = MaxText]))
  BY DEF finalMessage
<1> QED
  BY <1>1, <1>2, <1>3, FlushStep

(* The end of a model call, and of an attempt.                              *)
LEMMA ClosingStep ==
  ASSUME WorkerInv, finishTurn \/ ActivityEnds
  PROVE  WorkerGoal /\ (Owing => Owing')
<1>1. /\ busy /\ live' = NewLive /\ Emit(Ending(pub[turn], live))
      /\ UNCHANGED <<turn, streams, deltas>> /\ busy' \in BOOLEAN /\ (busy' => busy)
  BY DEF WorkerInv, WorkerType, finishTurn, ActivityEnds
<1> QED
  BY <1>1, EndingStep

(* A crash of the worker: nothing is held any more.                         *)
LEMMA WorkerCrashesStep ==
  ASSUME WorkerInv, WorkerCrashes
  PROVE  WorkerGoal
<1>1. /\ busy' = FALSE /\ live' = NewLive /\ UNCHANGED <<turn, streams, deltas>>
      /\ pub' = [t \in Turns |-> [flight |-> None, pending |-> None]]
  BY DEF WorkerCrashes
<1>2. /\ pub' \in [Turns -> Slots]
      /\ \A t \in Turns : /\ pub'[t].flight = None /\ pub'[t].pending = None
                          /\ Held(pub'[t]) = {} /\ Newest(pub'[t]) = None
  BY <1>1 DEF Slots, Held, Newest
<1>3. WorkerType' /\ LiveOK'
  <2>1. WorkerType'
    BY <1>1, <1>2, NewLiveType DEF WorkerInv, WorkerType, Lives
  <2>2. LiveOK'
    BY <1>1, NewLiveType DEF LiveOK
  <2> QED
    BY <2>1, <2>2
<1>4. PubOK'
  BY <1>1, <1>2, NewLiveType DEF PubOK, Ordered
<1> QED
  BY <1>1, <1>2, <1>3, <1>4, NewLiveType DEF WorkerGoal, WorkerInv, NoneShorter, AtLeast, Closing

(* The end of one write, or of all of them.                                 *)
LEMMA PumpStep ==
  ASSUME WorkerInv, UNCHANGED <<turn, busy, streams, deltas, live>>,
         \/ pub' = [t \in Turns |-> Pumped(pub[t])]
         \/ \E t \in Turns : pub' = [pub EXCEPT ![t] = Pumped(@)]
  PROVE  WorkerGoal
<1>1. \A t \in Turns : pub[t] \in Slots /\ Upright(pub[t]) /\ Pumped(pub[t]) \in Slots
  BY PumpedType DEF WorkerInv, WorkerType, Upright
<1>2. pub' \in [Turns -> Slots] /\ \A t \in Turns : pub'[t] = pub[t] \/ pub'[t] = Pumped(pub[t])
  <2>1. CASE pub' = [t \in Turns |-> Pumped(pub[t])]
    BY <1>1, <2>1
  <2>2. ASSUME NEW t \in Turns, pub' = [pub EXCEPT ![t] = Pumped(@)]
        PROVE  pub' \in [Turns -> Slots] /\ \A u \in Turns : pub'[u] \in {pub[u], Pumped(pub[u])}
    BY <1>1, <2>2 DEF WorkerInv, WorkerType
  <2> QED
    BY <2>1, <2>2
<1>3. Closing => Closing'
  BY <1>1, <1>2, PumpedFacts DEF Closing
<1> QED
  BY <1>2, <1>3, PumpFacts DEF WorkerGoal

(* The steps of a write, and a crash of the database.                       *)
LEMMA PumpsOrStill ==
  ASSUME WorkerInv,
         (\E t \in Turns : Published(t) \/ PublishFails(t) \/ PublishTimesOut(t)) \/ DatabaseCrashes
  PROVE  WorkerGoal
<1>1. CASE \E t \in Turns : Published(t) \/ PublishFails(t) \/ PublishTimesOut(t)
  <2>1. PICK t \in Turns : Published(t) \/ PublishFails(t) \/ PublishTimesOut(t)
    BY <1>1
  <2>2. UNCHANGED <<turn, busy, streams, deltas, live>> /\ pub' = [pub EXCEPT ![t] = Pumped(@)]
    BY <2>1 DEF Published, PublishFails, PublishTimesOut
  <2> QED
    BY <2>2, PumpStep
<1>2. CASE DatabaseCrashes
  <2>1. UNCHANGED <<turn, busy, streams, deltas, live>> /\ pub' = [t \in Turns |-> Pumped(pub[t])]
    BY <1>2 DEF DatabaseCrashes
  <2> QED
    BY <2>1, PumpStep
<1> QED
  BY <1>1, <1>2

(* The steps of the portal and of the browser.                              *)
Elsewhere ==
  \/ LateWrite \/ Notified \/ PointerRead \/ PointerArrives \/ PointerFails \/ RelayLost
  \/ Connect \/ Reconnect \/ BurstRead \/ Burst \/ SendQueued \/ SubscribeFails \/ GraceEnds
  \/ TakeEvent \/ EventAgain \/ Reload \/ SocketLost \/ SocketBack \/ Detach \/ Attach
  \/ UNCHANGED vars

(* They leave the worker alone.                                             *)
LEMMA ElsewhereStill == Elsewhere => UNCHANGED worker
BY DEF Elsewhere, LateWrite, Notified, PointerRead, PointerArrives, PointerFails, RelayLost,
  Connect, Reconnect, BurstRead, Burst, SendQueued, SubscribeFails, GraceEnds, TakeEvent, EventAgain,
  Reload, SocketLost, SocketBack, Detach, Attach, vars

(* The kinds of steps.                                                      *)
LEMMA StepKinds ==
  ASSUME [Next]_vars
  PROVE  \/ ActivityBegins \/ startTurn \/ Delta \/ TimerFlush \/ finalMessage
         \/ finishTurn \/ ActivityEnds \/ WorkerCrashes
         \/ \E t \in Turns : Published(t) \/ PublishFails(t) \/ PublishTimesOut(t)
         \/ DatabaseCrashes \/ Elsewhere
BY DEF Next, WorkerSteps, PortalSteps, BrowserSteps, Disturbances, Elsewhere

(* The invariant of the worker is inductive.                                *)
LEMMA WorkerStep ==
  ASSUME WorkerInv, [Next]_vars
  PROVE  WorkerGoal
BY StepKinds, ActivityBeginsStep, StartTurnStep, DeltaStep, TimerFlushStep, FinalMessageStep,
   ClosingStep, WorkerCrashesStep, PumpsOrStill, ElsewhereStill, WorkerStill

(* The invariant of the worker holds at first.                              *)
LEMMA WorkerInit == Init => WorkerInv /\ Closing
<1> SUFFICES ASSUME Init PROVE WorkerInv /\ Closing
  OBVIOUS
<1>1. /\ turn = 0 /\ busy = FALSE /\ streams = 0 /\ deltas = 0 /\ live = NewLive
      /\ pub = [t \in Turns |-> [flight |-> None, pending |-> None]]
  BY DEF Init
<1>2. /\ pub \in [Turns -> Slots]
      /\ \A t \in Turns : /\ pub[t].flight = None /\ pub[t].pending = None
                          /\ Held(pub[t]) = {} /\ Newest(pub[t]) = None
  BY <1>1 DEF Slots, Held, Newest
<1>3. WorkerType /\ LiveOK
  <2>1. 0 \in 0 .. MaxTurns /\ 0 \in 0 .. MaxStreams /\ 0 \in 0 .. MaxDeltas
    BY LiveConstants
  <2> QED
    <3>1. WorkerType
      BY <1>1, <1>2, <2>1, NewLiveType DEF WorkerType, Lives
    <3>2. LiveOK
      BY <1>1, NewLiveType DEF LiveOK
    <3> QED
      BY <3>1, <3>2
<1> QED
  BY <1>1, <1>2, <1>3, NewLiveType DEF WorkerInv, Closing, PubOK, Ordered

-----------------------------------------------------------------------------
(***************************************************************************)
(* The portal and the browser.                                              *)
(***************************************************************************)

(* What the row has been, as it travels.                                    *)
Rows == {m \in Messages : m.seq > 0}

(* What is sent to the browser: rows, and the news that the plane is        *)
(* unavailable.                                                             *)
Updates == {m \in Messages : m.seq = 0 => m.value = Idle(0)}

(* The relay: notifications come on its connection, nothing is read before  *)
(* it has listened, and a read that is to be repeated is under way.         *)
Relays ==
  {r \in [up : BOOLEAN, listened : BOOLEAN, seen : Nat, unheard : Nat, notes : Seq(Notes),
          read : [at : {"none", "asked", "answered"}, value : Rows \cup {None}, again : BOOLEAN]] :
     /\ r.up => r.listened
     /\ ~r.up => r.notes = <<>>
     /\ ~r.listened => r.read.at = "none"
     /\ r.read.again => r.read.at # "none"}

(* The subscription: only one that begins has updates that wait.            *)
Subs ==
  {b \in [at : {"off", "asked", "answered", "sent", "on"}, seen : Nat,
          queued : Seq(Updates), burst : Rows \cup {None}] :
     /\ b.at = "sent" => b.queued # <<>>
     /\ b.at \in {"off", "on"} => b.queued = <<>>}

(* Without a socket every preview is closed, and a session that is left     *)
(* has none.                                                                *)
Covered ==
  /\ ~online => Shown(viewer) \subseteq viewer.closed
  /\ ~attached => Shown(viewer) = {}

(* The invariant of the database, the portal and the browser.               *)
RestInv ==
  /\ row = None \/ (row \in Rows /\ row.at # NoTime)
  /\ late \subseteq Values /\ log \in Seq(Events)
  /\ relay \in Relays /\ sub \in Subs /\ SubOpen
  /\ BrowserType /\ Covered /\ CountersType

(* The message m is the write q of the value x.                             *)
Carries(m, q, x) == m # None /\ m.seq = q /\ m.value = x

(* The write q of the value x is in the row or on its way to the browser.   *)
Known(q, x) ==
  \/ Carries(row, q, x) \/ Carries(relay.read.value, q, x) \/ Carries(sub.burst, q, x)
  \/ \E i \in 1 .. Len(relay.notes) : Carries(relay.notes[i], q, x)
  \/ \E i \in 1 .. Len(sub.queued) : Carries(sub.queued[i], q, x)

(* A step that writes no row puts nothing new on the way.                   *)
NothingNew == \A q \in Nat \ {0}, x \in Values : Known(q, x)' => Known(q, x)

(* What every step is shown to do to the previews: closed streams stay      *)
(* closed, and a preview stays, goes, or is replaced by a newer message     *)
(* that was on the way.                                                     *)
View ==
  /\ viewer.closed \subseteq viewer'.closed
  /\ viewer'.prev >= viewer.prev \/ Shown(viewer') \subseteq viewer'.closed
  /\ \A s \in Streams :
       \/ viewer'.shown[s] \in {0, viewer.shown[s]}
       \/ \E m \in Updates : /\ Gains(viewer, m, viewer', s) /\ Known(m.seq, m.value)
                             /\ viewer'.prev = m.seq /\ viewer'.cursor = viewer.cursor

(* What every step that writes no row is shown to do.                       *)
RestGoal == RestInv' /\ View /\ NothingNew

(* The invariants give TypeOK.                                              *)
LEMMA TypeFromRest ==
  WorkerInv /\ RestInv => TypeOK
<1> SUFFICES ASSUME WorkerInv, RestInv PROVE TypeOK
  OBVIOUS
<1>1. WorkerType /\ DatabaseType
  BY DEF WorkerInv, RestInv, DatabaseType, Rows
<1>2. RelayType
  BY DEF RestInv, Relays, RelayType, Reads, Rows
<1>3. SubType
  <2>1. Seq(Updates) \subseteq Seq(Messages)
    BY DEF Updates
  <2> QED
    BY <2>1 DEF RestInv, Subs, SubType, Rows
<1>4. SubOpen /\ BrowserType /\ CountersType
  BY DEF RestInv
<1> QED
  BY <1>1, <1>2, <1>3, <1>4, TypeParts

(* The news that the plane is unavailable.                                  *)
LEMMA UnavailableType == Unavailable \in Updates /\ Unavailable.seq = 0
<1>1. Idle(0) \in Values
  BY ValueTypes, LiveConstants
<1> QED
  BY <1>1 DEF Updates, Messages, Unavailable, NoTime

(* A subscription at its beginning and at its end.                          *)
LEMMA NoSubType ==
  ASSUME NEW a \in {"off", "asked", "on"}
  PROVE  LET b == [NoSub EXCEPT !.at = a]
         IN /\ b \in Subs /\ b.at = a /\ b.queued = <<>> /\ b.burst = None /\ b.seen = 0
            /\ \A q, x : ~Carries(b.burst, q, x)
<1> DEFINE b == [NoSub EXCEPT !.at = a]
<1>1. b = [at |-> a, seen |-> 0, queued |-> <<>>, burst |-> None]
  BY DEF NoSub
<1>2. <<>> \in Seq(Updates)
  OBVIOUS
<1> HIDE DEF b
<1>3. b \in Subs
  BY <1>1, <1>2 DEF Subs
<1> QED
  BY <1>1, <1>3 DEF Carries, b

(* No subscription.                                                         *)
LEMMA NoSubSub == NoSub = [NoSub EXCEPT !.at = "off"] /\ NoSub \in Subs
BY DEF NoSub, Subs

(* Forward hands the message to the browser, or lets it wait behind the     *)
(* burst.                                                                   *)
LEMMA ForwardFacts ==
  ASSUME sub \in Subs, viewer \in Viewers, NEW m \in Updates, Forward(m)
  PROVE  /\ sub' \in Subs /\ sub'.at = sub.at /\ sub'.burst = sub.burst /\ sub'.seen = sub.seen
         /\ \/ sub.at = "on" /\ sub' = sub /\ Handled(viewer, m, viewer')
            \/ /\ sub.at \in {"asked", "answered"} /\ viewer' = viewer
               /\ sub'.queued = Append(sub.queued, m)
<1>1. CASE sub.at = "on" /\ viewer' \in handleLiveMessage(viewer, m) /\ UNCHANGED sub
  <2>1. Handled(viewer, m, viewer')
    BY <1>1, HandleFacts DEF Updates
  <2> QED
    BY <1>1, <2>1
<1>2. CASE /\ sub.at \in {"asked", "answered"}
           /\ sub' = [sub EXCEPT !.queued = Append(@, m)] /\ UNCHANGED viewer
  <2>1. Append(sub.queued, m) \in Seq(Updates)
    BY DEF Subs
  <2>2. sub' \in Subs /\ sub'.at = sub.at /\ sub'.burst = sub.burst /\ sub'.seen = sub.seen
        /\ sub'.queued = Append(sub.queued, m)
    BY <1>2, <2>1 DEF Subs
  <2> QED
    BY <1>2, <2>2
<1> QED
  BY <1>1, <1>2 DEF Forward

(* A message that was on the way changes the previews as View says.         *)
LEMMA HandledView ==
  ASSUME viewer \in Viewers, NEW m \in Updates, Handled(viewer, m, viewer'),
         m.seq = 0 \/ Known(m.seq, m.value)
  PROVE  View /\ viewer' \in Viewers /\ viewer'.cursor = viewer.cursor
<1>1. viewer' \in Viewers /\ viewer'.cursor = viewer.cursor /\ viewer.closed \subseteq viewer'.closed
  BY DEF Handled
<1>2. m.seq \in Nat /\ viewer.prev \in Nat /\ viewer'.prev \in Nat
  BY <1>1 DEF Updates, Messages, Viewers
<1>3. viewer'.prev >= viewer.prev \/ Shown(viewer') \subseteq viewer'.closed
  BY <1>2 DEF Handled
<1>4. ASSUME NEW s \in Streams, viewer'.shown[s] \notin {0, viewer.shown[s]}
      PROVE  /\ Gains(viewer, m, viewer', s) /\ Known(m.seq, m.value)
             /\ viewer'.prev = m.seq /\ viewer'.cursor = viewer.cursor
  <2>1. Gains(viewer, m, viewer', s)
    BY <1>4 DEF Handled
  <2>2. m.seq > viewer.prev
    BY <2>1 DEF Gains
  <2> QED
    BY <1>1, <1>2, <2>1, <2>2 DEF Handled
<1> QED
  BY <1>1, <1>3, <1>4 DEF View

(* So does no message.                                                      *)
LEMMA StillView == viewer \in Viewers /\ viewer' = viewer => View
BY DEF View, Viewers

-----------------------------------------------------------------------------
(***************************************************************************)
(* What each step of the portal and of the browser does.                    *)
(***************************************************************************)

(* The connection stays as it is.                                           *)
SameLine ==
  relay'.up = relay.up /\ relay'.listened = relay.listened /\ relay'.unheard = relay.unheard

(* The effects of Forward, ...                                              *)
Forwarded(m) ==
  /\ sub' \in Subs /\ sub'.at = sub.at /\ sub'.burst = sub.burst /\ sub'.seen = sub.seen
  /\ \/ sub.at = "on" /\ sub' = sub /\ Handled(viewer, m, viewer')
     \/ /\ sub.at \in {"asked", "answered"} /\ viewer' = viewer
        /\ sub'.queued = Append(sub.queued, m)

(* ... of Deliver, ...                                                      *)
Delivered(m) ==
  \/ m.seq > relay.seen /\ relay'.seen = m.seq /\ Forwarded(m)
  \/ m.seq <= relay.seen /\ relay'.seen = relay.seen /\ sub' = sub /\ viewer' = viewer

(* ... and of a read of the row.                                            *)
RowFacts == /\ row # None => row \in Rows /\ row \in Updates /\ Known(row.seq, row.value)
            /\ row \in Rows \cup {None}

(* A row is an update.                                                      *)
LEMMA RowsAreUpdates == Rows \subseteq Updates /\ \A m \in Rows : m # None
BY NotNone DEF Rows, Updates, Messages

(* The row that is read is known.                                           *)
LEMMA RowKnown == RestInv => RowFacts
BY RowsAreUpdates DEF RestInv, RowFacts, Known, Carries

(* Deliver forwards what is newer than what it has delivered.               *)
LEMMA DeliverFacts ==
  ASSUME sub \in Subs, viewer \in Viewers, NEW r \in Relays, r.seen = relay.seen,
         NEW m \in Rows, Deliver(r, m)
  PROVE  /\ relay' \in Relays /\ relay'.notes = r.notes /\ relay'.read = r.read
         /\ relay'.up = r.up /\ relay'.listened = r.listened /\ relay'.unheard = r.unheard
         /\ Delivered(m)
<1>1. m \in Updates /\ m.seq \in Nat /\ r.seen \in Nat
  BY RowsAreUpdates DEF Rows, Messages, Relays
<1>2. CASE m.seq > r.seen
  <2>1. relay' = [r EXCEPT !.seen = m.seq] /\ Forward(m)
    BY <1>2 DEF Deliver
  <2>2. /\ relay' \in Relays /\ relay'.notes = r.notes
        /\ relay'.up = r.up /\ relay'.listened = r.listened /\ relay'.unheard = r.unheard
        /\ relay'.read = r.read /\ relay'.seen = m.seq
    BY <1>1, <2>1 DEF Relays
  <2> QED
    BY <1>1, <1>2, <2>1, <2>2, ForwardFacts DEF Delivered, Forwarded
<1>3. CASE ~(m.seq > r.seen)
  <2>1. relay' = r /\ sub' = sub /\ viewer' = viewer
    BY <1>3 DEF Deliver
  <2> QED
    BY <1>1, <1>3, <2>1 DEF Delivered
<1> QED
  BY <1>2, <1>3

(* The types that the effects need.                                         *)
LEMMA RestParts ==
  RestInv => /\ relay \in Relays /\ sub \in Subs /\ viewer \in Viewers
             /\ viewer.cursor \in Nat /\ viewer.prev \in Nat /\ viewer.taken \in Nat
             /\ viewer.shown \in [Streams -> 0 .. MaxText]
BY DEF RestInv, BrowserType, Viewers

(* A notification is passed over, delivered, or has the row read.           *)
LEMMA NotifiedEffects ==
  ASSUME RestInv, Notified
  PROVE  LET note == Head(relay.notes)
             m == [seq |-> note.seq, value |-> note.value, at |-> NoTime]
         IN /\ relay.notes # <<>> /\ note \in Notes /\ m \in Rows /\ Known(m.seq, m.value)
            /\ relay' \in Relays /\ SameLine /\ relay'.notes = Tail(relay.notes)
            /\ \/ /\ sub.at = "off" /\ relay'.seen = relay.seen /\ relay'.read = relay.read
                  /\ sub' = sub /\ viewer' = viewer
               \/ sub.at # "off" /\ relay'.read = relay.read /\ Delivered(m)
               \/ /\ sub.at # "off" /\ relay'.seen = relay.seen /\ sub' = sub /\ viewer' = viewer
                  /\ relay'.read.value = relay.read.value
                  /\ \/ relay'.read.at = "asked"
                     \/ relay'.read.at = relay.read.at /\ relay'.read.again
<1> DEFINE note == Head(relay.notes)
           m == [seq |-> note.seq, value |-> note.value, at |-> NoTime]
           rest == [relay EXCEPT !.notes = Tail(@)]
<1>1. relay \in Relays /\ sub \in Subs /\ viewer \in Viewers
  BY RestParts
<1>2. relay.notes # <<>> /\ relay.notes \in Seq(Notes)
  BY <1>1 DEF Notified, Relays
<1>3. note \in Notes /\ note = relay.notes[1] /\ 1 \in 1 .. Len(relay.notes)
  BY <1>2
<1>4. m \in Rows
  BY <1>3 DEF Rows, Messages, Notes, NoTime
<1>5. Known(m.seq, m.value)
  <2>1. Carries(relay.notes[1], m.seq, m.value)
    BY <1>3, NotNone DEF Carries
  <2> QED
    BY <1>3, <2>1 DEF Known
<1>6. Tail(relay.notes) \in Seq(Notes)
  BY <1>2
<1>7. /\ rest \in Relays /\ rest.seen = relay.seen /\ rest.listened
      /\ rest.up = relay.up /\ rest.listened = relay.listened /\ rest.unheard = relay.unheard
      /\ rest.read = relay.read /\ rest.notes = Tail(relay.notes)
  BY <1>1, <1>2, <1>6 DEF Relays
<1>8. CASE sub.at = "off" /\ relay' = rest /\ UNCHANGED <<sub, viewer>>
  BY <1>2, <1>3, <1>4, <1>5, <1>7, <1>8 DEF SameLine
<1>9. CASE sub.at # "off" /\ Deliver(rest, m)
  <2> HIDE DEF rest, m
  <2>1. /\ relay' \in Relays /\ relay'.notes = rest.notes /\ SameLine
        /\ relay'.read = rest.read /\ Delivered(m)
    BY <1>1, <1>4, <1>7, <1>9, DeliverFacts DEF SameLine
  <2> QED
    BY <1>2, <1>3, <1>4, <1>5, <1>7, <1>9, <2>1 DEF m
<1>10. CASE /\ sub.at # "off" /\ UNCHANGED <<sub, viewer>>
            /\ relay' = IF relay.read.at = "none" THEN [rest EXCEPT !.read.at = "asked"]
                                                 ELSE [rest EXCEPT !.read.again = TRUE]
  <2>1. CASE relay.read.at = "none"
    <3> HIDE DEF rest
    <3>1. relay' = [rest EXCEPT !.read.at = "asked"]
      BY <1>10, <2>1
    <3>2. /\ relay' \in Relays /\ relay'.notes = rest.notes /\ SameLine
          /\ relay'.seen = rest.seen /\ relay'.read.value = rest.read.value
          /\ relay'.read.at = "asked"
      BY <1>7, <3>1 DEF Relays, SameLine
    <3> QED
      BY <1>2, <1>3, <1>4, <1>5, <1>7, <1>10, <3>2
  <2>2. CASE relay.read.at # "none"
    <3> HIDE DEF rest
    <3>1. relay' = [rest EXCEPT !.read.again = TRUE]
      BY <1>10, <2>2
    <3>2. /\ relay' \in Relays /\ relay'.notes = rest.notes /\ SameLine
          /\ relay'.seen = rest.seen /\ relay'.read.value = rest.read.value
          /\ relay'.read.at = rest.read.at /\ relay'.read.again
      BY <1>7, <2>2, <3>1 DEF Relays, SameLine
    <3> QED
      BY <1>2, <1>3, <1>4, <1>5, <1>7, <1>10, <3>2
  <2> QED
    BY <2>1, <2>2
<1> QED
  BY <1>8, <1>9, <1>10 DEF Notified

(* The read of the relay is answered with the row.                          *)
LEMMA PointerReadEffects ==
  ASSUME RestInv, PointerRead
  PROVE  /\ relay.read.at = "asked" /\ relay' \in Relays /\ SameLine
         /\ relay'.notes = relay.notes /\ relay'.seen = relay.seen
         /\ relay'.read.at = "answered" /\ relay'.read.value = row
         /\ relay'.read.again = relay.read.again /\ sub' = sub /\ viewer' = viewer
<1>1. relay \in Relays /\ row \in Rows \cup {None}
  BY RestParts, RowKnown DEF RowFacts
<1>2. /\ relay' = [relay EXCEPT !.read.at = "answered", !.read.value = row]
      /\ relay.read.at = "asked" /\ sub' = sub /\ viewer' = viewer
  BY DEF PointerRead, browser
<1> QED
  BY <1>1, <1>2 DEF Relays, SameLine

(* The read that follows.                                                   *)
LEMMA NextReadType ==
  ASSUME NEW r \in Relays, r.read.at = "answered"
  PROVE  LET n == [r EXCEPT !.read = NextRead(@)]
         IN /\ n \in Relays /\ n.notes = r.notes /\ n.seen = r.seen
            /\ n.up = r.up /\ n.listened = r.listened /\ n.unheard = r.unheard
            /\ n.read.value = None /\ n.read.again = FALSE
            /\ n.read.at = IF r.read.again THEN "asked" ELSE "none"
<1>1. CASE r.read.again
  BY <1>1 DEF NextRead, NoRead, Relays
<1>2. CASE ~r.read.again
  BY <1>2 DEF NextRead, NoRead, Relays
<1> QED
  BY <1>1, <1>2

(* The answer is delivered, and another read begins if a pointer came       *)
(* meanwhile.                                                               *)
LEMMA PointerArrivesEffects ==
  ASSUME RestInv, PointerArrives
  PROVE  /\ relay.read.at = "answered" /\ relay' \in Relays /\ SameLine /\ relay.listened
         /\ relay'.notes = relay.notes /\ relay'.read.value = None
         /\ relay'.read.at = IF relay.read.again THEN "asked" ELSE "none"
         /\ \/ /\ relay.read.value = None /\ relay'.seen = relay.seen
               /\ sub' = sub /\ viewer' = viewer
            \/ /\ relay.read.value \in Rows /\ Delivered(relay.read.value)
               /\ Known(relay.read.value.seq, relay.read.value.value)
<1> DEFINE rest == [relay EXCEPT !.read = NextRead(@)]
<1>1. /\ relay \in Relays /\ sub \in Subs /\ viewer \in Viewers /\ relay.read.at = "answered"
      /\ relay.listened
  BY RestParts DEF PointerArrives, Relays
<1>2. /\ rest \in Relays /\ rest.notes = relay.notes
      /\ rest.up = relay.up /\ rest.listened = relay.listened /\ rest.unheard = relay.unheard
      /\ rest.seen = relay.seen /\ rest.read.value = None /\ rest.read.again = FALSE
      /\ rest.read.at = IF relay.read.again THEN "asked" ELSE "none"
  BY <1>1, NextReadType
<1>3. IF relay.read.value = None THEN relay' = rest /\ UNCHANGED <<sub, viewer>>
      ELSE Deliver(rest, relay.read.value)
  BY DEF PointerArrives
<1> HIDE DEF rest
<1>4. CASE relay.read.value = None
  BY <1>1, <1>2, <1>3, <1>4 DEF SameLine
<1>5. CASE relay.read.value # None
  <2>1. relay.read.value \in Rows
    BY <1>1, <1>5 DEF Relays
  <2>2. Known(relay.read.value.seq, relay.read.value.value)
    BY <1>5 DEF Known, Carries
  <2>3. /\ relay' \in Relays /\ SameLine /\ relay'.notes = rest.notes
        /\ relay'.read = rest.read /\ Delivered(relay.read.value)
    BY <1>1, <1>2, <1>3, <1>5, <2>1, DeliverFacts DEF SameLine
  <2> QED
    BY <1>1, <1>2, <2>1, <2>2, <2>3
<1> QED
  BY <1>4, <1>5

(* No read, and a new one.                                                  *)
LEMMA NoReadType ==
  /\ NoRead.at = "none" /\ NoRead.value = None /\ NoRead.again = FALSE
  /\ NoRead \in [at : {"none", "asked", "answered"}, value : Rows \cup {None}, again : BOOLEAN]
  /\ LET d == [NoRead EXCEPT !.at = "asked"]
     IN /\ d \in [at : {"none", "asked", "answered"}, value : Rows \cup {None}, again : BOOLEAN]
        /\ d.at = "asked" /\ d.value = None /\ d.again = FALSE
BY DEF NoRead

(* The read fails.                                                          *)
LEMMA PointerFailsEffects ==
  ASSUME RestInv, PointerFails
  PROVE  /\ relay' \in Relays /\ SameLine /\ relay'.notes = relay.notes
         /\ relay'.read.value = None /\ relay'.read.at = "none" /\ relay'.seen = relay.seen
         /\ sub' = sub /\ viewer' = viewer
<1>1. relay' = [relay EXCEPT !.read = NoRead] /\ sub' = sub /\ viewer' = viewer
  BY DEF PointerFails, browser
<1> QED
  BY <1>1, RestParts, NoReadType DEF Relays, SameLine

(* The connection of the relay is lost, and with it the notifications.      *)
LEMMA RelayLostEffects ==
  ASSUME RestInv, RelayLost \/ DatabaseCrashes
  PROVE  /\ relay' \in Relays /\ relay'.up = FALSE /\ relay'.notes = <<>>
         /\ relay'.listened = relay.listened /\ relay'.unheard = relay.unheard
         /\ relay'.read = relay.read /\ relay'.seen = relay.seen
         /\ sub' = sub /\ viewer' = viewer
<1>1. relay' = [relay EXCEPT !.up = FALSE, !.notes = <<>>] /\ sub' = sub /\ viewer' = viewer
  BY DEF RelayLost, DatabaseCrashes, browser
<1>2. <<>> \in Seq(Notes)
  OBVIOUS
<1> QED
  BY <1>1, <1>2, RestParts DEF Relays

(* A relay that has started, and one that listens.                          *)
LEMMA NewRelayType ==
  /\ NewRelay = [up |-> FALSE, listened |-> FALSE, seen |-> 0, unheard |-> 0, notes |-> <<>>,
                 read |-> NoRead]
  /\ Listening = [up |-> TRUE, listened |-> TRUE, seen |-> 0, unheard |-> 0, notes |-> <<>>,
                  read |-> NoRead]
  /\ \A r \in {NewRelay, Listening} :
       /\ r \in Relays /\ r.seen = 0 /\ r.unheard = 0 /\ r.notes = <<>> /\ r.read = NoRead
<1>1. NewRelay = [up |-> FALSE, listened |-> FALSE, seen |-> 0, unheard |-> 0, notes |-> <<>>,
                  read |-> NoRead]
  BY DEF NewRelay, Relay
<1>2. Listening = [up |-> TRUE, listened |-> TRUE, seen |-> 0, unheard |-> 0, notes |-> <<>>,
                   read |-> NoRead]
  BY DEF Listening, Relay
<1>3. ASSUME NEW r \in {NewRelay, Listening}
      PROVE  r \in Relays /\ r.seen = 0 /\ r.unheard = 0 /\ r.notes = <<>> /\ r.read = NoRead
  <2>1. <<>> \in Seq(Notes)
    OBVIOUS
  <2>2. PICK b \in BOOLEAN : r = [up |-> b, listened |-> b, seen |-> 0, unheard |-> 0,
                                  notes |-> <<>>, read |-> NoRead]
    BY <1>1, <1>2
  <2> QED
    BY <2>1, <2>2, NoReadType DEF Relays
<1> QED
  BY <1>1, <1>2, <1>3

(* The relay listens for the first time: it tells nobody and reads nothing, *)
(* and what was not heard of stays so.                                      *)
LEMMA ConnectEffects ==
  ASSUME RestInv, Connect
  PROVE  /\ relay' \in Relays /\ relay'.up = TRUE /\ relay'.notes = <<>> /\ relay'.seen = 0
         /\ relay'.unheard = relay.unheard /\ relay'.read.value = None /\ relay'.read.at = "none"
         /\ ~relay.up /\ ~relay.listened /\ relay.notes = <<>> /\ relay.read.at = "none"
         /\ ~relay.read.again /\ sub' = sub /\ viewer' = viewer
<1>1. relay \in Relays
  BY RestParts
<1>2. /\ ~relay.up /\ ~relay.listened /\ relay' = [Listening EXCEPT !.unheard = relay.unheard]
      /\ sub' = sub /\ viewer' = viewer
  BY DEF Connect, browser
<1>3. relay' = [up |-> TRUE, listened |-> TRUE, seen |-> 0, unheard |-> relay.unheard,
                notes |-> <<>>, read |-> NoRead]
  BY <1>2, NewRelayType
<1>4. <<>> \in Seq(Notes) /\ relay.unheard \in Nat
  BY <1>1 DEF Relays
<1>5. relay' \in Relays
  BY <1>3, <1>4, NoReadType DEF Relays
<1> QED
  BY <1>1, <1>2, <1>3, <1>5, NoReadType DEF Relays

(* The relay is back: it tells the subscriber that the plane was            *)
(* unavailable, and reads the row.                                          *)
LEMMA ReconnectEffects ==
  ASSUME RestInv, Reconnect
  PROVE  /\ relay' \in Relays /\ relay'.up = TRUE /\ relay'.notes = <<>> /\ relay'.seen = 0
         /\ relay'.unheard = 0 /\ relay'.read.value = None
         /\ \/ sub.at = "off" /\ relay'.read.at = "none" /\ sub' = sub /\ viewer' = viewer
            \/ sub.at # "off" /\ relay'.read.at = "asked" /\ Forwarded(Unavailable)
<1>1. relay \in Relays /\ sub \in Subs /\ viewer \in Viewers /\ <<>> \in Seq(Notes)
  BY RestParts
<1>2. CASE sub.at = "off"
  <2>1. relay' = Listening /\ sub' = sub /\ viewer' = viewer
    BY <1>2 DEF Reconnect
  <2> QED
    BY <1>2, <2>1, NewRelayType, NoReadType
<1>3. CASE sub.at # "off"
  <2> DEFINE d == [NoRead EXCEPT !.at = "asked"]
  <2>1. relay' = [Listening EXCEPT !.read.at = "asked"] /\ Forward(Unavailable)
    BY <1>3 DEF Reconnect
  <2>2. /\ relay' = [up |-> TRUE, listened |-> TRUE, seen |-> 0, unheard |-> 0, notes |-> <<>>,
                     read |-> d]
        /\ Forward(Unavailable)
    BY <2>1, NewRelayType
  <2>3. /\ d \in [at : {"none", "asked", "answered"}, value : Rows \cup {None}, again : BOOLEAN]
        /\ d.at = "asked" /\ d.value = None /\ d.again = FALSE
    BY NoReadType
  <2> HIDE DEF d
  <2>4. /\ relay' \in Relays /\ relay'.up = TRUE /\ relay'.notes = <<>> /\ relay'.seen = 0
        /\ relay'.unheard = 0 /\ relay'.read.value = None /\ relay'.read.at = "asked"
    BY <1>1, <2>2, <2>3 DEF Relays
  <2>5. Forwarded(Unavailable)
    BY <1>1, <2>1, UnavailableType, ForwardFacts DEF Forwarded
  <2> QED
    BY <1>3, <2>4, <2>5
<1> QED
  BY <1>2, <1>3

(* The read of a subscription is answered with the row.                     *)
LEMMA BurstReadEffects ==
  ASSUME RestInv, BurstRead
  PROVE  /\ sub.at = "asked" /\ sub' \in Subs /\ sub'.at = "answered" /\ sub'.burst = row
         /\ sub'.queued = sub.queued /\ relay' = relay /\ viewer' = viewer
<1>1. /\ sub.at = "asked" /\ sub' = [sub EXCEPT !.at = "answered", !.burst = row]
      /\ relay' = relay /\ viewer' = viewer
  BY DEF BurstRead, browser
<1>2. row \in Rows \cup {None} /\ sub \in Subs
  BY RestParts, RowKnown DEF RowFacts
<1> QED
  BY <1>1, <1>2 DEF Subs

(* The row is sent to the browser.                                          *)
LEMMA BurstEffects ==
  ASSUME RestInv, Burst
  PROVE  /\ sub.at = "answered" /\ sub' \in Subs /\ relay' = relay /\ sub'.burst = None
         /\ \/ sub.burst = None /\ viewer' = viewer
            \/ /\ sub.burst \in Rows /\ Known(sub.burst.seq, sub.burst.value)
               /\ Handled(viewer, sub.burst, viewer')
         /\ sub'.queued = sub.queued
         /\ \/ sub'.at = "on" /\ sub.queued = <<>>
            \/ /\ sub'.at = "sent"
               /\ sub'.seen = IF sub.burst = None THEN 0 ELSE sub.burst.seq
<1>1. relay \in Relays /\ sub \in Subs /\ viewer \in Viewers /\ sub.at = "answered" /\ relay' = relay
  BY RestParts DEF Burst
<1>2. \/ sub.burst = None /\ viewer' = viewer
      \/ /\ sub.burst \in Rows /\ Known(sub.burst.seq, sub.burst.value)
         /\ Handled(viewer, sub.burst, viewer')
  <2>1. CASE sub.burst = None
    BY <2>1 DEF Burst
  <2>2. CASE sub.burst # None
    <3>1. sub.burst \in Rows /\ sub.burst \in Messages /\ sub.burst.seq # 0
      BY <1>1, <2>2 DEF Subs, Rows
    <3>2. viewer' \in handleLiveMessage(viewer, sub.burst)
      BY <2>2 DEF Burst
    <3>3. Known(sub.burst.seq, sub.burst.value)
      BY <2>2 DEF Known, Carries
    <3> QED
      BY <1>1, <3>1, <3>2, <3>3, HandleFacts
  <2> QED
    BY <2>1, <2>2
<1>3. CASE sub.queued = <<>>
  <2>1. sub' = [NoSub EXCEPT !.at = "on"]
    BY <1>3 DEF Burst
  <2> QED
    BY <1>1, <1>2, <1>3, <2>1, NoSubType
<1>4. CASE sub.queued # <<>>
  <2> DEFINE n == IF sub.burst = None THEN 0 ELSE sub.burst.seq
  <2>1. sub' = [sub EXCEPT !.at = "sent", !.burst = None, !.seen = n]
    BY <1>4 DEF Burst
  <2>2. n \in Nat
    BY <1>1 DEF Subs, Rows, Messages
  <2> HIDE DEF n
  <2>3. /\ sub' \in Subs /\ sub'.at = "sent" /\ sub'.burst = None /\ sub'.seen = n
        /\ sub'.queued = sub.queued
    BY <1>1, <1>4, <2>1, <2>2 DEF Subs
  <2> QED
    BY <1>1, <1>2, <2>3 DEF n
<1> QED
  BY <1>3, <1>4

(* An update that waited is sent, if it is newer than what was sent         *)
(* before.                                                                  *)
LEMMA SendQueuedEffects ==
  ASSUME RestInv, SendQueued
  PROVE  LET u == Head(sub.queued)
         IN /\ sub.at = "sent" /\ sub.queued # <<>> /\ u \in Updates
            /\ u.seq = 0 \/ Known(u.seq, u.value)
            /\ sub' \in Subs /\ relay' = relay /\ sub'.burst \in {None, sub.burst}
            /\ sub'.queued = Tail(sub.queued)
            /\ sub'.at = IF Tail(sub.queued) = <<>> THEN "on" ELSE "sent"
            /\ \/ /\ u.seq = 0 /\ Handled(viewer, u, viewer')
                  /\ sub'.at = "sent" => sub'.seen = sub.seen
               \/ /\ u.seq > sub.seen /\ Handled(viewer, u, viewer')
                  /\ sub'.at = "sent" => sub'.seen = u.seq
               \/ /\ u.seq <= sub.seen /\ u.seq # 0 /\ viewer' = viewer
                  /\ sub'.at = "sent" => sub'.seen = sub.seen
<1> DEFINE u == Head(sub.queued)
           sent == u.seq = 0 \/ u.seq > sub.seen
           n == IF sent /\ u.seq # 0 THEN u.seq ELSE sub.seen
<1>1. relay \in Relays /\ sub \in Subs /\ viewer \in Viewers /\ sub.at = "sent" /\ relay' = relay
  BY RestParts DEF SendQueued
<1>2. sub.queued # <<>> /\ sub.queued \in Seq(Updates) /\ sub.seen \in Nat
  BY <1>1 DEF Subs
<1>3. /\ u \in Updates /\ u = sub.queued[1] /\ 1 \in 1 .. Len(sub.queued)
      /\ Tail(sub.queued) \in Seq(Updates)
  BY <1>2
<1>4. u.seq \in Nat /\ u \in Messages /\ (u.seq = 0 => u.value = Idle(0))
  BY <1>3 DEF Updates, Messages
<1>5. Known(u.seq, u.value)
  <2>1. Carries(sub.queued[1], u.seq, u.value)
    BY <1>3, <1>4, NotNone DEF Carries
  <2> QED
    BY <1>3, <2>1 DEF Known
<1>6. IF sent THEN viewer' \in handleLiveMessage(viewer, u) ELSE viewer' = viewer
  BY DEF SendQueued
<1>7. sub' = IF Tail(sub.queued) = <<>> THEN [NoSub EXCEPT !.at = "on"]
             ELSE [sub EXCEPT !.queued = Tail(@), !.seen = n]
  BY DEF SendQueued
<1>8. \/ u.seq = 0 /\ Handled(viewer, u, viewer') /\ n = sub.seen
      \/ u.seq > sub.seen /\ Handled(viewer, u, viewer') /\ n = u.seq
      \/ u.seq <= sub.seen /\ u.seq # 0 /\ viewer' = viewer /\ n = sub.seen
  <2>1. sent => Handled(viewer, u, viewer')
    BY <1>1, <1>4, <1>6, HandleFacts
  <2> HIDE DEF u
  <2> QED
    BY <1>2, <1>4, <1>6, <2>1
<1>9. CASE Tail(sub.queued) = <<>>
  <2>1. sub' = [NoSub EXCEPT !.at = "on"]
    BY <1>7, <1>9
  <2>2. sub' \in Subs /\ sub'.at = "on" /\ sub'.queued = <<>> /\ sub'.burst = None
    BY <2>1, NoSubType
  <2> HIDE DEF n, sent
  <2> QED
    BY <1>1, <1>2, <1>3, <1>5, <1>8, <1>9, <2>2
<1>10. CASE Tail(sub.queued) # <<>>
  <2>1. sub' = [sub EXCEPT !.queued = Tail(@), !.seen = n]
    BY <1>7, <1>10
  <2>2. n \in Nat
    BY <1>2, <1>4
  <2> HIDE DEF n, sent
  <2>3. /\ sub' \in Subs /\ sub'.at = "sent" /\ sub'.queued = Tail(sub.queued)
        /\ sub'.burst = sub.burst /\ sub'.seen = n
    BY <1>1, <1>3, <1>10, <2>1, <2>2 DEF Subs
  <2> QED
    BY <1>1, <1>2, <1>3, <1>5, <1>8, <1>10, <2>3
<1> QED
  BY <1>9, <1>10

(* The relay without its subscriber.                                        *)
LEMMA UnsubscribedFacts ==
  ASSUME NEW r \in Relays
  PROVE  LET n == Unsubscribed(r)
         IN /\ n \in Relays /\ n.up = r.up /\ n.listened = r.listened /\ n.notes = r.notes
            /\ n.seen = 0 /\ n.unheard = 0 /\ n.read.value = None /\ n.read.at = "none"
BY NoReadType DEF Unsubscribed, Relays

(* The subscription fails.                                                  *)
LEMMA SubscribeFailsEffects ==
  ASSUME RestInv, SubscribeFails
  PROVE  /\ sub.at \in {"asked", "answered"} /\ sub' = NoSub /\ relay' = Unsubscribed(relay)
         /\ Handled(viewer, Unavailable, viewer')
<1>1. /\ sub.at \in {"asked", "answered"} /\ sub' = NoSub /\ relay' = Unsubscribed(relay)
      /\ viewer' \in handleLiveMessage(viewer, Unavailable)
  BY DEF SubscribeFails
<1>2. Unavailable \in Messages /\ Unavailable.value = Idle(0) /\ viewer \in Viewers
  BY UnavailableType, RestParts DEF Updates
<1> QED
  BY <1>1, <1>2, HandleFacts

(* The previews without some of them.                                       *)
LEMMA WithoutFacts ==
  ASSUME NEW v \in Viewers, NEW ss
  PROVE  /\ Without(v, ss) \in [Streams -> 0 .. MaxText]
         /\ \A s \in Streams : /\ s \in ss => Without(v, ss)[s] = 0
                               /\ s \notin ss => Without(v, ss)[s] = v.shown[s]
<1>1. 0 \in 0 .. MaxText /\ v.shown \in [Streams -> 0 .. MaxText]
  BY LiveConstants DEF Viewers
<1> QED
  BY <1>1 DEF Without

(* Previews that are cleared are closed.                                    *)
LEMMA ClearFacts ==
  ASSUME NEW v \in Viewers, NEW ss \in SUBSET Streams
  PROVE  LET w == Clear(v, ss)
         IN /\ w \in Viewers /\ w.prev = v.prev /\ w.taken = v.taken /\ w.cursor = v.cursor
            /\ v.closed \subseteq w.closed
            /\ \A s \in Streams : /\ s \in ss => w.shown[s] = 0
                                  /\ s \notin ss => w.shown[s] = v.shown[s]
<1> DEFINE w == Clear(v, ss)
<1>1. /\ w.shown = Without(v, ss) /\ w.closed = v.closed \cup ss /\ w.ended = v.ended \ ss
      /\ w.prev = v.prev /\ w.taken = v.taken /\ w.cursor = v.cursor
  BY DEF Clear, Viewers
<1>2. w \in [prev : Nat, taken : Nat, shown : [Streams -> 0 .. MaxText],
            closed : SUBSET Streams, ended : SUBSET Streams, cursor : Nat]
  BY WithoutFacts DEF Clear, Viewers
<1>3. \A s \in w.ended : w.shown[s] > 0 /\ s \in w.closed
  BY <1>1, WithoutFacts DEF Viewers
<1> HIDE DEF w
<1>4. w \in Viewers
  BY <1>2, <1>3 DEF Viewers
<1> QED
  BY <1>1, <1>4, WithoutFacts DEF w

(* A step that takes previews away and may take events: no message among    *)
(* these is shown as a preview afterwards.                                  *)
ViewOnly ==
  /\ viewer' \in Viewers /\ viewer.closed \subseteq viewer'.closed
  /\ viewer'.prev = viewer.prev /\ viewer'.taken = viewer.taken
  /\ viewer.cursor <= viewer'.cursor /\ viewer'.cursor <= Len(log)
  /\ \A s \in Streams : viewer'.shown[s] \in {0, viewer.shown[s]}
  /\ \A s \in Streams : HasMessage(viewer'.shown[s]) =>
       \A i \in (viewer.cursor + 1) .. viewer'.cursor :
         ~(log[i].kind = "message" /\ log[i].stream = s)

(* No text has no message.                                                  *)
LEMMA NoMessage == ~HasMessage(0)
BY DEF HasMessage

(* The timer of an idle tick takes previews away.                           *)
LEMMA GraceEndsEffects ==
  ASSUME RestInv, GraceEnds
  PROVE  ViewOnly
<1>1. viewer \in Viewers /\ viewer.cursor \in Nat /\ viewer.cursor <= Len(log)
  BY RestParts DEF RestInv, BrowserType
<1>2. viewer' = [viewer EXCEPT !.shown = Without(viewer, viewer.ended), !.ended = {}]
  BY DEF GraceEnds
<1>3. /\ viewer'.shown = Without(viewer, viewer.ended) /\ viewer'.closed = viewer.closed
      /\ viewer'.prev = viewer.prev /\ viewer'.taken = viewer.taken
      /\ viewer'.cursor = viewer.cursor /\ viewer'.ended = {}
  BY <1>1, <1>2 DEF Viewers
<1>4. viewer' \in Viewers
  BY <1>1, <1>2, <1>3, WithoutFacts DEF Viewers
<1>5. \A s \in Streams : viewer'.shown[s] \in {0, viewer.shown[s]}
  BY <1>1, <1>3, WithoutFacts
<1>6. \A i \in (viewer.cursor + 1) .. viewer'.cursor : FALSE
  BY <1>1, <1>3
<1> QED
  BY <1>1, <1>3, <1>4, <1>5, <1>6 DEF ViewOnly

(* An event that comes again changes no preview.                            *)
LEMMA EventAgainEffects ==
  ASSUME RestInv, EventAgain
  PROVE  ViewOnly
<1>1. viewer \in Viewers /\ viewer.cursor \in Nat /\ viewer.cursor <= Len(log)
  BY RestParts DEF RestInv, BrowserType
<1>2. viewer' = [viewer EXCEPT !.ended = {}]
  BY DEF EventAgain
<1>3. /\ viewer'.shown = viewer.shown /\ viewer'.closed = viewer.closed
      /\ viewer'.prev = viewer.prev /\ viewer'.taken = viewer.taken
      /\ viewer'.cursor = viewer.cursor /\ viewer'.ended = {}
  BY <1>1, <1>2 DEF Viewers
<1>4. viewer' \in Viewers
  BY <1>1, <1>2, <1>3 DEF Viewers
<1>5. \A i \in (viewer.cursor + 1) .. viewer'.cursor : FALSE
  BY <1>1, <1>3
<1> QED
  BY <1>1, <1>3, <1>4, <1>5 DEF ViewOnly

(* The next event clears the preview of its message.                        *)
LEMMA TakeEventEffects ==
  ASSUME RestInv, TakeEvent
  PROVE  ViewOnly
<1> DEFINE c == viewer.cursor + 1
           event == log[c]
           next == [viewer EXCEPT !.cursor = c]
<1>1. /\ viewer \in Viewers /\ viewer.cursor \in Nat /\ viewer.cursor < Len(log)
      /\ log \in Seq(Events)
  BY RestParts DEF RestInv, TakeEvent
<1>2. c \in 1 .. Len(log) /\ c \in Nat /\ event \in Events
  BY <1>1
<1>3. /\ next \in Viewers /\ next.cursor = c /\ next.shown = viewer.shown
      /\ next.closed = viewer.closed /\ next.prev = viewer.prev /\ next.taken = viewer.taken
  BY <1>1, <1>2 DEF Viewers
<1>4. viewer' = IF event.kind = "terminal" THEN Clear(next, Shown(next))
                ELSE Clear(next, {s \in {event.stream} : HasMessage(next.shown[s])})
  BY DEF TakeEvent
<1>5. \A i \in (viewer.cursor + 1) .. c : i = c
  BY <1>1
<1> HIDE DEF next, c
<1>6. CASE event.kind = "terminal"
  <2>1. Shown(next) \in SUBSET Streams
    BY DEF Shown
  <2>2. viewer' = Clear(next, Shown(next))
    BY <1>4, <1>6
  <2>3. /\ viewer' \in Viewers /\ viewer'.prev = next.prev /\ viewer'.taken = next.taken
        /\ viewer'.cursor = next.cursor /\ next.closed \subseteq viewer'.closed
        /\ \A s \in Streams : viewer'.shown[s] \in {0, next.shown[s]}
    BY <1>3, <2>1, <2>2, ClearFacts
  <2>4. viewer.cursor <= viewer'.cursor /\ viewer'.cursor <= Len(log)
    BY <1>1, <1>2, <1>3, <2>3 DEF c
  <2> QED
    BY <1>3, <1>5, <1>6, <2>3, <2>4 DEF ViewOnly
<1>7. CASE event.kind # "terminal"
  <2> DEFINE ss == {s \in {event.stream} : HasMessage(next.shown[s])}
  <2>1. event.stream \in Streams
    BY <1>2, <1>7 DEF Events
  <2>2. ss \in SUBSET Streams
    BY <2>1
  <2>3. viewer' = Clear(next, ss)
    BY <1>4, <1>7
  <2> HIDE DEF ss
  <2>4. /\ viewer' \in Viewers /\ viewer'.prev = next.prev /\ viewer'.taken = next.taken
        /\ viewer'.cursor = next.cursor /\ next.closed \subseteq viewer'.closed
        /\ \A s \in Streams : /\ s \in ss => viewer'.shown[s] = 0
                              /\ s \notin ss => viewer'.shown[s] = next.shown[s]
    BY <1>3, <2>2, <2>3, ClearFacts
  <2>5. viewer.cursor <= viewer'.cursor /\ viewer'.cursor <= Len(log)
    BY <1>1, <1>2, <1>3, <2>4 DEF c
  <2>6. \A s \in Streams : HasMessage(viewer'.shown[s]) => event.stream # s
    BY <2>1, <2>4, NoMessage DEF ss
  <2> QED
    BY <1>3, <1>5, <2>4, <2>5, <2>6 DEF ViewOnly
<1> QED
  BY <1>6, <1>7

(* A reload clears the previews of the messages it finds.                   *)
LEMMA ReloadEffects ==
  ASSUME RestInv, Reload
  PROVE  ViewOnly
<1> DEFINE ends == EndedBetween(log, viewer.cursor, Len(log))
           gone == {s \in Shown(viewer) : ends \/ (HasMessage(viewer.shown[s])
                                                    /\ Recorded(log, Len(log), s))}
<1>1. /\ viewer \in Viewers /\ viewer.cursor \in Nat /\ viewer.cursor < Len(log)
      /\ log \in Seq(Events) /\ Len(log) \in Nat
  BY RestParts DEF RestInv, Reload
<1>2. viewer' = [viewer EXCEPT !.cursor = Len(log), !.shown = Without(viewer, gone),
                               !.ended = @ \ gone]
  BY DEF Reload
<1> HIDE DEF ends
<1>3. \A s \in Streams : s \notin gone /\ HasMessage(viewer.shown[s]) => ~Recorded(log, Len(log), s)
  <2>1. \A s \in Streams : HasMessage(viewer.shown[s]) => s \in Shown(viewer)
    BY <1>1 DEF Shown, HasMessage, Viewers
  <2> QED
    BY <2>1
<1> HIDE DEF gone
<1>4. /\ viewer'.shown = Without(viewer, gone) /\ viewer'.closed = viewer.closed
      /\ viewer'.prev = viewer.prev /\ viewer'.taken = viewer.taken
      /\ viewer'.cursor = Len(log) /\ viewer'.ended = viewer.ended \ gone
  BY <1>1, <1>2 DEF Viewers
<1>5. viewer' \in [prev : Nat, taken : Nat, shown : [Streams -> 0 .. MaxText],
                  closed : SUBSET Streams, ended : SUBSET Streams, cursor : Nat]
  BY <1>1, <1>2, WithoutFacts DEF Viewers
<1>6. viewer' \in Viewers
  <2>1. \A s \in viewer'.ended : viewer'.shown[s] > 0 /\ s \in viewer'.closed
    BY <1>1, <1>4, WithoutFacts DEF Viewers
  <2> QED
    BY <1>5, <2>1 DEF Viewers
<1>7. \A s \in Streams : viewer'.shown[s] \in {0, viewer.shown[s]}
  BY <1>1, <1>4, WithoutFacts
<1>8. ASSUME NEW s \in Streams, HasMessage(viewer'.shown[s]),
             NEW i \in (viewer.cursor + 1) .. viewer'.cursor
      PROVE  ~(log[i].kind = "message" /\ log[i].stream = s)
  <2>1. s \notin gone /\ HasMessage(viewer.shown[s])
    BY <1>1, <1>4, <1>8, WithoutFacts, NoMessage
  <2>2. ~Recorded(log, Len(log), s)
    BY <1>3, <2>1
  <2>3. i \in 1 .. Len(log)
    BY <1>1, <1>4
  <2> QED
    BY <2>2, <2>3 DEF Recorded
<1> QED
  BY <1>1, <1>4, <1>6, <1>7, <1>8 DEF ViewOnly

(* The socket closes: every preview is closed.                              *)
LEMMA SocketLostEffects ==
  ASSUME RestInv, SocketLost
  PROVE  /\ online' = FALSE /\ attached' = attached /\ sub' = NoSub
         /\ relay' \in {Unsubscribed(relay), NewRelay}
         /\ viewer' \in Viewers /\ viewer'.cursor = viewer.cursor /\ viewer'.prev = viewer.prev
         /\ viewer'.taken = viewer.taken /\ viewer.closed \subseteq viewer'.closed
         /\ Kept(viewer, viewer') /\ Shown(viewer') \subseteq viewer'.closed
<1>1. /\ online' = FALSE /\ attached' = attached /\ sub' = NoSub
      /\ relay' \in {Unsubscribed(relay), NewRelay}
      /\ viewer' \in (IF attached THEN OnIdle(viewer, 0) ELSE {viewer})
      /\ viewer \in Viewers /\ attached \in BOOLEAN
  BY RestParts DEF SocketLost, RestInv, BrowserType
<1>2. CASE attached
  <2>1. viewer' \in OnIdle(viewer, 0) /\ 0 \in 0 .. MaxStreams
    BY <1>1, <1>2, LiveConstants
  <2> QED
    BY <1>1, <2>1, OnIdleFacts
<1>3. CASE ~attached
  <2>1. viewer' = viewer /\ Shown(viewer) = {}
    BY <1>1, <1>3 DEF RestInv, Covered
  <2> QED
    BY <1>1, <2>1 DEF Kept
<1> QED
  BY <1>1, <1>2, <1>3

(* The socket is open again: what was newest is forgotten, and the row is   *)
(* asked for.                                                               *)
LEMMA SocketBackEffects ==
  ASSUME RestInv, SocketBack
  PROVE  /\ ~online /\ online' = TRUE /\ attached' = attached /\ relay' = relay
         /\ sub' = [NoSub EXCEPT !.at = IF attached THEN "asked" ELSE "off"]
         /\ viewer' \in Viewers /\ viewer'.cursor = viewer.cursor /\ viewer'.prev = 0
         /\ viewer'.taken = 0 /\ viewer'.closed = viewer.closed /\ viewer'.shown = viewer.shown
<1>1. /\ ~online /\ online' = TRUE /\ attached' = attached /\ relay' = relay
      /\ sub' = [NoSub EXCEPT !.at = IF attached THEN "asked" ELSE "off"]
      /\ viewer' = [viewer EXCEPT !.prev = 0, !.taken = 0] /\ viewer \in Viewers
  BY RestParts, NoSubSub DEF SocketBack, RestInv, BrowserType
<1> QED
  BY <1>1 DEF Viewers

(* The session is left: its previews go.                                    *)
LEMMA DetachEffects ==
  ASSUME RestInv, Detach
  PROVE  /\ attached' = FALSE /\ online' = online /\ sub' = NoSub /\ relay' = Unsubscribed(relay)
         /\ viewer' \in Viewers /\ viewer'.cursor = viewer.cursor /\ viewer'.prev = 0
         /\ viewer'.taken = 0 /\ viewer'.closed = viewer.closed
         /\ \A s \in Streams : viewer'.shown[s] = 0
<1>1. /\ attached' = FALSE /\ online' = online /\ sub' = NoSub /\ relay' = Unsubscribed(relay)
      /\ viewer' = [viewer EXCEPT !.prev = 0, !.taken = 0, !.shown = [s \in Streams |-> 0],
                                  !.ended = {}]
      /\ viewer \in Viewers
  BY RestParts DEF Detach
<1>2. [s \in Streams |-> 0] \in [Streams -> 0 .. MaxText]
  BY LiveConstants
<1> QED
  BY <1>1, <1>2 DEF Viewers

(* The session is entered again, and the row is asked for.                  *)
LEMMA AttachEffects ==
  ASSUME RestInv, Attach
  PROVE  /\ ~attached /\ attached' = TRUE /\ online' = online /\ relay' = relay /\ viewer' = viewer
         /\ sub' = [NoSub EXCEPT !.at = IF online THEN "asked" ELSE "off"]
BY NoSubSub DEF Attach, RestInv, BrowserType

-----------------------------------------------------------------------------
(***************************************************************************)
(* What a message on the way is.                                            *)
(***************************************************************************)

(* What is on the way came from the row.                                    *)
LEMMA KnownFacts ==
  ASSUME relay \in Relays, sub \in Subs, row' \in {None, row},
         relay'.read.value \in {None, relay.read.value, row},
         sub'.burst \in {None, sub.burst, row},
         \/ relay'.notes \in {<<>>, relay.notes}
         \/ relay.notes # <<>> /\ relay'.notes = Tail(relay.notes),
         \/ sub'.queued \in {<<>>, sub.queued}
         \/ sub.queued # <<>> /\ sub'.queued = Tail(sub.queued)
         \/ \E m \in Updates : /\ sub'.queued = Append(sub.queued, m)
                               /\ m.seq = 0 \/ Known(m.seq, m.value)
  PROVE  NothingNew
<1> SUFFICES ASSUME NEW q \in Nat \ {0}, NEW x \in Values, Known(q, x)'
             PROVE  Known(q, x)
  BY DEF NothingNew
<1>1. relay.notes \in Seq(Notes) /\ sub.queued \in Seq(Updates)
  BY DEF Relays, Subs
<1>2. CASE Carries(row', q, x)
  BY <1>2 DEF Known, Carries
<1>3. CASE Carries(relay'.read.value, q, x)
  BY <1>3 DEF Known, Carries
<1>4. CASE Carries(sub'.burst, q, x)
  BY <1>4 DEF Known, Carries
<1>5. ASSUME NEW i \in 1 .. Len(relay'.notes), Carries(relay'.notes[i], q, x)
      PROVE  Known(q, x)
  <2>1. CASE relay'.notes \in {<<>>, relay.notes}
    BY <1>5, <2>1 DEF Known
  <2>2. CASE relay.notes # <<>> /\ relay'.notes = Tail(relay.notes)
    <3>1. i + 1 \in 1 .. Len(relay.notes) /\ relay'.notes[i] = relay.notes[i + 1]
      BY <1>1, <1>5, <2>2
    <3> QED
      BY <1>5, <3>1 DEF Known
  <2> QED
    BY <2>1, <2>2
<1>6. ASSUME NEW i \in 1 .. Len(sub'.queued), Carries(sub'.queued[i], q, x)
      PROVE  Known(q, x)
  <2>1. CASE sub'.queued \in {<<>>, sub.queued}
    BY <1>6, <2>1 DEF Known
  <2>2. CASE sub.queued # <<>> /\ sub'.queued = Tail(sub.queued)
    <3>1. i + 1 \in 1 .. Len(sub.queued) /\ sub'.queued[i] = sub.queued[i + 1]
      BY <1>1, <1>6, <2>2
    <3> QED
      BY <1>6, <3>1 DEF Known
  <2>3. ASSUME NEW m \in Updates, sub'.queued = Append(sub.queued, m),
               m.seq = 0 \/ Known(m.seq, m.value)
        PROVE  Known(q, x)
    <3>1. CASE i \in 1 .. Len(sub.queued)
      <4>1. sub'.queued[i] = sub.queued[i]
        BY <1>1, <2>3, <3>1
      <4> QED
        BY <1>6, <3>1, <4>1 DEF Known
    <3>2. CASE i \notin 1 .. Len(sub.queued)
      <4>1. sub'.queued[i] = m
        BY <1>1, <1>6, <2>3, <3>2
      <4>2. m.seq = q /\ m.value = x
        BY <1>6, <4>1 DEF Carries
      <4> QED
        BY <2>3, <4>2
    <3> QED
      BY <3>1, <3>2
  <2> QED
    BY <2>1, <2>2, <2>3
<1> QED
  BY <1>2, <1>3, <1>4, <1>5, <1>6 DEF Known

(* A message that is forwarded keeps the invariant.                         *)
LEMMA ForwardedFacts ==
  ASSUME RestInv, NEW m \in Updates, Forwarded(m), m.seq = 0 \/ Known(m.seq, m.value),
         online' = online, attached' = attached
  PROVE  /\ sub' \in Subs /\ sub'.at = sub.at /\ sub.at # "off" /\ View /\ viewer' \in Viewers
         /\ viewer'.cursor = viewer.cursor /\ Covered' /\ sub'.burst = sub.burst
         /\ sub'.queued = sub.queued \/ sub'.queued = Append(sub.queued, m)
<1>1. viewer \in Viewers /\ sub \in Subs
  BY RestParts
<1>2. sub' \in Subs /\ sub'.at = sub.at /\ sub.at # "off" /\ sub'.burst = sub.burst
      /\ (sub'.queued = sub.queued \/ sub'.queued = Append(sub.queued, m))
  BY DEF Forwarded
<1>3. online /\ attached
  BY <1>2 DEF RestInv, SubOpen
<1>4. View /\ viewer' \in Viewers /\ viewer'.cursor = viewer.cursor
  BY <1>1, HandledView, StillView DEF Forwarded
<1> QED
  BY <1>2, <1>3, <1>4 DEF Covered

(* A message that is delivered keeps it.                                    *)
LEMMA DeliveredFacts ==
  ASSUME RestInv, NEW m \in Rows, Delivered(m), Known(m.seq, m.value),
         online' = online, attached' = attached
  PROVE  /\ sub' \in Subs /\ sub'.at = sub.at /\ View /\ viewer' \in Viewers
         /\ viewer'.cursor = viewer.cursor /\ Covered' /\ sub'.burst = sub.burst
         /\ sub'.queued = sub.queued \/ sub'.queued = Append(sub.queued, m)
<1>1. CASE Forwarded(m)
  BY <1>1, ForwardedFacts, RowsAreUpdates
<1>2. CASE sub' = sub /\ viewer' = viewer
  <2>1. viewer \in Viewers /\ sub \in Subs
    BY RestParts
  <2>2. Covered'
    BY <1>2 DEF RestInv, Covered
  <2> QED
    BY <1>2, <2>1, <2>2, StillView
<1> QED
  BY <1>1, <1>2 DEF Delivered

-----------------------------------------------------------------------------
(***************************************************************************)
(* The steps of the portal and of the browser keep the invariant.           *)
(***************************************************************************)

(* The bookkeeping keeps its types.                                         *)
LEMMA CountersStep ==
  ASSUME RestInv, [Next]_vars
  PROVE  CountersType'
<1>1. faults \in 0 .. MaxFaults /\ lossy \subseteq {"dropped", "late", "reset", "unread"}
  BY DEF RestInv, CountersType
<1>2. Fault => faults' \in 0 .. MaxFaults
  BY <1>1, LiveConstants DEF Fault
<1>3. CASE \/ ActivityBegins \/ startTurn \/ Delta \/ TimerFlush \/ finalMessage
           \/ finishTurn \/ ActivityEnds
  <2>1. faults' = faults /\ lossy' = lossy
    BY <1>3 DEF ActivityBegins, startTurn, Delta, TimerFlush, finalMessage, finishTurn, ActivityEnds
  <2> QED
    BY <1>1, <2>1 DEF CountersType
<1>4. CASE WorkerCrashes \/ DatabaseCrashes
  <2>1. Fault /\ lossy' \subseteq lossy \cup {"dropped", "reset"}
    BY <1>4 DEF WorkerCrashes, DatabaseCrashes
  <2> QED
    BY <1>1, <1>2, <2>1 DEF CountersType
<1>5. ASSUME NEW t \in Turns, Published(t) \/ PublishFails(t) \/ PublishTimesOut(t)
      PROVE  CountersType'
  <2>1. (Fault \/ faults' = faults) /\ lossy' \subseteq lossy \cup {"dropped"}
    BY <1>5 DEF Published, PublishFails, PublishTimesOut
  <2> QED
    BY <1>1, <1>2, <2>1 DEF CountersType
<1>6. CASE Elsewhere
  <2>1. (Fault \/ faults' = faults) /\ lossy' \subseteq lossy \cup {"late", "unread"}
    BY <1>6 DEF Elsewhere, LateWrite, Notified, PointerRead, PointerArrives, PointerFails,
      RelayLost, Connect, Reconnect, BurstRead, Burst, SendQueued, SubscribeFails, GraceEnds, TakeEvent,
      EventAgain, Reload, SocketLost, SocketBack, Detach, Attach, vars
  <2> QED
    BY <1>1, <1>2, <2>1 DEF CountersType
<1> QED
  BY <1>3, <1>4, <1>5, <1>6, StepKinds

(* The parts of the invariant that a step of the portal or the browser may  *)
(* disturb.                                                                 *)
LEMMA RestFrom ==
  ASSUME RestInv, CountersType', UNCHANGED <<row, late, log>>, relay' \in Relays, sub' \in Subs,
         SubOpen', online' \in BOOLEAN, attached' \in BOOLEAN, Covered',
         viewer' \in Viewers, viewer'.cursor <= Len(log)
  PROVE  RestInv'
BY DEF RestInv, BrowserType

(* The steps of the portal: a notification, ...                             *)
LEMMA NotifiedStep ==
  ASSUME RestInv, CountersType', Notified
  PROVE  RestGoal
<1> DEFINE note == Head(relay.notes)
           m == [seq |-> note.seq, value |-> note.value, at |-> NoTime]
<1>1. /\ relay.notes # <<>> /\ m \in Rows /\ Known(m.seq, m.value)
      /\ relay' \in Relays /\ relay'.notes = Tail(relay.notes)
      /\ relay'.read.value = relay.read.value
      /\ sub.at = "off" => relay'.seen = relay.seen /\ relay'.read = relay.read
      /\ relay'.unheard = relay.unheard
      /\ \/ sub' = sub /\ viewer' = viewer
         \/ sub.at # "off" /\ Delivered(m)
  BY NotifiedEffects DEF SameLine
<1>2. /\ UNCHANGED <<row, late, log, online, attached>>
      /\ relay \in Relays /\ sub \in Subs /\ viewer \in Viewers
      /\ online \in BOOLEAN /\ attached \in BOOLEAN /\ viewer.cursor <= Len(log)
  BY RestParts DEF Notified, database, RestInv, BrowserType
<1> HIDE DEF m
<1>3. /\ sub' \in Subs /\ sub'.at = sub.at /\ View /\ viewer' \in Viewers
      /\ viewer'.cursor = viewer.cursor /\ Covered' /\ sub'.burst = sub.burst
      /\ sub'.queued = sub.queued \/ sub'.queued = Append(sub.queued, m)
  <2>1. CASE sub' = sub /\ viewer' = viewer
    <3>1. Covered'
      BY <1>2, <2>1 DEF RestInv, Covered
    <3> QED
      BY <1>2, <2>1, <3>1, StillView
  <2>2. CASE Delivered(m)
    BY <1>1, <1>2, <2>2, DeliveredFacts
  <2> QED
    BY <1>1, <2>1, <2>2
<1>4. SubOpen'
  BY <1>1, <1>2, <1>3 DEF RestInv, SubOpen
<1>5. RestInv'
  BY <1>1, <1>2, <1>3, <1>4, RestFrom
<1>6. NothingNew
  BY <1>1, <1>2, <1>3, KnownFacts, RowsAreUpdates
<1> QED
  BY <1>3, <1>5, <1>6 DEF RestGoal

(* ... the answer of a read, ...                                            *)
LEMMA PointerArrivesStep ==
  ASSUME RestInv, CountersType', PointerArrives
  PROVE  RestGoal
<1> DEFINE m == relay.read.value
<1>1. /\ relay' \in Relays /\ relay'.notes = relay.notes
      /\ relay'.read.value = None /\ relay.read.at = "answered"
      /\ \/ sub' = sub /\ viewer' = viewer
         \/ m \in Rows /\ Delivered(m) /\ Known(m.seq, m.value)
  BY PointerArrivesEffects
<1>2. /\ UNCHANGED <<row, late, log, online, attached>>
      /\ relay \in Relays /\ sub \in Subs /\ viewer \in Viewers
      /\ online \in BOOLEAN /\ attached \in BOOLEAN /\ viewer.cursor <= Len(log)
  BY RestParts DEF PointerArrives, database, RestInv, BrowserType
<1> HIDE DEF m
<1>3. /\ sub' \in Subs /\ sub'.at = sub.at /\ View /\ viewer' \in Viewers
      /\ viewer'.cursor = viewer.cursor /\ Covered' /\ sub'.burst = sub.burst
      /\ sub'.queued = sub.queued
         \/ (m \in Rows /\ Known(m.seq, m.value) /\ sub'.queued = Append(sub.queued, m))
  <2>1. CASE sub' = sub /\ viewer' = viewer
    <3>1. Covered'
      BY <1>2, <2>1 DEF RestInv, Covered
    <3> QED
      BY <1>2, <2>1, <3>1, StillView
  <2>2. CASE m \in Rows /\ Delivered(m) /\ Known(m.seq, m.value)
    BY <1>1, <1>2, <2>2, DeliveredFacts
  <2> QED
    BY <1>1, <2>1, <2>2
<1>4. SubOpen'
  BY <1>1, <1>2, <1>3 DEF RestInv, SubOpen
<1>5. RestInv'
  BY <1>1, <1>2, <1>3, <1>4, RestFrom
<1>6. NothingNew
  BY <1>1, <1>2, <1>3, KnownFacts, RowsAreUpdates
<1> QED
  BY <1>3, <1>5, <1>6 DEF RestGoal

(* ... steps of the relay alone, ...                                        *)
LEMMA RelayOnlyStep ==
  ASSUME RestInv, CountersType', PointerRead \/ PointerFails \/ RelayLost \/ Connect
  PROVE  RestGoal
<1>1. /\ relay' \in Relays /\ relay'.notes \in {<<>>, relay.notes}
      /\ relay'.seen \in {0, relay.seen} /\ relay'.unheard = relay.unheard
      /\ relay'.read.value \in {None, relay.read.value, row}
      /\ relay'.read.at = "none" \/ relay.read.at # "none" \/ relay'.read.at = relay.read.at
      /\ sub' = sub /\ viewer' = viewer
  BY PointerReadEffects, PointerFailsEffects, RelayLostEffects, ConnectEffects DEF SameLine
<1>2. /\ UNCHANGED <<row, late, log, online, attached>>
      /\ relay \in Relays /\ sub \in Subs /\ viewer \in Viewers
      /\ online \in BOOLEAN /\ attached \in BOOLEAN /\ viewer.cursor <= Len(log)
  BY RestParts DEF PointerRead, PointerFails, RelayLost, Connect, database, browser, RestInv,
     BrowserType
<1>3. SubOpen' /\ Covered'
  BY <1>1, <1>2 DEF RestInv, SubOpen, Covered
<1>4. RestInv'
  BY <1>1, <1>2, <1>3, RestFrom
<1>5. NothingNew
  BY <1>1, <1>2, KnownFacts
<1> QED
  BY <1>1, <1>2, <1>4, <1>5, StillView DEF RestGoal

(* ... the return of the relay, ...                                         *)
LEMMA ReconnectStep ==
  ASSUME RestInv, CountersType', Reconnect
  PROVE  RestGoal
<1>1. /\ relay' \in Relays /\ relay'.notes = <<>> /\ relay'.seen = 0 /\ relay'.read.value = None
      /\ relay'.unheard = 0
      /\ \/ sub.at = "off" /\ relay'.read.at = "none" /\ sub' = sub /\ viewer' = viewer
         \/ sub.at # "off" /\ relay'.read.at = "asked" /\ Forwarded(Unavailable)
  BY ReconnectEffects
<1>2. /\ UNCHANGED <<row, late, log, online, attached>>
      /\ relay \in Relays /\ sub \in Subs /\ viewer \in Viewers
      /\ online \in BOOLEAN /\ attached \in BOOLEAN /\ viewer.cursor <= Len(log)
  BY RestParts DEF Reconnect, database, RestInv, BrowserType
<1>3. CASE sub.at = "off" /\ relay'.read.at = "none" /\ sub' = sub /\ viewer' = viewer
  <2>1. SubOpen' /\ Covered'
    BY <1>1, <1>2, <1>3 DEF RestInv, SubOpen, Covered
  <2>2. RestInv'
    BY <1>1, <1>2, <1>3, <2>1, RestFrom
  <2>3. NothingNew
    BY <1>1, <1>2, <1>3, KnownFacts
  <2> QED
    BY <1>2, <1>3, <2>2, <2>3, StillView DEF RestGoal
<1>4. CASE Forwarded(Unavailable)
  <2>1. /\ sub' \in Subs /\ sub'.at = sub.at /\ sub.at # "off" /\ View /\ viewer' \in Viewers
        /\ viewer'.cursor = viewer.cursor /\ Covered' /\ sub'.burst = sub.burst
        /\ sub'.queued = sub.queued \/ sub'.queued = Append(sub.queued, Unavailable)
    BY <1>2, <1>4, ForwardedFacts, UnavailableType
  <2>2. SubOpen'
    BY <1>2, <2>1 DEF RestInv, SubOpen
  <2>3. RestInv'
    BY <1>1, <1>2, <2>1, <2>2, RestFrom
  <2>4. NothingNew
    BY <1>1, <1>2, <2>1, KnownFacts, UnavailableType
  <2> QED
    BY <2>1, <2>3, <2>4 DEF RestGoal
<1> QED
  BY <1>1, <1>3, <1>4

(* ... the read of a subscription, ...                                      *)
LEMMA BurstReadStep ==
  ASSUME RestInv, CountersType', BurstRead
  PROVE  RestGoal
<1>1. /\ sub.at = "asked" /\ sub' \in Subs /\ sub'.at = "answered" /\ sub'.burst = row
      /\ sub'.queued = sub.queued /\ relay' = relay /\ viewer' = viewer
  BY BurstReadEffects
<1>2. /\ UNCHANGED <<row, late, log, online, attached>>
      /\ relay \in Relays /\ sub \in Subs /\ viewer \in Viewers
      /\ online \in BOOLEAN /\ attached \in BOOLEAN /\ viewer.cursor <= Len(log)
  BY RestParts DEF BurstRead, database, browser, RestInv, BrowserType
<1>3. SubOpen' /\ Covered'
  BY <1>1, <1>2 DEF RestInv, SubOpen, Covered
<1>4. RestInv'
  BY <1>1, <1>2, <1>3, RestFrom
<1>5. NothingNew
  BY <1>1, <1>2, KnownFacts
<1> QED
  BY <1>1, <1>2, <1>4, <1>5, StillView DEF RestGoal

(* ... its messages, ...                                                    *)
LEMMA BurstStep ==
  ASSUME RestInv, CountersType', Burst \/ SendQueued
  PROVE  RestGoal
<1>1. /\ sub.at \in {"answered", "sent"} /\ sub' \in Subs /\ sub'.at # "off" /\ relay' = relay
      /\ sub'.burst \in {None, sub.burst}
      /\ sub'.queued = sub.queued \/ (sub.queued # <<>> /\ sub'.queued = Tail(sub.queued))
      /\ \/ viewer' = viewer
         \/ \E m \in Updates : /\ Handled(viewer, m, viewer')
                               /\ m.seq = 0 \/ Known(m.seq, m.value)
  BY BurstEffects, SendQueuedEffects, RowsAreUpdates
<1>2. /\ UNCHANGED <<row, late, log, online, attached>>
      /\ relay \in Relays /\ sub \in Subs /\ viewer \in Viewers
      /\ online \in BOOLEAN /\ attached \in BOOLEAN /\ viewer.cursor <= Len(log)
  BY RestParts DEF Burst, SendQueued, database, RestInv, BrowserType
<1>3. View /\ viewer' \in Viewers /\ viewer'.cursor = viewer.cursor
  BY <1>1, <1>2, HandledView, StillView
<1>4. SubOpen' /\ Covered'
  BY <1>1, <1>2 DEF RestInv, SubOpen, Covered
<1>5. RestInv'
  BY <1>1, <1>2, <1>3, <1>4, RestFrom
<1>6. NothingNew
  BY <1>1, <1>2, KnownFacts
<1> QED
  BY <1>3, <1>5, <1>6 DEF RestGoal

(* ... and its failure.                                                     *)
LEMMA SubscribeFailsStep ==
  ASSUME RestInv, CountersType', SubscribeFails
  PROVE  RestGoal
<1>1. /\ sub.at \in {"asked", "answered"} /\ sub' = NoSub /\ relay' = Unsubscribed(relay)
      /\ Handled(viewer, Unavailable, viewer')
  BY SubscribeFailsEffects
<1>2. /\ UNCHANGED <<row, late, log, online, attached>>
      /\ relay \in Relays /\ sub \in Subs /\ viewer \in Viewers
      /\ online \in BOOLEAN /\ attached \in BOOLEAN /\ viewer.cursor <= Len(log)
  BY RestParts DEF SubscribeFails, database, RestInv, BrowserType
<1>3. View /\ viewer' \in Viewers /\ viewer'.cursor = viewer.cursor
  BY <1>1, <1>2, HandledView, UnavailableType
<1>4. /\ relay' \in Relays /\ relay'.notes = relay.notes /\ relay'.read.value = None
      /\ relay'.seen = 0 /\ relay'.unheard = 0 /\ relay'.read.at = "none"
  BY <1>1, <1>2, UnsubscribedFacts
<1>5. sub' \in Subs /\ sub'.at = "off" /\ sub'.queued = <<>> /\ sub'.burst = None
  BY <1>1, NoSubSub, NoSubType
<1>6. SubOpen' /\ Covered'
  BY <1>1, <1>2, <1>4, <1>5 DEF RestInv, SubOpen, Covered
<1>7. RestInv'
  BY <1>2, <1>3, <1>4, <1>5, <1>6, RestFrom
<1>8. NothingNew
  BY <1>2, <1>4, <1>5, KnownFacts
<1> QED
  BY <1>3, <1>7, <1>8 DEF RestGoal

(* Taking previews away is a change that View allows.                       *)
LEMMA ViewOnlyView ==
  ASSUME RestInv, ViewOnly
  PROVE  View /\ (Covered /\ online' = online /\ attached' = attached => Covered')
<1>1. viewer \in Viewers /\ viewer.prev \in Nat
  BY RestParts
<1>2. viewer'.prev >= viewer.prev
  BY <1>1 DEF ViewOnly
<1>3. Shown(viewer') \subseteq Shown(viewer)
  BY DEF ViewOnly, Shown
<1> QED
  BY <1>2, <1>3 DEF ViewOnly, View, Covered

(* The steps of the browser: timers and events, ...                         *)
LEMMA ViewOnlyStep ==
  ASSUME RestInv, CountersType', GraceEnds \/ TakeEvent \/ EventAgain \/ Reload
  PROVE  RestGoal /\ ViewOnly
<1>1. ViewOnly
  BY GraceEndsEffects, TakeEventEffects, EventAgainEffects, ReloadEffects
<1>2. /\ UNCHANGED <<row, late, log, relay, sub, online, attached>>
      /\ relay \in Relays /\ sub \in Subs /\ viewer \in Viewers
      /\ online \in BOOLEAN /\ attached \in BOOLEAN
  BY RestParts DEF GraceEnds, TakeEvent, EventAgain, Reload, database, portal, RestInv, BrowserType
<1>3. View /\ Covered' /\ SubOpen'
  BY <1>1, <1>2, ViewOnlyView DEF RestInv, SubOpen
<1>4. viewer' \in Viewers /\ viewer'.cursor <= Len(log)
  BY <1>1 DEF ViewOnly
<1>5. RestInv'
  BY <1>2, <1>3, <1>4, RestFrom
<1>6. NothingNew
  BY <1>2, KnownFacts
<1> QED
  BY <1>1, <1>3, <1>5, <1>6 DEF RestGoal

(* ... and its way to the portal.                                           *)
LEMMA ConnectionStep ==
  ASSUME RestInv, CountersType', SocketLost \/ SocketBack \/ Detach \/ Attach
  PROVE  RestGoal
<1>1. /\ UNCHANGED <<row, late, log>>
      /\ relay \in Relays /\ sub \in Subs /\ viewer \in Viewers
      /\ online \in BOOLEAN /\ attached \in BOOLEAN /\ viewer.cursor <= Len(log)
      /\ viewer.prev \in Nat
  BY RestParts DEF SocketLost, SocketBack, Detach, Attach, database, RestInv, BrowserType
<1>2. CASE SocketLost
  <2>1. /\ online' = FALSE /\ attached' = attached /\ sub' = NoSub
        /\ relay' \in {Unsubscribed(relay), NewRelay}
        /\ viewer' \in Viewers /\ viewer'.cursor = viewer.cursor /\ viewer'.prev = viewer.prev
        /\ viewer.closed \subseteq viewer'.closed
        /\ Kept(viewer, viewer') /\ Shown(viewer') \subseteq viewer'.closed
    BY <1>2, SocketLostEffects
  <2>2. /\ relay' \in Relays /\ relay'.notes \in {<<>>, relay.notes} /\ relay'.read.value = None
        /\ relay'.seen = 0 /\ relay'.unheard = 0 /\ relay'.read.at = "none"
    <3>1. CASE relay' = Unsubscribed(relay)
      BY <1>1, <3>1, UnsubscribedFacts
    <3>2. CASE relay' = NewRelay
      BY <3>2, NewRelayType, NoReadType
    <3> QED
      BY <2>1, <3>1, <3>2
  <2>3. sub' \in Subs /\ sub'.at = "off" /\ sub'.queued = <<>> /\ sub'.burst = None
    BY <2>1, NoSubSub, NoSubType
  <2>4. ~attached => Shown(viewer') = {}
    BY <2>1 DEF RestInv, Covered, Shown, Kept
  <2>5. SubOpen' /\ Covered'
    BY <2>1, <2>2, <2>3, <2>4 DEF SubOpen, Covered
  <2>6. RestInv'
    BY <1>1, <2>1, <2>2, <2>3, <2>5, RestFrom
  <2>7. NothingNew
    BY <1>1, <2>2, <2>3, KnownFacts
  <2>8. View
    BY <1>1, <2>1 DEF View, Kept
  <2> QED
    BY <2>6, <2>7, <2>8 DEF RestGoal
<1>3. CASE SocketBack
  <2>1. /\ ~online /\ online' = TRUE /\ attached' = attached /\ relay' = relay
        /\ sub' = [NoSub EXCEPT !.at = IF attached THEN "asked" ELSE "off"]
        /\ viewer' \in Viewers /\ viewer'.cursor = viewer.cursor
        /\ viewer'.closed = viewer.closed /\ viewer'.shown = viewer.shown
    BY <1>3, SocketBackEffects
  <2>2. /\ sub' \in Subs /\ sub'.queued = <<>> /\ sub'.burst = None
        /\ sub'.at = IF attached THEN "asked" ELSE "off"
    BY <2>1, NoSubType
  <2>3. sub.at = "off"
    BY <2>1 DEF RestInv, SubOpen
  <2>4. Shown(viewer') = Shown(viewer)
    BY <2>1 DEF Shown
  <2>5. SubOpen' /\ Covered'
    BY <1>1, <2>1, <2>2, <2>3, <2>4 DEF RestInv, SubOpen, Covered
  <2>6. RestInv'
    BY <1>1, <2>1, <2>2, <2>5, RestFrom
  <2>7. NothingNew
    BY <1>1, <2>1, <2>2, KnownFacts
  <2>8. View
    BY <1>1, <2>1, <2>4 DEF View, RestInv, Covered
  <2> QED
    BY <2>6, <2>7, <2>8 DEF RestGoal
<1>4. CASE Detach
  <2>1. /\ attached' = FALSE /\ online' = online /\ sub' = NoSub /\ relay' = Unsubscribed(relay)
        /\ viewer' \in Viewers /\ viewer'.cursor = viewer.cursor
        /\ viewer'.closed = viewer.closed /\ \A s \in Streams : viewer'.shown[s] = 0
    BY <1>4, DetachEffects
  <2>2. /\ relay' \in Relays /\ relay'.notes = relay.notes /\ relay'.read.value = None
        /\ relay'.seen = 0 /\ relay'.unheard = 0 /\ relay'.read.at = "none"
    BY <1>1, <2>1, UnsubscribedFacts
  <2>3. sub' \in Subs /\ sub'.at = "off" /\ sub'.queued = <<>> /\ sub'.burst = None
    BY <2>1, NoSubSub, NoSubType
  <2>4. Shown(viewer') = {}
    BY <2>1 DEF Shown
  <2>5. SubOpen' /\ Covered'
    BY <2>1, <2>2, <2>3, <2>4 DEF SubOpen, Covered
  <2>6. RestInv'
    BY <1>1, <2>1, <2>2, <2>3, <2>5, RestFrom
  <2>7. NothingNew
    BY <1>1, <2>2, <2>3, KnownFacts
  <2>8. View
    BY <2>1, <2>4 DEF View
  <2> QED
    BY <2>6, <2>7, <2>8 DEF RestGoal
<1>5. CASE Attach
  <2>1. /\ ~attached /\ attached' = TRUE /\ online' = online /\ relay' = relay /\ viewer' = viewer
        /\ sub' = [NoSub EXCEPT !.at = IF online THEN "asked" ELSE "off"]
    BY <1>5, AttachEffects
  <2>2. /\ sub' \in Subs /\ sub'.queued = <<>> /\ sub'.burst = None
        /\ sub'.at = IF online THEN "asked" ELSE "off"
    BY <2>1, NoSubType
  <2>3. sub.at = "off"
    BY <2>1 DEF RestInv, SubOpen
  <2>4. SubOpen' /\ Covered'
    BY <1>1, <2>1, <2>2, <2>3 DEF RestInv, SubOpen, Covered
  <2>5. RestInv'
    BY <1>1, <2>1, <2>2, <2>4, RestFrom
  <2>6. NothingNew
    BY <1>1, <2>1, <2>2, KnownFacts
  <2> QED
    BY <1>1, <2>1, <2>5, <2>6, StillView DEF RestGoal
<1> QED
  BY <1>2, <1>3, <1>4, <1>5

-----------------------------------------------------------------------------
(***************************************************************************)
(* The steps that write the row, and all steps.                             *)
(***************************************************************************)

(* A write numbers the row anew and notifies the relay, if it listens; a    *)
(* relay that has not listened yet misses it, if the burst was read.        *)
LEMMA PublishEffects ==
  ASSUME RestInv, NEW value \in Values, publish_live(value)
  PROVE  /\ row' \in Rows /\ row'.at # NoTime /\ row'.value = value /\ row' # None
         /\ row'.seq = (IF row = None THEN 1 ELSE row.seq + 1)
         /\ relay' \in Relays /\ relay'.up = relay.up /\ relay'.listened = relay.listened
         /\ relay'.seen = relay.seen /\ relay'.read = relay.read
         /\ relay'.unheard = IF MissesWrite THEN row'.seq ELSE relay.unheard
         /\ \/ ~relay.up /\ relay'.notes = <<>> /\ relay.notes = <<>>
            \/ relay.up /\ relay'.notes = Append(relay.notes, [seq |-> row'.seq, value |-> value])
<1> DEFINE n == IF row = None THEN 1 ELSE row.seq + 1
           note == [seq |-> n, value |-> value]
           missed == IF MissesWrite THEN n ELSE relay.unheard
           notes == IF relay.up THEN Append(relay.notes, note) ELSE relay.notes
<1>1. n \in Nat /\ n > 0
  BY DEF RestInv, Rows, Messages
<1>2. relay \in Relays
  BY RestParts
<1>3. /\ row' = [seq |-> n, value |-> value, at |-> Len(log)]
      /\ relay' = [relay EXCEPT !.notes = notes, !.unheard = missed]
  BY DEF publish_live
<1> HIDE DEF n
<1>4. Len(log) \in Nat
  BY DEF RestInv
<1>5. /\ row' \in Rows /\ row'.at # NoTime /\ row'.value = value /\ row'.seq = n
  BY <1>1, <1>3, <1>4 DEF Rows, Messages, NoTime
<1>6. note \in Notes
  BY <1>1 DEF Notes
<1>7. missed \in Nat
  BY <1>1, <1>2 DEF Relays
<1> HIDE DEF note, missed
<1>8. notes \in Seq(Notes) /\ (~relay.up => notes = <<>> /\ relay.notes = <<>>)
  BY <1>2, <1>6 DEF Relays
<1> HIDE DEF notes
<1>9. /\ relay' \in Relays /\ relay'.up = relay.up /\ relay'.listened = relay.listened
      /\ relay'.seen = relay.seen /\ relay'.read = relay.read
      /\ relay'.notes = notes /\ relay'.unheard = missed
  BY <1>2, <1>3, <1>7, <1>8 DEF Relays
<1>10. row' # None
  BY <1>5, RowsAreUpdates
<1>11. \/ ~relay.up /\ relay'.notes = <<>> /\ relay.notes = <<>>
       \/ relay.up /\ relay'.notes = Append(relay.notes, [seq |-> row'.seq, value |-> value])
  BY <1>5, <1>8, <1>9 DEF notes, note
<1>12. relay'.unheard = IF MissesWrite THEN row'.seq ELSE relay.unheard
  BY <1>5, <1>9 DEF missed
<1> QED
  BY <1>5, <1>9, <1>10, <1>11, <1>12 DEF n

(* A write keeps the invariant.                                             *)
LEMMA WriteStep ==
  ASSUME RestInv, CountersType', NEW value \in Values, publish_live(value),
         UNCHANGED <<log, sub, browser>>, late' \subseteq late
  PROVE  RestInv' /\ View
<1>1. /\ row' \in Rows /\ row'.at # NoTime /\ relay' \in Relays /\ relay'.seen = relay.seen
      /\ relay'.read = relay.read /\ (sub.at = "off" => relay'.unheard = relay.unheard)
  BY PublishEffects DEF MissesWrite
<1>2. UNCHANGED <<online, attached, viewer>> /\ viewer \in Viewers
  BY RestParts DEF browser
<1> QED
  BY <1>1, <1>2, StillView DEF RestInv, SubOpen, BrowserType, Covered

(* A step of the worker touches the events only.                            *)
LEMMA WorkerRest ==
  ASSUME RestInv, CountersType', UNCHANGED <<row, portal, browser>>, late' \subseteq Values,
         \/ log' = log
         \/ \E e \in Events : log' = Append(log, e)
  PROVE  RestGoal
<1>1. log \in Seq(Events) /\ viewer.cursor <= Len(log) /\ viewer.cursor \in Nat
  BY RestParts DEF RestInv, BrowserType
<1>2. log' \in Seq(Events) /\ viewer.cursor <= Len(log')
  BY <1>1
<1>3. /\ UNCHANGED <<relay, sub, online, attached, viewer>> /\ viewer \in Viewers
      /\ relay \in Relays /\ sub \in Subs
  BY RestParts DEF portal, browser
<1>4. RestInv'
  BY <1>2, <1>3 DEF RestInv, SubOpen, BrowserType, Covered
<1>5. NothingNew
  BY <1>3, KnownFacts
<1> QED
  BY <1>3, <1>4, <1>5, StillView DEF RestGoal

(* The steps that write no row.                                             *)
Quiet ==
  \/ ActivityBegins \/ startTurn \/ Delta \/ TimerFlush \/ finalMessage
  \/ finishTurn \/ ActivityEnds \/ WorkerCrashes
  \/ \E t \in Turns : PublishFails(t) \/ PublishTimesOut(t)
  \/ DatabaseCrashes \/ (Elsewhere /\ ~LateWrite)

(* Every other step writes the row.                                         *)
LEMMA QuietOrWrite ==
  ASSUME [Next]_vars
  PROVE  Quiet \/ LateWrite \/ \E t \in Turns : Published(t)
BY StepKinds DEF Quiet, Elsewhere

(* What is written is a value.                                              *)
LEMMA FlightType ==
  ASSUME WorkerInv, NEW t \in Turns, pub[t].flight # None
  PROVE  pub[t].flight \in Values /\ pub[t].flight \in Held(pub[t])
<1>1. pub[t] \in Slots
  BY DEF WorkerInv, WorkerType
<1> QED
  BY <1>1, SlotTypes DEF Held

(* A step that writes no row keeps the invariant, and puts nothing new on   *)
(* the way.                                                                 *)
LEMMA QuietStep ==
  ASSUME WorkerInv, RestInv, CountersType', Quiet
  PROVE  RestGoal
<1>1. late \subseteq Values
  BY DEF RestInv
<1>2. CASE ActivityBegins \/ startTurn \/ Delta \/ TimerFlush \/ finishTurn
  <2>1. UNCHANGED <<row, portal, browser>> /\ late' = late /\ log' = log
    BY <1>2 DEF ActivityBegins, startTurn, Delta, TimerFlush, finishTurn, database
  <2> QED
    BY <1>1, <2>1, WorkerRest
<1>3. CASE finalMessage
  <2>1. /\ UNCHANGED <<row, portal, browser>> /\ late' = late
        /\ log' = Append(log, [kind |-> "message", stream |-> live.stream]) /\ ~live.idleSent
    BY <1>3 DEF finalMessage
  <2>2. live.stream \in Streams
    BY <2>1, LiveConstants DEF WorkerInv, WorkerType, LiveOK, Streams
  <2>3. [kind |-> "message", stream |-> live.stream] \in Events
    BY <2>2 DEF Events
  <2> QED
    BY <1>1, <2>1, <2>3, WorkerRest
<1>4. CASE ActivityEnds
  <2>1. /\ UNCHANGED <<row, portal, browser>> /\ late' = late
        /\ log' = Append(log, [kind |-> "terminal", stream |-> 0])
    BY <1>4 DEF ActivityEnds
  <2>2. [kind |-> "terminal", stream |-> 0] \in Events
    BY DEF Events
  <2> QED
    BY <1>1, <2>1, <2>2, WorkerRest
<1>5. CASE WorkerCrashes
  <2>1. /\ UNCHANGED <<row, log, portal, browser>>
        /\ late' = late \cup ({pub[t].flight : t \in Turns} \ {None})
    BY <1>5 DEF WorkerCrashes
  <2>2. {pub[t].flight : t \in Turns} \ {None} \subseteq Values
    BY FlightType
  <2> QED
    BY <1>1, <2>1, <2>2, WorkerRest
<1>6. ASSUME NEW t \in Turns, PublishFails(t) \/ PublishTimesOut(t)
      PROVE  RestGoal
  <2>1. /\ UNCHANGED <<row, log, portal, browser>> /\ late' \subseteq late \cup {pub[t].flight}
        /\ pub[t].flight # None
    BY <1>6 DEF PublishFails, PublishTimesOut, database
  <2> QED
    BY <1>1, <2>1, FlightType, WorkerRest
<1>7. CASE DatabaseCrashes
  <2>1. /\ row' = None /\ late' = {} /\ log' = log /\ UNCHANGED <<sub, online, attached, viewer>>
    BY <1>7 DEF DatabaseCrashes, browser
  <2>2. /\ relay' \in Relays /\ relay'.notes = <<>> /\ relay'.read = relay.read
        /\ relay'.seen = relay.seen /\ relay'.unheard = relay.unheard
    BY <1>7, RelayLostEffects
  <2>3. RestInv'
    BY <2>1, <2>2 DEF RestInv, SubOpen, BrowserType, Covered
  <2>4. NothingNew
    BY <2>1, <2>2, RestParts, KnownFacts
  <2> QED
    BY <2>1, <2>3, <2>4, RestParts, StillView DEF RestGoal
<1>8. CASE UNCHANGED vars
  <2>1. UNCHANGED <<row, portal, browser>> /\ late' = late /\ log' = log
    BY <1>8 DEF vars, database
  <2> QED
    BY <1>1, <2>1, WorkerRest
<1> QED
  BY <1>2, <1>3, <1>4, <1>5, <1>6, <1>7, <1>8, NotifiedStep, PointerArrivesStep, RelayOnlyStep,
     ReconnectStep, BurstReadStep, BurstStep, SubscribeFailsStep, ViewOnlyStep, ConnectionStep
     DEF Quiet, Elsewhere

(* The invariant of the database, the portal and the browser is inductive.  *)
LEMMA RestStep ==
  ASSUME WorkerInv, RestInv, [Next]_vars
  PROVE  RestInv' /\ View
<1>1. CountersType'
  BY CountersStep
<1>2. CASE Quiet
  BY <1>1, <1>2, QuietStep DEF RestGoal
<1>3. CASE LateWrite
  <2>1. PICK value \in late : publish_live(value) /\ late' = late \ {value}
                              /\ UNCHANGED <<log, sub, browser>>
    BY <1>3 DEF LateWrite
  <2>2. value \in Values
    BY DEF RestInv
  <2> QED
    BY <1>1, <2>1, <2>2, WriteStep
<1>4. ASSUME NEW t \in Turns, Published(t)
      PROVE  RestInv' /\ View
  <2>1. /\ publish_live(pub[t].flight) /\ late' = late /\ UNCHANGED <<log, sub, browser>>
        /\ pub[t].flight # None
    BY <1>4 DEF Published
  <2> QED
    BY <1>1, <2>1, FlightType, WriteStep
<1> QED
  BY <1>2, <1>3, <1>4, QuietOrWrite

(* It holds at first.                                                       *)
LEMMA RestInit == Init => RestInv
<1> SUFFICES ASSUME Init PROVE RestInv
  OBVIOUS
<1>1. /\ row = None /\ late = {} /\ log = <<>> /\ online = TRUE /\ attached = TRUE
      /\ relay \in {Listening, NewRelay} /\ faults \in 0 .. MaxFaults
      /\ sub \in {[NoSub EXCEPT !.at = "on"], [NoSub EXCEPT !.at = "asked"]}
      /\ viewer = [prev |-> 0, taken |-> 0, shown |-> [s \in Streams |-> 0],
                   closed |-> {}, ended |-> {}, cursor |-> 0]
      /\ lossy = {}
  BY LiveConstants DEF Init
<1>2. relay \in Relays
  BY <1>1, NewRelayType
<1>3. sub \in Subs /\ sub.at # "off"
  BY <1>1, NoSubType
<1>4. viewer \in Viewers /\ viewer.cursor = 0
  <2>1. [s \in Streams |-> 0] \in [Streams -> 0 .. MaxText]
    BY LiveConstants
  <2> QED
    BY <1>1, <2>1 DEF Viewers
<1>5. log \in Seq(Events) /\ Len(log) = 0
  BY <1>1
<1> QED
  BY <1>1, <1>2, <1>3, <1>4, <1>5 DEF RestInv, SubOpen, BrowserType, Covered, CountersType

-----------------------------------------------------------------------------
(* In every reachable state the variables have their types: a publisher     *)
(* that writes nothing holds nothing back (pump), a relay without its       *)
(* connection has no notifications, and no read and no sequence outlive     *)
(* the subscription they were for (the unsubscribe of live-plane.js).       *)
THEOREM Typed == Spec => []TypeOK
<1>1. Init => WorkerInv /\ RestInv
  BY WorkerInit, RestInit
<1>2. WorkerInv /\ RestInv /\ [Next]_vars => WorkerInv' /\ RestInv'
  BY WorkerStep, RestStep DEF WorkerGoal
<1> QED
  BY <1>1, <1>2, TypeFromRest, PTL DEF Spec

-----------------------------------------------------------------------------
(***************************************************************************)
(* The row ends idle.                                                       *)
(***************************************************************************)

(* While the row shows a running turn, an idle snapshot is still to come.   *)
RowOwed == (lossy = {} /\ row # None /\ row.value.phase = "live") => Owing

(* What has happened to the writes stays on record.                         *)
LEMMA LossyGrows == [Next]_vars => lossy \subseteq lossy'
<1> SUFFICES ASSUME [Next]_vars PROVE lossy \subseteq lossy'
  OBVIOUS
<1>1. CASE \/ ActivityBegins \/ startTurn \/ Delta \/ TimerFlush \/ finalMessage
           \/ finishTurn \/ ActivityEnds \/ WorkerCrashes \/ DatabaseCrashes
  BY <1>1 DEF ActivityBegins, startTurn, Delta, TimerFlush, finalMessage, finishTurn, ActivityEnds,
       WorkerCrashes, DatabaseCrashes
<1>2. ASSUME NEW t \in Turns, Published(t) \/ PublishFails(t) \/ PublishTimesOut(t)
      PROVE  lossy \subseteq lossy'
  BY <1>2 DEF Published, PublishFails, PublishTimesOut
<1>3. CASE Elsewhere
  BY <1>3 DEF Elsewhere, LateWrite, Notified, PointerRead, PointerArrives, PointerFails,
      RelayLost, Connect, Reconnect, BurstRead, Burst, SendQueued, SubscribeFails, GraceEnds, TakeEvent,
      EventAgain, Reload, SocketLost, SocketBack, Detach, Attach, vars
<1> QED
  BY <1>1, <1>2, <1>3, StepKinds

(* The portal and the browser leave the database alone.                     *)
LEMMA ElsewhereRow == Elsewhere /\ ~LateWrite => row' = row /\ late' = late /\ log' = log
BY DEF Elsewhere, Notified, PointerRead, PointerArrives, PointerFails,
      RelayLost, Connect, Reconnect, BurstRead, Burst, SendQueued, SubscribeFails, GraceEnds, TakeEvent,
      EventAgain, Reload, SocketLost, SocketBack, Detach, Attach, vars, database

(* The row keeps its promise: the last live snapshot of a publisher has an  *)
(* idle one behind it.                                                      *)
LEMMA OwedStep ==
  ASSUME WorkerInv, Closing, RestInv, RowOwed, [Next]_vars
  PROVE  RowOwed'
<1> SUFFICES ASSUME lossy' = {}, row' # None, row'.value.phase = "live"
             PROVE  Owing'
  BY DEF RowOwed
<1>1. lossy = {}
  BY LossyGrows
<1>2. CASE \/ ActivityBegins \/ startTurn \/ Delta \/ TimerFlush \/ finalMessage
           \/ finishTurn \/ ActivityEnds
  <2>1. row' = row
    BY <1>2 DEF ActivityBegins, startTurn, Delta, TimerFlush, finalMessage, finishTurn,
         ActivityEnds, database
  <2>2. Owing => Owing'
    BY <1>2, ActivityBeginsStep, StartTurnStep, DeltaStep, TimerFlushStep, FinalMessageStep,
       ClosingStep
  <2> QED
    BY <1>1, <2>1, <2>2 DEF RowOwed
<1>3. CASE WorkerCrashes \/ DatabaseCrashes \/ LateWrite
  BY <1>3 DEF WorkerCrashes, DatabaseCrashes, LateWrite
<1>4. ASSUME NEW t \in Turns, PublishFails(t) \/ PublishTimesOut(t)
      PROVE  FALSE
  BY <1>4 DEF PublishFails, PublishTimesOut
<1>5. ASSUME NEW t \in Turns, Published(t)
      PROVE  Owing'
  <2>1. /\ publish_live(pub[t].flight) /\ pub[t].flight # None
        /\ pub' = [pub EXCEPT ![t] = Pumped(@)] /\ live' = live
    BY <1>5 DEF Published
  <2>2. pub[t] \in Slots /\ Upright(pub[t]) /\ pub'[t] = Pumped(pub[t])
    BY <2>1 DEF WorkerInv, WorkerType, Upright
  <2>3. row'.value = pub[t].flight
    BY <2>1, FlightType, PublishEffects
  <2>4. CASE pub[t].pending # None
    BY <2>2, <2>4, PumpedFacts DEF Owing
  <2>5. CASE pub[t].pending = None
    <3>1. Newest(pub[t]) # None /\ Newest(pub[t]).phase # "idle"
      BY <2>1, <2>3, <2>5 DEF Newest
    <3> QED
      BY <2>1, <3>1 DEF Closing, Owing
  <2> QED
    BY <2>4, <2>5
<1>6. CASE Elsewhere /\ ~LateWrite
  <2>1. row' = row
    BY <1>6, ElsewhereRow
  <2>2. Owing => Owing'
    BY <1>6, ElsewhereStill, WorkerStill
  <2> QED
    BY <1>1, <2>1, <2>2 DEF RowOwed
<1> QED
  BY <1>2, <1>3, <1>4, <1>5, <1>6, StepKinds

(* However the publishers of several attempts interleave their writes, the  *)
(* retained row does not show a running turn when none runs and nothing is  *)
(* being written, unless a write was dropped or executed late (finishTurn,  *)
(* LatestValuePublisher).                                                   *)
THEOREM RowEnds == Spec => []RowEndsIdle
<1>1. Init => WorkerInv /\ Closing /\ RestInv /\ RowOwed
  <2>1. Init => RowOwed
    BY DEF Init, RowOwed
  <2> QED
    BY <2>1, WorkerInit, RestInit
<1>2. WorkerInv /\ Closing /\ RestInv /\ RowOwed /\ [Next]_vars
        => WorkerInv' /\ Closing' /\ RestInv' /\ RowOwed'
  BY WorkerStep, RestStep, OwedStep DEF WorkerGoal
<1>3. WorkerInv /\ RestInv /\ RowOwed => RowEndsIdle
  <2> SUFFICES ASSUME WorkerInv, RestInv, RowOwed, ~busy, lossy = {}, row # None,
                      \A t \in Turns : pub[t].flight = None
               PROVE  row.value.phase = "idle"
    BY DEF RowEndsIdle
  <2>1. ~Owing
    BY DEF WorkerInv, LiveOK, Owing
  <2>2. row.value.phase \in {"live", "idle"}
    BY ValueTypes DEF RestInv, Rows, Messages
  <2> QED
    BY <2>1, <2>2 DEF RowOwed
<1> QED
  BY <1>1, <1>2, <1>3, PTL DEF Spec

-----------------------------------------------------------------------------
(***************************************************************************)
(* Closed streams stay closed.                                              *)
(***************************************************************************)

(* No message that the browser has from its events is shown as a preview.   *)
Durable == \A s \in Streams : HasMessage(viewer.shown[s]) => ~Recorded(log, viewer.cursor, s)

(* Events are appended.                                                     *)
LEMMA LogStep == [Next]_vars => log' = log \/ \E e : log' = Append(log, e)
<1> SUFFICES ASSUME [Next]_vars PROVE log' = log \/ \E e : log' = Append(log, e)
  OBVIOUS
<1>1. CASE \/ ActivityBegins \/ startTurn \/ Delta \/ TimerFlush \/ finalMessage
           \/ finishTurn \/ ActivityEnds \/ WorkerCrashes \/ DatabaseCrashes \/ LateWrite
  BY <1>1 DEF ActivityBegins, startTurn, Delta, TimerFlush, finalMessage, finishTurn, ActivityEnds,
       WorkerCrashes, DatabaseCrashes, LateWrite, database
<1>2. ASSUME NEW t \in Turns, Published(t) \/ PublishFails(t) \/ PublishTimesOut(t)
      PROVE  log' = log
  BY <1>2 DEF Published, PublishFails, PublishTimesOut, database
<1> QED
  BY <1>1, <1>2, ElsewhereRow, StepKinds

(* Events are taken by the steps that look at the previews as well.         *)
LEMMA CursorStep ==
  ASSUME RestInv, CountersType', [Next]_vars
  PROVE  viewer'.cursor = viewer.cursor \/ (ViewOnly /\ log' = log)
<1>1. CASE \/ ActivityBegins \/ startTurn \/ Delta \/ TimerFlush \/ finalMessage
           \/ finishTurn \/ ActivityEnds \/ WorkerCrashes \/ DatabaseCrashes \/ LateWrite
  BY <1>1 DEF ActivityBegins, startTurn, Delta, TimerFlush, finalMessage, finishTurn, ActivityEnds,
       WorkerCrashes, DatabaseCrashes, LateWrite, browser
<1>2. ASSUME NEW t \in Turns, Published(t) \/ PublishFails(t) \/ PublishTimesOut(t)
      PROVE  viewer' = viewer
  BY <1>2 DEF Published, PublishFails, PublishTimesOut, browser
<1>3. CASE GraceEnds \/ TakeEvent \/ EventAgain \/ Reload
  <2>1. ViewOnly
    BY <1>3, ViewOnlyStep
  <2>2. log' = log
    BY <1>3 DEF GraceEnds, TakeEvent, EventAgain, Reload, database
  <2> QED
    BY <2>1, <2>2
<1>4. CASE Notified \/ PointerArrives \/ Reconnect \/ Burst \/ SendQueued
  <2>1. \/ viewer' = viewer
        \/ \E m : Handled(viewer, m, viewer')
    BY <1>4, NotifiedEffects, PointerArrivesEffects, ReconnectEffects, BurstEffects,
       SendQueuedEffects DEF Delivered, Forwarded
  <2> QED
    BY <2>1 DEF Handled
<1>5. CASE \/ PointerRead \/ PointerFails \/ RelayLost \/ Connect \/ BurstRead \/ Attach
           \/ UNCHANGED vars
  BY <1>5 DEF PointerRead, PointerFails, RelayLost, Connect, BurstRead, Attach, browser, vars
<1>6. CASE SubscribeFails
  BY <1>6, SubscribeFailsEffects DEF Handled
<1>7. CASE SocketLost \/ SocketBack \/ Detach
  BY <1>7, SocketLostEffects, SocketBackEffects, DetachEffects
<1> QED
  BY <1>1, <1>2, <1>3, <1>4, <1>5, <1>6, <1>7, StepKinds DEF Elsewhere

(* No step shows a message that the browser has.                            *)
LEMMA DurableStep ==
  ASSUME WorkerInv, RestInv, Durable, [Next]_vars
  PROVE  Durable'
<1> SUFFICES ASSUME NEW s \in Streams, HasMessage(viewer'.shown[s]),
                    NEW i \in 1 .. viewer'.cursor
             PROVE  ~(log'[i].kind = "message" /\ log'[i].stream = s)
  BY DEF Durable, Recorded
<1>1. View /\ CountersType'
  BY RestStep, CountersStep
<1>2. /\ log \in Seq(Events) /\ viewer.cursor \in Nat /\ viewer.cursor <= Len(log)
  BY RestParts DEF RestInv, BrowserType
<1>3. \A j \in 1 .. viewer.cursor : log'[j] = log[j]
  BY <1>2, LogStep
<1>4. ~Recorded(log, viewer.cursor, s)
  <2>1. CASE viewer'.shown[s] \in {0, viewer.shown[s]}
    BY <2>1, NoMessage DEF Durable
  <2>2. ASSUME NEW m \in Updates, Gains(viewer, m, viewer', s)
        PROVE  ~Recorded(log, viewer.cursor, s)
    BY <2>2 DEF Gains
  <2> QED
    BY <1>1, <2>1, <2>2 DEF View
<1>5. CASE i \in 1 .. viewer.cursor
  BY <1>3, <1>4, <1>5 DEF Recorded
<1>6. CASE i \notin 1 .. viewer.cursor
  <2>1. viewer'.cursor # viewer.cursor
    BY <1>6
  <2>2. ViewOnly /\ log' = log
    BY <1>1, <2>1, CursorStep
  <2>3. viewer'.cursor \in Nat
    BY <2>2 DEF ViewOnly, Viewers
  <2>4. i \in (viewer.cursor + 1) .. viewer'.cursor
    BY <1>2, <1>6, <2>3
  <2> QED
    BY <2>2, <2>4 DEF ViewOnly
<1> QED
  BY <1>5, <1>6

(* Nothing on the live way (a late tick, a reconnect, a reload, a return    *)
(* to the session) opens a closed stream again or shows a message that the  *)
(* browser has from its events (closedLiveStreams, closedLiveKeys,          *)
(* applyLiveTurnToHistory).                                                 *)
THEOREM StaysClosed == Spec => NoRevival
<1>1. Init => WorkerInv /\ RestInv /\ Durable
  <2>1. Init => Durable
    BY NoMessage DEF Init, Durable
  <2> QED
    BY <2>1, WorkerInit, RestInit
<1>2. WorkerInv /\ RestInv /\ Durable /\ [Next]_vars => WorkerInv' /\ RestInv' /\ Durable'
  BY WorkerStep, RestStep, DurableStep DEF WorkerGoal
<1>3. WorkerInv /\ RestInv /\ Durable /\ [Next]_vars
        => [\A s \in Streams :
              /\ s \in viewer.closed =>
                   s \in viewer'.closed /\ viewer'.shown[s] \in {0, viewer.shown[s]}
              /\ HasMessage(viewer'.shown[s]) => ~Recorded(log', viewer'.cursor, s)]_vars
  <2> SUFFICES ASSUME WorkerInv, RestInv, Durable, [Next]_vars, NEW s \in Streams
               PROVE  /\ s \in viewer.closed =>
                           s \in viewer'.closed /\ viewer'.shown[s] \in {0, viewer.shown[s]}
                      /\ HasMessage(viewer'.shown[s]) => ~Recorded(log', viewer'.cursor, s)
    OBVIOUS
  <2>1. Durable' /\ View
    BY DurableStep, RestStep
  <2> QED
    BY <2>1 DEF Durable, View, Gains
<1> QED
  BY <1>1, <1>2, <1>3, PTL DEF Spec, NoRevival

-----------------------------------------------------------------------------
(***************************************************************************)
(* Previews grow.                                                           *)
(***************************************************************************)

(* No statement was executed after its client had given up, and the row     *)
(* was not lost.                                                            *)
InOrder == lossy \subseteq {"dropped", "unread"}

(* Everything on the way is as old as the row, or older, ...                *)
KnownBehind ==
  \A q \in Nat \ {0}, x \in Values :
    Known(q, x) => row # None /\ q <= row.seq /\ x.stream <= streams

(* ... a later write of a stream is not a shorter one, ...                  *)
KnownGrows ==
  \A q, r \in Nat \ {0}, x, y \in Values :
    (Known(q, x) /\ Known(r, y) /\ IsLive(x) /\ IsLive(y) /\ x.stream = y.stream /\ q <= r)
      => x.text <= y.text

(* ... what is still to be written is not shorter than what is on the way,  *)
(* ...                                                                      *)
KnownWritten ==
  \A q \in Nat \ {0}, x \in Values : Known(q, x) /\ IsLive(x) => AtLeast(x.stream, x.text)

(* ... and neither that nor what is on the way and still counts as new is   *)
(* shorter than what is shown.                                              *)
ShownBehind ==
  \A s \in Streams, n \in Nat \ {0} : s \notin viewer.closed /\ viewer.shown[s] = n =>
    /\ s <= streams /\ AtLeast(s, n)
    /\ \A q \in Nat \ {0}, x \in Values :
         (Known(q, x) /\ IsLive(x) /\ x.stream = s /\ q > viewer.prev) => n <= x.text

(* The invariant of the texts.                                              *)
Growing == InOrder => KnownBehind /\ KnownGrows /\ KnownWritten /\ ShownBehind

(* A statement that was executed late was so in every later state.          *)
LEMMA OrderKept == [Next]_vars /\ InOrder' => InOrder
BY LossyGrows DEF InOrder

(* Streams are numbered upwards.                                            *)
LEMMA StreamsGrow ==
  WorkerInv /\ [Next]_vars => streams \in Nat /\ streams' \in Nat /\ streams <= streams'
<1> SUFFICES ASSUME WorkerInv, [Next]_vars
             PROVE  streams \in Nat /\ streams' \in Nat /\ streams <= streams'
  OBVIOUS
<1>1. streams \in Nat
  BY LiveConstants DEF WorkerInv, WorkerType
<1>2. streams' = streams \/ streams' = streams + 1
  <2>1. CASE \/ ActivityBegins \/ startTurn \/ Delta \/ TimerFlush \/ finalMessage
             \/ finishTurn \/ ActivityEnds \/ WorkerCrashes \/ DatabaseCrashes
    BY <2>1 DEF ActivityBegins, startTurn, Delta, TimerFlush, finalMessage, finishTurn,
         ActivityEnds, WorkerCrashes, DatabaseCrashes
  <2>2. ASSUME NEW t \in Turns, Published(t) \/ PublishFails(t) \/ PublishTimesOut(t)
        PROVE  streams' = streams
    BY <2>2 DEF Published, PublishFails, PublishTimesOut
  <2>3. CASE Elsewhere
    BY <2>3, ElsewhereStill DEF worker
  <2> QED
    BY <2>1, <2>2, <2>3, StepKinds
<1> QED
  BY <1>1, <1>2

(* A step that writes no row leaves it, or the database has crashed.        *)
LEMMA QuietRow == Quiet => row' = row \/ "reset" \in lossy'
<1>1. CASE \/ ActivityBegins \/ startTurn \/ Delta \/ TimerFlush \/ finalMessage
           \/ finishTurn \/ ActivityEnds \/ WorkerCrashes \/ DatabaseCrashes
  BY <1>1 DEF ActivityBegins, startTurn, Delta, TimerFlush, finalMessage, finishTurn, ActivityEnds,
       WorkerCrashes, DatabaseCrashes, database
<1>2. ASSUME NEW t \in Turns, PublishFails(t) \/ PublishTimesOut(t)
      PROVE  row' = row
  BY <1>2 DEF PublishFails, PublishTimesOut, database
<1> QED
  BY <1>1, <1>2, ElsewhereRow DEF Quiet

(* A step that writes no row keeps the texts in order: what it shows was    *)
(* on the way.                                                              *)
LEMMA GrowingQuiet ==
  ASSUME WorkerInv, RestInv, Growing, [Next]_vars, Quiet, InOrder'
  PROVE  KnownBehind' /\ KnownGrows' /\ KnownWritten' /\ ShownBehind'
<1>1. /\ KnownBehind /\ KnownGrows /\ KnownWritten /\ ShownBehind
  BY OrderKept DEF Growing
<1>2. row' = row
  BY QuietRow DEF InOrder
<1>3. RestInv' /\ View /\ NothingNew /\ NoneShorter
  BY CountersStep, QuietStep, WorkerStep DEF RestGoal, WorkerGoal
<1>4. streams \in Nat /\ streams' \in Nat /\ streams <= streams'
  BY StreamsGrow
<1>5. \A x \in Values : /\ x.stream \in Nat /\ x.text \in Nat
                        /\ IsLive(x) => x.stream \in Streams
  BY ValueTypes, LiveConstants
<1>6. KnownBehind'
  BY <1>1, <1>2, <1>3, <1>4, <1>5 DEF KnownBehind, NothingNew
<1>7. KnownGrows'
  BY <1>1, <1>3 DEF KnownGrows, NothingNew
<1>8. KnownWritten'
  BY <1>1, <1>3, <1>5 DEF KnownWritten, KnownBehind, NothingNew, NoneShorter
<1>9. ShownBehind'
  <2> SUFFICES ASSUME NEW s \in Streams, NEW n \in Nat \ {0}, s \notin viewer'.closed,
                      viewer'.shown[s] = n
               PROVE  /\ s <= streams' /\ AtLeast(s, n)'
                      /\ \A q \in Nat \ {0}, x \in Values :
                           (Known(q, x)' /\ IsLive(x) /\ x.stream = s /\ q > viewer'.prev)
                             => n <= x.text
    BY DEF ShownBehind
  <2>1. viewer.prev \in Nat /\ viewer'.prev \in Nat /\ s \in Nat
    BY <1>3, RestParts, LiveConstants DEF RestInv, BrowserType, Viewers, Streams
  <2>2. viewer'.prev >= viewer.prev
    BY <1>3 DEF View, Shown
  <2>3. s \notin viewer.closed
    BY <1>3 DEF View
  <2>4. CASE viewer.shown[s] = n
    <3>1. /\ s <= streams /\ AtLeast(s, n)
          /\ \A q \in Nat \ {0}, x \in Values :
               (Known(q, x) /\ IsLive(x) /\ x.stream = s /\ q > viewer.prev) => n <= x.text
      BY <1>1, <2>3, <2>4 DEF ShownBehind
    <3>2. AtLeast(s, n)'
      BY <1>3, <3>1 DEF NoneShorter
    <3> QED
      BY <1>3, <1>4, <2>1, <2>2, <3>1, <3>2 DEF NothingNew
  <2>5. ASSUME NEW m \in Updates, Gains(viewer, m, viewer', s), Known(m.seq, m.value),
               viewer'.prev = m.seq
        PROVE  /\ s <= streams' /\ AtLeast(s, n)'
               /\ \A q \in Nat \ {0}, x \in Values :
                    (Known(q, x)' /\ IsLive(x) /\ x.stream = s /\ q > viewer'.prev)
                      => n <= x.text
    <3>1. /\ m.seq \in Nat \ {0} /\ m.value \in Values /\ IsLive(m.value) /\ m.value.stream = s
          /\ m.value.text = n
      BY <2>1, <2>5 DEF Gains, Updates, Messages, IsLive
    <3>2. s <= streams /\ AtLeast(s, n)
      BY <1>1, <2>5, <3>1 DEF KnownBehind, KnownWritten
    <3>3. AtLeast(s, n)'
      BY <1>3, <3>2 DEF NoneShorter
    <3>4. ASSUME NEW q \in Nat \ {0}, NEW x \in Values, Known(q, x)', IsLive(x), x.stream = s,
                 q > viewer'.prev
          PROVE  n <= x.text
      <4>1. Known(q, x) /\ m.seq <= q
        BY <1>3, <2>5, <3>1, <3>4 DEF NothingNew
      <4> QED
        BY <1>1, <2>5, <3>1, <3>4, <4>1 DEF KnownGrows
    <3> QED
      BY <1>4, <2>1, <3>2, <3>3, <3>4
  <2> QED
    BY <1>3, <2>4, <2>5 DEF View
<1> QED
  BY <1>6, <1>7, <1>8, <1>9

(* A write puts its value on the way, under the next number.                *)
LEMMA PublishKnown ==
  ASSUME RestInv, NEW value \in Values, publish_live(value), sub' = sub,
         NEW q \in Nat \ {0}, NEW x \in Values, Known(q, x)'
  PROVE  Known(q, x) \/ (q = row'.seq /\ x = value)
<1>1. /\ row'.value = value /\ relay'.read = relay.read
      /\ \/ relay'.notes = relay.notes
         \/ relay'.notes = Append(relay.notes, [seq |-> row'.seq, value |-> value])
  BY PublishEffects
<1>2. relay.notes \in Seq(Notes)
  BY RestParts DEF Relays
<1>3. CASE Carries(row', q, x)
  BY <1>1, <1>3 DEF Carries
<1>4. CASE Carries(relay'.read.value, q, x) \/ Carries(sub'.burst, q, x)
  BY <1>1, <1>4 DEF Known
<1>5. ASSUME NEW i \in 1 .. Len(relay'.notes), Carries(relay'.notes[i], q, x)
      PROVE  Known(q, x) \/ (q = row'.seq /\ x = value)
  <2>1. CASE relay'.notes = relay.notes
    BY <1>5, <2>1 DEF Known
  <2>2. CASE relay'.notes = Append(relay.notes, [seq |-> row'.seq, value |-> value])
    <3>1. CASE i \in 1 .. Len(relay.notes)
      <4>1. relay'.notes[i] = relay.notes[i]
        BY <1>2, <2>2, <3>1
      <4> QED
        BY <1>5, <3>1, <4>1 DEF Known
    <3>2. CASE i \notin 1 .. Len(relay.notes)
      <4>1. relay'.notes[i] = [seq |-> row'.seq, value |-> value]
        BY <1>2, <1>5, <2>2, <3>2
      <4> QED
        BY <1>5, <4>1 DEF Carries
    <3> QED
      BY <3>1, <3>2
  <2> QED
    BY <1>1, <2>1, <2>2
<1>6. ASSUME NEW i \in 1 .. Len(sub'.queued), Carries(sub'.queued[i], q, x)
      PROVE  Known(q, x)
  BY <1>6 DEF Known
<1> QED
  BY <1>3, <1>4, <1>5, <1>6 DEF Known

(* A write keeps the texts in order: its value is not shorter than what is  *)
(* on the way, and nothing shorter is left to be written.                   *)
LEMMA GrowingPublished ==
  ASSUME WorkerInv, RestInv, Growing, [Next]_vars, NEW t \in Turns, Published(t), InOrder'
  PROVE  KnownBehind' /\ KnownGrows' /\ KnownWritten' /\ ShownBehind'
<1>1. /\ KnownBehind /\ KnownGrows /\ KnownWritten /\ ShownBehind
  BY OrderKept DEF Growing
<1> PICK f : f = pub[t].flight
  OBVIOUS
<1>2. /\ f # None /\ publish_live(f) /\ pub' = [pub EXCEPT ![t] = Pumped(@)]
      /\ UNCHANGED <<turn, streams, live, sub, viewer>>
  BY DEF Published, browser
<1>3. f \in Values /\ f \in Held(pub[t])
  BY <1>2, FlightType
<1>4. NoneShorter
  BY WorkerStep DEF WorkerGoal
<1>5. /\ row' # None /\ row'.seq \in Nat /\ row'.seq > 0
      /\ row'.seq = (IF row = None THEN 1 ELSE row.seq + 1)
      /\ row # None => row.seq \in Nat
  BY <1>2, <1>3, PublishEffects DEF RestInv, Rows, Messages
<1>6. \A q \in Nat \ {0}, x \in Values : Known(q, x)' => Known(q, x) \/ (q = row'.seq /\ x = f)
  BY <1>2, <1>3, PublishKnown
<1>7. \A x \in Values : /\ x.stream \in Nat /\ x.text \in Nat
                        /\ IsLive(x) => x.stream \in Streams
  BY ValueTypes, LiveConstants
<1>8. f.stream <= streams
  BY <1>3 DEF WorkerInv, PubOK
<1>9. KnownBehind'
  BY <1>1, <1>2, <1>5, <1>6, <1>8 DEF KnownBehind
<1>10. KnownGrows'
  <2> SUFFICES ASSUME NEW q \in Nat \ {0}, NEW r \in Nat \ {0}, NEW x \in Values, NEW y \in Values,
                      Known(q, x)', Known(r, y)', IsLive(x), IsLive(y), x.stream = y.stream, q <= r
               PROVE  x.text <= y.text
    BY DEF KnownGrows
  <2>1. CASE Known(q, x) /\ Known(r, y)
    BY <1>1, <2>1 DEF KnownGrows
  <2>2. CASE Known(q, x) /\ y = f
    BY <1>1, <1>3, <2>2 DEF KnownWritten, AtLeast
  <2>3. CASE x = f /\ y = f
    BY <1>7, <2>3
  <2>4. CASE q = row'.seq /\ Known(r, y)
    BY <1>1, <1>5, <2>4 DEF KnownBehind
  <2> QED
    BY <1>6, <2>1, <2>2, <2>3, <2>4
<1>11. IsLive(f) => AtLeast(f.stream, f.text)'
  <2> SUFFICES ASSUME IsLive(f) PROVE AtLeast(f.stream, f.text)'
    OBVIOUS
  <2>1. pub[t] \in Slots /\ Upright(pub[t]) /\ pub \in [Turns -> Slots]
    BY DEF WorkerInv, WorkerType, Upright
  <2>2. pub'[t] = Pumped(pub[t]) /\ \A u \in Turns : u # t => pub'[u] = pub[u]
    BY <1>2, <2>1
  <2>3. ASSUME NEW u \in Turns, NEW x \in Held(pub'[u]), IsLive(x), x.stream = f.stream
        PROVE  f.text <= x.text
    <3>1. CASE u = t
      <4>1. x = pub[t].pending /\ x # None
        BY <2>1, <2>2, <2>3, <3>1, PumpedType DEF Held
      <4> QED
        BY <1>2, <2>3, <4>1 DEF WorkerInv, PubOK, Ordered
    <3>2. CASE u # t
      <4>1. x \in Held(pub[u])
        BY <2>2, <2>3, <3>2
      <4>2. x.stream \in Nat /\ f.stream \in Nat /\ u \in Nat /\ t \in Nat
        <5>1. x \in Values
          BY <2>1, <4>1, SlotTypes
        <5> QED
          BY <1>3, <1>7, <5>1 DEF Turns
      <4>3. x.stream < f.stream \/ f.stream < x.stream
        BY <1>3, <3>2, <4>1, <4>2 DEF WorkerInv, PubOK
      <4> QED
        BY <2>3, <4>2, <4>3
    <3> QED
      BY <3>1, <3>2
  <2>4. ~live'.idleSent /\ live'.stream = f.stream => f.text <= live'.sent
    BY <1>2, <1>3 DEF WorkerInv, PubOK
  <2> QED
    BY <2>3, <2>4 DEF AtLeast
<1>12. KnownWritten'
  <2> SUFFICES ASSUME NEW q \in Nat \ {0}, NEW x \in Values, Known(q, x)', IsLive(x)
               PROVE  AtLeast(x.stream, x.text)'
    BY DEF KnownWritten
  <2>1. CASE Known(q, x)
    BY <1>1, <1>4, <1>7, <2>1 DEF KnownWritten, KnownBehind, NoneShorter
  <2>2. CASE x = f
    BY <1>11, <2>2
  <2> QED
    BY <1>6, <2>1, <2>2
<1>13. ShownBehind'
  <2> SUFFICES ASSUME NEW s \in Streams, NEW n \in Nat \ {0}, s \notin viewer.closed,
                      viewer.shown[s] = n
               PROVE  /\ s <= streams /\ AtLeast(s, n)'
                      /\ \A q \in Nat \ {0}, x \in Values :
                           (Known(q, x)' /\ IsLive(x) /\ x.stream = s /\ q > viewer.prev)
                             => n <= x.text
    BY <1>2 DEF ShownBehind
  <2>1. /\ s <= streams /\ AtLeast(s, n)
        /\ \A q \in Nat \ {0}, x \in Values :
             (Known(q, x) /\ IsLive(x) /\ x.stream = s /\ q > viewer.prev) => n <= x.text
    BY <1>1 DEF ShownBehind
  <2>2. n <= f.text \/ ~(IsLive(f) /\ f.stream = s)
    BY <1>3, <2>1 DEF AtLeast
  <2>3. AtLeast(s, n)'
    BY <1>4, <2>1 DEF NoneShorter
  <2> QED
    BY <1>6, <2>1, <2>2, <2>3
<1> QED
  BY <1>9, <1>10, <1>12, <1>13

(* The invariant of the texts is inductive.                                 *)
LEMMA GrowingStep ==
  ASSUME WorkerInv, RestInv, Growing, [Next]_vars
  PROVE  Growing'
<1> SUFFICES ASSUME InOrder'
             PROVE  KnownBehind' /\ KnownGrows' /\ KnownWritten' /\ ShownBehind'
  BY DEF Growing
<1>1. ~LateWrite
  BY DEF LateWrite, InOrder
<1> QED
  BY <1>1, GrowingQuiet, GrowingPublished, QuietOrWrite

(* At first nothing is on the way.                                          *)
LEMMA NothingKnown ==
  Init => \A q, x : ~Known(q, x)
<1> SUFFICES ASSUME Init, NEW q, NEW x PROVE ~Known(q, x)
  OBVIOUS
<1>1. /\ row = None /\ relay \in {Listening, NewRelay}
      /\ sub \in {[NoSub EXCEPT !.at = "on"], [NoSub EXCEPT !.at = "asked"]}
  BY DEF Init
<1>2. relay.notes = <<>> /\ relay.read.value = None /\ sub.burst = None /\ sub.queued = <<>>
  BY <1>1, NewRelayType, NoReadType, NoSubType
<1> QED
  BY <1>1, <1>2 DEF Known, Carries

(* The invariant of the texts holds at first.                               *)
LEMMA GrowingInit == Init => Growing
<1> SUFFICES ASSUME Init PROVE KnownBehind /\ KnownGrows /\ KnownWritten /\ ShownBehind
  BY DEF Growing
<1>1. KnownBehind /\ KnownGrows /\ KnownWritten
  BY NothingKnown DEF KnownBehind, KnownGrows, KnownWritten
<1>2. \A s \in Streams : viewer.shown[s] = 0
  BY DEF Init
<1> QED
  BY <1>1, <1>2 DEF ShownBehind

(* A preview never loses text, whichever of the notification, the pointer   *)
(* read, the burst and the updates behind it reaches the browser first,     *)
(* unless a statement was executed after its client had given up or the     *)
(* row was lost (deliver, handleLiveMessage, subscribeLive).                *)
THEOREM NothingShrinks == Spec => PreviewsGrow
<1>1. Init => WorkerInv /\ RestInv /\ Growing
  <2>1. Init => Growing
    BY GrowingInit
  <2> QED
    BY <2>1, WorkerInit, RestInit
<1>2. WorkerInv /\ RestInv /\ Growing /\ [Next]_vars => WorkerInv' /\ RestInv' /\ Growing'
  BY WorkerStep, RestStep, GrowingStep DEF WorkerGoal
<1>3. WorkerInv /\ RestInv /\ Growing /\ [Next]_vars
        => [lossy' \subseteq {"dropped", "unread"} =>
              \A s \in Streams : viewer'.shown[s] = 0 \/ viewer'.shown[s] >= viewer.shown[s]]_vars
  <2> SUFFICES ASSUME WorkerInv, RestInv, Growing, [Next]_vars, InOrder', NEW s \in Streams
               PROVE  viewer'.shown[s] = 0 \/ viewer'.shown[s] >= viewer.shown[s]
    BY DEF InOrder
  <2>1. View /\ RestInv' /\ ShownBehind
    BY RestStep, OrderKept DEF Growing
  <2>2. viewer.shown[s] \in Nat /\ viewer'.shown[s] \in Nat /\ viewer.prev \in Nat
    BY <2>1, RestParts, LiveConstants DEF RestInv, BrowserType, Viewers
  <2>3. CASE viewer'.shown[s] \in {0, viewer.shown[s]}
    BY <2>2, <2>3
  <2>4. ASSUME NEW m \in Updates, Gains(viewer, m, viewer', s), Known(m.seq, m.value)
        PROVE  viewer'.shown[s] >= viewer.shown[s]
    <3>1. /\ m.seq \in Nat \ {0} /\ m.value \in Values /\ IsLive(m.value) /\ m.value.stream = s
          /\ viewer'.shown[s] = m.value.text /\ m.seq > viewer.prev /\ s \notin viewer.closed
      BY <2>2, <2>4 DEF Gains, Updates, Messages, IsLive
    <3>2. CASE viewer.shown[s] > 0
      BY <2>1, <2>2, <2>4, <3>1, <3>2 DEF ShownBehind
    <3>3. CASE ~(viewer.shown[s] > 0)
      BY <2>2, <3>3
    <3> QED
      BY <3>2, <3>3
  <2> QED
    BY <2>1, <2>3, <2>4 DEF View
<1> QED
  BY <1>1, <1>2, <1>3, PTL DEF Spec, PreviewsGrow
-----------------------------------------------------------------------------
(***************************************************************************)
(* The newest row arrives.                                                  *)
(***************************************************************************)

(* The number of the row.                                                   *)
RowSeq == IF row = None THEN 0 ELSE row.seq

(* The browser has handled no more than was written, what it takes for the  *)
(* newest is the last it has handled, or forgotten, and a subscription      *)
(* that begins finds nothing handled.                                       *)
Taking ==
  /\ viewer.taken <= RowSeq /\ viewer.prev \in {0, viewer.taken}
  /\ sub.at = "sent" => viewer.taken = sub.seen
  /\ sub.at \in {"asked", "answered"} \/ ~attached => viewer.taken = 0

(* The last notification under way is that of the row.                      *)
Noted ==
  /\ relay.seen <= RowSeq
  /\ relay.notes # <<>> => relay.notes[Len(relay.notes)].seq = RowSeq

(* The relay has read the row as it is.                                     *)
FreshRead == relay.read.value # None /\ relay.read.value.seq = RowSeq

(* A read that found an older row is not the last word: the row has been    *)
(* seen, or its notification is still to come, or another read.             *)
Answering ==
  relay.read.at = "answered" =>
    FreshRead \/ relay.seen = RowSeq \/ ~relay.up \/ relay.notes # <<>> \/ relay.read.again

(* The relay has not seen the row but will: it connects anew, is notified,  *)
(* or reads.                                                                *)
Coming ==
  /\ relay.seen < RowSeq
  /\ \/ relay.listened /\ ~relay.up
     \/ relay.notes # <<>> \/ relay.read.at = "asked" \/ relay.read.again
     \/ relay.read.at = "answered" /\ FreshRead

(* The row waits behind the burst.                                          *)
Queued == \E i \in 1 .. Len(sub.queued) : sub.queued[i].seq = RowSeq

(* The row is, or will be, in the burst; or it waits behind it; or the      *)
(* browser has handled it; or it was missed by a relay that had not         *)
(* listened, and nothing brings it.                                         *)
Resolved ==
  \/ sub.at = "asked" \/ (sub.at = "answered" /\ sub.burst # None /\ sub.burst.seq = RowSeq)
  \/ Queued \/ (sub.at \in {"sent", "on"} /\ viewer.taken = RowSeq)
  \/ relay.unheard = RowSeq

(* The row is on its way to a subscriber, or needs none.                    *)
Underway == row # None /\ sub.at # "off" => Coming \/ Resolved

(* The invariant of the way of the row.                                     *)
Arriving == Taking /\ Noted /\ Answering /\ Underway

(* The types that the argument needs.                                       *)
LEMMA ArriveTypes ==
  RestInv => /\ RowSeq \in Nat /\ (row # None <=> RowSeq > 0) /\ relay.seen \in Nat
             /\ viewer.taken \in Nat /\ viewer.prev \in Nat /\ sub.seen \in Nat
             /\ relay.notes \in Seq(Notes) /\ sub.queued \in Seq(Updates)
BY RestParts DEF RestInv, Rows, Messages, RowSeq, Relays, Subs

(* Nothing on the way has a higher number than the row.                     *)
LEMMA BehindRow ==
  ASSUME RestInv, Growing, lossy = {}, NEW q \in Nat, NEW x \in Values, Known(q, x), q > 0
  PROVE  q <= RowSeq
BY DEF Growing, InOrder, KnownBehind, RowSeq

(* A step that leaves the way alone.                                        *)
LEMMA ArriveSame ==
  ASSUME Arriving, UNCHANGED <<row, relay, sub, attached>>,
         viewer'.taken = viewer.taken, viewer'.prev = viewer.prev
  PROVE  Arriving'
BY DEF Arriving, Taking, Noted, Answering, Underway, Coming, Resolved, Queued, FreshRead, RowSeq

(* A write: its notification is under way, or the relay is to connect       *)
(* anew, or the burst is to be read, or the write is missed.                *)
LEMMA ArrivePublished ==
  ASSUME RestInv, Arriving, NEW value \in Values, publish_live(value),
         UNCHANGED <<sub, attached, viewer>>
  PROVE  Arriving'
<1>1. /\ row' \in Rows /\ row' # None
      /\ row'.seq = (IF row = None THEN 1 ELSE row.seq + 1)
      /\ relay' \in Relays /\ relay'.up = relay.up /\ relay'.listened = relay.listened
      /\ relay'.seen = relay.seen /\ relay'.read = relay.read
      /\ relay'.unheard = IF MissesWrite THEN row'.seq ELSE relay.unheard
      /\ \/ ~relay.up /\ relay'.notes = <<>>
         \/ relay.up /\ relay'.notes = Append(relay.notes, [seq |-> row'.seq, value |-> value])
  BY PublishEffects
<1>2. RowSeq' = RowSeq + 1 /\ RowSeq' = row'.seq
  BY <1>1 DEF RowSeq
<1>3. /\ RowSeq \in Nat /\ relay.seen \in Nat /\ viewer.taken \in Nat /\ relay.notes \in Seq(Notes)
      /\ relay.seen <= RowSeq
  BY ArriveTypes DEF Arriving, Noted
<1>4. Taking'
  BY <1>2, <1>3 DEF Arriving, Taking
<1>5. \/ ~relay'.up /\ relay'.notes = <<>>
      \/ relay'.notes # <<>> /\ relay'.notes[Len(relay'.notes)].seq = RowSeq'
  <2>1. CASE ~relay.up /\ relay'.notes = <<>>
    BY <1>1, <2>1
  <2>2. CASE relay'.notes = Append(relay.notes, [seq |-> row'.seq, value |-> value])
    BY <1>2, <1>3, <2>2
  <2> QED
    BY <1>1, <2>1, <2>2
<1>6. Noted'
  BY <1>1, <1>2, <1>3, <1>5 DEF Noted
<1>7. Answering'
  BY <1>1, <1>5 DEF Answering
<1>8. CASE relay.listened
  <2>1. Coming'
    BY <1>1, <1>2, <1>3, <1>5, <1>8 DEF Coming
  <2> QED
    BY <1>4, <1>6, <1>7, <2>1 DEF Arriving, Underway
<1>9. CASE ~relay.listened
  <2>1. sub.at # "off" => Resolved'
    BY <1>1, <1>2, <1>9, RestParts DEF Resolved, MissesWrite, Subs
  <2> QED
    BY <1>4, <1>6, <1>7, <2>1 DEF Arriving, Underway
<1> QED
  BY <1>8, <1>9

(* The browser handles a message that is new, and has handled it already    *)
(* if it counts as old.                                                     *)
LEMMA ArriveHandled ==
  ASSUME RestInv, Taking, NEW m \in Updates, m.seq <= RowSeq, Handled(viewer, m, viewer')
  PROVE  /\ viewer'.taken <= RowSeq /\ viewer'.prev \in {0, viewer'.taken}
         /\ viewer'.taken \in {viewer.taken, m.seq}
         /\ m.seq > 0 /\ m.seq = RowSeq => viewer'.taken = RowSeq
         /\ m.seq = 0 => viewer'.taken = viewer.taken
         /\ viewer.taken = 0 => viewer'.taken = m.seq
<1>1. RowSeq \in Nat /\ viewer.taken \in Nat /\ viewer.prev \in Nat /\ m.seq \in Nat
  BY ArriveTypes DEF Updates, Messages
<1> QED
  BY <1>1 DEF Handled, Taking

(* An update joins those that wait.                                         *)
LEMMA QueueGrows ==
  ASSUME RestInv, NEW m \in Updates, sub'.queued = Append(sub.queued, m), RowSeq' = RowSeq
  PROVE  (Queued => Queued') /\ (m.seq = RowSeq => Queued')
<1>1. sub.queued \in Seq(Updates)
  BY ArriveTypes
<1>2. /\ Len(sub'.queued) = Len(sub.queued) + 1 /\ sub'.queued[Len(sub.queued) + 1] = m
      /\ \A i \in 1 .. Len(sub.queued) : sub'.queued[i] = sub.queued[i]
      /\ Len(sub.queued) \in Nat
  BY <1>1
<1> QED
  BY <1>2 DEF Queued

(* The first of the updates that wait leaves.                               *)
LEMMA QueueShrinks ==
  ASSUME RestInv, sub.queued # <<>>, sub'.queued = Tail(sub.queued), RowSeq' = RowSeq, Queued
  PROVE  Head(sub.queued).seq = RowSeq \/ Queued'
<1>1. sub.queued \in Seq(Updates)
  BY ArriveTypes
<1>2. PICK i \in 1 .. Len(sub.queued) : sub.queued[i].seq = RowSeq
  BY DEF Queued
<1>3. CASE i = 1
  BY <1>1, <1>2, <1>3
<1>4. CASE i # 1
  <2>1. i - 1 \in 1 .. Len(sub'.queued) /\ sub'.queued[i - 1] = sub.queued[i]
    BY <1>1, <1>2, <1>4
  <2> QED
    BY <1>2, <2>1 DEF Queued
<1> QED
  BY <1>3, <1>4

(* The row that is forwarded is in hand.                                    *)
LEMMA ArriveForwarded ==
  ASSUME RestInv, Taking, NEW m \in Updates, m.seq <= RowSeq, Forwarded(m), RowSeq' = RowSeq,
         attached' = attached
  PROVE  Taking' /\ (m.seq > 0 /\ m.seq = RowSeq => Resolved')
<1>1. sub'.at = sub.at /\ sub'.burst = sub.burst /\ sub'.seen = sub.seen
  BY DEF Forwarded
<1>2. RowSeq \in Nat /\ viewer.taken \in Nat /\ m.seq \in Nat
  BY ArriveTypes DEF Updates, Messages
<1>3. CASE sub.at = "on" /\ sub' = sub /\ Handled(viewer, m, viewer')
  <2>1. /\ viewer'.taken <= RowSeq /\ viewer'.prev \in {0, viewer'.taken}
        /\ viewer'.taken \in {viewer.taken, m.seq}
        /\ m.seq > 0 /\ m.seq = RowSeq => viewer'.taken = RowSeq
        /\ m.seq = 0 => viewer'.taken = viewer.taken
    BY <1>3, ArriveHandled
  <2>2. attached
    BY <1>3 DEF RestInv, SubOpen
  <2> QED
    BY <1>2, <1>3, <2>1, <2>2 DEF Taking, Resolved
<1>4. CASE /\ sub.at \in {"asked", "answered"} /\ viewer' = viewer
           /\ sub'.queued = Append(sub.queued, m)
  <2>1. (Queued => Queued') /\ (m.seq = RowSeq => Queued')
    BY <1>4, QueueGrows
  <2> QED
    BY <1>1, <1>4, <2>1 DEF Taking, Resolved
<1> QED
  BY <1>3, <1>4 DEF Forwarded

(* The row that is delivered is in hand; another message leaves the relay   *)
(* behind the row.                                                          *)
LEMMA ArriveDelivered ==
  ASSUME RestInv, Taking, Noted, NEW m \in Rows, m.seq <= RowSeq, Delivered(m), RowSeq' = RowSeq,
         attached' = attached, relay'.unheard = relay.unheard, relay.seen = RowSeq => Resolved
  PROVE  /\ Taking' /\ relay'.seen <= RowSeq
         /\ \/ relay'.seen = RowSeq /\ Resolved'
            \/ relay'.seen < RowSeq /\ relay.seen < RowSeq /\ m.seq # RowSeq
<1>1. m \in Updates /\ m.seq \in Nat /\ m.seq > 0
  BY RowsAreUpdates DEF Rows, Messages
<1>2. RowSeq \in Nat /\ relay.seen \in Nat /\ relay.seen <= RowSeq
  BY ArriveTypes DEF Noted
<1>3. CASE m.seq > relay.seen /\ relay'.seen = m.seq /\ Forwarded(m)
  <2>1. Taking' /\ (m.seq = RowSeq => Resolved')
    BY <1>1, <1>3, ArriveForwarded
  <2> QED
    BY <1>1, <1>2, <1>3, <2>1
<1>4. CASE m.seq <= relay.seen /\ relay'.seen = relay.seen /\ sub' = sub /\ viewer' = viewer
  <2>1. Taking' /\ (Resolved => Resolved')
    BY <1>4 DEF Taking, Resolved, Queued
  <2> QED
    BY <1>1, <1>2, <1>4, <2>1
<1> QED
  BY <1>3, <1>4 DEF Delivered

(* The row that the relay has seen is in hand.                              *)
LEMMA SeenResolved ==
  ASSUME RestInv, Arriving, sub.at # "off", row # None
  PROVE  relay.seen = RowSeq => Resolved
BY ArriveTypes DEF Arriving, Underway, Coming

(* The last element of the tail.                                            *)
LEMMA LastOfTail ==
  ASSUME NEW S, NEW q \in Seq(S), q # <<>>
  PROVE  \/ Tail(q) = <<>> /\ q[Len(q)] = Head(q)
         \/ Tail(q) # <<>> /\ Tail(q)[Len(Tail(q))] = q[Len(q)]
<1>1. Len(q) \in Nat /\ Len(q) > 0
  BY EmptySeq, LenProperties
<1>2. /\ Tail(q) \in Seq(S) /\ Len(Tail(q)) = Len(q) - 1
      /\ \A i \in 1 .. Len(Tail(q)) : Tail(q)[i] = q[i + 1]
  BY HeadTailProperties
<1>3. Tail(q) = <<>> <=> Len(Tail(q)) = 0
  BY <1>2, EmptySeq, Zenon
<1>4. CASE Len(q) = 1
  <2>1. Len(Tail(q)) = 0
    BY <1>2, <1>4
  <2> QED
    BY <1>4, <1>3, <2>1
<1>5. CASE Len(q) > 1
  <2>1. Len(Tail(q)) \in 1 .. Len(Tail(q)) /\ Len(Tail(q)) + 1 = Len(q)
    BY <1>1, <1>2, <1>5
  <2>2. Len(Tail(q)) # 0
    BY <1>1, <1>2, <1>5
  <2> QED
    BY <1>2, <1>3, <2>1, <2>2
<1> QED
  BY <1>1, <1>4, <1>5

(* A notification: it was the last one, and is that of the row, or another  *)
(* one follows.                                                             *)
LEMMA ArriveNotified ==
  ASSUME RestInv, Growing, lossy = {}, Arriving, Notified
  PROVE  Arriving'
<1> DEFINE note == Head(relay.notes)
           m == [seq |-> note.seq, value |-> note.value, at |-> NoTime]
<1>1. /\ relay.notes # <<>> /\ note \in Notes /\ m \in Rows /\ Known(m.seq, m.value)
      /\ relay' \in Relays /\ relay'.unheard = relay.unheard /\ relay'.notes = Tail(relay.notes)
      /\ \/ /\ sub.at = "off" /\ relay'.seen = relay.seen /\ relay'.read = relay.read
            /\ sub' = sub /\ viewer' = viewer
         \/ sub.at # "off" /\ relay'.read = relay.read /\ Delivered(m)
         \/ /\ sub.at # "off" /\ relay'.seen = relay.seen /\ sub' = sub /\ viewer' = viewer
            /\ relay'.read.value = relay.read.value
            /\ \/ relay'.read.at = "asked"
               \/ relay'.read.at = relay.read.at /\ relay'.read.again
  BY NotifiedEffects DEF SameLine
<1>2. row' = row /\ attached' = attached /\ RowSeq' = RowSeq
  BY DEF Notified, database, RowSeq
<1>3. /\ RowSeq \in Nat /\ relay.seen \in Nat /\ relay.notes \in Seq(Notes)
      /\ relay.seen <= RowSeq
  BY ArriveTypes DEF Arriving, Noted
<1>4. note.seq \in Nat /\ m.seq = note.seq /\ m.value \in Values /\ m.seq > 0
  BY <1>1 DEF Notes
<1>5. m.seq <= RowSeq
  BY <1>1, <1>4, BehindRow
<1>6. row # None
  BY <1>3, <1>4, <1>5, ArriveTypes
<1>7. \/ relay'.notes = <<>> /\ m.seq = RowSeq
      \/ relay'.notes # <<>> /\ relay'.notes[Len(relay'.notes)].seq = RowSeq
  <2>1. relay.notes[Len(relay.notes)].seq = RowSeq
    BY <1>1 DEF Arriving, Noted
  <2>2. \/ relay'.notes = <<>> /\ relay.notes[Len(relay.notes)] = note
        \/ /\ relay'.notes # <<>>
           /\ relay'.notes[Len(relay'.notes)] = relay.notes[Len(relay.notes)]
    BY <1>1, <1>3, LastOfTail
  <2> QED
    BY <1>4, <2>1, <2>2
<1> HIDE DEF note, m
<1>8. CASE sub.at = "off" /\ relay'.seen = relay.seen /\ relay'.read = relay.read /\ sub' = sub
           /\ viewer' = viewer
  <2>1. relay.read.at = "none"
    BY <1>8 DEF RestInv, SubOpen
  <2> QED
    BY <1>2, <1>3, <1>7, <1>8, <2>1 DEF Arriving, Taking, Noted, Answering, Underway
<1>9. CASE sub.at # "off" /\ relay'.read = relay.read /\ Delivered(m)
  <2>1. /\ Taking' /\ relay'.seen <= RowSeq
        /\ \/ relay'.seen = RowSeq /\ Resolved'
           \/ relay'.seen < RowSeq /\ relay.seen < RowSeq /\ m.seq # RowSeq
    BY <1>1, <1>2, <1>5, <1>6, <1>9, ArriveDelivered, SeenResolved DEF Arriving
  <2>2. Noted'
    BY <1>2, <1>7, <2>1 DEF Noted
  <2>3. CASE relay'.seen = RowSeq /\ Resolved'
    BY <1>2, <2>1, <2>2, <2>3 DEF Arriving, Answering, Underway
  <2>4. CASE relay'.seen < RowSeq /\ m.seq # RowSeq
    BY <1>2, <1>7, <2>1, <2>2, <2>4 DEF Arriving, Answering, Underway, Coming
  <2> QED
    BY <2>1, <2>3, <2>4
<1>10. CASE /\ sub.at # "off" /\ relay'.seen = relay.seen /\ sub' = sub /\ viewer' = viewer
            /\ relay'.read.value = relay.read.value
            /\ \/ relay'.read.at = "asked"
               \/ relay'.read.at = relay.read.at /\ relay'.read.again
  <2>1. Taking' /\ (Resolved => Resolved')
    BY <1>1, <1>2, <1>10 DEF Arriving, Taking, Resolved, Queued
  <2>2. Noted' /\ Answering'
    BY <1>2, <1>3, <1>7, <1>10 DEF Noted, Answering
  <2>3. relay.seen < RowSeq => Coming'
    BY <1>2, <1>10 DEF Coming
  <2>4. relay.seen = RowSeq => Resolved'
    BY <1>6, <1>10, <2>1, SeenResolved
  <2> QED
    BY <1>3, <2>1, <2>2, <2>3, <2>4 DEF Arriving, Underway
<1> QED
  BY <1>1, <1>8, <1>9, <1>10

(* The read of the relay is answered.                                       *)
LEMMA ArrivePointerRead ==
  ASSUME RestInv, Arriving, PointerRead
  PROVE  Arriving'
<1>1. /\ relay.read.at = "asked" /\ relay'.up = relay.up /\ relay'.listened = relay.listened
      /\ relay'.unheard = relay.unheard
      /\ relay'.notes = relay.notes /\ relay'.seen = relay.seen
      /\ relay'.read.at = "answered" /\ relay'.read.value = row
      /\ sub' = sub /\ viewer' = viewer
  BY PointerReadEffects DEF SameLine
<1>2. row' = row /\ attached' = attached /\ RowSeq' = RowSeq
  BY DEF PointerRead, database, browser, RowSeq
<1>3. RowSeq \in Nat /\ relay.seen \in Nat /\ relay.seen <= RowSeq
  BY ArriveTypes DEF Arriving, Noted
<1>4. (row = None /\ RowSeq = 0) \/ (row # None /\ FreshRead')
  <2>1. row = None => RowSeq = 0
    BY DEF RowSeq
  <2>2. row # None => FreshRead'
    BY <1>1, <1>2 DEF FreshRead, RowSeq
  <2> QED
    BY <2>1, <2>2
<1>5. Taking' /\ Noted' /\ (Resolved => Resolved')
  BY <1>1, <1>2 DEF Arriving, Taking, Noted, Resolved, Queued
<1>6. Answering'
  BY <1>1, <1>2, <1>3, <1>4 DEF Answering
<1>7. Underway'
  <2> SUFFICES ASSUME row # None, sub.at # "off" PROVE Coming' \/ Resolved'
    BY <1>1, <1>2 DEF Underway
  <2>1. CASE relay.seen = RowSeq
    BY <1>5, <2>1, SeenResolved
  <2>2. CASE relay.seen # RowSeq
    BY <1>1, <1>2, <1>3, <1>4, <2>2 DEF Coming
  <2> QED
    BY <2>1, <2>2
<1> QED
  BY <1>5, <1>6, <1>7 DEF Arriving

(* The answer arrives: it is the row, or something else still brings the    *)
(* row.                                                                     *)
LEMMA ArrivePointerArrives ==
  ASSUME RestInv, Growing, lossy = {}, Arriving, PointerArrives
  PROVE  Arriving'
<1> DEFINE m == relay.read.value
<1>1. /\ relay.read.at = "answered" /\ relay' \in Relays /\ relay'.up = relay.up
      /\ relay'.listened /\ relay'.unheard = relay.unheard
      /\ relay'.notes = relay.notes
      /\ relay'.read.at = IF relay.read.again THEN "asked" ELSE "none"
      /\ \/ m = None /\ relay'.seen = relay.seen /\ sub' = sub /\ viewer' = viewer
         \/ m \in Rows /\ Delivered(m) /\ Known(m.seq, m.value)
  BY PointerArrivesEffects DEF SameLine
<1>2. row' = row /\ attached' = attached /\ RowSeq' = RowSeq
  BY DEF PointerArrives, database, RowSeq
<1>3. RowSeq \in Nat /\ relay.seen \in Nat /\ relay.seen <= RowSeq
  BY ArriveTypes DEF Arriving, Noted
<1>4. sub.at # "off"
  BY <1>1 DEF RestInv, SubOpen
<1>5. \/ (m # None /\ m.seq = RowSeq) \/ relay.seen = RowSeq
      \/ ~relay'.up \/ relay'.notes # <<>> \/ relay'.read.at = "asked"
  BY <1>1 DEF Arriving, Answering, FreshRead
<1>6. Answering'
  BY <1>1 DEF Answering
<1>7. CASE m = None /\ relay'.seen = relay.seen /\ sub' = sub /\ viewer' = viewer
  <2>1. Taking' /\ Noted' /\ (Resolved => Resolved')
    BY <1>1, <1>2, <1>7 DEF Arriving, Taking, Noted, Resolved, Queued
  <2>2. Underway'
    BY <1>1, <1>2, <1>3, <1>4, <1>5, <1>7, <2>1, SeenResolved DEF Underway, Coming
  <2> QED
    BY <1>6, <2>1, <2>2 DEF Arriving
<1>8. CASE m \in Rows /\ Delivered(m) /\ Known(m.seq, m.value)
  <2>1. m.seq \in Nat /\ m.seq > 0 /\ m.value \in Values
    BY <1>8 DEF Rows, Messages
  <2>2. m.seq <= RowSeq
    BY <1>8, <2>1, BehindRow
  <2>3. row # None
    BY <1>3, <2>1, <2>2, ArriveTypes
  <2> HIDE DEF m
  <2>4. /\ Taking' /\ relay'.seen <= RowSeq
        /\ \/ relay'.seen = RowSeq /\ Resolved'
           \/ relay'.seen < RowSeq /\ relay.seen < RowSeq /\ m.seq # RowSeq
    BY <1>1, <1>2, <1>4, <1>8, <2>2, <2>3, ArriveDelivered, SeenResolved DEF Arriving
  <2>5. Noted'
    BY <1>1, <1>2, <2>4 DEF Arriving, Noted
  <2>6. Coming' \/ Resolved'
    BY <1>1, <1>2, <1>3, <1>5, <2>4 DEF Coming
  <2> QED
    BY <1>6, <2>4, <2>5, <2>6 DEF Arriving, Underway
<1> QED
  BY <1>1, <1>7, <1>8

(* The relay loses its connection and connects anew: it reads the row.  At  *)
(* its first LISTEN it does not, but no more than before is missed.         *)
LEMMA ArriveRelay ==
  ASSUME RestInv, Arriving, RelayLost \/ Connect \/ Reconnect
  PROVE  Arriving'
<1>1. row' = row /\ attached' = attached /\ RowSeq' = RowSeq
  BY DEF RelayLost, Connect, Reconnect, database, browser, RowSeq
<1>2. RowSeq \in Nat /\ relay.seen \in Nat /\ relay.seen <= RowSeq
  BY ArriveTypes DEF Arriving, Noted
<1>3. CASE RelayLost
  <2>1. /\ relay'.up = FALSE /\ relay'.notes = <<>> /\ relay'.seen = relay.seen
        /\ relay'.listened /\ relay'.unheard = relay.unheard /\ sub' = sub /\ viewer' = viewer
    BY <1>3, RelayLostEffects, RestParts DEF RelayLost, Relays
  <2>2. Taking' /\ Noted' /\ (Resolved => Resolved')
    BY <1>1, <2>1 DEF Arriving, Taking, Noted, Resolved, Queued
  <2>3. Answering'
    BY <2>1 DEF Answering
  <2>4. Underway'
    <3> SUFFICES ASSUME row # None, sub.at # "off" PROVE Coming' \/ Resolved'
      BY <1>1, <2>1 DEF Underway
    <3>1. CASE relay.seen = RowSeq
      BY <2>2, <3>1, SeenResolved
    <3>2. CASE relay.seen # RowSeq
      BY <1>1, <1>2, <2>1, <3>2 DEF Coming
    <3> QED
      BY <3>1, <3>2
  <2> QED
    BY <2>2, <2>3, <2>4 DEF Arriving
<1>4. CASE Reconnect
  <2>1. /\ relay'.notes = <<>> /\ relay'.seen = 0
        /\ \/ sub.at = "off" /\ relay'.read.at = "none" /\ sub' = sub /\ viewer' = viewer
           \/ sub.at # "off" /\ relay'.read.at = "asked" /\ Forwarded(Unavailable)
    BY <1>4, ReconnectEffects
  <2>2. Taking'
    <3>1. CASE sub' = sub /\ viewer' = viewer
      BY <1>1, <3>1 DEF Arriving, Taking
    <3>2. CASE Forwarded(Unavailable)
      BY <1>1, <1>2, <3>2, UnavailableType, ArriveForwarded DEF Arriving
    <3> QED
      BY <2>1, <3>1, <3>2
  <2>3. Noted' /\ Answering'
    BY <1>1, <1>2, <2>1 DEF Noted, Answering
  <2>4. Underway'
    BY <1>1, <1>2, <2>1, ArriveTypes DEF Underway, Coming
  <2> QED
    BY <2>2, <2>3, <2>4 DEF Arriving
<1>5. CASE Connect
  <2>1. /\ relay'.notes = <<>> /\ relay'.seen = 0 /\ relay'.unheard = relay.unheard
        /\ relay'.read.at = "none" /\ ~relay.listened /\ relay.notes = <<>>
        /\ relay.read.at = "none" /\ ~relay.read.again /\ sub' = sub /\ viewer' = viewer
    BY <1>5, ConnectEffects
  <2>2. Taking' /\ Noted' /\ Answering' /\ (Resolved => Resolved')
    BY <1>1, <1>2, <2>1 DEF Arriving, Taking, Noted, Answering, Resolved, Queued
  <2>3. ~Coming
    BY <2>1 DEF Coming
  <2> QED
    BY <1>1, <2>1, <2>2, <2>3 DEF Arriving, Underway
<1> QED
  BY <1>3, <1>4, <1>5

(* The read of a subscription is answered.                                  *)
LEMMA ArriveBurstRead ==
  ASSUME RestInv, Arriving, BurstRead
  PROVE  Arriving'
<1>1. /\ sub.at = "asked" /\ sub'.at = "answered" /\ sub'.burst = row
      /\ relay' = relay /\ viewer' = viewer
  BY BurstReadEffects
<1>2. row' = row /\ attached' = attached /\ RowSeq' = RowSeq
  BY DEF BurstRead, database, browser, RowSeq
<1>3. Taking' /\ Noted' /\ Answering'
  BY <1>1, <1>2 DEF Arriving, Taking, Noted, Answering, FreshRead
<1>4. row # None => Resolved'
  BY <1>1, <1>2 DEF Resolved, RowSeq
<1> QED
  BY <1>2, <1>3, <1>4 DEF Arriving, Underway

(* The burst: the browser handles it, for it has handled nothing since it   *)
(* subscribed.                                                              *)
LEMMA ArriveBurst ==
  ASSUME RestInv, Growing, lossy = {}, Arriving, Burst
  PROVE  Arriving'
<1>1. /\ sub.at = "answered" /\ relay' = relay
      /\ \/ sub.burst = None /\ viewer' = viewer
         \/ /\ sub.burst \in Rows /\ Known(sub.burst.seq, sub.burst.value)
            /\ Handled(viewer, sub.burst, viewer')
      /\ sub'.queued = sub.queued
      /\ \/ sub'.at = "on"
         \/ /\ sub'.at = "sent"
            /\ sub'.seen = IF sub.burst = None THEN 0 ELSE sub.burst.seq
  BY BurstEffects
<1>2. row' = row /\ attached' = attached /\ RowSeq' = RowSeq
  BY DEF Burst, database, RowSeq
<1>3. /\ viewer.taken = 0 /\ viewer.prev = 0 /\ RowSeq \in Nat /\ attached
  BY <1>1, ArriveTypes DEF Arriving, Taking, RestInv, SubOpen
<1>4. /\ viewer'.taken = (IF sub.burst = None THEN 0 ELSE sub.burst.seq)
      /\ viewer'.taken <= RowSeq /\ viewer'.prev \in {0, viewer'.taken}
  <2>1. CASE sub.burst = None /\ viewer' = viewer
    BY <1>3, <2>1
  <2>2. CASE /\ sub.burst \in Rows /\ Known(sub.burst.seq, sub.burst.value)
             /\ Handled(viewer, sub.burst, viewer')
    <3>1. /\ sub.burst \in Updates /\ sub.burst.seq \in Nat /\ sub.burst.seq > 0
          /\ sub.burst.value \in Values /\ sub.burst # None
      BY <2>2, RowsAreUpdates DEF Rows, Messages
    <3>2. sub.burst.seq <= RowSeq
      BY <2>2, <3>1, BehindRow
    <3> QED
      BY <1>3, <2>2, <3>1, <3>2, ArriveHandled DEF Arriving
  <2> QED
    BY <1>1, <2>1, <2>2
<1>5. Taking' /\ Noted' /\ Answering'
  BY <1>1, <1>2, <1>3, <1>4 DEF Arriving, Taking, Noted, Answering, FreshRead
<1>6. (Coming => Coming') /\ (Resolved => Resolved')
  BY <1>1, <1>2, <1>4 DEF Coming, Resolved, Queued, FreshRead
<1> QED
  BY <1>1, <1>2, <1>5, <1>6 DEF Arriving, Underway

(* An update behind the burst: it is left out only when it has been         *)
(* handled.                                                                 *)
LEMMA ArriveSendQueued ==
  ASSUME RestInv, Growing, lossy = {}, Arriving, SendQueued
  PROVE  Arriving'
<1> DEFINE u == Head(sub.queued)
<1>1. /\ sub.at = "sent" /\ sub.queued # <<>> /\ u \in Updates
      /\ u.seq = 0 \/ Known(u.seq, u.value)
      /\ relay' = relay /\ sub'.queued = Tail(sub.queued) /\ sub'.at \in {"on", "sent"}
      /\ \/ /\ u.seq = 0 /\ Handled(viewer, u, viewer')
            /\ sub'.at = "sent" => sub'.seen = sub.seen
         \/ /\ u.seq > sub.seen /\ Handled(viewer, u, viewer')
            /\ sub'.at = "sent" => sub'.seen = u.seq
         \/ /\ u.seq <= sub.seen /\ u.seq # 0 /\ viewer' = viewer
            /\ sub'.at = "sent" => sub'.seen = sub.seen
  BY SendQueuedEffects
<1> HIDE DEF u
<1>2. row' = row /\ attached' = attached /\ RowSeq' = RowSeq
  BY DEF SendQueued, database, RowSeq
<1>3. /\ viewer.taken = sub.seen /\ viewer.taken <= RowSeq /\ viewer.prev \in {0, viewer.taken}
      /\ RowSeq \in Nat /\ sub.seen \in Nat /\ attached
  BY <1>1, ArriveTypes DEF Arriving, Taking, RestInv, SubOpen
<1>4. u.seq \in Nat /\ u.value \in Values
  BY <1>1 DEF Updates, Messages
<1>5. u.seq <= RowSeq
  BY <1>1, <1>3, <1>4, BehindRow
<1>6. /\ viewer'.taken <= RowSeq /\ viewer'.prev \in {0, viewer'.taken}
      /\ sub'.at = "sent" => sub'.seen = viewer'.taken
      /\ viewer.taken <= viewer'.taken /\ u.seq <= viewer'.taken
  <2>1. CASE /\ u.seq = 0 /\ Handled(viewer, u, viewer')
             /\ sub'.at = "sent" => sub'.seen = sub.seen
    BY <1>3, <2>1 DEF Handled
  <2>2. CASE /\ u.seq > sub.seen /\ Handled(viewer, u, viewer')
             /\ sub'.at = "sent" => sub'.seen = u.seq
    BY <1>3, <1>4, <1>5, <2>2 DEF Handled
  <2>3. CASE /\ u.seq <= sub.seen /\ u.seq # 0 /\ viewer' = viewer
             /\ sub'.at = "sent" => sub'.seen = sub.seen
    BY <1>3, <1>4, <2>3
  <2> QED
    BY <1>1, <2>1, <2>2, <2>3
<1>7. Taking' /\ Noted' /\ Answering'
  BY <1>1, <1>2, <1>3, <1>6 DEF Arriving, Taking, Noted, Answering, FreshRead
<1>8. viewer'.taken \in Nat
  BY <1>3, <1>4, <1>6, <1>1 DEF Handled, Viewers
<1>9. Queued => Queued' \/ u.seq = RowSeq
  BY <1>1, <1>2, QueueShrinks DEF u
<1>10. (Coming => Coming') /\ (Resolved => Resolved')
  BY <1>1, <1>2, <1>3, <1>4, <1>6, <1>8, <1>9 DEF Coming, Resolved, FreshRead
<1> QED
  BY <1>1, <1>2, <1>7, <1>10 DEF Arriving, Underway

(* The subscription ends.                                                   *)
LEMMA ArriveLeaves ==
  ASSUME RestInv, Arriving, SubscribeFails \/ SocketLost \/ Detach
  PROVE  Arriving'
<1>1. row' = row /\ RowSeq' = RowSeq
  BY DEF SubscribeFails, SocketLost, Detach, database, RowSeq
<1>2. sub' = NoSub /\ relay' \in {Unsubscribed(relay), NewRelay}
  BY SubscribeFailsEffects, SocketLostEffects, DetachEffects
<1>3. sub'.at = "off" /\ sub.at \in {"off", "asked", "answered", "sent", "on"}
  BY <1>2, NoSubSub, NoSubType, RestParts DEF Subs
<1>4. /\ relay'.notes \in {<<>>, relay.notes} /\ relay'.seen = 0 /\ relay'.read.at = "none"
  BY <1>2, RestParts, UnsubscribedFacts, NewRelayType, NoReadType
<1>5. RowSeq \in Nat /\ viewer.taken \in Nat /\ viewer.prev \in Nat
  BY ArriveTypes
<1>6. /\ viewer'.taken <= RowSeq /\ viewer'.prev \in {0, viewer'.taken}
      /\ ~attached' => viewer'.taken = 0
  <2>1. CASE SubscribeFails
    <3>1. /\ sub.at \in {"asked", "answered"} /\ Handled(viewer, Unavailable, viewer')
      BY <2>1, SubscribeFailsEffects
    <3>2. viewer'.taken = viewer.taken /\ viewer'.prev = 0
      BY <1>5, <3>1, UnavailableType DEF Handled
    <3> QED
      BY <1>5, <3>1, <3>2 DEF Arriving, Taking
  <2>2. CASE SocketLost
    BY <2>2, SocketLostEffects DEF Arriving, Taking
  <2>3. CASE Detach
    BY <1>5, <2>3, DetachEffects
  <2> QED
    BY <2>1, <2>2, <2>3
<1>7. Taking' /\ Noted' /\ Answering' /\ Underway'
  BY <1>1, <1>3, <1>4, <1>5, <1>6 DEF Arriving, Taking, Noted, Answering, Underway
<1> QED
  BY <1>7 DEF Arriving

(* A new subscription begins.                                               *)
LEMMA ArriveReturns ==
  ASSUME RestInv, Arriving, SocketBack \/ Attach
  PROVE  Arriving'
<1>1. row' = row /\ RowSeq' = RowSeq
  BY DEF SocketBack, Attach, database, RowSeq
<1>2. sub.at = "off" /\ relay' = relay
  BY SocketBackEffects, AttachEffects DEF RestInv, SubOpen
<1>3. sub'.at \in {"off", "asked"} /\ viewer'.taken = 0 /\ viewer'.prev = 0
  <2>1. CASE SocketBack
    BY <2>1, SocketBackEffects, NoSubType
  <2>2. CASE Attach
    BY <2>2, AttachEffects, NoSubType DEF Arriving, Taking
  <2> QED
    BY <2>1, <2>2
<1>4. RowSeq \in Nat
  BY ArriveTypes
<1>5. Taking' /\ Noted' /\ Answering' /\ Underway'
  BY <1>1, <1>2, <1>3, <1>4
     DEF Arriving, Taking, Noted, Answering, FreshRead, Underway, Resolved
<1> QED
  BY <1>5 DEF Arriving

(* While no write and no read fails, every step keeps the row on its way.   *)
LEMMA ArriveStep ==
  ASSUME WorkerInv, RestInv, Growing, lossy = {} => Arriving, [Next]_vars, lossy' = {}
  PROVE  Arriving'
<1>1. lossy = {} /\ Arriving
  BY LossyGrows
<1>2. CASE \/ ActivityBegins \/ startTurn \/ Delta \/ TimerFlush \/ finalMessage
           \/ finishTurn \/ ActivityEnds \/ UNCHANGED vars
  <2>1. UNCHANGED <<row, relay, sub, attached, viewer>>
    BY <1>2 DEF ActivityBegins, startTurn, Delta, TimerFlush, finalMessage, finishTurn,
         ActivityEnds, vars, database, portal, browser
  <2> QED
    BY <1>1, <2>1, ArriveSame
<1>3. ASSUME NEW t \in Turns, Published(t)
      PROVE  Arriving'
  BY <1>1, <1>3, FlightType, ArrivePublished DEF Published, browser
<1>4. CASE GraceEnds \/ TakeEvent \/ EventAgain \/ Reload
  <2>1. UNCHANGED <<row, relay, sub, attached>>
    BY <1>4 DEF GraceEnds, TakeEvent, EventAgain, Reload, database, portal
  <2>2. ViewOnly
    BY <1>4, GraceEndsEffects, TakeEventEffects, EventAgainEffects, ReloadEffects
  <2> QED
    BY <1>1, <2>1, <2>2, ArriveSame DEF ViewOnly
<1>5. CASE \/ Notified \/ PointerRead \/ PointerArrives \/ RelayLost \/ Connect
           \/ Reconnect
  BY <1>1, <1>5, ArriveNotified, ArrivePointerRead, ArrivePointerArrives, ArriveRelay
<1>6. CASE BurstRead \/ Burst \/ SendQueued
  BY <1>1, <1>6, ArriveBurstRead, ArriveBurst, ArriveSendQueued
<1>7. CASE SubscribeFails \/ SocketLost \/ Detach \/ SocketBack \/ Attach
  BY <1>1, <1>7, ArriveLeaves, ArriveReturns
<1>8. CASE WorkerCrashes \/ DatabaseCrashes \/ LateWrite \/ PointerFails
  BY <1>8 DEF WorkerCrashes, DatabaseCrashes, LateWrite, PointerFails
<1>9. ASSUME NEW t \in Turns, PublishFails(t) \/ PublishTimesOut(t)
      PROVE  Arriving'
  BY <1>9 DEF PublishFails, PublishTimesOut
<1> QED
  BY <1>2, <1>3, <1>4, <1>5, <1>6, <1>7, <1>8, <1>9, StepKinds DEF Elsewhere

(* What the model has written reaches the row and the browser: when         *)
(* nothing is under way, the browser has handled the newest row since it    *)
(* subscribed, however notifications, pointer reads, lost connections and   *)
(* subscriptions have interleaved, unless a write or a read has failed, or  *)
(* the row was written between the burst of a subscription and the first    *)
(* LISTEN of the portal, which reads nothing (scheduleOrFlush, pump,        *)
(* pointerReads, isReconnect, the burst of subscribeLive).                  *)
THEOREM NewestReaches == Spec => []NewestArrives
<1> DEFINE Inv == WorkerInv /\ RestInv /\ Growing /\ (lossy = {} => Arriving)
<1>1. Init => Inv
  <2> SUFFICES ASSUME Init PROVE Inv
    OBVIOUS
  <2>1. Growing
    BY GrowingInit
  <2>2. Arriving
    <3>1. /\ row = None /\ relay \in {Listening, NewRelay} /\ attached = TRUE
          /\ sub \in {[NoSub EXCEPT !.at = "on"], [NoSub EXCEPT !.at = "asked"]}
          /\ viewer.taken = 0 /\ viewer.prev = 0
      BY DEF Init
    <3>2. RowSeq = 0 /\ relay.seen = 0 /\ relay.notes = <<>> /\ relay.read.at = "none"
      BY <3>1, NewRelayType, NoReadType DEF RowSeq
    <3>3. sub.at \in {"on", "asked"}
      BY <3>1, NoSubType
    <3> QED
      BY <3>1, <3>2, <3>3 DEF Arriving, Taking, Noted, Answering, Underway
  <2> QED
    BY <2>1, <2>2, WorkerInit, RestInit
<1>2. Inv /\ [Next]_vars => Inv'
  BY WorkerStep, RestStep, GrowingStep, ArriveStep DEF WorkerGoal
<1>3. Inv => NewestArrives
  <2> SUFFICES ASSUME Inv, Settled, lossy = {}, sub.at = "on"
               PROVE  /\ live.sent = live.text
                      /\ row = None \/ row.seq \in {viewer.taken, relay.unheard}
    BY DEF NewestArrives
  <2>1. live.sent = live.text
    BY DEF WorkerInv, LiveOK, Settled
  <2>2. ~relay.read.again /\ sub.queued = <<>>
    BY RestParts DEF Settled, Relays, Subs
  <2>3. ~Coming /\ ~Queued
    BY <2>2 DEF Settled, Coming, Queued
  <2>4. row # None => RowSeq \in {viewer.taken, relay.unheard}
    BY <2>3 DEF Arriving, Underway, Resolved
  <2> QED
    BY <2>1, <2>4 DEF RowSeq
<1> QED
  BY <1>1, <1>2, <1>3, PTL DEF Spec
=============================================================================
