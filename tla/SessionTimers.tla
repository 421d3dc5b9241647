---------------------------- MODULE SessionTimers ----------------------------
(***************************************************************************)
(* The one timer slot of a durable session (queue.ts, turn.ts, lifecycle.ts  *)
(* and runtime.ts of the orchestration): waits of the agent, pauses by the   *)
(* budget gate, cron and wall-clock (cron_at) schedules, the hold window     *)
(* (idle) and the grace period of a question.  Messages interrupt the armed  *)
(* timer, timers that have fired queue up in the work FIFO behind prompts,   *)
(* child updates are digested, and a continue-as-new rebuilds the timer.     *)
(*                                                                          *)
(* Time passes in ticks while a turn runs or the session is parked; a timer  *)
(* counts the ticks that are left.  The messages themselves (SessionMessages) *)
(* and the poll of sub-agents (AgentWait) are left out, and so are the tries *)
(* of a failing turn: between two tries no timer is armed.  "pause" is a     *)
(* wait timer that the budget gate asked for; the code tells it from an      *)
(* agent's own wait by the flag `budget` only.                               *)
(***************************************************************************)
EXTENDS Integers, Sequences

CONSTANTS
  Second,        \* ticks in a second
  WaitSeconds,   \* what an agent may ask to wait for
  PauseSeconds,  \* how long a pause lasts
  Interval,      \* ticks between two wake-ups of a cron schedule
  Period,        \* ticks between two occurrences of a wall-clock schedule
  MaxFires,      \* maxFires of a wall-clock schedule
  Hold,          \* ticks of the hold window (idleTimeout); negative: there is none
  LongHold,      \* ticks of the hold after a question where Hold is not positive
  Grace,         \* ticks of the grace period of a question; negative: there is none
  Window,        \* ticks in which a digest waits for the session's own wake-up
  Kinds,         \* the kinds of message that are sent
  Results,       \* the results that turns have
  MaxMessages    \* bound: messages

ASSUME TimerConstants ==
  /\ Second \in Nat \ {0} /\ WaitSeconds \subseteq Nat \ {0} /\ PauseSeconds \in Nat \ {0}
  /\ Interval \in Nat \ {0} /\ Period \in Nat \ {0} /\ MaxFires \in Nat \ {0}
  /\ Hold \in Int /\ LongHold \in Nat /\ Grace \in Int /\ Window \in Nat
  /\ Kinds \subseteq {"prompt", "answer", "update", "failure", "report", "set_model"}
  /\ Results \subseteq {"completed", "stopped", "wait", "refused", "asks", "cancelled", "failed"}
  /\ MaxMessages \in Nat

VARIABLES
  pc,        \* where the loop is: "top", "drain", "decide" or "turn"
  timer,     \* activeTimer
  held,      \* interruptedWaitTimer, in seconds; -1: there is none
  heldCron,  \* interruptedCronTimer, in ticks; -1: there is none
  schedule,  \* which of cronSchedule and cronAtSchedule is set, if any
  at,        \* cronAtSchedule: see below
  fifo,      \* the work FIFO: prompts, answers and timers that have fired
  pending,   \* pendingPrompt
  question,  \* pendingInputQuestion
  digest,    \* pendingChildDigest
  sent,      \* how many messages have been taken
  \* Observation; no action reads it.
  cause,     \* what the turn that runs was started by
  owed,      \* the agent's last wait has not been served yet
  lost,      \* how the wait that is owed was lost
  lapsed,    \* why the last turn, or a timer that fired late, has not left the
             \* session with its next timer
  leftover,  \* a wall-clock fire was queued, or is armed, that has no occurrence
             \* of its own
  fresh,     \* an occurrence of the schedule has passed since its last fire
  unflagged  \* a pause has lost its flag

slot  == <<timer, held, heldCron, schedule, at>>
work  == <<fifo, pending, question, digest>>
ghost == <<cause, owed, lost, lapsed, leftover, fresh, unflagged>>
vars == <<pc, slot, work, sent, ghost>>

-----------------------------------------------------------------------------
Timer(type, left, budget) == [type |-> type, left |-> left, budget |-> budget]
NoTimer == Timer("none", 0, FALSE)
NoHeld == [type |-> "none", left |-> -1, budget |-> FALSE]

Armed == timer # NoTimer
IsWait(t) == t.type \in {"wait", "pause"}

(* The timers whose expiry runs a turn (TURN_RUNNING_TIMER_TYPES).          *)
RunsTurn(t) == IsWait(t) \/ t.type \in {"cron", "cron_at"}

(* Math.round of the ticks that are left, in seconds.                       *)
InSeconds(ticks) == (2 * ticks + Second) \div (2 * Second)

(* An occurrence is named by its place from now on: 1 is the next one, 0 is *)
(* any that has passed, -1 is none.  `at` holds the one the schedule waits  *)
(* for (nextOccurrenceKey), the last one it fired for, firesCompleted, and  *)
(* the ticks to the next occurrence on the wall.                            *)
NewAt(to) == [next |-> 1, last |-> 0, fires |-> 0, to |-> to]
NoAt == [next |-> -1, last |-> 0, fires |-> 0, to |-> Period]
Until(a, n) == IF n = 0 THEN 0 ELSE a.to + (n - 1) * Period
Passed(n) == IF n >= 1 THEN n - 1 ELSE n

(* The next occurrence that is not the last one fired.                      *)
computeCronAtNextFire(last) == IF last = 1 THEN 2 ELSE 1

Messages == {"prompt", "answer", "remark"}
Queued(kind) == \E n \in DOMAIN fifo : fifo[n] = kind
Without(n) == [m \in 1 .. Len(fifo) - 1 |-> IF m < n THEN fifo[m] ELSE fifo[m + 1]]

-----------------------------------------------------------------------------
(* Time passes while a turn runs or the session is parked.                  *)

(* drain waits for a timer, a digest, or just for a message.                *)
Parked ==
  /\ pc = "drain"
  /\ IF Armed THEN timer.left > 0
     ELSE digest \in {"buffered", "urgent"} \/ (fifo = <<>> /\ ~pending /\ digest = "none")

Tick ==
  /\ pc = "turn" \/ Parked
  /\ timer' = IF timer.left > 0 THEN [timer EXCEPT !.left = @ - 1] ELSE timer
  /\ at' = IF schedule # "cron_at" THEN at
           ELSE IF at.to > 1 THEN [at EXCEPT !.to = @ - 1]
           ELSE [at EXCEPT !.next = Passed(@), !.last = Passed(@), !.to = Period]
  /\ fresh' = (fresh \/ (schedule = "cron_at" /\ at.to = 1))
  /\ UNCHANGED <<pc, held, heldCron, schedule, work, sent,
                 cause, owed, lost, lapsed, leftover, unflagged>>

-----------------------------------------------------------------------------
(* The loop (runLoop): the history may have grown too long, or the loop may *)
(* have run too often, and the execution continues as new; so it does when  *)
(* it finds nothing to do.  The timer is rebuilt without its flag.          *)

LoopTop ==
  /\ pc = "top"
  /\ pc' = "drain"
  /\ UNCHANGED <<slot, work, sent, ghost>>

versionedContinueAsNew ==
  /\ pc = "top"
  /\ pc' = "drain"
  /\ timer' = [timer EXCEPT !.budget = FALSE]
  /\ unflagged' = (unflagged \/ timer.budget)
  /\ UNCHANGED <<held, heldCron, schedule, at, work, sent,
                 cause, owed, lost, lapsed, leftover, fresh>>

-----------------------------------------------------------------------------
(* drain: an armed timer that is due is queued before anything else; until  *)
(* then a message may win the race.  With a timer armed, drain waits for it *)
(* whatever the FIFO holds.                                                 *)

TimerFires ==
  /\ pc = "drain"
  /\ Armed /\ timer.left = 0
  /\ fifo' = Append(fifo, timer.type)
  /\ timer' = NoTimer
  /\ leftover' = (leftover \/ (timer.type = "cron_at" /\ Queued("cron_at")))
  /\ UNCHANGED <<pc, held, heldCron, schedule, at, pending, question, digest, sent,
                 cause, owed, lost, lapsed, fresh, unflagged>>

Takes(kind) ==
  /\ pc = "drain"
  /\ Armed => timer.left > 0
  /\ kind \in Kinds
  /\ sent < MaxMessages
  /\ sent' = sent + 1

(* Bug: an interrupted wait is not saved.                                   *)
InterruptWithoutSaving(flag) ==
  /\ timer' = IF RunsTurn(timer) \/ timer.type = "idle" THEN NoTimer ELSE timer
  /\ UNCHANGED <<held, heldCron, lost, unflagged>>

(* A prompt or a digest takes the place of the timer: what a wait or a cron *)
(* has left is saved, a wall-clock timer and a hold are dropped, a grace    *)
(* period goes on.  `flag` is what is saved of the budget flag.             *)
Interrupt(flag) ==
  /\ timer' = IF RunsTurn(timer) \/ timer.type = "idle" THEN NoTimer ELSE timer
  /\ held' = IF IsWait(timer)
               THEN [type |-> timer.type, left |-> InSeconds(timer.left), budget |-> flag]
               ELSE held
  /\ heldCron' = IF timer.type = "cron" THEN timer.left ELSE heldCron
  /\ lost' = IF timer.type = "wait" /\ InSeconds(timer.left) = 0 THEN "rounded" ELSE lost
  /\ unflagged' = (unflagged \/ (timer.budget /\ ~flag))

TakePrompt ==
  /\ Takes("prompt")
  /\ Interrupt(timer.budget)
  /\ digest' = "none"
  /\ fifo' = Append(fifo, "prompt")
  /\ UNCHANGED <<pc, schedule, at, pending, question, cause, owed, lapsed, leftover, fresh>>

(* An answer ends the hold for its question and the drain; without a        *)
(* question it is a message like others.                                    *)
TakeAnswer ==
  LET ends == question /\ timer.type \in {"input-grace", "idle"}
  IN  /\ Takes("answer")
      /\ timer' = IF ends THEN NoTimer ELSE timer
      /\ fifo' = Append(fifo, IF question THEN "answer" ELSE "remark")
      /\ pc' = IF ends THEN "decide" ELSE pc
      /\ UNCHANGED <<held, heldCron, schedule, at, pending, question, digest, ghost>>

(* A child update is buffered.  The first report of the last child that was *)
(* still at work makes the digest ready.                                    *)
TakeChildUpdate(kind) ==
  /\ kind \in {"update", "failure", "report"}
  /\ Takes(kind)
  /\ digest' = IF kind = "report" \/ digest = "ready" THEN "ready"
               ELSE IF kind = "failure" \/ digest = "urgent" THEN "urgent"
               ELSE "buffered"
  /\ UNCHANGED <<pc, slot, fifo, pending, question, ghost>>

(* captureModelSwitchInterruptedTimer, for set_model and the flip of a      *)
(* regeneration; a prompt of the system's own is carried over.              *)
TakeSetModel ==
  /\ Takes("set_model")
  /\ timer' = NoTimer
  /\ held' = IF IsWait(timer)
               THEN [type |-> timer.type, left |-> IF InSeconds(timer.left) > 1
                                                     THEN InSeconds(timer.left) ELSE 1,
                     budget |-> FALSE]
               ELSE held
  /\ heldCron' = IF timer.type = "cron" THEN timer.left ELSE heldCron
  /\ pending' = TRUE
  /\ unflagged' = (unflagged \/ timer.budget)
  /\ UNCHANGED <<pc, schedule, at, fifo, question, digest,
                 cause, owed, lost, lapsed, leftover, fresh>>

(* nextTimerCandidate: a digest without an error waits for a turn of the    *)
(* session's own that is about to come.                                     *)
HeldForTimer == digest = "buffered" /\ RunsTurn(timer) /\ timer.left <= Window

(* The batch window of a digest ends; it ends the drain.                    *)
DigestReady ==
  /\ pc = "drain"
  /\ digest \in {"buffered", "urgent"}
  /\ ~HeldForTimer
  /\ Armed => timer.left > 0
  /\ digest' = "ready"
  /\ pc' = "decide"
  /\ UNCHANGED <<slot, fifo, pending, question, sent, ghost>>

(* Bug: a timer that has fired does not end the drain.                      *)
DrainEndsForMessages ==
  /\ pc = "drain"
  /\ ~Armed
  /\ digest \notin {"buffered", "urgent"}
  /\ (\E n \in DOMAIN fifo : fifo[n] \in Messages) \/ pending \/ digest = "ready"
  /\ pc' = "decide"
  /\ UNCHANGED <<slot, work, sent, ghost>>

(* No message is there and none is waited for.                              *)
DrainEnds ==
  /\ pc = "drain"
  /\ ~Armed
  /\ digest \notin {"buffered", "urgent"}
  /\ fifo # <<>> \/ pending \/ digest = "ready"
  /\ pc' = "decide"
  /\ UNCHANGED <<slot, work, sent, ghost>>

-----------------------------------------------------------------------------
(* decide: a carried prompt, a message, a timer that has fired, a digest.   *)

StartTurn(what) ==
  /\ pc' = "turn"
  /\ cause' = what

FirstMessage(n) == fifo[n] \in Messages /\ \A m \in 1 .. n - 1 : fifo[m] \notin Messages

DispatchPending ==
  /\ pc = "decide"
  /\ pending
  /\ pending' = FALSE
  /\ StartTurn("carried")
  /\ UNCHANGED <<slot, fifo, question, digest, sent, owed, lost, lapsed, leftover, fresh, unflagged>>

(* Messages overtake the timers; the prompts that are then at the head of   *)
(* the FIFO go with a prompt.                                               *)
LeadingPrompts(s, k) ==
  /\ k \in 0 .. Len(s)
  /\ \A m \in 1 .. k : s[m] = "prompt"
  /\ k < Len(s) => s[k + 1] # "prompt"

DispatchMessage ==
  /\ pc = "decide"
  /\ ~pending
  /\ \E n \in DOMAIN fifo, merged \in 0 .. Len(fifo) :
       LET rest == Without(n)
       IN  /\ FirstMessage(n)
           /\ IF fifo[n] = "prompt" THEN LeadingPrompts(rest, merged) ELSE merged = 0
           /\ fifo' = SubSeq(rest, merged + 1, Len(rest))
           /\ question' = (question /\ fifo[n] # "answer")
           /\ StartTurn("message")
  /\ UNCHANGED <<slot, pending, digest, sent, owed, lost, lapsed, leftover, fresh, unflagged>>

(* processTimer                                                             *)
Pops(types) ==
  /\ pc = "decide"
  /\ ~pending
  /\ fifo # <<>>
  /\ \A n \in DOMAIN fifo : fifo[n] \notin Messages
  /\ Head(fifo) \in types
  /\ fifo' = Tail(fifo)

WaitCompletes ==
  /\ Pops({"wait", "pause"})
  /\ digest' = "none"
  /\ StartTurn(Head(fifo))
  /\ owed' = IF Head(fifo) = "wait"
               THEN owed /\ (timer.type = "wait" \/ (held.type = "wait" /\ held.left > 0))
               ELSE owed
  /\ UNCHANGED <<slot, pending, question, sent, lost, lapsed, leftover, fresh, unflagged>>

CronFires ==
  /\ Pops({"cron"})
  /\ IF schedule = "cron"
       THEN /\ digest' = "none"
            /\ StartTurn("cron")
       ELSE /\ pc' = "top"
            /\ UNCHANGED <<digest, cause>>
  /\ UNCHANGED <<slot, pending, question, sent, owed, lost, lapsed, leftover, fresh, unflagged>>

(* Bug: the occurrence that has fired is not forgotten.                     *)
FiredKeepsNext == [at EXCEPT !.fires = @ + 1]

(* The occurrence is the one the schedule names now, whatever timer this    *)
(* was.                                                                     *)
Fired ==
  [at EXCEPT !.next = -1, !.last = IF at.next >= 0 THEN at.next ELSE @, !.fires = @ + 1]

(* Bug: one fire too many.                                                  *)
ExhaustedLate == Fired.fires > MaxFires

Exhausted == Fired.fires >= MaxFires

CronAtFires ==
  /\ Pops({"cron_at"})
  /\ IF schedule = "cron_at"
       THEN /\ IF Exhausted
                 THEN schedule' = "none" /\ at' = NoAt
                 ELSE at' = Fired /\ UNCHANGED schedule
            /\ digest' = "none"
            /\ StartTurn("cron_at")
            /\ fresh' = FALSE
       ELSE /\ pc' = "top"
            /\ UNCHANGED <<schedule, at, digest, cause, fresh>>
  /\ UNCHANGED <<timer, held, heldCron, pending, question, sent,
                 owed, lost, lapsed, leftover, unflagged>>

(* The hold window has ended (releaseAffinity), or the grace period of a    *)
(* question.  Either takes the slot, whatever timer is armed by now.        *)
TakesSlot(new) ==
  /\ timer' = new
  /\ lost' = IF timer.type = "wait" THEN "displaced" ELSE lost
  /\ lapsed' = IF RunsTurn(timer) THEN lapsed \union {"displaced"} ELSE lapsed
  /\ pc' = "top"
  /\ UNCHANGED <<held, heldCron, schedule, at, pending, question, digest, sent,
                 cause, owed, leftover, fresh, unflagged>>

HoldEnds ==
  /\ Pops({"idle"})
  /\ TakesSlot(NoTimer)

HoldForAnswer == IF Hold > 0 THEN Hold ELSE LongHold

GraceEnds ==
  /\ Pops({"input-grace"})
  /\ TakesSlot(Timer("idle", HoldForAnswer, FALSE))

(* A digest that is worth no turn is dropped.                               *)
SuppressDigest ==
  /\ pc = "decide"
  /\ ~pending
  /\ fifo = <<>>
  /\ digest = "ready"
  /\ digest' = "none"
  /\ pc' = "top"
  /\ UNCHANGED <<slot, fifo, pending, question, sent, ghost>>

processPendingChildDigest ==
  /\ pc = "decide"
  /\ ~pending
  /\ fifo = <<>>
  /\ digest = "ready"
  /\ digest' = "none"
  /\ Interrupt(FALSE)
  /\ StartTurn("digest")
  /\ UNCHANGED <<schedule, at, fifo, pending, question, sent, owed, lapsed, leftover, fresh>>

-----------------------------------------------------------------------------
(* The turn ends (handleTurnResult, handleTurnStopped).                     *)

Ends(result) ==
  /\ pc = "turn"
  /\ result \in Results
  /\ pc' = "top"

(* A wait may still be armed when a turn ends that an answer nobody had     *)
(* asked for has started: the timer after the turn takes its place.         *)
Overwrites == lost' = IF timer.type = "wait" THEN "displaced" ELSE lost

(* The schedule actions of the turn are applied before its result           *)
(* (applyCronAction, applyCronAtAction).                                    *)
Changes ==
  {[schedule |-> schedule, at |-> at, rest |-> heldCron],
   [schedule |-> "cron", at |-> NoAt, rest |-> -1],
   [schedule |-> "none", at |-> NoAt, rest |-> -1]}
  \union {[schedule |-> "cron_at", at |-> NewAt(to), rest |-> -1] : to \in 1 .. Period}
NoChange == [schedule |-> schedule, at |-> at, rest |-> heldCron]

(* A new schedule has no occurrence that has passed, but a fire of an older *)
(* wall-clock schedule may still be queued, or its timer is the one that    *)
(* stays armed.                                                             *)
Observes(change, armed) ==
  /\ leftover' = (leftover \/ (/\ change # NoChange /\ change.schedule = "cron_at"
                               /\ armed = "cron_at" \/ Queued("cron_at")))
  /\ fresh' = (fresh /\ change = NoChange)

Applies(change, armed) ==
  /\ schedule' = change.schedule
  /\ at' = change.at
  /\ heldCron' = change.rest
  /\ Observes(change, armed)

(* Bug: a pause is resumed like any other wait.                             *)
OwingAny == held

(* What an interrupted wait still owes; a pause owes nothing.               *)
Owing == IF held.budget THEN NoHeld ELSE held

(* The timer after a turn (schedulePostTurnContinuation): an interrupted    *)
(* wait, an interrupted cron, the schedule, or the hold window.             *)
schedulePostTurnContinuation(change) ==
  LET next == IF change.at.next >= 0 THEN change.at.next
              ELSE computeCronAtNextFire(change.at.last)
      resumesWait == Owing.left > 0
      resumesCron == ~resumesWait /\ change.rest > 0
      armsCronAt == ~resumesWait /\ ~resumesCron /\ change.schedule = "cron_at"
  IN  /\ timer' = IF resumesWait THEN Timer(held.type, held.left * Second, FALSE)
                  ELSE IF resumesCron THEN Timer("cron", change.rest, FALSE)
                  ELSE IF armsCronAt THEN Timer("cron_at", Until(change.at, next), FALSE)
                  ELSE IF change.schedule = "cron" THEN Timer("cron", Interval, FALSE)
                  ELSE IF Hold >= 0 THEN Timer("idle", Hold, FALSE) ELSE timer
      /\ held' = IF resumesWait THEN NoHeld ELSE Owing
      /\ heldCron' = IF resumesCron THEN -1 ELSE change.rest
      /\ at' = IF armsCronAt THEN [change.at EXCEPT !.next = next] ELSE change.at
      /\ schedule' = change.schedule
      /\ Observes(change, "none")
      /\ lapsed' = IF resumesCron /\ change.schedule = "cron_at" THEN {"stale"} ELSE {}
      /\ Overwrites

TurnCompletes(change) ==
  /\ Ends("completed")
  /\ schedulePostTurnContinuation(change)
  /\ UNCHANGED <<work, sent, cause, owed, unflagged>>

(* Bug: a stop leaves the session as it is.                                 *)
StopAndForget ==
  /\ Ends("stopped")
  /\ UNCHANGED <<slot, work, sent, ghost>>

(* A stop wins the race with the turn; its schedule actions are lost.       *)
TurnStopped ==
  /\ Ends("stopped")
  /\ schedulePostTurnContinuation(NoChange)
  /\ UNCHANGED <<work, sent, cause, owed, unflagged>>

TurnWaits(seconds, change) ==
  /\ Ends("wait")
  /\ Applies(change, "none")
  /\ timer' = Timer("wait", seconds * Second, FALSE)
  /\ held' = NoHeld
  /\ owed' = TRUE
  /\ lost' = "none"
  /\ lapsed' = {}
  /\ UNCHANGED <<work, sent, cause, unflagged>>

(* The gate has refused the turn: a pause takes the place of every wait.    *)
TurnRefused ==
  /\ Ends("refused")
  /\ timer' = Timer("pause", PauseSeconds * Second, TRUE)
  /\ held' = NoHeld
  /\ lost' = IF held.type = "wait" /\ held.left > 0 THEN "refused"
             ELSE IF timer.type = "wait" THEN "displaced" ELSE lost
  /\ lapsed' = {}
  /\ unflagged' = FALSE
  /\ UNCHANGED <<heldCron, schedule, at, work, sent, cause, owed, leftover, fresh>>

(* A question: answers to an older one no longer fit.  Without a grace      *)
(* period the slot is left as it is.                                        *)
TurnAsks(change) ==
  /\ Ends("asks")
  /\ question' = TRUE
  /\ fifo' = [n \in DOMAIN fifo |-> IF fifo[n] = "answer" THEN "remark" ELSE fifo[n]]
  /\ timer' = IF Grace > 0 THEN Timer("input-grace", Grace, FALSE)
              ELSE IF Grace = 0 THEN Timer("idle", HoldForAnswer, FALSE) ELSE timer
  /\ Applies(change, timer'.type)
  /\ lapsed' = {"asked"}
  /\ Overwrites
  /\ UNCHANGED <<held, pending, digest, sent, cause, owed, unflagged>>

(* The activity was cancelled, or the turn failed for good: nothing is      *)
(* armed.                                                                   *)
TurnAbandoned(result) ==
  /\ Ends(result)
  /\ result \in {"cancelled", "failed"}
  /\ lapsed' = {result}
  /\ UNCHANGED <<slot, work, sent, cause, owed, lost, leftover, fresh, unflagged>>

-----------------------------------------------------------------------------
Init ==
  /\ pc = "turn"
  /\ timer = NoTimer
  /\ held = NoHeld
  /\ heldCron = -1
  /\ schedule = "none"
  /\ at = NoAt
  /\ fifo = <<>>
  /\ pending = FALSE
  /\ question = FALSE
  /\ digest = "none"
  /\ sent = 0
  /\ cause = "message"
  /\ owed = FALSE
  /\ lost = "none"
  /\ lapsed = {}
  /\ leftover = FALSE
  /\ fresh = FALSE
  /\ unflagged = FALSE

drain ==
  \/ TimerFires
  \/ TakePrompt
  \/ TakeAnswer
  \/ \E kind \in Kinds : TakeChildUpdate(kind)
  \/ TakeSetModel
  \/ DigestReady
  \/ DrainEnds

decide ==
  \/ DispatchPending
  \/ DispatchMessage
  \/ WaitCompletes
  \/ CronFires
  \/ CronAtFires
  \/ HoldEnds
  \/ GraceEnds
  \/ SuppressDigest
  \/ processPendingChildDigest

handleTurnResult ==
  \/ \E change \in Changes : TurnCompletes(change) \/ TurnAsks(change)
  \/ \E change \in Changes, seconds \in WaitSeconds : TurnWaits(seconds, change)
  \/ TurnStopped
  \/ TurnRefused
  \/ \E result \in Results : TurnAbandoned(result)

Next == Tick \/ LoopTop \/ versionedContinueAsNew \/ drain \/ decide \/ handleTurnResult

Spec == Init /\ [][Next]_vars

(* The loop runs on, time passes, turns end, and a session whose turns are  *)
(* run again and again completes one at some time: its agent does not wait  *)
(* for ever, and its budget is renewed (provider-budgets.ts).               *)
Fairness ==
  /\ WF_vars(LoopTop \/ versionedContinueAsNew)
  /\ WF_vars(TimerFires \/ DigestReady \/ DrainEnds)
  /\ WF_vars(decide)
  /\ WF_vars(Tick)
  /\ SF_vars(\E change \in Changes : TurnCompletes(change))

FairSpec == Spec /\ Fairness

-----------------------------------------------------------------------------
TimerTypes == {"none", "wait", "pause", "cron", "cron_at", "idle", "input-grace"}

(* The state has its types: at most one of a wait and a pause is held, and  *)
(* a wall-clock schedule never fires more than maxFires times.              *)
TypeOK ==
  /\ pc \in {"top", "drain", "decide", "turn"}
  /\ timer \in [type : TimerTypes, left : Nat, budget : BOOLEAN]
  /\ held \in [type : {"none", "wait", "pause"}, left : Nat \union {-1}, budget : BOOLEAN]
  /\ heldCron \in -1 .. Interval
  /\ schedule \in {"none", "cron", "cron_at"}
  /\ at \in [next : -1 .. 2, last : 0 .. 2, fires : 0 .. MaxFires - 1, to : 1 .. Period]
  /\ \A n \in DOMAIN fifo : fifo[n] \in Messages \union TimerTypes
  /\ digest \in {"none", "buffered", "urgent", "ready"}
  /\ sent \in 0 .. MaxMessages

(* A recurring session never falls asleep for good: when nothing is queued  *)
(* and drain parks, a session with a schedule has a timer armed that runs a *)
(* turn, unless its last turn asked a question, was cancelled or failed for *)
(* good, the late expiry of a hold or a grace period took the slot, or the  *)
(* cron that was resumed is of an older schedule: one whose timer a         *)
(* question without a grace period has left in the slot.                    *)
RecurringAlive ==
  Parked /\ schedule # "none" /\ fifo = <<>> /\ ~pending /\ digest = "none" =>
    RunsTurn(timer) \/ lapsed # {}

(* The wait an agent asked for is armed, held or queued until it is served  *)
(* or replaced.  It is lost in three ways: it was interrupted less than     *)
(* half a second before its end, the gate refused the turn that interrupted *)
(* it, or another timer took the slot: after the late expiry of a hold or a *)
(* grace period, or after a turn that an answer nobody asked for started.   *)
WaitKept ==
  owed => \/ timer.type = "wait"
          \/ held.type = "wait" /\ held.left > 0
          \/ Queued("wait")
          \/ lost # "none"

(* A pause that was interrupted is over as soon as a turn has run: it is    *)
(* armed again only if its flag was lost on the way.                        *)
PauseNotResumed ==
  [][pc = "turn" /\ timer'.type = "pause" /\ ~timer'.budget => unflagged]_vars

(* A wall-clock schedule wakes its session once for an occurrence and not   *)
(* before its time, unless a fire without an occurrence of its own is       *)
(* queued: one that was armed again while it waited in the FIFO, or one of  *)
(* an older schedule, queued or still armed when the schedule was replaced. *)
WallClockOnTime ==
  [][cause' = "cron_at" /\ pc' = "turn" /\ pc # "turn" => (at.next = 0 /\ fresh) \/ leftover]_vars

(* A cron schedule wakes its session again and again, whatever messages,    *)
(* child updates, waits and pauses come between, until it is replaced or    *)
(* the session lapses.                                                      *)
CronKeepsWaking ==
  schedule = "cron" ~> schedule # "cron" \/ lapsed # {} \/ (pc = "turn" /\ cause = "cron")
=============================================================================
