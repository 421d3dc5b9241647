--------------------------- MODULE SessionMessages ---------------------------
(***************************************************************************)
(* What happens to a client's message inside a durable session             *)
(* (orchestration/queue.ts, runtime.ts and the retry path of turn.ts).     *)
(*                                                                         *)
(* Clients enqueue prompts, cancellations ("tombstones") and commands on   *)
(* the session's durable queue.  One execution of the orchestration loops: *)
(* `drain` moves prompts from the queue to a stash and then to the durable *)
(* FIFO, `decide` takes the oldest prompt, sweeps the queue once more for  *)
(* a late tombstone, merges the prompts behind it and runs a turn.  A      *)
(* continue-as-new (CAN) replaces the execution: what it does not carry,   *)
(* and what is neither in the queue nor in the FIFO, is gone.              *)
(*                                                                         *)
(* The FIFO is the sequence that module WorkFifo stores in buckets; it     *)
(* holds prompts and fired timers.  Every prompt carries one client        *)
(* message id.  A timer is only armed or not, and its expiry may run a     *)
(* turn (wait, cron) or not (hold, poll).  Answers and child updates       *)
(* belong to other modules.                                                *)
(***************************************************************************)
EXTENDS Integers, Sequences, FiniteSets

CONSTANTS
  Ids,          \* client message ids
  NoId,         \* what a fired timer has instead
  Kickoffs,     \* ids of prompts flagged `bootstrap` (an agent's own kickoff)
  Commands,     \* commands a client may send
  RecentLimit,  \* RECENT_CLIENT_MESSAGE_ID_LIMIT
  MaxRetries,   \* MAX_RETRIES
  MaxLoops,     \* MAX_ITERATIONS_PER_EXECUTION
  CheckEvery,   \* HISTORY_SIZE_CHECK_INTERVAL_ITERATIONS
  MaxDrain,     \* MAX_DRAIN_PER_TURN and MAX_PREDISPATCH_SWEEP
  MaxSends,     \* bound: prompts sent, repeated ones included
  MaxCommands   \* bound: commands sent

ASSUME SessionMessagesConstants ==
  /\ Kickoffs \subseteq Ids
  /\ NoId \notin Ids
  /\ Commands \subseteq {"set_model", "regenerate", "cancel_regen", "get_info", "done"}
  /\ RecentLimit \in Nat \ {0}
  /\ MaxRetries \in Nat \ {0}
  /\ MaxLoops \in Nat \ {0}
  /\ CheckEvery \in Nat \ {0}
  /\ MaxDrain \in Nat \ {0}
  /\ MaxSends \in Nat
  /\ MaxCommands \in Nat

VARIABLES
  \* The clients and the durable queue.
  inbox,      \* the queue "messages"
  sent,       \* ids sent
  sends,      \* how many prompts were sent
  cancels,    \* ids the client asked to cancel
  commands,   \* how many commands were sent
  \* Carried over a continue-as-new, or stored in the session's key/value store.
  fifo,       \* the durable FIFO
  recent,     \* recentClientMessageIds
  carried,    \* prompts whose turn failed and will be retried (pendingPrompt)
  note,       \* an internal prompt is pending ("Continue on ...", grounding)
  timer,      \* an active timer is armed
  regen,      \* stage of a pending regeneration, or "none"
  retryCount,
  \* One execution's memory.
  pc,
  loops,      \* loopIteration
  taken,      \* messages this drain or sweep took
  stash,      \* prompts this drain or sweep accepted
  pending,    \* pendingClientMessageIds of this drain or sweep
  held,       \* the prompt decide took off the FIFO
  tomb,       \* cancelledMessageIds
  turn,       \* the prompts in the running turn, or in the one being put together
  \* Observations; no action reads them.
  accepted,   \* prompts accepted so far; prompt number n was the n-th
  ran,        \* prompts in the order in which their turn was dispatched
  dropped,    \* numbers of the prompts a tombstone dropped
  swept,      \* numbers of the prompts a model switch lost in the sweep
  evicted,    \* ids that fell out of the duplicate window
  seen,       \* ids whose tombstone the session consumed
  forgotten,  \* ids whose tombstone a continue-as-new discarded
  ranSeen     \* ids dispatched after their tombstone was consumed

clientVars == <<sent, sends, cancels, commands>>
passVars   == <<taken, stash, pending>>
obsVars    == <<accepted, ran, dropped, swept, evicted, seen, forgotten, ranSeen>>
vars == <<inbox, clientVars, fifo, recent, carried, note, timer, regen, retryCount,
          pc, loops, passVars, held, tomb, turn, obsVars>>

Prompt == [id : Ids, n : Nat]

Fired == [id |-> NoId, n |-> 0]

Item == Prompt \union {Fired}

Message == [type : {"prompt", "cancel"}, id : Ids] \union [type : {"cmd"}, cmd : Commands]

Stages == {"none", "requested", "archived", "distilled"}

-----------------------------------------------------------------------------
IsPrompt(item) == item.id \in Ids

(* The positions, the ids and the numbers of the prompts in a sequence.     *)
PromptsIn(s) == {i \in DOMAIN s : IsPrompt(s[i])}

IdsOf(s) == {s[i].id : i \in PromptsIn(s)}

NumbersOf(s) == {s[i].n : i \in PromptsIn(s)}

(* What a filter makes of a sequence whose positions D pass it, as the only *)
(* element of a set: D enumerated in its order.                             *)
Enumerations(D) ==
  {f \in [1 .. Cardinality(D) -> D] : \A i, j \in DOMAIN f : i < j => f[i] < f[j]}

Filtered(s, D) == {[i \in 1 .. Cardinality(D) |-> s[f[i]]] : f \in Enumerations(D)}

Bootstrap(item) == item.id \in Kickoffs

LastOf(s, k) == IF Len(s) <= k THEN s ELSE SubSeq(s, Len(s) - k + 1, Len(s))

(* touchRecentClientMessageIds: the ids move, or are added, to the end of   *)
(* the window, which gives up its oldest ones.                              *)
Touch(ids) ==
  \E others \in Filtered(recent, {i \in DOMAIN recent : \A j \in DOMAIN ids : recent[i] # ids[j]}) :
    LET touched == others \o ids IN
    /\ recent' = LastOf(touched, RecentLimit)
    /\ evicted' = (evicted \union {touched[i] : i \in 1 .. Len(touched) - RecentLimit})

TouchPrompts(s) ==
  \E prompts \in Filtered(s, PromptsIn(s)) : Touch([i \in DOMAIN prompts |-> prompts[i].id])

(* Bug: the ids are recorded, the items are not appended.                   *)
FlushToNowhere ==
  /\ UNCHANGED fifo
  /\ TouchPrompts(stash)

(* Bug: the appended items' ids are not recorded.                           *)
FlushUnrecorded ==
  /\ fifo' = fifo \o stash
  /\ UNCHANGED <<recent, evicted>>

(* appendPromptStashToFifo *)
FlushStash ==
  /\ fifo' = fifo \o stash
  /\ TouchPrompts(stash)

(* What a new execution starts from: the tombstones are not in its input.   *)
FreshExecution ==
  /\ pc' = "loop"
  /\ loops' = 0
  /\ taken' = 0
  /\ stash' = <<>>
  /\ pending' = {}
  /\ held' = <<>>
  /\ tomb' = {}
  /\ turn' = <<>>
  /\ forgotten' = (forgotten \union tomb)

-----------------------------------------------------------------------------
Init ==
  /\ inbox = <<>>
  /\ sent = {}
  /\ sends = 0
  /\ cancels = {}
  /\ commands = 0
  /\ fifo = <<>>
  /\ recent = <<>>
  /\ carried = <<>>
  /\ note = FALSE
  /\ timer = FALSE
  /\ regen = "none"
  /\ retryCount = 0
  /\ pc = "loop"
  /\ loops = 0
  /\ taken = 0
  /\ stash = <<>>
  /\ pending = {}
  /\ held = <<>>
  /\ tomb = {}
  /\ turn = <<>>
  /\ accepted = 0
  /\ ran = <<>>
  /\ dropped = {}
  /\ swept = {}
  /\ evicted = {}
  /\ seen = {}
  /\ forgotten = {}
  /\ ranSeen = {}

-----------------------------------------------------------------------------
(* Clients.  A client that is unsure whether a send arrived repeats it with *)
(* the same id.                                                             *)

sessionVars == <<fifo, recent, carried, note, timer, regen, retryCount,
                 pc, loops, passVars, held, tomb, turn, obsVars>>

(* _assertOrchestrationLive refuses an orchestration that has ended, but    *)
(* looks before the enqueue: a message may still arrive after the end.      *)
SendMessage(id) ==
  /\ sends < MaxSends
  /\ sends' = sends + 1
  /\ sent' = sent \union {id}
  /\ inbox' = Append(inbox, [type |-> "prompt", id |-> id])
  /\ UNCHANGED <<cancels, commands, sessionVars>>

CancelPendingMessage(id) ==
  /\ id \in sent
  /\ id \notin cancels
  /\ cancels' = cancels \union {id}
  /\ inbox' = Append(inbox, [type |-> "cancel", id |-> id])
  /\ UNCHANGED <<sent, sends, commands, sessionVars>>

SendCommand(c) ==
  /\ commands < MaxCommands
  /\ commands' = commands + 1
  /\ inbox' = Append(inbox, [type |-> "cmd", cmd |-> c])
  /\ UNCHANGED <<sent, sends, cancels, sessionVars>>

-----------------------------------------------------------------------------
(* The top of runLoop: the iteration cap, or a history over its size limit, *)
(* ends the execution.                                                      *)

BeginIteration ==
  /\ pc = "loop"
  /\ loops < MaxLoops
  /\ loops' = loops + 1
  /\ pc' = "drain"
  /\ taken' = 0 /\ stash' = <<>> /\ pending' = {}
  /\ UNCHANGED <<inbox, clientVars, fifo, recent, carried, note, timer, regen, retryCount,
                 held, tomb, turn, obsVars>>

ForcedContinueAsNew ==
  /\ pc = "loop"
  /\ \/ loops = MaxLoops
     \/ (loops + 1) % CheckEvery = 0
  /\ FreshExecution
  /\ retryCount' = 0
  /\ UNCHANGED <<inbox, clientVars, fifo, recent, carried, note, timer, regen,
                 accepted, ran, dropped, swept, evicted, seen, ranSeen>>

-----------------------------------------------------------------------------
(* Messages taken by drain (pc = "drain") and by the pre-dispatch sweep     *)
(* (pc = "sweep").                                                          *)

(* Bug: work in the FIFO does not keep drain from blocking.                 *)
IdleDespiteFifo == ~timer /\ carried = <<>> /\ ~note

(* needsBlockingDequeue: nothing to do but wait for a message.              *)
Idle == ~timer /\ carried = <<>> /\ ~note /\ fifo = <<>>

(* A drain that began by blocking stops after what it blocked for.          *)
DrainOver == pc = "drain" /\ regen = "none" /\ Idle /\ taken > 0

Taking ==
  /\ pc \in {"drain", "sweep"}
  /\ taken < MaxDrain
  /\ inbox # <<>>
  /\ ~DrainOver

TakeMessage ==
  /\ inbox' = Tail(inbox)
  /\ taken' = taken + 1

Duplicate(id) == id \in {recent[i] : i \in DOMAIN recent} \union pending

TakingPrompt == Taking /\ Head(inbox).type = "prompt"

DropIncoming ==
  /\ TakingPrompt
  /\ Head(inbox).id \in tomb
  /\ TakeMessage
  /\ UNCHANGED <<clientVars, fifo, recent, carried, note, timer, regen, retryCount, pc, loops,
                 stash, pending, held, tomb, turn, obsVars>>

(* recordDuplicatePrompt: a suppressed id is recent again.                  *)
SuppressDuplicate ==
  /\ TakingPrompt
  /\ LET id == Head(inbox).id IN
     /\ id \notin tomb
     /\ Duplicate(id)
     /\ IF id \in pending /\ id \notin {recent[i] : i \in DOMAIN recent}
        THEN UNCHANGED <<recent, evicted>>
        ELSE Touch(<<id>>)
  /\ TakeMessage
  /\ UNCHANGED <<clientVars, fifo, carried, note, timer, regen, retryCount, pc, loops, stash,
                 pending, held, tomb, turn, accepted, ran, dropped, swept, seen, forgotten,
                 ranSeen>>

(* Only drain lets a prompt interrupt the armed timer; the grace period of  *)
(* a question goes on.                                                      *)
AcceptPrompt ==
  /\ TakingPrompt
  /\ LET id == Head(inbox).id IN
     /\ id \notin tomb
     /\ ~Duplicate(id)
     /\ stash' = Append(stash, [id |-> id, n |-> accepted + 1])
     /\ pending' = pending \union {id}
  /\ accepted' = accepted + 1
  /\ timer' \in IF pc = "sweep" THEN {timer} ELSE {timer, FALSE}
  /\ TakeMessage
  /\ UNCHANGED <<clientVars, fifo, recent, carried, note, regen, retryCount, pc, loops, held,
                 tomb, turn, ran, dropped, swept, evicted, seen, forgotten, ranSeen>>

TakeCancel ==
  /\ Taking
  /\ Head(inbox).type = "cancel"
  /\ LET id == Head(inbox).id IN
     /\ tomb' = tomb \union {id}
     /\ seen' = seen \union {id}
     /\ stash' \in Filtered(stash, {i \in DOMAIN stash : stash[i].id # id})
     /\ dropped' = dropped \union {stash[i].n : i \in {k \in DOMAIN stash : stash[k].id = id}}
  /\ TakeMessage
  /\ UNCHANGED <<clientVars, fifo, recent, carried, note, timer, regen, retryCount, pc, loops,
                 pending, held, turn, accepted, ran, swept, evicted, forgotten, ranSeen>>

TakingCommand(c) ==
  /\ Taking
  /\ Head(inbox).type = "cmd"
  /\ Head(inbox).cmd = c

(* After a command, drain and sweep return at once if a regeneration is     *)
(* pending.                                                                 *)
AfterCommand(stage) ==
  pc' = IF stage = "none" THEN pc ELSE IF pc = "drain" THEN "advance" ELSE "dispatch"

(* get_info, list_models, a refused command, an unknown one: a reply and    *)
(* nothing else.  regenerate is refused while one is pending, and may be    *)
(* refused for its age, its cooldown or its source.                         *)
TakeQuery ==
  /\ \/ TakingCommand("get_info")
     \/ TakingCommand("set_model")
     \/ TakingCommand("regenerate")
     \/ TakingCommand("cancel_regen") /\ regen = "none"
  /\ TakeMessage
  /\ FlushStash /\ stash' = <<>>
  /\ AfterCommand(regen)
  /\ UNCHANGED <<clientVars, carried, note, timer, regen, retryCount, loops, pending, held,
                 tomb, turn, accepted, ran, dropped, swept, seen, forgotten, ranSeen>>

(* set_model: the reply, the captured timer, and a continue-as-new that     *)
(* carries "Continue on <model>".  A prompt held by decide is in none of    *)
(* the places that survive.                                                 *)
TakeSetModel ==
  /\ TakingCommand("set_model")
  /\ inbox' = Tail(inbox)
  /\ FlushStash
  /\ FreshExecution
  /\ swept' = (swept \union NumbersOf(held))
  /\ note' = TRUE
  /\ timer' = FALSE
  /\ retryCount' = 0
  /\ UNCHANGED <<clientVars, carried, regen, accepted, ran, dropped, seen, ranSeen>>

TakeRegenerate ==
  /\ TakingCommand("regenerate")
  /\ regen = "none"
  /\ TakeMessage
  /\ FlushStash /\ stash' = <<>>
  /\ regen' = "requested"
  /\ AfterCommand(regen')
  /\ UNCHANGED <<clientVars, carried, note, timer, retryCount, loops, pending, held, tomb,
                 turn, accepted, ran, dropped, swept, seen, forgotten, ranSeen>>

TakeCancelRegen ==
  /\ TakingCommand("cancel_regen")
  /\ regen # "none"
  /\ TakeMessage
  /\ FlushStash /\ stash' = <<>>
  /\ regen' = "none"
  /\ UNCHANGED <<clientVars, carried, note, timer, retryCount, pc, loops, pending, held, tomb,
                 turn, accepted, ran, dropped, swept, seen, forgotten, ranSeen>>

(* done, without live children: the session's result is set and the         *)
(* orchestration returns.                                                   *)
TakeDone ==
  /\ TakingCommand("done")
  /\ TakeMessage
  /\ FlushStash /\ stash' = <<>>
  /\ pc' = "ended"
  /\ UNCHANGED <<clientVars, carried, note, timer, regen, retryCount, loops, pending, held,
                 tomb, turn, accepted, ran, dropped, swept, seen, forgotten, ranSeen>>

-----------------------------------------------------------------------------
(* The end of a drain.                                                      *)

(* drain waits for a message with no deadline, or with an armed timer's.    *)
Parked ==
  /\ pc = "drain"
  /\ taken < MaxDrain
  /\ regen = "none"
  /\ timer \/ (Idle /\ taken = 0)

(* The armed timer fires.                                                   *)
TimerFires ==
  /\ Parked /\ timer
  /\ timer' = FALSE
  /\ stash' = Append(stash, Fired)
  /\ taken' = taken + 1
  /\ UNCHANGED <<inbox, clientVars, fifo, recent, carried, note, regen, retryCount, pc, loops,
                 pending, held, tomb, turn, obsVars>>

(* Nothing arrived in time, or the pass took as many messages as it may.    *)
EndDrain ==
  /\ pc = "drain"
  /\ ~Parked
  /\ FlushStash /\ stash' = <<>>
  /\ pc' = "advance"
  /\ UNCHANGED <<inbox, clientVars, carried, note, timer, regen, retryCount, loops, taken,
                 pending, held, tomb, turn, accepted, ran, dropped, swept, seen,
                 forgotten, ranSeen>>

EndSweep ==
  /\ pc = "sweep"
  /\ FlushStash /\ stash' = <<>>
  /\ pc' = "dispatch"
  /\ UNCHANGED <<inbox, clientVars, carried, note, timer, regen, retryCount, loops, taken,
                 pending, held, tomb, turn, accepted, ran, dropped, swept, seen,
                 forgotten, ranSeen>>

-----------------------------------------------------------------------------
(* After drain: one stage of a pending regeneration, or decide.             *)

(* What one stage may end in: the next one, "none" if it fails, the same    *)
(* one while the distiller is still at work.                                *)
NextStages == [requested |-> {"archived", "none"},
               archived  |-> {"archived", "distilled", "none"}]

RegenStage ==
  /\ pc = "advance"
  /\ regen \in DOMAIN NextStages
  /\ regen' \in NextStages[regen]
  /\ pc' = "loop"
  /\ UNCHANGED <<inbox, clientVars, fifo, recent, carried, note, timer, retryCount, loops,
                 passVars, held, tomb, turn, obsVars>>

RegenFlip ==
  /\ pc = "advance"
  /\ regen = "distilled"
  /\ FreshExecution
  /\ regen' = "none"
  /\ note' = TRUE
  /\ timer' = FALSE
  /\ retryCount' = 0
  /\ UNCHANGED <<inbox, clientVars, fifo, recent, carried,
                 accepted, ran, dropped, swept, evicted, seen, ranSeen>>

(* decide, priority 2: the carried prompt.                                  *)
DecideCarried ==
  /\ pc = "advance"
  /\ regen = "none"
  /\ carried # <<>> \/ note
  /\ turn' = carried
  /\ carried' = <<>>
  /\ note' = FALSE
  /\ pc' = "turn"
  /\ UNCHANGED <<inbox, clientVars, fifo, recent, timer, regen, retryCount, loops, passVars,
                 held, tomb, obsVars>>

(* decide, priority 3: the oldest prompt leaves the FIFO, fired timers or   *)
(* not, and the queue is swept.                                             *)
DecidePrompt ==
  /\ pc = "advance"
  /\ regen = "none"
  /\ carried = <<>> /\ ~note
  /\ \E k \in DOMAIN fifo :
       /\ IsPrompt(fifo[k])
       /\ \A j \in 1 .. k - 1 : ~IsPrompt(fifo[j])
       /\ held' = <<fifo[k]>>
       /\ fifo' = SubSeq(fifo, 1, k - 1) \o SubSeq(fifo, k + 1, Len(fifo))
  /\ taken' = 0 /\ pending' = {}
  /\ pc' = "sweep"
  /\ UNCHANGED <<inbox, clientVars, recent, carried, note, timer, regen, retryCount, loops,
                 stash, tomb, turn, obsVars>>

(* processTimer: a turn, or a timer armed anew or cleared.                  *)
DecideTimer ==
  /\ pc = "advance"
  /\ regen = "none"
  /\ carried = <<>> /\ ~note
  /\ fifo # <<>> /\ PromptsIn(fifo) = {}
  /\ fifo' = Tail(fifo)
  /\ \/ pc' = "turn" /\ UNCHANGED timer
     \/ pc' = "loop" /\ timer' \in BOOLEAN
  /\ UNCHANGED <<inbox, clientVars, recent, carried, note, regen, retryCount, loops, passVars,
                 held, tomb, turn, obsVars>>

(* decide found nothing: loop while a timer is armed, else continue as new. *)
DecideNothing ==
  /\ pc = "advance"
  /\ regen = "none"
  /\ carried = <<>> /\ ~note
  /\ fifo = <<>>
  /\ \/ /\ timer
        /\ pc' = "loop"
        /\ UNCHANGED <<retryCount, loops, passVars, held, tomb, turn, forgotten>>
     \/ /\ ~timer
        /\ FreshExecution
        /\ retryCount' = 0
  /\ UNCHANGED <<inbox, clientVars, fifo, recent, carried, note, timer, regen,
                 accepted, ran, dropped, swept, evicted, seen, ranSeen>>

-----------------------------------------------------------------------------
(* After the sweep: the held prompt is dropped, or dispatched with the      *)
(* prompts behind it.                                                       *)

DropHeld ==
  /\ pc = "dispatch"
  /\ held[1].id \in tomb
  /\ dropped' = dropped \union NumbersOf(held)
  /\ held' = <<>>
  /\ pc' = "loop"
  /\ UNCHANGED <<inbox, clientVars, fifo, recent, carried, note, timer, regen, retryCount,
                 loops, passVars, tomb, turn, accepted, ran, swept, evicted, seen,
                 forgotten, ranSeen>>

(* The prompts in `s` join the turn.                                        *)
Join(s) ==
  /\ turn' = turn \o s
  /\ ran' = ran \o s
  /\ ranSeen' = ranSeen \union (IdsOf(s) \intersect seen)

(* Bug: the tombstones the sweep brought in are not consulted.              *)
DispatchUnchecked ==
  /\ pc = "dispatch"
  /\ Join(held)
  /\ held' = <<>>
  /\ pc' = "merge"
  /\ UNCHANGED <<inbox, clientVars, fifo, recent, carried, note, timer, regen, retryCount, loops,
                 passVars, tomb, accepted, dropped, swept, evicted, seen, forgotten>>

Dispatch ==
  /\ pc = "dispatch"
  /\ held[1].id \notin tomb
  /\ Join(held)
  /\ held' = <<>>
  /\ pc' = "merge"
  /\ UNCHANGED <<inbox, clientVars, fifo, recent, carried, note, timer, regen, retryCount, loops,
                 passVars, tomb, accepted, dropped, swept, evicted, seen, forgotten>>

(* The merge loop pops the head of the FIFO: a cancelled prompt is dropped, *)
(* a prompt that is a kickoff if the turn's first is one joins the turn,    *)
(* anything else is put back and ends the loop.                             *)
Cancelled(item) == item.id \in tomb

Joins(item) == IsPrompt(item) /\ Bootstrap(item) = Bootstrap(turn[1])

MergeDrops ==
  /\ pc = "merge"
  /\ fifo # <<>> /\ Cancelled(Head(fifo))
  /\ dropped' = dropped \union {Head(fifo).n}
  /\ fifo' = Tail(fifo)
  /\ UNCHANGED <<inbox, clientVars, recent, carried, note, timer, regen, retryCount, pc, loops,
                 passVars, held, tomb, turn, accepted, ran, swept, evicted, seen,
                 forgotten, ranSeen>>

MergeJoins ==
  /\ pc = "merge"
  /\ fifo # <<>> /\ ~Cancelled(Head(fifo)) /\ Joins(Head(fifo))
  /\ Join(<<Head(fifo)>>)
  /\ fifo' = Tail(fifo)
  /\ UNCHANGED <<inbox, clientVars, recent, carried, note, timer, regen, retryCount, pc, loops,
                 passVars, held, tomb, accepted, dropped, swept, evicted, seen, forgotten>>

(* Bug: the put-back goes to the end, as an earlier version of the code     *)
(* had it.                                                                  *)
MergeEndsByAppend ==
  /\ pc = "merge"
  /\ fifo # <<>> => ~Cancelled(Head(fifo)) /\ ~Joins(Head(fifo))
  /\ fifo' = IF fifo = <<>> THEN fifo ELSE Append(Tail(fifo), Head(fifo))
  /\ pc' = "turn"
  /\ UNCHANGED <<inbox, clientVars, recent, carried, note, timer, regen, retryCount,
                 loops, passVars, held, tomb, turn, obsVars>>

MergeEnds ==
  /\ pc = "merge"
  /\ fifo # <<>> => ~Cancelled(Head(fifo)) /\ ~Joins(Head(fifo))
  /\ pc' = "turn"
  /\ UNCHANGED <<inbox, clientVars, fifo, recent, carried, note, timer, regen, retryCount,
                 loops, passVars, held, tomb, turn, obsVars>>

-----------------------------------------------------------------------------
(* The turn's outcome.                                                      *)

(* A result, or a stop: a timer is armed or left alone, or a tool the turn  *)
(* called leaves a followup.                                                *)
TurnCompletes ==
  /\ pc = "turn"
  /\ \/ timer' \in {timer, TRUE} /\ UNCHANGED note
     \/ note' = TRUE /\ UNCHANGED timer
  /\ retryCount' = 0
  /\ turn' = <<>>
  /\ pc' = "loop"
  /\ UNCHANGED <<inbox, clientVars, fifo, recent, carried, regen, loops, passVars, held,
                 tomb, obsVars>>

(* A completed turn whose model switch failed continues as new at once.     *)
TurnForcesContinue ==
  /\ pc = "turn"
  /\ FreshExecution
  /\ note' = TRUE
  /\ retryCount' = 0
  /\ UNCHANGED <<inbox, clientVars, fifo, recent, carried, timer, regen,
                 accepted, ran, dropped, swept, evicted, seen, ranSeen>>

(* The continue-as-new of a failed turn carries the turn's prompt.          *)
CarryTurn ==
  /\ pc = "turn"
  /\ FreshExecution
  /\ IF turn = <<>> THEN note' = TRUE /\ UNCHANGED carried
                    ELSE carried' = turn /\ UNCHANGED note
  /\ timer' \in {timer, FALSE}         \* releaseAffinity clears it
  /\ UNCHANGED <<inbox, clientVars, fifo, recent, regen,
                 accepted, ran, dropped, swept, evicted, seen, ranSeen>>

(* Bug: the bound is compared after one attempt too many.                   *)
TurnRetriesOnceMore ==
  /\ CarryTurn
  /\ retryCount <= MaxRetries
  /\ retryCount' = retryCount + 1

(* handleGenericRetry, handleConnectionClosedRetry                          *)
TurnRetries ==
  /\ CarryTurn
  /\ retryCount + 1 <= MaxRetries
  /\ retryCount' = retryCount + 1

(* The lossy handoff after the last reconnection starts counting afresh.    *)
TurnHandsOff ==
  /\ CarryTurn
  /\ retryCount + 1 > MaxRetries
  /\ retryCount' = 0

(* Retries exhausted, an authorisation failure or a failure that must not   *)
(* be retried: the session waits for its user.                              *)
TurnGivesUp ==
  /\ pc = "turn"
  /\ retryCount' = 0
  /\ turn' = <<>>
  /\ pc' = "loop"
  /\ UNCHANGED <<inbox, clientVars, fifo, recent, carried, note, timer, regen, loops, passVars,
                 held, tomb, obsVars>>

(* The worker finds that the session's state is gone: the orchestration     *)
(* fails.                                                                   *)
TurnFatal ==
  /\ pc = "turn"
  /\ pc' = "ended"
  /\ UNCHANGED <<inbox, clientVars, fifo, recent, carried, note, timer, regen, retryCount, loops,
                 passVars, held, tomb, turn, obsVars>>

-----------------------------------------------------------------------------
Client ==
  \/ \E id \in Ids : SendMessage(id) \/ CancelPendingMessage(id)
  \/ \E c \in Commands : SendCommand(c)

Take == \/ DropIncoming \/ SuppressDuplicate \/ AcceptPrompt \/ TakeCancel \/ TakeQuery \/ TakeSetModel
        \/ TakeRegenerate \/ TakeCancelRegen \/ TakeDone

Step == \/ BeginIteration \/ ForcedContinueAsNew
        \/ TimerFires \/ EndDrain \/ EndSweep
        \/ RegenStage \/ RegenFlip
        \/ DecideCarried \/ DecidePrompt \/ DecideTimer \/ DecideNothing
        \/ DropHeld \/ Dispatch \/ MergeDrops \/ MergeJoins \/ MergeEnds
        \/ TurnCompletes \/ TurnForcesContinue \/ TurnRetries \/ TurnHandsOff
        \/ TurnGivesUp \/ TurnFatal

Next == Client \/ Take \/ Step

Spec == Init /\ [][Next]_vars

(* The runtime keeps executing the session; an armed timer fires; the       *)
(* distiller ends or its deadline passes; and a turn that is tried again    *)
(* and again is answered, and leaves no followup, now and then.             *)
Fairness ==
  /\ WF_vars(Take \/ Step)
  /\ SF_vars(RegenStage /\ regen' # regen)
  /\ SF_vars(TurnCompletes /\ ~note')

FairSpec == Spec /\ Fairness

-----------------------------------------------------------------------------
TypeOK ==
  /\ inbox \in Seq(Message)
  /\ sent \subseteq Ids /\ sends \in Nat /\ cancels \subseteq Ids /\ commands \in Nat
  /\ fifo \in Seq(Item)
  /\ recent \in Seq(Ids)
  /\ carried \in Seq(Prompt)
  /\ note \in BOOLEAN /\ timer \in BOOLEAN
  /\ regen \in Stages
  /\ retryCount \in 0 .. MaxRetries
  /\ pc \in {"loop", "drain", "advance", "sweep", "dispatch", "merge", "turn", "ended"}
  /\ loops \in 0 .. MaxLoops
  /\ taken \in 0 .. MaxDrain
  /\ stash \in Seq(Item) /\ pending \subseteq Ids
  /\ held \in Seq(Prompt) /\ Len(held) <= 1
  /\ pc \in {"sweep", "dispatch"} => Len(held) = 1
  /\ tomb \subseteq Ids
  /\ turn \in Seq(Prompt)
  /\ accepted \in Nat
  /\ ran \in Seq(Prompt)
  /\ dropped \subseteq Nat /\ swept \subseteq Nat
  /\ evicted \subseteq Ids /\ seen \subseteq Ids
  /\ forgotten \subseteq Ids /\ ranSeen \subseteq Ids

(* The work of the session, dispatched prompts first, in the order in which *)
(* it would dispatch them.                                                  *)
Line == ran \o held \o fifo \o stash

(* Every accepted prompt was dispatched, was dropped by its tombstone, is   *)
(* still on its way, or was held when a model switch ended the execution;   *)
(* and it is in exactly one of these, once.                                 *)
EachPromptAccountedFor ==
  /\ NumbersOf(Line) \union dropped \union swept = 1 .. accepted
  /\ NumbersOf(Line) \intersect (dropped \union swept) = {} /\ dropped \intersect swept = {}
  /\ \A i, j \in PromptsIn(Line) : i # j => Line[i].n # Line[j].n

(* Prompts are dispatched in the order in which the session accepted them,  *)
(* over sweeps, merges, put-backs and continue-as-new.                      *)
DispatchedInOrder ==
  \A i, j \in PromptsIn(Line) : i < j => Line[i].n < Line[j].n

(* A message sent twice is in the session's hands twice only if other       *)
(* messages pushed its id out of the duplicate window in between.           *)
DuplicatesOnlyAfterEviction ==
  \A i, j \in PromptsIn(Line) : i # j /\ Line[i].id = Line[j].id => Line[i].id \in evicted

(* A prompt whose tombstone the session consumed before dispatching it is   *)
(* not run, unless a continue-as-new discarded the tombstone in between.    *)
TombstonesHonoured == ranSeen \subseteq forgotten

Settled(n) ==
  n \in NumbersOf(ran) \union dropped \union swept \/ pc = "ended"

(* Every accepted prompt is dispatched, or dropped by its tombstone or lost *)
(* to a model switch, unless the session ends: retries, put-backs, armed    *)
(* timers and a regeneration delay it and do not strand it.                 *)
EveryPromptSettles ==
  \A n \in 1 .. MaxSends : accepted >= n ~> Settled(n)

-----------------------------------------------------------------------------
(* A statement of the documentation that the code does not keep.            *)

(* docs/proposals-impl/orchestration-flat-event-loop.md: "User prompts are  *)
(* never lost", even if a continue-as-new fires before they are processed.  *)
NoPromptSwept == swept = {}
=============================================================================
