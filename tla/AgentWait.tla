------------------------------ MODULE AgentWait ------------------------------
(***************************************************************************)
(* A session that waits for its sub-agents (orchestration/agents.ts, with  *)
(* the parts of queue.ts, turn.ts and lifecycle.ts that touch the wait).   *)
(*                                                                         *)
(* A turn may call wait_for_agents, and a `done` command starts a graceful *)
(* shutdown that passes `done` on to the live children and waits for them. *)
(* Both waits end when the tracked status of every awaited child settles.  *)
(* A child's report changes that status; because a report may never come,  *)
(* a poll does too.  The poll is armed in the session's only timer slot,   *)
(* which the other timers of the session share.                            *)
(*                                                                         *)
(* The tracked and the real status of a child are "running", "waiting" (on *)
(* a timer of its own), "idle" (also: asking for input) or "completed"     *)
(* (also: failed, cancelled).  Everything here is carried over a           *)
(* continue-as-new, which is therefore a step back to drain.  No run sends *)
(* as many messages as a drain may take.                                   *)
(***************************************************************************)
EXTENDS Integers, Sequences, FiniteSets

CONSTANTS
  Children,     \* the sub-agents of the session
  Commands,     \* commands a client may send: "done", "set_model"
  MaxPolls,     \* SHUTDOWN_TIMEOUT_MS / SHUTDOWN_POLL_INTERVAL_MS
  MaxPrompts,   \* bound: prompts the session takes
  MaxCommands,  \* bound: commands the session takes
  MaxReports    \* bound: reports the children send

ASSUME AgentWaitConstants ==
  /\ Children # {}
  /\ Commands \subseteq {"done", "set_model"}
  /\ MaxPolls \in Nat
  /\ MaxPrompts \in Nat
  /\ MaxCommands \in Nat
  /\ MaxReports \in Nat

VARIABLES
  actual,     \* child -> what it is really doing
  told,       \* children with a `done` in their queue
  reports,    \* child updates in the session's queue
  reported,   \* how many reports were sent
  prompts,    \* how many prompts were taken
  commands,   \* how many commands were taken
  status,     \* subAgents: child -> tracked status
  waiting,    \* waitingForAgentIds; {} for null
  shutdown,   \* pendingShutdown is set
  polls,      \* polls of the pending shutdown so far
  timer,      \* activeTimer: "none", "poll" (agent-poll) or "other"
  fired,      \* fired timers in the FIFO
  fifo,       \* how many prompts are in the FIFO
  digest,     \* pendingChildDigest: "none", "buffered" or "ready"
  followup,   \* pendingPrompt is set
  pc,
  took,       \* this drain took a message or a fired timer
  result      \* orchestrationResult: "none", "done" or "failed"

queueVars  == <<reports, reported, prompts, commands>>
childVars  == <<actual, told>>
vars == <<childVars, queueVars, status, waiting, shutdown, polls, timer, fired, fifo,
          digest, followup, pc, took, result>>

Statuses == {"running", "waiting", "idle", "completed"}

-----------------------------------------------------------------------------
isSubAgentTerminalStatus(s) == s = "completed"

isAgentWaitSettledStatus(s) == isSubAgentTerminalStatus(s) \/ s = "idle"

(* applyChildUpdate: what a report makes of the tracked status, before and  *)
(* after the probe of the child.                                            *)
Reported(r) == IF r.type = "completed" THEN "completed" ELSE status[r.child]

Probed(r) ==
  LET a == actual[r.child] IN
  CASE a = "completed" -> a
    [] a = "waiting" /\ r.type # "completed" -> a
    [] a = "idle" /\ r.type # "completed" /\ ~isSubAgentTerminalStatus(Reported(r)) -> a
    [] OTHER -> Reported(r)

(* refreshTrackedSubAgents: an idle child counts as running again.          *)
Refreshed(preserve) ==
  [c \in Children |->
     CASE preserve /\ isSubAgentTerminalStatus(status[c]) -> status[c]
       [] (preserve => ~isSubAgentTerminalStatus(status[c])) /\ actual[c] = "idle" -> "running"
       [] OTHER -> actual[c]]

Live(st) == {c \in Children : ~isSubAgentTerminalStatus(st[c])}

AllSettled(st) == \A c \in waiting : isAgentWaitSettledStatus(st[c])

-----------------------------------------------------------------------------
Init ==
  /\ actual \in [Children -> {"running", "idle"}]
  /\ told = {}
  /\ reports = <<>> /\ reported = 0 /\ prompts = 0 /\ commands = 0
  /\ status = [c \in Children |-> "running"]
  /\ waiting = {}
  /\ shutdown = FALSE
  /\ polls = 0
  /\ timer = "none"
  /\ fired = <<>>
  /\ fifo = 1
  /\ digest = "none"
  /\ followup = FALSE
  /\ pc = "drain"
  /\ took = FALSE
  /\ result = "none"

-----------------------------------------------------------------------------
(* The children.  A report may be suppressed by the child's contract, and   *)
(* sending it may fail.                                                     *)

sessionVars == <<prompts, commands, status, waiting, shutdown, polls, timer, fired, fifo,
                 digest, followup, pc, took, result>>

SendReport(c, type) ==
  \/ UNCHANGED <<reports, reported>>
  \/ /\ reported < MaxReports
     /\ reported' = reported + 1
     /\ reports' = Append(reports, [child |-> c, type |-> type])

ChildAnswers(c) ==
  /\ actual[c] = "running"
  /\ actual' = [actual EXCEPT ![c] = "idle"]
  /\ SendReport(c, "completed")
  /\ UNCHANGED <<told, sessionVars>>

ChildWaits(c) ==
  /\ actual[c] = "running"
  /\ actual' = [actual EXCEPT ![c] = "waiting"]
  /\ SendReport(c, "wait")
  /\ UNCHANGED <<told, sessionVars>>

ChildWakes(c) ==
  /\ actual[c] = "waiting"
  /\ actual' = [actual EXCEPT ![c] = "running"]
  /\ UNCHANGED <<told, reports, reported, sessionVars>>

(* The end of a child that its parent asked to end is not reported.         *)
ChildObeys(c) ==
  /\ c \in told
  /\ ~isSubAgentTerminalStatus(actual[c])
  /\ actual' = [actual EXCEPT ![c] = "completed"]
  /\ told' = told \ {c}
  /\ UNCHANGED <<reports, reported, sessionVars>>

-----------------------------------------------------------------------------
(* Ends of a wait.                                                          *)

(* completeSession                                                          *)
Complete ==
  /\ shutdown' = FALSE
  /\ waiting' = {}
  /\ digest' = "none"
  /\ timer' = "none"
  /\ result' = "done"

(* maybeResolveAgentWaitCompletion, for the wait of a tool.                 *)
ResolveWait ==
  /\ waiting' = {}
  /\ digest' = "none"
  /\ timer' = "none"
  /\ followup' = TRUE

-----------------------------------------------------------------------------
(* Messages, taken by drain and by the sweep before a prompt's dispatch.    *)

Idle == timer = "none" /\ ~followup /\ fifo = 0 /\ fired = <<>> /\ digest # "ready"

Taking ==
  \/ pc = "drain" /\ ~(Idle /\ digest = "none" /\ took)
  \/ pc = "sweep"

(* The update is buffered for a digest unless the session is shutting down. *)
TakeReport ==
  /\ Taking
  /\ reports # <<>>
  /\ reports' = Tail(reports)
  /\ took' = TRUE
  /\ LET r == Head(reports) IN
     /\ \/ status' = [status EXCEPT ![r.child] = Reported(r)]   \* the probe failed
        \/ status' = [status EXCEPT ![r.child] = Probed(r)]
     /\ IF waiting # {} /\ AllSettled(status')
        THEN IF shutdown
             THEN Complete /\ UNCHANGED followup
             ELSE ResolveWait /\ UNCHANGED <<shutdown, result>>
        ELSE /\ digest' = IF shutdown \/ digest = "ready" THEN digest ELSE "buffered"
             /\ UNCHANGED <<waiting, timer, shutdown, followup, result>>
  /\ UNCHANGED <<childVars, reported, prompts, commands, polls, fired, fifo, pc>>

(* Bug: a prompt clears the poll and leaves the wait in place.              *)
TakePromptKeepingWait ==
  /\ Taking
  /\ prompts < MaxPrompts
  /\ prompts' = prompts + 1
  /\ took' = TRUE
  /\ fifo' = fifo + 1
  /\ IF pc = "drain"
     THEN timer' = "none" /\ digest' = "none"
     ELSE UNCHANGED <<timer, digest>>
  /\ UNCHANGED <<childVars, reports, reported, commands, status, waiting, shutdown, polls, fired,
                 followup, pc, result>>

(* A prompt taken by drain interrupts the armed timer; if that is the poll, *)
(* it also ends the wait.  The digest joins the prompt.                     *)
TakePrompt ==
  /\ Taking
  /\ prompts < MaxPrompts
  /\ prompts' = prompts + 1
  /\ took' = TRUE
  /\ fifo' = fifo + 1
  /\ IF pc = "drain"
     THEN /\ timer' = "none"
          /\ waiting' = IF timer = "poll" THEN {} ELSE waiting
          /\ digest' = "none"
     ELSE UNCHANGED <<timer, waiting, digest>>
  /\ UNCHANGED <<childVars, reports, reported, commands, status, shutdown, polls, fired, followup,
                 pc, result>>

TakingCommand(c) ==
  /\ Taking
  /\ c \in Commands
  /\ commands < MaxCommands
  /\ commands' = commands + 1

(* beginGracefulShutdown: a second `done` is only answered; without live    *)
(* children the session completes at once; else `done` is passed on, as far *)
(* as sending it succeeds, and the poll is armed.                           *)
TakeDone ==
  /\ TakingCommand("done")
  /\ took' = TRUE
  /\ \/ /\ shutdown
        /\ UNCHANGED <<told, status, waiting, shutdown, polls, timer, digest, pc, result>>
     \/ /\ ~shutdown
        /\ status' \in {Refreshed(FALSE), status}
        /\ Live(status') = {}
        /\ Complete
        /\ pc' = "ended"
        /\ UNCHANGED <<told, polls>>
     \/ /\ ~shutdown
        /\ status' \in {Refreshed(FALSE), status}
        /\ Live(status') # {}
        /\ \E heard \in SUBSET Live(status') : told' = told \union heard
        /\ shutdown' = TRUE
        /\ polls' = 0
        /\ waiting' = Live(status')
        /\ digest' = "none"
        /\ timer' = "poll"
        /\ UNCHANGED <<pc, result>>
  /\ UNCHANGED <<actual, reports, reported, prompts, fired, fifo, followup>>

(* set_model: whatever timer is armed is captured or cleared, and a new     *)
(* execution starts with "Continue on <model>" pending.  The flip of a      *)
(* regeneration does the same to this state.                                *)
TakeSetModel ==
  /\ TakingCommand("set_model")
  /\ timer' = "none"
  /\ followup' = TRUE
  /\ result' = "none"
  /\ pc' = "drain" /\ took' = FALSE
  /\ UNCHANGED <<childVars, reports, reported, prompts, status, waiting, shutdown, polls, fired,
                 fifo, digest>>

-----------------------------------------------------------------------------
(* The end of a drain.                                                      *)

Parked == pc = "drain" /\ (timer # "none" \/ digest = "buffered" \/ (Idle /\ ~took))

TimerFires ==
  /\ pc = "drain"
  /\ timer # "none"
  /\ fired' = Append(fired, timer)
  /\ timer' = "none"
  /\ took' = TRUE
  /\ UNCHANGED <<childVars, queueVars, status, waiting, shutdown, polls, fifo, digest, followup,
                 pc, result>>

DigestRipens ==
  /\ pc = "drain"
  /\ digest = "buffered"
  /\ digest' = "ready"
  /\ pc' = "decide"
  /\ UNCHANGED <<childVars, queueVars, status, waiting, shutdown, polls, timer, fired, fifo,
                 followup, took, result>>

EndDrain ==
  /\ pc = "drain"
  /\ ~Parked
  /\ pc' = IF result = "none" THEN "decide" ELSE "ended"
  /\ UNCHANGED <<childVars, queueVars, status, waiting, shutdown, polls, timer, fired, fifo,
                 digest, followup, took, result>>

-----------------------------------------------------------------------------
(* decide                                                                   *)

(* A pending prompt is held back while the session waits for agents.        *)
DecideFollowup ==
  /\ pc = "decide"
  /\ followup /\ waiting = {}
  /\ followup' = FALSE
  /\ pc' = "turn"
  /\ UNCHANGED <<childVars, queueVars, status, waiting, shutdown, polls, timer, fired, fifo,
                 digest, took, result>>

DecidePrompt ==
  /\ pc = "decide"
  /\ ~(followup /\ waiting = {})
  /\ fifo > 0
  /\ fifo' = fifo - 1
  /\ pc' = "sweep"
  /\ UNCHANGED <<childVars, queueVars, status, waiting, shutdown, polls, timer, fired, digest,
                 followup, took, result>>

(* After the sweep the prompt and those behind it are dispatched, whatever  *)
(* the sweep brought in, unless it ended the session.                       *)
Dispatch ==
  /\ pc = "sweep"
  /\ IF result = "none" THEN pc' = "turn" /\ fifo' = 0 ELSE pc' = "ended" /\ UNCHANGED fifo
  /\ UNCHANGED <<childVars, queueVars, status, waiting, shutdown, polls, timer, fired, digest,
                 followup, took, result>>

FiredNext(t) ==
  /\ pc = "decide"
  /\ ~(followup /\ waiting = {})
  /\ fifo = 0
  /\ fired # <<>> /\ Head(fired) = t
  /\ fired' = Tail(fired)

DecideOtherTimer ==
  /\ FiredNext("other")
  /\ pc' \in {"turn", "drain"}
  /\ took' = FALSE
  /\ UNCHANGED <<childVars, queueVars, status, waiting, shutdown, polls, timer, fifo, digest,
                 followup, result>>

(* processTimer, agent-poll: the awaited children that are not terminal are *)
(* probed.  A probe that finds a child running changes nothing.             *)
Polled(heard) ==
  [c \in Children |->
     IF c \in heard /\ ~isSubAgentTerminalStatus(status[c]) /\ actual[c] # "running"
     THEN actual[c] ELSE status[c]]

PollIdly ==
  /\ FiredNext("poll")
  /\ waiting = {}
  /\ pc' = "drain" /\ took' = FALSE
  /\ UNCHANGED <<childVars, queueVars, status, waiting, shutdown, polls, timer, fifo, digest,
                 followup, result>>

PollResolves(heard) ==
  /\ FiredNext("poll")
  /\ waiting # {}
  /\ status' = Polled(heard)
  /\ AllSettled(status')
  /\ \/ shutdown /\ Complete /\ pc' = "ended" /\ UNCHANGED followup
     \/ ~shutdown /\ ResolveWait /\ pc' = "drain" /\ UNCHANGED <<shutdown, result>>
  /\ took' = FALSE
  /\ UNCHANGED <<childVars, queueVars, polls, fifo>>

(* Bug: the deadline of a shutdown is not looked at.                        *)
PollsForever(heard) ==
  /\ FiredNext("poll")
  /\ waiting # {}
  /\ status' = Polled(heard)
  /\ ~AllSettled(status')
  /\ timer' = "poll"
  /\ pc' = "drain" /\ took' = FALSE
  /\ UNCHANGED <<childVars, queueVars, waiting, shutdown, polls, fifo, digest, followup, result>>

(* Bug: the poll at the deadline is followed by another one.                *)
PollsOnceMore(heard) ==
  /\ FiredNext("poll")
  /\ waiting # {}
  /\ status' = Polled(heard)
  /\ ~AllSettled(status')
  /\ shutdown => polls <= MaxPolls
  /\ polls' = IF shutdown THEN polls + 1 ELSE polls
  /\ timer' = "poll"
  /\ pc' = "drain" /\ took' = FALSE
  /\ UNCHANGED <<childVars, queueVars, waiting, shutdown, fifo, digest, followup, result>>

PollsAgain(heard) ==
  /\ FiredNext("poll")
  /\ waiting # {}
  /\ status' = Polled(heard)
  /\ ~AllSettled(status')
  /\ shutdown => polls < MaxPolls
  /\ polls' = IF shutdown THEN polls + 1 ELSE polls
  /\ timer' = "poll"
  /\ pc' = "drain" /\ took' = FALSE
  /\ UNCHANGED <<childVars, queueVars, waiting, shutdown, fifo, digest, followup, result>>

(* failPendingShutdown, once the deadline has passed.                       *)
PollTimesOut(heard) ==
  /\ FiredNext("poll")
  /\ waiting # {} /\ shutdown
  /\ status' = Polled(heard)
  /\ ~AllSettled(status')
  /\ polls = MaxPolls
  /\ shutdown' = FALSE /\ waiting' = {} /\ digest' = "none" /\ timer' = "none"
  /\ result' = "failed"
  /\ pc' = "ended" /\ took' = FALSE
  /\ UNCHANGED <<childVars, queueVars, polls, fifo, followup>>

(* processPendingChildDigest: a turn, unless no update is worth one.        *)
DecideDigest ==
  /\ pc = "decide"
  /\ ~followup /\ fifo = 0 /\ fired = <<>>
  /\ digest = "ready" /\ waiting = {}
  /\ digest' = "none"
  /\ \/ pc' = "turn" /\ timer' = "none"
     \/ pc' = "drain" /\ UNCHANGED timer
  /\ took' = FALSE
  /\ UNCHANGED <<childVars, queueVars, status, waiting, shutdown, polls, fired, fifo, followup,
                 result>>

DecideNothing ==
  /\ pc = "decide"
  /\ ~(followup /\ waiting = {})
  /\ fifo = 0 /\ fired = <<>>
  /\ ~(digest = "ready" /\ waiting = {})
  /\ pc' = "drain" /\ took' = FALSE
  /\ UNCHANGED <<childVars, queueVars, status, waiting, shutdown, polls, timer, fired, fifo,
                 digest, followup, result>>

-----------------------------------------------------------------------------
(* Turns.  A turn that returned has refreshed the tracked statuses.         *)

AfterTurn ==
  /\ pc = "turn"
  /\ pc' = "drain" /\ took' = FALSE
  /\ status' \in {Refreshed(TRUE), status}
  /\ UNCHANGED <<queueVars, shutdown, polls, fired, fifo, digest, result>>

(* The session goes on to wait for something: a hold, a cron, a `wait`.     *)
TurnCompletes ==
  /\ AfterTurn
  /\ timer' \in {"other", timer}
  /\ UNCHANGED <<childVars, waiting, followup>>

(* A tool whose answer is a followup.  message_agent gives work to a child, *)
(* complete_agent asks one to end.                                          *)
TurnUsesTool ==
  /\ AfterTurn
  /\ followup' = TRUE
  /\ \/ UNCHANGED childVars
     \/ \E c \in Children : /\ actual[c] = "idle"
                            /\ actual' = [actual EXCEPT ![c] = "running"]
                            /\ UNCHANGED told
     \/ \E c \in Children : told' = told \union {c} /\ UNCHANGED actual
  /\ UNCHANGED <<timer, waiting>>

TurnWaitsForAgents(targets) ==
  /\ AfterTurn
  /\ IF targets \intersect Live(status') = {}
     THEN followup' = TRUE /\ UNCHANGED <<waiting, timer>>
     ELSE waiting' = targets /\ timer' = "poll" /\ UNCHANGED followup
  /\ UNCHANGED childVars

(* A retry: the prompt is carried, and releasing the worker clears the      *)
(* timer.                                                                   *)
TurnRetries ==
  /\ pc = "turn"
  /\ pc' = "drain" /\ took' = FALSE
  /\ followup' = TRUE
  /\ timer' \in {timer, "none"}
  /\ UNCHANGED <<childVars, queueVars, status, waiting, shutdown, polls, fired, fifo, digest,
                 result>>

-----------------------------------------------------------------------------
Child == \E c \in Children : ChildAnswers(c) \/ ChildWaits(c) \/ ChildWakes(c) \/ ChildObeys(c)

Poll == \/ PollIdly
        \/ \E heard \in SUBSET waiting :
             PollResolves(heard) \/ PollsAgain(heard) \/ PollTimesOut(heard)

Turn == \/ TurnCompletes \/ TurnUsesTool \/ TurnRetries
        \/ \E targets \in SUBSET Children \ {{}} : TurnWaitsForAgents(targets)

Session == \/ TakeReport \/ TimerFires \/ DigestRipens \/ EndDrain
           \/ DecideFollowup \/ DecidePrompt \/ Dispatch \/ DecideOtherTimer \/ Poll
           \/ DecideDigest \/ DecideNothing \/ Turn

Next == Child \/ Session \/ TakePrompt \/ TakeDone \/ TakeSetModel

Spec == Init /\ [][Next]_vars

(* The runtime keeps executing the session, a turn that is run again and    *)
(* again completes, and the probes of a poll succeed now and then.          *)
Fairness ==
  /\ WF_vars(Session)
  /\ SF_vars(TurnCompletes)
  /\ SF_vars(PollResolves(waiting))

FairSpec == Spec /\ Fairness

-----------------------------------------------------------------------------
TypeOK ==
  /\ actual \in [Children -> Statuses] /\ told \subseteq Children
  /\ reports \in Seq([child : Children, type : {"completed", "wait"}])
  /\ reported \in Nat /\ prompts \in Nat /\ commands \in Nat
  /\ status \in [Children -> Statuses]
  /\ waiting \subseteq Children
  /\ shutdown \in BOOLEAN
  /\ polls \in 0 .. MaxPolls
  /\ timer \in {"none", "poll", "other"}
  /\ fired \in Seq({"poll", "other"})
  /\ fifo \in Nat
  /\ digest \in {"none", "buffered", "ready"}
  /\ followup \in BOOLEAN
  /\ pc \in {"drain", "decide", "sweep", "turn", "ended"}
  /\ took \in BOOLEAN
  /\ result \in {"none", "done", "failed"}

(* The poll that ends a wait when no report comes is armed, or has fired    *)
(* and waits in the FIFO.                                                   *)
Watched == timer = "poll" \/ \E i \in DOMAIN fired : fired[i] = "poll"

(* As long as no child reports and no command arrives, a wait for agents is *)
(* watched: prompts, other timers, retries and further waits all leave the  *)
(* poll in place or end the wait.                                           *)
WaitsAreWatched == reported = 0 /\ commands = 0 /\ waiting # {} => Watched

(* No awaited child will do anything more unless it is asked to.            *)
ComeToRest == \A c \in waiting : actual[c] \in {"idle", "completed"}

(* As long as its poll survives, a session that waits for sub-agents which  *)
(* have all come to rest stops waiting although none of them may report,    *)
(* and a graceful shutdown ends, at the latest when a poll finds that its   *)
(* deadline has passed (processTimer for agent-poll).                       *)
WatchedEnds ==
  /\ (waiting # {} /\ ComeToRest) ~> (waiting = {} \/ ~ComeToRest \/ ~Watched)
  /\ shutdown ~> (~shutdown \/ waiting = {} \/ ~Watched)
=============================================================================
