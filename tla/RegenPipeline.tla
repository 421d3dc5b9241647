---------------------------- MODULE RegenPipeline ----------------------------
(***************************************************************************)
(* Session regeneration (orchestration/lifecycle.ts, runtime.ts and the    *)
(* rebirth proof in turn.ts, with the activities of session-proxy.ts and   *)
(* the CMS functions they call).                                           *)
(*                                                                         *)
(* A `regenerate` command starts an attempt: the transcript is archived    *)
(* and distilled, by a service session (the distiller) or without one, and *)
(* the flip continues the session as new in the next epoch.  The new       *)
(* execution first records the epoch's boundary in the CMS, then runs the  *)
(* grounding turn; the rebirth is recorded once a turn has proved it.      *)
(* Until the flip any failure abandons the attempt, and commands are taken *)
(* between the stages.                                                     *)
(*                                                                         *)
(* Activities run at least once, may fail before or after their effect,    *)
(* and are not retried when they fail.  What the worker keeps on disk is   *)
(* reduced to the epoch of its SDK session, and an epoch's chain of        *)
(* snapshots to whether it has one.                                        *)
(***************************************************************************)
EXTENDS Integers, FiniteSets

CONSTANTS
  Attempts,     \* ids of regenerate commands
  NoAttempt,
  Stored,       \* blobEnabled: turns commit snapshots to a store
  MinAge,       \* turns an epoch must be old before it may end
  MaxRetries    \* MAX_RETRIES

ASSUME RegenPipelineConstants ==
  /\ NoAttempt \notin Attempts
  /\ Stored \in BOOLEAN
  /\ MinAge \in Nat
  /\ MaxRetries \in Nat

VARIABLES
  \* Carried by the orchestration.
  stage,        \* state.regen.stage, or "none"
  attempt,      \* state.regen.attemptId
  epoch,        \* transcriptEpoch
  startPending, \* epochStartPending
  commit,       \* attemptId of pendingEpochCommit (its toEpoch is `epoch`)
  age,          \* iteration - epochStartIteration, as far as it matters
  cooling,      \* the last flip was less than REGEN_COOLDOWN_MS ago
  shutdown,     \* pendingShutdown
  waiting,      \* waitingForAgentIds
  grounding,    \* what pendingPrompt is: the bootstrap, flagged or not, or "none" of them
  stashed,      \* what budgetStash holds: the bootstrap, prompts of users
  retryCount,
  pc,
  turn,         \* the running turn's prompt: like grounding, or "other"
  outcome,      \* what the turn's activity returned
  versioned,    \* ... with a snapshotVersion of at least 1
  \* The CMS.
  cmsEpoch,     \* sessions.transcript_epoch
  regenCount,   \* session_metrics.regen_count
  committed,    \* attempts with a session.epoch_committed event
  regenerated,  \* attempts with a session.regenerated event
  \* Workers, snapshot store, distillers.
  sdk,          \* epoch of the SDK session on the worker
  chains,       \* epochs with a committed snapshot
  distiller,    \* attempt -> its distiller session
  told,         \* attempts whose distiller has a `done` or `cancel` in its queue
  asked,        \* attempts a client asked for
  \* Observations; no action reads them.
  epochOf,      \* attempt -> the epoch it flipped to, 0 if none
  unrecorded,   \* attempts whose recordRegenerated failed
  lost          \* attempts whose distiller could not be told to end

regenVars   == <<stage, attempt>>
epochVars   == <<epoch, startPending, commit, cooling, epochOf>>
carriedVars == <<shutdown, waiting, grounding, stashed, retryCount>>
turnVars    == <<turn, outcome, versioned>>
cmsVars     == <<cmsEpoch, regenCount, committed, regenerated, unrecorded>>
workerVars  == <<sdk, chains>>
distilVars  == <<distiller, told, lost>>
vars == <<regenVars, epochVars, age, carriedVars, pc, turnVars, cmsVars, workerVars, distilVars,
          asked>>

-----------------------------------------------------------------------------
Init ==
  /\ stage = "none" /\ attempt = NoAttempt
  /\ epoch = 0 /\ startPending = FALSE /\ commit = NoAttempt /\ age = 0 /\ cooling = FALSE
  /\ shutdown = FALSE /\ waiting = FALSE /\ grounding = "none" /\ stashed = {}
  /\ retryCount = 0
  /\ pc = "start" /\ turn = "other" /\ outcome = "none" /\ versioned = FALSE
  /\ cmsEpoch = 0 /\ regenCount = 0 /\ committed = {} /\ regenerated = {}
  /\ sdk = 0 /\ chains = {}
  /\ distiller = [a \in Attempts |-> "none"] /\ told = {}
  /\ asked = {}
  /\ epochOf = [a \in Attempts |-> 0] /\ unrecorded = {} /\ lost = {}

-----------------------------------------------------------------------------
(* The top of runLoop, in every execution.                                  *)

(* Bug: the function does not look for an earlier event of the attempt.     *)
RecordAgain ==
  /\ committed' = committed \union {commit}
  /\ cmsEpoch' = epoch
  /\ regenCount' = regenCount + 1

(* cms_record_epoch_committed, one transaction, once per attempt.           *)
RecordEpochCommitted ==
  IF commit \in committed
  THEN UNCHANGED <<committed, cmsEpoch, regenCount>>
  ELSE /\ committed' = committed \union {commit}
       /\ cmsEpoch' = epoch
       /\ regenCount' = regenCount + 1

StartLoop ==
  /\ pc = "start"
  /\ IF commit = NoAttempt THEN UNCHANGED <<committed, cmsEpoch, regenCount>>
                           ELSE RecordEpochCommitted
  /\ pc' = "drain"
  /\ UNCHANGED <<regenVars, epochVars, age, carriedVars, turnVars, regenerated, unrecorded,
                 workerVars, distilVars, asked>>

(* The activity ran and its answer was lost, so it runs again; or it failed *)
(* for good, which ends the orchestration.                                  *)
BoundaryUnanswered ==
  /\ pc = "start" /\ commit # NoAttempt
  /\ \/ RecordEpochCommitted /\ UNCHANGED pc
     \/ pc' = "ended" /\ (RecordEpochCommitted \/ UNCHANGED <<committed, cmsEpoch, regenCount>>)
  /\ UNCHANGED <<regenVars, epochVars, age, carriedVars, turnVars, regenerated, unrecorded,
                 workerVars, distilVars, asked>>

-----------------------------------------------------------------------------
(* Commands, taken by drain and by the sweep before a prompt's dispatch.    *)

Taking == pc \in {"drain", "sweep"}

(* Bug: the gate `epoch_unsettled` is missing.                              *)
AcceptsUnsettled(source, force) ==
  /\ stage = "none"
  /\ ~shutdown
  /\ (force /\ source = "operator") \/ age >= MinAge
  /\ source \in {"tool", "parent"} => ~cooling

(* The gates of `regenerate` (system sessions, and requests from someone    *)
(* who is neither owner nor parent, are refused as well).                   *)
Accepts(source, force) ==
  /\ stage = "none"
  /\ ~shutdown
  /\ ~startPending
  /\ (force /\ source = "operator") \/ age >= MinAge
  /\ source \in {"tool", "parent"} => ~cooling

TakeRegenerate(a, source, force) ==
  /\ Taking
  /\ a \notin asked
  /\ asked' = asked \union {a}
  /\ \/ Accepts(source, force) /\ stage' = "requested" /\ attempt' = a
     \/ UNCHANGED regenVars
  /\ UNCHANGED <<epochVars, age, carriedVars, pc, turnVars, cmsVars, workerVars, distilVars>>

(* runRegenCancelDistiller swallows a failure to enqueue.                   *)
TellDistiller(a) ==
  \/ told' = told \union {a} /\ UNCHANGED lost
  \/ lost' = lost \union {a} /\ UNCHANGED told

(* Bug: the distiller is forgotten.                                         *)
ForgetDistiller == UNCHANGED <<told, lost>>

cancelInFlightDistiller ==
  IF stage = "distilling" THEN TellDistiller(attempt) ELSE UNCHANGED <<told, lost>>

EndAttempt ==
  /\ cancelInFlightDistiller
  /\ stage' = "none" /\ attempt' = NoAttempt

TakeCancelRegen ==
  /\ Taking
  /\ stage # "none"
  /\ EndAttempt
  /\ UNCHANGED <<epochVars, age, carriedVars, pc, turnVars, cmsVars, workerVars, distiller, asked>>

(* done: with live children a shutdown begins, without them it is over.     *)
TakeDone ==
  /\ Taking
  /\ ~shutdown
  /\ \/ shutdown' = TRUE /\ waiting' = TRUE /\ UNCHANGED pc
     \/ pc' = "ended" /\ UNCHANGED <<shutdown, waiting>>
  /\ UNCHANGED <<regenVars, epochVars, age, grounding, stashed, retryCount, turnVars, cmsVars,
                 workerVars, distilVars, asked>>

(* finalizePendingShutdown, on a child's report; or failPendingShutdown, on *)
(* a poll, which does not fire while a regeneration is pending.             *)
ShutdownEnds ==
  /\ pc = "drain" /\ shutdown
  /\ \/ cancelInFlightDistiller
     \/ stage = "none" /\ UNCHANGED <<told, lost>>
  /\ pc' = "ended"
  /\ UNCHANGED <<regenVars, epochVars, age, carriedVars, turnVars, cmsVars, workerVars, distiller,
                 asked>>

-----------------------------------------------------------------------------
(* advanceRegenPipeline: one stage after each drain.                        *)

Stage(s) == pc = "drain" /\ stage = s

pipelineUnchanged ==
  UNCHANGED <<epochVars, age, carriedVars, pc, turnVars, cmsVars, workerVars, asked>>

(* The fail-safe: an activity of the stage failed; before the flip it is the *)
(* one that changes the model of the session.                               *)
StageFails ==
  /\ pc = "drain" /\ stage \in {"requested", "archived", "distilling", "distilled"}
  /\ EndAttempt
  /\ UNCHANGED distiller
  /\ pipelineUnchanged

Archive ==
  /\ Stage("requested")
  /\ stage' = "archived"
  /\ UNCHANGED <<attempt, distilVars>>
  /\ pipelineUnchanged

(* runDeterministicDistill, asked for or because no distiller can be had.   *)
DistillDeterministically ==
  /\ Stage("archived")
  /\ stage' = "distilled"
  /\ UNCHANGED <<attempt, distilVars>>
  /\ pipelineUnchanged

SpawnDistiller ==
  /\ Stage("archived")
  /\ distiller' = [distiller EXCEPT ![attempt] = "working"]
  /\ stage' = "distilling"
  /\ UNCHANGED <<attempt, told, lost>>
  /\ pipelineUnchanged

(* The distiller was created, and the activity failed nevertheless.         *)
SpawnFailsLate ==
  /\ Stage("archived")
  /\ distiller' = [distiller EXCEPT ![attempt] = "working"]
  /\ lost' = lost \union {attempt}
  /\ stage' = "none" /\ attempt' = NoAttempt
  /\ UNCHANGED told
  /\ pipelineUnchanged

(* runRegenCollectDistiller: `done` is not sent when a repeated activity    *)
(* finds the package, and sending it may fail.                              *)
CollectDistiller ==
  /\ Stage("distilling")
  /\ distiller[attempt] = "answered"
  /\ TellDistiller(attempt)
  /\ stage' = "distilled"
  /\ UNCHANGED <<attempt, distiller>>
  /\ pipelineUnchanged

(* Bug: a distiller that hangs is waited for.                               *)
GiveUpFailedDistiller ==
  /\ Stage("distilling")
  /\ distiller[attempt] = "failed"
  /\ TellDistiller(attempt)
  /\ stage' = "distilled"
  /\ UNCHANGED <<attempt, distiller>>
  /\ pipelineUnchanged

(* The distiller failed, or DISTILLER_SESSION_DEADLINE_MS have passed.      *)
GiveUpDistiller ==
  /\ Stage("distilling")
  /\ distiller[attempt] \in {"working", "failed"}
  /\ TellDistiller(attempt)
  /\ stage' = "distilled"
  /\ UNCHANGED <<attempt, distiller>>
  /\ pipelineUnchanged

(* The flip: a continue-as-new into the next epoch.                         *)
Flip ==
  /\ Stage("distilled")
  /\ epoch' = epoch + 1
  /\ startPending' = TRUE
  /\ commit' = attempt
  /\ epochOf' = [epochOf EXCEPT ![attempt] = epoch + 1]
  /\ age' = 0 /\ cooling' = TRUE
  /\ stage' = "none" /\ attempt' = NoAttempt
  /\ grounding' = "bootstrap" /\ retryCount' = 0
  /\ pc' = "start"
  /\ UNCHANGED <<shutdown, waiting, stashed, turnVars, cmsVars, workerVars, distilVars, asked>>

DistillerWorks(a) ==
  /\ distiller[a] = "working"
  /\ \E s \in {"answered", "failed"} : distiller' = [distiller EXCEPT ![a] = s]
  /\ UNCHANGED <<regenVars, epochVars, age, carriedVars, pc, turnVars, cmsVars, workerVars, told,
                 lost, asked>>

DistillerObeys(a) ==
  /\ a \in told
  /\ distiller[a] \in {"working", "answered"}
  /\ distiller' = [distiller EXCEPT ![a] = "ended"]
  /\ UNCHANGED <<regenVars, epochVars, age, carriedVars, pc, turnVars, cmsVars, workerVars, told,
                 lost, asked>>

CooldownPasses ==
  /\ cooling
  /\ cooling' = FALSE
  /\ UNCHANGED <<regenVars, epoch, startPending, commit, epochOf, age, carriedVars, pc, turnVars,
                 cmsVars, workerVars, distilVars, asked>>

-----------------------------------------------------------------------------
(* decide, while no regeneration is pending.                                *)

Deciding == pc = "drain" /\ stage = "none"

DecideGrounding ==
  /\ Deciding
  /\ grounding # "none" /\ ~waiting
  /\ turn' = grounding
  /\ grounding' = "none"
  /\ pc' = "turn"
  /\ UNCHANGED <<regenVars, epochVars, age, shutdown, waiting, stashed, retryCount, outcome,
                 versioned, cmsVars, workerVars, distilVars, asked>>

(* A prompt, followed by the sweep.  The bootstrap is held back, and        *)
(* overtaken, while the session waits for agents.                           *)
DecidePrompt ==
  /\ Deciding
  /\ grounding = "none" \/ waiting
  /\ turn' = "other"
  /\ pc' = "sweep"
  /\ UNCHANGED <<regenVars, epochVars, age, carriedVars, outcome, versioned, cmsVars, workerVars,
                 distilVars, asked>>

EndSweep ==
  /\ pc = "sweep"
  /\ pc' = "turn"
  /\ UNCHANGED <<regenVars, epochVars, age, carriedVars, turnVars, cmsVars, workerVars, distilVars,
                 asked>>

WaitEnds ==
  /\ pc = "drain" /\ waiting /\ ~shutdown
  /\ waiting' = FALSE
  /\ UNCHANGED <<regenVars, epochVars, age, shutdown, grounding, stashed, retryCount, pc, turnVars,
                 cmsVars, workerVars, distilVars, asked>>

(* Nothing to do, or a cap of the execution: what is carried stays.         *)
ContinueAsNew ==
  /\ pc = "drain"
  /\ pc' = "start"
  /\ retryCount' = 0
  /\ UNCHANGED <<regenVars, epochVars, age, shutdown, waiting, grounding, stashed, turnVars,
                 cmsVars, workerVars, distilVars, asked>>

-----------------------------------------------------------------------------
(* A turn.  Its activity runs on the worker.                                *)

(* The epoch of the SDK session the turn runs in.  With a store, the        *)
(* preamble trusts local files of the epoch only, and otherwise restores    *)
(* the epoch's snapshot or creates a session.  Without one, a session is    *)
(* created when the turn starts an epoch, and resumed when it does not.     *)
SdkOfTurn ==
  IF Stored \/ startPending THEN epoch ELSE sdk

(* The epoch's chain with and without a commit of this turn.                *)
Committing == IF Stored THEN chains \union {epoch} ELSE chains

(* The body ran, to an answer or an error; both are committed.  There is no *)
(* commit if the session has no files, and none of this turn if another     *)
(* writer was first: then the version returned is the one the turn began at. *)
WorkerRunsTurn(result) ==
  /\ pc = "turn"
  /\ sdk' = SdkOfTurn
  /\ \/ chains' = Committing /\ versioned' = Stored
     \/ chains' \in {chains, Committing} /\ versioned' \in {FALSE, Stored /\ epoch \in chains}
  /\ outcome' = result
  /\ pc' = "returned"
  /\ UNCHANGED <<regenVars, epochVars, age, carriedVars, turn, cmsVars, distilVars, asked>>

(* The provider's gate, before the body: the budget is spent, or the gate   *)
(* itself fails.                                                            *)
GateStopsTurn(result) ==
  /\ pc = "turn"
  /\ outcome' = result /\ versioned' = FALSE
  /\ pc' = "returned"
  /\ UNCHANGED <<regenVars, epochVars, age, carriedVars, turn, cmsVars, workerVars, distilVars,
                 asked>>

(* The activity failed, perhaps after its commit.                           *)
WorkerFails ==
  /\ pc = "turn"
  /\ chains' \in {chains, Committing}
  /\ sdk' \in {sdk, SdkOfTurn}
  /\ outcome' = "failed" /\ versioned' = FALSE
  /\ pc' = "retry"
  /\ UNCHANGED <<regenVars, epochVars, age, carriedVars, turn, cmsVars, distilVars, asked>>

(* The turn's local variables are gone.                                     *)
TurnOver == turn' = "other" /\ outcome' = "none" /\ versioned' = FALSE

Older == IF age < MinAge THEN age + 1 ELSE age

(* A stop wins the race; the worker may have committed.                     *)
TurnStopped ==
  /\ pc = "turn"
  /\ chains' \in {chains, Committing}
  /\ sdk' \in {sdk, SdkOfTurn}
  /\ age' = Older
  /\ retryCount' = 0
  /\ pc' = "drain"
  /\ TurnOver
  /\ UNCHANGED <<regenVars, epochVars, shutdown, waiting, grounding, stashed, cmsVars,
                 distilVars, asked>>

(* Bug: any result of the first turn counts.                                *)
AnyResultProves == outcome # "error"

(* A snapshot version, or without a store any result that is no error.      *)
Proven == versioned \/ (~Stored /\ outcome # "error")

(* The proof is consumed before it is recorded.                             *)
ProveRebirth ==
  /\ pc = "returned"
  /\ startPending /\ commit # NoAttempt
  /\ Proven
  /\ pc' = "record"
  /\ startPending' = FALSE
  /\ UNCHANGED <<regenVars, epoch, commit, cooling, epochOf, age, carriedVars, turnVars, cmsVars,
                 workerVars, distilVars, asked>>

(* cms_record_regenerated, once per attempt.                                *)
RecordRegenerated ==
  /\ pc = "record"
  /\ regenerated' = regenerated \union {commit}
  /\ commit' = NoAttempt
  /\ pc' = "returned"
  /\ UNCHANGED <<regenVars, epoch, startPending, cooling, epochOf, age, carriedVars, turnVars,
                 cmsEpoch, regenCount, committed, unrecorded, workerVars, distilVars, asked>>

(* A failure is caught with the turn's own failures.                        *)
RecordFails ==
  /\ pc = "record"
  /\ unrecorded' = unrecorded \union {commit}
  /\ commit' = NoAttempt
  /\ pc' = "retry"
  /\ UNCHANGED <<regenVars, epoch, startPending, cooling, epochOf, age, carriedVars, turnVars,
                 cmsEpoch, regenCount, committed, regenerated, workerVars, distilVars, asked>>

Judged == pc = "returned" /\ ~(startPending /\ commit # NoAttempt /\ Proven)

(* handleTurnResult: an answer, after which the session may wait for agents. *)
TurnAnswered ==
  /\ Judged /\ outcome = "answered"
  /\ age' = Older
  /\ stashed' = {} /\ retryCount' = 0
  /\ waiting' \in {waiting, TRUE}
  /\ pc' = "drain"
  /\ TurnOver
  /\ UNCHANGED <<regenVars, epochVars, shutdown, grounding, cmsVars, workerVars, distilVars, asked>>

(* A refused prompt is stashed, and the iteration does not count.           *)
TurnRefused ==
  /\ Judged /\ outcome = "refused"
  /\ IF turn = "other" THEN stashed' \in {stashed, stashed \union {"user"}}
                       ELSE stashed' = stashed \union {"bootstrap"}
  /\ retryCount' = 0
  /\ pc' = "drain"
  /\ TurnOver
  /\ UNCHANGED <<regenVars, epochVars, age, shutdown, waiting, grounding, cmsVars, workerVars,
                 distilVars, asked>>

TurnErrs ==
  /\ Judged /\ outcome = "error"
  /\ age' = Older
  /\ stashed' = {}
  /\ pc' = "retry"
  /\ UNCHANGED <<regenVars, epochVars, shutdown, waiting, grounding, retryCount, turnVars, cmsVars,
                 workerVars, distilVars, asked>>

(* Bug: the count is compared before it is advanced.                        *)
TurnRetriesOnceMore ==
  /\ pc = "retry"
  /\ retryCount <= MaxRetries /\ retryCount' = retryCount + 1
  /\ grounding' = IF turn = "other" THEN "none" ELSE "plain"
  /\ pc' = "start"
  /\ TurnOver
  /\ UNCHANGED <<regenVars, epochVars, age, shutdown, waiting, stashed, cmsVars, workerVars,
                 distilVars, asked>>

(* handleGenericRetry, handleConnectionClosedRetry: the turn's prompt takes *)
(* the place of what was pending and is carried over a continue-as-new.     *)
(* After the last attempt a lossy handoff counts afresh.                    *)
TurnRetries ==
  /\ pc = "retry"
  /\ \/ retryCount + 1 <= MaxRetries /\ retryCount' = retryCount + 1
     \/ retryCount + 1 > MaxRetries /\ Stored /\ retryCount' = 0
  /\ grounding' = IF turn = "other" THEN "none" ELSE "plain"
  /\ pc' = "start"
  /\ TurnOver
  /\ UNCHANGED <<regenVars, epochVars, age, shutdown, waiting, stashed, cmsVars, workerVars,
                 distilVars, asked>>

(* Retries are exhausted, or the failure must not be retried.               *)
TurnGivesUp ==
  /\ pc = "retry"
  /\ retryCount' = 0
  /\ pc' = "drain"
  /\ TurnOver
  /\ UNCHANGED <<regenVars, epochVars, age, shutdown, waiting, grounding, stashed, cmsVars,
                 workerVars, distilVars, asked>>

(* The session's state is missing and cannot be recreated.                  *)
TurnFatal ==
  /\ pc = "retry" /\ outcome # "answered"
  /\ pc' = "ended"
  /\ TurnOver
  /\ UNCHANGED <<regenVars, epochVars, age, carriedVars, cmsVars, workerVars, distilVars, asked>>

-----------------------------------------------------------------------------
Command ==
  \/ \E a \in Attempts, source \in {"tool", "parent", "policy", "operator"}, force \in BOOLEAN :
       TakeRegenerate(a, source, force)
  \/ TakeCancelRegen \/ TakeDone

Advance == Archive \/ DistillDeterministically \/ SpawnDistiller \/ CollectDistiller
           \/ GiveUpDistiller \/ Flip

Pipeline == Advance \/ StageFails \/ SpawnFailsLate

Distiller == \E a \in Attempts : DistillerWorks(a) \/ DistillerObeys(a)

Turn == \/ \E result \in {"answered", "error"} : WorkerRunsTurn(result)
        \/ \E result \in {"refused", "error"} : GateStopsTurn(result)
        \/ WorkerFails \/ TurnStopped
        \/ ProveRebirth \/ RecordRegenerated \/ RecordFails
        \/ TurnAnswered \/ TurnRefused \/ TurnErrs \/ TurnRetries \/ TurnGivesUp \/ TurnFatal

Next == \/ StartLoop \/ BoundaryUnanswered
        \/ Command \/ ShutdownEnds
        \/ Pipeline \/ Distiller \/ CooldownPasses
        \/ DecideGrounding \/ DecidePrompt \/ EndSweep \/ WaitEnds \/ ContinueAsNew
        \/ Turn

Spec == Init /\ [][Next]_vars

(* The runtime executes the session, and a cap that continues it as new is  *)
(* met only after many stages could have run.                               *)
Fairness ==
  /\ WF_vars(StartLoop) /\ WF_vars(EndSweep) /\ WF_vars(Turn)
  /\ SF_vars(Advance)

FairSpec == Spec /\ Fairness

-----------------------------------------------------------------------------
CarriedTypeOK ==
  /\ stage \in {"none", "requested", "archived", "distilling", "distilled"}
  /\ attempt \in Attempts \union {NoAttempt}
  /\ (stage = "none" <=> attempt = NoAttempt)
  /\ epoch \in Nat /\ startPending \in BOOLEAN
  /\ commit \in Attempts \union {NoAttempt}
  /\ age \in 0 .. MinAge /\ cooling \in BOOLEAN
  /\ shutdown \in BOOLEAN /\ waiting \in BOOLEAN
  /\ grounding \in {"none", "bootstrap", "plain"}
  /\ stashed \subseteq {"bootstrap", "user"}
  /\ retryCount \in 0 .. MaxRetries

OtherTypeOK ==
  /\ pc \in {"start", "drain", "sweep", "turn", "returned", "record", "retry", "ended"}
  /\ turn \in {"bootstrap", "plain", "other"}
  /\ outcome \in {"none", "answered", "error", "refused", "failed"}
  /\ versioned \in BOOLEAN
  /\ cmsEpoch \in Nat /\ regenCount \in Nat
  /\ committed \subseteq Attempts /\ regenerated \subseteq Attempts
  /\ sdk \in Nat /\ chains \subseteq Nat
  /\ distiller \in [Attempts -> {"none", "working", "answered", "failed", "ended"}]
  /\ told \subseteq Attempts /\ asked \subseteq Attempts
  /\ epochOf \in [Attempts -> Nat]
  /\ unrecorded \subseteq Attempts /\ lost \subseteq Attempts

(* The type invariant.  A retry count stays within its limit.               *)
TypeOK == CarriedTypeOK /\ OtherTypeOK

(* commitEpochBoundary runs at the top of every execution until the rebirth *)
(* is proved, and may run several times for one flip; nevertheless the      *)
(* CMS counts every epoch once, and is never behind an epoch whose loop has *)
(* begun.                                                                   *)
EpochsCounted ==
  /\ regenCount = cmsEpoch
  /\ cmsEpoch \in {epoch - 1, epoch}
  /\ pc \notin {"start", "ended"} => cmsEpoch = epoch

(* A flip's rebirth is proved and recorded before pendingEpochCommit is     *)
(* given to another: at most one flip, the last, is still to be proved.     *)
NoFlipOverwritten ==
  \A a \in Attempts :
    epochOf[a] > 0 /\ a \notin regenerated \union unrecorded => a = commit /\ epochOf[a] = epoch

(* With a store, session.regenerated says that the epoch can be restored    *)
(* from the store.                                                          *)
ProofIsStored ==
  Stored => \A a \in regenerated : epochOf[a] \in chains

(* A distiller that is still at work, or waits, serves the current attempt, *)
(* has been told to end, or could not be told.                              *)
NoStrayDistiller ==
  \A a \in Attempts :
    distiller[a] \in {"working", "answered"} =>
      (a = attempt /\ stage = "distilling") \/ a \in told \union lost

(* An accepted regenerate command flips the session or is given up.         *)
AttemptEnds == stage # "none" ~> stage = "none" \/ pc = "ended"
=============================================================================
