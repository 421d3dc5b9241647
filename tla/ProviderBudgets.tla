--------------------------- MODULE ProviderBudgets ---------------------------
(***************************************************************************)
(* The budget of a provider (provider-budgets.ts, provider-wake.ts, the gate *)
(* and the settlement of session-proxy.ts, the procedures of                 *)
(* cms-migrations.ts) and the sessions that spend it (turn.ts).              *)
(*                                                                          *)
(* A turn asks the gate first.  It runs, and its tokens are charged when it  *)
(* has ended; or it is refused, its prompts are stashed, and the session     *)
(* sleeps until a timer or the wake that follows a change of the provider    *)
(* makes it ask again.  The verdict is computed in one statement and the     *)
(* pause becomes visible in a later one.  Attempts at a turn may be lost,    *)
(* or go on although another attempt, or a stop, has taken their place.      *)
(*                                                                          *)
(* There is one provider with one limit, for one period and all models.      *)
(* Sessions of the system (never refused, never metered) and other timers    *)
(* (SessionTimers) are left out; how long a pause lasts is left open.        *)
(***************************************************************************)
EXTENDS Integers, FiniteSets, FiniteSetsExt

CONSTANTS
  Sessions,    \* the sessions
  Users,       \* their owners
  Owner,       \* the owner of each session
  Limits,      \* the limits that may be set
  Shares,      \* the allowances that may be set, in percent
  Tokens,      \* what a turn may spend
  MaxTokens,   \* the most that a turn may spend
  MaxPrompts,  \* bound: prompts
  MaxRetries,  \* MAX_RETRIES
  MaxChanges,  \* bound: changes of the provider and ends of a window
  MaxFaults    \* bound: failing models and calls, lost attempts and stops

ASSUME BudgetConstants ==
  /\ IsFiniteSet(Sessions) /\ Owner \in [Sessions -> Users]
  /\ Limits \subseteq Nat \ {0} /\ Shares \subseteq 1 .. 100 
  /\ MaxTokens \in Nat /\ Tokens \subseteq 0 .. MaxTokens
  /\ MaxPrompts \in Nat /\ MaxRetries \in Nat \ {0}
  /\ MaxChanges \in Nat /\ MaxFaults \in Nat

VARIABLES
  \* The database.
  provider,   \* up: the provider exists; hold; limit, 0 if there is none; share
  meter,      \* provider_meters of the current window
  userMeter,  \* provider_meters_user of the current window
  ledger,     \* provider_usage_ledger
  paused,     \* pause_state of each session
  row,        \* whether a session's row says that it has failed
  \* The orchestrations.
  loop,       \* "rest", "turn" or "backoff"
  timer,      \* the timer of a pause is armed
  inbox,      \* the prompts that wait
  nudged,     \* a wake waits
  batch,      \* the prompts of the turn
  stash,      \* budgetStash
  iteration,
  retries,    \* retryCount
  \* The workers.
  stage,      \* how far the attempt at the turn has come
  verdict,    \* what the gate has found
  strays,     \* attempts that go on although they are no longer waited for
  \* The management client.
  toWake,     \* the sessions that are still to be woken
  lookup,     \* the sessions that are paused are still to be looked up
  \* Bounds.
  sent, changes, faults,
  \* Observation; no action reads it.
  told,       \* the prompts that a model was given
  steady,     \* the limit has been in force, and not been lowered, all window
  crowd       \* the turns that were at work when the gate last cleared one

database == <<provider, meter, userMeter, ledger, paused, row>>
session == <<loop, timer, inbox, nudged, batch, stash, iteration, retries>>
attempt == <<stage, verdict, strays>>
waking == <<toWake, lookup>>
bounds == <<sent, changes, faults>>
ghost == <<told, steady, crowd>>
vars == <<database, session, attempt, waking, bounds, ghost>>

NoProvider == [up |-> FALSE, hold |-> FALSE, limit |-> 0, share |-> 100]

Fault == faults < MaxFaults /\ faults' = faults + 1

-----------------------------------------------------------------------------
(* The gate (cms_provider_check_turn).                                      *)

(* cms_provider_ceiling: what one person may spend of a limit.              *)
Ceiling == LET part == (2 * provider.limit * provider.share + 100) \div 200
           IN  IF part > 1 THEN part ELSE 1

(* Bug: a limit is passed before it holds.                                  *)
SpentBeyond == provider.limit > 0 /\ meter > provider.limit

Spent == provider.limit > 0 /\ meter >= provider.limit

ShareSpent(s) ==
  provider.limit > 0 /\ provider.share < 100 /\ userMeter[Owner[s]] >= Ceiling

Judged(s) ==
  IF ~provider.up THEN "no_provider"
  ELSE IF provider.hold THEN "hold"
  ELSE IF Spent THEN "limit"
  ELSE IF ShareSpent(s) THEN "allowance" ELSE "clear"

(* A key of the ledger.                                                     *)
Key(s) == [session |-> s, turn |-> iteration[s]]
Settled(key) == \E entry \in ledger : entry.key = key

(* The turns the gate has cleared that are not in the ledger yet.           *)
AtWork == {key \in strays \union {Key(s) : s \in {u \in Sessions :
             stage[u] = "model" \/ (stage[u] = "judged" /\ verdict[u] = "clear")}} :
             ~Settled(key)}

(* The verdict is computed from what other transactions have committed.     *)
checkTurn(s) ==
  /\ stage[s] = "gate"
  /\ stage' = [stage EXCEPT ![s] = "judged"]
  /\ verdict' = [verdict EXCEPT ![s] = Judged(s)]
  /\ crowd' = IF Judged(s) = "clear"
                THEN Cardinality(AtWork \union ({Key(s)} \ {entry.key : entry \in ledger}))
                ELSE crowd
  /\ UNCHANGED <<database, session, strays, waking, bounds, told, steady>>

(* The check cannot be made: the turn fails (FAIL CLOSED).                  *)
GateFails(s) ==
  /\ stage[s] = "gate"
  /\ Fault
  /\ stage' = [stage EXCEPT ![s] = "unchecked"]
  /\ UNCHANGED <<database, session, verdict, strays, waking, sent, changes, ghost>>

(* Bug: the pause is not written to the row of the session.                 *)
RefuseUnrecorded(s) ==
  /\ stage[s] = "judged" /\ verdict[s] # "clear"
  /\ stage' = [stage EXCEPT ![s] = "refused"]
  /\ UNCHANGED <<database, session, verdict, strays, waking, bounds, ghost>>

(* The pause is committed, and the turn is refused (admissionToWait).       *)
Refuse(s) ==
  /\ stage[s] = "judged" /\ verdict[s] # "clear"
  /\ paused' = [paused EXCEPT ![s] = verdict[s]]
  /\ stage' = [stage EXCEPT ![s] = "refused"]
  /\ UNCHANGED <<provider, meter, userMeter, ledger, row, session, verdict, strays,
                 waking, bounds, ghost>>

(* The turn runs (executeTurnBody): the model is given what was refused     *)
(* before, and the prompts of the turn.                                     *)
Admit(s) ==
  /\ stage[s] = "judged" /\ verdict[s] = "clear"
  /\ paused' = [paused EXCEPT ![s] = "none"]
  /\ row' = [row EXCEPT ![s] = "ok"]
  /\ stage' = [stage EXCEPT ![s] = "model"]
  /\ told' = [told EXCEPT ![s] = @ \union stash[s] \union batch[s]]
  /\ UNCHANGED <<provider, meter, userMeter, ledger, session, verdict, strays,
                 waking, bounds, steady, crowd>>

-----------------------------------------------------------------------------
(* Settlement (cms_provider_settle_turn): a turn is charged once, to the    *)
(* window in which it ends; a provider that is gone has no meters.          *)

(* Bug: an attempt that is not the first to settle moves the meters again.  *)
SettleTwice(key, tokens) ==
  /\ ledger' = IF Settled(key) THEN ledger
               ELSE ledger \union {[key |-> key, tokens |-> tokens, counts |-> provider.up]}
  /\ meter' = IF provider.up THEN meter + tokens ELSE meter
  /\ userMeter' = IF provider.up THEN [userMeter EXCEPT ![Owner[key.session]] = @ + tokens]
                  ELSE userMeter

settleTurn(key, tokens) ==
  IF Settled(key)
    THEN UNCHANGED <<meter, userMeter, ledger>>
    ELSE /\ ledger' = ledger \union {[key |-> key, tokens |-> tokens, counts |-> provider.up]}
         /\ meter' = IF provider.up THEN meter + tokens ELSE meter
         /\ userMeter' = IF provider.up
                           THEN [userMeter EXCEPT ![Owner[key.session]] = @ + tokens]
                           ELSE userMeter

(* The model is done, with or without an error: the row of the session and  *)
(* the ledger are written.                                                  *)
TurnEnds(s, result, tokens) ==
  /\ stage[s] = "model"
  /\ settleTurn(Key(s), tokens)
  /\ stage' = [stage EXCEPT ![s] = result]
  /\ row' = [row EXCEPT ![s] = IF result = "failed" THEN "error" ELSE "ok"]
  /\ UNCHANGED <<provider, paused, session, verdict, strays, waking, sent, changes, ghost>>

ModelAnswers(s, tokens) == TurnEnds(s, "completed", tokens) /\ UNCHANGED faults
ModelFails(s, tokens) == TurnEnds(s, "failed", tokens) /\ Fault

(* The settlement is given up (cmsRetryBestEffort).                         *)
TurnEndsUnsettled(s, result) ==
  /\ stage[s] = "model"
  /\ Fault
  /\ stage' = [stage EXCEPT ![s] = result]
  /\ UNCHANGED <<database, session, verdict, strays, waking, sent, changes, ghost>>

(* A stray attempt settles, or is cancelled in time.                        *)
StraySettles(key, tokens) ==
  /\ key \in strays
  /\ settleTurn(key, tokens)
  /\ strays' = strays \ {key}
  /\ UNCHANGED <<provider, paused, row, session, stage, verdict, waking, bounds, ghost>>

StrayCancelled(key) ==
  /\ key \in strays
  /\ strays' = strays \ {key}
  /\ UNCHANGED <<database, session, stage, verdict, waking, bounds, ghost>>

(* The worker crashes or loses its lock: the turn is attempted again, from  *)
(* its gate, and the old attempt may go on.                                 *)
AttemptAgain(s) ==
  /\ loop[s] = "turn"
  /\ Fault
  /\ strays' = IF stage[s] = "model" THEN strays \union {Key(s)} ELSE strays
  /\ stage' = [stage EXCEPT ![s] = "gate"]
  /\ UNCHANGED <<database, session, verdict, waking, sent, changes, ghost>>

-----------------------------------------------------------------------------
(* The orchestration.                                                       *)

Send(s) ==
  /\ MapThenSumSet(LAMBDA u : sent[u], Sessions) < MaxPrompts
  /\ sent' = [sent EXCEPT ![s] = @ + 1]
  /\ inbox' = [inbox EXCEPT ![s] = @ \union {sent[s] + 1}]
  /\ UNCHANGED <<database, loop, timer, nudged, batch, stash, iteration, retries,
                 attempt, waking, changes, faults, ghost>>

StartTurn(s) ==
  /\ loop' = [loop EXCEPT ![s] = "turn"]
  /\ stage' = [stage EXCEPT ![s] = "gate"]
  /\ timer' = [timer EXCEPT ![s] = FALSE]

(* What waits, prompts and wakes, makes one turn and interrupts the pause.  *)
TakeMessages(s) ==
  /\ loop[s] = "rest"
  /\ inbox[s] # {} \/ nudged[s]
  /\ StartTurn(s)
  /\ batch' = [batch EXCEPT ![s] = inbox[s]]
  /\ inbox' = [inbox EXCEPT ![s] = {}]
  /\ nudged' = [nudged EXCEPT ![s] = FALSE]
  /\ UNCHANGED <<database, stash, iteration, retries, verdict, strays, waking, bounds, ghost>>

PauseEnds(s) ==
  /\ loop[s] = "rest"
  /\ timer[s]
  /\ StartTurn(s)
  /\ batch' = [batch EXCEPT ![s] = {}]
  /\ UNCHANGED <<database, inbox, nudged, stash, iteration, retries, verdict, strays,
                 waking, bounds, ghost>>

RetryTurn(s) ==
  /\ loop[s] = "backoff"
  /\ StartTurn(s)
  /\ UNCHANGED <<database, inbox, nudged, batch, stash, iteration, retries, verdict,
                 strays, waking, bounds, ghost>>

(* Bug: what an attempt has left is taken for the next one.                 *)
AttemptKept(s) == UNCHANGED <<stage, verdict>>

AttemptOver(s) ==
  /\ stage' = [stage EXCEPT ![s] = "none"]
  /\ verdict' = [verdict EXCEPT ![s] = "clear"]

Rests(s) ==
  /\ AttemptOver(s)
  /\ loop' = [loop EXCEPT ![s] = "rest"]
  /\ batch' = [batch EXCEPT ![s] = {}]
  /\ retries' = [retries EXCEPT ![s] = 0]

(* Bug: the pause has no timer, and only a wake ends it.                    *)
RefusedWithoutTimer(s) ==
  /\ stage[s] = "refused"
  /\ Rests(s)
  /\ stash' = [stash EXCEPT ![s] = @ \union batch[s]]
  /\ UNCHANGED <<database, timer, inbox, nudged, iteration, strays,
                 waking, bounds, ghost>>

(* stashBudgetRefusedPrompt, and the timer of the pause; the turn has not   *)
(* run and its number is used again.                                        *)
TurnRefused(s) ==
  /\ stage[s] = "refused"
  /\ Rests(s)
  /\ stash' = [stash EXCEPT ![s] = @ \union batch[s]]
  /\ timer' = [timer EXCEPT ![s] = TRUE]
  /\ UNCHANGED <<database, inbox, nudged, iteration, strays,
                 waking, bounds, ghost>>

TurnCompletes(s) ==
  /\ stage[s] = "completed"
  /\ Rests(s)
  /\ stash' = [stash EXCEPT ![s] = {}]
  /\ iteration' = [iteration EXCEPT ![s] = @ + 1]
  /\ UNCHANGED <<database, timer, inbox, nudged, strays, waking, bounds, ghost>>

(* handleGenericRetry: the turn is tried again after a while, or given up   *)
(* and the failure is written to the row of the session.                    *)
Retries(s) ==
  IF retries[s] + 1 >= MaxRetries
    THEN Rests(s) /\ row' = [row EXCEPT ![s] = "error"]
    ELSE /\ AttemptOver(s)
         /\ loop' = [loop EXCEPT ![s] = "backoff"]
         /\ retries' = [retries EXCEPT ![s] = @ + 1]
         /\ UNCHANGED <<batch, row>>

(* Any result but a refusal clears the stash: also the failure of a gate    *)
(* that could not be asked.                                                 *)
TurnFails(s) ==
  /\ stage[s] \in {"failed", "unchecked"}
  /\ Retries(s)
  /\ stash' = [stash EXCEPT ![s] = {}]
  /\ iteration' = [iteration EXCEPT ![s] = @ + 1]
  /\ UNCHANGED <<provider, meter, userMeter, ledger, paused, timer, inbox, nudged,
                 strays, waking, bounds, ghost>>

(* projectNonRetryableTurnFailure, projectAuthFailure                       *)
TurnFailsForGood(s) ==
  /\ stage[s] = "failed"
  /\ Rests(s)
  /\ row' = [row EXCEPT ![s] = "error"]
  /\ stash' = [stash EXCEPT ![s] = {}]
  /\ iteration' = [iteration EXCEPT ![s] = @ + 1]
  /\ UNCHANGED <<provider, meter, userMeter, ledger, paused, timer, inbox, nudged,
                 strays, waking, bounds, ghost>>

(* Bug: the stash is given up when an activity throws.                      *)
ThrowsAndForgets(s) ==
  /\ stage[s] \in {"judged", "model"}
  /\ Fault
  /\ Retries(s)
  /\ stash' = [stash EXCEPT ![s] = {}]
  /\ UNCHANGED <<provider, meter, userMeter, ledger, paused, timer, inbox, nudged,
                 iteration, strays, waking, sent, changes, ghost>>

(* The activity throws, before the model is called or while it works.       *)
TurnThrows(s) ==
  /\ stage[s] \in {"judged", "model"}
  /\ Fault
  /\ Retries(s)
  /\ UNCHANGED <<provider, meter, userMeter, ledger, paused, timer, inbox, nudged, stash,
                 iteration, strays, waking, sent, changes, ghost>>

(* The user stops the turn (handleTurnStopped); the attempt may go on.      *)
TurnStopped(s) ==
  /\ stage[s] = "model"
  /\ Fault
  /\ Rests(s)
  /\ strays' = strays \union {Key(s)}
  /\ row' = [row EXCEPT ![s] = "ok"]
  /\ iteration' = [iteration EXCEPT ![s] = @ + 1]
  /\ UNCHANGED <<provider, meter, userMeter, ledger, paused, timer, inbox, nudged, stash,
                 waking, sent, changes, ghost>>

-----------------------------------------------------------------------------
(* Changes of the provider, and the wake that follows them.                 *)

(* One change is made, and its wake sent, at a time.                        *)
Change == changes < MaxChanges /\ changes' = changes + 1
Changes == ~lookup /\ toWake = {} /\ Change

(* setLimit and removeLimit: the meters have been running all along.        *)
setLimit(limit) ==
  /\ Changes
  /\ provider.up /\ limit # provider.limit
  /\ provider' = [provider EXCEPT !.limit = limit]
  /\ steady' = (steady /\ limit > provider.limit)
  /\ lookup' = TRUE
  /\ UNCHANGED <<meter, userMeter, ledger, paused, row, session, attempt, toWake,
                 sent, faults, told, crowd>>

setAllowance(share) ==
  /\ Changes
  /\ provider.up /\ share # provider.share
  /\ provider' = [provider EXCEPT !.share = share]
  /\ lookup' = TRUE
  /\ UNCHANGED <<meter, userMeter, ledger, paused, row, session, attempt, toWake,
                 sent, faults, ghost>>

setHold ==
  /\ Changes
  /\ provider.up
  /\ provider' = [provider EXCEPT !.hold = ~@]
  /\ lookup' = TRUE
  /\ UNCHANGED <<meter, userMeter, ledger, paused, row, session, attempt, toWake,
                 sent, faults, ghost>>

(* The rules and the meters of a provider go with it, its entries in the    *)
(* ledger do not; nobody is woken.                                          *)
deleteProvider ==
  /\ Changes
  /\ provider.up
  /\ provider' = NoProvider
  /\ meter' = 0
  /\ userMeter' = [u \in Users |-> 0]
  /\ ledger' = {[entry EXCEPT !.counts = FALSE] : entry \in ledger}
  /\ steady' = FALSE
  /\ UNCHANGED <<paused, row, session, attempt, waking, sent, faults, told, crowd>>

createProvider ==
  /\ Changes
  /\ ~provider.up
  /\ provider' = [provider EXCEPT !.up = TRUE]
  /\ lookup' = TRUE
  /\ UNCHANGED <<meter, userMeter, ledger, paused, row, session, attempt, toWake,
                 sent, faults, ghost>>

(* wakeProviderPausedSessions: sessions whose row says that they have       *)
(* failed are not looked up (cms_provider_paused_for).                      *)
pausedFor ==
  /\ lookup
  /\ lookup' = FALSE
  /\ toWake' = {s \in Sessions : paused[s] # "none" /\ row[s] # "error"}
  /\ UNCHANGED <<database, session, attempt, bounds, ghost>>

LookupFails ==
  /\ lookup
  /\ Fault
  /\ lookup' = FALSE
  /\ UNCHANGED <<database, session, attempt, toWake, sent, changes, ghost>>

Wake(s) ==
  /\ s \in toWake
  /\ toWake' = toWake \ {s}
  /\ nudged' = [nudged EXCEPT ![s] = TRUE]
  /\ UNCHANGED <<database, loop, timer, inbox, batch, stash, iteration, retries,
                 attempt, lookup, bounds, ghost>>

WakeFails(s) ==
  /\ s \in toWake
  /\ Fault
  /\ toWake' = toWake \ {s}
  /\ UNCHANGED <<database, session, attempt, lookup, sent, changes, ghost>>

(* A window of the limit ends: the meters of the next one are new rows.     *)
WindowEnds ==
  /\ Change
  /\ meter' = 0
  /\ userMeter' = [u \in Users |-> 0]
  /\ ledger' = {[entry EXCEPT !.counts = FALSE] : entry \in ledger}
  /\ steady' = (provider.limit > 0)
  /\ crowd' = Cardinality(AtWork)
  /\ UNCHANGED <<provider, paused, row, session, attempt, waking, sent, faults, told>>

-----------------------------------------------------------------------------
Init ==
  /\ provider \in [up : {TRUE}, hold : BOOLEAN, limit : Limits, share : Shares]
                  \union {NoProvider}
  /\ meter = 0
  /\ userMeter = [u \in Users |-> 0]
  /\ ledger = {}
  /\ paused = [s \in Sessions |-> "none"]
  /\ row = [s \in Sessions |-> "ok"]
  /\ loop = [s \in Sessions |-> "rest"]
  /\ timer = [s \in Sessions |-> FALSE]
  /\ inbox = [s \in Sessions |-> {}]
  /\ nudged = [s \in Sessions |-> FALSE]
  /\ batch = [s \in Sessions |-> {}]
  /\ stash = [s \in Sessions |-> {}]
  /\ iteration = [s \in Sessions |-> 0]
  /\ retries = [s \in Sessions |-> 0]
  /\ stage = [s \in Sessions |-> "none"]
  /\ verdict = [s \in Sessions |-> "clear"]
  /\ strays = {}
  /\ toWake = {}
  /\ lookup = FALSE
  /\ sent = [s \in Sessions |-> 0]
  /\ changes = 0
  /\ faults = 0
  /\ told = [s \in Sessions |-> {}]
  /\ steady = provider.up
  /\ crowd = 0

Gate(s) == checkTurn(s) \/ Refuse(s) \/ Admit(s)

RunTurn(s) ==
  \/ Gate(s)
  \/ \E tokens \in Tokens : ModelAnswers(s, tokens)

TurnFaults(s) ==
  \/ GateFails(s)
  \/ \E tokens \in Tokens : ModelFails(s, tokens)
  \/ \E result \in {"completed", "failed"} : TurnEndsUnsettled(s, result)
  \/ AttemptAgain(s)
  \/ TurnThrows(s)
  \/ TurnStopped(s)

handleTurnResult(s) ==
  TurnRefused(s) \/ TurnCompletes(s) \/ TurnFails(s) \/ TurnFailsForGood(s)

Orchestrate(s) == TakeMessages(s) \/ PauseEnds(s) \/ RetryTurn(s)

Manage ==
  \/ \E limit \in Limits \union {0} : setLimit(limit)
  \/ \E share \in Shares : setAllowance(share)
  \/ setHold
  \/ deleteProvider
  \/ createProvider
  \/ pausedFor
  \/ LookupFails
  \/ \E s \in Sessions : Wake(s) \/ WakeFails(s)

Next ==
  \/ \E s \in Sessions : Send(s) \/ Orchestrate(s) \/ RunTurn(s) \/ TurnFaults(s)
                         \/ handleTurnResult(s)
  \/ \E key \in strays : StrayCancelled(key) \/ \E tokens \in Tokens : StraySettles(key, tokens)
  \/ Manage
  \/ WindowEnds

Spec == Init /\ [][Next]_vars

(* Workers and orchestrations go on, and the timer of a pause fires.  No    *)
(* change, wake, prompt or end of a window is promised.                     *)
Fairness ==
  \A s \in Sessions : WF_vars(Orchestrate(s) \/ RunTurn(s) \/ handleTurnResult(s))

FairSpec == Spec /\ Fairness

-----------------------------------------------------------------------------
Verdicts == {"clear", "limit", "allowance", "hold", "no_provider"}

(* The state has its types: a session at rest has no attempt, and a turn is *)
(* not tried more often than the retries allow.                             *)
TypeOK ==
  /\ provider \in [up : BOOLEAN, hold : BOOLEAN, limit : Limits \union {0}, share : 1 .. 100]
  /\ meter \in Nat
  /\ userMeter \in [Users -> Nat]
  /\ ledger \subseteq [key : [session : Sessions, turn : Nat], tokens : Tokens, counts : BOOLEAN]
  /\ paused \in [Sessions -> {"none"} \union (Verdicts \ {"clear"})]
  /\ row \in [Sessions -> {"ok", "error"}]
  /\ loop \in [Sessions -> {"rest", "turn", "backoff"}]
  /\ timer \in [Sessions -> BOOLEAN] /\ nudged \in [Sessions -> BOOLEAN]
  /\ inbox \in [Sessions -> SUBSET Nat] /\ batch \in [Sessions -> SUBSET Nat]
  /\ stash \in [Sessions -> SUBSET Nat] /\ told \in [Sessions -> SUBSET Nat]
  /\ sent \in [Sessions -> Nat]
  /\ \A s \in Sessions : UNION {inbox[s], batch[s], stash[s], told[s]} \subseteq 1 .. sent[s]
  /\ iteration \in [Sessions -> Nat]
  /\ retries \in [Sessions -> 0 .. MaxRetries - 1]
  /\ stage \in [Sessions -> {"none", "gate", "judged", "unchecked", "refused", "model",
                             "completed", "failed"}]
  /\ verdict \in [Sessions -> Verdicts]
  /\ \A s \in Sessions : (stage[s] # "none") <=> (loop[s] = "turn")
  /\ strays \subseteq [session : Sessions, turn : Nat]
  /\ toWake \subseteq Sessions /\ lookup \in BOOLEAN
  /\ steady \in BOOLEAN /\ crowd \in Nat

(* The meters are what the ledger says was spent on this provider in this   *)
(* window, in all and by each person: whatever is settled late, twice or    *)
(* after the provider is gone, no charge is lost or made twice.             *)
MetersMatchLedger ==
  LET counted == {entry \in ledger : entry.counts}
      sum(entries) == MapThenSumSet(LAMBDA entry : entry.tokens, entries)
  IN  /\ meter = sum(counted)
      /\ \A u \in Users :
           userMeter[u] = sum({entry \in counted : Owner[entry.key.session] = u})

(* A limit is overrun by no more than the turns that were at work when the  *)
(* gate last cleared one, if it was not set or lowered during the window.   *)
OvershootBounded ==
  steady => meter <= provider.limit - 1 + crowd * MaxTokens

(* Prompts that were refused stay in the stash until a model was given      *)
(* them; only the failure of the gate's own check loses them.               *)
RefusedPromptsKept ==
  [][\A s \in Sessions :
       stash[s] \subseteq stash'[s] \union told[s] \/ stage[s] = "unchecked"]_vars

(* "Any result other than a gate refusal means the turn actually reached    *)
(* the model": prompts leave the stash only when a model was given them.    *)
StashDelivered ==
  [][\A s \in Sessions : stash[s] \subseteq stash'[s] \union told[s]]_vars

(* A session that sleeps on a pause says so on its row, where a wake finds  *)
(* it.                                                                      *)
SleepersAreListed == \A s \in Sessions : timer[s] /\ loop[s] = "rest" => paused[s] # "none"

Open(s) == Judged(s) = "clear"

(* A session whose prompts were refused gives them to a model once the gate *)
(* would let it, although every wake may be missed; unless the gate closes  *)
(* again or the session fails.                                              *)
RefusedServed ==
  \A s \in Sessions :
    Open(s) /\ ~(stash[s] \subseteq told[s]) ~>
      ~Open(s) \/ stash[s] \subseteq told[s] \/ row[s] = "error"
=============================================================================
