----------------------- MODULE ProviderBudgets_proofs -----------------------
(***************************************************************************)
(* The safety properties of ProviderBudgets, for any sessions, owners,     *)
(* limits, allowances and costs of a turn, and for any number of prompts,  *)
(* changes and faults.                                                     *)
(*                                                                         *)
(* The bound on how far a limit is overrun is not inductive: it says       *)
(* nothing of the turns that are still at work and will be charged later.  *)
(* Bounded reserves the most a turn may spend for each of them.  A gate    *)
(* that clears a turn has found the meter below the limit, so that the     *)
(* reservation starts anew; a settlement turns a reservation into a        *)
(* charge, once for each key of the ledger, whatever attempts there are;   *)
(* and every other step leaves the turns at work alone or takes some away. *)
(*                                                                         *)
(* That the meters are the sums of the ledger rests on what a sum over a   *)
(* finite set is.  MapThenSumSet chooses a function that solves a          *)
(* recursive equation; the second part proves that there is one and what   *)
(* it computes, each time from a least subset that would be an exception.  *)
(***************************************************************************)
EXTENDS ProviderBudgets, FiniteSetTheorems, NaturalsInduction, WellFoundedInduction, TLAPS

(* The gate has cleared the attempt at the turn of s.                       *)
Working(s) == stage[s] = "model" \/ (stage[s] = "judged" /\ verdict[s] = "clear")

(* A pause is on the row before the turn is known to be refused, and stays  *)
(* there as long as its timer is armed.                                     *)
Listed ==
  \A s \in Sessions :
    /\ stage[s] = "refused" => paused[s] # "none"
    /\ timer[s] => loop[s] = "rest" /\ paused[s] # "none"

(* A turn that has reached the model has given it what was stashed.         *)
Delivered ==
  \A s \in Sessions :
    stage[s] \in {"model", "completed", "failed"} => stash[s] \subseteq told[s]

(* What is metered, and what the turns at work may add to it.               *)
Bounded ==
  steady =>
    /\ provider.limit > 0
    /\ meter + Cardinality(AtWork) * MaxTokens <= provider.limit - 1 + crowd * MaxTokens

Inv == TypeOK /\ IsFiniteSet(strays) /\ Listed /\ Delivered /\ Bounded

-----------------------------------------------------------------------------
(* The parts of TypeOK.                                                     *)

DatabaseOK ==
  /\ provider \in [up : BOOLEAN, hold : BOOLEAN, limit : Limits \union {0}, share : 1 .. 100]
  /\ meter \in Nat
  /\ userMeter \in [Users -> Nat]
  /\ ledger \subseteq [key : [session : Sessions, turn : Nat], tokens : Tokens, counts : BOOLEAN]

RowsOK ==
  /\ paused \in [Sessions -> {"none"} \union (Verdicts \ {"clear"})]
  /\ row \in [Sessions -> {"ok", "error"}]

PromptsOK ==
  /\ inbox \in [Sessions -> SUBSET Nat] /\ batch \in [Sessions -> SUBSET Nat]
  /\ stash \in [Sessions -> SUBSET Nat] /\ told \in [Sessions -> SUBSET Nat]
  /\ sent \in [Sessions -> Nat]

PromptsWereSent ==
  \A s \in Sessions : UNION {inbox[s], batch[s], stash[s], told[s]} \subseteq 1 .. sent[s]

LoopOK ==
  /\ loop \in [Sessions -> {"rest", "turn", "backoff"}]
  /\ timer \in [Sessions -> BOOLEAN] /\ nudged \in [Sessions -> BOOLEAN]
  /\ stage \in [Sessions -> {"none", "gate", "judged", "unchecked", "refused", "model",
                             "completed", "failed"}]
  /\ verdict \in [Sessions -> Verdicts]
  /\ \A s \in Sessions : (stage[s] # "none") <=> (loop[s] = "turn")

CountersOK ==
  /\ iteration \in [Sessions -> Nat]
  /\ retries \in [Sessions -> 0 .. MaxRetries - 1]

OthersOK ==
  /\ strays \subseteq [session : Sessions, turn : Nat]
  /\ toWake \subseteq Sessions /\ lookup \in BOOLEAN
  /\ steady \in BOOLEAN /\ crowd \in Nat

(* Together they are TypeOK.                                               *)
LEMMA TypeParts ==
  TypeOK <=> /\ DatabaseOK /\ RowsOK /\ PromptsOK /\ PromptsWereSent
             /\ LoopOK /\ CountersOK /\ OthersOK
BY DEF TypeOK, DatabaseOK, RowsOK, PromptsOK, PromptsWereSent, LoopOK, CountersOK, OthersOK

(* Settlement leaves the meters and the ledger well-formed.                 *)
LEMMA SettleType ==
  ASSUME DatabaseOK, NEW key \in [session : Sessions, turn : Nat], NEW tokens \in Tokens,
         settleTurn(key, tokens)
  PROVE  /\ meter' \in Nat
         /\ userMeter' \in [Users -> Nat]
         /\ ledger' \subseteq
              [key : [session : Sessions, turn : Nat], tokens : Tokens, counts : BOOLEAN]
<1> USE DEF DatabaseOK
<1>1. tokens \in Nat /\ Owner[key.session] \in Users /\ provider.up \in BOOLEAN
  BY BudgetConstants
<1>2. meter' \in Nat
  BY <1>1 DEF settleTurn
<1>3. userMeter' \in [Users -> Nat]
  <2>1. userMeter[Owner[key.session]] + tokens \in Nat
    BY <1>1
  <2> QED
    BY <1>1, <2>1 DEF settleTurn
<1>4. [key |-> key, tokens |-> tokens, counts |-> provider.up]
        \in [key : [session : Sessions, turn : Nat], tokens : Tokens, counts : BOOLEAN]
  BY <1>1
<1>5. ledger' \subseteq
        [key : [session : Sessions, turn : Nat], tokens : Tokens, counts : BOOLEAN]
  BY <1>4 DEF settleTurn
<1> QED
  BY <1>2, <1>3, <1>5

(* The keys of the turns.                                                   *)
LEMMA KeyType ==
  ASSUME CountersOK, NEW s \in Sessions
  PROVE  Key(s) \in [session : Sessions, turn : Nat]
BY DEF CountersOK, Key

(* A ledger whose entries no longer count is still a ledger, of the same    *)
(* keys.                                                                    *)
LEMMA Discounted ==
  ASSUME DatabaseOK, ledger' = {[entry EXCEPT !.counts = FALSE] : entry \in ledger}
  PROVE  /\ ledger' \subseteq
              [key : [session : Sessions, turn : Nat], tokens : Tokens, counts : BOOLEAN]
         /\ \A key : Settled(key)' <=> Settled(key)
<1>1. ASSUME NEW entry \in ledger
      PROVE  /\ [entry EXCEPT !.counts = FALSE]
                  \in [key : [session : Sessions, turn : Nat], tokens : Tokens, counts : BOOLEAN]
             /\ [entry EXCEPT !.counts = FALSE].key = entry.key
  BY DEF DatabaseOK
<1>2. ledger' \subseteq
        [key : [session : Sessions, turn : Nat], tokens : Tokens, counts : BOOLEAN]
  BY <1>1
<1>3. ASSUME NEW key
      PROVE  Settled(key)' <=> Settled(key)
  <2>1. ASSUME Settled(key)
        PROVE  Settled(key)'
    <3>1. PICK entry \in ledger : entry.key = key
      BY <2>1 DEF Settled
    <3>2. [entry EXCEPT !.counts = FALSE] \in ledger'
      OBVIOUS
    <3> QED
      BY <1>1, <3>1, <3>2 DEF Settled
  <2>2. ASSUME Settled(key)'
        PROVE  Settled(key)
    <3>1. PICK new \in ledger' : new.key = key
      BY <2>2 DEF Settled
    <3>2. PICK entry \in ledger : new = [entry EXCEPT !.counts = FALSE]
      OBVIOUS
    <3> QED
      BY <1>1, <3>1, <3>2 DEF Settled
  <2> QED
    BY <2>1, <2>2
<1> QED
  BY <1>2, <1>3

(* The database keeps its types in every step.                              *)
LEMMA DatabaseStep ==
  ASSUME TypeOK, [Next]_vars
  PROVE  DatabaseOK'
<1> DatabaseOK /\ CountersOK /\ OthersOK
  BY TypeParts
<1>1. CASE UNCHANGED <<provider, meter, userMeter, ledger>>
  BY <1>1 DEF DatabaseOK
<1>2. ASSUME NEW key \in [session : Sessions, turn : Nat], NEW tokens \in Tokens,
             settleTurn(key, tokens), UNCHANGED provider
      PROVE  DatabaseOK'
  BY <1>2, SettleType DEF DatabaseOK
<1>3. ASSUME NEW s \in Sessions, NEW tokens \in Tokens,
             ModelAnswers(s, tokens) \/ ModelFails(s, tokens)
      PROVE  DatabaseOK'
  BY <1>2, <1>3, KeyType DEF ModelAnswers, ModelFails, TurnEnds
<1>4. ASSUME NEW key \in strays, NEW tokens \in Tokens, StraySettles(key, tokens)
      PROVE  DatabaseOK'
  BY <1>2, <1>4 DEF StraySettles, OthersOK
<1>5. ASSUME meter' = 0, userMeter' = [u \in Users |-> 0],
             ledger' = {[entry EXCEPT !.counts = FALSE] : entry \in ledger}
      PROVE  /\ meter' \in Nat /\ userMeter' \in [Users -> Nat]
             /\ ledger' \subseteq
                  [key : [session : Sessions, turn : Nat], tokens : Tokens, counts : BOOLEAN]
  BY <1>5, Discounted
<1>6. CASE WindowEnds
  BY <1>5, <1>6 DEF WindowEnds, DatabaseOK
<1>7. CASE deleteProvider
  <2>1. NoProvider \in
          [up : BOOLEAN, hold : BOOLEAN, limit : Limits \union {0}, share : 1 .. 100]
    BY DEF NoProvider
  <2> QED
    BY <1>5, <1>7, <2>1 DEF deleteProvider, DatabaseOK
<1>8. ASSUME NEW limit \in Limits \union {0}, setLimit(limit)
      PROVE  DatabaseOK'
  BY <1>8 DEF setLimit, DatabaseOK
<1>9. ASSUME NEW share \in Shares, setAllowance(share)
      PROVE  DatabaseOK'
  <2>1. share \in 1 .. 100
    BY BudgetConstants
  <2> QED
    BY <1>9, <2>1 DEF setAllowance, DatabaseOK
<1>10. CASE setHold
  BY <1>10 DEF setHold, DatabaseOK
<1>11. CASE createProvider
  BY <1>11 DEF createProvider, DatabaseOK
<1>12. ASSUME NEW s \in Sessions,
              Send(s) \/ Orchestrate(s) \/ Gate(s) \/ GateFails(s) \/ AttemptAgain(s)
       PROVE  UNCHANGED <<provider, meter, userMeter, ledger>>
  BY <1>12 DEF Send, Orchestrate, TakeMessages, PauseEnds, RetryTurn, Gate, checkTurn, Refuse,
               Admit, GateFails, AttemptAgain, database
<1>13. ASSUME NEW s \in Sessions,
              TurnThrows(s) \/ TurnStopped(s) \/ handleTurnResult(s)
       PROVE  UNCHANGED <<provider, meter, userMeter, ledger>>
  BY <1>13 DEF TurnThrows, TurnStopped, handleTurnResult, TurnRefused, TurnCompletes, TurnFails,
               TurnFailsForGood, database
<1>14. ASSUME NEW s \in Sessions, NEW result, TurnEndsUnsettled(s, result)
       PROVE  UNCHANGED <<provider, meter, userMeter, ledger>>
  BY <1>14 DEF TurnEndsUnsettled, database
<1>15. ASSUME NEW key \in strays, StrayCancelled(key)
       PROVE  UNCHANGED <<provider, meter, userMeter, ledger>>
  BY <1>15 DEF StrayCancelled, database
<1>16. ASSUME pausedFor \/ LookupFails \/ \E s \in Sessions : Wake(s) \/ WakeFails(s)
       PROVE  UNCHANGED <<provider, meter, userMeter, ledger>>
  BY <1>16 DEF pausedFor, LookupFails, Wake, WakeFails, database
<1>17. CASE UNCHANGED vars
  BY <1>1, <1>17 DEF vars, database
<1> QED
  BY <1>1, <1>3, <1>4, <1>6, <1>7, <1>8, <1>9, <1>10, <1>11, <1>12, <1>13, <1>14, <1>15, <1>16,
     <1>17
     DEF Next, RunTurn, TurnFaults, Manage

(* The rows of the sessions keep their types.                               *)
LEMMA RowsStep ==
  ASSUME TypeOK, [Next]_vars
  PROVE  RowsOK'
<1> RowsOK /\ LoopOK
  BY TypeParts
<1>1. CASE UNCHANGED <<paused, row>>
  BY <1>1 DEF RowsOK
<1>2. ASSUME NEW s \in Sessions, NEW value \in {"ok", "error"},
             row' = [row EXCEPT ![s] = value], UNCHANGED paused
      PROVE  RowsOK'
  BY <1>2 DEF RowsOK
<1>3. ASSUME NEW s \in Sessions, Refuse(s)
      PROVE  RowsOK'
  <2>1. verdict[s] \in Verdicts \ {"clear"}
    BY <1>3 DEF Refuse, LoopOK
  <2> QED
    BY <1>3, <2>1 DEF Refuse, RowsOK
<1>4. ASSUME NEW s \in Sessions, Admit(s)
      PROVE  RowsOK'
  BY <1>4 DEF Admit, RowsOK
<1>5. ASSUME NEW s \in Sessions, NEW tokens \in Tokens,
             ModelAnswers(s, tokens) \/ ModelFails(s, tokens)
      PROVE  RowsOK'
  BY <1>2, <1>5 DEF ModelAnswers, ModelFails, TurnEnds
<1>6. ASSUME NEW s \in Sessions, Retries(s), UNCHANGED paused
      PROVE  RowsOK'
  BY <1>1, <1>2, <1>6 DEF Retries
<1>7. ASSUME NEW s \in Sessions, TurnThrows(s) \/ TurnFails(s)
      PROVE  RowsOK'
  BY <1>6, <1>7 DEF TurnThrows, TurnFails
<1>8. ASSUME NEW s \in Sessions, TurnStopped(s) \/ TurnFailsForGood(s)
      PROVE  RowsOK'
  BY <1>2, <1>8 DEF TurnStopped, TurnFailsForGood
<1>9. ASSUME NEW s \in Sessions,
             \/ Send(s) \/ Orchestrate(s) \/ checkTurn(s) \/ GateFails(s) \/ AttemptAgain(s)
             \/ TurnRefused(s) \/ TurnCompletes(s) \/ Wake(s) \/ WakeFails(s)
      PROVE  UNCHANGED <<paused, row>>
  BY <1>9 DEF Send, Orchestrate, TakeMessages, PauseEnds, RetryTurn, checkTurn, GateFails,
              AttemptAgain, TurnRefused, TurnCompletes, Wake, WakeFails, database
<1>10. ASSUME NEW s \in Sessions, NEW result, TurnEndsUnsettled(s, result)
       PROVE  UNCHANGED <<paused, row>>
  BY <1>10 DEF TurnEndsUnsettled, database
<1>11. ASSUME NEW key \in strays,
              StrayCancelled(key) \/ \E tokens \in Tokens : StraySettles(key, tokens)
       PROVE  UNCHANGED <<paused, row>>
  BY <1>11 DEF StrayCancelled, StraySettles, database
<1>12. ASSUME \/ \E limit \in Limits \union {0} : setLimit(limit)
              \/ \E share \in Shares : setAllowance(share)
              \/ setHold \/ deleteProvider \/ createProvider \/ pausedFor \/ LookupFails
              \/ WindowEnds
       PROVE  UNCHANGED <<paused, row>>
  BY <1>12 DEF setLimit, setAllowance, setHold, deleteProvider, createProvider, pausedFor,
               LookupFails, WindowEnds, database
<1>13. CASE UNCHANGED vars
  BY <1>1, <1>13 DEF vars, database
<1> QED
  BY <1>1, <1>3, <1>4, <1>5, <1>7, <1>8, <1>9, <1>10, <1>11, <1>12, <1>13
     DEF Next, RunTurn, Gate, TurnFaults, handleTurnResult, Manage

(* Every step of the database, the workers and the management client that   *)
(* is none of an orchestration leaves the prompts alone.                    *)
LEMMA PromptsElsewhere ==
  ASSUME \/ \E s \in Sessions :
              \/ checkTurn(s) \/ Refuse(s) \/ GateFails(s) \/ AttemptAgain(s)
              \/ \E tokens \in Tokens : ModelAnswers(s, tokens) \/ ModelFails(s, tokens)
              \/ \E result \in {"completed", "failed"} : TurnEndsUnsettled(s, result)
         \/ \E key \in strays :
              StrayCancelled(key) \/ \E tokens \in Tokens : StraySettles(key, tokens)
         \/ Manage \/ WindowEnds \/ UNCHANGED vars
  PROVE  UNCHANGED <<loop, timer, inbox, batch, stash, iteration, retries, told, sent>>
<1> USE DEF session, bounds, ghost
<1>1. ASSUME NEW s \in Sessions,
             checkTurn(s) \/ Refuse(s) \/ GateFails(s) \/ AttemptAgain(s)
      PROVE  UNCHANGED <<loop, timer, inbox, batch, stash, iteration, retries, told, sent>>
  BY <1>1 DEF checkTurn, Refuse, GateFails, AttemptAgain
<1>2. ASSUME NEW s \in Sessions, NEW tokens \in Tokens,
             ModelAnswers(s, tokens) \/ ModelFails(s, tokens)
      PROVE  UNCHANGED <<loop, timer, inbox, batch, stash, iteration, retries, told, sent>>
  BY <1>2 DEF ModelAnswers, ModelFails, TurnEnds
<1>3. ASSUME NEW s \in Sessions, NEW result, TurnEndsUnsettled(s, result)
      PROVE  UNCHANGED <<loop, timer, inbox, batch, stash, iteration, retries, told, sent>>
  BY <1>3 DEF TurnEndsUnsettled
<1>4. ASSUME NEW key \in strays,
             StrayCancelled(key) \/ \E tokens \in Tokens : StraySettles(key, tokens)
      PROVE  UNCHANGED <<loop, timer, inbox, batch, stash, iteration, retries, told, sent>>
  BY <1>4 DEF StrayCancelled, StraySettles
<1>5. CASE Manage
  BY <1>5 DEF Manage, setLimit, setAllowance, setHold, deleteProvider, createProvider, pausedFor,
              LookupFails, Wake, WakeFails
<1>6. CASE WindowEnds \/ UNCHANGED vars
  BY <1>6 DEF WindowEnds, vars
<1> QED
  BY <1>1, <1>2, <1>3, <1>4, <1>5, <1>6

(* The prompts keep their types, and none appears that was not sent.        *)
LEMMA PromptsStep ==
  ASSUME TypeOK, [Next]_vars
  PROVE  PromptsOK' /\ PromptsWereSent'
<1> PromptsOK /\ PromptsWereSent
  BY TypeParts
<1> USE DEF PromptsOK, PromptsWereSent
<1>1. CASE UNCHANGED <<inbox, batch, stash, told, sent>>
  BY <1>1
<1>2. ASSUME NEW s \in Sessions, Send(s)
      PROVE  PromptsOK' /\ PromptsWereSent'
  <2>1. /\ sent' = [sent EXCEPT ![s] = @ + 1]
        /\ inbox' = [inbox EXCEPT ![s] = @ \union {sent[s] + 1}]
        /\ UNCHANGED <<batch, stash, told>>
    BY <1>2 DEF Send, ghost
  <2>2. sent[s] + 1 \in Nat /\ sent[s] + 1 \in 1 .. sent[s] + 1
        /\ 1 .. sent[s] \subseteq 1 .. sent[s] + 1
    OBVIOUS
  <2>3. PromptsOK'
    BY <2>1, <2>2
  <2>4. ASSUME NEW u \in Sessions
        PROVE  (UNION {inbox[u], batch[u], stash[u], told[u]} \subseteq 1 .. sent[u])'
    <3>1. CASE u = s
      <4>1. sent'[u] = sent[s] + 1 /\ inbox'[u] = inbox[s] \union {sent[s] + 1}
        BY <2>1, <3>1
      <4>2. UNION {inbox[s], batch[s], stash[s], told[s]} \subseteq 1 .. sent[s] + 1
        BY <2>2
      <4>3. UNION {inbox[s] \union {sent[s] + 1}, batch[s], stash[s], told[s]}
              \subseteq 1 .. sent[s] + 1
        BY <2>2, <4>2
      <4>4. batch'[u] = batch[s] /\ stash'[u] = stash[s] /\ told'[u] = told[s]
        BY <2>1, <3>1
      <4> QED
        BY <4>1, <4>3, <4>4, Zenon
    <3>2. CASE u # s
      <4>1. sent'[u] = sent[u] /\ inbox'[u] = inbox[u]
        BY <2>1, <3>2
      <4> QED
        BY <2>1, <4>1
    <3> QED
      BY <3>1, <3>2
  <2> QED
    BY <2>3, <2>4
<1>3. ASSUME NEW s \in Sessions,
             NEW I \in SUBSET UNION {inbox[s], batch[s], stash[s], told[s]},
             NEW B \in SUBSET UNION {inbox[s], batch[s], stash[s], told[s]},
             NEW H \in SUBSET UNION {inbox[s], batch[s], stash[s], told[s]},
             NEW T \in SUBSET UNION {inbox[s], batch[s], stash[s], told[s]},
             inbox' = [inbox EXCEPT ![s] = I], batch' = [batch EXCEPT ![s] = B],
             stash' = [stash EXCEPT ![s] = H], told' = [told EXCEPT ![s] = T],
             UNCHANGED sent
      PROVE  PromptsOK' /\ PromptsWereSent'
  <2>1. PromptsOK'
    BY <1>3
  <2>2. ASSUME NEW u \in Sessions
        PROVE  (UNION {inbox[u], batch[u], stash[u], told[u]} \subseteq 1 .. sent[u])'
    <3>1. CASE u = s
      <4>1. inbox'[u] = I /\ batch'[u] = B /\ stash'[u] = H /\ told'[u] = T
        BY <1>3, <3>1
      <4>2. UNION {I, B, H, T} \subseteq 1 .. sent[s]
        BY <1>3
      <4>3. sent'[u] = sent[s]
        BY <1>3, <3>1
      <4> QED
        BY <4>1, <4>2, <4>3, Zenon
    <3>2. CASE u # s
      <4>1. /\ inbox'[u] = inbox[u] /\ batch'[u] = batch[u] /\ stash'[u] = stash[u]
            /\ told'[u] = told[u] /\ sent'[u] = sent[u]
        BY <1>3, <3>2
      <4> QED
        BY <4>1
    <3> QED
      BY <3>1, <3>2
  <2> QED
    BY <2>1, <2>2
<1>4. \A s \in Sessions :
        /\ inbox = [inbox EXCEPT ![s] = inbox[s]] /\ batch = [batch EXCEPT ![s] = batch[s]]
        /\ stash = [stash EXCEPT ![s] = stash[s]] /\ told = [told EXCEPT ![s] = told[s]]
  OBVIOUS
<1>5. ASSUME NEW s \in Sessions, TakeMessages(s) \/ PauseEnds(s) \/ RetryTurn(s)
      PROVE  PromptsOK' /\ PromptsWereSent'
  <2>1. \/ UNCHANGED <<inbox, batch>>
        \/ UNCHANGED inbox /\ batch' = [batch EXCEPT ![s] = {}]
        \/ inbox' = [inbox EXCEPT ![s] = {}] /\ batch' = [batch EXCEPT ![s] = inbox[s]]
    BY <1>5 DEF TakeMessages, PauseEnds, RetryTurn
  <2>2. UNCHANGED <<stash, told, sent>>
    BY <1>5 DEF TakeMessages, PauseEnds, RetryTurn, ghost, bounds
  <2> QED
    BY <1>1, <1>3, <1>4, <2>1, <2>2
<1>6. ASSUME NEW s \in Sessions, Admit(s)
      PROVE  PromptsOK' /\ PromptsWereSent'
  BY <1>3, <1>4, <1>6 DEF Admit, session, bounds
<1>7. ASSUME NEW s \in Sessions,
             \/ TurnRefused(s) \/ TurnCompletes(s) \/ TurnFails(s) \/ TurnFailsForGood(s)
             \/ TurnThrows(s) \/ TurnStopped(s)
      PROVE  PromptsOK' /\ PromptsWereSent'
  <2>1. /\ UNCHANGED <<inbox, told, sent>>
        /\ UNCHANGED stash \/ stash' = [stash EXCEPT ![s] = {}]
           \/ stash' = [stash EXCEPT ![s] = @ \union batch[s]]
    BY <1>7 DEF TurnRefused, TurnCompletes, TurnFails, TurnFailsForGood, TurnThrows, TurnStopped,
                bounds, ghost
  <2>2. UNCHANGED batch \/ batch' = [batch EXCEPT ![s] = {}]
    BY <1>7 DEF TurnRefused, TurnCompletes, TurnFails, TurnFailsForGood, TurnThrows, TurnStopped,
                Rests, Retries
  <2> QED
    BY <1>3, <1>4, <2>1, <2>2
<1> QED
  BY <1>1, <1>2, <1>5, <1>6, <1>7, PromptsElsewhere
     DEF Next, Orchestrate, RunTurn, Gate, TurnFaults, handleTurnResult

(* Steps that concern no attempt at a turn.                                 *)
LEMMA AttemptsElsewhere ==
  ASSUME \/ \E s \in Sessions : Send(s)
         \/ \E key \in strays :
              StrayCancelled(key) \/ \E tokens \in Tokens : StraySettles(key, tokens)
         \/ Manage \/ WindowEnds \/ UNCHANGED vars
  PROVE  UNCHANGED <<loop, timer, iteration, retries, stage, verdict, stash, told, paused>>
<1> USE DEF session, attempt, ghost, database
<1>1. ASSUME NEW s \in Sessions, Send(s)
      PROVE  UNCHANGED <<loop, timer, iteration, retries, stage, verdict, stash, told, paused>>
  BY <1>1 DEF Send
<1>2. ASSUME NEW key \in strays,
             StrayCancelled(key) \/ \E tokens \in Tokens : StraySettles(key, tokens)
      PROVE  UNCHANGED <<loop, timer, iteration, retries, stage, verdict, stash, told, paused>>
  BY <1>2 DEF StrayCancelled, StraySettles
<1>3. CASE Manage
  BY <1>3 DEF Manage, setLimit, setAllowance, setHold, deleteProvider, createProvider, pausedFor,
              LookupFails, Wake, WakeFails
<1>4. CASE WindowEnds \/ UNCHANGED vars
  BY <1>4 DEF WindowEnds, vars
<1> QED
  BY <1>1, <1>2, <1>3, <1>4

(* The loops and their attempts keep their types: a session has an attempt  *)
(* exactly during a turn.                                                   *)
LEMMA LoopStep ==
  ASSUME TypeOK, [Next]_vars
  PROVE  LoopOK'
<1> LoopOK
  BY TypeParts
<1> USE DEF LoopOK
<1> DEFINE Stages == {"none", "gate", "judged", "unchecked", "refused", "model", "completed",
                      "failed"}
<1>1. nudged' \in [Sessions -> BOOLEAN]
  <2>1. ASSUME NEW s \in Sessions, TakeMessages(s) \/ Wake(s)
        PROVE  nudged' \in [Sessions -> BOOLEAN]
    BY <2>1 DEF TakeMessages, Wake
  <2>2. ASSUME NEW s \in Sessions,
               \/ Send(s) \/ PauseEnds(s) \/ RetryTurn(s) \/ Gate(s) \/ GateFails(s)
               \/ AttemptAgain(s) \/ TurnThrows(s) \/ TurnStopped(s) \/ handleTurnResult(s)
               \/ WakeFails(s)
        PROVE  UNCHANGED nudged
    BY <2>2 DEF Send, PauseEnds, RetryTurn, Gate, checkTurn, Refuse, Admit, GateFails,
                AttemptAgain, TurnThrows, TurnStopped, handleTurnResult, TurnRefused,
                TurnCompletes, TurnFails, TurnFailsForGood, WakeFails, session
  <2>3. ASSUME NEW s \in Sessions,
               \/ \E tokens \in Tokens : ModelAnswers(s, tokens) \/ ModelFails(s, tokens)
               \/ \E result \in {"completed", "failed"} : TurnEndsUnsettled(s, result)
        PROVE  UNCHANGED nudged
    BY <2>3 DEF ModelAnswers, ModelFails, TurnEnds, TurnEndsUnsettled, session
  <2>4. ASSUME NEW key \in strays,
               StrayCancelled(key) \/ \E tokens \in Tokens : StraySettles(key, tokens)
        PROVE  UNCHANGED nudged
    BY <2>4 DEF StrayCancelled, StraySettles, session
  <2>5. ASSUME \/ \E limit \in Limits \union {0} : setLimit(limit)
               \/ \E share \in Shares : setAllowance(share)
               \/ setHold \/ deleteProvider \/ createProvider \/ pausedFor \/ LookupFails
               \/ WindowEnds \/ UNCHANGED vars
        PROVE  UNCHANGED nudged
    BY <2>5 DEF setLimit, setAllowance, setHold, deleteProvider, createProvider, pausedFor,
                LookupFails, WindowEnds, vars, session
  <2> QED
    BY <2>1, <2>2, <2>3, <2>4, <2>5
       DEF Next, Orchestrate, RunTurn, TurnFaults, Manage
<1>2. CASE UNCHANGED <<loop, timer, stage, verdict>>
  BY <1>1, <1>2
<1>3. ASSUME NEW s \in Sessions, NEW l \in {"rest", "turn", "backoff"}, NEW t \in BOOLEAN,
             NEW g \in Stages, NEW v \in Verdicts, g # "none" <=> l = "turn",
             loop' = [loop EXCEPT ![s] = l], timer' = [timer EXCEPT ![s] = t],
             stage' = [stage EXCEPT ![s] = g], verdict' = [verdict EXCEPT ![s] = v]
      PROVE  LoopOK'
  <2>1. /\ loop' \in [Sessions -> {"rest", "turn", "backoff"}]
        /\ timer' \in [Sessions -> BOOLEAN]
        /\ stage' \in [Sessions -> Stages]
        /\ verdict' \in [Sessions -> Verdicts]
    BY <1>3
  <2>2. ASSUME NEW u \in Sessions
        PROVE  (stage'[u] # "none") <=> (loop'[u] = "turn")
    BY <1>3
  <2> QED
    BY <1>1, <2>1, <2>2
<1>4. \A s \in Sessions :
        /\ loop = [loop EXCEPT ![s] = loop[s]] /\ timer = [timer EXCEPT ![s] = timer[s]]
        /\ stage = [stage EXCEPT ![s] = stage[s]] /\ verdict = [verdict EXCEPT ![s] = verdict[s]]
  OBVIOUS
<1>5. ASSUME NEW s \in Sessions, TakeMessages(s) \/ PauseEnds(s) \/ RetryTurn(s)
      PROVE  LoopOK'
  <2>1. StartTurn(s) /\ UNCHANGED verdict
    BY <1>5 DEF TakeMessages, PauseEnds, RetryTurn
  <2>2. verdict' = [verdict EXCEPT ![s] = verdict[s]] /\ verdict[s] \in Verdicts
    BY <1>4, <2>1
  <2>3. "gate" \in Stages /\ "turn" \in {"rest", "turn", "backoff"}
    OBVIOUS
  <2> QED
    BY <1>3, <2>1, <2>2, <2>3 DEF StartTurn
<1>6. ASSUME NEW s \in Sessions, checkTurn(s)
      PROVE  LoopOK'
  <2>1. Judged(s) \in Verdicts
    BY DEF Judged, Verdicts
  <2> QED
    <3>1. /\ loop' = [loop EXCEPT ![s] = loop[s]] /\ timer' = [timer EXCEPT ![s] = timer[s]]
          /\ stage' = [stage EXCEPT ![s] = "judged"]
          /\ verdict' = [verdict EXCEPT ![s] = Judged(s)]
      BY <1>4, <1>6 DEF checkTurn, session
    <3>2. loop[s] = "turn" /\ timer[s] \in BOOLEAN /\ "judged" \in Stages
      BY <1>6 DEF checkTurn
    <3> QED
      BY <1>3, <2>1, <3>1, <3>2
<1>7. ASSUME NEW s \in Sessions, Refuse(s) \/ Admit(s) \/ GateFails(s) \/ AttemptAgain(s)
      PROVE  LoopOK'
  BY <1>3, <1>4, <1>7 DEF Refuse, Admit, GateFails, AttemptAgain, session
<1>8. ASSUME NEW s \in Sessions, NEW result \in {"completed", "failed"},
             stage[s] = "model", stage' = [stage EXCEPT ![s] = result], UNCHANGED session,
             UNCHANGED verdict
      PROVE  LoopOK'
  <2>1. /\ loop' = [loop EXCEPT ![s] = loop[s]] /\ timer' = [timer EXCEPT ![s] = timer[s]]
        /\ verdict' = [verdict EXCEPT ![s] = verdict[s]]
    BY <1>4, <1>8 DEF session
  <2>2. /\ loop[s] = "turn" /\ timer[s] \in BOOLEAN /\ verdict[s] \in Verdicts
        /\ result \in Stages /\ result # "none"
    BY <1>8
  <2> QED
    BY <1>3, <1>8, <2>1, <2>2
<1>9. ASSUME NEW s \in Sessions,
             \/ \E tokens \in Tokens : ModelAnswers(s, tokens) \/ ModelFails(s, tokens)
             \/ \E result \in {"completed", "failed"} : TurnEndsUnsettled(s, result)
      PROVE  LoopOK'
  BY <1>8, <1>9 DEF ModelAnswers, ModelFails, TurnEnds, TurnEndsUnsettled
<1>10. ASSUME NEW s \in Sessions, NEW l \in {"rest", "backoff"}, NEW t \in BOOLEAN,
              AttemptOver(s), loop' = [loop EXCEPT ![s] = l], timer' = [timer EXCEPT ![s] = t]
       PROVE  LoopOK'
  BY <1>3, <1>10 DEF AttemptOver, Verdicts
<1>11. ASSUME NEW s \in Sessions,
              \/ TurnRefused(s) \/ TurnCompletes(s) \/ TurnFails(s) \/ TurnFailsForGood(s)
              \/ TurnThrows(s) \/ TurnStopped(s)
       PROVE  LoopOK'
  <2>1. PICK t \in BOOLEAN : timer' = [timer EXCEPT ![s] = t]
    <3>1. timer' = timer \/ timer' = [timer EXCEPT ![s] = TRUE]
      BY <1>11 DEF TurnRefused, TurnCompletes, TurnFails, TurnFailsForGood, TurnThrows,
                   TurnStopped
    <3>2. timer[s] \in BOOLEAN
      OBVIOUS
    <3> QED
      BY <1>4, <3>1, <3>2
  <2>2. AttemptOver(s) /\ \E l \in {"rest", "backoff"} : loop' = [loop EXCEPT ![s] = l]
    <3>1. Rests(s) \/ Retries(s)
      BY <1>11 DEF TurnRefused, TurnCompletes, TurnFails, TurnFailsForGood, TurnThrows,
                   TurnStopped
    <3> QED
      BY <3>1 DEF Rests, Retries
  <2> QED
    BY <1>10, <2>1, <2>2
<1> QED
  BY <1>2, <1>5, <1>6, <1>7, <1>9, <1>11, AttemptsElsewhere
     DEF Next, Orchestrate, RunTurn, Gate, TurnFaults, handleTurnResult

(* The numbers of turns and retries keep their types: a turn is given up    *)
(* when its retries are used up.                                            *)
LEMMA CountersStep ==
  ASSUME TypeOK, [Next]_vars
  PROVE  CountersOK'
<1> CountersOK
  BY TypeParts
<1> USE DEF CountersOK
<1>1. CASE UNCHANGED <<iteration, retries>>
  BY <1>1
<1>2. 0 \in 0 .. MaxRetries - 1
  BY BudgetConstants
<1>3. ASSUME NEW s \in Sessions,
             \/ TurnRefused(s) \/ TurnCompletes(s) \/ TurnFails(s) \/ TurnFailsForGood(s)
             \/ TurnThrows(s) \/ TurnStopped(s)
      PROVE  CountersOK'
  <2>1. UNCHANGED iteration \/ iteration' = [iteration EXCEPT ![s] = @ + 1]
    BY <1>3 DEF TurnRefused, TurnCompletes, TurnFails, TurnFailsForGood, TurnThrows, TurnStopped
  <2>2. iteration' \in [Sessions -> Nat]
    <3>1. iteration[s] + 1 \in Nat
      OBVIOUS
    <3> QED
      BY <2>1, <3>1
  <2>3. \/ retries' = [retries EXCEPT ![s] = 0]
        \/ retries[s] + 1 < MaxRetries /\ retries' = [retries EXCEPT ![s] = @ + 1]
    <3>1. Rests(s) \/ Retries(s)
      BY <1>3 DEF TurnRefused, TurnCompletes, TurnFails, TurnFailsForGood, TurnThrows, TurnStopped
    <3>2. retries[s] + 1 >= MaxRetries \/ retries[s] + 1 < MaxRetries
      BY BudgetConstants
    <3> QED
      BY <3>1, <3>2 DEF Rests, Retries
  <2>4. retries[s] + 1 < MaxRetries => retries[s] + 1 \in 0 .. MaxRetries - 1
    BY BudgetConstants
  <2>5. retries' \in [Sessions -> 0 .. MaxRetries - 1]
    BY <1>2, <2>3, <2>4
  <2> QED
    BY <2>2, <2>5
<1>4. ASSUME NEW s \in Sessions, Orchestrate(s) \/ Send(s) \/ Admit(s)
      PROVE  UNCHANGED <<iteration, retries>>
  BY <1>4 DEF Orchestrate, TakeMessages, PauseEnds, RetryTurn, Send, Admit, session
<1> QED
  BY <1>1, <1>3, <1>4, PromptsElsewhere
     DEF Next, RunTurn, Gate, TurnFaults, handleTurnResult

-----------------------------------------------------------------------------
(* The turns at work.                                                       *)

(* A turn is at work if an attempt was cleared and none has been charged.   *)
LEMMA AtWorkIs ==
  \A key : key \in AtWork <=>
    /\ ~Settled(key)
    /\ key \in strays \/ \E s \in Sessions : Working(s) /\ key = Key(s)
BY DEF AtWork, Working

(* Finitely many strays and one key for each session are finitely many.     *)
LEMMA KeysFinite ==
  ASSUME NEW A, IsFiniteSet(A), NEW g, NEW W, W \subseteq Sessions
  PROVE  \A B \in SUBSET (A \union {g[s] : s \in W}) : IsFiniteSet(B)
<1> DEFINE K == {g[s] : s \in W}
           f == [s \in W |-> g[s]]
<1>1. IsFiniteSet(W)
  BY BudgetConstants, FS_Subset
<1>2. f \in Surjection(W, K)
  BY DEF Surjection
<1> HIDE DEF f, K
<1>3. IsFiniteSet(K)
  BY <1>1, <1>2, FS_Surjection
<1>4. IsFiniteSet(A \union K)
  BY <1>3, FS_Union
<1>5. \A B \in SUBSET (A \union K) : IsFiniteSet(B)
  BY <1>4, FS_Subset
<1> QED
  BY <1>5 DEF K

(* The turns at work can be counted, before and after a step.               *)
LEMMA AtWorkFinite ==
  /\ IsFiniteSet(strays) => IsFiniteSet(AtWork)
  /\ IsFiniteSet(strays') => IsFiniteSet(AtWork')
<1>1. IsFiniteSet(strays) => IsFiniteSet(AtWork)
  <2> DEFINE g == [s \in Sessions |-> Key(s)]
             W == {u \in Sessions :
                     stage[u] = "model" \/ (stage[u] = "judged" /\ verdict[u] = "clear")}
  <2>1. AtWork \subseteq strays \union {g[s] : s \in W}
    BY DEF AtWork
  <2>2. W \subseteq Sessions
    OBVIOUS
  <2> HIDE DEF g, W
  <2> QED
    BY <2>1, <2>2, KeysFinite
<1>2. IsFiniteSet(strays') => IsFiniteSet(AtWork')
  <2> DEFINE g == [s \in Sessions |-> Key(s)']
             W == {u \in Sessions :
                     stage'[u] = "model" \/ (stage'[u] = "judged" /\ verdict'[u] = "clear")}
  <2>1. AtWork' \subseteq strays' \union {g[s] : s \in W}
    BY DEF AtWork
  <2>2. W \subseteq Sessions
    OBVIOUS
  <2> HIDE DEF g, W
  <2> QED
    BY <2>1, <2>2, KeysFinite
<1> QED
  BY <1>1, <1>2

(* No entry leaves the ledger.                                              *)
LEMMA SettledStays ==
  ASSUME TypeOK, [Next]_vars, NEW key, Settled(key)
  PROVE  Settled(key)'
<1> DatabaseOK
  BY TypeParts
<1>1. CASE ledger \subseteq ledger'
  BY <1>1 DEF Settled
<1>2. CASE ledger' = {[entry EXCEPT !.counts = FALSE] : entry \in ledger}
  BY <1>2, Discounted
<1>3. CASE WindowEnds \/ deleteProvider
  BY <1>2, <1>3 DEF WindowEnds, deleteProvider
<1>4. ASSUME NEW k, NEW tokens, settleTurn(k, tokens)
      PROVE  ledger \subseteq ledger'
  BY <1>4 DEF settleTurn
<1>5. ASSUME NEW s \in Sessions, NEW tokens \in Tokens,
             ModelAnswers(s, tokens) \/ ModelFails(s, tokens)
      PROVE  ledger \subseteq ledger'
  BY <1>4, <1>5 DEF ModelAnswers, ModelFails, TurnEnds
<1>6. ASSUME NEW k \in strays,
             StrayCancelled(k) \/ \E tokens \in Tokens : StraySettles(k, tokens)
      PROVE  ledger \subseteq ledger'
  BY <1>4, <1>6 DEF StrayCancelled, StraySettles, database
<1>7. ASSUME NEW s \in Sessions,
             Send(s) \/ Orchestrate(s) \/ Gate(s) \/ GateFails(s) \/ AttemptAgain(s)
             \/ Wake(s) \/ WakeFails(s)
      PROVE  UNCHANGED ledger
  BY <1>7 DEF Send, Orchestrate, TakeMessages, PauseEnds, RetryTurn, Gate, checkTurn, Refuse,
              Admit, GateFails, AttemptAgain, Wake, WakeFails, database
<1>8. ASSUME NEW s \in Sessions, TurnThrows(s) \/ TurnStopped(s) \/ handleTurnResult(s)
      PROVE  UNCHANGED ledger
  BY <1>8 DEF TurnThrows, TurnStopped, handleTurnResult, TurnRefused, TurnCompletes, TurnFails,
              TurnFailsForGood, database
<1>9. ASSUME NEW s \in Sessions, NEW result, TurnEndsUnsettled(s, result)
      PROVE  UNCHANGED ledger
  BY <1>9 DEF TurnEndsUnsettled, database
<1>10. ASSUME \/ \E limit \in Limits \union {0} : setLimit(limit)
              \/ \E share \in Shares : setAllowance(share)
              \/ setHold \/ createProvider \/ pausedFor \/ LookupFails \/ UNCHANGED vars
       PROVE  UNCHANGED ledger
  BY <1>10 DEF setLimit, setAllowance, setHold, createProvider, pausedFor, LookupFails, database,
               vars
<1> QED
  BY <1>1, <1>3, <1>5, <1>6, <1>7, <1>8, <1>9, <1>10
     DEF Next, RunTurn, TurnFaults, Manage

(* Attempts that are lost or stopped go on as strays; nothing else becomes  *)
(* one.                                                                     *)
LEMMA StraysStep ==
  ASSUME TypeOK, [Next]_vars
  PROVE  \/ strays' \subseteq strays
         \/ \E s \in Sessions : stage[s] = "model" /\ strays' = strays \union {Key(s)}
<1>1. ASSUME NEW s \in Sessions, AttemptAgain(s) \/ TurnStopped(s)
      PROVE  strays' = strays \/ (stage[s] = "model" /\ strays' = strays \union {Key(s)})
  BY <1>1 DEF AttemptAgain, TurnStopped
<1>2. ASSUME NEW key \in strays,
             StrayCancelled(key) \/ \E tokens \in Tokens : StraySettles(key, tokens)
      PROVE  strays' \subseteq strays
  BY <1>2 DEF StrayCancelled, StraySettles
<1>3. ASSUME NEW s \in Sessions,
             \/ Send(s) \/ Orchestrate(s) \/ Gate(s) \/ GateFails(s)
             \/ TurnThrows(s) \/ handleTurnResult(s)
      PROVE  UNCHANGED strays
  BY <1>3 DEF Send, Orchestrate, TakeMessages, PauseEnds, RetryTurn, Gate, checkTurn, Refuse,
              Admit, GateFails, TurnThrows, handleTurnResult, TurnRefused, TurnCompletes,
              TurnFails, TurnFailsForGood, attempt
<1>4. ASSUME NEW s \in Sessions,
             \/ \E tokens \in Tokens : ModelAnswers(s, tokens) \/ ModelFails(s, tokens)
             \/ \E result \in {"completed", "failed"} : TurnEndsUnsettled(s, result)
      PROVE  UNCHANGED strays
  BY <1>4 DEF ModelAnswers, ModelFails, TurnEnds, TurnEndsUnsettled
<1>5. ASSUME Manage \/ WindowEnds \/ UNCHANGED vars
      PROVE  UNCHANGED strays
  BY <1>5 DEF Manage, setLimit, setAllowance, setHold, deleteProvider, createProvider, pausedFor,
              LookupFails, Wake, WakeFails, WindowEnds, vars, attempt
<1> QED
  BY <1>1, <1>2, <1>3, <1>4, <1>5
     DEF Next, RunTurn, TurnFaults

(* Only the gate puts a turn to work.                                       *)
LEMMA WorkingStep ==
  ASSUME TypeOK, [Next]_vars, NEW u \in Sessions, Working(u)'
  PROVE  \/ Working(u) /\ iteration'[u] = iteration[u]
         \/ checkTurn(u) /\ Judged(u) = "clear"
<1> LoopOK /\ CountersOK
  BY TypeParts
<1> USE DEF LoopOK, CountersOK, Working
<1>1. CASE UNCHANGED <<stage, verdict, iteration>>
  BY <1>1
<1>2. ASSUME NEW s \in Sessions, stage'[s] \notin {"model", "judged"},
             \A v \in Sessions \ {s} : /\ stage'[v] = stage[v] /\ verdict'[v] = verdict[v]
                                       /\ iteration'[v] = iteration[v]
      PROVE  Working(u) /\ iteration'[u] = iteration[u]
  BY <1>2
<1>3. ASSUME NEW s \in Sessions, TakeMessages(s) \/ PauseEnds(s) \/ RetryTurn(s)
      PROVE  Working(u) /\ iteration'[u] = iteration[u]
  <2>1. StartTurn(s) /\ UNCHANGED <<verdict, iteration>>
    BY <1>3 DEF TakeMessages, PauseEnds, RetryTurn
  <2> QED
    BY <1>2, <2>1 DEF StartTurn
<1>4. ASSUME NEW s \in Sessions, checkTurn(s)
      PROVE  \/ Working(u) /\ iteration'[u] = iteration[u]
             \/ checkTurn(u) /\ Judged(u) = "clear"
  <2>1. /\ stage' = [stage EXCEPT ![s] = "judged"]
        /\ verdict' = [verdict EXCEPT ![s] = Judged(s)]
        /\ UNCHANGED iteration
    BY <1>4 DEF checkTurn, session
  <2>2. CASE u = s
    BY <1>4, <2>1, <2>2
  <2>3. CASE u # s
    BY <2>1, <2>3
  <2> QED
    BY <2>2, <2>3
<1>5. ASSUME NEW s \in Sessions, Refuse(s) \/ GateFails(s) \/ AttemptAgain(s)
      PROVE  Working(u) /\ iteration'[u] = iteration[u]
  BY <1>2, <1>5 DEF Refuse, GateFails, AttemptAgain, session
<1>6. ASSUME NEW s \in Sessions, Admit(s)
      PROVE  Working(u) /\ iteration'[u] = iteration[u]
  BY <1>6 DEF Admit, session
<1>7. ASSUME NEW s \in Sessions,
             \/ \E tokens \in Tokens : ModelAnswers(s, tokens) \/ ModelFails(s, tokens)
             \/ \E result \in {"completed", "failed"} : TurnEndsUnsettled(s, result)
      PROVE  Working(u) /\ iteration'[u] = iteration[u]
  BY <1>2, <1>7 DEF ModelAnswers, ModelFails, TurnEnds, TurnEndsUnsettled, session
<1>8. ASSUME NEW s \in Sessions,
             \/ TurnRefused(s) \/ TurnCompletes(s) \/ TurnFails(s) \/ TurnFailsForGood(s)
             \/ TurnThrows(s) \/ TurnStopped(s)
      PROVE  Working(u) /\ iteration'[u] = iteration[u]
  <2>1. AttemptOver(s)
    BY <1>8 DEF TurnRefused, TurnCompletes, TurnFails, TurnFailsForGood, TurnThrows, TurnStopped,
                Rests, Retries
  <2>2. UNCHANGED iteration \/ iteration' = [iteration EXCEPT ![s] = @ + 1]
    BY <1>8 DEF TurnRefused, TurnCompletes, TurnFails, TurnFailsForGood, TurnThrows, TurnStopped
  <2> QED
    BY <1>2, <2>1, <2>2 DEF AttemptOver
<1> QED
  BY <1>1, <1>3, <1>4, <1>5, <1>6, <1>7, <1>8, AttemptsElsewhere
     DEF Next, Orchestrate, RunTurn, Gate, TurnFaults, handleTurnResult

(* Unless the gate clears a turn, no turn joins those at work.              *)
LEMMA WorkShrinks ==
  ASSUME TypeOK, [Next]_vars, \A s \in Sessions : ~(checkTurn(s) /\ Judged(s) = "clear")
  PROVE  AtWork' \subseteq AtWork
<1> SUFFICES ASSUME NEW key, key \in AtWork'
             PROVE  key \in AtWork
  OBVIOUS
<1>1. /\ ~Settled(key)'
      /\ key \in strays' \/ \E s \in Sessions : Working(s)' /\ key = Key(s)'
  BY DEF AtWork, Working
<1>2. ~Settled(key)
  BY <1>1, SettledStays
<1>3. ASSUME key \in strays'
      PROVE  key \in strays \/ \E s \in Sessions : Working(s) /\ key = Key(s)
  BY <1>3, StraysStep DEF Working
<1>4. ASSUME NEW s \in Sessions, Working(s)', key = Key(s)'
      PROVE  Working(s) /\ key = Key(s)
  BY <1>4, WorkingStep DEF Key
<1> QED
  BY <1>1, <1>2, <1>3, <1>4, AtWorkIs

(* A turn that the gate clears is at work from then on, and counted.        *)
LEMMA ClearedTurn ==
  ASSUME TypeOK, NEW s \in Sessions, checkTurn(s), Judged(s) = "clear"
  PROVE  crowd' = Cardinality(AtWork')
<1> LoopOK
  BY TypeParts
<1>1. /\ stage' = [stage EXCEPT ![s] = "judged"]
      /\ verdict' = [verdict EXCEPT ![s] = "clear"]
      /\ UNCHANGED <<ledger, iteration, strays>>
      /\ stage[s] = "gate"
  BY DEF checkTurn, session, database
<1>2. \A u \in Sessions : Working(u)' <=> Working(u) \/ u = s
  BY <1>1 DEF Working, LoopOK
<1>3. \A u \in Sessions : Key(u)' = Key(u)
  BY <1>1 DEF Key
<1>4. \A key : Settled(key)' <=> Settled(key)
  BY <1>1 DEF Settled
<1>5. \A key : key \in AtWork' <=>
        /\ ~Settled(key)'
        /\ key \in strays' \/ \E u \in Sessions : Working(u)' /\ key = Key(u)'
  BY DEF AtWork, Working
<1>6. \A key : key \in {entry.key : entry \in ledger} <=> Settled(key)
  BY DEF Settled
<1>7. \A key : key \in AtWork' <=>
        key \in AtWork \union ({Key(s)} \ {entry.key : entry \in ledger})
  BY <1>1, <1>2, <1>3, <1>4, <1>5, <1>6, AtWorkIs
<1>8. AtWork' = AtWork \union ({Key(s)} \ {entry.key : entry \in ledger})
  BY <1>7
<1> QED
  BY <1>8 DEF checkTurn

(* A charge moves the meter by what one turn may spend, and only for a turn *)
(* that was at work and is not any more.                                    *)
LEMMA Charged ==
  ASSUME TypeOK, [Next]_vars, NEW key \in [session : Sessions, turn : Nat],
         NEW tokens \in Tokens, settleTurn(key, tokens),
         key \in strays \/ \E s \in Sessions : Working(s) /\ key = Key(s)
  PROVE  \/ meter' = meter
         \/ meter' <= meter + MaxTokens /\ key \in AtWork /\ key \notin AtWork'
<1> DatabaseOK
  BY TypeParts
<1>1. CASE Settled(key)
  BY <1>1 DEF settleTurn
<1>2. CASE ~Settled(key)
  <2>1. key \in AtWork
    BY <1>2, AtWorkIs
  <2>2. [key |-> key, tokens |-> tokens, counts |-> provider.up] \in ledger'
    BY <1>2 DEF settleTurn
  <2>3. Settled(key)'
    BY <2>2 DEF Settled
  <2>4. key \notin AtWork'
    BY <2>3 DEF AtWork
  <2>5. meter' = meter \/ meter' = meter + tokens
    BY <1>2 DEF settleTurn
  <2>6. tokens <= MaxTokens /\ tokens \in Nat
    BY BudgetConstants
  <2>7. meter' = meter \/ meter' <= meter + MaxTokens
    BY <2>5, <2>6, BudgetConstants DEF DatabaseOK
  <2> QED
    BY <2>1, <2>4, <2>7
<1> QED
  BY <1>1, <1>2

(* Steps in which nothing is charged, cleared, set or ended.                *)
LEMMA BudgetElsewhere ==
  ASSUME \/ \E s \in Sessions :
              \/ Send(s) \/ Orchestrate(s) \/ Refuse(s) \/ Admit(s) \/ handleTurnResult(s)
              \/ GateFails(s) \/ AttemptAgain(s) \/ TurnThrows(s) \/ TurnStopped(s)
              \/ \E result \in {"completed", "failed"} : TurnEndsUnsettled(s, result)
              \/ Wake(s) \/ WakeFails(s)
         \/ \E key \in strays : StrayCancelled(key)
         \/ pausedFor \/ LookupFails \/ UNCHANGED vars
  PROVE  UNCHANGED <<provider, meter, steady, crowd>>
<1> USE DEF database, ghost
<1>1. ASSUME NEW s \in Sessions,
             \/ Send(s) \/ Orchestrate(s) \/ Refuse(s) \/ Admit(s) \/ GateFails(s)
             \/ AttemptAgain(s) \/ Wake(s) \/ WakeFails(s)
      PROVE  UNCHANGED <<provider, meter, steady, crowd>>
  BY <1>1 DEF Send, Orchestrate, TakeMessages, PauseEnds, RetryTurn, Refuse, Admit, GateFails,
              AttemptAgain, Wake, WakeFails
<1>2. ASSUME NEW s \in Sessions, handleTurnResult(s) \/ TurnThrows(s) \/ TurnStopped(s)
      PROVE  UNCHANGED <<provider, meter, steady, crowd>>
  BY <1>2 DEF handleTurnResult, TurnRefused, TurnCompletes, TurnFails, TurnFailsForGood,
              TurnThrows, TurnStopped
<1>3. ASSUME NEW s \in Sessions, NEW result, TurnEndsUnsettled(s, result)
      PROVE  UNCHANGED <<provider, meter, steady, crowd>>
  BY <1>3 DEF TurnEndsUnsettled
<1>4. ASSUME NEW key \in strays, StrayCancelled(key)
      PROVE  UNCHANGED <<provider, meter, steady, crowd>>
  BY <1>4 DEF StrayCancelled
<1>5. CASE pausedFor \/ LookupFails \/ UNCHANGED vars
  BY <1>5 DEF pausedFor, LookupFails, vars
<1> QED
  BY <1>1, <1>2, <1>3, <1>4, <1>5

(* Arithmetic of the reservation.                                           *)
LEMMA Reservation ==
  ASSUME NEW a \in Nat, NEW b \in Nat, NEW m \in Nat
  PROVE  /\ a * m \in Nat
         /\ a <= b => a * m <= b * m
         /\ a + 1 <= b => a * m + m <= b * m
<1>1. a * m \in Nat
  OBVIOUS
<1>2. ASSUME a <= b
      PROVE  a * m <= b * m
  <2>1. PICK d \in Nat : b = a + d
    <3>1. b - a \in Nat /\ b = a + (b - a)
      BY <1>2
    <3> QED
      BY <3>1
  <2>2. b * m = a * m + d * m
    BY <2>1
  <2>3. d * m \in Nat
    OBVIOUS
  <2> QED
    BY <1>1, <2>2, <2>3
<1>3. ASSUME a + 1 <= b
      PROVE  a * m + m <= b * m
  <2>1. PICK d \in Nat : b = a + 1 + d
    <3>1. b - a - 1 \in Nat /\ b = a + 1 + (b - a - 1)
      BY <1>3
    <3> QED
      BY <3>1
  <2>2. b * m = a * m + m + d * m
    BY <2>1
  <2>3. d * m \in Nat
    OBVIOUS
  <2> QED
    BY <1>1, <2>2, <2>3
<1> QED
  BY <1>1, <1>2, <1>3

(* The reservation is kept in every step.                                   *)
LEMMA BoundedStep ==
  ASSUME TypeOK, IsFiniteSet(strays), Bounded, IsFiniteSet(strays'), DatabaseOK', crowd' \in Nat,
         [Next]_vars
  PROVE  Bounded'
<1> DatabaseOK /\ OthersOK /\ CountersOK
  BY TypeParts
<1> DEFINE n == Cardinality(AtWork)
           m == Cardinality(AtWork')
<1>1. IsFiniteSet(AtWork) /\ IsFiniteSet(AtWork')
  BY AtWorkFinite
<1>2. n \in Nat /\ m \in Nat /\ MaxTokens \in Nat
  BY <1>1, FS_CardinalityType, BudgetConstants
<1>3. n * MaxTokens \in Nat /\ m * MaxTokens \in Nat /\ crowd * MaxTokens \in Nat
      /\ crowd' * MaxTokens \in Nat
  BY <1>2, Reservation DEF OthersOK
<1>4. /\ meter \in Nat /\ meter' \in Nat /\ provider.limit \in Nat /\ provider'.limit \in Nat
      /\ steady \in BOOLEAN
  BY BudgetConstants DEF DatabaseOK, OthersOK
<1>5. ASSUME m <= n, meter' = meter, crowd' = crowd,
             steady' => steady /\ provider.limit <= provider'.limit
      PROVE  Bounded'
  <2>1. m * MaxTokens <= n * MaxTokens
    BY <1>2, <1>5, Reservation
  <2> HIDE DEF n, m
  <2> SUFFICES ASSUME steady'
               PROVE  /\ provider'.limit > 0
                      /\ meter' + m * MaxTokens <= provider'.limit - 1 + crowd' * MaxTokens
    BY DEF Bounded, m
  <2>2. /\ provider.limit > 0
        /\ meter + n * MaxTokens <= provider.limit - 1 + crowd * MaxTokens
    BY <1>5 DEF Bounded, n
  <2> QED
    BY <1>3, <1>4, <1>5, <2>1, <2>2
<1>6. ASSUME m + 1 <= n, meter' <= meter + MaxTokens, crowd' = crowd,
             UNCHANGED <<steady, provider>>
      PROVE  Bounded'
  <2>1. m * MaxTokens + MaxTokens <= n * MaxTokens
    BY <1>2, <1>6, Reservation
  <2> HIDE DEF n, m
  <2> SUFFICES ASSUME steady'
               PROVE  /\ provider'.limit > 0
                      /\ meter' + m * MaxTokens <= provider'.limit - 1 + crowd' * MaxTokens
    BY DEF Bounded, m
  <2>2. /\ provider.limit > 0
        /\ meter + n * MaxTokens <= provider.limit - 1 + crowd * MaxTokens
    BY <1>6 DEF Bounded, n
  <2> QED
    BY <1>2, <1>3, <1>4, <1>6, <2>1, <2>2
<1>7. ASSUME NEW s \in Sessions, checkTurn(s), Judged(s) = "clear"
      PROVE  Bounded'
  <2>1. crowd' = m
    BY <1>7, ClearedTurn
  <2>2. UNCHANGED <<meter, provider, steady>>
    BY <1>7 DEF checkTurn, database
  <2>3. ~Spent
    BY <1>7 DEF Judged
  <2>4. steady => provider.limit > 0 /\ meter <= provider.limit - 1
    BY <1>4, <2>3 DEF Spent, Bounded
  <2> HIDE DEF m
  <2>5. crowd' * MaxTokens = m * MaxTokens
    BY <2>1
  <2>6. steady' => /\ provider'.limit > 0
                   /\ meter' + m * MaxTokens <= provider'.limit - 1 + crowd' * MaxTokens
    BY <1>3, <1>4, <2>2, <2>4, <2>5
  <2> QED
    BY <2>6 DEF Bounded, m
<1>8. CASE \A s \in Sessions : ~(checkTurn(s) /\ Judged(s) = "clear")
  <2>1. AtWork' \subseteq AtWork
    BY <1>8, WorkShrinks
  <2>2. m <= n
    BY <1>1, <2>1, FS_Subset
  <2>3. ASSUME UNCHANGED <<provider, meter, steady, crowd>>
        PROVE  Bounded'
    BY <1>4, <1>5, <2>2, <2>3
  <2>4. ASSUME NEW key \in AtWork, key \notin AtWork'
        PROVE  m + 1 <= n
    <3>1. AtWork' \subseteq AtWork \ {key}
      BY <2>1, <2>4
    <3>2. IsFiniteSet(AtWork \ {key}) /\ Cardinality(AtWork \ {key}) = n - 1
      BY <1>1, <2>4, FS_RemoveElement
    <3>3. m <= Cardinality(AtWork \ {key})
      BY <3>1, <3>2, FS_Subset
    <3> QED
      BY <1>2, <3>2, <3>3
  <2>5. ASSUME NEW key \in [session : Sessions, turn : Nat], NEW tokens \in Tokens,
               settleTurn(key, tokens), UNCHANGED <<provider, steady, crowd>>,
               key \in strays \/ \E s \in Sessions : Working(s) /\ key = Key(s)
        PROVE  Bounded'
    <3>1. CASE meter' = meter
      BY <2>3, <2>5, <3>1
    <3>2. CASE meter' <= meter + MaxTokens /\ key \in AtWork /\ key \notin AtWork'
      BY <1>6, <2>4, <2>5, <3>2
    <3> QED
      BY <2>5, <3>1, <3>2, Charged
  <2>6. ASSUME NEW s \in Sessions, NEW tokens \in Tokens,
               ModelAnswers(s, tokens) \/ ModelFails(s, tokens)
        PROVE  Bounded'
    <3>1. /\ settleTurn(Key(s), tokens) /\ UNCHANGED <<provider, steady, crowd>>
          /\ stage[s] = "model"
      BY <2>6 DEF ModelAnswers, ModelFails, TurnEnds, ghost
    <3> QED
      BY <2>5, <3>1, KeyType DEF Working
  <2>7. ASSUME NEW key \in strays, NEW tokens \in Tokens, StraySettles(key, tokens)
        PROVE  Bounded'
    BY <2>5, <2>7 DEF StraySettles, ghost, OthersOK
  <2>8. ASSUME NEW s \in Sessions, checkTurn(s)
        PROVE  Bounded'
    <3>1. UNCHANGED <<provider, meter, steady, crowd>>
      BY <1>8, <2>8 DEF checkTurn, database
    <3> QED
      BY <2>3, <3>1
  <2>9. ASSUME NEW limit \in Limits \union {0}, setLimit(limit)
        PROVE  Bounded'
    <3>1. /\ provider'.limit = limit
          /\ UNCHANGED <<meter, crowd>>
      BY <2>9 DEF setLimit, DatabaseOK
    <3>2. steady' => steady /\ limit > provider.limit
      BY <2>9 DEF setLimit
    <3> QED
      BY <1>4, <1>5, <2>2, <3>1, <3>2
  <2>10. ASSUME NEW share \in Shares, setAllowance(share)
         PROVE  Bounded'
    <3>1. provider'.limit = provider.limit /\ UNCHANGED <<meter, steady, crowd>>
      BY <2>10 DEF setAllowance, ghost, DatabaseOK
    <3> QED
      BY <1>4, <1>5, <2>2, <3>1
  <2>11. CASE setHold \/ createProvider
    <3>1. provider'.limit = provider.limit /\ UNCHANGED <<meter, steady, crowd>>
      BY <2>11 DEF setHold, createProvider, ghost, DatabaseOK
    <3> QED
      BY <1>4, <1>5, <2>2, <3>1
  <2>12. CASE deleteProvider
    BY <2>12 DEF deleteProvider, Bounded
  <2>13. CASE WindowEnds
    <3>1. /\ meter' = 0 /\ crowd' = n /\ provider' = provider
          /\ steady' = (provider.limit > 0)
      BY <2>13 DEF WindowEnds
    <3>2. m * MaxTokens <= n * MaxTokens
      BY <1>2, <2>2, Reservation
    <3> HIDE DEF n, m
    <3>3. crowd' * MaxTokens = n * MaxTokens
      BY <3>1
    <3>4. steady' => /\ provider'.limit > 0
                     /\ meter' + m * MaxTokens <= provider'.limit - 1 + crowd' * MaxTokens
      <4>1. steady' => provider'.limit > 0
        BY <2>13 DEF WindowEnds
      <4>2. provider'.limit > 0 =>
              meter' + m * MaxTokens <= provider'.limit - 1 + crowd' * MaxTokens
        BY <1>3, <1>4, <3>1, <3>2, <3>3
      <4> QED
        BY <4>1, <4>2
    <3> QED
      BY <3>4 DEF Bounded, m
  <2> QED
    BY <2>3, <2>6, <2>7, <2>8, <2>9, <2>10, <2>11, <2>12, <2>13, BudgetElsewhere
       DEF Next, RunTurn, Gate, TurnFaults, Manage
<1> QED
  BY <1>7, <1>8

(* The strays are finitely many, and the rest of the state has its types.   *)
LEMMA OthersStep ==
  ASSUME TypeOK, IsFiniteSet(strays), [Next]_vars
  PROVE  OthersOK' /\ IsFiniteSet(strays')
<1> OthersOK /\ CountersOK /\ DatabaseOK
  BY TypeParts
<1> USE DEF OthersOK
<1>1. strays' \subseteq [session : Sessions, turn : Nat]
  BY StraysStep, KeyType
<1>2. IsFiniteSet(strays')
  <2>1. CASE strays' \subseteq strays
    BY <2>1, FS_Subset
  <2>2. ASSUME NEW s \in Sessions, strays' = strays \union {Key(s)}
        PROVE  IsFiniteSet(strays')
    BY <2>2, FS_AddElement
  <2> QED
    BY <2>1, <2>2, StraysStep
<1>3. ASSUME UNCHANGED <<steady, crowd>>
      PROVE  steady' \in BOOLEAN /\ crowd' \in Nat
  BY <1>3
<1>4. IsFiniteSet(AtWork) /\ IsFiniteSet(AtWork')
  BY <1>2, AtWorkFinite
<1>5. Cardinality(AtWork) \in Nat /\ Cardinality(AtWork') \in Nat
  BY <1>4, FS_CardinalityType
<1>6. ASSUME NEW s \in Sessions, checkTurn(s)
      PROVE  steady' \in BOOLEAN /\ crowd' \in Nat
  <2>1. CASE Judged(s) = "clear"
    BY <1>5, <1>6, <2>1, ClearedTurn DEF checkTurn
  <2>2. CASE Judged(s) # "clear"
    BY <1>6, <2>2 DEF checkTurn
  <2> QED
    BY <2>1, <2>2
<1>7. ASSUME WindowEnds
      PROVE  steady' \in BOOLEAN /\ crowd' \in Nat
  BY <1>5, <1>7 DEF WindowEnds
<1>8. ASSUME NEW limit \in Limits \union {0}, setLimit(limit)
      PROVE  steady' \in BOOLEAN /\ crowd' \in Nat
  BY <1>8 DEF setLimit
<1>9. ASSUME deleteProvider
      PROVE  steady' \in BOOLEAN /\ crowd' \in Nat
  BY <1>9 DEF deleteProvider
<1>10. ASSUME \/ \E share \in Shares : setAllowance(share)
              \/ setHold \/ createProvider
       PROVE  UNCHANGED <<steady, crowd>>
  BY <1>10 DEF setAllowance, setHold, createProvider, ghost
<1>11. ASSUME NEW s \in Sessions, NEW tokens \in Tokens,
              ModelAnswers(s, tokens) \/ ModelFails(s, tokens)
       PROVE  UNCHANGED <<steady, crowd>>
  BY <1>11 DEF ModelAnswers, ModelFails, TurnEnds, ghost
<1>12. ASSUME NEW key \in strays, NEW tokens \in Tokens, StraySettles(key, tokens)
       PROVE  UNCHANGED <<steady, crowd>>
  BY <1>12 DEF StraySettles, ghost
<1>13. steady' \in BOOLEAN /\ crowd' \in Nat
  BY <1>3, <1>6, <1>7, <1>8, <1>9, <1>10, <1>11, <1>12, BudgetElsewhere
     DEF Next, RunTurn, Gate, TurnFaults, Manage
<1>14. toWake' \subseteq Sessions /\ lookup' \in BOOLEAN
  <2>1. ASSUME NEW s \in Sessions,
               \/ Send(s) \/ Orchestrate(s) \/ Gate(s) \/ GateFails(s) \/ AttemptAgain(s)
        PROVE  UNCHANGED <<toWake, lookup>>
    BY <2>1 DEF Send, Orchestrate, TakeMessages, PauseEnds, RetryTurn, Gate, checkTurn, Refuse,
                Admit, GateFails, AttemptAgain, waking
  <2>2. ASSUME NEW s \in Sessions, TurnThrows(s) \/ TurnStopped(s) \/ handleTurnResult(s)
        PROVE  UNCHANGED <<toWake, lookup>>
    BY <2>2 DEF TurnThrows, TurnStopped, handleTurnResult, TurnRefused, TurnCompletes, TurnFails,
                TurnFailsForGood, waking
  <2>3. ASSUME NEW s \in Sessions,
               \/ \E tokens \in Tokens : ModelAnswers(s, tokens) \/ ModelFails(s, tokens)
               \/ \E result \in {"completed", "failed"} : TurnEndsUnsettled(s, result)
        PROVE  UNCHANGED <<toWake, lookup>>
    BY <2>3 DEF ModelAnswers, ModelFails, TurnEnds, TurnEndsUnsettled, waking
  <2>4. ASSUME NEW key \in strays,
               StrayCancelled(key) \/ \E tokens \in Tokens : StraySettles(key, tokens)
        PROVE  UNCHANGED <<toWake, lookup>>
    BY <2>4 DEF StrayCancelled, StraySettles, waking
  <2>5. ASSUME \/ \E limit \in Limits \union {0} : setLimit(limit)
               \/ \E share \in Shares : setAllowance(share)
               \/ setHold \/ deleteProvider \/ createProvider \/ pausedFor \/ LookupFails
               \/ \E s \in Sessions : Wake(s) \/ WakeFails(s)
        PROVE  toWake' \subseteq Sessions /\ lookup' \in BOOLEAN
    BY <2>5 DEF setLimit, setAllowance, setHold, deleteProvider, createProvider, pausedFor,
                LookupFails, Wake, WakeFails, waking
  <2>6. CASE WindowEnds \/ UNCHANGED vars
    BY <2>6 DEF WindowEnds, vars, waking
  <2> QED
    BY <2>1, <2>2, <2>3, <2>4, <2>5, <2>6 DEF Next, RunTurn, TurnFaults, Manage
<1> QED
  BY <1>1, <1>2, <1>13, <1>14

-----------------------------------------------------------------------------
(* Pauses and stashes.                                                      *)

(* Pauses stay listed in every step.                                        *)
LEMMA ListedStep ==
  ASSUME TypeOK, Listed, [Next]_vars
  PROVE  Listed'
<1> LoopOK /\ RowsOK
  BY TypeParts
<1> USE DEF LoopOK, RowsOK
<1> SUFFICES ASSUME NEW u \in Sessions
             PROVE  /\ stage'[u] = "refused" => paused'[u] # "none"
                    /\ timer'[u] => loop'[u] = "rest" /\ paused'[u] # "none"
  BY DEF Listed
<1>1. /\ stage[u] = "refused" => paused[u] # "none"
      /\ timer[u] => loop[u] = "rest" /\ paused[u] # "none"
      /\ stage[u] # "none" <=> loop[u] = "turn"
  BY DEF Listed
<1>2. CASE UNCHANGED <<stage, timer, loop, paused>>
  BY <1>1, <1>2
<1>3. ASSUME NEW s \in Sessions, TakeMessages(s) \/ PauseEnds(s) \/ RetryTurn(s)
      PROVE  /\ stage'[u] = "refused" => paused'[u] # "none"
             /\ timer'[u] => loop'[u] = "rest" /\ paused'[u] # "none"
  <2>1. StartTurn(s) /\ UNCHANGED paused
    BY <1>3 DEF TakeMessages, PauseEnds, RetryTurn, database
  <2> QED
    BY <1>1, <2>1 DEF StartTurn
<1>4. ASSUME NEW s \in Sessions, Refuse(s)
      PROVE  /\ stage'[u] = "refused" => paused'[u] # "none"
             /\ timer'[u] => loop'[u] = "rest" /\ paused'[u] # "none"
  <2>1. verdict[s] # "none"
    BY DEF Verdicts
  <2> QED
    BY <1>1, <1>4, <2>1 DEF Refuse, session
<1>5. ASSUME NEW s \in Sessions, Admit(s)
      PROVE  /\ stage'[u] = "refused" => paused'[u] # "none"
             /\ timer'[u] => loop'[u] = "rest" /\ paused'[u] # "none"
  BY <1>1, <1>5 DEF Admit, session
<1>6. ASSUME NEW s \in Sessions, checkTurn(s) \/ GateFails(s) \/ AttemptAgain(s)
      PROVE  /\ stage'[u] = "refused" => paused'[u] # "none"
             /\ timer'[u] => loop'[u] = "rest" /\ paused'[u] # "none"
  BY <1>1, <1>6 DEF checkTurn, GateFails, AttemptAgain, session, database
<1>7. ASSUME NEW s \in Sessions,
             \/ \E tokens \in Tokens : ModelAnswers(s, tokens) \/ ModelFails(s, tokens)
             \/ \E result \in {"completed", "failed"} : TurnEndsUnsettled(s, result)
      PROVE  /\ stage'[u] = "refused" => paused'[u] # "none"
             /\ timer'[u] => loop'[u] = "rest" /\ paused'[u] # "none"
  BY <1>1, <1>7 DEF ModelAnswers, ModelFails, TurnEnds, TurnEndsUnsettled, session, database
<1>8. ASSUME NEW s \in Sessions, TurnRefused(s)
      PROVE  /\ stage'[u] = "refused" => paused'[u] # "none"
             /\ timer'[u] => loop'[u] = "rest" /\ paused'[u] # "none"
  BY <1>1, <1>8 DEF TurnRefused, Rests, AttemptOver, database
<1>9. ASSUME NEW s \in Sessions,
             \/ TurnCompletes(s) \/ TurnFails(s) \/ TurnFailsForGood(s)
             \/ TurnThrows(s) \/ TurnStopped(s)
      PROVE  /\ stage'[u] = "refused" => paused'[u] # "none"
             /\ timer'[u] => loop'[u] = "rest" /\ paused'[u] # "none"
  <2>1. stage[s] # "none" /\ UNCHANGED <<timer, paused>>
    BY <1>9 DEF TurnCompletes, TurnFails, TurnFailsForGood, TurnThrows, TurnStopped, database
  <2>2. Rests(s) \/ Retries(s)
    BY <1>9 DEF TurnCompletes, TurnFails, TurnFailsForGood, TurnThrows, TurnStopped
  <2>3. AttemptOver(s) /\ \E l \in {"rest", "backoff"} : loop' = [loop EXCEPT ![s] = l]
    BY <2>2 DEF Rests, Retries
  <2> QED
    BY <1>1, <2>1, <2>3 DEF AttemptOver
<1> QED
  BY <1>2, <1>3, <1>4, <1>5, <1>6, <1>7, <1>8, <1>9, AttemptsElsewhere
     DEF Next, Orchestrate, RunTurn, Gate, TurnFaults, handleTurnResult

(* The outcomes of a turn, and what becomes of its stash.                   *)
LEMMA Outcomes ==
  ASSUME NEW s \in Sessions,
         \/ TurnRefused(s) \/ TurnCompletes(s) \/ TurnFails(s) \/ TurnFailsForGood(s)
         \/ TurnThrows(s) \/ TurnStopped(s)
  PROVE  /\ AttemptOver(s) /\ UNCHANGED told
         /\ \/ UNCHANGED stash
            \/ stash' = [stash EXCEPT ![s] = @ \union batch[s]]
            \/ /\ stash' = [stash EXCEPT ![s] = {}]
               /\ stage[s] \in {"completed", "failed", "unchecked"}
<1>1. UNCHANGED told
  BY DEF TurnRefused, TurnCompletes, TurnFails, TurnFailsForGood, TurnThrows, TurnStopped, ghost
<1>2. Rests(s) \/ Retries(s)
  BY DEF TurnRefused, TurnCompletes, TurnFails, TurnFailsForGood, TurnThrows, TurnStopped
<1>3. AttemptOver(s)
  BY <1>2 DEF Rests, Retries
<1>4. \/ UNCHANGED stash
      \/ stash' = [stash EXCEPT ![s] = @ \union batch[s]]
      \/ /\ stash' = [stash EXCEPT ![s] = {}]
         /\ stage[s] \in {"completed", "failed", "unchecked"}
  BY DEF TurnRefused, TurnCompletes, TurnFails, TurnFailsForGood, TurnThrows, TurnStopped
<1> QED
  BY <1>1, <1>3, <1>4

(* What a model has been given stays given, in every step.                  *)
LEMMA DeliveredStep ==
  ASSUME TypeOK, Delivered, [Next]_vars
  PROVE  Delivered'
<1> LoopOK /\ PromptsOK
  BY TypeParts
<1> USE DEF LoopOK, PromptsOK
<1> SUFFICES ASSUME NEW u \in Sessions, stage'[u] \in {"model", "completed", "failed"}
             PROVE  stash'[u] \subseteq told'[u]
  BY DEF Delivered
<1>1. stage[u] \in {"model", "completed", "failed"} => stash[u] \subseteq told[u]
  BY DEF Delivered
<1>2. CASE UNCHANGED <<stage, stash, told>>
  BY <1>1, <1>2
<1>3. ASSUME NEW s \in Sessions, TakeMessages(s) \/ PauseEnds(s) \/ RetryTurn(s)
      PROVE  stash'[u] \subseteq told'[u]
  <2>1. stage' = [stage EXCEPT ![s] = "gate"] /\ UNCHANGED <<stash, told>>
    BY <1>3 DEF TakeMessages, PauseEnds, RetryTurn, StartTurn, ghost
  <2> QED
    BY <1>1, <2>1
<1>4. ASSUME NEW s \in Sessions, Admit(s)
      PROVE  stash'[u] \subseteq told'[u]
  <2>1. /\ stage' = [stage EXCEPT ![s] = "model"] /\ UNCHANGED stash
        /\ told' = [told EXCEPT ![s] = @ \union stash[s] \union batch[s]]
    BY <1>4 DEF Admit, session
  <2> QED
    BY <1>1, <2>1
<1>5. ASSUME NEW s \in Sessions,
             checkTurn(s) \/ Refuse(s) \/ GateFails(s) \/ AttemptAgain(s)
      PROVE  stash'[u] \subseteq told'[u]
  <2>1. /\ \E g \in {"judged", "refused", "unchecked", "gate"} : stage' = [stage EXCEPT ![s] = g]
        /\ UNCHANGED <<stash, told>>
    BY <1>5 DEF checkTurn, Refuse, GateFails, AttemptAgain, session, ghost
  <2> QED
    BY <1>1, <2>1
<1>6. ASSUME NEW s \in Sessions,
             \/ \E tokens \in Tokens : ModelAnswers(s, tokens) \/ ModelFails(s, tokens)
             \/ \E result \in {"completed", "failed"} : TurnEndsUnsettled(s, result)
      PROVE  stash'[u] \subseteq told'[u]
  <2>1. /\ \E g \in {"completed", "failed"} : stage' = [stage EXCEPT ![s] = g]
        /\ stage[s] = "model"
        /\ UNCHANGED <<stash, told>>
    BY <1>6 DEF ModelAnswers, ModelFails, TurnEnds, TurnEndsUnsettled, session, ghost
  <2> QED
    BY <1>1, <2>1
<1>7. ASSUME NEW s \in Sessions,
             \/ TurnRefused(s) \/ TurnCompletes(s) \/ TurnFails(s) \/ TurnFailsForGood(s)
             \/ TurnThrows(s) \/ TurnStopped(s)
      PROVE  stash'[u] \subseteq told'[u]
  BY <1>1, <1>7, Outcomes DEF AttemptOver
<1> QED
  BY <1>2, <1>3, <1>4, <1>5, <1>6, <1>7, AttemptsElsewhere
     DEF Next, Orchestrate, RunTurn, Gate, TurnFaults, handleTurnResult

(* A stash shrinks only after a turn that reached the model, or one whose   *)
(* check failed.                                                            *)
LEMMA StashStep ==
  ASSUME TypeOK, Delivered, [Next]_vars, NEW u \in Sessions
  PROVE  stash[u] \subseteq stash'[u] \union told[u] \/ stage[u] = "unchecked"
<1> PromptsOK
  BY TypeParts
<1> USE DEF PromptsOK
<1>1. CASE UNCHANGED stash
  BY <1>1
<1>2. ASSUME NEW s \in Sessions,
             \/ TurnRefused(s) \/ TurnCompletes(s) \/ TurnFails(s) \/ TurnFailsForGood(s)
             \/ TurnThrows(s) \/ TurnStopped(s)
      PROVE  stash[u] \subseteq stash'[u] \union told[u] \/ stage[u] = "unchecked"
  BY <1>2, Outcomes DEF Delivered
<1>3. ASSUME NEW s \in Sessions, Orchestrate(s) \/ Admit(s)
      PROVE  UNCHANGED stash
  BY <1>3 DEF Orchestrate, TakeMessages, PauseEnds, RetryTurn, Admit, session
<1> QED
  BY <1>1, <1>2, <1>3, PromptsElsewhere, AttemptsElsewhere
     DEF Next, RunTurn, Gate, TurnFaults, handleTurnResult

-----------------------------------------------------------------------------
(* Inv holds at the start: no turn is at work.                              *)
LEMMA InitInv == Init => Inv
<1> SUFFICES ASSUME Init PROVE Inv
  OBVIOUS
<1> USE DEF Init
<1>1. DatabaseOK
  <2>1. NoProvider \in
          [up : BOOLEAN, hold : BOOLEAN, limit : Limits \union {0}, share : 1 .. 100]
    BY DEF NoProvider
  <2>2. [up : {TRUE}, hold : BOOLEAN, limit : Limits, share : Shares] \subseteq
          [up : BOOLEAN, hold : BOOLEAN, limit : Limits \union {0}, share : 1 .. 100]
    BY BudgetConstants
  <2>3. provider \in [up : BOOLEAN, hold : BOOLEAN, limit : Limits \union {0}, share : 1 .. 100]
    BY <2>1, <2>2
  <2> QED
    BY <2>3 DEF DatabaseOK
<1>2. RowsOK /\ PromptsOK /\ LoopOK
  BY DEF RowsOK, PromptsOK, LoopOK, Verdicts
<1>3. PromptsWereSent
  BY DEF PromptsWereSent
<1>4. CountersOK
  <2>1. 0 \in 0 .. MaxRetries - 1
    BY BudgetConstants
  <2> QED
    BY <2>1 DEF CountersOK
<1>5. OthersOK
  BY <1>1 DEF OthersOK, DatabaseOK
<1>6. IsFiniteSet(strays)
  BY FS_EmptySet
<1>7. Listed /\ Delivered
  BY DEF Listed, Delivered
<1>8. Bounded
  <2>1. AtWork = {}
    BY DEF AtWork
  <2>2. Cardinality(AtWork) = 0
    BY <2>1, FS_EmptySet
  <2>3. steady => provider.limit \in Nat \ {0}
    <3>1. CASE provider = NoProvider
      <4>1. provider.up = FALSE
        BY <3>1 DEF NoProvider
      <4> QED
        BY <4>1
    <3>2. CASE provider \in [up : {TRUE}, hold : BOOLEAN, limit : Limits, share : Shares]
      <4>1. provider.limit \in Limits
        BY <3>2
      <4> QED
        BY <4>1, BudgetConstants
    <3> QED
      BY <3>1, <3>2
  <2>4. 0 * MaxTokens = 0
    BY BudgetConstants
  <2> QED
    <3>1. crowd * MaxTokens = 0 /\ Cardinality(AtWork) * MaxTokens = 0 /\ meter = 0
      BY <2>2, <2>4
    <3>2. provider.limit \in Nat \ {0} =>
            provider.limit > 0 /\ 0 + 0 <= provider.limit - 1 + 0
      OBVIOUS
    <3> QED
      BY <2>3, <3>1, <3>2 DEF Bounded
<1> QED
  BY <1>1, <1>2, <1>3, <1>4, <1>5, <1>6, <1>7, <1>8, TypeParts DEF Inv

(* Every step keeps Inv.                                                    *)
LEMMA StepInv == Inv /\ [Next]_vars => Inv'
<1> SUFFICES ASSUME Inv, [Next]_vars PROVE Inv'
  OBVIOUS
<1> USE DEF Inv
<1>1. OthersOK' /\ IsFiniteSet(strays')
  BY OthersStep
<1>2. TypeOK'
  <2>1. /\ DatabaseOK' /\ RowsOK' /\ PromptsOK' /\ PromptsWereSent' /\ LoopOK' /\ CountersOK'
    BY DatabaseStep, RowsStep, PromptsStep, LoopStep, CountersStep
  <2> QED
    BY <1>1, <2>1
       DEF TypeOK, DatabaseOK, RowsOK, PromptsOK, PromptsWereSent, LoopOK, CountersOK, OthersOK
<1>3. Bounded'
  BY <1>1, BoundedStep, DatabaseStep DEF OthersOK
<1> QED
  BY <1>1, <1>2, <1>3, ListedStep, DeliveredStep

(* Inv is an invariant of the budget of a provider and its sessions.        *)
THEOREM Invariance == Spec => []Inv
BY InitInv, StepInv, PTL DEF Spec

(* The state of sessions and providers is well-formed: a session has an     *)
(* attempt exactly during a turn, and a turn is not tried more often than   *)
(* MAX_RETRIES allows.                                                      *)
THEOREM TypeCorrect == Spec => []TypeOK
<1>1. Inv => TypeOK
  BY DEF Inv
<1> QED
  BY <1>1, Invariance, PTL

(* A limit is overrun by no more than the turns that were at work when the  *)
(* gate last cleared one may spend, however attempts are lost, repeated,    *)
(* stopped or settled late (cms_provider_check_turn reads the meters before *)
(* the turn, cms_provider_settle_turn writes them after it).                *)
THEOREM LimitsHold == Spec => []OvershootBounded
<1>1. Inv => OvershootBounded
  <2> SUFFICES ASSUME Inv, steady
               PROVE  meter <= provider.limit - 1 + crowd * MaxTokens
    BY DEF OvershootBounded
  <2>1. Cardinality(AtWork) \in Nat /\ MaxTokens \in Nat
    BY AtWorkFinite, FS_CardinalityType, BudgetConstants DEF Inv
  <2>2. Cardinality(AtWork) * MaxTokens \in Nat
    BY <2>1, Reservation
  <2>3. meter \in Nat /\ provider.limit \in Nat /\ crowd \in Nat
    BY BudgetConstants DEF Inv, TypeOK
  <2>4. crowd * MaxTokens \in Nat
    BY <2>1, <2>3, Reservation
  <2>5. meter + Cardinality(AtWork) * MaxTokens <= provider.limit - 1 + crowd * MaxTokens
    BY DEF Inv, Bounded
  <2> QED
    BY <2>2, <2>3, <2>4, <2>5
<1> QED
  BY <1>1, Invariance, PTL

(* A session that sleeps on a pause is one that the wake after a change of  *)
(* the provider looks up (cms_provider_paused_for).                         *)
THEOREM SleepersStayListed == Spec => []SleepersAreListed
<1>1. Inv => SleepersAreListed
  BY DEF Inv, Listed, SleepersAreListed
<1> QED
  BY <1>1, Invariance, PTL

(* Prompts that were refused stay in budgetStash until a model was given    *)
(* them; only the failure of the gate's own check loses them.               *)
THEOREM RefusedPromptsAreKept == Spec => RefusedPromptsKept
<1>1. Inv /\ [Next]_vars =>
        [\A s \in Sessions :
           stash[s] \subseteq stash'[s] \union told[s] \/ stage[s] = "unchecked"]_vars
  BY StashStep DEF Inv
<1> QED
  BY <1>1, Invariance, PTL DEF Spec, RefusedPromptsKept

-----------------------------------------------------------------------------
(* The element that a sum over s takes first.                               *)
Pick(s) == CHOOSE x \in s : TRUE

(* f sums the tokens of every set of D, one element after the other: the    *)
(* equation that MapThenSumSet chooses a solution of.                       *)
Totals(f, D) == f = [s \in D |-> IF s = {} THEN 0 ELSE Pick(s).tokens + f[s \ {Pick(s)}]]

(* The solution it chooses for the subsets of E.                            *)
Total(E) == CHOOSE f : Totals(f, SUBSET E)

(* The tokens of the entries of E, as MetersMatchLedger adds them up.       *)
Spending(E) == MapThenSumSet(LAMBDA entry : entry.tokens, E)

(* The subsets of E of at most n elements.                                  *)
Small(E, n) == {s \in SUBSET E : Cardinality(s) <= n}

(* A sum is the value of that solution at the whole set.                    *)
LEMMA SpendingTotal == \A E : Spending(E) = Total(E)[E]
BY Zenon DEF Spending, Total, Totals, Pick, MapThenSumSet, MapThenFoldSet

(* Of some numbers one is the least: the induction that the lemmas on sums  *)
(* use.                                                                     *)
LEMMA LeastNumber ==
  ASSUME NEW T \in SUBSET Nat, T # {}
  PROVE  \E n \in T : \A m \in T : n <= m
<1>1. PICK n \in T : \A m \in T : ~(<<m, n>> \in OpToRel(<, Nat))
  BY WFMin, NatLessThanWellFounded, Zenon
<1>2. \A m \in T : m \in Nat /\ n \in Nat /\ ~(m < n)
  BY <1>1 DEF OpToRel
<1> QED
  BY <1>2

(* The equation has a solution on the subsets of any size: one for a size   *)
(* extends to the next.                                                     *)
LEMMA TotalsUpTo ==
  ASSUME NEW E, IsFiniteSet(E)
  PROVE  \A n \in Nat : \E f : Totals(f, Small(E, n))
<1> DEFINE T == {n \in Nat : ~\E f : Totals(f, Small(E, n))}
<1> SUFFICES ASSUME T # {} PROVE FALSE
  OBVIOUS
<1>1. PICK n \in T : \A m \in T : n <= m
  BY LeastNumber
<1>2. n \in Nat /\ ~\E f : Totals(f, Small(E, n))
  BY <1>1
<1>3. \A s \in SUBSET E : IsFiniteSet(s) /\ Cardinality(s) \in Nat
  BY FS_Subset, FS_CardinalityType
<1>4. \A s \in SUBSET E : s # {} => Pick(s) \in s
  BY DEF Pick
<1>5. \A s \in SUBSET E : s # {} => Cardinality(s \ {Pick(s)}) = Cardinality(s) - 1
  BY <1>3, <1>4, FS_RemoveElement
<1>6. CASE n = 0
  <2>1. Small(E, 0) = {{}}
    BY <1>3, FS_EmptySet DEF Small
  <2> DEFINE f == [s \in {{}} |-> 0]
  <2>2. Totals(f, {{}})
    BY DEF Totals
  <2> QED
    BY <1>2, <1>6, <2>1, <2>2
<1>7. CASE n # 0
  <2>1. n - 1 \in Nat
    BY <1>2, <1>7
  <2>2. PICK f : Totals(f, Small(E, n - 1))
    BY <1>1, <2>1
  <2> DEFINE g == [s \in Small(E, n) |-> IF s = {} THEN 0 ELSE Pick(s).tokens + f[s \ {Pick(s)}]]
  <2>3. \A s \in Small(E, n) : s # {} => s \ {Pick(s)} \in Small(E, n - 1)
    BY <1>2, <1>3, <1>5 DEF Small
  <2>4. Small(E, n - 1) \subseteq Small(E, n)
    BY <1>2, <1>3 DEF Small
  <2>5. \A s \in Small(E, n - 1) : g[s] = f[s]
    BY <2>2, <2>4 DEF Totals
  <2>6. Totals(g, Small(E, n))
    BY <2>3, <2>5 DEF Totals
  <2> QED
    BY <1>2, <2>6
<1> QED
  BY <1>6, <1>7

(* The solution chosen for a finite set solves the equation, since one      *)
(* exists.                                                                  *)
LEMMA TotalTotals ==
  ASSUME NEW E, IsFiniteSet(E)
  PROVE  Totals(Total(E), SUBSET E)
<1>1. Cardinality(E) \in Nat /\ \A s \in SUBSET E : Cardinality(s) <= Cardinality(E)
  BY FS_Subset, FS_CardinalityType
<1>2. Small(E, Cardinality(E)) = SUBSET E
  BY <1>1 DEF Small
<1>3. \E f : Totals(f, Small(E, Cardinality(E)))
  BY <1>1, TotalsUpTo
<1>4. \E f : Totals(f, SUBSET E)
  BY <1>2, <1>3
<1> QED
  BY <1>4, Zenon DEF Total

(* What a sum over a finite set computes: nothing for the empty set, and    *)
(* for another the tokens of one element and the rest.                      *)
LEMMA TotalSteps ==
  ASSUME NEW E, IsFiniteSet(E)
  PROVE  /\ Total(E)[{}] = 0
         /\ \A s \in SUBSET E : s # {} =>
              Pick(s) \in s /\ Total(E)[s] = Pick(s).tokens + Total(E)[s \ {Pick(s)}]
<1>1. Totals(Total(E), SUBSET E)
  BY TotalTotals
<1> HIDE DEF Total
<1>2. \A s \in SUBSET E : Total(E)[s] = IF s = {} THEN 0 ELSE Pick(s).tokens + Total(E)[s \ {Pick(s)}]
  BY <1>1 DEF Totals
<1> QED
  BY <1>2 DEF Pick

(* Of some subsets of a finite set, one has none of the others as a part. *)
LEMMA LeastSubset ==
  ASSUME NEW E, IsFiniteSet(E), NEW T \in SUBSET (SUBSET E), T # {}
  PROVE  \E s \in T : \A r \in T : r \subseteq s => r = s
<1> DEFINE N == {Cardinality(s) : s \in T}
<1>1. \A s \in SUBSET E : IsFiniteSet(s) /\ Cardinality(s) \in Nat
  BY FS_Subset, FS_CardinalityType
<1>2. N \in SUBSET Nat /\ N # {}
  BY <1>1
<1> HIDE DEF N
<1>3. PICK n \in N : \A m \in N : n <= m
  BY <1>2, LeastNumber
<1> USE DEF N
<1>4. PICK s \in T : n = Cardinality(s)
  BY <1>3
<1>5. ASSUME NEW r \in T, r \subseteq s PROVE r = s
  BY <1>1, <1>3, <1>4, <1>5, FS_Subset
<1> QED
  BY <1>4, <1>5

(* Sums of numbers are numbers: a least subset whose sum is none has a      *)
(* smaller one.                                                             *)
LEMMA TotalNat ==
  ASSUME NEW E, IsFiniteSet(E), \A x \in E : x.tokens \in Nat
  PROVE  \A s \in SUBSET E : Total(E)[s] \in Nat
<1> DEFINE T == {s \in SUBSET E : Total(E)[s] \notin Nat}
<1> SUFFICES ASSUME T # {} PROVE FALSE
  OBVIOUS
<1>1. T \in SUBSET (SUBSET E)
  OBVIOUS
<1> HIDE DEF T
<1>2. PICK s \in T : \A r \in T : r \subseteq s => r = s
  BY <1>1, LeastSubset
<1> USE DEF T
<1>3. s # {}
  BY <1>2, TotalSteps
<1>4. Pick(s) \in s /\ Total(E)[s] = Pick(s).tokens + Total(E)[s \ {Pick(s)}]
  BY <1>2, <1>3, TotalSteps
<1>5. s \ {Pick(s)} \notin T
  BY <1>2, <1>4
<1> QED
  BY <1>2, <1>4, <1>5

(* A sum does not depend on the element taken first.  In a least subset for *)
(* which it does, the element taken first and the other one can be taken in *)
(* either order from what is left.                                          *)
LEMMA TotalAdds ==
  ASSUME NEW E, IsFiniteSet(E), \A x \in E : x.tokens \in Nat
  PROVE  \A s \in SUBSET E : \A a \in s : Total(E)[s] = a.tokens + Total(E)[s \ {a}]
<1> DEFINE T == {s \in SUBSET E : \E a \in s : Total(E)[s] # a.tokens + Total(E)[s \ {a}]}
<1> SUFFICES ASSUME T # {} PROVE FALSE
  OBVIOUS
<1>1. T \in SUBSET (SUBSET E)
  OBVIOUS
<1> HIDE DEF T
<1>2. PICK s \in T : \A r \in T : r \subseteq s => r = s
  BY <1>1, LeastSubset
<1> USE DEF T
<1>3. PICK a \in s : Total(E)[s] # a.tokens + Total(E)[s \ {a}]
  BY <1>2
<1>4. s \in SUBSET E
  BY <1>2
<1> DEFINE x == Pick(s)
<1>5. x \in s /\ Total(E)[s] = x.tokens + Total(E)[s \ {x}]
  BY <1>3, <1>4, TotalSteps
<1> HIDE DEF x
<1>6. x # a
  BY <1>3, <1>5
<1>7. s \ {x} \notin T /\ s \ {a} \notin T
  BY <1>2, <1>3, <1>5
<1>8. Total(E)[s \ {x}] = a.tokens + Total(E)[(s \ {x}) \ {a}]
  BY <1>3, <1>4, <1>6, <1>7
<1>9. Total(E)[s \ {a}] = x.tokens + Total(E)[(s \ {a}) \ {x}]
  BY <1>4, <1>5, <1>6, <1>7
<1>10. (s \ {x}) \ {a} = (s \ {a}) \ {x} /\ (s \ {x}) \ {a} \in SUBSET E
  BY <1>4
<1>11. Total(E)[(s \ {x}) \ {a}] \in Nat /\ x.tokens \in Nat /\ a.tokens \in Nat
  BY <1>3, <1>4, <1>5, <1>10, TotalNat
<1> DEFINE rest == Total(E)[(s \ {x}) \ {a}]
<1>12. Total(E)[s] = x.tokens + (a.tokens + rest) /\ Total(E)[s \ {a}] = x.tokens + rest
  BY <1>5, <1>8, <1>9, <1>10
<1>13. rest \in Nat /\ x.tokens \in Nat /\ a.tokens \in Nat
  BY <1>11
<1> HIDE DEF rest, T
<1>14. x.tokens + (a.tokens + rest) = a.tokens + (x.tokens + rest)
  BY <1>13
<1> QED
  BY <1>3, <1>12, <1>14, Zenon

(* A sum does not depend on the set that the subset is taken from.          *)
LEMMA TotalSame ==
  ASSUME NEW F, IsFiniteSet(F), NEW E \in SUBSET F
  PROVE  \A s \in SUBSET E : Total(E)[s] = Total(F)[s]
<1>1. IsFiniteSet(E)
  BY FS_Subset
<1> DEFINE T == {s \in SUBSET E : Total(E)[s] # Total(F)[s]}
<1> SUFFICES ASSUME T # {} PROVE FALSE
  OBVIOUS
<1>2. T \in SUBSET (SUBSET E)
  OBVIOUS
<1> HIDE DEF T
<1>3. PICK s \in T : \A r \in T : r \subseteq s => r = s
  BY <1>2, <1>1, LeastSubset
<1> USE DEF T
<1>4. s # {}
  BY <1>1, <1>3, TotalSteps
<1>5. /\ Pick(s) \in s /\ Total(E)[s] = Pick(s).tokens + Total(E)[s \ {Pick(s)}]
      /\ Total(F)[s] = Pick(s).tokens + Total(F)[s \ {Pick(s)}]
  BY <1>1, <1>3, <1>4, TotalSteps
<1>6. s \ {Pick(s)} \notin T
  BY <1>3, <1>5
<1> QED
  BY <1>3, <1>5, <1>6

(* An entry added to a finite set adds its tokens to the sum.               *)
LEMMA SpendingAdds ==
  ASSUME NEW E, IsFiniteSet(E), NEW a, a \notin E, \A x \in E \cup {a} : x.tokens \in Nat
  PROVE  /\ Spending(E \cup {a}) = a.tokens + Spending(E)
         /\ Spending(E) \in Nat /\ Spending({}) = 0
<1> DEFINE F == E \cup {a}
<1>1. IsFiniteSet(F) /\ E \in SUBSET F /\ F \ {a} = E /\ a \in F
  BY FS_AddElement
<1> HIDE DEF F
<1>2. Total(F)[F] = a.tokens + Total(F)[E]
  BY <1>1, TotalAdds DEF F
<1>3. Total(F)[E] = Total(E)[E]
  BY <1>1, TotalSame
<1>4. Total(E)[E] \in Nat
  BY TotalNat
<1>5. Total({})[{}] = 0
  BY TotalSteps, FS_EmptySet
<1> QED
  BY <1>2, <1>3, <1>4, <1>5, SpendingTotal DEF F

(* No entries, no tokens.                                                   *)
LEMMA SpendingNothing == Spending({}) = 0
<1>1. Total({})[{}] = 0
  BY TotalSteps, FS_EmptySet
<1> QED
  BY <1>1, SpendingTotal

(* The ledger's entries of the current window, and those of a user's        *)
(* sessions.                                                                *)
Counted == {entry \in ledger : entry.counts}
CountedOf(u) == {entry \in Counted : Owner[entry.key.session] = u}

(* What is inductive of the meters: the ledger is finite, so that its sums  *)
(* are sums, and each meter is the sum of its entries.                      *)
Balanced ==
  /\ IsFiniteSet(ledger)
  /\ meter = Spending(Counted)
  /\ \A u \in Users : userMeter[u] = Spending(CountedOf(u))

(* Balanced says what MetersMatchLedger says.                               *)
LEMMA BalancedMatches == Balanced => MetersMatchLedger
BY Zenon DEF Balanced, MetersMatchLedger, Counted, CountedOf, Spending

(* The meters and the ledger change only together: by settling a key, or at *)
(* the end of a window or the deletion of the provider, which clear both.   *)
LEMMA LedgerSteps ==
  ASSUME TypeOK, [Next]_vars
  PROVE  \/ UNCHANGED <<meter, userMeter, ledger>>
         \/ \E key \in [session : Sessions, turn : Nat], tokens \in Tokens : settleTurn(key, tokens)
         \/ /\ meter' = 0 /\ userMeter' = [u \in Users |-> 0]
            /\ ledger' = {[entry EXCEPT !.counts = FALSE] : entry \in ledger}
<1> DatabaseOK /\ CountersOK /\ OthersOK
  BY TypeParts
<1>1. ASSUME NEW s \in Sessions, NEW tokens \in Tokens,
             ModelAnswers(s, tokens) \/ ModelFails(s, tokens)
      PROVE  \E key \in [session : Sessions, turn : Nat] : settleTurn(key, tokens)
  BY <1>1, KeyType DEF ModelAnswers, ModelFails, TurnEnds
<1>2. ASSUME NEW key \in strays, NEW tokens \in Tokens, StraySettles(key, tokens)
      PROVE  key \in [session : Sessions, turn : Nat] /\ settleTurn(key, tokens)
  BY <1>2 DEF StraySettles, OthersOK
<1>3. CASE WindowEnds \/ deleteProvider
  BY <1>3 DEF WindowEnds, deleteProvider
<1>4. ASSUME \/ \E limit \in Limits \union {0} : setLimit(limit)
             \/ \E share \in Shares : setAllowance(share)
             \/ setHold \/ createProvider
      PROVE  UNCHANGED <<meter, userMeter, ledger>>
  BY <1>4 DEF setLimit, setAllowance, setHold, createProvider
<1>5. ASSUME NEW s \in Sessions,
             Send(s) \/ Orchestrate(s) \/ Gate(s) \/ GateFails(s) \/ AttemptAgain(s)
      PROVE  UNCHANGED <<meter, userMeter, ledger>>
  BY <1>5 DEF Send, Orchestrate, TakeMessages, PauseEnds, RetryTurn, Gate, checkTurn, Refuse,
              Admit, GateFails, AttemptAgain, database
<1>6. ASSUME NEW s \in Sessions,
             TurnThrows(s) \/ TurnStopped(s) \/ handleTurnResult(s)
      PROVE  UNCHANGED <<meter, userMeter, ledger>>
  BY <1>6 DEF TurnThrows, TurnStopped, handleTurnResult, TurnRefused, TurnCompletes, TurnFails,
              TurnFailsForGood, database
<1>7. ASSUME NEW s \in Sessions, NEW result, TurnEndsUnsettled(s, result)
      PROVE  UNCHANGED <<meter, userMeter, ledger>>
  BY <1>7 DEF TurnEndsUnsettled, database
<1>8. ASSUME NEW key \in strays, StrayCancelled(key)
      PROVE  UNCHANGED <<meter, userMeter, ledger>>
  BY <1>8 DEF StrayCancelled, database
<1>9. ASSUME pausedFor \/ LookupFails \/ \E s \in Sessions : Wake(s) \/ WakeFails(s)
      PROVE  UNCHANGED <<meter, userMeter, ledger>>
  BY <1>9 DEF pausedFor, LookupFails, Wake, WakeFails, database
<1>10. CASE UNCHANGED vars
  BY <1>10 DEF vars, database
<1> QED
  BY <1>1, <1>2, <1>3, <1>4, <1>5, <1>6, <1>7, <1>8, <1>9, <1>10
     DEF Next, RunTurn, TurnFaults, Manage

(* Settling a key that is not in the ledger adds an entry, and its tokens   *)
(* to the meter and to that of the owner, if the provider still exists.     *)
LEMMA BalancedSettles ==
  ASSUME TypeOK, Balanced, NEW key \in [session : Sessions, turn : Nat], NEW tokens \in Tokens,
         settleTurn(key, tokens), ~Settled(key)
  PROVE  Balanced'
<1> DEFINE e == [key |-> key, tokens |-> tokens, counts |-> provider.up]
<1>1. DatabaseOK /\ provider.up \in BOOLEAN
  BY TypeParts DEF DatabaseOK
<1>2. ledger' = ledger \union {e} /\ e \notin ledger
  BY DEF settleTurn, Settled
<1>3. e.key = key /\ e.tokens = tokens /\ e.counts = provider.up /\ tokens \in Nat
  BY BudgetConstants
<1> HIDE DEF e
<1>4. IsFiniteSet(ledger')
  BY <1>2, FS_AddElement DEF Balanced
<1>5. IsFiniteSet(Counted) /\ \A u : IsFiniteSet(CountedOf(u))
  <2>1. IsFiniteSet(ledger)
    BY DEF Balanced
  <2>2. Counted \subseteq ledger /\ \A u : CountedOf(u) \subseteq ledger
    BY DEF Counted, CountedOf
  <2>3. IsFiniteSet(Counted)
    BY <2>1, <2>2, FS_Subset
  <2>4. ASSUME NEW u PROVE IsFiniteSet(CountedOf(u))
    BY <2>1, <2>2, FS_Subset
  <2> QED
    BY <2>3, <2>4
<1>6. \A x \in ledger : x.tokens \in Nat
  <2>1. Tokens \subseteq Nat
    BY BudgetConstants
  <2>2. \A x \in ledger : x.tokens \in Tokens
    BY <1>1 DEF DatabaseOK
  <2> QED
    BY <2>1, <2>2
<1>7. CASE ~provider.up
  <2>1. Counted' = Counted
    BY <1>2, <1>3, <1>7 DEF Counted
  <2>2. \A u : CountedOf(u)' = CountedOf(u)
    BY <2>1 DEF CountedOf
  <2>3. meter' = meter /\ userMeter' = userMeter
    BY <1>7 DEF settleTurn
  <2> QED
    BY <1>4, <2>1, <2>2, <2>3 DEF Balanced
<1>8. CASE provider.up
  <2> DEFINE o == Owner[key.session]
  <2>1. o \in Users
    BY BudgetConstants
  <2>2. meter' = meter + tokens /\ userMeter' = [userMeter EXCEPT ![o] = @ + tokens]
    BY <1>8 DEF settleTurn
  <2>3. Counted' = Counted \union {e} /\ e \notin Counted
    BY <1>2, <1>3, <1>8 DEF Counted
  <2>4. CountedOf(o)' = CountedOf(o) \union {e} /\ e \notin CountedOf(o)
    BY <1>3, <2>3 DEF CountedOf
  <2>5. \A u \in Users : u # o => CountedOf(u)' = CountedOf(u)
    BY <1>3, <2>3 DEF CountedOf
  <2> HIDE DEF o
  <2>6. Spending(Counted') = tokens + Spending(Counted) /\ Spending(Counted) \in Nat
    <3>1. \A x \in Counted \union {e} : x.tokens \in Nat
      BY <1>3, <1>6 DEF Counted
    <3> QED
      BY <1>3, <1>5, <2>3, <3>1, SpendingAdds
  <2>7. Spending(CountedOf(o)') = tokens + Spending(CountedOf(o)) /\ Spending(CountedOf(o)) \in Nat
    <3>1. \A x \in CountedOf(o) \union {e} : x.tokens \in Nat
      BY <1>3, <1>6 DEF Counted, CountedOf
    <3> QED
      BY <1>3, <1>5, <2>4, <3>1, SpendingAdds
  <2>8. meter' = Spending(Counted')
    BY <1>3, <2>2, <2>6 DEF Balanced
  <2>9. ASSUME NEW u \in Users
        PROVE  userMeter'[u] = Spending(CountedOf(u)')
    <3>1. userMeter \in [Users -> Nat]
      BY <1>1 DEF DatabaseOK
    <3>2. CASE u = o
      <4>1. userMeter'[o] = userMeter[o] + tokens
        BY <2>1, <2>2, <3>1
      <4> QED
        BY <1>3, <2>1, <2>7, <3>2, <4>1 DEF Balanced
    <3>3. CASE u # o
      <4>1. userMeter'[u] = userMeter[u]
        BY <2>2, <3>1, <3>3
      <4> QED
        BY <2>5, <3>3, <4>1 DEF Balanced
    <3> QED
      BY <3>2, <3>3
  <2> QED
    BY <1>4, <2>8, <2>9 DEF Balanced
<1> QED
  BY <1>1, <1>7, <1>8

(* After a reset no entry counts, and the meters are at zero.               *)
LEMMA BalancedResets ==
  ASSUME TypeOK, Balanced, meter' = 0, userMeter' = [u \in Users |-> 0],
         ledger' = {[entry EXCEPT !.counts = FALSE] : entry \in ledger}
  PROVE  Balanced'
<1>1. DatabaseOK
  BY TypeParts
<1> DEFINE f == [entry \in ledger |-> [entry EXCEPT !.counts = FALSE]]
<1>2. f \in Surjection(ledger, ledger')
  BY DEF Surjection
<1> HIDE DEF f
<1>3. IsFiniteSet(ledger')
  BY <1>2, FS_Surjection DEF Balanced
<1>4. \A entry \in ledger : [entry EXCEPT !.counts = FALSE].counts = FALSE
  BY <1>1 DEF DatabaseOK
<1>5. Counted' = {}
  BY <1>4 DEF Counted
<1>6. \A u : CountedOf(u)' = {}
  BY <1>5 DEF CountedOf
<1> QED
  BY <1>3, <1>5, <1>6, SpendingNothing DEF Balanced

(* Every step keeps the meters balanced.  Settling a settled key again      *)
(* changes nothing, which is where a late or a repeated attempt would be    *)
(* charged twice.                                                           *)
LEMMA BalancedStep ==
  ASSUME TypeOK, Balanced, [Next]_vars
  PROVE  Balanced'
<1>1. CASE UNCHANGED <<meter, userMeter, ledger>>
  BY <1>1 DEF Balanced, Counted, CountedOf
<1>2. ASSUME NEW key \in [session : Sessions, turn : Nat], NEW tokens \in Tokens,
             settleTurn(key, tokens)
      PROVE  Balanced'
  <2>1. CASE Settled(key)
    BY <1>1, <1>2, <2>1 DEF settleTurn
  <2> QED
    BY <1>2, <2>1, BalancedSettles
<1>3. CASE /\ meter' = 0 /\ userMeter' = [u \in Users |-> 0]
           /\ ledger' = {[entry EXCEPT !.counts = FALSE] : entry \in ledger}
  BY <1>3, BalancedResets
<1> QED
  BY <1>1, <1>2, <1>3, LedgerSteps

(* MetersMatchLedger: at every moment the meter of the provider and that of *)
(* each user are exactly the sums of the ledger entries of the current      *)
(* window (cms_provider_settle_turn adds to both in one transaction, once   *)
(* for each key of the ledger; reset and deletion clear them together).     *)
THEOREM MetersAreRight == Spec => []MetersMatchLedger
<1>1. Init => Balanced
  <2> SUFFICES ASSUME Init PROVE Balanced
    OBVIOUS
  <2>1. ledger = {} /\ meter = 0 /\ userMeter = [u \in Users |-> 0]
    BY DEF Init
  <2>2. Counted = {} /\ \A u : CountedOf(u) = {}
    BY <2>1 DEF Counted, CountedOf
  <2> QED
    BY <2>1, <2>2, SpendingNothing, FS_EmptySet DEF Balanced
<1>2. Inv /\ Balanced /\ [Next]_vars => Balanced'
  BY BalancedStep DEF Inv
<1> QED
  BY <1>1, <1>2, Invariance, BalancedMatches, PTL DEF Spec
=============================================================================
