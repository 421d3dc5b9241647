------------------------ MODULE SessionMessages_proofs ------------------------
(***************************************************************************)
(* What happens to a prompt, proved for any number of clients, messages,   *)
(* commands, retries and executions: the session honours its tombstones,   *)
(* dispatches prompts in their order, loses none unaccounted for, and      *)
(* suppresses duplicates.  The tombstones need an invariant of their own;  *)
(* the rest follows from one about the four places of a prompt: those      *)
(* dispatched, the one decide holds, the FIFO and the stash.               *)
(***************************************************************************)
EXTENDS SessionMessages, FiniteSetTheorems, SequenceTheorems, TLAPS

(* A tombstone the session consumed is in this execution's memory, unless a *)
(* continue-as-new discarded it.  By itself TombstonesHonoured is not       *)
(* inductive: a prompt that is about to be dispatched is checked against    *)
(* `tomb`, while the observation speaks about `seen`.                       *)
TombstonesKept == seen \subseteq tomb \union forgotten

TombstoneInv == TombstonesKept /\ TombstonesHonoured

(* The session starts without tombstones.                                   *)
LEMMA TombstoneInit == Init => TombstoneInv
BY DEF Init, TombstoneInv, TombstonesKept, TombstonesHonoured

(* A continue-as-new moves the tombstones it discards to `forgotten`.       *)
LEMMA FreshExecutionKeeps ==
  ASSUME TombstoneInv, FreshExecution, seen' = seen, ranSeen' = ranSeen
  PROVE  TombstoneInv'
BY DEF FreshExecution, TombstoneInv, TombstonesKept, TombstonesHonoured

(* A prompt joins a turn only if its id is not in `tomb`.                   *)
LEMMA JoinKeeps ==
  ASSUME TombstoneInv, NEW s, Join(s), IdsOf(s) \intersect tomb = {},
         UNCHANGED <<tomb, seen, forgotten>>
  PROVE  TombstoneInv'
BY DEF Join, TombstoneInv, TombstonesKept, TombstonesHonoured

tombVars == <<tomb, seen, forgotten, ranSeen>>

(* Most actions leave the tombstones alone.                                 *)
LEMMA UnchangedKeeps ==
  ASSUME TombstoneInv, UNCHANGED tombVars
  PROVE  TombstoneInv'
BY DEF tombVars, TombstoneInv, TombstonesKept, TombstonesHonoured

(* Before the merge the held prompt is the only one.                        *)
HeldIsOne == pc \in {"sweep", "dispatch"} => Len(held) = 1 /\ DOMAIN held = {1}

(* Every step of the clients and of the session keeps the invariant.        *)
LEMMA TombstoneNext ==
  ASSUME TombstoneInv, HeldIsOne, [Next]_vars
  PROVE  TombstoneInv'
<1>1. CASE UNCHANGED vars
  BY <1>1, UnchangedKeeps DEF vars, tombVars, obsVars
<1>2. CASE Client
  BY <1>2, UnchangedKeeps
  DEF Client, SendMessage, CancelPendingMessage, SendCommand, sessionVars, obsVars, tombVars
<1>3. CASE Take
  <2>1. CASE TakeCancel
    BY <2>1 DEF TakeCancel, TombstoneInv, TombstonesKept, TombstonesHonoured
  <2>2. CASE TakeSetModel
    BY <2>2, FreshExecutionKeeps DEF TakeSetModel
  <2>3. CASE DropIncoming \/ SuppressDuplicate \/ AcceptPrompt
    BY <2>3, UnchangedKeeps DEF DropIncoming, SuppressDuplicate, AcceptPrompt, obsVars, tombVars
  <2>4. CASE TakeQuery \/ TakeRegenerate \/ TakeCancelRegen \/ TakeDone
    BY <2>4, UnchangedKeeps DEF TakeQuery, TakeRegenerate, TakeCancelRegen, TakeDone, tombVars
  <2> QED BY <1>3, <2>1, <2>2, <2>3, <2>4 DEF Take
<1>4. CASE Step
  <2>1. CASE ForcedContinueAsNew \/ RegenFlip \/ TurnForcesContinue
    BY <2>1, FreshExecutionKeeps DEF ForcedContinueAsNew, RegenFlip, TurnForcesContinue
  <2>2. CASE TurnRetries \/ TurnHandsOff
    BY <2>2, FreshExecutionKeeps DEF TurnRetries, TurnHandsOff, CarryTurn
  <2>3. CASE DecideNothing
    BY <2>3, FreshExecutionKeeps, UnchangedKeeps DEF DecideNothing, tombVars
  <2>4. CASE Dispatch
    <3>1. IdsOf(held) \intersect tomb = {}
      BY <2>4 DEF Dispatch, HeldIsOne, IdsOf, PromptsIn
    <3> QED BY <2>4, <3>1, JoinKeeps DEF Dispatch
  <2>5. CASE MergeJoins
    <3>1. IdsOf(<<Head(fifo)>>) \intersect tomb = {}
      BY <2>5 DEF MergeJoins, Cancelled, IdsOf, PromptsIn
    <3> QED BY <2>5, <3>1, JoinKeeps DEF MergeJoins
  <2>6. CASE BeginIteration \/ TimerFires \/ RegenStage \/ DecideCarried \/ DecidePrompt
             \/ DecideTimer \/ MergeEnds \/ TurnCompletes \/ TurnGivesUp \/ TurnFatal
    BY <2>6, UnchangedKeeps
    DEF BeginIteration, TimerFires, RegenStage, DecideCarried, DecidePrompt, DecideTimer,
        MergeEnds, TurnCompletes, TurnGivesUp, TurnFatal, obsVars, tombVars
  <2>7. CASE EndDrain \/ EndSweep \/ DropHeld \/ MergeDrops
    BY <2>7, UnchangedKeeps DEF EndDrain, EndSweep, DropHeld, MergeDrops, tombVars
  <2> QED
    BY <1>4, <2>1, <2>2, <2>3, <2>4, <2>5, <2>6, <2>7 DEF Step
<1> QED BY <1>1, <1>2, <1>3, <1>4 DEF Next

(* decide holds one prompt from the moment it takes it off the FIFO until   *)
(* it dispatches or drops it.                                               *)
LEMMA HeldInit == Init => HeldIsOne
BY DEF Init, HeldIsOne

(* ... and every step keeps that.                                           *)
LEMMA HeldNext ==
  ASSUME HeldIsOne, [Next]_vars
  PROVE  HeldIsOne'
<1>1. CASE UNCHANGED vars
  BY <1>1 DEF vars, HeldIsOne
<1>2. CASE Client
  BY <1>2 DEF Client, SendMessage, CancelPendingMessage, SendCommand, sessionVars, HeldIsOne
<1>3. CASE Take
  BY <1>3
  DEF Take, DropIncoming, SuppressDuplicate, AcceptPrompt, TakeCancel, TakeQuery, TakeSetModel,
      TakeRegenerate, TakeCancelRegen, TakeDone, AfterCommand, FreshExecution, TakingPrompt,
      TakingCommand, Taking, HeldIsOne
<1>4. CASE Step
  <2>1. CASE DecidePrompt
    BY <2>1 DEF DecidePrompt, HeldIsOne
  <2>2. CASE EndSweep
    BY <2>2 DEF EndSweep, HeldIsOne
  <2>3. CASE Step /\ ~DecidePrompt /\ ~EndSweep
    <3>1. pc' \notin {"sweep", "dispatch"}
      BY <2>3
      DEF Step, BeginIteration, ForcedContinueAsNew, TimerFires, Parked, EndDrain, RegenStage,
          RegenFlip, DecideCarried, DecideTimer, DecideNothing, DropHeld, Dispatch, MergeDrops,
          MergeJoins, MergeEnds, TurnCompletes, TurnForcesContinue, TurnRetries, TurnHandsOff,
          TurnGivesUp, TurnFatal, CarryTurn, FreshExecution
    <3> QED BY <3>1 DEF HeldIsOne
  <2> QED BY <1>4, <2>1, <2>2, <2>3
<1> QED BY <1>1, <1>2, <1>3, <1>4 DEF Next

(* Whatever the clients send and however executions end, a prompt whose     *)
(* tombstone the session consumed is dispatched only if a continue-as-new   *)
(* discarded that tombstone (queue.ts, drain, sweep and decide).            *)
THEOREM SpecHonoursTombstones == Spec => []TombstonesHonoured
<1>1. Init => TombstoneInv /\ HeldIsOne
  BY TombstoneInit, HeldInit
<1>2. TombstoneInv /\ HeldIsOne /\ [Next]_vars => (TombstoneInv /\ HeldIsOne)'
  BY TombstoneNext, HeldNext
<1>3. TombstoneInv => TombstonesHonoured
  BY DEF TombstoneInv
<1> QED BY <1>1, <1>2, <1>3, PTL DEF Spec

-----------------------------------------------------------------------------
(* Sequences of items.                                                      *)

(* The numbers of the prompts in s increase.                                *)
Sorted(s) == \A i, j \in PromptsIn(s) : i < j => s[i].n < s[j].n

(* No two prompts in s have the same id, but for evicted ones.              *)
Once(s, gone) == \A i, j \in PromptsIn(s) : i # j /\ s[i].id = s[j].id => s[i].id \in gone

(* Every number of A is less than every number of B.                        *)
Below(A, B) == \A a \in A, b \in B : a < b

(* The ids, but for evicted ones, are in one of the sets only.              *)
Apart(A, B, gone) == A \intersect B \subseteq gone

(* The items that are prompts.                                              *)
LEMMA Items ==
  /\ Prompt \subseteq Item
  /\ \A x \in Item : IsPrompt(x) <=> x \in Prompt
  /\ \A x \in Prompt : IsPrompt(x) /\ x.n \in Nat /\ x.id \in Ids
  /\ Fired \in Item /\ ~IsPrompt(Fired)
BY SessionMessagesConstants DEF Item, Prompt, Fired, IsPrompt

(* Positions of a concatenation.                                            *)
LEMMA ConcatAt ==
  ASSUME NEW S, NEW s \in Seq(S), NEW t \in Seq(S)
  PROVE  /\ s \o t \in Seq(S)
         /\ Len(s \o t) = Len(s) + Len(t)
         /\ \A i \in DOMAIN s : i \in DOMAIN (s \o t) /\ (s \o t)[i] = s[i]
         /\ \A j \in DOMAIN t :
              Len(s) + j \in DOMAIN (s \o t) /\ (s \o t)[Len(s) + j] = t[j]
         /\ \A k \in DOMAIN (s \o t) :
              \/ k \in DOMAIN s
              \/ k - Len(s) \in DOMAIN t /\ k > Len(s) /\ (s \o t)[k] = t[k - Len(s)]
OBVIOUS

(* What is known of two sequences is known of their concatenation.          *)
LEMMA Concat ==
  ASSUME NEW s \in Seq(Item), NEW t \in Seq(Item)
  PROVE  /\ NumbersOf(s \o t) = NumbersOf(s) \union NumbersOf(t)
         /\ IdsOf(s \o t) = IdsOf(s) \union IdsOf(t)
         /\ Sorted(s) /\ Sorted(t) /\ Below(NumbersOf(s), NumbersOf(t)) => Sorted(s \o t)
         /\ \A gone : Once(s, gone) /\ Once(t, gone) /\ Apart(IdsOf(s), IdsOf(t), gone)
                        => Once(s \o t, gone)
<1> DEFINE u == s \o t
<1>1. /\ \A i \in PromptsIn(s) : i \in PromptsIn(u) /\ u[i] = s[i]
      /\ \A j \in PromptsIn(t) : Len(s) + j \in PromptsIn(u) /\ u[Len(s) + j] = t[j]
      /\ \A k \in PromptsIn(u) :
           \/ k \in PromptsIn(s) /\ u[k] = s[k] /\ k <= Len(s)
           \/ k - Len(s) \in PromptsIn(t) /\ k > Len(s) /\ u[k] = t[k - Len(s)]
  BY ConcatAt DEF PromptsIn
<1> HIDE DEF u
<1>2. NumbersOf(u) = NumbersOf(s) \union NumbersOf(t)
  BY <1>1 DEF NumbersOf
<1>3. IdsOf(u) = IdsOf(s) \union IdsOf(t)
  BY <1>1 DEF IdsOf
<1>4. ASSUME Sorted(s), Sorted(t), Below(NumbersOf(s), NumbersOf(t))
      PROVE  Sorted(u)
  <2> SUFFICES ASSUME NEW i \in PromptsIn(u), NEW j \in PromptsIn(u), i < j
               PROVE  u[i].n < u[j].n
    BY DEF Sorted
  <2>0. i \in Int /\ j \in Int /\ Len(s) \in Nat
    <3>1. PromptsIn(u) \subseteq DOMAIN u /\ u \in Seq(Item)
      BY ConcatAt DEF PromptsIn, u
    <3> QED
      BY <3>1
  <2>1. CASE j \in PromptsIn(s) /\ u[j] = s[j] /\ j <= Len(s)
    BY <1>1, <1>4, <2>0, <2>1 DEF Sorted
  <2>2. CASE j - Len(s) \in PromptsIn(t) /\ j > Len(s) /\ u[j] = t[j - Len(s)]
    <3>1. CASE i \in PromptsIn(s) /\ u[i] = s[i]
      BY <1>4, <2>2, <3>1 DEF Below, NumbersOf
    <3>2. CASE i - Len(s) \in PromptsIn(t) /\ u[i] = t[i - Len(s)]
      <4>1. i - Len(s) < j - Len(s)
        BY <2>0
      <4> QED
        BY <1>4, <2>2, <3>2, <4>1 DEF Sorted
    <3> QED
      BY <1>1, <3>1, <3>2
  <2> QED
    BY <1>1, <2>1, <2>2
<1>5. ASSUME NEW gone, Once(s, gone), Once(t, gone), Apart(IdsOf(s), IdsOf(t), gone)
      PROVE  Once(u, gone)
  <2> SUFFICES ASSUME NEW i \in PromptsIn(u), NEW j \in PromptsIn(u), i # j, u[i].id = u[j].id
               PROVE  u[i].id \in gone
    BY DEF Once
  <2>0. i \in Int /\ j \in Int /\ Len(s) \in Nat
    <3>1. PromptsIn(u) \subseteq DOMAIN u /\ u \in Seq(Item)
      BY ConcatAt DEF PromptsIn, u
    <3> QED
      BY <3>1
  <2>1. CASE i \in PromptsIn(s) /\ u[i] = s[i] /\ j \in PromptsIn(s) /\ u[j] = s[j]
    BY <1>5, <2>1 DEF Once
  <2>2. CASE /\ i - Len(s) \in PromptsIn(t) /\ u[i] = t[i - Len(s)]
             /\ j - Len(s) \in PromptsIn(t) /\ u[j] = t[j - Len(s)]
    <3>1. i - Len(s) # j - Len(s)
      BY <2>0
    <3> QED
      BY <1>5, <2>2, <3>1 DEF Once
  <2>3. CASE \/ i \in PromptsIn(s) /\ u[i] = s[i] /\ u[j].id \in IdsOf(t)
             \/ j \in PromptsIn(s) /\ u[j] = s[j] /\ u[i].id \in IdsOf(t)
    BY <1>5, <2>3 DEF Apart, IdsOf
  <2> QED
    BY <1>1, <2>1, <2>2, <2>3 DEF IdsOf
<1> QED
  BY <1>2, <1>3, <1>4, <1>5 DEF u

(* A filter keeps the items at the positions that pass, in their order.     *)
LEMMA FilterAt ==
  ASSUME NEW S, NEW s \in Seq(S), NEW D \in SUBSET DOMAIN s, NEW t \in Filtered(s, D)
  PROVE  /\ t \in Seq(S)
         /\ \E f \in [DOMAIN t -> D] :
              /\ \A i, j \in DOMAIN t : i < j => f[i] < f[j]
              /\ \A i \in DOMAIN t : t[i] = s[f[i]]
              /\ \A d \in D : \E i \in DOMAIN t : f[i] = d
<1>1. PICK f \in Enumerations(D) : t = [i \in 1 .. Cardinality(D) |-> s[f[i]]]
  BY DEF Filtered
<1>2. IsFiniteSet(D) /\ Cardinality(D) \in Nat
  <2>1. DOMAIN s = 1 .. Len(s) /\ Len(s) \in Nat
    OBVIOUS
  <2>2. IsFiniteSet(1 .. Len(s))
    BY <2>1, FS_Interval
  <2>3. IsFiniteSet(D)
    BY <2>1, <2>2, FS_Subset
  <2> QED
    BY <2>3, FS_CardinalityType
<1> DEFINE n == Cardinality(D)
<1>3. /\ f \in [1 .. n -> D]
      /\ \A i, j \in 1 .. n : i < j => f[i] < f[j]
  BY <1>1 DEF Enumerations
<1> HIDE DEF n
<1>4. t \in Seq(S) /\ DOMAIN t = 1 .. n
  BY <1>1, <1>2, <1>3 DEF n
<1>5. f \in Injection(1 .. n, D)
  <2>1. \A i, j \in 1 .. n : f[i] = f[j] => i = j
    <3> SUFFICES ASSUME NEW i \in 1 .. n, NEW j \in 1 .. n, i # j, f[i] = f[j]
                 PROVE  FALSE
      OBVIOUS
    <3>1. f[i] \in Int
      BY <1>3
    <3>2. i < j \/ j < i
      OBVIOUS
    <3> QED
      BY <1>3, <3>1, <3>2
  <2> QED
    BY <1>3, <2>1 DEF Injection, IsInjective
<1>6. IsFiniteSet(1 .. n) /\ Cardinality(1 .. n) = n
  <2>1. n \in Nat
    BY <1>2 DEF n
  <2> QED
    BY <2>1, FS_Interval
<1>7. f \in Surjection(1 .. n, D)
  BY <1>2, <1>5, <1>6, FS_Injection DEF n
<1>8. \A d \in D : \E i \in 1 .. n : f[i] = d
  BY <1>7 DEF Surjection
<1> QED
  BY <1>1, <1>3, <1>4, <1>8 DEF n

(* What is known of a sequence of items is known of it filtered.            *)
LEMMA Filter ==
  ASSUME NEW s \in Seq(Item), NEW D \in SUBSET DOMAIN s, NEW t \in Filtered(s, D)
  PROVE  /\ t \in Seq(Item)
         /\ NumbersOf(t) = {s[i].n : i \in D \intersect PromptsIn(s)}
         /\ IdsOf(t) = {s[i].id : i \in D \intersect PromptsIn(s)}
         /\ Sorted(s) => Sorted(t)
         /\ \A gone : Once(s, gone) => Once(t, gone)
<1>1. t \in Seq(Item)
  BY FilterAt
<1>2. PICK f \in [DOMAIN t -> D] :
        /\ \A i, j \in DOMAIN t : i < j => f[i] < f[j]
        /\ \A i \in DOMAIN t : t[i] = s[f[i]]
        /\ \A d \in D : \E i \in DOMAIN t : f[i] = d
  BY FilterAt
<1>3. /\ \A i \in PromptsIn(t) : i \in DOMAIN t /\ f[i] \in D /\ f[i] \in PromptsIn(s)
      /\ \A d \in D \intersect PromptsIn(s) : \E i \in PromptsIn(t) : t[i] = s[d]
  BY <1>2 DEF PromptsIn
<1>4. NumbersOf(t) = {s[i].n : i \in D \intersect PromptsIn(s)}
  BY <1>2, <1>3 DEF NumbersOf
<1>5. IdsOf(t) = {s[i].id : i \in D \intersect PromptsIn(s)}
  BY <1>2, <1>3 DEF IdsOf
<1>6. Sorted(s) => Sorted(t)
  BY <1>2, <1>3 DEF Sorted
<1>7. ASSUME NEW gone, Once(s, gone)
      PROVE  Once(t, gone)
  <2> SUFFICES ASSUME NEW i \in PromptsIn(t), NEW j \in PromptsIn(t), i # j, t[i].id = t[j].id
               PROVE  t[i].id \in gone
    BY DEF Once
  <2>1. i \in 1 .. Len(t) /\ j \in 1 .. Len(t) /\ Len(t) \in Nat
    BY <1>1 DEF PromptsIn
  <2>2. i < j \/ j < i
    BY <2>1
  <2>3. f[i] \in Int /\ f[j] \in Int
    BY <1>3
  <2>4. f[i] # f[j]
    BY <1>2, <1>3, <2>2, <2>3
  <2> QED
    BY <1>2, <1>3, <1>7, <2>4 DEF Once
<1> QED
  BY <1>1, <1>4, <1>5, <1>6, <1>7
(* A prompt leaves its sequence from behind items that are none.            *)
LEMMA Removal ==
  ASSUME NEW s \in Seq(Item), NEW k \in DOMAIN s, IsPrompt(s[k]),
         \A j \in 1 .. k - 1 : ~IsPrompt(s[j]),
         NEW t \in Seq(Item), Len(t) = Len(s) - 1,
         \A i \in DOMAIN t : t[i] = IF i < k THEN s[i] ELSE s[i + 1]
  PROVE  /\ NumbersOf(s) = {s[k].n} \union NumbersOf(t)
         /\ IdsOf(s) = {s[k].id} \union IdsOf(t)
         /\ Sorted(s) => Sorted(t) /\ Below({s[k].n}, NumbersOf(t))
         /\ \A gone : Once(s, gone) => Once(t, gone) /\ Apart({s[k].id}, IdsOf(t), gone)
<1>0. /\ DOMAIN s = 1 .. Len(s) /\ DOMAIN t = 1 .. Len(t)
      /\ Len(s) \in Nat /\ Len(t) \in Nat /\ k \in 1 .. Len(s)
  OBVIOUS
<1>1. \A i \in PromptsIn(t) : i \in Nat /\ i + 1 \in PromptsIn(s) /\ i + 1 > k /\ t[i] = s[i + 1]
  <2> SUFFICES ASSUME NEW i \in PromptsIn(t)
               PROVE  i \in Nat /\ i + 1 \in PromptsIn(s) /\ i + 1 > k /\ t[i] = s[i + 1]
    OBVIOUS
  <2>1. i \in DOMAIN t /\ IsPrompt(t[i])
    BY DEF PromptsIn
  <2>2. ~(i < k)
    BY <1>0, <2>1
  <2>3. i + 1 \in DOMAIN s /\ i + 1 > k /\ i \in Nat
    BY <1>0, <2>1, <2>2
  <2> QED
    BY <2>1, <2>2, <2>3 DEF PromptsIn
<1>2. \A j \in PromptsIn(s) :
        j # k => j \in Nat /\ j > k /\ j - 1 \in PromptsIn(t) /\ t[j - 1] = s[j]
  <2> SUFFICES ASSUME NEW j \in PromptsIn(s), j # k
               PROVE  j \in Nat /\ j > k /\ j - 1 \in PromptsIn(t) /\ t[j - 1] = s[j]
    OBVIOUS
  <2>1. j \in DOMAIN s /\ IsPrompt(s[j])
    BY DEF PromptsIn
  <2>2. ~(j < k)
    BY <1>0, <2>1
  <2>3. j - 1 \in DOMAIN t /\ j > k /\ j \in Nat /\ ~(j - 1 < k) /\ (j - 1) + 1 = j
    BY <1>0, <2>1, <2>2
  <2>4. t[j - 1] = s[j]
    BY <2>3
  <2> QED
    BY <2>1, <2>3, <2>4 DEF PromptsIn
<1>3. k \in PromptsIn(s) /\ k \in Nat
  BY <1>0 DEF PromptsIn
<1>4. NumbersOf(s) = {s[k].n} \union NumbersOf(t)
  <2>1. \A j \in PromptsIn(s) : s[j].n \in {s[k].n} \union NumbersOf(t)
    BY <1>2 DEF NumbersOf
  <2>2. \A i \in PromptsIn(t) : t[i].n \in NumbersOf(s)
    BY <1>1 DEF NumbersOf
  <2> QED
    BY <1>3, <2>1, <2>2 DEF NumbersOf
<1>5. IdsOf(s) = {s[k].id} \union IdsOf(t)
  <2>1. \A j \in PromptsIn(s) : s[j].id \in {s[k].id} \union IdsOf(t)
    BY <1>2 DEF IdsOf
  <2>2. \A i \in PromptsIn(t) : t[i].id \in IdsOf(s)
    BY <1>1 DEF IdsOf
  <2> QED
    BY <1>3, <2>1, <2>2 DEF IdsOf
<1>6. ASSUME Sorted(s)
      PROVE  Sorted(t) /\ Below({s[k].n}, NumbersOf(t))
  <2>1. \A i, j \in PromptsIn(t) : i < j => t[i].n < t[j].n
    <3> SUFFICES ASSUME NEW i \in PromptsIn(t), NEW j \in PromptsIn(t), i < j
                 PROVE  t[i].n < t[j].n
      OBVIOUS
    <3>1. i + 1 < j + 1
      BY <1>1
    <3> QED
      BY <1>1, <1>6, <3>1 DEF Sorted
  <2>2. \A i \in PromptsIn(t) : s[k].n < t[i].n
    <3> SUFFICES ASSUME NEW i \in PromptsIn(t)
                 PROVE  s[k].n < t[i].n
      OBVIOUS
    <3>1. k < i + 1
      BY <1>1, <1>3
    <3> QED
      BY <1>1, <1>3, <1>6, <3>1 DEF Sorted
  <2> QED
    BY <2>1, <2>2 DEF Sorted, Below, NumbersOf
<1>7. ASSUME NEW gone, Once(s, gone)
      PROVE  Once(t, gone) /\ Apart({s[k].id}, IdsOf(t), gone)
  <2>1. \A i, j \in PromptsIn(t) : i # j /\ t[i].id = t[j].id => t[i].id \in gone
    <3> SUFFICES ASSUME NEW i \in PromptsIn(t), NEW j \in PromptsIn(t), i # j, t[i].id = t[j].id
                 PROVE  t[i].id \in gone
      OBVIOUS
    <3>1. i + 1 # j + 1
      BY <1>1
    <3> QED
      BY <1>1, <1>7, <3>1 DEF Once
  <2>2. \A i \in PromptsIn(t) : s[k].id = t[i].id => s[k].id \in gone
    <3> SUFFICES ASSUME NEW i \in PromptsIn(t), s[k].id = t[i].id
                 PROVE  s[k].id \in gone
      OBVIOUS
    <3>1. k # i + 1
      BY <1>1, <1>3
    <3> QED
      BY <1>1, <1>3, <1>7, <3>1 DEF Once
  <2> QED
    BY <2>1, <2>2 DEF Once, Apart, IdsOf
<1> QED
  BY <1>4, <1>5, <1>6, <1>7

(* The head of a sequence is a prompt that leaves from behind nothing.      *)
LEMMA HeadLeaves ==
  ASSUME NEW s \in Seq(Item), s # <<>>, IsPrompt(Head(s))
  PROVE  /\ Tail(s) \in Seq(Item)
         /\ Head(s) \in Prompt
         /\ NumbersOf(s) = {Head(s).n} \union NumbersOf(Tail(s))
         /\ IdsOf(s) = {Head(s).id} \union IdsOf(Tail(s))
         /\ Sorted(s) => Sorted(Tail(s)) /\ Below({Head(s).n}, NumbersOf(Tail(s)))
         /\ \A gone : Once(s, gone) =>
              Once(Tail(s), gone) /\ Apart({Head(s).id}, IdsOf(Tail(s)), gone)
<1>1. /\ Tail(s) \in Seq(Item) /\ Len(Tail(s)) = Len(s) - 1
      /\ 1 \in DOMAIN s /\ Head(s) = s[1] /\ Head(s) \in Item
      /\ \A i \in DOMAIN Tail(s) : i \in Nat \ {0} /\ Tail(s)[i] = s[i + 1]
  OBVIOUS
<1>2. \A j \in 1 .. 1 - 1 : ~IsPrompt(s[j])
  OBVIOUS
<1>3. \A i \in DOMAIN Tail(s) : Tail(s)[i] = IF i < 1 THEN s[i] ELSE s[i + 1]
  BY <1>1
<1>4. Head(s) \in Prompt
  BY <1>1, Items
<1> DEFINE t == Tail(s)
<1> HIDE DEF t
<1>5. /\ t \in Seq(Item) /\ Len(t) = Len(s) - 1 /\ 1 \in DOMAIN s /\ IsPrompt(s[1])
      /\ \A i \in DOMAIN t : t[i] = IF i < 1 THEN s[i] ELSE s[i + 1]
  BY <1>1, <1>3 DEF t
<1>6. /\ NumbersOf(s) = {s[1].n} \union NumbersOf(t)
      /\ IdsOf(s) = {s[1].id} \union IdsOf(t)
      /\ Sorted(s) => Sorted(t) /\ Below({s[1].n}, NumbersOf(t))
      /\ \A gone : Once(s, gone) => Once(t, gone) /\ Apart({s[1].id}, IdsOf(t), gone)
  BY <1>2, <1>5, Removal
<1> QED
  BY <1>1, <1>4, <1>6 DEF t

(* A sequence of one prompt, and one without prompts.                       *)
LEMMA Alone ==
  ASSUME NEW x \in Prompt
  PROVE  /\ <<x>> \in Seq(Prompt) /\ <<x>> \in Seq(Item) /\ Len(<<x>>) = 1
         /\ NumbersOf(<<x>>) = {x.n} /\ IdsOf(<<x>>) = {x.id}
         /\ Sorted(<<x>>) /\ \A gone : Once(<<x>>, gone)
<1>1. <<x>> \in Seq(Prompt) /\ <<x>> \in Seq(Item) /\ Len(<<x>>) = 1
  BY Items
<1>2. PromptsIn(<<x>>) = {1} /\ <<x>>[1] = x
  BY Items DEF PromptsIn
<1>3. NumbersOf(<<x>>) = {x.n} /\ IdsOf(<<x>>) = {x.id}
  BY <1>2 DEF NumbersOf, IdsOf
<1>4. Sorted(<<x>>)
  BY <1>2 DEF Sorted
<1>5. \A gone : Once(<<x>>, gone)
  BY <1>2 DEF Once
<1> QED
  BY <1>1, <1>3, <1>4, <1>5

(* A sequence without prompts.                                              *)
LEMMA NoPrompts ==
  ASSUME NEW s, PromptsIn(s) = {}
  PROVE  /\ NumbersOf(s) = {} /\ IdsOf(s) = {}
         /\ Sorted(s) /\ \A gone : Once(s, gone)
BY DEF NumbersOf, IdsOf, Sorted, Once

(* The empty sequence, and that of a fired timer.                           *)
LEMMA NothingIn ==
  /\ <<>> \in Seq(Item) /\ PromptsIn(<<>>) = {}
  /\ <<Fired>> \in Seq(Item) /\ PromptsIn(<<Fired>>) = {}
BY Items DEF PromptsIn

(* Numbers and ids of items are numbers and ids.                            *)
LEMMA Ranges ==
  ASSUME NEW s \in Seq(Item)
  PROVE  NumbersOf(s) \subseteq Nat /\ IdsOf(s) \subseteq Ids
<1>1. \A i \in PromptsIn(s) : s[i] \in Prompt
  BY Items DEF PromptsIn
<1> QED
  BY <1>1, Items DEF NumbersOf, IdsOf

-----------------------------------------------------------------------------
(* The inductive invariant behind the order, the fate and the uniqueness of *)
(* accepted prompts.                                                        *)

(* Only a pass over the queue has a stash, and only decide holds a prompt.  *)
Places ==
  /\ pc \notin {"drain", "sweep"} => stash = <<>>
  /\ pc \notin {"sweep", "dispatch", "ended"} => held = <<>>

(* The four places of a prompt, in the order in which it goes through them: *)
(* the numbers increase in each place and from each place to the next.      *)
Lined(r, h, f, s) ==
  /\ Sorted(r) /\ Sorted(h) /\ Sorted(f) /\ Sorted(s)
  /\ Below(NumbersOf(r), NumbersOf(h))
  /\ Below(NumbersOf(r), NumbersOf(f))
  /\ Below(NumbersOf(r), NumbersOf(s))
  /\ Below(NumbersOf(h), NumbersOf(f))
  /\ Below(NumbersOf(h), NumbersOf(s))
  /\ Below(NumbersOf(f), NumbersOf(s))

(* An id that was not evicted is in one of the places, and there once.      *)
Single(r, h, f, s, gone) ==
  /\ Once(r, gone) /\ Once(h, gone) /\ Once(f, gone) /\ Once(s, gone)
  /\ Apart(IdsOf(r), IdsOf(h), gone)
  /\ Apart(IdsOf(r), IdsOf(f), gone)
  /\ Apart(IdsOf(r), IdsOf(s), gone)
  /\ Apart(IdsOf(h), IdsOf(f), gone)
  /\ Apart(IdsOf(h), IdsOf(s), gone)
  /\ Apart(IdsOf(f), IdsOf(s), gone)

(* The numbers in the four places.                                          *)
OnTheWay(r, h, f, s) == NumbersOf(r) \union NumbersOf(h) \union NumbersOf(f) \union NumbersOf(s)

(* Numbers on the way, and numbers that left it, are those given out.       *)
Split(way, d, w, n) ==
  /\ way \union d \union w = 1 .. n
  /\ way \intersect (d \union w) = {} /\ d \intersect w = {}

InLine == Lined(ran, held, fifo, stash)

Accounted == Split(OnTheWay(ran, held, fifo, stash), dropped, swept, accepted)

Window == {recent[i] : i \in DOMAIN recent}

(* What passed the stash is in the duplicate window or was evicted from it; *)
(* what is in the stash is pending.                                         *)
Remembered ==
  /\ IdsOf(ran) \union IdsOf(held) \union IdsOf(fifo) \subseteq Window \union evicted
  /\ IdsOf(stash) \subseteq pending

OnlyOnce == Single(ran, held, fifo, stash, evicted)

Inv == TypeOK /\ Places /\ InLine /\ Accounted /\ Remembered /\ OnlyOnce

(* Numbers in two places, one below the other, differ.                      *)
LEMMA BelowApart ==
  ASSUME NEW A \in SUBSET Nat, NEW B \in SUBSET Nat, Below(A, B)
  PROVE  A \intersect B = {}
BY DEF Below

(* More may be evicted.                                                     *)
LEMMA OnceMore ==
  ASSUME NEW s, NEW gone, NEW more, gone \subseteq more
  PROVE  /\ Once(s, gone) => Once(s, more)
         /\ \A A, B : Apart(A, B, gone) => Apart(A, B, more)
BY DEF Once, Apart

(* The stash goes to the end of the FIFO.                                   *)
LEMMA MoveFlush ==
  ASSUME NEW r, NEW h, NEW f \in Seq(Item), NEW s \in Seq(Item),
         NEW gone, NEW more, gone \subseteq more
  PROVE  /\ Lined(r, h, f, s) => Lined(r, h, f \o s, <<>>)
         /\ Single(r, h, f, s, gone) => Single(r, h, f \o s, <<>>, more)
         /\ OnTheWay(r, h, f \o s, <<>>) = OnTheWay(r, h, f, s)
<1>1. /\ NumbersOf(f \o s) = NumbersOf(f) \union NumbersOf(s)
      /\ IdsOf(f \o s) = IdsOf(f) \union IdsOf(s)
      /\ Sorted(f) /\ Sorted(s) /\ Below(NumbersOf(f), NumbersOf(s)) => Sorted(f \o s)
      /\ Once(f, more) /\ Once(s, more) /\ Apart(IdsOf(f), IdsOf(s), more) => Once(f \o s, more)
  BY Concat
<1>2. NumbersOf(<<>>) = {} /\ IdsOf(<<>>) = {} /\ Sorted(<<>>) /\ Once(<<>>, more)
  BY NoPrompts, NothingIn
<1>3. Lined(r, h, f, s) => Lined(r, h, f \o s, <<>>)
  BY <1>1, <1>2 DEF Lined, Below
<1>4. ASSUME Single(r, h, f, s, gone)
      PROVE  Single(r, h, f \o s, <<>>, more)
  <2>1. Once(r, more) /\ Once(h, more) /\ Once(f, more) /\ Once(s, more)
    BY <1>4, OnceMore DEF Single
  <2>2. Apart(IdsOf(f), IdsOf(s), more) /\ Apart(IdsOf(r), IdsOf(h), more)
    BY <1>4, OnceMore DEF Single
  <2>3. Once(f \o s, more)
    BY <1>1, <2>1, <2>2
  <2>4. /\ Apart(IdsOf(r), IdsOf(f \o s), more) /\ Apart(IdsOf(h), IdsOf(f \o s), more)
        /\ Apart(IdsOf(r), IdsOf(<<>>), more) /\ Apart(IdsOf(h), IdsOf(<<>>), more)
        /\ Apart(IdsOf(f \o s), IdsOf(<<>>), more)
    BY <1>1, <1>2, <1>4 DEF Single, Apart
  <2> QED
    BY <1>2, <2>1, <2>2, <2>3, <2>4 DEF Single
<1>5. OnTheWay(r, h, f \o s, <<>>) = OnTheWay(r, h, f, s)
  BY <1>1, <1>2 DEF OnTheWay
<1> QED
  BY <1>3, <1>4, <1>5

(* The held prompt is dispatched.                                           *)
LEMMA MoveDispatch ==
  ASSUME NEW r \in Seq(Item), NEW h \in Seq(Item), NEW f, NEW s, NEW gone
  PROVE  /\ Lined(r, h, f, s) => Lined(r \o h, <<>>, f, s)
         /\ Single(r, h, f, s, gone) => Single(r \o h, <<>>, f, s, gone)
         /\ OnTheWay(r \o h, <<>>, f, s) = OnTheWay(r, h, f, s)
<1>1. /\ NumbersOf(r \o h) = NumbersOf(r) \union NumbersOf(h)
      /\ IdsOf(r \o h) = IdsOf(r) \union IdsOf(h)
      /\ Sorted(r) /\ Sorted(h) /\ Below(NumbersOf(r), NumbersOf(h)) => Sorted(r \o h)
      /\ Once(r, gone) /\ Once(h, gone) /\ Apart(IdsOf(r), IdsOf(h), gone) => Once(r \o h, gone)
  BY Concat
<1>2. NumbersOf(<<>>) = {} /\ IdsOf(<<>>) = {} /\ Sorted(<<>>) /\ Once(<<>>, gone)
  BY NoPrompts, NothingIn
<1>3. Lined(r, h, f, s) => Lined(r \o h, <<>>, f, s)
  BY <1>1, <1>2 DEF Lined, Below
<1>4. Single(r, h, f, s, gone) => Single(r \o h, <<>>, f, s, gone)
  BY <1>1, <1>2 DEF Single, Apart
<1>5. OnTheWay(r \o h, <<>>, f, s) = OnTheWay(r, h, f, s)
  BY <1>1, <1>2 DEF OnTheWay
<1> QED
  BY <1>3, <1>4, <1>5

(* A prompt leaves the FIFO and is held.                                    *)
LEMMA MoveHold ==
  ASSUME NEW r, NEW h, NEW f, NEW s, NEW g, NEW x \in Prompt, NEW gone,
         PromptsIn(h) = {},
         NumbersOf(f) = {x.n} \union NumbersOf(g),
         IdsOf(f) = {x.id} \union IdsOf(g),
         Sorted(f) => Sorted(g) /\ Below({x.n}, NumbersOf(g)),
         Once(f, gone) => Once(g, gone) /\ Apart({x.id}, IdsOf(g), gone)
  PROVE  /\ Lined(r, h, f, s) => Lined(r, <<x>>, g, s)
         /\ Single(r, h, f, s, gone) => Single(r, <<x>>, g, s, gone)
         /\ OnTheWay(r, <<x>>, g, s) = OnTheWay(r, h, f, s)
<1>1. /\ NumbersOf(<<x>>) = {x.n} /\ IdsOf(<<x>>) = {x.id}
      /\ Sorted(<<x>>) /\ Once(<<x>>, gone)
  BY Alone
<1>2. NumbersOf(h) = {} /\ IdsOf(h) = {}
  BY NoPrompts
<1>3. Lined(r, h, f, s) => Lined(r, <<x>>, g, s)
  BY <1>1, <1>2 DEF Lined, Below
<1>4. Single(r, h, f, s, gone) => Single(r, <<x>>, g, s, gone)
  BY <1>1, <1>2 DEF Single, Apart
<1>5. OnTheWay(r, <<x>>, g, s) = OnTheWay(r, h, f, s)
  BY <1>1, <1>2 DEF OnTheWay
<1> QED
  BY <1>3, <1>4, <1>5

(* The held prompt leaves.                                                  *)
LEMMA MoveDrop ==
  ASSUME NEW r \in Seq(Item), NEW h \in Seq(Item), NEW f \in Seq(Item), NEW s \in Seq(Item),
         NEW gone
  PROVE  /\ Lined(r, h, f, s) => Lined(r, <<>>, f, s)
         /\ Single(r, h, f, s, gone) => Single(r, <<>>, f, s, gone)
         /\ OnTheWay(r, h, f, s) = OnTheWay(r, <<>>, f, s) \union NumbersOf(h)
         /\ Lined(r, h, f, s) => OnTheWay(r, <<>>, f, s) \intersect NumbersOf(h) = {}
<1>1. NumbersOf(<<>>) = {} /\ IdsOf(<<>>) = {} /\ Sorted(<<>>) /\ Once(<<>>, gone)
  BY NoPrompts, NothingIn
<1>2. Lined(r, h, f, s) => Lined(r, <<>>, f, s)
  BY <1>1 DEF Lined, Below
<1>3. Single(r, h, f, s, gone) => Single(r, <<>>, f, s, gone)
  BY <1>1 DEF Single, Apart
<1>4. OnTheWay(r, h, f, s) = OnTheWay(r, <<>>, f, s) \union NumbersOf(h)
  BY <1>1 DEF OnTheWay
<1>5. ASSUME Lined(r, h, f, s)
      PROVE  OnTheWay(r, <<>>, f, s) \intersect NumbersOf(h) = {}
  <2>1. /\ NumbersOf(r) \subseteq Nat /\ NumbersOf(h) \subseteq Nat
        /\ NumbersOf(f) \subseteq Nat /\ NumbersOf(s) \subseteq Nat
    BY Ranges
  <2>2. /\ NumbersOf(r) \intersect NumbersOf(h) = {}
        /\ NumbersOf(h) \intersect NumbersOf(f) = {}
        /\ NumbersOf(h) \intersect NumbersOf(s) = {}
    BY <1>5, <2>1, BelowApart DEF Lined
  <2> QED
    BY <1>1, <2>2 DEF OnTheWay
<1> QED
  BY <1>2, <1>3, <1>4, <1>5

(* Some prompts leave the stash.                                            *)
LEMMA MoveFilter ==
  ASSUME NEW r \in Seq(Item), NEW h \in Seq(Item), NEW f \in Seq(Item), NEW s \in Seq(Item),
         NEW D \in SUBSET DOMAIN s, NEW t \in Filtered(s, D), NEW gone
  PROVE  LET d == {s[i].n : i \in PromptsIn(s) \ D} IN
         /\ t \in Seq(Item)
         /\ IdsOf(t) \subseteq IdsOf(s)
         /\ Lined(r, h, f, s) => Lined(r, h, f, t)
         /\ Single(r, h, f, s, gone) => Single(r, h, f, t, gone)
         /\ OnTheWay(r, h, f, s) = OnTheWay(r, h, f, t) \union d
         /\ Lined(r, h, f, s) => OnTheWay(r, h, f, t) \intersect d = {}
<1> DEFINE d == {s[i].n : i \in PromptsIn(s) \ D}
<1>1. /\ t \in Seq(Item)
      /\ NumbersOf(t) = {s[i].n : i \in D \intersect PromptsIn(s)}
      /\ IdsOf(t) = {s[i].id : i \in D \intersect PromptsIn(s)}
      /\ Sorted(s) => Sorted(t)
      /\ Once(s, gone) => Once(t, gone)
  BY Filter
<1>2. NumbersOf(t) \subseteq NumbersOf(s) /\ IdsOf(t) \subseteq IdsOf(s)
  BY <1>1 DEF NumbersOf, IdsOf
<1>3. NumbersOf(s) = NumbersOf(t) \union d /\ d \subseteq NumbersOf(s)
  BY <1>1 DEF NumbersOf
<1>4. Lined(r, h, f, s) => Lined(r, h, f, t)
  BY <1>1, <1>2 DEF Lined, Below
<1>5. Single(r, h, f, s, gone) => Single(r, h, f, t, gone)
  BY <1>1, <1>2 DEF Single, Apart
<1>6. OnTheWay(r, h, f, s) = OnTheWay(r, h, f, t) \union d
  BY <1>3 DEF OnTheWay
<1>7. ASSUME Lined(r, h, f, s)
      PROVE  OnTheWay(r, h, f, t) \intersect d = {}
  <2>1. /\ NumbersOf(r) \subseteq Nat /\ NumbersOf(h) \subseteq Nat
        /\ NumbersOf(f) \subseteq Nat /\ NumbersOf(s) \subseteq Nat
    BY Ranges
  <2>2. /\ NumbersOf(r) \intersect NumbersOf(s) = {}
        /\ NumbersOf(h) \intersect NumbersOf(s) = {}
        /\ NumbersOf(f) \intersect NumbersOf(s) = {}
    BY <1>7, <2>1, BelowApart DEF Lined
  <2>3. ASSUME NEW i \in D \intersect PromptsIn(s), NEW j \in PromptsIn(s) \ D
        PROVE  s[i].n # s[j].n
    <3>1. i \in Int /\ j \in Int /\ i # j
      BY <2>3 DEF PromptsIn
    <3>2. i < j \/ j < i
      BY <3>1
    <3>3. s[i].n \in Nat /\ s[j].n \in Nat
      BY <2>1, <2>3 DEF NumbersOf
    <3>4. s[i].n < s[j].n \/ s[j].n < s[i].n
      BY <1>7, <3>2 DEF Lined, Sorted
    <3> QED
      BY <3>3, <3>4
  <2>4. NumbersOf(t) \intersect d = {}
    BY <1>1, <2>3
  <2> QED
    BY <1>3, <2>2, <2>4 DEF OnTheWay
<1> QED
  BY <1>1, <1>2, <1>4, <1>5, <1>6, <1>7

(* A prompt with a fresh number and a fresh id enters the stash.            *)
LEMMA MoveAccept ==
  ASSUME NEW r, NEW h, NEW f, NEW s \in Seq(Item), NEW x \in Prompt, NEW gone
  PROVE  /\ s \o <<x>> \in Seq(Item)
         /\ IdsOf(s \o <<x>>) = IdsOf(s) \union {x.id}
         /\ Lined(r, h, f, s) /\ Below(OnTheWay(r, h, f, s), {x.n})
              => Lined(r, h, f, s \o <<x>>)
         /\ /\ Single(r, h, f, s, gone)
            /\ Apart(IdsOf(r) \union IdsOf(h) \union IdsOf(f) \union IdsOf(s), {x.id}, gone)
            => Single(r, h, f, s \o <<x>>, gone)
         /\ NumbersOf(s \o <<x>>) = NumbersOf(s) \union {x.n}
<1> DEFINE u == s \o <<x>>
<1>0. u \in Seq(Item)
  BY Items
<1>1. /\ NumbersOf(<<x>>) = {x.n} /\ IdsOf(<<x>>) = {x.id} /\ <<x>> \in Seq(Item)
      /\ Sorted(<<x>>) /\ Once(<<x>>, gone)
  BY Alone
<1>2. /\ NumbersOf(u) = NumbersOf(s) \union {x.n}
      /\ IdsOf(u) = IdsOf(s) \union {x.id}
      /\ Sorted(s) /\ Below(NumbersOf(s), {x.n}) => Sorted(u)
      /\ Once(s, gone) /\ Apart(IdsOf(s), {x.id}, gone) => Once(u, gone)
  BY <1>1, Concat
<1> HIDE DEF u
<1>3. Lined(r, h, f, s) /\ Below(OnTheWay(r, h, f, s), {x.n}) => Lined(r, h, f, u)
  BY <1>2 DEF Lined, Below, OnTheWay
<1>4. /\ Single(r, h, f, s, gone)
      /\ Apart(IdsOf(r) \union IdsOf(h) \union IdsOf(f) \union IdsOf(s), {x.id}, gone)
      => Single(r, h, f, u, gone)
  BY <1>2 DEF Single, Apart
<1> QED
  BY <1>0, <1>2, <1>3, <1>4 DEF u

(* A filter keeps what passes.                                              *)
LEMMA FilterKeeps ==
  ASSUME NEW S, NEW s \in Seq(S), NEW D \in SUBSET DOMAIN s, NEW t \in Filtered(s, D)
  PROVE  t \in Seq(S) /\ \A d \in D : \E i \in DOMAIN t : t[i] = s[d]
BY FilterAt

(* The end of a sequence holds what is not in the part before it.           *)
LEMMA LastPart ==
  ASSUME NEW S, NEW t \in Seq(S), NEW k \in Nat, k <= Len(t)
  PROVE  LET u == SubSeq(t, k + 1, Len(t)) IN
         /\ u \in Seq(S)
         /\ \A i \in DOMAIN t : i \in 1 .. k \/ \E j \in DOMAIN u : t[i] = u[j]
<1>0. PICK u : u = SubSeq(t, k + 1, Len(t))
  OBVIOUS
<1>1. PICK m, n : m = k + 1 /\ n = Len(t)
  OBVIOUS
<1>2. m \in Int /\ n \in Int /\ n \in Nat /\ DOMAIN t = 1 .. n /\ \A i \in m .. n : t[i] \in S
  BY <1>1
<1>3. /\ SubSeq(t, m, n) \in Seq(S)
      /\ Len(SubSeq(t, m, n)) = IF m <= n THEN n - m + 1 ELSE 0
      /\ \A i \in 1 .. n - m + 1 : SubSeq(t, m, n)[i] = t[m + i - 1]
  BY <1>2, SubSeqProperties
<1>4. /\ u \in Seq(S) /\ Len(u) = n - k
      /\ \A j \in 1 .. n - k : u[j] = t[k + j]
  <2>1. u = SubSeq(t, m, n) /\ n - m + 1 = n - k /\ (~(m <= n) => n - k = 0)
    BY <1>0, <1>1, <1>2
  <2>2. \A j \in 1 .. n - k : m + j - 1 = k + j
    BY <1>1
  <2> QED
    BY <1>3, <2>1, <2>2
<1>5. DOMAIN u = 1 .. n - k
  <2>1. DOMAIN u = 1 .. Len(u)
    BY <1>4
  <2> QED
    BY <1>4, <2>1
<1>6. ASSUME NEW i \in DOMAIN t, i \notin 1 .. k
      PROVE  \E j \in DOMAIN u : t[i] = u[j]
  <2>1. i - k \in 1 .. n - k /\ k + (i - k) = i
    BY <1>1, <1>2, <1>6
  <2>2. u[i - k] = t[i] /\ i - k \in DOMAIN u
    BY <1>4, <1>5, <2>1
  <2> QED
    BY <2>2
<1> QED
  BY <1>0, <1>4, <1>6

(* The window after ids were added at the end of the others.                *)
LEMMA NewWindow ==
  ASSUME NEW w \in Seq(Ids), NEW ids \in Seq(Ids), NEW D \in SUBSET DOMAIN w,
         \A i \in DOMAIN w : i \in D \/ \E j \in DOMAIN ids : w[i] = ids[j],
         NEW others \in Filtered(w, D)
  PROVE  LET t == others \o ids
             u == LastOf(t, RecentLimit)
             k == Len(t) - RecentLimit IN
         /\ u \in Seq(Ids)
         /\ \A i \in 1 .. k : t[i] \in Ids
         /\ \A i \in DOMAIN w :
              (\E j \in DOMAIN u : w[i] = u[j]) \/ \E j \in 1 .. k : w[i] = t[j]
         /\ \A i \in DOMAIN ids :
              (\E j \in DOMAIN u : ids[i] = u[j]) \/ \E j \in 1 .. k : ids[i] = t[j]
<1>0. PICK t, u, k : /\ t = others \o ids
                     /\ u = LastOf(t, RecentLimit)
                     /\ k = Len(t) - RecentLimit
  OBVIOUS
<1>1. others \in Seq(Ids)
  BY FilterKeeps, Zenon
<1>2. \A d \in D : \E i \in DOMAIN others : others[i] = w[d]
  BY FilterKeeps, Zenon
<1>3. t \in Seq(Ids) /\ Len(t) \in Nat /\ DOMAIN t = 1 .. Len(t)
  BY <1>0, <1>1
<1> DEFINE R == {t[i] : i \in DOMAIN t}
<1>4. /\ \A i \in DOMAIN others : others[i] \in R
      /\ \A i \in DOMAIN ids : ids[i] \in R
  <2>1. /\ \A i \in DOMAIN others : i \in DOMAIN t /\ t[i] = others[i]
        /\ \A j \in DOMAIN ids : Len(others) + j \in DOMAIN t /\ t[Len(others) + j] = ids[j]
    BY <1>0, <1>1, ConcatAt
  <2> QED
    BY <2>1
<1>5. \A i \in DOMAIN w : w[i] \in R
  <2> SUFFICES ASSUME NEW i \in DOMAIN w
               PROVE  w[i] \in R
    OBVIOUS
  <2> HIDE DEF R
  <2>1. CASE i \in D
    BY <1>2, <1>4, <2>1
  <2>2. CASE i \notin D
    BY <1>4, <2>2
  <2> QED
    BY <2>1, <2>2
<1>6. u \in Seq(Ids) /\ \A i \in DOMAIN t : i \in 1 .. k \/ \E j \in DOMAIN u : t[i] = u[j]
  <2>0. /\ u = IF Len(t) <= RecentLimit THEN t ELSE SubSeq(t, k + 1, Len(t))
        /\ k \in Int /\ RecentLimit \in Nat
    BY <1>0, <1>3, SessionMessagesConstants DEF LastOf
  <2>1. CASE Len(t) <= RecentLimit
    BY <1>3, <2>0, <2>1
  <2>2. CASE ~(Len(t) <= RecentLimit)
    <3>1. u = SubSeq(t, k + 1, Len(t)) /\ k \in Nat /\ k <= Len(t)
      BY <1>0, <1>3, <2>0, <2>2
    <3>2. t \in Seq(Ids) /\ k \in Nat /\ k <= Len(t)
      BY <1>3, <3>1
    <3>3. LET v == SubSeq(t, k + 1, Len(t)) IN
          /\ v \in Seq(Ids)
          /\ \A i \in DOMAIN t : i \in 1 .. k \/ \E j \in DOMAIN v : t[i] = v[j]
      BY ONLY <3>2, LastPart
    <3> QED
      BY <3>1, <3>3
  <2> QED
    BY <2>1, <2>2
<1>7. \A i \in 1 .. k : t[i] \in Ids
  <2>1. \A i \in 1 .. k : i \in DOMAIN t
    BY <1>0, <1>3, SessionMessagesConstants
  <2> QED
    BY <1>3, <2>1
<1>8. ASSUME NEW x \in R
      PROVE  (\E j \in DOMAIN u : x = u[j]) \/ \E j \in 1 .. k : x = t[j]
  BY <1>6, <1>8
<1> HIDE DEF R
<1>9. /\ \A i \in DOMAIN w :
           (\E j \in DOMAIN u : w[i] = u[j]) \/ \E j \in 1 .. k : w[i] = t[j]
      /\ \A i \in DOMAIN ids :
           (\E j \in DOMAIN u : ids[i] = u[j]) \/ \E j \in 1 .. k : ids[i] = t[j]
  BY <1>4, <1>5, <1>8
<1> QED
  BY <1>0, <1>6, <1>7, <1>9

(* The window holds the touched ids; what it held and does not hold any     *)
(* more is evicted (touchRecentClientMessageIds).                           *)
LEMMA Touching ==
  ASSUME recent \in Seq(Ids), evicted \subseteq Ids, NEW ids \in Seq(Ids), Touch(ids)
  PROVE  /\ recent' \in Seq(Ids)
         /\ evicted' \subseteq Ids /\ evicted \subseteq evicted'
         /\ Window \union evicted \subseteq Window' \union evicted'
         /\ {ids[i] : i \in DOMAIN ids} \subseteq Window' \union evicted'
<1>1. PICK w, u, old, gone : w = recent /\ u = recent' /\ old = evicted /\ gone = evicted'
  OBVIOUS
<1> DEFINE D == {i \in DOMAIN w : \A j \in DOMAIN ids : w[i] # ids[j]}
<1>2. PICK others \in Filtered(w, D) :
        /\ u = LastOf(others \o ids, RecentLimit)
        /\ gone = (old \union
             {(others \o ids)[i] : i \in 1 .. Len(others \o ids) - RecentLimit})
  BY <1>1 DEF Touch
<1>3. /\ D \in SUBSET DOMAIN w /\ w \in Seq(Ids)
      /\ \A i \in DOMAIN w : i \in D \/ \E j \in DOMAIN ids : w[i] = ids[j]
  BY <1>1
<1> HIDE DEF D
<1>4. PICK t, k : t = others \o ids /\ k = Len(t) - RecentLimit
  OBVIOUS
<1>5. u = LastOf(t, RecentLimit) /\ gone = old \union {t[i] : i \in 1 .. k}
  BY <1>2, <1>4
<1>6. /\ u \in Seq(Ids)
      /\ \A i \in 1 .. k : t[i] \in Ids
      /\ \A i \in DOMAIN w :
           (\E j \in DOMAIN u : w[i] = u[j]) \/ \E j \in 1 .. k : w[i] = t[j]
      /\ \A i \in DOMAIN ids :
           (\E j \in DOMAIN u : ids[i] = u[j]) \/ \E j \in 1 .. k : ids[i] = t[j]
  <2>1. LET s == others \o ids
            v == LastOf(s, RecentLimit)
            l == Len(s) - RecentLimit IN
        /\ v \in Seq(Ids)
        /\ \A i \in 1 .. l : s[i] \in Ids
        /\ \A i \in DOMAIN w :
             (\E j \in DOMAIN v : w[i] = v[j]) \/ \E j \in 1 .. l : w[i] = s[j]
        /\ \A i \in DOMAIN ids :
             (\E j \in DOMAIN v : ids[i] = v[j]) \/ \E j \in 1 .. l : ids[i] = s[j]
    BY <1>3, NewWindow
  <2> QED
    BY <1>4, <1>5, <2>1
<1>7. Window = {w[i] : i \in DOMAIN w} /\ Window' = {u[i] : i \in DOMAIN u}
  BY <1>1 DEF Window
<1> QED
  BY <1>1, <1>5, <1>6, <1>7

(* The ids of a sequence's prompts are touched.                             *)
LEMMA TouchingPrompts ==
  ASSUME recent \in Seq(Ids), evicted \subseteq Ids, NEW s \in Seq(Item), TouchPrompts(s)
  PROVE  /\ recent' \in Seq(Ids)
         /\ evicted' \subseteq Ids /\ evicted \subseteq evicted'
         /\ Window \union evicted \union IdsOf(s) \subseteq Window' \union evicted'
<1>1. PICK p \in Filtered(s, PromptsIn(s)) : Touch([i \in DOMAIN p |-> p[i].id])
  BY DEF TouchPrompts
<1>2. PromptsIn(s) \in SUBSET DOMAIN s
  BY DEF PromptsIn
<1>3. /\ p \in Seq(Item)
      /\ \E f \in [DOMAIN p -> PromptsIn(s)] :
            /\ \A i, j \in DOMAIN p : i < j => f[i] < f[j]
            /\ \A i \in DOMAIN p : p[i] = s[f[i]]
            /\ \A d \in PromptsIn(s) : \E i \in DOMAIN p : f[i] = d
  BY <1>2, FilterAt
<1>4. /\ \A i \in DOMAIN p : p[i] \in Prompt
      /\ \A d \in PromptsIn(s) : \E i \in DOMAIN p : p[i] = s[d]
  <2>1. \A d \in PromptsIn(s) : s[d] \in Prompt
    BY Items DEF PromptsIn
  <2> QED
    BY <1>3, <2>1
<1> DEFINE ids == [i \in DOMAIN p |-> p[i].id]
<1>5. ids \in Seq(Ids) /\ DOMAIN ids = DOMAIN p
  <2>1. \A i \in DOMAIN p : p[i].id \in Ids
    BY <1>4, Items
  <2>2. DOMAIN p = 1 .. Len(p) /\ Len(p) \in Nat
    BY <1>3
  <2> QED
    BY <2>1, <2>2
<1>6. \A i \in DOMAIN p : ids[i] = p[i].id
  OBVIOUS
<1> HIDE DEF ids
<1>7. IdsOf(s) \subseteq {ids[i] : i \in DOMAIN ids}
  BY <1>4, <1>5, <1>6 DEF IdsOf
<1>8. Touch(ids)
  BY <1>1 DEF ids
<1> QED
  BY <1>5, <1>7, <1>8, Touching

(* A sequence without its k-th item.                                        *)
LEMMA Without ==
  ASSUME NEW s \in Seq(Item), NEW k \in 1 .. Len(s)
  PROVE  LET t == SubSeq(s, 1, k - 1) \o SubSeq(s, k + 1, Len(s)) IN
         /\ t \in Seq(Item) /\ Len(t) = Len(s) - 1
         /\ \A i \in DOMAIN t : t[i] = IF i < k THEN s[i] ELSE s[i + 1]
<1>1. PICK n, l, m : n = Len(s) /\ l = k - 1 /\ m = k + 1
  OBVIOUS
<1>2. /\ n \in Nat /\ k \in 1 .. n /\ l \in Int /\ m \in Int /\ DOMAIN s = 1 .. n
      /\ \A i \in 1 .. l : s[i] \in Item
      /\ \A i \in m .. n : s[i] \in Item
  BY <1>1
<1>3. PICK a, b : a = SubSeq(s, 1, l) /\ b = SubSeq(s, m, n)
  OBVIOUS
<1>4. a \in Seq(Item) /\ Len(a) = k - 1 /\ \A i \in 1 .. k - 1 : a[i] = s[i]
  <2>1. /\ SubSeq(s, 1, l) \in Seq(Item)
        /\ Len(SubSeq(s, 1, l)) = IF 1 <= l THEN l - 1 + 1 ELSE 0
        /\ \A i \in 1 .. l - 1 + 1 : SubSeq(s, 1, l)[i] = s[1 + i - 1]
    BY <1>2, SubSeqProperties
  <2>2. l - 1 + 1 = k - 1 /\ (~(1 <= l) => k - 1 = 0) /\ \A i \in 1 .. k - 1 : 1 + i - 1 = i
    BY <1>1, <1>2
  <2> QED
    BY <1>3, <2>1, <2>2
<1>5. b \in Seq(Item) /\ Len(b) = n - k /\ \A i \in 1 .. n - k : b[i] = s[k + i]
  <2>1. /\ SubSeq(s, m, n) \in Seq(Item)
        /\ Len(SubSeq(s, m, n)) = IF m <= n THEN n - m + 1 ELSE 0
        /\ \A i \in 1 .. n - m + 1 : SubSeq(s, m, n)[i] = s[m + i - 1]
    BY <1>2, SubSeqProperties
  <2>2. n - m + 1 = n - k /\ (~(m <= n) => n - k = 0) /\ \A i \in 1 .. n - k : m + i - 1 = k + i
    BY <1>1, <1>2
  <2> QED
    BY <1>3, <2>1, <2>2
<1>6. PICK t : t = a \o b
  OBVIOUS
<1>7. t \in Seq(Item) /\ Len(t) = n - 1
  <2>0. a \in Seq(Item) /\ b \in Seq(Item)
    BY <1>4, <1>5
  <2>1. t \in Seq(Item) /\ Len(t) = Len(a) + Len(b)
    BY ONLY <1>6, <2>0, ConcatAt
  <2> QED
    BY <1>2, <1>4, <1>5, <2>1
<1>8. ASSUME NEW i \in DOMAIN t
      PROVE  t[i] = IF i < k THEN s[i] ELSE s[i + 1]
  <2>1. i \in 1 .. n - 1
    BY <1>7
  <2>2. CASE i < k
    <3>1. i \in DOMAIN a /\ i \in 1 .. k - 1
      BY <1>2, <1>4, <2>1, <2>2
    <3>2. t[i] = a[i]
      BY <1>4, <1>5, <1>6, <3>1, ConcatAt
    <3> QED
      BY <1>4, <2>2, <3>1, <3>2
  <2>3. CASE ~(i < k)
    <3>1. i - (k - 1) \in 1 .. n - k /\ (k - 1) + (i - (k - 1)) = i /\ k + (i - (k - 1)) = i + 1
      BY <1>2, <2>1, <2>3
    <3>2. PICK j : j = i - (k - 1)
      OBVIOUS
    <3>3. j \in DOMAIN b /\ Len(a) + j = i /\ j \in 1 .. n - k /\ k + j = i + 1
      BY <1>4, <1>5, <3>1, <3>2
    <3>4. a \in Seq(Item) /\ b \in Seq(Item)
      BY <1>4, <1>5
    <3>5. (a \o b)[Len(a) + j] = b[j]
      BY ONLY <3>3, <3>4, ConcatAt
    <3>6. t[Len(a) + j] = b[j]
      BY <1>6, <3>5
    <3> QED
      BY <1>5, <2>3, <3>3, <3>6
  <2> QED
    BY <2>2, <2>3
<1>9. t = SubSeq(s, 1, k - 1) \o SubSeq(s, k + 1, Len(s))
  BY <1>1, <1>3, <1>6
<1> QED
  BY <1>1, <1>7, <1>8, <1>9, Zenon

-----------------------------------------------------------------------------
(* What a message is.                                                       *)
LEMMA Messages ==
  ASSUME NEW q \in Seq(Message), q # <<>>
  PROVE  /\ Tail(q) \in Seq(Message)
         /\ Head(q).type \in {"prompt", "cancel"} => Head(q).id \in Ids
<1>1. Head(q) \in Message /\ Tail(q) \in Seq(Message)
  OBVIOUS
<1> QED
  BY <1>1 DEF Message

(* appendPromptStashToFifo keeps the types, and remembers what it appends.  *)
LEMMA Flushing ==
  ASSUME TypeOK, FlushStash
  PROVE  /\ fifo' = fifo \o stash /\ fifo' \in Seq(Item)
         /\ recent' \in Seq(Ids)
         /\ evicted' \subseteq Ids /\ evicted \subseteq evicted'
         /\ Window \union evicted \union IdsOf(stash) \subseteq Window' \union evicted'
<1>1. /\ recent \in Seq(Ids) /\ evicted \subseteq Ids /\ stash \in Seq(Item) /\ fifo \in Seq(Item)
      /\ TouchPrompts(stash) /\ fifo' = fifo \o stash
  BY DEF TypeOK, FlushStash
<1>2. fifo' \in Seq(Item)
  BY <1>1
<1> QED
  BY <1>1, <1>2, TouchingPrompts

(* The types of what an execution keeps in memory.                          *)
LEMMA FreshTypes ==
  ASSUME TypeOK, FreshExecution
  PROVE  /\ pc' = "loop" /\ loops' \in 0 .. MaxLoops /\ taken' \in 0 .. MaxDrain
         /\ stash' \in Seq(Item) /\ pending' \subseteq Ids
         /\ held' \in Seq(Prompt) /\ Len(held') <= 1
         /\ tomb' \subseteq Ids /\ turn' \in Seq(Prompt) /\ forgotten' \subseteq Ids
BY SessionMessagesConstants DEF TypeOK, FreshExecution

(* Clients.                                                                 *)
LEMMA TypeClient ==
  ASSUME TypeOK, Client
  PROVE  TypeOK'
<1>1. ASSUME NEW id \in Ids, SendMessage(id)
      PROVE  TypeOK'
  <2>1. [type |-> "prompt", id |-> id] \in Message
    BY DEF Message
  <2> QED
    BY <1>1, <2>1 DEF TypeOK, SendMessage, sessionVars, passVars, obsVars
<1>2. ASSUME NEW id \in Ids, CancelPendingMessage(id)
      PROVE  TypeOK'
  <2>1. [type |-> "cancel", id |-> id] \in Message
    BY DEF Message
  <2> QED
    BY <1>2, <2>1 DEF TypeOK, CancelPendingMessage, sessionVars, passVars, obsVars
<1>3. ASSUME NEW c \in Commands, SendCommand(c)
      PROVE  TypeOK'
  <2>1. [type |-> "cmd", cmd |-> c] \in Message
    BY DEF Message
  <2> QED
    BY <1>3, <2>1 DEF TypeOK, SendCommand, sessionVars, passVars, obsVars
<1> QED
  BY <1>1, <1>2, <1>3 DEF Client

(* Messages taken from the queue.                                           *)
LEMMA TypeTake ==
  ASSUME TypeOK, Take
  PROVE  TypeOK'
<1>1. ASSUME Taking
      PROVE  /\ Tail(inbox) \in Seq(Message)
             /\ Head(inbox).type \in {"prompt", "cancel"} => Head(inbox).id \in Ids
             /\ taken + 1 \in 0 .. MaxDrain
  <2>1. inbox \in Seq(Message) /\ inbox # <<>> /\ taken \in 0 .. MaxDrain /\ taken < MaxDrain
    BY <1>1 DEF Taking, TypeOK
  <2>2. taken + 1 \in 0 .. MaxDrain
    BY <2>1, SessionMessagesConstants
  <2> QED
    BY <2>1, <2>2, Messages
<1>2. CASE DropIncoming
  <2>1. Taking
    BY <1>2 DEF DropIncoming, TakingPrompt
  <2> QED
    BY <1>1, <1>2, <2>1 DEF DropIncoming, TakeMessage, TypeOK, clientVars, obsVars
<1>3. CASE SuppressDuplicate
  <2>1. Taking /\ Head(inbox).type = "prompt"
    BY <1>3 DEF SuppressDuplicate, TakingPrompt
  <2>2. recent' \in Seq(Ids) /\ evicted' \subseteq Ids
    <3>0. recent \in Seq(Ids) /\ evicted \subseteq Ids
      BY DEF TypeOK
    <3>1. CASE UNCHANGED <<recent, evicted>>
      BY <3>0, <3>1
    <3>2. CASE Touch(<<Head(inbox).id>>)
      <4>1. PICK id : id = Head(inbox).id
        OBVIOUS
      <4>2. <<id>> \in Seq(Ids) /\ Touch(<<id>>)
        BY <1>1, <2>1, <3>2, <4>1
      <4> QED
        BY <3>0, <4>2, Touching
    <3> QED
      BY <1>3, <3>1, <3>2 DEF SuppressDuplicate
  <2> QED
    BY <1>1, <1>3, <2>1, <2>2 DEF SuppressDuplicate, TakeMessage, TypeOK, clientVars
<1>4. CASE AcceptPrompt
  <2>1. Taking /\ Head(inbox).type = "prompt"
    BY <1>4 DEF AcceptPrompt, TakingPrompt
  <2>2. [id |-> Head(inbox).id, n |-> accepted + 1] \in Item /\ accepted + 1 \in Nat
    BY <1>1, <2>1 DEF TypeOK, Item, Prompt
  <2>3. stash' \in Seq(Item) /\ pending' \subseteq Ids /\ accepted' \in Nat
    BY <1>1, <1>4, <2>1, <2>2 DEF AcceptPrompt, TypeOK
  <2>4. timer' \in BOOLEAN
    BY <1>4, Zenon DEF AcceptPrompt, TypeOK
  <2> QED
    BY <1>1, <1>4, <2>1, <2>3, <2>4 DEF AcceptPrompt, TakeMessage, TypeOK, clientVars
<1>5. CASE TakeCancel
  <2>1. Taking /\ Head(inbox).type = "cancel"
    BY <1>5 DEF TakeCancel
  <2>2. stash' \in Seq(Item)
    <3>1. PICK s, t, id : s = stash /\ t = stash' /\ id = Head(inbox).id
      OBVIOUS
    <3>2. /\ s \in Seq(Item)
          /\ t \in Filtered(s, {i \in DOMAIN s : s[i].id # id})
      BY <1>5, <3>1 DEF TakeCancel, TypeOK
    <3>3. t \in Seq(Item)
      BY <3>2, FilterKeeps
    <3> QED
      BY <3>1, <3>3
  <2>3. dropped' \subseteq Nat
    <3>1. \A i \in DOMAIN stash : stash[i] \in Item
      BY DEF TypeOK
    <3>2. \A x \in Item : x.n \in Nat
      BY DEF Item, Prompt, Fired
    <3>3. dropped \subseteq Nat
      BY DEF TypeOK
    <3> QED
      BY <1>5, <3>1, <3>2, <3>3 DEF TakeCancel
  <2> QED
    BY <1>1, <1>5, <2>1, <2>2, <2>3 DEF TakeCancel, TakeMessage, TypeOK, clientVars
<1>6. CASE TakeQuery
  <2>1. Taking
    BY <1>6 DEF TakeQuery, TakingCommand
  <2>2. fifo' \in Seq(Item) /\ recent' \in Seq(Ids) /\ evicted' \subseteq Ids
    BY <1>6, Flushing DEF TakeQuery
  <2>3. pc' \in {pc, "advance", "dispatch"} /\ (pc' = "dispatch" => pc \in {"sweep", "dispatch"})
    BY <1>6, <2>1 DEF TakeQuery, AfterCommand, Taking
  <2>4. (pc' \in {"sweep", "dispatch"} => Len(held') = 1) /\ held' = held /\ regen' = regen
    BY <1>6, <2>3 DEF TakeQuery, TypeOK
  <2>5. pc' \in {"loop", "drain", "advance", "sweep", "dispatch", "merge", "turn", "ended"}
    BY <2>3 DEF TypeOK
  <2> QED
    BY <1>1, <1>6, <2>1, <2>2, <2>4, <2>5 DEF TakeQuery, TakeMessage, TypeOK, clientVars
<1>7. CASE TakeSetModel
  <2>1. Taking
    BY <1>7 DEF TakeSetModel, TakingCommand
  <2>2. fifo' \in Seq(Item) /\ recent' \in Seq(Ids) /\ evicted' \subseteq Ids
    BY <1>7, Flushing DEF TakeSetModel
  <2>3. FreshExecution
    BY <1>7 DEF TakeSetModel
  <2>4. swept' \subseteq Nat
    <3>1. held \in Seq(Item) /\ swept \subseteq Nat
      BY Items DEF TypeOK
    <3> QED
      BY <1>7, <3>1, Ranges DEF TakeSetModel
  <2>5. /\ pc' = "loop" /\ loops' \in 0 .. MaxLoops /\ taken' \in 0 .. MaxDrain
        /\ stash' \in Seq(Item) /\ pending' \subseteq Ids
        /\ held' \in Seq(Prompt) /\ Len(held') <= 1
        /\ tomb' \subseteq Ids /\ turn' \in Seq(Prompt) /\ forgotten' \subseteq Ids
    BY <2>3, FreshTypes
  <2>6. note' \in BOOLEAN /\ timer' \in BOOLEAN
    BY <1>7, Zenon DEF TakeSetModel
  <2>7. retryCount' \in 0 .. MaxRetries
    BY <1>7, SessionMessagesConstants DEF TakeSetModel
  <2> QED
    BY <1>1, <1>7, <2>1, <2>2, <2>4, <2>5, <2>6, <2>7 DEF TakeSetModel, TypeOK, clientVars
<1>8. CASE TakeRegenerate
  <2>1. Taking
    BY <1>8 DEF TakeRegenerate, TakingCommand
  <2>2. fifo' \in Seq(Item) /\ recent' \in Seq(Ids) /\ evicted' \subseteq Ids
    BY <1>8, Flushing DEF TakeRegenerate
  <2>3. pc' \in {pc, "advance", "dispatch"} /\ (pc' = "dispatch" => pc \in {"sweep", "dispatch"})
    BY <1>8, <2>1 DEF TakeRegenerate, AfterCommand, Taking
  <2> QED
    BY <1>1, <1>8, <2>1, <2>2, <2>3 DEF TakeRegenerate, TakeMessage, TypeOK, Stages, clientVars
<1>9. CASE TakeCancelRegen
  <2>1. Taking
    BY <1>9 DEF TakeCancelRegen, TakingCommand
  <2>2. fifo' \in Seq(Item) /\ recent' \in Seq(Ids) /\ evicted' \subseteq Ids
    BY <1>9, Flushing DEF TakeCancelRegen
  <2> QED
    BY <1>1, <1>9, <2>1, <2>2 DEF TakeCancelRegen, TakeMessage, TypeOK, Stages, clientVars
<1>10. CASE TakeDone
  <2>1. Taking
    BY <1>10 DEF TakeDone, TakingCommand
  <2>2. fifo' \in Seq(Item) /\ recent' \in Seq(Ids) /\ evicted' \subseteq Ids
    BY <1>10, Flushing DEF TakeDone
  <2> QED
    BY <1>1, <1>10, <2>1, <2>2 DEF TakeDone, TakeMessage, TypeOK, clientVars
<1> QED
  BY <1>2, <1>3, <1>4, <1>5, <1>6, <1>7, <1>8, <1>9, <1>10 DEF Take

(* The steps of the orchestration.                                          *)
LEMMA TypeStep ==
  ASSUME TypeOK, Step
  PROVE  TypeOK'
<1>1. CASE BeginIteration
  <2>1. loops' \in 0 .. MaxLoops /\ taken' \in 0 .. MaxDrain
    BY <1>1, SessionMessagesConstants DEF BeginIteration, TypeOK
  <2> QED
    BY <1>1, <2>1 DEF BeginIteration, TypeOK, clientVars, obsVars
<1>2. CASE ForcedContinueAsNew
  <2>1. /\ pc' = "loop" /\ loops' \in 0 .. MaxLoops /\ taken' \in 0 .. MaxDrain
        /\ stash' \in Seq(Item) /\ pending' \subseteq Ids
        /\ held' \in Seq(Prompt) /\ Len(held') <= 1
        /\ tomb' \subseteq Ids /\ turn' \in Seq(Prompt) /\ forgotten' \subseteq Ids
    BY <1>2, FreshTypes DEF ForcedContinueAsNew
  <2>2. note' \in BOOLEAN /\ timer' \in BOOLEAN /\ retryCount' \in 0 .. MaxRetries
    BY <1>2, SessionMessagesConstants DEF ForcedContinueAsNew, TypeOK
  <2> QED
    BY <1>2, <2>1, <2>2 DEF ForcedContinueAsNew, TypeOK, Stages, clientVars
<1>3. CASE TimerFires
  <2>1. stash' \in Seq(Item)
    BY <1>3, Items DEF TimerFires, TypeOK
  <2>2. taken' \in 0 .. MaxDrain
    BY <1>3, SessionMessagesConstants DEF TimerFires, Parked, TypeOK
  <2> QED
    BY <1>3, <2>1, <2>2 DEF TimerFires, TypeOK, clientVars, obsVars
<1>4. CASE EndDrain
  <2>1. fifo' \in Seq(Item) /\ recent' \in Seq(Ids) /\ evicted' \subseteq Ids
    BY <1>4, Flushing DEF EndDrain
  <2> QED
    BY <1>4, <2>1 DEF EndDrain, TypeOK, clientVars
<1>5. CASE EndSweep
  <2>1. fifo' \in Seq(Item) /\ recent' \in Seq(Ids) /\ evicted' \subseteq Ids
    BY <1>5, Flushing DEF EndSweep
  <2> QED
    BY <1>5, <2>1 DEF EndSweep, TypeOK, clientVars
<1>6. CASE RegenStage
  <2>1. regen' \in Stages
    BY <1>6 DEF RegenStage, NextStages, Stages
  <2> QED
    BY <1>6, <2>1 DEF RegenStage, TypeOK, clientVars, passVars, obsVars
<1>7. CASE RegenFlip
  <2>1. /\ pc' = "loop" /\ loops' \in 0 .. MaxLoops /\ taken' \in 0 .. MaxDrain
        /\ stash' \in Seq(Item) /\ pending' \subseteq Ids
        /\ held' \in Seq(Prompt) /\ Len(held') <= 1
        /\ tomb' \subseteq Ids /\ turn' \in Seq(Prompt) /\ forgotten' \subseteq Ids
    BY <1>7, FreshTypes DEF RegenFlip
  <2>2. note' \in BOOLEAN /\ timer' \in BOOLEAN
    BY <1>7, Zenon DEF RegenFlip
  <2>3. retryCount' \in 0 .. MaxRetries
    BY <1>7, SessionMessagesConstants DEF RegenFlip
  <2> QED
    BY <1>7, <2>1, <2>2, <2>3 DEF RegenFlip, TypeOK, Stages, clientVars
<1>8. CASE DecideCarried
  <2>1. note' \in BOOLEAN
    BY <1>8, Zenon DEF DecideCarried
  <2>2. turn' \in Seq(Prompt) /\ carried' \in Seq(Prompt)
    BY <1>8 DEF DecideCarried, TypeOK
  <2> QED
    BY <1>8, <2>1, <2>2 DEF DecideCarried, TypeOK, clientVars, passVars, obsVars
<1>9. CASE DecidePrompt
  <2>1. PICK k \in DOMAIN fifo :
          /\ IsPrompt(fifo[k])
          /\ held' = <<fifo[k]>>
          /\ fifo' = SubSeq(fifo, 1, k - 1) \o SubSeq(fifo, k + 1, Len(fifo))
    BY <1>9 DEF DecidePrompt
  <2>2. fifo \in Seq(Item) /\ k \in 1 .. Len(fifo)
    BY DEF TypeOK
  <2>3. held' \in Seq(Prompt) /\ Len(held') = 1
    <3>1. fifo[k] \in Prompt
      BY <2>1, <2>2, Items
    <3> QED
      BY <2>1, <3>1
  <2>4. fifo' \in Seq(Item)
    <3>1. PICK f : f = fifo
      OBVIOUS
    <3>2. f \in Seq(Item) /\ k \in 1 .. Len(f)
      BY <2>2, <3>1
    <3>3. SubSeq(f, 1, k - 1) \o SubSeq(f, k + 1, Len(f)) \in Seq(Item)
      BY ONLY <3>2, Without
    <3> QED
      BY <2>1, <3>1, <3>3
  <2> QED
    <3>1. /\ pc' = "sweep" /\ taken' = 0 /\ pending' = {}
          /\ UNCHANGED <<inbox, clientVars, recent, carried, note, timer, regen, retryCount, loops,
                         stash, tomb, turn, obsVars>>
      BY <1>9 DEF DecidePrompt
    <3>2. taken' \in 0 .. MaxDrain
      BY <3>1, SessionMessagesConstants
    <3> QED
      BY <2>3, <2>4, <3>1, <3>2 DEF TypeOK, clientVars, obsVars
<1>10. CASE DecideTimer
  <2>1. fifo' \in Seq(Item) /\ timer' \in BOOLEAN /\ pc' \in {"turn", "loop"}
    BY <1>10 DEF DecideTimer, TypeOK
  <2> QED
    BY <1>10, <2>1 DEF DecideTimer, TypeOK, clientVars, passVars, obsVars
<1>11. CASE DecideNothing
  <2>1. CASE timer
    BY <1>11, <2>1 DEF DecideNothing, TypeOK, clientVars, passVars
  <2>2. CASE ~timer
    <3>1. /\ pc' = "loop" /\ loops' \in 0 .. MaxLoops /\ taken' \in 0 .. MaxDrain
          /\ stash' \in Seq(Item) /\ pending' \subseteq Ids
          /\ held' \in Seq(Prompt) /\ Len(held') <= 1
          /\ tomb' \subseteq Ids /\ turn' \in Seq(Prompt) /\ forgotten' \subseteq Ids
      BY <1>11, <2>2, FreshTypes DEF DecideNothing
    <3>2. retryCount' \in 0 .. MaxRetries
      BY <1>11, <2>2, SessionMessagesConstants DEF DecideNothing
    <3> QED
      BY <1>11, <2>2, <3>1, <3>2 DEF DecideNothing, TypeOK, clientVars
  <2> QED
    BY <2>1, <2>2
<1>12. CASE DropHeld
  <2>1. dropped' \subseteq Nat
    <3>1. held \in Seq(Item) /\ dropped \subseteq Nat
      BY Items DEF TypeOK
    <3> QED
      BY <1>12, <3>1, Ranges DEF DropHeld
  <2>2. held' \in Seq(Prompt) /\ Len(held') <= 1
    BY <1>12 DEF DropHeld
  <2> QED
    BY <1>12, <2>1, <2>2 DEF DropHeld, TypeOK, clientVars, passVars
<1>13. CASE Dispatch
  <2>1. turn' \in Seq(Prompt) /\ ran' \in Seq(Prompt) /\ held' \in Seq(Prompt) /\ Len(held') <= 1
    BY <1>13 DEF Dispatch, Join, TypeOK
  <2>2. ranSeen' \subseteq Ids
    BY <1>13 DEF Dispatch, Join, TypeOK
  <2> QED
    BY <1>13, <2>1, <2>2 DEF Dispatch, TypeOK, clientVars, passVars
<1>14. CASE MergeDrops
  <2>1. fifo' \in Seq(Item) /\ Head(fifo) \in Item
    BY <1>14 DEF MergeDrops, TypeOK
  <2>2. Head(fifo).n \in Nat
    BY <2>1 DEF Item, Prompt, Fired
  <2>3. dropped' \subseteq Nat
    BY <1>14, <2>2 DEF MergeDrops, TypeOK
  <2> QED
    BY <1>14, <2>1, <2>3 DEF MergeDrops, TypeOK, clientVars, passVars
<1>15. CASE MergeJoins
  <2>1. fifo' \in Seq(Item) /\ Head(fifo) \in Prompt
    BY <1>15, Items DEF MergeJoins, Joins, TypeOK
  <2>2. turn' \in Seq(Prompt) /\ ran' \in Seq(Prompt)
    BY <1>15, <2>1 DEF MergeJoins, Join, TypeOK
  <2>3. ranSeen' \subseteq Ids
    BY <1>15 DEF MergeJoins, Join, TypeOK
  <2> QED
    BY <1>15, <2>1, <2>2, <2>3 DEF MergeJoins, TypeOK, clientVars, passVars
<1>16. CASE MergeEnds
  BY <1>16 DEF MergeEnds, TypeOK, clientVars, passVars, obsVars
<1>17. CASE TurnCompletes
  <2>1. timer' \in BOOLEAN /\ note' \in BOOLEAN
    BY <1>17 DEF TurnCompletes, TypeOK
  <2> QED
    BY <1>17, <2>1, SessionMessagesConstants
    DEF TurnCompletes, TypeOK, clientVars, passVars, obsVars
<1>18. CASE TurnForcesContinue
  <2>1. /\ pc' = "loop" /\ loops' \in 0 .. MaxLoops /\ taken' \in 0 .. MaxDrain
        /\ stash' \in Seq(Item) /\ pending' \subseteq Ids
        /\ held' \in Seq(Prompt) /\ Len(held') <= 1
        /\ tomb' \subseteq Ids /\ turn' \in Seq(Prompt) /\ forgotten' \subseteq Ids
    BY <1>18, FreshTypes DEF TurnForcesContinue
  <2>2. note' \in BOOLEAN /\ timer' \in BOOLEAN /\ retryCount' \in 0 .. MaxRetries
    BY <1>18, SessionMessagesConstants DEF TurnForcesContinue, TypeOK
  <2> QED
    BY <1>18, <2>1, <2>2 DEF TurnForcesContinue, TypeOK, Stages, clientVars
<1>19. CASE TurnRetries \/ TurnHandsOff
  <2>1. CarryTurn
    BY <1>19 DEF TurnRetries, TurnHandsOff
  <2>2. retryCount' \in 0 .. MaxRetries
    BY <1>19, SessionMessagesConstants DEF TurnRetries, TurnHandsOff, TypeOK
  <2>3. carried' \in Seq(Prompt) /\ note' \in BOOLEAN /\ timer' \in BOOLEAN
    BY <2>1 DEF CarryTurn, TypeOK
  <2>4. FreshExecution
    BY <2>1 DEF CarryTurn
  <2> QED
    BY <2>1, <2>2, <2>3, <2>4, FreshTypes DEF CarryTurn, TypeOK, clientVars
<1>20. CASE TurnGivesUp
  BY <1>20, SessionMessagesConstants DEF TurnGivesUp, TypeOK, clientVars, passVars, obsVars
<1>21. CASE TurnFatal
  BY <1>21 DEF TurnFatal, TypeOK, clientVars, passVars, obsVars
<1> QED
  BY <1>1, <1>2, <1>3, <1>4, <1>5, <1>6, <1>7, <1>8, <1>9, <1>10, <1>11, <1>12, <1>13, <1>14,
     <1>15, <1>16, <1>17, <1>18, <1>19, <1>20, <1>21 DEF Step

(* Every step keeps the types.                                              *)
LEMMA TypeNext ==
  ASSUME TypeOK, [Next]_vars
  PROVE  TypeOK'
<1>1. CASE UNCHANGED vars
  BY <1>1 DEF vars, clientVars, passVars, obsVars, TypeOK
<1> QED
  BY <1>1, TypeClient, TypeTake, TypeStep DEF Next

-----------------------------------------------------------------------------
(* Only a pass has a stash, and only decide holds a prompt: every step.     *)
LEMMA PlacesNext ==
  ASSUME Places, [Next]_vars
  PROVE  Places'
<1>1. CASE UNCHANGED vars
  BY <1>1 DEF vars, passVars, Places
<1>2. CASE Client
  BY <1>2 DEF Client, SendMessage, CancelPendingMessage, SendCommand, sessionVars, passVars, Places
<1>3. CASE Take
  <2>1. pc \in {"drain", "sweep"}
    BY <1>3
    DEF Take, DropIncoming, SuppressDuplicate, AcceptPrompt, TakeCancel, TakeQuery, TakeSetModel,
        TakeRegenerate, TakeCancelRegen, TakeDone, TakingPrompt, TakingCommand, Taking
  <2>2. CASE DropIncoming \/ SuppressDuplicate \/ AcceptPrompt \/ TakeCancel
    BY <2>1, <2>2 DEF DropIncoming, SuppressDuplicate, AcceptPrompt, TakeCancel, Places
  <2>3. CASE TakeQuery \/ TakeRegenerate \/ TakeCancelRegen \/ TakeDone
    BY <2>1, <2>3 DEF TakeQuery, TakeRegenerate, TakeCancelRegen, TakeDone, AfterCommand, Places
  <2>4. CASE TakeSetModel
    BY <2>4 DEF TakeSetModel, FreshExecution, Places
  <2> QED
    BY <1>3, <2>2, <2>3, <2>4 DEF Take
<1>4. CASE Step
  <2>1. CASE ForcedContinueAsNew \/ RegenFlip \/ TurnForcesContinue \/ TurnRetries \/ TurnHandsOff
    BY <2>1
    DEF ForcedContinueAsNew, RegenFlip, TurnForcesContinue, TurnRetries, TurnHandsOff, CarryTurn,
        FreshExecution, Places
  <2>2. CASE BeginIteration \/ TimerFires \/ EndDrain \/ EndSweep \/ RegenStage
    BY <2>2
    DEF BeginIteration, TimerFires, Parked, EndDrain, EndSweep, RegenStage, passVars, Places
  <2>3. CASE DecideCarried \/ DecidePrompt \/ DecideTimer
    BY <2>3 DEF DecideCarried, DecidePrompt, DecideTimer, passVars, Places
  <2>4. CASE DecideNothing
    BY <2>4 DEF DecideNothing, FreshExecution, passVars, Places
  <2>5. CASE DropHeld \/ Dispatch \/ MergeDrops \/ MergeJoins \/ MergeEnds
    BY <2>5 DEF DropHeld, Dispatch, MergeDrops, MergeJoins, MergeEnds, passVars, Places
  <2>6. CASE TurnCompletes \/ TurnGivesUp \/ TurnFatal
    BY <2>6 DEF TurnCompletes, TurnGivesUp, TurnFatal, passVars, Places
  <2> QED
    BY <1>4, <2>1, <2>2, <2>3, <2>4, <2>5, <2>6 DEF Step
<1> QED
  BY <1>1, <1>2, <1>3, <1>4 DEF Next

Rest == InLine /\ Accounted /\ Remembered /\ OnlyOnce

lineVars == <<ran, held, fifo, stash, dropped, swept, accepted, recent, evicted>>

(* Steps that move no prompt.                                               *)
LEMMA RestUnchanged ==
  ASSUME Rest, UNCHANGED <<lineVars, pending>>
  PROVE  Rest'
BY DEF Rest, InLine, Accounted, Remembered, OnlyOnce, Window, lineVars

(* Steps that move no prompt while no pass is under way.                    *)
LEMMA RestQuiet ==
  ASSUME Rest, stash = <<>>, UNCHANGED lineVars
  PROVE  Rest'
<1>1. IdsOf(<<>>) = {}
  BY NoPrompts, NothingIn
<1>2. IdsOf(stash') = {}
  BY <1>1 DEF lineVars
<1> QED
  BY <1>2 DEF Rest, InLine, Accounted, Remembered, OnlyOnce, Window, lineVars

(* Numbers leave the way.                                                   *)
LEMMA SplitLeave ==
  ASSUME NEW old, NEW new, NEW x, NEW d, NEW w, NEW n, Split(old, d, w, n),
         old = new \union x, new \intersect x = {}
  PROVE  Split(new, d \union x, w, n) /\ Split(new, d, w \union x, n)
BY DEF Split

(* A number enters the way.                                                 *)
LEMMA SplitEnter ==
  ASSUME NEW old, NEW d, NEW w, NEW n \in Nat, Split(old, d, w, n)
  PROVE  /\ Split(old \union {n + 1}, d, w, n + 1)
         /\ \A m \in old : m < n + 1
<1>1. 1 .. n + 1 = (1 .. n) \union {n + 1} /\ n + 1 \notin 1 .. n
  OBVIOUS
<1>2. old \subseteq 1 .. n /\ d \subseteq 1 .. n /\ w \subseteq 1 .. n
  BY DEF Split
<1>3. Split(old \union {n + 1}, d, w, n + 1)
  <2>1. (old \union {n + 1}) \union d \union w = 1 .. n + 1
    BY <1>1 DEF Split
  <2>2. n + 1 \notin d /\ n + 1 \notin w
    BY <1>1, <1>2
  <2> QED
    BY <2>1, <2>2 DEF Split
<1>4. \A m \in old : m < n + 1
  BY <1>2
<1> QED
  BY <1>3, <1>4

(* The stash is appended to the FIFO.                                       *)
LEMMA RestFlush ==
  ASSUME TypeOK, Rest, FlushStash, stash' = <<>>,
         UNCHANGED <<ran, held, dropped, swept, accepted>>
  PROVE  Rest'
<1>1. /\ fifo' = fifo \o stash
      /\ evicted \subseteq evicted'
      /\ Window \union evicted \union IdsOf(stash) \subseteq Window' \union evicted'
  BY Flushing
<1>2. fifo \in Seq(Item) /\ stash \in Seq(Item)
  BY DEF TypeOK
<1>3. /\ Lined(ran, held, fifo, stash) => Lined(ran, held, fifo \o stash, stash')
      /\ Single(ran, held, fifo, stash, evicted)
           => Single(ran, held, fifo \o stash, stash', evicted')
      /\ OnTheWay(ran, held, fifo \o stash, stash') = OnTheWay(ran, held, fifo, stash)
  BY <1>1, <1>2, MoveFlush
<1>4. InLine' /\ Accounted' /\ OnlyOnce'
  BY <1>1, <1>3 DEF Rest, InLine, Accounted, OnlyOnce
<1>5. IdsOf(fifo') = IdsOf(fifo) \union IdsOf(stash)
  BY <1>1, <1>2, Concat
<1>6. IdsOf(stash') = {}
  BY NoPrompts, NothingIn
<1>7. IdsOf(ran)' = IdsOf(ran) /\ IdsOf(held)' = IdsOf(held)
  OBVIOUS
<1>8. Remembered'
  BY <1>1, <1>5, <1>6, <1>7 DEF Rest, Remembered
<1> QED
  BY <1>4, <1>8 DEF Rest

(* The places of a prompt hold items.                                       *)
LEMMA LineTypes ==
  ASSUME TypeOK
  PROVE  /\ ran \in Seq(Item) /\ held \in Seq(Item) /\ fifo \in Seq(Item) /\ stash \in Seq(Item)
         /\ accepted \in Nat
<1>1. ran \in Seq(Item) /\ held \in Seq(Item)
  BY Items DEF TypeOK
<1> QED
  BY <1>1 DEF TypeOK

(* A prompt is accepted: its number is new, and its id is neither in the    *)
(* duplicate window nor pending (queue.ts, drain and sweep).                *)
LEMMA RestAccept ==
  ASSUME TypeOK, Rest, AcceptPrompt
  PROVE  Rest'
<1>1. PICK id, n, x : id = Head(inbox).id /\ n = accepted /\ x = [id |-> id, n |-> n + 1]
  OBVIOUS
<1>2. /\ ran \in Seq(Item) /\ held \in Seq(Item) /\ fifo \in Seq(Item) /\ stash \in Seq(Item)
      /\ n \in Nat
  BY <1>1, LineTypes
<1>3. x \in Prompt /\ x.n = n + 1 /\ x.id = id
  <2>1. id \in Ids
    <3>1. inbox \in Seq(Message) /\ inbox # <<>> /\ Head(inbox).type = "prompt"
      BY DEF AcceptPrompt, TakingPrompt, Taking, TypeOK
    <3> QED
      BY <1>1, <3>1, Messages
  <2> QED
    BY <1>1, <1>2, <2>1 DEF Prompt
<1>4. /\ stash' = stash \o <<x>> /\ pending' = pending \union {id} /\ accepted' = n + 1
      /\ id \notin Window \union pending
      /\ UNCHANGED <<ran, held, fifo, dropped, swept, recent, evicted>>
  <2>1. Append(stash, x) = stash \o <<x>>
    BY <1>2, <1>3, Items, AppendIsConcat
  <2> QED
    BY <1>1, <2>1 DEF AcceptPrompt, Duplicate, Window
<1> DEFINE all == IdsOf(ran) \union IdsOf(held) \union IdsOf(fifo) \union IdsOf(stash)
<1>5. /\ IdsOf(stash \o <<x>>) = IdsOf(stash) \union {x.id}
      /\ Lined(ran, held, fifo, stash) /\ Below(OnTheWay(ran, held, fifo, stash), {x.n})
           => Lined(ran, held, fifo, stash \o <<x>>)
      /\ Single(ran, held, fifo, stash, evicted) /\ Apart(all, {x.id}, evicted)
           => Single(ran, held, fifo, stash \o <<x>>, evicted)
      /\ OnTheWay(ran, held, fifo, stash \o <<x>>)
           = OnTheWay(ran, held, fifo, stash) \union {x.n}
  <2>1. PICK r, h, f, s, gone :
          r = ran /\ h = held /\ f = fifo /\ s = stash /\ gone = evicted
    OBVIOUS
  <2>2. s \in Seq(Item) /\ x \in Prompt
    BY <1>2, <1>3, <2>1
  <2>3. IdsOf(s \o <<x>>) = IdsOf(s) \union {x.id}
    BY ONLY <2>2, MoveAccept
  <2>4. Lined(r, h, f, s) /\ Below(OnTheWay(r, h, f, s), {x.n}) => Lined(r, h, f, s \o <<x>>)
    BY ONLY <2>2, MoveAccept
  <2>5. /\ Single(r, h, f, s, gone)
        /\ Apart(IdsOf(r) \union IdsOf(h) \union IdsOf(f) \union IdsOf(s), {x.id}, gone)
        => Single(r, h, f, s \o <<x>>, gone)
    BY ONLY <2>2, MoveAccept
  <2>6. NumbersOf(s \o <<x>>) = NumbersOf(s) \union {x.n}
    BY ONLY <2>2, MoveAccept
  <2> QED
    BY <2>1, <2>3, <2>4, <2>5, <2>6 DEF OnTheWay
<1>6. Apart(all, {x.id}, evicted)
  BY <1>4, <1>3 DEF Rest, Remembered, Apart
<1>7. /\ Split(OnTheWay(ran, held, fifo, stash) \union {n + 1}, dropped, swept, n + 1)
      /\ Below(OnTheWay(ran, held, fifo, stash), {n + 1})
  BY <1>1, <1>2, SplitEnter DEF Rest, Accounted, Below
<1> HIDE DEF all
<1>8. InLine' /\ Accounted' /\ OnlyOnce'
  BY <1>4, <1>3, <1>5, <1>6, <1>7 DEF Rest, InLine, Accounted, OnlyOnce
<1>9. Remembered'
  BY <1>4, <1>3, <1>5 DEF Rest, Remembered, Window
<1> QED
  BY <1>8, <1>9 DEF Rest

(* A tombstone takes prompts out of the stash.                              *)
LEMMA RestCancel ==
  ASSUME TypeOK, Rest, TakeCancel
  PROVE  Rest'
<1>1. PICK id, s, t, D, d :
        /\ id = Head(inbox).id /\ s = stash /\ t = stash'
        /\ D = {i \in DOMAIN s : s[i].id # id}
        /\ d = {s[i].n : i \in {k \in DOMAIN s : s[k].id = id}}
  OBVIOUS
<1>2. /\ t \in Filtered(s, D) /\ dropped' = dropped \union d
      /\ UNCHANGED <<ran, held, fifo, swept, accepted, recent, evicted, pending>>
  BY <1>1 DEF TakeCancel
<1>3. ran \in Seq(Item) /\ held \in Seq(Item) /\ fifo \in Seq(Item) /\ s \in Seq(Item)
  BY <1>1, Items DEF TypeOK
<1>4. id \in Ids
  <2>1. inbox \in Seq(Message) /\ inbox # <<>> /\ Head(inbox).type = "cancel"
    BY DEF TakeCancel, Taking, TypeOK
  <2> QED
    BY <1>1, <2>1, Messages
<1>5. D \in SUBSET DOMAIN s /\ d = {s[i].n : i \in PromptsIn(s) \ D}
  BY <1>1, <1>4 DEF PromptsIn, IsPrompt
<1>6. /\ IdsOf(t) \subseteq IdsOf(s)
      /\ Lined(ran, held, fifo, s) => Lined(ran, held, fifo, t)
      /\ Single(ran, held, fifo, s, evicted) => Single(ran, held, fifo, t, evicted)
      /\ OnTheWay(ran, held, fifo, s) = OnTheWay(ran, held, fifo, t) \union d
      /\ Lined(ran, held, fifo, s) => OnTheWay(ran, held, fifo, t) \intersect d = {}
  <2>1. LET e == {s[i].n : i \in PromptsIn(s) \ D} IN
        /\ IdsOf(t) \subseteq IdsOf(s)
        /\ Lined(ran, held, fifo, s) => Lined(ran, held, fifo, t)
        /\ Single(ran, held, fifo, s, evicted) => Single(ran, held, fifo, t, evicted)
        /\ OnTheWay(ran, held, fifo, s) = OnTheWay(ran, held, fifo, t) \union e
        /\ Lined(ran, held, fifo, s) => OnTheWay(ran, held, fifo, t) \intersect e = {}
    BY ONLY <1>2, <1>3, <1>5, MoveFilter
  <2> QED
    BY <1>5, <2>1
<1>7. Split(OnTheWay(ran, held, fifo, t), dropped \union d, swept, accepted)
  BY <1>1, <1>6, SplitLeave DEF Rest, Accounted, InLine
<1>8. InLine' /\ Accounted' /\ OnlyOnce'
  BY <1>1, <1>2, <1>6, <1>7 DEF Rest, InLine, Accounted, OnlyOnce
<1>9. Remembered'
  BY <1>1, <1>2, <1>6 DEF Rest, Remembered, Window
<1> QED
  BY <1>8, <1>9 DEF Rest

(* A model switch appends the stash and loses the held prompt.              *)
LEMMA RestSetModel ==
  ASSUME TypeOK, Rest, TakeSetModel
  PROVE  Rest'
<1>1. /\ fifo' = fifo \o stash /\ fifo' \in Seq(Item)
      /\ evicted \subseteq evicted'
      /\ Window \union evicted \union IdsOf(stash) \subseteq Window' \union evicted'
  BY Flushing DEF TakeSetModel
<1>2. /\ stash' = <<>> /\ held' = <<>> /\ swept' = swept \union NumbersOf(held)
      /\ UNCHANGED <<ran, dropped, accepted>>
  BY DEF TakeSetModel, FreshExecution
<1>3. ran \in Seq(Item) /\ held \in Seq(Item) /\ fifo \in Seq(Item) /\ stash \in Seq(Item)
  BY Items DEF TypeOK
<1>4. /\ Lined(ran, held, fifo, stash) => Lined(ran, held, fifo \o stash, stash')
      /\ Single(ran, held, fifo, stash, evicted)
           => Single(ran, held, fifo \o stash, stash', evicted')
      /\ OnTheWay(ran, held, fifo \o stash, stash') = OnTheWay(ran, held, fifo, stash)
  BY <1>1, <1>2, <1>3, MoveFlush
<1>5. stash' \in Seq(Item)
  BY <1>2, NothingIn
<1>6. /\ Lined(ran, held, fifo', stash') => Lined(ran, held', fifo', stash')
      /\ Single(ran, held, fifo', stash', evicted') => Single(ran, held', fifo', stash', evicted')
      /\ OnTheWay(ran, held, fifo', stash')
           = OnTheWay(ran, held', fifo', stash') \union NumbersOf(held)
      /\ Lined(ran, held, fifo', stash')
           => OnTheWay(ran, held', fifo', stash') \intersect NumbersOf(held) = {}
  <2>1. PICK r, h, f, s : r = ran /\ h = held /\ f = fifo' /\ s = stash'
    OBVIOUS
  <2>2. r \in Seq(Item) /\ h \in Seq(Item) /\ f \in Seq(Item) /\ s \in Seq(Item)
    BY <1>1, <1>3, <1>5, <2>1
  <2>3. \A gone :
          /\ Lined(r, h, f, s) => Lined(r, <<>>, f, s)
          /\ Single(r, h, f, s, gone) => Single(r, <<>>, f, s, gone)
          /\ OnTheWay(r, h, f, s) = OnTheWay(r, <<>>, f, s) \union NumbersOf(h)
          /\ Lined(r, h, f, s) => OnTheWay(r, <<>>, f, s) \intersect NumbersOf(h) = {}
    BY ONLY <2>2, MoveDrop
  <2> QED
    BY <1>2, <2>1, <2>3
<1>7. Split(OnTheWay(ran, held', fifo', stash'), dropped, swept \union NumbersOf(held), accepted)
  <2>1. Split(OnTheWay(ran, held, fifo', stash'), dropped, swept, accepted)
    BY <1>1, <1>4 DEF Rest, Accounted
  <2>2. Lined(ran, held, fifo', stash')
    BY <1>1, <1>4 DEF Rest, InLine
  <2> QED
    BY <1>6, <2>1, <2>2, SplitLeave
<1>8. InLine' /\ Accounted' /\ OnlyOnce'
  BY <1>1, <1>2, <1>4, <1>6, <1>7 DEF Rest, InLine, Accounted, OnlyOnce
<1>9. IdsOf(fifo') = IdsOf(fifo) \union IdsOf(stash) /\ IdsOf(stash') = {} /\ IdsOf(held') = {}
  BY <1>1, <1>2, <1>3, Concat, NoPrompts, NothingIn
<1>10. IdsOf(ran)' = IdsOf(ran)
  BY <1>2
<1>11. Remembered'
  BY <1>1, <1>9, <1>10 DEF Rest, Remembered
<1> QED
  BY <1>8, <1>11 DEF Rest

(* decide takes the oldest prompt off the FIFO.                             *)
LEMMA RestDecide ==
  ASSUME TypeOK, Places, Rest, DecidePrompt
  PROVE  Rest'
<1>1. PICK f : f = fifo
  OBVIOUS
<1>2. PICK k \in DOMAIN f :
        /\ IsPrompt(f[k]) /\ \A j \in 1 .. k - 1 : ~IsPrompt(f[j])
        /\ held' = <<f[k]>>
        /\ fifo' = SubSeq(f, 1, k - 1) \o SubSeq(f, k + 1, Len(f))
  BY <1>1 DEF DecidePrompt
<1>3. PICK x, g : x = f[k] /\ g = SubSeq(f, 1, k - 1) \o SubSeq(f, k + 1, Len(f))
  OBVIOUS
<1>4. f \in Seq(Item) /\ k \in 1 .. Len(f) /\ x \in Prompt
  <2>1. f \in Seq(Item)
    BY <1>1 DEF TypeOK
  <2>2. f[k] \in Item /\ k \in 1 .. Len(f)
    BY <2>1
  <2> QED
    BY <1>2, <1>3, <2>1, <2>2, Items
<1>5. /\ g \in Seq(Item) /\ Len(g) = Len(f) - 1
      /\ \A i \in DOMAIN g : g[i] = IF i < k THEN f[i] ELSE f[i + 1]
  BY <1>3, <1>4, Without
<1>6. /\ NumbersOf(f) = {x.n} \union NumbersOf(g)
      /\ IdsOf(f) = {x.id} \union IdsOf(g)
      /\ Sorted(f) => Sorted(g) /\ Below({x.n}, NumbersOf(g))
      /\ \A gone : Once(f, gone) => Once(g, gone) /\ Apart({x.id}, IdsOf(g), gone)
  <2>1. /\ IsPrompt(f[k]) /\ (\A j \in 1 .. k - 1 : ~IsPrompt(f[j]))
        /\ k \in DOMAIN f /\ f \in Seq(Item) /\ g \in Seq(Item) /\ Len(g) = Len(f) - 1
        /\ \A i \in DOMAIN g : g[i] = IF i < k THEN f[i] ELSE f[i + 1]
    BY <1>2, <1>4, <1>5
  <2>2. /\ NumbersOf(f) = {f[k].n} \union NumbersOf(g)
        /\ IdsOf(f) = {f[k].id} \union IdsOf(g)
        /\ Sorted(f) => Sorted(g) /\ Below({f[k].n}, NumbersOf(g))
        /\ \A gone : Once(f, gone) => Once(g, gone) /\ Apart({f[k].id}, IdsOf(g), gone)
    BY ONLY <2>1, Removal
  <2> QED
    BY <1>3, <2>2
<1>7. held = <<>> /\ stash = <<>> /\ PromptsIn(held) = {}
  BY NothingIn DEF Places, DecidePrompt
<1>8. /\ held' = <<x>> /\ fifo' = g
      /\ UNCHANGED <<ran, stash, dropped, swept, accepted, recent, evicted>>
  BY <1>2, <1>3 DEF DecidePrompt, obsVars
<1>9. /\ Lined(ran, held, f, stash) => Lined(ran, <<x>>, g, stash)
      /\ Single(ran, held, f, stash, evicted) => Single(ran, <<x>>, g, stash, evicted)
      /\ OnTheWay(ran, <<x>>, g, stash) = OnTheWay(ran, held, f, stash)
  <2>1. Once(f, evicted) => Once(g, evicted) /\ Apart({x.id}, IdsOf(g), evicted)
    BY <1>6
  <2>2. PICK r, h, s, gone : r = ran /\ h = held /\ s = stash /\ gone = evicted
    OBVIOUS
  <2>3. /\ PromptsIn(h) = {} /\ x \in Prompt
        /\ NumbersOf(f) = {x.n} \union NumbersOf(g)
        /\ IdsOf(f) = {x.id} \union IdsOf(g)
        /\ Sorted(f) => Sorted(g) /\ Below({x.n}, NumbersOf(g))
        /\ Once(f, gone) => Once(g, gone) /\ Apart({x.id}, IdsOf(g), gone)
    BY <1>4, <1>6, <1>7, <2>1, <2>2
  <2>4. /\ Lined(r, h, f, s) => Lined(r, <<x>>, g, s)
        /\ Single(r, h, f, s, gone) => Single(r, <<x>>, g, s, gone)
        /\ OnTheWay(r, <<x>>, g, s) = OnTheWay(r, h, f, s)
    BY ONLY <2>3, MoveHold
  <2> QED
    BY <2>2, <2>4
<1>10. InLine' /\ Accounted' /\ OnlyOnce'
  BY <1>1, <1>8, <1>9 DEF Rest, InLine, Accounted, OnlyOnce
<1>11. /\ IdsOf(held') = {x.id} /\ IdsOf(fifo') \subseteq IdsOf(f) /\ {x.id} \subseteq IdsOf(f)
       /\ IdsOf(stash') = {} /\ IdsOf(ran') = IdsOf(ran)
  BY <1>4, <1>6, <1>7, <1>8, Alone, NoPrompts
<1>12. Remembered'
  BY <1>1, <1>8, <1>11 DEF Rest, Remembered, Window
<1> QED
  BY <1>10, <1>12 DEF Rest

(* The held prompt is dropped.                                              *)
LEMMA RestDrop ==
  ASSUME TypeOK, Places, Rest, DropHeld
  PROVE  Rest'
<1>1. ran \in Seq(Item) /\ held \in Seq(Item) /\ fifo \in Seq(Item) /\ stash \in Seq(Item)
  BY Items DEF TypeOK
<1>2. /\ held' = <<>> /\ dropped' = dropped \union NumbersOf(held)
      /\ UNCHANGED <<ran, fifo, stash, swept, accepted, recent, evicted, pending>>
  BY DEF DropHeld, passVars
<1>3. /\ Lined(ran, held, fifo, stash) => Lined(ran, held', fifo, stash)
      /\ Single(ran, held, fifo, stash, evicted) => Single(ran, held', fifo, stash, evicted)
      /\ OnTheWay(ran, held, fifo, stash)
           = OnTheWay(ran, held', fifo, stash) \union NumbersOf(held)
      /\ Lined(ran, held, fifo, stash)
           => OnTheWay(ran, held', fifo, stash) \intersect NumbersOf(held) = {}
  <2>1. PICK r, h, f, s : r = ran /\ h = held /\ f = fifo /\ s = stash
    OBVIOUS
  <2>2. r \in Seq(Item) /\ h \in Seq(Item) /\ f \in Seq(Item) /\ s \in Seq(Item)
    BY <1>1, <2>1
  <2>3. \A gone :
          /\ Lined(r, h, f, s) => Lined(r, <<>>, f, s)
          /\ Single(r, h, f, s, gone) => Single(r, <<>>, f, s, gone)
          /\ OnTheWay(r, h, f, s) = OnTheWay(r, <<>>, f, s) \union NumbersOf(h)
          /\ Lined(r, h, f, s) => OnTheWay(r, <<>>, f, s) \intersect NumbersOf(h) = {}
    BY ONLY <2>2, MoveDrop
  <2> QED
    BY <1>2, <2>1, <2>3
<1>4. Split(OnTheWay(ran, held', fifo, stash), dropped \union NumbersOf(held), swept, accepted)
  BY <1>3, SplitLeave DEF Rest, Accounted, InLine
<1>5. InLine' /\ Accounted' /\ OnlyOnce'
  BY <1>2, <1>3, <1>4 DEF Rest, InLine, Accounted, OnlyOnce
<1>6. IdsOf(held') = {}
  BY <1>2, NoPrompts, NothingIn
<1>7. Remembered'
  BY <1>2, <1>6 DEF Rest, Remembered, Window
<1> QED
  BY <1>5, <1>7 DEF Rest

(* The held prompt is dispatched.                                           *)
LEMMA RestDispatch ==
  ASSUME TypeOK, Rest, Dispatch
  PROVE  Rest'
<1>1. ran \in Seq(Item) /\ held \in Seq(Item)
  BY Items DEF TypeOK
<1>2. /\ ran' = ran \o held /\ held' = <<>>
      /\ UNCHANGED <<fifo, stash, dropped, swept, accepted, recent, evicted, pending>>
  BY DEF Dispatch, Join, passVars
<1>3. /\ Lined(ran, held, fifo, stash) => Lined(ran \o held, held', fifo, stash)
      /\ Single(ran, held, fifo, stash, evicted)
           => Single(ran \o held, held', fifo, stash, evicted)
      /\ OnTheWay(ran \o held, held', fifo, stash) = OnTheWay(ran, held, fifo, stash)
  BY <1>1, <1>2, MoveDispatch
<1>4. InLine' /\ Accounted' /\ OnlyOnce'
  BY <1>2, <1>3 DEF Rest, InLine, Accounted, OnlyOnce
<1>5. IdsOf(ran') = IdsOf(ran) \union IdsOf(held) /\ IdsOf(held') = {}
  BY <1>1, <1>2, Concat, NoPrompts, NothingIn
<1>6. Remembered'
  BY <1>2, <1>5 DEF Rest, Remembered, Window
<1> QED
  BY <1>4, <1>6 DEF Rest

(* A duplicate is suppressed: the window may evict an id.                   *)
LEMMA RestDuplicate ==
  ASSUME TypeOK, Rest, SuppressDuplicate
  PROVE  Rest'
<1>1. UNCHANGED <<ran, held, fifo, stash, dropped, swept, accepted, pending>>
  BY DEF SuppressDuplicate
<1>2. evicted \subseteq evicted' /\ Window \union evicted \subseteq Window' \union evicted'
  <2>0. recent \in Seq(Ids) /\ evicted \subseteq Ids
    BY DEF TypeOK
  <2>1. CASE UNCHANGED <<recent, evicted>>
    BY <2>1 DEF Window
  <2>2. CASE Touch(<<Head(inbox).id>>)
    <3>1. PICK id : id = Head(inbox).id
      OBVIOUS
    <3>2. inbox \in Seq(Message) /\ inbox # <<>> /\ Head(inbox).type = "prompt"
      BY DEF SuppressDuplicate, TakingPrompt, Taking, TypeOK
    <3>3. <<id>> \in Seq(Ids) /\ Touch(<<id>>)
      BY <2>2, <3>1, <3>2, Messages
    <3> QED
      BY <2>0, <3>3, Touching
  <2> QED
    BY <2>1, <2>2 DEF SuppressDuplicate
<1>3. InLine' /\ Accounted'
  BY <1>1 DEF Rest, InLine, Accounted
<1>4. Remembered'
  BY <1>1, <1>2 DEF Rest, Remembered
<1>5. OnlyOnce'
  <2>1. Single(ran, held, fifo, stash, evicted')
    BY <1>2, OnceMore DEF Rest, OnlyOnce, Single
  <2> QED
    BY <1>1, <2>1 DEF OnlyOnce
<1> QED
  BY <1>3, <1>4, <1>5 DEF Rest

(* A fired timer goes into the stash.                                       *)
LEMMA RestTimer ==
  ASSUME TypeOK, Rest, TimerFires
  PROVE  Rest'
<1>1. PICK s, t, gone : s = stash /\ t = stash \o <<Fired>> /\ gone = evicted
  OBVIOUS
<1>2. s \in Seq(Item) /\ Fired \in Item
  BY <1>1, LineTypes, Items
<1>3. /\ stash' = t /\ t = s \o <<Fired>>
      /\ UNCHANGED <<ran, held, fifo, dropped, swept, accepted, recent, evicted, pending>>
  BY <1>1, <1>2, AppendIsConcat DEF TimerFires, obsVars
<1>4. /\ NumbersOf(<<Fired>>) = {} /\ IdsOf(<<Fired>>) = {} /\ <<Fired>> \in Seq(Item)
      /\ Sorted(<<Fired>>) /\ Once(<<Fired>>, gone)
  BY NoPrompts, NothingIn
<1>5. /\ NumbersOf(t) = NumbersOf(s) /\ IdsOf(t) = IdsOf(s)
      /\ Sorted(s) => Sorted(t)
      /\ Once(s, gone) => Once(t, gone)
  <2>1. /\ NumbersOf(s \o <<Fired>>) = NumbersOf(s) \union NumbersOf(<<Fired>>)
        /\ IdsOf(s \o <<Fired>>) = IdsOf(s) \union IdsOf(<<Fired>>)
        /\ Sorted(s) /\ Sorted(<<Fired>>) /\ Below(NumbersOf(s), NumbersOf(<<Fired>>))
             => Sorted(s \o <<Fired>>)
        /\ Once(s, gone) /\ Once(<<Fired>>, gone) /\ Apart(IdsOf(s), IdsOf(<<Fired>>), gone)
             => Once(s \o <<Fired>>, gone)
    BY <1>2, <1>4, Concat
  <2>2. Below(NumbersOf(s), NumbersOf(<<Fired>>)) /\ Apart(IdsOf(s), IdsOf(<<Fired>>), gone)
    BY <1>4 DEF Below, Apart
  <2> QED
    BY <1>3, <1>4, <2>1, <2>2
<1>6. /\ Lined(ran, held, fifo, s) => Lined(ran, held, fifo, t)
      /\ Single(ran, held, fifo, s, gone) => Single(ran, held, fifo, t, gone)
      /\ OnTheWay(ran, held, fifo, t) = OnTheWay(ran, held, fifo, s)
  BY <1>5 DEF Lined, Single, OnTheWay
<1>7. InLine' /\ Accounted' /\ OnlyOnce'
  BY <1>1, <1>3, <1>6 DEF Rest, InLine, Accounted, OnlyOnce
<1>8. Remembered'
  BY <1>1, <1>3, <1>5 DEF Rest, Remembered, Window
<1> QED
  BY <1>7, <1>8 DEF Rest

(* decide takes a fired timer off a FIFO without prompts.                   *)
LEMMA RestDecideTimer ==
  ASSUME TypeOK, Places, Rest, DecideTimer
  PROVE  Rest'
<1>1. PICK f, g : f = fifo /\ g = Tail(fifo)
  OBVIOUS
<1>2. /\ f \in Seq(Item) /\ f # <<>> /\ PromptsIn(f) = {} /\ fifo' = g
      /\ UNCHANGED <<ran, held, stash, dropped, swept, accepted, recent, evicted, pending>>
  BY <1>1, LineTypes DEF DecideTimer, passVars, obsVars
<1>3. PromptsIn(g) = {}
  <2>1. g = Tail(f)
    BY <1>1
  <2>2. \A i \in DOMAIN g : i + 1 \in DOMAIN f /\ g[i] = f[i + 1]
    BY <1>2, <2>1
  <2> QED
    BY <1>2, <2>2 DEF PromptsIn
<1>4. /\ NumbersOf(f) = {} /\ IdsOf(f) = {}
      /\ NumbersOf(g) = {} /\ IdsOf(g) = {} /\ Sorted(g) /\ Once(g, evicted)
  BY <1>2, <1>3, NoPrompts
<1>5. /\ Lined(ran, held, f, stash) => Lined(ran, held, g, stash)
      /\ Single(ran, held, f, stash, evicted) => Single(ran, held, g, stash, evicted)
      /\ OnTheWay(ran, held, g, stash) = OnTheWay(ran, held, f, stash)
  BY <1>4 DEF Lined, Single, OnTheWay
<1>6. InLine' /\ Accounted' /\ OnlyOnce'
  BY <1>1, <1>2, <1>5 DEF Rest, InLine, Accounted, OnlyOnce
<1>7. Remembered'
  BY <1>1, <1>2, <1>4 DEF Rest, Remembered, Window
<1> QED
  BY <1>6, <1>7 DEF Rest

(* The head of the FIFO joins the turn: it is as if it had been held.       *)
LEMMA RestJoins ==
  ASSUME TypeOK, Places, Rest, MergeJoins
  PROVE  Rest'
<1>1. PICK r, h, f, s, gone, x, g :
        /\ r = ran /\ h = held /\ f = fifo /\ s = stash /\ gone = evicted
        /\ x = Head(f) /\ g = Tail(f)
  OBVIOUS
<1>2. /\ ran' = r \o <<x>> /\ fifo' = g /\ f # <<>> /\ IsPrompt(x)
      /\ UNCHANGED <<held, stash, dropped, swept, accepted, recent, evicted, pending>>
  BY <1>1 DEF MergeJoins, Join, Joins, passVars
<1>3. r \in Seq(Item) /\ f \in Seq(Item)
  BY <1>1, LineTypes
<1>4. h = <<>> /\ PromptsIn(h) = {}
  BY <1>1, NothingIn DEF Places, MergeJoins
<1>5. /\ x \in Prompt
      /\ NumbersOf(f) = {x.n} \union NumbersOf(g)
      /\ IdsOf(f) = {x.id} \union IdsOf(g)
      /\ Sorted(f) => Sorted(g) /\ Below({x.n}, NumbersOf(g))
      /\ Once(f, gone) => Once(g, gone) /\ Apart({x.id}, IdsOf(g), gone)
  BY <1>1, <1>2, <1>3, HeadLeaves
<1>6. /\ Lined(r, h, f, s) => Lined(r, <<x>>, g, s)
      /\ Single(r, h, f, s, gone) => Single(r, <<x>>, g, s, gone)
      /\ OnTheWay(r, <<x>>, g, s) = OnTheWay(r, h, f, s)
  BY ONLY <1>4, <1>5, MoveHold
<1>7. <<x>> \in Seq(Item) /\ IdsOf(<<x>>) = {x.id}
  BY <1>5, Alone
<1>8. /\ Lined(r, <<x>>, g, s) => Lined(r \o <<x>>, <<>>, g, s)
      /\ Single(r, <<x>>, g, s, gone) => Single(r \o <<x>>, <<>>, g, s, gone)
      /\ OnTheWay(r \o <<x>>, <<>>, g, s) = OnTheWay(r, <<x>>, g, s)
  <2>1. PICK y, e : y = <<x>> /\ e = <<>>
    OBVIOUS
  <2>2. y \in Seq(Item) /\ r \in Seq(Item)
    BY <1>3, <1>7, <2>1
  <2>3. /\ Lined(r, y, g, s) => Lined(r \o y, <<>>, g, s)
        /\ Single(r, y, g, s, gone) => Single(r \o y, <<>>, g, s, gone)
        /\ OnTheWay(r \o y, <<>>, g, s) = OnTheWay(r, y, g, s)
    BY ONLY <2>2, MoveDispatch
  <2> QED
    BY <2>1, <2>3
<1>9. InLine' /\ Accounted' /\ OnlyOnce'
  BY <1>1, <1>2, <1>4, <1>6, <1>8 DEF Rest, InLine, Accounted, OnlyOnce
<1>10. IdsOf(r \o <<x>>) = IdsOf(r) \union {x.id}
  BY <1>3, <1>7, Concat
<1>11. Remembered'
  BY <1>1, <1>2, <1>5, <1>10 DEF Rest, Remembered, Window
<1> QED
  BY <1>9, <1>11 DEF Rest

(* The head of the FIFO is dropped: it is as if it had been held.           *)
LEMMA RestMergeDrops ==
  ASSUME TypeOK, Places, Rest, MergeDrops
  PROVE  Rest'
<1>1. PICK r, h, f, s, gone, x, g :
        /\ r = ran /\ h = held /\ f = fifo /\ s = stash /\ gone = evicted
        /\ x = Head(f) /\ g = Tail(f)
  OBVIOUS
<1>2. /\ dropped' = dropped \union {x.n} /\ fifo' = g /\ f # <<>> /\ IsPrompt(x)
      /\ UNCHANGED <<ran, held, stash, swept, accepted, recent, evicted, pending>>
  BY <1>1 DEF MergeDrops, Cancelled, IsPrompt, TypeOK, passVars
<1>3. r \in Seq(Item) /\ f \in Seq(Item) /\ s \in Seq(Item)
  BY <1>1, LineTypes
<1>4. h = <<>> /\ PromptsIn(h) = {}
  BY <1>1, NothingIn DEF Places, MergeDrops
<1>5. /\ x \in Prompt
      /\ NumbersOf(f) = {x.n} \union NumbersOf(g)
      /\ IdsOf(f) = {x.id} \union IdsOf(g)
      /\ Sorted(f) => Sorted(g) /\ Below({x.n}, NumbersOf(g))
      /\ Once(f, gone) => Once(g, gone) /\ Apart({x.id}, IdsOf(g), gone)
  BY <1>1, <1>2, <1>3, HeadLeaves
<1>6. /\ Lined(r, h, f, s) => Lined(r, <<x>>, g, s)
      /\ Single(r, h, f, s, gone) => Single(r, <<x>>, g, s, gone)
      /\ OnTheWay(r, <<x>>, g, s) = OnTheWay(r, h, f, s)
  BY ONLY <1>4, <1>5, MoveHold
<1>7. <<x>> \in Seq(Item) /\ NumbersOf(<<x>>) = {x.n} /\ g \in Seq(Item)
  BY <1>1, <1>2, <1>3, <1>5, Alone, HeadLeaves
<1>8. /\ Lined(r, <<x>>, g, s) => Lined(r, <<>>, g, s)
      /\ Single(r, <<x>>, g, s, gone) => Single(r, <<>>, g, s, gone)
      /\ OnTheWay(r, <<x>>, g, s) = OnTheWay(r, <<>>, g, s) \union NumbersOf(<<x>>)
      /\ Lined(r, <<x>>, g, s) => OnTheWay(r, <<>>, g, s) \intersect NumbersOf(<<x>>) = {}
  BY ONLY <1>3, <1>5, <1>7, MoveDrop
<1>9. Split(OnTheWay(r, <<>>, g, s), dropped \union {x.n}, swept, accepted)
  <2>1. Split(OnTheWay(r, h, f, s), dropped, swept, accepted) /\ Lined(r, h, f, s)
    BY <1>1 DEF Rest, Accounted, InLine
  <2> QED
    BY <1>6, <1>7, <1>8, <2>1, SplitLeave
<1>10. InLine' /\ Accounted' /\ OnlyOnce'
  BY <1>1, <1>2, <1>4, <1>6, <1>8, <1>9 DEF Rest, InLine, Accounted, OnlyOnce
<1>11. Remembered'
  BY <1>1, <1>2, <1>5 DEF Rest, Remembered, Window
<1> QED
  BY <1>10, <1>11 DEF Rest

(* Every step keeps what is known of the prompts in the session's hands.    *)
LEMMA RestNext ==
  ASSUME TypeOK, Places, Rest, [Next]_vars
  PROVE  Rest'
<1>1. CASE UNCHANGED vars
  BY <1>1, RestUnchanged DEF vars, passVars, obsVars, lineVars
<1>2. CASE Client
  BY <1>2, RestUnchanged
  DEF Client, SendMessage, CancelPendingMessage, SendCommand, sessionVars, passVars, obsVars,
      lineVars
<1>3. CASE Take
  <2>1. CASE DropIncoming
    BY <2>1, RestUnchanged DEF DropIncoming, obsVars, lineVars
  <2>2. CASE TakeQuery \/ TakeRegenerate \/ TakeCancelRegen \/ TakeDone
    BY <2>2, RestFlush DEF TakeQuery, TakeRegenerate, TakeCancelRegen, TakeDone
  <2> QED
    BY <1>3, <2>1, <2>2, RestDuplicate, RestAccept, RestCancel, RestSetModel DEF Take
<1>4. CASE Step
  <2>1. CASE EndDrain \/ EndSweep
    BY <2>1, RestFlush DEF EndDrain, EndSweep
  <2>2. CASE BeginIteration \/ RegenStage \/ DecideCarried \/ MergeEnds \/ TurnCompletes
             \/ TurnGivesUp \/ TurnFatal
    <3>1. stash = <<>> /\ UNCHANGED lineVars
      BY <2>2
      DEF BeginIteration, RegenStage, DecideCarried, MergeEnds, TurnCompletes, TurnGivesUp,
          TurnFatal, Places, passVars, obsVars, lineVars
    <3> QED
      BY <3>1, RestQuiet
  <2>3. CASE ForcedContinueAsNew \/ RegenFlip \/ TurnForcesContinue \/ TurnRetries \/ TurnHandsOff
    <3>1. stash = <<>> /\ UNCHANGED lineVars
      BY <2>3
      DEF ForcedContinueAsNew, RegenFlip, TurnForcesContinue, TurnRetries, TurnHandsOff,
          CarryTurn, FreshExecution, Places, lineVars
    <3> QED
      BY <3>1, RestQuiet
  <2>4. CASE DecideNothing
    <3>1. stash = <<>> /\ UNCHANGED lineVars
      BY <2>4 DEF DecideNothing, FreshExecution, Places, passVars, lineVars
    <3> QED
      BY <3>1, RestQuiet
  <2> QED
    BY <1>4, <2>1, <2>2, <2>3, <2>4, RestTimer, RestDecide, RestDecideTimer, RestDrop,
       RestDispatch, RestMergeDrops, RestJoins DEF Step
<1> QED
  BY <1>1, <1>2, <1>3, <1>4 DEF Next

(* The session starts without prompts.                                      *)
LEMMA InvInit == Init => Inv
<1> SUFFICES ASSUME Init
             PROVE  Inv
  OBVIOUS
<1>1. TypeOK
  <2>1. note \in BOOLEAN /\ timer \in BOOLEAN
    BY Zenon DEF Init
  <2> QED
    BY <2>1, SessionMessagesConstants DEF Init, TypeOK, Stages
<1>2. Places
  BY DEF Init, Places
<1>3. ran = <<>> /\ held = <<>> /\ fifo = <<>> /\ stash = <<>>
  BY DEF Init
<1>4. NumbersOf(<<>>) = {} /\ IdsOf(<<>>) = {} /\ Sorted(<<>>) /\ Once(<<>>, evicted)
  BY NoPrompts, NothingIn
<1>5. InLine
  BY <1>3, <1>4 DEF InLine, Lined, Below
<1>6. OnlyOnce
  BY <1>3, <1>4 DEF OnlyOnce, Single, Apart
<1>7. Remembered
  BY <1>3, <1>4 DEF Remembered
<1>8. Accounted
  BY <1>3, <1>4 DEF Init, Accounted, Split, OnTheWay
<1> QED
  BY <1>1, <1>2, <1>5, <1>6, <1>7, <1>8 DEF Inv

(* The inductive invariant holds in every state of the session.             *)
THEOREM Invariance == Spec => []Inv
<1>1. Init => Inv
  BY InvInit
<1>2. Inv /\ [Next]_vars => Inv'
  <2> SUFFICES ASSUME Inv, [Next]_vars
               PROVE  Inv'
    OBVIOUS
  <2>1. TypeOK /\ Places /\ Rest
    BY DEF Inv, Rest
  <2>2. TypeOK'
    BY <2>1, TypeNext
  <2>3. Places'
    BY <2>1, PlacesNext
  <2>4. Rest'
    BY <2>1, RestNext
  <2> QED
    BY <2>2, <2>3, <2>4 DEF Inv, Rest
<1> QED
  BY <1>1, <1>2, PTL DEF Spec

(* The places put together are one line.                                    *)
LEMMA WholeLine ==
  ASSUME NEW r \in Seq(Item), NEW h \in Seq(Item), NEW f \in Seq(Item), NEW s \in Seq(Item),
         NEW gone
  PROVE  /\ r \o h \o f \o s \in Seq(Item)
         /\ NumbersOf(r \o h \o f \o s) = OnTheWay(r, h, f, s)
         /\ Lined(r, h, f, s) => Sorted(r \o h \o f \o s)
         /\ Single(r, h, f, s, gone) => Once(r \o h \o f \o s, gone)
<1>1. PICK a, b, c : a = r \o h /\ b = a \o f /\ c = b \o s
  OBVIOUS
<1>2. a \in Seq(Item) /\ b \in Seq(Item) /\ c \in Seq(Item)
  <2>1. a \in Seq(Item)
    BY <1>1
  <2>2. b \in Seq(Item)
    BY <1>1, <2>1
  <2> QED
    BY <1>1, <2>1, <2>2
<1>3. /\ NumbersOf(a) = NumbersOf(r) \union NumbersOf(h)
      /\ IdsOf(a) = IdsOf(r) \union IdsOf(h)
      /\ Sorted(r) /\ Sorted(h) /\ Below(NumbersOf(r), NumbersOf(h)) => Sorted(a)
      /\ Once(r, gone) /\ Once(h, gone) /\ Apart(IdsOf(r), IdsOf(h), gone) => Once(a, gone)
  BY <1>1, Concat
<1>4. /\ NumbersOf(b) = NumbersOf(a) \union NumbersOf(f)
      /\ IdsOf(b) = IdsOf(a) \union IdsOf(f)
      /\ Sorted(a) /\ Sorted(f) /\ Below(NumbersOf(a), NumbersOf(f)) => Sorted(b)
      /\ Once(a, gone) /\ Once(f, gone) /\ Apart(IdsOf(a), IdsOf(f), gone) => Once(b, gone)
  BY <1>1, <1>2, Concat
<1>5. /\ NumbersOf(c) = NumbersOf(b) \union NumbersOf(s)
      /\ Sorted(b) /\ Sorted(s) /\ Below(NumbersOf(b), NumbersOf(s)) => Sorted(c)
      /\ Once(b, gone) /\ Once(s, gone) /\ Apart(IdsOf(b), IdsOf(s), gone) => Once(c, gone)
  BY <1>1, <1>2, Concat
<1>6. NumbersOf(c) = OnTheWay(r, h, f, s)
  BY <1>3, <1>4, <1>5 DEF OnTheWay
<1>7. Lined(r, h, f, s) => Sorted(c)
  BY <1>3, <1>4, <1>5 DEF Lined, Below
<1>8. Single(r, h, f, s, gone) => Once(c, gone)
  BY <1>3, <1>4, <1>5 DEF Single, Apart
<1>9. c = r \o h \o f \o s
  BY <1>1
<1> QED
  BY <1>2, <1>6, <1>7, <1>8, <1>9

(* What the invariant says of the session's line of work.                   *)
LEMMA LineFacts ==
  ASSUME Inv
  PROVE  /\ Line \in Seq(Item)
         /\ NumbersOf(Line) = OnTheWay(ran, held, fifo, stash)
         /\ Sorted(Line) /\ Once(Line, evicted)
<1>1. PICK r, h, f, s, gone :
        r = ran /\ h = held /\ f = fifo /\ s = stash /\ gone = evicted
  OBVIOUS
<1>2. /\ r \in Seq(Item) /\ h \in Seq(Item) /\ f \in Seq(Item) /\ s \in Seq(Item)
      /\ Lined(r, h, f, s) /\ Single(r, h, f, s, gone)
  BY <1>1, LineTypes DEF Inv, InLine, OnlyOnce
<1>3. /\ r \o h \o f \o s \in Seq(Item)
      /\ NumbersOf(r \o h \o f \o s) = OnTheWay(r, h, f, s)
      /\ Lined(r, h, f, s) => Sorted(r \o h \o f \o s)
      /\ Single(r, h, f, s, gone) => Once(r \o h \o f \o s, gone)
  BY ONLY <1>2, WholeLine
<1> QED
  BY <1>1, <1>2, <1>3 DEF Line

(* The type invariant holds in every state, for any constants.              *)
THEOREM TypeCorrect == Spec => []TypeOK
<1>1. Inv => TypeOK
  BY DEF Inv
<1> QED
  BY <1>1, Invariance, PTL

(* Prompts are dispatched in the order in which the session accepted them,  *)
(* over sweeps, merges, put-backs, retries and continue-as-new.             *)
THEOREM PromptsKeepTheirOrder == Spec => []DispatchedInOrder
<1>1. Inv => DispatchedInOrder
  BY LineFacts DEF DispatchedInOrder, Sorted
<1> QED
  BY <1>1, Invariance, PTL

(* An id is in the session's hands twice only after the duplicate window    *)
(* evicted it (recentClientMessageIds, pendingClientMessageIds).            *)
THEOREM DuplicatesAreSuppressed == Spec => []DuplicatesOnlyAfterEviction
<1>1. Inv => DuplicatesOnlyAfterEviction
  BY LineFacts DEF DuplicatesOnlyAfterEviction, Once
<1> QED
  BY <1>1, Invariance, PTL

(* Every accepted prompt was dispatched, dropped by its tombstone, lost to  *)
(* a model switch, or is on its way; one of these, and once.                *)
THEOREM NoPromptVanishes == Spec => []EachPromptAccountedFor
<1>1. Inv => EachPromptAccountedFor
  <2> SUFFICES ASSUME Inv
               PROVE  EachPromptAccountedFor
    OBVIOUS
  <2>1. /\ Line \in Seq(Item)
        /\ NumbersOf(Line) = OnTheWay(ran, held, fifo, stash) /\ Sorted(Line)
    BY LineFacts
  <2>2. Split(NumbersOf(Line), dropped, swept, accepted)
    BY <2>1 DEF Inv, Accounted
  <2>3. ASSUME NEW i \in PromptsIn(Line), NEW j \in PromptsIn(Line), i # j
        PROVE  Line[i].n # Line[j].n
    <3>1. i \in Int /\ j \in Int
      BY <2>1, <2>3 DEF PromptsIn
    <3>2. i < j \/ j < i
      BY <2>3, <3>1
    <3>3. Line[i].n \in Nat /\ Line[j].n \in Nat
      BY <2>1, <2>3, Ranges DEF NumbersOf
    <3>4. Line[i].n < Line[j].n \/ Line[j].n < Line[i].n
      BY <2>1, <2>3, <3>2 DEF Sorted
    <3> QED
      BY <3>3, <3>4
  <2> QED
    BY <2>2, <2>3 DEF EachPromptAccountedFor, Split
<1> QED
  BY <1>1, Invariance, PTL
=============================================================================
