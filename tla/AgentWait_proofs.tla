-------------------------- MODULE AgentWait_proofs --------------------------
(***************************************************************************)
(* The safety properties of AgentWait, for any children, commands and      *)
(* bounds.                                                                 *)
(*                                                                         *)
(* That a wait is watched is not inductive: a turn may put another timer   *)
(* in the slot, and a report may end up anywhere.  Inv adds that the slot  *)
(* is empty whenever the loop is past its drain, so that no turn finds a   *)
(* poll to displace, and that without a report there is no digest, which   *)
(* is the only thing that ends a drain although a timer is armed.          *)
(***************************************************************************)
EXTENDS AgentWait, TLAPS

(* No command has arrived and no child has reported.                        *)
Quiet == reported = 0 /\ commands = 0

(* A report that waits was sent.                                            *)
ReportsWereSent == reports # <<>> => reported > 0

(* A digest is made of reports.                                             *)
DigestsOfReports == digest # "none" => reported > 0

(* Past its drain the loop has no armed timer.                              *)
SlotIsEmpty == Quiet /\ pc \in {"decide", "sweep", "turn"} => timer = "none"

Inv == TypeOK /\ ReportsWereSent /\ DigestsOfReports /\ SlotIsEmpty /\ WaitsAreWatched

-----------------------------------------------------------------------------
(* Lemmas about the operators.                                              *)

(* What a report, a refresh or a poll makes of the tracked statuses is one  *)
(* of the statuses.                                                         *)
LEMMA StatusesStay ==
  ASSUME TypeOK
  PROVE  /\ \A r \in [child : Children, type : {"completed", "wait"}] :
              Reported(r) \in Statuses /\ Probed(r) \in Statuses
         /\ \A preserve \in BOOLEAN : Refreshed(preserve) \in [Children -> Statuses]
         /\ \A heard : Polled(heard) \in [Children -> Statuses]
<1>1. ASSUME NEW r \in [child : Children, type : {"completed", "wait"}]
      PROVE  Reported(r) \in Statuses /\ Probed(r) \in Statuses
  <2>1. Reported(r) \in Statuses
    BY <1>1 DEF Reported, TypeOK, Statuses
  <2>2. actual[r.child] \in Statuses
    BY <1>1 DEF TypeOK
  <2> QED
    BY <2>1, <2>2 DEF Probed
<1>2. ASSUME NEW preserve \in BOOLEAN
      PROVE  Refreshed(preserve) \in [Children -> Statuses]
  <2>1. ASSUME NEW c \in Children
        PROVE  Refreshed(preserve)[c] \in Statuses
    BY <2>1 DEF Refreshed, TypeOK, Statuses
  <2> QED
    BY <2>1 DEF Refreshed
<1>3. ASSUME NEW heard
      PROVE  Polled(heard) \in [Children -> Statuses]
  BY <1>3 DEF Polled, TypeOK
<1> QED
  BY <1>1, <1>2, <1>3

(* Appending to a sequence and taking its head keep its type.               *)
LEMMA SequencesStay ==
  ASSUME NEW S, NEW q \in Seq(S)
  PROVE  /\ \A x \in S : Append(q, x) \in Seq(S)
         /\ q # <<>> => Head(q) \in S /\ Tail(q) \in Seq(S)
OBVIOUS

(* A sequence whose head is another timer keeps its poll when the head is   *)
(* taken, and every sequence keeps it when another timer fires.             *)
LEMMA PollsStayInFifo ==
  ASSUME NEW q \in Seq({"poll", "other"}), NEW t \in {"poll", "other"},
         NEW i \in DOMAIN q, q[i] = "poll"
  PROVE  /\ \E j \in DOMAIN Append(q, t) : Append(q, t)[j] = "poll"
         /\ Head(q) = "other" => \E j \in DOMAIN Tail(q) : Tail(q)[j] = "poll"
<1>1. i \in DOMAIN Append(q, t) /\ Append(q, t)[i] = "poll"
  OBVIOUS
<1>2. ASSUME Head(q) = "other"
      PROVE  \E j \in DOMAIN Tail(q) : Tail(q)[j] = "poll"
  <2>1. i # 1
    BY <1>2
  <2>2. i - 1 \in DOMAIN Tail(q) /\ Tail(q)[i - 1] = "poll"
    BY <2>1
  <2> QED
    BY <2>2
<1> QED
  BY <1>1, <1>2

-----------------------------------------------------------------------------
(* The state keeps its types in every step.                                 *)
LEMMA TypeStep ==
  ASSUME TypeOK, [Next]_vars
  PROVE  TypeOK'
<1> USE AgentWaitConstants
<1> USE DEF TypeOK, Statuses
<1>1. CASE UNCHANGED vars
  BY <1>1 DEF vars, childVars, queueVars
<1>2. ASSUME NEW c \in Children, NEW type \in {"completed", "wait"}, SendReport(c, type)
      PROVE  reports' \in Seq([child : Children, type : {"completed", "wait"}])
             /\ reported' \in Nat
  <2>1. [child |-> c, type |-> type] \in [child : Children, type : {"completed", "wait"}]
    BY <1>2
  <2>2. Append(reports, [child |-> c, type |-> type])
          \in Seq([child : Children, type : {"completed", "wait"}])
    BY <2>1, SequencesStay
  <2> QED
    <3>1. CASE UNCHANGED <<reports, reported>>
      BY <3>1
    <3>2. CASE /\ reported' = reported + 1
               /\ reports' = Append(reports, [child |-> c, type |-> type])
      <4>1. reported' \in Nat
        BY <3>2
      <4> QED
        BY <3>2, <2>2, <4>1
    <3> QED
      BY <1>2, <3>1, <3>2 DEF SendReport
<1>3. ASSUME NEW c \in Children, ChildAnswers(c)
      PROVE  TypeOK'
  BY <1>2, <1>3 DEF ChildAnswers, sessionVars
<1>4. ASSUME NEW c \in Children, ChildWaits(c)
      PROVE  TypeOK'
  BY <1>2, <1>4 DEF ChildWaits, sessionVars
<1>5. ASSUME NEW c \in Children, ChildWakes(c)
      PROVE  TypeOK'
  BY <1>5 DEF ChildWakes, sessionVars
<1>6. ASSUME NEW c \in Children, ChildObeys(c)
      PROVE  TypeOK'
  BY <1>6 DEF ChildObeys, sessionVars
<1>7. CASE TakeReport
  <2>1. Head(reports) \in [child : Children, type : {"completed", "wait"}]
        /\ reports' \in Seq([child : Children, type : {"completed", "wait"}])
    BY <1>7, SequencesStay DEF TakeReport
  <2>2. status' \in [Children -> Statuses]
    BY <1>7, <2>1, StatusesStay DEF TakeReport
  <2> QED
    BY <1>7, <2>1, <2>2 DEF TakeReport, Complete, ResolveWait, childVars
<1>8. CASE TakePrompt
  BY <1>8 DEF TakePrompt, childVars
<1>9. CASE TakeDone
  <2>1. status' \in [Children -> Statuses]
    BY <1>9, StatusesStay DEF TakeDone
  <2>2. Live(status') \subseteq Children
    BY DEF Live
  <2> QED
    <3>1. commands' \in Nat
      BY <1>9 DEF TakeDone, TakingCommand
    <3>2. CASE shutdown
      BY <1>9, <2>1, <3>1, <3>2 DEF TakeDone
    <3>3. CASE ~shutdown /\ Live(status') = {}
      BY <1>9, <2>1, <3>1, <3>3 DEF TakeDone, Complete
    <3>4. CASE ~shutdown /\ Live(status') # {}
      <4>1. told' \subseteq Children
        BY <1>9, <2>2, <3>4 DEF TakeDone
      <4>2. polls' \in 0 .. MaxPolls
        <5>1. polls' = 0
          BY <1>9, <3>4 DEF TakeDone
        <5> QED
          BY <5>1
      <4>3. /\ waiting' = Live(status') /\ digest' = "none" /\ timer' = "poll"
            /\ UNCHANGED <<pc, result>>
        BY <1>9, <3>4 DEF TakeDone
      <4>4. shutdown' = TRUE
        BY <1>9, <3>4 DEF TakeDone
      <4>5. took' = TRUE /\ UNCHANGED <<actual, reports, reported, prompts, fired, fifo, followup>>
        BY <1>9 DEF TakeDone
      <4> QED
        BY <2>1, <2>2, <3>1, <4>1, <4>2, <4>3, <4>4, <4>5
    <3> QED
      BY <3>2, <3>3, <3>4
<1>10. CASE TakeSetModel
  <2>1. commands' \in Nat
    BY <1>10 DEF TakeSetModel, TakingCommand
  <2> QED
    BY <1>10, <2>1 DEF TakeSetModel, childVars
<1>11. CASE TimerFires
  BY <1>11 DEF TimerFires, childVars, queueVars
<1>12. CASE DigestRipens
  BY <1>12 DEF DigestRipens, childVars, queueVars
<1>13. CASE EndDrain
  BY <1>13 DEF EndDrain, childVars, queueVars
<1>14. CASE DecideFollowup
  BY <1>14 DEF DecideFollowup, childVars, queueVars
<1>15. CASE DecidePrompt
  BY <1>15 DEF DecidePrompt, childVars, queueVars
<1>16. CASE Dispatch
  BY <1>16 DEF Dispatch, childVars, queueVars
<1> HIDE DEF Statuses
<1>0. ASSUME NEW t, FiredNext(t)
      PROVE  fired' \in Seq({"poll", "other"})
  BY <1>0, SequencesStay DEF FiredNext
<1>17. CASE DecideOtherTimer
  BY <1>0, <1>17 DEF DecideOtherTimer, FiredNext, childVars, queueVars
<1>18. CASE PollIdly
  BY <1>0, <1>18 DEF PollIdly, FiredNext, childVars, queueVars
<1>19. ASSUME NEW heard, PollResolves(heard)
       PROVE  TypeOK'
  BY <1>0, <1>19, StatusesStay
     DEF PollResolves, FiredNext, Complete, ResolveWait, childVars, queueVars
<1>20. ASSUME NEW heard, PollsAgain(heard)
       PROVE  TypeOK'
  <2>1. polls' \in 0 .. MaxPolls
    BY <1>20 DEF PollsAgain
  <2>2. status' \in [Children -> Statuses] /\ fired' \in Seq({"poll", "other"})
    BY <1>0, <1>20, StatusesStay DEF PollsAgain
  <2> QED
    BY <1>20, <2>1, <2>2 DEF PollsAgain, childVars, queueVars
<1>21. ASSUME NEW heard, PollTimesOut(heard)
       PROVE  TypeOK'
  BY <1>0, <1>21, StatusesStay DEF PollTimesOut, FiredNext, childVars, queueVars
<1>22. CASE DecideDigest
  BY <1>22 DEF DecideDigest, childVars, queueVars
<1>23. CASE DecideNothing
  BY <1>23 DEF DecideNothing, childVars, queueVars
<1>24. ASSUME AfterTurn
       PROVE  status' \in [Children -> Statuses]
  BY <1>24, StatusesStay DEF AfterTurn
<1>25. CASE TurnCompletes
  BY <1>24, <1>25 DEF TurnCompletes, AfterTurn, childVars, queueVars
<1>26. CASE TurnUsesTool
  <2>1. actual' \in [Children -> Statuses] /\ told' \subseteq Children
    BY <1>26 DEF TurnUsesTool, childVars, Statuses
  <2> QED
    BY <1>24, <1>26, <2>1 DEF TurnUsesTool, AfterTurn, queueVars
<1>27. CASE TurnRetries
  BY <1>27 DEF TurnRetries, childVars, queueVars
<1>28. ASSUME NEW targets \in SUBSET Children \ {{}}, TurnWaitsForAgents(targets)
       PROVE  TypeOK'
  BY <1>24, <1>28 DEF TurnWaitsForAgents, AfterTurn, childVars, queueVars
<1> QED
  BY <1>1, <1>3, <1>4, <1>5, <1>6, <1>7, <1>8, <1>9, <1>10, <1>11, <1>12, <1>13, <1>14,
     <1>15, <1>16, <1>17, <1>18, <1>19, <1>20, <1>21, <1>22, <1>23, <1>25, <1>26, <1>27,
     <1>28
     DEF Next, Child, Session, Poll, Turn

-----------------------------------------------------------------------------
(* The other parts of the invariant are kept in every step.                 *)
LEMMA WatchStep ==
  ASSUME Inv, TypeOK', [Next]_vars
  PROVE  ReportsWereSent' /\ DigestsOfReports' /\ SlotIsEmpty' /\ WaitsAreWatched'
<1> USE DEF Inv, TypeOK, ReportsWereSent, DigestsOfReports, SlotIsEmpty, WaitsAreWatched,
            Watched, Quiet
<1>1. CASE UNCHANGED vars
  BY <1>1 DEF vars, childVars, queueVars
<1>2. CASE Child
  BY <1>2 DEF Child, ChildAnswers, ChildWaits, ChildWakes, ChildObeys, SendReport, sessionVars
<1>3. CASE TakeReport
  BY <1>3 DEF TakeReport, Complete, ResolveWait, childVars
<1>4. CASE TakePrompt
  BY <1>4 DEF TakePrompt, Taking, childVars
<1>5. CASE TakeDone
  <2>1. commands' > 0 /\ UNCHANGED <<reports, reported>>
    BY <1>5 DEF TakeDone, TakingCommand
  <2>2. digest' \in {digest, "none"}
    BY <1>5 DEF TakeDone, Complete
  <2> QED
    BY <2>1, <2>2
<1>6. CASE TakeSetModel
  BY <1>6 DEF TakeSetModel, TakingCommand, childVars
<1>7. CASE TimerFires
  <2>1. ASSUME timer = "poll"
        PROVE  \E i \in DOMAIN fired' : fired'[i] = "poll"
    <3>1. Len(fired) + 1 \in DOMAIN fired' /\ fired'[Len(fired) + 1] = "poll"
      BY <1>7, <2>1 DEF TimerFires
    <3> QED
      BY <3>1
  <2>2. ASSUME NEW i \in DOMAIN fired, fired[i] = "poll"
        PROVE  \E j \in DOMAIN fired' : fired'[j] = "poll"
    BY <1>7, <2>2, PollsStayInFifo DEF TimerFires
  <2> QED
    BY <1>7, <2>1, <2>2 DEF TimerFires, childVars, queueVars
<1>8. CASE DigestRipens
  BY <1>8 DEF DigestRipens, childVars, queueVars
<1>9. CASE EndDrain
  BY <1>9 DEF EndDrain, Parked, childVars, queueVars
<1>10. CASE DecideFollowup \/ DecidePrompt \/ Dispatch
  BY <1>10 DEF DecideFollowup, DecidePrompt, Dispatch, childVars, queueVars
<1>11. CASE DecideOtherTimer
  <2>1. ASSUME NEW i \in DOMAIN fired, fired[i] = "poll"
        PROVE  \E j \in DOMAIN fired' : fired'[j] = "poll"
    BY <1>11, <2>1, PollsStayInFifo DEF DecideOtherTimer, FiredNext
  <2> QED
    BY <1>11, <2>1 DEF DecideOtherTimer, FiredNext, childVars, queueVars
<1>12. CASE Poll
  BY <1>12 DEF Poll, PollIdly, PollResolves, PollsAgain, PollTimesOut, FiredNext, Complete,
               ResolveWait, childVars, queueVars
<1>13. CASE DecideDigest \/ DecideNothing
  BY <1>13 DEF DecideDigest, DecideNothing, childVars, queueVars
<1>14. CASE Turn
  BY <1>14 DEF Turn, TurnCompletes, TurnUsesTool, TurnRetries, TurnWaitsForAgents, AfterTurn,
               childVars, queueVars
<1> QED
  BY <1>1, <1>2, <1>3, <1>4, <1>5, <1>6, <1>7, <1>8, <1>9, <1>10, <1>11, <1>12, <1>13, <1>14
     DEF Next, Session

-----------------------------------------------------------------------------
(* Inv is an invariant: the session starts without a wait, a report or a    *)
(* timer, and every step keeps Inv.                                         *)
THEOREM Invariance == Spec => []Inv
<1>1. Init => Inv
  <2> SUFFICES ASSUME Init PROVE Inv
    OBVIOUS
  <2>1. reports \in Seq([child : Children, type : {"completed", "wait"}])
        /\ fired \in Seq({"poll", "other"})
    BY DEF Init
  <2>2. polls \in 0 .. MaxPolls /\ fifo \in Nat
    BY AgentWaitConstants DEF Init
  <2>3. actual \in [Children -> Statuses] /\ status \in [Children -> Statuses]
    BY DEF Init, Statuses
  <2>4. TypeOK
    BY <2>1, <2>2, <2>3 DEF Init, TypeOK
  <2> QED
    BY <2>4 DEF Init, Inv, ReportsWereSent, DigestsOfReports, SlotIsEmpty, WaitsAreWatched
<1>2. Inv /\ [Next]_vars => Inv'
  BY TypeStep, WatchStep DEF Inv
<1> QED
  BY <1>1, <1>2, PTL DEF Spec

(* The state of a waiting session is well-formed; a shutdown is never       *)
(* polled beyond its deadline (processTimer for agent-poll).                *)
THEOREM TypeCorrect == Spec => []TypeOK
<1>1. Inv => TypeOK
  BY DEF Inv
<1> QED
  BY <1>1, Invariance, PTL

(* As long as no child reports and no command arrives, a wait for agents    *)
(* keeps its poll: prompts, other timers, retries and further waits leave   *)
(* it in place or end the wait.                                             *)
THEOREM WaitsStayWatched == Spec => []WaitsAreWatched
<1>1. Inv => WaitsAreWatched
  BY DEF Inv
<1> QED
  BY <1>1, Invariance, PTL
=============================================================================
