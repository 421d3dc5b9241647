------------------------ MODULE RegenPipeline_proofs ------------------------
(***************************************************************************)
(* Proofs about RegenPipeline, for any number of attempts, any minimum age *)
(* and any number of retries, with a store and without.                    *)
(*                                                                         *)
(* None of EpochsCounted, NoFlipOverwritten and ProofIsStored is inductive *)
(* alone: each relies on the gate `epoch_unsettled`, which lets an attempt *)
(* begin only when the last flip's pendingEpochCommit has been consumed,   *)
(* and on the boundary record preceding everything in an execution.        *)
(* OneFlipAtATime says so.                                                 *)
(***************************************************************************)
EXTENDS RegenPipeline, TLAPS

(* The strengthening: what holds between the flip, the boundary record, the *)
(* proof of the rebirth and its record.                                     *)
OneFlipAtATime ==
  /\ commit = NoAttempt => ~startPending /\ cmsEpoch = epoch /\ pc # "record"
  /\ commit # NoAttempt =>
       /\ epochOf[commit] = epoch /\ epoch > 0
       /\ (startPending <=> pc # "record")
       /\ IF commit \in committed THEN cmsEpoch = epoch
          ELSE cmsEpoch = epoch - 1 /\ pc \in {"start", "ended"}
  /\ stage # "none" => commit = NoAttempt /\ epochOf[attempt] = 0 /\ attempt \in asked
  /\ \A a \in Attempts : a \in committed \union regenerated => epochOf[a] > 0
  /\ \A a \in Attempts : epochOf[a] > 0 => a \in asked
  /\ versioned => pc \in {"returned", "record", "retry"} /\ epoch \in chains
  /\ pc = "record" /\ Stored => versioned

(* The inductive invariant: the types, the strengthening, the counters and  *)
(* the three safety properties.                                             *)
Inv ==
  /\ TypeOK
  /\ OneFlipAtATime
  /\ regenCount = cmsEpoch
  /\ NoFlipOverwritten
  /\ ProofIsStored
  /\ NoStrayDistiller

(* The session starts in epoch 0, with nothing to prove.                    *)
LEMMA InitInv == Init => Inv
<1> SUFFICES ASSUME Init PROVE Inv
  OBVIOUS
<1>1. CarriedTypeOK
  <2>1. age \in 0 .. MinAge /\ retryCount \in 0 .. MaxRetries /\ epoch \in Nat
    BY RegenPipelineConstants DEF Init
  <2> QED
    BY <2>1, Zenon DEF Init, CarriedTypeOK
<1>2. OtherTypeOK
  BY DEF Init, OtherTypeOK
<1>3. OneFlipAtATime /\ NoFlipOverwritten
  BY DEF Init, OneFlipAtATime, NoFlipOverwritten
<1>4. ProofIsStored /\ NoStrayDistiller /\ regenCount = cmsEpoch
  BY DEF Init, ProofIsStored, NoStrayDistiller
<1> QED
  BY <1>1, <1>2, <1>3, <1>4 DEF Inv, TypeOK

(* Every step keeps the types of what the orchestration carries ...         *)
LEMMA CarriedTypeNext ==
  ASSUME TypeOK, [Next]_vars
  PROVE  CarriedTypeOK'
<1>1. CASE StartLoop
  BY <1>1, RegenPipelineConstants
  DEF StartLoop, RecordEpochCommitted, TypeOK, CarriedTypeOK, regenVars, epochVars, carriedVars
<1>2. CASE BoundaryUnanswered
  BY <1>2, RegenPipelineConstants
  DEF BoundaryUnanswered, RecordEpochCommitted, TypeOK, CarriedTypeOK, regenVars, epochVars,
      carriedVars
<1>3. CASE \E a \in Attempts, source \in {"tool", "parent", "policy", "operator"}, force \in BOOLEAN :
               TakeRegenerate(a, source, force)
  BY <1>3, RegenPipelineConstants
  DEF TakeRegenerate, Taking, Accepts, TypeOK, CarriedTypeOK, regenVars, epochVars, carriedVars
<1>4. CASE TakeCancelRegen
  BY <1>4, RegenPipelineConstants
  DEF TakeCancelRegen, Taking, EndAttempt, cancelInFlightDistiller, TellDistiller, TypeOK,
      CarriedTypeOK, regenVars, epochVars, carriedVars
<1>5. CASE TakeDone
  BY <1>5, RegenPipelineConstants
  DEF TakeDone, Taking, TypeOK, CarriedTypeOK, regenVars, epochVars, carriedVars
<1>6. CASE ShutdownEnds
  BY <1>6, RegenPipelineConstants
  DEF ShutdownEnds, cancelInFlightDistiller, TellDistiller, TypeOK, CarriedTypeOK, regenVars,
      epochVars, carriedVars
<1>7. CASE StageFails
  BY <1>7, RegenPipelineConstants
  DEF StageFails, EndAttempt, cancelInFlightDistiller, TellDistiller, pipelineUnchanged, TypeOK,
      CarriedTypeOK, regenVars, epochVars, carriedVars
<1>8. CASE Archive
  BY <1>8, RegenPipelineConstants
  DEF Archive, Stage, pipelineUnchanged, TypeOK, CarriedTypeOK, regenVars, epochVars, carriedVars
<1>9. CASE DistillDeterministically
  BY <1>9, RegenPipelineConstants
  DEF DistillDeterministically, Stage, pipelineUnchanged, TypeOK, CarriedTypeOK, regenVars,
      epochVars, carriedVars
<1>10. CASE SpawnDistiller
  BY <1>10, RegenPipelineConstants
  DEF SpawnDistiller, Stage, pipelineUnchanged, TypeOK, CarriedTypeOK, regenVars, epochVars,
      carriedVars
<1>11. CASE SpawnFailsLate
  BY <1>11, RegenPipelineConstants
  DEF SpawnFailsLate, Stage, pipelineUnchanged, TypeOK, CarriedTypeOK, regenVars, epochVars,
      carriedVars
<1>12. CASE CollectDistiller
  BY <1>12, RegenPipelineConstants
  DEF CollectDistiller, TellDistiller, Stage, pipelineUnchanged, TypeOK, CarriedTypeOK, regenVars,
      epochVars, carriedVars
<1>13. CASE GiveUpDistiller
  BY <1>13, RegenPipelineConstants
  DEF GiveUpDistiller, TellDistiller, Stage, pipelineUnchanged, TypeOK, CarriedTypeOK, regenVars,
      epochVars, carriedVars
<1>14. CASE Flip
  BY <1>14, RegenPipelineConstants
  DEF Flip, Stage, TypeOK, CarriedTypeOK, regenVars, epochVars, carriedVars
<1>15. CASE Distiller
  BY <1>15, RegenPipelineConstants
  DEF Distiller, DistillerWorks, DistillerObeys, TypeOK, CarriedTypeOK, regenVars, epochVars,
      carriedVars
<1>16. CASE CooldownPasses
  BY <1>16, RegenPipelineConstants
  DEF CooldownPasses, TypeOK, CarriedTypeOK, regenVars, epochVars, carriedVars
<1>17. CASE EndSweep
  BY <1>17, RegenPipelineConstants
  DEF EndSweep, TypeOK, CarriedTypeOK, regenVars, epochVars, carriedVars
<1>18. CASE WaitEnds
  BY <1>18, RegenPipelineConstants
  DEF WaitEnds, TypeOK, CarriedTypeOK, regenVars, epochVars, carriedVars
<1>19. CASE ContinueAsNew
  BY <1>19, RegenPipelineConstants
  DEF ContinueAsNew, TypeOK, CarriedTypeOK, regenVars, epochVars, carriedVars
<1>20. CASE DecideGrounding
  BY <1>20, RegenPipelineConstants
  DEF DecideGrounding, Deciding, TypeOK, CarriedTypeOK, regenVars, epochVars, carriedVars
<1>21. CASE DecidePrompt
  BY <1>21, RegenPipelineConstants
  DEF DecidePrompt, Deciding, TypeOK, CarriedTypeOK, regenVars, epochVars, carriedVars
<1>22. CASE \E result \in {"answered", "error"} : WorkerRunsTurn(result)
  BY <1>22, RegenPipelineConstants
  DEF WorkerRunsTurn, Committing, SdkOfTurn, TypeOK, CarriedTypeOK, regenVars, epochVars,
      carriedVars
<1>23. CASE \E result \in {"refused", "error"} : GateStopsTurn(result)
  BY <1>23, RegenPipelineConstants
  DEF GateStopsTurn, TypeOK, CarriedTypeOK, regenVars, epochVars, carriedVars
<1>24. CASE WorkerFails
  BY <1>24, RegenPipelineConstants
  DEF WorkerFails, Committing, SdkOfTurn, TypeOK, CarriedTypeOK, regenVars, epochVars, carriedVars
<1>25. CASE TurnStopped
  BY <1>25, RegenPipelineConstants
  DEF TurnStopped, Committing, SdkOfTurn, Older, TurnOver, TypeOK, CarriedTypeOK, regenVars,
      epochVars, carriedVars
<1>26. CASE ProveRebirth
  BY <1>26, RegenPipelineConstants
  DEF ProveRebirth, Proven, TypeOK, CarriedTypeOK, regenVars, epochVars, carriedVars
<1>27. CASE RecordRegenerated
  BY <1>27, RegenPipelineConstants
  DEF RecordRegenerated, TypeOK, CarriedTypeOK, regenVars, epochVars, carriedVars
<1>28. CASE RecordFails
  BY <1>28, RegenPipelineConstants
  DEF RecordFails, TypeOK, CarriedTypeOK, regenVars, epochVars, carriedVars
<1>29. CASE TurnAnswered
  <2>1. waiting' \in BOOLEAN
    BY <1>29 DEF TurnAnswered, TypeOK, CarriedTypeOK
  <2>2. age' \in 0 .. MinAge /\ stashed' = {} /\ retryCount' = 0
    BY <1>29, RegenPipelineConstants DEF TurnAnswered, Older, TypeOK, CarriedTypeOK
  <2> QED
    BY <1>29, <2>1, <2>2, RegenPipelineConstants
    DEF TurnAnswered, TypeOK, CarriedTypeOK, regenVars, epochVars
<1>30. CASE TurnRefused
  <2>1. stashed' \subseteq {"bootstrap", "user"}
    BY <1>30 DEF TurnRefused, TypeOK, CarriedTypeOK
  <2> QED
    BY <1>30, <2>1, RegenPipelineConstants
    DEF TurnRefused, TypeOK, CarriedTypeOK, regenVars, epochVars
<1>31. CASE TurnErrs
  BY <1>31, RegenPipelineConstants
  DEF TurnErrs, Judged, Older, TypeOK, CarriedTypeOK, regenVars, epochVars, carriedVars
<1>32. CASE TurnRetries
  BY <1>32, RegenPipelineConstants
  DEF TurnRetries, TurnOver, TypeOK, CarriedTypeOK, regenVars, epochVars, carriedVars
<1>33. CASE TurnGivesUp
  BY <1>33, RegenPipelineConstants
  DEF TurnGivesUp, TurnOver, TypeOK, CarriedTypeOK, regenVars, epochVars, carriedVars
<1>34. CASE TurnFatal
  BY <1>34, RegenPipelineConstants
  DEF TurnFatal, TurnOver, TypeOK, CarriedTypeOK, regenVars, epochVars, carriedVars
<1>35. CASE UNCHANGED vars
  BY <1>35, RegenPipelineConstants
  DEF TypeOK, CarriedTypeOK, vars, regenVars, epochVars, carriedVars
<1> QED
  BY <1>1, <1>2, <1>3, <1>4, <1>5, <1>6, <1>7, <1>8, <1>9, <1>10, <1>11, <1>12, <1>13, <1>14, <1>15, <1>16, <1>17, <1>18, <1>19, <1>20, <1>21, <1>22, <1>23, <1>24, <1>25, <1>26, <1>27, <1>28, <1>29, <1>30, <1>31, <1>32, <1>33, <1>34, <1>35
  DEF Next, Command, Pipeline, Advance, Turn

(* ... and the other types.                                                 *)
LEMMA OtherTypeNext ==
  ASSUME TypeOK, OneFlipAtATime, [Next]_vars
  PROVE  OtherTypeOK'
<1>1. CASE StartLoop
  BY <1>1, RegenPipelineConstants
  DEF StartLoop, RecordEpochCommitted, TypeOK, CarriedTypeOK, OtherTypeOK, OneFlipAtATime,
      epochVars, turnVars, cmsVars, workerVars, distilVars
<1>2. CASE BoundaryUnanswered
  BY <1>2, RegenPipelineConstants
  DEF BoundaryUnanswered, RecordEpochCommitted, TypeOK, CarriedTypeOK, OtherTypeOK,
      OneFlipAtATime, epochVars, turnVars, cmsVars, workerVars, distilVars
<1>3. CASE \E a \in Attempts, source \in {"tool", "parent", "policy", "operator"}, force \in BOOLEAN :
               TakeRegenerate(a, source, force)
  BY <1>3, RegenPipelineConstants
  DEF TakeRegenerate, Taking, Accepts, TypeOK, CarriedTypeOK, OtherTypeOK, OneFlipAtATime,
      epochVars, turnVars, cmsVars, workerVars, distilVars
<1>4. CASE TakeCancelRegen
  BY <1>4, RegenPipelineConstants
  DEF TakeCancelRegen, Taking, EndAttempt, cancelInFlightDistiller, TellDistiller, TypeOK,
      CarriedTypeOK, OtherTypeOK, OneFlipAtATime, epochVars, turnVars, cmsVars, workerVars,
      distilVars
<1>5. CASE TakeDone
  BY <1>5, RegenPipelineConstants
  DEF TakeDone, Taking, TypeOK, CarriedTypeOK, OtherTypeOK, OneFlipAtATime, epochVars, turnVars,
      cmsVars, workerVars, distilVars
<1>6. CASE ShutdownEnds
  BY <1>6, RegenPipelineConstants
  DEF ShutdownEnds, cancelInFlightDistiller, TellDistiller, TypeOK, CarriedTypeOK, OtherTypeOK,
      OneFlipAtATime, epochVars, turnVars, cmsVars, workerVars, distilVars
<1>7. CASE StageFails
  BY <1>7, RegenPipelineConstants
  DEF StageFails, EndAttempt, cancelInFlightDistiller, TellDistiller, pipelineUnchanged, TypeOK,
      CarriedTypeOK, OtherTypeOK, OneFlipAtATime, epochVars, turnVars, cmsVars, workerVars,
      distilVars
<1>8. CASE Archive
  BY <1>8, RegenPipelineConstants
  DEF Archive, Stage, pipelineUnchanged, TypeOK, CarriedTypeOK, OtherTypeOK, OneFlipAtATime,
      epochVars, turnVars, cmsVars, workerVars, distilVars
<1>9. CASE DistillDeterministically
  BY <1>9, RegenPipelineConstants
  DEF DistillDeterministically, Stage, pipelineUnchanged, TypeOK, CarriedTypeOK, OtherTypeOK,
      OneFlipAtATime, epochVars, turnVars, cmsVars, workerVars, distilVars
<1>10. CASE SpawnDistiller
  BY <1>10, RegenPipelineConstants
  DEF SpawnDistiller, Stage, pipelineUnchanged, TypeOK, CarriedTypeOK, OtherTypeOK,
      OneFlipAtATime, epochVars, turnVars, cmsVars, workerVars, distilVars
<1>11. CASE SpawnFailsLate
  BY <1>11, RegenPipelineConstants
  DEF SpawnFailsLate, Stage, pipelineUnchanged, TypeOK, CarriedTypeOK, OtherTypeOK,
      OneFlipAtATime, epochVars, turnVars, cmsVars, workerVars, distilVars
<1>12. CASE CollectDistiller
  BY <1>12, RegenPipelineConstants
  DEF CollectDistiller, TellDistiller, Stage, pipelineUnchanged, TypeOK, CarriedTypeOK,
      OtherTypeOK, OneFlipAtATime, epochVars, turnVars, cmsVars, workerVars, distilVars
<1>13. CASE GiveUpDistiller
  BY <1>13, RegenPipelineConstants
  DEF GiveUpDistiller, TellDistiller, Stage, pipelineUnchanged, TypeOK, CarriedTypeOK,
      OtherTypeOK, OneFlipAtATime, epochVars, turnVars, cmsVars, workerVars, distilVars
<1>14. CASE Flip
  BY <1>14, RegenPipelineConstants
  DEF Flip, Stage, TypeOK, CarriedTypeOK, OtherTypeOK, OneFlipAtATime, epochVars, turnVars,
      cmsVars, workerVars, distilVars
<1>15. CASE Distiller
  <2>1. PICK a \in Attempts : DistillerWorks(a) \/ DistillerObeys(a)
    BY <1>15 DEF Distiller
  <2>2. \E s \in {"answered", "failed", "ended"} : distiller' = [distiller EXCEPT ![a] = s]
    BY <2>1 DEF DistillerWorks, DistillerObeys
  <2>3. distiller' \in [Attempts -> {"none", "working", "answered", "failed", "ended"}]
    BY <2>2 DEF TypeOK, OtherTypeOK
  <2> QED
    BY <2>1, <2>3
    DEF DistillerWorks, DistillerObeys, TypeOK, OtherTypeOK, turnVars, cmsVars, workerVars,
        epochVars
<1>16. CASE CooldownPasses
  BY <1>16, RegenPipelineConstants
  DEF CooldownPasses, TypeOK, CarriedTypeOK, OtherTypeOK, OneFlipAtATime, epochVars, turnVars,
      cmsVars, workerVars, distilVars
<1>17. CASE EndSweep
  BY <1>17, RegenPipelineConstants
  DEF EndSweep, TypeOK, CarriedTypeOK, OtherTypeOK, OneFlipAtATime, epochVars, turnVars, cmsVars,
      workerVars, distilVars
<1>18. CASE WaitEnds
  BY <1>18, RegenPipelineConstants
  DEF WaitEnds, TypeOK, CarriedTypeOK, OtherTypeOK, OneFlipAtATime, epochVars, turnVars, cmsVars,
      workerVars, distilVars
<1>19. CASE ContinueAsNew
  BY <1>19, RegenPipelineConstants
  DEF ContinueAsNew, TypeOK, CarriedTypeOK, OtherTypeOK, OneFlipAtATime, epochVars, turnVars,
      cmsVars, workerVars, distilVars
<1>20. CASE DecideGrounding
  BY <1>20, RegenPipelineConstants
  DEF DecideGrounding, Deciding, TypeOK, CarriedTypeOK, OtherTypeOK, OneFlipAtATime, epochVars,
      turnVars, cmsVars, workerVars, distilVars
<1>21. CASE DecidePrompt
  BY <1>21, RegenPipelineConstants
  DEF DecidePrompt, Deciding, TypeOK, CarriedTypeOK, OtherTypeOK, OneFlipAtATime, epochVars,
      turnVars, cmsVars, workerVars, distilVars
<1>22. CASE \E result \in {"answered", "error"} : WorkerRunsTurn(result)
  BY <1>22, RegenPipelineConstants
  DEF WorkerRunsTurn, Committing, SdkOfTurn, TypeOK, CarriedTypeOK, OtherTypeOK, OneFlipAtATime,
      epochVars, turnVars, cmsVars, workerVars, distilVars
<1>23. CASE \E result \in {"refused", "error"} : GateStopsTurn(result)
  BY <1>23, RegenPipelineConstants
  DEF GateStopsTurn, TypeOK, CarriedTypeOK, OtherTypeOK, OneFlipAtATime, epochVars, turnVars,
      cmsVars, workerVars, distilVars
<1>24. CASE WorkerFails
  BY <1>24, RegenPipelineConstants
  DEF WorkerFails, Committing, SdkOfTurn, TypeOK, CarriedTypeOK, OtherTypeOK, OneFlipAtATime,
      epochVars, turnVars, cmsVars, workerVars, distilVars
<1>25. CASE TurnStopped
  BY <1>25, RegenPipelineConstants
  DEF TurnStopped, Committing, SdkOfTurn, Older, TurnOver, TypeOK, CarriedTypeOK, OtherTypeOK,
      OneFlipAtATime, epochVars, turnVars, cmsVars, workerVars, distilVars
<1>26. CASE ProveRebirth
  BY <1>26, RegenPipelineConstants
  DEF ProveRebirth, Proven, TypeOK, CarriedTypeOK, OtherTypeOK, OneFlipAtATime, epochVars,
      turnVars, cmsVars, workerVars, distilVars
<1>27. CASE RecordRegenerated
  BY <1>27, RegenPipelineConstants
  DEF RecordRegenerated, TypeOK, CarriedTypeOK, OtherTypeOK, OneFlipAtATime, epochVars, turnVars,
      cmsVars, workerVars, distilVars
<1>28. CASE RecordFails
  BY <1>28, RegenPipelineConstants
  DEF RecordFails, TypeOK, CarriedTypeOK, OtherTypeOK, OneFlipAtATime, epochVars, turnVars,
      cmsVars, workerVars, distilVars
<1>29. CASE TurnAnswered
  BY <1>29, RegenPipelineConstants
  DEF TurnAnswered, Judged, Older, TurnOver, TypeOK, CarriedTypeOK, OtherTypeOK, OneFlipAtATime,
      epochVars, turnVars, cmsVars, workerVars, distilVars
<1>30. CASE TurnRefused
  BY <1>30, RegenPipelineConstants
  DEF TurnRefused, Judged, TurnOver, TypeOK, CarriedTypeOK, OtherTypeOK, OneFlipAtATime,
      epochVars, turnVars, cmsVars, workerVars, distilVars
<1>31. CASE TurnErrs
  BY <1>31, RegenPipelineConstants
  DEF TurnErrs, Judged, Older, TypeOK, CarriedTypeOK, OtherTypeOK, OneFlipAtATime, epochVars,
      turnVars, cmsVars, workerVars, distilVars
<1>32. CASE TurnRetries
  BY <1>32, RegenPipelineConstants
  DEF TurnRetries, TurnOver, TypeOK, CarriedTypeOK, OtherTypeOK, OneFlipAtATime, epochVars,
      turnVars, cmsVars, workerVars, distilVars
<1>33. CASE TurnGivesUp
  BY <1>33, RegenPipelineConstants
  DEF TurnGivesUp, TurnOver, TypeOK, CarriedTypeOK, OtherTypeOK, OneFlipAtATime, epochVars,
      turnVars, cmsVars, workerVars, distilVars
<1>34. CASE TurnFatal
  BY <1>34, RegenPipelineConstants
  DEF TurnFatal, TurnOver, TypeOK, CarriedTypeOK, OtherTypeOK, OneFlipAtATime, epochVars,
      turnVars, cmsVars, workerVars, distilVars
<1>35. CASE UNCHANGED vars
  BY <1>35, RegenPipelineConstants
  DEF TypeOK, CarriedTypeOK, OtherTypeOK, OneFlipAtATime, vars, epochVars, turnVars, cmsVars,
      workerVars, distilVars
<1> QED
  BY <1>1, <1>2, <1>3, <1>4, <1>5, <1>6, <1>7, <1>8, <1>9, <1>10, <1>11, <1>12, <1>13, <1>14, <1>15, <1>16, <1>17, <1>18, <1>19, <1>20, <1>21, <1>22, <1>23, <1>24, <1>25, <1>26, <1>27, <1>28, <1>29, <1>30, <1>31, <1>32, <1>33, <1>34, <1>35
  DEF Next, Command, Pipeline, Advance, Turn

(* Every step keeps what is said about flips: the gate of `regenerate` and  *)
(* the order of runLoop are what it needs.                                  *)
LEMMA FlipNext ==
  ASSUME TypeOK, OneFlipAtATime, [Next]_vars
  PROVE  OneFlipAtATime'
<1>1. CASE StartLoop
  BY <1>1, RegenPipelineConstants
  DEF StartLoop, RecordEpochCommitted, TypeOK, CarriedTypeOK, OtherTypeOK, OneFlipAtATime,
      regenVars, epochVars, turnVars, cmsVars, workerVars
<1>2. CASE BoundaryUnanswered
  BY <1>2, RegenPipelineConstants
  DEF BoundaryUnanswered, RecordEpochCommitted, TypeOK, CarriedTypeOK, OtherTypeOK,
      OneFlipAtATime, regenVars, epochVars, turnVars, cmsVars, workerVars
<1>3. CASE \E a \in Attempts, source \in {"tool", "parent", "policy", "operator"}, force \in BOOLEAN :
               TakeRegenerate(a, source, force)
  BY <1>3, RegenPipelineConstants
  DEF TakeRegenerate, Taking, Accepts, TypeOK, CarriedTypeOK, OtherTypeOK, OneFlipAtATime,
      regenVars, epochVars, turnVars, cmsVars, workerVars
<1>4. CASE TakeCancelRegen
  BY <1>4, RegenPipelineConstants
  DEF TakeCancelRegen, Taking, EndAttempt, cancelInFlightDistiller, TellDistiller, TypeOK,
      CarriedTypeOK, OtherTypeOK, OneFlipAtATime, regenVars, epochVars, turnVars, cmsVars,
      workerVars
<1>5. CASE TakeDone
  BY <1>5, RegenPipelineConstants
  DEF TakeDone, Taking, TypeOK, CarriedTypeOK, OtherTypeOK, OneFlipAtATime, regenVars, epochVars,
      turnVars, cmsVars, workerVars
<1>6. CASE ShutdownEnds
  BY <1>6, RegenPipelineConstants
  DEF ShutdownEnds, cancelInFlightDistiller, TellDistiller, TypeOK, CarriedTypeOK, OtherTypeOK,
      OneFlipAtATime, regenVars, epochVars, turnVars, cmsVars, workerVars
<1>7. CASE StageFails
  BY <1>7, RegenPipelineConstants
  DEF StageFails, EndAttempt, cancelInFlightDistiller, TellDistiller, pipelineUnchanged, TypeOK,
      CarriedTypeOK, OtherTypeOK, OneFlipAtATime, regenVars, epochVars, turnVars, cmsVars,
      workerVars
<1>8. CASE Archive
  BY <1>8, RegenPipelineConstants
  DEF Archive, Stage, pipelineUnchanged, TypeOK, CarriedTypeOK, OtherTypeOK, OneFlipAtATime,
      regenVars, epochVars, turnVars, cmsVars, workerVars
<1>9. CASE DistillDeterministically
  BY <1>9, RegenPipelineConstants
  DEF DistillDeterministically, Stage, pipelineUnchanged, TypeOK, CarriedTypeOK, OtherTypeOK,
      OneFlipAtATime, regenVars, epochVars, turnVars, cmsVars, workerVars
<1>10. CASE SpawnDistiller
  BY <1>10, RegenPipelineConstants
  DEF SpawnDistiller, Stage, pipelineUnchanged, TypeOK, CarriedTypeOK, OtherTypeOK,
      OneFlipAtATime, regenVars, epochVars, turnVars, cmsVars, workerVars
<1>11. CASE SpawnFailsLate
  BY <1>11, RegenPipelineConstants
  DEF SpawnFailsLate, Stage, pipelineUnchanged, TypeOK, CarriedTypeOK, OtherTypeOK,
      OneFlipAtATime, regenVars, epochVars, turnVars, cmsVars, workerVars
<1>12. CASE CollectDistiller
  BY <1>12, RegenPipelineConstants
  DEF CollectDistiller, TellDistiller, Stage, pipelineUnchanged, TypeOK, CarriedTypeOK,
      OtherTypeOK, OneFlipAtATime, regenVars, epochVars, turnVars, cmsVars, workerVars
<1>13. CASE GiveUpDistiller
  BY <1>13, RegenPipelineConstants
  DEF GiveUpDistiller, TellDistiller, Stage, pipelineUnchanged, TypeOK, CarriedTypeOK,
      OtherTypeOK, OneFlipAtATime, regenVars, epochVars, turnVars, cmsVars, workerVars
<1>14. CASE Flip
  BY <1>14, RegenPipelineConstants
  DEF Flip, Stage, TypeOK, CarriedTypeOK, OtherTypeOK, OneFlipAtATime, regenVars, epochVars,
      turnVars, cmsVars, workerVars
<1>15. CASE Distiller
  BY <1>15, RegenPipelineConstants
  DEF Distiller, DistillerWorks, DistillerObeys, TypeOK, CarriedTypeOK, OtherTypeOK,
      OneFlipAtATime, regenVars, epochVars, turnVars, cmsVars, workerVars
<1>16. CASE CooldownPasses
  BY <1>16, RegenPipelineConstants
  DEF CooldownPasses, TypeOK, CarriedTypeOK, OtherTypeOK, OneFlipAtATime, regenVars, epochVars,
      turnVars, cmsVars, workerVars
<1>17. CASE EndSweep
  BY <1>17, RegenPipelineConstants
  DEF EndSweep, TypeOK, CarriedTypeOK, OtherTypeOK, OneFlipAtATime, regenVars, epochVars,
      turnVars, cmsVars, workerVars
<1>18. CASE WaitEnds
  BY <1>18, RegenPipelineConstants
  DEF WaitEnds, TypeOK, CarriedTypeOK, OtherTypeOK, OneFlipAtATime, regenVars, epochVars,
      turnVars, cmsVars, workerVars
<1>19. CASE ContinueAsNew
  BY <1>19, RegenPipelineConstants
  DEF ContinueAsNew, TypeOK, CarriedTypeOK, OtherTypeOK, OneFlipAtATime, regenVars, epochVars,
      turnVars, cmsVars, workerVars
<1>20. CASE DecideGrounding
  BY <1>20, RegenPipelineConstants
  DEF DecideGrounding, Deciding, TypeOK, CarriedTypeOK, OtherTypeOK, OneFlipAtATime, regenVars,
      epochVars, turnVars, cmsVars, workerVars
<1>21. CASE DecidePrompt
  BY <1>21, RegenPipelineConstants
  DEF DecidePrompt, Deciding, TypeOK, CarriedTypeOK, OtherTypeOK, OneFlipAtATime, regenVars,
      epochVars, turnVars, cmsVars, workerVars
<1>22. CASE \E result \in {"answered", "error"} : WorkerRunsTurn(result)
  <2>1. PICK result \in {"answered", "error"} : WorkerRunsTurn(result)
    BY <1>22
  <2>2. /\ UNCHANGED <<regenVars, epochVars, cmsVars, asked>>
        /\ pc = "turn" /\ pc' = "returned"
    BY <2>1 DEF WorkerRunsTurn
  <2>3. versioned' => epoch \in chains'
    BY <2>1, RegenPipelineConstants DEF WorkerRunsTurn, Committing
  <2> QED
    BY <2>2, <2>3 DEF OneFlipAtATime, regenVars, epochVars, cmsVars
<1>23. CASE \E result \in {"refused", "error"} : GateStopsTurn(result)
  BY <1>23, RegenPipelineConstants
  DEF GateStopsTurn, TypeOK, CarriedTypeOK, OtherTypeOK, OneFlipAtATime, regenVars, epochVars,
      turnVars, cmsVars, workerVars
<1>24. CASE WorkerFails
  BY <1>24, RegenPipelineConstants
  DEF WorkerFails, Committing, SdkOfTurn, TypeOK, CarriedTypeOK, OtherTypeOK, OneFlipAtATime,
      regenVars, epochVars, turnVars, cmsVars, workerVars
<1>25. CASE TurnStopped
  BY <1>25, RegenPipelineConstants
  DEF TurnStopped, Committing, SdkOfTurn, Older, TurnOver, TypeOK, CarriedTypeOK, OtherTypeOK,
      OneFlipAtATime, regenVars, epochVars, turnVars, cmsVars, workerVars
<1>26. CASE ProveRebirth
  BY <1>26, RegenPipelineConstants
  DEF ProveRebirth, Proven, TypeOK, CarriedTypeOK, OtherTypeOK, OneFlipAtATime, regenVars,
      epochVars, turnVars, cmsVars, workerVars
<1>27. CASE RecordRegenerated
  BY <1>27, RegenPipelineConstants
  DEF RecordRegenerated, TypeOK, CarriedTypeOK, OtherTypeOK, OneFlipAtATime, regenVars, epochVars,
      turnVars, cmsVars, workerVars
<1>28. CASE RecordFails
  BY <1>28, RegenPipelineConstants
  DEF RecordFails, TypeOK, CarriedTypeOK, OtherTypeOK, OneFlipAtATime, regenVars, epochVars,
      turnVars, cmsVars, workerVars
<1>29. CASE TurnAnswered
  BY <1>29, RegenPipelineConstants
  DEF TurnAnswered, Judged, Older, TurnOver, TypeOK, CarriedTypeOK, OtherTypeOK, OneFlipAtATime,
      regenVars, epochVars, turnVars, cmsVars, workerVars
<1>30. CASE TurnRefused
  BY <1>30, RegenPipelineConstants
  DEF TurnRefused, Judged, TurnOver, TypeOK, CarriedTypeOK, OtherTypeOK, OneFlipAtATime,
      regenVars, epochVars, turnVars, cmsVars, workerVars
<1>31. CASE TurnErrs
  BY <1>31, RegenPipelineConstants
  DEF TurnErrs, Judged, Older, TypeOK, CarriedTypeOK, OtherTypeOK, OneFlipAtATime, regenVars,
      epochVars, turnVars, cmsVars, workerVars
<1>32. CASE TurnRetries
  BY <1>32, RegenPipelineConstants
  DEF TurnRetries, TurnOver, TypeOK, CarriedTypeOK, OtherTypeOK, OneFlipAtATime, regenVars,
      epochVars, turnVars, cmsVars, workerVars
<1>33. CASE TurnGivesUp
  BY <1>33, RegenPipelineConstants
  DEF TurnGivesUp, TurnOver, TypeOK, CarriedTypeOK, OtherTypeOK, OneFlipAtATime, regenVars,
      epochVars, turnVars, cmsVars, workerVars
<1>34. CASE TurnFatal
  BY <1>34, RegenPipelineConstants
  DEF TurnFatal, TurnOver, TypeOK, CarriedTypeOK, OtherTypeOK, OneFlipAtATime, regenVars,
      epochVars, turnVars, cmsVars, workerVars
<1>35. CASE UNCHANGED vars
  BY <1>35, RegenPipelineConstants
  DEF TypeOK, CarriedTypeOK, OtherTypeOK, OneFlipAtATime, vars, regenVars, epochVars, turnVars,
      cmsVars, workerVars
<1> QED
  BY <1>1, <1>2, <1>3, <1>4, <1>5, <1>6, <1>7, <1>8, <1>9, <1>10, <1>11, <1>12, <1>13, <1>14, <1>15, <1>16, <1>17, <1>18, <1>19, <1>20, <1>21, <1>22, <1>23, <1>24, <1>25, <1>26, <1>27, <1>28, <1>29, <1>30, <1>31, <1>32, <1>33, <1>34, <1>35
  DEF Next, Command, Pipeline, Advance, Turn

flipVars == <<commit, epoch, epochOf, regenerated, unrecorded, cmsEpoch, regenCount, chains>>

(* Most steps of the session leave the record of its flips alone.           *)
LEMMA OffTheRecord ==
  ASSUME Command \/ ShutdownEnds \/ Distiller \/ CooldownPasses \/ DecideGrounding
         \/ DecidePrompt \/ EndSweep \/ WaitEnds \/ ContinueAsNew
  PROVE  UNCHANGED flipVars
<1>1. CASE Command
  BY <1>1
  DEF Command, TakeRegenerate, TakeCancelRegen, TakeDone, flipVars, epochVars, cmsVars, workerVars
<1>2. CASE ShutdownEnds \/ DecideGrounding \/ DecidePrompt \/ EndSweep
  BY <1>2
  DEF ShutdownEnds, DecideGrounding, DecidePrompt, EndSweep, flipVars, epochVars, cmsVars,
      workerVars
<1>3. CASE Distiller \/ CooldownPasses \/ WaitEnds \/ ContinueAsNew
  BY <1>3
  DEF Distiller, DistillerWorks, DistillerObeys, CooldownPasses, WaitEnds, ContinueAsNew, flipVars,
      epochVars, cmsVars, workerVars
<1> QED
  BY <1>1, <1>2, <1>3

(* Nor does the pipeline touch it before the flip.                          *)
LEMMA PipelineOffTheRecord ==
  ASSUME Pipeline, ~Flip
  PROVE  UNCHANGED flipVars
BY DEF Pipeline, Advance, Archive, DistillDeterministically, SpawnDistiller, CollectDistiller,
       GiveUpDistiller, StageFails, SpawnFailsLate, pipelineUnchanged, flipVars, epochVars, cmsVars,
       workerVars

(* Every step keeps the count of the epochs, and what is said about the     *)
(* flips that are proved and those that are not.                            *)
LEMMA RecordNext ==
  ASSUME TypeOK, OneFlipAtATime, regenCount = cmsEpoch, NoFlipOverwritten, ProofIsStored,
         [Next]_vars
  PROVE  (regenCount = cmsEpoch)' /\ NoFlipOverwritten' /\ ProofIsStored'
<1>1. CASE UNCHANGED flipVars
  BY <1>1 DEF flipVars, NoFlipOverwritten, ProofIsStored
<1>2. CASE StartLoop \/ BoundaryUnanswered
  <2>1. UNCHANGED <<commit, epoch, epochOf, regenerated, unrecorded, chains>>
    BY <1>2 DEF StartLoop, BoundaryUnanswered, epochVars, workerVars
  <2>2. (regenCount = cmsEpoch)'
    <3>1. CASE UNCHANGED <<regenCount, cmsEpoch>>
      BY <3>1
    <3>2. CASE RecordEpochCommitted /\ commit \notin committed /\ commit # NoAttempt
      BY <3>2 DEF RecordEpochCommitted, OneFlipAtATime, TypeOK, CarriedTypeOK, OtherTypeOK
    <3> QED
      BY <1>2, <3>1, <3>2 DEF StartLoop, BoundaryUnanswered, RecordEpochCommitted
  <2> QED
    BY <2>1, <2>2 DEF NoFlipOverwritten, ProofIsStored
<1>3. CASE Flip
  <2>1. commit = NoAttempt /\ attempt \in Attempts
    BY <1>3 DEF Flip, Stage, OneFlipAtATime, TypeOK, CarriedTypeOK
  <2>2. attempt \notin regenerated
    BY <1>3, <2>1 DEF Flip, Stage, OneFlipAtATime, TypeOK, OtherTypeOK
  <2>3. NoFlipOverwritten'
    BY <1>3, <2>1, RegenPipelineConstants
    DEF Flip, NoFlipOverwritten, TypeOK, CarriedTypeOK, OtherTypeOK, cmsVars
  <2>4. ProofIsStored'
    BY <1>3, <2>2 DEF Flip, ProofIsStored, TypeOK, OtherTypeOK, cmsVars, workerVars
  <2> QED
    BY <1>3, <2>3, <2>4 DEF Flip, cmsVars
<1>4. CASE RecordRegenerated
  <2>1. Stored => epochOf[commit] \in chains
    BY <1>4 DEF RecordRegenerated, OneFlipAtATime
  <2>2. commit \in Attempts
    BY <1>4 DEF RecordRegenerated, OneFlipAtATime, TypeOK, CarriedTypeOK
  <2> QED
    BY <1>4, <2>1, <2>2 DEF RecordRegenerated, NoFlipOverwritten, ProofIsStored, workerVars
<1>5. CASE RecordFails
  BY <1>5 DEF RecordFails, NoFlipOverwritten, ProofIsStored, workerVars
<1>6. CASE Turn /\ ~RecordRegenerated /\ ~RecordFails
  <2>1. /\ UNCHANGED <<commit, epoch, epochOf, regenerated, unrecorded, cmsEpoch, regenCount>>
        /\ chains \subseteq chains'
    BY <1>6
    DEF Turn, WorkerRunsTurn, GateStopsTurn, WorkerFails, TurnStopped, ProveRebirth, TurnAnswered,
        TurnRefused, TurnErrs, TurnRetries, TurnGivesUp, TurnFatal, Committing, epochVars, cmsVars,
        workerVars
  <2> QED
    BY <2>1 DEF NoFlipOverwritten, ProofIsStored
<1>7. CASE UNCHANGED vars
  BY <1>1, <1>7 DEF vars, flipVars, epochVars, cmsVars, workerVars
<1> QED
  BY <1>1, <1>2, <1>3, <1>4, <1>5, <1>6, <1>7, OffTheRecord, PipelineOffTheRecord
  DEF Next

(* A stage that tells its distiller to end, or records that it could not,   *)
(* may leave it; the others keep the attempt or have no distiller at work.  *)
LEMMA StrayNext ==
  ASSUME TypeOK, OneFlipAtATime, NoStrayDistiller, [Next]_vars
  PROVE  NoStrayDistiller'
<1>1. CASE UNCHANGED <<stage, attempt, distiller, told, lost>>
  BY <1>1 DEF NoStrayDistiller
<1>2. CASE stage # "distilling" /\ UNCHANGED <<distiller, told, lost>>
  BY <1>2 DEF NoStrayDistiller
<1>3. CASE EndAttempt /\ UNCHANGED distiller
  BY <1>3 DEF NoStrayDistiller, EndAttempt, cancelInFlightDistiller, TellDistiller
<1>4. CASE ShutdownEnds
  BY <1>4 DEF ShutdownEnds, NoStrayDistiller, cancelInFlightDistiller, TellDistiller, regenVars
<1>5. CASE SpawnDistiller \/ SpawnFailsLate
  BY <1>5 DEF SpawnDistiller, SpawnFailsLate, Stage, NoStrayDistiller, TypeOK, OtherTypeOK
<1>6. CASE CollectDistiller \/ GiveUpDistiller
  BY <1>6 DEF CollectDistiller, GiveUpDistiller, Stage, TellDistiller, NoStrayDistiller
<1>7. CASE Distiller
  <2>1. PICK a \in Attempts : DistillerWorks(a) \/ DistillerObeys(a)
    BY <1>7 DEF Distiller
  <2> QED
    BY <2>1
    DEF DistillerWorks, DistillerObeys, NoStrayDistiller, TypeOK, OtherTypeOK, regenVars
<1>8. CASE Command
  BY <1>1, <1>2, <1>3, <1>8
  DEF Command, TakeRegenerate, TakeCancelRegen, TakeDone, Accepts, regenVars, distilVars
<1>9. CASE Archive \/ DistillDeterministically \/ Flip \/ StageFails
  BY <1>2, <1>3, <1>9
  DEF Archive, DistillDeterministically, Flip, StageFails, Stage, distilVars
<1>10. CASE Turn
  BY <1>1, <1>10
  DEF Turn, WorkerRunsTurn, GateStopsTurn, WorkerFails, TurnStopped, ProveRebirth,
      RecordRegenerated, RecordFails, TurnAnswered, TurnRefused, TurnErrs, TurnRetries, TurnGivesUp,
      TurnFatal, regenVars, distilVars
<1>11. CASE StartLoop \/ BoundaryUnanswered \/ CooldownPasses \/ DecideGrounding \/ DecidePrompt
            \/ EndSweep \/ WaitEnds \/ ContinueAsNew \/ UNCHANGED vars
  BY <1>1, <1>11
  DEF StartLoop, BoundaryUnanswered, CooldownPasses, DecideGrounding, DecidePrompt, EndSweep,
      WaitEnds, ContinueAsNew, vars, regenVars, distilVars
<1> QED
  BY <1>4, <1>5, <1>6, <1>7, <1>8, <1>9, <1>10, <1>11 DEF Next, Pipeline, Advance

(* The invariant is inductive.                                              *)
LEMMA InvNext == Inv /\ [Next]_vars => Inv'
BY CarriedTypeNext, OtherTypeNext, FlipNext, RecordNext, StrayNext DEF Inv, TypeOK

(* The invariant implies what the runs check.                               *)
LEMMA InvSuffices ==
  Inv => TypeOK /\ EpochsCounted /\ NoFlipOverwritten /\ ProofIsStored /\ NoStrayDistiller
BY DEF Inv, OneFlipAtATime, EpochsCounted, TypeOK, CarriedTypeOK, OtherTypeOK

(* The invariant holds in every reachable state.                            *)
THEOREM SpecInv == Spec => []Inv
BY InitInv, InvNext, PTL DEF Spec

(* Every variable keeps its type, and a turn is retried within the limit.   *)
THEOREM SpecTypeOK == Spec => []TypeOK
BY SpecInv, InvSuffices, PTL

(* However often commitEpochBoundary runs for a flip, and whatever ends an  *)
(* execution, the CMS counts every epoch once and is not behind an epoch    *)
(* whose loop has begun.                                                    *)
THEOREM SpecCountsEpochs == Spec => []EpochsCounted
BY SpecInv, InvSuffices, PTL

(* The gate `epoch_unsettled` suffices: no flip replaces the                *)
(* pendingEpochCommit of one that has not been proved.                      *)
THEOREM SpecKeepsFlips == Spec => []NoFlipOverwritten
BY SpecInv, InvSuffices, PTL

(* With a store, an epoch announced by session.regenerated has a snapshot.  *)
THEOREM SpecStoresProof == Spec => []ProofIsStored
BY SpecInv, InvSuffices, PTL

(* Whatever ends an attempt, its distiller is told to end or is known to be *)
(* out of reach.                                                            *)
THEOREM SpecLeavesNoDistiller == Spec => []NoStrayDistiller
BY SpecInv, InvSuffices, PTL
=============================================================================
