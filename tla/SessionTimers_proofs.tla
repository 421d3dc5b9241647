------------------------ MODULE SessionTimers_proofs ------------------------
(***************************************************************************)
(* Proofs about SessionTimers, for any lengths of waits, pauses, schedules, *)
(* hold windows and grace periods, with and without a hold window or a      *)
(* grace period, and for any number of messages.                            *)
(*                                                                          *)
(* The wait an agent asked for, the flag of a pause and the occurrence of a *)
(* wall-clock schedule all travel through the one timer slot, the held      *)
(* timer and the FIFO.  Slots says which combinations of the three the loop *)
(* can be in; RecurringAlive, WaitKept, PauseNotResumed and WallClockOnTime *)
(* follow from it.                                                          *)
(***************************************************************************)
EXTENDS SessionTimers, SequenceTheorems, TLAPS

(* The types of the timer slot, of the FIFO, of the flags and of the loop.  *)
SlotTypes ==
  /\ timer \in [type : TimerTypes, left : Nat, budget : BOOLEAN]
  /\ held \in [type : {"none", "wait", "pause"}, left : Nat \union {-1}, budget : BOOLEAN]
  /\ heldCron \in -1 .. Interval
  /\ schedule \in {"none", "cron", "cron_at"}
  /\ at \in [next : -1 .. 2, last : 0 .. 2, fires : 0 .. MaxFires - 1, to : 1 .. Period]
  /\ timer.type = "cron" => timer.left <= Interval

FifoTypes == fifo \in Seq(Messages \union TimerTypes)

FlagTypes ==
  /\ pending \in BOOLEAN /\ question \in BOOLEAN /\ owed \in BOOLEAN
  /\ leftover \in BOOLEAN /\ fresh \in BOOLEAN /\ unflagged \in BOOLEAN

LoopTypes ==
  /\ pc \in {"top", "drain", "decide", "turn"}
  /\ digest \in {"none", "buffered", "urgent", "ready"}
  /\ sent \in 0 .. MaxMessages

Types == SlotTypes /\ FifoTypes /\ FlagTypes /\ LoopTypes

(* Only the agent's own waits and the pauses are held; while one of them is *)
(* armed, nothing is held; a wait has no budget flag.                       *)
Slots ==
  /\ held.left > 0 => IsWait(held)
  /\ IsWait(timer) => held.left <= 0
  /\ timer.type = "wait" => ~timer.budget
  /\ held.type = "wait" => ~held.budget
  /\ pc = "decide" /\ Armed => timer.left > 0

(* What the FIFO holds that will run a turn.                                *)
Wakes == {"prompt", "answer", "remark", "wait", "pause", schedule}

(* The armed timer of a schedule is one of the schedule that is set.        *)
TimerFits ==
  schedule # "none" /\ lapsed = {} /\ timer.type \in {"cron", "cron_at"} => timer.type = schedule

(* Outside a turn, a session with a schedule has its next turn in the slot, *)
(* in the FIFO or carried over.                                             *)
NextTurnKnown ==
  pc # "turn" /\ schedule # "none" /\ lapsed = {} =>
    \/ RunsTurn(timer)
    \/ pending
    \/ \E kind \in Wakes : Queued(kind)

(* A pause without its flag has been counted.                               *)
FlagsKept ==
  /\ timer.type = "pause" /\ ~timer.budget => unflagged
  /\ held.type = "pause" /\ held.left > 0 /\ ~held.budget => unflagged

(* There is at most one of a kind in the FIFO.                              *)
Once(kind) == \A m, n \in DOMAIN fifo : fifo[m] = kind /\ fifo[n] = kind => m = n

(* The armed wall-clock timer is that of the occurrence the schedule names, *)
(* a queued one has passed, and there is at most one.                       *)
Occurrences ==
  /\ at.next = 0 => fresh
  /\ ~leftover /\ schedule = "cron_at" /\ timer.type = "cron_at" =>
       at.next >= 0 /\ timer.left = Until(at, at.next)
  /\ ~leftover /\ schedule = "cron_at" /\ Queued("cron_at") => at.next = 0
  /\ ~leftover => Once("cron_at")

(* The inductive invariant.                                                 *)
Inv == Types /\ Slots /\ TimerFits /\ NextTurnKnown /\ WaitKept /\ FlagsKept /\ Occurrences

(* What is left of a timer, in whole seconds.                               *)
LEMMA InSecondsNat == \A ticks \in Nat : InSeconds(ticks) \in Nat
BY TimerConstants DEF InSeconds

AtType == [next : -1 .. 2, last : 0 .. 2, fires : 0 .. MaxFires - 1, to : 1 .. Period]

(* Whatever a turn does to the schedule, the schedule has its types.        *)
LEMMA ChangeTypes ==
  ASSUME SlotTypes, NEW change \in Changes
  PROVE  /\ change.schedule \in {"none", "cron", "cron_at"}
         /\ change.at \in AtType
         /\ change.rest \in -1 .. Interval
BY TimerConstants DEF SlotTypes, Changes, NewAt, NoAt, AtType

(* The distance to an occurrence is a number of ticks, 0 only if it has     *)
(* passed.                                                                  *)
LEMMA UntilNat ==
  ASSUME NEW a \in AtType, NEW n \in 0 .. 2
  PROVE  Until(a, n) \in Nat /\ (Until(a, n) = 0 <=> n = 0)
BY TimerConstants DEF Until, AtType

(* Nothing has happened yet.                                                *)
LEMMA InitInv == Init => Inv
<1> SUFFICES ASSUME Init PROVE Inv
  OBVIOUS
<1>1. SlotTypes
  BY TimerConstants DEF Init, SlotTypes, NoTimer, NoHeld, Timer, NoAt, TimerTypes
<1>2. FifoTypes
  BY DEF Init, FifoTypes
<1>6. FlagTypes
  BY DEF Init, FlagTypes
<1>3. LoopTypes
  BY TimerConstants DEF Init, LoopTypes
<1>4. Slots /\ TimerFits /\ NextTurnKnown /\ WaitKept /\ FlagsKept
  BY DEF Init, Slots, TimerFits, NextTurnKnown, WaitKept, FlagsKept, NoTimer, NoHeld, Timer, IsWait
<1>5. Occurrences
  BY DEF Init, Occurrences, NoTimer, Timer, NoAt, Queued, Once
<1> QED
  BY <1>1, <1>2, <1>3, <1>4, <1>5, <1>6 DEF Inv, Types

(* An interrupted timer leaves its types behind.                            *)
LEMMA InterruptTypes ==
  ASSUME Types, NEW flag \in BOOLEAN, Interrupt(flag)
  PROVE  /\ timer' \in [type : TimerTypes, left : Nat, budget : BOOLEAN]
         /\ timer'.type = "cron" => timer'.left <= Interval
         /\ held' \in [type : {"none", "wait", "pause"}, left : Nat \union {-1}, budget : BOOLEAN]
         /\ heldCron' \in -1 .. Interval
<1>1. timer' \in {NoTimer, timer}
  BY DEF Interrupt
<1>2. held' \in [type : {"none", "wait", "pause"}, left : Nat \union {-1}, budget : BOOLEAN]
  BY InSecondsNat DEF Interrupt, IsWait, Types, SlotTypes
<1>3. heldCron' \in -1 .. Interval
  BY DEF Interrupt, Types, SlotTypes
<1>4. NoTimer \in [type : TimerTypes, left : Nat, budget : BOOLEAN] /\ NoTimer.type # "cron"
  BY DEF NoTimer, Timer, TimerTypes
<1> QED
  BY <1>1, <1>2, <1>3, <1>4 DEF Types, SlotTypes

(* The timer after a turn has its types, and so has what is still held.     *)
LEMMA PostTurnTypes ==
  ASSUME Types, Slots, NEW change \in Changes, schedulePostTurnContinuation(change)
  PROVE  SlotTypes'
<1> DEFINE next == IF change.at.next >= 0 THEN change.at.next
                   ELSE computeCronAtNextFire(change.at.last)
<1>1. /\ change.schedule \in {"none", "cron", "cron_at"}
      /\ change.at \in AtType
      /\ change.rest \in -1 .. Interval
  BY ChangeTypes DEF Types
<1>2. next \in 0 .. 2
  BY <1>1 DEF AtType, computeCronAtNextFire
<1>3. Until(change.at, next) \in Nat
  BY <1>1, <1>2, UntilNat
<1>4. at' \in AtType /\ schedule' \in {"none", "cron", "cron_at"} /\ heldCron' \in -1 .. Interval
  BY <1>1, <1>2, TimerConstants DEF schedulePostTurnContinuation, AtType
<1>5. Owing \in [type : {"none", "wait", "pause"}, left : Nat \union {-1}, budget : BOOLEAN]
  BY DEF Owing, NoHeld, Types, SlotTypes
<1>6. held' \in [type : {"none", "wait", "pause"}, left : Nat \union {-1}, budget : BOOLEAN]
  BY <1>5 DEF schedulePostTurnContinuation, NoHeld
<1>7. CASE Owing.left > 0
  <2>1. held.left \in Nat /\ held.type \in TimerTypes
    BY <1>7 DEF Owing, NoHeld, Types, SlotTypes, TimerTypes
  <2>2. held.left * Second \in Nat
    BY <2>1, TimerConstants
  <2>3. timer' = Timer(held.type, held.left * Second, FALSE)
    BY <1>7 DEF schedulePostTurnContinuation
  <2>4. held.type # "cron"
    BY DEF Types, SlotTypes
  <2> QED
    BY <1>4, <1>6, <2>1, <2>2, <2>3, <2>4 DEF SlotTypes, Timer, AtType
<1>8. CASE ~(Owing.left > 0) /\ change.rest > 0
  <2>1. timer' = Timer("cron", change.rest, FALSE)
    BY <1>8 DEF schedulePostTurnContinuation
  <2> QED
    BY <1>1, <1>4, <1>6, <1>8, <2>1, TimerConstants DEF SlotTypes, Timer, AtType, TimerTypes
<1>9. CASE ~(Owing.left > 0) /\ ~(change.rest > 0) /\ change.schedule = "cron_at"
  <2>1. timer' = Timer("cron_at", Until(change.at, next), FALSE)
    BY <1>9 DEF schedulePostTurnContinuation
  <2> QED
    BY <1>3, <1>4, <1>6, <2>1 DEF SlotTypes, Timer, AtType, TimerTypes
<1>10. CASE ~(Owing.left > 0) /\ ~(change.rest > 0) /\ change.schedule # "cron_at"
  <2>1. timer' \in {Timer("cron", Interval, FALSE), Timer("idle", Hold, FALSE), timer}
    BY <1>10 DEF schedulePostTurnContinuation
  <2>2. timer' = Timer("idle", Hold, FALSE) => Hold >= 0 \/ timer' = timer
    BY <1>10 DEF schedulePostTurnContinuation, Timer
  <2>3. timer' \in [type : TimerTypes, left : Nat, budget : BOOLEAN]
        /\ (timer'.type = "cron" => timer'.left <= Interval)
    <3>1. CASE timer' = timer
      BY <3>1 DEF SlotTypes, Types
    <3>2. CASE timer' # timer /\ timer' = Timer("cron", Interval, FALSE)
      BY <3>2, TimerConstants DEF Timer, TimerTypes
    <3>3. CASE timer' # timer /\ timer' = Timer("idle", Hold, FALSE)
      BY <2>2, <3>3, TimerConstants DEF Timer, TimerTypes
    <3> QED
      BY <2>1, <3>1, <3>2, <3>3
  <2> QED
    BY <1>4, <1>6, <2>3 DEF SlotTypes, AtType
<1> QED
  BY <1>7, <1>8, <1>9, <1>10

(* A step keeps the types of the slot ...                                   *)
LEMMA SlotTypesNext ==
  ASSUME Types, Slots, Next
  PROVE  SlotTypes'
<1> USE TimerConstants, InSecondsNat
<1>1. ASSUME Tick PROVE SlotTypes'
  <2>1. timer' \in [type : TimerTypes, left : Nat, budget : BOOLEAN]
        /\ (timer'.type = "cron" => timer'.left <= Interval)
    BY <1>1 DEF Tick, Types, SlotTypes
  <2>2. at \in AtType
    BY DEF Types, SlotTypes, AtType
  <2>3. at' \in AtType
    <3>1. CASE schedule # "cron_at" \/ at.to > 1
      BY <1>1, <2>2, <3>1 DEF Tick, AtType
    <3>2. CASE schedule = "cron_at" /\ ~(at.to > 1)
      <4>1. at' = [at EXCEPT !.next = Passed(at.next), !.last = Passed(at.last), !.to = Period]
        BY <1>1, <3>2 DEF Tick
      <4>2. Passed(at.next) \in -1 .. 2 /\ Passed(at.last) \in 0 .. 2 /\ Period \in 1 .. Period
        BY <2>2 DEF Passed, AtType
      <4> HIDE DEF Passed
      <4> QED
        BY <2>2, <4>1, <4>2 DEF AtType
    <3> QED
      BY <3>1, <3>2
  <2> QED
    BY <1>1, <2>1, <2>3 DEF Tick, Types, SlotTypes, AtType
<1>2. ASSUME LoopTop PROVE SlotTypes'
  BY <1>2 DEF LoopTop, slot, Types, SlotTypes, TimerTypes
<1>3. ASSUME versionedContinueAsNew PROVE SlotTypes'
  BY <1>3 DEF versionedContinueAsNew, Types, SlotTypes, TimerTypes
<1>4. ASSUME TimerFires PROVE SlotTypes'
  BY <1>4 DEF TimerFires, NoTimer, Timer, Types, SlotTypes, TimerTypes
<1>5. ASSUME TakePrompt PROVE SlotTypes'
  BY <1>5, InterruptTypes DEF TakePrompt, Types, SlotTypes
<1>6. ASSUME TakeAnswer PROVE SlotTypes'
  BY <1>6 DEF TakeAnswer, Takes, NoTimer, Timer, Types, SlotTypes, TimerTypes
<1>7. ASSUME NEW kind \in Kinds, TakeChildUpdate(kind) PROVE SlotTypes'
  BY <1>7 DEF TakeChildUpdate, Takes, slot, Types, SlotTypes, TimerTypes
<1>8. ASSUME TakeSetModel PROVE SlotTypes'
  BY <1>8 DEF TakeSetModel, Takes, NoTimer, Timer, IsWait, Types, SlotTypes, TimerTypes
<1>9. ASSUME DigestReady PROVE SlotTypes'
  BY <1>9 DEF DigestReady, slot, Types, SlotTypes, TimerTypes
<1>10. ASSUME DrainEnds PROVE SlotTypes'
  BY <1>10 DEF DrainEnds, slot, Types, SlotTypes, TimerTypes
<1>11. ASSUME DispatchPending PROVE SlotTypes'
  BY <1>11 DEF DispatchPending, StartTurn, slot, Types, SlotTypes, TimerTypes
<1>12. ASSUME DispatchMessage PROVE SlotTypes'
  BY <1>12 DEF DispatchMessage, StartTurn, slot, Types, SlotTypes, TimerTypes
<1>13. ASSUME WaitCompletes PROVE SlotTypes'
  BY <1>13 DEF WaitCompletes, Pops, StartTurn, slot, Types, SlotTypes, TimerTypes
<1>14. ASSUME CronFires PROVE SlotTypes'
  BY <1>14 DEF CronFires, Pops, StartTurn, slot, Types, SlotTypes, TimerTypes
<1>15. ASSUME CronAtFires PROVE SlotTypes'
  <2>1. at' \in AtType
    <3>1. at \in AtType /\ NoAt \in AtType
      BY DEF Types, SlotTypes, NoAt, AtType
    <3>2. ASSUME ~Exhausted PROVE Fired \in AtType
      <4>1. at.fires + 1 \in 0 .. MaxFires - 1
        BY <3>1, <3>2 DEF Exhausted, Fired, AtType
      <4>2. (IF at.next >= 0 THEN at.next ELSE at.last) \in 0 .. 2 /\ -1 \in -1 .. 2
        BY <3>1 DEF AtType
      <4> QED
        BY <3>1, <4>1, <4>2 DEF Fired, AtType
    <3> QED
      BY <1>15, <3>1, <3>2 DEF CronAtFires
  <2>2. schedule' \in {"none", "cron", "cron_at"}
    BY <1>15 DEF CronAtFires, Types, SlotTypes
  <2> QED
    BY <1>15, <2>1, <2>2 DEF CronAtFires, Types, SlotTypes, AtType
<1>16. ASSUME HoldEnds PROVE SlotTypes'
  BY <1>16 DEF HoldEnds, Pops, TakesSlot, NoTimer, Timer, Types, SlotTypes, TimerTypes
<1>17. ASSUME GraceEnds PROVE SlotTypes'
  BY <1>17 DEF GraceEnds, Pops, TakesSlot, HoldForAnswer, Timer, Types, SlotTypes, TimerTypes
<1>18. ASSUME SuppressDigest PROVE SlotTypes'
  BY <1>18 DEF SuppressDigest, slot, Types, SlotTypes, TimerTypes
<1>19. ASSUME processPendingChildDigest PROVE SlotTypes'
  BY <1>19, InterruptTypes DEF processPendingChildDigest, Types, SlotTypes
<1>20. ASSUME NEW change \in Changes, TurnCompletes(change) PROVE SlotTypes'
  BY <1>20, PostTurnTypes DEF TurnCompletes
<1>21. ASSUME NEW change \in Changes, TurnAsks(change) PROVE SlotTypes'
  <2>1. at' \in AtType /\ schedule' \in {"none", "cron", "cron_at"} /\ heldCron' \in -1 .. Interval
    BY <1>21, ChangeTypes DEF TurnAsks, Applies, Types
  <2>2. timer' \in [type : TimerTypes, left : Nat, budget : BOOLEAN]
        /\ (timer'.type = "cron" => timer'.left <= Interval)
    BY <1>21 DEF TurnAsks, HoldForAnswer, Timer, Types, SlotTypes, TimerTypes
  <2> QED
    BY <1>21, <2>1, <2>2 DEF TurnAsks, Types, SlotTypes, AtType
<1>22. ASSUME NEW change \in Changes, NEW seconds \in WaitSeconds, TurnWaits(seconds, change)
      PROVE  SlotTypes'
  <2>1. at' \in AtType /\ schedule' \in {"none", "cron", "cron_at"} /\ heldCron' \in -1 .. Interval
    BY <1>22, ChangeTypes DEF TurnWaits, Applies, Types
  <2>2. seconds * Second \in Nat
    OBVIOUS
  <2> QED
    BY <1>22, <2>1, <2>2 DEF TurnWaits, Timer, NoHeld, SlotTypes, TimerTypes, AtType
<1>23. ASSUME TurnStopped PROVE SlotTypes'
  BY <1>23, PostTurnTypes DEF TurnStopped, NoChange, Changes
<1>24. ASSUME TurnRefused PROVE SlotTypes'
  BY <1>24 DEF TurnRefused, Ends, Timer, NoHeld, Types, SlotTypes, TimerTypes
<1>25. ASSUME NEW result \in Results, TurnAbandoned(result) PROVE SlotTypes'
  BY <1>25 DEF TurnAbandoned, Ends, slot, Types, SlotTypes, TimerTypes
<1> QED
  BY <1>1, <1>2, <1>3, <1>4, <1>5, <1>6, <1>7, <1>8, <1>9, <1>10, <1>11, <1>12, <1>13, <1>14,
     <1>15, <1>16, <1>17, <1>18, <1>19, <1>20, <1>21, <1>22, <1>23, <1>24, <1>25
  DEF Next, drain, decide, handleTurnResult

(* ... of the flags ...                                                     *)
LEMMA FlagTypesNext ==
  ASSUME Types, Next
  PROVE  FlagTypes'
<1>1. ASSUME Tick PROVE FlagTypes'
  BY <1>1 DEF Tick, Passed, work, Types, FlagTypes
<1>2. ASSUME LoopTop PROVE FlagTypes'
  BY <1>2 DEF LoopTop, slot, work, ghost, Types, FlagTypes
<1>3. ASSUME versionedContinueAsNew PROVE FlagTypes'
  BY <1>3 DEF versionedContinueAsNew, work, Types, FlagTypes
<1>4. ASSUME TimerFires PROVE FlagTypes'
  BY <1>4 DEF TimerFires, NoTimer, Timer, Types, FlagTypes
<1>5. ASSUME TakePrompt PROVE FlagTypes'
  BY <1>5 DEF TakePrompt, Takes, Interrupt, NoTimer, Timer, RunsTurn, IsWait, Types, FlagTypes
<1>6. ASSUME TakeAnswer PROVE FlagTypes'
  BY <1>6 DEF TakeAnswer, Takes, NoTimer, Timer, ghost, Types, FlagTypes
<1>7. ASSUME NEW kind \in Kinds, TakeChildUpdate(kind) PROVE FlagTypes'
  BY <1>7 DEF TakeChildUpdate, Takes, slot, ghost, Types, FlagTypes
<1>8. ASSUME TakeSetModel PROVE FlagTypes'
  BY <1>8 DEF TakeSetModel, Takes, NoTimer, Timer, IsWait, Types, FlagTypes
<1>9. ASSUME DigestReady PROVE FlagTypes'
  BY <1>9 DEF DigestReady, slot, ghost, Types, FlagTypes
<1>10. ASSUME DrainEnds PROVE FlagTypes'
  BY <1>10 DEF DrainEnds, slot, work, ghost, Types, FlagTypes
<1>11. ASSUME DispatchPending PROVE FlagTypes'
  BY <1>11 DEF DispatchPending, StartTurn, slot, Types, FlagTypes
<1>12. ASSUME DispatchMessage PROVE FlagTypes'
  BY <1>12 DEF DispatchMessage, StartTurn, slot, Types, FlagTypes
<1>13. ASSUME WaitCompletes PROVE FlagTypes'
  BY <1>13 DEF WaitCompletes, Pops, StartTurn, slot, Types, FlagTypes
<1>14. ASSUME CronFires PROVE FlagTypes'
  BY <1>14 DEF CronFires, Pops, StartTurn, slot, Types, FlagTypes
<1>15. ASSUME CronAtFires PROVE FlagTypes'
  BY <1>15 DEF CronAtFires, Pops, StartTurn, Exhausted, Fired, NoAt, Types, FlagTypes
<1>16. ASSUME HoldEnds PROVE FlagTypes'
  BY <1>16 DEF HoldEnds, Pops, TakesSlot, NoTimer, Timer, Types, FlagTypes
<1>17. ASSUME GraceEnds PROVE FlagTypes'
  BY <1>17 DEF GraceEnds, Pops, TakesSlot, HoldForAnswer, Timer, Types, FlagTypes
<1>18. ASSUME SuppressDigest PROVE FlagTypes'
  BY <1>18 DEF SuppressDigest, slot, ghost, Types, FlagTypes
<1>19. ASSUME processPendingChildDigest PROVE FlagTypes'
  BY <1>19
  DEF processPendingChildDigest, Interrupt, StartTurn, NoTimer, Timer, RunsTurn, IsWait, Types,
      FlagTypes
<1>20. ASSUME NEW change \in Changes, TurnCompletes(change) PROVE FlagTypes'
  BY <1>20
  DEF TurnCompletes, Ends, schedulePostTurnContinuation, Observes, Overwrites, work, Types,
      FlagTypes
<1>21. ASSUME NEW change \in Changes, TurnAsks(change) PROVE FlagTypes'
  BY <1>21 DEF TurnAsks, Ends, Applies, Observes, Overwrites, HoldForAnswer, Timer, Types, FlagTypes
<1>22. ASSUME NEW change \in Changes, NEW seconds \in WaitSeconds, TurnWaits(seconds, change)
      PROVE  FlagTypes'
  BY <1>22 DEF TurnWaits, Ends, Applies, Observes, Timer, NoHeld, work, Types, FlagTypes
<1>23. ASSUME TurnStopped PROVE FlagTypes'
  BY <1>23 DEF TurnStopped, schedulePostTurnContinuation, Observes, work, Types, FlagTypes
<1>24. ASSUME TurnRefused PROVE FlagTypes'
  BY <1>24 DEF TurnRefused, Ends, Timer, NoHeld, work, Types, FlagTypes
<1>25. ASSUME NEW result \in Results, TurnAbandoned(result) PROVE FlagTypes'
  BY <1>25 DEF TurnAbandoned, Ends, slot, work, Types, FlagTypes
<1> QED
  BY <1>1, <1>2, <1>3, <1>4, <1>5, <1>6, <1>7, <1>8, <1>9, <1>10, <1>11, <1>12, <1>13, <1>14,
     <1>15, <1>16, <1>17, <1>18, <1>19, <1>20, <1>21, <1>22, <1>23, <1>24, <1>25
  DEF Next, drain, decide, handleTurnResult

(* ... and of the loop.                                                     *)
LEMMA LoopTypesNext ==
  ASSUME Types, Next
  PROVE  LoopTypes'
<1> USE TimerConstants
<1>1. ASSUME Tick PROVE LoopTypes'
  BY <1>1 DEF Tick, Passed, work, Types, LoopTypes
<1>2. ASSUME LoopTop PROVE LoopTypes'
  BY <1>2 DEF LoopTop, work, Types, LoopTypes
<1>3. ASSUME versionedContinueAsNew PROVE LoopTypes'
  BY <1>3 DEF versionedContinueAsNew, work, Types, LoopTypes
<1>4. ASSUME TimerFires PROVE LoopTypes'
  BY <1>4 DEF TimerFires, NoTimer, Timer, Types, LoopTypes
<1>5. ASSUME TakePrompt PROVE LoopTypes'
  BY <1>5 DEF TakePrompt, Takes, Interrupt, NoTimer, Timer, RunsTurn, IsWait, Types, LoopTypes
<1>6. ASSUME TakeAnswer PROVE LoopTypes'
  BY <1>6 DEF TakeAnswer, Takes, NoTimer, Timer, Types, LoopTypes
<1>7. ASSUME NEW kind \in Kinds, TakeChildUpdate(kind) PROVE LoopTypes'
  BY <1>7 DEF TakeChildUpdate, Takes, Types, LoopTypes
<1>8. ASSUME TakeSetModel PROVE LoopTypes'
  BY <1>8 DEF TakeSetModel, Takes, NoTimer, Timer, IsWait, Types, LoopTypes
<1>9. ASSUME DigestReady PROVE LoopTypes'
  BY <1>9 DEF DigestReady, Types, LoopTypes
<1>10. ASSUME DrainEnds PROVE LoopTypes'
  BY <1>10 DEF DrainEnds, work, Types, LoopTypes
<1>11. ASSUME DispatchPending PROVE LoopTypes'
  BY <1>11 DEF DispatchPending, StartTurn, Types, LoopTypes
<1>12. ASSUME DispatchMessage PROVE LoopTypes'
  BY <1>12 DEF DispatchMessage, StartTurn, Types, LoopTypes
<1>13. ASSUME WaitCompletes PROVE LoopTypes'
  BY <1>13 DEF WaitCompletes, Pops, StartTurn, Types, LoopTypes
<1>14. ASSUME CronFires PROVE LoopTypes'
  BY <1>14 DEF CronFires, Pops, StartTurn, Types, LoopTypes
<1>15. ASSUME CronAtFires PROVE LoopTypes'
  BY <1>15 DEF CronAtFires, Pops, StartTurn, Exhausted, Fired, NoAt, Types, LoopTypes
<1>16. ASSUME HoldEnds PROVE LoopTypes'
  BY <1>16 DEF HoldEnds, Pops, TakesSlot, NoTimer, Timer, Types, LoopTypes
<1>17. ASSUME GraceEnds PROVE LoopTypes'
  BY <1>17 DEF GraceEnds, Pops, TakesSlot, HoldForAnswer, Timer, Types, LoopTypes
<1>18. ASSUME SuppressDigest PROVE LoopTypes'
  BY <1>18 DEF SuppressDigest, Types, LoopTypes
<1>19. ASSUME processPendingChildDigest PROVE LoopTypes'
  BY <1>19
  DEF processPendingChildDigest, Interrupt, StartTurn, NoTimer, Timer, RunsTurn, IsWait, Types,
      LoopTypes
<1>20. ASSUME NEW change \in Changes, TurnCompletes(change) PROVE LoopTypes'
  BY <1>20
  DEF TurnCompletes, Ends, schedulePostTurnContinuation, Observes, Overwrites, work, Types,
      LoopTypes
<1>21. ASSUME NEW change \in Changes, TurnAsks(change) PROVE LoopTypes'
  BY <1>21 DEF TurnAsks, Ends, Applies, Observes, Overwrites, HoldForAnswer, Timer, Types, LoopTypes
<1>22. ASSUME NEW change \in Changes, NEW seconds \in WaitSeconds, TurnWaits(seconds, change)
      PROVE  LoopTypes'
  BY <1>22 DEF TurnWaits, Ends, Applies, Observes, Timer, NoHeld, work, Types, LoopTypes
<1>23. ASSUME TurnStopped PROVE LoopTypes'
  BY <1>23 DEF TurnStopped, Ends, work, Types, LoopTypes
<1>24. ASSUME TurnRefused PROVE LoopTypes'
  BY <1>24 DEF TurnRefused, Ends, Timer, NoHeld, work, Types, LoopTypes
<1>25. ASSUME NEW result \in Results, TurnAbandoned(result) PROVE LoopTypes'
  BY <1>25 DEF TurnAbandoned, Ends, work, Types, LoopTypes
<1> QED
  BY <1>1, <1>2, <1>3, <1>4, <1>5, <1>6, <1>7, <1>8, <1>9, <1>10, <1>11, <1>12, <1>13, <1>14,
     <1>15, <1>16, <1>17, <1>18, <1>19, <1>20, <1>21, <1>22, <1>23, <1>24, <1>25
  DEF Next, drain, decide, handleTurnResult

(* Nothing happens to the FIFO.                                             *)
LEMMA SameFifo ==
  ASSUME fifo' = fifo
  PROVE  \A kind : (Queued(kind)' <=> Queued(kind)) /\ (Once(kind)' <=> Once(kind))
BY DEF Queued, Once

(* What is appended to the FIFO is added to what it holds.                  *)
LEMMA Appends ==
  ASSUME FifoTypes, NEW x \in Messages \union TimerTypes, fifo' = Append(fifo, x)
  PROVE  /\ FifoTypes'
         /\ \A kind : Queued(kind)' <=> Queued(kind) \/ kind = x
         /\ \A kind : Once(kind) /\ (kind = x => ~Queued(kind)) => Once(kind)'
<1> DEFINE S == Messages \union TimerTypes
<1>1. fifo \in Seq(S) /\ fifo' \in Seq(S) /\ Len(fifo) \in Nat /\ Len(fifo') = Len(fifo) + 1
  BY AppendProperties DEF FifoTypes
<1>2. DOMAIN fifo = 1 .. Len(fifo) /\ DOMAIN fifo' = 1 .. Len(fifo) + 1
  BY <1>1, LenProperties
<1>3. /\ \A i \in 1 .. Len(fifo) : fifo'[i] = fifo[i]
      /\ fifo'[Len(fifo) + 1] = x
  BY AppendProperties DEF FifoTypes
<1>4. ASSUME NEW kind PROVE Queued(kind)' <=> Queued(kind) \/ kind = x
  BY <1>1, <1>2, <1>3 DEF Queued
<1>5. ASSUME NEW kind, Once(kind), kind = x => ~Queued(kind) PROVE Once(kind)'
  BY <1>1, <1>2, <1>3, <1>5 DEF Once, Queued
<1> QED
  BY <1>1, <1>4, <1>5 DEF FifoTypes

(* Popping the head takes nothing else away.                                *)
LEMMA PopsHead ==
  ASSUME FifoTypes, fifo # <<>>, fifo' = Tail(fifo)
  PROVE  /\ FifoTypes' /\ Head(fifo) \in Messages \union TimerTypes
         /\ Queued(Head(fifo))
         /\ \A kind : Queued(kind)' => Queued(kind)
         /\ \A kind : Queued(kind) /\ kind # Head(fifo) => Queued(kind)'
         /\ \A kind : Once(kind) => Once(kind)'
         /\ \A kind : Once(kind) /\ kind = Head(fifo) => ~Queued(kind)'
<1> DEFINE S == Messages \union TimerTypes
<1>1. /\ fifo \in Seq(S) /\ fifo' \in Seq(S) /\ Head(fifo) \in S
      /\ Len(fifo) \in Nat \ {0} /\ Len(fifo') = Len(fifo) - 1
  BY HeadTailProperties, EmptySeq DEF FifoTypes
<1>2. DOMAIN fifo = 1 .. Len(fifo) /\ DOMAIN fifo' = 1 .. Len(fifo) - 1
  BY <1>1, LenProperties
<1>3. \A i \in 1 .. Len(fifo) - 1 : fifo'[i] = fifo[i + 1]
  BY <1>1, HeadTailProperties DEF FifoTypes
<1>4. Head(fifo) = fifo[1]
  BY <1>1
<1>5. Queued(Head(fifo))
  BY <1>1, <1>2, <1>4 DEF Queued
<1>6. ASSUME NEW kind PROVE Queued(kind)' => Queued(kind)
  BY <1>1, <1>2, <1>3 DEF Queued
<1>7. ASSUME NEW kind, Queued(kind), kind # Head(fifo) PROVE Queued(kind)'
  <2>1. PICK j \in 1 .. Len(fifo) : fifo[j] = kind
    BY <1>2, <1>7 DEF Queued
  <2>2. j # 1
    BY <1>4, <1>7, <2>1
  <2>3. j - 1 \in 1 .. Len(fifo) - 1 /\ fifo'[j - 1] = kind
    BY <1>1, <1>3, <2>1, <2>2
  <2> QED
    BY <1>2, <2>3 DEF Queued
<1>8. ASSUME NEW kind, Once(kind) PROVE Once(kind)'
  BY <1>1, <1>2, <1>3, <1>8 DEF Once
<1>9. ASSUME NEW kind, Once(kind), kind = Head(fifo) PROVE ~Queued(kind)'
  BY <1>1, <1>2, <1>3, <1>4, <1>9 DEF Once, Queued
<1> QED
  BY <1>1, <1>5, <1>6, <1>7, <1>8, <1>9 DEF FifoTypes

(* What is left when the first m elements are gone.                         *)
LEMMA EndOfSeq ==
  ASSUME NEW T, NEW s, NEW m \in Nat, NEW k \in Nat, m <= k,
         \A i \in m + 1 .. k : s[i] \in T
  PROVE  /\ SubSeq(s, m + 1, k) \in Seq(T)
         /\ Len(SubSeq(s, m + 1, k)) = k - m
         /\ \A i \in 1 .. k - m : SubSeq(s, m + 1, k)[i] = s[m + i]
<1>1. /\ SubSeq(s, m + 1, k) \in Seq(T)
      /\ Len(SubSeq(s, m + 1, k)) = IF m + 1 <= k THEN k - (m + 1) + 1 ELSE 0
      /\ \A i \in 1 .. k - (m + 1) + 1 : SubSeq(s, m + 1, k)[i] = s[m + 1 + i - 1]
  <2>1. m + 1 \in Int /\ k \in Int
    OBVIOUS
  <2> DEFINE n == m + 1
  <2>2. n \in Int /\ \A i \in n .. k : s[i] \in T
    BY <2>1
  <2> HIDE DEF n
  <2>3. /\ SubSeq(s, n, k) \in Seq(T)
        /\ Len(SubSeq(s, n, k)) = IF n <= k THEN k - n + 1 ELSE 0
        /\ \A i \in 1 .. k - n + 1 : SubSeq(s, n, k)[i] = s[n + i - 1]
    BY <2>1, <2>2, SubSeqProperties
  <2> QED
    BY <2>3 DEF n
<1> QED
  BY <1>1

(* Dispatching messages takes no timer away that has fired.                 *)
LEMMA DispatchKeepsTimers ==
  ASSUME FifoTypes, DispatchMessage
  PROVE  /\ FifoTypes'
         /\ \A kind : kind \notin Messages => (Queued(kind)' <=> Queued(kind))
         /\ \A kind : Once(kind) => Once(kind)'
<1> DEFINE S == Messages \union TimerTypes
           L == Len(fifo)
<1>1. PICK n \in DOMAIN fifo, merged \in 0 .. L :
        /\ fifo[n] \in Messages
        /\ IF fifo[n] = "prompt" THEN LeadingPrompts(Without(n), merged) ELSE merged = 0
        /\ fifo' = SubSeq(Without(n), merged + 1, Len(Without(n)))
  BY DEF DispatchMessage, FirstMessage
<1> DEFINE rest == Without(n)
           B(i) == IF merged + i < n THEN merged + i ELSE merged + i + 1
<1>2. L \in Nat \ {0} /\ DOMAIN fifo = 1 .. L /\ n \in 1 .. L /\ \A i \in 1 .. L : fifo[i] \in S
  BY <1>1, LenProperties, ElementOfSeq, EmptySeq DEF FifoTypes
<1>3. /\ rest = [m \in 1 .. L - 1 |-> IF m < n THEN fifo[m] ELSE fifo[m + 1]]
      /\ \A m \in 1 .. L - 1 : rest[m] = (IF m < n THEN fifo[m] ELSE fifo[m + 1]) /\ rest[m] \in S
  BY <1>2 DEF Without
<1>4. Len(rest) = L - 1
  BY <1>2, <1>3
<1>5. /\ merged \in 0 .. L - 1
      /\ \A m \in 1 .. merged : rest[m] = "prompt"
  BY <1>1, <1>2, <1>4 DEF LeadingPrompts
<1> HIDE DEF rest
<1>6. /\ fifo' \in Seq(S) /\ Len(fifo') = L - 1 - merged
      /\ \A i \in 1 .. L - 1 - merged : fifo'[i] = rest[merged + i]
  <2>1. \A i \in merged + 1 .. L - 1 : rest[i] \in S
    BY <1>2, <1>3, <1>5
  <2>2. fifo' = SubSeq(rest, merged + 1, L - 1)
    BY <1>1, <1>4 DEF rest
  <2>3. merged \in Nat /\ L - 1 \in Nat /\ merged <= L - 1
    BY <1>2, <1>5
  <2> DEFINE k == L - 1
  <2>4. k \in Nat /\ merged <= k /\ \A i \in merged + 1 .. k : rest[i] \in S
    BY <2>1, <2>3
  <2>5. fifo' = SubSeq(rest, merged + 1, k)
    BY <2>2
  <2> HIDE DEF k
  <2>6. /\ fifo' \in Seq(S) /\ Len(fifo') = k - merged
        /\ \A i \in 1 .. k - merged : fifo'[i] = rest[merged + i]
    BY <2>3, <2>4, <2>5, EndOfSeq
  <2> QED
    BY <2>6 DEF k
<1>7. DOMAIN fifo' = 1 .. L - 1 - merged
  BY <1>6, LenProperties
<1>8. \A i \in 1 .. L - 1 - merged : B(i) \in 1 .. L /\ fifo'[i] = fifo[B(i)]
  BY <1>2, <1>3, <1>5, <1>6
<1>9. ASSUME NEW kind, kind \notin Messages PROVE Queued(kind)' <=> Queued(kind)
  <2>1. Queued(kind)' => Queued(kind)
    BY <1>2, <1>7, <1>8 DEF Queued
  <2>2. ASSUME Queued(kind) PROVE Queued(kind)'
    <3>1. PICK j \in 1 .. L : fifo[j] = kind
      BY <1>2, <2>2 DEF Queued
    <3> DEFINE r == IF j < n THEN j ELSE j - 1
    <3>2. j # n /\ r \in 1 .. L - 1 /\ rest[r] = kind
      BY <1>1, <1>2, <1>3, <1>9, <3>1
    <3>3. r > merged
      BY <1>5, <1>9, <3>2 DEF Messages
    <3>4. r - merged \in 1 .. L - 1 - merged /\ fifo'[r - merged] = kind
      BY <1>2, <1>5, <1>6, <3>2, <3>3
    <3> QED
      BY <1>7, <3>4 DEF Queued
  <2> QED
    BY <2>1, <2>2
<1>10. ASSUME NEW kind, Once(kind) PROVE Once(kind)'
  <2>1. SUFFICES ASSUME NEW i \in 1 .. L - 1 - merged, NEW j \in 1 .. L - 1 - merged,
                        fifo'[i] = kind, fifo'[j] = kind
                 PROVE  i = j
    BY <1>7 DEF Once
  <2>2. B(i) = B(j)
    BY <1>2, <1>8, <1>10, <2>1 DEF Once
  <2> QED
    BY <1>2, <1>5, <2>2
<1> QED
  BY <1>6, <1>9, <1>10 DEF FifoTypes

(* A question turns answers into remarks, and touches nothing else.         *)
LEMMA AsksKeepsTimers ==
  ASSUME FifoTypes,
         fifo' = [n \in DOMAIN fifo |-> IF fifo[n] = "answer" THEN "remark" ELSE fifo[n]]
  PROVE  /\ FifoTypes'
         /\ \A kind : kind \notin Messages => (Queued(kind)' <=> Queued(kind))
         /\ \A kind : kind \notin Messages /\ Once(kind) => Once(kind)'
<1> DEFINE S == Messages \union TimerTypes
<1>1. /\ Len(fifo) \in Nat /\ DOMAIN fifo = 1 .. Len(fifo)
      /\ \A i \in 1 .. Len(fifo) : fifo[i] \in S
  BY LenProperties, ElementOfSeq DEF FifoTypes
<1>2. /\ DOMAIN fifo' = 1 .. Len(fifo)
      /\ \A i \in 1 .. Len(fifo) : fifo'[i] \in S
      /\ \A i \in 1 .. Len(fifo) : fifo'[i] = IF fifo[i] = "answer" THEN "remark" ELSE fifo[i]
  BY <1>1 DEF Messages
<1>3. fifo' \in [1 .. Len(fifo) -> S]
  BY <1>1, <1>2
<1>4. fifo' \in Seq(S)
  BY <1>1, <1>3, SeqDef
<1>5. ASSUME NEW kind, kind \notin Messages PROVE Queued(kind)' <=> Queued(kind)
  BY <1>1, <1>2, <1>5 DEF Queued, Messages
<1>6. ASSUME NEW kind, kind \notin Messages, Once(kind) PROVE Once(kind)'
  BY <1>1, <1>2, <1>6 DEF Once, Messages
<1> QED
  BY <1>4, <1>5, <1>6 DEF FifoTypes

(* A step keeps the types of the FIFO.                                      *)
LEMMA FifoTypesNext ==
  ASSUME Types, Next
  PROVE  FifoTypes'
<1>1. ASSUME Tick PROVE FifoTypes'
  BY <1>1 DEF Tick, Passed, work, Types, SlotTypes, FifoTypes, Messages, TimerTypes
<1>2. ASSUME LoopTop PROVE FifoTypes'
  BY <1>2 DEF LoopTop, slot, work, Types, SlotTypes, FifoTypes, Messages, TimerTypes
<1>3. ASSUME versionedContinueAsNew PROVE FifoTypes'
  BY <1>3 DEF versionedContinueAsNew, work, Types, SlotTypes, FifoTypes, Messages, TimerTypes
<1>4. ASSUME TimerFires PROVE FifoTypes'
  BY <1>4, Appends DEF TimerFires, NoTimer, Timer, Types, SlotTypes, FifoTypes, Messages, TimerTypes
<1>5. ASSUME TakePrompt PROVE FifoTypes'
  BY <1>5, Appends
  DEF TakePrompt, Takes, Interrupt, NoTimer, Timer, RunsTurn, IsWait, Types, SlotTypes, FifoTypes,
      Messages, TimerTypes
<1>6. ASSUME TakeAnswer PROVE FifoTypes'
  BY <1>6, Appends
  DEF TakeAnswer, Takes, NoTimer, Timer, Types, SlotTypes, FifoTypes, Messages, TimerTypes
<1>7. ASSUME NEW kind \in Kinds, TakeChildUpdate(kind) PROVE FifoTypes'
  BY <1>7 DEF TakeChildUpdate, Takes, slot, Types, SlotTypes, FifoTypes, Messages, TimerTypes
<1>8. ASSUME TakeSetModel PROVE FifoTypes'
  BY <1>8
  DEF TakeSetModel, Takes, NoTimer, Timer, IsWait, Types, SlotTypes, FifoTypes, Messages, TimerTypes
<1>9. ASSUME DigestReady PROVE FifoTypes'
  BY <1>9 DEF DigestReady, slot, Types, SlotTypes, FifoTypes, Messages, TimerTypes
<1>10. ASSUME DrainEnds PROVE FifoTypes'
  BY <1>10 DEF DrainEnds, slot, work, Types, SlotTypes, FifoTypes, Messages, TimerTypes
<1>11. ASSUME DispatchPending PROVE FifoTypes'
  BY <1>11 DEF DispatchPending, StartTurn, slot, Types, SlotTypes, FifoTypes, Messages, TimerTypes
<1>12. ASSUME DispatchMessage PROVE FifoTypes'
  BY <1>12, DispatchKeepsTimers
  DEF DispatchMessage, StartTurn, slot, Types, SlotTypes, FifoTypes, Messages, TimerTypes
<1>13. ASSUME WaitCompletes PROVE FifoTypes'
  BY <1>13, PopsHead
  DEF WaitCompletes, Pops, StartTurn, slot, Types, SlotTypes, FifoTypes, Messages, TimerTypes
<1>14. ASSUME CronFires PROVE FifoTypes'
  BY <1>14, PopsHead
  DEF CronFires, Pops, StartTurn, slot, Types, SlotTypes, FifoTypes, Messages, TimerTypes
<1>15. ASSUME CronAtFires PROVE FifoTypes'
  BY <1>15, PopsHead
  DEF CronAtFires, Pops, StartTurn, Exhausted, Fired, NoAt, Types, SlotTypes, FifoTypes, Messages,
      TimerTypes
<1>16. ASSUME HoldEnds PROVE FifoTypes'
  BY <1>16, PopsHead
  DEF HoldEnds, Pops, TakesSlot, NoTimer, Timer, Types, SlotTypes, FifoTypes, Messages, TimerTypes
<1>17. ASSUME GraceEnds PROVE FifoTypes'
  BY <1>17, PopsHead
  DEF GraceEnds, Pops, TakesSlot, HoldForAnswer, Timer, Types, SlotTypes, FifoTypes, Messages,
      TimerTypes
<1>18. ASSUME SuppressDigest PROVE FifoTypes'
  BY <1>18 DEF SuppressDigest, slot, Types, SlotTypes, FifoTypes, Messages, TimerTypes
<1>19. ASSUME processPendingChildDigest PROVE FifoTypes'
  BY <1>19
  DEF processPendingChildDigest, Interrupt, StartTurn, NoTimer, Timer, RunsTurn, IsWait, Types,
      SlotTypes, FifoTypes, Messages, TimerTypes
<1>20. ASSUME NEW change \in Changes, TurnCompletes(change) PROVE FifoTypes'
  BY <1>20
  DEF TurnCompletes, Ends, schedulePostTurnContinuation, Observes, Overwrites, work, Types,
      SlotTypes, FifoTypes, Messages, TimerTypes
<1>21. ASSUME NEW change \in Changes, TurnAsks(change) PROVE FifoTypes'
  BY <1>21, AsksKeepsTimers
  DEF TurnAsks, Ends, Applies, Observes, Overwrites, HoldForAnswer, Timer, Types, SlotTypes,
      FifoTypes, Messages, TimerTypes
<1>22. ASSUME NEW change \in Changes, NEW seconds \in WaitSeconds, TurnWaits(seconds, change)
      PROVE  FifoTypes'
  BY <1>22
  DEF TurnWaits, Ends, Applies, Observes, Timer, NoHeld, work, Types, SlotTypes, FifoTypes,
      Messages, TimerTypes
<1>23. ASSUME TurnStopped PROVE FifoTypes'
  BY <1>23
  DEF TurnStopped, Ends, schedulePostTurnContinuation, Observes, Overwrites, NoChange, work, Types,
      SlotTypes, FifoTypes, Messages, TimerTypes
<1>24. ASSUME TurnRefused PROVE FifoTypes'
  BY <1>24
  DEF TurnRefused, Ends, Timer, NoHeld, work, Types, SlotTypes, FifoTypes, Messages, TimerTypes
<1>25. ASSUME NEW result \in Results, TurnAbandoned(result) PROVE FifoTypes'
  BY <1>25 DEF TurnAbandoned, Ends, slot, work, Types, SlotTypes, FifoTypes, Messages, TimerTypes
<1> QED
  BY <1>1, <1>2, <1>3, <1>4, <1>5, <1>6, <1>7, <1>8, <1>9, <1>10, <1>11, <1>12, <1>13, <1>14,
     <1>15, <1>16, <1>17, <1>18, <1>19, <1>20, <1>21, <1>22, <1>23, <1>24, <1>25
  DEF Next, drain, decide, handleTurnResult

(* A step keeps what Slots says of the armed and the held timer.            *)
LEMMA SlotsNext ==
  ASSUME Inv, Next
  PROVE  Slots'
<1> USE TimerConstants
<1>1. ASSUME Tick PROVE Slots'
  BY <1>1 DEF Tick, Parked, work, Inv, Types, SlotTypes, Slots, Armed, IsWait, NoTimer, Timer
<1>2. ASSUME LoopTop PROVE Slots'
  BY <1>2
  DEF LoopTop, slot, work, ghost, Inv, Types, SlotTypes, Slots, Armed, IsWait, NoTimer, Timer
<1>3. ASSUME versionedContinueAsNew PROVE Slots'
  BY <1>3
  DEF versionedContinueAsNew, work, Inv, Types, SlotTypes, Slots, Armed, IsWait, NoTimer, Timer
<1>4. ASSUME TimerFires PROVE Slots'
  BY <1>4 DEF TimerFires, NoTimer, Timer, Inv, Types, SlotTypes, Slots, Armed, IsWait
<1>5. ASSUME TakePrompt PROVE Slots'
  BY <1>5
  DEF TakePrompt, Takes, Interrupt, NoTimer, Timer, RunsTurn, IsWait, Inv, Types, SlotTypes, Slots,
      Armed
<1>6. ASSUME TakeAnswer PROVE Slots'
  BY <1>6 DEF TakeAnswer, Takes, NoTimer, Timer, ghost, Inv, Types, SlotTypes, Slots, Armed, IsWait
<1>7. ASSUME NEW kind \in Kinds, TakeChildUpdate(kind) PROVE Slots'
  BY <1>7
  DEF TakeChildUpdate, Takes, slot, ghost, Inv, Types, SlotTypes, Slots, Armed, IsWait, NoTimer,
      Timer
<1>8. ASSUME TakeSetModel PROVE Slots'
  BY <1>8 DEF TakeSetModel, Takes, NoTimer, Timer, IsWait, Inv, Types, SlotTypes, Slots, Armed
<1>9. ASSUME DigestReady PROVE Slots'
  BY <1>9 DEF DigestReady, slot, ghost, Inv, Types, SlotTypes, Slots, Armed, IsWait, NoTimer, Timer
<1>10. ASSUME DrainEnds PROVE Slots'
  BY <1>10
  DEF DrainEnds, slot, work, ghost, Inv, Types, SlotTypes, Slots, Armed, IsWait, NoTimer, Timer
<1>11. ASSUME DispatchPending PROVE Slots'
  BY <1>11
  DEF DispatchPending, StartTurn, slot, Inv, Types, SlotTypes, Slots, Armed, IsWait, NoTimer, Timer
<1>12. ASSUME DispatchMessage PROVE Slots'
  BY <1>12
  DEF DispatchMessage, StartTurn, slot, Inv, Types, SlotTypes, Slots, Armed, IsWait, NoTimer, Timer
<1>13. ASSUME WaitCompletes PROVE Slots'
  BY <1>13
  DEF WaitCompletes, Pops, StartTurn, slot, Inv, Types, SlotTypes, Slots, Armed, IsWait, NoTimer,
      Timer
<1>14. ASSUME CronFires PROVE Slots'
  BY <1>14
  DEF CronFires, Pops, StartTurn, slot, Inv, Types, SlotTypes, Slots, Armed, IsWait, NoTimer, Timer
<1>15. ASSUME CronAtFires PROVE Slots'
  BY <1>15
  DEF CronAtFires, Pops, StartTurn, Exhausted, Fired, NoAt, Inv, Types, SlotTypes, Slots, Armed,
      IsWait, NoTimer, Timer
<1>16. ASSUME HoldEnds PROVE Slots'
  BY <1>16
  DEF HoldEnds, Pops, TakesSlot, NoTimer, Timer, Inv, Types, SlotTypes, Slots, Armed, IsWait,
      RunsTurn
<1>17. ASSUME GraceEnds PROVE Slots'
  BY <1>17
  DEF GraceEnds, Pops, TakesSlot, HoldForAnswer, Timer, Inv, Types, SlotTypes, Slots, Armed, IsWait,
      RunsTurn, NoTimer
<1>18. ASSUME SuppressDigest PROVE Slots'
  BY <1>18
  DEF SuppressDigest, slot, ghost, Inv, Types, SlotTypes, Slots, Armed, IsWait, NoTimer, Timer
<1>19. ASSUME processPendingChildDigest PROVE Slots'
  BY <1>19
  DEF processPendingChildDigest, Interrupt, StartTurn, NoTimer, Timer, RunsTurn, IsWait, Inv, Types,
      SlotTypes, Slots, Armed
<1>20. ASSUME NEW change \in Changes, TurnCompletes(change) PROVE Slots'
  BY <1>20
  DEF TurnCompletes, Ends, schedulePostTurnContinuation, Observes, Overwrites, work, Inv, Types,
      SlotTypes, Slots, Armed, IsWait, NoTimer, NoHeld, Timer, Owing
<1>21. ASSUME NEW change \in Changes, TurnAsks(change) PROVE Slots'
  BY <1>21
  DEF TurnAsks, Ends, Applies, Observes, Overwrites, HoldForAnswer, Timer, Inv, Types, SlotTypes,
      Slots, Armed, IsWait, NoTimer
<1>22. ASSUME NEW change \in Changes, NEW seconds \in WaitSeconds, TurnWaits(seconds, change)
      PROVE  Slots'
  BY <1>22
  DEF TurnWaits, Ends, Applies, Observes, Timer, NoHeld, work, Inv, Types, SlotTypes, Slots, Armed,
      IsWait, NoTimer
<1>23. ASSUME TurnStopped PROVE Slots'
  BY <1>23
  DEF TurnStopped, Ends, schedulePostTurnContinuation, Observes, Overwrites, NoChange, work, Inv,
      Types, SlotTypes, Slots, Armed, IsWait, NoTimer, NoHeld, Timer, Owing
<1>24. ASSUME TurnRefused PROVE Slots'
  BY <1>24
  DEF TurnRefused, Ends, Timer, NoHeld, work, Inv, Types, SlotTypes, Slots, Armed, IsWait, NoTimer
<1>25. ASSUME NEW result \in Results, TurnAbandoned(result) PROVE Slots'
  BY <1>25
  DEF TurnAbandoned, Ends, slot, work, Inv, Types, SlotTypes, Slots, Armed, IsWait, NoTimer, Timer
<1> QED
  BY <1>1, <1>2, <1>3, <1>4, <1>5, <1>6, <1>7, <1>8, <1>9, <1>10, <1>11, <1>12, <1>13, <1>14,
     <1>15, <1>16, <1>17, <1>18, <1>19, <1>20, <1>21, <1>22, <1>23, <1>24, <1>25
  DEF Next, drain, decide, handleTurnResult

(* A pause loses its flag only where that is counted.                       *)
LEMMA FlagsKeptNext ==
  ASSUME Inv, Next
  PROVE  FlagsKept'
<1>1. ASSUME Tick PROVE FlagsKept'
  BY <1>1 DEF Tick, Passed, work, Inv, Types, SlotTypes, Slots, FlagsKept, IsWait
<1>2. ASSUME LoopTop PROVE FlagsKept'
  BY <1>2 DEF LoopTop, slot, work, ghost, Inv, Types, SlotTypes, Slots, FlagsKept, IsWait
<1>3. ASSUME versionedContinueAsNew PROVE FlagsKept'
  BY <1>3 DEF versionedContinueAsNew, work, Inv, Types, SlotTypes, Slots, FlagsKept, IsWait
<1>4. ASSUME TimerFires PROVE FlagsKept'
  BY <1>4 DEF TimerFires, NoTimer, Timer, Inv, Types, SlotTypes, Slots, FlagsKept, IsWait
<1>5. ASSUME TakePrompt PROVE FlagsKept'
  BY <1>5
  DEF TakePrompt, Takes, Interrupt, NoTimer, Timer, RunsTurn, IsWait, Inv, Types, SlotTypes, Slots,
      FlagsKept
<1>6. ASSUME TakeAnswer PROVE FlagsKept'
  BY <1>6
  DEF TakeAnswer, Takes, NoTimer, Timer, ghost, Inv, Types, SlotTypes, Slots, FlagsKept, IsWait
<1>7. ASSUME NEW kind \in Kinds, TakeChildUpdate(kind) PROVE FlagsKept'
  BY <1>7 DEF TakeChildUpdate, Takes, slot, ghost, Inv, Types, SlotTypes, Slots, FlagsKept, IsWait
<1>8. ASSUME TakeSetModel PROVE FlagsKept'
  BY <1>8 DEF TakeSetModel, Takes, NoTimer, Timer, IsWait, Inv, Types, SlotTypes, Slots, FlagsKept
<1>9. ASSUME DigestReady PROVE FlagsKept'
  BY <1>9 DEF DigestReady, slot, ghost, Inv, Types, SlotTypes, Slots, FlagsKept, IsWait
<1>10. ASSUME DrainEnds PROVE FlagsKept'
  BY <1>10 DEF DrainEnds, slot, work, ghost, Inv, Types, SlotTypes, Slots, FlagsKept, IsWait
<1>11. ASSUME DispatchPending PROVE FlagsKept'
  BY <1>11 DEF DispatchPending, StartTurn, slot, Inv, Types, SlotTypes, Slots, FlagsKept, IsWait
<1>12. ASSUME DispatchMessage PROVE FlagsKept'
  BY <1>12 DEF DispatchMessage, StartTurn, slot, Inv, Types, SlotTypes, Slots, FlagsKept, IsWait
<1>13. ASSUME WaitCompletes PROVE FlagsKept'
  BY <1>13 DEF WaitCompletes, Pops, StartTurn, slot, Inv, Types, SlotTypes, Slots, FlagsKept, IsWait
<1>14. ASSUME CronFires PROVE FlagsKept'
  BY <1>14 DEF CronFires, Pops, StartTurn, slot, Inv, Types, SlotTypes, Slots, FlagsKept, IsWait
<1>15. ASSUME CronAtFires PROVE FlagsKept'
  BY <1>15
  DEF CronAtFires, Pops, StartTurn, Exhausted, Fired, NoAt, Inv, Types, SlotTypes, Slots, FlagsKept,
      IsWait
<1>16. ASSUME HoldEnds PROVE FlagsKept'
  BY <1>16
  DEF HoldEnds, Pops, TakesSlot, NoTimer, Timer, Inv, Types, SlotTypes, Slots, FlagsKept, IsWait,
      RunsTurn
<1>17. ASSUME GraceEnds PROVE FlagsKept'
  BY <1>17
  DEF GraceEnds, Pops, TakesSlot, HoldForAnswer, Timer, Inv, Types, SlotTypes, Slots, FlagsKept,
      IsWait, RunsTurn
<1>18. ASSUME SuppressDigest PROVE FlagsKept'
  BY <1>18 DEF SuppressDigest, slot, ghost, Inv, Types, SlotTypes, Slots, FlagsKept, IsWait
<1>19. ASSUME processPendingChildDigest PROVE FlagsKept'
  BY <1>19
  DEF processPendingChildDigest, Interrupt, StartTurn, NoTimer, Timer, RunsTurn, IsWait, Inv, Types,
      SlotTypes, Slots, FlagsKept
<1>20. ASSUME NEW change \in Changes, TurnCompletes(change) PROVE FlagsKept'
  BY <1>20
  DEF TurnCompletes, Ends, schedulePostTurnContinuation, Observes, Overwrites, work, Inv, Types,
      SlotTypes, Slots, FlagsKept, IsWait, NoHeld, Timer, Owing
<1>21. ASSUME NEW change \in Changes, TurnAsks(change) PROVE FlagsKept'
  BY <1>21
  DEF TurnAsks, Ends, Applies, Observes, Overwrites, HoldForAnswer, Timer, Inv, Types, SlotTypes,
      Slots, FlagsKept, IsWait
<1>22. ASSUME NEW change \in Changes, NEW seconds \in WaitSeconds, TurnWaits(seconds, change)
      PROVE  FlagsKept'
  BY <1>22
  DEF TurnWaits, Ends, Applies, Observes, Timer, NoHeld, work, Inv, Types, SlotTypes, Slots,
      FlagsKept, IsWait
<1>23. ASSUME TurnStopped PROVE FlagsKept'
  BY <1>23
  DEF TurnStopped, Ends, schedulePostTurnContinuation, Observes, Overwrites, NoChange, work, Inv,
      Types, SlotTypes, Slots, FlagsKept, IsWait, NoHeld, Timer, Owing
<1>24. ASSUME TurnRefused PROVE FlagsKept'
  BY <1>24
  DEF TurnRefused, Ends, Timer, NoHeld, work, Inv, Types, SlotTypes, Slots, FlagsKept, IsWait
<1>25. ASSUME NEW result \in Results, TurnAbandoned(result) PROVE FlagsKept'
  BY <1>25 DEF TurnAbandoned, Ends, slot, work, Inv, Types, SlotTypes, Slots, FlagsKept, IsWait
<1> QED
  BY <1>1, <1>2, <1>3, <1>4, <1>5, <1>6, <1>7, <1>8, <1>9, <1>10, <1>11, <1>12, <1>13, <1>14,
     <1>15, <1>16, <1>17, <1>18, <1>19, <1>20, <1>21, <1>22, <1>23, <1>24, <1>25
  DEF Next, drain, decide, handleTurnResult

(* No step loses the wait that is owed.                                     *)
LEMMA WaitKeptNext ==
  ASSUME Inv, Next
  PROVE  WaitKept'
<1> USE InSecondsNat
<1>1. ASSUME Tick PROVE WaitKept'
  BY <1>1, SameFifo
  DEF Tick, Passed, work, Inv, Types, SlotTypes, Slots, WaitKept, IsWait, TimerTypes
<1>2. ASSUME LoopTop PROVE WaitKept'
  BY <1>2, SameFifo
  DEF LoopTop, slot, work, ghost, Inv, Types, SlotTypes, Slots, WaitKept, IsWait, TimerTypes
<1>3. ASSUME versionedContinueAsNew PROVE WaitKept'
  BY <1>3, SameFifo
  DEF versionedContinueAsNew, work, Inv, Types, SlotTypes, Slots, WaitKept, IsWait, TimerTypes
<1>4. ASSUME TimerFires PROVE WaitKept'
  BY <1>4, Appends
  DEF TimerFires, NoTimer, Timer, Inv, Types, SlotTypes, Slots, WaitKept, IsWait, TimerTypes
<1>5. ASSUME TakePrompt PROVE WaitKept'
  <2>1. timer.type = "wait" => held'.type = "wait" /\ (held'.left > 0 \/ lost' # "none")
    BY <1>5, InSecondsNat DEF TakePrompt, Interrupt, IsWait, Inv, Types, SlotTypes
  <2>2. timer.type # "wait" /\ held.type = "wait" /\ held.left > 0 => held' = held
    <3>1. held.left > 0 => ~IsWait(timer)
      BY DEF Inv, Types, SlotTypes, Slots
    <3> QED
      BY <1>5, <3>1 DEF TakePrompt, Interrupt
  <2>3. owed' = owed /\ (Queued("wait") => Queued("wait")')
    BY <1>5, Appends DEF TakePrompt, Inv, Types, Messages
  <2>4. lost # "none" => lost' # "none"
    BY <1>5 DEF TakePrompt, Interrupt
  <2> QED
    BY <2>1, <2>2, <2>3, <2>4 DEF Inv, WaitKept
<1>6. ASSUME TakeAnswer PROVE WaitKept'
  BY <1>6, Appends
  DEF TakeAnswer, Takes, NoTimer, Timer, ghost, Inv, Types, SlotTypes, Slots, WaitKept, IsWait,
      TimerTypes, Messages
<1>7. ASSUME NEW kind \in Kinds, TakeChildUpdate(kind) PROVE WaitKept'
  BY <1>7, SameFifo
  DEF TakeChildUpdate, Takes, slot, ghost, Inv, Types, SlotTypes, Slots, WaitKept, IsWait,
      TimerTypes
<1>8. ASSUME TakeSetModel PROVE WaitKept'
  BY <1>8, SameFifo
  DEF TakeSetModel, Takes, NoTimer, Timer, IsWait, Inv, Types, SlotTypes, Slots, WaitKept,
      TimerTypes
<1>9. ASSUME DigestReady PROVE WaitKept'
  BY <1>9, SameFifo
  DEF DigestReady, slot, ghost, Inv, Types, SlotTypes, Slots, WaitKept, IsWait, TimerTypes
<1>10. ASSUME DrainEnds PROVE WaitKept'
  BY <1>10, SameFifo
  DEF DrainEnds, slot, work, ghost, Inv, Types, SlotTypes, Slots, WaitKept, IsWait, TimerTypes
<1>11. ASSUME DispatchPending PROVE WaitKept'
  BY <1>11, SameFifo
  DEF DispatchPending, StartTurn, slot, Inv, Types, SlotTypes, Slots, WaitKept, IsWait, TimerTypes
<1>12. ASSUME DispatchMessage PROVE WaitKept'
  BY <1>12, DispatchKeepsTimers
  DEF DispatchMessage, StartTurn, slot, Inv, Types, SlotTypes, Slots, WaitKept, IsWait, TimerTypes,
      Messages
<1>13. ASSUME WaitCompletes PROVE WaitKept'
  BY <1>13, PopsHead
  DEF WaitCompletes, Pops, StartTurn, slot, Inv, Types, SlotTypes, Slots, WaitKept, IsWait,
      Messages, TimerTypes
<1>14. ASSUME CronFires PROVE WaitKept'
  BY <1>14, PopsHead
  DEF CronFires, Pops, StartTurn, slot, Inv, Types, SlotTypes, Slots, WaitKept, IsWait, Messages,
      TimerTypes
<1>15. ASSUME CronAtFires PROVE WaitKept'
  BY <1>15, PopsHead
  DEF CronAtFires, Pops, StartTurn, Exhausted, Fired, NoAt, Inv, Types, SlotTypes, Slots, WaitKept,
      IsWait, Messages, TimerTypes
<1>16. ASSUME HoldEnds PROVE WaitKept'
  BY <1>16, PopsHead
  DEF HoldEnds, Pops, TakesSlot, NoTimer, Timer, Inv, Types, SlotTypes, Slots, WaitKept, IsWait,
      RunsTurn, Messages, TimerTypes
<1>17. ASSUME GraceEnds PROVE WaitKept'
  BY <1>17, PopsHead
  DEF GraceEnds, Pops, TakesSlot, HoldForAnswer, Timer, Inv, Types, SlotTypes, Slots, WaitKept,
      IsWait, RunsTurn, Messages, TimerTypes
<1>18. ASSUME SuppressDigest PROVE WaitKept'
  BY <1>18, SameFifo
  DEF SuppressDigest, slot, ghost, Inv, Types, SlotTypes, Slots, WaitKept, IsWait, TimerTypes
<1>19. ASSUME processPendingChildDigest PROVE WaitKept'
  <2>1. timer.type = "wait" => held'.type = "wait" /\ (held'.left > 0 \/ lost' # "none")
    BY <1>19, InSecondsNat DEF processPendingChildDigest, Interrupt, IsWait, Inv, Types, SlotTypes
  <2>2. timer.type # "wait" /\ held.type = "wait" /\ held.left > 0 => held' = held
    <3>1. held.left > 0 => ~IsWait(timer)
      BY DEF Inv, Types, SlotTypes, Slots
    <3> QED
      BY <1>19, <3>1 DEF processPendingChildDigest, Interrupt
  <2>3. owed' = owed /\ (Queued("wait") => Queued("wait")')
    BY <1>19, SameFifo DEF processPendingChildDigest, Inv, Types, Messages
  <2>4. lost # "none" => lost' # "none"
    BY <1>19 DEF processPendingChildDigest, Interrupt
  <2> QED
    BY <2>1, <2>2, <2>3, <2>4 DEF Inv, WaitKept
<1>20. ASSUME NEW change \in Changes, TurnCompletes(change) PROVE WaitKept'
  BY <1>20, SameFifo
  DEF TurnCompletes, Ends, schedulePostTurnContinuation, Observes, Overwrites, work, Inv, Types,
      SlotTypes, Slots, WaitKept, IsWait, NoHeld, Timer, Owing, TimerTypes
<1>21. ASSUME NEW change \in Changes, TurnAsks(change) PROVE WaitKept'
  BY <1>21, AsksKeepsTimers
  DEF TurnAsks, Ends, Applies, Observes, Overwrites, HoldForAnswer, Timer, Inv, Types, SlotTypes,
      Slots, WaitKept, IsWait, TimerTypes, Messages
<1>22. ASSUME NEW change \in Changes, NEW seconds \in WaitSeconds, TurnWaits(seconds, change)
      PROVE  WaitKept'
  BY <1>22, SameFifo
  DEF TurnWaits, Ends, Applies, Observes, Timer, NoHeld, work, Inv, Types, SlotTypes, Slots,
      WaitKept, IsWait, TimerTypes
<1>23. ASSUME TurnStopped PROVE WaitKept'
  BY <1>23, SameFifo
  DEF TurnStopped, Ends, schedulePostTurnContinuation, Observes, Overwrites, NoChange, work, Inv,
      Types, SlotTypes, Slots, WaitKept, IsWait, NoHeld, Timer, Owing, TimerTypes
<1>24. ASSUME TurnRefused PROVE WaitKept'
  BY <1>24, SameFifo
  DEF TurnRefused, Ends, Timer, NoHeld, work, Inv, Types, SlotTypes, Slots, WaitKept, IsWait,
      TimerTypes
<1>25. ASSUME NEW result \in Results, TurnAbandoned(result) PROVE WaitKept'
  BY <1>25, SameFifo
  DEF TurnAbandoned, Ends, slot, work, Inv, Types, SlotTypes, Slots, WaitKept, IsWait, TimerTypes
<1> QED
  BY <1>1, <1>2, <1>3, <1>4, <1>5, <1>6, <1>7, <1>8, <1>9, <1>10, <1>11, <1>12, <1>13, <1>14,
     <1>15, <1>16, <1>17, <1>18, <1>19, <1>20, <1>21, <1>22, <1>23, <1>24, <1>25
  DEF Next, drain, decide, handleTurnResult

(* The timer after a turn runs a turn if there is a schedule, and a cron or *)
(* wall-clock timer is of the schedule, unless an older cron is resumed.    *)
LEMMA PostTurnTimer ==
  ASSUME Inv, NEW change \in Changes, schedulePostTurnContinuation(change)
  PROVE  /\ schedule' = change.schedule
         /\ schedule' # "none" => RunsTurn(timer')
         /\ lapsed' = {} /\ schedule' # "none" /\ timer'.type \in {"cron", "cron_at"} =>
              timer'.type = schedule'
<1>1. schedule' = change.schedule /\ change.schedule \in {"none", "cron", "cron_at"}
  BY ChangeTypes DEF schedulePostTurnContinuation, Inv, Types
<1>2. CASE Owing.left > 0
  <2>1. timer'.type = held.type /\ IsWait(held)
    BY <1>2 DEF schedulePostTurnContinuation, Timer, Owing, NoHeld, Inv, Slots
  <2> QED
    BY <1>1, <2>1 DEF RunsTurn, IsWait
<1>3. CASE ~(Owing.left > 0) /\ change.rest > 0
  <2>1. timer'.type = "cron" /\ (lapsed' = {} => change.schedule # "cron_at")
    BY <1>3 DEF schedulePostTurnContinuation, Timer
  <2> QED
    BY <1>1, <2>1 DEF RunsTurn, IsWait
<1>4. CASE ~(Owing.left > 0) /\ ~(change.rest > 0)
  <2>1. change.schedule # "none" => timer'.type = change.schedule
    BY <1>1, <1>4 DEF schedulePostTurnContinuation, Timer
  <2> QED
    BY <1>1, <2>1 DEF RunsTurn, IsWait
<1> QED
  BY <1>2, <1>3, <1>4

(* No step arms the timer of a schedule that is not set.                    *)
LEMMA TimerFitsNext ==
  ASSUME Inv, Next
  PROVE  TimerFits'
<1>1. ASSUME Tick PROVE TimerFits'
  BY <1>1 DEF Tick, Passed, work, Inv, Types, SlotTypes, Slots, TimerFits, IsWait
<1>2. ASSUME LoopTop PROVE TimerFits'
  BY <1>2 DEF LoopTop, slot, work, ghost, Inv, Types, SlotTypes, Slots, TimerFits, IsWait
<1>3. ASSUME versionedContinueAsNew PROVE TimerFits'
  BY <1>3 DEF versionedContinueAsNew, work, Inv, Types, SlotTypes, Slots, TimerFits, IsWait
<1>4. ASSUME TimerFires PROVE TimerFits'
  BY <1>4 DEF TimerFires, NoTimer, Timer, Inv, Types, SlotTypes, Slots, TimerFits, IsWait
<1>5. ASSUME TakePrompt PROVE TimerFits'
  BY <1>5
  DEF TakePrompt, Takes, Interrupt, NoTimer, Timer, RunsTurn, IsWait, Inv, Types, SlotTypes, Slots,
      TimerFits
<1>6. ASSUME TakeAnswer PROVE TimerFits'
  BY <1>6
  DEF TakeAnswer, Takes, NoTimer, Timer, ghost, Inv, Types, SlotTypes, Slots, TimerFits, IsWait
<1>7. ASSUME NEW kind \in Kinds, TakeChildUpdate(kind) PROVE TimerFits'
  BY <1>7 DEF TakeChildUpdate, Takes, slot, ghost, Inv, Types, SlotTypes, Slots, TimerFits, IsWait
<1>8. ASSUME TakeSetModel PROVE TimerFits'
  BY <1>8 DEF TakeSetModel, Takes, NoTimer, Timer, IsWait, Inv, Types, SlotTypes, Slots, TimerFits
<1>9. ASSUME DigestReady PROVE TimerFits'
  BY <1>9 DEF DigestReady, slot, ghost, Inv, Types, SlotTypes, Slots, TimerFits, IsWait
<1>10. ASSUME DrainEnds PROVE TimerFits'
  BY <1>10 DEF DrainEnds, slot, work, ghost, Inv, Types, SlotTypes, Slots, TimerFits, IsWait
<1>11. ASSUME DispatchPending PROVE TimerFits'
  BY <1>11 DEF DispatchPending, StartTurn, slot, Inv, Types, SlotTypes, Slots, TimerFits, IsWait
<1>12. ASSUME DispatchMessage PROVE TimerFits'
  BY <1>12 DEF DispatchMessage, StartTurn, slot, Inv, Types, SlotTypes, Slots, TimerFits, IsWait
<1>13. ASSUME WaitCompletes PROVE TimerFits'
  BY <1>13 DEF WaitCompletes, Pops, StartTurn, slot, Inv, Types, SlotTypes, Slots, TimerFits, IsWait
<1>14. ASSUME CronFires PROVE TimerFits'
  BY <1>14 DEF CronFires, Pops, StartTurn, slot, Inv, Types, SlotTypes, Slots, TimerFits, IsWait
<1>15. ASSUME CronAtFires PROVE TimerFits'
  BY <1>15
  DEF CronAtFires, Pops, StartTurn, Exhausted, Fired, NoAt, Inv, Types, SlotTypes, Slots, TimerFits,
      IsWait
<1>16. ASSUME HoldEnds PROVE TimerFits'
  BY <1>16
  DEF HoldEnds, Pops, TakesSlot, NoTimer, Timer, Inv, Types, SlotTypes, Slots, TimerFits, IsWait,
      RunsTurn
<1>17. ASSUME GraceEnds PROVE TimerFits'
  BY <1>17
  DEF GraceEnds, Pops, TakesSlot, HoldForAnswer, Timer, Inv, Types, SlotTypes, Slots, TimerFits,
      IsWait, RunsTurn
<1>18. ASSUME SuppressDigest PROVE TimerFits'
  BY <1>18 DEF SuppressDigest, slot, ghost, Inv, Types, SlotTypes, Slots, TimerFits, IsWait
<1>19. ASSUME processPendingChildDigest PROVE TimerFits'
  BY <1>19
  DEF processPendingChildDigest, Interrupt, StartTurn, NoTimer, Timer, RunsTurn, IsWait, Inv, Types,
      SlotTypes, Slots, TimerFits
<1>20. ASSUME NEW change \in Changes, TurnCompletes(change) PROVE TimerFits'
  <2>1. lapsed' = {} /\ schedule' # "none" /\ timer'.type \in {"cron", "cron_at"} =>
          timer'.type = schedule'
    BY <1>20, PostTurnTimer DEF TurnCompletes, Inv, Types
  <2> QED
    BY <2>1 DEF TimerFits
<1>21. ASSUME NEW change \in Changes, TurnAsks(change) PROVE TimerFits'
  BY <1>21
  DEF TurnAsks, Ends, Applies, Observes, Overwrites, HoldForAnswer, Timer, Inv, Types, SlotTypes,
      Slots, TimerFits, IsWait
<1>22. ASSUME NEW change \in Changes, NEW seconds \in WaitSeconds, TurnWaits(seconds, change)
      PROVE  TimerFits'
  BY <1>22
  DEF TurnWaits, Ends, Applies, Observes, Timer, NoHeld, work, Inv, Types, SlotTypes, Slots,
      TimerFits, IsWait
<1>23. ASSUME TurnStopped PROVE TimerFits'
  BY <1>23
  DEF TurnStopped, Ends, schedulePostTurnContinuation, Observes, Overwrites, NoChange, work, Inv,
      Types, SlotTypes, Slots, TimerFits, IsWait, NoHeld, Timer, Owing
<1>24. ASSUME TurnRefused PROVE TimerFits'
  BY <1>24
  DEF TurnRefused, Ends, Timer, NoHeld, work, Inv, Types, SlotTypes, Slots, TimerFits, IsWait
<1>25. ASSUME NEW result \in Results, TurnAbandoned(result) PROVE TimerFits'
  BY <1>25 DEF TurnAbandoned, Ends, slot, work, Inv, Types, SlotTypes, Slots, TimerFits, IsWait
<1> QED
  BY <1>1, <1>2, <1>3, <1>4, <1>5, <1>6, <1>7, <1>8, <1>9, <1>10, <1>11, <1>12, <1>13, <1>14,
     <1>15, <1>16, <1>17, <1>18, <1>19, <1>20, <1>21, <1>22, <1>23, <1>24, <1>25
  DEF Next, drain, decide, handleTurnResult

(* No step outside a turn loses the next turn of a schedule.                *)
LEMMA NextTurnNext ==
  ASSUME Inv, Next
  PROVE  NextTurnKnown'
<1>1. ASSUME Tick PROVE NextTurnKnown'
  BY <1>1, SameFifo
  DEF Tick, Passed, work, Inv, Types, SlotTypes, Slots, TimerFits, NextTurnKnown, IsWait, RunsTurn,
      TimerTypes, Wakes
<1>2. ASSUME LoopTop PROVE NextTurnKnown'
  BY <1>2, SameFifo
  DEF LoopTop, slot, work, ghost, Inv, Types, SlotTypes, Slots, TimerFits, NextTurnKnown, IsWait,
      RunsTurn, TimerTypes, Wakes
<1>3. ASSUME versionedContinueAsNew PROVE NextTurnKnown'
  BY <1>3, SameFifo
  DEF versionedContinueAsNew, work, Inv, Types, SlotTypes, Slots, TimerFits, NextTurnKnown, IsWait,
      RunsTurn, TimerTypes, Wakes
<1>4. ASSUME TimerFires PROVE NextTurnKnown'
  BY <1>4, Appends
  DEF TimerFires, NoTimer, Timer, Inv, Types, SlotTypes, Slots, TimerFits, NextTurnKnown, IsWait,
      RunsTurn, TimerTypes, Wakes
<1>5. ASSUME TakePrompt PROVE NextTurnKnown'
  BY <1>5, Appends
  DEF TakePrompt, Takes, Interrupt, NoTimer, Timer, RunsTurn, IsWait, Inv, Types, SlotTypes, Slots,
      TimerFits, NextTurnKnown, TimerTypes, Wakes, Messages
<1>6. ASSUME TakeAnswer PROVE NextTurnKnown'
  BY <1>6, Appends
  DEF TakeAnswer, Takes, NoTimer, Timer, ghost, Inv, Types, SlotTypes, Slots, TimerFits,
      NextTurnKnown, IsWait, RunsTurn, TimerTypes, Wakes, Messages
<1>7. ASSUME NEW kind \in Kinds, TakeChildUpdate(kind) PROVE NextTurnKnown'
  BY <1>7, SameFifo
  DEF TakeChildUpdate, Takes, slot, ghost, Inv, Types, SlotTypes, Slots, TimerFits, NextTurnKnown,
      IsWait, RunsTurn, TimerTypes, Wakes
<1>8. ASSUME TakeSetModel PROVE NextTurnKnown'
  BY <1>8, SameFifo
  DEF TakeSetModel, Takes, NoTimer, Timer, IsWait, Inv, Types, SlotTypes, Slots, TimerFits,
      NextTurnKnown, RunsTurn, TimerTypes, Wakes
<1>9. ASSUME DigestReady PROVE NextTurnKnown'
  BY <1>9, SameFifo
  DEF DigestReady, slot, ghost, Inv, Types, SlotTypes, Slots, TimerFits, NextTurnKnown, IsWait,
      RunsTurn, TimerTypes, Wakes
<1>10. ASSUME DrainEnds PROVE NextTurnKnown'
  BY <1>10, SameFifo
  DEF DrainEnds, slot, work, ghost, Inv, Types, SlotTypes, Slots, TimerFits, NextTurnKnown, IsWait,
      RunsTurn, TimerTypes, Wakes
<1>11. ASSUME DispatchPending PROVE NextTurnKnown'
  BY <1>11, SameFifo
  DEF DispatchPending, StartTurn, slot, Inv, Types, SlotTypes, Slots, TimerFits, NextTurnKnown,
      IsWait, RunsTurn, TimerTypes, Wakes
<1>12. ASSUME DispatchMessage PROVE NextTurnKnown'
  BY <1>12, DispatchKeepsTimers
  DEF DispatchMessage, StartTurn, slot, Inv, Types, SlotTypes, Slots, TimerFits, NextTurnKnown,
      IsWait, RunsTurn, TimerTypes, Wakes
<1>13. ASSUME WaitCompletes PROVE NextTurnKnown'
  BY <1>13, PopsHead
  DEF WaitCompletes, Pops, StartTurn, slot, Inv, Types, SlotTypes, Slots, TimerFits, NextTurnKnown,
      IsWait, RunsTurn, Messages, TimerTypes, Wakes
<1>14. ASSUME CronFires PROVE NextTurnKnown'
  BY <1>14, PopsHead
  DEF CronFires, Pops, StartTurn, slot, Inv, Types, SlotTypes, Slots, TimerFits, NextTurnKnown,
      IsWait, RunsTurn, Messages, TimerTypes, Wakes
<1>15. ASSUME CronAtFires PROVE NextTurnKnown'
  BY <1>15, PopsHead
  DEF CronAtFires, Pops, StartTurn, Exhausted, Fired, NoAt, Inv, Types, SlotTypes, Slots, TimerFits,
      NextTurnKnown, IsWait, RunsTurn, Messages, TimerTypes, Wakes
<1>16. ASSUME HoldEnds PROVE NextTurnKnown'
  BY <1>16, PopsHead
  DEF HoldEnds, Pops, TakesSlot, NoTimer, Timer, Inv, Types, SlotTypes, Slots, TimerFits,
      NextTurnKnown, IsWait, RunsTurn, Messages, TimerTypes, Wakes
<1>17. ASSUME GraceEnds PROVE NextTurnKnown'
  BY <1>17, PopsHead
  DEF GraceEnds, Pops, TakesSlot, HoldForAnswer, Timer, Inv, Types, SlotTypes, Slots, TimerFits,
      NextTurnKnown, IsWait, RunsTurn, Messages, TimerTypes, Wakes
<1>18. ASSUME SuppressDigest PROVE NextTurnKnown'
  BY <1>18, SameFifo
  DEF SuppressDigest, slot, ghost, Inv, Types, SlotTypes, Slots, TimerFits, NextTurnKnown, IsWait,
      RunsTurn, TimerTypes, Wakes
<1>19. ASSUME processPendingChildDigest PROVE NextTurnKnown'
  BY <1>19, SameFifo
  DEF processPendingChildDigest, Interrupt, StartTurn, NoTimer, Timer, RunsTurn, IsWait, Inv, Types,
      SlotTypes, Slots, TimerFits, NextTurnKnown, TimerTypes, Wakes
<1>20. ASSUME NEW change \in Changes, TurnCompletes(change) PROVE NextTurnKnown'
  <2>1. schedule' # "none" => RunsTurn(timer')
    BY <1>20, PostTurnTimer DEF TurnCompletes, Inv
  <2> QED
    BY <2>1 DEF NextTurnKnown, RunsTurn, IsWait
<1>21. ASSUME NEW change \in Changes, TurnAsks(change) PROVE NextTurnKnown'
  BY <1>21, AsksKeepsTimers
  DEF TurnAsks, Ends, Applies, Observes, Overwrites, HoldForAnswer, Timer, Inv, Types, SlotTypes,
      Slots, TimerFits, NextTurnKnown, IsWait, RunsTurn, TimerTypes, Wakes
<1>22. ASSUME NEW change \in Changes, NEW seconds \in WaitSeconds, TurnWaits(seconds, change)
      PROVE  NextTurnKnown'
  BY <1>22, SameFifo
  DEF TurnWaits, Ends, Applies, Observes, Timer, NoHeld, work, Inv, Types, SlotTypes, Slots,
      TimerFits, NextTurnKnown, IsWait, RunsTurn, TimerTypes, Wakes
<1>23. ASSUME TurnStopped PROVE NextTurnKnown'
  BY <1>23, SameFifo
  DEF TurnStopped, Ends, schedulePostTurnContinuation, Observes, Overwrites, NoChange, work, Inv,
      Types, SlotTypes, Slots, TimerFits, NextTurnKnown, IsWait, RunsTurn, NoHeld, Timer, Owing,
      TimerTypes, Wakes
<1>24. ASSUME TurnRefused PROVE NextTurnKnown'
  BY <1>24, SameFifo
  DEF TurnRefused, Ends, Timer, NoHeld, work, Inv, Types, SlotTypes, Slots, TimerFits,
      NextTurnKnown, IsWait, RunsTurn, TimerTypes, Wakes
<1>25. ASSUME NEW result \in Results, TurnAbandoned(result) PROVE NextTurnKnown'
  BY <1>25, SameFifo
  DEF TurnAbandoned, Ends, slot, work, Inv, Types, SlotTypes, Slots, TimerFits, NextTurnKnown,
      IsWait, RunsTurn, TimerTypes, Wakes
<1> QED
  BY <1>1, <1>2, <1>3, <1>4, <1>5, <1>6, <1>7, <1>8, <1>9, <1>10, <1>11, <1>12, <1>13, <1>14,
     <1>15, <1>16, <1>17, <1>18, <1>19, <1>20, <1>21, <1>22, <1>23, <1>24, <1>25
  DEF Next, drain, decide, handleTurnResult

(* Nothing but an unchanged schedule can name an occurrence that has passed. *)
LEMMA PassedIsUnchanged ==
  ASSUME Inv, NEW change \in Changes, change.at.next = 0
  PROVE  change = NoChange /\ change.at = at
BY DEF Changes, NoChange, NewAt, NoAt

(* The wall-clock timer after a turn is that of the next occurrence.        *)
LEMMA PostTurnOccurrences ==
  ASSUME Inv, NEW change \in Changes, schedulePostTurnContinuation(change), fifo' = fifo
  PROVE  Occurrences'
<1> DEFINE next == IF change.at.next >= 0 THEN change.at.next
                   ELSE computeCronAtNextFire(change.at.last)
<1>1. change.at \in AtType
  BY ChangeTypes DEF Inv, Types
<1>2. next \in 0 .. 2 /\ (next = 0 => change.at.next = 0)
  BY <1>1 DEF AtType, computeCronAtNextFire
<1>3. ASSUME change.at.next = 0 PROVE fresh'
  <2>1. change = NoChange /\ at.next = 0
    BY <1>3, PassedIsUnchanged
  <2> QED
    BY <2>1 DEF schedulePostTurnContinuation, Observes, Inv, Occurrences
<1>4. at'.next = 0 => change.at.next = 0
  BY <1>1, <1>2 DEF schedulePostTurnContinuation, AtType
<1>5. change.at.next = 0 => at'.next = 0
  BY <1>1 DEF schedulePostTurnContinuation, AtType
<1>6. ASSUME schedule' = "cron_at", timer'.type = "cron_at"
      PROVE  at'.next >= 0 /\ timer'.left = Until(at', at'.next)
  <2>1. ~(Owing.left > 0)
    BY <1>6 DEF schedulePostTurnContinuation, Timer, Owing, NoHeld, Inv, Slots, IsWait
  <2>2. ~(change.rest > 0)
    BY <1>6, <2>1 DEF schedulePostTurnContinuation, Timer
  <2>3. change.schedule = "cron_at"
    BY <1>6 DEF schedulePostTurnContinuation
  <2>4. timer' = Timer("cron_at", Until(change.at, next), FALSE)
    BY <2>1, <2>2, <2>3 DEF schedulePostTurnContinuation
  <2>5. at' = [change.at EXCEPT !.next = next]
    BY <2>1, <2>2, <2>3 DEF schedulePostTurnContinuation
  <2>6. at'.next = next /\ at'.to = change.at.to
    BY <1>1, <2>5 DEF AtType
  <2>7. timer'.left = Until(change.at, next)
    BY <2>4 DEF Timer
  <2>8. Until(at', next) = Until(change.at, next)
    BY <2>6 DEF Until
  <2> HIDE DEF next
  <2> QED
    BY <1>2, <2>6, <2>7, <2>8
<1>7. ASSUME ~leftover', schedule' = "cron_at", Queued("cron_at") PROVE at'.next = 0
  <2>1. change = NoChange /\ ~leftover
    BY <1>7 DEF schedulePostTurnContinuation, Observes
  <2>2. schedule = "cron_at" /\ change.at = at
    BY <1>7, <2>1 DEF schedulePostTurnContinuation, NoChange
  <2>3. at.next = 0
    BY <1>7, <2>1, <2>2 DEF Inv, Occurrences
  <2> QED
    BY <1>5, <2>2, <2>3
<1>8. ~leftover' => Once("cron_at")
  BY DEF schedulePostTurnContinuation, Observes, Inv, Occurrences
<1> QED
  BY <1>3, <1>4, <1>6, <1>7, <1>8, SameFifo DEF Occurrences

(* A step keeps a wall-clock timer, and its fire, with its occurrence.       *)
LEMMA OccurrencesNext ==
  ASSUME Inv, Next
  PROVE  Occurrences'
<1>1. ASSUME Tick PROVE Occurrences'
  <2>1. at \in AtType /\ timer.left \in Nat
    BY DEF Inv, Types, SlotTypes, AtType
  <2>2. CASE schedule # "cron_at"
    BY <1>1, <2>2, SameFifo DEF Tick, work, Inv, Occurrences
  <2>3. CASE schedule = "cron_at" /\ at.to > 1
    <3>1. at'.next = at.next /\ at'.to = at.to - 1
      BY <1>1, <2>1, <2>3 DEF Tick, AtType
    <3>2. /\ timer'.type = timer.type
          /\ timer'.left = IF timer.left > 0 THEN timer.left - 1 ELSE timer.left
      BY <1>1 DEF Tick, Inv, Types, SlotTypes
    <3>3. at.next >= 0 /\ timer.left = Until(at, at.next) => timer'.left = Until(at', at'.next)
      <4>1. CASE at.next = 0
        BY <3>1, <3>2, <4>1 DEF Until
      <4>2. CASE at.next = 1
        BY <2>1, <2>3, <3>1, <3>2, <4>2, TimerConstants DEF Until, AtType
      <4>3. CASE at.next = 2
        BY <2>1, <2>3, <3>1, <3>2, <4>3, TimerConstants DEF Until, AtType
      <4> QED
        BY <2>1, <4>1, <4>2, <4>3 DEF AtType
    <3> QED
      BY <1>1, <2>3, <3>1, <3>2, <3>3, SameFifo DEF Tick, work, Inv, Occurrences
  <2>4. CASE schedule = "cron_at" /\ ~(at.to > 1)
    <3>1. at.to = 1 /\ at'.to = Period /\ at'.next = Passed(at.next)
      BY <1>1, <2>1, <2>4 DEF Tick, AtType
    <3>2. /\ timer'.type = timer.type
          /\ timer'.left = IF timer.left > 0 THEN timer.left - 1 ELSE timer.left
      BY <1>1 DEF Tick, Inv, Types, SlotTypes
    <3>3. at.next >= 0 /\ timer.left = Until(at, at.next) =>
            at'.next >= 0 /\ timer'.left = Until(at', at'.next)
      <4>1. CASE at.next = 0
        BY <3>1, <3>2, <4>1 DEF Until, Passed
      <4>2. CASE at.next = 1
        BY <3>1, <3>2, <4>2, TimerConstants DEF Until, Passed
      <4>3. CASE at.next = 2
        BY <3>1, <3>2, <4>3, TimerConstants DEF Until, Passed
      <4> QED
        BY <2>1, <4>1, <4>2, <4>3 DEF AtType
    <3>4. fresh' /\ leftover' = leftover /\ schedule' = schedule /\ fifo' = fifo
      BY <1>1, <2>4, <3>1 DEF Tick, work
    <3>5. at.next = 0 => at'.next = 0
      BY <3>1 DEF Passed
    <3> QED
      BY <2>4, <3>2, <3>3, <3>4, <3>5, SameFifo DEF Inv, Occurrences
  <2> QED
    BY <2>2, <2>3, <2>4
<1>2. ASSUME LoopTop PROVE Occurrences'
  BY <1>2, SameFifo
  DEF LoopTop, slot, work, ghost, Inv, Types, SlotTypes, Slots, Occurrences, IsWait, TimerTypes
<1>3. ASSUME versionedContinueAsNew PROVE Occurrences'
  BY <1>3, SameFifo
  DEF versionedContinueAsNew, work, Inv, Types, SlotTypes, Slots, Occurrences, IsWait, TimerTypes
<1>4. ASSUME TimerFires PROVE Occurrences'
  <2>1. at \in AtType /\ timer.type \in Messages \union TimerTypes
    BY DEF Inv, Types, SlotTypes, AtType
  <2>2. /\ \A kind : Queued(kind)' <=> Queued(kind) \/ kind = timer.type
        /\ \A kind : Once(kind) /\ (kind = timer.type => ~Queued(kind)) => Once(kind)'
    BY <1>4, <2>1, Appends DEF TimerFires, Inv, Types
  <2>3. /\ timer'.type = "none" /\ at' = at /\ fresh' = fresh /\ schedule' = schedule
        /\ leftover' = (leftover \/ (timer.type = "cron_at" /\ Queued("cron_at")))
    BY <1>4 DEF TimerFires, NoTimer, Timer
  <2>4. ASSUME ~leftover, schedule = "cron_at", timer.type = "cron_at" PROVE at.next = 0
    <3>1. at.next >= 0 /\ Until(at, at.next) = 0
      BY <1>4, <2>4 DEF TimerFires, Inv, Occurrences
    <3>2. at.next \in 0 .. 2
      BY <2>1, <3>1 DEF AtType
    <3> QED
      BY <2>1, <3>1, <3>2, UntilNat
  <2> QED
    BY <2>2, <2>3, <2>4 DEF Inv, Occurrences
<1>5. ASSUME TakePrompt PROVE Occurrences'
  BY <1>5, Appends
  DEF TakePrompt, Takes, Interrupt, NoTimer, Timer, RunsTurn, IsWait, Inv, Types, SlotTypes, Slots,
      Occurrences, TimerTypes, Messages
<1>6. ASSUME TakeAnswer PROVE Occurrences'
  BY <1>6, Appends
  DEF TakeAnswer, Takes, NoTimer, Timer, ghost, Inv, Types, SlotTypes, Slots, Occurrences, IsWait,
      TimerTypes, Messages
<1>7. ASSUME NEW kind \in Kinds, TakeChildUpdate(kind) PROVE Occurrences'
  BY <1>7, SameFifo
  DEF TakeChildUpdate, Takes, slot, ghost, Inv, Types, SlotTypes, Slots, Occurrences, IsWait,
      TimerTypes
<1>8. ASSUME TakeSetModel PROVE Occurrences'
  BY <1>8, SameFifo
  DEF TakeSetModel, Takes, NoTimer, Timer, IsWait, Inv, Types, SlotTypes, Slots, Occurrences,
      TimerTypes
<1>9. ASSUME DigestReady PROVE Occurrences'
  BY <1>9, SameFifo
  DEF DigestReady, slot, ghost, Inv, Types, SlotTypes, Slots, Occurrences, IsWait, TimerTypes
<1>10. ASSUME DrainEnds PROVE Occurrences'
  BY <1>10, SameFifo
  DEF DrainEnds, slot, work, ghost, Inv, Types, SlotTypes, Slots, Occurrences, IsWait, TimerTypes
<1>11. ASSUME DispatchPending PROVE Occurrences'
  BY <1>11, SameFifo
  DEF DispatchPending, StartTurn, slot, Inv, Types, SlotTypes, Slots, Occurrences, IsWait,
      TimerTypes
<1>12. ASSUME DispatchMessage PROVE Occurrences'
  BY <1>12, DispatchKeepsTimers
  DEF DispatchMessage, StartTurn, slot, Inv, Types, SlotTypes, Slots, Occurrences, IsWait,
      TimerTypes, Messages
<1>13. ASSUME WaitCompletes PROVE Occurrences'
  BY <1>13, PopsHead
  DEF WaitCompletes, Pops, StartTurn, slot, Inv, Types, SlotTypes, Slots, Occurrences, IsWait,
      Messages, TimerTypes
<1>14. ASSUME CronFires PROVE Occurrences'
  BY <1>14, PopsHead
  DEF CronFires, Pops, StartTurn, slot, Inv, Types, SlotTypes, Slots, Occurrences, IsWait, Messages,
      TimerTypes
<1>15. ASSUME CronAtFires PROVE Occurrences'
  <2>1. /\ pc = "decide" /\ Queued("cron_at") /\ timer' = timer /\ leftover' = leftover
        /\ \A kind : Queued(kind)' => Queued(kind)
        /\ \A kind : Once(kind) => Once(kind)'
        /\ Once("cron_at") => ~Queued("cron_at")'
    BY <1>15, PopsHead DEF CronAtFires, Pops, Inv, Types
  <2>2. CASE schedule # "cron_at"
    BY <1>15, <2>1, <2>2 DEF CronAtFires, Inv, Occurrences
  <2>3. CASE schedule = "cron_at"
    <3>1. at'.next = -1
      <4>1. at \in AtType
        BY DEF Inv, Types, SlotTypes, AtType
      <4>2. at' = NoAt \/ at' = Fired
        BY <1>15, <2>3 DEF CronAtFires
      <4>3. Fired.next = -1
        BY <4>1 DEF Fired, AtType
      <4> QED
        BY <4>2, <4>3 DEF NoAt
    <3>2. ASSUME ~leftover PROVE timer.type # "cron_at"
      <4>1. at.next = 0
        BY <2>1, <2>3, <3>2 DEF Inv, Occurrences
      <4>2. timer.type = "cron_at" => timer.left = 0
        BY <2>3, <3>2, <4>1 DEF Inv, Occurrences, Until
      <4>3. timer.type = "cron_at" => timer.left > 0
        BY <2>1 DEF Inv, Slots, Armed, NoTimer, Timer
      <4> QED
        BY <4>2, <4>3
    <3> QED
      BY <2>1, <3>1, <3>2 DEF Inv, Occurrences
  <2> QED
    BY <2>2, <2>3
<1>16. ASSUME HoldEnds PROVE Occurrences'
  BY <1>16, PopsHead
  DEF HoldEnds, Pops, TakesSlot, NoTimer, Timer, Inv, Types, SlotTypes, Slots, Occurrences, IsWait,
      RunsTurn, Messages, TimerTypes
<1>17. ASSUME GraceEnds PROVE Occurrences'
  BY <1>17, PopsHead
  DEF GraceEnds, Pops, TakesSlot, HoldForAnswer, Timer, Inv, Types, SlotTypes, Slots, Occurrences,
      IsWait, RunsTurn, Messages, TimerTypes
<1>18. ASSUME SuppressDigest PROVE Occurrences'
  BY <1>18, SameFifo
  DEF SuppressDigest, slot, ghost, Inv, Types, SlotTypes, Slots, Occurrences, IsWait, TimerTypes
<1>19. ASSUME processPendingChildDigest PROVE Occurrences'
  BY <1>19, SameFifo
  DEF processPendingChildDigest, Interrupt, StartTurn, NoTimer, Timer, RunsTurn, IsWait, Inv, Types,
      SlotTypes, Slots, Occurrences, TimerTypes
<1>20. ASSUME NEW change \in Changes, TurnCompletes(change) PROVE Occurrences'
  BY <1>20, PostTurnOccurrences DEF TurnCompletes, work
<1>21. ASSUME NEW change \in Changes, TurnAsks(change) PROVE Occurrences'
  <2>1. /\ "cron_at" \notin Messages
        /\ Queued("cron_at")' <=> Queued("cron_at")
        /\ Once("cron_at") => Once("cron_at")'
    BY <1>21, AsksKeepsTimers DEF TurnAsks, Messages, Inv, Types
  <2>2. at' = change.at /\ schedule' = change.schedule
    BY <1>21 DEF TurnAsks, Applies
  <2>3. change.at.next = 0 => fresh'
    BY <1>21, PassedIsUnchanged DEF TurnAsks, Applies, Observes, Inv, Occurrences
  <2>4. ~leftover' => ~leftover
    BY <1>21 DEF TurnAsks, Applies, Observes
  <2>5. ASSUME ~leftover', schedule' = "cron_at", timer'.type = "cron_at" \/ Queued("cron_at")
        PROVE  schedule = "cron_at" /\ at' = at
    <3>1. change = NoChange
      BY <1>21, <2>2, <2>5 DEF TurnAsks, Applies, Observes
    <3> QED
      BY <2>2, <2>5, <3>1 DEF NoChange
  <2>6. timer'.type = "cron_at" => timer' = timer
    BY <1>21 DEF TurnAsks, Timer
  <2> QED
    BY <2>1, <2>2, <2>3, <2>4, <2>5, <2>6 DEF Inv, Occurrences
<1>22. ASSUME NEW change \in Changes, NEW seconds \in WaitSeconds, TurnWaits(seconds, change)
      PROVE  Occurrences'
  <2>1. at' = change.at /\ schedule' = change.schedule /\ timer'.type = "wait" /\ fifo' = fifo
    BY <1>22 DEF TurnWaits, Applies, Timer, work
  <2>2. change.at.next = 0 => fresh'
    BY <1>22, PassedIsUnchanged DEF TurnWaits, Applies, Observes, Inv, Occurrences
  <2>3. ~leftover' => ~leftover
    BY <1>22 DEF TurnWaits, Applies, Observes
  <2>4. ASSUME ~leftover', schedule' = "cron_at", Queued("cron_at")
        PROVE  schedule = "cron_at" /\ at' = at
    <3>1. change = NoChange
      BY <1>22, <2>1, <2>4 DEF TurnWaits, Applies, Observes
    <3> QED
      BY <2>1, <2>4, <3>1 DEF NoChange
  <2> QED
    BY <2>1, <2>2, <2>3, <2>4, SameFifo DEF Inv, Occurrences
<1>23. ASSUME TurnStopped PROVE Occurrences'
  BY <1>23, PostTurnOccurrences DEF TurnStopped, NoChange, Changes, work
<1>24. ASSUME TurnRefused PROVE Occurrences'
  BY <1>24, SameFifo
  DEF TurnRefused, Ends, Timer, NoHeld, work, Inv, Types, SlotTypes, Slots, Occurrences, IsWait,
      TimerTypes
<1>25. ASSUME NEW result \in Results, TurnAbandoned(result) PROVE Occurrences'
  BY <1>25, SameFifo
  DEF TurnAbandoned, Ends, slot, work, Inv, Types, SlotTypes, Slots, Occurrences, IsWait, TimerTypes
<1> QED
  BY <1>1, <1>2, <1>3, <1>4, <1>5, <1>6, <1>7, <1>8, <1>9, <1>10, <1>11, <1>12, <1>13, <1>14,
     <1>15, <1>16, <1>17, <1>18, <1>19, <1>20, <1>21, <1>22, <1>23, <1>24, <1>25
  DEF Next, drain, decide, handleTurnResult

(* A step that changes nothing keeps the invariant.                         *)
LEMMA InvStutter ==
  ASSUME Inv, UNCHANGED vars
  PROVE  Inv'
<1>1. UNCHANGED <<pc, timer, held, heldCron, schedule, at, fifo, pending, question, digest, sent,
                  cause, owed, lost, lapsed, leftover, fresh, unflagged>>
  BY DEF vars, slot, work, ghost
<1>2. Types'
  BY <1>1 DEF Inv, Types, SlotTypes, FifoTypes, FlagTypes, LoopTypes
<1>3. Slots' /\ TimerFits' /\ FlagsKept'
  BY <1>1 DEF Inv, Slots, TimerFits, FlagsKept, IsWait, Armed
<1>4. NextTurnKnown' /\ WaitKept'
  BY <1>1 DEF Inv, NextTurnKnown, WaitKept, RunsTurn, IsWait, Queued, Wakes
<1>5. Occurrences'
  BY <1>1 DEF Inv, Occurrences, Queued, Once, Until
<1> QED
  BY <1>2, <1>3, <1>4, <1>5 DEF Inv

(* The invariant holds in every reachable state, whatever the lengths of    *)
(* the timers are.                                                          *)
THEOREM Invariance == Spec => []Inv
<1>1. Inv /\ [Next]_vars => Inv'
  <2>1. ASSUME Inv, Next PROVE Inv'
    <3>1. Types'
      BY <2>1, SlotTypesNext, FifoTypesNext, FlagTypesNext, LoopTypesNext DEF Inv, Types
    <3> QED
      BY <2>1, <3>1, SlotsNext, TimerFitsNext, NextTurnNext, WaitKeptNext, FlagsKeptNext,
         OccurrencesNext
      DEF Inv
  <2> QED
    BY <2>1, InvStutter
<1> QED
  BY InitInv, <1>1, PTL DEF Spec

(* The timer slot, the held timers, the schedule and the FIFO always have   *)
(* their types; a wall-clock schedule fires at most maxFires times          *)
(* (processTimer).                                                          *)
THEOREM TypeCorrect == Spec => []TypeOK
<1>1. Inv => TypeOK
  BY LenProperties, ElementOfSeq
  DEF Inv, Types, SlotTypes, FifoTypes, LoopTypes, TypeOK
<1> QED
  BY Invariance, <1>1, PTL

(* The wait an agent asked for is never lost unnoticed: it is armed, held   *)
(* or queued until it is served, replaced or lost in one of the ways the    *)
(* property names (drain, processPendingChildDigest,                        *)
(* schedulePostTurnContinuation).                                           *)
THEOREM WaitsAreKept == Spec => []WaitKept
<1>1. Inv => WaitKept
  BY DEF Inv
<1> QED
  BY Invariance, <1>1, PTL

(* A parked session with a schedule has a timer armed that runs a turn,     *)
(* unless it lapsed (schedulePostTurnContinuation, decide).                 *)
THEOREM RecurringSessionsLive == Spec => []RecurringAlive
<1>1. Inv => RecurringAlive
  <2> SUFFICES ASSUME Inv, Parked, schedule # "none", fifo = <<>>, ~pending
               PROVE  RunsTurn(timer) \/ lapsed # {}
    BY DEF RecurringAlive
  <2>1. pc # "turn"
    BY DEF Parked
  <2>2. ~\E kind \in Wakes : Queued(kind)
    BY DEF Queued
  <2> QED
    BY <2>1, <2>2 DEF Inv, NextTurnKnown
<1> QED
  BY Invariance, <1>1, PTL

(* A pause of the budget gate that was interrupted is not armed again after *)
(* a turn, unless its flag was lost on the way                              *)
(* (schedulePostTurnContinuation).                                          *)
THEOREM PausesAreNotResumed == Spec => PauseNotResumed
<1> DEFINE Step == pc = "turn" /\ timer'.type = "pause" /\ ~timer'.budget => unflagged
<1>1. ASSUME Inv, Next PROVE Step
  <2>1. SUFFICES ASSUME pc = "turn", timer'.type = "pause", ~timer'.budget PROVE unflagged
    OBVIOUS
  <2>2. Inv /\ FlagsKept'
    BY <1>1, FlagsKeptNext
  <2>3. unflagged'
    BY <2>1, <2>2 DEF FlagsKept
  <2>4. CASE Tick
    BY <2>3, <2>4 DEF Tick
  <2>5. CASE handleTurnResult
    <3>1. ASSUME NEW change \in Changes, TurnCompletes(change) \/ TurnAsks(change) PROVE unflagged
      BY <2>3, <3>1 DEF TurnCompletes, TurnAsks
    <3>2. ASSUME NEW change \in Changes, NEW seconds \in WaitSeconds, TurnWaits(seconds, change)
          PROVE  unflagged
      BY <2>3, <3>2 DEF TurnWaits
    <3>3. CASE TurnStopped
      BY <2>3, <3>3 DEF TurnStopped
    <3>4. CASE TurnRefused
      BY <2>1, <3>4 DEF TurnRefused, Timer
    <3>5. ASSUME NEW result \in Results, TurnAbandoned(result) PROVE unflagged
      BY <2>3, <3>5 DEF TurnAbandoned
    <3> QED
      BY <2>5, <3>1, <3>2, <3>3, <3>4, <3>5 DEF handleTurnResult
  <2>6. ~(LoopTop \/ versionedContinueAsNew \/ drain \/ decide)
    BY <2>1
    DEF LoopTop, versionedContinueAsNew, drain, TimerFires, TakePrompt, TakeAnswer, TakeChildUpdate,
        TakeSetModel, Takes, DigestReady, DrainEnds, decide, DispatchPending, DispatchMessage,
        WaitCompletes, CronFires, CronAtFires, HoldEnds, GraceEnds, Pops, SuppressDigest,
        processPendingChildDigest
  <2> QED
    BY <1>1, <2>4, <2>5, <2>6 DEF Next
<1>2. Inv /\ [Next]_vars => [Step]_vars
  BY <1>1
<1> QED
  BY Invariance, <1>2, PTL DEF Spec, PauseNotResumed

(* A wall-clock schedule starts a turn only for an occurrence that has      *)
(* passed and has not fired before, unless a fire without an occurrence of  *)
(* its own is queued (processTimer, computeCronAtNextFire).                 *)
THEOREM WallClockFiresOnTime == Spec => WallClockOnTime
<1> DEFINE Step == cause' = "cron_at" /\ pc' = "turn" /\ pc # "turn" =>
                     (at.next = 0 /\ fresh) \/ leftover
<1>1. ASSUME Inv, Next PROVE Step
  <2>1. SUFFICES ASSUME cause' = "cron_at", pc' = "turn", pc # "turn", ~leftover
                 PROVE  at.next = 0 /\ fresh
    OBVIOUS
  <2>2. ~(Tick \/ LoopTop \/ versionedContinueAsNew \/ drain)
    BY <2>1
    DEF Tick, Parked, LoopTop, versionedContinueAsNew, drain, TimerFires, TakePrompt, TakeAnswer,
        TakeChildUpdate, TakeSetModel, Takes, DigestReady, DrainEnds
  <2>3. ~handleTurnResult
    BY <2>1
    DEF handleTurnResult, TurnCompletes, TurnAsks, TurnWaits, TurnStopped, TurnRefused,
        TurnAbandoned, Ends
  <2>4. ~(DispatchPending \/ DispatchMessage \/ HoldEnds \/ GraceEnds \/ SuppressDigest
            \/ processPendingChildDigest)
    BY <2>1
    DEF DispatchPending, DispatchMessage, HoldEnds, GraceEnds, TakesSlot, SuppressDigest,
        processPendingChildDigest, StartTurn
  <2>5. ~(WaitCompletes \/ CronFires)
    BY <2>1 DEF WaitCompletes, CronFires, Pops, StartTurn
  <2>6. CronAtFires
    BY <1>1, <2>2, <2>3, <2>4, <2>5 DEF Next, decide
  <2>7. schedule = "cron_at"
    BY <2>1, <2>6 DEF CronAtFires
  <2>8. Queued("cron_at")
    BY <1>1, <2>6, PopsHead DEF CronAtFires, Pops, Inv, Types
  <2> QED
    BY <1>1, <2>1, <2>7, <2>8 DEF Inv, Occurrences
<1>2. Inv /\ [Next]_vars => [Step]_vars
  BY <1>1
<1> QED
  BY Invariance, <1>2, PTL DEF Spec, WallClockOnTime
=============================================================================
