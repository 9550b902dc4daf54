-------------------------- MODULE TaskGroupProofs --------------------------
(***************************************************************************)
(* Proofs about TaskGroup for every set of tasks and callers, with and     *)
(* without a timeout of the automatic stop, and about the application      *)
(* BootRun that runs such a group.                                         *)
(*                                                                         *)
(* The safety properties follow from IInv, which says where the one runner *)
(* of the group can be in each phase of its life and what the counter and  *)
(* the errors it keeps mean.                                               *)
(***************************************************************************)
EXTENDS BootRun, FiniteSetTheorems, TLAPS

-----------------------------------------------------------------------------
(* The inductive invariant.                                                *)

RunnerPcs == {"select", "markStopping", "cancelRun", "closeDone"}

(* Start makes one caller the runner; the others never get past the lock.  *)
OneRunner ==
    /\ \A s \in Starters : pc[s] \in StarterPcs
    /\ \A p \in Stoppers : pc[p] \in StopperPcs
    /\ \A s, r \in Starters :
           pc[s] \in RunnerPcs /\ pc[r] \in RunnerPcs => s = r

(* What the runner's place says about the group.                           *)
RunnerPhase ==
    \A s \in Starters :
        /\ pc[s] = "select" =>
               \/ state = "Running" /\ ~StopInProgress /\ stopper = "idle"
               \/ state = "Stopping" /\ StopInProgress /\ stopper # "idle"
        /\ pc[s] = "markStopping" =>
               state = "Running" /\ StopInProgress /\ stopper = "idle"
        /\ pc[s] = "cancelRun" =>
               state = "Stopping" /\ StopInProgress /\ stopper = "idle"
        /\ pc[s] = "closeDone" => state = "Stopped"

(* What each phase says about the goroutines of the tasks.                 *)
TaskPhase ==
    /\ state = "Init" => \A t \in Tasks : startPc[t] = "idle"
    /\ state # "Init" => \A t \in Tasks : startPc[t] # "idle"
    /\ stopper = "idle" => \A t \in Tasks : stopPc[t] = "idle"
    /\ stopper # "idle" => \A t \in Tasks : stopPc[t] # "idle"
    /\ stopper = "done" => \A t \in Tasks : stopPc[t] = "returned"
    /\ stopper # "idle" => state \in {"Stopping", "Stopped"}
    /\ state = "Init" => ~StopInProgress
    /\ doneClosed => state = "Stopped"

(* The counter counts the results that were not received.                  *)
Counted == state # "Init" => remaining = Cardinality(Unreceived)

(* The errors the run keeps, and what they become.                         *)
ErrorsKept ==
    /\ startErrs = {t \in Tasks : startPc[t] = "received" /\ startResult[t] = "failed"}
    /\ \A t \in Tasks : startPc[t] \notin {"sent", "received"} => startResult[t] = "none"
    /\ startErrs # {} => StopInProgress
    /\ reason = "taskFailure" => startErrs # {}
    /\ \A t \in stopErrs : stopPc[t] = "returned"

Published ==
    state = "Stopped" =>
        /\ \A t \in Tasks : startPc[t] = "received"
        /\ StopInProgress => stopper = "done"
        /\ ~StopInProgress => stopper = "idle"
        /\ resultErr = FinalErr

(* Who was answered, and who waits.                                        *)
Answered ==
    /\ \A c \in Callers : ret[c] = NoReturn <=> pc[c] # "returned"
    /\ \A p \in Stoppers : pc[p] \in {"request", "wait"} => state # "Init"

IInv ==
    /\ TypeOK
    /\ OneRunner
    /\ RunnerPhase
    /\ TaskPhase
    /\ Counted
    /\ ErrorsKept
    /\ Published
    /\ Answered
    /\ AgreedResult

-----------------------------------------------------------------------------
(* Type correctness.                                                       *)

(* The counter fits its type: there are finitely many tasks.               *)
LEMMA TaskCount == Cardinality(Tasks) \in Nat
  BY TasksAssumption, FS_CardinalityType

LEMMA TypeInit == Init => TypeOK
<1> SUFFICES ASSUME Init PROVE TypeOK
  OBVIOUS
<1>1. NoReturn \in Returns
  BY DEF NoReturn, Returned, Returns
<1>2. remaining \in 0..Cardinality(Tasks)
  BY TaskCount DEF Init
<1>3. /\ state \in {"Init", "Running", "Stopping", "Stopped"}
      /\ stopReq \in BOOLEAN /\ doneClosed \in BOOLEAN /\ resultErr \in SUBSET Errors
      /\ ctxDone \in BOOLEAN /\ runCancelled \in BOOLEAN
  BY DEF Init
<1>4. /\ reason \in {"none", "taskFailure", "manualStop", "parentCancel"}
      /\ startErrs \in SUBSET Tasks /\ stopErrs \in SUBSET Tasks
      /\ stopCtxDone \in BOOLEAN /\ stopper \in {"idle", "waiting", "done"}
  BY DEF Init
<1>5. /\ startPc \in [Tasks -> {"idle", "launched", "running", "sent", "received"}]
      /\ startResult \in [Tasks -> {"none", "nil", "failed", "canceled"}]
      /\ stopPc \in [Tasks -> {"idle", "launched", "running", "returned"}]
  BY DEF Init
<1>6. pc \in [Callers -> StarterPcs \cup StopperPcs]
  BY DEF Init, StarterPcs
<1>7. ret \in [Callers -> Returns]
  BY <1>1 DEF Init
<1> QED
  BY <1>2, <1>3, <1>4, <1>5, <1>6, <1>7 DEF TypeOK

(* Every variable of the group always has its type.                        *)
THEOREM TypeCorrect == Spec => []TypeOK
<1> USE TaskCount
<1>1. Init => TypeOK
  BY TypeInit
<1>2. ASSUME TypeOK, [Next]_vars
      PROVE  TypeOK'
  <2> USE <1>2 DEF TypeOK, groupVars, runVars, taskVars, callVars, Goto, Return,
          Returned, Returns, StarterPcs, StopperPcs, Callers, Errors
  <2>1. ASSUME NEW s \in Starters, StartAcquire(s) PROVE TypeOK'
    BY <2>1 DEF StartAcquire
  <2>2. ASSUME NEW s \in Starters, StartRefused(s) PROVE TypeOK'
    BY <2>2 DEF StartRefused
  <2>3. ASSUME NEW s \in Starters, ReceiveStopReq(s) PROVE TypeOK'
    <3>1. CASE StopInProgress
      <4>1. stopReq' = FALSE /\ reason' = reason /\ pc' = pc
        BY <2>3, <3>1 DEF ReceiveStopReq, BeginStop
      <4> HIDE DEF Returns, Errors, Callers, StarterPcs, StopperPcs
      <4> QED
        BY <2>3, <4>1, ZenonT(60) DEF ReceiveStopReq
    <3>2. CASE ~ StopInProgress
      <4>1. pc' \in [Callers -> StarterPcs \cup StopperPcs]
        BY <2>3, <3>2 DEF ReceiveStopReq, BeginStop
      <4>2. stopReq' = FALSE /\ reason' = "manualStop"
        BY <2>3, <3>2 DEF ReceiveStopReq, BeginStop
      <4> QED
        BY <2>3, <4>1, <4>2 DEF ReceiveStopReq
    <3> QED
      BY <3>1, <3>2
  <2>4. ASSUME NEW s \in Starters, ReceiveCtxDone(s) PROVE TypeOK'
    <3>1. CASE StopInProgress
      <4>1. reason' = reason /\ pc' = pc
        BY <2>4, <3>1 DEF ReceiveCtxDone, BeginStop
      <4> HIDE DEF Returns, Errors, Callers, StarterPcs, StopperPcs
      <4> QED
        BY <2>4, <4>1 DEF ReceiveCtxDone
    <3>2. CASE ~ StopInProgress
      <4>1. pc' \in [Callers -> StarterPcs \cup StopperPcs]
        BY <2>4, <3>2 DEF ReceiveCtxDone, BeginStop
      <4>2. reason' = "parentCancel"
        BY <2>4, <3>2 DEF ReceiveCtxDone, BeginStop
      <4> QED
        BY <2>4, <4>1, <4>2 DEF ReceiveCtxDone
    <3> QED
      BY <3>1, <3>2
  <2>5. ASSUME NEW s \in Starters, NEW t \in Tasks, ReceiveStartResult(s, t)
        PROVE  TypeOK'
    BY <2>5 DEF ReceiveStartResult, BeginStop
  <2>6. ASSUME NEW s \in Starters, MarkStopping(s) PROVE TypeOK'
    BY <2>6 DEF MarkStopping
  <2>7. ASSUME NEW s \in Starters, CancelRun(s) PROVE TypeOK'
    BY <2>7 DEF CancelRun
  <2>8. ASSUME NEW s \in Starters, Publish(s) PROVE TypeOK'
    BY <2>8 DEF Publish, FinalErr
  <2>9. ASSUME NEW s \in Starters, CloseDone(s) PROVE TypeOK'
    BY <2>9 DEF CloseDone, FinalErr
  <2>10. ASSUME NEW t \in Tasks, EnterStart(t) PROVE TypeOK'
    BY <2>10 DEF EnterStart
  <2>11. ASSUME NEW t \in Tasks, LeaveStart(t) PROVE TypeOK'
    BY <2>11 DEF LeaveStart
  <2>12. ASSUME NEW t \in Tasks, EnterStop(t) PROVE TypeOK'
    BY <2>12 DEF EnterStop
  <2>13. ASSUME NEW t \in Tasks, LeaveStop(t) PROVE TypeOK'
    BY <2>13 DEF LeaveStop
  <2>14. CASE CloseStopDone
    BY <2>14 DEF CloseStopDone
  <2>15. ASSUME NEW p \in Stoppers, StopSnapshot(p) PROVE TypeOK'
    BY <2>15 DEF StopSnapshot
  <2>16. ASSUME NEW p \in Stoppers, StopRequest(p) PROVE TypeOK'
    BY <2>16 DEF StopRequest
  <2>17. ASSUME NEW p \in Stoppers, StopDone(p) \/ StopExpired(p) PROVE TypeOK'
    BY <2>17 DEF StopDone, StopExpired
  <2>18. CASE ParentCancel
    BY <2>18 DEF ParentCancel
  <2>19. CASE AutoStopExpired
    BY <2>19 DEF AutoStopExpired
  <2>20. ASSUME NEW p \in Stoppers, CallAgain(p) PROVE TypeOK'
    BY <2>20 DEF CallAgain, NoReturn
  <2>21. CASE UNCHANGED vars
    BY <2>21 DEF vars
  <2>22. QED
    BY <2>1, <2>2, <2>3, <2>4, <2>5, <2>6, <2>7, <2>8, <2>9, <2>10, <2>11, <2>12,
       <2>13, <2>14, <2>15, <2>16, <2>17, <2>18, <2>19, <2>20, <2>21 DEF Next, Runner
<1>3. QED
  BY <1>1, <1>2, PTL DEF Spec

-----------------------------------------------------------------------------
(* No step leads out of the inductive invariant.                           *)
LEMMA IInvStep == ASSUME TypeOK', IInv, [Next]_vars PROVE IInv'
<1> USE DEF IInv, TypeOK, groupVars, runVars, taskVars, callVars, Goto, Return,
          Returned, NoReturn, StarterPcs, StopperPcs, RunnerPcs, Callers, OneRunner,
          RunnerPhase, TaskPhase, Counted, ErrorsKept, Published, Answered, AgreedResult,
          StopInProgress, Unreceived, FinalErr
<1>1. ASSUME NEW s \in Starters, StartAcquire(s) PROVE IInv'
  <2>1. \A r \in Starters : pc[r] \notin RunnerPcs
    BY <1>1 DEF StartAcquire
  <2>2. OneRunner' /\ RunnerPhase' /\ TaskPhase'
    BY <1>1, <2>1, CallersAssumption DEF StartAcquire
  <2>3. Unreceived' = Tasks
    BY <1>1 DEF StartAcquire
  <2>4. Counted'
    BY <1>1, <2>3 DEF StartAcquire
  <2>5. ErrorsKept' /\ Published' /\ Answered' /\ AgreedResult'
    BY <1>1 DEF StartAcquire
  <2>6. QED
    BY <2>2, <2>4, <2>5
<1>2. ASSUME NEW s \in Starters, StartRefused(s) PROVE IInv'
  BY <1>2 DEF StartRefused
<1>3. ASSUME NEW s \in Starters, ReceiveStopReq(s) PROVE IInv'
  BY <1>3 DEF ReceiveStopReq, BeginStop
<1>4. ASSUME NEW s \in Starters, ReceiveCtxDone(s) PROVE IInv'
  BY <1>4 DEF ReceiveCtxDone, BeginStop
<1>5. ASSUME NEW s \in Starters, NEW t \in Tasks, ReceiveStartResult(s, t) PROVE IInv'
  <2>1. t \in Unreceived /\ Unreceived' = Unreceived \ {t}
    BY <1>5 DEF ReceiveStartResult
  <2>2. IsFiniteSet(Unreceived) /\ Cardinality(Unreceived) \in Nat
    BY TasksAssumption, FS_Subset, FS_CardinalityType
  <2>3. Cardinality(Unreceived') = Cardinality(Unreceived) - 1
    <3> HIDE DEF Unreceived
    <3>1. QED
      BY <2>1, <2>2, FS_RemoveElement
  <2>4. state # "Init" /\ state # "Stopped" /\ state' = state
    BY <1>5 DEF ReceiveStartResult
  <2>5. Counted'
    BY <1>5, <2>3, <2>4 DEF ReceiveStartResult
  <2>6. OneRunner' /\ RunnerPhase' /\ TaskPhase'
    BY <1>5 DEF ReceiveStartResult, BeginStop
  <2>7. ErrorsKept'
    BY <1>5 DEF ReceiveStartResult, BeginStop
  <2>8. Published' /\ AgreedResult'
    BY <1>5, <2>4 DEF ReceiveStartResult
  <2>9. Answered'
    BY <1>5, <2>4 DEF ReceiveStartResult, BeginStop
  <2>10. QED
    BY <2>5, <2>6, <2>7, <2>8, <2>9
<1>6. ASSUME NEW s \in Starters, MarkStopping(s) PROVE IInv'
  BY <1>6 DEF MarkStopping
<1>7. ASSUME NEW s \in Starters, CancelRun(s) PROVE IInv'
  BY <1>7 DEF CancelRun
<1>8. ASSUME NEW s \in Starters, Publish(s) PROVE IInv'
  <2>1. IsFiniteSet(Unreceived)
    BY TasksAssumption, FS_Subset
  <2>2. Unreceived = {}
    BY <1>8, <2>1, FS_EmptySet DEF Publish
  <2>3. \A t \in Tasks : startPc[t] = "received"
    BY <2>2
  <2>4. OneRunner' /\ RunnerPhase' /\ TaskPhase'
    BY <1>8 DEF Publish
  <2>5. Counted' /\ ErrorsKept'
    BY <1>8 DEF Publish
  <2>6. FinalErr' = FinalErr
    BY <1>8 DEF Publish
  <2>7. Published'
    BY <1>8, <2>3, <2>6 DEF Publish
  <2>8. Answered' /\ AgreedResult'
    BY <1>8 DEF Publish
  <2>9. QED
    BY <2>4, <2>5, <2>7, <2>8
<1>9. ASSUME NEW s \in Starters, CloseDone(s) PROVE IInv'
  BY <1>9 DEF CloseDone
<1>10. ASSUME NEW t \in Tasks, EnterStart(t) PROVE IInv'
  <2>1. Unreceived' = Unreceived
    BY <1>10 DEF EnterStart
  <2>2. Counted'
    BY <1>10, <2>1 DEF EnterStart
  <2>3. OneRunner' /\ RunnerPhase' /\ TaskPhase'
    BY <1>10 DEF EnterStart
  <2>4. ErrorsKept' /\ Published' /\ Answered' /\ AgreedResult'
    BY <1>10 DEF EnterStart
  <2>5. QED
    BY <2>2, <2>3, <2>4
<1>11. ASSUME NEW t \in Tasks, LeaveStart(t) PROVE IInv'
  <2>1. Unreceived' = Unreceived
    BY <1>11 DEF LeaveStart
  <2>2. Counted'
    BY <1>11, <2>1 DEF LeaveStart
  <2>3. OneRunner' /\ RunnerPhase' /\ TaskPhase'
    BY <1>11 DEF LeaveStart
  <2>4. ErrorsKept'
    BY <1>11 DEF LeaveStart
  <2>5. Published' /\ Answered' /\ AgreedResult'
    BY <1>11 DEF LeaveStart
  <2>6. QED
    BY <2>2, <2>3, <2>4, <2>5
<1>12. ASSUME NEW t \in Tasks, EnterStop(t) PROVE IInv'
  BY <1>12 DEF EnterStop
<1>13. ASSUME NEW t \in Tasks, LeaveStop(t) PROVE IInv'
  BY <1>13 DEF LeaveStop
<1>14. CASE CloseStopDone
  BY <1>14 DEF CloseStopDone
<1>15. ASSUME NEW p \in Stoppers, StopSnapshot(p) PROVE IInv'
  <2>1. p \notin Starters
    BY CallersAssumption
  <2>2. OneRunner' /\ RunnerPhase' /\ TaskPhase'
    BY <1>15, <2>1 DEF StopSnapshot
  <2>3. Counted' /\ ErrorsKept' /\ Published'
    BY <1>15 DEF StopSnapshot
  <2>4. Answered' /\ AgreedResult'
    BY <1>15 DEF StopSnapshot
  <2>5. QED
    BY <2>2, <2>3, <2>4
<1>16. ASSUME NEW p \in Stoppers, StopRequest(p) PROVE IInv'
  BY <1>16 DEF StopRequest
<1>17. ASSUME NEW p \in Stoppers, StopDone(p) PROVE IInv'
  BY <1>17 DEF StopDone
<1>18. ASSUME NEW p \in Stoppers, StopExpired(p) PROVE IInv'
  BY <1>18 DEF StopExpired
<1>19. CASE ParentCancel
  BY <1>19 DEF ParentCancel
<1>20. CASE AutoStopExpired
  BY <1>20 DEF AutoStopExpired
<1>21. ASSUME NEW p \in Stoppers, CallAgain(p) PROVE IInv'
  BY <1>21 DEF CallAgain
<1>22. CASE UNCHANGED vars
  BY <1>22 DEF vars
<1>23. QED
  BY <1>1, <1>2, <1>3, <1>4, <1>5, <1>6, <1>7, <1>8, <1>9, <1>10, <1>11, <1>12,
     <1>13, <1>14, <1>15, <1>16, <1>17, <1>18, <1>19, <1>20, <1>21, <1>22
     DEF Next, Runner

LEMMA IInvInit == Init => IInv
<1> SUFFICES ASSUME Init PROVE IInv
  OBVIOUS
<1>1. TypeOK
  BY TypeInit
<1>2. QED
  BY <1>1, CallersAssumption
     DEF Init, IInv, OneRunner, RunnerPhase, TaskPhase, Counted, ErrorsKept, Published,
         Answered, AgreedResult, StopInProgress, NoReturn, Returned, StarterPcs, StopperPcs,
         RunnerPcs, Callers

(* The inductive invariant of the group holds throughout.                  *)
THEOREM Invariant == Spec => []IInv
<1>1. IInv /\ TypeOK' /\ [Next]_vars => IInv'
  BY IInvStep
<1>2. QED
  BY IInvInit, TypeCorrect, <1>1, PTL DEF Spec

(* A stopped group has nothing running and has stopped all or no tasks.    *)
THEOREM Quiescence == Spec => []StoppedIsQuiescent
<1>1. IInv => StoppedIsQuiescent
  BY DEF IInv, TaskPhase, Published, StoppedIsQuiescent
<1>2. QED
  BY Invariant, <1>1, PTL

(* Whoever is given the result of the group is given the same one.         *)
THEOREM Agreement == Spec => []AgreedResult
<1>1. IInv => AgreedResult
  BY DEF IInv
<1>2. QED
  BY Invariant, <1>1, PTL

(* A failed task has every task stopped before the group is.               *)
THEOREM Cleanup == Spec => []FailureIsCleanedUp
<1>1. IInv => FailureIsCleanedUp
  BY DEF IInv, TaskPhase, ErrorsKept, Published, FailureIsCleanedUp
<1>2. QED
  BY Invariant, <1>1, PTL

(* The result is exactly the failures when nobody asked for the stop.      *)
THEOREM Completeness == Spec => []UnaskedResult
<1>1. IInv => UnaskedResult
  <2> SUFFICES ASSUME IInv, state = "Stopped",
                      reason \notin {"manualStop", "parentCancel"}
               PROVE  /\ resultErr = {"start"} \X {t \in Tasks : startResult[t] = "failed"}
                                     \cup {"stop"} \X stopErrs
                      /\ (\A t \in Tasks : startResult[t] # "failed") =>
                             \A t \in Tasks : stopPc[t] = "idle"
    BY DEF UnaskedResult
  <2>1. startErrs = {t \in Tasks : startResult[t] = "failed"}
    BY DEF IInv, ErrorsKept, Published
  <2>2. CASE reason = "none"
    <3>1. \A t \in Tasks : stopPc[t] = "idle"
      BY <2>2 DEF IInv, TaskPhase, Published, StopInProgress
    <3>2. stopErrs = {}
      BY <3>1 DEF IInv, TypeOK, ErrorsKept
    <3>3. resultErr = {"start"} \X startErrs
      BY <2>2 DEF IInv, Published, FinalErr
    <3>4. QED
      BY <2>1, <3>1, <3>2, <3>3
  <2>3. CASE reason = "taskFailure"
    <3>1. resultErr = {"start"} \X startErrs \cup {"stop"} \X stopErrs
      BY <2>3 DEF IInv, Published, FinalErr
    <3>2. startErrs # {}
      BY <2>3 DEF IInv, ErrorsKept
    <3>3. QED
      BY <2>1, <3>1, <3>2
  <2>4. QED
    BY <2>2, <2>3 DEF IInv, TypeOK
<1>2. QED
  BY Invariant, <1>1, PTL

-----------------------------------------------------------------------------
(* The group implements its life cycle.                                    *)

(* The abstract view of the calls does not change with a step of a         *)
(* goroutine that neither enters nor leaves a call.                        *)
LEMMA SameStartCall ==
    ASSUME startPc \in [Tasks -> {"idle", "launched", "running", "sent", "received"}],
           startPc' \in [Tasks -> {"idle", "launched", "running", "sent", "received"}],
           \A t \in Tasks : \/ startPc'[t] = startPc[t]
                            \/ /\ startPc[t] \in {"idle", "launched"}
                               /\ startPc'[t] \in {"idle", "launched"}
                            \/ /\ startPc[t] \in {"sent", "received"}
                               /\ startPc'[t] \in {"sent", "received"}
    PROVE  StartCall' = StartCall
  BY DEF StartCall

LEMMA SameStopCall ==
    ASSUME stopPc \in [Tasks -> {"idle", "launched", "running", "returned"}],
           stopPc' \in [Tasks -> {"idle", "launched", "running", "returned"}],
           \A t \in Tasks : \/ stopPc'[t] = stopPc[t]
                            \/ /\ stopPc[t] \in {"idle", "launched"}
                               /\ stopPc'[t] \in {"idle", "launched"}
    PROVE  StopCall' = StopCall
  BY DEF StopCall

LEMMA LifecycleInit == Init => Abs!Init
  BY DEF Init, Abs!Init, StartCall, StopCall, NoReturn, Returned, Abs!NoReturn,
         Abs!Returned, Callers, Abs!Callers

LEMMA LifecycleStep == ASSUME IInv, TypeOK', [Next]_vars PROVE [Abs!Next]_(Abs!vars)
<1> USE DEF groupVars, runVars, taskVars, callVars, Goto, Return,
            Returned, NoReturn, Abs!Returned, Abs!NoReturn
<1>0. TypeOK
  BY DEF IInv
<1>1. ASSUME NEW s \in Starters, StartAcquire(s) PROVE Abs!Begin
  <2>1. StartCall' = StartCall
    BY <1>0, <1>1, SameStartCall DEF StartAcquire, IInv, TaskPhase, TypeOK
  <2>2. StopCall' = StopCall
    BY <1>1 DEF StartAcquire, StopCall
  <2>3. QED
    BY <1>1, <2>1, <2>2 DEF StartAcquire, Abs!Begin
<1>2. ASSUME NEW s \in Starters, StartRefused(s) PROVE Abs!AnswerStart(s)
  BY <1>2 DEF StartRefused, Abs!AnswerStart, Abs!Answer, StartCall, StopCall,
             IInv, Answered, Callers
<1>3. ASSUME NEW s \in Starters, ReceiveStopReq(s) \/ ReceiveCtxDone(s)
      PROVE  UNCHANGED Abs!vars
  BY <1>3 DEF ReceiveStopReq, ReceiveCtxDone, Abs!vars, StartCall, StopCall
<1>4. ASSUME NEW s \in Starters, NEW t \in Tasks, ReceiveStartResult(s, t)
      PROVE  UNCHANGED Abs!vars
  <2>1. StartCall' = StartCall
    BY <1>0, <1>4, SameStartCall DEF ReceiveStartResult, TypeOK
  <2>2. StopCall' = StopCall
    BY <1>4 DEF ReceiveStartResult, StopCall
  <2>3. QED
    BY <1>4, <2>1, <2>2 DEF ReceiveStartResult, Abs!vars
<1>5. ASSUME NEW s \in Starters, MarkStopping(s) PROVE Abs!BeginStop
  BY <1>5 DEF MarkStopping, Abs!BeginStop, StartCall, StopCall, IInv, RunnerPhase
<1>6. ASSUME NEW s \in Starters, CancelRun(s) PROVE UNCHANGED Abs!vars
  <2>1. StopCall' = StopCall
    BY <1>0, <1>6, SameStopCall DEF CancelRun, IInv, RunnerPhase, TaskPhase, TypeOK
  <2>2. StartCall' = StartCall
    BY <1>6 DEF CancelRun, StartCall
  <2>3. QED
    BY <1>6, <2>1, <2>2 DEF CancelRun, Abs!vars
<1>7. ASSUME NEW s \in Starters, Publish(s)
      PROVE  \E joined \in SUBSET Abs!Errors : Abs!Finish(joined)
  <2>1. IInv'
    BY <1>7, IInvStep DEF Next, Runner
  <2>2. \A t \in Tasks : StartCall[t] = "done"
    BY <1>7, <2>1 DEF Publish, StartCall, IInv, Published
  <2>3. \/ state = "Running" /\ \A t \in Tasks : StopCall[t] = "idle"
        \/ state = "Stopping" /\ \A t \in Tasks : StopCall[t] = "done"
    BY <1>7 DEF Publish, StopCall, IInv, RunnerPhase, TaskPhase
  <2>4. StartCall' = StartCall /\ StopCall' = StopCall
    BY <1>7 DEF Publish, StartCall, StopCall
  <2>5. FinalErr \in SUBSET Abs!Errors
    BY <1>0 DEF TypeOK, FinalErr, Abs!Errors
  <2>6. Abs!Finish(FinalErr)
    BY <1>7, <2>2, <2>3, <2>4 DEF Publish, Abs!Finish
  <2>7. QED
    BY <2>5, <2>6
<1>8. ASSUME NEW s \in Starters, CloseDone(s) PROVE Abs!AnswerStart(s)
  <2>1. state = "Stopped" /\ FinalErr = resultErr
    BY <1>8 DEF CloseDone, IInv, RunnerPhase, Published
  <2>2. ret[s] = NoReturn
    BY <1>8 DEF CloseDone, IInv, Answered, Callers
  <2>3. QED
    BY <1>8, <2>1, <2>2 DEF CloseDone, Abs!AnswerStart, Abs!Answer, StartCall, StopCall
<1>9. ASSUME NEW t \in Tasks, EnterStart(t) PROVE Abs!EnterStart(t)
  <2>1. state \in {"Running", "Stopping"}
    BY <1>0, <1>9 DEF EnterStart, IInv, TypeOK, TaskPhase, Published
  <2>2. StartCall[t] = "idle" /\ StartCall' = [StartCall EXCEPT ![t] = "busy"]
    <3>0. StartCall[t] = "idle"
      BY <1>0, <1>9 DEF EnterStart, StartCall
    <3>1. \A u \in Tasks : startPc'[u] = IF u = t THEN "running" ELSE startPc[u]
      BY <1>0, <1>9 DEF EnterStart, TypeOK
    <3>2. \A u \in Tasks : StartCall'[u] = IF u = t THEN "busy" ELSE StartCall[u]
      BY <3>1 DEF StartCall
    <3> QED
      BY <3>0, <3>2 DEF StartCall
  <2>3. QED
    BY <1>9, <2>1, <2>2 DEF EnterStart, Abs!EnterStart, StopCall
<1>10. ASSUME NEW t \in Tasks, LeaveStart(t) PROVE Abs!LeaveStart(t)
  <2>0. StartCall[t] = "busy"
    BY <1>0, <1>10 DEF LeaveStart, StartCall
  <2>a. \A u \in Tasks : startPc'[u] = IF u = t THEN "sent" ELSE startPc[u]
    BY <1>0, <1>10 DEF LeaveStart, TypeOK
  <2>b. \A u \in Tasks : StartCall'[u] = IF u = t THEN "done" ELSE StartCall[u]
    BY <2>a DEF StartCall
  <2>1. StartCall[t] = "busy" /\ StartCall' = [StartCall EXCEPT ![t] = "done"]
    BY <2>0, <2>b DEF StartCall
  <2>2. QED
    BY <1>10, <2>1 DEF LeaveStart, Abs!LeaveStart, StopCall
<1>11. ASSUME NEW t \in Tasks, EnterStop(t) PROVE Abs!EnterStop(t)
  <2>1. state = "Stopping"
    BY <1>0, <1>11 DEF EnterStop, IInv, TypeOK, TaskPhase, Published
  <2>2. StopCall[t] = "idle" /\ StopCall' = [StopCall EXCEPT ![t] = "busy"]
    <3>0. StopCall[t] = "idle"
      BY <1>0, <1>11 DEF EnterStop, StopCall
    <3>1. \A u \in Tasks : stopPc'[u] = IF u = t THEN "running" ELSE stopPc[u]
      BY <1>0, <1>11 DEF EnterStop, TypeOK
    <3>2. \A u \in Tasks : StopCall'[u] = IF u = t THEN "busy" ELSE StopCall[u]
      BY <3>1 DEF StopCall
    <3> QED
      BY <3>0, <3>2 DEF StopCall
  <2>3. QED
    BY <1>11, <2>1, <2>2 DEF EnterStop, Abs!EnterStop, StartCall
<1>12. ASSUME NEW t \in Tasks, LeaveStop(t) PROVE Abs!LeaveStop(t)
  <2>0. StopCall[t] = "busy"
    BY <1>0, <1>12 DEF LeaveStop, StopCall
  <2>a. \A u \in Tasks : stopPc'[u] = IF u = t THEN "returned" ELSE stopPc[u]
    BY <1>0, <1>12 DEF LeaveStop, TypeOK
  <2>b. \A u \in Tasks : StopCall'[u] = IF u = t THEN "done" ELSE StopCall[u]
    BY <2>a DEF StopCall
  <2>1. StopCall[t] = "busy" /\ StopCall' = [StopCall EXCEPT ![t] = "done"]
    BY <2>0, <2>b DEF StopCall
  <2>2. QED
    BY <1>12, <2>1 DEF LeaveStop, Abs!LeaveStop, StartCall
<1>13. CASE CloseStopDone \/ ParentCancel \/ AutoStopExpired \/ UNCHANGED vars
  <2>1. UNCHANGED Abs!vars
    BY <1>13 DEF CloseStopDone, ParentCancel, AutoStopExpired, vars, Abs!vars,
               StartCall, StopCall
  <2>2. QED
    BY <2>1
<1>14. ASSUME NEW p \in Stoppers, StopSnapshot(p)
       PROVE  Abs!AnswerStop(p) \/ UNCHANGED Abs!vars
  BY <1>14 DEF StopSnapshot, Abs!AnswerStop, Abs!Answer, Abs!vars, StartCall, StopCall,
              IInv, Answered, Callers
<1>15. ASSUME NEW p \in Stoppers, StopRequest(p) PROVE UNCHANGED Abs!vars
  BY <1>15 DEF StopRequest, Abs!vars, StartCall, StopCall
<1>16. ASSUME NEW p \in Stoppers, StopDone(p) \/ StopExpired(p) PROVE Abs!AnswerStop(p)
  BY <1>16 DEF StopDone, StopExpired, Abs!AnswerStop, Abs!Answer, StartCall, StopCall,
              IInv, TaskPhase, Answered, Callers
<1>17. ASSUME NEW p \in Stoppers, CallAgain(p) PROVE Abs!CallAgain(p)
  BY <1>17 DEF CallAgain, Abs!CallAgain, StartCall, StopCall, IInv, Answered, Callers
<1>18. QED
  BY <1>1, <1>2, <1>3, <1>4, <1>5, <1>6, <1>7, <1>8, <1>9, <1>10, <1>11, <1>12,
     <1>13, <1>14, <1>15, <1>16, <1>17 DEF Next, Runner, Abs!Next

(* The group behaves as its life cycle says: a step of the group is a step *)
(* of the life cycle or leaves it as it is.                                *)
THEOREM Refinement == Spec => Lifecycle
<1>1. IInv /\ TypeOK' /\ [Next]_vars => [Abs!Next]_(Abs!vars)
  BY LifecycleStep
<1>2. QED
  BY LifecycleInit, Invariant, TypeCorrect, <1>1, PTL DEF Spec, Lifecycle, Abs!Spec

-----------------------------------------------------------------------------
(* boot.run and its group.                                                 *)

(* A step of run is one of its group or leaves the group as it is.         *)
LEMMA BootStep == [BootNext]_appVars => [Next]_vars
<1> SUFFICES ASSUME [BootNext]_appVars PROVE [Next]_vars
  OBVIOUS
<1> USE ApplicationAssumption
<1>1. CASE BeforeStart \/ Await \/ BeforeStop \/ StopReturn \/ AfterStop
  BY <1>1 DEF BeforeStart, Await, BeforeStop, StopReturn, AfterStop
<1>2. CASE Cancel
  <2>1. CASE ctxDone
    BY <1>2, <2>1 DEF Cancel, vars, runVars
  <2>2. CASE ~ctxDone
    BY <1>2, <2>2 DEF Cancel, Next, ParentCancel
  <2> QED
    BY <2>1, <2>2
<1>3. CASE Stop \/ StopWait \/ StopTimesOut
  BY <1>3 DEF Stop, StopWait, StopTimesOut, Next
<1>4. CASE RunStart
  BY <1>4 DEF RunStart, Next
<1>5. CASE SendStartErr \/ Signal \/ Exited \/ UNCHANGED appVars
  BY <1>5 DEF SendStartErr, Signal, Exited, appVars
<1>6. CASE OuterCancel
  BY <1>6 DEF OuterCancel, Next
<1>7. CASE \E t \in Tasks : TaskStep(t)
  BY <1>7 DEF TaskStep, Next
<1>8. CASE CloseStops
  BY <1>8 DEF CloseStops, Next
<1> QED
  BY <1>1, <1>2, <1>3, <1>4, <1>5, <1>6, <1>7, <1>8 DEF BootNext, Run

(* run drives the group of its application only as TaskGroup says callers  *)
(* do, so that whatever is proved of a group holds of it: it goes through  *)
(* its life cycle once, and no goroutine outlives it.                      *)
THEOREM RunsGroup == BootSpec => Spec /\ Lifecycle /\ []StoppedIsQuiescent
<1>1. BootInit => Init
  BY DEF BootInit
<1>2. BootSpec => Spec
  BY <1>1, BootStep, PTL DEF BootSpec, Spec
<1> QED
  BY <1>2, Refinement, Quiescence, PTL

(* Where run is before it begins to stop, and before it calls Stop.        *)
Early == {"beforeStart", "await", "beforeStop", "cancel"}
BootPcs == Early \cup {"stop", "stopping", "afterStop", "done"}

BootTypes ==
    /\ bootPc \in BootPcs
    /\ startErr \in {"open", "nil", "error"}
    /\ startError \in BOOLEAN
    /\ quit => "signal" \in asked

(* The hooks before the start failed, or the group was not started yet.    *)
NotStarted ==
    /\ "beforeStart" \in errs => bootPc = "done"
    /\ bootPc = "beforeStart" \/ "beforeStart" \in errs => state = "Init"

(* Before run calls Stop, nobody has asked the group to stop but its own   *)
(* tasks and the outer context.                                            *)
Undisturbed ==
    /\ bootPc \in Early \cup {"stop"} =>
          pc[Main] = "ready" /\ ~stopReq /\ reason # "manualStop"
    /\ bootPc \in Early /\ "outer" \notin asked => ~ctxDone /\ reason # "parentCancel"

(* What the goroutine that called Start was given and what it sent.        *)
StartAnswer ==
    /\ ret[Launched] = NoReturn \/ ret[Launched].kind = "result"
    /\ startErr # "open" =>
          /\ ret[Launched] # NoReturn
          /\ startErr \in StartOutcomes(resultErr)

(* A run that nobody asked to stop is past its select because of startErr. *)
EndedByItself ==
    bootPc \notin {"beforeStart", "await"} /\ "beforeStart" \notin errs /\ asked = {} =>
        /\ startErr # "open"
        /\ reason \notin {"manualStop", "parentCancel"}
        /\ startError = (startErr = "error")

(* What Stop returned is in errs, and in the end so is what Start did.     *)
ErrsKept ==
    /\ bootPc \in {"afterStop", "done"} /\ {"beforeStart", "stop"} \cap errs = {} =>
          ret[Main].kind = "result" /\ ret[Main].errs = {}
    /\ bootPc = "done" /\ "beforeStart" \notin errs /\ startError => "start" \in errs

(* The inductive invariant of run, beside the one of its group.            *)
BootInv ==
    /\ BootTypes
    /\ NotStarted
    /\ Undisturbed
    /\ StartAnswer
    /\ EndedByItself
    /\ ErrsKept

LEMMA BootInvInit == BootInit => BootInv
<1> SUFFICES ASSUME BootInit PROVE BootInv
  OBVIOUS
<1>1. BootTypes /\ NotStarted
  BY DEF BootInit, Init, BootTypes, NotStarted, BootPcs, Early
<1>2. pc[Main] = "ready" /\ ret[Launched] = NoReturn
  BY ApplicationAssumption DEF BootInit, Init, Callers
<1>3. Undisturbed
  BY <1>2 DEF BootInit, Init, Undisturbed, Early
<1>4. StartAnswer /\ EndedByItself /\ ErrsKept
  BY <1>2 DEF BootInit, StartAnswer, EndedByItself, ErrsKept, NoReturn, Returned
<1> QED
  BY <1>1, <1>3, <1>4 DEF BootInv

(* What a step of the group that is not one of Main's may do to the state  *)
(* run relies on.                                                          *)
GroupMoves ==
    /\ pc'[Main] = pc[Main] /\ ret'[Main] = ret[Main]
    /\ ctxDone' = ctxDone
    /\ stopReq' => stopReq
    /\ reason' \in {reason, "taskFailure"} \cup (IF stopReq THEN {"manualStop"} ELSE {})
                    \cup (IF ctxDone THEN {"parentCancel"} ELSE {})
    /\ state = "Stopped" => reason' = reason /\ resultErr' = resultErr
    /\ ret'[Launched] = NoReturn \/ ret'[Launched].kind = "result"
    /\ ret[Launched] # NoReturn => ret'[Launched] = ret[Launched]

LEMMA RunnerMoves ==
    ASSUME IInv, StartAnswer, RunStart
    PROVE  GroupMoves
<1> USE ApplicationAssumption DEF Goto, Return, Returned, NoReturn, groupVars, runVars, taskVars, callVars
<1>0. /\ Launched \in Callers /\ Main \in Callers /\ Launched # Main
      /\ pc \in [Callers -> StarterPcs \cup StopperPcs] /\ ret \in [Callers -> Returns]
      /\ ret[Launched] = NoReturn \/ ret[Launched].kind = "result"
  BY CallersAssumption DEF Callers, IInv, TypeOK, StartAnswer
<1>1. CASE StartAcquire(Launched)
  BY <1>0, <1>1 DEF StartAcquire, GroupMoves
<1>2. CASE ReceiveStopReq(Launched)
  BY <1>0, <1>2 DEF ReceiveStopReq, BeginStop, GroupMoves, IInv, RunnerPhase
<1>3. CASE ReceiveCtxDone(Launched)
  BY <1>0, <1>3 DEF ReceiveCtxDone, BeginStop, GroupMoves, IInv, RunnerPhase
<1>4. ASSUME NEW t \in Tasks, ReceiveStartResult(Launched, t) PROVE GroupMoves
  BY <1>0, <1>4 DEF ReceiveStartResult, BeginStop, GroupMoves, IInv, RunnerPhase
<1>5. CASE MarkStopping(Launched) \/ CancelRun(Launched)
  BY <1>0, <1>5 DEF MarkStopping, CancelRun, GroupMoves
<1>6. CASE Publish(Launched)
  BY <1>0, <1>6 DEF Publish, GroupMoves, IInv, RunnerPhase
<1>7. CASE CloseDone(Launched)
  BY <1>0, <1>7 DEF CloseDone, GroupMoves, IInv, Answered
<1> QED
  BY <1>1, <1>2, <1>3, <1>4, <1>5, <1>6, <1>7 DEF RunStart, Runner

LEMMA TasksMove ==
    ASSUME StartAnswer, (\E t \in Tasks : TaskStep(t)) \/ CloseStops
    PROVE  GroupMoves
  BY DEF StartAnswer, TaskStep, CloseStops, CloseStopDone, EnterStart, LeaveStart, EnterStop,
         LeaveStop, GroupMoves, groupVars, runVars, taskVars, callVars

(* An answer of Start that was sent is the result of a stopped group.      *)
LEMMA AnswerSent ==
    ASSUME IInv, StartAnswer, ret[Launched] # NoReturn
    PROVE  state = "Stopped" /\ ret[Launched].errs = resultErr
  BY ApplicationAssumption DEF StartAnswer, IInv, AgreedResult, Callers

(* The steps of the goroutines beside run.                                 *)
LEMMA GroupKeeps ==
    ASSUME IInv, BootInv, GroupMoves, NotStarted', UNCHANGED bootVars
    PROVE  BootInv'
<1> USE DEF bootVars
<1>1. startErr # "open" => state = "Stopped"
  BY AnswerSent DEF BootInv, StartAnswer
<1>2. BootTypes'
  BY DEF BootInv, BootTypes
<1>3. Undisturbed'
  BY DEF BootInv, Undisturbed, GroupMoves, Early
<1>4. StartAnswer'
  BY <1>1 DEF BootInv, StartAnswer, GroupMoves, StartOutcomes
<1>5. EndedByItself'
  BY <1>1 DEF BootInv, EndedByItself, GroupMoves
<1>6. ErrsKept'
  BY DEF BootInv, ErrsKept, GroupMoves
<1> QED
  BY <1>2, <1>3, <1>4, <1>5, <1>6 DEF BootInv

LEMMA BootInvStep ==
    ASSUME IInv, TypeOK', BootInv, [BootNext]_appVars
    PROVE  BootInv'
<1> USE ApplicationAssumption
<1>0. /\ Launched \in Callers /\ Main \in Callers /\ Launched # Main
      /\ pc \in [Callers -> StarterPcs \cup StopperPcs] /\ ret \in [Callers -> Returns]
  BY CallersAssumption DEF Callers, IInv, TypeOK
<1> DEFINE SameGroup == UNCHANGED vars
<1>1. SameGroup => /\ state' = state /\ stopReq' = stopReq /\ ctxDone' = ctxDone
                   /\ reason' = reason /\ resultErr' = resultErr /\ pc' = pc /\ ret' = ret
  BY DEF vars, groupVars, runVars, callVars
<1> HIDE DEF SameGroup
<1> USE DEF BootInv, BootTypes, NotStarted, Undisturbed, StartAnswer, EndedByItself, ErrsKept,
        BootPcs, Early, StartOutcomes
<1>2. CASE BeforeStart
  BY <1>1, <1>2 DEF BeforeStart, Failing, SameGroup
<1>3. CASE Await
  <2>1. startError' \in BOOLEAN
    BY <1>3, Zenon DEF Await
  <2>2. BootTypes' /\ NotStarted' /\ Undisturbed' /\ StartAnswer' /\ ErrsKept'
    BY <1>1, <1>3, <2>1 DEF Await, SameGroup
  <2>3. EndedByItself'
    <3>1. asked = {} => startErr # "open" /\ startError' = (startErr = "error")
      BY <1>3 DEF Await
    <3> QED
      BY <1>1, <1>3, <3>1 DEF Await, SameGroup
  <2> QED
    BY <2>2, <2>3
<1>4. CASE BeforeStop
  BY <1>1, <1>4 DEF BeforeStop, Failing, SameGroup
<1>5. CASE Cancel
  BY <1>5 DEF Cancel, groupVars, callVars
<1>6. CASE SendStartErr
  <2>1. state = "Stopped" /\ ret[Launched].errs = resultErr
    BY <1>6, AnswerSent DEF SendStartErr
  <2> QED
    BY <1>1, <1>6, <2>1 DEF SendStartErr, SameGroup
<1>7. CASE StopReturn
  BY <1>1, <1>7 DEF StopReturn, SameGroup
<1>8. CASE AfterStop
  BY <1>1, <1>8 DEF AfterStop, SameGroup
<1>9. CASE Signal
  BY <1>1, <1>9 DEF Signal, SameGroup
<1>10. CASE OuterCancel
  BY <1>10 DEF OuterCancel, ParentCancel, groupVars, callVars
<1>11. CASE Stop
  BY <1>0, <1>11 DEF Stop, StopSnapshot, Goto, Return, groupVars, runVars
<1>12. CASE StopWait
  BY <1>0, <1>12 DEF StopWait, StopRequest, StopDone, Goto, Return, bootVars, groupVars, runVars
<1>13. CASE StopTimesOut
  BY <1>0, <1>13 DEF StopTimesOut, StopExpired, Goto, Return, bootVars, groupVars, runVars
<1>14. CASE RunStart
  <2>1. NotStarted'
    BY <1>14 DEF RunStart, bootVars
  <2> QED
    BY <1>14, <2>1, RunnerMoves, GroupKeeps DEF RunStart
<1>15. CASE (\E t \in Tasks : TaskStep(t)) \/ CloseStops
  <2>1. NotStarted' /\ UNCHANGED bootVars
    BY <1>15 DEF TaskStep, CloseStops, CloseStopDone, EnterStart, LeaveStart, EnterStop,
                 LeaveStop, groupVars, bootVars
  <2> QED
    BY <1>15, <2>1, TasksMove, GroupKeeps
<1>16. CASE Exited \/ UNCHANGED appVars
  BY <1>1, <1>16 DEF Exited, appVars, bootVars, SameGroup
<1> QED
  BY <1>2, <1>3, <1>4, <1>5, <1>6, <1>7, <1>8, <1>9, <1>10, <1>11, <1>12, <1>13, <1>14,
     <1>15, <1>16 DEF BootNext, Run

(* What run's place says of its group and its errors holds throughout.     *)
THEOREM BootInvariant == BootSpec => []BootInv
<1>1. BootInit => BootInv
  BY BootInvInit
<1>2. BootSpec => []IInv /\ []TypeOK
  BY RunsGroup, Invariant, TypeCorrect, PTL
<1>3. IInv /\ TypeOK' /\ BootInv /\ [BootNext]_appVars => BootInv'
  BY BootInvStep
<1> QED
  BY <1>1, <1>2, <1>3, PTL DEF BootSpec

(* The group of run obeys the invariant of groups.                         *)
LEMMA BootGroup == BootSpec => []IInv
  BY RunsGroup, Invariant, PTL

(* A run that returns nil was told by Stop that the group stopped without  *)
(* an error, so nothing of the group executes any more.                    *)
THEOREM NilIsStopped == BootSpec => []NilMeansStopped
<1>1. ASSUME IInv, BootInv, bootPc = "done", errs = {}
      PROVE  /\ state = "Stopped"
             /\ \A t \in Tasks : startPc[t] = "received" /\ stopPc[t] \in {"idle", "returned"}
             /\ stopErrs = {}
  <2>1. ret[Main].kind = "result" /\ ret[Main].errs = {}
    BY <1>1 DEF BootInv, ErrsKept
  <2>2. state = "Stopped" /\ FinalErr = {}
    BY <1>1, <2>1, ApplicationAssumption DEF IInv, AgreedResult, Published, Callers
  <2>3. \A t \in Tasks : startPc[t] = "received" /\ stopPc[t] \in {"idle", "returned"}
    BY <1>1, <2>2 DEF IInv, Published, TaskPhase
  <2>4. stopErrs = {}
    <3>1. CASE StopInProgress
      <4>1. {"stop"} \X stopErrs \subseteq FinalErr
        BY <1>1, <3>1 DEF FinalErr, IInv, TypeOK, StopInProgress
      <4>2. \A t \in stopErrs : <<"stop", t>> \in FinalErr
        BY <4>1
      <4> QED
        BY <2>2, <4>2
    <3>2. CASE ~StopInProgress
      BY <1>1, <2>2, <3>2 DEF IInv, Published, TaskPhase, ErrorsKept, TypeOK
    <3> QED
      BY <3>1, <3>2
  <2> QED
    BY <2>2, <2>3, <2>4
<1>2. IInv /\ BootInv => NilMeansStopped
  BY <1>1 DEF NilMeansStopped
<1> QED
  BY <1>2, BootGroup, BootInvariant, PTL

(* When nobody asked for the shutdown, what ended the run is the result of *)
(* the group: it names the task that failed, and both calls return it.     *)
THEOREM FailureReturned == BootSpec => []UnaskedFailureReturned
<1>1. ASSUME IInv, BootInv, bootPc = "done", asked = {},
             NEW t \in Tasks, startResult[t] = "failed"
      PROVE  /\ "stop" \in errs
             /\ stopErrs = {} => "start" \in errs
             /\ \A u \in Tasks : stopPc[u] = "returned"
  <2>1. state # "Init"
    BY <1>1 DEF IInv, TaskPhase, ErrorsKept
  <2>2. "beforeStart" \notin errs
    BY <1>1, <2>1 DEF BootInv, NotStarted
  <2>3. /\ startErr # "open" /\ reason \notin {"manualStop", "parentCancel"}
        /\ startError = (startErr = "error")
    BY <1>1, <2>2 DEF BootInv, EndedByItself
  <2>4. state = "Stopped" /\ startErr \in StartOutcomes(resultErr)
    BY <1>1, <2>3, AnswerSent DEF BootInv, StartAnswer
  <2>5. t \in startErrs /\ reason = "taskFailure" /\ startErrs \subseteq Tasks
    BY <1>1, <2>3, <2>4 DEF IInv, Published, ErrorsKept, TypeOK, StopInProgress
  <2>6. resultErr = ({"start"} \X startErrs) \cup ({"stop"} \X stopErrs)
    BY <1>1, <2>4, <2>5 DEF IInv, Published, FinalErr
  <2>7. <<"start", t>> \in resultErr
    BY <2>5, <2>6
  <2>8. "stop" \in errs
    <3>1. SUFFICES ASSUME "stop" \notin errs PROVE FALSE
      OBVIOUS
    <3>2. ret[Main].kind = "result" /\ ret[Main].errs = {}
      BY <1>1, <2>2, <3>1 DEF BootInv, ErrsKept
    <3> QED
      BY <1>1, <2>7, <3>2, ApplicationAssumption DEF IInv, AgreedResult, Callers
  <2>9. ASSUME stopErrs = {} PROVE "start" \in errs
    <3>1. resultErr \subseteq {"start"} \X Tasks /\ resultErr # {}
      BY <2>5, <2>6, <2>7, <2>9
    <3>2. startError
      BY <2>3, <2>4, <3>1 DEF StartOutcomes
    <3> QED
      BY <1>1, <2>2, <3>2 DEF BootInv, ErrsKept
  <2>10. \A u \in Tasks : stopPc[u] = "returned"
    BY <1>1, <2>4, <2>5 DEF IInv, Published, TaskPhase, StopInProgress
  <2> QED
    BY <2>8, <2>9, <2>10
<1>2. IInv /\ BootInv => UnaskedFailureReturned
  BY <1>1 DEF UnaskedFailureReturned
<1> QED
  BY <1>2, BootGroup, BootInvariant, PTL

(* Before run calls Stop, only the outer context or a task that failed     *)
(* can have begun to stop the group: the beforeStop hooks come first.      *)
THEOREM HooksFirst == BootSpec => []BeforeStopFirst
<1>1. ASSUME IInv, BootInv, bootPc \in {"await", "beforeStop"}, "outer" \notin asked,
             \A t \in Tasks : startResult[t] # "failed"
      PROVE  ~ctxDone /\ ~StopInProgress
  <2>1. ~ctxDone /\ reason \notin {"manualStop", "parentCancel"}
    BY <1>1 DEF BootInv, Undisturbed, Early
  <2>2. reason # "taskFailure"
    BY <1>1 DEF IInv, ErrorsKept
  <2> QED
    BY <1>1, <2>1, <2>2 DEF IInv, TypeOK, StopInProgress
<1>2. IInv /\ BootInv => BeforeStopFirst
  BY <1>1 DEF BeforeStopFirst
<1> QED
  BY <1>2, BootGroup, BootInvariant, PTL

=============================================================================
