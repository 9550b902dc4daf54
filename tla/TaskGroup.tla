----------------------------- MODULE TaskGroup -----------------------------
(***************************************************************************)
(* task.Group (core/task/group.go): a fixed set of tasks that is started   *)
(* and stopped as a unit.                                                  *)
(*                                                                         *)
(* Actors: the callers of Start, of which one becomes the runner of the    *)
(* group; one goroutine per task that runs the task's Start; one goroutine *)
(* per task that runs the task's Stop once the group is told to stop; the  *)
(* callers of Stop; and the environment, which cancels the context Start   *)
(* was given, lets the context of a Stop caller expire and lets the        *)
(* timeout of the automatic stop pass.                                     *)
(*                                                                         *)
(* The locals of the run (startErrs, stopErrs, reason, remaining, the      *)
(* channels) exist once because the group runs at most once.  A goroutine  *)
(* that is launched begins at any later time, so launching all of them is  *)
(* one step.  An error is the pair of the call and the task it comes from: *)
(* execute turns a panic into an error, so a panic is an error here.       *)
(* Start with a nil task returns before it touches the group: the tasks    *)
(* here are not nil.                                                       *)
(***************************************************************************)
EXTENDS Naturals, FiniteSets

CONSTANTS
    Tasks,           \* the tasks the group was built from
    Starters,        \* the callers of Group.Start
    Stoppers,        \* the callers of Group.Stop
    AutoStopTimeout  \* whether WithAutoStopTimeout gave a positive duration

ASSUME TasksAssumption == IsFiniteSet(Tasks)
ASSUME CallersAssumption == Starters \cap Stoppers = {}
ASSUME AutoStopTimeoutAssumption == AutoStopTimeout \in BOOLEAN

VARIABLES
    \* the Group, under mu
    state,        \* state
    stopReq,      \* a shutdown request is buffered in stopReqCh (capacity 1)
    doneClosed,   \* doneCh is closed
    resultErr,    \* resultErr
    \* the locals of the run
    ctxDone,      \* the context given to Start is done
    runCancelled, \* runCancel was called
    remaining,    \* the start results still to be received
    reason,       \* reason; stopInProgress is reason # "none"
    startErrs,    \* startErrs
    stopErrs,     \* stopErrs
    stopCtxDone,  \* the context of the automatic stop has timed out
    stopper,      \* the goroutine that waits for every Stop and closes stopDone
    \* the goroutines of the tasks
    startPc,      \* startPc[t]: where the goroutine of t's Start is
    startResult,  \* startResult[t]: what t's Start returned
    stopPc,       \* stopPc[t]: where the goroutine of t's Stop is
    \* the callers
    pc,           \* pc[c]: where caller c is
    ret           \* ret[c]: what caller c was given

groupVars == <<state, stopReq, doneClosed, resultErr>>
runVars == <<ctxDone, runCancelled, remaining, reason, startErrs, stopErrs,
             stopCtxDone, stopper>>
taskVars == <<startPc, startResult, stopPc>>
callVars == <<pc, ret>>
vars == <<groupVars, runVars, taskVars, callVars>>

-----------------------------------------------------------------------------

Callers == Starters \cup Stoppers

Errors == {"start", "stop"} \X Tasks

Returned(kind, errs) == [kind |-> kind, errs |-> errs]
NoReturn == Returned("none", {})
Returns == [kind : {"none", "alreadyStarted", "alreadyStopped",
                    "notStarted", "ctxErr", "result"},
            errs : SUBSET Errors]

StopInProgress == reason # "none"

(* runCtx is derived from the context given to Start.                      *)
RunCtxDone == ctxDone \/ runCancelled

(* startResults has room for every result: a sent result is in the channel *)
(* until it is received, in any order the goroutines may have sent it.     *)
Unreceived == {t \in Tasks : startPc[t] # "received"}

(* The error Start ends with.                                              *)
FinalErr ==
    LET starts == {"start"} \X startErrs
        stops  == {"stop"} \X stopErrs
    IN  CASE reason = "taskFailure" -> starts \cup stops
          [] reason \in {"manualStop", "parentCancel"} -> stops
          [] OTHER -> starts

Init ==
    /\ state = "Init"
    /\ stopReq = FALSE
    /\ doneClosed = FALSE
    /\ resultErr = {}
    /\ ctxDone \in BOOLEAN
    /\ runCancelled = FALSE
    /\ remaining = 0
    /\ reason = "none"
    /\ startErrs = {}
    /\ stopErrs = {}
    /\ stopCtxDone = FALSE
    /\ stopper = "idle"
    /\ startPc = [t \in Tasks |-> "idle"]
    /\ startResult = [t \in Tasks |-> "none"]
    /\ stopPc = [t \in Tasks |-> "idle"]
    /\ pc = [c \in Callers |-> "ready"]
    /\ ret = [c \in Callers |-> NoReturn]

Goto(c, label) == pc' = [pc EXCEPT ![c] = label]

Return(c, answer) ==
    /\ Goto(c, "returned")
    /\ ret' = [ret EXCEPT ![c] = answer]

-----------------------------------------------------------------------------
(* Variants of the definitions below with a plausible bug each, which the  *)
(* properties at the end of the module rule out.                           *)

(* Takes a stopped group for a new one.                                    *)
BadAcquireState(s) ==
    /\ pc[s] = "ready"
    /\ state \in {"Init", "Stopped"}
    /\ state' = "Running"
    /\ remaining' = Cardinality(Tasks)
    /\ startPc' = [t \in Tasks |-> "launched"]
    /\ Goto(s, "select")
    /\ UNCHANGED <<stopReq, doneClosed, resultErr, ctxDone, runCancelled, reason,
                   startErrs, stopErrs, stopCtxDone, stopper,
                   startResult, stopPc, ret>>

(* beginStop without its sync.Once for the reason: the last one wins.      *)
BadBeginStop(s, why) ==
    /\ reason' = why
    /\ IF StopInProgress THEN UNCHANGED pc ELSE Goto(s, "markStopping")

ReceiveResultIf(s, t, failure) ==
    /\ pc[s] = "select"
    /\ remaining > 0
    /\ startPc[t] = "sent"
    /\ startPc' = [startPc EXCEPT ![t] = "received"]
    /\ remaining' = remaining - 1
    /\ IF failure
       THEN /\ startErrs' = startErrs \cup {t}
            /\ reason' = IF StopInProgress THEN reason ELSE "taskFailure"
            /\ IF StopInProgress THEN UNCHANGED pc ELSE Goto(s, "markStopping")
       ELSE UNCHANGED <<startErrs, reason, pc>>
    /\ UNCHANGED <<groupVars, ctxDone, runCancelled, stopErrs, stopCtxDone, stopper,
                   startResult, stopPc, ret>>

(* Begins no stop for the last result: nothing seems left to stop.         *)
BadReceiveLast(s, t) == ReceiveResultIf(s, t, startResult[t] = "failed" /\ remaining > 1)

(* Takes context.Canceled for a failure.                                   *)
BadReceiveCanceled(s, t) == ReceiveResultIf(s, t, startResult[t] \in {"failed", "canceled"})

(* Stops the tasks without cancelling their context.                       *)
BadCancelRun(s) ==
    /\ pc[s] = "cancelRun"
    /\ stopper' = "waiting"
    /\ stopPc' = [t \in Tasks |-> "launched"]
    /\ Goto(s, "select")
    /\ UNCHANGED <<groupVars, ctxDone, runCancelled, remaining, reason, startErrs,
                   stopErrs, stopCtxDone, startPc, startResult, ret>>

(* Publishes without waiting for stopDone.                                 *)
BadPublishEarly(s) ==
    /\ pc[s] = "select"
    /\ remaining = 0
    /\ resultErr' = FinalErr
    /\ state' = "Stopped"
    /\ Goto(s, "closeDone")
    /\ UNCHANGED <<stopReq, doneClosed, runVars, taskVars, ret>>

(* stopReqCh without a buffer: the request is dropped when the runner is   *)
(* not at its select.                                                      *)
BadStopRequest(p) ==
    /\ pc[p] = "request"
    /\ stopReq' \in {stopReq, TRUE}
    /\ Goto(p, "wait")
    /\ UNCHANGED <<state, doneClosed, resultErr, runVars, taskVars, ret>>

-----------------------------------------------------------------------------
(* Group.Start.                                                            *)

(* The caller that finds the group in Init becomes its runner: it sets     *)
(* Running, makes the channels and launches the goroutine of every task.   *)
StartAcquire(s) ==
    /\ pc[s] = "ready"
    /\ state = "Init"
    /\ state' = "Running"
    /\ remaining' = Cardinality(Tasks)
    /\ startPc' = [t \in Tasks |-> "launched"]
    /\ Goto(s, "select")
    /\ UNCHANGED <<stopReq, doneClosed, resultErr, ctxDone, runCancelled, reason,
                   startErrs, stopErrs, stopCtxDone, stopper,
                   startResult, stopPc, ret>>

StartRefused(s) ==
    /\ pc[s] = "ready"
    /\ \/ /\ state \in {"Running", "Stopping"}
          /\ Return(s, Returned("alreadyStarted", {}))
       \/ /\ state = "Stopped"
          /\ Return(s, Returned("alreadyStopped", {}))
    /\ UNCHANGED <<groupVars, runVars, taskVars>>

(* beginStop, up to its lock: only the first call of it does anything.     *)
BeginStop(s, why) ==
    IF StopInProgress
    THEN UNCHANGED <<reason, pc>>
    ELSE /\ reason' = why
         /\ Goto(s, "markStopping")

(* The cases of the select, each taken only while results are missing.     *)
ReceiveStopReq(s) ==
    /\ pc[s] = "select"
    /\ remaining > 0
    /\ stopReq
    /\ stopReq' = FALSE
    /\ BeginStop(s, "manualStop")
    /\ UNCHANGED <<state, doneClosed, resultErr, ctxDone, runCancelled, remaining,
                   startErrs, stopErrs, stopCtxDone, stopper, taskVars, ret>>

ReceiveCtxDone(s) ==
    /\ pc[s] = "select"
    /\ remaining > 0
    /\ ctxDone
    /\ BeginStop(s, "parentCancel")
    /\ UNCHANGED <<groupVars, ctxDone, runCancelled, remaining, startErrs, stopErrs,
                   stopCtxDone, stopper, taskVars, ret>>

ReceiveStartResult(s, t) ==
    /\ pc[s] = "select"
    /\ remaining > 0
    /\ startPc[t] = "sent"
    /\ startPc' = [startPc EXCEPT ![t] = "received"]
    /\ remaining' = remaining - 1
    /\ IF startResult[t] = "failed"
       THEN /\ startErrs' = startErrs \cup {t}
            /\ BeginStop(s, "taskFailure")
       ELSE UNCHANGED <<startErrs, reason, pc>>
    /\ UNCHANGED <<groupVars, ctxDone, runCancelled, stopErrs, stopCtxDone, stopper,
                   startResult, stopPc, ret>>

(* The rest of beginStop: mark the group under the lock, then cancel the   *)
(* tasks' context and launch the goroutines that stop the tasks.           *)
MarkStopping(s) ==
    /\ pc[s] = "markStopping"
    /\ state' = "Stopping"
    /\ Goto(s, "cancelRun")
    /\ UNCHANGED <<stopReq, doneClosed, resultErr, runVars, taskVars, ret>>

CancelRun(s) ==
    /\ pc[s] = "cancelRun"
    /\ runCancelled' = TRUE
    /\ stopper' = "waiting"
    /\ stopPc' = [t \in Tasks |-> "launched"]
    /\ Goto(s, "select")
    /\ UNCHANGED <<groupVars, ctxDone, remaining, reason, startErrs, stopErrs,
                   stopCtxDone, startPc, startResult, ret>>

(* Past the loop: wait for stopDone when a stop is in progress, publish    *)
(* the result and the final state under the lock, then close doneCh.       *)
Publish(s) ==
    /\ pc[s] = "select"
    /\ remaining = 0
    /\ StopInProgress => stopper = "done"
    /\ resultErr' = FinalErr
    /\ state' = "Stopped"
    /\ Goto(s, "closeDone")
    /\ UNCHANGED <<stopReq, doneClosed, runVars, taskVars, ret>>

CloseDone(s) ==
    /\ pc[s] = "closeDone"
    /\ doneClosed' = TRUE
    /\ runCancelled' = TRUE
    /\ Return(s, Returned("result", FinalErr))
    /\ UNCHANGED <<state, stopReq, resultErr, ctxDone, remaining, reason, startErrs,
                   stopErrs, stopCtxDone, stopper, taskVars>>

Runner(s) ==
    \/ ReceiveStopReq(s)
    \/ ReceiveCtxDone(s)
    \/ \E t \in Tasks : ReceiveStartResult(s, t)
    \/ MarkStopping(s)
    \/ CancelRun(s)
    \/ Publish(s)
    \/ CloseDone(s)

-----------------------------------------------------------------------------
(* The goroutines of the tasks.                                            *)

EnterStart(t) ==
    /\ startPc[t] = "launched"
    /\ startPc' = [startPc EXCEPT ![t] = "running"]
    /\ UNCHANGED <<groupVars, runVars, startResult, stopPc, callVars>>

(* The task's Start returns nil or an error (or panics) when it pleases,   *)
(* and context.Canceled once its context is done; the result is sent.      *)
LeaveStart(t) ==
    /\ startPc[t] = "running"
    /\ \E result \in {"nil", "failed"} \cup (IF RunCtxDone THEN {"canceled"} ELSE {}) :
           startResult' = [startResult EXCEPT ![t] = result]
    /\ startPc' = [startPc EXCEPT ![t] = "sent"]
    /\ UNCHANGED <<groupVars, runVars, stopPc, callVars>>

EnterStop(t) ==
    /\ stopPc[t] = "launched"
    /\ stopPc' = [stopPc EXCEPT ![t] = "running"]
    /\ UNCHANGED <<groupVars, runVars, startPc, startResult, callVars>>

LeaveStop(t) ==
    /\ stopPc[t] = "running"
    /\ stopPc' = [stopPc EXCEPT ![t] = "returned"]
    /\ stopErrs' \in {stopErrs, stopErrs \cup {t}}
    /\ UNCHANGED <<groupVars, ctxDone, runCancelled, remaining, reason, startErrs,
                   stopCtxDone, stopper, startPc, startResult, callVars>>

CloseStopDone ==
    /\ stopper = "waiting"
    /\ \A t \in Tasks : stopPc[t] = "returned"
    /\ stopper' = "done"
    /\ UNCHANGED <<groupVars, ctxDone, runCancelled, remaining, reason, startErrs,
                   stopErrs, stopCtxDone, taskVars, callVars>>

-----------------------------------------------------------------------------
(* Group.Stop.                                                             *)

(* The snapshot of the state under the lock, and what follows from it      *)
(* without touching the group again.                                       *)
StopSnapshot(p) ==
    /\ pc[p] = "ready"
    /\ \/ /\ state = "Init"
          /\ Return(p, Returned("notStarted", {}))
       \/ /\ state = "Running"
          /\ Goto(p, "request")
          /\ UNCHANGED ret
       \/ /\ state = "Stopping"
          /\ Goto(p, "wait")
          /\ UNCHANGED ret
       \/ /\ state = "Stopped"
          /\ Return(p, Returned("result", resultErr))
    /\ UNCHANGED <<groupVars, runVars, taskVars>>

(* The non-blocking send on the channel of the snapshot, by now perhaps    *)
(* the channel of a run that is over.                                      *)
StopRequest(p) ==
    /\ pc[p] = "request"
    /\ stopReq' = TRUE
    /\ Goto(p, "wait")
    /\ UNCHANGED <<state, doneClosed, resultErr, runVars, taskVars, ret>>

(* waitForDone.                                                            *)
StopDone(p) ==
    /\ pc[p] = "wait"
    /\ doneClosed
    /\ Return(p, Returned("result", resultErr))
    /\ UNCHANGED <<groupVars, runVars, taskVars>>

StopExpired(p) ==
    /\ pc[p] = "wait"
    /\ Return(p, Returned("ctxErr", {}))
    /\ UNCHANGED <<groupVars, runVars, taskVars>>

-----------------------------------------------------------------------------
(* The environment.                                                        *)

ParentCancel ==
    /\ ~ctxDone
    /\ ctxDone' = TRUE
    /\ UNCHANGED <<groupVars, runCancelled, remaining, reason, startErrs, stopErrs,
                   stopCtxDone, stopper, taskVars, callVars>>

AutoStopExpired ==
    /\ AutoStopTimeout
    /\ stopper = "waiting"
    /\ ~stopCtxDone
    /\ stopCtxDone' = TRUE
    /\ UNCHANGED <<groupVars, ctxDone, runCancelled, remaining, reason, startErrs,
                   stopErrs, stopper, taskVars, callVars>>

(* A Stop caller that was answered may call Stop again.                    *)
CallAgain(p) ==
    /\ pc[p] = "returned"
    /\ Goto(p, "ready")
    /\ ret' = [ret EXCEPT ![p] = NoReturn]
    /\ UNCHANGED <<groupVars, runVars, taskVars>>

Next ==
    \/ \E s \in Starters : StartAcquire(s) \/ StartRefused(s) \/ Runner(s)
    \/ \E t \in Tasks : \/ EnterStart(t) \/ LeaveStart(t)
                        \/ EnterStop(t)  \/ LeaveStop(t)
    \/ CloseStopDone
    \/ \E p \in Stoppers : \/ StopSnapshot(p) \/ StopRequest(p)
                           \/ StopDone(p) \/ StopExpired(p)
    \/ ParentCancel
    \/ AutoStopExpired
    \/ \E p \in Stoppers : CallAgain(p)

Spec == Init /\ [][Next]_vars

(* Goroutines are scheduled; the timer of the automatic stop fires; and    *)
(* the tasks keep the contract of task.Task: a Start returns once its      *)
(* context is done, a Stop returns once its context is.  No Start need     *)
(* return before that, no caller need cancel, no Stop caller need expire.  *)
Fairness ==
    /\ \A s \in Starters : WF_vars(Runner(s))
    /\ \A p \in Stoppers : WF_vars(StopRequest(p) \/ StopDone(p))
    /\ \A t \in Tasks : /\ WF_vars(EnterStart(t))
                        /\ WF_vars(RunCtxDone /\ LeaveStart(t))
                        /\ WF_vars(EnterStop(t))
                        /\ WF_vars(stopCtxDone /\ LeaveStop(t))
    /\ WF_vars(CloseStopDone)
    /\ WF_vars(AutoStopExpired)

FairSpec == Spec /\ Fairness

-----------------------------------------------------------------------------
(* Properties.                                                             *)

StarterPcs == {"ready", "select", "markStopping", "cancelRun", "closeDone", "returned"}
StopperPcs == {"ready", "request", "wait", "returned"}

(* Every variable holds a value its Go counterpart can hold.               *)
TypeOK ==
    /\ state \in {"Init", "Running", "Stopping", "Stopped"}
    /\ stopReq \in BOOLEAN
    /\ doneClosed \in BOOLEAN
    /\ resultErr \in SUBSET Errors
    /\ ctxDone \in BOOLEAN
    /\ runCancelled \in BOOLEAN
    /\ remaining \in 0..Cardinality(Tasks)
    /\ reason \in {"none", "taskFailure", "manualStop", "parentCancel"}
    /\ startErrs \in SUBSET Tasks
    /\ stopErrs \in SUBSET Tasks
    /\ stopCtxDone \in BOOLEAN
    /\ stopper \in {"idle", "waiting", "done"}
    /\ startPc \in [Tasks -> {"idle", "launched", "running", "sent", "received"}]
    /\ startResult \in [Tasks -> {"none", "nil", "failed", "canceled"}]
    /\ stopPc \in [Tasks -> {"idle", "launched", "running", "returned"}]
    /\ pc \in [Callers -> StarterPcs \cup StopperPcs]
    /\ ret \in [Callers -> Returns]

(* When the group says it is stopped, no task's Start or Stop is executing *)
(* or still to come, and either no task was told to stop or every one was: *)
(* Start waits for every result and, when it began a stop, for stopDone.   *)
StoppedIsQuiescent ==
    state = "Stopped" =>
        /\ \A t \in Tasks : startPc[t] = "received"
        /\ \/ \A t \in Tasks : stopPc[t] = "idle"
           \/ \A t \in Tasks : stopPc[t] = "returned"

(* Start and every Stop that is given the result of the group are given    *)
(* the same one, and only once the group is stopped: Stop reads resultErr  *)
(* in its snapshot or after doneCh, Start returns its own finalErr.        *)
AgreedResult ==
    \A c \in Callers : ret[c].kind = "result" =>
        /\ state = "Stopped"
        /\ ret[c].errs = resultErr

(* A task whose Start failed has brought every task of the stopped group   *)
(* through its Stop, whatever else asked for the stop: the failure may be  *)
(* the last result, and a stop may be in progress already.                 *)
FailureIsCleanedUp ==
    /\ state = "Stopped"
    /\ \E t \in Tasks : startResult[t] = "failed"
    => \A t \in Tasks : stopPc[t] = "returned"

(* When the runner began no stop for a Stop or for the caller's context,   *)
(* the group's result names every task whose Start failed and every task   *)
(* whose Stop failed and no other, not the tasks that returned             *)
(* context.Canceled because another one failed; and without a failure no   *)
(* task was stopped.                                                       *)
UnaskedResult ==
    /\ state = "Stopped"
    /\ reason \notin {"manualStop", "parentCancel"}
    => /\ resultErr = {"start"} \X {t \in Tasks : startResult[t] = "failed"}
                      \cup {"stop"} \X stopErrs
       /\ (\A t \in Tasks : startResult[t] # "failed") =>
              \A t \in Tasks : stopPc[t] = "idle"

(* The states of the abstract specification's calls.                       *)
StartCall ==
    [t \in Tasks |-> CASE startPc[t] \in {"idle", "launched"} -> "idle"
                       [] startPc[t] = "running" -> "busy"
                       [] OTHER -> "done"]
StopCall ==
    [t \in Tasks |-> CASE stopPc[t] \in {"idle", "launched"} -> "idle"
                       [] stopPc[t] = "running" -> "busy"
                       [] OTHER -> "done"]

Abs == INSTANCE GroupLifecycle WITH startCall <- StartCall, stopCall <- StopCall

(* The group implements its life cycle: one Start wins, each task's Start  *)
(* and Stop is called at most once, answers fit the phase they are given   *)
(* in, and the group never goes back to a phase it has left.               *)
Lifecycle == Abs!Spec

(* A failure the runner saw before anything else had begun to stop the     *)
(* group ends it, and its error is in the result, whatever is asked for    *)
(* while the tasks are being stopped (the reason is set once).             *)
FailureReported ==
    (state = "Running" /\ startErrs # {}) ~>
        (state = "Stopped" /\ {"start"} \X startErrs \subseteq resultErr)

(* A cancelled context or a failed task ends a running group.              *)
EndsOnceAsked ==
    (state = "Running" /\ (ctxDone \/ \E t \in Tasks : startResult[t] = "failed"))
        ~> state = "Stopped"

(* A Stop caller that waits is answered: its request reaches the runner or *)
(* finds the group ending anyway, and the result is published before       *)
(* doneCh is closed.                                                       *)
StopAnswered == \A p \in Stoppers : pc[p] = "wait" ~> pc[p] = "returned"

-----------------------------------------------------------------------------
(* What a test and a comment say, and the code does not always do.         *)

(* A task that ended because its context was cancelled is stopped before   *)
(* the group is (TestGroupParentCancelGraceful waits for the worker's Stop *)
(* after it cancelled the context, and WithAutoStopTimeout's comment names *)
(* parent cancellation among what triggers the cleanup).                   *)
TestCancelStopsTasks ==
    /\ state = "Stopped"
    /\ \E t \in Tasks : startResult[t] = "canceled"
    => \A t \in Tasks : stopPc[t] = "returned"

=============================================================================
