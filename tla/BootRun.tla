------------------------------ MODULE BootRun ------------------------------
(***************************************************************************)
(* boot.run (core/boot/run.go): the life of an application, a task.Group   *)
(* behind Application (core/boot/app.go), from its first hook to its last. *)
(*                                                                         *)
(* The module composes run with TaskGroup and shares its variables: of the *)
(* group's callers the goroutine run launches alone calls Start and run    *)
(* alone calls Stop, and the context run derives is the one the group is   *)
(* started with.  What is added is run's own place, the buffered signal,   *)
(* the channel startErr and the errors run joins.                          *)
(*                                                                         *)
(* A list of hooks is one step that fails or not: runHooks calls each of   *)
(* them, whatever the others return.  Application passes the calls on to   *)
(* its group and turns an error of Start that contains context.Canceled    *)
(* into nil: no Start is recorded with that error, a Stop may be.          *)
(***************************************************************************)
EXTENDS TaskGroup

CONSTANTS
    Launched,    \* the goroutine that calls t.Start
    Main         \* run, when it calls t.Stop

ASSUME ApplicationAssumption == Launched \in Starters /\ Main \in Stoppers

VARIABLES
    bootPc,     \* where run is
    quit,       \* a signal is buffered in quit
    startErr,   \* startErr: "open", then "nil" (closed) or "error"
    asked,      \* who asked for a shutdown: a signal, the outer context
    startError, \* startError is set
    errs        \* errs: which of run's steps failed

bootVars == <<bootPc, quit, startErr, asked, startError, errs>>
appVars == <<bootVars, vars>>

-----------------------------------------------------------------------------

BootInit ==
    /\ bootPc = "beforeStart"
    /\ quit = FALSE
    /\ startErr = "open"
    /\ asked = {}
    /\ startError = FALSE
    /\ errs = {}
    /\ Init
    /\ ctxDone = FALSE

Failing(step) == errs' \in {errs, errs \cup {step}}

(* run, variants first: a shutdown that cancels its context as soon as it   *)
(* is asked for, a startError that is dropped, a Stop given a context       *)
(* without a timeout, an error of Stop that is forgotten.                   *)
BadAwaitCancels ==
    /\ bootPc = "await"
    /\ \/ /\ quit
          /\ quit' = FALSE
          /\ UNCHANGED startError
       \/ /\ startErr # "open"
          /\ startError' = (startErr = "error")
          /\ UNCHANGED quit
    /\ ctxDone' = TRUE
    /\ bootPc' = "beforeStop"
    /\ UNCHANGED <<startErr, asked, errs, groupVars, runCancelled, remaining, reason,
                   startErrs, stopErrs, stopCtxDone, stopper, taskVars, callVars>>

BadAwait ==
    /\ bootPc = "await"
    /\ quit \/ startErr # "open" \/ ctxDone
    /\ quit' = FALSE
    /\ bootPc' = "beforeStop"
    /\ UNCHANGED <<startErr, asked, startError, errs, vars>>

BadStopTimesOut == FALSE /\ UNCHANGED appVars

BadStopReturn ==
    /\ bootPc = "stopping"
    /\ ret[Main] # NoReturn
    /\ bootPc' = "afterStop"
    /\ UNCHANGED <<quit, startErr, asked, startError, errs, vars>>

BeforeStart ==
    /\ bootPc = "beforeStart"
    /\ Failing("beforeStart")
    /\ bootPc' = IF "beforeStart" \in errs' THEN "done" ELSE "await"
    /\ UNCHANGED <<quit, startErr, asked, startError, vars>>

(* Application.Start: what it makes of the errors the group joined.        *)
StartOutcomes(joined) ==
    (IF joined = {} THEN {} ELSE {"error"})
        \cup (IF joined \subseteq {"start"} \X Tasks /\ joined # {} THEN {} ELSE {"nil"})

(* The goroutine that runs t.Start, once it is launched: a step of the     *)
(* group's runner, and the result into the channel.                        *)
RunStart ==
    /\ bootPc \notin {"beforeStart"} /\ "beforeStart" \notin errs
    /\ StartAcquire(Launched) \/ Runner(Launched)
    /\ UNCHANGED bootVars

SendStartErr ==
    /\ startErr = "open"
    /\ ret[Launched] # NoReturn
    /\ startErr' \in StartOutcomes(ret[Launched].errs)
    /\ UNCHANGED <<bootPc, quit, asked, startError, errs, vars>>

(* The select: a signal, the end of t.Start, the end of the context.       *)
Await ==
    /\ bootPc = "await"
    /\ \/ /\ quit
          /\ quit' = FALSE
          /\ UNCHANGED startError
       \/ /\ startErr # "open"
          /\ startError' = (startErr = "error")
          /\ UNCHANGED quit
       \/ /\ ctxDone
          /\ UNCHANGED <<quit, startError>>
    /\ bootPc' = "beforeStop"
    /\ UNCHANGED <<startErr, asked, errs, vars>>

BeforeStop ==
    /\ bootPc = "beforeStop"
    /\ Failing("beforeStop")
    /\ bootPc' = "cancel"
    /\ UNCHANGED <<quit, startErr, asked, startError, vars>>

Cancel ==
    /\ bootPc = "cancel"
    /\ ctxDone' = TRUE
    /\ bootPc' = "stop"
    /\ UNCHANGED <<quit, startErr, asked, startError, errs, groupVars, runCancelled,
                   remaining, reason, startErrs, stopErrs, stopCtxDone, stopper, taskVars,
                   callVars>>

(* t.Stop with the context of the shutdown timeout: the steps of Stop,     *)
(* among them the expiry of that context.                                  *)
Stop ==
    /\ bootPc = "stop"
    /\ StopSnapshot(Main)
    /\ bootPc' = "stopping"
    /\ UNCHANGED <<quit, startErr, asked, startError, errs>>

StopWait ==
    /\ bootPc = "stopping"
    /\ StopRequest(Main) \/ StopDone(Main)
    /\ UNCHANGED bootVars

StopTimesOut ==
    /\ bootPc = "stopping"
    /\ StopExpired(Main)
    /\ UNCHANGED bootVars

(* t.Stop has returned: keep its error.                                    *)
StopReturn ==
    /\ bootPc = "stopping"
    /\ ret[Main] # NoReturn
    /\ errs' = IF ret[Main].kind = "result" /\ ret[Main].errs = {}
               THEN errs ELSE errs \cup {"stop"}
    /\ bootPc' = "afterStop"
    /\ UNCHANGED <<quit, startErr, asked, startError, vars>>

(* The last hooks, and the join with the error of Start.                   *)
AfterStop ==
    /\ bootPc = "afterStop"
    /\ \E failure \in SUBSET {"afterStop"} :
           errs' = errs \cup failure \cup (IF startError THEN {"start"} ELSE {})
    /\ bootPc' = "done"
    /\ UNCHANGED <<quit, startErr, asked, startError, vars>>

Run ==
    BeforeStart \/ Await \/ BeforeStop \/ Cancel \/ Stop \/ StopWait \/ StopTimesOut
        \/ StopReturn \/ AfterStop

(* The environment: a signal once Notify has been called, and the end of   *)
(* the context run was given.                                              *)
Signal ==
    /\ bootPc \notin {"beforeStart", "done"}
    /\ ~quit
    /\ quit' = TRUE
    /\ asked' = asked \cup {"signal"}
    /\ UNCHANGED <<bootPc, startErr, startError, errs, vars>>

OuterCancel ==
    /\ bootPc # "done"
    /\ ParentCancel
    /\ asked' = asked \cup {"outer"}
    /\ UNCHANGED <<bootPc, quit, startErr, startError, errs>>

(* The goroutines of the tasks.                                            *)
TaskStep(t) ==
    /\ \/ EnterStart(t) \/ LeaveStart(t)
       \/ EnterStop(t)  \/ LeaveStop(t)
    /\ UNCHANGED bootVars

CloseStops == CloseStopDone /\ UNCHANGED bootVars

(* run has returned; the process ends, or lives on for a while.            *)
Exited == bootPc = "done" /\ UNCHANGED appVars

BootNext ==
    \/ Run \/ RunStart \/ SendStartErr \/ Signal \/ OuterCancel
    \/ \E t \in Tasks : TaskStep(t)
    \/ CloseStops
    \/ Exited

BootSpec == BootInit /\ [][BootNext]_appVars

(* run is scheduled, its hooks return and the shutdown timeout passes; the *)
(* goroutine of t.Start is scheduled.  Nothing is asked of the tasks: a    *)
(* Start or a Stop may never return.                                       *)
BootFairness ==
    /\ WF_appVars(Run)
    /\ WF_appVars(StopTimesOut)
    /\ WF_appVars(RunStart)
    /\ WF_appVars(SendStartErr)

BootFairSpec == BootSpec /\ BootFairness

-----------------------------------------------------------------------------
(* Properties.                                                             *)

(* A run that returns nil leaves a group that is stopped, with nothing of  *)
(* it executing: a Stop that timed out or came before Start took the lock  *)
(* is an error of run.                                                     *)
NilMeansStopped ==
    (bootPc = "done" /\ errs = {}) =>
        /\ state = "Stopped"
        /\ \A t \in Tasks : startPc[t] = "received" /\ stopPc[t] \in {"idle", "returned"}
        /\ stopErrs = {}

(* When no signal and no outer context ended it, a run with a task that    *)
(* failed waits for the whole group and returns the error, from Stop and   *)
(* from Start: from Stop alone only if some Stop failed too, which can     *)
(* hide the failure behind a context.Canceled.                             *)
UnaskedFailureReturned ==
    (bootPc = "done" /\ asked = {} /\ \E t \in Tasks : startResult[t] = "failed") =>
        /\ "stop" \in errs
        /\ stopErrs = {} => "start" \in errs
        /\ \A t \in Tasks : stopPc[t] = "returned"

(* The beforeStop hooks find an undisturbed group, its context live and    *)
(* none of its tasks told to stop, unless the outer context ended or a     *)
(* task failed: a signal disturbs nothing before them.                     *)
BeforeStopFirst ==
    (bootPc \in {"await", "beforeStop"} /\ "outer" \notin asked
        /\ \A t \in Tasks : startResult[t] # "failed") =>
            ~ctxDone /\ ~StopInProgress

(* The shutdown comes to its end whatever the tasks do: a signal, the end  *)
(* of the context or the end of the group leads run to return.             *)
ShutdownEnds ==
    (bootPc # "beforeStart" /\ (quit \/ ctxDone \/ state = "Stopped")) ~> bootPc = "done"

=============================================================================
