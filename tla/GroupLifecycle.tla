-------------------------- MODULE GroupLifecycle --------------------------
(***************************************************************************)
(* What a task.Group (core/task/group.go) promises to the callers of Start *)
(* and Stop, without its channels, goroutines and counters:                *)
(*                                                                         *)
(*   - a group lives once: Init, Running, Stopping, Stopped, never back;   *)
(*   - a task's Start is called at most once and a task's Stop is called   *)
(*     at most once, the latter only while the group is stopping;          *)
(*   - the group is Stopped only when no call it made is still executing,  *)
(*     and then either no task was told to stop or every one was;          *)
(*   - all callers that are given the result are given the same one.       *)
(*                                                                         *)
(* TaskGroup implements this specification.                                *)
(***************************************************************************)
EXTENDS FiniteSets

CONSTANTS
    Tasks,      \* the tasks the group was built from
    Starters,   \* the callers of Group.Start
    Stoppers    \* the callers of Group.Stop

VARIABLES
    state,      \* the phase of the group's life
    startCall,  \* startCall[t]: what became of the call of task t's Start
    stopCall,   \* stopCall[t]: what became of the call of task t's Stop
    resultErr,  \* the errors the group finished with
    ret         \* ret[c]: what caller c was given

vars == <<state, startCall, stopCall, resultErr, ret>>

-----------------------------------------------------------------------------

Callers == Starters \cup Stoppers

(* An error of the group is a task's Start error or a task's Stop error.   *)
Errors == {"start", "stop"} \X Tasks

CallStates == {"idle", "busy", "done"}

(* What a call returns: nothing yet, one of the sentinel errors, the error *)
(* of the caller's own context, or the result of the group.                *)
Returned(kind, errs) == [kind |-> kind, errs |-> errs]
NoReturn == Returned("none", {})
Returns == [kind : {"none", "alreadyStarted", "alreadyStopped",
                    "notStarted", "ctxErr", "result"},
            errs : SUBSET Errors]

Init ==
    /\ state = "Init"
    /\ startCall = [t \in Tasks |-> "idle"]
    /\ stopCall = [t \in Tasks |-> "idle"]
    /\ resultErr = {}
    /\ ret = [c \in Callers |-> NoReturn]

(* The one Start that takes the group out of Init.                         *)
Begin ==
    /\ state = "Init"
    /\ state' = "Running"
    /\ UNCHANGED <<startCall, stopCall, resultErr, ret>>

BeginStop ==
    /\ state = "Running"
    /\ state' = "Stopping"
    /\ UNCHANGED <<startCall, stopCall, resultErr, ret>>

EnterStart(t) ==
    /\ state \in {"Running", "Stopping"}
    /\ startCall[t] = "idle"
    /\ startCall' = [startCall EXCEPT ![t] = "busy"]
    /\ UNCHANGED <<state, stopCall, resultErr, ret>>

LeaveStart(t) ==
    /\ startCall[t] = "busy"
    /\ startCall' = [startCall EXCEPT ![t] = "done"]
    /\ UNCHANGED <<state, stopCall, resultErr, ret>>

EnterStop(t) ==
    /\ state = "Stopping"
    /\ stopCall[t] = "idle"
    /\ stopCall' = [stopCall EXCEPT ![t] = "busy"]
    /\ UNCHANGED <<state, startCall, resultErr, ret>>

LeaveStop(t) ==
    /\ stopCall[t] = "busy"
    /\ stopCall' = [stopCall EXCEPT ![t] = "done"]
    /\ UNCHANGED <<state, startCall, resultErr, ret>>

(* Every Start has returned; a group that never began to stop told no task *)
(* to stop, and one that did has had every Stop return.                    *)
Finish(errs) ==
    /\ \A t \in Tasks : startCall[t] = "done"
    /\ \/ /\ state = "Running"
          /\ \A t \in Tasks : stopCall[t] = "idle"
       \/ /\ state = "Stopping"
          /\ \A t \in Tasks : stopCall[t] = "done"
    /\ state' = "Stopped"
    /\ resultErr' = errs
    /\ UNCHANGED <<startCall, stopCall, ret>>

(* Caller c is answered, in a phase that justifies the answer.             *)
Answer(c, answer) ==
    /\ ret[c] = NoReturn
    /\ ret' = [ret EXCEPT ![c] = answer]
    /\ UNCHANGED <<state, startCall, stopCall, resultErr>>

(* A Stop caller may call Stop again.                                      *)
CallAgain(p) ==
    /\ ret[p] # NoReturn
    /\ ret' = [ret EXCEPT ![p] = NoReturn]
    /\ UNCHANGED <<state, startCall, stopCall, resultErr>>

AnswerStart(c) ==
    \/ /\ state \in {"Running", "Stopping"}
       /\ Answer(c, Returned("alreadyStarted", {}))
    \/ /\ state = "Stopped"
       /\ \/ Answer(c, Returned("alreadyStopped", {}))
          \/ Answer(c, Returned("result", resultErr))

AnswerStop(c) ==
    \/ /\ state = "Init"
       /\ Answer(c, Returned("notStarted", {}))
    \/ /\ state # "Init"
       /\ Answer(c, Returned("ctxErr", {}))
    \/ /\ state = "Stopped"
       /\ Answer(c, Returned("result", resultErr))

Next ==
    \/ Begin
    \/ BeginStop
    \/ \E t \in Tasks : \/ EnterStart(t) \/ LeaveStart(t)
                        \/ EnterStop(t)  \/ LeaveStop(t)
    \/ \E errs \in SUBSET Errors : Finish(errs)
    \/ \E c \in Starters : AnswerStart(c)
    \/ \E c \in Stoppers : AnswerStop(c)
    \/ \E p \in Stoppers : CallAgain(p)

Spec == Init /\ [][Next]_vars

=============================================================================
