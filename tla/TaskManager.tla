---------------------------- MODULE TaskManager ----------------------------
(***************************************************************************)
(* task.Manager (core/task/manager.go): named tasks that are started and   *)
(* stopped one by one, or stopped and awaited together.                    *)
(*                                                                         *)
(* Actors: the callers, each with one call of StartTask, StopTask, StopAll *)
(* or Wait at a time; for every managed task the goroutine of its Start    *)
(* and, once its stop is requested, the goroutine of its Stop; for a       *)
(* StopAll one goroutine per task of its snapshot; and the contexts of the *)
(* callers, which expire when they please.                                 *)
(*                                                                         *)
(* A managedTask is a number, handed out in the order of the StartTask     *)
(* calls; MaxStarts bounds how many there are.  The critical section of    *)
(* StartTask under opsMu holds a single one under mu, so it is one step.   *)
(* The parent context of a task only decides when its Start returns, which *)
(* the model leaves open.  Nil tasks, nil contexts and empty names are     *)
(* refused or replaced before any state is touched.  A call that is        *)
(* refused (the name is taken or unknown) changes nothing and is no step.  *)
(* A goroutine counts as running from its launch: nothing tells the two    *)
(* apart.  The error of a task's Stop is only kept for the callers, in     *)
(* stopErr, and is left out.                                               *)
(***************************************************************************)
EXTENDS Naturals, FiniteSets

CONSTANTS
    Names,     \* the names of tasks
    MaxStarts, \* bound: how many tasks StartTask may start
    Callers,   \* the goroutines that use the manager
    Deadlines, \* the callers whose contexts may expire
    NoOne      \* holds opsMu when nobody does

ASSUME NamesAssumption == Names # {}
ASSUME MaxStartsAssumption == MaxStarts \in Nat
ASSUME DeadlinesAssumption == Deadlines \subseteq Callers
ASSUME NoOneAssumption == NoOne \notin Callers

VARIABLES
    \* the Manager
    opsMu,     \* who holds opsMu
    tasks,     \* tasks: the entry listed under a name, 0 for none
    started,   \* how many entries were made
    startErr,  \* the entries whose Start error was collected
    \* the managedTasks and their goroutines
    name,      \* name[e]: the name of entry e
    startPc,   \* startPc[e]: where the goroutine of e's Start is
    failed,    \* the entries whose Start returned an error other than Canceled
    stopPc,    \* stopPc[e]: where the goroutine of e's Stop is
    \* the callers
    pc,        \* pc[c]: where the call of c is
    held,      \* held[c]: the entry c's StopTask has looked up
    expired,   \* the callers whose context has expired
    allPc      \* allPc[e]: where the running StopAll's goroutine for e is

mgrVars == <<opsMu, tasks, started, startErr>>
entryVars == <<name, startPc, failed, stopPc>>
callVars == <<pc, held, expired, allPc>>
vars == <<mgrVars, entryVars, callVars>>

-----------------------------------------------------------------------------

Entries == 1..MaxStarts

(* Closed channels: doneCh closes after the entry was taken off the list,  *)
(* stopDoneCh after the error of Stop was set.                             *)
DoneClosed(e) == startPc[e] = "done"
StopDoneClosed(e) == stopPc[e] = "done"

(* A variant: nobody cancels the context of a Start.                       *)
BadCancelled(e) == FALSE

(* The context of e's Start is cancelled by the goroutine of its Stop.     *)
Cancelled(e) == stopPc[e] # "none"

(* runWG counts the Start goroutines that have not closed doneCh; the two  *)
(* deferred calls of such a goroutine follow each other.                   *)
RunWG == Cardinality({e \in Entries : startPc[e] \notin {"unborn", "done"}})

Init ==
    /\ opsMu = NoOne
    /\ tasks = [n \in Names |-> 0]
    /\ started = 0
    /\ startErr = {}
    /\ name = [e \in Entries |-> CHOOSE n \in Names : TRUE]
    /\ startPc = [e \in Entries |-> "unborn"]
    /\ failed = {}
    /\ stopPc = [e \in Entries |-> "none"]
    /\ pc = [c \in Callers |-> "ready"]
    /\ held = [c \in Callers |-> 0]
    /\ expired = {}
    /\ allPc = [e \in Entries |-> "none"]

Goto(c, label) == pc' = [pc EXCEPT ![c] = label]

(* The call of c returns: with the error of the caller's context, with the *)
(* stopErr of the task, or with all errors collected so far.               *)
Return(c) ==
    /\ Goto(c, "ready")
    /\ held' = [held EXCEPT ![c] = 0]
    /\ expired' = expired \ {c}

-----------------------------------------------------------------------------
(* Variants of the definitions below with a plausible bug each, which the  *)
(* properties at the end of the module rule out.                           *)

(* Removes whatever is listed under the name.                              *)
BadRemoveTask(e) == tasks' = [tasks EXCEPT ![name[e]] = 0]

(* Starts a task without opsMu.                                            *)
BadStartTask(c, n) ==
    /\ pc[c] = "ready"
    /\ tasks[n] = 0
    /\ started < MaxStarts
    /\ started' = started + 1
    /\ name' = [name EXCEPT ![started'] = n]
    /\ tasks' = [tasks EXCEPT ![n] = started']
    /\ startPc' = [startPc EXCEPT ![started'] = "running"]
    /\ UNCHANGED <<opsMu, startErr, failed, stopPc, callVars>>

(* Collects the error of Start only when no stop was requested.            *)
BadRetire(e) ==
    /\ startPc[e] = "left"
    /\ startPc' = [startPc EXCEPT ![e] = "retired"]
    /\ startErr' = startErr \cup (IF stopPc[e] = "none" THEN failed \cap {e} ELSE {})
    /\ tasks' = IF tasks[name[e]] = e THEN [tasks EXCEPT ![name[e]] = 0] ELSE tasks
    /\ UNCHANGED <<opsMu, started, name, failed, stopPc, callVars>>

(* removeTaskIfSame                                                        *)
RemoveTaskIfSame(e) ==
    tasks' = IF tasks[name[e]] = e THEN [tasks EXCEPT ![name[e]] = 0] ELSE tasks

(* requestStop: the first request launches the goroutine that stops e.     *)
RequestStop(e) ==
    stopPc' = IF stopPc[e] = "none" THEN [stopPc EXCEPT ![e] = "running"] ELSE stopPc

-----------------------------------------------------------------------------
(* StartTask.                                                              *)

StartTask(c, n) ==
    /\ pc[c] = "ready"
    /\ opsMu = NoOne
    /\ tasks[n] # 0 => DoneClosed(tasks[n])
    /\ started < MaxStarts
    /\ started' = started + 1
    /\ name' = [name EXCEPT ![started'] = n]
    /\ tasks' = [tasks EXCEPT ![n] = started']
    /\ startPc' = [startPc EXCEPT ![started'] = "running"]
    /\ UNCHANGED <<opsMu, startErr, failed, stopPc, callVars>>

(* The goroutine of a task's Start: run it, then collect its error and     *)
(* take the entry off the list, then close doneCh and leave runWG.          *)
LeaveStart(e) ==
    /\ startPc[e] = "running"
    /\ startPc' = [startPc EXCEPT ![e] = "left"]
    /\ failed' \in {failed, failed \cup {e}}
    /\ UNCHANGED <<mgrVars, name, stopPc, callVars>>

Retire(e) ==
    /\ startPc[e] = "left"
    /\ startPc' = [startPc EXCEPT ![e] = "retired"]
    /\ startErr' = startErr \cup (failed \cap {e})
    /\ RemoveTaskIfSame(e)
    /\ UNCHANGED <<opsMu, started, name, failed, stopPc, callVars>>

CloseDone(e) ==
    /\ startPc[e] = "retired"
    /\ startPc' = [startPc EXCEPT ![e] = "done"]
    /\ UNCHANGED <<mgrVars, name, failed, stopPc, callVars>>

(* The goroutine of a task's Stop: cancel the context of its Start, call   *)
(* Stop, collect and set its error, close stopDoneCh.                      *)
LeaveStop(e) ==
    /\ stopPc[e] = "running"
    /\ stopPc' = [stopPc EXCEPT ![e] = "done"]
    /\ UNCHANGED <<mgrVars, name, startPc, failed, callVars>>

-----------------------------------------------------------------------------
(* StopTask.                                                               *)

StopTask(c, n) ==
    /\ pc[c] = "ready"
    /\ tasks[n] # 0
    /\ held' = [held EXCEPT ![c] = tasks[n]]
    /\ Goto(c, "request")
    /\ UNCHANGED <<mgrVars, entryVars, expired, allPc>>

StopTaskRequest(c) ==
    /\ pc[c] = "request"
    /\ RequestStop(held[c])
    /\ Goto(c, "awaitStop")
    /\ UNCHANGED <<mgrVars, name, startPc, failed, held, expired, allPc>>

StopTaskAwait(c) ==
    /\ pc[c] = "awaitStop"
    /\ StopDoneClosed(held[c])
    /\ Goto(c, "awaitDone")
    /\ UNCHANGED <<mgrVars, entryVars, held, expired, allPc>>

StopTaskReturn(c) ==
    /\ pc[c] = "awaitDone"
    /\ DoneClosed(held[c])
    /\ RemoveTaskIfSame(held[c])
    /\ Return(c)
    /\ UNCHANGED <<opsMu, started, startErr, entryVars, allPc>>

StopTaskExpired(c) ==
    /\ pc[c] \in {"awaitStop", "awaitDone"}
    /\ c \in expired
    /\ Return(c)
    /\ UNCHANGED <<mgrVars, entryVars, allPc>>

-----------------------------------------------------------------------------
(* StopAll.                                                                *)

StopAll(c) ==
    /\ pc[c] = "ready"
    /\ Goto(c, "allLock")
    /\ UNCHANGED <<mgrVars, entryVars, held, expired, allPc>>

(* With opsMu: the snapshot, and a goroutine for each task of it.          *)
StopAllSnapshot(c) ==
    /\ pc[c] = "allLock"
    /\ opsMu = NoOne
    /\ opsMu' = c
    /\ allPc' = [e \in Entries |-> IF \E n \in Names : tasks[n] = e
                                   THEN "request" ELSE "none"]
    /\ Goto(c, "all")
    /\ UNCHANGED <<tasks, started, startErr, entryVars, held, expired>>

GotoAll(e, label) == allPc' = [allPc EXCEPT ![e] = label]

StopAllRequest(e) ==
    /\ allPc[e] = "request"
    /\ RequestStop(e)
    /\ GotoAll(e, "awaitStop")
    /\ UNCHANGED <<mgrVars, name, startPc, failed, pc, held, expired>>

StopAllAwait(e) ==
    /\ \/ /\ allPc[e] = "awaitStop"
          /\ StopDoneClosed(e)
          /\ GotoAll(e, "awaitDone")
          /\ UNCHANGED tasks
       \/ /\ allPc[e] = "awaitDone"
          /\ DoneClosed(e)
          /\ RemoveTaskIfSame(e)
          /\ GotoAll(e, "stopped")
    /\ UNCHANGED <<opsMu, started, startErr, entryVars, pc, held, expired>>

StopAllExpired(e) ==
    /\ allPc[e] \in {"awaitStop", "awaitDone"}
    /\ opsMu \in expired
    /\ GotoAll(e, "ctxErr")
    /\ UNCHANGED <<mgrVars, entryVars, pc, held, expired>>

StopAllReturn(c) ==
    /\ pc[c] = "all"
    /\ \A e \in Entries : allPc[e] \in {"none", "stopped", "ctxErr"}
    /\ Return(c)
    /\ opsMu' = NoOne
    /\ allPc' = [e \in Entries |-> "none"]
    /\ UNCHANGED <<tasks, started, startErr, entryVars>>

-----------------------------------------------------------------------------
(* Wait: runWG.Wait with opsMu held.                                       *)

Wait(c) ==
    /\ pc[c] = "ready"
    /\ opsMu = NoOne
    /\ opsMu' = c
    /\ Goto(c, "wait")
    /\ UNCHANGED <<tasks, started, startErr, entryVars, held, expired, allPc>>

WaitReturn(c) ==
    /\ pc[c] = "wait"
    /\ RunWG = 0
    /\ opsMu' = NoOne
    /\ Return(c)
    /\ UNCHANGED <<tasks, started, startErr, entryVars, allPc>>

-----------------------------------------------------------------------------
(* The context of a caller in StopTask or StopAll expires.                 *)
Expire(c) ==
    /\ c \in Deadlines
    /\ pc[c] \in {"awaitStop", "awaitDone", "allLock", "all"}
    /\ c \notin expired
    /\ expired' = expired \cup {c}
    /\ UNCHANGED <<mgrVars, entryVars, pc, held, allPc>>

(* The steps a call in progress takes by itself.                           *)
Proceed(c) ==
    \/ StopTaskRequest(c) \/ StopTaskAwait(c) \/ StopTaskExpired(c) \/ StopTaskReturn(c)
    \/ StopAllSnapshot(c) \/ StopAllReturn(c) \/ WaitReturn(c)

ProceedAll(e) == StopAllRequest(e) \/ StopAllAwait(e) \/ StopAllExpired(e)

Next ==
    \/ \E c \in Callers, n \in Names : StartTask(c, n) \/ StopTask(c, n)
    \/ \E c \in Callers : StopAll(c) \/ Wait(c) \/ Proceed(c) \/ Expire(c)
    \/ \E e \in Entries : \/ LeaveStart(e) \/ Retire(e) \/ CloseDone(e)
                          \/ LeaveStop(e) \/ ProceedAll(e)

Spec == Init /\ [][Next]_vars

(* Goroutines are scheduled, and the tasks keep their contract: a Start    *)
(* returns once its context is cancelled, and a Stop returns (it is given  *)
(* the manager's stop timeout).  A sync.Mutex starves nobody: a StopAll    *)
(* that finds opsMu free again and again gets it.  Nobody need call or     *)
(* expire.                                                                 *)
Fairness ==
    /\ \A c \in Callers : WF_vars(Proceed(c)) /\ SF_vars(StopAllSnapshot(c))
    /\ \A e \in Entries : /\ WF_vars(Retire(e) \/ CloseDone(e))
                          /\ WF_vars(Cancelled(e) /\ LeaveStart(e))
                          /\ WF_vars(LeaveStop(e))
                          /\ WF_vars(ProceedAll(e))

FairSpec == Spec /\ Fairness

-----------------------------------------------------------------------------
(* Properties.                                                             *)

(* Every variable holds a value its Go counterpart can hold; a StopTask    *)
(* that is under way has an entry to stop.  Proved in TaskManagerProofs.   *)
TypeOK ==
    /\ opsMu \in Callers \cup {NoOne}
    /\ tasks \in [Names -> {0} \cup Entries]
    /\ started \in 0..MaxStarts
    /\ startErr \in SUBSET Entries
    /\ name \in [Entries -> Names]
    /\ startPc \in [Entries -> {"unborn", "running", "left", "retired", "done"}]
    /\ failed \in SUBSET Entries
    /\ stopPc \in [Entries -> {"none", "running", "done"}]
    /\ pc \in [Callers -> {"ready", "request", "awaitStop", "awaitDone",
                           "allLock", "all", "wait"}]
    /\ held \in [Callers -> {0} \cup Entries]
    /\ \A c \in Callers :
           held[c] # 0 <=> pc[c] \in {"request", "awaitStop", "awaitDone"}
    /\ expired \in SUBSET Callers
    /\ allPc \in [Entries -> {"none", "request", "awaitStop", "awaitDone", "stopped",
                              "ctxErr"}]

Live(e) == startPc[e] \in {"running", "left"}

(* The list names exactly the entries whose Start goroutine has not        *)
(* retired: a late StopTask or StopAll of an entry that is gone does not   *)
(* take its successor of the same name off the list, so two live tasks     *)
(* never share a name and none is out of reach.                            *)
ListedIsLive == \A e \in Entries : Live(e) <=> tasks[name[e]] = e

(* runWG is not raised while Wait waits on it, as sync.WaitGroup requires: *)
(* opsMu keeps StartTask out.                                              *)
NoAddWhileWaiting ==
    [][(\E c \in Callers : pc[c] = "wait" /\ pc'[c] = "wait") => RunWG' <= RunWG]_vars

(* A Start that failed has its error collected before its goroutine is     *)
(* over, so what Wait, and a StopAll that waited for it, returns names it. *)
CollectedWhenDone ==
    \A e \in Entries : DoneClosed(e) /\ e \in failed => e \in startErr

(* When StopAll returns without an error of its context, no task is listed *)
(* and no Start is executing: none slipped in after its snapshot.          *)
AllStopped ==
    [][\A c \in Callers :
           StopAllReturn(c) /\ (\A e \in Entries : allPc[e] # "ctxErr") =>
               \A n \in Names : tasks[n] = 0]_vars

(* A StopTask that found its task, and a StopAll that has taken its        *)
(* snapshot, returns: whoever requested the stop first, Stop and Start     *)
(* both end.  A StopAll that has yet to take opsMu returns as well, unless *)
(* a Wait is ever in its way: Wait keeps opsMu until every Start returned, *)
(* and it may take this StopAll to make one return.                        *)
StopAnswered ==
    \A c \in Callers :
        /\ pc[c] \in {"request", "all"} ~> pc[c] = "ready"
        /\ pc[c] = "allLock" ~> pc[c] = "ready" \/ []<>(\E d \in Callers : pc[d] = "wait")

=============================================================================
