-------------------------- MODULE TaskManagerProofs --------------------------
(* The safety of TaskManager for any names, any number of tasks and any      *)
(* number of callers.                                                        *)
EXTENDS TaskManager, FiniteSetTheorems, TLAPS

-----------------------------------------------------------------------------
(* The inductive invariant.                                                  *)

\* Entries are born in the order of their numbers.
Born == \A e \in Entries : startPc[e] = "unborn" <=> e > started

\* What is listed under a name is a live entry of that name.
Listed == \A n \in Names : tasks[n] # 0 => Live(tasks[n]) /\ name[tasks[n]] = n

\* A live entry is listed.
LiveListed == \A e \in Entries : Live(e) => tasks[name[e]] = e

\* The error of a Start was collected when its entry left the list.
Collected ==
    \A e \in Entries : startPc[e] \in {"retired", "done"} /\ e \in failed => e \in startErr

EntryInv == Born /\ Listed /\ LiveListed /\ Collected

\* Who waits, or stops all, holds opsMu.
Holder == \A c \in Callers : pc[c] \in {"all", "wait"} => opsMu = c

\* What is listed during a StopAll is in its snapshot.
Snapshot ==
    \A c \in Callers : pc[c] = "all" =>
        \A n \in Names : tasks[n] # 0 => allPc[tasks[n]] # "none"

\* A StopAll is through with an entry once the entry is done.
StoppedDone == \A e \in Entries : allPc[e] = "stopped" => DoneClosed(e)

CallInv == Holder /\ Snapshot /\ StoppedDone

IInv == TypeOK /\ EntryInv /\ CallInv

-----------------------------------------------------------------------------
\* Numbers of entries, which are positive.
LEMMA EntryNumbers ==
    /\ Entries \subseteq Nat \ {0}
    /\ \A s \in 0..MaxStarts : s < MaxStarts => s + 1 \in Entries /\ s + 1 \in 0..MaxStarts
    /\ \A s \in 0..MaxStarts, e \in Entries : e > s + 1 <=> e > s /\ e # s + 1
    BY MaxStartsAssumption DEF Entries

\* removeTaskIfSame of an entry that is done finds nothing to remove.
LEMMA RemoveDone ==
    ASSUME TypeOK, Listed, NEW e \in Entries, DoneClosed(e), RemoveTaskIfSame(e)
    PROVE  tasks' = tasks
<1>1. name[e] \in Names /\ e # 0
    BY EntryNumbers DEF TypeOK
<1>2. ~Live(e)
    BY DEF Live, DoneClosed
<1>3. tasks[name[e]] # e
    BY <1>1, <1>2 DEF Listed
<1> QED
    BY <1>3 DEF RemoveTaskIfSame

\* The steps that touch neither the list nor the goroutine of a Start.
EntriesKept == UNCHANGED <<tasks, started, startErr, name, startPc, failed>>

\* Every step is one of five kinds for the entries.
LEMMA Kinds ==
    ASSUME TypeOK, Listed, [Next]_vars
    PROVE  \/ \E c \in Callers, n \in Names : StartTask(c, n)
           \/ \E e \in Entries : LeaveStart(e)
           \/ \E e \in Entries : Retire(e)
           \/ \E e \in Entries : CloseDone(e)
           \/ EntriesKept
<1>1. CASE UNCHANGED vars
    BY <1>1 DEF vars, mgrVars, entryVars, EntriesKept
<1>2. ASSUME NEW c \in Callers, NEW n \in Names, StopTask(c, n) PROVE EntriesKept
    BY <1>2 DEF StopTask, mgrVars, entryVars, EntriesKept
<1>3. ASSUME NEW c \in Callers, StopAll(c) \/ Wait(c) \/ Expire(c) PROVE EntriesKept
    BY <1>3 DEF StopAll, Wait, Expire, mgrVars, entryVars, EntriesKept
<1>4. ASSUME NEW c \in Callers, Proceed(c) PROVE EntriesKept
    <2>1. CASE StopTaskReturn(c)
        <3>1. held[c] \in Entries /\ DoneClosed(held[c]) /\ RemoveTaskIfSame(held[c])
            BY <2>1 DEF StopTaskReturn, TypeOK
        <3>2. tasks' = tasks
            BY <3>1, RemoveDone
        <3> QED
            BY <2>1, <3>2 DEF StopTaskReturn, entryVars, EntriesKept
    <2>2. CASE ~StopTaskReturn(c)
        BY <1>4, <2>2 DEF Proceed, StopTaskRequest, StopTaskAwait, StopTaskExpired,
           StopAllSnapshot, StopAllReturn, WaitReturn, mgrVars, entryVars, EntriesKept
    <2> QED
        BY <2>1, <2>2
<1>5. ASSUME NEW e \in Entries, LeaveStop(e) \/ ProceedAll(e) PROVE EntriesKept
    <2>1. CASE StopAllAwait(e)
        <3>1. tasks' = tasks
            BY <2>1, RemoveDone DEF StopAllAwait
        <3> QED
            BY <2>1, <3>1 DEF StopAllAwait, entryVars, EntriesKept
    <2>2. CASE LeaveStop(e) \/ StopAllRequest(e) \/ StopAllExpired(e)
        BY <2>2 DEF LeaveStop, StopAllRequest, StopAllExpired, mgrVars, entryVars, EntriesKept
    <2> QED
        BY <1>5, <2>1, <2>2 DEF ProceedAll
<1> QED
    BY <1>1, <1>2, <1>3, <1>4, <1>5 DEF Next

-----------------------------------------------------------------------------
(* Type correctness.                                                         *)

LEMMA InitType == Init => TypeOK
    BY NamesAssumption, MaxStartsAssumption DEF Init, TypeOK, Entries

\* The actions of the entries keep the types.
LEMMA EntryStepType ==
    ASSUME TypeOK,
           \/ \E c \in Callers, n \in Names : StartTask(c, n)
           \/ \E e \in Entries : LeaveStart(e) \/ Retire(e) \/ CloseDone(e) \/ LeaveStop(e)
    PROVE  TypeOK'
<1> USE DEF mgrVars, entryVars, callVars
<1>1. ASSUME NEW c \in Callers, NEW n \in Names, StartTask(c, n) PROVE TypeOK'
    <2>1. started' \in Entries /\ started' \in 0..MaxStarts
        BY <1>1, EntryNumbers DEF StartTask, TypeOK
    <2> QED
        BY <1>1, <2>1 DEF StartTask, TypeOK
<1>2. ASSUME NEW e \in Entries, LeaveStart(e) PROVE TypeOK'
    BY <1>2 DEF LeaveStart, TypeOK
<1>3. ASSUME NEW e \in Entries, Retire(e) PROVE TypeOK'
    BY <1>3 DEF Retire, RemoveTaskIfSame, TypeOK
<1>4. ASSUME NEW e \in Entries, CloseDone(e) PROVE TypeOK'
    BY <1>4 DEF CloseDone, TypeOK
<1>5. ASSUME NEW e \in Entries, LeaveStop(e) PROVE TypeOK'
    BY <1>5 DEF LeaveStop, TypeOK
<1> QED
    BY <1>1, <1>2, <1>3, <1>4, <1>5

\* So do those of StopTask.
LEMMA StopTaskType ==
    ASSUME TypeOK, NEW c \in Callers,
           \/ \E n \in Names : StopTask(c, n)
           \/ StopTaskRequest(c) \/ StopTaskAwait(c) \/ StopTaskReturn(c) \/ StopTaskExpired(c)
    PROVE  TypeOK'
<1> USE DEF mgrVars, entryVars, Goto, Return
<1>1. ASSUME NEW n \in Names, StopTask(c, n) PROVE TypeOK'
    BY <1>1 DEF StopTask, TypeOK
<1>2. ASSUME StopTaskRequest(c) PROVE TypeOK'
    BY <1>2 DEF StopTaskRequest, RequestStop, TypeOK
<1>3. ASSUME StopTaskAwait(c) PROVE TypeOK'
    BY <1>3 DEF StopTaskAwait, TypeOK
<1>4. ASSUME StopTaskReturn(c) PROVE TypeOK'
    <2>1. tasks' \in [Names -> {0} \cup Entries]
        BY <1>4 DEF StopTaskReturn, RemoveTaskIfSame, TypeOK
    <2>2. pc' = [pc EXCEPT ![c] = "ready"] /\ held' = [held EXCEPT ![c] = 0] /\ expired' \subseteq expired
        BY <1>4 DEF StopTaskReturn
    <2> QED
        BY <1>4, <2>1, <2>2, EntryNumbers DEF StopTaskReturn, TypeOK
<1>5. ASSUME StopTaskExpired(c) PROVE TypeOK'
    BY <1>5, EntryNumbers DEF StopTaskExpired, TypeOK
<1> QED
    BY <1>1, <1>2, <1>3, <1>4, <1>5

\* And those of StopAll and Wait.
LEMMA AllType ==
    ASSUME TypeOK,
           \/ \E c \in Callers : \/ StopAll(c) \/ StopAllSnapshot(c) \/ StopAllReturn(c)
                                 \/ Wait(c) \/ WaitReturn(c) \/ Expire(c)
           \/ \E e \in Entries : ProceedAll(e)
    PROVE  TypeOK'
<1> USE DEF mgrVars, entryVars, Goto, Return
<1>1. ASSUME NEW c \in Callers, StopAll(c) \/ Wait(c) PROVE TypeOK'
    BY <1>1 DEF StopAll, Wait, TypeOK
<1>2. ASSUME NEW c \in Callers, StopAllSnapshot(c) PROVE TypeOK'
    BY <1>2 DEF StopAllSnapshot, TypeOK
<1>3. ASSUME NEW c \in Callers, StopAllReturn(c) PROVE TypeOK'
    BY <1>3 DEF StopAllReturn, TypeOK
<1>4. ASSUME NEW c \in Callers, WaitReturn(c) PROVE TypeOK'
    BY <1>4 DEF WaitReturn, TypeOK
<1>5. ASSUME NEW c \in Callers, Expire(c) PROVE TypeOK'
    BY <1>5 DEF Expire, TypeOK
<1>6. ASSUME NEW e \in Entries, StopAllRequest(e) PROVE TypeOK'
    BY <1>6 DEF StopAllRequest, RequestStop, GotoAll, TypeOK
<1>7. ASSUME NEW e \in Entries, StopAllAwait(e) PROVE TypeOK'
    BY <1>7 DEF StopAllAwait, RemoveTaskIfSame, GotoAll, TypeOK
<1>8. ASSUME NEW e \in Entries, StopAllExpired(e) PROVE TypeOK'
    BY <1>8 DEF StopAllExpired, GotoAll, TypeOK
<1> QED
    BY <1>1, <1>2, <1>3, <1>4, <1>5, <1>6, <1>7, <1>8 DEF ProceedAll

LEMMA NextType == TypeOK /\ [Next]_vars => TypeOK'
<1> SUFFICES ASSUME TypeOK, [Next]_vars PROVE TypeOK'
    OBVIOUS
<1>1. CASE UNCHANGED vars
    BY <1>1 DEF vars, mgrVars, entryVars, callVars, TypeOK
<1>2. CASE Next
    BY <1>2, EntryStepType, StopTaskType, AllType DEF Next, Proceed
<1> QED
    BY <1>1, <1>2

-----------------------------------------------------------------------------
(* The entries and the list.                                                 *)

LEMMA InitEntry == Init => EntryInv
    BY EntryNumbers DEF Init, EntryInv, Born, Listed, LiveListed, Collected, Live

LEMMA NextEntry == TypeOK /\ EntryInv /\ [Next]_vars => EntryInv'
<1> SUFFICES ASSUME TypeOK, EntryInv, [Next]_vars PROVE EntryInv'
    OBVIOUS
<1> USE DEF EntryInv
<1>1. ASSUME NEW c \in Callers, NEW n \in Names, StartTask(c, n) PROVE EntryInv'
    <2>1. started' \in Entries /\ started' # 0 /\ startPc[started'] = "unborn"
        BY <1>1, EntryNumbers DEF StartTask, TypeOK, Born
    <2>2. tasks[n] = 0
        BY <1>1 DEF StartTask, Listed, Live, DoneClosed
    <2>3. startPc'[started'] = "running" /\ name'[started'] = n
        BY <1>1, <2>1 DEF StartTask, TypeOK
    <2>4. \A e \in Entries : e # started' => startPc'[e] = startPc[e] /\ name'[e] = name[e]
        BY <1>1, <2>1 DEF StartTask, TypeOK
    <2>5. tasks'[n] = started' /\ \A m \in Names : m # n => tasks'[m] = tasks[m] /\ tasks[m] # started'
        BY <1>1, <2>1 DEF StartTask, TypeOK, Listed, Live
    <2>6. Born'
        BY <1>1, <2>1, <2>3, <2>4, EntryNumbers DEF StartTask, TypeOK, Born
    <2>7. Listed'
        BY <2>1, <2>3, <2>4, <2>5 DEF TypeOK, Listed, Live
    <2>8. LiveListed'
        BY <2>1, <2>2, <2>3, <2>4, <2>5, EntryNumbers DEF TypeOK, LiveListed, Live
    <2>9. Collected'
        BY <1>1, <2>3, <2>4 DEF StartTask, Collected
    <2> QED
        BY <2>6, <2>7, <2>8, <2>9
<1>2. ASSUME NEW e \in Entries, LeaveStart(e) PROVE EntryInv'
    <2>1. startPc[e] = "running" /\ startPc'[e] = "left" /\ \A d \in Entries : d # e => startPc'[d] = startPc[d]
        BY <1>2 DEF LeaveStart, TypeOK
    <2>2. UNCHANGED <<tasks, name, started, startErr>> /\ \A d \in Entries : d # e /\ d \in failed' => d \in failed
        BY <1>2 DEF LeaveStart, mgrVars
    <2>3. Born' /\ Collected'
        BY <2>1, <2>2 DEF Born, Collected
    <2>4. \A d \in Entries : Live(d)' <=> Live(d)
        BY <2>1 DEF Live
    <2>5. Listed' /\ LiveListed'
        BY <2>2, <2>4 DEF TypeOK, Listed, LiveListed
    <2> QED
        BY <2>3, <2>5
<1>3. ASSUME NEW e \in Entries, Retire(e) PROVE EntryInv'
    <2>1. startPc[e] = "left" /\ startPc'[e] = "retired" /\ \A d \in Entries : d # e => startPc'[d] = startPc[d]
        BY <1>3 DEF Retire, TypeOK
    <2>2. UNCHANGED <<name, started, failed>> /\ startErr' = startErr \cup (failed \cap {e})
        BY <1>3 DEF Retire
    <2>3. Born' /\ Collected'
        BY <2>1, <2>2 DEF Born, Collected
    <2>4. ~Live(e)' /\ \A d \in Entries : d # e => (Live(d)' <=> Live(d))
        BY <2>1 DEF Live
    <2>5. name[e] \in Names /\ e # 0 /\ tasks[name[e]] = e
        BY <2>1, EntryNumbers DEF TypeOK, LiveListed, Live
    <2>6. tasks'[name[e]] = 0 /\ \A n \in Names : n # name[e] => tasks'[n] = tasks[n]
        BY <1>3, <2>5 DEF Retire, RemoveTaskIfSame, TypeOK
    <2>7. Listed'
        BY <2>2, <2>4, <2>5, <2>6 DEF TypeOK, Listed
    <2>8. LiveListed'
        BY <2>2, <2>4, <2>5, <2>6 DEF TypeOK, LiveListed
    <2> QED
        BY <2>3, <2>7, <2>8
<1>4. ASSUME NEW e \in Entries, CloseDone(e) PROVE EntryInv'
    <2>1. startPc[e] = "retired" /\ startPc'[e] = "done" /\ \A d \in Entries : d # e => startPc'[d] = startPc[d]
        BY <1>4 DEF CloseDone, TypeOK
    <2>2. UNCHANGED <<tasks, name, started, startErr, failed>>
        BY <1>4 DEF CloseDone, mgrVars
    <2>3. Born' /\ Collected'
        BY <2>1, <2>2 DEF Born, Collected
    <2>4. \A d \in Entries : Live(d)' <=> Live(d)
        BY <2>1 DEF Live
    <2>5. Listed' /\ LiveListed'
        BY <2>2, <2>4 DEF TypeOK, Listed, LiveListed
    <2> QED
        BY <2>3, <2>5
<1>5. CASE EntriesKept
    BY <1>5 DEF EntriesKept, Born, Listed, LiveListed, Collected, Live
<1> QED
    BY <1>1, <1>2, <1>3, <1>4, <1>5, Kinds

-----------------------------------------------------------------------------
(* The calls.                                                                *)

LEMMA InitCall == Init => CallInv
    BY DEF Init, CallInv, Holder, Snapshot, StoppedDone

\* Whoever calls, opsMu stays with who holds it.
LEMMA NextHolder == TypeOK /\ Holder /\ [Next]_vars => Holder'
<1> SUFFICES ASSUME TypeOK, Holder, [Next]_vars PROVE Holder'
    OBVIOUS
<1> USE DEF Holder, mgrVars, entryVars, callVars, Goto, Return
<1>1. ASSUME NEW c \in Callers,
             \/ \E n \in Names : StopTask(c, n)
             \/ StopTaskRequest(c) \/ StopTaskAwait(c) \/ StopTaskReturn(c) \/ StopTaskExpired(c)
             \/ StopAll(c)
      PROVE  Holder'
    BY <1>1 DEF TypeOK, StopTask, StopTaskRequest, StopTaskAwait, StopTaskReturn,
       StopTaskExpired, StopAll
<1>2. ASSUME NEW c \in Callers, StopAllSnapshot(c) \/ Wait(c) PROVE Holder'
    BY <1>2, NoOneAssumption DEF TypeOK, StopAllSnapshot, Wait
<1>3. ASSUME NEW c \in Callers, StopAllReturn(c) \/ WaitReturn(c) PROVE Holder'
    BY <1>3 DEF TypeOK, StopAllReturn, WaitReturn
<1>4. ASSUME UNCHANGED <<opsMu, pc>> PROVE Holder'
    BY <1>4
<1>5. \/ UNCHANGED <<opsMu, pc>>
      \/ \E c \in Callers :
            \/ \E n \in Names : StopTask(c, n)
            \/ StopTaskRequest(c) \/ StopTaskAwait(c) \/ StopTaskReturn(c) \/ StopTaskExpired(c)
            \/ StopAll(c) \/ StopAllSnapshot(c) \/ Wait(c) \/ StopAllReturn(c) \/ WaitReturn(c)
    <2>1. \A c \in Callers : \A n \in Names : StartTask(c, n) => UNCHANGED <<opsMu, pc>>
        BY DEF StartTask
    <2>2. \A c \in Callers : Expire(c) => UNCHANGED <<opsMu, pc>>
        BY DEF Expire
    <2>3. \A e \in Entries : LeaveStart(e) \/ Retire(e) \/ CloseDone(e) \/ LeaveStop(e)
                                => UNCHANGED <<opsMu, pc>>
        BY DEF LeaveStart, Retire, CloseDone, LeaveStop
    <2>4. \A e \in Entries : ProceedAll(e) => UNCHANGED <<opsMu, pc>>
        BY DEF ProceedAll, StopAllRequest, StopAllAwait, StopAllExpired
    <2>5. UNCHANGED vars => UNCHANGED <<opsMu, pc>>
        BY DEF vars
    <2> QED
        BY <2>1, <2>2, <2>3, <2>4, <2>5 DEF Next, Proceed
<1> QED
    BY <1>1, <1>2, <1>3, <1>4, <1>5

\* An entry leaves the list or stays, but for StartTask, and stays done.
LEMMA Shrinks ==
    ASSUME TypeOK, EntryInv, Holder, [Next]_vars
    PROVE  /\ \A e \in Entries : DoneClosed(e) => DoneClosed(e)'
           /\ (\E c \in Callers : pc[c] \in {"all", "wait"}) =>
                  /\ \A n \in Names : tasks'[n] \in {0, tasks[n]}
                  /\ \A e \in Entries : startPc[e] \in {"unborn", "done"} => startPc'[e] = startPc[e]
<1> USE DEF EntryInv
<1>1. ASSUME NEW c \in Callers, NEW n \in Names, StartTask(c, n)
      PROVE  /\ \A e \in Entries : DoneClosed(e) => DoneClosed(e)'
             /\ \A d \in Callers : pc[d] \notin {"all", "wait"}
    <2>1. started' \in Entries /\ startPc[started'] = "unborn"
        BY <1>1, EntryNumbers DEF StartTask, TypeOK, Born
    <2>2. \A e \in Entries : e # started' => startPc'[e] = startPc[e]
        BY <1>1 DEF StartTask, TypeOK
    <2>3. \A d \in Callers : pc[d] \notin {"all", "wait"}
        BY <1>1, NoOneAssumption DEF StartTask, Holder
    <2> QED
        BY <2>1, <2>2, <2>3 DEF DoneClosed
<1>2. ASSUME NEW e \in Entries, LeaveStart(e) \/ CloseDone(e)
      PROVE  /\ \A d \in Entries : startPc[d] \in {"unborn", "done"} => startPc'[d] = startPc[d]
             /\ tasks' = tasks
    BY <1>2 DEF LeaveStart, CloseDone, mgrVars, TypeOK
<1>3. ASSUME NEW e \in Entries, Retire(e)
      PROVE  /\ \A d \in Entries : startPc[d] \in {"unborn", "done"} => startPc'[d] = startPc[d]
             /\ \A n \in Names : tasks'[n] \in {0, tasks[n]}
    BY <1>3 DEF Retire, RemoveTaskIfSame, TypeOK
<1>4. CASE EntriesKept
    BY <1>4 DEF EntriesKept, DoneClosed
<1> QED
    BY <1>1, <1>2, <1>3, <1>4, Kinds DEF DoneClosed

\* What a step does to the places of a StopAll's goroutines.
LEMMA AllPlaces ==
    ASSUME TypeOK, [Next]_vars
    PROVE  \/ \E c \in Callers : StopAllSnapshot(c)
           \/ \E c \in Callers : StopAllReturn(c)
           \/ \E e \in Entries : ProceedAll(e)
           \/ /\ allPc' = allPc
              /\ \A c \in Callers : pc'[c] = "all" => pc[c] = "all"
<1> DEFINE Rest == allPc' = allPc /\ \A c \in Callers : pc'[c] = "all" => pc[c] = "all"
<1> USE DEF mgrVars, entryVars, callVars, Goto, Return
<1>1. ASSUME NEW c \in Callers,
             \/ \E n \in Names : StopTask(c, n)
             \/ StopTaskRequest(c) \/ StopTaskAwait(c) \/ StopTaskReturn(c) \/ StopTaskExpired(c)
      PROVE  Rest
    BY <1>1 DEF TypeOK, StopTask, StopTaskRequest, StopTaskAwait, StopTaskReturn, StopTaskExpired
<1>2. ASSUME NEW c \in Callers,
             \/ \E n \in Names : StartTask(c, n)
             \/ StopAll(c) \/ Wait(c) \/ WaitReturn(c) \/ Expire(c)
      PROVE  Rest
    BY <1>2 DEF TypeOK, StartTask, StopAll, Wait, WaitReturn, Expire
<1>3. ASSUME NEW e \in Entries, LeaveStart(e) \/ Retire(e) \/ CloseDone(e) \/ LeaveStop(e)
      PROVE  Rest
    BY <1>3 DEF LeaveStart, Retire, CloseDone, LeaveStop
<1>4. ASSUME UNCHANGED vars PROVE Rest
    BY <1>4 DEF vars
<1> HIDE DEF Rest, mgrVars, entryVars, callVars, Goto, Return
<1>5. \/ \E c \in Callers : StopAllSnapshot(c)
      \/ \E c \in Callers : StopAllReturn(c)
      \/ \E e \in Entries : ProceedAll(e)
      \/ Rest
    <2>1. CASE UNCHANGED vars
        BY <1>4, <2>1
    <2>2. ASSUME NEW c \in Callers, NEW n \in Names, StartTask(c, n) \/ StopTask(c, n) PROVE Rest
        BY <1>1, <1>2, <2>2
    <2>3. ASSUME NEW c \in Callers, StopAll(c) \/ Wait(c) \/ Expire(c) PROVE Rest
        BY <1>2, <2>3
    <2>4. ASSUME NEW c \in Callers, Proceed(c)
          PROVE  StopAllSnapshot(c) \/ StopAllReturn(c) \/ Rest
        BY <1>1, <1>2, <2>4 DEF Proceed
    <2> QED
        BY <1>3, <2>1, <2>2, <2>3, <2>4 DEF Next
<1> QED
    BY <1>5 DEF Rest

LEMMA NextCall == IInv /\ [Next]_vars => CallInv'
<1> SUFFICES ASSUME IInv, [Next]_vars PROVE CallInv'
    OBVIOUS
<1> USE DEF IInv, CallInv
<1>1. Holder'
    BY NextHolder
<1>2. \A e \in Entries : DoneClosed(e) => DoneClosed(e)'
    BY Shrinks
<1>3. \A c \in Callers : pc[c] = "all" => \A n \in Names : tasks'[n] \in {0, tasks[n]}
    BY Shrinks
<1>4. ASSUME NEW c \in Callers, StopAllSnapshot(c) PROVE Snapshot' /\ StoppedDone'
    <2>1. \A e \in Entries : allPc'[e] \in {"request", "none"}
        BY <1>4 DEF StopAllSnapshot
    <2>2. tasks' = tasks /\ \A n \in Names : tasks[n] # 0 => allPc'[tasks[n]] = "request"
        BY <1>4 DEF StopAllSnapshot, TypeOK
    <2> QED
        BY <2>1, <2>2 DEF Snapshot, StoppedDone
<1>5. ASSUME NEW c \in Callers, StopAllReturn(c) PROVE Snapshot' /\ StoppedDone'
    <2>1. \A d \in Callers : pc'[d] # "all"
        BY <1>5 DEF StopAllReturn, Return, Goto, Holder, TypeOK
    <2>2. \A e \in Entries : allPc'[e] = "none"
        BY <1>5 DEF StopAllReturn
    <2> QED
        BY <2>1, <2>2 DEF Snapshot, StoppedDone
<1>6. ASSUME NEW e \in Entries, ProceedAll(e) PROVE Snapshot' /\ StoppedDone'
    <2>1. pc' = pc
        BY <1>6 DEF ProceedAll, StopAllRequest, StopAllAwait, StopAllExpired
    <2>2. /\ allPc'[e] # "none"
          /\ allPc'[e] = "stopped" => DoneClosed(e)
          /\ \A d \in Entries : d # e => allPc'[d] = allPc[d]
        BY <1>6 DEF ProceedAll, StopAllRequest, StopAllAwait, StopAllExpired, GotoAll, TypeOK
    <2>3. Snapshot'
        BY <1>3, <2>1, <2>2 DEF Snapshot, TypeOK
    <2>4. StoppedDone'
        BY <1>2, <2>2 DEF StoppedDone
    <2> QED
        BY <2>3, <2>4
<1>7. ASSUME allPc' = allPc, \A c \in Callers : pc'[c] = "all" => pc[c] = "all"
      PROVE  Snapshot' /\ StoppedDone'
    BY <1>2, <1>3, <1>7 DEF Snapshot, StoppedDone
<1> QED
    BY <1>1, <1>4, <1>5, <1>6, <1>7, AllPlaces

LEMMA SpecIInv == Spec => []IInv
<1>1. Init => IInv
    BY InitType, InitEntry, InitCall DEF IInv
<1>2. IInv /\ [Next]_vars => IInv'
    BY NextType, NextEntry, NextCall DEF IInv
<1> QED
    BY <1>1, <1>2, PTL DEF Spec

-----------------------------------------------------------------------------
\* Every variable always has its type, and a StopTask an entry to stop.
THEOREM TypeCorrect == Spec => []TypeOK
<1>1. IInv => TypeOK
    BY DEF IInv
<1> QED
    BY <1>1, SpecIInv, PTL

\* The list names the live entries, each under its own name and no other:
\* late removals never hit a successor, for any number of tasks and callers.
THEOREM ListIsLive == Spec => []ListedIsLive
<1>1. IInv => ListedIsLive
    BY EntryNumbers DEF IInv, TypeOK, EntryInv, Listed, LiveListed, ListedIsLive
<1> QED
    BY <1>1, SpecIInv, PTL

\* The error of a Start is collected before its goroutine is over.
THEOREM ErrorsCollected == Spec => []CollectedWhenDone
<1>1. IInv => CollectedWhenDone
    BY DEF IInv, EntryInv, Collected, CollectedWhenDone, DoneClosed
<1> QED
    BY <1>1, SpecIInv, PTL

\* runWG does not grow under a Wait: no StartTask is past opsMu then, and
\* whatever else goes on only ends goroutines.
THEOREM WaitGroupUse == Spec => NoAddWhileWaiting
<1> DEFINE Waits == (\E c \in Callers : pc[c] = "wait" /\ pc'[c] = "wait") => RunWG' <= RunWG
<1>1. ASSUME IInv, [Next]_vars PROVE Waits
    <2> SUFFICES ASSUME NEW c \in Callers, pc[c] = "wait" PROVE RunWG' <= RunWG
        OBVIOUS
    <2> DEFINE Open == {e \in Entries : startPc[e] \notin {"unborn", "done"}}
    <2>1. \A e \in Entries : startPc[e] \in {"unborn", "done"} => startPc'[e] = startPc[e]
        BY <1>1, Shrinks DEF IInv, CallInv
    <2>2. Open' \subseteq Open
        BY <2>1
    <2>3. IsFiniteSet(Entries) /\ Open \subseteq Entries
        BY FS_Interval, MaxStartsAssumption DEF Entries
    <2>4. IsFiniteSet(Open)
        BY <2>3, FS_Subset
    <2>5. Cardinality(Open') <= Cardinality(Open)
        BY <2>2, <2>4, FS_Subset
    <2> QED
        BY <2>5 DEF RunWG
<1> QED
    BY <1>1, SpecIInv, PTL DEF Spec, NoAddWhileWaiting

\* A StopAll that returns without an error of its context leaves no task
\* listed: all it found are done, and opsMu kept others from being added.
THEOREM StopAllComplete == Spec => AllStopped
<1> DEFINE Leaves == \A c \in Callers :
                         StopAllReturn(c) /\ (\A e \in Entries : allPc[e] # "ctxErr") =>
                             \A n \in Names : tasks[n] = 0
<1>1. ASSUME IInv PROVE Leaves
    <2> SUFFICES ASSUME NEW c \in Callers, StopAllReturn(c), \A e \in Entries : allPc[e] # "ctxErr",
                        NEW n \in Names, tasks[n] # 0
                 PROVE  FALSE
        OBVIOUS
    <2>1. tasks[n] \in Entries /\ Live(tasks[n])
        BY <1>1 DEF IInv, TypeOK, EntryInv, Listed
    <2>2. allPc[tasks[n]] = "stopped"
        BY <1>1, <2>1 DEF IInv, CallInv, Snapshot, StopAllReturn
    <2> QED
        BY <1>1, <2>1, <2>2 DEF IInv, CallInv, StoppedDone, DoneClosed, Live
<1> QED
    BY <1>1, SpecIInv, PTL DEF AllStopped

=============================================================================
