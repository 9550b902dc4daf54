------------------------------ MODULE ChanPool ------------------------------
(* core/pool: ChanPool, a pool of objects kept in a buffered channel.  Any   *)
(* number of goroutines get, put and close.  A goroutine puts only what it   *)
(* got; which of the pooled objects a receive takes does not matter here, so *)
(* the channel is the set of objects in it.                                  *)
EXTENDS Integers, FiniteSets

CONSTANTS
    Callers,    \* goroutines that use the pool
    Objects,    \* the objects there may be; finite, which bounds a run
    Zero,       \* the zero value of T
    Size        \* the capacity NewChanPool was given

ASSUME SizeAssumption == Size \in Nat \ {0}
ASSUME ZeroAssumption == Zero \notin Objects
ASSUME ObjectsAssumption == IsFiniteSet(Objects)

VARIABLES
    conf,       \* which options were given
    ch,         \* the objects in the channel
    shut,       \* the channel is closed
    closed,     \* cp.closed
    made,       \* the objects made so far, by newFn or by a goroutine itself
    fin,        \* the objects closeFn was called with
    pc,         \* where each goroutine is
    held,       \* the objects each goroutine has
    arg         \* the object it is putting, or closing

vars == <<conf, ch, shut, closed, made, fin, pc, held, arg>>

Configs == [newFn : BOOLEAN, closeFn : BOOLEAN, allowCreate : BOOLEAN]

Init ==
    /\ conf \in Configs
    /\ ch = {} /\ shut = FALSE /\ closed = FALSE
    /\ made = {} /\ fin = {}
    /\ pc = [c \in Callers |-> "idle"]
    /\ held = [c \in Callers |-> {}]
    /\ arg = [c \in Callers |-> Zero]

Go(c, p) == pc' = [pc EXCEPT ![c] = p]
Return(c) == Go(c, "idle")

\* A receive takes an object, or the zero value once the channel is closed
\* and empty; otherwise there is nothing to receive.  What a call returns is
\* what comes into its caller's hands.
Take(c, o) ==
    /\ o \in ch
    /\ ch' = ch \ {o}
    /\ held' = [held EXCEPT ![c] = @ \cup {o}]
    /\ Return(c)

Receive(c) ==
    /\ \/ \E o \in ch : Take(c, o)
       \/ ch = {} /\ shut /\ Return(c) /\ UNCHANGED <<ch, held>>
    /\ UNCHANGED made

NothingToReceive == ch = {} /\ ~shut

Create(c) ==
    /\ \E o \in Objects \ made :
          /\ made' = made \cup {o}
          /\ held' = [held EXCEPT ![c] = @ \cup {o}]
          /\ Return(c)
    /\ UNCHANGED ch

\* A goroutine may have an object that did not come from the pool.
Bring(c) ==
    /\ pc[c] = "idle"
    /\ Create(c)
    /\ UNCHANGED <<conf, shut, closed, fin, arg>>

-----------------------------------------------------------------------------
Get(c) ==
    /\ pc[c] = "idle"
    /\ \/ Receive(c)
       \/ NothingToReceive /\ conf.newFn /\ Create(c)
       \/ NothingToReceive /\ ~conf.newFn /\ Return(c) /\ UNCHANGED <<ch, held, made>>
    /\ UNCHANGED <<conf, shut, closed, fin, arg>>

\* GetContext looks at closed once, then at the channel, then creates or waits.
GetContext(c) ==
    /\ pc[c] = "idle"
    /\ IF closed THEN Return(c) ELSE Go(c, "try")
    /\ UNCHANGED <<conf, ch, shut, closed, made, fin, held, arg>>

GetContextTry(c) ==
    /\ pc[c] = "try"
    /\ \/ Receive(c)
       \/ NothingToReceive /\ Go(c, "make") /\ UNCHANGED <<ch, held, made>>
    /\ UNCHANGED <<conf, shut, closed, fin, arg>>

GetContextMake(c) ==
    /\ pc[c] = "make"
    /\ IF conf.allowCreate /\ conf.newFn
       THEN Create(c)
       ELSE Go(c, "wait") /\ UNCHANGED <<ch, held, made>>
    /\ UNCHANGED <<conf, shut, closed, fin, arg>>

GetContextReceive(c) ==
    /\ pc[c] = "wait"
    /\ Receive(c)
    /\ UNCHANGED <<conf, shut, closed, fin, arg>>

GetContextExpires(c) ==
    /\ pc[c] = "wait"
    /\ Return(c)
    /\ UNCHANGED <<conf, ch, shut, closed, made, fin, held, arg>>

\* accept may refuse the object; reset makes it as good as new.
Put(c) ==
    /\ pc[c] = "idle"
    /\ \E o \in held[c] :
          \/ Return(c) /\ UNCHANGED arg
          \/ Go(c, "send") /\ arg' = [arg EXCEPT ![c] = o]
    /\ UNCHANGED <<conf, ch, shut, closed, made, fin, held>>

\* A send to a closed channel panics, even in a select with a default.
PutSend(c) ==
    /\ pc[c] = "send"
    /\ \/ /\ ~shut /\ Cardinality(ch) < Size
          /\ ch' = ch \cup {arg[c]}
          /\ held' = [held EXCEPT ![c] = @ \ {arg[c]}]
          /\ Return(c)
       \/ ~shut /\ Cardinality(ch) >= Size /\ Return(c) /\ UNCHANGED <<ch, held>>
       \/ shut /\ Go(c, "panicked") /\ UNCHANGED <<ch, held>>
    /\ arg' = [arg EXCEPT ![c] = Zero]
    /\ UNCHANGED <<conf, shut, closed, made, fin>>

-----------------------------------------------------------------------------
\* Variant: no CompareAndSwap.
BadClose(c) ==
    /\ pc[c] = "idle"
    /\ closed' = TRUE
    /\ Go(c, "shut")
    /\ UNCHANGED <<conf, ch, shut, made, fin, held, arg>>

Close(c) ==
    /\ pc[c] = "idle"
    /\ closed' = TRUE
    /\ Go(c, IF closed THEN "idle" ELSE "shut")
    /\ UNCHANGED <<conf, ch, shut, made, fin, held, arg>>

CloseChannel(c) ==
    /\ pc[c] = "shut"
    /\ shut' = TRUE
    /\ Go(c, IF conf.closeFn THEN "drain" ELSE "idle")
    /\ UNCHANGED <<conf, ch, closed, made, fin, held, arg>>

\* Variant: the objects are closed where they are.
BadCloseDrain(c) ==
    /\ pc[c] = "drain"
    /\ \/ \E o \in ch \ fin : arg' = [arg EXCEPT ![c] = o] /\ Go(c, "closeFn")
       \/ ch \subseteq fin /\ Return(c) /\ UNCHANGED arg
    /\ UNCHANGED <<conf, ch, shut, closed, made, fin, held>>

\* for obj := range cp.ch ends when the channel is empty.
CloseDrain(c) ==
    /\ pc[c] = "drain"
    /\ \/ \E o \in ch : ch' = ch \ {o} /\ arg' = [arg EXCEPT ![c] = o] /\ Go(c, "closeFn")
       \/ ch = {} /\ Return(c) /\ UNCHANGED <<ch, arg>>
    /\ UNCHANGED <<conf, shut, closed, made, fin, held>>

CloseFn(c) ==
    /\ pc[c] = "closeFn"
    /\ fin' = fin \cup {arg[c]}
    /\ arg' = [arg EXCEPT ![c] = Zero]
    /\ Go(c, "drain")
    /\ UNCHANGED <<conf, ch, shut, closed, made, held>>

Next ==
    \E c \in Callers :
        \/ Bring(c) \/ Get(c)
        \/ GetContext(c) \/ GetContextTry(c) \/ GetContextMake(c)
        \/ GetContextReceive(c) \/ GetContextExpires(c)
        \/ Put(c) \/ PutSend(c)
        \/ Close(c) \/ CloseChannel(c) \/ CloseDrain(c) \/ CloseFn(c)

Spec == Init /\ [][Next]_vars

-----------------------------------------------------------------------------
\* The objects in c's hands: those it was given and the one it is closing.
Hands(c) == held[c] \cup (IF pc[c] = "closeFn" THEN {arg[c]} ELSE {})

\* c is past the CompareAndSwap of Close.
Closing(c) == pc[c] \in {"shut", "drain", "closeFn"}

Pcs == {"idle", "try", "make", "wait", "send", "panicked", "shut", "drain", "closeFn"}

TypeOK ==
    /\ conf \in Configs
    /\ ch \subseteq made /\ fin \subseteq made /\ made \subseteq Objects
    /\ shut \in BOOLEAN /\ closed \in BOOLEAN
    /\ pc \in [Callers -> Pcs]
    /\ held \in [Callers -> SUBSET Objects]
    /\ arg \in [Callers -> Objects \cup {Zero}]

\* An object is in one place: in the channel, with one goroutine or closed.
\* So no two goroutines use it at once, closeFn is called on it at most once
\* and never while it is in use, whatever gets, puts and a Close overlap.
OnePlace ==
    /\ ch \cap fin = {}
    /\ \A c \in Callers : Hands(c) \cap (ch \cup fin) = {}
    /\ \A c, d \in Callers : c # d => Hands(c) \cap Hands(d) = {}

\* Close runs once: when it has returned, and closeFn was given, the channel
\* is empty and stays empty.
DrainedOnce ==
    /\ \A c, d \in Callers : Closing(c) /\ Closing(d) => c = d
    /\ shut /\ conf.closeFn /\ (\A c \in Callers : ~Closing(c)) => ch = {}

=============================================================================
