--------------------------- MODULE ChanPoolProofs ---------------------------
(* The safety of ChanPool for any number of callers, any finite set of       *)
(* objects and any capacity.                                                 *)
EXTENDS ChanPool, TLAPS

\* What a goroutine has was made; what it is putting, it has, and what it is
\* closing it took from the channel itself.
HandsMade ==
    /\ \A c \in Callers : Hands(c) \subseteq made
    /\ \A c \in Callers : pc[c] = "send" => arg[c] \in held[c]
    /\ \A c \in Callers : pc[c] = "closeFn" => arg[c] \notin held[c]

\* Where Close stands: closed, then the channel is closed, then it is drained.
CloseOrder ==
    /\ shut => closed
    /\ \A c \in Callers : Closing(c) => closed
    /\ \A c \in Callers : pc[c] = "shut" => ~shut
    /\ \A c \in Callers : pc[c] \in {"drain", "closeFn"} => shut /\ conf.closeFn

\* The inductive invariant.
IInv == TypeOK /\ HandsMade /\ CloseOrder /\ OnePlace /\ DrainedOnce

\* Places at which a goroutine is neither putting nor closing.
Quiet == {"idle", "try", "make", "wait", "panicked"}

-----------------------------------------------------------------------------
\* A pool that nobody has used yet: the channel is empty, nothing was made.
LEMMA InitIInv == Init => IInv
<1> SUFFICES ASSUME Init PROVE IInv
    OBVIOUS
<1>1. TypeOK
    BY DEF Init, TypeOK, Pcs
<1>2. \A c \in Callers : Hands(c) = {} /\ ~Closing(c)
    BY DEF Init, Hands, Closing
<1>3. HandsMade /\ CloseOrder
    BY <1>2 DEF Init, HandsMade, CloseOrder, Closing
<1>4. OnePlace /\ DrainedOnce
    BY <1>2 DEF Init, OnePlace, DrainedOnce
<1> QED
    BY <1>1, <1>3, <1>4 DEF IInv

\* A goroutine that goes from one quiet place to another, or gives up a send,
\* changes nothing the invariant is about.
LEMMA MoveKeeps ==
    ASSUME IInv, NEW c \in Callers, NEW p \in Quiet,
           pc[c] \in Quiet \cup {"send"}, Go(c, p),
           arg' = arg \/ arg' = [arg EXCEPT ![c] = Zero],
           UNCHANGED <<conf, ch, shut, closed, made, fin, held>>
    PROVE  IInv'
<1> USE DEF IInv
<1>1. TypeOK'
    BY DEF TypeOK, Go, Quiet, Pcs
<1>2. \A d \in Callers : Hands(d)' = Hands(d)
    BY DEF TypeOK, Go, Quiet, Hands
<1>3. \A d \in Callers : d # c => pc'[d] = pc[d] /\ arg'[d] = arg[d]
    BY DEF TypeOK, Go
<1>4. pc'[c] = p /\ \A d \in Callers : Closing(d)' <=> Closing(d)
    BY DEF TypeOK, Go, Quiet, Closing
<1>5. HandsMade'
    BY <1>2, <1>3, <1>4 DEF HandsMade, Quiet
<1>6. CloseOrder'
    BY <1>3, <1>4 DEF CloseOrder, Quiet
<1>7. OnePlace'
    BY <1>2 DEF OnePlace
<1>8. DrainedOnce'
    BY <1>4 DEF DrainedOnce
<1> QED
    BY <1>1, <1>5, <1>6, <1>7, <1>8

\* An object that is nobody's, from the channel or just made, comes into the
\* hands of a goroutine at a quiet place.
LEMMA GainKeeps ==
    ASSUME IInv, NEW c \in Callers, pc[c] \in Quiet, Return(c),
           NEW o \in Objects,
           o \notin fin, \A d \in Callers : o \notin Hands(d),
           ch' = ch \ {o}, made' = made \cup {o},
           held' = [held EXCEPT ![c] = @ \cup {o}],
           UNCHANGED <<conf, shut, closed, fin, arg>>
    PROVE  IInv'
<1> USE DEF IInv
<1>1. TypeOK'
    BY DEF TypeOK, Return, Go, Pcs
<1>2. \A d \in Callers : d # c => pc'[d] = pc[d] /\ held'[d] = held[d] /\ Hands(d)' = Hands(d)
    BY DEF TypeOK, Return, Go, Hands
<1>3. held'[c] = held[c] \cup {o} /\ Hands(c)' = Hands(c) \cup {o}
    BY DEF TypeOK, Return, Go, Hands, Quiet
<1>4. pc'[c] = "idle" /\ \A d \in Callers : Closing(d)' <=> Closing(d)
    BY DEF TypeOK, Return, Go, Quiet, Closing
<1>5. HandsMade'
    BY <1>2, <1>3, <1>4 DEF HandsMade, Quiet
<1>6. CloseOrder'
    BY <1>2, <1>4 DEF CloseOrder
<1>7. OnePlace'
    BY <1>2, <1>3 DEF OnePlace
<1>8. DrainedOnce'
    BY <1>4 DEF DrainedOnce
<1> QED
    BY <1>1, <1>5, <1>6, <1>7, <1>8

\* A receive, wherever it stands in the code.
LEMMA ReceiveKeeps ==
    ASSUME IInv, NEW c \in Callers, pc[c] \in Quiet, Receive(c),
           UNCHANGED <<conf, shut, closed, fin, arg>>
    PROVE  IInv'
<1>1. ASSUME NEW o \in ch, Take(c, o) PROVE IInv'
    <2>1. o \in Objects /\ o \in made /\ o \notin fin /\ \A d \in Callers : o \notin Hands(d)
        BY DEF IInv, TypeOK, OnePlace
    <2>2. made' = made \cup {o}
        BY <2>1 DEF Receive
    <2> QED
        BY <1>1, <2>1, <2>2, GainKeeps DEF Take
<1>2. CASE ch = {} /\ shut /\ Return(c) /\ UNCHANGED <<ch, held>>
    BY <1>2, MoveKeeps DEF Return, Receive, Quiet
<1> QED
    BY <1>1, <1>2 DEF Receive

\* A new object, of newFn or of the goroutine's own.
LEMMA CreateKeeps ==
    ASSUME IInv, NEW c \in Callers, pc[c] \in Quiet, Create(c),
           UNCHANGED <<conf, shut, closed, fin, arg>>
    PROVE  IInv'
<1>1. PICK o \in Objects \ made :
          /\ made' = made \cup {o}
          /\ held' = [held EXCEPT ![c] = @ \cup {o}]
          /\ Return(c)
    BY DEF Create
<1>2. ch' = ch \ {o} /\ o \notin fin /\ \A d \in Callers : o \notin Hands(d)
    BY DEF IInv, TypeOK, HandsMade, Create
<1> QED
    BY <1>1, <1>2, GainKeeps

-----------------------------------------------------------------------------
\* Put: the object stays in the hands of its goroutine until it is sent.
LEMMA PutKeeps == ASSUME IInv, NEW c \in Callers, Put(c) PROVE IInv'
<1>1. PICK o \in held[c] :
          \/ Return(c) /\ UNCHANGED arg
          \/ Go(c, "send") /\ arg' = [arg EXCEPT ![c] = o]
    BY DEF Put
<1>2. CASE Return(c) /\ UNCHANGED arg
    BY <1>2, MoveKeeps DEF Put, Return, Quiet
<1>3. CASE Go(c, "send") /\ arg' = [arg EXCEPT ![c] = o]
    <2> USE DEF IInv, Put
    <2>1. TypeOK'
        BY <1>3 DEF TypeOK, Go, Pcs
    <2>2. \A d \in Callers : Hands(d)' = Hands(d) /\ (Closing(d)' <=> Closing(d))
        BY <1>3 DEF TypeOK, Go, Hands, Closing
    <2>3. pc'[c] = "send" /\ arg'[c] = o /\ \A d \in Callers : d # c => pc'[d] = pc[d] /\ arg'[d] = arg[d]
        BY <1>3 DEF TypeOK, Go
    <2>4. HandsMade'
        BY <2>2, <2>3 DEF HandsMade
    <2>5. CloseOrder'
        BY <2>2, <2>3 DEF CloseOrder
    <2>6. OnePlace' /\ DrainedOnce'
        BY <2>2 DEF OnePlace, DrainedOnce
    <2> QED
        BY <2>1, <2>4, <2>5, <2>6
<1> QED
    BY <1>1, <1>2, <1>3

\* The send moves the object from its goroutine to the channel, which is not
\* closed then, so nothing comes into a channel that was drained.
LEMMA PutSendKeeps == ASSUME IInv, NEW c \in Callers, PutSend(c) PROVE IInv'
<1> USE DEF IInv, PutSend
<1>1. CASE /\ ~shut /\ ch' = ch \cup {arg[c]}
           /\ held' = [held EXCEPT ![c] = @ \ {arg[c]}]
           /\ Return(c)
    <2>1. arg[c] \in held[c] /\ held[c] = Hands(c)
        BY DEF HandsMade, Hands
    <2>2. TypeOK'
        BY <1>1, <2>1 DEF TypeOK, HandsMade, Return, Go, Pcs
    <2>3. \A d \in Callers : d # c => pc'[d] = pc[d] /\ arg'[d] = arg[d] /\ held'[d] = held[d] /\ Hands(d)' = Hands(d)
        BY <1>1 DEF TypeOK, Return, Go, Hands
    <2>4. Hands(c)' = Hands(c) \ {arg[c]}
        BY <1>1, <2>1 DEF TypeOK, Return, Go, Hands
    <2>5. pc'[c] = "idle" /\ \A d \in Callers : Closing(d)' <=> Closing(d)
        BY <1>1 DEF TypeOK, Return, Go, Closing
    <2>6. HandsMade'
        BY <2>3, <2>4, <2>5 DEF HandsMade
    <2>7. CloseOrder'
        BY <2>3, <2>5 DEF CloseOrder
    <2>8. OnePlace'
        BY <1>1, <2>1, <2>3, <2>4 DEF OnePlace
    <2>9. DrainedOnce'
        BY <1>1, <2>5 DEF DrainedOnce
    <2> QED
        BY <2>2, <2>6, <2>7, <2>8, <2>9
<1>2. CASE Return(c) /\ UNCHANGED <<ch, held>>
    BY <1>2, MoveKeeps DEF Return, Quiet
<1>3. CASE Go(c, "panicked") /\ UNCHANGED <<ch, held>>
    BY <1>3, MoveKeeps DEF Quiet
<1> QED
    BY <1>1, <1>2, <1>3

-----------------------------------------------------------------------------
\* Only the Close that finds closed FALSE goes on, and closed stays TRUE.
LEMMA CloseKeeps == ASSUME IInv, NEW c \in Callers, Close(c) PROVE IInv'
<1> USE DEF IInv, Close
<1>1. TypeOK'
    BY DEF TypeOK, Go, Pcs
<1>2. \A d \in Callers : Hands(d)' = Hands(d)
    BY DEF TypeOK, Go, Hands
<1>3. \A d \in Callers : d # c => pc'[d] = pc[d] /\ (Closing(d)' <=> Closing(d))
    BY DEF TypeOK, Go, Closing
<1>4. pc'[c] = IF closed THEN "idle" ELSE "shut"
    BY DEF TypeOK, Go
<1>5. HandsMade' /\ OnePlace'
    BY <1>2, <1>3, <1>4 DEF HandsMade, OnePlace
<1>6. CloseOrder'
    BY <1>3, <1>4 DEF CloseOrder, Closing
<1>7. DrainedOnce'
    BY <1>3, <1>4 DEF DrainedOnce, CloseOrder, Closing
<1> QED
    BY <1>1, <1>5, <1>6, <1>7

\* close(cp.ch) by the one goroutine that is closing.
LEMMA CloseChannelKeeps == ASSUME IInv, NEW c \in Callers, CloseChannel(c) PROVE IInv'
<1> USE DEF IInv, CloseChannel
<1>1. TypeOK'
    BY DEF TypeOK, Go, Pcs
<1>2. \A d \in Callers : Hands(d)' = Hands(d)
    BY DEF TypeOK, Go, Hands
<1>3. \A d \in Callers : d # c => pc'[d] = pc[d] /\ ~Closing(d) /\ ~Closing(d)'
    BY DEF TypeOK, Go, Closing, DrainedOnce
<1>4. pc'[c] = IF conf.closeFn THEN "drain" ELSE "idle"
    BY DEF TypeOK, Go
<1>5. HandsMade' /\ OnePlace'
    BY <1>2, <1>3, <1>4 DEF HandsMade, OnePlace
<1>6. CloseOrder'
    BY <1>3, <1>4 DEF CloseOrder, Closing
<1>7. DrainedOnce'
    BY <1>3, <1>4 DEF DrainedOnce, Closing
<1> QED
    BY <1>1, <1>5, <1>6, <1>7

\* The loop takes an object out of the channel, or finds it empty and ends.
LEMMA CloseDrainKeeps == ASSUME IInv, NEW c \in Callers, CloseDrain(c) PROVE IInv'
<1> USE DEF IInv, CloseDrain
<1>1. \A d \in Callers : d # c => ~Closing(d)
    BY DEF DrainedOnce, Closing
<1>2. ASSUME NEW o \in ch, ch' = ch \ {o}, arg' = [arg EXCEPT ![c] = o], Go(c, "closeFn")
      PROVE  IInv'
    <2>1. TypeOK'
        BY <1>2 DEF TypeOK, Go, Pcs
    <2>2. \A d \in Callers : d # c => pc'[d] = pc[d] /\ arg'[d] = arg[d] /\ Hands(d)' = Hands(d) /\ ~Closing(d)'
        BY <1>1, <1>2 DEF TypeOK, Go, Hands, Closing
    <2>3. pc'[c] = "closeFn" /\ Closing(c)' /\ Hands(c)' = Hands(c) \cup {o}
        BY <1>2 DEF TypeOK, Go, Hands, Closing
    <2>4. HandsMade'
        <3>1. o \in made /\ o \notin held[c] /\ arg'[c] = o
            BY <1>2 DEF TypeOK, OnePlace, Hands
        <3> QED
            BY <2>2, <2>3, <3>1 DEF HandsMade
    <2>5. CloseOrder'
        BY <2>2, <2>3 DEF CloseOrder, Closing
    <2>6. OnePlace'
        BY <1>2, <2>2, <2>3 DEF OnePlace
    <2>7. DrainedOnce'
        BY <2>2, <2>3 DEF DrainedOnce
    <2> QED
        BY <2>1, <2>4, <2>5, <2>6, <2>7
<1>3. ASSUME ch = {}, Return(c), UNCHANGED <<ch, arg>>
      PROVE  IInv'
    <2>1. TypeOK'
        BY <1>3 DEF TypeOK, Return, Go, Pcs
    <2>2. \A d \in Callers : Hands(d)' = Hands(d) /\ ~Closing(d)'
        BY <1>1, <1>3 DEF TypeOK, Return, Go, Hands, Closing
    <2>3. pc'[c] = "idle" /\ \A d \in Callers : d # c => pc'[d] = pc[d]
        BY <1>3 DEF TypeOK, Return, Go
    <2>4. HandsMade' /\ OnePlace'
        BY <1>3, <2>2, <2>3 DEF HandsMade, OnePlace
    <2>5. CloseOrder'
        BY <2>2, <2>3 DEF CloseOrder
    <2>6. DrainedOnce'
        BY <1>3, <2>2 DEF DrainedOnce
    <2> QED
        BY <2>1, <2>4, <2>5, <2>6
<1> QED
    BY <1>2, <1>3

\* closeFn is done with the object, which is nobody's then.
LEMMA CloseFnKeeps == ASSUME IInv, NEW c \in Callers, CloseFn(c) PROVE IInv'
<1> USE DEF IInv, CloseFn
<1>1. arg[c] \in made /\ Hands(c) = held[c] \cup {arg[c]} /\ arg[c] \notin held[c]
    BY DEF Hands, HandsMade
<1>2. TypeOK'
    BY <1>1 DEF TypeOK, Go, Pcs
<1>3. \A d \in Callers : d # c => pc'[d] = pc[d] /\ arg'[d] = arg[d] /\ Hands(d)' = Hands(d)
    BY DEF TypeOK, Go, Hands
<1>4. pc'[c] = "drain" /\ Hands(c)' = held[c]
    BY DEF TypeOK, Go, Hands
<1>5. \A d \in Callers : Closing(d)' <=> Closing(d)
    BY <1>3, <1>4 DEF Closing
<1>6. HandsMade'
    BY <1>1, <1>3, <1>4 DEF HandsMade
<1>7. CloseOrder'
    BY <1>3, <1>4, <1>5 DEF CloseOrder
<1>8. OnePlace'
    BY <1>1, <1>3, <1>4 DEF OnePlace
<1>9. DrainedOnce'
    BY <1>5 DEF DrainedOnce
<1> QED
    BY <1>2, <1>6, <1>7, <1>8, <1>9

-----------------------------------------------------------------------------
\* Every step keeps the invariant.
LEMMA NextIInv == IInv /\ [Next]_vars => IInv'
<1> SUFFICES ASSUME IInv, [Next]_vars PROVE IInv'
    OBVIOUS
<1>1. CASE UNCHANGED vars
    BY <1>1 DEF vars, IInv, TypeOK, HandsMade, CloseOrder, OnePlace, DrainedOnce, Hands, Closing
<1>2. ASSUME NEW c \in Callers, Bring(c) PROVE IInv'
    BY <1>2, CreateKeeps DEF Bring, Quiet
<1>3. ASSUME NEW c \in Callers, Get(c) PROVE IInv'
    <2>1. CASE Receive(c)
        BY <1>3, <2>1, ReceiveKeeps DEF Get, Quiet
    <2>2. CASE Create(c)
        BY <1>3, <2>2, CreateKeeps DEF Get, Quiet
    <2>3. CASE Return(c) /\ UNCHANGED <<ch, held, made>>
        BY <1>3, <2>3, MoveKeeps DEF Get, Return, Quiet
    <2> QED
        BY <1>3, <2>1, <2>2, <2>3 DEF Get
<1>4. ASSUME NEW c \in Callers, GetContext(c) PROVE IInv'
    BY <1>4, MoveKeeps DEF GetContext, Return, Quiet
<1>5. ASSUME NEW c \in Callers, GetContextTry(c) PROVE IInv'
    <2>1. CASE Receive(c)
        BY <1>5, <2>1, ReceiveKeeps DEF GetContextTry, Quiet
    <2>2. CASE Go(c, "make") /\ UNCHANGED <<ch, held, made>>
        BY <1>5, <2>2, MoveKeeps DEF GetContextTry, Quiet
    <2> QED
        BY <1>5, <2>1, <2>2 DEF GetContextTry
<1>6. ASSUME NEW c \in Callers, GetContextMake(c) PROVE IInv'
    <2>1. CASE Create(c)
        BY <1>6, <2>1, CreateKeeps DEF GetContextMake, Quiet
    <2>2. CASE Go(c, "wait") /\ UNCHANGED <<ch, held, made>>
        BY <1>6, <2>2, MoveKeeps DEF GetContextMake, Quiet
    <2> QED
        BY <1>6, <2>1, <2>2 DEF GetContextMake
<1>7. ASSUME NEW c \in Callers, GetContextReceive(c) PROVE IInv'
    BY <1>7, ReceiveKeeps DEF GetContextReceive, Quiet
<1>8. ASSUME NEW c \in Callers, GetContextExpires(c) PROVE IInv'
    BY <1>8, MoveKeeps DEF GetContextExpires, Return, Quiet
<1> QED
    BY <1>1, <1>2, <1>3, <1>4, <1>5, <1>6, <1>7, <1>8, PutKeeps, PutSendKeeps,
       CloseKeeps, CloseChannelKeeps, CloseDrainKeeps, CloseFnKeeps DEF Next

LEMMA SpecIInv == Spec => []IInv
    BY InitIInv, NextIInv, PTL DEF Spec

-----------------------------------------------------------------------------
\* No object is ever in two places: with two users, or with a user and in the
\* channel, or closed and in use, for any number of callers and any capacity.
THEOREM ObjectsOnce == Spec => []OnePlace
<1>1. IInv => OnePlace
    BY DEF IInv
<1> QED
    BY <1>1, SpecIInv, PTL

\* One Close at most goes on to close and drain the channel, and leaves it
\* empty for good: a Put that comes later puts nothing into a drained pool.
THEOREM ClosesOnce == Spec => []DrainedOnce
<1>1. IInv => DrainedOnce
    BY DEF IInv
<1> QED
    BY <1>1, SpecIInv, PTL

=============================================================================
