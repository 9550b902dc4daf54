-------------------------- MODULE MemPubSubProofs --------------------------
(***************************************************************************)
(* Proofs about MemPubSub for every set of topics, subscriptions and       *)
(* broadcasters, every queue size and every number of messages.            *)
(*                                                                         *)
(* That no channel done is closed twice needs only what the map says of    *)
(* the subscriptions (Registered).  That messages arrive, once and in      *)
(* order, needs to know where each of them can be: a message is in one     *)
(* place at a time (OnePlace), nobody loses it (Accounted), a goroutine    *)
(* that sends belongs to a Broadcast that waits for it (Waited), and so    *)
(* what was broadcast before is further ahead (Ahead).                     *)
(***************************************************************************)
EXTENDS MemPubSub, FiniteSetTheorems, TLAPS

-----------------------------------------------------------------------------
(* The inductive invariant.                                                *)

(* The subscriptions of a topic are its own, were made, and are not ended  *)
(* until the whole is closed.                                              *)
Registered ==
    /\ ~panicked
    /\ \A t \in Topics : \A s \in topics[t] : handler[s] # "absent"
    /\ \A s \in done : handler[s] # "absent"
    /\ \A t, u \in Topics : t # u => topics[t] \cap topics[u] = {}
    /\ ~closed => \A t \in Topics : topics[t] \cap done = {}

(* What is meant for somebody, or in a channel, has been broadcast.        *)
Meant ==
    /\ \A m \in Msgs, s \in Subs : <<m, s>> \in targets => m <= calls
    /\ \A s \in Subs : \A i \in 1 .. Len(ch[s]) : <<ch[s][i], s>> \in targets

(* A send that is under way has its Broadcast waiting.                     *)
Waited ==
    \A m \in Msgs, s \in Subs :
        <<m, s>> \in sends => \E b \in Broadcasters : bc[b] = m

(* What was over when a Broadcast began is over.                           *)
EarlierReturned == \A m \in Msgs : earlier[m] \subseteq Returned

(* A message for a subscription is under way, in the channel, or handled,  *)
(* and in one place only.                                                  *)
OnePlace ==
    \A s \in Subs :
        /\ \A i, j \in 1 .. Len(ch[s]) : ch[s][i] = ch[s][j] => i = j
        /\ \A i \in 1 .. Len(ch[s]) :
              <<ch[s][i], s>> \notin handled /\ <<ch[s][i], s>> \notin sends
        /\ \A m \in Msgs : <<m, s>> \in handled => <<m, s>> \notin sends

(* It leaves these places only with its context or its subscription.       *)
Accounted ==
    \A m \in Msgs, s \in Subs : <<m, s>> \in targets =>
        \/ <<m, s>> \in sends \cup handled \cup missed
        \/ s \in done
        \/ \E i \in 1 .. Len(ch[s]) : ch[s][i] = m

(* What was broadcast before a message is ahead of it.                     *)
Ahead ==
    \A s \in Subs :
        /\ \A i, j \in 1 .. Len(ch[s]) : ch[s][i] \in earlier[ch[s][j]] => i < j
        /\ \A m \in Msgs : <<m, s>> \in handled =>
              \A i \in 1 .. Len(ch[s]) : ch[s][i] \notin earlier[m]

IInv ==
    /\ TypeOK
    /\ Registered
    /\ Meant
    /\ Waited
    /\ EarlierReturned
    /\ OnePlace
    /\ Accounted
    /\ Ahead

-----------------------------------------------------------------------------
(* What the two actions that touch the channels do to them.                *)

(* A send puts its message behind those in the channel, or hands it over   *)
(* when there is no buffer and so nothing in the channel.                  *)
Sent(m, s) ==
    /\ <<m, s>> \in sends /\ <<m, s>> \in targets
    /\ Len(ch[s]) \in Nat
    /\ ch' \in [Subs -> Seq(Msgs)]
    /\ \A u \in Subs : u # s => ch'[u] = ch[u]
    /\ \/ /\ Len(ch[s]) < queueSize
          /\ Len(ch'[s]) = Len(ch[s]) + 1
          /\ \A i \in 1 .. Len(ch[s]) : ch'[s][i] = ch[s][i]
          /\ ch'[s][Len(ch[s]) + 1] = m
          /\ UNCHANGED <<handler, handling, handled>>
       \/ /\ Len(ch[s]) = 0
          /\ handler' = [handler EXCEPT ![s] = "handling"]
          /\ handling' = [handling EXCEPT ![s] = m]
          /\ handled' = handled \cup {<<m, s>>}
          /\ UNCHANGED ch

(* A receive takes the first message and moves the others up.              *)
Taken(s) ==
    /\ Len(ch[s]) \in Nat \ {0}
    /\ ch[s][1] \in Msgs /\ <<ch[s][1], s>> \in targets
    /\ ch' \in [Subs -> Seq(Msgs)]
    /\ \A u \in Subs : u # s => ch'[u] = ch[u]
    /\ Len(ch'[s]) = Len(ch[s]) - 1
    /\ \A i \in 1 .. Len(ch'[s]) : ch'[s][i] = ch[s][i + 1]
    /\ handling' = [handling EXCEPT ![s] = ch[s][1]]
    /\ handled' = handled \cup {<<ch[s][1], s>>}

(* Send is such a step.                                                    *)
LEMMA SendFacts ==
  ASSUME TypeOK, NEW m \in Msgs, NEW s \in Subs, Send(m, s)
  PROVE  Sent(m, s)
<1>1. ch[s] \in Seq(Msgs) /\ <<m, s>> \in sends /\ <<m, s>> \in targets
  BY DEF Send, TypeOK
<1>2. /\ Append(ch[s], m) \in Seq(Msgs)
      /\ Len(Append(ch[s], m)) = Len(ch[s]) + 1
      /\ \A i \in 1 .. Len(ch[s]) : Append(ch[s], m)[i] = ch[s][i]
      /\ Append(ch[s], m)[Len(ch[s]) + 1] = m
      /\ Len(ch[s]) \in Nat
  BY <1>1
<1>3. CASE Len(ch[s]) < queueSize /\ ch' = [ch EXCEPT ![s] = Append(@, m)]
           /\ UNCHANGED <<handler, handling, handled>>
  <2>1. ch'[s] = Append(ch[s], m) /\ \A u \in Subs : u # s => ch'[u] = ch[u]
    BY <1>3 DEF TypeOK
  <2>2. ch' \in [Subs -> Seq(Msgs)]
    BY <1>2, <1>3 DEF TypeOK
  <2>3. QED
    BY <1>1, <1>2, <1>3, <2>1, <2>2 DEF Sent
<1>4. CASE queueSize = 0 /\ handler' = [handler EXCEPT ![s] = "handling"]
           /\ handling' = [handling EXCEPT ![s] = m]
           /\ handled' = handled \cup {<<m, s>>} /\ UNCHANGED ch
  <2>1. Len(ch[s]) = 0
    BY <1>2, <1>4 DEF TypeOK
  <2>2. QED
    BY <1>1, <1>2, <1>4, <2>1 DEF Sent, TypeOK
<1>5. QED
  BY <1>3, <1>4 DEF Send

(* Receive is such a step.                                                 *)
LEMMA ReceiveFacts ==
  ASSUME TypeOK, Meant, NEW s \in Subs, Receive(s)
  PROVE  Taken(s)
<1>1. ch[s] \in Seq(Msgs) /\ ch[s] # <<>>
  BY DEF Receive, TypeOK
<1>2. /\ Head(ch[s]) = ch[s][1] /\ Head(ch[s]) \in Msgs
      /\ Tail(ch[s]) \in Seq(Msgs)
      /\ Len(ch[s]) \in Nat \ {0}
      /\ Len(Tail(ch[s])) = Len(ch[s]) - 1
      /\ \A i \in 1 .. Len(Tail(ch[s])) : Tail(ch[s])[i] = ch[s][i + 1]
  BY <1>1
<1>3. ch'[s] = Tail(ch[s]) /\ \A u \in Subs : u # s => ch'[u] = ch[u]
  BY DEF Receive, TypeOK
<1>4. ch' \in [Subs -> Seq(Msgs)]
  BY <1>2 DEF Receive, TypeOK
<1>5. 1 \in 1 .. Len(ch[s])
  BY <1>2
<1>6. <<ch[s][1], s>> \in targets
  BY <1>5 DEF Meant
<1>7. handling' = [handling EXCEPT ![s] = ch[s][1]] /\ handled' = handled \cup {<<ch[s][1], s>>}
  BY <1>2 DEF Receive
<1>8. QED
  BY <1>2, <1>3, <1>4, <1>6, <1>7 DEF Taken

-----------------------------------------------------------------------------
(* Type correctness, together with what is known of the targets.           *)

(* The initial states have their types.                                    *)
LEMMA TypeInit == Init => TypeOK /\ Meant
<1> SUFFICES ASSUME Init PROVE TypeOK /\ Meant
  OBVIOUS
<1>1. queueSize \in Nat
  BY QueueSizesAssumption DEF Init
<1>2. <<>> \in Seq(Msgs) /\ Len(<<>>) = 0
  OBVIOUS
<1>3. \A s \in Subs : ch[s] = <<>>
  BY DEF Init
<1>4. ch \in [Subs -> Seq(Msgs)]
  BY <1>2 DEF Init
<1>5. \A s \in Subs : Len(ch[s]) <= queueSize
  BY <1>1, <1>2, <1>3
<1>6. 0 \in 0 .. MaxMsgs
  BY MaxMsgsAssumption
<1>7. TypeOK
  BY <1>4, <1>5, <1>6 DEF Init, TypeOK, NoMsg
<1>8. Meant
  BY <1>2, <1>3 DEF Init, Meant
<1>9. QED
  BY <1>7, <1>8

(* Every step keeps the types.                                             *)
LEMMA TypeStep ==
  ASSUME TypeOK, Meant, [Next]_vars
  PROVE  TypeOK' /\ Meant'
<1>Q. queueSize \in Nat /\ MaxMsgs \in Nat
  BY QueueSizesAssumption, MaxMsgsAssumption DEF TypeOK
<1>1. ASSUME NEW t \in Topics, UnsubscribeAll(t) PROVE TypeOK' /\ Meant'
  BY <1>1 DEF UnsubscribeAll, CloseDone, TypeOK, Meant
<1>2. ASSUME NEW t \in Topics, NEW s \in Subs, Subscribe(t, s) PROVE TypeOK' /\ Meant'
  BY <1>2 DEF Subscribe, TypeOK, Meant
<1>3. ASSUME NEW b \in Broadcasters, NEW t \in Topics, Broadcast(b, t)
      PROVE  TypeOK' /\ Meant'
  <2> USE <1>3 DEF Broadcast
  <2>1. calls' \in Msgs /\ calls' \in 0 .. MaxMsgs /\ calls' = calls + 1 /\ calls \in Nat
    BY <1>Q DEF TypeOK, Msgs
  <2>2. {calls'} \X topics[t] \subseteq Msgs \X Subs
    BY <2>1 DEF TypeOK
  <2>3. Returned \in SUBSET Msgs
    BY <1>Q DEF Returned, Msgs, TypeOK
  <2>4. /\ targets' \in SUBSET (Msgs \X Subs)
        /\ sends' \in SUBSET targets'
        /\ handled' \in SUBSET targets'
        /\ missed' \in SUBSET targets'
    BY <2>2 DEF TypeOK
  <2>5. bc' \in [Broadcasters -> Msgs \cup {NoMsg}]
    BY <2>1 DEF TypeOK
  <2>6. earlier' \in [Msgs -> SUBSET Msgs]
    BY <2>1, <2>3 DEF TypeOK
  <2>7. TypeOK'
    BY <2>1, <2>4, <2>5, <2>6 DEF TypeOK
  <2>8. ASSUME NEW m \in Msgs, NEW s \in Subs, <<m, s>> \in targets' PROVE m <= calls'
    <3>1. CASE <<m, s>> \in targets
      <4>1. m <= calls /\ m \in Nat
        BY <3>1, <1>Q DEF Meant, Msgs
      <4>2. QED
        BY <4>1, <2>1
    <3>2. CASE <<m, s>> \in {calls'} \X topics[t]
      BY <3>2, <2>1
    <3>3. QED
      BY <2>8, <3>1, <3>2
  <2>9. Meant'
    BY <2>8 DEF Meant
  <2>10. QED
    BY <2>7, <2>9
<1>4. ASSUME Close PROVE TypeOK' /\ Meant'
  BY <1>4 DEF Close, CloseDone, TypeOK, Meant
<1>5. ASSUME NEW b \in Broadcasters, BroadcastReturn(b) PROVE TypeOK' /\ Meant'
  BY <1>5 DEF BroadcastReturn, TypeOK, Meant
<1>6. ASSUME NEW m \in Msgs, NEW s \in Subs, Send(m, s) PROVE TypeOK' /\ Meant'
  <2>0. Sent(m, s)
    BY <1>6, SendFacts
  <2>1. ASSUME NEW u \in Subs PROVE Len(ch'[u]) <= queueSize
    <3>1. CASE u # s \/ UNCHANGED ch
      BY <3>1, <2>0 DEF Sent, TypeOK
    <3>2. CASE u = s /\ Len(ch[s]) < queueSize /\ Len(ch'[s]) = Len(ch[s]) + 1
      BY <3>2, <2>0, <1>Q DEF Sent
    <3>3. QED
      BY <3>1, <3>2, <2>0 DEF Sent
  <2>2. TypeOK'
    BY <1>6, <2>0, <2>1 DEF Sent, Send, TypeOK
  <2>3. ASSUME NEW u \in Subs, NEW i \in 1 .. Len(ch'[u])
        PROVE  <<ch'[u][i], u>> \in targets
    <3>1. CASE u = s /\ i \notin 1 .. Len(ch[s])
      <4>1. i = Len(ch[s]) + 1 /\ ch'[s][i] = m /\ <<m, s>> \in targets
        BY <3>1, <2>0, <1>6 DEF Sent
      <4>2. QED
        BY <3>1, <4>1
    <3>2. CASE u # s \/ i \in 1 .. Len(ch[s])
      BY <3>2, <2>0 DEF Sent, Meant
    <3>3. QED
      BY <3>1, <3>2
  <2>4. Meant'
    BY <2>3, <1>6 DEF Send, Meant
  <2>5. QED
    BY <2>2, <2>4
<1>7. ASSUME NEW m \in Msgs, NEW s \in Subs, SendDone(m, s) PROVE TypeOK' /\ Meant'
  BY <1>7 DEF SendDone, TypeOK, Meant
<1>8. ASSUME NEW m \in Msgs, NEW s \in Subs, SendExpired(m, s) PROVE TypeOK' /\ Meant'
  BY <1>8 DEF SendExpired, TypeOK, Meant
<1>9. ASSUME NEW s \in Subs, Receive(s) PROVE TypeOK' /\ Meant'
  <2>0. Taken(s)
    BY <1>9, ReceiveFacts
  <2>1. \A u \in Subs : Len(ch'[u]) <= queueSize
    BY <2>0, <1>Q DEF Taken, TypeOK
  <2>2. TypeOK'
    BY <1>9, <2>0, <2>1 DEF Taken, Receive, TypeOK
  <2>3. ASSUME NEW u \in Subs, NEW i \in 1 .. Len(ch'[u])
        PROVE  <<ch'[u][i], u>> \in targets
    <3>1. CASE u # s
      BY <3>1, <2>0 DEF Taken, Meant
    <3>2. CASE u = s
      <4>1. i + 1 \in 1 .. Len(ch[s]) /\ ch'[s][i] = ch[s][i + 1]
        BY <3>2, <2>0 DEF Taken
      <4>2. QED
        BY <4>1, <3>2 DEF Meant
    <3>3. QED
      BY <3>1, <3>2
  <2>4. Meant'
    BY <2>3, <1>9 DEF Receive, Meant
  <2>5. QED
    BY <2>2, <2>4
<1>10. ASSUME NEW s \in Subs, HandlerReturns(s) PROVE TypeOK' /\ Meant'
  BY <1>10 DEF HandlerReturns, TypeOK, Meant
<1>11. ASSUME NEW s \in Subs, HandlerPanics(s) PROVE TypeOK' /\ Meant'
  BY <1>11 DEF HandlerPanics, TypeOK, Meant
<1>12. ASSUME NEW s \in Subs, HandlerEnds(s) PROVE TypeOK' /\ Meant'
  BY <1>12 DEF HandlerEnds, TypeOK, Meant
<1>13. CASE UNCHANGED vars
  BY <1>13 DEF vars, TypeOK, Meant
<1>14. QED
  BY <1>1, <1>2, <1>3, <1>4, <1>5, <1>6, <1>7, <1>8, <1>9, <1>10, <1>11, <1>12, <1>13 DEF Next

(* Every variable always has its type; in particular no channel ever holds *)
(* more than it was made for.                                              *)
THEOREM TypeCorrect == Spec => []TypeOK
<1>1. QED
  BY TypeInit, TypeStep, PTL DEF Spec

-----------------------------------------------------------------------------
(* The channels done.                                                      *)

LEMMA RegisteredStep ==
  ASSUME TypeOK, Registered, [Next]_vars
  PROVE  Registered'
<1> USE DEF TypeOK, Registered
<1>1. ASSUME NEW t \in Topics, UnsubscribeAll(t) PROVE Registered'
  BY <1>1 DEF UnsubscribeAll, CloseDone
<1>2. ASSUME NEW t \in Topics, NEW s \in Subs, Subscribe(t, s) PROVE Registered'
  BY <1>2 DEF Subscribe
<1>3. ASSUME NEW b \in Broadcasters, NEW t \in Topics, Broadcast(b, t) PROVE Registered'
  BY <1>3 DEF Broadcast
<1>4. ASSUME Close PROVE Registered'
  BY <1>4 DEF Close, CloseDone
<1>5. ASSUME NEW b \in Broadcasters, BroadcastReturn(b) PROVE Registered'
  BY <1>5 DEF BroadcastReturn
<1>6. ASSUME NEW m \in Msgs, NEW s \in Subs, Send(m, s) PROVE Registered'
  BY <1>6 DEF Send
<1>7. ASSUME NEW m \in Msgs, NEW s \in Subs, SendDone(m, s) PROVE Registered'
  BY <1>7 DEF SendDone
<1>8. ASSUME NEW m \in Msgs, NEW s \in Subs, SendExpired(m, s) PROVE Registered'
  BY <1>8 DEF SendExpired
<1>9. ASSUME NEW s \in Subs, Receive(s) PROVE Registered'
  BY <1>9 DEF Receive
<1>10. ASSUME NEW s \in Subs, HandlerReturns(s) PROVE Registered'
  BY <1>10 DEF HandlerReturns
<1>11. ASSUME NEW s \in Subs, HandlerPanics(s) PROVE Registered'
  BY <1>11 DEF HandlerPanics
<1>12. ASSUME NEW s \in Subs, HandlerEnds(s) PROVE Registered'
  BY <1>12 DEF HandlerEnds
<1>13. CASE UNCHANGED vars
  BY <1>13 DEF vars
<1>14. QED
  BY <1>1, <1>2, <1>3, <1>4, <1>5, <1>6, <1>7, <1>8, <1>9, <1>10, <1>11, <1>12, <1>13 DEF Next

(* No channel done is closed twice, whatever UnsubscribeAll and Close race *)
(* with each other and with Subscribe.                                     *)
THEOREM ClosedOnce == Spec => []NoDoubleClose
<1>1. Init => Registered
  BY DEF Init, Registered
<1>2. Registered => NoDoubleClose
  BY DEF Registered, NoDoubleClose
<1>3. QED
  BY <1>1, <1>2, TypeInit, TypeStep, RegisteredStep, PTL DEF Spec

-----------------------------------------------------------------------------
(* Where a message is.                                                     *)

(* A Broadcast stays until none of its sends is under way.                 *)
LEMMA WaitedStep ==
  ASSUME TypeOK, Waited, [Next]_vars
  PROVE  Waited'
<1>1. CASE sends' \subseteq sends /\ bc' = bc
  BY <1>1 DEF Waited
<1>2. ASSUME NEW b \in Broadcasters, NEW t \in Topics, Broadcast(b, t) PROVE Waited'
  <2>1. calls' \in Msgs /\ bc[b] = NoMsg /\ NoMsg \notin Msgs
    BY <1>2, MaxMsgsAssumption DEF Broadcast, TypeOK, Msgs, NoMsg
  <2>2. ASSUME NEW m \in Msgs, NEW s \in Subs, <<m, s>> \in sends'
        PROVE  \E c \in Broadcasters : bc'[c] = m
    <3>1. CASE <<m, s>> \in sends
      <4>1. PICK c \in Broadcasters : bc[c] = m
        BY <3>1 DEF Waited
      <4>2. c # b
        BY <4>1, <2>1
      <4>3. bc'[c] = m
        BY <4>1, <4>2, <1>2 DEF Broadcast, TypeOK
      <4>4. QED
        BY <4>3
    <3>2. CASE m = calls'
      <4>1. bc'[b] = m
        BY <3>2, <1>2 DEF Broadcast, TypeOK
      <4>2. QED
        BY <4>1
    <3>3. QED
      BY <3>1, <3>2, <2>2, <1>2 DEF Broadcast
  <2>3. QED
    BY <2>2 DEF Waited
<1>3. ASSUME NEW b \in Broadcasters, BroadcastReturn(b) PROVE Waited'
  <2>1. ASSUME NEW m \in Msgs, NEW s \in Subs, <<m, s>> \in sends'
        PROVE  \E c \in Broadcasters : bc'[c] = m
    <3>1. PICK c \in Broadcasters : bc[c] = m
      BY <2>1, <1>3 DEF BroadcastReturn, Waited
    <3>2. c # b
      BY <2>1, <3>1, <1>3 DEF BroadcastReturn
    <3>3. bc'[c] = m
      BY <3>1, <3>2, <1>3 DEF BroadcastReturn, TypeOK
    <3>4. QED
      BY <3>3
  <2>2. QED
    BY <2>1 DEF Waited
<1>4. ASSUME NEW m \in Msgs, NEW s \in Subs, Send(m, s) \/ SendDone(m, s) \/ SendExpired(m, s)
      PROVE  Waited'
  BY <1>1, <1>4 DEF Send, SendDone, SendExpired
<1>5. ASSUME NEW t \in Topics, UnsubscribeAll(t) \/ \E s \in Subs : Subscribe(t, s)
      PROVE  Waited'
  BY <1>1, <1>5 DEF UnsubscribeAll, Subscribe
<1>6. ASSUME NEW s \in Subs, Receive(s) \/ HandlerReturns(s) \/ HandlerPanics(s) \/ HandlerEnds(s)
      PROVE  Waited'
  BY <1>1, <1>6 DEF Receive, HandlerReturns, HandlerPanics, HandlerEnds
<1>7. CASE Close \/ UNCHANGED vars
  BY <1>1, <1>7 DEF Close, vars
<1>8. QED
  BY <1>2, <1>3, <1>4, <1>5, <1>6, <1>7 DEF Next

(* What returned stays so.                                                 *)
LEMMA EarlierStep ==
  ASSUME TypeOK, EarlierReturned, [Next]_vars
  PROVE  EarlierReturned'
<1>1. CASE calls' = calls /\ bc' = bc /\ earlier' = earlier
  BY <1>1 DEF EarlierReturned, Returned
<1>2. ASSUME NEW b \in Broadcasters, NEW t \in Topics, Broadcast(b, t)
      PROVE  EarlierReturned'
  <2>1. calls' = calls + 1 /\ calls \in Nat /\ bc' = [bc EXCEPT ![b] = calls']
    BY <1>2, MaxMsgsAssumption DEF Broadcast, TypeOK
  <2>2. ASSUME NEW k \in Returned PROVE k \in Returned'
    <3>1. k \in 1 .. calls /\ \A c \in Broadcasters : bc[c] # k
      BY <2>2 DEF Returned
    <3>2. k \in 1 .. calls' /\ k # calls'
      BY <3>1, <2>1
    <3>3. \A c \in Broadcasters : bc'[c] # k
      BY <3>1, <3>2, <2>1 DEF TypeOK
    <3>4. QED
      BY <3>2, <3>3 DEF Returned
  <2>3. \A m \in Msgs : earlier'[m] = IF m = calls' THEN Returned ELSE earlier[m]
    BY <1>2 DEF Broadcast, TypeOK
  <2>4. QED
    BY <2>2, <2>3 DEF EarlierReturned
<1>3. ASSUME NEW b \in Broadcasters, BroadcastReturn(b) PROVE EarlierReturned'
  <2>1. calls' = calls /\ earlier' = earlier /\ bc' = [bc EXCEPT ![b] = 0]
    BY <1>3 DEF BroadcastReturn, NoMsg
  <2>2. ASSUME NEW k \in Returned PROVE k \in Returned'
    <3>1. k \in 1 .. calls /\ k # 0 /\ \A c \in Broadcasters : bc[c] # k
      BY <2>2, MaxMsgsAssumption DEF Returned, TypeOK
    <3>2. \A c \in Broadcasters : bc'[c] # k
      BY <3>1, <2>1 DEF TypeOK
    <3>3. QED
      BY <3>1, <3>2, <2>1 DEF Returned
  <2>3. QED
    BY <2>1, <2>2 DEF EarlierReturned
<1>4. ASSUME NEW m \in Msgs, NEW s \in Subs, Send(m, s) \/ SendDone(m, s) \/ SendExpired(m, s)
      PROVE  EarlierReturned'
  BY <1>1, <1>4 DEF Send, SendDone, SendExpired
<1>5. ASSUME NEW t \in Topics, UnsubscribeAll(t) \/ \E s \in Subs : Subscribe(t, s)
      PROVE  EarlierReturned'
  BY <1>1, <1>5 DEF UnsubscribeAll, Subscribe
<1>6. ASSUME NEW s \in Subs, Receive(s) \/ HandlerReturns(s) \/ HandlerPanics(s) \/ HandlerEnds(s)
      PROVE  EarlierReturned'
  BY <1>1, <1>6 DEF Receive, HandlerReturns, HandlerPanics, HandlerEnds
<1>7. CASE Close \/ UNCHANGED vars
  BY <1>1, <1>7 DEF Close, vars
<1>8. QED
  BY <1>2, <1>3, <1>4, <1>5, <1>6, <1>7 DEF Next

(* No message gets to a second place.                                      *)
LEMMA OnePlaceStep ==
  ASSUME TypeOK, Meant, OnePlace, [Next]_vars
  PROVE  OnePlace'
<1>1. CASE ch' = ch /\ handled' = handled /\ sends' \subseteq sends
  BY <1>1 DEF OnePlace
<1>2. ASSUME NEW b \in Broadcasters, NEW t \in Topics, Broadcast(b, t) PROVE OnePlace'
  <2>1. ch' = ch /\ handled' = handled /\ sends' = sends \cup {calls'} \X topics[t]
    BY <1>2 DEF Broadcast
  <2>2. ASSUME NEW m \in Msgs, NEW s \in Subs, <<m, s>> \in targets
        PROVE  <<m, s>> \in sends' <=> <<m, s>> \in sends
    <3>1. m <= calls /\ m \in Nat /\ calls' = calls + 1 /\ calls \in Nat
      BY <2>2, <1>2, MaxMsgsAssumption DEF Meant, Msgs, Broadcast, TypeOK
    <3>2. m # calls'
      BY <3>1
    <3>3. QED
      BY <3>2, <2>1
  <2>3. \A s \in Subs : \A i \in 1 .. Len(ch[s]) : ch[s][i] \in Msgs
    BY DEF TypeOK
  <2>4. \A s \in Subs : \A i \in 1 .. Len(ch[s]) :
           <<ch[s][i], s>> \notin handled /\ <<ch[s][i], s>> \notin sends'
    BY <2>2, <2>3 DEF Meant, OnePlace
  <2>5. \A m \in Msgs, s \in Subs : <<m, s>> \in handled => <<m, s>> \notin sends'
    BY <2>2 DEF TypeOK, OnePlace
  <2>6. QED
    BY <2>1, <2>4, <2>5 DEF OnePlace
<1>3. ASSUME NEW m \in Msgs, NEW s \in Subs, Send(m, s) PROVE OnePlace'
  <2>1. Sent(m, s) /\ sends' = sends \ {<<m, s>>}
    BY <1>3, SendFacts DEF Send
  <2>2. CASE UNCHANGED ch /\ Len(ch[s]) = 0 /\ handled' = handled \cup {<<m, s>>}
    <3>1. \A u \in Subs : \A i \in 1 .. Len(ch[u]) : u # s
      BY <2>2
    <3>2. QED
      BY <2>1, <2>2, <3>1 DEF OnePlace
  <2>3. CASE Len(ch'[s]) = Len(ch[s]) + 1 /\ handled' = handled
             /\ (\A i \in 1 .. Len(ch[s]) : ch'[s][i] = ch[s][i])
             /\ ch'[s][Len(ch[s]) + 1] = m
    <3>1. \A i \in 1 .. Len(ch'[s]) : i \in 1 .. Len(ch[s]) \/ i = Len(ch[s]) + 1
      BY <2>1, <2>3 DEF Sent
    <3>2. <<m, s>> \in sends /\ <<m, s>> \notin handled
          /\ \A i \in 1 .. Len(ch[s]) : ch[s][i] # m
      BY <2>1 DEF Sent, OnePlace
    <3>3. \A i, j \in 1 .. Len(ch'[s]) : ch'[s][i] = ch'[s][j] => i = j
      BY <2>3, <3>1, <3>2 DEF OnePlace
    <3>4. \A i \in 1 .. Len(ch'[s]) :
             <<ch'[s][i], s>> \notin handled /\ <<ch'[s][i], s>> \notin sends'
      BY <2>1, <2>3, <3>1, <3>2 DEF OnePlace
    <3>5. \A u \in Subs : u # s => ch'[u] = ch[u]
      BY <2>1 DEF Sent
    <3>6. QED
      BY <2>1, <2>3, <3>3, <3>4, <3>5 DEF OnePlace
  <2>4. QED
    BY <2>1, <2>2, <2>3 DEF Sent
<1>4. ASSUME NEW s \in Subs, Receive(s) PROVE OnePlace'
  <2>1. Taken(s) /\ sends' = sends
    BY <1>4, ReceiveFacts DEF Receive
  <2>2. /\ 1 \in 1 .. Len(ch[s])
        /\ \A i \in 1 .. Len(ch'[s]) :
              i + 1 \in 1 .. Len(ch[s]) /\ i + 1 # 1 /\ ch'[s][i] = ch[s][i + 1]
    BY <2>1 DEF Taken
  <2>3. \A i, j \in 1 .. Len(ch'[s]) : i + 1 = j + 1 => i = j
    BY <2>1 DEF Taken
  <2>4. \A i, j \in 1 .. Len(ch'[s]) : ch'[s][i] = ch'[s][j] => i = j
    BY <2>2, <2>3, SMTT(60) DEF OnePlace
  <2>5. \A i \in 1 .. Len(ch'[s]) : ch'[s][i] # ch[s][1]
    BY <2>2 DEF OnePlace
  <2>6. handled' = handled \cup {<<ch[s][1], s>>} /\ \A u \in Subs : u # s => ch'[u] = ch[u]
    BY <2>1 DEF Taken
  <2>7. \A i \in 1 .. Len(ch'[s]) :
           <<ch'[s][i], s>> \notin handled' /\ <<ch'[s][i], s>> \notin sends
    BY <2>2, <2>5, <2>6 DEF OnePlace
  <2>8. <<ch[s][1], s>> \notin sends
    BY <2>2 DEF OnePlace
  <2>9. ASSUME NEW u \in Subs
        PROVE  /\ \A i, j \in 1 .. Len(ch'[u]) : ch'[u][i] = ch'[u][j] => i = j
               /\ \A i \in 1 .. Len(ch'[u]) :
                     <<ch'[u][i], u>> \notin handled' /\ <<ch'[u][i], u>> \notin sends'
               /\ \A m \in Msgs : <<m, u>> \in handled' => <<m, u>> \notin sends'
    <3>1. CASE u = s
      BY <3>1, <2>1, <2>4, <2>6, <2>7, <2>8 DEF OnePlace
    <3>2. CASE u # s
      BY <3>2, <2>1, <2>6 DEF OnePlace
    <3>3. QED
      BY <3>1, <3>2
  <2>10. QED
    BY <2>9 DEF OnePlace
<1>5. ASSUME NEW m \in Msgs, NEW s \in Subs, SendDone(m, s) \/ SendExpired(m, s)
      PROVE  OnePlace'
  BY <1>1, <1>5 DEF SendDone, SendExpired
<1>6. ASSUME NEW t \in Topics, UnsubscribeAll(t) \/ \E s \in Subs : Subscribe(t, s)
      PROVE  OnePlace'
  BY <1>1, <1>6 DEF UnsubscribeAll, Subscribe
<1>7. ASSUME NEW s \in Subs, HandlerReturns(s) \/ HandlerPanics(s) \/ HandlerEnds(s)
      PROVE  OnePlace'
  BY <1>1, <1>7 DEF HandlerReturns, HandlerPanics, HandlerEnds
<1>8. ASSUME NEW b \in Broadcasters, BroadcastReturn(b) PROVE OnePlace'
  BY <1>1, <1>8 DEF BroadcastReturn
<1>9. CASE Close \/ UNCHANGED vars
  BY <1>1, <1>9 DEF Close, vars
<1>10. QED
  BY <1>2, <1>3, <1>4, <1>5, <1>6, <1>7, <1>8, <1>9 DEF Next

(* No message gets lost.                                                   *)
LEMMA AccountedStep ==
  ASSUME TypeOK, Meant, Accounted, [Next]_vars
  PROVE  Accounted'
<1>1. CASE /\ ch' = ch /\ targets' = targets
           /\ sends \cup handled \cup missed \subseteq sends' \cup handled' \cup missed'
           /\ done \subseteq done'
  BY <1>1 DEF Accounted
<1>2. ASSUME NEW b \in Broadcasters, NEW t \in Topics, Broadcast(b, t) PROVE Accounted'
  BY <1>2 DEF Broadcast, Accounted
<1>3. ASSUME NEW m \in Msgs, NEW s \in Subs, Send(m, s) PROVE Accounted'
  <2>1. /\ Sent(m, s) /\ sends' = sends \ {<<m, s>>}
        /\ targets' = targets /\ missed' = missed /\ done' = done
    BY <1>3, SendFacts DEF Send
  <2>2. CASE UNCHANGED ch /\ handled' = handled \cup {<<m, s>>}
    BY <1>1, <2>1, <2>2
  <2>3. CASE Len(ch'[s]) = Len(ch[s]) + 1 /\ handled' = handled
             /\ (\A i \in 1 .. Len(ch[s]) : ch'[s][i] = ch[s][i])
             /\ ch'[s][Len(ch[s]) + 1] = m
    <3>1. Len(ch[s]) + 1 \in 1 .. Len(ch'[s]) /\ 1 .. Len(ch[s]) \subseteq 1 .. Len(ch'[s])
      BY <2>1, <2>3 DEF Sent
    <3>2. ASSUME NEW k \in Msgs, NEW u \in Subs,
                 (\E i \in 1 .. Len(ch[u]) : ch[u][i] = k) \/ (u = s /\ k = m)
          PROVE  \E i \in 1 .. Len(ch'[u]) : ch'[u][i] = k
      <4>1. CASE u # s
        BY <3>2, <4>1, <2>1 DEF Sent
      <4>2. CASE u = s
        BY <3>1, <3>2, <4>2, <2>3
      <4>3. QED
        BY <4>1, <4>2
    <3>3. QED
      BY <2>1, <2>3, <3>2 DEF Accounted
  <2>4. QED
    BY <2>1, <2>2, <2>3 DEF Sent
<1>4. ASSUME NEW s \in Subs, Receive(s) PROVE Accounted'
  <2>1. /\ Taken(s) /\ sends' = sends
        /\ targets' = targets /\ missed' = missed /\ done' = done
    BY <1>4, ReceiveFacts DEF Receive
  <2>2. handled' = handled \cup {<<ch[s][1], s>>} /\ \A u \in Subs : u # s => ch'[u] = ch[u]
    BY <2>1 DEF Taken
  <2>3. ASSUME NEW k \in Msgs, NEW u \in Subs, \E i \in 1 .. Len(ch[u]) : ch[u][i] = k
        PROVE  <<k, u>> \in handled' \/ \E i \in 1 .. Len(ch'[u]) : ch'[u][i] = k
    <3>1. CASE u # s
      BY <2>3, <3>1, <2>2
    <3>2. CASE u = s
      <4>1. PICK i \in 1 .. Len(ch[s]) : ch[s][i] = k
        BY <2>3, <3>2
      <4>2. CASE i = 1
        BY <4>1, <4>2, <3>2, <2>2
      <4>3. CASE i # 1
        <5>1. i - 1 \in 1 .. Len(ch'[s]) /\ (i - 1) + 1 = i
          BY <4>3, <2>1 DEF Taken
        <5>2. ch'[s][i - 1] = k
          BY <4>1, <5>1, <2>1 DEF Taken
        <5>3. QED
          BY <5>1, <5>2, <3>2
      <4>4. QED
        BY <4>2, <4>3
    <3>3. QED
      BY <3>1, <3>2
  <2>4. QED
    BY <2>1, <2>2, <2>3 DEF Accounted
<1>5. ASSUME NEW m \in Msgs, NEW s \in Subs, SendDone(m, s) PROVE Accounted'
  BY <1>5 DEF SendDone, Accounted
<1>6. ASSUME NEW m \in Msgs, NEW s \in Subs, SendExpired(m, s) PROVE Accounted'
  BY <1>1, <1>6 DEF SendExpired
<1>7. ASSUME NEW t \in Topics, UnsubscribeAll(t) \/ \E s \in Subs : Subscribe(t, s)
      PROVE  Accounted'
  BY <1>1, <1>7 DEF UnsubscribeAll, Subscribe, CloseDone
<1>8. ASSUME NEW s \in Subs, HandlerReturns(s) \/ HandlerPanics(s) \/ HandlerEnds(s)
      PROVE  Accounted'
  BY <1>1, <1>8 DEF HandlerReturns, HandlerPanics, HandlerEnds
<1>9. ASSUME NEW b \in Broadcasters, BroadcastReturn(b) PROVE Accounted'
  BY <1>1, <1>9 DEF BroadcastReturn
<1>10. CASE Close \/ UNCHANGED vars
  BY <1>1, <1>10 DEF Close, CloseDone, vars
<1>11. QED
  BY <1>2, <1>3, <1>4, <1>5, <1>6, <1>7, <1>8, <1>9, <1>10 DEF Next

(* No message gets ahead of one that was broadcast before it: one that is  *)
(* still to be sent was not over when any other began.                     *)
LEMMA AheadStep ==
  ASSUME TypeOK, Meant, Waited, EarlierReturned, OnePlace, Ahead, [Next]_vars
  PROVE  Ahead'
<1>1. CASE ch' = ch /\ handled' = handled /\ earlier' = earlier
  BY <1>1 DEF Ahead
<1>2. ASSUME NEW b \in Broadcasters, NEW t \in Topics, Broadcast(b, t) PROVE Ahead'
  <2>1. /\ ch' = ch /\ handled' = handled /\ calls' = calls + 1
        /\ earlier' = [earlier EXCEPT ![calls'] = Returned]
    BY <1>2 DEF Broadcast
  <2>2. ASSUME NEW m \in Msgs, NEW s \in Subs, <<m, s>> \in targets
        PROVE  earlier'[m] = earlier[m]
    <3>1. m <= calls /\ m \in Nat /\ calls \in Nat
      BY <2>2, MaxMsgsAssumption DEF Meant, Msgs, TypeOK
    <3>2. m # calls'
      BY <3>1, <2>1
    <3>3. QED
      BY <3>2, <2>1 DEF TypeOK
  <2>3. \A s \in Subs : \A i \in 1 .. Len(ch[s]) : earlier'[ch[s][i]] = earlier[ch[s][i]]
    <3>1. \A s \in Subs : \A i \in 1 .. Len(ch[s]) : ch[s][i] \in Msgs
      BY DEF TypeOK
    <3>2. QED
      BY <2>2, <3>1 DEF Meant
  <2>4. \A m \in Msgs, s \in Subs : <<m, s>> \in handled => earlier'[m] = earlier[m]
    BY <2>2 DEF TypeOK
  <2>5. QED
    BY <2>1, <2>3, <2>4 DEF Ahead
<1>3. ASSUME NEW m \in Msgs, NEW s \in Subs, Send(m, s) PROVE Ahead'
  <2>1. Sent(m, s) /\ earlier' = earlier
    BY <1>3, SendFacts DEF Send
  <2>2. CASE UNCHANGED ch /\ Len(ch[s]) = 0 /\ handled' = handled \cup {<<m, s>>}
    <3>1. \A u \in Subs : \A i \in 1 .. Len(ch[u]) : u # s
      BY <2>2
    <3>2. QED
      BY <2>1, <2>2, <3>1 DEF Ahead
  <2>3. CASE Len(ch'[s]) = Len(ch[s]) + 1 /\ handled' = handled
             /\ (\A i \in 1 .. Len(ch[s]) : ch'[s][i] = ch[s][i])
             /\ ch'[s][Len(ch[s]) + 1] = m
    <3>1. \A i \in 1 .. Len(ch'[s]) :
             \/ i \in 1 .. Len(ch[s]) /\ ch'[s][i] = ch[s][i] /\ i < Len(ch[s]) + 1
             \/ i = Len(ch[s]) + 1 /\ ch'[s][i] = m
      BY <2>1, <2>3 DEF Sent
    <3>2. ASSUME NEW k \in Msgs PROVE m \notin earlier[k]
      <4>1. m \notin Returned
        BY <2>1 DEF Sent, Waited, Returned
      <4>2. QED
        BY <4>1 DEF EarlierReturned
    <3>3. \A i \in 1 .. Len(ch'[s]) : ch'[s][i] \in Msgs
      BY <2>1 DEF Sent
    <3>4. ASSUME NEW i \in 1 .. Len(ch'[s]), NEW j \in 1 .. Len(ch'[s]),
                 ch'[s][i] \in earlier[ch'[s][j]]
          PROVE  i < j
      <4>1. ch'[s][i] # m
        BY <3>2, <3>3, <3>4
      <4>2. i \in 1 .. Len(ch[s]) /\ ch'[s][i] = ch[s][i] /\ i < Len(ch[s]) + 1
        BY <3>1, <4>1
      <4>3. CASE j = Len(ch[s]) + 1
        BY <4>2, <4>3
      <4>4. CASE j \in 1 .. Len(ch[s]) /\ ch'[s][j] = ch[s][j]
        BY <3>4, <4>2, <4>4 DEF Ahead
      <4>5. QED
        BY <3>1, <4>3, <4>4
    <3>5. ASSUME NEW k \in Msgs, <<k, s>> \in handled, NEW i \in 1 .. Len(ch'[s])
          PROVE  ch'[s][i] \notin earlier[k]
      <4>1. CASE ch'[s][i] = m
        BY <3>2, <4>1
      <4>2. CASE i \in 1 .. Len(ch[s]) /\ ch'[s][i] = ch[s][i]
        BY <3>5, <4>2 DEF Ahead
      <4>3. QED
        BY <3>1, <4>1, <4>2
    <3>6. \A u \in Subs : u # s => ch'[u] = ch[u]
      BY <2>1 DEF Sent
    <3>7. QED
      BY <2>1, <2>3, <3>4, <3>5, <3>6 DEF Ahead
  <2>4. QED
    BY <2>1, <2>2, <2>3 DEF Sent
<1>4. ASSUME NEW s \in Subs, Receive(s) PROVE Ahead'
  <2>1. Taken(s) /\ earlier' = earlier
    BY <1>4, ReceiveFacts DEF Receive
  <2>2. /\ 1 \in 1 .. Len(ch[s])
        /\ \A i \in 1 .. Len(ch'[s]) :
              i + 1 \in 1 .. Len(ch[s]) /\ ~(i + 1 < 1) /\ ch'[s][i] = ch[s][i + 1]
        /\ \A i, j \in 1 .. Len(ch'[s]) : i + 1 < j + 1 => i < j
    BY <2>1 DEF Taken
  <2>3. handled' = handled \cup {<<ch[s][1], s>>} /\ \A u \in Subs : u # s => ch'[u] = ch[u]
    BY <2>1 DEF Taken
  <2>4. \A i, j \in 1 .. Len(ch'[s]) : ch'[s][i] \in earlier[ch'[s][j]] => i < j
    BY <2>2 DEF Ahead
  <2>5. \A i \in 1 .. Len(ch'[s]) : ch'[s][i] \notin earlier[ch[s][1]]
    BY <2>2 DEF Ahead
  <2>6. ASSUME NEW m \in Msgs, <<m, s>> \in handled', NEW i \in 1 .. Len(ch'[s])
        PROVE  ch'[s][i] \notin earlier[m]
    <3>1. CASE m = ch[s][1]
      BY <3>1, <2>5
    <3>2. CASE <<m, s>> \in handled
      BY <3>2, <2>2 DEF Ahead
    <3>3. QED
      BY <2>6, <3>1, <3>2, <2>3
  <2>7. ASSUME NEW u \in Subs
        PROVE  /\ \A i, j \in 1 .. Len(ch'[u]) : ch'[u][i] \in earlier[ch'[u][j]] => i < j
               /\ \A m \in Msgs : <<m, u>> \in handled' =>
                     \A i \in 1 .. Len(ch'[u]) : ch'[u][i] \notin earlier[m]
    <3>1. CASE u = s
      BY <3>1, <2>4, <2>6
    <3>2. CASE u # s
      BY <3>2, <2>3 DEF Ahead
    <3>3. QED
      BY <3>1, <3>2
  <2>8. QED
    BY <2>1, <2>7 DEF Ahead
<1>5. ASSUME NEW m \in Msgs, NEW s \in Subs, SendDone(m, s) \/ SendExpired(m, s)
      PROVE  Ahead'
  BY <1>1, <1>5 DEF SendDone, SendExpired
<1>6. ASSUME NEW t \in Topics, UnsubscribeAll(t) \/ \E s \in Subs : Subscribe(t, s)
      PROVE  Ahead'
  BY <1>1, <1>6 DEF UnsubscribeAll, Subscribe
<1>7. ASSUME NEW s \in Subs, HandlerReturns(s) \/ HandlerPanics(s) \/ HandlerEnds(s)
      PROVE  Ahead'
  BY <1>1, <1>7 DEF HandlerReturns, HandlerPanics, HandlerEnds
<1>8. ASSUME NEW b \in Broadcasters, BroadcastReturn(b) PROVE Ahead'
  BY <1>1, <1>8 DEF BroadcastReturn
<1>9. CASE Close \/ UNCHANGED vars
  BY <1>1, <1>9 DEF Close, vars
<1>10. QED
  BY <1>2, <1>3, <1>4, <1>5, <1>6, <1>7, <1>8, <1>9 DEF Next

-----------------------------------------------------------------------------
(* Delivery.                                                               *)

(* The invariant holds at the start.                                       *)
LEMMA IInvInit == Init => IInv
<1> SUFFICES ASSUME Init PROVE IInv
  OBVIOUS
<1>1. TypeOK /\ Meant
  BY TypeInit
<1>2. Registered /\ Waited /\ Accounted
  BY DEF Init, Registered, Waited, Accounted
<1>3. EarlierReturned
  BY DEF Init, EarlierReturned
<1>4. OnePlace /\ Ahead
  BY DEF Init, OnePlace, Ahead
<1>5. QED
  BY <1>1, <1>2, <1>3, <1>4 DEF IInv

(* The invariant always holds.                                             *)
LEMMA Inductive == Spec => []IInv
<1>1. IInv /\ [Next]_vars => IInv'
  BY TypeStep, RegisteredStep, WaitedStep, EarlierStep, OnePlaceStep, AccountedStep,
     AheadStep DEF IInv
<1>2. QED
  BY <1>1, IInvInit, PTL DEF Spec

(* A Broadcast that returned has delivered its message, to everybody it    *)
(* found and to each of them once, for any number of subscriptions,        *)
(* broadcasters and messages and any size of the queues.                   *)
THEOREM BroadcastDelivers == Spec => []Delivered
<1>1. ASSUME IInv PROVE Delivered
  <2> USE <1>1 DEF IInv
  <2> SUFFICES ASSUME NEW m \in Returned, NEW s \in Subs
               PROVE  LET held == {i \in DOMAIN ch[s] : ch[s][i] = m} IN
                      /\ (<<m, s>> \in targets /\ <<m, s>> \notin missed /\ s \notin done) =>
                             held # {} \/ <<m, s>> \in handled
                      /\ Cardinality(held) + (IF <<m, s>> \in handled THEN 1 ELSE 0) <= 1
    BY DEF Delivered
  <2> DEFINE held == {i \in DOMAIN ch[s] : ch[s][i] = m}
  <2>1. DOMAIN ch[s] = 1 .. Len(ch[s])
    BY DEF TypeOK
  <2>2. m \in Msgs /\ <<m, s>> \notin sends
    BY MaxMsgsAssumption DEF TypeOK, Returned, Waited, Msgs
  <2>3. (<<m, s>> \in targets /\ <<m, s>> \notin missed /\ s \notin done) =>
           held # {} \/ <<m, s>> \in handled
    BY <2>1, <2>2 DEF Accounted
  <2>4. <<m, s>> \in handled => held = {}
    BY <2>1 DEF OnePlace
  <2>5. \A i, j \in held : i = j
    BY <2>1 DEF OnePlace
  <2>6. CASE held = {}
    BY <2>3, <2>6, FS_EmptySet
  <2>7. CASE held # {}
    <3>1. PICK i \in held : held = {i}
      BY <2>5, <2>7
    <3>2. Cardinality(held) = 1
      BY <3>1, FS_Singleton
    <3>3. QED
      BY <2>3, <2>4, <2>7, <3>2
  <2>8. QED
    BY <2>6, <2>7
<1>2. QED
  BY <1>1, Inductive, PTL

(* Handlers are given messages in the order in which they were broadcast,  *)
(* as far as the callers of Broadcast can tell.                            *)
THEOREM HandlersInOrder == Spec => []HandledInOrder
<1>1. ASSUME IInv PROVE HandledInOrder
  <2> USE <1>1 DEF IInv
  <2> SUFFICES ASSUME NEW m \in Msgs, NEW s \in Subs, <<m, s>> \in handled, NEW k \in earlier[m]
               PROVE  <<k, s>> \notin sends /\ ~Contains(ch[s], k)
    BY DEF HandledInOrder
  <2>1. k \in Returned
    BY DEF EarlierReturned
  <2>2. <<k, s>> \notin sends
    BY <2>1, MaxMsgsAssumption DEF Returned, Waited, TypeOK, Msgs
  <2>3. ~Contains(ch[s], k)
    BY DEF Ahead, Contains
  <2>4. QED
    BY <2>2, <2>3
<1>2. QED
  BY <1>1, Inductive, PTL

=============================================================================
