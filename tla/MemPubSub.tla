----------------------------- MODULE MemPubSub -----------------------------
(***************************************************************************)
(* memory.PubSub (mq/memory/pubsub.go): every subscription is a buffered   *)
(* channel, a channel done, and a goroutine that takes messages from the   *)
(* one until the other is closed.                                          *)
(*                                                                         *)
(* Broadcast takes the list of subscriptions under mu and sends to them    *)
(* after mu was released, one goroutine per subscription, while topics are *)
(* unsubscribed and the whole is closed beside it.  A send that is         *)
(* under way is a pair of a message and a subscription in sends.           *)
(*                                                                         *)
(* A context that expires is a send that gives up.  Whether a handler      *)
(* returns an error makes no difference to the code; whether it panics     *)
(* does.  Handlers that call the PubSub themselves are not modelled.       *)
(***************************************************************************)
EXTENDS Naturals, Sequences, FiniteSets, SequencesExt

CONSTANTS
    Topics,
    Subs,          \* the subscriptions, each made at most once
    Broadcasters,  \* the goroutines that call Broadcast
    QueueSizes,    \* the sizes WithQueueSize is given
    MaxMsgs        \* bound: calls of Broadcast that find a subscription

ASSUME QueueSizesAssumption == QueueSizes \subseteq Nat
ASSUME MaxMsgsAssumption == MaxMsgs \in Nat

VARIABLES
    queueSize,
    closed,
    topics,      \* topics[t]: the subscriptions of a topic
    done,        \* the subscriptions whose channel done is closed
    panicked,    \* a channel done was closed twice
    ch,          \* ch[s]: the messages in the channel of s
    handler,     \* handler[s]: where the goroutine of s is
    handling,    \* handling[s]: the message its handler is given
    sends,       \* the goroutines of Broadcast at their select
    bc,          \* bc[b]: the message b is broadcasting
    \* history
    calls,       \* how many messages were broadcast
    targets,     \* the pairs of a message and a subscription it is meant for
    handled,     \* the pairs whose handler call has begun
    missed,      \* the pairs whose send ended with the context
    earlier      \* earlier[m]: whose Broadcast had returned when that of m began

vars == <<queueSize, closed, topics, done, panicked, ch, handler, handling, sends, bc,
          calls, targets, handled, missed, earlier>>

-----------------------------------------------------------------------------

Msgs == 1 .. MaxMsgs
NoMsg == 0

Init ==
    /\ queueSize \in QueueSizes
    /\ closed = FALSE
    /\ topics = [t \in Topics |-> {}]
    /\ done = {}
    /\ panicked = FALSE
    /\ ch = [s \in Subs |-> <<>>]
    /\ handler = [s \in Subs |-> "absent"]
    /\ handling = [s \in Subs |-> NoMsg]
    /\ sends = {}
    /\ bc = [b \in Broadcasters |-> NoMsg]
    /\ calls = 0
    /\ targets = {}
    /\ handled = {}
    /\ missed = {}
    /\ earlier = [m \in Msgs |-> {}]

Returned == {m \in 1 .. calls : \A b \in Broadcasters : bc[b] # m}

-----------------------------------------------------------------------------
(* The calls.                                                              *)

Subscribe(t, s) ==
    /\ ~closed
    /\ handler[s] = "absent"
    /\ topics' = [topics EXCEPT ![t] = @ \cup {s}]
    /\ handler' = [handler EXCEPT ![s] = "select"]
    /\ UNCHANGED <<queueSize, closed, done, panicked, ch, handling, sends, bc, calls,
                   targets, handled, missed, earlier>>

(* Variant: the topic is kept.                                             *)
BadUnsubscribeKeepsTopic(t) ==
    /\ ~closed
    /\ done' = done \cup topics[t]
    /\ panicked' = (panicked \/ topics[t] \cap done # {})
    /\ UNCHANGED <<queueSize, closed, topics, ch, handler, handling, sends, bc, calls,
                   targets, handled, missed, earlier>>

(* close(sub.done) for each of a set of subscriptions.                     *)
CloseDone(S) ==
    /\ done' = done \cup S
    /\ panicked' = (panicked \/ S \cap done # {})

UnsubscribeAll(t) ==
    /\ ~closed
    /\ CloseDone(topics[t])
    /\ topics' = [topics EXCEPT ![t] = {}]
    /\ UNCHANGED <<queueSize, closed, ch, handler, handling, sends, bc, calls, targets,
                   handled, missed, earlier>>

Close ==
    /\ ~closed
    /\ closed' = TRUE
    /\ CloseDone(UNION {topics[t] : t \in Topics})
    /\ UNCHANGED <<queueSize, topics, ch, handler, handling, sends, bc, calls, targets,
                   handled, missed, earlier>>

(* A Broadcast that finds subscriptions starts a goroutine for each; one   *)
(* that finds the PubSub closed, or no subscription, returns.              *)
Broadcast(b, t) ==
    /\ bc[b] = NoMsg
    /\ ~closed /\ topics[t] # {}
    /\ calls < MaxMsgs
    /\ calls' = calls + 1
    /\ bc' = [bc EXCEPT ![b] = calls']
    /\ sends' = sends \cup {calls'} \X topics[t]
    /\ targets' = targets \cup {calls'} \X topics[t]
    /\ earlier' = [earlier EXCEPT ![calls'] = Returned]
    /\ UNCHANGED <<queueSize, closed, topics, done, panicked, ch, handler, handling,
                   handled, missed>>

(* Variant: a Broadcast that does not wait for its goroutines.             *)
BadBroadcastReturn(b) ==
    /\ bc[b] # NoMsg
    /\ bc' = [bc EXCEPT ![b] = NoMsg]
    /\ UNCHANGED <<queueSize, closed, topics, done, panicked, ch, handler, handling,
                   sends, calls, targets, handled, missed, earlier>>

BroadcastReturn(b) ==
    /\ bc[b] # NoMsg
    /\ \A s \in Subs : <<bc[b], s>> \notin sends
    /\ bc' = [bc EXCEPT ![b] = NoMsg]
    /\ UNCHANGED <<queueSize, closed, topics, done, panicked, ch, handler, handling,
                   sends, calls, targets, handled, missed, earlier>>

-----------------------------------------------------------------------------
(* The select of a goroutine of Broadcast.  The branches that are ready    *)
(* compete: a message can still be sent when done is closed.               *)

Send(m, s) ==
    /\ <<m, s>> \in sends
    /\ sends' = sends \ {<<m, s>>}
    /\ \/ /\ Len(ch[s]) < queueSize
          /\ ch' = [ch EXCEPT ![s] = Append(@, m)]
          /\ UNCHANGED <<handler, handling, handled>>
       \/ /\ queueSize = 0
          /\ handler[s] = "select"
          /\ handler' = [handler EXCEPT ![s] = "handling"]
          /\ handling' = [handling EXCEPT ![s] = m]
          /\ handled' = handled \cup {<<m, s>>}
          /\ UNCHANGED ch
    /\ UNCHANGED <<queueSize, closed, topics, done, panicked, bc, calls, targets, missed,
                   earlier>>

(* Variants: a goroutine that does not watch done; a send with a default   *)
(* branch.                                                                 *)
BadSendDone(m, s) == FALSE /\ UNCHANGED vars

BadSendDefault(m, s) ==
    /\ <<m, s>> \in sends
    /\ s \in done \/ Len(ch[s]) >= queueSize
    /\ sends' = sends \ {<<m, s>>}
    /\ UNCHANGED <<queueSize, closed, topics, done, panicked, ch, handler, handling, bc,
                   calls, targets, handled, missed, earlier>>

SendDone(m, s) ==
    /\ <<m, s>> \in sends
    /\ s \in done
    /\ sends' = sends \ {<<m, s>>}
    /\ UNCHANGED <<queueSize, closed, topics, done, panicked, ch, handler, handling, bc,
                   calls, targets, handled, missed, earlier>>

SendExpired(m, s) ==
    /\ <<m, s>> \in sends
    /\ sends' = sends \ {<<m, s>>}
    /\ missed' = missed \cup {<<m, s>>}
    /\ UNCHANGED <<queueSize, closed, topics, done, panicked, ch, handler, handling, bc,
                   calls, targets, handled, earlier>>

-----------------------------------------------------------------------------
(* handleSubscription.                                                     *)

Receive(s) ==
    /\ handler[s] = "select"
    /\ ch[s] # <<>>
    /\ ch' = [ch EXCEPT ![s] = Tail(@)]
    /\ handler' = [handler EXCEPT ![s] = "handling"]
    /\ handling' = [handling EXCEPT ![s] = Head(ch[s])]
    /\ handled' = handled \cup {<<Head(ch[s]), s>>}
    /\ UNCHANGED <<queueSize, closed, topics, done, panicked, sends, bc, calls, targets,
                   missed, earlier>>

HandlerReturns(s) ==
    /\ handler[s] = "handling"
    /\ handler' = [handler EXCEPT ![s] = "select"]
    /\ handling' = [handling EXCEPT ![s] = NoMsg]
    /\ UNCHANGED <<queueSize, closed, topics, done, panicked, ch, sends, bc, calls,
                   targets, handled, missed, earlier>>

(* Recovered outside the loop: the goroutine ends, the subscription stays. *)
HandlerPanics(s) ==
    /\ handler[s] = "handling"
    /\ handler' = [handler EXCEPT ![s] = "ended"]
    /\ handling' = [handling EXCEPT ![s] = NoMsg]
    /\ UNCHANGED <<queueSize, closed, topics, done, panicked, ch, sends, bc, calls,
                   targets, handled, missed, earlier>>

(* What is left in the channel is dropped with it.                         *)
HandlerEnds(s) ==
    /\ handler[s] = "select"
    /\ s \in done
    /\ handler' = [handler EXCEPT ![s] = "ended"]
    /\ UNCHANGED <<queueSize, closed, topics, done, panicked, ch, handling, sends, bc,
                   calls, targets, handled, missed, earlier>>

Next ==
    \/ \E t \in Topics :
          \/ UnsubscribeAll(t)
          \/ \E s \in Subs : Subscribe(t, s)
          \/ \E b \in Broadcasters : Broadcast(b, t)
    \/ Close
    \/ \E b \in Broadcasters : BroadcastReturn(b)
    \/ \E m \in Msgs, s \in Subs : Send(m, s) \/ SendDone(m, s) \/ SendExpired(m, s)
    \/ \E s \in Subs : Receive(s) \/ HandlerReturns(s) \/ HandlerPanics(s) \/ HandlerEnds(s)

Spec == Init /\ [][Next]_vars

(* Goroutines at a select with a ready branch are scheduled and a handler  *)
(* comes to an end; no context expires and nobody unsubscribes.            *)
Fairness ==
    /\ \A m \in Msgs, s \in Subs : WF_vars(Send(m, s) \/ SendDone(m, s))
    /\ \A s \in Subs : WF_vars(Receive(s) \/ HandlerReturns(s) \/ HandlerEnds(s))
    /\ \A b \in Broadcasters : WF_vars(BroadcastReturn(b))

FairSpec == Spec /\ Fairness

-----------------------------------------------------------------------------
(* Properties.                                                             *)

TypeOK ==
    /\ queueSize \in QueueSizes
    /\ closed \in BOOLEAN
    /\ topics \in [Topics -> SUBSET Subs]
    /\ done \in SUBSET Subs
    /\ panicked \in BOOLEAN
    /\ ch \in [Subs -> Seq(Msgs)]
    /\ \A s \in Subs : Len(ch[s]) <= queueSize
    /\ handler \in [Subs -> {"absent", "select", "handling", "ended"}]
    /\ handling \in [Subs -> Msgs \cup {NoMsg}]
    /\ sends \in SUBSET targets
    /\ bc \in [Broadcasters -> Msgs \cup {NoMsg}]
    /\ calls \in 0 .. MaxMsgs
    /\ targets \in SUBSET (Msgs \X Subs)
    /\ handled \in SUBSET targets
    /\ missed \in SUBSET targets
    /\ earlier \in [Msgs -> SUBSET Msgs]

(* No channel done is closed twice, which would panic with mu locked: not  *)
(* by a Close after UnsubscribeAll, nor by either of them twice.           *)
NoDoubleClose == ~panicked

(* A Broadcast that returned has given its message to every subscription   *)
(* it found, other than those its context or their end took from it, and   *)
(* to each of them once.                                                   *)
Delivered ==
    \A m \in Returned, s \in Subs :
        LET held == {i \in DOMAIN ch[s] : ch[s][i] = m} IN
        /\ (<<m, s>> \in targets /\ <<m, s>> \notin missed /\ s \notin done) =>
               held # {} \/ <<m, s>> \in handled
        /\ Cardinality(held) + (IF <<m, s>> \in handled THEN 1 ELSE 0) <= 1

(* A subscriber is given messages in the order callers can tell: when it   *)
(* is given one, nothing that was broadcast before is still to come.       *)
HandledInOrder ==
    \A m \in Msgs, s \in Subs : <<m, s>> \in handled =>
        \A k \in earlier[m] : <<k, s>> \notin sends /\ ~Contains(ch[s], k)

(* A Broadcast ends, and the goroutine of a subscription that was ended    *)
(* does, unless a handler panicked: the subscription of that one takes no  *)
(* message any more and holds up every Broadcast of its topic.             *)
Settles ==
    /\ \A b \in Broadcasters :
          bc[b] # NoMsg ~>
              bc[b] = NoMsg \/ \E s \in Subs : handler[s] = "ended" /\ s \notin done
    /\ \A s \in Subs : s \in done ~> handler[s] = "ended"

=============================================================================
