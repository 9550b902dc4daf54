------------------------------ MODULE MemQueue ------------------------------
(***************************************************************************)
(* memory.Queue (mq/memory/queue.go): a point-to-point queue made of one   *)
(* buffered Go channel per topic.                                          *)
(*                                                                         *)
(* The map of channels is read and written under mu; a channel is sent to, *)
(* received from and drained after mu was released, so every call takes    *)
(* its channel in one step and uses it in later ones, and Close closes the *)
(* channels in between.  Channels have an identity of their own: that a    *)
(* topic has only one is what getOrCreateQueue is there for.               *)
(*                                                                         *)
(* A context that expires is a call that gives up: the select may take     *)
(* that branch whatever else is ready.  Messages are numbered in the order *)
(* they are accepted; the order in which Go wakes blocked senders is left  *)
(* open.                                                                   *)
(***************************************************************************)
EXTENDS Naturals, Sequences, FiniteSets, SequencesExt

CONSTANTS
    Topics,
    Clients,      \* the goroutines that call the queue, one call at a time
    QueueSizes,   \* the sizes WithQueueSize is given
    MaxMsgs       \* bound: messages accepted or on their way

ASSUME ClientsAssumption == IsFiniteSet(Topics) /\ IsFiniteSet(Clients)
ASSUME QueueSizesAssumption == QueueSizes \subseteq Nat
ASSUME MaxMsgsAssumption == MaxMsgs \in Nat

VARIABLES
    queueSize,
    closed,
    queues,     \* queues[t]: the channel of a topic, NoChan before its first use
    made,       \* how many channels were made
    open,       \* the channels that are not closed
    buf,        \* buf[ch]: the messages in a channel
    pc,         \* pc[c]: the select c is at, or "idle"
    chan,       \* chan[c]: the channel c has taken from the map
    topic,      \* topic[c]: the topic c publishes to
    ret,        \* what the last step returned to its caller, or "none"
    \* history
    accepted,   \* accepted[m]: the topic of a message whose Publish returned nil
    received,   \* the messages taken out of a channel
    seen,       \* seen[c]: what was accepted for its topic when c began
    before      \* before[m]: what was accepted for its topic when its Publish began

vars == <<queueSize, closed, queues, made, open, buf, pc, chan, topic, ret,
          accepted, received, seen, before>>

-----------------------------------------------------------------------------

NoChan == 0
Chans == 1 .. (Cardinality(Topics) + 1)
Msgs == 1 .. MaxMsgs
NoTopic == "none"

ASSUME NoTopicAssumption == NoTopic \notin Topics

Init ==
    /\ queueSize \in QueueSizes
    /\ closed = FALSE
    /\ queues = [t \in Topics |-> NoChan]
    /\ made = 0
    /\ open = {}
    /\ buf = [ch \in Chans |-> <<>>]
    /\ pc = [c \in Clients |-> "idle"]
    /\ chan = [c \in Clients |-> NoChan]
    /\ topic = [c \in Clients |-> NoTopic]
    /\ ret = "none"
    /\ accepted = [m \in Msgs |-> NoTopic]
    /\ received = {}
    /\ seen = [c \in Clients |-> {}]
    /\ before = [m \in Msgs |-> {}]

Accepted == {m \in Msgs : accepted[m] # NoTopic}
AcceptedFor(t) == {m \in Msgs : accepted[m] = t}

(* Variants: a closed queue that still makes channels, a full channel that *)
(* is replaced, a purge that drops the channel from the map.               *)
BadGetOrCreateClosed(c, t, next) ==
    /\ chan' = [chan EXCEPT ![c] = IF queues[t] = NoChan THEN made + 1 ELSE queues[t]]
    /\ queues' = [queues EXCEPT ![t] = chan'[c]]
    /\ made' = IF queues[t] = NoChan THEN made + 1 ELSE made
    /\ open' = IF queues[t] = NoChan THEN open \cup {made'} ELSE open
    /\ pc' = [pc EXCEPT ![c] = next]
    /\ ret' = "none"

BadGetOrCreateFull(c, t, next) ==
    LET fresh == queues[t] = NoChan \/ (next = "publish" /\ Len(buf[queues[t]]) = queueSize)
    IN
    /\ ~closed
    /\ fresh => made + 1 \in Chans
    /\ chan' = [chan EXCEPT ![c] = IF fresh THEN made + 1 ELSE queues[t]]
    /\ queues' = [queues EXCEPT ![t] = chan'[c]]
    /\ made' = IF fresh THEN made + 1 ELSE made
    /\ open' = IF fresh THEN open \cup {made'} ELSE open
    /\ pc' = [pc EXCEPT ![c] = next]
    /\ ret' = "none"

BadPurgeQueue(c, t) ==
    /\ pc[c] = "idle"
    /\ ~closed
    /\ queues' = [queues EXCEPT ![t] = NoChan]
    /\ received' = received \cup (IF queues[t] = NoChan THEN {} ELSE Range(buf[queues[t]]))
    /\ ret' = "ok"
    /\ UNCHANGED <<queueSize, closed, made, open, buf, pc, chan, topic, accepted, seen,
                   before>>

(* getOrCreateQueue for a call of c that goes on to the select next; the   *)
(* call returns ErrQueueClosed when the queue is closed.                   *)
GetOrCreateQueue(c, t, next) ==
    \/ /\ closed
       /\ ret' = "closed"
       /\ UNCHANGED <<queues, made, open, pc, chan>>
    \/ /\ ~closed
       /\ queues[t] # NoChan
       /\ chan' = [chan EXCEPT ![c] = queues[t]]
       /\ pc' = [pc EXCEPT ![c] = next]
       /\ ret' = "none"
       /\ UNCHANGED <<queues, made, open>>
    \/ /\ ~closed
       /\ queues[t] = NoChan
       /\ made' = made + 1
       /\ queues' = [queues EXCEPT ![t] = made']
       /\ open' = open \cup {made'}
       /\ chan' = [chan EXCEPT ![c] = made']
       /\ pc' = [pc EXCEPT ![c] = next]
       /\ ret' = "none"

Publish(c, t) ==
    /\ pc[c] = "idle"
    /\ Cardinality(Accepted) + Cardinality({d \in Clients : pc[d] = "publish"}) < MaxMsgs
    /\ GetOrCreateQueue(c, t, "publish")
    /\ topic' = [topic EXCEPT ![c] = IF closed THEN @ ELSE t]
    /\ seen' = [seen EXCEPT ![c] = IF closed THEN @ ELSE AcceptedFor(t)]
    /\ UNCHANGED <<queueSize, closed, buf, accepted, received, before>>

Consume(c, t) ==
    /\ pc[c] = "idle"
    /\ GetOrCreateQueue(c, t, "consume")
    /\ UNCHANGED <<queueSize, closed, buf, topic, accepted, received, seen, before>>

(* getQueue, for TryConsume and PurgeQueue: no channel is made.            *)
GetQueue(c, t, next, missing) ==
    /\ pc[c] = "idle"
    /\ IF closed \/ queues[t] = NoChan
       THEN /\ ret' = IF closed THEN "closed" ELSE missing
            /\ UNCHANGED <<pc, chan, seen>>
       ELSE /\ chan' = [chan EXCEPT ![c] = queues[t]]
            /\ pc' = [pc EXCEPT ![c] = next]
            /\ ret' = "none"
            /\ seen' = [seen EXCEPT ![c] = IF next = "purge" THEN AcceptedFor(t) ELSE {}]
    /\ UNCHANGED <<queueSize, closed, queues, made, open, buf, topic, accepted,
                   received, before>>

TryConsume(c, t) == GetQueue(c, t, "try", "empty")
PurgeQueue(c, t) == GetQueue(c, t, "purge", "ok")

Close(c) ==
    /\ pc[c] = "idle"
    /\ closed' = TRUE
    /\ open' = {}
    /\ ret' = "ok"
    /\ UNCHANGED <<queueSize, queues, made, buf, pc, chan, topic, accepted,
                   received, seen, before>>

-----------------------------------------------------------------------------
(* The selects.                                                            *)

Return(c, r) ==
    /\ pc' = [pc EXCEPT ![c] = "idle"]
    /\ chan' = [chan EXCEPT ![c] = NoChan]
    /\ topic' = [topic EXCEPT ![c] = NoTopic]
    /\ seen' = [seen EXCEPT ![c] = {}]
    /\ ret' = r

NextMsg == Cardinality(Accepted) + 1

(* The channel takes the message of c, or a receiver does.                 *)
Accept(c) ==
    /\ accepted' = [accepted EXCEPT ![NextMsg] = topic[c]]
    /\ before' = [before EXCEPT ![NextMsg] = seen[c]]

(* A channel with room takes the message.                                  *)
Send(c) ==
    LET ch == chan[c] IN
    /\ pc[c] = "publish"
    /\ ch \in open
    /\ Len(buf[ch]) < queueSize
    /\ buf' = [buf EXCEPT ![ch] = Append(@, NextMsg)]
    /\ Accept(c)
    /\ Return(c, "ok")
    /\ UNCHANGED <<queueSize, closed, queues, made, open, received>>

(* A send to a closed channel panics, also one that was blocked before.    *)
SendPanics(c) ==
    /\ pc[c] = "publish"
    /\ chan[c] \notin open
    /\ Return(c, "panic")
    /\ UNCHANGED <<queueSize, closed, queues, made, open, buf, accepted, received,
                   before>>

(* Variant: a purge that receives once.                                    *)
BadTook(c) == Return(c, "ok")

(* What a received message means for the receiver: a drain goes on.        *)
Took(c) ==
    IF pc[c] = "purge"
    THEN ret' = "none" /\ UNCHANGED <<pc, chan, topic, seen>>
    ELSE Return(c, "ok")

(* The head of a channel, open or closed.                                  *)
Receive(c) ==
    LET ch == chan[c] IN
    /\ pc[c] \in {"consume", "try", "purge"}
    /\ buf[ch] # <<>>
    /\ buf' = [buf EXCEPT ![ch] = Tail(@)]
    /\ received' = received \cup {Head(buf[ch])}
    /\ Took(c)
    /\ UNCHANGED <<queueSize, closed, queues, made, open, accepted, before>>

(* An unbuffered channel hands the message of a waiting publisher over.    *)
HandOver(p, c) ==
    LET ch == chan[c] IN
    /\ pc[p] = "publish" /\ pc[c] \in {"consume", "try", "purge"}
    /\ chan[p] = ch
    /\ ch \in open
    /\ queueSize = 0
    /\ Accept(p)
    /\ received' = received \cup {NextMsg}
    /\ pc' = [pc EXCEPT ![p] = "idle", ![c] = IF @ = "purge" THEN @ ELSE "idle"]
    /\ chan' = [chan EXCEPT ![p] = NoChan, ![c] = IF pc[c] = "purge" THEN @ ELSE NoChan]
    /\ topic' = [topic EXCEPT ![p] = NoTopic]
    /\ seen' = [seen EXCEPT ![p] = {}]
    /\ ret' = "ok"
    /\ UNCHANGED <<queueSize, closed, queues, made, open, buf>>

(* A closed channel that is drained: ErrQueueClosed.                       *)
ReceiveClosed(c) ==
    /\ pc[c] \in {"consume", "try", "purge"}
    /\ chan[c] \notin open
    /\ buf[chan[c]] = <<>>
    /\ Return(c, "closed")
    /\ UNCHANGED <<queueSize, closed, queues, made, open, buf, accepted, received,
                   before>>

(* The default branch: nothing to receive from an open channel.            *)
NothingThere(c) ==
    /\ pc[c] \in {"try", "purge"}
    /\ chan[c] \in open
    /\ buf[chan[c]] = <<>>
    /\ Return(c, IF pc[c] = "try" THEN "empty" ELSE "ok")
    /\ UNCHANGED <<queueSize, closed, queues, made, open, buf, accepted, received,
                   before>>

(* The context has expired.                                                *)
GiveUp(c) ==
    /\ pc[c] # "idle"
    /\ Return(c, "ctxErr")
    /\ UNCHANGED <<queueSize, closed, queues, made, open, buf, accepted, received,
                   before>>

Select(c) ==
    \/ Send(c) \/ SendPanics(c) \/ Receive(c) \/ ReceiveClosed(c) \/ NothingThere(c)
    \/ \E p \in Clients \ {c} : HandOver(p, c)

Next ==
    \/ \E c \in Clients, t \in Topics :
          Publish(c, t) \/ Consume(c, t) \/ TryConsume(c, t) \/ PurgeQueue(c, t)
    \/ \E c \in Clients : Close(c) \/ Select(c) \/ GiveUp(c)

Spec == Init /\ [][Next]_vars

(* A goroutine at a select with a ready channel is scheduled; no context   *)
(* has to expire and no call has to be made.                               *)
FairSpec == Spec /\ \A c \in Clients : WF_vars(Select(c))

-----------------------------------------------------------------------------
(* Properties.                                                             *)

(* An accepted message that nobody took is in the one channel a later call *)
(* for its topic is given, once: none is left in a channel nobody can      *)
(* reach, whatever calls raced to make it.                                 *)
NothingLost ==
    \A m \in Accepted \ received :
        LET ch == queues[accepted[m]] IN
        /\ ch # NoChan
        /\ Cardinality({i \in DOMAIN buf[ch] : buf[ch][i] = m}) = 1

(* Messages leave a topic in the order callers can tell: one that was      *)
(* accepted before Publish of another began is taken out before it.        *)
InOrder == \A m \in received : before[m] \subseteq received

(* A PurgeQueue that returns nil has removed every message accepted before *)
(* it began, however many publishers and consumers run beside its loop.    *)
PurgeRemoves ==
    [][\A c \in Clients :
          (pc[c] = "purge" /\ pc'[c] = "idle" /\ ret' = "ok") => seen[c] \subseteq received']_vars

(* A Close releases every call that is blocked in a channel.               *)
CloseReleases ==
    \A c \in Clients : (closed /\ pc[c] # "idle") ~> pc[c] = "idle"

-----------------------------------------------------------------------------
(* The queue as lines of messages, one per topic.                          *)

Line == [t \in Topics |-> IF queues[t] = NoChan THEN <<>> ELSE buf[queues[t]]]
TopicOf(ch) ==
    IF \E t \in Topics : queues[t] = ch THEN CHOOSE t \in Topics : queues[t] = ch ELSE NoTopic
Call == [c \in Clients |-> IF pc[c] = "idle" THEN [kind |-> "idle"]
                           ELSE [kind |-> pc[c], topic |-> TopicOf(chan[c])]]

Abs == INSTANCE TopicLines
           WITH room <- queueSize, line <- Line, sent <- Accepted, call <- Call, Messages <- Msgs

(* The queue implements its lines: although calls use a channel after they *)
(* let go of the lock, and Close closes it under their hands, every message *)
(* goes through the one line of its own topic, in order, or by hand.       *)
OneLinePerTopic == Abs!Spec

=============================================================================
