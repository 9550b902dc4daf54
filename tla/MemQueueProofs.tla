--------------------------- MODULE MemQueueProofs ---------------------------
(* The safety of MemQueue for any number of topics, clients and messages and *)
(* queues of any size.                                                       *)
EXTENDS MemQueue, FiniteSetTheorems, TLAPS

Selects == {"idle", "publish", "consume", "try", "purge"}

QueueTypes ==
    /\ queueSize \in Nat
    /\ queues \in [Topics -> Chans \cup {NoChan}]
    /\ made \in Nat
    /\ buf \in [Chans -> Seq(Msgs)]
    /\ accepted \in [Msgs -> Topics \cup {NoTopic}]
    /\ received \in SUBSET Msgs
    /\ before \in [Msgs -> SUBSET Msgs]

CallTypes ==
    /\ closed \in BOOLEAN
    /\ open \in SUBSET Chans
    /\ pc \in [Clients -> Selects]
    /\ chan \in [Clients -> Chans \cup {NoChan}]
    /\ topic \in [Clients -> Topics \cup {NoTopic}]
    /\ seen \in [Clients -> SUBSET Msgs]

TypeOK == QueueTypes /\ CallTypes

\* The channels that were made are those of the topics in use, one for each;
\* the others are empty.
Used == {t \in Topics : queues[t] # NoChan}

OneChannel ==
    /\ made = Cardinality(Used)
    /\ \A t \in Used : queues[t] \in 1..made
    /\ \A t, u \in Used : queues[t] = queues[u] => t = u
    /\ \A ch \in Chans : ch > made => buf[ch] = <<>>

\* Messages have the numbers up to the last one that was accepted, and those
\* on their way have a number left.
Publishing == {d \in Clients : pc[d] = "publish"}

Numbered ==
    /\ Accepted = 1 .. Cardinality(Accepted)
    /\ received \subseteq Accepted

Room == Cardinality(Accepted) + Cardinality(Publishing) <= MaxMsgs

\* The channel of a topic has what was accepted for it and not received, in
\* the order of the numbers.
Content(t) ==
    LET b == buf[queues[t]] IN
    /\ Len(b) <= queueSize
    /\ \A i \in DOMAIN b : accepted[b[i]] = t /\ b[i] \notin received
    /\ \A i, j \in DOMAIN b : i < j => b[i] < b[j]

InBuffer(m) ==
    /\ accepted[m] \in Used
    /\ \E i \in DOMAIN buf[queues[accepted[m]]] : buf[queues[accepted[m]]][i] = m

Contents ==
    /\ \A t \in Used : Content(t)
    /\ \A m \in Accepted \ received : InBuffer(m)

\* What was accepted before a message has lower numbers and its topic.
Earlier ==
    \A m \in Accepted : \A x \in before[m] :
        x \in Accepted /\ accepted[x] = accepted[m] /\ x < m

\* A call has the channel of its topic, and saw messages of that topic.
Holding(c) ==
    pc[c] # "idle" =>
        \E t \in Used :
            /\ chan[c] = queues[t]
            /\ pc[c] = "publish" => topic[c] = t
            /\ pc[c] \in {"publish", "purge"} => seen[c] \subseteq AcceptedFor(t)

\* What the messages and channels satisfy, and what the calls do.
QueueInv == QueueTypes /\ OneChannel /\ Numbered /\ Contents /\ Earlier /\ InOrder
CallInv == CallTypes /\ Room /\ \A c \in Clients : Holding(c)

\* The inductive invariant.
IInv == QueueInv /\ CallInv

-----------------------------------------------------------------------------
LEMMA Finite ==
    ASSUME QueueTypes
    PROVE  /\ IsFiniteSet(Accepted) /\ Cardinality(Accepted) \in Nat
           /\ IsFiniteSet(Used) /\ Cardinality(Used) \in Nat
           /\ Cardinality(Used) <= Cardinality(Topics)
           /\ Cardinality(Topics) \in Nat
           /\ IsFiniteSet(Publishing) /\ Cardinality(Publishing) \in Nat
<1>1. IsFiniteSet(Msgs)
    BY MaxMsgsAssumption, FS_Interval DEF Msgs
<1>2. IsFiniteSet(Accepted)
    BY <1>1, FS_Subset DEF Accepted
<1>3. IsFiniteSet(Used) /\ Cardinality(Used) <= Cardinality(Topics)
    BY ClientsAssumption, FS_Subset DEF Used
<1>4. IsFiniteSet(Publishing)
    BY ClientsAssumption, FS_Subset DEF Publishing
<1> QED
    BY <1>2, <1>3, <1>4, ClientsAssumption, FS_CardinalityType

\* A step that neither makes a channel nor moves a message.
Quiet == UNCHANGED <<queueSize, queues, made, buf, accepted, received, before>>

LEMMA QuietKeeps == QueueInv /\ Quiet => QueueInv'
<1> SUFFICES ASSUME QueueInv, Quiet PROVE QueueInv'
    OBVIOUS
<1>1. Used' = Used /\ Accepted' = Accepted
    BY DEF Quiet, Used, Accepted
<1>2. QueueTypes' /\ InOrder'
    BY DEF QueueInv, QueueTypes, Quiet, InOrder
<1>3. OneChannel' /\ Numbered'
    BY <1>1 DEF QueueInv, OneChannel, Numbered, Quiet
<1>4. Contents'
    BY <1>1 DEF QueueInv, Contents, Content, InBuffer, Quiet
<1>5. Earlier'
    BY <1>1 DEF QueueInv, Earlier, Quiet
<1> QED
    BY <1>2, <1>3, <1>4, <1>5 DEF QueueInv

\* The number of publishers does not grow, nor does that of messages.
LEMMA RoomKept ==
    ASSUME QueueTypes, QueueTypes', Room, accepted' = accepted, Publishing' \subseteq Publishing
    PROVE  Room'
<1>1. Cardinality(Publishing') <= Cardinality(Publishing)
    BY Finite, FS_Subset
<1>2. Accepted' = Accepted
    BY DEF Accepted
<1>3. Cardinality(Publishing') \in Nat
    <2>1. IsFiniteSet(Publishing')
        BY Finite, FS_Subset
    <2> QED
        BY <2>1, FS_CardinalityType
<1> QED
    BY <1>1, <1>2, <1>3, Finite, MaxMsgsAssumption DEF Room

\* A call that returns leaves the others as they are.
LEMMA ReturnKeeps ==
    ASSUME IInv, NEW c \in Clients, NEW r, Return(c, r), Quiet, UNCHANGED <<closed, open>>
    PROVE  IInv'
<1>1. QueueInv'
    BY QuietKeeps DEF IInv
<1>2. CallTypes'
    BY DEF IInv, CallInv, CallTypes, Return, Selects
<1>3. Room'
    <2>1. Publishing' \subseteq Publishing
        BY DEF Publishing, Return, IInv, CallInv, CallTypes
    <2> QED
        BY <1>1, <2>1, RoomKept DEF IInv, QueueInv, CallInv, Quiet
<1>4. ASSUME NEW d \in Clients PROVE Holding(d)'
    BY DEF IInv, CallInv, CallTypes, Holding, Return, Quiet, Used, AcceptedFor
<1> QED
    BY <1>1, <1>2, <1>3, <1>4 DEF IInv, CallInv

\* A call that takes the channel of t, which is in use after the step.
LEMMA TakeKeeps ==
    ASSUME IInv, QueueInv', NEW c \in Clients, NEW t \in Topics,
           NEW p \in {"publish", "consume", "try", "purge"},
           pc[c] = "idle",
           UNCHANGED <<accepted, closed>>, open' \in SUBSET Chans,
           t \in Used', \A u \in Used : queues'[u] = queues[u],
           pc' = [pc EXCEPT ![c] = p],
           chan' = [chan EXCEPT ![c] = queues'[t]],
           IF p = "publish"
           THEN Cardinality(Accepted) + Cardinality(Publishing) < MaxMsgs /\ topic' = [topic EXCEPT ![c] = t]
           ELSE topic' = topic,
           seen' = seen \/ seen' = [seen EXCEPT ![c] = AcceptedFor(t)] \/ seen' = [seen EXCEPT ![c] = {}],
           p \in {"publish", "purge"} => seen' = [seen EXCEPT ![c] = AcceptedFor(t)]
    PROVE  IInv'
<1>1. CallTypes'
    <2>1. AcceptedFor(t) \in SUBSET Msgs
        BY DEF AcceptedFor
    <2>2. queues'[t] \in Chans \cup {NoChan}
        BY DEF QueueInv, QueueTypes
    <2>3. closed' \in BOOLEAN /\ open' \in SUBSET Chans /\ pc' \in [Clients -> Selects]
        BY DEF IInv, CallInv, CallTypes, Selects
    <2>4. chan' \in [Clients -> Chans \cup {NoChan}]
        BY <2>2 DEF IInv, CallInv, CallTypes
    <2>5. topic' \in [Clients -> Topics \cup {NoTopic}]
        BY DEF IInv, CallInv, CallTypes
    <2>6. seen' \in [Clients -> SUBSET Msgs]
        BY <2>1 DEF IInv, CallInv, CallTypes
    <2> QED
        BY <2>3, <2>4, <2>5, <2>6 DEF CallTypes
<1>2. Room'
    <2>1. CASE p = "publish"
        <3>1. Publishing' = Publishing \cup {c}
            BY <2>1 DEF Publishing, IInv, CallInv, CallTypes
        <3>2. c \notin Publishing
            BY DEF Publishing
        <3>3. Cardinality(Publishing') = Cardinality(Publishing) + 1
            BY <3>1, <3>2, Finite, FS_AddElement DEF IInv, QueueInv
        <3>4. Accepted' = Accepted
            BY DEF Accepted
        <3> QED
            BY <2>1, <3>3, <3>4, Finite, MaxMsgsAssumption DEF Room, IInv, QueueInv
    <2>2. CASE p # "publish"
        <3>1. Publishing' \subseteq Publishing
            BY <2>2 DEF Publishing, IInv, CallInv, CallTypes
        <3> QED
            BY <3>1, RoomKept DEF IInv, QueueInv, CallInv
    <2> QED
        BY <2>1, <2>2
<1>3. ASSUME NEW d \in Clients PROVE Holding(d)'
    <2>1. CASE d = c
        <3>1. chan'[d] = queues'[t] /\ pc'[d] = p
            BY <2>1 DEF IInv, CallInv, CallTypes
        <3>2. p = "publish" => topic'[d] = t
            BY <2>1 DEF IInv, CallInv, CallTypes
        <3>3. p \in {"publish", "purge"} => seen'[d] \subseteq AcceptedFor(t)'
            BY <2>1 DEF IInv, CallInv, CallTypes, AcceptedFor
        <3> QED
            BY <3>1, <3>2, <3>3 DEF Holding
    <2>2. CASE d # c
        <3>1. /\ chan'[d] = chan[d] /\ pc'[d] = pc[d] /\ topic'[d] = topic[d]
              /\ seen'[d] = seen[d]
            BY <2>2 DEF IInv, CallInv, CallTypes
        <3>2. \A u \in Used : u \in Used' /\ queues'[u] = queues[u] /\ AcceptedFor(u)' = AcceptedFor(u)
            BY DEF Used, AcceptedFor
        <3>3. Holding(d)
            BY DEF IInv, CallInv
        <3> QED
            BY <3>1, <3>2, <3>3 DEF Holding
    <2> QED
        BY <2>1, <2>2
<1> QED
    BY <1>1, <1>2, <1>3 DEF IInv, CallInv

-----------------------------------------------------------------------------
\* A channel is made for a topic that had none.
LEMMA MakeKeeps ==
    ASSUME IInv, NEW t \in Topics, queues[t] = NoChan,
           made' = made + 1, queues' = [queues EXCEPT ![t] = made'],
           UNCHANGED <<queueSize, buf, accepted, received, before>>
    PROVE  QueueInv' /\ made' \in Chans /\ t \in Used' /\ \A u \in Used : queues'[u] = queues[u]
<1>1. t \notin Used /\ Used' = Used \cup {t} /\ \A u \in Used : queues'[u] = queues[u]
    <2>1. made' # NoChan
        BY DEF IInv, QueueInv, QueueTypes, NoChan
    <2> QED
        BY <2>1 DEF Used, IInv, QueueInv, QueueTypes
<1>2. made' \in Chans /\ made' = Cardinality(Used')
    <2>1. Cardinality(Used') = Cardinality(Used) + 1
        BY <1>1, Finite, FS_AddElement DEF IInv, QueueInv
    <2>2. made = Cardinality(Used)
        BY DEF IInv, QueueInv, OneChannel
    <2> QED
        BY <2>1, <2>2, Finite DEF Chans, IInv, QueueInv
<1>3. queues'[t] = made' /\ Accepted' = Accepted
    BY DEF IInv, QueueInv, QueueTypes, Accepted
<1>4. QueueTypes' /\ InOrder'
    <2>1. queues' \in [Topics -> Chans \cup {NoChan}]
        BY <1>2 DEF IInv, QueueInv, QueueTypes
    <2> QED
        BY <2>1 DEF IInv, QueueInv, QueueTypes, InOrder
<1>5. OneChannel'
    <2>1. \A u \in Used : queues[u] \in 1..made
        BY DEF IInv, QueueInv, OneChannel
    <2>2. \A u \in Used' : queues'[u] \in 1..made'
        BY <1>1, <1>3, <2>1 DEF IInv, QueueInv, QueueTypes
    <2>3. \A u, v \in Used' : queues'[u] = queues'[v] => u = v
        BY <1>1, <1>3, <2>1 DEF IInv, QueueInv, QueueTypes, OneChannel
    <2>4. \A ch \in Chans : ch > made' => buf'[ch] = <<>>
        BY DEF IInv, QueueInv, QueueTypes, OneChannel, Chans
    <2> QED
        BY <1>2, <2>2, <2>3, <2>4 DEF OneChannel
<1>6. Numbered' /\ Earlier'
    BY <1>3 DEF IInv, QueueInv, Numbered, Earlier
<1>7. Contents'
    <2>1. buf'[queues'[t]] = <<>>
        BY <1>2, <1>3 DEF IInv, QueueInv, QueueTypes, OneChannel
    <2>2. Content(t)'
        BY <2>1 DEF Content, IInv, QueueInv, QueueTypes
    <2>3. \A u \in Used : Content(u)'
        BY <1>1 DEF Content, IInv, QueueInv, Contents
    <2>4. \A m \in Accepted \ received : InBuffer(m)'
        BY <1>1 DEF InBuffer, IInv, QueueInv, Contents
    <2> QED
        BY <1>1, <1>3, <2>2, <2>3, <2>4 DEF Contents
<1> QED
    BY <1>1, <1>2, <1>4, <1>5, <1>6, <1>7 DEF QueueInv

\* The number that is next is free, and those before it are taken.
LEMMA NextIsFree ==
    ASSUME IInv, NEW c \in Clients, pc[c] = "publish"
    PROVE  /\ NextMsg \in Msgs \ Accepted
           /\ \A m \in Accepted : m < NextMsg
           /\ Accepted \cup {NextMsg} = 1 .. NextMsg
<1>1. Cardinality(Publishing) # 0
    BY Finite, FS_EmptySet DEF Publishing, IInv, QueueInv
<1>2. Cardinality(Accepted) < MaxMsgs
    BY <1>1, Finite, MaxMsgsAssumption DEF IInv, QueueInv, CallInv, Room
<1> QED
    BY <1>2, Finite, MaxMsgsAssumption DEF IInv, QueueInv, Numbered, NextMsg, Msgs

\* What Accept does, for a call that publishes to t.
LEMMA Accepts ==
    ASSUME IInv, NEW c \in Clients, pc[c] = "publish", Accept(c),
           received' = received \/ received' = received \cup {NextMsg}
    PROVE  /\ accepted' \in [Msgs -> Topics \cup {NoTopic}] /\ before' \in [Msgs -> SUBSET Msgs]
           /\ received' \in SUBSET Msgs
           /\ Accepted' = Accepted \cup {NextMsg}
           /\ Cardinality(Accepted') = Cardinality(Accepted) + 1
           /\ Numbered' /\ Earlier'
           /\ \A m \in Accepted : accepted'[m] = accepted[m] /\ before'[m] = before[m]
           /\ \A u \in Topics : AcceptedFor(u) \subseteq AcceptedFor(u)'
           /\ topic[c] \in Used /\ chan[c] = queues[topic[c]]
           /\ accepted'[NextMsg] = topic[c] /\ before'[NextMsg] \subseteq AcceptedFor(topic[c])
<1> DEFINE t == topic[c]
<1>1. /\ t \in Used /\ t \in Topics /\ chan[c] = queues[t] /\ seen[c] \subseteq AcceptedFor(t)
      /\ seen[c] \in SUBSET Msgs
    BY DEF IInv, CallInv, CallTypes, Holding, Used
<1>2. t # NoTopic
    BY <1>1, NoTopicAssumption
<1>3. /\ accepted' \in [Msgs -> Topics \cup {NoTopic}] /\ before' \in [Msgs -> SUBSET Msgs]
      /\ received' \in SUBSET Msgs
    BY <1>1, NextIsFree DEF IInv, QueueInv, QueueTypes, Accept
<1>4. /\ \A m \in Msgs \ {NextMsg} : accepted'[m] = accepted[m] /\ before'[m] = before[m]
      /\ accepted'[NextMsg] = t /\ before'[NextMsg] = seen[c]
    BY NextIsFree DEF IInv, QueueInv, QueueTypes, Accept
<1>5. Accepted' = Accepted \cup {NextMsg}
    BY <1>2, <1>4, NextIsFree DEF Accepted
<1>6. Cardinality(Accepted') = Cardinality(Accepted) + 1
    BY <1>5, NextIsFree, Finite, FS_AddElement DEF IInv, QueueInv
<1>7. Numbered'
    BY <1>5, <1>6, NextIsFree DEF IInv, QueueInv, Numbered, NextMsg
<1>8. \A u \in Topics : AcceptedFor(u) \subseteq AcceptedFor(u)'
    BY <1>4, NextIsFree, NoTopicAssumption DEF AcceptedFor, Accepted
<1>9. \A m \in Accepted : accepted'[m] = accepted[m] /\ before'[m] = before[m]
    BY <1>4, NextIsFree DEF Accepted
<1>10. Earlier'
    <2>1. ASSUME NEW x \in seen[c]
          PROVE  x \in Accepted /\ accepted[x] = t /\ x < NextMsg
        BY <1>1, <1>2, NextIsFree DEF AcceptedFor, Accepted
    <2>2. \A x \in before'[NextMsg] : x \in Accepted' /\ accepted'[x] = accepted'[NextMsg] /\ x < NextMsg
        BY <2>1, <1>4, <1>5, <1>9
    <2>3. \A m \in Accepted : \A x \in before'[m] : x \in Accepted' /\ accepted'[x] = accepted'[m] /\ x < m
        BY <1>5, <1>9 DEF IInv, QueueInv, Earlier
    <2> QED
        BY <2>2, <2>3, <1>5 DEF Earlier
<1> QED
    BY <1>1, <1>3, <1>4, <1>5, <1>6, <1>7, <1>8, <1>9, <1>10

\* Calls whose publisher p has returned with its message accepted; the receiver
\* c, if there is one, has at most returned.
LEMMA AcceptedCalls ==
    ASSUME IInv, NEW p \in Clients, NEW c \in Clients,
           pc[p] = "publish", pc[c] # "idle", Accept(p),
           QueueTypes', Numbered', Cardinality(Accepted') = Cardinality(Accepted) + 1,
           \A u \in Topics : AcceptedFor(u) \subseteq AcceptedFor(u)',
           UNCHANGED <<closed, open, queues>>,
           pc' \in [Clients -> Selects], chan' \in [Clients -> Chans \cup {NoChan}],
           topic' \in [Clients -> Topics \cup {NoTopic}], seen' \in [Clients -> SUBSET Msgs],
           pc'[p] = "idle",
           \A d \in Clients : pc'[d] # "idle" =>
               pc'[d] = pc[d] /\ chan'[d] = chan[d] /\ topic'[d] = topic[d] /\ seen'[d] = seen[d]
    PROVE  CallInv'
<1>1. CallTypes'
    BY DEF CallTypes, IInv, CallInv
<1>2. Room'
    <2>1. Publishing' \subseteq Publishing \ {p} /\ p \in Publishing
        BY DEF Publishing
    <2>2. IsFiniteSet(Publishing \ {p}) /\ Cardinality(Publishing \ {p}) = Cardinality(Publishing) - 1
        BY <2>1, Finite, FS_RemoveElement DEF IInv, QueueInv
    <2>3. Cardinality(Publishing') <= Cardinality(Publishing \ {p}) /\ IsFiniteSet(Publishing')
        BY <2>1, <2>2, FS_Subset
    <2>4. Cardinality(Publishing') \in Nat
        BY <2>3, FS_CardinalityType
    <2> QED
        BY <2>2, <2>3, <2>4, Finite, MaxMsgsAssumption DEF IInv, QueueInv, CallInv, Room
<1>3. ASSUME NEW d \in Clients PROVE Holding(d)'
    <2>1. Holding(d)
        BY DEF IInv, CallInv
    <2>2. Used' = Used
        BY DEF Used
    <2> QED
        BY <2>1, <2>2 DEF Holding, Used
<1> QED
    BY <1>1, <1>2, <1>3 DEF CallInv

\* The elements of a longer and of a shorter sequence.
LEMMA Appended ==
    ASSUME NEW S, NEW b \in Seq(S), NEW m \in S
    PROVE  /\ Append(b, m) \in Seq(S) /\ Len(Append(b, m)) = Len(b) + 1
           /\ DOMAIN b = 1..Len(b) /\ DOMAIN Append(b, m) = 1..(Len(b) + 1)
           /\ \A i \in 1..Len(b) : Append(b, m)[i] = b[i]
           /\ Append(b, m)[Len(b) + 1] = m
    OBVIOUS

LEMMA Shortened ==
    ASSUME NEW S, NEW b \in Seq(S), b # <<>>
    PROVE  /\ Tail(b) \in Seq(S) /\ Len(Tail(b)) = Len(b) - 1 /\ Len(b) \in Nat \ {0}
           /\ DOMAIN b = 1..Len(b) /\ DOMAIN Tail(b) = 1..(Len(b) - 1)
           /\ \A i \in 1..(Len(b) - 1) : Tail(b)[i] = b[i + 1]
           /\ Head(b) = b[1] /\ Head(b) \in S
    OBVIOUS

LEMMA SendKeeps ==
    ASSUME IInv, NEW c \in Clients, Send(c)
    PROVE  IInv'
<1> DEFINE ch == chan[c]
<1>0. pc[c] = "publish" /\ Accept(c) /\ received' = received
    BY DEF Send
<1>a. PICK t \in Used : t = topic[c]
    BY <1>0, Accepts
<1>1. /\ Numbered' /\ Earlier' /\ t \in Used /\ ch = queues[t] /\ accepted'[NextMsg] = t
      /\ Accepted' = Accepted \cup {NextMsg}
      /\ \A m \in Accepted : accepted'[m] = accepted[m] /\ before'[m] = before[m]
    BY <1>0, <1>a, Accepts
<1>2. t \in Topics /\ ch \in Chans /\ ch <= made /\ Used' = Used /\ NextMsg \in Msgs
    BY <1>0, <1>1, NextIsFree DEF Send, Used, IInv, QueueInv, QueueTypes, OneChannel
<1>3. /\ buf' \in [Chans -> Seq(Msgs)]
      /\ buf'[ch] = Append(buf[ch], NextMsg)
      /\ \A x \in Chans \ {ch} : buf'[x] = buf[x]
    BY <1>2 DEF Send, IInv, QueueInv, QueueTypes
<1>4. QueueTypes'
    BY <1>0, <1>3, Accepts DEF QueueTypes, IInv, QueueInv, Send
<1>5. OneChannel'
    BY <1>2, <1>3 DEF OneChannel, IInv, QueueInv, QueueTypes, Send, Chans
<1>6. Contents'
    <2>1. Content(t)'
        <3> DEFINE b == buf[ch]
        <3>1. b \in Seq(Msgs) /\ Len(b) < queueSize /\ queueSize \in Nat
            BY <1>2 DEF IInv, QueueInv, QueueTypes, Send
        <3>2. /\ \A i \in DOMAIN b : accepted[b[i]] = t /\ b[i] \notin received
              /\ \A i, j \in DOMAIN b : i < j => b[i] < b[j]
            BY <1>1 DEF IInv, QueueInv, Contents, Content
        <3>3. \A i \in DOMAIN b : b[i] \in Accepted /\ b[i] < NextMsg
            BY <1>0, <1>2, <3>1, <3>2, NextIsFree, NoTopicAssumption DEF Accepted
        <3>4. NextMsg \notin received
            BY <1>0, NextIsFree DEF IInv, QueueInv, Numbered
        <3>5. /\ Len(buf'[ch]) = Len(b) + 1 /\ Len(b) \in Nat
              /\ DOMAIN b = 1..Len(b) /\ DOMAIN buf'[ch] = 1..(Len(b) + 1)
              /\ \A i \in 1..Len(b) : buf'[ch][i] = b[i]
              /\ buf'[ch][Len(b) + 1] = NextMsg
            BY <1>2, <1>3, <3>1, Appended
        <3>6. queues'[t] = ch /\ received' = received /\ queueSize' = queueSize
            BY <1>1 DEF Send
        <3>7. \A i \in DOMAIN buf'[ch] : accepted'[buf'[ch][i]] = t /\ buf'[ch][i] \notin received
            <4>1. ASSUME NEW i \in DOMAIN buf'[ch]
                  PROVE  accepted'[buf'[ch][i]] = t /\ buf'[ch][i] \notin received
                <5>1. CASE i = Len(b) + 1
                    BY <1>1, <3>4, <3>5, <5>1
                <5>2. CASE i # Len(b) + 1
                    <6>1. i \in DOMAIN b /\ buf'[ch][i] = b[i]
                        BY <3>5, <5>2
                    <6> QED
                        BY <1>1, <3>2, <3>3, <6>1
                <5> QED
                    BY <5>1, <5>2
            <4> QED
                BY <4>1
        <3>8. \A i, j \in DOMAIN buf'[ch] : i < j => buf'[ch][i] < buf'[ch][j]
            <4>1. \A i \in DOMAIN buf'[ch] : i \in DOMAIN b \/ i = Len(b) + 1
                BY <3>5
            <4>2. ASSUME NEW i \in DOMAIN buf'[ch], NEW j \in DOMAIN buf'[ch], i < j
                  PROVE  buf'[ch][i] < buf'[ch][j]
                <5>1. i \in DOMAIN b
                    BY <3>5, <4>2
                <5> QED
                    BY <3>2, <3>3, <3>5, <4>1, <4>2, <5>1
            <4> QED
                BY <4>2
        <3>9. Len(buf'[ch]) <= queueSize
            BY <1>3, <3>1, <3>5
        <3> QED
            BY <3>6, <3>7, <3>8, <3>9 DEF Content
    <2>2. ASSUME NEW u \in Used, u # t PROVE Content(u)'
        <3>1. queues[u] \in Chans \ {ch} /\ queues'[u] = queues[u]
            BY <1>1, <2>2 DEF IInv, QueueInv, QueueTypes, OneChannel, Used, Send
        <3>2. buf'[queues[u]] = buf[queues[u]] /\ Content(u) /\ buf[queues[u]] \in Seq(Msgs)
            BY <1>3, <3>1 DEF IInv, QueueInv, QueueTypes, Contents
        <3>3. \A i \in DOMAIN buf[queues[u]] : buf[queues[u]][i] \in Accepted
            BY <3>2, NoTopicAssumption DEF Content, Accepted, Used
        <3> QED
            BY <1>1, <3>1, <3>2, <3>3 DEF Content, Send
    <2>3. ASSUME NEW m \in {NextMsg} PROVE InBuffer(m)'
        <3>1. /\ Len(buf[ch]) + 1 \in DOMAIN buf'[ch]
              /\ buf'[ch][Len(buf[ch]) + 1] = NextMsg
            BY <1>2, <1>3 DEF IInv, QueueInv, QueueTypes
        <3>2. queues'[accepted'[NextMsg]] = ch /\ accepted'[NextMsg] \in Used'
            BY <1>1, <1>2 DEF Send
        <3> QED
            BY <3>1, <3>2 DEF InBuffer
    <2>4. ASSUME NEW m \in Accepted \ received PROVE InBuffer(m)'
        <3> DEFINE u == accepted[m]
        <3>1. u \in Used /\ queues[u] \in Chans /\ accepted'[m] = u /\ queues'[u] = queues[u]
            BY <1>1 DEF IInv, QueueInv, QueueTypes, Contents, InBuffer, Used, Send
        <3>2. PICK i \in DOMAIN buf[queues[u]] : buf[queues[u]][i] = m
            BY DEF IInv, QueueInv, Contents, InBuffer
        <3>3. CASE u = t
            <4>1. buf[ch] \in Seq(Msgs) /\ queues[u] = ch
                BY <1>1, <1>2, <3>3 DEF IInv, QueueInv, QueueTypes
            <4>2. i \in DOMAIN buf'[ch] /\ buf'[ch][i] = m
                BY <1>2, <1>3, <3>2, <4>1
            <4> QED
                BY <1>2, <3>1, <4>1, <4>2 DEF InBuffer
        <3>4. CASE u # t
            <4>1. queues[u] # ch
                BY <1>1, <3>1, <3>4 DEF IInv, QueueInv, OneChannel
            <4> QED
                BY <1>2, <1>3, <3>1, <3>2, <4>1 DEF InBuffer
        <3> QED
            BY <3>3, <3>4
    <2> QED
        <3>1. \A u \in Used' : Content(u)'
            BY <1>2, <2>1, <2>2
        <3>2. \A m \in Accepted' \ received' : InBuffer(m)'
            BY <1>0, <1>1, <2>3, <2>4
        <3> QED
            BY <3>1, <3>2 DEF Contents
<1>7. InOrder'
    BY <1>0, <1>1 DEF InOrder, IInv, QueueInv, Numbered
<1>8. CallInv'
    <2>1. /\ pc' = [pc EXCEPT ![c] = "idle"] /\ chan' = [chan EXCEPT ![c] = NoChan]
          /\ topic' = [topic EXCEPT ![c] = NoTopic] /\ seen' = [seen EXCEPT ![c] = {}]
          /\ UNCHANGED <<closed, open, queues>>
        BY DEF Send, Return
    <2>2. /\ pc' \in [Clients -> Selects] /\ chan' \in [Clients -> Chans \cup {NoChan}]
          /\ topic' \in [Clients -> Topics \cup {NoTopic}] /\ seen' \in [Clients -> SUBSET Msgs]
          /\ pc'[c] = "idle"
        BY <2>1 DEF IInv, CallInv, CallTypes, Selects
    <2>3. \A d \in Clients : pc'[d] # "idle" =>
               pc'[d] = pc[d] /\ chan'[d] = chan[d] /\ topic'[d] = topic[d] /\ seen'[d] = seen[d]
        BY <2>1 DEF IInv, CallInv, CallTypes
    <2>4. /\ Cardinality(Accepted') = Cardinality(Accepted) + 1
          /\ \A u \in Topics : AcceptedFor(u) \subseteq AcceptedFor(u)'
        BY <1>0, Accepts
    <2> QED
        BY <1>0, <1>1, <1>4, <2>1, <2>2, <2>3, <2>4, AcceptedCalls
<1> QED
    BY <1>1, <1>4, <1>5, <1>6, <1>7, <1>8 DEF IInv, QueueInv

LEMMA ReceiveKeeps ==
    ASSUME IInv, NEW c \in Clients, Receive(c)
    PROVE  IInv'
<1> DEFINE ch == chan[c]
<1>1. PICK t \in Used : ch = queues[t]
    BY DEF Receive, IInv, CallInv, Holding
<1>2. /\ t \in Topics /\ ch \in Chans /\ ch <= made /\ buf[ch] \in Seq(Msgs) /\ buf[ch] # <<>>
      /\ UNCHANGED <<queueSize, closed, queues, made, open, accepted, before>>
      /\ Used' = Used /\ Accepted' = Accepted /\ queueSize \in Nat
    BY <1>1 DEF Receive, Used, Accepted, IInv, QueueInv, QueueTypes, OneChannel
<1> DEFINE b == buf[ch]
           h == b[1]
<1>3. /\ Len(b) \in Nat \ {0} /\ DOMAIN b = 1..Len(b) /\ h \in Msgs
      /\ DOMAIN Tail(b) = 1..(Len(b) - 1) /\ Len(Tail(b)) = Len(b) - 1
      /\ \A i \in 1..(Len(b) - 1) : Tail(b)[i] = b[i + 1]
      /\ Tail(b) \in Seq(Msgs) /\ Head(b) = h
    BY <1>2, Shortened
<1>4. /\ buf' = [buf EXCEPT ![ch] = Tail(b)] /\ buf' \in [Chans -> Seq(Msgs)]
      /\ buf'[ch] = Tail(b) /\ \A x \in Chans \ {ch} : buf'[x] = buf[x]
      /\ received' = received \cup {h}
    BY <1>2, <1>3 DEF Receive, IInv, QueueInv, QueueTypes
<1>5. /\ \A i \in 1..Len(b) : accepted[b[i]] = t /\ b[i] \notin received /\ b[i] \in Msgs
      /\ \A i, j \in 1..Len(b) : i < j => b[i] < b[j]
      /\ Len(b) <= queueSize
    <2>1. Content(t)
        BY DEF IInv, QueueInv, Contents
    <2>2. \A i \in 1..Len(b) : b[i] \in Msgs
        BY <1>2
    <2>3. queues[t] = ch /\ DOMAIN b = 1..Len(b)
        BY <1>1, <1>3
    <2> HIDE DEF b, ch
    <2> QED
        BY <2>1, <2>2, <2>3 DEF Content, b
<1>6. h \in Accepted /\ accepted[h] = t
    BY <1>2, <1>3, <1>5, NoTopicAssumption DEF Accepted
<1>7. QueueTypes'
    BY <1>2, <1>3, <1>4 DEF IInv, QueueInv, QueueTypes
<1>8. OneChannel'
    BY <1>2, <1>4 DEF IInv, QueueInv, QueueTypes, OneChannel, Chans
<1>9. Numbered' /\ Earlier'
    BY <1>2, <1>4, <1>6 DEF IInv, QueueInv, Numbered, Earlier
<1>10. InOrder'
    <2>1. ASSUME NEW x \in before[h] PROVE x \in received'
        <3>1. x \in Accepted /\ accepted[x] = t /\ x < h
            BY <1>6 DEF IInv, QueueInv, Earlier
        <3>2. CASE x \in received
            BY <1>4, <3>2
        <3>3. CASE x \notin received
            <4>1. PICK i \in 1..Len(b) : b[i] = x
                BY <1>1, <1>3, <3>1, <3>3 DEF IInv, QueueInv, Contents, InBuffer
            <4>2. i = 1 \/ h < b[i]
                BY <1>3, <1>5, <4>1
            <4>3. h \in Nat /\ x \in Nat
                BY <1>3, <3>1, MaxMsgsAssumption DEF Accepted, Msgs
            <4> QED
                BY <3>1, <4>1, <4>2, <4>3
        <3> QED
            BY <3>2, <3>3
    <2>2. \A m \in received : before[m] \subseteq received'
        BY <1>4 DEF IInv, QueueInv, InOrder
    <2> QED
        BY <1>2, <1>4, <2>1, <2>2 DEF InOrder
<1>11. Contents'
    <2>1. Content(t)'
        <3>1. ASSUME NEW i \in 1..(Len(b) - 1)
              PROVE  accepted[b[i + 1]] = t /\ b[i + 1] \notin received \cup {h}
            <4>1. i + 1 \in 1..Len(b) /\ 1 \in 1..Len(b) /\ 1 < i + 1
                BY <1>3
            <4>2. h < b[i + 1] /\ h \in Nat
                BY <1>3, <1>5, <4>1, MaxMsgsAssumption DEF Msgs
            <4> QED
                BY <1>5, <4>1, <4>2
        <3>2. ASSUME NEW i \in 1..(Len(b) - 1), NEW j \in 1..(Len(b) - 1), i < j
              PROVE  b[i + 1] < b[j + 1]
            BY <1>3, <1>5, <3>2
        <3>3. queues'[t] = ch /\ DOMAIN buf'[ch] = 1..(Len(b) - 1)
            BY <1>1, <1>2, <1>3, <1>4
        <3>4. Len(buf'[ch]) <= queueSize'
            BY <1>2, <1>3, <1>4, <1>5
        <3>5. \A i \in DOMAIN buf'[ch] : accepted'[buf'[ch][i]] = t /\ buf'[ch][i] \notin received'
            <4>1. \A i \in 1..(Len(b) - 1) : buf'[ch][i] = b[i + 1]
                BY <1>3, <1>4
            <4>2. received' = received \cup {h} /\ accepted' = accepted
                BY <1>2, <1>4
            <4> HIDE DEF b, h, ch
            <4>3. ASSUME NEW i \in DOMAIN buf'[ch]
                  PROVE  accepted'[buf'[ch][i]] = t /\ buf'[ch][i] \notin received'
                <5>1. i \in 1..(Len(b) - 1)
                    BY <3>3
                <5>2. accepted[b[i + 1]] = t /\ b[i + 1] \notin received \cup {h}
                    BY <3>1, <5>1
                <5> QED
                    BY <4>1, <4>2, <5>1, <5>2
            <4> QED
                BY <4>3
        <3>6. \A i, j \in DOMAIN buf'[ch] : i < j => buf'[ch][i] < buf'[ch][j]
            <4>1. \A i \in 1..(Len(b) - 1) : buf'[ch][i] = b[i + 1]
                BY <1>3, <1>4
            <4> HIDE DEF b, h
            <4> QED
                BY <3>2, <3>3, <4>1
        <3> QED
            BY <3>3, <3>4, <3>5, <3>6 DEF Content
    <2>2. ASSUME NEW u \in Used, u # t PROVE Content(u)'
        <3>1. queues[u] \in Chans \ {ch} /\ queues'[u] = queues[u]
            BY <1>1, <1>2, <2>2 DEF IInv, QueueInv, QueueTypes, OneChannel, Used
        <3>2. buf'[queues[u]] = buf[queues[u]] /\ Content(u)
            BY <1>4, <3>1 DEF IInv, QueueInv, Contents
        <3>3. \A i \in DOMAIN buf[queues[u]] : buf[queues[u]][i] # h
            BY <1>6, <2>2, <3>2 DEF Content
        <3> QED
            BY <1>2, <1>4, <3>1, <3>2, <3>3 DEF Content
    <2>3. ASSUME NEW m \in Accepted \ received, m # h PROVE InBuffer(m)'
        <3> DEFINE u == accepted[m]
        <3>1. u \in Used /\ queues[u] \in Chans /\ accepted'[m] = u /\ queues'[u] = queues[u]
            BY <1>2 DEF IInv, QueueInv, QueueTypes, Contents, InBuffer, Used
        <3>2. PICK i \in DOMAIN buf[queues[u]] : buf[queues[u]][i] = m
            BY DEF IInv, QueueInv, Contents, InBuffer
        <3>3. CASE u = t
            <4>1. i \in 1..Len(b) /\ b[i] = m /\ i # 1
                BY <1>1, <1>3, <2>3, <3>2, <3>3
            <4>2. i - 1 \in 1..(Len(b) - 1) /\ (i - 1) + 1 = i
                BY <1>3, <4>1
            <4>3. i - 1 \in DOMAIN buf'[ch] /\ buf'[ch][i - 1] = m
                BY <1>3, <1>4, <4>1, <4>2
            <4> QED
                BY <1>1, <1>2, <3>1, <3>3, <4>3 DEF InBuffer
        <3>4. CASE u # t
            <4>1. queues[u] # ch
                BY <1>1, <3>1, <3>4 DEF IInv, QueueInv, OneChannel
            <4> QED
                BY <1>2, <1>4, <3>1, <3>2, <4>1 DEF InBuffer
        <3> QED
            BY <3>3, <3>4
    <2> QED
        <3>1. \A u \in Used' : Content(u)'
            BY <1>2, <2>1, <2>2
        <3>2. \A m \in Accepted' \ received' : InBuffer(m)'
            BY <1>2, <1>4, <2>3
        <3> QED
            BY <3>1, <3>2 DEF Contents
<1>12. QueueInv'
    BY <1>7, <1>8, <1>9, <1>10, <1>11 DEF QueueInv
<1>13. CallInv'
    <2>1. CASE pc[c] = "purge"
        <3>1. UNCHANGED <<pc, chan, topic, seen>>
            BY <2>1 DEF Receive, Took
        <3>2. CallTypes'
            BY <1>2, <3>1 DEF IInv, CallInv, CallTypes
        <3>3. Room'
            BY <1>2, <3>1 DEF IInv, CallInv, Room, Publishing
        <3>4. ASSUME NEW d \in Clients PROVE Holding(d)'
            BY <1>2, <3>1 DEF IInv, CallInv, Holding, AcceptedFor
        <3> QED
            BY <3>2, <3>3, <3>4 DEF CallInv
    <2>2. CASE pc[c] # "purge"
        <3>1. /\ pc' = [pc EXCEPT ![c] = "idle"] /\ chan' = [chan EXCEPT ![c] = NoChan]
              /\ topic' = [topic EXCEPT ![c] = NoTopic] /\ seen' = [seen EXCEPT ![c] = {}]
            BY <2>2 DEF Receive, Took, Return
        <3>2. CallTypes'
            BY <1>2, <3>1 DEF IInv, CallInv, CallTypes, Selects
        <3>3. Room'
            <4>1. Publishing' \subseteq Publishing
                BY <3>1 DEF Publishing, IInv, CallInv, CallTypes
            <4> QED
                BY <1>2, <1>7, <4>1, RoomKept DEF IInv, QueueInv, CallInv
        <3>4. ASSUME NEW d \in Clients PROVE Holding(d)'
            BY <1>2, <3>1 DEF IInv, CallInv, CallTypes, Holding, AcceptedFor
        <3> QED
            BY <3>2, <3>3, <3>4 DEF CallInv
    <2> QED
        BY <2>1, <2>2
<1> QED
    BY <1>12, <1>13 DEF IInv

LEMMA HandOverKeeps ==
    ASSUME IInv, NEW c \in Clients, NEW p \in Clients \ {c}, HandOver(p, c)
    PROVE  IInv'
<1>0. /\ pc[p] = "publish" /\ Accept(p) /\ received' = received \cup {NextMsg}
      /\ UNCHANGED <<queueSize, closed, queues, made, open, buf>> /\ pc[c] # "idle"
      /\ Used' = Used
    BY DEF HandOver, Used
<1>1. PICK t \in Used : t = topic[p] /\ t \in Topics
    BY <1>0, Accepts DEF Used
<1>2. /\ Numbered' /\ Earlier' /\ accepted'[NextMsg] = t
      /\ Accepted' = Accepted \cup {NextMsg} /\ before'[NextMsg] \subseteq AcceptedFor(t)
      /\ \A m \in Accepted : accepted'[m] = accepted[m] /\ before'[m] = before[m]
      /\ \A u \in Topics : AcceptedFor(u) \subseteq AcceptedFor(u)'
    BY <1>0, <1>1, Accepts
<1>3. QueueTypes'
    BY <1>0, Accepts DEF QueueTypes, IInv, QueueInv
<1>4. OneChannel'
    BY <1>0 DEF OneChannel, IInv, QueueInv
<1>5. \A u \in Used : queues[u] \in Chans /\ buf[queues[u]] \in Seq(Msgs) /\ Len(buf[queues[u]]) <= 0
    BY DEF HandOver, IInv, QueueInv, QueueTypes, Contents, Content, Used
<1>6. \A u \in Used : DOMAIN buf[queues[u]] = {}
    BY <1>5
<1>7. Accepted \subseteq received
    BY <1>6 DEF IInv, QueueInv, Contents, InBuffer
<1>8. Contents'
    <2>1. ASSUME NEW u \in Used PROVE Content(u)'
        BY <1>0, <1>5, <1>6 DEF Content, IInv, QueueInv, Contents
    <2> QED
        BY <1>0, <1>2, <1>7, <2>1 DEF Contents
<1>9. InOrder'
    <2>1. AcceptedFor(t) \subseteq Accepted
        BY <1>1, NoTopicAssumption DEF AcceptedFor, Accepted
    <2> QED
        BY <1>0, <1>2, <1>7, <2>1 DEF InOrder, IInv, QueueInv, Numbered
<1>10. CallInv'
    <2>1. /\ pc' \in [Clients -> Selects] /\ chan' \in [Clients -> Chans \cup {NoChan}]
          /\ topic' \in [Clients -> Topics \cup {NoTopic}] /\ seen' \in [Clients -> SUBSET Msgs]
          /\ pc'[p] = "idle"
        BY DEF HandOver, IInv, CallInv, CallTypes, Selects
    <2>2. \A d \in Clients : pc'[d] # "idle" =>
               pc'[d] = pc[d] /\ chan'[d] = chan[d] /\ topic'[d] = topic[d] /\ seen'[d] = seen[d]
        BY DEF HandOver, IInv, CallInv, CallTypes
    <2>3. Cardinality(Accepted') = Cardinality(Accepted) + 1
        BY <1>0, Accepts
    <2> QED
        BY <1>0, <1>2, <1>3, <2>1, <2>2, <2>3, AcceptedCalls
<1> QED
    BY <1>2, <1>3, <1>4, <1>8, <1>9, <1>10 DEF IInv, QueueInv

-----------------------------------------------------------------------------
LEMMA InitIInv == Init => IInv
<1> SUFFICES ASSUME Init PROVE IInv
    OBVIOUS
<1> USE ClientsAssumption, QueueSizesAssumption, MaxMsgsAssumption
<1>1. Used = {} /\ Accepted = {} /\ Publishing = {}
    BY DEF Init, Used, Accepted, Publishing
<1>2. Cardinality({}) = 0
    BY FS_EmptySet
<1>3. QueueTypes
    BY DEF Init, QueueTypes
<1>4. OneChannel
    BY <1>1, <1>2 DEF Init, OneChannel
<1>5. Numbered /\ Contents /\ Earlier /\ InOrder /\ Room
    BY <1>1, <1>2 DEF Init, Numbered, Contents, Earlier, InOrder, Room
<1>6. CallTypes /\ \A c \in Clients : Holding(c)
    BY DEF Init, CallTypes, Selects, Holding
<1> QED
    BY <1>3, <1>4, <1>5, <1>6 DEF IInv, QueueInv, CallInv

\* A call that returns before it has a channel.
LEMMA IdleKeeps ==
    ASSUME IInv, Quiet, UNCHANGED <<pc, chan, topic, seen>>,
           UNCHANGED <<closed, open>> \/ (closed' = TRUE /\ open' = {})
    PROVE  IInv'
<1>1. QueueInv'
    BY QuietKeeps DEF IInv
<1>2. CallTypes'
    BY DEF IInv, CallInv, CallTypes
<1>3. Room'
    BY DEF IInv, CallInv, Room, Publishing, Accepted, Quiet
<1>4. ASSUME NEW c \in Clients PROVE Holding(c)'
    BY DEF IInv, CallInv, Holding, Used, AcceptedFor, Quiet
<1> QED
    BY <1>1, <1>2, <1>3, <1>4 DEF IInv, CallInv

LEMMA PublishKeeps ==
    ASSUME IInv, NEW c \in Clients, NEW t \in Topics, Publish(c, t)
    PROVE  IInv'
<1>1. CASE closed
    <2>1. topic' = topic /\ seen' = seen
        BY <1>1 DEF Publish, IInv, CallInv, CallTypes
    <2> QED
        BY <1>1, <2>1, IdleKeeps DEF Publish, GetOrCreateQueue, Quiet
<1>2. CASE ~closed
    <2>1. /\ topic' = [topic EXCEPT ![c] = t] /\ seen' = [seen EXCEPT ![c] = AcceptedFor(t)]
          /\ pc[c] = "idle" /\ UNCHANGED <<queueSize, closed, buf, accepted, received, before>>
          /\ Cardinality(Accepted) + Cardinality(Publishing) < MaxMsgs
        BY <1>2 DEF Publish, Publishing
    <2>2. CASE queues[t] = NoChan
        <3>1. /\ made' = made + 1 /\ queues' = [queues EXCEPT ![t] = made']
              /\ open' = open \cup {made'} /\ chan' = [chan EXCEPT ![c] = made']
              /\ pc' = [pc EXCEPT ![c] = "publish"] /\ queues'[t] = made'
            BY <1>2, <2>2 DEF Publish, GetOrCreateQueue, IInv, QueueInv, QueueTypes
        <3>2. /\ QueueInv' /\ t \in Used' /\ \A u \in Used : queues'[u] = queues[u]
              /\ open' \in SUBSET Chans
            BY <2>1, <2>2, <3>1, MakeKeeps DEF IInv, CallInv, CallTypes
        <3> QED
            BY <2>1, <3>1, <3>2, TakeKeeps
    <2>3. CASE queues[t] # NoChan
        <3>1. /\ Quiet /\ open' = open /\ chan' = [chan EXCEPT ![c] = queues'[t]]
              /\ pc' = [pc EXCEPT ![c] = "publish"] /\ queues' = queues
            BY <1>2, <2>1, <2>3 DEF Publish, GetOrCreateQueue, Quiet
        <3>2. /\ QueueInv' /\ t \in Used' /\ open' \in SUBSET Chans
            BY <2>3, <3>1, QuietKeeps DEF IInv, CallInv, CallTypes, Used
        <3> QED
            BY <2>1, <3>1, <3>2, TakeKeeps
    <2> QED
        BY <2>2, <2>3
<1> QED
    BY <1>1, <1>2

LEMMA ConsumeKeeps ==
    ASSUME IInv, NEW c \in Clients, NEW t \in Topics, Consume(c, t)
    PROVE  IInv'
<1>1. CASE closed
    BY <1>1, IdleKeeps DEF Consume, GetOrCreateQueue, Quiet
<1>2. CASE ~closed
    <2>1. /\ topic' = topic /\ seen' = seen /\ pc[c] = "idle"
          /\ UNCHANGED <<queueSize, closed, buf, accepted, received, before>>
        BY DEF Consume
    <2>2. CASE queues[t] = NoChan
        <3>1. /\ made' = made + 1 /\ queues' = [queues EXCEPT ![t] = made']
              /\ open' = open \cup {made'} /\ chan' = [chan EXCEPT ![c] = made']
              /\ pc' = [pc EXCEPT ![c] = "consume"] /\ queues'[t] = made'
            BY <1>2, <2>2 DEF Consume, GetOrCreateQueue, IInv, QueueInv, QueueTypes
        <3>2. /\ QueueInv' /\ t \in Used' /\ \A u \in Used : queues'[u] = queues[u]
              /\ open' \in SUBSET Chans
            BY <2>1, <2>2, <3>1, MakeKeeps DEF IInv, CallInv, CallTypes
        <3> QED
            BY <2>1, <3>1, <3>2, TakeKeeps
    <2>3. CASE queues[t] # NoChan
        <3>1. /\ Quiet /\ open' = open /\ chan' = [chan EXCEPT ![c] = queues'[t]]
              /\ pc' = [pc EXCEPT ![c] = "consume"] /\ queues' = queues
            BY <1>2, <2>1, <2>3 DEF Consume, GetOrCreateQueue, Quiet
        <3>2. /\ QueueInv' /\ t \in Used' /\ open' \in SUBSET Chans
            BY <2>3, <3>1, QuietKeeps DEF IInv, CallInv, CallTypes, Used
        <3> QED
            BY <2>1, <3>1, <3>2, TakeKeeps
    <2> QED
        BY <2>2, <2>3
<1> QED
    BY <1>1, <1>2

LEMMA GetKeeps ==
    ASSUME IInv, NEW c \in Clients, NEW t \in Topics, NEW next \in {"try", "purge"},
           NEW missing, GetQueue(c, t, next, missing)
    PROVE  IInv'
<1>1. pc[c] = "idle" /\ Quiet /\ UNCHANGED <<topic, closed, open, accepted>>
    BY DEF GetQueue, Quiet
<1>2. CASE closed \/ queues[t] = NoChan
    BY <1>1, <1>2, IdleKeeps DEF GetQueue
<1>3. CASE ~(closed \/ queues[t] = NoChan)
    <2>1. /\ chan' = [chan EXCEPT ![c] = queues'[t]] /\ pc' = [pc EXCEPT ![c] = next]
          /\ queues' = queues
          /\ seen' = [seen EXCEPT ![c] = IF next = "purge" THEN AcceptedFor(t) ELSE {}]
        BY <1>1, <1>3 DEF GetQueue, Quiet
    <2>2. QueueInv' /\ t \in Used' /\ open' \in SUBSET Chans
        BY <1>1, <1>3, <2>1, QuietKeeps DEF IInv, CallInv, CallTypes, Used
    <2>3. CASE next = "purge"
        BY <1>1, <2>1, <2>2, <2>3, TakeKeeps
    <2>4. CASE next = "try"
        BY <1>1, <2>1, <2>2, <2>4, TakeKeeps
    <2> QED
        BY <2>3, <2>4
<1> QED
    BY <1>2, <1>3

LEMMA NextIInv == IInv /\ [Next]_vars => IInv'
<1> SUFFICES ASSUME IInv, [Next]_vars PROVE IInv'
    OBVIOUS
<1>1. ASSUME NEW c \in Clients, NEW t \in Topics, Publish(c, t) PROVE IInv'
    BY <1>1, PublishKeeps
<1>2. ASSUME NEW c \in Clients, NEW t \in Topics, Consume(c, t) PROVE IInv'
    BY <1>2, ConsumeKeeps
<1>3. ASSUME NEW c \in Clients, NEW t \in Topics, TryConsume(c, t) PROVE IInv'
    BY <1>3, GetKeeps DEF TryConsume
<1>4. ASSUME NEW c \in Clients, NEW t \in Topics, PurgeQueue(c, t) PROVE IInv'
    BY <1>4, GetKeeps DEF PurgeQueue
<1>5. ASSUME NEW c \in Clients, Close(c) PROVE IInv'
    BY <1>5, IdleKeeps DEF Close, Quiet
<1>6. ASSUME NEW c \in Clients, Send(c) PROVE IInv'
    BY <1>6, SendKeeps
<1>7. ASSUME NEW c \in Clients, SendPanics(c) PROVE IInv'
    BY <1>7, ReturnKeeps DEF SendPanics, Quiet
<1>8. ASSUME NEW c \in Clients, Receive(c) PROVE IInv'
    BY <1>8, ReceiveKeeps
<1>9. ASSUME NEW c \in Clients, ReceiveClosed(c) PROVE IInv'
    BY <1>9, ReturnKeeps DEF ReceiveClosed, Quiet
<1>10. ASSUME NEW c \in Clients, NothingThere(c) PROVE IInv'
    BY <1>10, ReturnKeeps DEF NothingThere, Quiet
<1>11. ASSUME NEW c \in Clients, NEW p \in Clients \ {c}, HandOver(p, c) PROVE IInv'
    BY <1>11, HandOverKeeps
<1>12. ASSUME NEW c \in Clients, GiveUp(c) PROVE IInv'
    BY <1>12, ReturnKeeps DEF GiveUp, Quiet
<1>13. CASE UNCHANGED vars
    BY <1>13, IdleKeeps DEF vars, Quiet
<1> QED
    BY <1>1, <1>2, <1>3, <1>4, <1>5, <1>6, <1>7, <1>8, <1>9, <1>10, <1>11, <1>12, <1>13
       DEF Next, Select

-----------------------------------------------------------------------------
\* A message that was accepted and not received is in its channel, once.
LEMMA IInvNothingLost == IInv => NothingLost
<1> SUFFICES ASSUME IInv, NEW m \in Accepted \ received
             PROVE  LET ch == queues[accepted[m]] IN
                    /\ ch # NoChan
                    /\ Cardinality({i \in DOMAIN buf[ch] : buf[ch][i] = m}) = 1
    BY DEF NothingLost
<1> DEFINE t == accepted[m]
           b == buf[queues[t]]
<1>1. t \in Used /\ queues[t] # NoChan
    BY DEF IInv, QueueInv, Contents, InBuffer, Used
<1>2. PICK i \in DOMAIN b : b[i] = m
    BY DEF IInv, QueueInv, Contents, InBuffer
<1>3. b \in Seq(Msgs) /\ DOMAIN b = 1..Len(b)
    BY <1>1 DEF IInv, QueueInv, QueueTypes, Used
<1>4. \A j, k \in DOMAIN b : j < k => b[j] < b[k]
    BY <1>1 DEF IInv, QueueInv, Contents, Content
<1>5. \A j \in DOMAIN b : b[j] = m => j = i
    <2>1. m \in Nat
        BY MaxMsgsAssumption DEF Accepted, Msgs
    <2>2. ASSUME NEW j \in DOMAIN b, b[j] = m PROVE j = i
        <3>1. ~(j < i) /\ ~(i < j)
            BY <1>2, <1>4, <2>1, <2>2
        <3> QED
            BY <1>3, <3>1
    <2> QED
        BY <2>2
<1>6. {j \in DOMAIN b : b[j] = m} = {i}
    BY <1>2, <1>5
<1> QED
    BY <1>1, <1>6, FS_Singleton

\* For every set of topics and clients, all queue sizes and any number of
\* messages: no accepted message is in a channel nobody can reach.
THEOREM AcceptedKept == Spec => []NothingLost
<1>1. Spec => []IInv
    BY InitIInv, NextIInv, PTL DEF Spec
<1> QED
    BY <1>1, IInvNothingLost, PTL

\* Messages of a topic leave it in the order their publishers can tell.
THEOREM TopicsInOrder == Spec => []InOrder
<1>1. Spec => []IInv
    BY InitIInv, NextIInv, PTL DEF Spec
<1>2. IInv => InOrder
    BY DEF IInv, QueueInv
<1> QED
    BY <1>1, <1>2, PTL

LEMMA ReturnOwn ==
    ASSUME IInv, NEW c \in Clients, NEW d \in Clients, NEW r, Return(d, r),
           pc[c] # "idle", pc'[c] = "idle"
    PROVE  d = c /\ ret' = r
    BY DEF Return, IInv, CallInv, CallTypes

\* A purge that returns nil has found the channel empty after it began.
LEMMA PurgeStep ==
    ASSUME IInv, [Next]_vars, NEW c \in Clients,
           pc[c] = "purge", pc'[c] = "idle", ret' = "ok"
    PROVE  seen[c] \subseteq received'
<1>1. NothingThere(c)
    <2>1. ASSUME NEW d \in Clients, NEW t \in Topics,
                 Publish(d, t) \/ Consume(d, t) \/ TryConsume(d, t) \/ PurgeQueue(d, t)
          PROVE  FALSE
        <3>1. pc[d] = "idle" /\ (pc' = pc \/ \E p \in Selects \ {"idle"} : pc' = [pc EXCEPT ![d] = p])
            BY <2>1 DEF Publish, Consume, TryConsume, PurgeQueue, GetQueue, GetOrCreateQueue, Selects
        <3> QED
            BY <3>1 DEF IInv, CallInv, CallTypes
    <2>2. ASSUME NEW d \in Clients, Close(d) PROVE FALSE
        BY <2>2 DEF Close
    <2>3. ASSUME NEW d \in Clients, Send(d) \/ SendPanics(d) PROVE FALSE
        BY <2>3, ReturnOwn DEF Send, SendPanics
    <2>4. ASSUME NEW d \in Clients, Receive(d) PROVE FALSE
        BY <2>4, ReturnOwn DEF Receive, Took
    <2>5. ASSUME NEW d \in Clients, ReceiveClosed(d) \/ GiveUp(d) PROVE FALSE
        BY <2>5, ReturnOwn DEF ReceiveClosed, GiveUp
    <2>6. ASSUME NEW d \in Clients, NothingThere(d) PROVE NothingThere(c)
        BY <2>6, ReturnOwn DEF NothingThere
    <2>7. ASSUME NEW d \in Clients, NEW p \in Clients \ {d}, HandOver(p, d) PROVE FALSE
        BY <2>7 DEF HandOver, IInv, CallInv, CallTypes
    <2> QED
        BY <2>1, <2>2, <2>3, <2>4, <2>5, <2>6, <2>7 DEF Next, Select, vars
<1>2. PICK t \in Used : chan[c] = queues[t] /\ seen[c] \subseteq AcceptedFor(t)
    BY DEF IInv, CallInv, Holding
<1>3. AcceptedFor(t) \subseteq received
    <2>1. ASSUME NEW m \in AcceptedFor(t), m \notin received PROVE FALSE
        <3>1. m \in Accepted /\ accepted[m] = t
            BY NoTopicAssumption DEF AcceptedFor, Accepted, Used
        <3>2. PICK i \in DOMAIN buf[queues[t]] : buf[queues[t]][i] = m
            BY <2>1, <3>1 DEF IInv, QueueInv, Contents, InBuffer
        <3> QED
            BY <1>1, <1>2, <3>2 DEF NothingThere
    <2> QED
        BY <2>1
<1> QED
    BY <1>1, <1>2, <1>3 DEF NothingThere

\* PurgeQueue removes all that was accepted before it began.
THEOREM PurgeComplete == Spec => PurgeRemoves
<1>1. Spec => []IInv
    BY InitIInv, NextIInv, PTL DEF Spec
<1>2. IInv /\ [Next]_vars =>
        [\A c \in Clients :
          (pc[c] = "purge" /\ pc'[c] = "idle" /\ ret' = "ok") => seen[c] \subseteq received']_vars
    BY PurgeStep
<1> QED
    BY <1>1, <1>2, PTL DEF Spec, PurgeRemoves

-----------------------------------------------------------------------------
(* The queue implements its lines.                                           *)

\* A closed queue has no open channels.
Shut == closed => open = {}

LEMMA ShutStep == Shut /\ [Next]_vars => Shut'
<1> SUFFICES ASSUME Shut, [Next]_vars PROVE Shut'
    OBVIOUS
<1>1. CASE \E c \in Clients, t \in Topics :
               Publish(c, t) \/ Consume(c, t) \/ TryConsume(c, t) \/ PurgeQueue(c, t)
    BY <1>1 DEF Shut, Publish, Consume, GetOrCreateQueue, TryConsume, PurgeQueue, GetQueue
<1>2. CASE \E c \in Clients : Close(c) \/ Select(c) \/ GiveUp(c)
    BY <1>2 DEF Shut, Close, Select, Send, SendPanics, Receive, ReceiveClosed, NothingThere,
                HandOver, GiveUp
<1>3. CASE UNCHANGED vars
    BY <1>3 DEF Shut, vars
<1> QED
    BY <1>1, <1>2, <1>3 DEF Next

\* The call a client has made, by the channel it holds.
Holds(c, t) == t \in Used /\ chan[c] = queues[t]

CallsMatch ==
    \A c \in Clients :
        /\ pc[c] = "idle" => Call[c] = Abs!Idle
        /\ pc[c] # "idle" => \A t \in Topics : Holds(c, t) => Call[c] = Abs!Asked(pc[c], t)

LEMMA CallOf == IInv => CallsMatch
<1> SUFFICES ASSUME IInv, NEW c \in Clients
             PROVE  /\ pc[c] = "idle" => Call[c] = Abs!Idle
                    /\ pc[c] # "idle" =>
                           \A t \in Topics : Holds(c, t) => Call[c] = Abs!Asked(pc[c], t)
    BY DEF CallsMatch
<1>1. pc[c] = "idle" => Call[c] = Abs!Idle
    BY DEF Call, Abs!Idle
<1>2. ASSUME NEW t \in Topics, Holds(c, t) PROVE TopicOf(chan[c]) = t
    <2>1. \A u \in Topics : queues[u] = chan[c] => u = t
        BY <1>2 DEF Holds, IInv, QueueInv, QueueTypes, OneChannel, Used
    <2> QED
        BY <1>2, <2>1 DEF Holds, TopicOf
<1> QED
    BY <1>1, <1>2 DEF Call, Abs!Asked

LEMMA CallOfNext ==
    IInv' => \A c \in Clients :
                /\ pc'[c] = "idle" => Call'[c] = Abs!Idle
                /\ pc'[c] # "idle" =>
                       \A t \in Topics : Holds(c, t)' => Call'[c] = Abs!Asked(pc'[c], t)
<1>1. IInv' => CallsMatch'
    BY CallOf, PTL
<1> QED
    BY <1>1 DEF CallsMatch, Abs!Idle, Abs!Asked

\* A step of c alone that leaves the channels of the topics in use.
Alone(c) ==
    /\ \A d \in Clients \ {c} : pc'[d] = pc[d] /\ chan'[d] = chan[d]
    /\ \A u \in Used : u \in Used' /\ queues'[u] = queues[u]

LEMMA CallKept ==
    ASSUME IInv, IInv', NEW d \in Clients, pc'[d] = pc[d], chan'[d] = chan[d],
           \A u \in Used : u \in Used' /\ queues'[u] = queues[u]
    PROVE  Call'[d] = Call[d]
<1>1. CASE pc[d] = "idle"
    BY <1>1, CallOf, CallOfNext DEF CallsMatch
<1>2. CASE pc[d] # "idle"
    <2>1. PICK t \in Topics : Holds(d, t)
        BY <1>2 DEF IInv, CallInv, Holding, Holds, Used
    <2>2. Holds(d, t)'
        BY <2>1 DEF Holds
    <2> QED
        BY <1>2, <2>1, <2>2, CallOf, CallOfNext DEF CallsMatch
<1> QED
    BY <1>1, <1>2

LEMMA CallChanges ==
    ASSUME IInv, IInv', NEW c \in Clients, Alone(c)
    PROVE  Call' = [Call EXCEPT ![c] = Call'[c]]
<1>1. \A d \in Clients \ {c} : Call'[d] = Call[d]
    BY CallKept DEF Alone
<1>2. /\ Call = [d \in Clients |-> Call[d]] /\ Call' = [d \in Clients |-> Call'[d]]
    BY DEF Call
<1> QED
    BY <1>1, <1>2

LEMMA QuietLines == QueueTypes /\ Quiet => Line' = Line /\ Accepted' = Accepted /\ Used' = Used
    BY DEF Quiet, Line, Accepted, Used

\* A new call: the channel of t may just have been made, and is empty.
LEMMA AskStep ==
    ASSUME IInv, IInv', NEW c \in Clients, NEW t \in Topics,
           NEW kind \in {"publish", "consume", "try", "purge"},
           pc[c] = "idle", ~closed, UNCHANGED <<queueSize, closed, buf, accepted>>,
           pc' = [pc EXCEPT ![c] = kind], chan' = [chan EXCEPT ![c] = queues'[t]],
           \/ UNCHANGED queues /\ queues[t] # NoChan
           \/ queues[t] = NoChan /\ queues' = [queues EXCEPT ![t] = made + 1]
    PROVE  Abs!Ask(c, kind, t)
<1>1. /\ \A u \in Used : u \in Used' /\ queues'[u] = queues[u]
      /\ t \in Used'
    BY DEF Used, IInv, QueueInv, QueueTypes, NoChan
<1>2. Alone(c)
    BY <1>1 DEF Alone, IInv, CallInv, CallTypes
<1>3. Call[c] = Abs!Idle
    BY CallOf DEF CallsMatch
<1>4. Holds(c, t)' /\ pc'[c] = kind
    BY <1>1 DEF Holds, IInv, CallInv, CallTypes
<1>5. Call'[c] = Abs!Asked(kind, t)
    BY <1>4, CallOfNext
<1>6. Call' = [Call EXCEPT ![c] = Abs!Asked(kind, t)]
    BY <1>2, <1>5, CallChanges
<1>7. ASSUME NEW u \in Topics PROVE Line'[u] = Line[u]
    <2>1. CASE queues'[u] = queues[u]
        BY <2>1 DEF Line
    <2>2. CASE queues'[u] # queues[u]
        <3>1. u = t /\ queues[t] = NoChan /\ queues'[t] = made + 1 /\ made + 1 # NoChan
            BY <2>2 DEF IInv, QueueInv, QueueTypes, NoChan
        <3>2. made + 1 \in Chans
            BY <3>1 DEF IInv, QueueInv, QueueTypes
        <3>3. buf[made + 1] = <<>>
            BY <3>2 DEF IInv, QueueInv, QueueTypes, OneChannel
        <3> QED
            BY <3>1, <3>3 DEF Line
    <2> QED
        BY <2>1, <2>2
<1>8. Line' = Line
    BY <1>7 DEF Line
<1>9. Accepted' = Accepted
    BY DEF Accepted
<1> QED
    BY <1>3, <1>6, <1>8, <1>9 DEF Abs!Ask

LEMMA LeaveStep ==
    ASSUME IInv, IInv', NEW c \in Clients, NEW r, Return(c, r), pc[c] # "idle", Quiet,
           UNCHANGED closed
    PROVE  Abs!Leave(c)
<1>1. Alone(c) /\ Line' = Line /\ Accepted' = Accepted
    BY QuietLines DEF Alone, Return, Quiet, Used, IInv, QueueInv, CallInv, CallTypes
<1>2. Call'[c] = Abs!Idle
    BY CallOfNext DEF Return, IInv, CallInv, CallTypes
<1>3. Call' = [Call EXCEPT ![c] = Abs!Idle]
    BY <1>1, <1>2, CallChanges
<1>4. Call[c] # Abs!Idle
    <2>1. PICK t \in Topics : Holds(c, t)
        BY DEF IInv, CallInv, Holding, Holds, Used
    <2>2. Call[c] = Abs!Asked(pc[c], t)
        BY <2>1, CallOf DEF CallsMatch
    <2> QED
        BY <2>2 DEF Abs!Asked, Abs!Idle
<1> QED
    BY <1>1, <1>3, <1>4 DEF Abs!Leave, Quiet

LEMMA PutStep ==
    ASSUME IInv, IInv', Shut, NEW c \in Clients, Send(c)
    PROVE  \E t \in Topics, m \in Msgs : Abs!Put(c, t, m)
<1>0. pc[c] = "publish" /\ Accept(c) /\ received' = received
    BY DEF Send
<1>1. PICK t \in Topics : Holds(c, t) /\ t = topic[c]
    BY <1>0, Accepts DEF Holds, Used
<1>2. NextMsg \in Msgs /\ NextMsg \notin Accepted /\ Accepted' = Accepted \cup {NextMsg}
    BY <1>0, NextIsFree, Accepts
<1>3. ~closed
    BY DEF Shut, Send
<1>4. Call[c] = Abs!Asked("publish", t)
    BY <1>0, <1>1, CallOf DEF CallsMatch
<1>5. Alone(c) /\ Call'[c] = Abs!Idle
    BY CallOfNext DEF Alone, Send, Return, Used, IInv, CallInv, CallTypes
<1>6. Call' = [Call EXCEPT ![c] = Abs!Idle]
    BY <1>5, CallChanges
<1>7. /\ Line[t] = buf[chan[c]] /\ chan[c] \in Chans
      /\ \A u \in Topics : queues[u] = chan[c] => u = t
    BY <1>1 DEF Holds, Used, Line, IInv, QueueInv, QueueTypes, OneChannel
<1>8. Line' = [Line EXCEPT ![t] = Append(@, NextMsg)]
    <2>1. queues' = queues /\ buf' = [buf EXCEPT ![chan[c]] = Append(@, NextMsg)]
        BY DEF Send
    <2>2. Line'[t] = Append(Line[t], NextMsg)
        BY <1>1, <1>7, <2>1 DEF Line, Holds, Used, IInv, QueueInv, QueueTypes
    <2>3. \A u \in Topics \ {t} : Line'[u] = Line[u]
        BY <1>7, <2>1 DEF Line, IInv, QueueInv, QueueTypes
    <2>4. Line = [u \in Topics |-> Line[u]] /\ Line' = [u \in Topics |-> Line'[u]]
        BY DEF Line
    <2> QED
        BY <2>2, <2>3, <2>4
<1>9. Abs!Put(c, t, NextMsg)
    BY <1>2, <1>3, <1>4, <1>6, <1>7, <1>8 DEF Abs!Put, Send
<1> QED
    BY <1>2, <1>9

LEMMA TakeStep ==
    ASSUME IInv, IInv', NEW c \in Clients, Receive(c)
    PROVE  \E t \in Topics : Abs!Take(c, t)
<1>0. pc[c] \in {"consume", "try", "purge"}
    BY DEF Receive
<1>1. PICK t \in Topics : Holds(c, t)
    BY <1>0 DEF IInv, CallInv, Holding, Holds, Used
<1>2. Call[c] = Abs!Asked(pc[c], t)
    BY <1>0, <1>1, CallOf DEF CallsMatch
<1>3. Alone(c) /\ Used' = Used /\ queues' = queues
    BY DEF Alone, Receive, Took, Return, Used, IInv, CallInv, CallTypes
<1>4. Call'[c] = Abs!Served(Call[c])
    <2>1. CASE pc[c] = "purge"
        <3>1. pc'[c] = "purge" /\ Holds(c, t)'
            BY <1>1, <1>3, <2>1 DEF Receive, Took, Holds
        <3> QED
            BY <1>2, <2>1, <3>1, CallOfNext DEF Abs!Served, Abs!Asked
    <2>2. CASE pc[c] # "purge"
        <3>1. pc'[c] = "idle"
            BY <2>2 DEF Receive, Took, Return, IInv, CallInv, CallTypes
        <3> QED
            BY <1>2, <2>2, <3>1, CallOfNext DEF Abs!Served, Abs!Asked
    <2> QED
        BY <2>1, <2>2
<1>5. Call' = [Call EXCEPT ![c] = Abs!Served(@)]
    BY <1>3, <1>4, CallChanges
<1>6. /\ Line[t] = buf[chan[c]] /\ chan[c] \in Chans
      /\ \A u \in Topics : queues[u] = chan[c] => u = t
    BY <1>1 DEF Holds, Used, Line, IInv, QueueInv, QueueTypes, OneChannel
<1>7. Line' = [Line EXCEPT ![t] = Tail(@)]
    <2>1. buf' = [buf EXCEPT ![chan[c]] = Tail(@)]
        BY DEF Receive
    <2>2. Line'[t] = Tail(Line[t])
        BY <1>1, <1>3, <1>6, <2>1 DEF Line, Holds, Used, IInv, QueueInv, QueueTypes
    <2>3. \A u \in Topics \ {t} : Line'[u] = Line[u]
        BY <1>3, <1>6, <2>1 DEF Line, IInv, QueueInv, QueueTypes
    <2>4. Line = [u \in Topics |-> Line[u]] /\ Line' = [u \in Topics |-> Line'[u]]
        BY DEF Line
    <2> QED
        BY <2>2, <2>3, <2>4
<1>8. Accepted' = Accepted
    BY DEF Accepted, Receive
<1>9. Abs!Take(c, t)
    BY <1>0, <1>2, <1>5, <1>6, <1>7, <1>8 DEF Abs!Take, Abs!Receives, Receive
<1> QED
    BY <1>9

LEMMA PassStep ==
    ASSUME IInv, IInv', Shut, NEW c \in Clients, NEW p \in Clients \ {c}, HandOver(p, c)
    PROVE  \E t \in Topics, m \in Msgs : Abs!Pass(p, c, t, m)
<1>0. /\ pc[p] = "publish" /\ Accept(p) /\ pc[c] \in {"consume", "try", "purge"}
      /\ chan[p] = chan[c] /\ received' = received \cup {NextMsg}
      /\ UNCHANGED <<queueSize, closed, queues, buf>> /\ queueSize = 0 /\ ~closed
    BY DEF HandOver, Shut
<1>1. PICK t \in Topics : Holds(p, t) /\ Holds(c, t)
    BY <1>0, Accepts DEF Holds, Used
<1>2. NextMsg \in Msgs /\ NextMsg \notin Accepted /\ Accepted' = Accepted \cup {NextMsg}
    BY <1>0, NextIsFree, Accepts
<1>3. Call[p] = Abs!Asked("publish", t) /\ Call[c] = Abs!Asked(pc[c], t)
    BY <1>0, <1>1, CallOf DEF CallsMatch
<1>4. Used' = Used
    BY <1>0 DEF Used
<1>5. Call'[p] = Abs!Idle
    BY CallOfNext DEF HandOver, IInv, CallInv, CallTypes
<1>6. Call'[c] = Abs!Served(Call[c])
    <2>1. CASE pc[c] = "purge"
        <3>1. pc'[c] = "purge" /\ Holds(c, t)'
            BY <1>0, <1>1, <1>4, <2>1 DEF HandOver, Holds, IInv, CallInv, CallTypes
        <3> QED
            BY <1>3, <2>1, <3>1, CallOfNext DEF Abs!Served, Abs!Asked
    <2>2. CASE pc[c] # "purge"
        <3>1. pc'[c] = "idle"
            BY <2>2 DEF HandOver, IInv, CallInv, CallTypes
        <3> QED
            BY <1>3, <2>2, <3>1, CallOfNext DEF Abs!Served, Abs!Asked
    <2> QED
        BY <2>1, <2>2
<1>7. \A d \in Clients \ {p, c} : Call'[d] = Call[d]
    <2>1. \A d \in Clients \ {p, c} : pc'[d] = pc[d] /\ chan'[d] = chan[d]
        BY DEF HandOver, IInv, CallInv, CallTypes
    <2> QED
        BY <1>0, <1>4, <2>1, CallKept
<1>8. Call' = [Call EXCEPT ![p] = Abs!Idle, ![c] = Abs!Served(@)]
    <2>1. Call = [d \in Clients |-> Call[d]] /\ Call' = [d \in Clients |-> Call'[d]]
        BY DEF Call
    <2> QED
        BY <1>5, <1>6, <1>7, <2>1
<1>9. Line' = Line
    BY <1>0 DEF Line
<1>10. Abs!Pass(p, c, t, NextMsg)
    BY <1>0, <1>2, <1>3, <1>8, <1>9 DEF Abs!Pass, Abs!Receives
<1> QED
    BY <1>2, <1>10

\* A step in which no call begins or ends, or only the queue is closed.
LEMMA StutterStep ==
    ASSUME IInv, IInv', Quiet, UNCHANGED <<pc, chan>>
    PROVE  Call' = Call /\ Line' = Line /\ Accepted' = Accepted
<1>1. Line' = Line /\ Accepted' = Accepted /\ Used' = Used
    BY QuietLines DEF IInv, QueueInv
<1>2. \A d \in Clients : Call'[d] = Call[d]
    BY <1>1, CallKept DEF Quiet
<1>3. Call = [d \in Clients |-> Call[d]] /\ Call' = [d \in Clients |-> Call'[d]]
    BY DEF Call
<1> QED
    BY <1>1, <1>2, <1>3

LEMMA LinesStep ==
    ASSUME IInv, IInv', Shut, [Next]_vars
    PROVE  [Abs!Next]_Abs!vars
<1>1. ASSUME NEW c \in Clients, NEW t \in Topics,
             NEW kind \in {"publish", "consume"}, pc[c] = "idle",
             GetOrCreateQueue(c, t, kind), UNCHANGED <<queueSize, closed, buf, accepted, received, before>>
      PROVE  [Abs!Next]_Abs!vars
    <2>1. CASE closed
        <3>1. Quiet /\ UNCHANGED <<pc, chan>>
            BY <1>1, <2>1 DEF GetOrCreateQueue, Quiet
        <3> QED
            BY <1>1, <3>1, StutterStep DEF Abs!vars
    <2>2. CASE ~closed
        <3>1. /\ pc' = [pc EXCEPT ![c] = kind] /\ chan' = [chan EXCEPT ![c] = queues'[t]]
              /\ \/ UNCHANGED queues /\ queues[t] # NoChan
                 \/ queues[t] = NoChan /\ queues' = [queues EXCEPT ![t] = made + 1]
            BY <1>1, <2>2 DEF GetOrCreateQueue, IInv, QueueInv, QueueTypes
        <3>2. Abs!Ask(c, kind, t)
            BY <1>1, <2>2, <3>1, AskStep
        <3> QED
            BY <3>2 DEF Abs!Next, Abs!Receives
    <2> QED
        BY <2>1, <2>2
<1>2. ASSUME NEW c \in Clients, NEW t \in Topics, Publish(c, t) \/ Consume(c, t)
      PROVE  [Abs!Next]_Abs!vars
    BY <1>1, <1>2 DEF Publish, Consume
<1>3. ASSUME NEW c \in Clients, NEW t \in Topics, NEW kind \in {"try", "purge"}, NEW missing,
             GetQueue(c, t, kind, missing)
      PROVE  [Abs!Next]_Abs!vars
    <2>1. CASE closed \/ queues[t] = NoChan
        <3>1. Quiet /\ UNCHANGED <<pc, chan, closed>>
            BY <1>3, <2>1 DEF GetQueue, Quiet
        <3> QED
            BY <3>1, StutterStep DEF Abs!vars, Quiet
    <2>2. CASE ~(closed \/ queues[t] = NoChan)
        <3>1. Abs!Ask(c, kind, t)
            BY <1>3, <2>2, AskStep DEF GetQueue
        <3> QED
            BY <3>1 DEF Abs!Next, Abs!Receives
    <2> QED
        BY <2>1, <2>2
<1>4. ASSUME NEW c \in Clients, NEW t \in Topics, TryConsume(c, t) \/ PurgeQueue(c, t)
      PROVE  [Abs!Next]_Abs!vars
    BY <1>3, <1>4 DEF TryConsume, PurgeQueue
<1>5. ASSUME NEW c \in Clients, Close(c) PROVE [Abs!Next]_Abs!vars
    <2>1. Abs!Close
        BY <1>5, StutterStep DEF Close, Quiet, Abs!Close
    <2> QED
        BY <2>1 DEF Abs!Next
<1>6. ASSUME NEW c \in Clients, Send(c) PROVE [Abs!Next]_Abs!vars
    BY <1>6, PutStep DEF Abs!Next
<1>7. ASSUME NEW c \in Clients, Receive(c) PROVE [Abs!Next]_Abs!vars
    BY <1>7, TakeStep DEF Abs!Next
<1>8. ASSUME NEW c \in Clients, NEW p \in Clients \ {c}, HandOver(p, c) PROVE [Abs!Next]_Abs!vars
    BY <1>8, PassStep DEF Abs!Next
<1>9. ASSUME NEW c \in Clients,
             SendPanics(c) \/ ReceiveClosed(c) \/ NothingThere(c) \/ GiveUp(c)
      PROVE  [Abs!Next]_Abs!vars
    <2>1. pc[c] # "idle" /\ Quiet /\ UNCHANGED closed /\ \E r : Return(c, r)
        BY <1>9 DEF SendPanics, ReceiveClosed, NothingThere, GiveUp, Quiet
    <2>2. Abs!Leave(c)
        BY <2>1, LeaveStep
    <2> QED
        BY <2>2 DEF Abs!Next
<1>10. CASE UNCHANGED vars
    BY <1>10, StutterStep DEF vars, Quiet, Abs!vars
<1> QED
    BY <1>2, <1>4, <1>5, <1>6, <1>7, <1>8, <1>9, <1>10 DEF Next, Select

\* Whatever calls race and whenever the queue is closed, it is one line of
\* messages per topic, for any number of topics, clients and messages.
THEOREM LinesKept == Spec => OneLinePerTopic
<1>1. Spec => []IInv
    BY InitIInv, NextIInv, PTL DEF Spec
<1>2. Init => Shut /\ Abs!Init
    BY DEF Init, Shut, Abs!Init, Line, Accepted, Call, Abs!Idle
<1>3. IInv /\ IInv' /\ Shut /\ [Next]_vars => [Abs!Next]_Abs!vars
    BY LinesStep
<1> QED
    BY <1>1, <1>2, <1>3, ShutStep, PTL DEF Spec, OneLinePerTopic, Abs!Spec

=============================================================================
