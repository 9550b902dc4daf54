----------------------------- MODULE TopicLines -----------------------------
(***************************************************************************)
(* What memory.Queue (mq/memory/queue.go) promises, without its channels,  *)
(* its map and its lock:                                                   *)
(*                                                                         *)
(*   - each topic has one line of messages, first in, first out, that no   *)
(*     call for another topic touches;                                     *)
(*   - a message is put at the end of the line its Publish names, once,    *)
(*     while there is room and the queue is not closed;                    *)
(*   - without any room it goes from a publisher to a receiver, and only   *)
(*     to one of the same topic;                                           *)
(*   - a call that returns an error has put and taken nothing since its    *)
(*     last message, and a closed queue takes no new calls.                *)
(*                                                                         *)
(* MemQueue implements this specification.                                 *)
(***************************************************************************)
EXTENDS Naturals, Sequences

CONSTANTS
    Topics,
    Clients,
    QueueSizes,
    Messages

VARIABLES
    room,       \* how many messages a line may hold
    closed,
    line,       \* line[t]: the messages waiting in a topic
    sent,       \* the messages that were accepted
    call        \* call[c]: what c has asked for and of which topic

vars == <<room, closed, line, sent, call>>

-----------------------------------------------------------------------------

Receives == {"consume", "try", "purge"}
Idle == [kind |-> "idle"]
Asked(kind, t) == [kind |-> kind, topic |-> t]

Init ==
    /\ room \in QueueSizes
    /\ closed = FALSE
    /\ line = [t \in Topics |-> <<>>]
    /\ sent = {}
    /\ call = [c \in Clients |-> Idle]

Ask(c, kind, t) ==
    /\ ~closed
    /\ call[c] = Idle
    /\ call' = [call EXCEPT ![c] = Asked(kind, t)]
    /\ UNCHANGED <<room, closed, line, sent>>

Put(c, t, m) ==
    /\ ~closed
    /\ call[c] = Asked("publish", t)
    /\ Len(line[t]) < room
    /\ m \notin sent
    /\ line' = [line EXCEPT ![t] = Append(@, m)]
    /\ sent' = sent \cup {m}
    /\ call' = [call EXCEPT ![c] = Idle]
    /\ UNCHANGED <<room, closed>>

(* A receiver that took a message is done, but for a purge.                *)
Served(was) == IF was.kind = "purge" THEN was ELSE Idle

Take(c, t) ==
    /\ \E kind \in Receives : call[c] = Asked(kind, t)
    /\ line[t] # <<>>
    /\ line' = [line EXCEPT ![t] = Tail(@)]
    /\ call' = [call EXCEPT ![c] = Served(@)]
    /\ UNCHANGED <<room, closed, sent>>

Pass(p, c, t, m) ==
    /\ ~closed
    /\ room = 0
    /\ call[p] = Asked("publish", t)
    /\ \E kind \in Receives : call[c] = Asked(kind, t)
    /\ m \notin sent
    /\ sent' = sent \cup {m}
    /\ call' = [call EXCEPT ![p] = Idle, ![c] = Served(@)]
    /\ UNCHANGED <<room, closed, line>>

(* A call ends without a message: a context, an empty line, a closed queue. *)
Leave(c) ==
    /\ call[c] # Idle
    /\ call' = [call EXCEPT ![c] = Idle]
    /\ UNCHANGED <<room, closed, line, sent>>

Close ==
    /\ closed' = TRUE
    /\ UNCHANGED <<room, line, sent, call>>

Next ==
    \/ \E c \in Clients, t \in Topics, kind \in Receives \cup {"publish"} : Ask(c, kind, t)
    \/ \E c \in Clients, t \in Topics, m \in Messages : Put(c, t, m)
    \/ \E c \in Clients, t \in Topics : Take(c, t)
    \/ \E p, c \in Clients, t \in Topics, m \in Messages : Pass(p, c, t, m)
    \/ \E c \in Clients : Leave(c)
    \/ Close

Spec == Init /\ [][Next]_vars

=============================================================================
