----------------------------- MODULE MCMemQueue -----------------------------
(* A small instance of MemQueue for TLC.                                   *)
EXTENDS MemQueue

CONSTANTS t1, t2, c1, c2, c3

MCTopics == {t1, t2}
MCClients == {c1, c2, c3}
MCQueueSizes == {0, 1, 2}

=============================================================================
