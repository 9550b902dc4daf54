---------------------------- MODULE MCMemPubSub ----------------------------
(* A small instance of MemPubSub for TLC.                                  *)
EXTENDS MemPubSub

CONSTANTS t1, t2, s1, s2, b1, b2

MCTopics == {t1, t2}
MCOneTopic == {t1}
MCSubs == {s1, s2}
MCBroadcasters == {b1, b2}
MCQueueSizes == {0, 1}

=============================================================================
