---------------------------- MODULE MCTaskGroup ----------------------------
(* A small instance of TaskGroup for TLC.                                  *)
EXTENDS TaskGroup

CONSTANTS t1, t2, s1, s2, p1, p2

MCTasks == {t1, t2}
MCStarters == {s1, s2}
MCStoppers == {p1, p2}
MCOneStopper == {p1}

=============================================================================
