--------------------------- MODULE MCTaskManager ---------------------------
(* A small instance of TaskManager for TLC.                                *)
EXTENDS TaskManager

CONSTANTS a, b, c1, c2

MCNames == {a, b}
MCCallers == {c1, c2}
MCDeadlines == {c1}

=============================================================================
