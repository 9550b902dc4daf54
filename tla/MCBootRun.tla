----------------------------- MODULE MCBootRun -----------------------------
(* A small instance of BootRun for TLC.                                    *)
EXTENDS BootRun

CONSTANTS t1, t2, launched, main

MCTasks == {t1, t2}
MCStarters == {launched}
MCStoppers == {main}

=============================================================================
