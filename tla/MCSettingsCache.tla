--------------------------- MODULE MCSettingsCache ---------------------------
(* Small instances of SettingsCache for TLC.                                *)
EXTENDS SettingsCache

CONSTANTS t1, t2, w1

\* The threads of one process.
OneWorker == [t \in Threads |-> w1]
=============================================================================
