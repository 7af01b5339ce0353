---------------------------- MODULE MCFileCalls ----------------------------
(* An archive of two entries, one of them with the name writes pass by.    *)
EXTENDS FileCalls

CONSTANTS a, p
MCPlanned == {<<p, a>>}
=============================================================================
