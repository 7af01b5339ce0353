-------------------------- MODULE MCUploadChannel --------------------------
(* Two uploads, one of two frames and one of an empty file, on two worker  *)
(* threads.                                                                *)
EXTENDS UploadChannel, TLC

CONSTANTS t1, t2

MCSize == (t1 :> 2) @@ (t2 :> 0)
=============================================================================
