-------------------------- MODULE MCProgressEngine --------------------------
(***************************************************************************)
(* Three callers and a queue of one operation: one can execute, one be     *)
(* queued and one wait for room.  The buffers are of two sizes, one of     *)
(* which can reuse the other's; alignment 4 and a threshold of 8 bytes     *)
(* stand for 16384 and 256 MB.                                             *)
(***************************************************************************)
EXTENDS ProgressEngine, TLC

CONSTANTS o1, o2, o3

MCBytes == (o1 :> 3) @@ (o2 :> 9) @@ (o3 :> 3)
=============================================================================
