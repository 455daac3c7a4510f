---------------------------- MODULE FifoExecutor ----------------------------
(***************************************************************************)
(* What the collectives rely on (csrc/backend/Progress.hpp): tasks run one *)
(* at a time in the order in which they were submitted, each exactly once, *)
(* and closing the executor waits for all of them.                         *)
(***************************************************************************)
EXTENDS Naturals, Sequences

CONSTANT Tasks

VARIABLES submitted, ran, closed

vars == <<submitted, ran, closed>>

Init == submitted = <<>> /\ ran = <<>> /\ closed = FALSE

Submit(t) ==
  /\ ~closed
  /\ submitted' = Append(submitted, t)
  /\ UNCHANGED <<ran, closed>>

RunNext ==
  /\ ~closed
  /\ Len(ran) < Len(submitted)
  /\ ran' = Append(ran, submitted[Len(ran) + 1])
  /\ UNCHANGED <<submitted, closed>>

Close ==
  /\ ~closed
  /\ ran = submitted
  /\ closed' = TRUE
  /\ UNCHANGED <<submitted, ran>>

Next == (\E t \in Tasks : Submit(t)) \/ RunNext \/ Close

Spec == Init /\ [][Next]_vars
=============================================================================
