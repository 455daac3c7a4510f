------------------------------- MODULE Tensor -------------------------------
(***************************************************************************)
(* The contents of a tensor that is being reduced across ranks.            *)
(*                                                                         *)
(* Floating-point reduction is not associative.  An element therefore      *)
(* carries, besides how often each rank's input went into it, the rank     *)
(* whose kernel computed it: two copies of one computed value agree in all *)
(* fields, two values computed in different places do not.                 *)
(***************************************************************************)
EXTENDS Ranks

CONSTANTS Numel, Avg

ASSUME NumelAssumption == Numel \in Nat \ {0}
ASSUME AvgAssumption == Avg \in BOOLEAN

Elem == 0 .. Numel - 1

\* elem: the position it belongs to (NoElem once two positions were mixed);
\* cnt: how often each rank's input was reduced into it; by: the rank that
\* computed it; scl: how often it was scaled by 1/world.
NoElem == -1

Value ==
  [elem : Elem \cup {NoElem}, cnt : [Rank -> Nat], by : Rank, scl : Nat]

Input(r) ==
  [e \in Elem |->
     [elem |-> e, cnt |-> [q \in Rank |-> IF q = r THEN 1 ELSE 0],
      by |-> r, scl |-> 0]]

\* What at::empty leaves in a scratch buffer.
Garbage ==
  [elem |-> NoElem, cnt |-> [q \in Rank |-> 0], by |-> 0, scl |-> 0]

\* metal_reduce_op_view on one element: dst := dst op src, on rank r.
ReduceInto(r, dst, src) ==
  [elem |-> IF dst.elem = src.elem THEN dst.elem ELSE NoElem,
   cnt |-> [q \in Rank |-> dst.cnt[q] + src.cnt[q]],
   by |-> r,
   scl |-> dst.scl + src.scl]

\* Mutant of ScaleIfAvg: AVG is treated as SUM.
NotScaled(tensor) == tensor

\* The last statement of each algorithm: AVG scales the tensor by 1/world.
ScaleIfAvg(tensor) ==
  IF Avg THEN [e \in Elem |-> [tensor[e] EXCEPT !.scl = @ + 1]] ELSE tensor

\* The complete reduction, with element e computed by rank owner[e].
Reduction(owner) ==
  [e \in Elem |->
     [elem |-> e, cnt |-> [q \in Rank |-> 1], by |-> owner[e],
      scl |-> IF Avg THEN 1 ELSE 0]]
=============================================================================
