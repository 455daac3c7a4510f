---------------------------- MODULE AllreduceCall ----------------------------
(***************************************************************************)
(* ProcessGroupMCCL::allreduce (csrc/backend/ProcessGroupMCCL.cpp) on one  *)
(* tensor: choose an algorithm, allocate its scratch buffer and run it on  *)
(* the calling thread.  The algorithms have modules of their own; here     *)
(* they are put together, and all of them must keep the one promise of an  *)
(* allreduce.  The environment variables are the same on all ranks, which  *)
(* is what the launcher (mccl/_backend.py and its users) provides.         *)
(***************************************************************************)
EXTENDS RingAllreduce, TreeAllreduce, ButterflyAllreduce

VARIABLE alg    \* the algorithm chosen

vars == <<alg, phase, step, sent, rcvd, mask, pos, t, scratch, wire>>

\* MCCL_ALLREDUCE_ALGO, "auto" when it is not set; any other text is
\* possible and runs the tree.
Requests == {"auto", "ring", "tree", "butterfly", "other"}

\* The algorithm for a request; small: bytes <= tree_below.
Selected(request, small) ==
  LET a == IF request = "auto" THEN IF small THEN "tree" ELSE "ring"
           ELSE request
  IN  IF a \in {"ring", "butterfly"} /\ Numel >= World THEN a ELSE "tree"

\* The variables the algorithm has no use for are 0.
Init ==
  /\ \E request \in Requests, small \in BOOLEAN :
       alg = Selected(request, small)
  /\ \/ alg = "ring" /\ RingInit /\ mask = 0 /\ pos = 0
     \/ alg = "tree" /\ TreeInit /\ step = 0 /\ sent = 0 /\ rcvd = 0
     \/ alg = "butterfly" /\ ButterflyInit /\ step = 0 /\ mask = 0 /\ pos = 0

RunRing == alg = "ring" /\ RingNext /\ UNCHANGED <<alg, mask, pos>>

RunTree == alg = "tree" /\ TreeNext /\ UNCHANGED <<alg, step, sent, rcvd>>

RunButterfly ==
  alg = "butterfly" /\ ButterflyNext /\ UNCHANGED <<alg, step, mask, pos>>

Terminating == AllDone /\ UNCHANGED vars

Next == RunRing \/ RunTree \/ RunButterfly \/ Terminating

\* The threads of the algorithm that runs are scheduled for ever, and every
\* rank calls.
Fairness ==
  /\ alg = "ring" => RingFairness
  /\ alg = "tree" => TreeFairness
  /\ alg = "butterfly" => ButterflyFairness

Spec == Init /\ [][Next]_vars /\ Fairness

-----------------------------------------------------------------------------

\* The types of the state of the algorithm that runs.
TypeOK ==
  CASE alg = "ring" -> RingTypeOK
    [] alg = "tree" -> TreeTypeOK
    [] alg = "butterfly" -> ButterflyTypeOK

\* The streams carry no frame header: a receive takes whatever comes next.
\* In each algorithm the next element is the one the receiver expects, while
\* neighbours are in different steps or phases of the algorithm.
FrameMatch ==
  CASE alg = "ring" -> RingFrameMatch
    [] alg = "tree" -> OnlyResultsComeDown
    [] alg = "butterfly" -> PhasesDoNotMix

\* In the ring, the chunk a rank starts the second loop with is complete.
OwnsReducedChunk == alg = "ring" => OwnsReduced

\* When the call has returned on a rank, nothing of it is left on the streams
\* to that rank: its next collective starts reading at its own first byte.
WireClean ==
  \A r \in Rank : phase[r] = "done" => \A p \in Rank : wire[p][r] = <<>>

\* Whatever algorithm was chosen, the call keeps the promise of an allreduce:
\* every input reduced exactly once into every element, scaled once for AVG,
\* the same bits everywhere, and no return before every rank has called.
Promise ==
  INSTANCE Allreduce WITH
    phase <- [r \in Rank |-> IF phase[r] \in {"idle", "done"} THEN phase[r]
                             ELSE "running"],
    out <- [r \in Rank |-> IF phase[r] = "done" THEN t[r] ELSE <<>>]

ImplementsAllreduce == Promise!Spec

\* The call returns on every rank, whatever fits into the socket buffers.
EveryRankReturns == <>(\A r \in Rank : phase[r] = "done")
=============================================================================
