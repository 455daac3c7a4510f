------------------------- MODULE AllreduceCallProofs -------------------------
(***************************************************************************)
(* Proofs about ProcessGroupMCCL::allreduce (AllreduceCall.tla): whatever  *)
(* algorithm the call selects, for every world size, every number of       *)
(* elements, every socket buffer and both operators.  The algorithm is     *)
(* chosen once and never changes, so the invariant of the call is that of  *)
(* the algorithm; TreeProofs and ChunkedProofs have the three of them.     *)
(***************************************************************************)
EXTENDS AllreduceCall, TreeProofs, ChunkedProofs

\* The inductive invariant.
IInv ==
  \/ alg = "ring" /\ RingInv
  \/ alg = "tree" /\ TreeInv
  \/ alg = "butterfly" /\ ButterflyInv

\* Which rank's kernel computes element e, in the algorithm that runs.
ComputedBy ==
  [e \in Elem |-> IF alg = "ring" THEN Owner(ChunkOf(e))
                  ELSE IF alg = "tree" THEN 0 ELSE ChunkOf(e)]

\* The state before the call satisfies the invariant.
LEMMA InitIInv == Init => IInv
<1> SUFFICES ASSUME Init PROVE IInv
  OBVIOUS
<1>1. \/ alg = "ring" /\ RingInit
      \/ alg = "tree" /\ TreeInit
      \/ alg = "butterfly" /\ ButterflyInit
  BY Zenon DEF Init
<1> QED BY <1>1, RingStart, TreeStart, ButterflyStart, Zenon DEF IInv

\* A step of the call is a step of the algorithm that runs, or none.
LEMMA OneAlgorithm ==
  ASSUME [Next]_vars
  PROVE  /\ alg' = alg
         /\ alg = "ring" => RingNext \/ UNCHANGED ringVars
         /\ alg = "tree" => TreeNext \/ UNCHANGED treeVars
         /\ alg = "butterfly" => ButterflyNext \/ UNCHANGED butterflyVars
<1>1. CASE UNCHANGED vars
  BY <1>1, Zenon DEF vars, ringVars, treeVars, butterflyVars
<1>2. CASE RunRing
  BY <1>2, Zenon DEF RunRing
<1>3. CASE RunTree
  BY <1>3, Zenon DEF RunTree
<1>4. CASE RunButterfly
  BY <1>4, Zenon DEF RunButterfly
<1>5. CASE Terminating
  BY <1>5, Zenon DEF Terminating, vars, ringVars, treeVars, butterflyVars
<1> QED BY <1>1, <1>2, <1>3, <1>4, <1>5, Zenon DEF Next

\* Every step keeps the invariant.
LEMMA NextIInv == IInv /\ [Next]_vars => IInv'
<1> SUFFICES ASSUME IInv, [Next]_vars PROVE IInv'
  OBVIOUS
<1>1. /\ alg' = alg
      /\ alg = "ring" => RingNext \/ UNCHANGED ringVars
      /\ alg = "tree" => TreeNext \/ UNCHANGED treeVars
      /\ alg = "butterfly" => ButterflyNext \/ UNCHANGED butterflyVars
  BY OneAlgorithm, Zenon
<1>2. CASE alg = "ring" /\ RingInv
  BY <1>1, <1>2, RingKept, Zenon DEF IInv
<1>3. CASE alg = "tree" /\ TreeInv
  BY <1>1, <1>3, TreeKept, Zenon DEF IInv
<1>4. CASE alg = "butterfly" /\ ButterflyInv
  BY <1>1, <1>4, ButterflyKept, Zenon DEF IInv
<1> QED BY <1>2, <1>3, <1>4, Zenon DEF IInv

\* The invariant holds in every state of every call.
THEOREM Inductive == Spec => []IInv
  BY InitIInv, NextIInv, PTL DEF Spec
-----------------------------------------------------------------------------
\* The state of every algorithm keeps its type: no step, chunk, slot or mask
\* of AllreduceAlgos.cpp leaves its range.
THEOREM TypeCorrect == Spec => []TypeOK
<1>1. IInv => TypeOK
  <2> SUFFICES ASSUME IInv PROVE TypeOK
    OBVIOUS
  <2>1. CASE alg = "ring" /\ RingInv
    BY <2>1, RingSafe, Zenon DEF TypeOK
  <2>2. CASE alg = "tree" /\ TreeInv
    BY <2>2, TreeSafe, Zenon DEF TypeOK
  <2>3. CASE alg = "butterfly" /\ ButterflyInv
    BY <2>3, ButterflySafe, Zenon DEF TypeOK
  <2> QED BY <2>1, <2>2, <2>3, Zenon DEF IInv
<1> QED BY <1>1, Inductive, PTL

\* The streams carry no frame header; in all three algorithms the element a
\* rank reads next is nevertheless the one it expects, for every interleaving
\* of ranks in different steps or phases.
THEOREM ReadsWhatItExpects == Spec => []FrameMatch
<1>1. IInv => FrameMatch
  <2> SUFFICES ASSUME IInv PROVE FrameMatch
    OBVIOUS
  <2>1. CASE alg = "ring" /\ RingInv
    BY <2>1, RingSafe, Zenon DEF FrameMatch
  <2>2. CASE alg = "tree" /\ TreeInv
    BY <2>2, TreeSafe, Zenon DEF FrameMatch
  <2>3. CASE alg = "butterfly" /\ ButterflyInv
    BY <2>3, ButterflySafe, Zenon DEF FrameMatch
  <2> QED BY <2>1, <2>2, <2>3, Zenon DEF IInv
<1> QED BY <1>1, Inductive, PTL

\* The chunk a rank starts the allgather of allreduce_ring with holds the
\* contribution of every rank exactly once.
THEOREM GathersReducedChunks == Spec => []OwnsReducedChunk
<1>1. IInv => OwnsReducedChunk
  BY RingSafe, Zenon DEF IInv, OwnsReducedChunk
<1> QED BY <1>1, Inductive, PTL

\* When allreduce has returned on a rank, it has read all that was sent to
\* it: the next collective on these streams starts at its own first byte.
THEOREM StreamsAreClean == Spec => []WireClean
<1>1. IInv => WireClean
  <2> SUFFICES ASSUME IInv, NEW r \in Rank, phase[r] = "done", NEW p \in Rank
               PROVE  wire[p][r] = <<>>
    BY Zenon DEF WireClean
  <2> QED BY RingClean, TreeClean, ButterflyClean, Zenon DEF IInv
<1> QED BY <1>1, Inductive, PTL
-----------------------------------------------------------------------------
\* ComputedBy names a rank for every element.
LEMMA ComputedByRank == ComputedBy \in [Elem -> Rank]
<1>1. 0 \in Rank
  BY WorldAssumption DEF Rank
<1>2. ASSUME NEW e \in Elem PROVE ChunkOf(e) \in Rank
  BY ChunkOfElem, Zenon
<1>3. ASSUME NEW c \in Rank PROVE Owner(c) \in Rank
  <2>1. 1 \in 0 .. 2 * World - 1
    BY WorldAssumption
  <2> QED BY <2>1, SubFacts, Zenon DEF Owner
<1> QED BY <1>1, <1>2, <1>3, Zenon DEF ComputedBy

\* Every step of the algorithm that runs is, for the caller, a call, some
\* progress or a return with the complete reduction.
LEMMA PromiseKept ==
  ASSUME IInv, RunRing \/ RunTree \/ RunButterfly
  PROVE  KeepsPromise(ComputedBy)
<1>1. CASE RunRing
  <2>1. RingInv /\ RingNext /\ alg = "ring"
    BY <1>1, Zenon DEF RunRing, IInv
  <2>2. ComputedBy = [e \in Elem |-> Owner(ChunkOf(e))]
    BY <2>1, Zenon DEF ComputedBy
  <2> QED BY <2>1, <2>2, RingPromise, Zenon
<1>2. CASE RunTree
  <2>1. TreeInv /\ TreeNext /\ alg = "tree"
    BY <1>2, Zenon DEF RunTree, IInv
  <2>2. ComputedBy = [e \in Elem |-> 0]
    BY <2>1, Zenon DEF ComputedBy
  <2> QED BY <2>1, <2>2, TreePromise, Zenon
<1>3. CASE RunButterfly
  <2>1. ButterflyInv /\ ButterflyNext /\ alg = "butterfly"
    BY <1>3, Zenon DEF RunButterfly, IInv
  <2>2. ComputedBy = [e \in Elem |-> ChunkOf(e)]
    BY <2>1, Zenon DEF ComputedBy
  <2> QED BY <2>1, <2>2, ButterflyPromise, Zenon
<1> QED BY <1>1, <1>2, <1>3, Zenon

\* What the caller of an allreduce sees of rank r's call.
Seen(r) == IF phase[r] \in {"idle", "done"} THEN phase[r] ELSE "running"

\* What it gets.
Got(r) == IF phase[r] = "done" THEN t[r] ELSE <<>>

\* The abstract allreduce is about the same ranks and elements.
LEMMA SameTensor ==
  /\ Promise!Rank = Rank /\ Promise!Elem = Elem
  /\ \A o : Promise!Reduction(o) = Reduction(o)
<1>1. Promise!Rank = Rank /\ Promise!Elem = Elem
  BY Zenon DEF Promise!Rank, Promise!Elem, Rank, Elem
<1> QED BY <1>1, Zenon DEF Promise!Reduction, Reduction

\* Such a step is a step of the abstract allreduce, or none.
LEMMA PromiseStep ==
  ASSUME NEW owner \in [Elem -> Rank], KeepsPromise(owner)
  PROVE  [Promise!Next]_(Promise!vars)
<1>1. PICK r \in Rank :
        /\ \A q \in Rank \ {r} :
             phase'[q] = phase[q] /\ (phase[q] = "done" => t'[q] = t[q])
        /\ phase[r] # "done" /\ phase'[r] # "idle"
        /\ phase[r] = "idle" => phase'[r] # "done"
        /\ phase'[r] = "done" =>
             /\ t'[r] = Reduction(owner)
             /\ \A q \in Rank :
                  phase[q] # "idle" /\ (phase[q] = "done" => t[q] = Reduction(owner))
  BY Zenon DEF KeepsPromise
<1> DEFINE P == [q \in Rank |-> Seen(q)]
           O == [q \in Rank |-> Got(q)]
<1>2. \A q \in Rank \ {r} : Seen(q)' = Seen(q) /\ Got(q)' = Got(q)
  BY <1>1, Zenon DEF Seen, Got
<1>3. CASE phase'[r] = "done"
  <2>1. /\ Seen(r) = "running" /\ Seen(r)' = "done" /\ Got(r)' = Reduction(owner)
        /\ \A q \in Rank : Seen(q) # "idle"
        /\ \A q \in Rank : Seen(q) = "done" => Got(q) = Reduction(owner)
    BY <1>1, <1>3, Zenon DEF Seen, Got
  <2>2. P' = [P EXCEPT ![r] = "done"] /\ O' = [O EXCEPT ![r] = Reduction(owner)]
    BY <1>2, <2>1, Zenon
  <2>3. /\ P[r] = "running"
        /\ \A q \in Rank : P[q] # "idle"
        /\ \A q \in Rank : P[q] = "done" => O[q] = Promise!Reduction(owner)
        /\ O' = [O EXCEPT ![r] = Promise!Reduction(owner)]
    BY <2>1, <2>2, SameTensor, Zenon
  <2>4. \E o \in [Elem -> Rank] :
          /\ O' = [O EXCEPT ![r] = Promise!Reduction(o)]
          /\ \A q \in Rank : P[q] = "done" => O[q] = Promise!Reduction(o)
    BY <2>3, Zenon
  <2>5. Promise!Return(r)
    BY <2>2, <2>3, <2>4, SameTensor, Zenon DEF Promise!Return, Seen, Got
  <2> QED BY <2>5, SameTensor, Zenon DEF Promise!Next
<1>4. CASE phase'[r] # "done" /\ phase[r] = "idle"
  <2>1. Seen(r) = "idle" /\ Seen(r)' = "running" /\ Got(r)' = Got(r)
    BY <1>1, <1>4, Zenon DEF Seen, Got
  <2>2. P' = [P EXCEPT ![r] = "running"] /\ O' = O
    BY <1>2, <2>1, Zenon
  <2>3. Promise!Enter(r)
    BY <2>1, <2>2, Zenon DEF Promise!Enter, Seen, Got
  <2> QED BY <2>3, SameTensor, Zenon DEF Promise!Next
<1>5. CASE phase'[r] # "done" /\ phase[r] # "idle"
  <2>1. Seen(r)' = Seen(r) /\ Got(r)' = Got(r)
    BY <1>1, <1>5, Zenon DEF Seen, Got
  <2>2. P' = P /\ O' = O
    BY <1>2, <2>1, Zenon
  <2> QED BY <2>2, Zenon DEF Promise!vars, Seen, Got
<1> QED BY <1>3, <1>4, <1>5, Zenon

\* Whatever algorithm is selected, the call implements the abstract
\* allreduce: no rank returns before every rank has called, and all return
\* the same complete reduction, each input in it once, scaled once for AVG.
THEOREM Implements == Spec => ImplementsAllreduce
<1>1. Init => Promise!Init
  <2> SUFFICES ASSUME Init PROVE Promise!Init
    OBVIOUS
  <2>1. phase = [r \in Rank |-> "idle"]
    BY Zenon DEF Init, RingInit, TreeInit, ButterflyInit
  <2> QED BY <2>1, SameTensor, Zenon DEF Promise!Init, Promise!NoOutput
<1>2. IInv /\ [Next]_vars => [Promise!Next]_(Promise!vars)
  <2> SUFFICES ASSUME IInv, [Next]_vars PROVE [Promise!Next]_(Promise!vars)
    OBVIOUS
  <2>1. CASE RunRing \/ RunTree \/ RunButterfly
    BY <2>1, PromiseKept, PromiseStep, ComputedByRank, Zenon
  <2>2. CASE UNCHANGED vars
    BY <2>2, Zenon DEF vars, Promise!vars
  <2> QED BY <2>1, <2>2, Zenon DEF Next, Terminating
<1> QED BY <1>1, <1>2, Inductive, PTL DEF Spec, ImplementsAllreduce, Promise!Spec
=============================================================================
