--------------------------- MODULE AllreduceState ---------------------------
(***************************************************************************)
(* The state of one allreduce on all ranks: where each rank's call is, the *)
(* buffers of AllreduceArgs (csrc/backend/AllreduceAlgos.hpp), the streams *)
(* between the ranks and the loop variables and transfer positions of the  *)
(* three algorithms, each of which uses some of them.                      *)
(***************************************************************************)
EXTENDS Tensor, MeshStream, Chunks

VARIABLES
  phase,    \* where the rank's call is: idle, in a phase of it, or done
  step,     \* ring: k, counted through both loops
  sent,     \* ring, butterfly: elements written by a send thread
  rcvd,     \* ring, butterfly: elements read by a receiver
  mask,     \* tree: the loop variable of the current loop
  pos,      \* tree: elements moved by the transfer in progress
  t,        \* args.t_view
  scratch,  \* args.recv_view
  wire      \* the streams of the mesh

\* Chunk c of chunkize(args.numel, world): its first element, elem_count
\* and elements.
Start(c) == ChunkStart(Numel, World, c)

Count(c) == ChunkLen(Numel, World, c)

Elems(c) == ChunkElems(Numel, World, c)

AllDone == \A r \in Rank : phase[r] = "done"
=============================================================================
