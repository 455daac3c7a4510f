------------------------------- MODULE Chunks -------------------------------
(***************************************************************************)
(* chunkize (csrc/backend/AllreduceAlgos.cpp): the tensor of numel         *)
(* elements is cut into world contiguous chunks of                         *)
(* ceil(numel / world) elements; the last chunks are shorter, or empty.    *)
(* Byte offsets are element offsets times a constant and are left out.     *)
(***************************************************************************)
EXTENDS Integers

AtMost(x, bound) == IF x < bound THEN x ELSE bound

Per(numel, world) == (numel + world - 1) \div world

ChunkStart(numel, world, i) == AtMost(i * Per(numel, world), numel)

ChunkEnd(numel, world, i) == AtMost((i + 1) * Per(numel, world), numel)

ChunkLen(numel, world, i) ==
  ChunkEnd(numel, world, i) - ChunkStart(numel, world, i)

ChunkElems(numel, world, i) ==
  ChunkStart(numel, world, i) .. ChunkEnd(numel, world, i) - 1
=============================================================================
