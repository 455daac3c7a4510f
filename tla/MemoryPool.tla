----------------------------- MODULE MemoryPool -----------------------------
(***************************************************************************)
(* The staging buffer pool (csrc/runtime/MemoryPool.cpp) as operators on   *)
(* its two members: pool (pool_, in the order in which buffers came back)  *)
(* and total (total_allocated_).  Every method holds mu_ from its first to *)
(* its last access of them.  A buffer is its address and its capacity; the *)
(* field used is written and never read.                                   *)
(***************************************************************************)
EXTENDS Naturals, Sequences, FiniteSets, Functions

CONSTANTS
  Alignment,    \* alignment_, a power of two
  LargeBytes,   \* 256 MB: larger buffers get no slack
  Addresses     \* what posix_memalign may return

ASSUME AlignmentAssumption == Alignment \in Nat \ {0} /\ LargeBytes \in Nat

Buffers == [data : Addresses, capacity : Nat]

align_up(n) == ((n + Alignment - 1) \div Alignment) * Alignment

\* Buffers of pool that are large enough for n bytes.
Fitting(pool, n) == {i \in DOMAIN pool : pool[i].capacity >= align_up(n)}

\* The smallest of them, the first of equals.
BestFit(pool, n) ==
  CHOOSE i \in Fitting(pool, n) :
    \A j \in Fitting(pool, n) :
      \/ pool[i].capacity < pool[j].capacity
      \/ pool[i].capacity = pool[j].capacity /\ i <= j

\* The capacity of a new buffer: a quarter more, unless it is large.
AllocSize(n) ==
  LET nbytes == align_up(n)
  IN  align_up(IF nbytes <= LargeBytes THEN nbytes + nbytes \div 4 ELSE nbytes)

\* What acquire returns when live is the set of addresses not free: a pooled
\* buffer if one fits, else a new one at a free address.
Acquired(pool, live, n) ==
  IF Fitting(pool, n) # {}
  THEN pool[BestFit(pool, n)]
  ELSE [data |-> CHOOSE a \in Addresses : a \notin live,
        capacity |-> AllocSize(n)]

\* Mutant of PoolAfter: the buffer handed out is not erased.
PoolKept(pool, n) == pool

erase(pool, i) == SubSeq(pool, 1, i - 1) \o SubSeq(pool, i + 1, Len(pool))

\* The pool, and the total, after acquire(n).
PoolAfter(pool, n) ==
  IF Fitting(pool, n) # {} THEN erase(pool, BestFit(pool, n)) ELSE pool

TotalAfter(pool, total, n) ==
  IF Fitting(pool, n) # {} THEN total ELSE total + AllocSize(n)

release(pool, buf) == Append(pool, buf)

Capacities(pool) == [i \in DOMAIN pool |-> pool[i].capacity]

\* trim, which also empties the pool.
TrimmedTotal(pool, total) == total - SumFunction(Capacities(pool))
=============================================================================
