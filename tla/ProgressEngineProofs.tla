------------------------ MODULE ProgressEngineProofs ------------------------
(***************************************************************************)
(* Proofs about the runtime's bounded progress engine, for every set of    *)
(* callers, every queue depth and any number of starts and stops: a stop   *)
(* drains the queue, the depth is never exceeded, and the staging pool     *)
(* neither loses a buffer nor hands one out twice.                         *)
(***************************************************************************)
EXTENDS ProgressEngine, FiniteSetTheorems, SequenceTheorems,
        WellFoundedInduction, NaturalsInduction, TLAPS

-----------------------------------------------------------------------------
(* Inductions over finite data take a least counterexample: among the      *)
(* naturals, or among the subsets of a finite set.                         *)

\* A set of naturals that is not empty has a least element.
LEMMA LeastNat ==
  ASSUME NEW T, T \subseteq Nat, T # {}
  PROVE  \E x \in T : \A y \in T : x <= y
<1>1. PICK x \in T : \A y \in T : ~(<<y, x>> \in OpToRel(<, Nat))
  BY NatLessThanWellFounded, WFMin, Zenon
<1>2. \A y \in T : ~(y < x)
  BY <1>1, Zenon DEF OpToRel
<1> QED
  BY <1>2

\* Among some subsets of a finite set there is one with the fewest elements.
LEMMA LeastSubset ==
  ASSUME NEW S, IsFiniteSet(S), NEW T, T \subseteq SUBSET S, T # {}
  PROVE  \E A \in T : /\ IsFiniteSet(A) /\ Cardinality(A) \in Nat
                      /\ \A x \in A : A \ {x} \notin T
<1> DEFINE Sizes == {Cardinality(A) : A \in T}
<1>1. \A A \in T : IsFiniteSet(A) /\ Cardinality(A) \in Nat
  BY FS_Subset, FS_CardinalityType, Zenon
<1>2. Sizes \subseteq Nat /\ Sizes # {}
  BY <1>1, Zenon
<1>3. PICK n \in Sizes : \A m \in Sizes : n <= m
  BY <1>2, LeastNat, Zenon
<1>4. PICK A \in T : Cardinality(A) = n
  BY <1>3, Zenon
<1>5. ASSUME NEW x \in A, A \ {x} \in T PROVE FALSE
  <2>1. Cardinality(A \ {x}) = Cardinality(A) - 1
    BY <1>1, FS_RemoveElement, Zenon
  <2>2. n <= Cardinality(A \ {x}) /\ n \in Nat
    BY <1>2, <1>3, <1>5, Zenon
  <2> QED
    BY <1>4, <2>1, <2>2
<1> QED
  BY <1>1, <1>5, Zenon

-----------------------------------------------------------------------------
(* Sums of the values of a function over a finite set (SumFunction).       *)

Pick(s) == CHOOSE x \in s : TRUE

\* it is the table of partial sums by which SumFunction is defined.
IsSum(it, f, A) ==
  it = [s \in SUBSET A |-> IF s = {} THEN 0
                           ELSE f[Pick(s)] + it[s \ {Pick(s)}]]

\* Pick takes an element.
LEMMA PickIn == ASSUME NEW s, s # {} PROVE Pick(s) \in s
BY Zenon DEF Pick

\* The definition of SumFunction, unfolded.
LEMMA SumUnfold ==
  ASSUME NEW f
  PROVE  SumFunction(f) = (CHOOSE it : IsSum(it, f, DOMAIN f))[DOMAIN f]
BY Zenon DEF SumFunction, SumFunctionOnSet, FoldFunctionOnSet, MapThenFoldSet,
   IsSum,
       Pick

\* Two tables for functions that agree on A have the same sum for A.
LEMMA SumUnique ==
  ASSUME NEW A, IsFiniteSet(A), NEW B, A \subseteq B,
         NEW f, NEW g, \A x \in A : f[x] = g[x],
         NEW i, NEW j, IsSum(i, f, A), IsSum(j, g, B)
  PROVE  i[A] = j[A]
<1> DEFINE Bad == {C \in SUBSET A : i[C] # j[C]}
<1> SUFFICES ASSUME Bad # {} PROVE FALSE
  OBVIOUS
<1>1. PICK C \in Bad : \A x \in C : C \ {x} \notin Bad
  BY LeastSubset, Zenon
<1>2. \A D \in SUBSET A :
        /\ i[D] = IF D = {} THEN 0 ELSE f[Pick(D)] + i[D \ {Pick(D)}]
        /\ j[D] = IF D = {} THEN 0 ELSE g[Pick(D)] + j[D \ {Pick(D)}]
  BY Zenon DEF IsSum
<1>3. C # {}
  BY <1>1, <1>2, Zenon
<1>4. Pick(C) \in C /\ C \in SUBSET A
  BY <1>3, PickIn, Zenon
<1>5. i[C \ {Pick(C)}] = j[C \ {Pick(C)}]
  BY <1>1, <1>4, Zenon
<1>6. f[Pick(C)] = g[Pick(C)]
  BY <1>4, Zenon
<1>7. i[C] = j[C]
  BY <1>2, <1>3, <1>4, <1>5, <1>6, Zenon
<1> QED
  BY <1>1, <1>7, Zenon

\* A table of partial sums exists: extend those of the smaller sets.
LEMMA SumExists ==
  ASSUME NEW S, IsFiniteSet(S), NEW f \in [S -> Nat]
  PROVE  \E it : IsSum(it, f, S) /\ it \in [SUBSET S -> Nat]
<1> DEFINE Has(A) == \E it : IsSum(it, f, A) /\ it \in [SUBSET A -> Nat]
           Bad == {A \in SUBSET S : ~Has(A)}
<1> SUFFICES ASSUME Bad # {} PROVE FALSE
  BY Zenon
<1>1. PICK A \in Bad : IsFiniteSet(A) /\ \A x \in A : A \ {x} \notin Bad
  BY LeastSubset, Zenon
<1>2. \A x \in A : Has(A \ {x})
  BY <1>1, Zenon
<1> DEFINE Table == [x \in A |-> CHOOSE it : /\ IsSum(it, f, A \ {x})
                                              /\ it \in [SUBSET (A \ {x}) -> Nat]]
           it == [s \in SUBSET A |-> IF s = {} THEN 0
                    ELSE IF s = A THEN f[Pick(A)] + Table[Pick(A)][A \ {Pick(A)}]
                    ELSE Table[Pick(A \ s)][s]]
<1>3. \A x \in A : /\ IsSum(Table[x], f, A \ {x})
                   /\ Table[x] \in [SUBSET (A \ {x}) -> Nat]
  BY <1>2, Zenon
<1> HIDE DEF Table, Has
<1>8. \A x \in A : \A u \in SUBSET (A \ {x}) :
        /\ Table[x][u] \in Nat
        /\ Table[x][u] = IF u = {} THEN 0
                         ELSE f[Pick(u)] + Table[x][u \ {Pick(u)}]
  <2> SUFFICES ASSUME NEW x \in A, NEW u \in SUBSET (A \ {x})
               PROVE  /\ Table[x][u] \in Nat
                      /\ Table[x][u] = IF u = {} THEN 0
                                       ELSE f[Pick(u)] + Table[x][u \ {Pick(u)}]
    OBVIOUS
  <2>1. PICK t : t = Table[x]
    OBVIOUS
  <2>2. IsSum(t, f, A \ {x}) /\ t \in [SUBSET (A \ {x}) -> Nat]
    BY <1>3, <2>1, Zenon
  <2>3. t[u] = IF u = {} THEN 0 ELSE f[Pick(u)] + t[u \ {Pick(u)}]
    BY <2>2, Zenon DEF IsSum
  <2> QED
    BY <2>1, <2>2, <2>3, Zenon
<1>4. ASSUME NEW x \in A, NEW y \in A, NEW s \in SUBSET A, x \notin s, y \notin s
      PROVE  Table[x][s] = Table[y][s]
  <2>1. s \in SUBSET (A \ {x}) /\ s \in SUBSET (A \ {y})
    BY <1>4, Zenon
  <2> DEFINE r == [u \in SUBSET s |-> Table[x][u]]
  <2>2. IsSum(r, f, s)
    <3>1. ASSUME NEW u \in SUBSET s
          PROVE  r[u] = IF u = {} THEN 0 ELSE f[Pick(u)] + r[u \ {Pick(u)}]
      BY <1>8, <2>1, Zenon
    <3> QED
      BY <3>1, Zenon DEF IsSum
  <2>3. IsFiniteSet(s)
    BY <1>1, FS_Subset, Zenon
  <2> HIDE DEF r
  <2>4. ASSUME NEW z \in {x, y} PROVE r[s] = Table[z][s]
    <3>1. IsSum(Table[z], f, A \ {z}) /\ s \subseteq A \ {z}
      BY <1>3, <2>1, Zenon
    <3> QED
      BY <2>2, <2>3, <3>1, SumUnique
  <2> QED
    BY <2>4, Zenon
<1>5. A # {}
  <2> SUFFICES ASSUME A = {} PROVE FALSE
    OBVIOUS
  <2>1. IsSum([s \in SUBSET A |-> 0], f, A)
    BY Zenon DEF IsSum
  <2>2. [s \in SUBSET A |-> 0] \in [SUBSET A -> Nat]
    OBVIOUS
  <2> QED
    BY <1>1, <2>1, <2>2, Zenon DEF Has
<1>6. it \in [SUBSET A -> Nat]
  <2> SUFFICES ASSUME NEW s \in SUBSET A, s # {} PROVE it[s] \in Nat
    BY Zenon
  <2>1. CASE s = A
    <3>1. Pick(A) \in A
      BY <1>5, PickIn, Zenon
    <3>2. Table[Pick(A)][A \ {Pick(A)}] \in Nat /\ f[Pick(A)] \in Nat
      BY <1>8, <3>1, Zenon
    <3> QED
      BY <2>1, <3>2
  <2>2. CASE s # A
    <3>1. Pick(A \ s) \in A \ s
      BY <2>2, PickIn
    <3>2. Table[Pick(A \ s)][s] \in Nat
      BY <1>8, <3>1, Zenon
    <3> QED
      BY <2>2, <3>2, Zenon
  <2> QED
    BY <2>1, <2>2, Zenon
<1>7. IsSum(it, f, A)
  <2> SUFFICES ASSUME NEW s \in SUBSET A, s # {}
               PROVE  it[s] = f[Pick(s)] + it[s \ {Pick(s)}]
    BY Zenon DEF IsSum
  <2> DEFINE p == Pick(s)
             rest == s \ {p}
  <2>1. p \in s /\ rest \in SUBSET A /\ rest # A
    BY PickIn, Zenon
  <2>2. CASE s = A
    <3>1. it[s] = f[p] + Table[p][rest]
      BY <2>2, Zenon
    <3>2. it[rest] = Table[p][rest]
      <4>1. CASE rest = {}
        <5>1. it[rest] = 0
          BY <2>1, <4>1, Zenon
        <5>2. Table[p][rest] = 0
          BY <1>8, <2>1, <4>1, Zenon
        <5> QED
          BY <5>1, <5>2, Zenon
      <4>2. CASE rest # {}
        <5>1. it[rest] = Table[Pick(A \ rest)][rest]
          BY <2>1, <4>2, Zenon
        <5>2. Pick(A \ rest) \in A \ rest
          BY <2>1, PickIn
        <5> QED
          BY <1>4, <2>1, <5>1, <5>2
      <4> QED
        BY <4>1, <4>2, Zenon
    <3> QED
      BY <3>1, <3>2, Zenon
  <2>3. CASE s # A
    <3> DEFINE q == Pick(A \ s)
    <3>1. q \in A /\ q \notin s
      BY <2>3, PickIn, Zenon
    <3>2. it[s] = Table[q][s]
      BY <2>3, Zenon
    <3>3. Table[q][s] = f[p] + Table[q][rest]
      BY <1>8, <3>1, Zenon
    <3>4. it[rest] = Table[q][rest]
      <4>1. CASE rest = {}
        <5>1. it[rest] = 0
          BY <2>1, <4>1, Zenon
        <5>2. Table[q][rest] = 0
          BY <1>8, <3>1, <4>1, Zenon
        <5> QED
          BY <5>1, <5>2, Zenon
      <4>2. CASE rest # {}
        <5>1. it[rest] = Table[Pick(A \ rest)][rest]
          BY <2>1, <4>2, Zenon
        <5>2. Pick(A \ rest) \in A \ rest
          BY <2>1, PickIn
        <5> QED
          BY <1>4, <2>1, <3>1, <5>1, <5>2
      <4> QED
        BY <4>1, <4>2, Zenon
    <3> QED
      BY <3>2, <3>3, <3>4, Zenon
  <2> QED
    BY <2>2, <2>3, Zenon
<1> QED
  BY <1>1, <1>6, <1>7, Zenon DEF Has

\* SumFunction is the value of any such table.
LEMMA SumTable ==
  ASSUME NEW S, IsFiniteSet(S), NEW f \in [S -> Nat], NEW A \in SUBSET S,
         NEW it, IsSum(it, f, S)
  PROVE  SumFunction([x \in A |-> f[x]]) = it[A]
<1> DEFINE g == [x \in A |-> f[x]]
           h == CHOOSE j : IsSum(j, g, DOMAIN g)
<1>1. DOMAIN g = A /\ g \in [A -> Nat] /\ IsFiniteSet(A)
  BY FS_Subset, Zenon
<1>2. \E j : IsSum(j, g, DOMAIN g)
  BY <1>1, SumExists, Zenon
<1>3. IsSum(h, g, A)
  BY <1>1, <1>2, Zenon
<1>4. \A x \in A : g[x] = f[x]
  OBVIOUS
<1> HIDE DEF g
<1>5. SumFunction(g) = h[A]
  BY <1>1, SumUnfold, Zenon
<1> HIDE DEF h
<1>6. h[A] = it[A]
  BY <1>1, <1>3, <1>4, SumUnique
<1> QED
  BY <1>5, <1>6, Zenon DEF g

\* A sum of naturals is a natural number, and zero over nothing.
LEMMA SumNat ==
  ASSUME NEW S, IsFiniteSet(S), NEW f \in [S -> Nat]
  PROVE  SumFunction(f) \in Nat /\ (S = {} => SumFunction(f) = 0)
<1>1. PICK it : IsSum(it, f, S) /\ it \in [SUBSET S -> Nat]
  BY SumExists, Zenon
<1>2. f = [x \in S |-> f[x]]
  OBVIOUS
<1>3. SumFunction(f) = it[S]
  BY <1>1, <1>2, SumTable
<1>4. S = {} => it[S] = 0
  BY <1>1, Zenon DEF IsSum
<1> QED
  BY <1>1, <1>3, <1>4, Zenon

\* Any element may be taken out of a partial sum first.
LEMMA SumStep ==
  ASSUME NEW S, IsFiniteSet(S), NEW f \in [S -> Nat],
         NEW it \in [SUBSET S -> Nat], IsSum(it, f, S),
         NEW A \in SUBSET S, NEW a \in A
  PROVE  it[A] = f[a] + it[A \ {a}]
<1> DEFINE Bad == {C \in SUBSET S : \E x \in C : it[C] # f[x] + it[C \ {x}]}
<1> SUFFICES ASSUME Bad # {} PROVE FALSE
  BY Zenon
<1>1. PICK C \in Bad : \A x \in C : C \ {x} \notin Bad
  BY LeastSubset, Zenon
<1>2. PICK x \in C : it[C] # f[x] + it[C \ {x}]
  BY <1>1, Zenon
<1> DEFINE c == Pick(C)
           B == C \ {x, c}
<1>3. c \in C /\ it[C] = f[c] + it[C \ {c}]
  BY <1>2, PickIn, Zenon DEF IsSum
<1>4. c # x
  BY <1>2, <1>3, Zenon
<1>5. /\ C \ {c} \in SUBSET S /\ C \ {x} \in SUBSET S
      /\ C \ {c} \notin Bad /\ C \ {x} \notin Bad
  BY <1>1, <1>2, <1>3, Zenon
<1>6. /\ x \in C \ {c} /\ (C \ {c}) \ {x} = B
      /\ c \in C \ {x} /\ (C \ {x}) \ {c} = B
  BY <1>2, <1>3, <1>4, Zenon
<1>7. it[C \ {c}] = f[x] + it[B]
  BY <1>5, <1>6, Zenon
<1>8. it[C \ {x}] = f[c] + it[B]
  BY <1>5, <1>6, Zenon
<1>9. f[x] \in Nat /\ f[c] \in Nat /\ it[B] \in Nat
  BY <1>2, <1>3, Zenon
<1> HIDE DEF Bad, B, c
<1> QED
  BY <1>2, <1>3, <1>7, <1>8, <1>9

\* Any element may be taken out of a sum first.
LEMMA SumRemove ==
  ASSUME NEW S, IsFiniteSet(S), NEW f \in [S -> Nat], NEW a \in S
  PROVE  SumFunction(f) = f[a] + SumFunction([x \in S \ {a} |-> f[x]])
<1>1. PICK it : IsSum(it, f, S) /\ it \in [SUBSET S -> Nat]
  BY SumExists, Zenon
<1>2. it[S] = f[a] + it[S \ {a}]
  BY <1>1, SumStep, SMTT(30)
<1>3. f = [x \in S |-> f[x]]
  OBVIOUS
<1>4. SumFunction(f) = it[S]
  BY <1>1, <1>3, SumTable
<1>5. SumFunction([x \in S \ {a} |-> f[x]]) = it[S \ {a}]
  BY <1>1, SumTable
<1> QED
  BY <1>2, <1>4, <1>5, Zenon

\* Renaming the indices does not change a sum.
LEMMA SumReindex ==
  ASSUME NEW S, IsFiniteSet(S), NEW f \in [S -> Nat],
         NEW T, NEW g \in [T -> Nat], NEW m \in [S -> T],
         \A x, y \in S : m[x] = m[y] => x = y,
         \A y \in T : \E x \in S : m[x] = y,
         \A x \in S : f[x] = g[m[x]]
  PROVE  SumFunction(f) = SumFunction(g)
<1>1. IsFiniteSet(T)
  <2>1. m \in Surjection(S, T)
    BY Zenon DEF Surjection
  <2> QED
    BY <2>1, FS_Surjection, Zenon
<1>2. PICK i : IsSum(i, f, S) /\ i \in [SUBSET S -> Nat]
  BY SumExists, Zenon
<1>3. PICK j : IsSum(j, g, T) /\ j \in [SUBSET T -> Nat]
  BY <1>1, SumExists, Zenon
<1> DEFINE Im(A) == {m[x] : x \in A}
           Bad == {A \in SUBSET S : i[A] # j[Im(A)]}
<1>4. \A A \in SUBSET S : i[A] = SumFunction([x \in A |-> f[x]])
  BY <1>2, SumTable
<1>5. \A B \in SUBSET T : j[B] = SumFunction([y \in B |-> g[y]])
  BY <1>1, <1>3, SumTable
<1>6. Bad = {}
  <2> SUFFICES ASSUME Bad # {} PROVE FALSE
    BY Zenon
  <2>1. PICK A \in Bad : \A x \in A : A \ {x} \notin Bad
    BY LeastSubset, Zenon
  <2>2. A # {}
    <3>1. i[{}] = 0 /\ j[{}] = 0
      BY <1>2, <1>3, Zenon DEF IsSum
    <3>2. A = {} => Im(A) = {}
      OBVIOUS
    <3> QED
      BY <2>1, <3>1, <3>2, Zenon
  <2>3. PICK x \in A : TRUE
    BY <2>2, Zenon
  <2>4. A \in SUBSET S /\ i[A \ {x}] = j[Im(A \ {x})]
    BY <2>1, <2>3, Zenon
  <2>5. Im(A \ {x}) = Im(A) \ {m[x]}
    BY <2>3
  <2>6. i[A] = f[x] + i[A \ {x}]
    BY <1>2, <2>3, <2>4, SumStep
  <2>7. j[Im(A)] = g[m[x]] + j[Im(A) \ {m[x]}]
    <3>1. Im(A) \in SUBSET T /\ m[x] \in Im(A)
      BY <2>3, <2>4
    <3>2. PICK B \in SUBSET T : B = Im(A)
      BY <3>1, Zenon
    <3>3. PICK y \in B : y = m[x]
      BY <3>1, <3>2, Zenon
    <3>4. j[B] = g[y] + j[B \ {y}]
      BY <1>1, <1>3, SumStep
    <3> QED
      BY <3>2, <3>3, <3>4, Zenon
  <2>8. f[x] = g[m[x]]
    BY <2>3, Zenon
  <2>9. i[A] = j[Im(A)]
    BY <2>4, <2>5, <2>6, <2>7, <2>8, Zenon
  <2> QED
    BY <2>1, <2>9, Zenon
<1>7. i[S] = j[T]
  <2>1. Im(S) = T
    OBVIOUS
  <2> QED
    BY <1>6, <2>1, Zenon
<1>8. f = [x \in S |-> f[x]] /\ g = [y \in T |-> g[y]]
  OBVIOUS
<1> QED
  BY <1>4, <1>5, <1>7, <1>8

\* The same, for a bijection.
LEMMA SumBijection ==
  ASSUME NEW S, IsFiniteSet(S), NEW T, NEW g \in [T -> Nat],
         NEW m \in Bijection(S, T)
  PROVE  SumFunction([x \in S |-> g[m[x]]]) = SumFunction(g)
<1> DEFINE f == [x \in S |-> g[m[x]]]
<1>1. /\ m \in [S -> T] /\ \A x, y \in S : m[x] = m[y] => x = y
      /\ \A y \in T : \E x \in S : m[x] = y
  BY Zenon DEF Bijection, Injection, Surjection, IsInjective
<1>2. f \in [S -> Nat] /\ \A x \in S : f[x] = g[m[x]]
  BY <1>1, Zenon
<1> HIDE DEF f
<1>3. SumFunction(f) = SumFunction(g)
  BY <1>1, <1>2, SumReindex
<1> QED
  BY <1>3, Zenon DEF f

-----------------------------------------------------------------------------
(* The invariant of the engine.                                            *)

\* Where a caller can be in submit.
CallerAt == {"before", "check", "lock", "waiting", "locked", "notify",
             "returned", "threw"}

\* The types of everything but the pool.
EngineTypes ==
  /\ queue \in Seq(Ops) /\ op \in Seq(Ops)
  /\ running \in BOOLEAN /\ stop_requested \in BOOLEAN
  /\ mu \subseteq Ops
  /\ caller \in [Ops -> CallerAt]
  /\ worker \in {"none", "lock", "waiting", "taken", "execute",
                 "on_complete", "on_error", "destroy", "exited"}
  /\ owner \in {"stopped", "starting", "started", "stopping", "joining"}
  /\ starts \in 0 .. MaxStarts
  /\ accepted \in Seq(Ops) /\ ran \in Seq(Ops)
  /\ told \in [Ops -> Nat]

\* mu_ is held by the one caller that is between the wait and push_back, and
\* such a caller may push: there is room, or the engine is stopping.
Mutex ==
  /\ \A o \in Ops : o \in mu <=> caller[o] = "locked"
  /\ \A o, p \in mu : o = p
  /\ mu # {} => HasRoom \/ stop_requested
  /\ Len(queue) <= max_depth

\* Where the owner is, where the worker is and what the flags say.  While
\* the engine is stopped nobody can push.
Lifecycle ==
  /\ owner = "stopped" =>
       /\ worker = "none" /\ queue = <<>> /\ ~running
       /\ stop_requested \/ \A o \in Ops :
                              caller[o] \notin {"lock", "waiting", "locked"}
  /\ owner = "starting" => worker = "none" /\ ~stop_requested /\ ~running
  /\ owner = "started" => worker \notin {"none", "exited"} /\ ~stop_requested
  /\ owner \in {"stopping", "joining"} => worker # "none" /\ stop_requested
  /\ worker = "exited" => queue = <<>>

\* Operations that have left the queue.
Started == Len(ran) + IF worker \in {"taken", "execute"} THEN 1 ELSE 0

\* Operations whose outcome was reported.
Reported == Len(ran) - IF worker \in {"on_complete", "on_error"} THEN 1 ELSE 0

\* What was accepted is, in this order, what ran, what the worker has in its
\* hands and what is queued; and every operation is accepted at most once.
Order ==
  /\ Len(accepted) = Started + Len(queue)
  /\ \A i \in 1 .. Len(ran) : ran[i] = accepted[i]
  /\ \A i \in 1 .. Len(queue) : queue[i] = accepted[Started + i]
  /\ \A i \in 1 .. Len(accepted) : caller[accepted[i]] \in {"notify", "returned"}
  /\ \A i, j \in 1 .. Len(accepted) : accepted[i] = accepted[j] => i = j

\* The operation in the worker's hands.
InHand ==
  /\ worker \in {"none", "lock", "waiting", "exited"} => op = <<>>
  /\ worker \notin {"none", "lock", "waiting", "exited"} =>
       Len(op) = 1 /\ Started > 0 /\ op[1] = accepted[Started]

\* Outcomes are reported once, in order.
Outcomes ==
  \A o \in Ops :
    told[o] = IF \E i \in 1 .. Reported : accepted[i] = o THEN 1 ELSE 0

\* The inductive invariant of the engine.
EInv == EngineTypes /\ Mutex /\ Lifecycle /\ Order /\ InHand /\ Outcomes

-----------------------------------------------------------------------------
(* The staging pool.                                                       *)

\* An operation owns at most one buffer, from acquire until its closures are
\* destroyed, so that the operation the worker has owns one.
OneBuffer ==
  /\ held \in [Ops -> SUBSET Buffers]
  /\ \A o \in Ops : \A b, c \in held[o] : b = c
  /\ \A o \in Ops : caller[o] = "before" => held[o] = {}

\* No address is owned twice.
Owners ==
  /\ pool \in Seq(Buffers)
  /\ \A i, j \in DOMAIN pool : pool[i].data = pool[j].data => i = j
  /\ \A o \in Ops : \A b \in held[o] :
       /\ b.capacity >= Bytes[o]
       /\ \A i \in DOMAIN pool : pool[i].data # b.data
       /\ \A p \in Ops \ {o} : \A c \in held[p] : b.data # c.data

\* The inductive invariant of the pool.
MInv ==
  /\ OneBuffer /\ Owners
  /\ total = SumFunction(Capacities(pool))
               + SumFunction([b \in HeldBuffers |-> b.capacity])

-----------------------------------------------------------------------------
(* The engine.                                                             *)

\* An engine that was just constructed satisfies the invariant.
LEMMA InitEngine == Init => EInv
<1> SUFFICES ASSUME Init PROVE EInv
  OBVIOUS
<1>1. /\ queue = <<>> /\ op = <<>> /\ accepted = <<>> /\ ran = <<>>
      /\ Len(queue) = 0 /\ Len(accepted) = 0 /\ Len(ran) = 0
      /\ worker = "none" /\ owner = "stopped" /\ mu = {}
      /\ caller = [o \in Ops |-> "before"] /\ told = [o \in Ops |-> 0]
      /\ running = FALSE /\ stop_requested = FALSE /\ starts = 0
  BY Zenon DEF Init
<1>2. EngineTypes
  <2>1. /\ caller \in [Ops -> CallerAt] /\ told \in [Ops -> Nat]
        /\ starts \in 0 .. MaxStarts
    BY <1>1, CallersAssumption DEF CallerAt
  <2>2. /\ queue \in Seq(Ops) /\ op \in Seq(Ops)
        /\ accepted \in Seq(Ops) /\ ran \in Seq(Ops)
    BY <1>1
  <2> QED
    BY <1>1, <2>1, <2>2, Zenon DEF EngineTypes
<1>3. Mutex /\ Lifecycle
  BY <1>1, DepthAssumption DEF Mutex, Lifecycle, HasRoom
<1>4. Started = 0 /\ Reported = 0
  BY <1>1 DEF Started, Reported
<1>5. Order /\ InHand /\ Outcomes
  BY <1>1, <1>4 DEF Order, InHand, Outcomes
<1> QED
  BY <1>2, <1>3, <1>5, Zenon DEF EInv

\* What the invariant says about the counts.
LEMMA Counts ==
  ASSUME EInv
  PROVE  /\ queue \in Seq(Ops) /\ accepted \in Seq(Ops) /\ ran \in Seq(Ops)
         /\ Len(queue) \in Nat /\ Len(accepted) \in Nat /\ Len(ran) \in Nat
         /\ Started \in Nat /\ Reported \in Int
         /\ Reported <= Len(ran) /\ Len(ran) <= Started
         /\ Len(accepted) = Started + Len(queue)
         /\ \A i \in 1 .. Len(accepted) : accepted[i] \in Ops
<1>1. /\ queue \in Seq(Ops) /\ accepted \in Seq(Ops) /\ ran \in Seq(Ops)
      /\ Len(accepted) = Started + Len(queue)
  BY Zenon DEF EInv, EngineTypes, Order
<1>2. /\ Len(queue) \in Nat /\ Len(accepted) \in Nat /\ Len(ran) \in Nat
      /\ \A i \in 1 .. Len(accepted) : accepted[i] \in Ops
  BY <1>1
<1>3. /\ Started \in Nat /\ Reported \in Int
      /\ Reported <= Len(ran) /\ Len(ran) <= Started
  BY <1>2 DEF Started, Reported
<1> QED
  BY <1>1, <1>2, <1>3, Zenon

\* Whether the worker has an operation in its hands.
Idle(w) == w \in {"none", "lock", "waiting", "exited"}

\* Steps that move no operation keep what the invariant says about their
\* order and outcomes, provided an accepted caller stays past push_back.
LEMMA QueuesUntouched ==
  ASSUME EInv, UNCHANGED <<queue, op, accepted, ran, told>>,
         UNCHANGED <<Started, Reported>>, Idle(worker) <=> Idle(worker'),
         \A o \in Ops : caller[o] \in {"notify", "returned"} =>
                          caller'[o] \in {"notify", "returned"}
  PROVE  Order' /\ InHand' /\ Outcomes'
<1>1. \A i \in 1 .. Len(accepted) : accepted[i] \in Ops
  BY DEF EInv, EngineTypes
<1>2. Order'
  BY <1>1, Zenon DEF EInv, Order
<1>3. InHand'
  BY Zenon DEF EInv, InHand, Idle
<1>4. Outcomes'
  BY Zenon DEF EInv, Outcomes
<1> QED
  BY <1>2, <1>3, <1>4, Zenon

\* A caller that takes its buffer, or is refused one.
LEMMA AcquireEngine ==
  ASSUME EInv, NEW o \in Ops, Acquire(o)
  PROVE  EInv'
<1>1. /\ caller[o] = "before" /\ UNCHANGED <<engine, history>>
      /\ caller' \in [Ops -> CallerAt]
      /\ \A p \in Ops : IF p = o THEN caller'[p] \in {"check", "threw"}
                        ELSE caller'[p] = caller[p]
  BY Zenon DEF Acquire, EInv, EngineTypes, CallerAt
<1>2. /\ UNCHANGED <<queue, running, stop_requested, mu, worker, op, owner,
                     starts, accepted, ran, told>>
  BY <1>1, Zenon DEF engine, history
<1>3. EngineTypes'
  BY <1>1, <1>2, Zenon DEF EInv, EngineTypes
<1>4. Mutex'
  BY <1>1, <1>2, Zenon DEF EInv, Mutex, HasRoom
<1>5. Lifecycle'
  BY <1>1, <1>2, Zenon DEF EInv, Lifecycle
<1>6. Order' /\ InHand' /\ Outcomes'
  BY <1>1, <1>2, QueuesUntouched, Zenon DEF Started, Reported, Idle
<1> QED
  BY <1>3, <1>4, <1>5, <1>6, Zenon DEF EInv

\* The check of running_ on entry to submit.
LEMMA CheckEngine ==
  ASSUME EInv, NEW o \in Ops, Check(o)
  PROVE  EInv'
<1>1. /\ caller[o] = "check" /\ UNCHANGED <<engine, history>>
      /\ caller' \in [Ops -> CallerAt]
      /\ caller'[o] = IF running THEN "lock" ELSE "threw"
      /\ \A p \in Ops : p # o => caller'[p] = caller[p]
  BY Zenon DEF Check, EInv, EngineTypes, CallerAt
<1>2. /\ UNCHANGED <<queue, running, stop_requested, mu, worker, op, owner,
                     starts, accepted, ran, told>>
  BY <1>1, Zenon DEF engine, history
<1>3. EngineTypes'
  BY <1>1, <1>2, Zenon DEF EInv, EngineTypes
<1>4. Mutex'
  BY <1>1, <1>2, Zenon DEF EInv, Mutex, HasRoom
<1>5. Lifecycle'
  BY <1>1, <1>2, Zenon DEF EInv, Lifecycle
<1>6. Order' /\ InHand' /\ Outcomes'
  BY <1>1, <1>2, QueuesUntouched, Zenon DEF Started, Reported, Idle
<1> QED
  BY <1>3, <1>4, <1>5, <1>6, Zenon DEF EInv

\* The wait for room, under mu_.
LEMMA AwaitEngine ==
  ASSUME EInv, NEW o \in Ops, Await(o)
  PROVE  EInv'
<1>1. /\ caller[o] = "lock" /\ mu = {}
      /\ UNCHANGED <<queue, running, stop_requested, worker, op, owner, starts,
                     accepted, ran, told>>
  BY Zenon DEF Await, history
<1>2. /\ caller' \in [Ops -> CallerAt]
      /\ \A p \in Ops : p # o => caller'[p] = caller[p]
      /\ \/ /\ HasRoom \/ stop_requested
            /\ mu' = {o} /\ caller'[o] = "locked"
         \/ mu' = {} /\ caller'[o] = "waiting"
  BY Zenon DEF Await, EInv, EngineTypes, CallerAt
<1>3. EngineTypes'
  BY <1>1, <1>2, Zenon DEF EInv, EngineTypes
<1>4. Mutex'
  BY <1>1, <1>2, Zenon DEF EInv, Mutex, HasRoom
<1>5. Lifecycle'
  BY <1>1, <1>2, Zenon DEF EInv, Lifecycle
<1>6. Order' /\ InHand' /\ Outcomes'
  BY <1>1, <1>2, QueuesUntouched, Zenon DEF Started, Reported, Idle
<1> QED
  BY <1>3, <1>4, <1>5, <1>6, Zenon DEF EInv

\* The last notification of submit.
LEMMA NotifyEngine ==
  ASSUME EInv, NEW o \in Ops, Notify(o)
  PROVE  EInv'
<1>1. /\ caller[o] = "notify"
      /\ UNCHANGED <<queue, running, stop_requested, mu, op, owner, starts,
                     accepted, ran, told>>
      /\ worker' = IF worker = "waiting" THEN "lock" ELSE worker
  BY Zenon DEF Notify, WakeWorker, history
<1>2. /\ caller' \in [Ops -> CallerAt]
      /\ \A p \in Ops : p # o => caller'[p] = caller[p]
      /\ caller'[o] = "returned"
  BY Zenon DEF Notify, EInv, EngineTypes, CallerAt
<1>3. EngineTypes'
  BY <1>1, <1>2, Zenon DEF EInv, EngineTypes
<1>4. Mutex'
  BY <1>1, <1>2, Zenon DEF EInv, Mutex, HasRoom
<1>5. Lifecycle'
  BY <1>1, <1>2, Zenon DEF EInv, Lifecycle
<1>6. Order' /\ InHand' /\ Outcomes'
  BY <1>1, <1>2, QueuesUntouched, Zenon DEF Started, Reported, Idle
<1> QED
  BY <1>3, <1>4, <1>5, <1>6, Zenon DEF EInv

\* With mu_ held: throw, or push_back behind everything that was accepted.
LEMMA PushEngine ==
  ASSUME EInv, NEW o \in Ops, Push(o)
  PROVE  EInv'
<1>1. /\ caller[o] = "locked" /\ mu' = {} /\ mu = {o}
      /\ UNCHANGED <<running, stop_requested, worker, op, owner, starts, ran,
                     told>>
  <2>1. /\ caller[o] = "locked" /\ mu' = {}
        /\ UNCHANGED <<running, stop_requested, worker, op, owner, starts, ran,
                       told>>
    BY Zenon DEF Push
  <2> QED
    BY <2>1, Zenon DEF EInv, EngineTypes, Mutex
<1>2. /\ caller' \in [Ops -> CallerAt]
      /\ \A p \in Ops : p # o => caller'[p] = caller[p]
      /\ caller'[o] = IF stop_requested THEN "threw" ELSE "notify"
  BY Zenon DEF Push, EInv, EngineTypes, CallerAt
<1>3. CASE stop_requested
  <2>1. UNCHANGED <<queue, accepted>>
    BY <1>3, Zenon DEF Push
  <2>2. EngineTypes'
    BY <1>1, <1>2, <2>1, Zenon DEF EInv, EngineTypes
  <2>3. Mutex' /\ Lifecycle'
    BY <1>1, <1>2, <1>3, <2>1, Zenon DEF EInv, Mutex, Lifecycle, HasRoom
  <2>4. Order' /\ InHand' /\ Outcomes'
    BY <1>1, <1>2, <2>1, QueuesUntouched, Zenon DEF Started, Reported, Idle
  <2> QED
    BY <2>2, <2>3, <2>4, Zenon DEF EInv
<1>4. CASE ~stop_requested
  <2>1. queue' = Append(queue, o) /\ accepted' = Append(accepted, o)
    BY <1>4, Zenon DEF Push
  <2>2. /\ queue \in Seq(Ops) /\ accepted \in Seq(Ops) /\ ran \in Seq(Ops)
        /\ queue' \in Seq(Ops) /\ accepted' \in Seq(Ops)
    BY <2>1 DEF EInv, EngineTypes
  <2>3. /\ Len(queue') = Len(queue) + 1 /\ Len(accepted') = Len(accepted) + 1
        /\ queue'[Len(queue) + 1] = o /\ accepted'[Len(accepted) + 1] = o
        /\ \A i \in 1 .. Len(queue) : queue'[i] = queue[i]
        /\ \A i \in 1 .. Len(accepted) :
             accepted'[i] = accepted[i] /\ accepted[i] \in Ops
        /\ Len(queue) \in Nat /\ Len(accepted) \in Nat /\ Len(ran) \in Nat
    BY <2>1, <2>2
  <2>4. EngineTypes'
    BY <1>1, <1>2, <2>2, Zenon DEF EInv, EngineTypes
  <2>5. Mutex'
    <3>1. Len(queue) < max_depth
      BY <1>1, <1>4, Zenon DEF EInv, Mutex, HasRoom
    <3> QED
      BY <1>1, <1>2, <2>3, <3>1, DepthAssumption DEF EInv, Mutex, HasRoom
  <2>6. Lifecycle'
    <3>1. owner # "stopped" /\ worker # "exited"
      BY <1>1, <1>4, Zenon DEF EInv, EngineTypes, Lifecycle
    <3> QED
      BY <1>1, <1>4, <3>1, Zenon DEF EInv, Lifecycle
  <2>7. /\ Started' = Started /\ Reported' = Reported
        /\ Started \in Nat /\ Reported \in Int /\ Reported <= Started
        /\ Len(accepted) = Started + Len(queue) /\ Len(ran) <= Started
    <3>1. Started' = Started /\ Reported' = Reported
      BY <1>1, Zenon DEF Started, Reported
    <3> QED
      BY <3>1, Counts
  <2>8. Order'
    <3>1. \A i \in 1 .. Len(accepted) : accepted[i] # o
      BY <1>1, Zenon DEF EInv, Order
    <3>2. \A i \in 1 .. Len(accepted') :
            caller'[accepted'[i]] \in {"notify", "returned"}
      BY <1>2, <1>4, <2>3, <3>1 DEF EInv, Order
    <3>3. \A i, j \in 1 .. Len(accepted') :
            accepted'[i] = accepted'[j] => i = j
      <4>1. \A i, j \in 1 .. Len(accepted) : accepted[i] = accepted[j] => i = j
        BY Zenon DEF EInv, Order
      <4> QED
        BY <2>3, <3>1, <4>1
    <3>4. \A i \in 1 .. Len(queue') : queue'[i] = accepted'[Started + i]
      <4>1. \A i \in 1 .. Len(queue) : queue[i] = accepted[Started + i]
        BY Zenon DEF EInv, Order
      <4>2. ASSUME NEW i \in 1 .. Len(queue)
            PROVE  queue'[i] = accepted'[Started + i]
        BY <2>3, <2>7, <4>1
      <4>3. /\ Len(accepted) + 1 = Started + (Len(queue) + 1)
            /\ \A i \in 1 .. Len(queue') : i \in 1 .. Len(queue) \/ i = Len(queue) + 1
        BY <2>3, <2>7
      <4> QED
        BY <2>3, <4>2, <4>3, Zenon
    <3>5. \A i \in 1 .. Len(ran) : ran[i] = accepted'[i]
      BY <2>3, <2>7 DEF EInv, Order
    <3> QED
      BY <1>1, <2>3, <2>7, <3>2, <3>3, <3>4, <3>5 DEF Order
  <2>9. InHand'
    BY <1>1, <2>3, <2>7 DEF EInv, InHand
  <2>10. Outcomes'
    <3>1. \A i \in 1 .. Reported : accepted'[i] = accepted[i]
      BY <2>3, <2>7
    <3> QED
      BY <1>1, <2>7, <3>1 DEF EInv, Outcomes
  <2> QED
    BY <2>4, <2>5, <2>6, <2>8, <2>9, <2>10, Zenon DEF EInv
<1> QED
  BY <1>3, <1>4, Zenon

\* The worker under mu_: what it takes is the oldest operation queued.
LEMMA TakeEngine ==
  ASSUME EInv, Take
  PROVE  EInv'
<1>1. /\ worker = "lock" /\ mu = {}
      /\ UNCHANGED <<running, stop_requested, mu, caller, owner, starts,
                     accepted, ran, told>>
  BY Zenon DEF Take, history
<1>2. /\ queue \in Seq(Ops) /\ accepted \in Seq(Ops) /\ ran \in Seq(Ops)
      /\ Len(queue) \in Nat /\ Len(accepted) \in Nat /\ Len(ran) \in Nat
      /\ Len(accepted) = Started + Len(queue)
      /\ Started = Len(ran) /\ Reported = Len(ran)
  BY <1>1, Counts DEF Started, Reported
<1>3. CASE queue = <<>> /\ UNCHANGED <<queue, op>>
           /\ worker' = IF stop_requested THEN "exited" ELSE "waiting"
  <2>1. EngineTypes'
    BY <1>1, <1>3, Zenon DEF EInv, EngineTypes
  <2>2. Mutex' /\ Lifecycle'
    BY <1>1, <1>3, Zenon DEF EInv, Mutex, Lifecycle, HasRoom
  <2>3. Order' /\ InHand' /\ Outcomes'
    BY <1>1, <1>3, QueuesUntouched, Zenon DEF Started, Reported, Idle
  <2> QED
    BY <2>1, <2>2, <2>3, Zenon DEF EInv
<1>4. CASE queue # <<>> /\ worker' = "taken" /\ op' = <<Head(queue)>>
           /\ queue' = Tail(queue)
  <2>1. /\ queue' \in Seq(Ops) /\ Len(queue') = Len(queue) - 1
        /\ Len(queue) > 0 /\ Len(queue') \in Nat
        /\ \A i \in 1 .. Len(queue') : queue'[i] = queue[i + 1]
        /\ queue[1] \in Ops /\ op' = <<queue[1]>>
    BY <1>2, <1>4
  <2>2. op' \in Seq(Ops) /\ Len(op') = 1 /\ op'[1] = queue[1]
    BY <2>1
  <2>3. EngineTypes'
    BY <1>1, <1>4, <2>1, <2>2, Zenon DEF EInv, EngineTypes
  <2>4. Mutex'
    BY <1>1, <2>1, <1>2, DepthAssumption DEF EInv, Mutex
  <2>5. Lifecycle'
    BY <1>1, <1>4, Zenon DEF EInv, Lifecycle
  <2>6. Started' = Started + 1 /\ Reported' = Reported
    BY <1>1, <1>2, <1>4, Zenon DEF Started, Reported
  <2>7. \A i \in 1 .. Len(queue) : queue[i] = accepted[Started + i]
    BY Zenon DEF EInv, Order
  <2>8. \A i \in 1 .. Len(queue') : queue'[i] = accepted[Started + 1 + i]
    <3> SUFFICES ASSUME NEW i \in 1 .. Len(queue')
                 PROVE  queue'[i] = accepted[Started + 1 + i]
      OBVIOUS
    <3>1. i + 1 \in 1 .. Len(queue) /\ Started + 1 + i = Started + (i + 1)
      BY <1>2, <2>1
    <3> QED
      BY <2>1, <2>7, <3>1, Zenon
  <2>9. Order'
    <3>1. Len(accepted) = Started + 1 + Len(queue')
      BY <1>2, <2>1
    <3> QED
      BY <1>1, <2>6, <2>8, <3>1, Zenon DEF EInv, Order
  <2>10. InHand'
    BY <1>1, <1>2, <1>4, <2>1, <2>2, <2>6, <2>7 DEF InHand
  <2>11. Outcomes'
    BY <1>1, <2>6, Zenon DEF EInv, Outcomes
  <2> QED
    BY <2>3, <2>4, <2>5, <2>9, <2>10, <2>11, Zenon DEF EInv
<1> QED
  BY <1>3, <1>4, Zenon DEF Take

\* Some, one or no callers that wait for room are woken.
Woken ==
  \/ UNCHANGED caller
  \/ \E o \in Waiting : caller' = [caller EXCEPT ![o] = "lock"]
  \/ caller' = [o \in Ops |-> IF o \in Waiting THEN "lock" ELSE caller[o]]

\* Waking callers that wait for room moves nothing else.
LEMMA WakeCallers ==
  ASSUME EInv, Woken
  PROVE  /\ caller' \in [Ops -> CallerAt]
         /\ \A o \in Ops :
              \/ caller'[o] = caller[o]
              \/ caller[o] = "waiting" /\ caller'[o] = "lock"
<1>1. caller \in [Ops -> CallerAt]
  BY Zenon DEF EInv, EngineTypes
<1>2. CASE UNCHANGED caller
  BY <1>1, <1>2, Zenon
<1>3. CASE \E o \in Waiting : caller' = [caller EXCEPT ![o] = "lock"]
  BY <1>1, <1>3, Zenon DEF Waiting, CallerAt
<1>4. CASE caller' = [o \in Ops |-> IF o \in Waiting THEN "lock" ELSE caller[o]]
  BY <1>1, <1>4, Zenon DEF Waiting, CallerAt
<1> QED
  BY <1>2, <1>3, <1>4, Zenon DEF Woken

\* not_full_.notify_one.
LEMMA FreedEngine ==
  ASSUME EInv, Freed
  PROVE  EInv'
<1>1. /\ worker = "taken" /\ worker' = "execute"
      /\ UNCHANGED <<queue, running, stop_requested, mu, op, owner, starts,
                     accepted, ran, told>>
  BY Zenon DEF Freed, history
<1>2. /\ caller' \in [Ops -> CallerAt]
      /\ \A o \in Ops :
           \/ caller'[o] = caller[o]
           \/ caller[o] = "waiting" /\ caller'[o] = "lock"
  BY WakeCallers, Zenon DEF Freed, SignalNotFull, Woken
<1>3. EngineTypes'
  BY <1>1, <1>2, Zenon DEF EInv, EngineTypes
<1>4. Mutex'
  BY <1>1, <1>2, Zenon DEF EInv, Mutex, HasRoom
<1>5. Lifecycle'
  BY <1>1, <1>2, Zenon DEF EInv, Lifecycle
<1>6. Order' /\ InHand' /\ Outcomes'
  BY <1>1, <1>2, QueuesUntouched, Zenon DEF Started, Reported, Idle
<1> QED
  BY <1>3, <1>4, <1>5, <1>6, Zenon DEF EInv

\* What a sequence of one element adds.
LEMMA OneMore ==
  ASSUME NEW S, NEW s \in Seq(S), NEW t \in Seq(S), Len(t) = 1
  PROVE  /\ s \o t \in Seq(S) /\ Len(s \o t) = Len(s) + 1
         /\ \A i \in 1 .. Len(s) : (s \o t)[i] = s[i]
         /\ (s \o t)[Len(s) + 1] = t[1]
<1>1. Len(s) \in Nat
  OBVIOUS
<1>2. /\ s \o t \in Seq(S) /\ Len(s \o t) = Len(s) + Len(t)
      /\ \A i \in 1 .. Len(s) + Len(t) :
           (s \o t)[i] = IF i <= Len(s) THEN s[i] ELSE t[i - Len(s)]
  BY ConcatProperties, Zenon
<1> QED
  BY <1>1, <1>2

\* execute: the operation in the worker's hands is the next that runs.
LEMMA ExecuteEngine ==
  ASSUME EInv, Execute
  PROVE  EInv'
<1>1. /\ worker = "execute" /\ worker' \in {"on_complete", "on_error"}
      /\ ran' = ran \o op
      /\ UNCHANGED <<queue, running, stop_requested, mu, op, owner, starts,
                     caller, accepted, told>>
  BY Zenon DEF Execute
<1>2. /\ ran \in Seq(Ops) /\ op \in Seq(Ops) /\ Len(op) = 1
      /\ Len(ran) \in Nat /\ op[1] = accepted[Started]
      /\ Started = Len(ran) + 1 /\ Reported = Len(ran)
  BY <1>1, Counts DEF EInv, EngineTypes, InHand, Started, Reported
<1>3. /\ ran' \in Seq(Ops) /\ Len(ran') = Len(ran) + 1
      /\ \A i \in 1 .. Len(ran) : ran'[i] = ran[i]
      /\ ran'[Len(ran) + 1] = op[1]
  BY <1>1, <1>2, OneMore, Zenon
<1>4. Started' = Started /\ Reported' = Reported
  BY <1>1, <1>2, <1>3 DEF Started, Reported
<1>5. EngineTypes'
  BY <1>1, <1>3, Zenon DEF EInv, EngineTypes
<1>6. Mutex' /\ Lifecycle'
  BY <1>1, Zenon DEF EInv, Mutex, Lifecycle, HasRoom
<1>7. Order'
  <2>1. \A i \in 1 .. Len(ran') : ran'[i] = accepted[i]
    <3>1. \A i \in 1 .. Len(ran) : ran[i] = accepted[i]
      BY Zenon DEF EInv, Order
    <3> QED
      BY <1>2, <1>3, <3>1
  <2> QED
    BY <1>1, <1>4, <2>1, Zenon DEF EInv, Order
<1>8. InHand'
  BY <1>1, <1>4, Zenon DEF EInv, InHand
<1>9. Outcomes'
  BY <1>1, <1>4, Zenon DEF EInv, Outcomes
<1> QED
  BY <1>5, <1>6, <1>7, <1>8, <1>9, Zenon DEF EInv

\* A callback that reports the outcome reports the first not reported yet.
LEMMA TellEngine ==
  ASSUME EInv, worker \in {"on_complete", "on_error"}, worker' = "destroy",
         Tell, UNCHANGED <<queue, running, stop_requested, mu, op, owner,
                           starts, caller, accepted, ran>>
  PROVE  EInv'
<1>1. /\ Len(ran) \in Nat /\ Started = Len(ran) /\ Reported = Len(ran) - 1
      /\ op[1] = accepted[Started] /\ Started > 0
      /\ Len(accepted) \in Nat /\ Started <= Len(accepted)
      /\ op[1] \in Ops
  BY Counts DEF EInv, InHand, Started, Reported
<1>2. /\ Started' = Started /\ Reported' = Reported + 1
  BY <1>1 DEF Started, Reported
<1>3. told \in [Ops -> Nat] /\ told' \in [Ops -> Nat]
      /\ \A o \in Ops : told'[o] = IF o = op[1] THEN told[o] + 1 ELSE told[o]
  BY <1>1 DEF Tell, EInv, EngineTypes
<1>4. EngineTypes'
  BY <1>3, Zenon DEF EInv, EngineTypes
<1>5. Mutex' /\ Lifecycle'
  BY Zenon DEF EInv, Mutex, Lifecycle, HasRoom
<1>6. Order'
  BY <1>2, Zenon DEF EInv, Order
<1>7. InHand'
  BY <1>2, Zenon DEF EInv, InHand
<1>8. Outcomes'
  <2> SUFFICES ASSUME NEW o \in Ops
               PROVE  told'[o] = IF \E i \in 1 .. Reported + 1 : accepted[i] = o
                                 THEN 1 ELSE 0
    BY <1>2, Zenon DEF Outcomes
  <2>1. told[o] = IF \E i \in 1 .. Reported : accepted[i] = o THEN 1 ELSE 0
    BY Zenon DEF EInv, Outcomes
  <2>2. CASE o = op[1]
    <3>1. \A i \in 1 .. Reported : accepted[i] # o
      BY <1>1, <2>2 DEF EInv, Order
    <3>2. accepted[Reported + 1] = o /\ Reported + 1 \in 1 .. Reported + 1
      BY <1>1, <2>2
    <3> QED
      BY <1>3, <2>1, <2>2, <3>1, <3>2
  <2>3. CASE o # op[1]
    <3>1. \A i \in 1 .. Reported + 1 :
            accepted[i] = o => i \in 1 .. Reported
      BY <1>1, <2>3
    <3>2. \A i \in 1 .. Reported : i \in 1 .. Reported + 1
      BY <1>1
    <3> QED
      BY <1>3, <2>1, <2>3, <3>1, <3>2, Zenon
  <2> QED
    BY <2>2, <2>3, Zenon
<1> QED
  BY <1>4, <1>5, <1>6, <1>7, <1>8, Zenon DEF EInv

\* on_complete; when it throws, the outcome is still to be reported.
LEMMA OnCompleteEngine ==
  ASSUME EInv, OnComplete
  PROVE  EInv'
<1>1. /\ worker = "on_complete"
      /\ UNCHANGED <<queue, running, stop_requested, mu, op, owner, starts,
                     caller, accepted, ran>>
  BY Zenon DEF OnComplete
<1>2. CASE worker' = "destroy" /\ Tell
  BY <1>1, <1>2, TellEngine, Zenon
<1>3. CASE worker' = "on_error" /\ UNCHANGED told
  <2>1. EngineTypes'
    BY <1>1, <1>3, Zenon DEF EInv, EngineTypes
  <2>2. Mutex' /\ Lifecycle'
    BY <1>1, <1>3, Zenon DEF EInv, Mutex, Lifecycle, HasRoom
  <2>3. Order' /\ InHand' /\ Outcomes'
    BY <1>1, <1>3, QueuesUntouched, Zenon DEF Started, Reported, Idle
  <2> QED
    BY <2>1, <2>2, <2>3, Zenon DEF EInv
<1> QED
  BY <1>2, <1>3, Zenon DEF OnComplete

\* on_error.
LEMMA OnErrorEngine ==
  ASSUME EInv, OnError
  PROVE  EInv'
BY TellEngine, Zenon DEF OnError

\* The end of the loop's body.
LEMMA EndOfScopeEngine ==
  ASSUME EInv, EndOfScope
  PROVE  EInv'
<1>1. /\ worker = "destroy" /\ worker' = "lock" /\ op' = <<>>
      /\ UNCHANGED <<queue, running, stop_requested, mu, owner, starts, caller,
                     accepted, ran, told>>
  BY Zenon DEF EndOfScope, history
<1>2. Started' = Started /\ Reported' = Reported
  BY <1>1, Zenon DEF Started, Reported
<1>3. EngineTypes'
  <2>1. op' \in Seq(Ops)
    BY <1>1
  <2> QED
    BY <1>1, <2>1, Zenon DEF EInv, EngineTypes
<1>4. Mutex' /\ Lifecycle'
  BY <1>1, Zenon DEF EInv, Mutex, Lifecycle, HasRoom
<1>5. Order' /\ InHand' /\ Outcomes'
  BY <1>1, <1>2 DEF EInv, Order, InHand, Outcomes
<1> QED
  BY <1>3, <1>4, <1>5, Zenon DEF EInv

\* Steps of the owner, and wake-ups: they move the flags, the owner, the
\* worker between waiting states, and callers that wait.
LEMMA FlagsEngine ==
  ASSUME EInv, EngineTypes', Lifecycle',
         UNCHANGED <<queue, mu, op, accepted, ran, told>>,
         worker' = worker \/ (Idle(worker) /\ Idle(worker')),
         mu = {} \/ queue = <<>> \/ stop_requested' = stop_requested,
         \A o \in Ops : \/ caller'[o] = caller[o]
                        \/ caller[o] = "waiting" /\ caller'[o] = "lock"
  PROVE  EInv'
<1>1. Mutex'
  <2>1. queue = <<>> => HasRoom
    BY DepthAssumption DEF HasRoom
  <2>2. HasRoom' = HasRoom
    BY Zenon DEF HasRoom
  <2> QED
    BY <2>1, <2>2, Zenon DEF EInv, Mutex
<1>2. Started' = Started /\ Reported' = Reported
  BY Zenon DEF Started, Reported, Idle
<1>3. Order' /\ InHand' /\ Outcomes'
  BY <1>2, QueuesUntouched, Zenon
<1> QED
  BY <1>1, <1>3, Zenon DEF EInv

\* start, first part: a caller that still holds mu_ from before the last
\* stop finds room, for the queue was drained.
LEMMA StartEngine ==
  ASSUME EInv, Start
  PROVE  EInv'
<1>1. /\ owner = "stopped" /\ owner' = "starting" /\ stop_requested' = FALSE
      /\ starts < MaxStarts /\ starts' = starts + 1
      /\ UNCHANGED <<queue, running, mu, worker, op, caller, accepted, ran,
                     told>>
  BY Zenon DEF Start, history
<1>2. EngineTypes'
  <2>1. starts' \in 0 .. MaxStarts
    BY <1>1, CallersAssumption DEF EInv, EngineTypes
  <2> QED
    BY <1>1, <2>1, Zenon DEF EInv, EngineTypes
<1>3. Lifecycle'
  BY <1>1, Zenon DEF EInv, Lifecycle
<1>4. queue = <<>>
  BY <1>1, Zenon DEF EInv, Lifecycle
<1> QED
  BY <1>1, <1>2, <1>3, <1>4, FlagsEngine, Zenon

\* start, second part.
LEMMA StartThreadEngine ==
  ASSUME EInv, StartThread
  PROVE  EInv'
<1>1. /\ owner = "starting" /\ owner' = "started" /\ running' = TRUE
      /\ worker' = "lock"
      /\ UNCHANGED <<queue, stop_requested, mu, op, starts, caller, accepted,
                     ran, told>>
  BY Zenon DEF StartThread, history
<1>2. worker = "none" /\ Idle(worker) /\ Idle(worker')
  BY <1>1, Zenon DEF EInv, Lifecycle, Idle
<1>3. EngineTypes'
  BY <1>1, Zenon DEF EInv, EngineTypes
<1>4. Lifecycle'
  BY <1>1, <1>2, Zenon DEF EInv, Lifecycle
<1> QED
  BY <1>1, <1>2, <1>3, <1>4, FlagsEngine, Zenon

\* stop: the flag, while no caller is between the wait and push_back.
LEMMA RequestStopEngine ==
  ASSUME EInv, RequestStop
  PROVE  EInv'
<1>1. /\ owner = "started" /\ mu = {} /\ owner' = "stopping"
      /\ stop_requested' = TRUE
      /\ UNCHANGED <<queue, running, mu, worker, op, starts, caller, accepted,
                     ran, told>>
  BY Zenon DEF RequestStop, history
<1>2. EngineTypes'
  BY <1>1, Zenon DEF EInv, EngineTypes
<1>3. Lifecycle'
  BY <1>1, Zenon DEF EInv, Lifecycle
<1> QED
  BY <1>1, <1>2, <1>3, FlagsEngine, Zenon

\* notify_one for the worker.
LEMMA WakeWorkerIdle ==
  ASSUME WakeWorker
  PROVE  worker' = worker \/ (/\ worker = "waiting" /\ worker' = "lock"
                              /\ Idle(worker) /\ Idle(worker'))
BY Zenon DEF WakeWorker, Idle

\* stop: the notifications.
LEMMA NotifyStopEngine ==
  ASSUME EInv, NotifyStop
  PROVE  EInv'
<1>1. /\ owner = "stopping" /\ owner' = "joining"
      /\ UNCHANGED <<queue, running, stop_requested, mu, op, starts, accepted,
                     ran, told>>
  BY Zenon DEF NotifyStop, history
<1>2. worker' = worker \/ (/\ worker = "waiting" /\ worker' = "lock"
                           /\ Idle(worker) /\ Idle(worker'))
  BY WakeWorkerIdle, Zenon DEF NotifyStop
<1>3. /\ caller' \in [Ops -> CallerAt]
      /\ \A o \in Ops :
           \/ caller'[o] = caller[o]
           \/ caller[o] = "waiting" /\ caller'[o] = "lock"
  BY WakeCallers, Zenon DEF NotifyStop, WakeAll, Woken
<1>4. EngineTypes'
  BY <1>1, <1>2, <1>3, Zenon DEF EInv, EngineTypes
<1>5. Lifecycle'
  BY <1>1, <1>2, Zenon DEF EInv, Lifecycle
<1> QED
  BY <1>1, <1>2, <1>3, <1>4, <1>5, FlagsEngine, Zenon

\* stop: the join.
LEMMA JoinEngine ==
  ASSUME EInv, Join
  PROVE  EInv'
<1>1. /\ owner = "joining" /\ worker = "exited" /\ owner' = "stopped"
      /\ worker' = "none" /\ running' = FALSE
      /\ UNCHANGED <<queue, stop_requested, mu, op, starts, caller, accepted,
                     ran, told>>
  BY Zenon DEF Join, history
<1>2. Idle(worker) /\ Idle(worker')
  BY <1>1, Zenon DEF Idle
<1>3. EngineTypes'
  BY <1>1, Zenon DEF EInv, EngineTypes
<1>4. Lifecycle'
  BY <1>1, Zenon DEF EInv, Lifecycle
<1> QED
  BY <1>1, <1>2, <1>3, <1>4, FlagsEngine, Zenon

\* A wake-up for no reason.
LEMMA SpuriousEngine ==
  ASSUME EInv, SpuriousWakeup
  PROVE  EInv'
<1>1. UNCHANGED <<queue, running, stop_requested, mu, op, owner, starts,
                  accepted, ran, told>>
  BY Zenon DEF SpuriousWakeup, history
<1>2. worker' = worker \/ (/\ worker = "waiting" /\ worker' = "lock"
                           /\ Idle(worker) /\ Idle(worker'))
  BY WakeWorkerIdle, Zenon DEF SpuriousWakeup
<1>3. /\ caller' \in [Ops -> CallerAt]
      /\ \A o \in Ops :
           \/ caller'[o] = caller[o]
           \/ caller[o] = "waiting" /\ caller'[o] = "lock"
  BY WakeCallers, Zenon DEF SpuriousWakeup, Woken
<1>4. EngineTypes'
  BY <1>1, <1>2, <1>3, Zenon DEF EInv, EngineTypes
<1>5. Lifecycle'
  <2>1. \A o \in Ops : caller[o] \notin {"lock", "waiting", "locked"} =>
                         caller'[o] \notin {"lock", "waiting", "locked"}
    BY <1>3, Zenon
  <2> QED
    BY <1>1, <1>2, <2>1, Zenon DEF EInv, Lifecycle
<1> QED
  BY <1>1, <1>2, <1>3, <1>4, <1>5, FlagsEngine, Zenon

\* The engine's invariant is inductive: trim does not touch it.
LEMMA NextEngine == EInv /\ [Next]_vars => EInv'
<1> SUFFICES ASSUME EInv, [Next]_vars PROVE EInv'
  OBVIOUS
<1>1. ASSUME NEW o \in Ops, Submit(o) PROVE EInv'
  BY <1>1, AcquireEngine, CheckEngine, AwaitEngine, PushEngine, NotifyEngine,
     Zenon DEF Submit
<1>2. CASE WorkerStep
  BY <1>2, TakeEngine, FreedEngine, ExecuteEngine, OnCompleteEngine,
     OnErrorEngine, EndOfScopeEngine, Zenon DEF WorkerStep
<1>3. CASE OwnerStep
  BY <1>3, StartThreadEngine, NotifyStopEngine, JoinEngine, Zenon DEF OwnerStep
<1>4. CASE Trim \/ UNCHANGED vars
  <2>1. UNCHANGED <<queue, running, stop_requested, mu, worker, op, owner,
                    starts, caller, accepted, ran, told>>
    BY <1>4, Zenon DEF Trim, vars, engine, history
  <2> QED
    BY <2>1, ZenonT(30) DEF EInv, EngineTypes, Mutex, Lifecycle, Order, InHand, Outcomes,
                HasRoom, Started, Reported
<1> QED
  BY <1>1, <1>2, <1>3, <1>4, StartEngine, RequestStopEngine, SpuriousEngine,
     Zenon DEF Next

\* While the engine is stopped everything accepted ran and was reported.
LEMMA EngineDrains == EInv => StopDrains
<1> SUFFICES ASSUME EInv PROVE StopDrains
  OBVIOUS
<1>1. ASSUME owner = "stopped"
      PROVE  /\ ran = accepted
             /\ \A o \in Ops : told[o] = IF o \in Range(accepted) THEN 1 ELSE 0
  <2>1. worker = "none" /\ queue = <<>> /\ Len(queue) = 0
    BY <1>1, Zenon DEF EInv, Lifecycle
  <2>2. Started = Len(ran) /\ Reported = Len(ran) /\ Len(accepted) = Len(ran)
    BY <2>1, Counts DEF Started, Reported
  <2>3. \A i \in 1 .. Len(ran) : ran[i] = accepted[i]
    BY Zenon DEF EInv, Order
  <2>4. ran = accepted
    BY <2>2, <2>3, Counts
  <2>5. ASSUME NEW o \in Ops
        PROVE  told[o] = IF o \in Range(accepted) THEN 1 ELSE 0
    BY <2>2 DEF EInv, Outcomes, Range
  <2> QED
    BY <2>4, <2>5, Zenon
<1> QED
  BY <1>1, Zenon DEF EInv, Mutex, StopDrains

-----------------------------------------------------------------------------
(* The staging pool.                                                       *)

\* What align_up and the slack add: a buffer is never smaller than asked.
LEMMA AlignUp ==
  ASSUME NEW n \in Nat
  PROVE  align_up(n) \in Nat /\ align_up(n) >= n
<1> DEFINE m == n + Alignment - 1
           q == m \div Alignment
<1>1. m \in Nat /\ Alignment \in Nat /\ Alignment > 0
  BY AlignmentAssumption
<1> HIDE DEF m
<1>2. q \in Nat
  BY <1>1
<1>3. Alignment * q > m - Alignment
  BY <1>1
<1> HIDE DEF q
<1>4. Alignment * q \in Nat /\ q * Alignment = Alignment * q
  BY <1>1, <1>2
<1>5. Alignment * q >= n
  BY <1>1, <1>3, <1>4 DEF m
<1> QED
  BY <1>4, <1>5, Zenon DEF align_up, m, q

\* So is a new buffer.
LEMMA AllocSizeFits ==
  ASSUME NEW n \in Nat
  PROVE  AllocSize(n) \in Nat /\ AllocSize(n) >= n
<1> DEFINE k == align_up(n)
           e == IF k <= LargeBytes THEN k + k \div 4 ELSE k
<1>1. k \in Nat /\ k >= n
  BY AlignUp, Zenon
<1> HIDE DEF k
<1>2. e \in Nat /\ e >= k
  BY <1>1
<1> HIDE DEF e
<1>3. align_up(e) \in Nat /\ align_up(e) >= e
  BY <1>2, AlignUp, Zenon
<1> QED
  BY <1>1, <1>2, <1>3 DEF AllocSize, e, k

\* acquire finds a smallest buffer when some buffer fits.
LEMMA BestFitFits ==
  ASSUME NEW p \in Seq(Buffers), NEW n \in Nat, Fitting(p, n) # {}
  PROVE  /\ BestFit(p, n) \in DOMAIN p
         /\ p[BestFit(p, n)].capacity >= n
<1> DEFINE F == Fitting(p, n)
           C == {p[i].capacity : i \in F}
<1>1. /\ F \subseteq DOMAIN p /\ F \subseteq Nat
      /\ \A i \in F : p[i].capacity \in Nat /\ p[i].capacity >= align_up(n)
  <2>1. DOMAIN p = 1 .. Len(p) /\ Len(p) \in Nat
    OBVIOUS
  <2>2. \A i \in DOMAIN p : p[i] \in Buffers
    BY <2>1
  <2> QED
    BY <2>1, <2>2 DEF Fitting, Buffers
<1> HIDE DEF F
<1>2. C \subseteq Nat /\ C # {}
  BY <1>1, Zenon DEF F
<1>3. PICK c \in C : \A d \in C : c <= d
  BY <1>2, LeastNat, Zenon
<1> DEFINE G == {i \in F : p[i].capacity = c}
<1>4. G \subseteq Nat /\ G # {}
  BY <1>1, <1>3
<1>5. PICK i \in G : \A j \in G : i <= j
  BY <1>4, LeastNat, Zenon
<1>6. /\ i \in F
      /\ \A j \in F :
           \/ p[i].capacity < p[j].capacity
           \/ p[i].capacity = p[j].capacity /\ i <= j
  <2> SUFFICES ASSUME NEW j \in F
               PROVE  \/ p[i].capacity < p[j].capacity
                      \/ p[i].capacity = p[j].capacity /\ i <= j
    BY <1>5, Zenon
  <2>1. c <= p[j].capacity /\ p[i].capacity = c /\ c \in Nat
    BY <1>1, <1>2, <1>3, <1>5
  <2>2. CASE p[j].capacity = c
    BY <1>5, <2>1, <2>2, Zenon
  <2>3. CASE p[j].capacity # c
    BY <1>1, <2>1, <2>3
  <2> QED
    BY <2>2, <2>3
<1>7. BestFit(p, n) \in F
  BY <1>6, Zenon DEF BestFit, F
<1>8. align_up(n) \in Nat /\ align_up(n) >= n
  BY AlignUp, Zenon
<1> QED
  BY <1>1, <1>7, <1>8

\* The capacities of a pool to which a buffer was added.
LEMMA AppendCapacity ==
  ASSUME NEW p \in Seq(Buffers), NEW b \in Buffers
  PROVE  SumFunction(Capacities(Append(p, b)))
           = b.capacity + SumFunction(Capacities(p))
<1> DEFINE n == Len(p)
           S == 1 .. n + 1
           f == Capacities(Append(p, b))
<1>1. n \in Nat /\ DOMAIN p = 1 .. n /\ IsFiniteSet(S)
  BY FS_Interval
<1>2. /\ DOMAIN Append(p, b) = S
      /\ \A i \in 1 .. n : Append(p, b)[i] = p[i] /\ p[i].capacity \in Nat
      /\ Append(p, b)[n + 1] = b /\ b.capacity \in Nat
  <2>1. \A i \in 1 .. n : p[i] \in Buffers
    BY <1>1
  <2> QED
    BY <1>1, <2>1 DEF Buffers
<1>3. f \in [S -> Nat] /\ f[n + 1] = b.capacity
  BY <1>1, <1>2 DEF Capacities
<1>4. S \ {n + 1} = 1 .. n
  BY <1>1
<1>5. Capacities(p) = [i \in S \ {n + 1} |-> f[i]]
  BY <1>1, <1>2, <1>4, Zenon DEF Capacities
<1>6. n + 1 \in S
  BY <1>1
<1>7. SumFunction(f) = f[n + 1] + SumFunction([i \in S \ {n + 1} |-> f[i]])
  <2>1. \A a \in S : SumFunction(f) = f[a] + SumFunction([i \in S \ {a} |-> f[i]])
    <3> HIDE DEF f, S
    <3> QED
      BY <1>1, <1>3, SumRemove, Zenon
  <2> QED
    BY <1>6, <2>1, Zenon
<1> QED
  BY <1>3, <1>5, <1>7, Zenon

\* A pool without its i-th buffer.
LEMMA EraseIs ==
  ASSUME NEW S, NEW p \in Seq(S), NEW i \in 1 .. Len(p)
  PROVE  /\ erase(p, i) \in Seq(S) /\ Len(erase(p, i)) = Len(p) - 1
         /\ \A k \in 1 .. Len(p) - 1 :
              erase(p, i)[k] = IF k < i THEN p[k] ELSE p[k + 1]
<1> DEFINE a == SubSeq(p, 1, i - 1)
           z == SubSeq(p, i + 1, Len(p))
<1>1. Len(p) \in Nat /\ \A k \in 1 .. Len(p) : p[k] \in S
  OBVIOUS
<1>2. a \in Seq(S) /\ Len(a) = i - 1 /\ \A k \in 1 .. i - 1 : a[k] = p[k]
  OBVIOUS
<1>3. z \in Seq(S) /\ Len(z) = Len(p) - i
      /\ \A k \in 1 .. Len(p) - i : z[k] = p[i + k]
  OBVIOUS
<1> HIDE DEF a, z
<1>4. /\ a \o z \in Seq(S) /\ Len(a \o z) = Len(a) + Len(z)
      /\ \A k \in 1 .. Len(a) + Len(z) :
           (a \o z)[k] = IF k <= Len(a) THEN a[k] ELSE z[k - Len(a)]
  BY <1>2, <1>3, ConcatProperties, Zenon
<1>5. erase(p, i) = a \o z
  BY DEF erase, a, z
<1>6. Len(a) + Len(z) = Len(p) - 1
  BY <1>1, <1>2, <1>3
<1>7. ASSUME NEW k \in 1 .. Len(p) - 1
      PROVE  (a \o z)[k] = IF k < i THEN p[k] ELSE p[k + 1]
  <2>1. k \in 1 .. Len(a) + Len(z)
    BY <1>6
  <2>2. CASE k < i
    BY <1>2, <1>4, <2>1, <2>2
  <2>3. CASE ~(k < i)
    <3>1. ~(k <= Len(a)) /\ k - Len(a) \in 1 .. Len(p) - i
          /\ i + (k - Len(a)) = k + 1
      BY <1>1, <1>2, <2>3
    <3> QED
      BY <1>3, <1>4, <2>1, <2>3, <3>1, Zenon
  <2> QED
    BY <2>2, <2>3, Zenon
<1> QED
  BY <1>4, <1>5, <1>6, <1>7

\* The capacities of a pool from which a buffer was taken.
LEMMA RemoveCapacity ==
  ASSUME NEW p \in Seq(Buffers), NEW i \in 1 .. Len(p)
  PROVE  SumFunction(Capacities(p))
           = p[i].capacity + SumFunction(Capacities(erase(p, i)))
<1> DEFINE n == Len(p)
           S == 1 .. n
           R == S \ {i}
           T == 1 .. n - 1
           q == erase(p, i)
           f == Capacities(p)
           g == [k \in R |-> f[k]]
           h == Capacities(q)
           m == [k \in R |-> IF k < i THEN k ELSE k - 1]
<1>1. n \in Nat /\ DOMAIN p = S /\ i \in S /\ \A k \in S : p[k] \in Buffers
  OBVIOUS
<1>2. IsFiniteSet(S) /\ IsFiniteSet(R)
  <2>1. IsFiniteSet(S)
    BY <1>1, FS_Interval
  <2> QED
    BY <2>1, FS_RemoveElement, Zenon
<1>3. /\ q \in Seq(Buffers) /\ Len(q) = n - 1
      /\ \A k \in T : q[k] = IF k < i THEN p[k] ELSE p[k + 1]
  BY EraseIs, Zenon
<1> HIDE DEF q
<1>4. f \in [S -> Nat] /\ \A k \in S : f[k] = p[k].capacity
  BY <1>1 DEF Capacities, Buffers
<1>5. h \in [T -> Nat] /\ \A k \in T : h[k] = q[k].capacity
  <2>1. DOMAIN q = T /\ \A k \in T : q[k] \in Buffers
    BY <1>3
  <2> QED
    BY <2>1, Zenon DEF Capacities, Buffers
<1> HIDE DEF f, h
<1>6. g \in [R -> Nat]
  BY <1>4, Zenon
<1>7. SumFunction(f) = f[i] + SumFunction(g)
  BY <1>1, <1>2, <1>4, SumRemove, ZenonT(30)
<1>8. SumFunction(g) = SumFunction(h)
  <2>1. m \in [R -> T]
    BY <1>1
  <2>2. \A k, l \in R : m[k] = m[l] => k = l
    BY <1>1
  <2>3. \A y \in T : \E k \in R : m[k] = y
    <3> SUFFICES ASSUME NEW y \in T PROVE \E k \in R : m[k] = y
      OBVIOUS
    <3>1. CASE y < i
      BY <1>1, <3>1
    <3>2. CASE ~(y < i)
      <4>1. y + 1 \in R /\ m[y + 1] = y
        BY <1>1, <3>2
      <4> QED
        BY <4>1, Zenon
    <3> QED
      BY <3>1, <3>2, Zenon
  <2>4. ASSUME NEW k \in R PROVE g[k] = h[m[k]]
    <3>1. CASE k < i
      <4>1. m[k] = k /\ k \in T
        BY <1>1, <3>1
      <4>2. q[k] = p[k] /\ h[k] = q[k].capacity /\ f[k] = p[k].capacity
        BY <1>3, <1>4, <1>5, <3>1, <4>1, Zenon
      <4> QED
        BY <4>1, <4>2, Zenon
    <3>2. CASE ~(k < i)
      <4>1. m[k] = k - 1 /\ k - 1 \in T /\ ~(k - 1 < i) /\ (k - 1) + 1 = k
        BY <1>1, <3>2
      <4> QED
        <5>1. q[k - 1] = p[(k - 1) + 1]
          BY <1>3, <4>1, Zenon
        <5>2. h[k - 1] = q[k - 1].capacity /\ f[k] = p[k].capacity
          BY <1>4, <1>5, <4>1, Zenon
        <5> QED
          BY <4>1, <5>1, <5>2, Zenon
    <3> QED
      BY <3>1, <3>2, Zenon
  <2>5. m \in Bijection(R, T)
    BY <2>1, <2>2, <2>3 DEF Bijection, Injection, Surjection, IsInjective
  <2>6. g = [k \in R |-> h[m[k]]]
    BY <2>4, Zenon
  <2>7. h \in [T -> Nat]
    BY <1>5
  <2>8. SumFunction([k \in R |-> h[m[k]]]) = SumFunction(h)
    <3> HIDE DEF m, g, R, T
    <3> QED
      BY <1>2, <2>5, <2>7, SumBijection
  <2> QED
    BY <2>6, <2>8, Zenon
<1> QED
  BY <1>1, <1>4, <1>7, <1>8 DEF f, h, q

\* The capacities of a set of buffers to which one is added.
LEMMA AddCapacity ==
  ASSUME NEW S \in SUBSET Buffers, IsFiniteSet(S), NEW b \in Buffers, b \notin S
  PROVE  SumFunction([x \in S \cup {b} |-> x.capacity])
           = b.capacity + SumFunction([x \in S |-> x.capacity])
<1> DEFINE U == S \cup {b}
           f == [x \in U |-> x.capacity]
<1>1. IsFiniteSet(U) /\ b \in U
  BY FS_AddElement, Zenon
<1>2. f \in [U -> Nat] /\ f[b] = b.capacity
  BY Zenon DEF Buffers
<1>3. SumFunction(f) = f[b] + SumFunction([x \in U \ {b} |-> f[x]])
  <2> HIDE DEF f, U
  <2> QED
    BY <1>1, <1>2, SumRemove
<1>4. [x \in U \ {b} |-> f[x]] = [x \in S |-> x.capacity]
  <2>1. U \ {b} = S
    OBVIOUS
  <2> QED
    BY <2>1, Zenon
<1> QED
  BY <1>2, <1>3, <1>4, Zenon

\* Sums of capacities are natural numbers.
LEMMA PoolSum ==
  ASSUME NEW p \in Seq(Buffers)
  PROVE  /\ SumFunction(Capacities(p)) \in Nat
         /\ p = <<>> => SumFunction(Capacities(p)) = 0
<1> DEFINE S == 1 .. Len(p)
           f == Capacities(p)
<1>1. Len(p) \in Nat /\ DOMAIN p = S /\ \A i \in S : p[i] \in Buffers
  OBVIOUS
<1>2. IsFiniteSet(S)
  BY <1>1, FS_Interval
<1>3. f \in [S -> Nat]
  BY <1>1, Zenon DEF Capacities, Buffers
<1>4. p = <<>> => S = {}
  OBVIOUS
<1> HIDE DEF S, f
<1>5. SumFunction(f) \in Nat /\ (S = {} => SumFunction(f) = 0)
  BY <1>2, <1>3, SumNat
<1> QED
  BY <1>4, <1>5, Zenon DEF f

LEMMA HeldSum ==
  ASSUME NEW S \in SUBSET Buffers, IsFiniteSet(S)
  PROVE  /\ SumFunction([c \in S |-> c.capacity]) \in Nat
         /\ S = {} => SumFunction([c \in S |-> c.capacity]) = 0
<1> DEFINE f == [c \in S |-> c.capacity]
<1>1. f \in [S -> Nat]
  BY Zenon DEF Buffers
<1> HIDE DEF f
<1>2. SumFunction(f) \in Nat /\ (S = {} => SumFunction(f) = 0)
  BY <1>1, SumNat
<1> QED
  BY <1>2, Zenon DEF f

\* There are finitely many buffers in use.
LEMMA HeldFinite ==
  ASSUME OneBuffer
  PROVE  IsFiniteSet(HeldBuffers) /\ HeldBuffers \subseteq Buffers
<1> DEFINE H == {o \in Ops : held[o] # {}}
           f == [o \in H |-> CHOOSE b \in held[o] : TRUE]
<1>1. IsFiniteSet(H)
  BY CallersAssumption, FS_Subset
<1>2. \A o \in H : f[o] \in held[o] /\ held[o] = {f[o]}
  BY DEF OneBuffer
<1>3. f \in Surjection(H, HeldBuffers)
  <2>1. f \in [H -> HeldBuffers]
    BY <1>2, Zenon DEF HeldBuffers
  <2>2. ASSUME NEW b \in HeldBuffers PROVE \E o \in H : f[o] = b
    <3>1. PICK o \in Ops : b \in held[o]
      BY Zenon DEF HeldBuffers
    <3> QED
      BY <1>2, <3>1
  <2> QED
    BY <2>1, <2>2, Zenon DEF Surjection
<1>4. HeldBuffers \subseteq Buffers
  BY DEF HeldBuffers, OneBuffer
<1> HIDE DEF H, f
<1> QED
  BY <1>1, <1>3, <1>4, FS_Surjection

\* The buffers in use when o gets one, and when it gives its own back.
LEMMA HeldAdd ==
  ASSUME OneBuffer, NEW o \in Ops, held[o] = {}, NEW b,
         held' = [held EXCEPT ![o] = {b}]
  PROVE  HeldBuffers' = HeldBuffers \cup {b}
<1>1. held'[o] = {b} /\ \A p \in Ops : p # o => held'[p] = held[p]
  BY Zenon DEF OneBuffer
<1> QED
  BY <1>1, Zenon DEF HeldBuffers

LEMMA HeldDrop ==
  ASSUME OneBuffer, Owners, NEW o \in Ops, NEW b, held[o] = {b},
         held' = [held EXCEPT ![o] = {}]
  PROVE  HeldBuffers = HeldBuffers' \cup {b} /\ b \notin HeldBuffers'
<1>1. held'[o] = {} /\ \A p \in Ops : p # o => held'[p] = held[p]
  BY Zenon DEF OneBuffer
<1>2. \A p \in Ops : p # o => b \notin held[p]
  BY Zenon DEF Owners
<1> QED
  BY <1>1, <1>2, Zenon DEF HeldBuffers

\* acquire, when the pool has a buffer: it changes owner.
LEMMA TakePooled ==
  ASSUME MInv, NEW o \in Ops, held[o] = {}, NEW i \in 1 .. Len(pool),
         pool[i].capacity >= Bytes[o], pool' = erase(pool, i),
         held' = [held EXCEPT ![o] = {pool[i]}], total' = total,
         \A p \in Ops : caller'[p] = "before" => p # o /\ caller[p] = "before"
  PROVE  MInv'
<1> DEFINE b == pool[i]
           n == Len(pool)
<1>1. pool \in Seq(Buffers) /\ n \in Nat /\ DOMAIN pool = 1 .. n /\ b \in Buffers
  BY DEF MInv, Owners
<1>2. /\ pool' \in Seq(Buffers) /\ Len(pool') = n - 1 /\ DOMAIN pool' = 1 .. n - 1
      /\ \A k \in 1 .. n - 1 : pool'[k] = IF k < i THEN pool[k] ELSE pool[k + 1]
  <2>1. /\ pool' \in Seq(Buffers) /\ Len(pool') = n - 1
        /\ \A k \in 1 .. n - 1 :
             pool'[k] = IF k < i THEN pool[k] ELSE pool[k + 1]
    BY <1>1, EraseIs, Zenon
  <2> QED
    BY <2>1
<1>3. held'[o] = {b} /\ (\A p \in Ops : p # o => held'[p] = held[p])
      /\ held' \in [Ops -> SUBSET Buffers]
  BY <1>1 DEF MInv, OneBuffer
<1>4. OneBuffer'
  BY <1>3 DEF MInv, OneBuffer
<1>5. Owners'
  <2>1. \A k \in 1 .. n - 1 : \E j \in 1 .. n :
          j # i /\ pool'[k] = pool[j] /\ j = IF k < i THEN k ELSE k + 1
    BY <1>1, <1>2
  <2>2. \A j, k \in 1 .. n : pool[j].data = pool[k].data => j = k
    BY <1>1, Zenon DEF MInv, Owners
  <2>3. \A j, k \in DOMAIN pool' : pool'[j].data = pool'[k].data => j = k
    <3> SUFFICES ASSUME NEW j \in 1 .. n - 1, NEW k \in 1 .. n - 1,
                        pool'[j].data = pool'[k].data
                 PROVE  j = k
      BY <1>2, Zenon
    <3>1. PICK x \in 1 .. n : pool'[j] = pool[x] /\ x = IF j < i THEN j ELSE j + 1
      BY <2>1
    <3>2. PICK y \in 1 .. n : pool'[k] = pool[y] /\ y = IF k < i THEN k ELSE k + 1
      BY <2>1, Zenon
    <3>3. x = y
      BY <2>2, <3>1, <3>2
    <3> QED
      BY <1>1, <3>1, <3>2, <3>3
  <2>4. ASSUME NEW p \in Ops, NEW c \in held'[p]
        PROVE  /\ c.capacity >= Bytes[p]
               /\ \A k \in DOMAIN pool' : pool'[k].data # c.data
               /\ \A q \in Ops \ {p} : \A d \in held'[q] : c.data # d.data
    <3>1. \A j \in 1 .. n : \A q \in Ops : \A d \in held[q] : pool[j].data # d.data
      BY <1>1 DEF MInv, Owners
    <3>2. CASE p = o
      <4>1. c = b
        BY <1>3, <2>4, <3>2
      <4>2. \A k \in DOMAIN pool' : pool'[k].data # b.data
        BY <1>2, <2>1, <2>2
      <4> QED
        BY <1>3, <3>1, <3>2, <4>1, <4>2
    <3>3. CASE p # o
      <4>1. c \in held[p]
        BY <1>3, <2>4, <3>3
      <4>2. \A k \in DOMAIN pool' : pool'[k].data # c.data
        BY <1>2, <2>1, <3>1, <4>1
      <4>3. /\ c.capacity >= Bytes[p]
            /\ \A q \in Ops \ {p} : \A d \in held[q] : c.data # d.data
        BY <4>1, Zenon DEF MInv, Owners
      <4>4. \A q \in Ops \ {p} : \A d \in held'[q] : c.data # d.data
        BY <1>3, <3>1, <4>1, <4>3
      <4> QED
        BY <4>2, <4>3, <4>4, Zenon
    <3> QED
      BY <3>2, <3>3, Zenon
  <2> QED
    BY <1>2, <2>3, <2>4, Zenon DEF Owners
<1>6. /\ IsFiniteSet(HeldBuffers) /\ HeldBuffers \subseteq Buffers
      /\ HeldBuffers' = HeldBuffers \cup {b} /\ b \notin HeldBuffers
  <2>1. b \notin HeldBuffers
    BY <1>1 DEF MInv, Owners, HeldBuffers
  <2> QED
    BY <2>1, HeldFinite, HeldAdd, Zenon DEF MInv
<1>7. SumFunction([c \in HeldBuffers' |-> c.capacity])
        = b.capacity + SumFunction([c \in HeldBuffers |-> c.capacity])
  BY <1>1, <1>6, AddCapacity, Zenon
<1>8. SumFunction(Capacities(pool)) = b.capacity + SumFunction(Capacities(pool'))
  BY <1>1, RemoveCapacity, Zenon
<1>9. /\ SumFunction(Capacities(pool')) \in Nat /\ b.capacity \in Nat
      /\ SumFunction([c \in HeldBuffers |-> c.capacity]) \in Nat
  BY <1>1, <1>2, <1>6, PoolSum, HeldSum, Zenon DEF Buffers
<1>10. total = SumFunction(Capacities(pool))
                 + SumFunction([c \in HeldBuffers |-> c.capacity])
  BY Zenon DEF MInv
<1>11. total' = SumFunction(Capacities(pool'))
                  + SumFunction([c \in HeldBuffers' |-> c.capacity])
  BY <1>7, <1>8, <1>9, <1>10
<1> QED
  BY <1>4, <1>5, <1>11 DEF MInv

\* acquire, when it allocates: the address is nobody's.
LEMMA TakeNew ==
  ASSUME MInv, NEW o \in Ops, held[o] = {}, NEW b \in Buffers, b.data \notin Live,
         b.capacity >= Bytes[o], pool' = pool,
         held' = [held EXCEPT ![o] = {b}], total' = total + b.capacity,
         \A p \in Ops : caller'[p] = "before" => p # o /\ caller[p] = "before"
  PROVE  MInv'
<1>1. held'[o] = {b} /\ (\A p \in Ops : p # o => held'[p] = held[p])
      /\ held' \in [Ops -> SUBSET Buffers]
  BY Zenon DEF MInv, OneBuffer
<1>2. OneBuffer'
  BY <1>1 DEF MInv, OneBuffer
<1>3. /\ \A i \in DOMAIN pool : pool[i].data # b.data
      /\ \A p \in Ops : \A c \in held[p] : c.data # b.data
  BY Zenon DEF Live, HeldBuffers, Range
<1>4. Owners'
  <2>1. ASSUME NEW p \in Ops, NEW c \in held'[p]
        PROVE  /\ c.capacity >= Bytes[p]
               /\ \A k \in DOMAIN pool : pool[k].data # c.data
               /\ \A q \in Ops \ {p} : \A d \in held'[q] : c.data # d.data
    <3>1. CASE p = o
      BY <1>1, <1>3, <2>1, <3>1
    <3>2. CASE p # o
      <4>1. c \in held[p]
        BY <1>1, <2>1, <3>2, Zenon
      <4>2. /\ c.capacity >= Bytes[p]
            /\ \A k \in DOMAIN pool : pool[k].data # c.data
            /\ \A q \in Ops \ {p} : \A d \in held[q] : c.data # d.data
        BY <4>1 DEF MInv, Owners
      <4> QED
        BY <1>1, <1>3, <4>1, <4>2
    <3> QED
      BY <3>1, <3>2, Zenon
  <2> QED
    BY <2>1 DEF MInv, Owners
<1>5. /\ IsFiniteSet(HeldBuffers) /\ HeldBuffers \subseteq Buffers
      /\ HeldBuffers' = HeldBuffers \cup {b} /\ b \notin HeldBuffers
  <2>1. b \notin HeldBuffers
    BY <1>3 DEF HeldBuffers
  <2> QED
    BY <2>1, HeldFinite, HeldAdd, Zenon DEF MInv
<1>6. SumFunction([c \in HeldBuffers' |-> c.capacity])
        = b.capacity + SumFunction([c \in HeldBuffers |-> c.capacity])
  BY <1>5, AddCapacity, Zenon
<1>7. /\ SumFunction(Capacities(pool)) \in Nat /\ b.capacity \in Nat
      /\ SumFunction([c \in HeldBuffers |-> c.capacity]) \in Nat
  BY <1>5, PoolSum, HeldSum, Zenon DEF Buffers, MInv, Owners
<1>8. total = SumFunction(Capacities(pool))
                + SumFunction([c \in HeldBuffers |-> c.capacity])
  BY Zenon DEF MInv
<1>9. total' = SumFunction(Capacities(pool'))
                 + SumFunction([c \in HeldBuffers' |-> c.capacity])
  BY <1>6, <1>7, <1>8
<1> QED
  BY <1>2, <1>4, <1>9 DEF MInv

\* ~PooledBuffer: the buffer, if there is one, goes to the end of the pool.
LEMMA GiveBack ==
  ASSUME MInv, NEW o \in Ops, Destroy(o),
         \A p \in Ops : caller'[p] = "before" => caller[p] = "before"
  PROVE  MInv'
<1>1. /\ held'[o] = {} /\ (\A p \in Ops : p # o => held'[p] = held[p])
      /\ held' \in [Ops -> SUBSET Buffers]
      /\ held' = [held EXCEPT ![o] = {}] /\ total' = total
  BY Zenon DEF MInv, OneBuffer, Destroy
<1>2. OneBuffer'
  BY <1>1 DEF MInv, OneBuffer
<1>3. CASE held[o] = {}
  <2>1. pool' = pool
    BY <1>3 DEF Destroy
  <2>2. held' = held
    BY <1>1, <1>3, Zenon DEF MInv, OneBuffer
  <2>3. Owners' /\ HeldBuffers' = HeldBuffers
    BY <2>1, <2>2 DEF MInv, Owners, HeldBuffers
  <2> QED
    BY <1>1, <1>2, <2>1, <2>3, Zenon DEF MInv
<1>4. CASE held[o] # {}
  <2>1. PICK b : b = CHOOSE x \in held[o] : TRUE
    OBVIOUS
  <2>2. b \in held[o] /\ b \in Buffers /\ held[o] = {b}
    BY <1>4, <2>1 DEF MInv, OneBuffer
  <2>3. pool' = Append(pool, b) /\ pool \in Seq(Buffers)
    BY <1>4, <2>1 DEF Destroy, release, MInv, Owners
  <2>4. /\ pool' \in Seq(Buffers) /\ Len(pool) \in Nat
        /\ DOMAIN pool = 1 .. Len(pool) /\ DOMAIN pool' = 1 .. Len(pool) + 1
        /\ \A k \in DOMAIN pool : pool'[k] = pool[k]
        /\ pool'[Len(pool) + 1] = b
    BY <2>2, <2>3
  <2>5. /\ \A k \in DOMAIN pool : pool[k].data # b.data
        /\ \A p \in Ops \ {o} : \A c \in held[p] : b.data # c.data
    BY <2>2, Zenon DEF MInv, Owners
  <2>6. Owners'
    <3>1. \A j, k \in DOMAIN pool : pool[j].data = pool[k].data => j = k
      BY DEF MInv, Owners
    <3>2. \A j, k \in DOMAIN pool' : pool'[j].data = pool'[k].data => j = k
      BY <2>4, <2>5, <3>1
    <3>3. ASSUME NEW p \in Ops, NEW c \in held'[p]
          PROVE  /\ c.capacity >= Bytes[p]
                 /\ \A k \in DOMAIN pool' : pool'[k].data # c.data
                 /\ \A q \in Ops \ {p} : \A d \in held'[q] : c.data # d.data
      <4>1. p # o /\ c \in held[p]
        BY <1>1, <3>3
      <4>2. /\ c.capacity >= Bytes[p]
            /\ \A k \in DOMAIN pool : pool[k].data # c.data
            /\ \A q \in Ops \ {p} : \A d \in held[q] : c.data # d.data
        BY <4>1, Zenon DEF MInv, Owners
      <4>3. \A k \in DOMAIN pool' : pool'[k].data # c.data
        BY <2>4, <2>5, <4>1, <4>2
      <4> QED
        BY <1>1, <4>2, <4>3, Zenon
    <3> QED
      BY <2>4, <3>2, <3>3, Zenon DEF Owners
  <2>7. /\ IsFiniteSet(HeldBuffers') /\ HeldBuffers' \subseteq Buffers
        /\ HeldBuffers = HeldBuffers' \cup {b} /\ b \notin HeldBuffers'
    <3>1. HeldBuffers = HeldBuffers' \cup {b} /\ b \notin HeldBuffers'
      BY <1>1, <2>2, HeldDrop, Zenon DEF MInv
    <3>2. IsFiniteSet(HeldBuffers) /\ HeldBuffers \subseteq Buffers
      BY HeldFinite DEF MInv
    <3> QED
      BY <3>1, <3>2, FS_Subset
  <2>8. SumFunction([c \in HeldBuffers |-> c.capacity])
          = b.capacity + SumFunction([c \in HeldBuffers' |-> c.capacity])
    BY <2>2, <2>7, AddCapacity, Zenon
  <2>9. SumFunction(Capacities(pool')) = b.capacity + SumFunction(Capacities(pool))
    BY <2>2, <2>3, AppendCapacity
  <2>10. /\ SumFunction(Capacities(pool)) \in Nat /\ b.capacity \in Nat
         /\ SumFunction([c \in HeldBuffers' |-> c.capacity]) \in Nat
    BY <2>2, <2>3, <2>7, PoolSum, HeldSum, Zenon DEF Buffers
  <2>11. total = SumFunction(Capacities(pool))
                   + SumFunction([c \in HeldBuffers |-> c.capacity])
    BY DEF MInv
  <2>12. total' = SumFunction(Capacities(pool'))
                    + SumFunction([c \in HeldBuffers' |-> c.capacity])
    BY <1>1, <2>8, <2>9, <2>10, <2>11
  <2> QED
    BY <1>2, <2>6, <2>12 DEF MInv
<1> QED
  BY <1>3, <1>4, Zenon

\* Steps that leave the pool alone.
LEMMA PoolUntouched ==
  ASSUME MInv, UNCHANGED memory,
         \A p \in Ops : caller'[p] = "before" => caller[p] = "before"
  PROVE  MInv'
<1>1. UNCHANGED <<pool, total, held>>
  BY Zenon DEF memory
<1>2. OneBuffer' /\ Owners' /\ HeldBuffers' = HeldBuffers
  BY <1>1 DEF MInv, OneBuffer, Owners, HeldBuffers
<1> QED
  BY <1>1, <1>2 DEF MInv

\* The constructor of PooledBuffer.
LEMMA AcquirePool ==
  ASSUME EInv, MInv, NEW o \in Ops, Acquire(o)
  PROVE  MInv'
<1>1. caller[o] = "before" /\ held[o] = {} /\ caller \in [Ops -> CallerAt]
  BY DEF Acquire, MInv, OneBuffer, EInv, EngineTypes
<1>2. Bytes[o] \in Nat /\ pool \in Seq(Buffers)
  BY CallersAssumption, Zenon DEF MInv, Owners
<1>3. CASE /\ Fitting(pool, Bytes[o]) # {} \/ ~(Addresses \subseteq Live)
           /\ held' = [held EXCEPT ![o] = {Acquired(pool, Live, Bytes[o])}]
           /\ pool' = PoolAfter(pool, Bytes[o])
           /\ total' = TotalAfter(pool, total, Bytes[o])
           /\ caller' = [caller EXCEPT ![o] = "check"]
  <2>1. \A p \in Ops : caller'[p] = "before" => p # o /\ caller[p] = "before"
    BY <1>1, <1>3
  <2>2. CASE Fitting(pool, Bytes[o]) # {}
    <3>1. PICK i : i = BestFit(pool, Bytes[o])
      OBVIOUS
    <3>2. i \in 1 .. Len(pool) /\ pool[i].capacity >= Bytes[o]
      BY <1>2, <2>2, <3>1, BestFitFits
    <3>3. /\ pool' = erase(pool, i) /\ total' = total
          /\ held' = [held EXCEPT ![o] = {pool[i]}]
      BY <1>3, <2>2, <3>1, Zenon DEF PoolAfter, TotalAfter, Acquired
    <3> QED
      BY <1>1, <2>1, <3>2, <3>3, TakePooled, Zenon
  <2>3. CASE Fitting(pool, Bytes[o]) = {}
    <3>1. PICK b : b = [data |-> CHOOSE a \in Addresses : a \notin Live,
                        capacity |-> AllocSize(Bytes[o])]
      BY Zenon
    <3>2. AllocSize(Bytes[o]) \in Nat /\ AllocSize(Bytes[o]) >= Bytes[o]
      BY <1>2, AllocSizeFits, Zenon
    <3>3. \E a \in Addresses : a \notin Live
      BY <1>3, <2>3
    <3>4. b \in Buffers /\ b.data \notin Live /\ b.capacity = AllocSize(Bytes[o])
      BY <3>1, <3>2, <3>3, Zenon DEF Buffers
    <3>5. /\ pool' = pool /\ total' = total + b.capacity
          /\ held' = [held EXCEPT ![o] = {b}]
      BY <1>3, <2>3, <3>1, <3>4 DEF PoolAfter, TotalAfter, Acquired
    <3> QED
      BY <1>1, <2>1, <3>2, <3>4, <3>5, TakeNew, Zenon
  <2> QED
    BY <2>2, <2>3
<1>4. CASE caller' = [caller EXCEPT ![o] = "threw"] /\ UNCHANGED memory
  BY <1>1, <1>4, PoolUntouched, Zenon
<1> QED
  BY <1>3, <1>4, Zenon DEF Acquire

\* MemoryPool::trim: what is in use stays accounted for.
LEMMA TrimPool ==
  ASSUME MInv, Trim
  PROVE  MInv'
<1>1. /\ pool' = <<>> /\ UNCHANGED <<caller, held>>
      /\ total' = total - SumFunction(Capacities(pool))
  BY Zenon DEF Trim, TrimmedTotal
<1>2. OneBuffer' /\ HeldBuffers' = HeldBuffers
  BY <1>1 DEF MInv, OneBuffer, HeldBuffers
<1>3. pool' \in Seq(Buffers) /\ DOMAIN pool' = {}
  BY <1>1
<1>4. Owners'
  BY <1>1, <1>3, Zenon DEF MInv, Owners
<1>5. IsFiniteSet(HeldBuffers) /\ HeldBuffers \subseteq Buffers
  BY HeldFinite DEF MInv
<1>6. /\ SumFunction(Capacities(pool)) \in Nat
      /\ SumFunction([c \in HeldBuffers |-> c.capacity]) \in Nat
      /\ SumFunction(Capacities(pool')) = 0
  BY <1>1, <1>3, <1>5, PoolSum, HeldSum, Zenon DEF MInv, Owners
<1>7. total' = SumFunction(Capacities(pool'))
                 + SumFunction([c \in HeldBuffers |-> c.capacity])
  BY <1>1, <1>6 DEF MInv
<1> QED
  BY <1>2, <1>4, <1>7 DEF MInv

\* The pool's invariant is preserved by every step.
LEMMA NextPool == EInv /\ MInv /\ [Next]_vars => MInv'
<1> SUFFICES ASSUME EInv, MInv, [Next]_vars PROVE MInv'
  OBVIOUS
<1> DEFINE Past == \A p \in Ops : caller'[p] = "before" => caller[p] = "before"
<1>1. caller \in [Ops -> CallerAt]
  BY Zenon DEF EInv, EngineTypes
<1>2. ASSUME NEW o \in Ops, Submit(o) PROVE MInv'
  <2>1. CASE Check(o)
    <3>1. Past
      BY <1>1, <2>1, Zenon DEF Check
    <3> QED
      BY <2>1, <3>1, GiveBack, PoolUntouched, Zenon DEF Check
  <2>2. CASE Await(o)
    <3>1. Past /\ UNCHANGED memory
      BY <1>1, <2>2, Zenon DEF Await
    <3> QED
      BY <3>1, PoolUntouched
  <2>3. CASE Push(o)
    <3>1. Past
      BY <1>1, <2>3, Zenon DEF Push
    <3> QED
      BY <2>3, <3>1, GiveBack, PoolUntouched, Zenon DEF Push
  <2>4. CASE Notify(o)
    <3>1. Past /\ UNCHANGED memory
      BY <1>1, <2>4, Zenon DEF Notify
    <3> QED
      BY <3>1, PoolUntouched
  <2> QED
    BY <1>2, <2>1, <2>2, <2>3, <2>4, AcquirePool, Zenon DEF Submit
<1>3. CASE EndOfScope
  <2>1. op[1] \in Ops
    <3>1. worker = "destroy" /\ op \in Seq(Ops) /\ Len(op) = 1
      BY <1>3, Zenon DEF EndOfScope, EInv, EngineTypes, InHand
    <3> QED
      BY <3>1
  <2>2. Past /\ Destroy(op[1])
    BY <1>3 DEF EndOfScope
  <2> QED
    BY <2>1, <2>2, GiveBack
<1>4. CASE Freed \/ NotifyStop \/ SpuriousWakeup
  <2>1. Woken /\ UNCHANGED memory
    BY <1>4 DEF Freed, NotifyStop, SpuriousWakeup, SignalNotFull, WakeAll, Woken
  <2>2. Past
    BY <2>1, WakeCallers, Zenon
  <2> QED
    BY <2>1, <2>2, PoolUntouched, Zenon
<1>5. CASE \/ Take \/ Execute \/ OnComplete \/ OnError \/ StartThread \/ Join
           \/ Start \/ RequestStop \/ UNCHANGED vars
  <2>1. UNCHANGED <<caller, memory>>
    BY <1>5, Zenon DEF Take, Execute, OnComplete, OnError, StartThread, Join,
       Start,
                RequestStop, vars
  <2> QED
    BY <2>1, PoolUntouched
<1> QED
  BY <1>2, <1>3, <1>4, <1>5, TrimPool, Zenon DEF Next, WorkerStep, OwnerStep

\* Both invariants always hold.
LEMMA Invariant == Spec => [](EInv /\ MInv)
<1>1. Init => MInv
  <2> SUFFICES ASSUME Init PROVE MInv
    OBVIOUS
  <2>1. /\ pool = <<>> /\ total = 0 /\ held = [o \in Ops |-> {}]
        /\ pool \in Seq(Buffers) /\ DOMAIN pool = {}
    BY DEF Init
  <2>2. OneBuffer /\ Owners
    BY <2>1, Zenon DEF OneBuffer, Owners
  <2>3. HeldBuffers = {}
    BY <2>1, Zenon DEF HeldBuffers
  <2>4. SumFunction(Capacities(pool)) = 0
    BY <2>1, PoolSum, Zenon
  <2>5. SumFunction([b \in HeldBuffers |-> b.capacity]) = 0
    BY <2>3, HeldSum, FS_EmptySet, Zenon
  <2> QED
    BY <2>1, <2>2, <2>4, <2>5 DEF MInv
<1> QED
  BY <1>1, InitEngine, NextEngine, NextPool, PTL DEF Spec

-----------------------------------------------------------------------------
(* The theorems.                                                           *)

\* The engine and the pool keep their types.
THEOREM TypeCorrect == Spec => []TypeOK
<1>1. EInv /\ MInv => TypeOK
  <2> SUFFICES ASSUME EInv, MInv PROVE TypeOK
    OBVIOUS
  <2>1. Len(op) <= 1 /\ \A o \in Ops : o \in mu <=> caller[o] = "locked"
    <3>1. op = <<>> \/ Len(op) = 1
      BY Zenon DEF EInv, EngineTypes, InHand
    <3>2. Len(op) <= 1
      BY <3>1
    <3> QED
      BY <3>2, Zenon DEF EInv, Mutex
  <2>2. IsFiniteSet(HeldBuffers) /\ HeldBuffers \subseteq Buffers
    BY HeldFinite, Zenon DEF MInv
  <2>3. /\ SumFunction(Capacities(pool)) \in Nat
        /\ SumFunction([c \in HeldBuffers |-> c.capacity]) \in Nat
    BY <2>2, PoolSum, HeldSum DEF MInv, Owners
  <2>4. total \in Nat
    BY <2>3 DEF MInv
  <2> QED
    BY <2>1, <2>4 DEF EInv, MInv, EngineTypes, OneBuffer, Owners, TypeOK, CallerAt
<1> QED
  BY <1>1, Invariant, PTL

\* stop drains the queue, in every life of the engine, and the queue never
\* exceeds its depth.
THEOREM StopDrainsAll == Spec => []StopDrains
BY EngineDrains, Invariant, PTL

\* total_allocated_ counts every buffer once, and no buffer has two owners.
THEOREM PoolIsAccounted == Spec => []Accounted
<1>1. MInv => Accounted
  <2> SUFFICES ASSUME MInv PROVE Accounted
    OBVIOUS
  <2>1. IsInjective([i \in DOMAIN pool |-> pool[i].data])
    BY Zenon DEF MInv, Owners, IsInjective
  <2>2. ASSUME NEW o \in Ops, NEW b \in held[o]
        PROVE  /\ b.capacity >= Bytes[o]
               /\ b.data \notin {c.data : c \in Range(pool)}
               /\ \A p \in Ops \ {o} : \A c \in held[p] : b.data # c.data
    BY DEF MInv, Owners, Range
  <2> QED
    BY <2>1, <2>2, Zenon DEF MInv, Accounted
<1> QED
  BY <1>1, Invariant, PTL
=============================================================================
