----------------------------- MODULE TreeProofs -----------------------------
(***************************************************************************)
(* Proofs about allreduce_tree (TreeAllreduce.tla), for every world size,  *)
(* every number of elements and every socket buffer.                       *)
(*                                                                         *)
(* In the iteration with mask m a rank that is m more than a multiple of   *)
(* 2m (a Child) sends its tensor up to the rank m below it (a Parent) and  *)
(* leaves the loop, and in the second loop it gets the result back on the  *)
(* same connection.  So the stream of each pair of ranks carries, in each  *)
(* direction, one transfer of Numel elements: the sum of the m tensors     *)
(* from the child on the way up, the sum of all tensors, added up by rank  *)
(* 0, on the way down.  TreeInv places every rank in its transfers and     *)
(* says what its tensor then is.                                           *)
(***************************************************************************)
EXTENDS TreeAllreduce, AllreduceStreams, TLAPS

\* A multiple of m; of 2 m; and m more than a multiple of 2 m: in the
\* iteration with mask m, a rank that still takes part, one that receives
\* (up) or sends (down), and one that sends (up) or receives (down).
Aligned(r, m) == r % m = 0

Parent(r, m) == r % (2 * m) = 0

Child(r, m) == r % (2 * m) = m

\* Element e of the sum of the tensors of the m ranks from r, as r computes it.
SubSum(r, m, e) ==
  [elem |-> e, cnt |-> [q \in Rank |-> IF r <= q /\ q < r + m THEN 1 ELSE 0],
   by |-> r, scl |-> 0]

\* What allreduce_tree returns, on every rank.
TreeResult == Reduction([e \in Elem |-> 0])

\* How many elements the transfer of rank r with mask m has moved, in the
\* first loop and in the second.
Up(r, m) ==
  IF phase[r] = "reduce" /\ mask[r] = m THEN pos[r]
  ELSE IF phase[r] = "idle" \/ (phase[r] = "reduce" /\ mask[r] < m) THEN 0
  ELSE Numel

Down(r, m) ==
  IF phase[r] = "bcast" /\ mask[r] = m THEN pos[r]
  ELSE IF phase[r] = "done" \/ (phase[r] = "bcast" /\ mask[r] < m) THEN Numel
  ELSE 0

\* What rank r puts on the stream up, with mask m, and what comes down.
UpStream(r, m) == [n \in Nat |-> SubSum(r, m, n)]

DownStream == [n \in Nat |-> Complete(n, 0)]

\* The m ranks from r have called allreduce.
Called(r, m) == \A q \in Rank : r <= q /\ q < r + m => phase[q] # "idle"

\* Where a rank is: in the first loop only with a mask it is a multiple of,
\* and past it only after a send, unless it is rank 0.
TreeControl ==
  /\ phase \in [Rank -> {"idle", "reduce", "bcast", "done"}]
  /\ mask \in [Rank -> Masks]
  /\ pos \in [Rank -> 0 .. Numel]
  /\ t \in [Rank -> [Elem -> Value]]
  /\ scratch \in [Rank -> [Elem -> Value]]
  /\ wire \in Wires
  /\ \A r \in Rank :
       /\ phase[r] = "idle" => mask[r] = 1 /\ pos[r] = 0
       /\ phase[r] \in {"idle", "reduce"} => Aligned(r, mask[r])
       /\ phase[r] \in {"bcast", "done"} /\ r # 0 => \E m \in Masks : Child(r, m)

\* The stream from a child to its parent, and the one back, hold the part of
\* their transfer between what was written and what was read; there are no
\* other streams.
TreeStreams ==
  /\ \A m \in Masks : \A c \in Rank : Child(c, m) =>
       /\ Carries(wire[c][c - m], UpStream(c, m), Up(c, m), Up(c - m, m))
       /\ Carries(wire[c - m][c], DownStream, Down(c - m, m), Down(c, m))
  /\ \A p, q \in Rank :
       \/ \E m \in Masks : \/ Child(p, m) /\ q = p - m
                           \/ Child(q, m) /\ p = q - m
       \/ wire[p][q] = <<>>

\* The tensor of rank r is the sum its place in the first loop says; in the
\* second loop it is overwritten by the result.
TensorOf(r) ==
  /\ phase[r] \in {"idle", "reduce"} =>
       \A e \in Elem : t[r][e] = SubSum(r, mask[r], e)
  /\ phase[r] = "bcast" /\ r = 0 => \A e \in Elem : t[r][e] = Complete(e, 0)
  /\ phase[r] = "bcast" => \A m \in Masks : Child(r, m) => \A e \in Elem :
       t[r][e] = IF e < Down(r, m) THEN Complete(e, 0) ELSE SubSum(r, m, e)
  /\ phase[r] = "done" => t[r] = TreeResult

\* So are the tensors of all ranks.
TreeTensors == \A r \in Rank : TensorOf(r)

\* recv_view has the part of the sum of the child that has been received.
TreeScratch ==
  \A r \in Rank :
    phase[r] = "reduce" /\ Parent(r, mask[r]) /\ r + mask[r] < World =>
      \A o \in 0 .. pos[r] - 1 :
        scratch[r][o] = SubSum(r + mask[r], mask[r], o)

\* A rank with mask m has the tensors of the m ranks from it, which have all
\* entered the call; the result goes down after all ranks have.
TreeCalled ==
  \A r \in Rank :
    /\ phase[r] = "reduce" => Called(r, mask[r])
    /\ phase[r] \in {"bcast", "done"} /\ r = 0 => Called(0, World)
    /\ \A m \in Masks : Child(r, m) =>
         /\ phase[r] \in {"bcast", "done"} => Called(r, m)
         /\ Down(r, m) > 0 => Called(0, World)

\* The inductive invariant of allreduce_tree.
TreeInv == TreeControl /\ TreeStreams /\ TreeTensors /\ TreeScratch /\ TreeCalled
-----------------------------------------------------------------------------
\* Division with remainder.
LEMMA TreeDivMod ==
  ASSUME NEW a \in Nat, NEW b \in Nat \ {0}
  PROVE  /\ a \div b \in Nat /\ a % b \in 0 .. b - 1
         /\ a = b * (a \div b) + (a % b)
<1>1. a % b \in 0 .. b - 1
  OBVIOUS
<1>2. a = b * (a \div b) + (a % b)
  OBVIOUS
<1>3. a \div b \in Int
  OBVIOUS
<1>4. ~(a \div b < 0)
  BY <1>1, <1>2, <1>3
<1> QED BY <1>1, <1>2, <1>3, <1>4

\* Multiplication is monotonic.
LEMMA TreeProduct ==
  ASSUME NEW a \in Nat, NEW b \in Nat, NEW c \in Nat, a <= b
  PROVE  c * a \in Nat /\ c * b \in Nat /\ c * a <= c * b
  OBVIOUS

\* A sum of all tensors is a value.
LEMMA TreeValueTypes ==
  ASSUME NEW r \in Rank, NEW e \in Elem
  PROVE  Complete(e, r) \in Value
BY Zenon DEF Complete, Value

\* scale_if_avg of a complete sum is the result of the call.
LEMMA TreeScaled ==
  ASSUME NEW f, NEW owner,
         \A e \in Elem : f[e] = Complete(e, owner[e]), f = [e \in Elem |-> f[e]]
  PROVE  ScaleIfAvg(f) = Reduction(owner)
<1>1. CASE Avg
  <2>1. \A e \in Elem : [f[e] EXCEPT !.scl = @ + 1] =
          [elem |-> e, cnt |-> [q \in Rank |-> 1], by |-> owner[e], scl |-> 1]
    BY DEF Complete
  <2> QED BY <1>1, <2>1, Zenon DEF ScaleIfAvg, Reduction
<1>2. CASE ~Avg
  BY <1>2, Zenon DEF ScaleIfAvg, Reduction, Complete
<1> QED BY <1>1, <1>2, Zenon

\* What Append does to each place of a sequence.
LEMMA TreeAppendAt ==
  ASSUME NEW S, NEW w \in Seq(S), NEW x \in S
  PROVE  /\ Append(w, x) \in Seq(S) /\ Len(w) \in Nat
         /\ Len(Append(w, x)) = Len(w) + 1
         /\ \A i \in 1 .. Len(w) : Append(w, x)[i] = w[i]
         /\ Append(w, x)[Len(w) + 1] = x
OBVIOUS

\* What Tail does to each place of a sequence.
LEMMA TreeTailAt ==
  ASSUME NEW S, NEW w \in Seq(S), w # <<>>
  PROVE  /\ Tail(w) \in Seq(S) /\ Len(w) \in Nat /\ Len(w) > 0
         /\ Len(Tail(w)) = Len(w) - 1 /\ Head(w) = w[1] /\ Head(w) \in S
         /\ \A i \in 1 .. Len(w) - 1 : Tail(w)[i] = w[i + 1]
OBVIOUS

\* A send changes one stream, at its end.
LEMMA TreePutOne ==
  ASSUME NEW w \in Wires, NEW p \in Rank, NEW q \in Rank, NEW x \in Value
  PROVE  OnePut(WirePut(w, p, q, x), w, p, q, x)
<1>1. Append(w[p][q], x) \in Seq(Value)
  BY TreeAppendAt DEF Wires
<1> QED BY <1>1, Zenon DEF WirePut, Wires, OnePut

\* A receive changes one stream, at its front.
LEMMA TreeDropOne ==
  ASSUME NEW w \in Wires, NEW p \in Rank, NEW q \in Rank, w[p][q] # <<>>
  PROVE  OneDrop(WireDrop(w, p, q), w, p, q)
<1>1. Tail(w[p][q]) \in Seq(Value)
  BY TreeTailAt, Zenon DEF Wires
<1> QED BY <1>1, Zenon DEF WireDrop, Wires, OneDrop

\* Writing the next element of f keeps the stream a part of f.
LEMMA TreeCarriesPut ==
  ASSUME NEW f, NEW w, NEW a \in Nat, NEW b \in Nat, Carries(w, f, a, b),
         f[a] \in Value
  PROVE  Carries(Append(w, f[a]), f, a + 1, b)
<1>0. PICK x \in Value : x = f[a]
  OBVIOUS
<1>1. w \in Seq(Value) /\ Len(w) = a - b
  BY Zenon DEF Carries
<1>2. /\ Append(w, x) \in Seq(Value) /\ Len(w) \in Nat
      /\ Len(Append(w, x)) = Len(w) + 1
      /\ \A i \in 1 .. Len(w) : Append(w, x)[i] = w[i]
      /\ Append(w, x)[Len(w) + 1] = x
  BY <1>1, TreeAppendAt
<1>3. ASSUME NEW i \in 1 .. Len(w) + 1
      PROVE  Append(w, x)[i] = f[b + i - 1]
  <2>1. CASE i \in 1 .. Len(w)
    BY <1>2, <2>1, Zenon DEF Carries
  <2>2. CASE i = Len(w) + 1
    <3>1. b + i - 1 = a
      BY <1>1, <2>2
    <3> QED BY <1>0, <1>2, <2>2, <3>1, Zenon
  <2> QED BY <1>2, <2>1, <2>2
<1>4. Len(w) + 1 = a + 1 - b
  BY <1>1
<1>5. Carries(Append(w, x), f, a + 1, b)
  BY <1>2, <1>3, <1>4 DEF Carries
<1> QED BY <1>0, <1>5, Zenon

\* What is read from such a stream is the next element of f.
LEMMA TreeCarriesTake ==
  ASSUME NEW f, NEW w, NEW a \in Nat, NEW b \in Nat, Carries(w, f, a, b),
         w # <<>>
  PROVE  /\ Head(w) = f[b] /\ f[b] \in Value /\ b < a
         /\ Carries(Tail(w), f, a, b + 1)
<1>1. w \in Seq(Value) /\ Len(w) = a - b
  BY Zenon DEF Carries
<1>2. /\ Tail(w) \in Seq(Value) /\ Len(w) \in Nat /\ Len(w) > 0
      /\ Len(Tail(w)) = Len(w) - 1 /\ Head(w) = w[1] /\ Head(w) \in Value
      /\ \A i \in 1 .. Len(w) - 1 : Tail(w)[i] = w[i + 1]
  BY <1>1, TreeTailAt, Zenon
<1>3. \A i \in 1 .. Len(w) : w[i] = f[b + i - 1]
  BY Zenon DEF Carries
<1>4. Head(w) = f[b]
  <2>1. 1 \in 1 .. Len(w) /\ b + 1 - 1 = b
    BY <1>2
  <2> QED BY <1>2, <1>3, <2>1, Zenon
<1>5. ASSUME NEW i \in 1 .. Len(w) - 1
      PROVE  Tail(w)[i] = f[b + 1 + i - 1]
  <2>1. i + 1 \in 1 .. Len(w) /\ b + (i + 1) - 1 = b + 1 + i - 1
    BY <1>2
  <2>2. Tail(w)[i] = w[i + 1]
    BY <1>2, Zenon
  <2> QED BY <1>3, <2>1, <2>2, Zenon
<1>6. Len(w) - 1 = a - (b + 1) /\ b < a
  BY <1>1, <1>2
<1>7. Carries(Tail(w), f, a, b + 1)
  BY <1>2, <1>5, <1>6, Zenon DEF Carries
<1> QED BY <1>2, <1>4, <1>6, <1>7, Zenon
-----------------------------------------------------------------------------
\* A remainder is found from any quotient.
LEMMA Remainder ==
  ASSUME NEW b \in Nat \ {0}, NEW q \in Nat, NEW s \in 0 .. b - 1
  PROVE  (b * q + s) % b = s
<1>1. PICK a \in Nat : a = b * q + s
  OBVIOUS
<1>2. PICK d \in Nat, m \in 0 .. b - 1 : d = a \div b /\ m = a % b /\ a = b * d + m
  BY TreeDivMod
<1>3. ~(d < q)
  <2> SUFFICES ASSUME d < q PROVE FALSE
    OBVIOUS
  <2>1. b * (d + 1) <= b * q
    BY TreeProduct
  <2>2. b * (d + 1) = b * d + b
    OBVIOUS
  <2> QED BY <1>1, <1>2, <2>1, <2>2
<1>4. ~(q < d)
  <2> SUFFICES ASSUME q < d PROVE FALSE
    OBVIOUS
  <2>1. b * (q + 1) <= b * d
    BY TreeProduct
  <2>2. b * (q + 1) = b * q + b
    OBVIOUS
  <2> QED BY <1>1, <1>2, <2>1, <2>2
<1>5. d = q
  BY <1>3, <1>4
<1> QED BY <1>1, <1>2, <1>5

\* A multiple, and what is s more than one, in terms of the remainder.
LEMMA Multiple ==
  ASSUME NEW r \in Nat, NEW b \in Nat \ {0}
  PROVE  /\ r % b = 0 <=> \E k \in Nat : r = b * k
         /\ \A s \in 0 .. b - 1 : r % b = s <=> \E k \in Nat : r = b * k + s
<1>1. /\ r \div b \in Nat /\ r % b \in 0 .. b - 1
      /\ r = b * (r \div b) + (r % b)
  BY TreeDivMod, Zenon
<1>2. ASSUME NEW s \in 0 .. b - 1 PROVE r % b = s <=> \E k \in Nat : r = b * k + s
  <2>1. ASSUME NEW k \in Nat, r = b * k + s PROVE r % b = s
    BY <2>1, Remainder, Zenon
  <2>2. r % b = s => r = b * (r \div b) + s
    BY <1>1, Zenon
  <2> QED BY <1>1, <2>1, <2>2, Zenon
<1>3. 0 \in 0 .. b - 1 /\ \A k \in Nat : b * k + 0 = b * k
  OBVIOUS
<1>4. r % b = 0 <=> \E k \in Nat : r = b * k + 0
  BY <1>2, <1>3, Zenon
<1> QED BY <1>2, <1>3, <1>4, Zenon

\* The masks: 1, and twice every mask as long as that is below World.
LEMMA MaskFacts ==
  /\ 1 \in Masks
  /\ \A m \in Masks : m \in Nat /\ 1 <= m /\ m < World
  /\ \A m \in Masks : 2 * m < World => 2 * m \in Masks
<1>1. World \in Nat /\ World >= 2
  BY WorldAssumption, Zenon
<1>2. \A m \in Masks : m \in 1 .. World - 1
  BY Zenon DEF Masks
<1>3. 1 \in Masks
  BY <1>1 DEF Masks
<1>4. ASSUME NEW m \in Masks, 2 * m < World PROVE 2 * m \in Masks
  <2>1. 2 * m \in 1 .. World - 1
    BY <1>1, <1>2, <1>4
  <2> QED BY <1>4, <2>1, Zenon DEF Masks
<1> QED BY <1>1, <1>2, <1>3, <1>4

\* What is true of 1, and of twice every mask it is true of, is true of
\* every mask.
LEMMA MaskInduction ==
  ASSUME NEW S, 1 \in S, \A x \in S : x \in Masks /\ 2 * x < World => 2 * x \in S
  PROVE  Masks \subseteq S
<1> DEFINE T == {x \in Masks : x \in S}
<1>1. T \in SUBSET (1 .. World - 1) /\ 1 \in T
  BY MaskFacts, Zenon DEF Masks
<1>2. \A x \in T : 2 * x < World => 2 * x \in T
  BY MaskFacts, Zenon
<1>3. ASSUME NEW m \in Masks PROVE m \in T
  <2> HIDE DEF T
  <2> QED BY <1>1, <1>2, Zenon DEF Masks
<1> QED BY <1>3, Zenon

\* A mask that is not 1 is twice a mask.
LEMMA MaskHalf ==
  ASSUME NEW m \in Masks
  PROVE  m = 1 \/ \E h \in Masks : m = 2 * h
<1> DEFINE S == {x \in Masks : x = 1 \/ \E h \in Masks : x = 2 * h}
<1>1. 1 \in S /\ \A x \in S : x \in Masks /\ 2 * x < World => 2 * x \in S
  BY MaskFacts, Zenon
<1> HIDE DEF S
<1>2. m \in S
  BY <1>1, MaskInduction, Zenon
<1> QED BY <1>2, Zenon DEF S

\* Of two masks, the larger is a multiple of twice the smaller.
LEMMA MaskOrder ==
  ASSUME NEW x \in Masks, NEW y \in Masks, x < y
  PROVE  \E k \in Nat \ {0} : y = (2 * x) * k
<1> DEFINE Dbl(a, b) == \E k \in Nat : b = (2 * a) * k
           S == {a \in Masks : \A b \in Masks : (a < b => Dbl(a, b)) /\ (b < a => Dbl(b, a))}
<1>1. \A m \in Masks : m \in Nat /\ 1 <= m
  BY MaskFacts, Zenon
<1>2. 1 \in S
  <2>1. ASSUME NEW b \in Masks, 1 < b PROVE Dbl(1, b)
    <3>1. PICK h \in Masks : b = 2 * h
      BY <2>1, MaskHalf
    <3>2. b = (2 * 1) * h /\ h \in Nat
      BY <1>1, <3>1
    <3> QED BY <3>2, Zenon
  <2>2. \A b \in Masks : ~(b < 1)
    BY <1>1
  <2> HIDE DEF Dbl
  <2> QED BY <2>1, <2>2, MaskFacts, Zenon
<1>3. ASSUME NEW a \in S, a \in Masks, 2 * a < World PROVE 2 * a \in S
  <2>1. 2 * a \in Masks /\ a \in Nat /\ a >= 1
    BY <1>1, <1>3, MaskFacts, Zenon
  <2>2. ASSUME NEW b \in Masks, 2 * a < b PROVE Dbl(2 * a, b)
    <3>1. b # 1 /\ b \in Nat
      BY <1>1, <2>1, <2>2
    <3>2. PICK h \in Masks : b = 2 * h
      BY <3>1, MaskHalf, Zenon
    <3>3. a < h /\ h \in Nat
      BY <1>1, <2>1, <2>2, <3>2
    <3>4. PICK k \in Nat : h = (2 * a) * k
      BY <3>3, Zenon
    <3>5. b = (2 * (2 * a)) * k
      BY <2>1, <3>2, <3>4
    <3> QED BY <3>5, Zenon
  <2>3. ASSUME NEW b \in Masks, b < 2 * a PROVE Dbl(b, 2 * a)
    <3>0. b \in Nat /\ b >= 1
      BY <1>1, Zenon
    <3>1. CASE b < a
      <4>1. PICK k \in Nat : a = (2 * b) * k
        BY <3>1, Zenon
      <4>2. 2 * a = (2 * b) * (2 * k) /\ 2 * k \in Nat
        BY <2>1, <3>0, <4>1
      <4> QED BY <4>2, Zenon
    <3>2. CASE b = a
      <4>1. 2 * a = (2 * b) * 1
        BY <2>1, <3>2
      <4> QED BY <4>1, Zenon
    <3>3. CASE a < b
      <4>1. PICK k \in Nat : b = (2 * a) * k
        BY <3>3, Zenon
      <4>2. k # 0
        BY <2>1, <3>0, <4>1
      <4>3. (2 * a) * 1 <= (2 * a) * k
        BY <2>1, <4>2, TreeProduct
      <4> QED BY <2>1, <2>3, <3>0, <4>1, <4>3
    <3> QED BY <2>1, <3>0, <3>1, <3>2, <3>3
  <2> HIDE DEF Dbl
  <2> QED BY <2>1, <2>2, <2>3, Zenon
<1>4. x \in S
  <2> HIDE DEF S
  <2> QED BY <1>2, <1>3, MaskInduction, Zenon
<1>5. PICK k \in Nat : y = (2 * x) * k
  BY <1>4, Zenon
<1>6. k # 0
  BY <1>1, <1>5
<1> QED BY <1>5, <1>6, Zenon

\* The first loop ends: there is a mask with no mask above it.
HasTop == \E m \in Masks : 2 * m >= World

\* The second loop starts with the largest mask.
LEMMA TopFacts ==
  ASSUME HasTop
  PROVE  /\ TopMask \in Masks
         /\ 2 * TopMask >= World
         /\ \A m \in Masks : m <= TopMask
<1>1. World \in Nat /\ \A m \in Masks : m \in Nat /\ 1 <= m /\ m < World
  BY WorldAssumption, MaskFacts, Zenon
<1>2. \E m \in Masks : 2 * m >= World
  BY Zenon DEF HasTop
<1>3. TopMask \in Masks /\ 2 * TopMask >= World
  BY <1>2, Zenon DEF TopMask
<1>4. ASSUME NEW m \in Masks, TopMask < m PROVE FALSE
  <2>1. PICK k \in Nat \ {0} : m = (2 * TopMask) * k
    BY <1>3, <1>4, MaskOrder, Zenon
  <2>2. (2 * TopMask) * 1 <= (2 * TopMask) * k
    BY <1>1, <1>3, TreeProduct
  <2> QED BY <1>1, <1>3, <2>1, <2>2
<1> QED BY <1>1, <1>3, <1>4

\* Division of an equation by m.
LEMMA Cancel ==
  ASSUME NEW m \in Nat \ {0}, NEW a \in Nat, NEW b \in Nat, m * a = m * b
  PROVE  a = b
<1>1. ASSUME NEW x \in Nat, NEW y \in Nat, x < y PROVE m * x # m * y
  <2>1. m * (x + 1) <= m * y
    BY <1>1, TreeProduct
  <2>2. m * (x + 1) = m * x + m /\ m * x \in Nat
    OBVIOUS
  <2> QED BY <2>1, <2>2
<1> QED BY <1>1

\* The tests of the code on rank and mask, in terms of multiples.
LEMMA AsMultiple ==
  ASSUME NEW r \in Nat, NEW m \in Masks
  PROVE  /\ Aligned(r, m) <=> \E k \in Nat : r = m * k
         /\ Parent(r, m) <=> \E k \in Nat : r = (2 * m) * k
         /\ Child(r, m) <=> \E k \in Nat : r = (2 * m) * k + m
<1>1. m \in Nat \ {0}
  BY MaskFacts
<1>2. PICK b \in Nat \ {0} : b = 2 * m
  BY <1>1
<1>3. m \in 0 .. b - 1
  BY <1>1, <1>2
<1>4. r % m = 0 <=> \E k \in Nat : r = m * k
  BY <1>1, Multiple, Zenon
<1>5. /\ r % b = 0 <=> \E k \in Nat : r = b * k
      /\ r % b = m <=> \E k \in Nat : r = b * k + m
  BY <1>3, Multiple, Zenon
<1> QED BY <1>2, <1>4, <1>5, Zenon DEF Aligned, Parent, Child

\* A rank that takes part with mask m is a child or a parent, and
\* rank & mask tells which.
LEMMA ChildOrParent ==
  ASSUME NEW r \in Rank, NEW m \in Masks
  PROVE  /\ Child(r, m) => Aligned(r, m) /\ HasBit(r, m)
         /\ Parent(r, m) => Aligned(r, m) /\ ~HasBit(r, m)
         /\ Aligned(r, m) => Child(r, m) \/ Parent(r, m)
         /\ ~(Child(r, m) /\ Parent(r, m))
<1>1. m \in Nat /\ m >= 1 /\ r \in Nat
  BY MaskFacts, WorldAssumption DEF Rank
<1>2. m \in Nat \ {0} /\ 2 * m \in Nat \ {0} /\ m \in 0 .. 2 * m - 1 /\ 0 \in 0 .. m - 1
  BY <1>1
<1>3. ASSUME Child(r, m) PROVE Aligned(r, m) /\ HasBit(r, m)
  <2>1. PICK k \in Nat : r = (2 * m) * k + m
    BY <1>1, <1>3, AsMultiple, Zenon
  <2>2. r = m * (2 * k + 1) /\ 2 * k + 1 \in Nat
    BY <1>1, <2>1
  <2>3. r % m = 0
    BY <1>1, <1>2, <2>2, Multiple, Zenon
  <2>4. PICK d \in Nat : d = r \div m /\ r = m * d
    <3>1. r \div m \in Nat /\ r = m * (r \div m) + (r % m)
      BY <1>1, <1>2, TreeDivMod, Zenon
    <3>2. PICK d : d = r \div m
      OBVIOUS
    <3>3. d \in Nat /\ r = m * d
      BY <1>1, <2>3, <3>1, <3>2
    <3> QED BY <3>2, <3>3, Zenon
  <2>5. d = 2 * k + 1
    BY <1>1, <2>2, <2>4, Cancel
  <2>6. d % 2 = 1
    BY <2>5
  <2> QED BY <2>3, <2>4, <2>6, Zenon DEF Aligned, HasBit
<1>4. ASSUME Parent(r, m) PROVE Aligned(r, m) /\ ~HasBit(r, m)
  <2>1. PICK k \in Nat : r = (2 * m) * k
    BY <1>1, <1>4, AsMultiple, Zenon
  <2>2. r = m * (2 * k) /\ 2 * k \in Nat
    BY <1>1, <2>1
  <2>3. r % m = 0
    BY <1>1, <1>2, <2>2, Multiple, Zenon
  <2>4. PICK d \in Nat : d = r \div m /\ r = m * d
    <3>1. r \div m \in Nat /\ r = m * (r \div m) + (r % m)
      BY <1>1, <1>2, TreeDivMod, Zenon
    <3>2. PICK d : d = r \div m
      OBVIOUS
    <3>3. d \in Nat /\ r = m * d
      BY <1>1, <2>3, <3>1, <3>2
    <3> QED BY <3>2, <3>3, Zenon
  <2>5. d = 2 * k
    BY <1>1, <2>2, <2>4, Cancel
  <2>6. d % 2 = 0
    BY <2>5
  <2> QED BY <2>3, <2>4, <2>6 DEF Aligned, HasBit
<1>5. ASSUME Aligned(r, m) PROVE Child(r, m) \/ Parent(r, m)
  <2>1. PICK k \in Nat : r = m * k
    BY <1>1, <1>5, AsMultiple, Zenon
  <2>2. PICK h \in Nat : k = 2 * h \/ k = 2 * h + 1
    <3>1. k \div 2 \in Nat /\ (k = 2 * (k \div 2) \/ k = 2 * (k \div 2) + 1)
      OBVIOUS
    <3> QED BY <3>1, Zenon
  <2>3. CASE k = 2 * h
    <3>1. r = (2 * m) * h
      BY <1>1, <2>1, <2>3
    <3> QED BY <1>1, <3>1, AsMultiple, Zenon
  <2>4. CASE k = 2 * h + 1
    <3>1. r = (2 * m) * h + m
      BY <1>1, <2>1, <2>4
    <3> QED BY <1>1, <3>1, AsMultiple, Zenon
  <2> QED BY <2>2, <2>3, <2>4, Zenon
<1>6. ~(Child(r, m) /\ Parent(r, m))
  BY <1>1 DEF Child, Parent
<1> QED BY <1>3, <1>4, <1>5, <1>6, Zenon

\* The two ends of a transfer with mask m.
LEMMA ParentOfChild ==
  ASSUME NEW r \in Rank, NEW m \in Masks
  PROVE  /\ Child(r, m) => r - m \in Rank /\ Parent(r - m, m)
         /\ Parent(r, m) /\ r + m < World => r + m \in Rank /\ Child(r + m, m)
<1>1. /\ m \in Nat /\ m >= 1 /\ r \in Nat /\ World \in Nat /\ r < World
      /\ \A x \in Nat : x < World => x \in Rank
  BY MaskFacts, WorldAssumption DEF Rank
<1>2. 2 * m \in Nat \ {0} /\ m \in 0 .. 2 * m - 1
  BY <1>1
<1>3. ASSUME Child(r, m) PROVE r - m \in Rank /\ Parent(r - m, m)
  <2>1. PICK k \in Nat : r = (2 * m) * k + m
    BY <1>1, <1>3, AsMultiple, Zenon
  <2>2. PICK n \in Nat : n = (2 * m) * k
    BY <1>2
  <2>3. r - m = n /\ r - m \in Nat
    BY <1>1, <2>1, <2>2
  <2>4. Parent(n, m)
    BY <2>2, AsMultiple, Zenon
  <2> QED BY <1>1, <2>3, <2>4
<1>4. ASSUME Parent(r, m), r + m < World PROVE r + m \in Rank /\ Child(r + m, m)
  <2>1. PICK k \in Nat : r = (2 * m) * k
    BY <1>1, <1>4, AsMultiple, Zenon
  <2>2. r + m = (2 * m) * k + m /\ r + m \in Nat
    BY <1>1, <2>1
  <2>3. PICK n \in Nat : n = r + m
    BY <1>1
  <2>4. Child(n, m)
    BY <2>2, <2>3, AsMultiple, Zenon
  <2> QED BY <1>1, <1>4, <2>3, <2>4, Zenon
<1> QED BY <1>3, <1>4, Zenon

\* A rank is a parent with every mask below one it takes part with.
LEMMA ParentBelow ==
  ASSUME NEW r \in Rank, NEW x \in Masks, NEW y \in Masks, Aligned(r, y), x < y
  PROVE  Parent(r, x)
<1>1. x \in Nat /\ x >= 1 /\ y \in Nat /\ y >= 1 /\ r \in Nat
  BY MaskFacts, WorldAssumption DEF Rank
<1>2. PICK k \in Nat : y = (2 * x) * k
  BY MaskOrder, Zenon
<1>3. PICK j \in Nat : r = y * j
  BY <1>1, AsMultiple, Zenon
<1>4. r = (2 * x) * (k * j) /\ k * j \in Nat
  BY <1>1, <1>2, <1>3
<1> QED BY <1>1, <1>4, AsMultiple, Zenon

\* A rank sends up once, and is a parent before that and never after.
LEMMA ChildOnce ==
  ASSUME NEW r \in Rank, NEW x \in Masks, NEW y \in Masks, Child(r, y)
  PROVE  /\ Child(r, x) => x = y
         /\ Parent(r, x) => x < y
         /\ Aligned(r, x) => x <= y
         /\ x < y => Parent(r, x)
         /\ r # 0
<1>1. x \in Nat /\ x >= 1 /\ y \in Nat /\ y >= 1
  BY MaskFacts, Zenon
<1>2. Aligned(r, y)
  BY ChildOrParent, Zenon
<1>3. x < y => Parent(r, x)
  BY <1>2, ParentBelow, Zenon
<1>4. Aligned(r, x) /\ y < x => Parent(r, y)
  BY ParentBelow, Zenon
<1>5. r # 0
  <2> SUFFICES ASSUME r = 0 PROVE FALSE
    OBVIOUS
  <2>1. 2 * y \in Nat \ {0} /\ 0 = (2 * y) * 0
    BY <1>1
  <2>2. 0 % (2 * y) = 0
    BY <2>1, Multiple, Zenon
  <2> QED BY <1>1, <2>2 DEF Child
<1> QED BY <1>1, <1>3, <1>4, <1>5, ChildOrParent

\* Only rank 0 is still a parent when the mask reaches world.
LEMMA RootOnly ==
  ASSUME NEW r \in Rank, NEW m \in Masks
  PROVE  /\ Parent(r, m) /\ 2 * m >= World => r = 0
         /\ Parent(0, m) /\ Aligned(0, m) /\ 0 \in Rank
<1>1. m \in Nat /\ m >= 1 /\ r \in Nat /\ World \in Nat /\ r < World /\ 0 \in Rank
  BY MaskFacts, WorldAssumption DEF Rank
<1>2. PICK b \in Nat \ {0} : b = 2 * m
  BY <1>1
<1>3. ASSUME Parent(r, m), 2 * m >= World PROVE r = 0
  <2>1. PICK k \in Nat : r = b * k
    BY <1>1, <1>2, <1>3, Multiple DEF Parent
  <2>2. CASE k = 0
    BY <2>1, <2>2, <1>2
  <2>3. CASE k >= 1
    <3>1. b * 1 <= b * k
      BY <2>3, TreeProduct, Zenon
    <3> QED BY <1>1, <1>2, <1>3, <2>1, <3>1
  <2> QED BY <2>2, <2>3
<1>4. 0 % b = 0 /\ 0 % m = 0
  <2>1. m \in Nat \ {0} /\ 0 = b * 0 /\ 0 = m * 0
    BY <1>1, <1>2
  <2> QED BY <2>1, Multiple, Zenon
<1> QED BY <1>1, <1>2, <1>3, <1>4, Zenon DEF Parent, Aligned

\* With the next mask, those that were parents take part.
LEMMA NextMask ==
  ASSUME NEW r \in Rank, NEW m \in Masks
  PROVE  Parent(r, m) <=> Aligned(r, 2 * m)
BY Zenon DEF Parent, Aligned
-----------------------------------------------------------------------------
\* A sum of a subtree is a value.
LEMMA SubSumType ==
  ASSUME NEW r \in Rank, NEW m, NEW e \in Elem
  PROVE  SubSum(r, m, e) \in Value
BY Zenon DEF SubSum, Value

\* A rank's own tensor is the sum of one.
LEMMA SubSumOne ==
  ASSUME NEW r \in Rank, NEW e \in Elem
  PROVE  Input(r)[e] = SubSum(r, 1, e)
<1>1. \A q \in Rank : q = r <=> r <= q /\ q < r + 1
  BY WorldAssumption DEF Rank
<1>2. [q \in Rank |-> IF q = r THEN 1 ELSE 0]
        = [q \in Rank |-> IF r <= q /\ q < r + 1 THEN 1 ELSE 0]
  BY <1>1, Zenon
<1> QED BY <1>2, Zenon DEF Input, SubSum

\* The reduction of one iteration doubles the sum; where there is nobody to
\* receive from, it is already the doubled one.
LEMMA SubSumAdds ==
  ASSUME NEW r \in Rank, NEW m \in Masks, NEW e \in Elem
  PROVE  /\ ReduceInto(r, SubSum(r, m, e), SubSum(r + m, m, e)) = SubSum(r, 2 * m, e)
         /\ r + m >= World => SubSum(r, m, e) = SubSum(r, 2 * m, e)
<1>1. m \in Nat /\ World \in Nat
  BY MaskFacts, WorldAssumption, Zenon
<1> DEFINE d == SubSum(r, m, e)
           u == SubSum(r + m, m, e)
<1>2. /\ d.elem = e /\ u.elem = e /\ d.scl = 0 /\ u.scl = 0
      /\ \A q \in Rank : d.cnt[q] = IF r <= q /\ q < r + m THEN 1 ELSE 0
      /\ \A q \in Rank : u.cnt[q] = IF r + m <= q /\ q < r + m + m THEN 1 ELSE 0
  BY Zenon DEF SubSum
<1> HIDE DEF d, u
<1>3. ASSUME NEW q \in Rank
      PROVE  d.cnt[q] + u.cnt[q] = IF r <= q /\ q < r + 2 * m THEN 1 ELSE 0
  BY <1>1, <1>2 DEF Rank
<1>4. [q \in Rank |-> d.cnt[q] + u.cnt[q]]
        = [q \in Rank |-> IF r <= q /\ q < r + 2 * m THEN 1 ELSE 0]
  BY <1>3, Zenon
<1>5. ReduceInto(r, d, u) =
        [elem |-> e, cnt |-> [q \in Rank |-> d.cnt[q] + u.cnt[q]], by |-> r, scl |-> 0]
  BY <1>2 DEF ReduceInto
<1>6. ReduceInto(r, d, u) = SubSum(r, 2 * m, e)
  BY <1>4, <1>5, Zenon DEF SubSum
<1>7. ASSUME r + m >= World PROVE SubSum(r, m, e) = SubSum(r, 2 * m, e)
  <2>1. \A q \in Rank : r <= q /\ q < r + m <=> r <= q /\ q < r + 2 * m
    BY <1>1, <1>7 DEF Rank
  <2>2. [q \in Rank |-> IF r <= q /\ q < r + m THEN 1 ELSE 0]
          = [q \in Rank |-> IF r <= q /\ q < r + 2 * m THEN 1 ELSE 0]
    BY <2>1, Zenon
  <2> QED BY <2>2, Zenon DEF SubSum
<1> QED BY <1>6, <1>7, Zenon DEF d, u

\* The sum of World ranks from rank 0 is complete.
LEMMA SubSumAll ==
  ASSUME NEW m \in Nat, m >= World, NEW e \in Elem
  PROVE  SubSum(0, m, e) = Complete(e, 0)
<1>1. \A q \in Rank : 0 <= q /\ q < 0 + m
  BY WorldAssumption DEF Rank
<1>2. [q \in Rank |-> IF 0 <= q /\ q < 0 + m THEN 1 ELSE 0] = [q \in Rank |-> 1]
  BY <1>1, Zenon
<1> QED BY <1>2, Zenon DEF SubSum, Complete

\* The peers the code computes from rank and mask are the child and the
\* parent.
LEMMA TreePeers ==
  ASSUME TreeInv, NEW r \in Rank, NEW m \in Masks, m = mask[r]
  PROVE  /\ phase[r] = "reduce" =>
              /\ Child(r, m) \/ Parent(r, m)
              /\ SendPeer(r) = IF Child(r, m) THEN r - m ELSE NoPeer
              /\ RecvPeer(r) = IF Parent(r, m) /\ r + m < World THEN r + m ELSE NoPeer
              /\ LeavesReduce(r) <=> Child(r, m) \/ 2 * m >= World
         /\ phase[r] = "bcast" =>
              /\ SendPeer(r) = IF Parent(r, m) /\ r + m < World THEN r + m ELSE NoPeer
              /\ RecvPeer(r) = IF Child(r, m) THEN r - m ELSE NoPeer
         /\ phase[r] \notin {"reduce", "bcast"} =>
              SendPeer(r) = NoPeer /\ RecvPeer(r) = NoPeer
<1>1. phase[r] = "reduce" => Aligned(r, m)
  BY Zenon DEF TreeInv, TreeControl
<1>2. /\ Child(r, m) => HasBit(r, m)
      /\ Parent(r, m) => ~HasBit(r, m)
      /\ Aligned(r, m) => Child(r, m) \/ Parent(r, m)
      /\ ~(Child(r, m) /\ Parent(r, m))
  BY ChildOrParent, Zenon
<1>3. CASE phase[r] = "reduce"
  BY <1>1, <1>2, <1>3, Zenon DEF SendPeer, RecvPeer, LeavesReduce
<1>4. CASE phase[r] = "bcast"
  BY <1>2, <1>4, Zenon DEF SendPeer, RecvPeer, Parent, Child
<1>5. CASE phase[r] \notin {"reduce", "bcast"}
  BY <1>5, Zenon DEF SendPeer, RecvPeer
<1> QED BY <1>3, <1>4, <1>5, Zenon

\* A transfer moves at most Numel elements.
LEMMA Positions ==
  ASSUME TreeInv, NEW r \in Rank, NEW m \in Masks
  PROVE  Up(r, m) \in 0 .. Numel /\ Down(r, m) \in 0 .. Numel
BY NumelAssumption DEF TreeInv, TreeControl, Up, Down

\* A rank above the transfer of the second loop it has begun has the result.
LEMMA HasResult ==
  ASSUME TreeInv, NEW p \in Rank, NEW m \in Masks, Parent(p, m)
  PROVE  /\ Down(p, m) > 0 => Called(0, World)
         /\ phase[p] = "bcast" /\ mask[p] = m => \A e \in Elem : t[p][e] = Complete(e, 0)
<1>1. /\ mask[p] \in Masks /\ \A k \in Masks : k \in Nat
      /\ Numel \in Nat /\ Numel > 0
  BY MaskFacts, NumelAssumption DEF TreeInv, TreeControl
<1>2. phase[p] \in {"bcast", "done"} => p = 0 \/ \E k \in Masks : Child(p, k)
  BY Zenon DEF TreeInv, TreeControl
<1>3. ASSUME NEW k \in Masks, Child(p, k), phase[p] = "done" \/ mask[p] <= m,
             phase[p] \in {"bcast", "done"}
      PROVE  Down(p, k) = Numel
  <2>1. m < k
    BY <1>3, ChildOnce, Zenon
  <2> QED BY <1>1, <1>3, <2>1 DEF Down
<1>4. Down(p, m) > 0 => phase[p] = "done" \/ (phase[p] = "bcast" /\ mask[p] <= m)
  BY <1>1 DEF Down
<1>5. Down(p, m) > 0 => Called(0, World)
  <2> SUFFICES ASSUME Down(p, m) > 0 PROVE Called(0, World)
    OBVIOUS
  <2>1. CASE p = 0
    BY <1>4, <2>1, Zenon DEF TreeInv, TreeCalled
  <2>2. ASSUME NEW k \in Masks, Child(p, k) PROVE Called(0, World)
    <3>1. Down(p, k) > 0
      BY <1>1, <1>3, <1>4, <2>2, Zenon
    <3> QED BY <2>2, <3>1, Zenon DEF TreeInv, TreeCalled
  <2> QED BY <1>2, <1>4, <2>1, <2>2, Zenon
<1>6. ASSUME phase[p] = "bcast", mask[p] = m, NEW e \in Elem
      PROVE  t[p][e] = Complete(e, 0)
  <2>1. CASE p = 0
    BY <1>6, <2>1, Zenon DEF TreeInv, TreeTensors, TensorOf
  <2>2. ASSUME NEW k \in Masks, Child(p, k) PROVE t[p][e] = Complete(e, 0)
    <3>1. Down(p, k) = Numel
      BY <1>1, <1>3, <1>6, <2>2
    <3>2. e < Down(p, k)
      BY <1>1, <3>1 DEF Elem
    <3> QED BY <1>6, <2>2, <3>2, Zenon DEF TreeInv, TreeTensors, TensorOf
  <2> QED BY <1>2, <1>6, <2>1, <2>2, Zenon
<1> QED BY <1>5, <1>6, Zenon
-----------------------------------------------------------------------------
\* A step that leaves what the tensor of rank q depends on.
LEMMA TensorStays ==
  ASSUME TreeInv, NEW q \in Rank, t'[q] = t[q], phase'[q] = phase[q],
         phase[q] \in {"idle", "reduce"} => mask'[q] = mask[q],
         \A k \in Masks : Child(q, k) => Down(q, k)' = Down(q, k)
  PROVE  TensorOf(q)'
<1>1. TensorOf(q)
  BY Zenon DEF TreeInv, TreeTensors
<1> QED BY <1>1 DEF TensorOf

\* A rank enters allreduce_tree.
LEMMA TreeEnterStep ==
  ASSUME TreeInv, NEW r \in Rank, TreeEnter(r)
  PROVE  TreeInv'
<1>1. /\ phase[r] = "idle" /\ phase' = [phase EXCEPT ![r] = "reduce"]
      /\ UNCHANGED <<mask, pos, t, scratch, wire>>
  BY Zenon DEF TreeEnter
<1>2. /\ \A q \in Rank : phase'[q] = IF q = r THEN "reduce" ELSE phase[q]
      /\ phase' \in [Rank -> {"idle", "reduce", "bcast", "done"}]
  BY <1>1, Zenon DEF TreeInv, TreeControl
<1>3. mask[r] = 1 /\ pos[r] = 0 /\ \A k \in Masks : k \in Nat /\ 1 <= k
  BY <1>1, MaskFacts, Zenon DEF TreeInv, TreeControl
<1>4. \A q \in Rank : \A k \in Masks : Up(q, k)' = Up(q, k) /\ Down(q, k)' = Down(q, k)
  BY <1>1, <1>2, <1>3 DEF Up, Down
<1>5. TreeControl'
  BY <1>1, <1>2, Zenon DEF TreeInv, TreeControl
<1>6. TreeStreams'
  BY <1>1, <1>4, ParentOfChild, Zenon DEF TreeInv, TreeStreams
<1>7. TreeTensors'
  <2>1. ASSUME NEW q \in Rank, q # r PROVE TensorOf(q)'
    BY <1>1, <1>2, <1>4, <2>1, TensorStays, Zenon
  <2>2. TensorOf(r)'
    BY <1>1, <1>2, Zenon DEF TreeInv, TreeTensors, TensorOf
  <2> QED BY <2>1, <2>2, Zenon DEF TreeTensors
<1>8. TreeScratch'
  BY <1>1, <1>2, <1>3 DEF TreeInv, TreeScratch
<1>9. TreeCalled'
  <2>1. \A q \in Rank : phase[q] # "idle" => phase'[q] # "idle"
    BY <1>2, Zenon
  <2>2. \A q \in Rank : r <= q /\ q < r + 1 => q = r
    BY WorldAssumption DEF Rank
  <2>3. ASSUME NEW q \in Rank, phase'[q] = "reduce"
        PROVE  Called(q, mask[q])'
    <3>1. CASE q = r
      BY <1>1, <1>2, <1>3, <2>2, <3>1 DEF Called
    <3>2. CASE q # r
      BY <1>1, <1>2, <2>1, <2>3, <3>2, Zenon DEF TreeInv, TreeCalled, Called
    <3> QED BY <3>1, <3>2, Zenon
  <2>4. ASSUME NEW q \in Rank
        PROVE  phase'[q] \in {"bcast", "done"} /\ q = 0 => Called(0, World)'
    BY <1>2, <2>1, Zenon DEF TreeInv, TreeCalled, Called
  <2>5. ASSUME NEW q \in Rank, NEW k \in Masks, Child(q, k)
        PROVE  /\ phase'[q] \in {"bcast", "done"} => Called(q, k)'
               /\ Down(q, k)' > 0 => Called(0, World)'
    BY <1>2, <1>4, <2>1, <2>5, Zenon DEF TreeInv, TreeCalled, Called
  <2> QED BY <2>3, <2>4, <2>5, Zenon DEF TreeCalled
<1> QED BY <1>5, <1>6, <1>7, <1>8, <1>9, Zenon DEF TreeInv

\* What one element moved by rank r changes of the positions.
LEMMA OneMoved ==
  ASSUME TreeInv, NEW r \in Rank, pos' = [pos EXCEPT ![r] = @ + 1],
         UNCHANGED <<phase, mask>>
  PROVE  \A q \in Rank : \A k \in Masks :
           /\ Up(q, k)' = IF q = r /\ phase[r] = "reduce" /\ mask[r] = k
                          THEN pos[r] + 1 ELSE Up(q, k)
           /\ Down(q, k)' = IF q = r /\ phase[r] = "bcast" /\ mask[r] = k
                            THEN pos[r] + 1 ELSE Down(q, k)
<1>1. \A x \in Rank : pos'[x] = IF x = r THEN pos[r] + 1 ELSE pos[x]
  BY Zenon DEF TreeInv, TreeControl
<1>2. ASSUME NEW q \in Rank, NEW k \in Masks
      PROVE  Up(q, k)' = IF q = r /\ phase[r] = "reduce" /\ mask[r] = k
                         THEN pos[r] + 1 ELSE Up(q, k)
  BY <1>1, Zenon DEF Up
<1>3. ASSUME NEW q \in Rank, NEW k \in Masks
      PROVE  Down(q, k)' = IF q = r /\ phase[r] = "bcast" /\ mask[r] = k
                           THEN pos[r] + 1 ELSE Down(q, k)
  BY <1>1, Zenon DEF Down
<1> QED BY <1>2, <1>3, Zenon

\* A send, up or down, keeps the invariant.
LEMMA TreeSendStep ==
  ASSUME TreeInv, NEW r \in Rank, TreeSendElem(r)
  PROVE  TreeInv'
<1>1. /\ SendPeer(r) # NoPeer /\ pos[r] < Numel
      /\ wire' = WirePut(wire, r, SendPeer(r), t[r][pos[r]])
      /\ pos' = [pos EXCEPT ![r] = @ + 1]
      /\ UNCHANGED <<phase, mask, t, scratch>>
  BY Zenon DEF TreeSendElem
<1>2. PICK m \in Masks : m = mask[r]
  BY Zenon DEF TreeInv, TreeControl
<1>3. PICK o \in Elem : o = pos[r]
  BY <1>1, NumelAssumption DEF TreeInv, TreeControl, Elem
<1>4. PICK p \in Rank :
        /\ p = SendPeer(r)
        /\ \/ phase[r] = "reduce" /\ Child(r, m) /\ p = r - m
           \/ phase[r] = "bcast" /\ Parent(r, m) /\ Child(p, m) /\ p = r + m
  BY <1>1, <1>2, TreePeers, ParentOfChild, Zenon
<1>5. PICK x \in Value :
        /\ x = t[r][o]
        /\ phase[r] = "reduce" => x = SubSum(r, m, o)
        /\ phase[r] = "bcast" => x = Complete(o, 0)
  <2>1. t[r][o] \in Value
    BY Zenon DEF TreeInv, TreeControl
  <2>2. phase[r] = "reduce" => t[r][o] = SubSum(r, m, o)
    BY <1>2, Zenon DEF TreeInv, TreeTensors, TensorOf
  <2>3. phase[r] = "bcast" => t[r][o] = Complete(o, 0)
    BY <1>2, <1>4, HasResult, Zenon
  <2> QED BY <2>1, <2>2, <2>3, Zenon
<1>6. OnePut(wire', wire, r, p, x)
  BY <1>1, <1>3, <1>4, <1>5, TreePutOne, Zenon DEF TreeInv, TreeControl
<1>7. /\ wire' \in Wires /\ wire'[r][p] = Append(wire[r][p], x)
      /\ \A a, b \in Rank : a # r \/ b # p => wire'[a][b] = wire[a][b]
  BY <1>6, Zenon DEF OnePut
<1>8. \A q \in Rank : \A k \in Masks :
        /\ Up(q, k)' = IF q = r /\ phase[r] = "reduce" /\ m = k THEN o + 1 ELSE Up(q, k)
        /\ Down(q, k)' = IF q = r /\ phase[r] = "bcast" /\ m = k THEN o + 1 ELSE Down(q, k)
  <2>1. \A q \in Rank : \A k \in Masks :
          /\ Up(q, k)' = IF q = r /\ phase[r] = "reduce" /\ mask[r] = k
                         THEN pos[r] + 1 ELSE Up(q, k)
          /\ Down(q, k)' = IF q = r /\ phase[r] = "bcast" /\ mask[r] = k
                           THEN pos[r] + 1 ELSE Down(q, k)
    BY <1>1, OneMoved, Zenon
  <2> QED BY <1>2, <1>3, <2>1
<1>9. /\ o \in Nat /\ m \in Nat /\ m >= 1 /\ r \in Int /\ p \in Int
      /\ \A k \in Masks : k \in Nat /\ k >= 1
      /\ \A q \in Rank : q \in Int
  BY MaskFacts, WorldAssumption DEF Rank, Elem
<1>10. ~(Child(r, m) /\ Parent(r, m))
  BY ChildOrParent, Zenon
<1>11. TreeControl'
  <2>1. pos' \in [Rank -> 0 .. Numel]
    <3>1. o + 1 \in 0 .. Numel
      BY NumelAssumption DEF Elem
    <3> QED BY <1>1, <1>3, <3>1, Zenon DEF TreeInv, TreeControl
  <2>2. \A q \in Rank : phase[q] = "idle" => pos'[q] = pos[q]
    BY <1>1, <1>4, Zenon DEF TreeInv, TreeControl
  <2> QED BY <1>1, <1>7, <2>1, <2>2, Zenon DEF TreeInv, TreeControl
<1>12. ASSUME NEW k \in Masks, NEW c \in Rank, Child(c, k)
       PROVE  Carries(wire'[c][c - k], UpStream(c, k), Up(c, k)', Up(c - k, k)')
  <2>1. c - k \in Rank /\ Parent(c - k, k)
    BY <1>12, ParentOfChild, Zenon
  <2>2. Carries(wire[c][c - k], UpStream(c, k), Up(c, k), Up(c - k, k))
    BY <1>12, Zenon DEF TreeInv, TreeStreams
  <2>3. c - k # c
    BY <1>9
  <2>4. CASE phase[r] = "reduce" /\ c = r /\ k = m
    <3>1. Up(r, m) = o /\ Up(c - k, k)' = Up(c - k, k) /\ Up(c, k)' = o + 1
      BY <1>2, <1>3, <1>8, <2>1, <2>3, <2>4 DEF Up
    <3>2. UpStream(c, k)[o] = x
      BY <1>5, <1>9, <2>4, Zenon DEF UpStream
    <3>3. Up(c - k, k) \in Nat
      BY <2>1, Positions, NumelAssumption
    <3>4. p = c - k
      BY <1>4, <2>4, Zenon
    <3>5. Carries(Append(wire[c][c - k], UpStream(c, k)[o]), UpStream(c, k), o + 1, Up(c - k, k))
      BY <1>9, <2>2, <2>4, <3>1, <3>2, <3>3, TreeCarriesPut
    <3> QED BY <1>7, <2>4, <3>1, <3>2, <3>4, <3>5, Zenon
  <2>5. CASE ~(phase[r] = "reduce" /\ c = r /\ k = m)
    <3>1. ~(phase[r] = "reduce" /\ c - k = r /\ k = m)
      BY <1>4, <1>10, <2>1, Zenon
    <3>2. Up(c, k)' = Up(c, k) /\ Up(c - k, k)' = Up(c - k, k)
      BY <1>8, <2>1, <2>5, <3>1
    <3>3. c # r \/ c - k # p
      BY <1>4, <1>9, <2>5
    <3>4. wire'[c][c - k] = wire[c][c - k]
      BY <1>7, <2>1, <3>3, Zenon
    <3> QED BY <2>2, <3>2, <3>4, Zenon
  <2> QED BY <2>4, <2>5, Zenon
<1>13. ASSUME NEW k \in Masks, NEW c \in Rank, Child(c, k)
       PROVE  Carries(wire'[c - k][c], DownStream, Down(c - k, k)', Down(c, k)')
  <2>1. c - k \in Rank /\ Parent(c - k, k)
    BY <1>13, ParentOfChild, Zenon
  <2>2. Carries(wire[c - k][c], DownStream, Down(c - k, k), Down(c, k))
    BY <1>13, Zenon DEF TreeInv, TreeStreams
  <2>3. c - k # c
    BY <1>9
  <2>4. CASE phase[r] = "bcast" /\ c - k = r /\ k = m
    <3>1. Down(r, m) = o /\ Down(c - k, k)' = o + 1 /\ Down(c, k)' = Down(c, k)
      BY <1>2, <1>3, <1>8, <2>1, <2>3, <2>4 DEF Down
    <3>2. DownStream[o] = x
      BY <1>5, <1>9, <2>4, Zenon DEF DownStream
    <3>3. Down(c, k) \in Nat
      BY Positions, NumelAssumption
    <3>4. p = c
      BY <1>4, <1>9, <2>4
    <3>5. Carries(Append(wire[c - k][c], DownStream[o]), DownStream, o + 1, Down(c, k))
      BY <1>9, <2>2, <2>4, <3>1, <3>2, <3>3, TreeCarriesPut
    <3> QED BY <1>7, <2>4, <3>1, <3>2, <3>4, <3>5, Zenon
  <2>5. CASE ~(phase[r] = "bcast" /\ c - k = r /\ k = m)
    <3>1. ~(phase[r] = "bcast" /\ c = r /\ k = m)
      BY <1>4, <1>10, <1>13, Zenon
    <3>2. Down(c, k)' = Down(c, k) /\ Down(c - k, k)' = Down(c - k, k)
      BY <1>8, <2>1, <2>5, <3>1, Zenon
    <3>3. c - k # r \/ c # p
      BY <1>4, <1>9, <2>5
    <3>4. wire'[c - k][c] = wire[c - k][c]
      BY <1>7, <2>1, <3>3, Zenon
    <3> QED BY <2>2, <3>2, <3>4, Zenon
  <2> QED BY <2>4, <2>5, Zenon
<1>14. TreeStreams'
  <2>1. \/ Child(r, m) /\ p = r - m
        \/ Child(p, m) /\ r = p - m
    BY <1>4, <1>9
  <2>2. \A a, b \in Rank :
          \/ \E k \in Masks : \/ Child(a, k) /\ b = a - k
                              \/ Child(b, k) /\ a = b - k
          \/ wire'[a][b] = <<>>
    BY <1>7, <2>1 DEF TreeInv, TreeStreams
  <2> QED BY <1>12, <1>13, <2>2, Zenon DEF TreeStreams
<1>15. \A q \in Rank : \A k \in Masks : Child(q, k) => Down(q, k)' = Down(q, k)
  BY <1>4, <1>8, <1>10, Zenon
<1>16. TreeTensors'
  BY <1>1, <1>15, TensorStays, Zenon DEF TreeTensors
<1>17. TreeScratch'
  <2>1. \A q \in Rank : phase[q] = "reduce" /\ Parent(q, mask[q]) => pos'[q] = pos[q]
    BY <1>1, <1>2, <1>4, <1>10, Zenon DEF TreeInv, TreeControl
  <2> QED BY <1>1, <2>1 DEF TreeInv, TreeScratch
<1>18. TreeCalled'
  BY <1>1, <1>15, Zenon DEF TreeInv, TreeCalled, Called
<1> QED BY <1>11, <1>14, <1>16, <1>17, <1>18, Zenon DEF TreeInv

\* What writing one element of one rank's buffer changes.
LEMMA OneElem ==
  ASSUME NEW f \in [Rank -> [Elem -> Value]], NEW r \in Rank, NEW o \in Elem,
         NEW x \in Value, NEW g, g = [f EXCEPT ![r][o] = x]
  PROVE  /\ g \in [Rank -> [Elem -> Value]]
         /\ \A q \in Rank : \A e \in Elem :
              g[q][e] = IF q = r /\ e = o THEN x ELSE f[q][e]
         /\ \A q \in Rank : q # r => g[q] = f[q]
OBVIOUS

\* A receive, from a child or of the result, keeps the invariant.
LEMMA TreeRecvStep ==
  ASSUME TreeInv, NEW r \in Rank, TreeRecvElem(r)
  PROVE  TreeInv'
<1>1. /\ RecvPeer(r) # NoPeer /\ pos[r] < Numel /\ wire[RecvPeer(r)][r] # <<>>
      /\ wire' = WireDrop(wire, RecvPeer(r), r)
      /\ pos' = [pos EXCEPT ![r] = @ + 1]
      /\ UNCHANGED <<phase, mask>>
      /\ phase[r] = "reduce" =>
           scratch' = [scratch EXCEPT ![r][pos[r]] = Head(wire[RecvPeer(r)][r])] /\ t' = t
      /\ phase[r] # "reduce" =>
           t' = [t EXCEPT ![r][pos[r]] = Head(wire[RecvPeer(r)][r])] /\ scratch' = scratch
  BY Zenon DEF TreeRecvElem, CanRead
<1>2. PICK m \in Masks : m = mask[r]
  BY Zenon DEF TreeInv, TreeControl
<1>3. PICK o \in Elem : o = pos[r]
  BY <1>1, NumelAssumption DEF TreeInv, TreeControl, Elem
<1>4. PICK p \in Rank :
        /\ p = RecvPeer(r)
        /\ \/ phase[r] = "reduce" /\ Parent(r, m) /\ Child(p, m) /\ p = r + m
           \/ phase[r] = "bcast" /\ Child(r, m) /\ Parent(p, m) /\ p = r - m
  BY <1>1, <1>2, TreePeers, ParentOfChild, Zenon
<1>5. /\ o \in Nat /\ m \in Nat /\ m >= 1 /\ r \in Int /\ p \in Int
      /\ \A k \in Masks : k \in Nat /\ k >= 1
      /\ \A q \in Rank : q \in Int
  BY MaskFacts, WorldAssumption DEF Rank, Elem
<1>6. ~(Child(r, m) /\ Parent(r, m))
  BY ChildOrParent, Zenon
<1>7. OneDrop(wire', wire, p, r)
  BY <1>1, <1>4, TreeDropOne, Zenon DEF TreeInv, TreeControl
<1>8. /\ wire' \in Wires /\ wire'[p][r] = Tail(wire[p][r]) /\ wire[p][r] # <<>>
      /\ \A a, b \in Rank : a # p \/ b # r => wire'[a][b] = wire[a][b]
  BY <1>1, <1>4, <1>7, Zenon DEF OneDrop
<1>9. \A q \in Rank : \A k \in Masks :
        /\ Up(q, k)' = IF q = r /\ phase[r] = "reduce" /\ m = k THEN o + 1 ELSE Up(q, k)
        /\ Down(q, k)' = IF q = r /\ phase[r] = "bcast" /\ m = k THEN o + 1 ELSE Down(q, k)
  <2>1. \A q \in Rank : \A k \in Masks :
          /\ Up(q, k)' = IF q = r /\ phase[r] = "reduce" /\ mask[r] = k
                         THEN pos[r] + 1 ELSE Up(q, k)
          /\ Down(q, k)' = IF q = r /\ phase[r] = "bcast" /\ mask[r] = k
                           THEN pos[r] + 1 ELSE Down(q, k)
    BY <1>1, OneMoved, Zenon
  <2> QED BY <1>2, <1>3, <2>1
<1>10. ASSUME phase[r] = "reduce"
       PROVE  /\ Head(wire[p][r]) = SubSum(p, m, o)
              /\ Carries(wire'[p][r], UpStream(p, m), Up(p, m), o + 1)
  <2>1. Child(p, m) /\ p - m = r
    BY <1>4, <1>5, <1>10
  <2>2. Carries(wire[p][p - m], UpStream(p, m), Up(p, m), Up(p - m, m))
    BY <2>1, Zenon DEF TreeInv, TreeStreams
  <2>3. Up(r, m) = o /\ Up(p, m) \in Nat
    BY <1>2, <1>3, <1>10, Positions, NumelAssumption DEF Up
  <2>4. Carries(wire[p][r], UpStream(p, m), Up(p, m), o)
    BY <2>1, <2>2, <2>3, Zenon
  <2>5. /\ Head(wire[p][r]) = UpStream(p, m)[o]
        /\ Carries(Tail(wire[p][r]), UpStream(p, m), Up(p, m), o + 1)
    <3>1. o \in Nat /\ wire[p][r] # <<>>
      BY <1>5, <1>8, Zenon
    <3> QED BY <2>3, <2>4, <3>1, TreeCarriesTake, Zenon
  <2> QED BY <1>5, <1>8, <2>5, Zenon DEF UpStream
<1>11. ASSUME phase[r] = "bcast"
       PROVE  /\ Head(wire[p][r]) = Complete(o, 0) /\ Down(p, m) > 0
              /\ Carries(wire'[p][r], DownStream, Down(p, m), o + 1)
  <2>1. Child(r, m) /\ r - m = p
    BY <1>4, <1>5, <1>11, Zenon
  <2>2. Carries(wire[r - m][r], DownStream, Down(r - m, m), Down(r, m))
    BY <2>1, Zenon DEF TreeInv, TreeStreams
  <2>3. Down(r, m) = o /\ Down(p, m) \in Nat
    BY <1>2, <1>3, <1>11, Positions, NumelAssumption DEF Down
  <2>4. Carries(wire[p][r], DownStream, Down(p, m), o)
    BY <2>1, <2>2, <2>3, Zenon
  <2>5. /\ Head(wire[p][r]) = DownStream[o] /\ o < Down(p, m)
        /\ Carries(Tail(wire[p][r]), DownStream, Down(p, m), o + 1)
    <3>1. o \in Nat /\ wire[p][r] # <<>>
      BY <1>5, <1>8, Zenon
    <3> QED BY <2>3, <2>4, <3>1, TreeCarriesTake, Zenon
  <2> QED BY <1>5, <1>8, <2>3, <2>5 DEF DownStream
<1>12. /\ phase[r] = "reduce" =>
            /\ t' = t /\ scratch' \in [Rank -> [Elem -> Value]]
            /\ \A q \in Rank : \A e \in Elem : scratch'[q][e] =
                 IF q = r /\ e = o THEN SubSum(p, m, o) ELSE scratch[q][e]
       /\ phase[r] # "reduce" =>
            /\ scratch' = scratch /\ t' \in [Rank -> [Elem -> Value]]
            /\ \A q \in Rank : \A e \in Elem : t'[q][e] =
                 IF q = r /\ e = o THEN Complete(o, 0) ELSE t[q][e]
            /\ \A q \in Rank : q # r => t'[q] = t[q]
  <2>1. 0 \in Rank /\ SubSum(p, m, o) \in Value /\ Complete(o, 0) \in Value
    BY SubSumType, TreeValueTypes, RootOnly, Zenon
  <2>2. t \in [Rank -> [Elem -> Value]] /\ scratch \in [Rank -> [Elem -> Value]]
    BY Zenon DEF TreeInv, TreeControl
  <2>3. CASE phase[r] = "reduce"
    <3>1. scratch' = [scratch EXCEPT ![r][o] = SubSum(p, m, o)] /\ t' = t
      BY <1>1, <1>3, <1>4, <1>10, <2>3, Zenon
    <3> QED BY <2>1, <2>2, <2>3, <3>1, OneElem
  <2>4. CASE phase[r] # "reduce"
    <3>1. t' = [t EXCEPT ![r][o] = Complete(o, 0)] /\ scratch' = scratch
      BY <1>1, <1>3, <1>4, <1>11, <2>4
    <3> QED BY <2>1, <2>2, <2>4, <3>1, OneElem
  <2> QED BY <2>3, <2>4, Zenon
<1>13. TreeControl'
  <2>1. pos' \in [Rank -> 0 .. Numel]
    <3>1. o + 1 \in 0 .. Numel
      BY NumelAssumption DEF Elem
    <3> QED BY <1>1, <1>3, <3>1, Zenon DEF TreeInv, TreeControl
  <2>2. \A q \in Rank : phase[q] = "idle" => pos'[q] = pos[q]
    BY <1>1, <1>4, Zenon DEF TreeInv, TreeControl
  <2>3. t' \in [Rank -> [Elem -> Value]] /\ scratch' \in [Rank -> [Elem -> Value]]
    BY <1>12, Zenon DEF TreeInv, TreeControl
  <2> QED BY <1>1, <1>8, <2>1, <2>2, <2>3 DEF TreeInv, TreeControl
<1>14. ASSUME NEW k \in Masks, NEW c \in Rank, Child(c, k)
       PROVE  Carries(wire'[c][c - k], UpStream(c, k), Up(c, k)', Up(c - k, k)')
  <2>1. c - k \in Rank /\ c - k # c
    BY <1>5, <1>14, ParentOfChild
  <2>2. Carries(wire[c][c - k], UpStream(c, k), Up(c, k), Up(c - k, k))
    BY <1>14, Zenon DEF TreeInv, TreeStreams
  <2>3. CASE phase[r] = "reduce" /\ c - k = r /\ k = m
    <3>1. p = c /\ Up(c, k)' = Up(c, k) /\ Up(c - k, k)' = o + 1
      BY <1>4, <1>5, <1>9, <2>1, <2>3
    <3> QED BY <1>10, <2>3, <3>1, Zenon
  <2>4. CASE ~(phase[r] = "reduce" /\ c - k = r /\ k = m)
    <3>1. ~(phase[r] = "reduce" /\ c = r /\ k = m)
      BY <1>4, <1>6, <1>14, Zenon
    <3>2. Up(c, k)' = Up(c, k) /\ Up(c - k, k)' = Up(c - k, k)
      BY <1>9, <2>1, <2>4, <3>1
    <3>3. c # p \/ c - k # r
      BY <1>4, <1>5, <2>4
    <3>4. wire'[c][c - k] = wire[c][c - k]
      BY <1>8, <2>1, <3>3, Zenon
    <3> QED BY <2>2, <3>2, <3>4, Zenon
  <2> QED BY <2>3, <2>4
<1>15. ASSUME NEW k \in Masks, NEW c \in Rank, Child(c, k)
       PROVE  Carries(wire'[c - k][c], DownStream, Down(c - k, k)', Down(c, k)')
  <2>1. c - k \in Rank /\ c - k # c /\ Parent(c - k, k)
    BY <1>5, <1>15, ParentOfChild
  <2>2. Carries(wire[c - k][c], DownStream, Down(c - k, k), Down(c, k))
    BY <1>15, Zenon DEF TreeInv, TreeStreams
  <2>3. CASE phase[r] = "bcast" /\ c = r /\ k = m
    <3>1. p = c - k /\ Down(c - k, k)' = Down(c - k, k) /\ Down(c, k)' = o + 1
      BY <1>4, <1>5, <1>9, <2>1, <2>3, Zenon
    <3> QED BY <1>11, <2>3, <3>1, Zenon
  <2>4. CASE ~(phase[r] = "bcast" /\ c = r /\ k = m)
    <3>1. ~(phase[r] = "bcast" /\ c - k = r /\ k = m)
      BY <1>4, <1>6, <2>1, Zenon
    <3>2. Down(c, k)' = Down(c, k) /\ Down(c - k, k)' = Down(c - k, k)
      BY <1>9, <2>1, <2>4, <3>1
    <3>3. c - k # p \/ c # r
      BY <1>4, <1>5, <2>4
    <3>4. wire'[c - k][c] = wire[c - k][c]
      BY <1>8, <2>1, <3>3, Zenon
    <3> QED BY <2>2, <3>2, <3>4, Zenon
  <2> QED BY <2>3, <2>4, Zenon
<1>16. TreeStreams'
  <2>1. \/ Child(p, m) /\ r = p - m
        \/ Child(r, m) /\ p = r - m
    BY <1>4, <1>5
  <2>2. \A a, b \in Rank :
          \/ \E k \in Masks : \/ Child(a, k) /\ b = a - k
                              \/ Child(b, k) /\ a = b - k
          \/ wire'[a][b] = <<>>
    BY <1>8, <2>1 DEF TreeInv, TreeStreams
  <2> QED BY <1>14, <1>15, <2>2, Zenon DEF TreeStreams
<1>17. TreeTensors'
  <2>1. CASE phase[r] = "reduce"
    <3>1. t' = t /\ \A q \in Rank : \A k \in Masks : Down(q, k)' = Down(q, k)
      BY <1>9, <1>12, <2>1, Zenon
    <3> QED BY <1>1, <3>1, TensorStays, Zenon DEF TreeTensors
  <2>2. CASE phase[r] = "bcast"
    <3>1. ASSUME NEW q \in Rank
          PROVE  /\ phase[q] \in {"idle", "reduce"} =>
                      \A e \in Elem : t'[q][e] = SubSum(q, mask[q], e)
                 /\ phase[q] = "bcast" /\ q = 0 => \A e \in Elem : t'[q][e] = Complete(e, 0)
                 /\ phase[q] = "done" => t'[q] = TreeResult
      BY <1>12, <2>2 DEF TreeInv, TreeTensors, TensorOf
    <3>2. ASSUME NEW q \in Rank, phase[q] = "bcast", NEW k \in Masks, Child(q, k),
                 NEW e \in Elem
          PROVE  t'[q][e] = IF e < Down(q, k)' THEN Complete(e, 0) ELSE SubSum(q, k, e)
      <4>1. t[q][e] = IF e < Down(q, k) THEN Complete(e, 0) ELSE SubSum(q, k, e)
        BY <3>2 DEF TreeInv, TreeTensors, TensorOf
      <4>2. CASE q = r
        <5>1. k = m
          BY <1>4, <2>2, <3>2, <4>2, ChildOnce
        <5>2. Down(q, k) = o /\ Down(q, k)' = o + 1
          BY <1>2, <1>3, <1>9, <2>2, <4>2, <5>1, Zenon DEF Down
        <5>3. e \in Int /\ (e < o + 1 <=> e < o \/ e = o)
          BY <1>5 DEF Elem
        <5>4. t'[q][e] = IF e = o THEN Complete(o, 0) ELSE t[q][e]
          BY <1>12, <2>2, <4>2, Zenon
        <5> QED BY <4>1, <5>2, <5>3, <5>4, Zenon
      <4>3. CASE q # r
        BY <1>9, <1>12, <2>2, <4>1, <4>3, Zenon
      <4> QED BY <4>2, <4>3, Zenon
    <3> QED BY <1>1, <3>1, <3>2, Zenon DEF TreeTensors, TensorOf
  <2> QED BY <1>4, <2>1, <2>2, Zenon
<1>18. TreeScratch'
  <2> SUFFICES ASSUME NEW q \in Rank, phase[q] = "reduce", Parent(q, mask[q]),
                      q + mask[q] < World, NEW i \in 0 .. pos'[q] - 1
               PROVE  scratch'[q][i] = SubSum(q + mask[q], mask[q], i)
    BY <1>1, Zenon DEF TreeScratch
  <2>1. i \in 0 .. pos[q] - 1 => scratch[q][i] = SubSum(q + mask[q], mask[q], i)
    BY Zenon DEF TreeInv, TreeScratch
  <2>2. CASE q # r
    <3>1. pos'[q] = pos[q] /\ pos[q] \in 0 .. Numel
      BY <1>1, <2>2, Zenon DEF TreeInv, TreeControl
    <3>2. i \in Elem
      BY <3>1, NumelAssumption DEF Elem
    <3> QED BY <1>12, <2>1, <2>2, <3>1, <3>2, Zenon
  <2>3. CASE q = r
    <3>1. pos'[q] = o + 1
      BY <1>1, <1>3, <2>3 DEF TreeInv, TreeControl
    <3>2. i \in Elem /\ (i = o \/ i \in 0 .. pos[q] - 1)
      BY <1>3, <2>3, <3>1, NumelAssumption DEF Elem
    <3>3. p = q + mask[q] /\ m = mask[q]
      BY <1>2, <1>4, <2>3, Zenon
    <3> QED BY <1>12, <2>1, <2>3, <3>2, <3>3, Zenon
  <2> QED BY <2>2, <2>3, Zenon
<1>19. TreeCalled'
  <2>1. phase[r] = "bcast" => Called(0, World)
    BY <1>4, <1>11, HasResult, Zenon
  <2>2. ASSUME NEW q \in Rank, NEW k \in Masks, Child(q, k), Down(q, k)' > 0
        PROVE  Called(0, World)
    BY <1>9, <2>1, <2>2, Zenon DEF TreeInv, TreeCalled
  <2> QED BY <1>1, <2>2 DEF TreeInv, TreeCalled, Called
<1> QED BY <1>13, <1>16, <1>17, <1>18, <1>19, Zenon DEF TreeInv

\* Rank r has a transfer with mask m.
Moves(r, m) == Child(r, m) \/ (Parent(r, m) /\ r + m < World)

\* A transfer that has ended has moved the whole tensor.
LEMMA TransferEnd ==
  ASSUME TreeInv, NEW r \in Rank, NEW m \in Masks, m = mask[r],
         phase[r] \in {"reduce", "bcast"}, TransferDone(r), Moves(r, m)
  PROVE  pos[r] = Numel
<1>1. Child(r, m) => r - m \in Rank
  BY ParentOfChild, Zenon
<1>2. Parent(r, m) /\ r + m < World => r + m \in Rank
  BY ParentOfChild, Zenon
<1>3. \A q \in Rank : q # NoPeer
  BY WorldAssumption DEF Rank, NoPeer
<1>4. SendPeer(r) # NoPeer \/ RecvPeer(r) # NoPeer
  BY <1>1, <1>2, <1>3, TreePeers, Zenon DEF Moves
<1> QED BY <1>4, Zenon DEF TransferDone

\* A step between two transfers leaves the streams as they are.
LEMMA StreamsStay ==
  ASSUME TreeInv, wire' = wire,
         \A q \in Rank : \A k \in Masks : Moves(q, k) =>
           Up(q, k)' = Up(q, k) /\ Down(q, k)' = Down(q, k)
  PROVE  TreeStreams'
<1>1. ASSUME NEW k \in Masks, NEW c \in Rank, Child(c, k)
      PROVE  /\ Up(c, k)' = Up(c, k) /\ Down(c, k)' = Down(c, k)
             /\ Up(c - k, k)' = Up(c - k, k) /\ Down(c - k, k)' = Down(c - k, k)
  <2>1. c - k \in Rank /\ Parent(c - k, k)
    BY <1>1, ParentOfChild, Zenon
  <2>2. (c - k) + k < World
    BY MaskFacts, WorldAssumption DEF Rank
  <2>3. Moves(c, k) /\ Moves(c - k, k)
    BY <1>1, <2>1, <2>2, Zenon DEF Moves
  <2> QED BY <2>1, <2>3, Zenon
<1> QED BY <1>1, Zenon DEF TreeInv, TreeStreams

\* Of two masks, the larger is at least twice the smaller.
LEMMA MaskGap ==
  ASSUME NEW x \in Masks, NEW y \in Masks, x < y
  PROVE  2 * x <= y
<1>1. x \in Nat
  BY MaskFacts, Zenon
<1>2. PICK k \in Nat \ {0} : y = (2 * x) * k
  BY MaskOrder, Zenon
<1>3. (2 * x) * 1 <= (2 * x) * k
  BY <1>1, TreeProduct
<1> QED BY <1>1, <1>2, <1>3

\* A rank that has sent its sum up leaves the first loop: the invariant is
\* kept.
LEMMA ChildLeaves ==
  ASSUME HasTop, TreeInv, NEW r \in Rank, NEW m \in Masks, m = mask[r], EndReduce(r),
         Child(r, m)
  PROVE  TreeInv'
<1>1. /\ phase[r] = "reduce" /\ TransferDone(r)
      /\ LeavesReduce(r) /\ RecvPeer(r) = NoPeer
  <2>1. phase[r] = "reduce" /\ TransferDone(r) /\ ~Parent(r, m)
    BY ChildOrParent, Zenon DEF EndReduce
  <2> QED BY <2>1, TreePeers, Zenon
<1>2. /\ t' = [t EXCEPT ![r] = t[r]] /\ phase' = [phase EXCEPT ![r] = "bcast"]
      /\ mask' = [mask EXCEPT ![r] = TopMask] /\ pos' = [pos EXCEPT ![r] = 0]
      /\ UNCHANGED <<scratch, wire>>
  BY <1>1, Zenon DEF EndReduce
<1>3. /\ t' = t
      /\ \A q \in Rank : /\ phase'[q] = IF q = r THEN "bcast" ELSE phase[q]
                         /\ mask'[q] = IF q = r THEN TopMask ELSE mask[q]
                         /\ pos'[q] = IF q = r THEN 0 ELSE pos[q]
      /\ phase' \in [Rank -> {"idle", "reduce", "bcast", "done"}]
      /\ mask' \in [Rank -> Masks] /\ pos' \in [Rank -> 0 .. Numel]
  BY <1>2, TopFacts, NumelAssumption DEF TreeInv, TreeControl
<1>4. pos[r] = Numel /\ r # 0 /\ \A k \in Masks : (Child(r, k) => k = m) /\ (Parent(r, k) => k < m)
  BY <1>1, TransferEnd, ChildOnce, Zenon DEF Moves
<1>5. Numel \in Nat /\ TopMask \in Nat /\ \A k \in Masks : k \in Nat /\ k <= TopMask
  BY NumelAssumption, MaskFacts, TopFacts, Zenon
<1>6. \A q \in Rank : \A k \in Masks :
        /\ Down(q, k)' = Down(q, k)
        /\ q # r => Up(q, k)' = Up(q, k)
  BY <1>1, <1>3, <1>5 DEF Up, Down
<1>7. \A k \in Masks : Moves(r, k) => Up(r, k)' = Up(r, k)
  BY <1>1, <1>3, <1>4, <1>5 DEF Up, Moves
<1>8. TreeControl'
  BY <1>2, <1>3 DEF TreeInv, TreeControl
<1>9. TreeStreams'
  BY <1>2, <1>6, <1>7, StreamsStay, Zenon
<1>10. TreeTensors'
  <2>1. ASSUME NEW k \in Masks, Child(r, k), NEW e \in Elem
        PROVE  t[r][e] = IF e < Down(r, k)' THEN Complete(e, 0) ELSE SubSum(r, k, e)
    <3>1. k = m /\ Down(r, k) = 0
      BY <1>1, <1>4, <2>1, Zenon DEF Down
    <3>2. ~(e < Down(r, k)')
      BY <1>6, <3>1 DEF Elem
    <3> QED BY <1>1, <3>1, <3>2, Zenon DEF TreeInv, TreeTensors, TensorOf
  <2>2. TensorOf(r)'
    BY <1>3, <1>4, <2>1, Zenon DEF TensorOf
  <2>3. ASSUME NEW q \in Rank, q # r PROVE TensorOf(q)'
    BY <1>3, <1>6, <2>3, TensorStays, Zenon
  <2> QED BY <2>2, <2>3, Zenon DEF TreeTensors
<1>11. TreeScratch'
  BY <1>2, <1>3 DEF TreeInv, TreeScratch
<1>12. TreeCalled'
  <2>1. \A q \in Rank : phase'[q] # "idle" <=> phase[q] # "idle"
    BY <1>1, <1>3, Zenon
  <2>2. Called(r, m)
    BY <1>1, Zenon DEF TreeInv, TreeCalled
  <2>3. ASSUME NEW q \in Rank, phase'[q] = "reduce" PROVE Called(q, mask[q])'
    BY <1>3, <2>1, <2>3 DEF TreeInv, TreeCalled, Called
  <2>4. ASSUME NEW q \in Rank, phase'[q] \in {"bcast", "done"}, q = 0 PROVE Called(0, World)'
    BY <1>3, <1>4, <2>1, <2>4, Zenon DEF TreeInv, TreeCalled, Called
  <2>5. ASSUME NEW q \in Rank, NEW k \in Masks, Child(q, k), phase'[q] \in {"bcast", "done"}
        PROVE  Called(q, k)'
    <3>1. Called(q, k)
      BY <1>3, <1>4, <2>2, <2>5, Zenon DEF TreeInv, TreeCalled
    <3> QED BY <2>1, <3>1, Zenon DEF Called
  <2>6. ASSUME NEW q \in Rank, NEW k \in Masks, Child(q, k), Down(q, k)' > 0
        PROVE  Called(0, World)'
    <3>1. Called(0, World)
      BY <1>6, <2>6, Zenon DEF TreeInv, TreeCalled
    <3> QED BY <2>1, <3>1, Zenon DEF Called
  <2> QED BY <2>3, <2>4, <2>5, <2>6, Zenon DEF TreeCalled
<1> QED BY <1>8, <1>9, <1>10, <1>11, <1>12, Zenon DEF TreeInv

\* A parent ends its iteration with the sum, and the calls, of twice as
\* many ranks.
LEMMA ParentSum ==
  ASSUME TreeInv, NEW r \in Rank, NEW m \in Masks, m = mask[r], EndReduce(r),
         Parent(r, m)
  PROVE  /\ t' \in [Rank -> [Elem -> Value]]
         /\ \A q \in Rank : q # r => t'[q] = t[q]
         /\ \A e \in Elem : t'[r][e] = SubSum(r, 2 * m, e)
         /\ Called(r, 2 * m)
<1>1. /\ phase[r] = "reduce" /\ TransferDone(r)
      /\ RecvPeer(r) = IF r + m < World THEN r + m ELSE NoPeer
  BY TreePeers, Zenon DEF EndReduce
<1>2. /\ m \in Nat /\ World \in Nat /\ Numel \in Nat /\ Numel > 0
      /\ \A q \in Rank : q \in Nat /\ q < World
  BY MaskFacts, WorldAssumption, NumelAssumption DEF Rank
<1>3. /\ \A e \in Elem : t[r][e] = SubSum(r, m, e)
      /\ Called(r, m) /\ t \in [Rank -> [Elem -> Value]]
  BY <1>1, Zenon DEF TreeInv, TreeControl, TreeTensors, TensorOf, TreeCalled
<1>4. \A e \in Elem : SubSum(r, 2 * m, e) \in Value
  BY SubSumType, Zenon
<1>5. CASE r + m < World
  <2>1. PICK c \in Rank : c = r + m /\ Child(c, m)
    BY <1>5, ParentOfChild, Zenon
  <2>2. RecvPeer(r) # NoPeer /\ pos[r] = Numel
    BY <1>1, <1>2, <1>5, TransferEnd DEF Moves, NoPeer
  <2>3. \A e \in Elem : scratch[r][e] = SubSum(r + m, m, e)
    <3>1. \A e \in Elem : e \in 0 .. pos[r] - 1
      BY <2>2, Zenon DEF Elem
    <3> QED BY <1>1, <1>5, <3>1, Zenon DEF TreeInv, TreeScratch
  <2>4. PICK f : f = [e \in Elem |-> ReduceInto(r, t[r][e], scratch[r][e])]
    BY Zenon
  <2>5. \A e \in Elem : f[e] = SubSum(r, 2 * m, e)
    BY <1>3, <2>3, <2>4, SubSumAdds
  <2>6. f \in [Elem -> Value]
    BY <1>4, <2>4, <2>5, Zenon
  <2>7. t' = [t EXCEPT ![r] = f]
    BY <2>2, <2>4, Zenon DEF EndReduce
  <2>8. Called(c, m)
    <3>1. c - m = r /\ Up(r, m) = Numel
      BY <1>1, <1>2, <2>1, <2>2 DEF Up
    <3>2. Carries(wire[c][c - m], UpStream(c, m), Up(c, m), Up(c - m, m))
      BY <2>1, Zenon DEF TreeInv, TreeStreams
    <3>3. Len(wire[c][r]) = Up(c, m) - Numel /\ Len(wire[c][r]) \in Nat
      BY <3>1, <3>2 DEF Carries
    <3>4. Up(c, m) > 0
      BY <1>2, <3>3, Positions
    <3>5. mask[c] \in Masks /\ (phase[c] = "reduce" => Aligned(c, mask[c]))
      BY Zenon DEF TreeInv, TreeControl
    <3>8. /\ phase[c] \in {"reduce", "bcast", "done"}
          /\ phase[c] = "reduce" => ~(mask[c] < m)
      BY <1>2, <3>4, <3>5, MaskFacts DEF Up, TreeInv, TreeControl
    <3>6. phase[c] = "reduce" => mask[c] <= m
      BY <2>1, <3>5, ChildOnce, Zenon
    <3>9. mask[c] \in Nat
      BY <3>5, MaskFacts, Zenon
    <3>7. phase[c] = "reduce" => mask[c] = m
      BY <1>2, <3>6, <3>8, <3>9
    <3> QED BY <2>1, <3>7, <3>8, Zenon DEF TreeInv, TreeCalled
  <2>9. Called(r, 2 * m)
    <3>1. \A q \in Rank : r <= q /\ q < r + 2 * m =>
            (r <= q /\ q < r + m) \/ (c <= q /\ q < c + m)
      BY <1>2, <2>1
    <3> QED BY <1>3, <2>8, <3>1, Zenon DEF Called
  <2> QED BY <1>3, <2>5, <2>6, <2>7, <2>9, Zenon
<1>6. CASE r + m >= World
  <2>0. RecvPeer(r) = NoPeer
    BY <1>1, <1>2, <1>6
  <2>1. t' = [t EXCEPT ![r] = t[r]]
    BY <2>0, Zenon DEF EndReduce
  <2>2. t' = t
    BY <1>3, <2>1, Zenon
  <2>3. Called(r, 2 * m)
    <3>1. \A q \in Rank : q < r + m
      BY <1>2, <1>6
    <3> QED BY <1>3, <3>1, Zenon DEF Called
  <2> QED BY <1>3, <1>6, <2>2, <2>3, SubSumAdds, Zenon
<1> QED BY <1>2, <1>5, <1>6

\* A parent adds the sum of its child and goes on with the next mask: the
\* invariant is kept.
LEMMA ParentGoesOn ==
  ASSUME TreeInv, NEW r \in Rank, NEW m \in Masks, m = mask[r], EndReduce(r),
         Parent(r, m), 2 * m < World
  PROVE  TreeInv'
<1>1. /\ phase[r] = "reduce" /\ TransferDone(r) /\ ~LeavesReduce(r)
  <2>1. ~Child(r, m) /\ ~(2 * m >= World)
    BY ChildOrParent, MaskFacts, WorldAssumption
  <2> QED BY <2>1, TreePeers, Zenon DEF EndReduce
<1>2. /\ phase' = [phase EXCEPT ![r] = phase[r]]
      /\ mask' = [mask EXCEPT ![r] = 2 * mask[r]] /\ pos' = [pos EXCEPT ![r] = 0]
      /\ UNCHANGED <<scratch, wire>>
  BY <1>1, Zenon DEF EndReduce
<1>3. 2 * m \in Masks /\ m \in Nat /\ m >= 1 /\ Numel \in Nat /\ \A k \in Masks : k \in Nat
  BY MaskFacts, NumelAssumption, Zenon
<1>4. /\ phase' = phase
      /\ \A q \in Rank : /\ mask'[q] = IF q = r THEN 2 * m ELSE mask[q]
                         /\ pos'[q] = IF q = r THEN 0 ELSE pos[q]
      /\ mask' \in [Rank -> Masks] /\ pos' \in [Rank -> 0 .. Numel]
  BY <1>2, <1>3 DEF TreeInv, TreeControl
<1>5. /\ t' \in [Rank -> [Elem -> Value]]
      /\ \A q \in Rank : q # r => t'[q] = t[q]
      /\ \A e \in Elem : t'[r][e] = SubSum(r, 2 * m, e)
      /\ Called(r, 2 * m)
  BY ParentSum, Zenon
<1>6. \A q \in Rank : \A k \in Masks :
        /\ Down(q, k)' = Down(q, k)
        /\ q # r => Up(q, k)' = Up(q, k)
  BY <1>1, <1>4 DEF Up, Down
<1>7. ASSUME NEW k \in Masks, Moves(r, k) PROVE Up(r, k)' = Up(r, k)
  <2>1. k = m => pos[r] = Numel
    BY <1>1, <1>7, TransferEnd, Zenon
  <2>2. m < k => 2 * m <= k
    BY MaskGap, Zenon
  <2>3. phase'[r] = "reduce" /\ mask'[r] = 2 * m /\ pos'[r] = 0
    BY <1>1, <1>4, Zenon
  <2>4. k \in Nat /\ (k = m \/ k < m \/ k = 2 * m \/ 2 * m < k)
    BY <1>3, <2>2
  <2>5. CASE k = m \/ k < m
    <3>1. mask'[r] # k /\ ~(mask'[r] < k) /\ ~(m < k)
      BY <1>3, <2>3, <2>4, <2>5
    <3> QED BY <1>1, <2>1, <2>3, <2>5, <3>1, Zenon DEF Up
  <2>6. CASE k = 2 * m \/ 2 * m < k
    <3>1. m # k /\ m < k /\ (mask'[r] = k \/ mask'[r] < k)
      BY <1>3, <2>3, <2>4, <2>6
    <3> QED BY <1>1, <2>3, <3>1, Zenon DEF Up
  <2> QED BY <2>4, <2>5, <2>6, Zenon
<1>8. TreeControl'
  <2>1. Aligned(r, 2 * m)
    BY NextMask, Zenon
  <2>2. \A q \in Rank :
          /\ phase'[q] = "idle" => mask'[q] = 1 /\ pos'[q] = 0
          /\ phase'[q] \in {"idle", "reduce"} => Aligned(q, mask'[q])
          /\ phase'[q] \in {"bcast", "done"} /\ q # 0 => \E k \in Masks : Child(q, k)
    BY <1>1, <1>4, <2>1, Zenon DEF TreeInv, TreeControl
  <2> QED BY <1>2, <1>4, <1>5, <2>2, Zenon DEF TreeInv, TreeControl
<1>9. TreeStreams'
  BY <1>2, <1>6, <1>7, StreamsStay
<1>10. TreeTensors'
  <2>1. ASSUME NEW q \in Rank, q # r PROVE TensorOf(q)'
    BY <1>4, <1>5, <1>6, <2>1, TensorStays, Zenon
  <2>2. TensorOf(r)'
    BY <1>1, <1>4, <1>5, Zenon DEF TensorOf
  <2> QED BY <2>1, <2>2, Zenon DEF TreeTensors
<1>11. TreeScratch'
  <2> SUFFICES ASSUME NEW q \in Rank, phase'[q] = "reduce", Parent(q, mask'[q]),
                      q + mask'[q] < World, NEW o \in 0 .. pos'[q] - 1
               PROVE  scratch[q][o] = SubSum(q + mask'[q], mask'[q], o)
    BY <1>2, Zenon DEF TreeScratch
  <2>1. 0 .. 0 - 1 = {}
    OBVIOUS
  <2>2. q # r
    BY <1>4, <2>1, Zenon
  <2>3. phase'[q] = phase[q] /\ mask'[q] = mask[q] /\ pos'[q] = pos[q]
    BY <1>4, <2>2, Zenon
  <2> QED BY <2>3, Zenon DEF TreeInv, TreeScratch
<1>12. TreeCalled'
  BY <1>1, <1>4, <1>5, <1>6 DEF TreeInv, TreeCalled, Called
<1> QED BY <1>8, <1>9, <1>10, <1>11, <1>12, Zenon DEF TreeInv

\* Rank 0 leaves the first loop with the sum of all tensors: the invariant is
\* kept.
LEMMA RootLeaves ==
  ASSUME HasTop, TreeInv, NEW r \in Rank, NEW m \in Masks, m = mask[r], EndReduce(r),
         Parent(r, m), 2 * m >= World
  PROVE  TreeInv'
<1>1. /\ phase[r] = "reduce" /\ TransferDone(r) /\ LeavesReduce(r) /\ r = 0
  BY TreePeers, RootOnly, Zenon DEF EndReduce
<1>2. /\ phase' = [phase EXCEPT ![r] = "bcast"]
      /\ mask' = [mask EXCEPT ![r] = TopMask] /\ pos' = [pos EXCEPT ![r] = 0]
      /\ UNCHANGED <<scratch, wire>>
  BY <1>1, Zenon DEF EndReduce
<1>3. /\ m \in Nat /\ Numel \in Nat /\ World \in Nat /\ TopMask \in Nat
      /\ \A k \in Masks : k \in Nat /\ k < World /\ k <= TopMask
  BY MaskFacts, NumelAssumption, TopFacts, WorldAssumption, Zenon
<1>4. /\ \A q \in Rank : /\ phase'[q] = IF q = r THEN "bcast" ELSE phase[q]
                         /\ mask'[q] = IF q = r THEN TopMask ELSE mask[q]
                         /\ pos'[q] = IF q = r THEN 0 ELSE pos[q]
      /\ phase' \in [Rank -> {"idle", "reduce", "bcast", "done"}]
      /\ mask' \in [Rank -> Masks] /\ pos' \in [Rank -> 0 .. Numel]
  BY <1>2, <1>3, TopFacts DEF TreeInv, TreeControl
<1>5. /\ t' \in [Rank -> [Elem -> Value]]
      /\ \A q \in Rank : q # r => t'[q] = t[q]
      /\ \A e \in Elem : t'[r][e] = Complete(e, 0)
      /\ Called(0, World)
  <2>1. 2 * m \in Nat /\ \A e \in Elem : SubSum(0, 2 * m, e) = Complete(e, 0)
    BY <1>3, SubSumAll
  <2>2. Called(0, 2 * m) => Called(0, World)
    BY <1>3 DEF Called, Rank
  <2> QED BY <1>1, <2>1, <2>2, ParentSum, Zenon
<1>6. \A q \in Rank : \A k \in Masks :
        /\ Down(q, k)' = Down(q, k)
        /\ q # r => Up(q, k)' = Up(q, k)
  BY <1>1, <1>3, <1>4 DEF Up, Down
<1>7. ASSUME NEW k \in Masks, Moves(r, k) PROVE Up(r, k)' = Up(r, k)
  <2>1. k = m => pos[r] = Numel
    BY <1>1, <1>7, TransferEnd, Zenon
  <2>2. ~(m < k)
    BY <1>3, MaskGap
  <2>3. phase'[r] = "bcast"
    BY <1>1, <1>4, Zenon
  <2>4. Up(r, k)' = Numel
    BY <2>3, Zenon DEF Up
  <2>5. Up(r, k) = Numel
    BY <1>1, <2>1, <2>2, Zenon DEF Up
  <2> QED BY <2>4, <2>5, Zenon
<1>8. \A k \in Masks : ~Child(r, k)
  BY <1>1, ChildOnce, Zenon
<1>9. TreeControl'
  BY <1>1, <1>2, <1>4, <1>5, Zenon DEF TreeInv, TreeControl
<1>10. TreeStreams'
  BY <1>2, <1>6, <1>7, StreamsStay, Zenon
<1>11. TreeTensors'
  <2>1. ASSUME NEW q \in Rank, q # r PROVE TensorOf(q)'
    BY <1>4, <1>5, <1>6, <2>1, TensorStays, Zenon
  <2>2. TensorOf(r)'
    BY <1>4, <1>5, <1>8, Zenon DEF TensorOf
  <2> QED BY <2>1, <2>2, Zenon DEF TreeTensors
<1>12. TreeScratch'
  BY <1>2, <1>4 DEF TreeInv, TreeScratch
<1>13. TreeCalled'
  <2>1. \A q \in Rank : phase'[q] # "idle"
    <3>1. \A q \in Rank : phase[q] # "idle"
      BY <1>3, <1>5 DEF Called, Rank
    <3> QED BY <1>4, <3>1, Zenon
  <2> QED BY <2>1, Zenon DEF TreeCalled, Called
<1> QED BY <1>9, <1>10, <1>11, <1>12, <1>13, Zenon DEF TreeInv

\* The end of an iteration of the first loop keeps the invariant.
LEMMA EndReduceStep ==
  ASSUME HasTop, TreeInv, NEW r \in Rank, EndReduce(r)
  PROVE  TreeInv'
<1>1. PICK m \in Masks : m = mask[r]
  BY Zenon DEF TreeInv, TreeControl
<1>2. Child(r, m) \/ Parent(r, m)
  BY <1>1, TreePeers, Zenon DEF EndReduce
<1>3. 2 * m < World \/ 2 * m >= World
  BY MaskFacts, WorldAssumption
<1> QED BY <1>1, <1>2, <1>3, ChildLeaves, ParentGoesOn, RootLeaves, Zenon

\* The end of an iteration of the second loop keeps the invariant.
LEMMA LowerMask ==
  ASSUME TreeInv, NEW r \in Rank, EndBcast(r), mask[r] > 1
  PROVE  TreeInv'
<1>1. /\ phase[r] = "bcast" /\ TransferDone(r)
      /\ mask' = [mask EXCEPT ![r] = mask[r] \div 2] /\ pos' = [pos EXCEPT ![r] = 0]
      /\ UNCHANGED <<phase, t, scratch, wire>>
  BY Zenon DEF EndBcast
<1>2. PICK m \in Masks : m = mask[r]
  BY Zenon DEF TreeInv, TreeControl
<1>3. PICK h \in Masks : m = 2 * h
  BY <1>2, MaskHalf
<1>4. /\ h \in Nat /\ h >= 1 /\ m \in Nat /\ m \div 2 = h /\ Numel \in Nat
      /\ \A k \in Masks : k \in Nat
  BY <1>3, MaskFacts, NumelAssumption
<1>5. /\ \A q \in Rank : /\ mask'[q] = IF q = r THEN h ELSE mask[q]
                         /\ pos'[q] = IF q = r THEN 0 ELSE pos[q]
      /\ mask' \in [Rank -> Masks] /\ pos' \in [Rank -> 0 .. Numel]
  BY <1>1, <1>2, <1>4 DEF TreeInv, TreeControl
<1>6. \A q \in Rank : \A k \in Masks :
        /\ Up(q, k)' = Up(q, k)
        /\ q # r => Down(q, k)' = Down(q, k)
  BY <1>1, <1>5 DEF Up, Down
<1>7. ASSUME NEW k \in Masks, Moves(r, k) PROVE Down(r, k)' = Down(r, k)
  <2>1. k = m => pos[r] = Numel
    BY <1>1, <1>2, <1>7, TransferEnd, Zenon
  <2>2. h < k => 2 * h <= k
    BY MaskGap, Zenon
  <2>3. phase'[r] = "bcast" /\ mask'[r] = h /\ pos'[r] = 0
    BY <1>1, <1>5, Zenon
  <2>4. k \in Nat /\ (k = h \/ k < h \/ k = m \/ m < k)
    BY <1>3, <1>4, <2>2
  <2>5. CASE k = h \/ k < h
    <3>1. m # k /\ ~(m < k) /\ ~(h < k)
      BY <1>3, <1>4, <2>4, <2>5
    <3> QED BY <1>1, <1>2, <2>3, <2>5, <3>1, Zenon DEF Down
  <2>6. CASE k = m \/ m < k
    <3>1. h # k /\ h < k
      BY <1>3, <1>4, <2>4, <2>6
    <3> QED BY <1>1, <1>2, <2>1, <2>3, <2>6, <3>1, Zenon DEF Down
  <2> QED BY <2>4, <2>5, <2>6, Zenon
<1>8. \A q \in Rank : \A k \in Masks : Child(q, k) => Down(q, k)' = Down(q, k)
  BY <1>6, <1>7, Zenon DEF Moves
<1>9. TreeControl'
  BY <1>1, <1>5, Zenon DEF TreeInv, TreeControl
<1>10. TreeStreams'
  BY <1>1, <1>6, <1>7, StreamsStay, Zenon
<1>11. TreeTensors'
  <2>1. ASSUME NEW q \in Rank PROVE TensorOf(q)'
    BY <1>1, <1>5, <1>8, TensorStays, Zenon
  <2> QED BY <2>1, Zenon DEF TreeTensors
<1>12. TreeScratch'
  BY <1>1, <1>5, Zenon DEF TreeInv, TreeScratch
<1>13. TreeCalled'
  BY <1>1, <1>5, <1>8 DEF TreeInv, TreeCalled, Called
<1> QED BY <1>9, <1>10, <1>11, <1>12, <1>13 DEF TreeInv

\* The end of the call keeps the invariant: the tensor is the result, and all
\* ranks have entered the call.
LEMMA TreeReturn ==
  ASSUME TreeInv, NEW r \in Rank, EndBcast(r), ~(mask[r] > 1)
  PROVE  /\ TreeInv' /\ t'[r] = TreeResult
         /\ \A q \in Rank : phase[q] # "idle"
<1>1. /\ phase[r] = "bcast" /\ TransferDone(r)
      /\ phase' = [phase EXCEPT ![r] = "done"]
      /\ t' = [t EXCEPT ![r] = ScaleIfAvg(t[r])] /\ pos' = [pos EXCEPT ![r] = 0]
      /\ UNCHANGED <<mask, scratch, wire>>
  BY Zenon DEF EndBcast
<1>2. /\ mask[r] = 1 /\ 1 \in Masks /\ Numel \in Nat /\ Numel > 0
      /\ \A k \in Masks : k \in Nat /\ k >= 1
  BY MaskFacts, NumelAssumption DEF TreeInv, TreeControl
<1>3. /\ \A q \in Rank : /\ phase'[q] = IF q = r THEN "done" ELSE phase[q]
                         /\ pos'[q] = IF q = r THEN 0 ELSE pos[q]
      /\ phase' \in [Rank -> {"idle", "reduce", "bcast", "done"}]
      /\ pos' \in [Rank -> 0 .. Numel]
  BY <1>1, <1>2 DEF TreeInv, TreeControl
<1>4. \A q \in Rank : \A k \in Masks :
        /\ Up(q, k)' = Up(q, k)
        /\ q # r => Down(q, k)' = Down(q, k)
  BY <1>1, <1>3 DEF Up, Down
<1>5. ASSUME NEW k \in Masks, Moves(r, k)
      PROVE  Down(r, k)' = Numel /\ Down(r, k) = Numel
  <2>1. k = 1 => pos[r] = Numel
    BY <1>1, <1>2, <1>5, TransferEnd, Zenon
  <2>2. k = 1 \/ 1 < k
    BY <1>2
  <2> QED BY <1>1, <1>2, <1>3, <2>1, <2>2, Zenon DEF Down
<1>6. r = 0 \/ \E k \in Masks : Child(r, k)
  BY <1>1, Zenon DEF TreeInv, TreeControl
<1>7. ASSUME NEW e \in Elem PROVE t[r][e] = Complete(e, 0)
  <2>1. CASE r = 0
    BY <1>1, <2>1, Zenon DEF TreeInv, TreeTensors, TensorOf
  <2>2. ASSUME NEW k \in Masks, Child(r, k) PROVE t[r][e] = Complete(e, 0)
    <3>1. Down(r, k) = Numel
      BY <1>5, <2>2, Zenon DEF Moves
    <3>2. e < Down(r, k)
      BY <1>2, <3>1 DEF Elem
    <3> QED BY <1>1, <2>2, <3>2, Zenon DEF TreeInv, TreeTensors, TensorOf
  <2> QED BY <1>6, <2>1, <2>2, Zenon
<1>8. Called(0, World)
  <2>1. CASE r = 0
    BY <1>1, <2>1, Zenon DEF TreeInv, TreeCalled
  <2>2. ASSUME NEW k \in Masks, Child(r, k) PROVE Called(0, World)
    <3>1. Down(r, k) > 0
      BY <1>2, <1>5, <2>2, Zenon DEF Moves
    <3> QED BY <2>2, <3>1, Zenon DEF TreeInv, TreeCalled
  <2> QED BY <1>6, <2>1, <2>2, Zenon
<1>9. \A q \in Rank : phase[q] # "idle"
  BY <1>8, WorldAssumption DEF Called, Rank
<1>10. ScaleIfAvg(t[r]) = TreeResult
  <2>1. t[r] = [e \in Elem |-> t[r][e]]
    BY Zenon DEF TreeInv, TreeControl
  <2>2. PICK owner : owner = [e \in Elem |-> 0]
    BY Zenon
  <2>3. \A e \in Elem : t[r][e] = Complete(e, owner[e])
    BY <1>7, <2>2, Zenon
  <2>4. ScaleIfAvg(t[r]) = Reduction(owner)
    BY <2>1, <2>3, TreeScaled, Zenon
  <2> QED BY <2>2, <2>4, Zenon DEF TreeResult
<1>11. t'[r] = TreeResult /\ \A q \in Rank : q # r => t'[q] = t[q]
  BY <1>1, <1>10, Zenon DEF TreeInv, TreeControl
<1>12. TreeControl'
  <2>1. TreeResult \in [Elem -> Value]
    BY RootOnly, <1>2, Zenon DEF TreeResult, Reduction, Value
  <2>2. t' \in [Rank -> [Elem -> Value]]
    BY <1>1, <1>10, <2>1 DEF TreeInv, TreeControl
  <2> QED BY <1>1, <1>3, <2>2, Zenon DEF TreeInv, TreeControl
<1>13. TreeStreams'
  BY <1>1, <1>4, <1>5, StreamsStay, Zenon
<1>14. TreeTensors'
  <2>1. ASSUME NEW q \in Rank, q # r PROVE TensorOf(q)'
    BY <1>1, <1>3, <1>4, <1>11, <2>1, TensorStays, Zenon
  <2>2. TensorOf(r)'
    BY <1>3, <1>11, Zenon DEF TensorOf
  <2> QED BY <2>1, <2>2, Zenon DEF TreeTensors
<1>15. TreeScratch'
  BY <1>1, <1>3 DEF TreeInv, TreeScratch
<1>16. TreeCalled'
  BY <1>3, <1>9, Zenon DEF TreeCalled, Called
<1> QED BY <1>9, <1>11, <1>12, <1>13, <1>14, <1>15, <1>16, Zenon DEF TreeInv

\* The invariant holds before the call.
LEMMA TreeStart ==
  ASSUME TreeInit
  PROVE  TreeInv
<1>1. /\ phase = [r \in Rank |-> "idle"] /\ mask = [r \in Rank |-> 1]
      /\ pos = [r \in Rank |-> 0] /\ t = [r \in Rank |-> Input(r)]
      /\ scratch = [r \in Rank |-> [e \in Elem |-> Garbage]]
      /\ wire = [p \in Rank |-> [q \in Rank |-> <<>>]]
  BY Zenon DEF TreeInit, EmptyWire
<1>2. \A r \in Rank : phase[r] = "idle" /\ mask[r] = 1 /\ pos[r] = 0
  BY <1>1, Zenon
<1>3. 1 \in Masks /\ 0 \in Rank /\ 0 \in 0 .. Numel
  BY MaskFacts, WorldAssumption, NumelAssumption DEF Rank
<1>4. TreeControl
  <2>1. \A r \in Rank : \A e \in Elem : Input(r)[e] \in Value
    BY SubSumOne, SubSumType, Zenon
  <2>2. \A r \in Rank : Input(r) \in [Elem -> Value]
    BY <2>1, Zenon DEF Input
  <2>3. Garbage \in Value
    BY <1>3, Zenon DEF Garbage, Value
  <2>4. \A r \in Rank : Aligned(r, 1)
    BY WorldAssumption DEF Aligned, Rank
  <2>5. wire \in Wires
    BY <1>1 DEF Wires
  <2>6. t \in [Rank -> [Elem -> Value]] /\ scratch \in [Rank -> [Elem -> Value]]
    BY <1>1, <2>2, <2>3, Zenon
  <2> QED BY <1>1, <1>2, <1>3, <2>4, <2>5, <2>6, Zenon DEF TreeControl
<1>5. \A r \in Rank : \A m \in Masks : Up(r, m) = 0 /\ Down(r, m) = 0
  BY <1>2, Zenon DEF Up, Down
<1>6. TreeStreams
  <2>1. \A f : Carries(<<>>, f, 0, 0)
    BY DEF Carries
  <2>2. \A p, q \in Rank : wire[p][q] = <<>>
    BY <1>1, Zenon
  <2> QED BY <1>5, <2>1, <2>2, ParentOfChild, Zenon DEF TreeStreams
<1>7. TreeTensors
  BY <1>1, <1>2, SubSumOne, Zenon DEF TreeTensors, TensorOf
<1>8. TreeScratch
  BY <1>2, Zenon DEF TreeScratch
<1>9. TreeCalled
  BY <1>2, <1>5 DEF TreeCalled
<1> QED BY <1>4, <1>6, <1>7, <1>8, <1>9, Zenon DEF TreeInv

\* What the runs check of allreduce_tree follows from the invariant: what
\* comes down is the result.
LEMMA TreeSafe ==
  ASSUME TreeInv
  PROVE  TreeTypeOK /\ OnlyResultsComeDown
<1>1. TreeTypeOK
  BY Zenon DEF TreeInv, TreeControl, TreeTypeOK, Wires
<1>2. OnlyResultsComeDown
  <2> SUFFICES ASSUME NEW r \in Rank, phase[r] = "bcast", RecvPeer(r) # NoPeer,
                      NEW i \in 1 .. Len(wire[RecvPeer(r)][r])
               PROVE  wire[RecvPeer(r)][r][i].cnt = [q \in Rank |-> 1]
    BY Zenon DEF OnlyResultsComeDown
  <2>1. PICK m \in Masks : m = mask[r]
    BY Zenon DEF TreeInv, TreeControl
  <2>2. Child(r, m) /\ RecvPeer(r) = r - m
    BY <2>1, TreePeers, Zenon
  <2>3. PICK p \in Rank : p = r - m
    BY <2>2, ParentOfChild, Zenon
  <2>4. Carries(wire[p][r], DownStream, Down(p, m), Down(r, m))
    BY <2>2, <2>3, Zenon DEF TreeInv, TreeStreams
  <2>5. PICK n \in Nat : n = Down(r, m)
    BY Positions, NumelAssumption
  <2>6. i \in 1 .. Len(wire[p][r]) /\ Len(wire[p][r]) \in Nat
    BY <2>2, <2>3 DEF TreeInv, TreeControl, Wires
  <2>7. wire[p][r][i] = DownStream[n + i - 1]
    BY <2>4, <2>5, <2>6, Zenon DEF Carries
  <2>8. n + i - 1 \in Nat
    BY <2>6
  <2>9. wire[p][r][i] = Complete(n + i - 1, 0)
    BY <2>7, <2>8, Zenon DEF DownStream
  <2> QED BY <2>2, <2>3, <2>9 DEF Complete
<1> QED BY <1>1, <1>2, Zenon

\* When a rank has returned, nothing is left on the streams to it.
LEMMA TreeClean ==
  ASSUME TreeInv, NEW r \in Rank, phase[r] = "done", NEW p \in Rank
  PROVE  wire[p][r] = <<>>
<1>1. \A k \in Masks : Up(r, k) = Numel /\ Down(r, k) = Numel
  BY Zenon DEF Up, Down
<1>2. wire[p][r] \in Seq(Value) /\ Numel \in Nat
  BY NumelAssumption, Zenon DEF TreeInv, TreeControl, Wires
<1>3. ASSUME NEW k \in Masks, Child(p, k), r = p - k PROVE wire[p][r] = <<>>
  <2>1. Carries(wire[p][r], UpStream(p, k), Up(p, k), Numel)
    BY <1>1, <1>3, Zenon DEF TreeInv, TreeStreams
  <2>2. Len(wire[p][r]) = Up(p, k) - Numel /\ Up(p, k) \in 0 .. Numel
    BY <2>1, Positions, Zenon DEF Carries
  <2>3. Len(wire[p][r]) = 0
    BY <1>2, <2>2
  <2> QED BY <1>2, <2>3
<1>4. ASSUME NEW k \in Masks, Child(r, k), p = r - k PROVE wire[p][r] = <<>>
  <2>1. Carries(wire[p][r], DownStream, Down(p, k), Numel)
    BY <1>1, <1>4, Zenon DEF TreeInv, TreeStreams
  <2>2. Len(wire[p][r]) = Down(p, k) - Numel /\ Down(p, k) \in 0 .. Numel
    BY <2>1, Positions, Zenon DEF Carries
  <2>3. Len(wire[p][r]) = 0
    BY <1>2, <2>2
  <2> QED BY <1>2, <2>3
<1> QED BY <1>3, <1>4, Zenon DEF TreeInv, TreeStreams

\* Every step of allreduce_tree keeps the promise of the call.
LEMMA TreePromise ==
  ASSUME TreeInv, TreeNext
  PROVE  KeepsPromise([e \in Elem |-> 0])
<1>1. /\ phase \in [Rank -> {"idle", "reduce", "bcast", "done"}]
      /\ t \in [Rank -> [Elem -> Value]]
  BY Zenon DEF TreeInv, TreeControl
<1>2. PICK r \in Rank : TreeEnter(r) \/ TreeStep(r)
  BY Zenon DEF TreeNext
<1>3. CASE TreeEnter(r)
  BY <1>1, <1>3, Zenon DEF TreeEnter, KeepsPromise
<1>4. CASE TreeSendElem(r)
  <2>1. SendPeer(r) # NoPeer /\ phase' = phase /\ t' = t
    BY <1>4, Zenon DEF TreeSendElem
  <2>2. phase[r] \in {"reduce", "bcast"}
    BY <1>1, <2>1, Zenon DEF SendPeer
  <2> QED BY <2>1, <2>2, Zenon DEF KeepsPromise
<1>5. CASE TreeRecvElem(r)
  <2>1. /\ RecvPeer(r) # NoPeer /\ phase' = phase
        /\ t' = t \/ t' = [t EXCEPT ![r][pos[r]] = Head(wire[RecvPeer(r)][r])]
    BY <1>5, Zenon DEF TreeRecvElem
  <2>2. phase[r] \in {"reduce", "bcast"}
    BY <1>1, <2>1, Zenon DEF RecvPeer
  <2>3. \A q \in Rank : q # r => t'[q] = t[q]
    BY <1>1, <2>1, Zenon
  <2> QED BY <2>1, <2>2, <2>3, Zenon DEF KeepsPromise
<1>6. CASE EndReduce(r)
  <2>1. /\ phase[r] = "reduce" /\ \A q \in Rank : q # r => t'[q] = t[q] /\ phase'[q] = phase[q]
        /\ phase'[r] \in {"reduce", "bcast"}
    BY <1>1, <1>6, Zenon DEF EndReduce
  <2> QED BY <2>1, Zenon DEF KeepsPromise
<1>7. CASE EndBcast(r) /\ mask[r] > 1
  <2>1. phase[r] = "bcast" /\ phase' = phase /\ t' = t
    BY <1>7, Zenon DEF EndBcast
  <2> QED BY <2>1, Zenon DEF KeepsPromise
<1>8. CASE EndBcast(r) /\ ~(mask[r] > 1)
  <2>1. /\ phase[r] = "bcast" /\ phase' = [phase EXCEPT ![r] = "done"]
        /\ \A q \in Rank : q # r => t'[q] = t[q]
    BY <1>1, <1>8, Zenon DEF EndBcast
  <2>2. t'[r] = TreeResult /\ \A q \in Rank : phase[q] # "idle"
    BY <1>8, TreeReturn, Zenon
  <2>3. \A q \in Rank : phase[q] = "done" => t[q] = TreeResult
    BY Zenon DEF TreeInv, TreeTensors, TensorOf
  <2> QED BY <1>1, <2>1, <2>2, <2>3, Zenon DEF KeepsPromise, TreeResult
<1> QED BY <1>2, <1>3, <1>4, <1>5, <1>6, <1>7, <1>8, Zenon DEF TreeStep
-----------------------------------------------------------------------------
INSTANCE WellFoundedInduction
INSTANCE NaturalsInduction

\* A set of naturals that is not empty has a least element.
LEMMA TreeLeastNat ==
  ASSUME NEW T, T \subseteq Nat, T # {}
  PROVE  \E x \in T : \A y \in T : x <= y
<1>1. PICK x \in T : \A y \in T : ~(<<y, x>> \in OpToRel(<, Nat))
  BY NatLessThanWellFounded, WFMin, Zenon
<1>2. \A y \in T : ~(y < x)
  BY <1>1, Zenon DEF OpToRel
<1> QED
  BY <1>2

\* The loop that doubles the mask below World ends.
LEMMA TopExists == HasTop
<1>0. World \in Nat /\ \A m \in Masks : m \in Nat /\ 1 <= m /\ m < World
  BY WorldAssumption, MaskFacts, Zenon
<1> DEFINE T == {n \in Nat : \E m \in Masks : n = World - m}
<1>1. T # {}
  <2>1. 1 \in Masks /\ World - 1 \in Nat
    BY <1>0, MaskFacts
  <2>2. World - 1 \in T
    BY <2>1, Zenon
  <2> QED BY <2>2, Zenon
<1>2. PICK n \in T : \A k \in T : n <= k
  BY <1>1, TreeLeastNat, Zenon
<1>3. PICK m \in Masks : n = World - m
  BY <1>2, Zenon
<1>4. ASSUME 2 * m < World PROVE FALSE
  <2>1. 2 * m \in Masks /\ World - 2 * m \in Nat
    BY <1>0, <1>4, MaskFacts
  <2>2. World - 2 * m \in T
    BY <2>1, Zenon
  <2> QED BY <1>0, <1>2, <1>3, <2>2
<1> QED BY <1>0, <1>4 DEF HasTop

\* Every step of allreduce_tree keeps the invariant.
LEMMA TreeKept ==
  ASSUME TreeInv, TreeNext \/ UNCHANGED treeVars
  PROVE  TreeInv'
<1>1. CASE UNCHANGED treeVars
  <2>1. /\ UNCHANGED <<phase, mask, pos, t, scratch, wire>>
        /\ \A q, k : Up(q, k)' = Up(q, k) /\ Down(q, k)' = Down(q, k)
        /\ \A q, k : Called(q, k)' = Called(q, k)
    BY <1>1, Zenon DEF treeVars, Called, Up, Down
  <2>2. TreeControl'
    BY <2>1, Zenon DEF TreeInv, TreeControl
  <2>3. TreeStreams'
    BY <2>1, Zenon DEF TreeInv, TreeStreams
  <2>4. TreeTensors'
    BY <2>1, Zenon DEF TreeInv, TreeTensors, TensorOf
  <2>5. TreeScratch'
    BY <2>1, Zenon DEF TreeInv, TreeScratch
  <2>6. TreeCalled'
    BY <2>1, Zenon DEF TreeInv, TreeCalled
  <2> QED BY <2>2, <2>3, <2>4, <2>5, <2>6, Zenon DEF TreeInv
<1>2. CASE TreeNext
  BY <1>2, TreeEnterStep, TreeSendStep, TreeRecvStep, EndReduceStep, TopExists,
     LowerMask, TreeReturn, Zenon DEF TreeNext, TreeStep
<1> QED BY <1>1, <1>2, Zenon
=============================================================================
