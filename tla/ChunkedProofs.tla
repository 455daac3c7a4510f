--------------------------- MODULE ChunkedProofs ----------------------------
(***************************************************************************)
(* Proofs about the two allreduce algorithms that work on the chunks of    *)
(* the tensor, allreduce_ring (RingAllreduce.tla) and allreduce_butterfly  *)
(* (ButterflyAllreduce.tla), for every world size, every number of         *)
(* elements and every socket buffer.                                       *)
(*                                                                         *)
(* In step k of the ring, the two loops counted through, rank r sends      *)
(* chunk r - k to the next rank and receives chunk r - k - 1 from the      *)
(* previous one, modulo World.  Everything a rank ever writes is therefore *)
(* one fixed stream, RingStream, of which the socket holds the part        *)
(* between two positions, and the tensor of a rank is determined by its    *)
(* own position, HeldAt.  RingInv says so.                                 *)
(*                                                                         *)
(* In the butterfly the stream from p to q holds p's part of chunk q and   *)
(* then the reduced chunk p; ButterflyInv says where both ends are in it.  *)
(***************************************************************************)
EXTENDS RingAllreduce, ButterflyAllreduce, AllreduceStreams, TLAPS

\* r - k modulo World, for the k that two turns of the ring need.
Sub(r, k) == IF k <= r THEN r - k
             ELSE IF k <= r + World THEN r - k + World ELSE r - k + 2 * World

\* The per_rank of chunkize, and the chunk of an element.
PerRank == Per(Numel, World)

ChunkOf(e) == e \div PerRank

\* The number of steps of each of the two loops of the ring.
Loop == World - 1

\* prev_rank and next_rank of the ring.
Before(r) == Sub(r, 1)

After(r) == IF r = World - 1 THEN 0 ELSE r + 1

\* Division with remainder.
LEMMA DivMod ==
  ASSUME NEW a \in Nat, NEW b \in Nat \ {0}
  PROVE  /\ a \div b \in Nat /\ a % b \in 0 .. b - 1
         /\ a = b * (a \div b) + (a % b)
<1>1. a % b \in 0 .. b - 1
  OBVIOUS
<1>2. a = b * (a \div b) + (a % b)
  OBVIOUS
<1>3. a \div b \in Int
  OBVIOUS
<1>4. ~(a \div b < 0)
  BY <1>1, <1>2, <1>3
<1> QED BY <1>1, <1>2, <1>3, <1>4

\* Multiplication is monotonic.
LEMMA Product ==
  ASSUME NEW a \in Nat, NEW b \in Nat, NEW c \in Nat, a <= b
  PROVE  c * a \in Nat /\ c * b \in Nat /\ c * a <= c * b
  OBVIOUS

\* The remainder modulo World of a number below 3 World.
LEMMA ModWorld ==
  ASSUME NEW x \in 0 .. 3 * World - 1
  PROVE  x % World = IF x < World THEN x ELSE IF x < 2 * World THEN x - World ELSE x - 2 * World
<1> DEFINE q == x \div World
           m == x % World
<1>1. World \in Nat \ {0} /\ x \in Nat
  BY WorldAssumption
<1>2. q \in Nat /\ m \in 0 .. World - 1 /\ x = World * q + m
  BY <1>1, DivMod, Zenon
<1> HIDE DEF q, m
<1>3. q < 3
  <2> SUFFICES ASSUME 3 <= q PROVE FALSE
    BY <1>2
  <2>1. World * 3 <= World * q
    BY <1>1, <1>2, Product, Zenon
  <2> QED BY <1>1, <1>2, <2>1
<1>4. q = 0 \/ q = 1 \/ q = 2
  BY <1>2, <1>3
<1>5. CASE q = 0
  BY <1>1, <1>2, <1>5 DEF m
<1>6. CASE q = 1
  BY <1>1, <1>2, <1>6 DEF m
<1>7. CASE q = 2
  BY <1>1, <1>2, <1>7 DEF m
<1> QED BY <1>4, <1>5, <1>6, <1>7, Zenon

\* chunkize makes the chunks large enough for the whole tensor.
LEMMA PerFacts == PerRank \in Nat \ {0} /\ Numel <= World * PerRank
<1> DEFINE a == Numel + World - 1
           m == a % World
<1>1. World \in Nat \ {0} /\ a \in Nat /\ Numel \in Nat /\ Numel >= 1
  BY WorldAssumption, NumelAssumption
<1>2. PerRank = a \div World
  BY Zenon DEF PerRank, Per
<1>3. PerRank \in Nat /\ m \in 0 .. World - 1 /\ a = World * PerRank + m
  BY <1>1, <1>2, DivMod, Zenon
<1>4. PerRank # 0
  <2> SUFFICES ASSUME PerRank = 0 PROVE FALSE
    OBVIOUS
  <2>1. World * PerRank = 0 BY <1>1
  <2> QED BY <1>1, <1>3, <2>1
<1> HIDE DEF m
<1>5. World * PerRank \in Nat BY <1>1, <1>3
<1> QED
  BY <1>1, <1>3, <1>4, <1>5

\* The chunk with index c is the elements e with e \div per = c.
LEMMA ChunkFacts ==
  ASSUME NEW c \in Rank
  PROVE  /\ Start(c) \in 0 .. Numel /\ Count(c) \in 0 .. PerRank
         /\ Start(c) + Count(c) <= Numel
         /\ Elems(c) = Start(c) .. Start(c) + Count(c) - 1
         /\ \A e \in Elem : e \in Elems(c) <=> ChunkOf(e) = c
<1> DEFINE p == PerRank
           x == p * c
<1>1. p \in Nat \ {0} /\ Numel \in Nat /\ c \in Nat /\ World \in Nat
  BY PerFacts, NumelAssumption, WorldAssumption DEF Rank
<1> HIDE DEF p
<1>2. x \in Nat /\ c * p = x /\ (c + 1) * p = x + p
  BY <1>1
<1>3. /\ Start(c) = AtMost(c * p, Numel)
      /\ ChunkEnd(Numel, World, c) = AtMost((c + 1) * p, Numel)
      /\ Count(c) = ChunkEnd(Numel, World, c) - Start(c)
      /\ Elems(c) = Start(c) .. ChunkEnd(Numel, World, c) - 1
  BY Zenon DEF Start, Count, Elems, ChunkLen, ChunkStart, ChunkEnd,
     ChunkElems, p, PerRank
<1>4. ASSUME NEW e \in Elem
      PROVE  (x <= e /\ e < x + p) <=> ChunkOf(e) = c
  <2> DEFINE d == e \div p
             m == e % p
  <2>1. e \in Nat
    BY DEF Elem
  <2>2. d \in Nat /\ m \in 0 .. p - 1 /\ e = p * d + m
    BY <1>1, <2>1, DivMod, Zenon
  <2>3. ChunkOf(e) = d
    BY Zenon DEF ChunkOf, p
  <2> HIDE DEF d, m
  <2>4. p * (c + 1) = x + p /\ p * (d + 1) = p * d + p /\ p * d \in Nat
    BY <1>1, <2>2
  <2>5. CASE d < c
    <3>1. p * (d + 1) <= x
      BY <1>1, <2>2, <2>5, Product
    <3> QED BY <1>1, <1>2, <2>2, <2>3, <2>4, <2>5, <3>1
  <2>6. CASE c < d
    <3>1. p * (c + 1) <= p * d
      BY <1>1, <2>2, <2>6, Product
    <3> QED BY <1>1, <1>2, <2>2, <2>3, <2>4, <2>6, <3>1
  <2>7. CASE c = d
    BY <1>1, <1>2, <2>2, <2>3, <2>4, <2>7
  <2> QED BY <1>1, <2>2, <2>5, <2>6, <2>7
<1> HIDE DEF x
<1>5. Start(c) = IF x < Numel THEN x ELSE Numel
  BY <1>2, <1>3, Zenon DEF AtMost
<1>6. ChunkEnd(Numel, World, c) = IF x + p < Numel THEN x + p ELSE Numel
  BY <1>2, <1>3, Zenon DEF AtMost
<1>7. /\ Start(c) \in 0 .. Numel /\ Count(c) \in 0 .. p
      /\ Start(c) + Count(c) = ChunkEnd(Numel, World, c)
      /\ ChunkEnd(Numel, World, c) <= Numel
  BY <1>1, <1>2, <1>3, <1>5, <1>6
<1>8. ASSUME NEW e \in Elem
      PROVE  e \in Elems(c) <=> ChunkOf(e) = c
  <2>1. e \in Nat /\ e < Numel
    BY <1>1 DEF Elem
  <2>2. e \in Elems(c) <=> x <= e /\ e < x + p
    BY <1>1, <1>2, <1>3, <1>5, <1>6, <2>1
  <2> QED BY <1>4, <2>2, Zenon
<1> QED
  BY <1>3, <1>7, <1>8 DEF p

\* Every element is in the chunk of a rank.
LEMMA ChunkOfElem ==
  ASSUME NEW e \in Elem
  PROVE  /\ ChunkOf(e) \in Rank
         /\ e - Start(ChunkOf(e)) \in 0 .. Count(ChunkOf(e)) - 1
<1> DEFINE d == e \div PerRank
           m == e % PerRank
<1>1. /\ PerRank \in Nat \ {0} /\ Numel \in Nat /\ World \in Nat
      /\ Numel <= World * PerRank
  BY PerFacts, NumelAssumption, WorldAssumption, Zenon
<1>2. e \in Nat /\ e < Numel
  BY <1>1 DEF Elem
<1>3. d \in Nat /\ m \in 0 .. PerRank - 1 /\ e = PerRank * d + m
  BY <1>1, <1>2, DivMod, Zenon
<1>4. ChunkOf(e) = d
  BY Zenon DEF ChunkOf
<1> HIDE DEF d, m
<1>5. d < World
  <2> SUFFICES ASSUME World <= d PROVE FALSE
    BY <1>1, <1>3
  <2>1. PerRank * World <= PerRank * d
    BY <1>1, <1>3, Product, Zenon
  <2>2. PerRank * World = World * PerRank /\ World * PerRank \in Nat
    BY <1>1
  <2> QED BY <1>1, <1>2, <1>3, <2>1, <2>2
<1>6. ChunkOf(e) \in Rank
  BY <1>1, <1>3, <1>4, <1>5 DEF Rank
<1>7. e \in Start(d) .. Start(d) + Count(d) - 1 /\ Start(d) \in Int /\ Count(d) \in Int
  BY <1>4, <1>6, ChunkFacts
<1> QED BY <1>2, <1>4, <1>6, <1>7

\* ... and the elements of chunk c are at the places from Start(c) on.
LEMMA InChunk ==
  ASSUME NEW c \in Rank, NEW o \in 0 .. Count(c) - 1
  PROVE  /\ Start(c) + o \in Elem /\ Start(c) + o \in Elems(c)
         /\ ChunkOf(Start(c) + o) = c /\ o \in 0 .. PerRank - 1
<1>1. /\ Start(c) \in 0 .. Numel /\ Count(c) \in 0 .. PerRank
      /\ Start(c) + Count(c) <= Numel
      /\ Elems(c) = Start(c) .. Start(c) + Count(c) - 1
  BY ChunkFacts, Zenon
<1>2. PerRank \in Nat /\ Numel \in Nat
  BY PerFacts, NumelAssumption, Zenon
<1>3. Start(c) + o \in Elem /\ Start(c) + o \in Elems(c)
  BY <1>1, <1>2 DEF Elem
<1>4. o \in 0 .. PerRank - 1
  BY <1>1, <1>2
<1> QED BY <1>3, <1>4, ChunkFacts, Zenon
-----------------------------------------------------------------------------
\* Sub is a rank, and undoes itself modulo World.
LEMMA SubFacts ==
  ASSUME NEW r \in Rank, NEW k \in 0 .. 2 * World - 1
  PROVE  /\ Sub(r, k) \in Rank
         /\ k < World => Sub(r, Sub(r, k)) = k
         /\ k >= World => Sub(r, Sub(r, k)) = k - World
BY WorldAssumption DEF Sub, Rank

\* Neighbours on the ring, and what one of them says about the other.
LEMMA RankArith ==
  ASSUME NEW r \in Rank
  PROVE  /\ After(r) \in Rank /\ Before(r) \in Rank
         /\ After(r) # r /\ Before(r) # r
         /\ Before(After(r)) = r /\ After(Before(r)) = r
         /\ \A k \in 0 .. 2 * World - 2 : Sub(Before(r), k) = Sub(r, k + 1)
         /\ \A k \in 0 .. 2 * World - 2 : Sub(After(r), k + 1) = Sub(r, k)
BY WorldAssumption DEF Rank, Sub, After, Before

\* The two remainders the code takes for an index are both Sub.
LEMMA SubMod ==
  ASSUME NEW r \in Rank, NEW k \in 0 .. 2 * World - 1
  PROVE  /\ k <= World => (r - k + World) % World = Sub(r, k)
         /\ k >= World - 1 => (r - k + 2 * World) % World = Sub(r, k)
<1>1. World \in Nat /\ World >= 2 /\ r \in 0 .. World - 1
  BY WorldAssumption, Zenon DEF Rank
<1>2. ASSUME k <= World PROVE (r - k + World) % World = Sub(r, k)
  <2>1. PICK x : x = r - k + World
    OBVIOUS
  <2>2. x \in 0 .. 3 * World - 1
    BY <1>1, <1>2, <2>1
  <2>3. x % World = IF x < World THEN x ELSE IF x < 2 * World THEN x - World ELSE x - 2 * World
    BY <2>2, ModWorld, Zenon
  <2>4. x % World = Sub(r, k)
    BY <1>1, <1>2, <2>1, <2>2, <2>3 DEF Sub
  <2> QED BY <2>1, <2>4, Zenon
<1>3. ASSUME k >= World - 1 PROVE (r - k + 2 * World) % World = Sub(r, k)
  <2>1. PICK x : x = r - k + 2 * World
    OBVIOUS
  <2>2. x \in 0 .. 3 * World - 1
    BY <1>1, <1>3, <2>1
  <2>3. x % World = IF x < World THEN x ELSE IF x < 2 * World THEN x - World ELSE x - 2 * World
    BY <2>2, ModWorld, Zenon
  <2>4. x % World = Sub(r, k)
    BY <1>1, <1>3, <2>1, <2>2, <2>3 DEF Sub
  <2> QED BY <2>1, <2>4, Zenon
<1> QED BY <1>2, <1>3, Zenon
-----------------------------------------------------------------------------
\* Where chunk c ends.
End(c) == ChunkEnd(Numel, World, c)

\* How many elements the chunks r, r - 1, ..., r - k + 1 have together: what
\* rank r writes in its first k steps, and rank After(r) reads in them.
Moved(r, k) ==
  End(r) - End(Sub(r, k))
    + IF k <= r THEN 0 ELSE IF k <= r + World THEN Numel ELSE 2 * Numel

\* A chunk has a length and a place.
LEMMA CountNat ==
  ASSUME NEW r \in Rank, NEW j \in 0 .. 2 * World - 1
  PROVE  Count(Sub(r, j)) \in Nat /\ Start(Sub(r, j)) \in Nat
<1>1. Sub(r, j) \in Rank
  BY SubFacts, Zenon
<1> QED BY <1>1, ChunkFacts, PerFacts, NumelAssumption

\* The chunks follow each other and fill the tensor.
LEMMA Ends ==
  /\ \A c \in Rank : End(c) \in 0 .. Numel /\ End(c) = Start(c) + Count(c)
  /\ \A c \in Rank : c # 0 => End(c - 1) = Start(c)
  /\ Start(0) = 0 /\ End(World - 1) = Numel
  /\ \A b, c \in Rank : b <= c => End(b) <= End(c)
<1>1. PICK p : p = PerRank
  OBVIOUS
<1>2. /\ p \in Nat \ {0} /\ Numel \in Nat /\ World \in Nat /\ World >= 2
      /\ Numel <= World * p
  BY <1>1, PerFacts, NumelAssumption, WorldAssumption, Zenon
<1>3. /\ \A c : Start(c) = AtMost(c * p, Numel)
      /\ \A c : End(c) = AtMost((c + 1) * p, Numel)
      /\ \A c : Count(c) = End(c) - Start(c)
  BY <1>1, Zenon DEF Start, End, Count, ChunkLen, ChunkStart, ChunkEnd, PerRank
<1>4. ASSUME NEW c \in Rank
      PROVE  End(c) \in 0 .. Numel /\ End(c) = Start(c) + Count(c)
  <2>1. c \in Nat /\ c * p \in Nat /\ (c + 1) * p \in Nat
    BY <1>2 DEF Rank
  <2>2. End(c) \in 0 .. Numel /\ Start(c) \in 0 .. Numel
    BY <1>2, <1>3, <2>1 DEF AtMost
  <2> QED BY <1>3, <2>2
<1>5. ASSUME NEW c \in Rank, c # 0 PROVE End(c - 1) = Start(c)
  <2>1. c - 1 + 1 = c
    BY DEF Rank
  <2> QED BY <1>3, <2>1, Zenon
<1>6. Start(0) = 0
  <2>1. 0 * p = 0
    BY <1>2
  <2> QED BY <1>2, <1>3, <2>1 DEF AtMost
<1>7. End(World - 1) = Numel
  <2>1. World - 1 + 1 = World /\ World * p \in Nat
    BY <1>2
  <2> QED BY <1>2, <1>3, <2>1 DEF AtMost
<1>8. ASSUME NEW b \in Rank, NEW c \in Rank, b <= c PROVE End(b) <= End(c)
  <2>1. b + 1 \in Nat /\ c + 1 \in Nat /\ b + 1 <= c + 1
    BY <1>8 DEF Rank
  <2>2. p * (b + 1) \in Nat /\ p * (c + 1) \in Nat /\ p * (b + 1) <= p * (c + 1)
    BY <1>2, <2>1, Product, Zenon
  <2>3. (b + 1) * p = p * (b + 1) /\ (c + 1) * p = p * (c + 1)
    BY <1>2, <2>1
  <2> QED BY <1>2, <1>3, <2>2, <2>3 DEF AtMost
<1> QED BY <1>4, <1>5, <1>6, <1>7, <1>8, Zenon

\* Step k moves chunk r - k.
LEMMA MovedStep ==
  ASSUME NEW r \in Rank, NEW k \in 0 .. 2 * World - 2
  PROVE  Moved(r, k + 1) = Moved(r, k) + Count(Sub(r, k))
<1>1. World \in Nat /\ World >= 2 /\ Numel \in Nat /\ r \in 0 .. World - 1
  BY WorldAssumption, NumelAssumption, Zenon DEF Rank
<1>2. PICK c : c = Sub(r, k)
  OBVIOUS
<1>3. PICK d : d = Sub(r, k + 1)
  OBVIOUS
<1>4. c \in Rank /\ d \in Rank /\ c \in Int /\ d \in Int
  BY <1>1, <1>2, <1>3 DEF Sub, Rank
<1>5. /\ End(c) \in Int /\ End(d) \in Int /\ End(r) \in Int /\ Start(c) \in Int
      /\ End(c) = Start(c) + Count(c) /\ Count(c) \in Int
  BY <1>4, Ends, ChunkFacts
<1>6. CASE c # 0
  <2>1. d = c - 1 /\ (k <= r <=> k + 1 <= r) /\ (k <= r + World <=> k + 1 <= r + World)
    BY <1>1, <1>2, <1>3, <1>6 DEF Sub
  <2>2. End(d) = Start(c)
    BY <1>4, <1>6, <2>1, Ends, Zenon
  <2> QED BY <1>1, <1>2, <1>3, <1>5, <2>1, <2>2 DEF Moved
<1>7. CASE c = 0
  <2>1. d = World - 1 /\ (k = r \/ k = r + World)
    BY <1>1, <1>2, <1>3, <1>7 DEF Sub
  <2>2. End(d) = Numel /\ Start(c) = 0
    BY <1>7, <2>1, Ends, Zenon
  <2> QED BY <1>1, <1>2, <1>3, <1>5, <2>1, <2>2 DEF Moved
<1> QED BY <1>6, <1>7, Zenon

\* Moved grows with the steps.
LEMMA MovedMono ==
  ASSUME NEW r \in Rank, NEW k \in 0 .. 2 * World - 1
  PROVE  /\ Moved(r, k) \in Nat
         /\ \A i \in 0 .. k : Moved(r, i) <= Moved(r, k)
<1>1. World \in Nat /\ World >= 2 /\ Numel \in Nat /\ r \in 0 .. World - 1
  BY WorldAssumption, NumelAssumption, Zenon DEF Rank
<1>2. ASSUME NEW i \in 0 .. k
      PROVE  Moved(r, i) \in Int /\ Moved(r, k) \in Int /\ Moved(r, i) <= Moved(r, k)
  <2>1. PICK c : c = Sub(r, i)
    OBVIOUS
  <2>2. PICK d : d = Sub(r, k)
    OBVIOUS
  <2>3. c \in Rank /\ d \in Rank /\ c \in Int /\ d \in Int
    BY <1>1, <2>1, <2>2 DEF Sub, Rank
  <2>4. End(c) \in 0 .. Numel /\ End(d) \in 0 .. Numel /\ End(r) \in 0 .. Numel
    BY <2>3, Ends, Zenon
  <2>5. d <= c => End(d) <= End(c)
    BY <2>3, Ends, Zenon
  <2>6. \/ d <= c
        \/ i <= r /\ k > r
        \/ i <= r + World /\ k > r + World
    BY <1>1, <2>1, <2>2 DEF Sub
  <2>7. Moved(r, i) \in Int /\ Moved(r, k) \in Int
    BY <1>1, <2>1, <2>2, <2>4 DEF Moved
  <2> QED BY <1>1, <2>1, <2>2, <2>4, <2>5, <2>6, <2>7 DEF Moved
<1>3. Moved(r, 0) = 0
  <2>1. Sub(r, 0) = r
    BY <1>1 DEF Sub
  <2>2. End(r) \in Int
    BY Ends
  <2> QED BY <1>1, <2>1, <2>2 DEF Moved
<1> QED BY <1>2, <1>3

\* A place in the stream is in one chunk of one step only.
LEMMA OnePlace ==
  ASSUME NEW r \in Rank, NEW i \in 0 .. 2 * Loop - 1, NEW k \in 0 .. 2 * Loop - 1,
         NEW o \in 0 .. Count(Sub(r, i)) - 1, NEW s \in 0 .. Count(Sub(r, k)) - 1,
         Moved(r, i) + o = Moved(r, k) + s
  PROVE  i = k /\ o = s
<1>1. /\ World \in Nat /\ i \in 0 .. 2 * World - 1 /\ k \in 0 .. 2 * World - 1
      /\ i \in 0 .. 2 * World - 2 /\ k \in 0 .. 2 * World - 2
  BY WorldAssumption DEF Loop
<1>2. /\ Moved(r, i) \in Nat /\ Moved(r, k) \in Nat
      /\ Moved(r, i + 1) = Moved(r, i) + Count(Sub(r, i))
      /\ Moved(r, k + 1) = Moved(r, k) + Count(Sub(r, k))
      /\ Count(Sub(r, i)) \in Nat /\ Count(Sub(r, k)) \in Nat
  BY <1>1, MovedStep, MovedMono, CountNat, Zenon
<1>3. ~(i < k)
  <2> SUFFICES ASSUME i < k PROVE FALSE
    OBVIOUS
  <2>1. i + 1 \in 0 .. k
    BY <1>1
  <2>2. Moved(r, i + 1) <= Moved(r, k)
    BY <1>1, <2>1, MovedMono, Zenon
  <2> QED BY <1>2, <2>2
<1>4. ~(k < i)
  <2> SUFFICES ASSUME k < i PROVE FALSE
    OBVIOUS
  <2>1. k + 1 \in 0 .. i
    BY <1>1
  <2>2. Moved(r, k + 1) <= Moved(r, i)
    BY <1>1, <2>1, MovedMono, Zenon
  <2> QED BY <1>2, <2>2
<1>5. i = k
  BY <1>1, <1>3, <1>4
<1> QED BY <1>2, <1>5
-----------------------------------------------------------------------------
\* Element e of the sum of the tensors of the ranks r, r - 1, ..., r - k, as r
\* computes it: what reduce_into leaves after k hops round the ring.
Partial(r, k, e) ==
  [elem |-> e, cnt |-> [q \in Rank |-> IF Sub(r, q) <= k THEN 1 ELSE 0],
   by |-> r, scl |-> 0]

\* The rank that has reduced chunk c when the first loop ends.
Owner(c) == Sub(c, 1)

\* Both sums are values.
LEMMA ValueTypes ==
  ASSUME NEW r \in Rank, NEW k \in Nat, NEW e \in Elem
  PROVE  Partial(r, k, e) \in Value /\ Complete(e, r) \in Value
BY Zenon DEF Partial, Complete, Value

\* A rank's own tensor is the sum of one.
LEMMA InputIsPartial ==
  ASSUME NEW r \in Rank, NEW e \in Elem
  PROVE  Input(r)[e] = Partial(r, 0, e)
<1>1. \A q \in Rank : Sub(r, q) <= 0 <=> q = r
  BY WorldAssumption DEF Sub, Rank
<1>2. [q \in Rank |-> IF q = r THEN 1 ELSE 0] = [q \in Rank |-> IF Sub(r, q) <= 0 THEN 1 ELSE 0]
  BY <1>1, Zenon
<1> QED BY <1>2, Zenon DEF Input, Partial

\* After World - 1 hops the sum is complete.
LEMMA PartialIsComplete ==
  ASSUME NEW r \in Rank, NEW e \in Elem
  PROVE  Partial(r, World - 1, e) = Complete(e, r)
<1>1. \A q \in Rank : Sub(r, q) <= World - 1
  BY WorldAssumption DEF Sub, Rank
<1>2. [q \in Rank |-> IF Sub(r, q) <= World - 1 THEN 1 ELSE 0] = [q \in Rank |-> 1]
  BY <1>1, Zenon
<1> QED BY <1>2, Zenon DEF Complete, Partial

\* scale_if_avg of a complete sum is the result of the call.
LEMMA Scaled ==
  ASSUME NEW f, NEW owner,
         \A e \in Elem : f[e] = Complete(e, owner[e]), f = [e \in Elem |-> f[e]]
  PROVE  ScaleIfAvg(f) = Reduction(owner)
<1>1. CASE Avg
  <2>1. \A e \in Elem : [f[e] EXCEPT !.scl = @ + 1] =
          [elem |-> e, cnt |-> [q \in Rank |-> 1], by |-> owner[e], scl |-> 1]
    BY DEF Complete
  <2> QED BY <1>1, <2>1, Zenon DEF ScaleIfAvg, Reduction
<1>2. CASE ~Avg
  BY <1>2, Zenon DEF ScaleIfAvg, Reduction, Complete
<1> QED BY <1>1, <1>2, Zenon

\* reduce_into of the own tensor and what came from the previous rank adds
\* one tensor to the sum.
LEMMA ReduceAdds ==
  ASSUME NEW r \in Rank, NEW e \in Elem, NEW k \in 0 .. Loop - 1
  PROVE  ReduceInto(r, Partial(r, 0, e), Partial(Before(r), k, e)) = Partial(r, k + 1, e)
<1>1. /\ World \in Nat /\ k \in 0 .. World - 2 /\ Before(r) \in Rank
      /\ Before(r) = Sub(r, 1)
  BY WorldAssumption, RankArith DEF Loop, Before
<1>2. ASSUME NEW q \in Rank
      PROVE  (IF Sub(r, q) <= 0 THEN 1 ELSE 0) + (IF Sub(Before(r), q) <= k THEN 1 ELSE 0)
               = IF Sub(r, q) <= k + 1 THEN 1 ELSE 0
  BY <1>1 DEF Rank, Sub
<1> DEFINE d == Partial(r, 0, e)
           s == Partial(Before(r), k, e)
<1>3. /\ d.elem = e /\ s.elem = e /\ d.scl = 0 /\ s.scl = 0
      /\ \A q \in Rank : d.cnt[q] = IF Sub(r, q) <= 0 THEN 1 ELSE 0
      /\ \A q \in Rank : s.cnt[q] = IF Sub(Before(r), q) <= k THEN 1 ELSE 0
  BY Zenon DEF Partial
<1> HIDE DEF d, s
<1>4. [q \in Rank |-> d.cnt[q] + s.cnt[q]] = [q \in Rank |-> IF Sub(r, q) <= k + 1 THEN 1 ELSE 0]
  BY <1>2, <1>3, Zenon
<1>5. ReduceInto(r, d, s) = [elem |-> e, cnt |-> [q \in Rank |-> d.cnt[q] + s.cnt[q]], by |-> r, scl |-> 0]
  BY <1>3 DEF ReduceInto
<1> QED BY <1>4, <1>5, Zenon DEF d, s, Partial
-----------------------------------------------------------------------------
\* What rank r writes for element e in step j.
OnWire(r, j, e) ==
  IF j < Loop THEN Partial(r, j, e) ELSE Complete(e, Owner(Sub(r, j)))

\* What allreduce_ring puts, from the first step to the last, on the stream
\* of rank r.
RingStream(r) ==
  [n \in Nat |->
     CHOOSE x : \E j \in 0 .. 2 * Loop - 1 : \E o \in 0 .. Count(Sub(r, j)) - 1 :
       Moved(r, j) + o = n /\ x = OnWire(r, j, Start(Sub(r, j)) + o)]

\* What Append does to each place of a sequence.
LEMMA AppendAt ==
  ASSUME NEW S, NEW w \in Seq(S), NEW x \in S
  PROVE  /\ Append(w, x) \in Seq(S) /\ Len(w) \in Nat
         /\ Len(Append(w, x)) = Len(w) + 1
         /\ \A i \in 1 .. Len(w) : Append(w, x)[i] = w[i]
         /\ Append(w, x)[Len(w) + 1] = x
OBVIOUS

\* What Tail does to each place of a sequence.
LEMMA TailAt ==
  ASSUME NEW S, NEW w \in Seq(S), w # <<>>
  PROVE  /\ Tail(w) \in Seq(S) /\ Len(w) \in Nat /\ Len(w) > 0
         /\ Len(Tail(w)) = Len(w) - 1 /\ Head(w) = w[1] /\ Head(w) \in S
         /\ \A i \in 1 .. Len(w) - 1 : Tail(w)[i] = w[i + 1]
OBVIOUS

\* A send changes one stream, at its end.
LEMMA PutOne ==
  ASSUME NEW w \in Wires, NEW p \in Rank, NEW q \in Rank, NEW x \in Value
  PROVE  OnePut(WirePut(w, p, q, x), w, p, q, x)
<1>1. Append(w[p][q], x) \in Seq(Value)
  BY AppendAt DEF Wires
<1> QED BY <1>1, Zenon DEF WirePut, Wires, OnePut

\* A receive changes one stream, at its front.
LEMMA DropOne ==
  ASSUME NEW w \in Wires, NEW p \in Rank, NEW q \in Rank, w[p][q] # <<>>
  PROVE  OneDrop(WireDrop(w, p, q), w, p, q)
<1>1. Tail(w[p][q]) \in Seq(Value)
  BY TailAt, Zenon DEF Wires
<1> QED BY <1>1, Zenon DEF WireDrop, Wires, OneDrop

\* Writing the next element of f keeps the stream a part of f.
LEMMA CarriesPut ==
  ASSUME NEW f, NEW w, NEW a \in Nat, NEW b \in Nat, Carries(w, f, a, b),
         f[a] \in Value
  PROVE  Carries(Append(w, f[a]), f, a + 1, b)
<1>0. PICK x \in Value : x = f[a]
  OBVIOUS
<1>1. w \in Seq(Value) /\ Len(w) = a - b
  BY Zenon DEF Carries
<1>2. /\ Append(w, x) \in Seq(Value) /\ Len(w) \in Nat
      /\ Len(Append(w, x)) = Len(w) + 1
      /\ \A i \in 1 .. Len(w) : Append(w, x)[i] = w[i]
      /\ Append(w, x)[Len(w) + 1] = x
  BY <1>1, AppendAt
<1>3. ASSUME NEW i \in 1 .. Len(w) + 1
      PROVE  Append(w, x)[i] = f[b + i - 1]
  <2>1. CASE i \in 1 .. Len(w)
    BY <1>2, <2>1, Zenon DEF Carries
  <2>2. CASE i = Len(w) + 1
    <3>1. b + i - 1 = a
      BY <1>1, <2>2
    <3> QED BY <1>0, <1>2, <2>2, <3>1, Zenon
  <2> QED BY <1>2, <2>1, <2>2
<1>4. Len(w) + 1 = a + 1 - b
  BY <1>1
<1>5. Carries(Append(w, x), f, a + 1, b)
  BY <1>2, <1>3, <1>4 DEF Carries
<1> QED BY <1>0, <1>5, Zenon

\* What is read from such a stream is the next element of f.
LEMMA CarriesTake ==
  ASSUME NEW f, NEW w, NEW a \in Nat, NEW b \in Nat, Carries(w, f, a, b),
         w # <<>>
  PROVE  /\ Head(w) = f[b] /\ f[b] \in Value /\ b < a
         /\ Carries(Tail(w), f, a, b + 1)
<1>1. w \in Seq(Value) /\ Len(w) = a - b
  BY Zenon DEF Carries
<1>2. /\ Tail(w) \in Seq(Value) /\ Len(w) \in Nat /\ Len(w) > 0
      /\ Len(Tail(w)) = Len(w) - 1 /\ Head(w) = w[1] /\ Head(w) \in Value
      /\ \A i \in 1 .. Len(w) - 1 : Tail(w)[i] = w[i + 1]
  BY <1>1, TailAt, Zenon
<1>3. \A i \in 1 .. Len(w) : w[i] = f[b + i - 1]
  BY Zenon DEF Carries
<1>4. Head(w) = f[b]
  <2>1. 1 \in 1 .. Len(w) /\ b + 1 - 1 = b
    BY <1>2
  <2> QED BY <1>2, <1>3, <2>1, Zenon
<1>5. ASSUME NEW i \in 1 .. Len(w) - 1
      PROVE  Tail(w)[i] = f[b + 1 + i - 1]
  <2>1. i + 1 \in 1 .. Len(w) /\ b + (i + 1) - 1 = b + 1 + i - 1
    BY <1>2
  <2>2. Tail(w)[i] = w[i + 1]
    BY <1>2, Zenon
  <2> QED BY <1>3, <2>1, <2>2, Zenon
<1>6. Len(w) - 1 = a - (b + 1) /\ b < a
  BY <1>1, <1>2
<1>7. Carries(Tail(w), f, a, b + 1)
  BY <1>2, <1>5, <1>6, Zenon DEF Carries
<1> QED BY <1>2, <1>4, <1>6, <1>7, Zenon

\* Where the s-th element of step k is on the stream of rank r.
LEMMA RingPlace ==
  ASSUME NEW r \in Rank, NEW k \in 0 .. 2 * Loop - 1,
         NEW s \in 0 .. Count(Sub(r, k)) - 1
  PROVE  RingStream(r)[Moved(r, k) + s] = OnWire(r, k, Start(Sub(r, k)) + s)
<1> DEFINE Is(x, n) == \E j \in 0 .. 2 * Loop - 1 : \E o \in 0 .. Count(Sub(r, j)) - 1 :
              Moved(r, j) + o = n /\ x = OnWire(r, j, Start(Sub(r, j)) + o)
           n == Moved(r, k) + s
           v == OnWire(r, k, Start(Sub(r, k)) + s)
<1>1. n \in Nat
  <2>1. k \in 0 .. 2 * World - 1
    BY WorldAssumption DEF Loop
  <2> QED BY <2>1, MovedMono, CountNat
<1>2. Is(v, n)
  OBVIOUS
<1>3. ASSUME NEW x, Is(x, n) PROVE x = v
  <2>0. PICK j \in 0 .. 2 * Loop - 1 : \E o \in 0 .. Count(Sub(r, j)) - 1 :
          Moved(r, j) + o = n /\ x = OnWire(r, j, Start(Sub(r, j)) + o)
    BY <1>3, Zenon
  <2>1. PICK o \in 0 .. Count(Sub(r, j)) - 1 :
          Moved(r, j) + o = n /\ x = OnWire(r, j, Start(Sub(r, j)) + o)
    BY <2>0, Zenon
  <2>2. j = k /\ o = s
    BY <2>1, OnePlace
  <2> QED BY <2>1, <2>2, Zenon
<1>4. RingStream(r)[n] = CHOOSE x : Is(x, n)
  BY <1>1, Zenon DEF RingStream
<1> HIDE DEF Is, n, v
<1>5. (CHOOSE x : Is(x, n)) = v
  BY <1>2, <1>3, Zenon
<1> QED BY <1>4, <1>5, Zenon DEF n, v
-----------------------------------------------------------------------------
\* What rank r holds as element e in step k, when o elements of the chunk of
\* that step have been received.
HeldAt(r, e, k, o) ==
  LET d == Sub(r, ChunkOf(e))
      arrived == /\ d < Loop
                 /\ \/ k > d + Loop
                    \/ k = d + Loop /\ e - Start(ChunkOf(e)) < o
  IN  IF arrived THEN Complete(e, Owner(ChunkOf(e)))
      ELSE Partial(r, IF d <= k THEN d ELSE 0, e)

\* Rank r has chunk ChunkOf(e) in hand once in each loop.
LEMMA Distance ==
  ASSUME NEW r \in Rank, NEW e \in Elem
  PROVE  /\ Sub(r, ChunkOf(e)) \in 0 .. World - 1
         /\ \A k \in 0 .. 2 * World - 1 :
              ChunkOf(e) = Sub(r, k) <=> \/ k = Sub(r, ChunkOf(e))
                                         \/ k = Sub(r, ChunkOf(e)) + World
<1>1. ChunkOf(e) \in Rank
  BY ChunkOfElem, Zenon
<1> QED BY <1>1, WorldAssumption DEF Sub, Rank

\* The chunk a rank sends in step k is what OnWire says.
LEMMA HeldSent ==
  ASSUME NEW r \in Rank, NEW e \in Elem, NEW k \in 0 .. 2 * Loop - 1, NEW o \in Nat,
         ChunkOf(e) = Sub(r, k)
  PROVE  HeldAt(r, e, k, o) = OnWire(r, k, e)
<1>1. World \in Nat /\ World >= 2 /\ Loop = World - 1 /\ k \in 0 .. 2 * World - 3
  BY WorldAssumption DEF Loop
<1>2. PICK d : d = Sub(r, ChunkOf(e))
  OBVIOUS
<1>3. d \in 0 .. World - 1 /\ (k = d \/ k = d + World)
  BY <1>1, <1>2, Distance
<1>4. CASE k < Loop
  <2>1. k = d /\ ~(k > d + Loop) /\ k # d + Loop
    BY <1>1, <1>3, <1>4
  <2> QED BY <1>2, <1>4, <2>1 DEF HeldAt, OnWire
<1>5. CASE k = Loop
  <2>1. k = d /\ ~(d < Loop) /\ d = World - 1
    BY <1>1, <1>3, <1>5
  <2>2. HeldAt(r, e, k, o) = Partial(r, World - 1, e)
    BY <1>2, <2>1 DEF HeldAt
  <2>3. Owner(Sub(r, k)) = r
    BY <1>1, <1>5 DEF Owner, Sub, Rank
  <2>4. OnWire(r, k, e) = Complete(e, r)
    BY <1>1, <1>5, <2>3 DEF OnWire
  <2> QED BY <2>2, <2>4, PartialIsComplete, Zenon
<1>6. CASE k > Loop
  <2>1. d < Loop /\ k > d + Loop /\ ~(k < Loop)
    BY <1>1, <1>3, <1>6
  <2> QED BY <1>2, <2>1, Zenon DEF HeldAt, OnWire
<1> QED BY <1>1, <1>4, <1>5, <1>6

\* What the tensor is during the first loop.
LEMMA HeldScatter ==
  ASSUME NEW r \in Rank, NEW e \in Elem, NEW k \in 0 .. Loop - 1, NEW o \in Nat
  PROVE  /\ HeldAt(r, e, k, o) =
              Partial(r, IF Sub(r, ChunkOf(e)) <= k THEN Sub(r, ChunkOf(e)) ELSE 0, e)
         /\ HeldAt(r, e, k + 1, 0) =
              Partial(r, IF Sub(r, ChunkOf(e)) <= k + 1 THEN Sub(r, ChunkOf(e)) ELSE 0, e)
<1>1. World \in Nat /\ World >= 2 /\ Loop = World - 1 /\ k \in 0 .. World - 2
  BY WorldAssumption DEF Loop
<1>2. PICK d : d = Sub(r, ChunkOf(e))
  OBVIOUS
<1>3. d \in 0 .. World - 1
  BY <1>2, Distance, Zenon
<1>4. PICK i \in 0 .. Count(ChunkOf(e)) - 1 : i = e - Start(ChunkOf(e))
  BY ChunkOfElem, Zenon
<1>5. ~(i < 0)
  BY <1>4, ChunkOfElem
<1>6. ~(k > d + Loop) /\ k # d + Loop /\ ~(k + 1 > d + Loop)
  BY <1>1, <1>3
<1> QED BY <1>2, <1>4, <1>5, <1>6, Zenon DEF HeldAt

\* reduce_into at the end of a step of the first loop is the change from one
\* step to the next.
LEMMA HeldReduce ==
  ASSUME NEW r \in Rank, NEW e \in Elem, NEW k \in 0 .. Loop - 1, NEW o \in Nat
  PROVE  /\ ChunkOf(e) = Sub(r, k + 1) => /\ HeldAt(r, e, k, o) = Partial(r, 0, e)
                                          /\ HeldAt(r, e, k + 1, 0) = Partial(r, k + 1, e)
         /\ ChunkOf(e) # Sub(r, k + 1) => HeldAt(r, e, k + 1, 0) = HeldAt(r, e, k, o)
<1>1. World \in Nat /\ World >= 2 /\ Loop = World - 1 /\ k \in 0 .. World - 2
  BY WorldAssumption DEF Loop
<1>2. PICK d : d = Sub(r, ChunkOf(e))
  OBVIOUS
<1>3. d \in 0 .. World - 1 /\ (ChunkOf(e) = Sub(r, k + 1) <=> k + 1 = d)
  BY <1>1, <1>2, Distance
<1>4. /\ HeldAt(r, e, k, o) = Partial(r, IF d <= k THEN d ELSE 0, e)
      /\ HeldAt(r, e, k + 1, 0) = Partial(r, IF d <= k + 1 THEN d ELSE 0, e)
  BY <1>2, HeldScatter, Zenon
<1>5. CASE ChunkOf(e) = Sub(r, k + 1)
  <2>1. ~(d <= k) /\ d <= k + 1 /\ d = k + 1
    BY <1>1, <1>3, <1>5
  <2> QED BY <1>4, <1>5, <2>1, Zenon
<1>6. CASE ChunkOf(e) # Sub(r, k + 1)
  <2>1. d <= k <=> d <= k + 1
    BY <1>1, <1>3, <1>6
  <2> QED BY <1>4, <1>6, <2>1, Zenon
<1> QED BY <1>5, <1>6, Zenon

\* A receive of the second loop, straight into the tensor, is the change from
\* one position to the next.
LEMMA HeldReceive ==
  ASSUME NEW r \in Rank, NEW k \in Loop .. 2 * Loop - 1,
         NEW o \in 0 .. Count(Sub(r, k + 1)) - 1, NEW e \in Elem
  PROVE  HeldAt(r, e, k, o + 1) =
           IF e = Start(Sub(r, k + 1)) + o THEN OnWire(Before(r), k, e)
           ELSE HeldAt(r, e, k, o)
<1>1. World \in Nat /\ World >= 2 /\ Loop = World - 1 /\ k \in World - 1 .. 2 * World - 3
  BY WorldAssumption DEF Loop
<1>2. PICK d : d = Sub(r, ChunkOf(e))
  OBVIOUS
<1>3. d \in 0 .. World - 1 /\ (ChunkOf(e) = Sub(r, k + 1) <=> k = d + Loop)
  BY <1>1, <1>2, Distance
<1>4. Sub(r, k + 1) \in Rank /\ Sub(r, k + 1) = Sub(Before(r), k) /\ o \in Nat
  <2>1. k \in 0 .. 2 * World - 2 /\ k + 1 \in 0 .. 2 * World - 1
    BY <1>1
  <2> QED BY <2>1, RankArith, SubFacts
<1>5. CASE e = Start(Sub(r, k + 1)) + o
  <2>1. ChunkOf(e) = Sub(r, k + 1)
    BY <1>4, <1>5, InChunk, Zenon
  <2>2. e - Start(ChunkOf(e)) = o
    BY <1>4, <1>5, <2>1, ChunkFacts
  <2>3. k = d + Loop /\ d < Loop /\ ~(k < Loop) /\ o < o + 1
    BY <1>1, <1>3, <1>4, <2>1
  <2>4. HeldAt(r, e, k, o + 1) = Complete(e, Owner(ChunkOf(e)))
    BY <1>2, <2>2, <2>3, Zenon DEF HeldAt
  <2>5. OnWire(Before(r), k, e) = Complete(e, Owner(ChunkOf(e)))
    BY <1>4, <2>1, <2>3, Zenon DEF OnWire
  <2> QED BY <1>5, <2>4, <2>5, Zenon
<1>6. CASE e # Start(Sub(r, k + 1)) + o
  <2>1. k = d + Loop =>
          (e - Start(ChunkOf(e)) < o + 1 <=> e - Start(ChunkOf(e)) < o)
    <3>1. Start(ChunkOf(e)) \in Int /\ e \in Int
      BY ChunkOfElem, ChunkFacts DEF Elem
    <3> QED BY <1>3, <1>4, <1>6, <3>1
  <2>2. HeldAt(r, e, k, o + 1) = HeldAt(r, e, k, o)
    BY <1>2, <2>1, Zenon DEF HeldAt
  <2> QED BY <1>6, <2>2, Zenon
<1> QED BY <1>5, <1>6, Zenon

\* The end of a step of the second loop changes no tensor.
LEMMA HeldGather ==
  ASSUME NEW r \in Rank, NEW k \in Loop .. 2 * Loop - 1, NEW e \in Elem
  PROVE  HeldAt(r, e, k + 1, 0) = HeldAt(r, e, k, Count(Sub(r, k + 1)))
<1>1. World \in Nat /\ World >= 2 /\ Loop = World - 1 /\ k \in World - 1 .. 2 * World - 3
  BY WorldAssumption DEF Loop
<1>2. PICK d : d = Sub(r, ChunkOf(e))
  OBVIOUS
<1>3. d \in 0 .. World - 1 /\ (ChunkOf(e) = Sub(r, k + 1) <=> k = d + Loop)
  BY <1>1, <1>2, Distance
<1>4. PICK i : i = e - Start(ChunkOf(e))
  OBVIOUS
<1>5. i \in 0 .. Count(ChunkOf(e)) - 1 /\ Count(ChunkOf(e)) \in Int
  BY <1>4, ChunkOfElem, ChunkFacts
<1>6. /\ ~(i < 0) /\ (k = d + Loop => i < Count(Sub(r, k + 1)))
  BY <1>3, <1>5
<1>7. d <= k /\ d <= k + 1 /\ (k + 1 > d + Loop <=> k > d + Loop \/ k = d + Loop)
  BY <1>1, <1>3
<1> QED BY <1>2, <1>4, <1>6, <1>7, Zenon DEF HeldAt

\* After both loops every element is complete.
LEMMA HeldAtEnd ==
  ASSUME NEW r \in Rank, NEW e \in Elem, NEW o
  PROVE  HeldAt(r, e, 2 * Loop, o) = Complete(e, Owner(ChunkOf(e)))
<1>1. World \in Nat /\ World >= 2 /\ Loop = World - 1
  BY WorldAssumption, Zenon DEF Loop
<1>2. PICK d : d = Sub(r, ChunkOf(e))
  OBVIOUS
<1>3. d \in 0 .. World - 1
  BY <1>1, <1>2, Distance, Zenon
<1>4. CASE d < Loop
  <2>1. 2 * Loop > d + Loop
    BY <1>1, <1>3, <1>4
  <2> QED BY <1>2, <1>4, <2>1, Zenon DEF HeldAt
<1>5. CASE d = World - 1
  <2>1. HeldAt(r, e, 2 * Loop, o) = Partial(r, World - 1, e)
    BY <1>1, <1>2, <1>5 DEF HeldAt
  <2>2. Owner(ChunkOf(e)) = r
    <3>1. ChunkOf(e) \in Rank
      BY ChunkOfElem, Zenon
    <3> QED BY <1>1, <1>2, <1>5, <3>1 DEF Owner, Sub, Rank
  <2> QED BY <2>1, <2>2, PartialIsComplete, Zenon
<1> QED BY <1>1, <1>3, <1>4, <1>5

\* Before the first step the tensor is the input.
LEMMA HeldFirst ==
  ASSUME NEW r \in Rank, NEW e \in Elem
  PROVE  HeldAt(r, e, 0, 0) = Partial(r, 0, e)
<1>1. 0 \in 0 .. Loop - 1
  BY WorldAssumption DEF Loop
<1>2. PICK d : d = Sub(r, ChunkOf(e))
  OBVIOUS
<1>3. d \in 0 .. World - 1
  BY <1>2, Distance, Zenon
<1>4. (IF d <= 0 THEN d ELSE 0) = 0
  BY <1>3
<1> QED BY <1>1, <1>2, <1>4, HeldScatter, Zenon
-----------------------------------------------------------------------------
-----------------------------------------------------------------------------
\* send_idx and recv_idx go down by one in every step of both loops.
LEMMA Indices ==
  ASSUME NEW r \in Rank, step[r] \in 0 .. 2 * Loop - 1
  PROVE  /\ SendIdx(r) = Sub(r, step[r])
         /\ RecvIdx(r) = Sub(r, step[r] + 1)
<1> DEFINE k == step[r]
<1>1. World \in Nat /\ World >= 2 /\ Loop = World - 1 /\ k \in 0 .. 2 * World - 3
  BY WorldAssumption DEF Loop
<1>2. r \in 0 .. World - 1
  BY Zenon DEF Rank
<1>3. Scattering(r) <=> k < World - 1
  BY Zenon DEF Scattering, Steps
<1> HIDE DEF k
<1>4. ASSUME k < World - 1
      PROVE  SendIdx(r) = Sub(r, k) /\ RecvIdx(r) = Sub(r, k + 1)
  <2>1. /\ SendIdx(r) = (r - k + World) % World
        /\ RecvIdx(r) = (r - k - 1 + World) % World
    BY <1>3, <1>4, Zenon DEF SendIdx, RecvIdx, k
  <2>2. r - k - 1 + World = r - (k + 1) + World
    BY <1>1, <1>2
  <2>3. /\ k \in 0 .. 2 * World - 1 /\ k <= World
        /\ k + 1 \in 0 .. 2 * World - 1 /\ k + 1 <= World
    BY <1>1, <1>4
  <2>4. (r - k + World) % World = Sub(r, k)
    BY <2>3, SubMod, Zenon
  <2>5. (r - (k + 1) + World) % World = Sub(r, k + 1)
    BY <2>3, SubMod, Zenon
  <2> QED BY <2>1, <2>2, <2>4, <2>5, Zenon
<1>5. ASSUME k >= World - 1
      PROVE  SendIdx(r) = Sub(r, k) /\ RecvIdx(r) = Sub(r, k + 1)
  <2>1. /\ SendIdx(r) = (r - (k - (World - 1)) + 1 + World) % World
        /\ RecvIdx(r) = (r - (k - (World - 1)) + World) % World
    BY <1>1, <1>3, <1>5 DEF SendIdx, RecvIdx, Steps, k
  <2>2. /\ r - (k - (World - 1)) + 1 + World = r - k + 2 * World
        /\ r - (k - (World - 1)) + World = r - (k + 1) + 2 * World
    BY <1>1, <1>2
  <2>3. /\ k \in 0 .. 2 * World - 1 /\ k >= World - 1
        /\ k + 1 \in 0 .. 2 * World - 1 /\ k + 1 >= World - 1
    BY <1>1, <1>5
  <2>4. (r - k + 2 * World) % World = Sub(r, k)
    BY <2>3, SubMod, Zenon
  <2>5. (r - (k + 1) + 2 * World) % World = Sub(r, k + 1)
    BY <2>3, SubMod, Zenon
  <2> QED BY <2>1, <2>2, <2>4, <2>5, Zenon
<1> QED BY <1>1, <1>4, <1>5 DEF k

\* The ranks before and after a rank.
LEMMA Neighbours ==
  ASSUME NEW r \in Rank
  PROVE  next(r) = After(r) /\ prev(r) = Before(r)
<1>1. World \in Nat /\ World >= 2
  BY WorldAssumption, Zenon
<1>2. next(r) = After(r)
  BY <1>1, ModWorld DEF next, Rank, After
<1>3. prev(r) = Before(r)
  BY <1>1, ModWorld DEF prev, Rank, Before, Sub
<1> QED BY <1>2, <1>3, Zenon

\* What allreduce_ring returns, on every rank.
RingResult == Reduction([e \in Elem |-> Owner(ChunkOf(e))])

\* How many elements rank r has written to the next rank, and the next rank
\* has read.
Written(r) == Moved(r, step[r]) + sent[r]

Read(r) == Moved(r, step[After(r)]) + rcvd[After(r)]

\* Where a rank is: the positions in a step are within its two chunks.
RingControl ==
  /\ phase \in [Rank -> {"idle", "running", "done"}]
  /\ step \in [Rank -> 0 .. 2 * Loop]
  /\ sent \in [Rank -> 0 .. PerRank]
  /\ rcvd \in [Rank -> 0 .. PerRank]
  /\ t \in [Rank -> [Elem -> Value]]
  /\ scratch \in [Rank -> [0 .. PerRank - 1 -> Value]]
  /\ wire \in Wires
  /\ \A r \in Rank :
       /\ phase[r] = "idle" => step[r] = 0 /\ sent[r] = 0 /\ rcvd[r] = 0
       /\ phase[r] = "done" => step[r] = 2 * Loop
       /\ step[r] = 2 * Loop => sent[r] = 0 /\ rcvd[r] = 0
       /\ step[r] < 2 * Loop => /\ sent[r] <= Count(Sub(r, step[r]))
                                 /\ rcvd[r] <= Count(Sub(r, step[r] + 1))

\* The socket from r to the next rank holds the part of r's stream between
\* what was written and what was read; there are no other streams.
RingStreams ==
  \A r \in Rank :
    /\ Carries(wire[r][After(r)], RingStream(r), Written(r), Read(r))
    /\ \A q \in Rank : q # After(r) => wire[r][q] = <<>>

\* The tensor of a rank is what its position says, and the result when the
\* call has returned.
RingTensors ==
  \A r \in Rank :
    IF phase[r] = "done" THEN t[r] = RingResult
    ELSE \A e \in Elem : t[r][e] = HeldAt(r, e, step[r], rcvd[r])

\* recv_view has the part of the chunk that has been received.
RingScratch ==
  \A r \in Rank : step[r] < Loop =>
    \A o \in 0 .. rcvd[r] - 1 :
      scratch[r][o] = Partial(Before(r), step[r], Start(Sub(r, step[r] + 1)) + o)

\* Every tensor that x sums is that of a rank that has entered the call.
Entered(x) == \A q \in Rank : x.cnt[q] # 0 => phase[q] # "idle"

\* So is everything a rank holds or has been sent.
RingCalled ==
  /\ \A r \in Rank : phase[r] # "idle" => \A e \in Elem : Entered(t[r][e])
  /\ \A r, q \in Rank : \A i \in 1 .. Len(wire[r][q]) : Entered(wire[r][q][i])
  /\ \A r \in Rank : step[r] < Loop =>
       \A o \in 0 .. rcvd[r] - 1 : Entered(scratch[r][o])

\* The inductive invariant of allreduce_ring.
RingInv == RingControl /\ RingStreams /\ RingTensors /\ RingScratch /\ RingCalled
-----------------------------------------------------------------------------
\* The lengths and places of the transfers of the current step.
LEMMA RingLens ==
  ASSUME NEW r \in Rank, step[r] \in 0 .. 2 * Loop - 1
  PROVE  /\ Scattering(r) <=> step[r] < Loop
         /\ SendLen(r) = Count(Sub(r, step[r]))
         /\ RecvLen(r) = Count(Sub(r, step[r] + 1))
         /\ SendAt(r) = Start(Sub(r, step[r])) + sent[r]
         /\ RecvAt(r) = Start(Sub(r, step[r] + 1)) + rcvd[r]
<1>1. /\ SendIdx(r) = Sub(r, step[r])
      /\ RecvIdx(r) = Sub(r, step[r] + 1)
  BY Indices, Zenon
<1> QED
  BY <1>1, Zenon DEF Scattering, Steps, Loop, SendLen, RecvLen,
                    SendAt, RecvAt

\* The actions of allreduce_ring, with the indices of the chunks worked out.
LEMMA RingEnterIs ==
  ASSUME NEW r, RingEnter(r)
  PROVE  /\ phase[r] = "idle" /\ phase' = [phase EXCEPT ![r] = "running"]
         /\ UNCHANGED <<step, sent, rcvd, t, scratch, wire>>
BY Zenon DEF RingEnter

\* A rank in a step of one of the loops is running.
LEMMA RingInStep ==
  ASSUME NEW r \in Rank, RingControl, InStep(r)
  PROVE  phase[r] = "running" /\ step[r] \in 0 .. 2 * Loop - 1
<1>1. step[r] \in 0 .. 2 * Loop /\ step[r] < 2 * Loop /\ Loop \in Int
  BY WorldAssumption DEF RingControl, InStep, Steps, Loop
<1>2. step[r] \in 0 .. 2 * Loop - 1
  BY <1>1
<1> QED BY <1>2, Zenon DEF InStep

\* A send of the ring, in terms of chunks: element sent[r] of chunk
\* r - step[r] goes to the next rank.
LEMMA RingSendIs ==
  ASSUME NEW r \in Rank, RingControl, RingSendElem(r)
  PROVE  /\ phase[r] = "running" /\ step[r] \in 0 .. 2 * Loop - 1
         /\ sent[r] \in 0 .. Count(Sub(r, step[r])) - 1
         /\ wire' = WirePut(wire, r, After(r), t[r][Start(Sub(r, step[r])) + sent[r]])
         /\ sent' = [sent EXCEPT ![r] = @ + 1]
         /\ UNCHANGED <<phase, step, rcvd, t, scratch>>
<1>1. InStep(r) /\ sent[r] < SendLen(r)
  BY Zenon DEF RingSendElem, RingSending
<1>2. phase[r] = "running" /\ step[r] \in 0 .. 2 * Loop - 1
  BY <1>1, RingInStep, Zenon
<1>3. sent[r] \in 0 .. Count(Sub(r, step[r])) - 1
  <2>1. sent[r] < Count(Sub(r, step[r])) /\ sent[r] \in Nat
    BY <1>1, <1>2, RingLens, PerFacts DEF RingControl
  <2>2. Count(Sub(r, step[r])) \in Nat
    <3>1. step[r] \in 0 .. 2 * World - 1
      BY <1>2, WorldAssumption DEF Loop
    <3> QED BY <3>1, CountNat, Zenon
  <2> QED BY <2>1, <2>2
<1>4. wire' = WirePut(wire, r, After(r), t[r][Start(Sub(r, step[r])) + sent[r]])
  <2>1. wire' = WirePut(wire, r, next(r), t[r][SendAt(r)])
    BY Zenon DEF RingSendElem
  <2>2. next(r) = After(r) /\ SendAt(r) = Start(Sub(r, step[r])) + sent[r]
    BY <1>2, RingLens, Neighbours, Zenon
  <2> QED BY <2>1, <2>2, Zenon
<1> QED BY <1>2, <1>3, <1>4, Zenon DEF RingSendElem

\* A receive of the ring, in terms of chunks: element rcvd[r] of chunk
\* r - step[r] - 1 comes from the previous rank, into recv_view in the first
\* loop and into the tensor in the second.
LEMMA RingRecvIs ==
  ASSUME NEW r \in Rank, RingControl, RingRecvElem(r)
  PROVE  /\ phase[r] = "running" /\ step[r] \in 0 .. 2 * Loop - 1
         /\ rcvd[r] \in 0 .. Count(Sub(r, step[r] + 1)) - 1
         /\ wire[Before(r)][r] # <<>>
         /\ IF step[r] < Loop
            THEN /\ scratch' = [scratch EXCEPT ![r][rcvd[r]] = Head(wire[Before(r)][r])]
                 /\ t' = t
            ELSE /\ t' = [t EXCEPT ![r][Start(Sub(r, step[r] + 1)) + rcvd[r]] =
                            Head(wire[Before(r)][r])]
                 /\ scratch' = scratch
         /\ wire' = WireDrop(wire, Before(r), r)
         /\ rcvd' = [rcvd EXCEPT ![r] = @ + 1]
         /\ UNCHANGED <<phase, step, sent>>
<1>1. InStep(r) /\ rcvd[r] < RecvLen(r)
  BY Zenon DEF RingRecvElem, RingReceiving
<1>2. phase[r] = "running" /\ step[r] \in 0 .. 2 * Loop - 1
  BY <1>1, RingInStep, Zenon
<1>3. rcvd[r] \in 0 .. Count(Sub(r, step[r] + 1)) - 1
  <2>1. rcvd[r] < Count(Sub(r, step[r] + 1)) /\ rcvd[r] \in Nat
    BY <1>1, <1>2, RingLens, PerFacts DEF RingControl
  <2>2. Count(Sub(r, step[r] + 1)) \in Nat
    <3>1. step[r] + 1 \in 0 .. 2 * World - 1
      BY <1>2, WorldAssumption DEF Loop
    <3> QED BY <3>1, CountNat, Zenon
  <2> QED BY <2>1, <2>2
<1>4. /\ prev(r) = Before(r) /\ RecvAt(r) = Start(Sub(r, step[r] + 1)) + rcvd[r]
      /\ Scattering(r) <=> step[r] < Loop
  BY <1>2, RingLens, Neighbours, Zenon
<1>5. wire[Before(r)][r] # <<>>
  BY <1>4, Zenon DEF RingRecvElem, CanRead
<1>6. wire' = WireDrop(wire, Before(r), r)
  BY <1>4, Zenon DEF RingRecvElem
<1>7. IF step[r] < Loop
      THEN /\ scratch' = [scratch EXCEPT ![r][rcvd[r]] = Head(wire[Before(r)][r])]
           /\ t' = t
      ELSE /\ t' = [t EXCEPT ![r][Start(Sub(r, step[r] + 1)) + rcvd[r]] =
                      Head(wire[Before(r)][r])]
           /\ scratch' = scratch
  BY <1>4, Zenon DEF RingRecvElem
<1> QED BY <1>2, <1>3, <1>5, <1>6, <1>7, Zenon DEF RingRecvElem

\* The tensor after reduce_into on the received chunk.
ReducedChunk(r) ==
  [e \in Elem |->
     IF ChunkOf(e) = Sub(r, step[r] + 1)
     THEN ReduceInto(r, t[r][e], scratch[r][e - Start(Sub(r, step[r] + 1))])
     ELSE t[r][e]]

\* The end of a step of the ring, in terms of chunks.
LEMMA RingEndIs ==
  ASSUME NEW r \in Rank, RingControl, EndStep(r)
  PROVE  /\ phase[r] = "running" /\ step[r] \in 0 .. 2 * Loop - 1
         /\ sent[r] = Count(Sub(r, step[r])) /\ rcvd[r] = Count(Sub(r, step[r] + 1))
         /\ t' = [t EXCEPT ![r] = IF step[r] < Loop THEN ReducedChunk(r) ELSE t[r]]
         /\ step' = [step EXCEPT ![r] = @ + 1]
         /\ sent' = [sent EXCEPT ![r] = 0]
         /\ rcvd' = [rcvd EXCEPT ![r] = 0]
         /\ UNCHANGED <<phase, scratch, wire>>
<1>1. InStep(r) /\ sent[r] = SendLen(r) /\ rcvd[r] = RecvLen(r)
  BY Zenon DEF EndStep
<1>2. phase[r] = "running" /\ step[r] \in 0 .. 2 * Loop - 1
  BY <1>1, RingInStep, Zenon
<1>3. sent[r] = Count(Sub(r, step[r])) /\ rcvd[r] = Count(Sub(r, step[r] + 1))
  BY <1>1, <1>2, RingLens, Zenon
<1>4. RecvIdx(r) = Sub(r, step[r] + 1) /\ (Scattering(r) <=> step[r] < Loop)
  BY <1>2, RingLens, Indices, Zenon
<1>5. RingReduced(r) = ReducedChunk(r)
  <2>1. Sub(r, step[r] + 1) \in Rank
    <3>1. step[r] + 1 \in 0 .. 2 * World - 1
      BY <1>2, WorldAssumption DEF Loop
    <3> QED BY <3>1, SubFacts, Zenon
  <2>2. \A e \in Elem : e \in Elems(RecvIdx(r)) <=> ChunkOf(e) = RecvIdx(r)
    BY <1>4, <2>1, ChunkFacts, Zenon
  <2> QED BY <1>4, <2>2, Zenon DEF RingReduced, ReducedChunk
<1>6. t' = [t EXCEPT ![r] = IF step[r] < Loop THEN ReducedChunk(r) ELSE t[r]]
  BY <1>4, <1>5, Zenon DEF EndStep
<1> QED BY <1>2, <1>3, <1>6, Zenon DEF EndStep

\* The end of allreduce_ring: scale_if_avg.
LEMMA RingReturnIs ==
  ASSUME NEW r \in Rank, RingControl, RingReturn(r)
  PROVE  /\ phase[r] = "running" /\ step[r] = 2 * Loop
         /\ t' = [t EXCEPT ![r] = ScaleIfAvg(t[r])]
         /\ phase' = [phase EXCEPT ![r] = "done"]
         /\ UNCHANGED <<step, sent, rcvd, scratch, wire>>
BY Zenon DEF RingReturn, Steps, Loop
-----------------------------------------------------------------------------
\* What rank r sends next is what belongs at that place of its stream.
LEMMA RingSends ==
  ASSUME RingInv, NEW r \in Rank, phase[r] = "running", step[r] \in 0 .. 2 * Loop - 1,
         sent[r] \in 0 .. Count(Sub(r, step[r])) - 1
  PROVE  /\ Start(Sub(r, step[r])) + sent[r] \in Elem
         /\ Written(r) \in Nat
         /\ t[r][Start(Sub(r, step[r])) + sent[r]] = RingStream(r)[Written(r)]
<1> DEFINE c == Sub(r, step[r])
           e == Start(c) + sent[r]
<1>1. step[r] \in 0 .. 2 * World - 1
  BY WorldAssumption DEF Loop
<1>2. c \in Rank
  BY <1>1, SubFacts, Zenon
<1> HIDE DEF c
<1>3. e \in Elem /\ ChunkOf(e) = c
  BY <1>2, InChunk, Zenon DEF c
<1>4. rcvd[r] \in Nat
  BY PerFacts DEF RingInv, RingControl
<1>5. t[r][e] = HeldAt(r, e, step[r], rcvd[r])
  BY <1>3, Zenon DEF RingInv, RingTensors
<1> HIDE DEF e
<1>6. t[r][e] = OnWire(r, step[r], e)
  BY <1>3, <1>4, <1>5, HeldSent, Zenon DEF c
<1>7. RingStream(r)[Written(r)] = OnWire(r, step[r], e)
  BY RingPlace, Zenon DEF Written, e, c
<1>8. Written(r) \in Nat
  <2>1. Moved(r, step[r]) \in Nat
    BY <1>1, MovedMono, Zenon
  <2> QED BY <2>1, <1>2, CountNat DEF Written, c
<1> QED BY <1>3, <1>6, <1>7, <1>8, Zenon DEF e, c

\* What rank r receives next is what belongs at the place it has come to.
LEMMA RingReceives ==
  ASSUME RingInv, NEW r \in Rank, phase[r] = "running", step[r] \in 0 .. 2 * Loop - 1,
         rcvd[r] \in 0 .. Count(Sub(r, step[r] + 1)) - 1, wire[Before(r)][r] # <<>>
  PROVE  /\ Start(Sub(r, step[r] + 1)) + rcvd[r] \in Elem
         /\ Head(wire[Before(r)][r]) =
              OnWire(Before(r), step[r], Start(Sub(r, step[r] + 1)) + rcvd[r])
         /\ Head(wire[Before(r)][r]) \in Value
         /\ Read(Before(r)) = Moved(Before(r), step[r]) + rcvd[r]
         /\ Carries(Tail(wire[Before(r)][r]), RingStream(Before(r)),
                    Written(Before(r)), Read(Before(r)) + 1)
<1> DEFINE p == Before(r)
           k == step[r]
<1>1. p \in Rank /\ After(p) = r
  BY RankArith, Zenon
<1>2. k \in 0 .. 2 * World - 2 /\ k + 1 \in 0 .. 2 * World - 1 /\ k \in 0 .. 2 * World - 1
  BY WorldAssumption DEF Loop
<1>3. Sub(p, k) = Sub(r, k + 1) /\ Sub(r, k + 1) \in Rank
  BY <1>2, RankArith, SubFacts, Zenon
<1>4. Read(p) = Moved(p, k) + rcvd[r]
  BY <1>1, Zenon DEF Read
<1>5. Carries(wire[p][r], RingStream(p), Written(p), Read(p))
  BY <1>1, Zenon DEF RingInv, RingStreams
<1>6. Moved(p, k) \in Nat /\ rcvd[r] \in Nat
  BY <1>1, <1>2, MovedMono, PerFacts DEF RingInv, RingControl
<1>7. Written(p) \in Nat
  <2>1. step[p] \in 0 .. 2 * World - 1 /\ sent[p] \in Nat
    <3>1. step[p] \in 0 .. 2 * Loop /\ sent[p] \in 0 .. PerRank
      BY <1>1, Zenon DEF RingInv, RingControl
    <3>2. PerRank \in Nat /\ World \in Nat /\ World >= 2
      BY PerFacts, WorldAssumption, Zenon
    <3> HIDE DEF p
    <3> QED BY <3>1, <3>2 DEF Loop
  <2> QED BY <1>1, <2>1, MovedMono DEF Written
<1>8. Read(p) \in Nat
  BY <1>4, <1>6
<1>9. /\ Head(wire[p][r]) = RingStream(p)[Read(p)] /\ RingStream(p)[Read(p)] \in Value
      /\ Carries(Tail(wire[p][r]), RingStream(p), Written(p), Read(p) + 1)
  BY <1>5, <1>7, <1>8, CarriesTake, Zenon
<1>10. RingStream(p)[Read(p)] = OnWire(p, k, Start(Sub(r, k + 1)) + rcvd[r])
  BY <1>1, <1>3, <1>4, RingPlace
<1>11. Start(Sub(r, k + 1)) + rcvd[r] \in Elem
  BY <1>3, InChunk, Zenon
<1> QED BY <1>4, <1>9, <1>10, <1>11, Zenon
-----------------------------------------------------------------------------
\* A rank enters allreduce_ring.
LEMMA RingEnterStep ==
  ASSUME RingInv, NEW r \in Rank, RingEnter(r)
  PROVE  RingInv'
<1>1. /\ phase[r] = "idle" /\ phase' = [phase EXCEPT ![r] = "running"]
      /\ UNCHANGED <<step, sent, rcvd, t, scratch, wire>>
  BY RingEnterIs, Zenon
<1>2. \A q \in Rank : phase'[q] = IF q = r THEN "running" ELSE phase[q]
  BY <1>1, Zenon DEF RingInv, RingControl
<1>3. RingControl'
  BY <1>1, <1>2, Zenon DEF RingInv, RingControl
<1>4. RingStreams' /\ RingScratch'
  BY <1>1, Zenon DEF RingInv, RingStreams, RingScratch, Written, Read
<1>5. RingTensors'
  BY <1>1, <1>2 DEF RingInv, RingTensors
<1>6. \A x : Entered(x) => Entered(x)'
  BY <1>1, <1>2, Zenon DEF Entered
<1>7. ASSUME NEW e \in Elem PROVE Entered(t[r][e])'
  <2>1. step[r] = 0 /\ rcvd[r] = 0
    BY <1>1, Zenon DEF RingInv, RingControl
  <2>2. t[r][e] = Partial(r, 0, e)
    BY <1>1, <2>1, HeldFirst, Zenon DEF RingInv, RingTensors
  <2>3. \A q \in Rank : t[r][e].cnt[q] # 0 => q = r
    BY <2>2, WorldAssumption DEF Partial, Sub, Rank
  <2> QED BY <1>1, <1>2, <2>3 DEF Entered
<1>8. RingCalled'
  BY <1>1, <1>2, <1>6, <1>7, Zenon DEF RingInv, RingCalled
<1> QED BY <1>3, <1>4, <1>5, <1>8, Zenon DEF RingInv

\* A send keeps the invariant.
LEMMA RingSendStep ==
  ASSUME RingInv, NEW r \in Rank, RingSendElem(r)
  PROVE  RingInv'
<1> DEFINE x == t[r][Start(Sub(r, step[r])) + sent[r]]
           n == After(r)
<1>1. /\ phase[r] = "running" /\ step[r] \in 0 .. 2 * Loop - 1
      /\ sent[r] \in 0 .. Count(Sub(r, step[r])) - 1
      /\ wire' = WirePut(wire, r, n, x)
      /\ sent' = [sent EXCEPT ![r] = @ + 1]
      /\ UNCHANGED <<phase, step, rcvd, t, scratch>>
  BY RingSendIs, Zenon DEF RingInv
<1>2. /\ Start(Sub(r, step[r])) + sent[r] \in Elem /\ Written(r) \in Nat
      /\ x = RingStream(r)[Written(r)]
  BY <1>1, RingSends, Zenon
<1>3. n \in Rank /\ n # r
  BY RankArith, Zenon
<1>4. x \in Value /\ Entered(x)
  BY <1>1, <1>2, Zenon DEF RingInv, RingControl, RingCalled
<1> HIDE DEF x, n
<1>5. /\ wire' \in Wires /\ wire'[r][n] = Append(wire[r][n], x)
      /\ \A p, q \in Rank : p # r \/ q # n => wire'[p][q] = wire[p][q]
  <2>1. wire \in Wires
    BY Zenon DEF RingInv, RingControl
  <2>2. wire' = WirePut(wire, r, n, x)
    BY <1>1, Zenon
  <2>3. OnePut(wire', wire, r, n, x)
    BY <1>3, <1>4, <2>1, <2>2, PutOne, Zenon
  <2> QED BY <2>3, Zenon DEF OnePut
<1>6. \A p \in Rank : sent'[p] = IF p = r THEN sent[r] + 1 ELSE sent[p]
  BY <1>1, Zenon DEF RingInv, RingControl
<1>7. RingControl'
  <2>1. sent[r] + 1 <= Count(Sub(r, step[r])) /\ sent[r] + 1 \in 0 .. PerRank
    <3>1. Sub(r, step[r]) \in Rank
      BY <1>1, SubFacts, WorldAssumption DEF Loop
    <3>2. Count(Sub(r, step[r])) \in 0 .. PerRank /\ PerRank \in Nat
      BY <3>1, ChunkFacts, PerFacts, Zenon
    <3> QED BY <1>1, <3>2
  <2>2. sent' \in [Rank -> 0 .. PerRank]
    BY <1>1, <2>1, Zenon DEF RingInv, RingControl
  <2>3. step[r] # 2 * Loop
    BY <1>1, WorldAssumption DEF Loop
  <2> QED BY <1>1, <1>5, <1>6, <2>1, <2>2, <2>3, Zenon DEF RingInv, RingControl
<1>8. RingStreams'
  <2> SUFFICES ASSUME NEW p \in Rank
               PROVE  /\ Carries(wire'[p][After(p)], RingStream(p), Written(p)', Read(p)')
                      /\ \A q \in Rank : q # After(p) => wire'[p][q] = <<>>
    BY Zenon DEF RingStreams
  <2>1. /\ Carries(wire[p][After(p)], RingStream(p), Written(p), Read(p))
        /\ \A q \in Rank : q # After(p) => wire[p][q] = <<>>
    BY Zenon DEF RingInv, RingStreams
  <2>2. Read(p)' = Read(p)
    BY <1>1, Zenon DEF Read
  <2>3. After(p) \in Rank
    BY RankArith, Zenon
  <2>4. CASE p # r
    <3>1. Written(p)' = Written(p)
      BY <1>1, <1>6, <2>4, Zenon DEF Written
    <3> QED BY <1>5, <2>1, <2>2, <2>3, <2>4, <3>1, Zenon
  <2>5. CASE p = r
    <3>1. Written(r)' = Written(r) + 1
      <4>1. Moved(r, step[r]) \in Nat
        BY <1>1, MovedMono, WorldAssumption DEF Loop
      <4> QED BY <1>1, <1>6, <4>1 DEF Written
    <3>2. Read(r) \in Nat
      <4>1. step[n] \in 0 .. 2 * World - 1 /\ rcvd[n] \in Nat
        BY <1>3, PerFacts, WorldAssumption DEF RingInv, RingControl, Loop
      <4>2. Moved(r, step[n]) \in Nat
        BY <4>1, MovedMono, Zenon
      <4> QED BY <4>1, <4>2 DEF Read, n
    <3>3. Carries(Append(wire[r][n], x), RingStream(r), Written(r) + 1, Read(r))
      <4>1. Carries(wire[r][n], RingStream(r), Written(r), Read(r))
        BY <2>1, <2>5, Zenon DEF n
      <4> QED BY <1>2, <1>4, <3>2, <4>1, CarriesPut, Zenon
    <3> QED BY <1>5, <2>1, <2>2, <2>5, <3>1, <3>3, Zenon DEF n
  <2> QED BY <2>4, <2>5, Zenon
<1>9. RingTensors' /\ RingScratch'
  BY <1>1, Zenon DEF RingInv, RingTensors, RingScratch
<1>10. RingCalled'
  <2>1. \A y : Entered(y)' <=> Entered(y)
    BY <1>1, Zenon DEF Entered
  <2>2. ASSUME NEW p \in Rank, NEW q \in Rank, NEW i \in 1 .. Len(wire'[p][q])
        PROVE  Entered(wire'[p][q][i])
    <3>1. CASE p = r /\ q = n
      <4>1. wire[r][n] \in Seq(Value)
        BY <1>3 DEF RingInv, RingControl, Wires
      <4>2. /\ Len(wire[r][n]) \in Nat
            /\ Len(Append(wire[r][n], x)) = Len(wire[r][n]) + 1
            /\ \A j \in 1 .. Len(wire[r][n]) : Append(wire[r][n], x)[j] = wire[r][n][j]
            /\ Append(wire[r][n], x)[Len(wire[r][n]) + 1] = x
        BY <1>4, <4>1, AppendAt
      <4>3. \A j \in 1 .. Len(wire[r][n]) : Entered(wire[r][n][j])
        BY <1>3, Zenon DEF RingInv, RingCalled
      <4>4. i \in 1 .. Len(wire[r][n]) \/ i = Len(wire[r][n]) + 1
        BY <1>5, <2>2, <3>1, <4>2
      <4> QED BY <1>4, <1>5, <3>1, <4>2, <4>3, <4>4, Zenon
    <3>2. CASE p # r \/ q # n
      BY <1>5, <2>2, <3>2 DEF RingInv, RingCalled
    <3> QED BY <3>1, <3>2, Zenon
  <2> QED BY <1>1, <2>1, <2>2, Zenon DEF RingInv, RingCalled
<1> QED BY <1>7, <1>8, <1>9, <1>10, Zenon DEF RingInv

\* A receive keeps the invariant.
LEMMA RingRecvStep ==
  ASSUME RingInv, NEW r \in Rank, RingRecvElem(r)
  PROVE  RingInv'
<1> DEFINE p == Before(r)
           k == step[r]
           c == Sub(r, k + 1)
           e == Start(c) + rcvd[r]
           x == Head(wire[p][r])
<1>1. /\ phase[r] = "running" /\ step[r] \in 0 .. 2 * Loop - 1
      /\ rcvd[r] \in 0 .. Count(Sub(r, step[r] + 1)) - 1
      /\ wire[p][r] # <<>>
      /\ IF k < Loop
         THEN scratch' = [scratch EXCEPT ![r][rcvd[r]] = x] /\ t' = t
         ELSE t' = [t EXCEPT ![r][e] = x] /\ scratch' = scratch
      /\ wire' = WireDrop(wire, p, r)
      /\ rcvd' = [rcvd EXCEPT ![r] = @ + 1]
      /\ UNCHANGED <<phase, step, sent>>
  BY RingRecvIs, Zenon DEF RingInv
<1>2. /\ e \in Elem /\ x = OnWire(p, k, e) /\ x \in Value
      /\ Read(p) = Moved(p, k) + rcvd[r]
      /\ Carries(Tail(wire[p][r]), RingStream(p), Written(p), Read(p) + 1)
  BY <1>1, RingReceives, Zenon
<1>3. p \in Rank /\ p # r /\ After(p) = r /\ World \in Nat /\ World >= 2 /\ Loop = World - 1
  BY RankArith, WorldAssumption, Zenon DEF Loop
<1>4. c \in Rank /\ k + 1 \in 0 .. 2 * World - 1 /\ k \in 0 .. 2 * World - 1
  BY <1>1, <1>3, SubFacts
<1>5. Entered(x)
  <2>1. wire[p][r] \in Seq(Value)
    BY <1>3, Zenon DEF RingInv, RingControl, Wires
  <2>2. x = wire[p][r][1] /\ Len(wire[p][r]) \in Nat /\ Len(wire[p][r]) > 0
    BY <1>1, <2>1, TailAt, Zenon
  <2> QED BY <1>3, <2>2 DEF RingInv, RingCalled
<1> HIDE DEF x, p, e, c
<1>6. /\ wire' \in Wires /\ wire'[p][r] = Tail(wire[p][r])
      /\ \A a, b \in Rank : a # p \/ b # r => wire'[a][b] = wire[a][b]
  <2>1. wire \in Wires
    BY Zenon DEF RingInv, RingControl
  <2>2. wire' = WireDrop(wire, p, r) /\ wire[p][r] # <<>>
    BY <1>1, Zenon
  <2>3. OneDrop(wire', wire, p, r)
    BY <1>3, <2>1, <2>2, DropOne, Zenon
  <2> QED BY <2>3, Zenon DEF OneDrop
<1>7. \A q \in Rank : rcvd'[q] = IF q = r THEN rcvd[r] + 1 ELSE rcvd[q]
  BY <1>1, Zenon DEF RingInv, RingControl
<1>8. /\ rcvd[r] \in 0 .. PerRank - 1 /\ rcvd[r] \in Nat
      /\ ChunkOf(e) = c /\ Count(c) \in 0 .. PerRank
  <2>1. PerRank \in Nat /\ Count(c) \in 0 .. PerRank
    BY <1>4, ChunkFacts, PerFacts, Zenon
  <2>2. rcvd[r] \in 0 .. Count(c) - 1
    BY <1>1, Zenon DEF c
  <2>3. ChunkOf(e) = c
    BY <1>4, <2>2, InChunk, Zenon DEF c, e
  <2> QED BY <2>1, <2>2, <2>3
<1>9. /\ \A q \in Rank : \A f \in Elem :
           t'[q][f] = IF k >= Loop /\ q = r /\ f = e THEN x ELSE t[q][f]
      /\ t' \in [Rank -> [Elem -> Value]]
  <2>1. t \in [Rank -> [Elem -> Value]] /\ k \in Int
    BY <1>4 DEF RingInv, RingControl
  <2>2. CASE k < Loop
    BY <1>1, <1>3, <2>1, <2>2
  <2>3. CASE ~(k < Loop)
    <3>1. t' = [t EXCEPT ![r][e] = x] /\ k >= Loop
      BY <1>1, <1>3, <2>1, <2>3
    <3> QED BY <1>2, <2>1, <3>1, Zenon
  <2> QED BY <2>2, <2>3, Zenon
<1>10. /\ \A q \in Rank : \A o \in 0 .. PerRank - 1 :
            scratch'[q][o] = IF k < Loop /\ q = r /\ o = rcvd[r] THEN x ELSE scratch[q][o]
       /\ scratch' \in [Rank -> [0 .. PerRank - 1 -> Value]]
  <2>1. scratch \in [Rank -> [0 .. PerRank - 1 -> Value]]
    BY Zenon DEF RingInv, RingControl
  <2>2. CASE k < Loop
    <3>1. scratch' = [scratch EXCEPT ![r][rcvd[r]] = x]
      BY <1>1, <2>2, Zenon
    <3> QED BY <1>2, <1>8, <2>1, <2>2, <3>1, Zenon
  <2>3. CASE ~(k < Loop)
    BY <1>1, <2>1, <2>3, Zenon
  <2> QED BY <2>2, <2>3, Zenon
<1>11. RingControl'
  <2>1. rcvd[r] + 1 <= Count(c) /\ rcvd[r] + 1 \in 0 .. PerRank
    BY <1>1, <1>8, PerFacts DEF c
  <2>2. rcvd' \in [Rank -> 0 .. PerRank]
    BY <1>1, <2>1, Zenon DEF RingInv, RingControl
  <2>3. step[r] # 2 * Loop
    BY <1>1, WorldAssumption DEF Loop
  <2> QED BY <1>1, <1>6, <1>7, <1>9, <1>10, <2>1, <2>2, <2>3 DEF RingInv, RingControl, c
<1>12. RingStreams'
  <2> SUFFICES ASSUME NEW q \in Rank
               PROVE  /\ Carries(wire'[q][After(q)], RingStream(q), Written(q)', Read(q)')
                      /\ \A b \in Rank : b # After(q) => wire'[q][b] = <<>>
    BY Zenon DEF RingStreams
  <2>1. /\ Carries(wire[q][After(q)], RingStream(q), Written(q), Read(q))
        /\ \A b \in Rank : b # After(q) => wire[q][b] = <<>>
    BY Zenon DEF RingInv, RingStreams
  <2>2. Written(q)' = Written(q)
    BY <1>1, Zenon DEF Written
  <2>3. After(q) \in Rank /\ Before(After(q)) = q
    BY RankArith, Zenon
  <2>4. CASE q # p
    <3>1. Read(q)' = Read(q)
      BY <1>1, <1>7, <2>3, <2>4, Zenon DEF Read, p
    <3> QED BY <1>6, <2>1, <2>2, <2>3, <2>4, <3>1, Zenon
  <2>5. CASE q = p
    <3>1. Read(p)' = Read(p) + 1
      <4>1. Moved(p, k) \in Nat
        BY <1>3, <1>4, MovedMono, Zenon
      <4>2. Read(p)' = Moved(p, k) + (rcvd[r] + 1)
        BY <1>1, <1>3, <1>7, Zenon DEF Read
      <4> QED BY <1>2, <1>8, <4>1, <4>2
    <3> QED BY <1>2, <1>3, <1>6, <2>1, <2>2, <2>5, <3>1, Zenon
  <2> QED BY <2>4, <2>5, Zenon
<1>13. RingTensors'
  <2> SUFFICES ASSUME NEW q \in Rank
               PROVE  IF phase'[q] = "done" THEN t'[q] = RingResult
                      ELSE \A f \in Elem : t'[q][f] = HeldAt(q, f, step'[q], rcvd'[q])
    BY Zenon DEF RingTensors
  <2>1. IF phase[q] = "done" THEN t[q] = RingResult
        ELSE \A f \in Elem : t[q][f] = HeldAt(q, f, step[q], rcvd[q])
    BY Zenon DEF RingInv, RingTensors
  <2>2. CASE q # r
    <3>1. t'[q] = t[q]
      BY <1>1, <2>2, Zenon DEF RingInv, RingControl
    <3> QED BY <1>1, <1>7, <2>1, <2>2, <3>1, Zenon
  <2>3. CASE q = r
    <3> SUFFICES ASSUME NEW f \in Elem
                 PROVE  t'[r][f] = HeldAt(r, f, k, rcvd[r] + 1)
      BY <1>1, <1>7, <2>3, Zenon
    <3>1. t[r][f] = HeldAt(r, f, k, rcvd[r])
      BY <1>1, <2>1, <2>3, Zenon
    <3>2. CASE k < Loop
      <4>1. k \in 0 .. Loop - 1 /\ rcvd[r] + 1 \in Nat
        BY <1>1, <1>3, <1>8, <3>2
      <4>2. HeldAt(r, f, k, rcvd[r]) = HeldAt(r, f, k, rcvd[r] + 1)
        BY <1>8, <4>1, HeldScatter
      <4> QED BY <1>1, <3>1, <3>2, <4>2, Zenon
    <3>3. CASE ~(k < Loop)
      <4>1. k \in Loop .. 2 * Loop - 1
        BY <1>1, <1>3, <3>3
      <4>2. HeldAt(r, f, k, rcvd[r] + 1) =
              IF f = e THEN OnWire(p, k, f) ELSE HeldAt(r, f, k, rcvd[r])
        BY <1>1, <4>1, HeldReceive, Zenon DEF p, e, c
      <4>3. t'[r][f] = IF f = e THEN x ELSE t[r][f]
        BY <1>3, <1>9, <4>1
      <4> QED BY <1>2, <3>1, <4>2, <4>3
    <3> QED BY <3>2, <3>3, Zenon
  <2> QED BY <2>2, <2>3, Zenon
<1>14. RingScratch'
  <2> SUFFICES ASSUME NEW q \in Rank, step[q] < Loop, NEW o \in 0 .. rcvd'[q] - 1
               PROVE  scratch'[q][o] =
                        Partial(Before(q), step[q], Start(Sub(q, step[q] + 1)) + o)
    BY <1>1, Zenon DEF RingScratch
  <2>1. \A i \in 0 .. rcvd[q] - 1 : scratch[q][i] =
          Partial(Before(q), step[q], Start(Sub(q, step[q] + 1)) + i)
    BY Zenon DEF RingInv, RingScratch
  <2>2. rcvd'[q] \in 0 .. PerRank /\ rcvd[q] \in 0 .. PerRank
    BY <1>11, Zenon DEF RingInv, RingControl
  <2>3. o \in 0 .. PerRank - 1
    BY <2>2, PerFacts
  <2>4. CASE q # r
    <3>1. scratch'[q][o] = scratch[q][o]
      BY <1>10, <2>3, <2>4, Zenon
    <3> QED BY <1>7, <2>1, <2>4, <3>1, Zenon
  <2>5. CASE q = r /\ o = rcvd[r]
    <3>1. x = Partial(p, k, e)
      BY <1>2, <2>5, Zenon DEF OnWire
    <3>2. scratch'[q][o] = x
      BY <1>10, <2>3, <2>5, Zenon
    <3> QED BY <2>5, <3>1, <3>2, Zenon DEF e, c, p
  <2>6. CASE q = r /\ o # rcvd[r]
    <3>1. o \in 0 .. rcvd[r] - 1
      BY <1>7, <1>8, <2>2, <2>6
    <3>2. scratch'[q][o] = scratch[q][o]
      BY <1>10, <2>3, <2>6, Zenon
    <3> QED BY <2>1, <2>6, <3>1, <3>2, Zenon
  <2> QED BY <2>4, <2>5, <2>6, Zenon
<1>15. RingCalled'
  <2>1. \A y : Entered(y)' <=> Entered(y)
    BY <1>1, Zenon DEF Entered
  <2>2. ASSUME NEW a \in Rank, NEW b \in Rank, NEW i \in 1 .. Len(wire'[a][b])
        PROVE  Entered(wire'[a][b][i])
    <3>1. CASE a = p /\ b = r
      <4>1. wire[p][r] \in Seq(Value)
        BY <1>3 DEF RingInv, RingControl, Wires
      <4>2. /\ Len(wire[p][r]) \in Nat /\ Len(Tail(wire[p][r])) = Len(wire[p][r]) - 1
            /\ \A j \in 1 .. Len(wire[p][r]) - 1 : Tail(wire[p][r])[j] = wire[p][r][j + 1]
        BY <1>1, <4>1, TailAt, Zenon
      <4>3. \A j \in 1 .. Len(wire[p][r]) : Entered(wire[p][r][j])
        BY <1>3, Zenon DEF RingInv, RingCalled
      <4>4. i \in 1 .. Len(wire[p][r]) - 1 /\ i + 1 \in 1 .. Len(wire[p][r])
        <5>1. Len(wire'[a][b]) = Len(wire[p][r]) - 1
          BY <1>6, <3>1, <4>2, Zenon
        <5> QED BY <2>2, <4>2, <5>1
      <4> QED BY <1>6, <3>1, <4>2, <4>3, <4>4, Zenon
    <3>2. CASE a # p \/ b # r
      <4>1. wire'[a][b] = wire[a][b]
        BY <1>6, <3>2, Zenon
      <4> QED BY <2>2, <4>1, Zenon DEF RingInv, RingCalled
    <3> QED BY <3>1, <3>2, Zenon
  <2>3. ASSUME NEW q \in Rank, phase[q] # "idle", NEW f \in Elem
        PROVE  Entered(t'[q][f])
    <3>1. Entered(t[q][f])
      BY <2>3, Zenon DEF RingInv, RingCalled
    <3> QED BY <1>5, <1>9, <3>1, Zenon
  <2>4. ASSUME NEW q \in Rank, step[q] < Loop, NEW o \in 0 .. rcvd'[q] - 1
        PROVE  Entered(scratch'[q][o])
    <3>1. rcvd'[q] \in 0 .. PerRank /\ rcvd[q] \in 0 .. PerRank
      BY <1>11, Zenon DEF RingInv, RingControl
    <3>2. o \in 0 .. PerRank - 1
      BY <3>1, PerFacts
    <3>3. o \in 0 .. rcvd[q] - 1 => Entered(scratch[q][o])
      BY <2>4, Zenon DEF RingInv, RingCalled
    <3>4. o \in 0 .. rcvd[q] - 1 \/ (q = r /\ o = rcvd[r])
      BY <1>7, <3>1
    <3>5. scratch'[q][o] = IF k < Loop /\ q = r /\ o = rcvd[r] THEN x ELSE scratch[q][o]
      BY <1>10, <3>2, Zenon
    <3> QED BY <1>5, <2>4, <3>3, <3>4, <3>5, Zenon
  <2> QED BY <1>1, <2>1, <2>2, <2>3, <2>4, Zenon DEF RingCalled
<1> QED BY <1>11, <1>12, <1>13, <1>14, <1>15, Zenon DEF RingInv

\* The end of a step keeps the invariant.
LEMMA RingEndStep ==
  ASSUME RingInv, NEW r \in Rank, EndStep(r)
  PROVE  RingInv'
<1> DEFINE k == step[r]
           c == Sub(r, k + 1)
<1>1. /\ phase[r] = "running" /\ step[r] \in 0 .. 2 * Loop - 1
      /\ sent[r] = Count(Sub(r, step[r])) /\ rcvd[r] = Count(c)
      /\ t' = [t EXCEPT ![r] = IF k < Loop THEN ReducedChunk(r) ELSE t[r]]
      /\ step' = [step EXCEPT ![r] = @ + 1]
      /\ sent' = [sent EXCEPT ![r] = 0]
      /\ rcvd' = [rcvd EXCEPT ![r] = 0]
      /\ UNCHANGED <<phase, scratch, wire>>
  BY RingEndIs, Zenon DEF RingInv
<1>2. World \in Nat /\ World >= 2 /\ Loop = World - 1
  BY WorldAssumption, Zenon DEF Loop
<1>3. /\ c \in Rank /\ k + 1 \in 0 .. 2 * World - 1 /\ k \in 0 .. 2 * World - 2
      /\ k + 1 \in 0 .. 2 * Loop
  <2>1. /\ k + 1 \in 0 .. 2 * World - 1 /\ k \in 0 .. 2 * World - 2
        /\ k + 1 \in 0 .. 2 * Loop
    BY <1>1, <1>2
  <2> QED BY <2>1, SubFacts, Zenon
<1>4. /\ \A q \in Rank : step'[q] = IF q = r THEN k + 1 ELSE step[q]
      /\ \A q \in Rank : sent'[q] = IF q = r THEN 0 ELSE sent[q]
      /\ \A q \in Rank : rcvd'[q] = IF q = r THEN 0 ELSE rcvd[q]
  <2>1. /\ step \in [Rank -> 0 .. 2 * Loop]
        /\ sent \in [Rank -> 0 .. PerRank] /\ rcvd \in [Rank -> 0 .. PerRank]
    BY Zenon DEF RingInv, RingControl
  <2>2. step' = [step EXCEPT ![r] = k + 1]
    BY <1>1, Zenon
  <2> QED BY <1>1, <2>1, <2>2, Zenon
<1> HIDE DEF c
<1>5. ASSUME NEW e \in Elem, k < Loop, ChunkOf(e) = c
      PROVE  /\ scratch[r][e - Start(c)] = Partial(Before(r), k, e)
             /\ Entered(scratch[r][e - Start(c)])
  <2>1. e - Start(c) \in 0 .. Count(c) - 1
    BY <1>5, ChunkOfElem, Zenon
  <2>2. Start(c) + (e - Start(c)) = e
    <3>1. Start(c) \in Int /\ e \in Int
      BY <1>3, ChunkFacts DEF Elem
    <3> QED BY <3>1
  <2>3. \A o \in 0 .. Count(c) - 1 : /\ scratch[r][o] = Partial(Before(r), k, Start(c) + o)
                                   /\ Entered(scratch[r][o])
    BY <1>1, <1>5, Zenon DEF RingInv, RingScratch, RingCalled, c
  <2> QED BY <2>1, <2>2, <2>3, Zenon
<1>6. ASSUME NEW e \in Elem
      PROVE  t'[r][e] = HeldAt(r, e, k + 1, 0)
  <2>1. t[r][e] = HeldAt(r, e, k, rcvd[r])
    BY <1>1, Zenon DEF RingInv, RingTensors
  <2>2. CASE k < Loop
    <3>1. k \in 0 .. Loop - 1 /\ rcvd[r] \in Nat
      BY <1>1, <1>2, <1>3, <2>2, PerFacts DEF RingInv, RingControl
    <3>2. t'[r][e] = ReducedChunk(r)[e]
      BY <1>1, <2>2, Zenon DEF RingInv, RingControl
    <3>3. CASE ChunkOf(e) = c
      <4>1. t'[r][e] = ReduceInto(r, t[r][e], scratch[r][e - Start(c)])
        BY <3>2, <3>3, Zenon DEF ReducedChunk, c
      <4>2. t[r][e] = Partial(r, 0, e) /\ HeldAt(r, e, k + 1, 0) = Partial(r, k + 1, e)
        BY <2>1, <3>1, <3>3, HeldReduce, Zenon DEF c
      <4> QED BY <1>5, <2>2, <3>1, <3>3, <4>1, <4>2, ReduceAdds, Zenon
    <3>4. CASE ChunkOf(e) # c
      <4>1. t'[r][e] = t[r][e]
        BY <3>2, <3>4, Zenon DEF ReducedChunk, c
      <4> QED BY <2>1, <3>1, <3>4, <4>1, HeldReduce, Zenon DEF c
    <3> QED BY <3>3, <3>4, Zenon
  <2>3. CASE ~(k < Loop)
    <3>1. k \in Loop .. 2 * Loop - 1
      BY <1>1, <1>2, <2>3
    <3>2. t'[r][e] = t[r][e]
      BY <1>1, <2>3, Zenon DEF RingInv, RingControl
    <3> QED BY <1>1, <2>1, <3>1, <3>2, HeldGather, Zenon DEF c
  <2> QED BY <2>2, <2>3, Zenon
<1>7. \A q \in Rank : q # r => t'[q] = t[q]
  BY <1>1, Zenon DEF RingInv, RingControl
<1>8. ASSUME NEW e \in Elem PROVE HeldAt(r, e, k + 1, 0) \in Value
  <2>1. PICK d : d = Sub(r, ChunkOf(e))
    OBVIOUS
  <2>2. d \in 0 .. World - 1 /\ (IF d <= k + 1 THEN d ELSE 0) \in Nat
    BY <1>2, <2>1, Distance
  <2>3. Owner(ChunkOf(e)) \in Rank
    BY <1>2, ChunkOfElem, SubFacts DEF Owner
  <2> QED BY <2>1, <2>2, <2>3, ValueTypes, Zenon DEF HeldAt
<1>9. t' \in [Rank -> [Elem -> Value]]
  <2>1. (IF k < Loop THEN ReducedChunk(r) ELSE t[r]) \in [Elem -> Value]
    <3>1. PICK f : f = IF k < Loop THEN ReducedChunk(r) ELSE t[r]
      OBVIOUS
    <3>2. f = [e \in Elem |-> f[e]]
      BY <3>1, Zenon DEF ReducedChunk, RingInv, RingControl
    <3>3. t'[r] = f
      BY <1>1, <3>1, Zenon DEF RingInv, RingControl
    <3>4. \A e \in Elem : f[e] \in Value
      BY <1>6, <1>8, <3>3, Zenon
    <3>5. f \in [Elem -> Value]
      BY <3>2, <3>4, Zenon
    <3> QED BY <3>1, <3>5, Zenon
  <2> QED BY <1>1, <2>1, Zenon DEF RingInv, RingControl
<1>10. RingControl'
  <2>1. step' \in [Rank -> 0 .. 2 * Loop]
    BY <1>1, <1>3, Zenon DEF RingInv, RingControl
  <2>2. sent' \in [Rank -> 0 .. PerRank] /\ rcvd' \in [Rank -> 0 .. PerRank]
    BY <1>1, PerFacts DEF RingInv, RingControl
  <2>3. step'[r] < 2 * Loop => /\ 0 <= Count(Sub(r, step'[r]))
                               /\ 0 <= Count(Sub(r, step'[r] + 1))
    <3> SUFFICES ASSUME k + 1 < 2 * Loop
                 PROVE  0 <= Count(Sub(r, k + 1)) /\ 0 <= Count(Sub(r, k + 1 + 1))
      BY <1>4, Zenon
    <3>1. k + 1 \in 0 .. 2 * World - 1 /\ k + 1 + 1 \in 0 .. 2 * World - 1
      BY <1>1, <1>2
    <3>2. Count(Sub(r, k + 1)) \in Nat /\ Count(Sub(r, k + 1 + 1)) \in Nat
      BY <3>1, CountNat, Zenon
    <3> QED BY <3>2
  <2> QED BY <1>1, <1>4, <1>9, <2>1, <2>2, <2>3 DEF RingInv, RingControl
<1>11. RingStreams'
  <2>1. ASSUME NEW q \in Rank PROVE Written(q)' = Written(q) /\ Read(q)' = Read(q)
    <3>1. Written(q)' = Written(q)
      <4>1. CASE q # r
        BY <1>4, <4>1, Zenon DEF Written
      <4>2. CASE q = r
        <5>1. Moved(r, k + 1) = Moved(r, k) + Count(Sub(r, k)) /\ Moved(r, k + 1) \in Nat
          BY <1>3, MovedStep, MovedMono, Zenon
        <5> QED BY <1>1, <1>4, <4>2, <5>1 DEF Written
      <4> QED BY <4>1, <4>2, Zenon
    <3>2. Read(q)' = Read(q)
      <4>1. After(q) \in Rank /\ (After(q) = r <=> q = Before(r)) /\ Before(r) \in Rank
        BY RankArith, Zenon
      <4>2. CASE After(q) # r
        BY <1>4, <4>1, <4>2, Zenon DEF Read
      <4>3. CASE After(q) = r
        <5>1. Sub(q, k) = c
          BY <1>3, <4>1, <4>3, RankArith, Zenon DEF c
        <5>2. Moved(q, k + 1) = Moved(q, k) + Count(c) /\ Moved(q, k + 1) \in Nat
          BY <1>3, <5>1, MovedStep, MovedMono, Zenon
        <5> QED BY <1>1, <1>4, <4>3, <5>2 DEF Read
      <4> QED BY <4>2, <4>3, Zenon
    <3> QED BY <3>1, <3>2, Zenon
  <2> QED BY <1>1, <2>1, Zenon DEF RingInv, RingStreams
<1>12. RingTensors'
  <2> SUFFICES ASSUME NEW q \in Rank
               PROVE  IF phase'[q] = "done" THEN t'[q] = RingResult
                      ELSE \A f \in Elem : t'[q][f] = HeldAt(q, f, step'[q], rcvd'[q])
    BY Zenon DEF RingTensors
  <2>1. CASE q # r
    BY <1>1, <1>4, <1>7, <2>1 DEF RingInv, RingTensors
  <2>2. CASE q = r
    BY <1>1, <1>4, <1>6, <2>2, Zenon
  <2> QED BY <2>1, <2>2, Zenon
<1>13. RingScratch'
  <2>1. \A q \in Rank : q # r => step'[q] = step[q] /\ rcvd'[q] = rcvd[q]
    BY <1>4, Zenon
  <2>2. 0 .. rcvd'[r] - 1 = {}
    <3>1. 0 .. 0 - 1 = {}
      OBVIOUS
    <3> QED BY <1>4, <3>1, Zenon
  <2> QED BY <1>1, <2>1, <2>2 DEF RingInv, RingScratch
<1>14. RingCalled'
  <2>1. \A y : Entered(y)' <=> Entered(y)
    BY <1>1, Zenon DEF Entered
  <2>2. ASSUME NEW e \in Elem PROVE Entered(t'[r][e])
    <3>1. Entered(t[r][e])
      BY <1>1, Zenon DEF RingInv, RingCalled
    <3>2. CASE k < Loop /\ ChunkOf(e) = c
      <4>1. t'[r][e] = ReduceInto(r, t[r][e], scratch[r][e - Start(c)])
        BY <1>1, <3>2, Zenon DEF ReducedChunk, c, RingInv, RingControl
      <4>2. Entered(scratch[r][e - Start(c)]) /\ scratch[r][e - Start(c)] \in Value
        <5>1. k \in Nat /\ Before(r) \in Rank
          BY <1>1, RankArith
        <5> QED BY <1>5, <3>2, <5>1, ValueTypes, Zenon
      <4>3. t[r][e] \in Value
        BY Zenon DEF RingInv, RingControl
      <4>4. ASSUME NEW q \in Rank, t'[r][e].cnt[q] # 0
            PROVE  t[r][e].cnt[q] # 0 \/ scratch[r][e - Start(c)].cnt[q] # 0
        BY <4>1, <4>2, <4>3, <4>4 DEF ReduceInto, Value
      <4> QED BY <3>1, <4>2, <4>4, Zenon DEF Entered
    <3>3. CASE ~(k < Loop /\ ChunkOf(e) = c)
      <4>1. t'[r][e] = t[r][e]
        BY <1>1, <3>3, Zenon DEF ReducedChunk, c, RingInv, RingControl
      <4> QED BY <3>1, <4>1, Zenon
    <3> QED BY <3>2, <3>3, Zenon
  <2>3. 0 .. rcvd'[r] - 1 = {}
    BY <1>4
  <2> QED BY <1>1, <1>4, <1>7, <2>1, <2>2, <2>3 DEF RingInv, RingCalled
<1> QED BY <1>10, <1>11, <1>12, <1>13, <1>14, Zenon DEF RingInv

\* The end of the call keeps the invariant: the tensor is the result, and all
\* ranks have entered the call.
LEMMA RingReturnStep ==
  ASSUME RingInv, NEW r \in Rank, RingReturn(r)
  PROVE  RingInv' /\ t'[r] = RingResult /\ \A q \in Rank : phase[q] # "idle"
<1>1. /\ phase[r] = "running" /\ step[r] = 2 * Loop
      /\ t' = [t EXCEPT ![r] = ScaleIfAvg(t[r])]
      /\ phase' = [phase EXCEPT ![r] = "done"]
      /\ UNCHANGED <<step, sent, rcvd, scratch, wire>>
  BY RingReturnIs, Zenon DEF RingInv
<1>2. \A e \in Elem : t[r][e] = Complete(e, Owner(ChunkOf(e)))
  BY <1>1, HeldAtEnd DEF RingInv, RingTensors
<1>3. ScaleIfAvg(t[r]) = RingResult
  <2>1. t[r] = [e \in Elem |-> t[r][e]]
    BY Zenon DEF RingInv, RingControl
  <2>2. PICK owner : owner = [e \in Elem |-> Owner(ChunkOf(e))]
    BY Zenon
  <2>3. \A e \in Elem : t[r][e] = Complete(e, owner[e])
    BY <1>2, <2>2, Zenon
  <2>4. ScaleIfAvg(t[r]) = Reduction(owner)
    BY <2>1, <2>3, Scaled, Zenon
  <2> QED BY <2>2, <2>4, Zenon DEF RingResult
<1>4. t'[r] = RingResult /\ \A q \in Rank : q # r => t'[q] = t[q]
  BY <1>1, <1>3, Zenon DEF RingInv, RingControl
<1>5. \A q \in Rank : phase'[q] = IF q = r THEN "done" ELSE phase[q]
  BY <1>1, Zenon DEF RingInv, RingControl
<1>6. \A q \in Rank : phase[q] # "idle"
  <2>1. 0 \in Elem
    BY NumelAssumption DEF Elem
  <2>2. Entered(t[r][0])
    BY <1>1, <2>1, Zenon DEF RingInv, RingCalled
  <2>3. \A q \in Rank : t[r][0].cnt[q] = 1
    <3>1. t[r][0] = Complete(0, Owner(ChunkOf(0)))
      BY <1>2, <2>1, Zenon
    <3> QED BY <3>1 DEF Complete
  <2> QED BY <2>2, <2>3 DEF Entered
<1>7. \A y : Entered(y)'
  BY <1>5, <1>6, Zenon DEF Entered
<1>8. RingResult \in [Elem -> Value]
  <2>1. \A e \in Elem : Owner(ChunkOf(e)) \in Rank
    BY WorldAssumption, ChunkOfElem, SubFacts DEF Owner
  <2> QED BY <2>1, Zenon DEF RingResult, Reduction, Value
<1>9. RingControl'
  <2>1. t' \in [Rank -> [Elem -> Value]]
    BY <1>1, <1>3, <1>8, Zenon DEF RingInv, RingControl
  <2> QED BY <1>1, <1>5, <2>1, Zenon DEF RingInv, RingControl
<1>10. RingStreams' /\ RingScratch'
  BY <1>1, Zenon DEF RingInv, RingStreams, RingScratch, Written, Read
<1>11. RingTensors'
  BY <1>1, <1>4, <1>5 DEF RingInv, RingTensors
<1>12. RingCalled'
  BY <1>7, Zenon DEF RingCalled
<1> QED BY <1>4, <1>6, <1>9, <1>10, <1>11, <1>12, Zenon DEF RingInv

\* The invariant holds before the call.
LEMMA RingStart ==
  ASSUME RingInit
  PROVE  RingInv
<1>1. World \in Nat /\ World >= 2 /\ Loop = World - 1 /\ PerRank \in Nat \ {0}
  BY WorldAssumption, PerFacts, Zenon DEF Loop
<1>2. RingSlots = 0 .. PerRank - 1
  BY Zenon DEF RingSlots, PerRank
<1>4. /\ phase = [r \in Rank |-> "idle"] /\ step = [r \in Rank |-> 0]
      /\ sent = [r \in Rank |-> 0] /\ rcvd = [r \in Rank |-> 0]
      /\ t = [r \in Rank |-> Input(r)]
      /\ scratch = [r \in Rank |-> [i \in 0 .. PerRank - 1 |-> Garbage]]
      /\ wire = [p \in Rank |-> [q \in Rank |-> <<>>]]
  BY <1>2, Zenon DEF RingInit, EmptyWire
<1>5. Garbage \in Value
  BY <1>1 DEF Garbage, Value, Rank
<1>6. \A r \in Rank : \A e \in Elem : t[r][e] = Partial(r, 0, e) /\ t[r][e] \in Value
  BY <1>4, InputIsPartial, ValueTypes, Zenon
<1>7. RingControl
  <2>1. t \in [Rank -> [Elem -> Value]]
    BY <1>4, <1>6, Zenon DEF Input
  <2>2. scratch \in [Rank -> [0 .. PerRank - 1 -> Value]]
    BY <1>4, <1>5, Zenon
  <2>3. wire \in Wires
    BY <1>4 DEF Wires
  <2>4. \A r \in Rank : Count(Sub(r, 0)) \in Nat /\ Count(Sub(r, 0 + 1)) \in Nat
    BY <1>1, CountNat
  <2>5. phase \in [Rank -> {"idle", "running", "done"}] /\ step \in [Rank -> 0 .. 2 * Loop]
    BY <1>1, <1>4
  <2>6. sent \in [Rank -> 0 .. PerRank] /\ rcvd \in [Rank -> 0 .. PerRank]
    BY <1>1, <1>4
  <2>7. ASSUME NEW r \in Rank
        PROVE  /\ phase[r] = "idle" /\ step[r] = 0 /\ sent[r] = 0 /\ rcvd[r] = 0
    BY <1>4, Zenon
  <2>8. 0 # 2 * Loop
    BY <1>1
  <2> QED BY <2>1, <2>2, <2>3, <2>4, <2>5, <2>6, <2>7, <2>8 DEF RingControl
<1>8. RingStreams
  <2> SUFFICES ASSUME NEW r \in Rank
               PROVE  /\ Carries(wire[r][After(r)], RingStream(r), Written(r), Read(r))
                      /\ \A q \in Rank : q # After(r) => wire[r][q] = <<>>
    BY Zenon DEF RingStreams
  <2>1. After(r) \in Rank /\ Moved(r, 0) \in Nat
    BY <1>1, RankArith, MovedMono
  <2>2. Written(r) = Moved(r, 0) /\ Read(r) = Moved(r, 0)
    BY <1>4, <2>1 DEF Written, Read
  <2>3. wire[r][After(r)] = <<>>
    BY <1>4, <2>1, Zenon
  <2>4. Carries(<<>>, RingStream(r), Moved(r, 0), Moved(r, 0))
    BY <2>1 DEF Carries
  <2> QED BY <1>4, <2>2, <2>3, <2>4, Zenon
<1>9. RingTensors
  BY <1>4, <1>6, HeldFirst, Zenon DEF RingTensors
<1>10. RingScratch /\ RingCalled
  <2>1. 0 .. 0 - 1 = {}
    OBVIOUS
  <2> QED BY <1>4, <2>1 DEF RingScratch, RingCalled
<1> QED BY <1>7, <1>8, <1>9, <1>10, Zenon DEF RingInv

\* Every step of allreduce_ring keeps the invariant.
LEMMA RingKept ==
  ASSUME RingInv, RingNext \/ UNCHANGED ringVars
  PROVE  RingInv'
<1>1. CASE UNCHANGED ringVars
  <2>1. /\ UNCHANGED <<phase, step, sent, rcvd, t, scratch, wire>>
        /\ \A r : Written(r)' = Written(r) /\ Read(r)' = Read(r)
    BY <1>1, Zenon DEF ringVars, Written, Read
  <2>2. RingControl'
    BY <2>1, Zenon DEF RingInv, RingControl
  <2>3. RingStreams'
    BY <2>1, Zenon DEF RingInv, RingStreams
  <2>4. RingTensors'
    BY <2>1, Zenon DEF RingInv, RingTensors
  <2>5. RingScratch'
    BY <2>1, Zenon DEF RingInv, RingScratch
  <2>6. RingCalled'
    BY <2>1, Zenon DEF RingInv, RingCalled, Entered
  <2> QED BY <2>2, <2>3, <2>4, <2>5, <2>6, Zenon DEF RingInv
<1>2. CASE RingNext
  BY <1>2, RingEnterStep, RingSendStep, RingRecvStep, RingEndStep,
     RingReturnStep, Zenon DEF RingNext, RingStep
<1> QED BY <1>1, <1>2, Zenon

\* What the runs check of allreduce_ring follows from the invariant: both ends
\* of a connection mean the same chunk, and each rank reduces the chunk it
\* owns.
LEMMA RingSafe ==
  ASSUME RingInv
  PROVE  RingTypeOK /\ RingFrameMatch /\ OwnsReduced
<1>1. World \in Nat /\ World >= 2 /\ Loop = World - 1 /\ PerRank \in Nat \ {0}
  BY WorldAssumption, PerFacts, Zenon DEF Loop
<1>2. RingTypeOK
  BY Zenon DEF RingInv, RingControl, RingTypeOK, RingSlots, Steps, Loop,
     PerRank, Wires
<1>3. RingFrameMatch
  <2> SUFFICES ASSUME NEW r \in Rank, InStep(r), rcvd[r] < RecvLen(r),
                      CanRead(wire, prev(r), r)
               PROVE  Head(wire[prev(r)][r]).elem = RecvAt(r)
    BY Zenon DEF RingFrameMatch
  <2>1. phase[r] = "running" /\ step[r] \in 0 .. 2 * Loop - 1
    BY RingInStep, Zenon DEF RingInv
  <2>2. /\ prev(r) = Before(r) /\ RecvAt(r) = Start(Sub(r, step[r] + 1)) + rcvd[r]
        /\ RecvLen(r) = Count(Sub(r, step[r] + 1))
    BY <2>1, RingLens, Neighbours, Zenon
  <2>3. rcvd[r] \in 0 .. Count(Sub(r, step[r] + 1)) - 1
    <3>1. step[r] + 1 \in 0 .. 2 * World - 1 /\ rcvd[r] \in Nat
      BY <1>1, <2>1 DEF RingInv, RingControl
    <3>2. Count(Sub(r, step[r] + 1)) \in Nat
      BY <3>1, CountNat, Zenon
    <3>3. rcvd[r] < Count(Sub(r, step[r] + 1))
      BY <2>2, Zenon
    <3> QED BY <3>1, <3>2, <3>3
  <2>4. wire[Before(r)][r] # <<>>
    BY <2>2, Zenon DEF CanRead
  <2>5. Head(wire[Before(r)][r]) = OnWire(Before(r), step[r], RecvAt(r))
    BY <2>1, <2>2, <2>3, <2>4, RingReceives, Zenon
  <2>6. OnWire(Before(r), step[r], RecvAt(r)).elem = RecvAt(r)
    BY Zenon DEF OnWire, Partial, Complete
  <2> QED BY <2>2, <2>5, <2>6, Zenon
<1>4. OwnsReduced
  <2> SUFFICES ASSUME NEW r \in Rank, step[r] >= Steps, NEW e \in Elems(next(r))
               PROVE  t[r][e].cnt = [q \in Rank |-> 1]
    BY Zenon DEF OwnsReduced
  <2>1. next(r) = After(r) /\ After(r) \in Rank
    BY Neighbours, RankArith, Zenon
  <2>2. e \in Elem
    <3>1. /\ Start(After(r)) \in 0 .. Numel /\ Count(After(r)) \in Int
          /\ Start(After(r)) + Count(After(r)) <= Numel
          /\ e \in Start(After(r)) .. Start(After(r)) + Count(After(r)) - 1
      BY <1>1, <2>1, ChunkFacts
    <3> QED BY <3>1, NumelAssumption DEF Elem
  <2>3. ChunkOf(e) = After(r)
    BY <2>1, <2>2, ChunkFacts, Zenon
  <2>4. CASE phase[r] = "done"
    <3>1. t[r] = RingResult
      BY <2>4, Zenon DEF RingInv, RingTensors
    <3> QED BY <2>2, <3>1 DEF RingResult, Reduction
  <2>5. CASE phase[r] # "done"
    <3>1. t[r][e] = HeldAt(r, e, step[r], rcvd[r])
      BY <2>2, <2>5, Zenon DEF RingInv, RingTensors
    <3>2. PICK d : d = Sub(r, ChunkOf(e))
      OBVIOUS
    <3>3. d = World - 1
      BY <1>1, <2>3, <3>2 DEF Sub, After, Rank
    <3>4. step[r] \in Int /\ d <= step[r] /\ ~(d < Loop)
      BY <1>1, <3>3 DEF Steps, RingInv, RingControl
    <3>5. t[r][e] = Partial(r, World - 1, e)
      BY <3>1, <3>2, <3>3, <3>4, Zenon DEF HeldAt
    <3>6. t[r][e] = Complete(e, r)
      BY <2>2, <3>5, PartialIsComplete, Zenon
    <3> QED BY <3>6 DEF Complete
  <2> QED BY <2>4, <2>5, Zenon
<1> QED BY <1>2, <1>3, <1>4, Zenon

\* When a rank has returned, nothing is left on the streams to it.
LEMMA RingClean ==
  ASSUME RingInv, NEW r \in Rank, phase[r] = "done", NEW p \in Rank
  PROVE  wire[p][r] = <<>>
<1>1. World \in Nat /\ World >= 2 /\ Loop = World - 1 /\ PerRank \in Nat \ {0}
  BY WorldAssumption, PerFacts, Zenon DEF Loop
<1>2. CASE r # After(p)
  BY <1>2, Zenon DEF RingInv, RingStreams
<1>3. CASE r = After(p)
  <2>1. /\ wire[p][r] \in Seq(Value) /\ Len(wire[p][r]) = Written(p) - Read(p)
    BY <1>3, Zenon DEF RingInv, RingStreams, Carries
  <2>2. step[r] = 2 * Loop /\ rcvd[r] = 0
    BY Zenon DEF RingInv, RingControl
  <2>3. 2 * Loop \in 0 .. 2 * World - 1
    BY <1>1
  <2>4. Moved(p, 2 * Loop) \in Nat
    BY <2>3, MovedMono, Zenon
  <2>5. Read(p) = Moved(p, 2 * Loop)
    BY <1>3, <2>2, <2>4 DEF Read
  <2>6. Written(p) <= Moved(p, 2 * Loop) /\ Written(p) \in Int
    <3>1. step[p] \in 0 .. 2 * Loop /\ sent[p] \in Nat
      BY <1>1 DEF RingInv, RingControl
    <3>2. CASE step[p] = 2 * Loop
      BY <2>4, <3>1, <3>2 DEF Written, RingInv, RingControl
    <3>3. CASE step[p] # 2 * Loop
      <4>1. /\ step[p] \in 0 .. 2 * World - 2 /\ step[p] < 2 * Loop
            /\ step[p] \in 0 .. 2 * World - 1
            /\ step[p] + 1 \in 0 .. 2 * Loop
        BY <1>1, <3>1, <3>3
      <4>2. Moved(p, step[p] + 1) = Moved(p, step[p]) + Count(Sub(p, step[p]))
        BY <4>1, MovedStep, Zenon
      <4>3. Moved(p, step[p] + 1) <= Moved(p, 2 * Loop)
        BY <2>3, <4>1, MovedMono, Zenon
      <4>4. sent[p] <= Count(Sub(p, step[p])) /\ Count(Sub(p, step[p])) \in Nat
        BY <4>1, CountNat, Zenon DEF RingInv, RingControl
      <4>5. Moved(p, step[p]) \in Nat
        BY <4>1, MovedMono, Zenon
      <4> QED BY <2>4, <3>1, <4>2, <4>3, <4>4, <4>5 DEF Written
    <3> QED BY <3>2, <3>3, Zenon
  <2>7. Len(wire[p][r]) = 0
    BY <2>1, <2>4, <2>5, <2>6
  <2> QED BY <2>1, <2>7
<1> QED BY <1>2, <1>3, Zenon

\* Every step of allreduce_ring keeps the promise of the call.
LEMMA RingPromise ==
  ASSUME RingInv, RingNext
  PROVE  KeepsPromise([e \in Elem |-> Owner(ChunkOf(e))])
<1>1. PICK r \in Rank : RingEnter(r) \/ RingStep(r)
  BY Zenon DEF RingNext
<1>2. phase \in [Rank -> {"idle", "running", "done"}] /\ t \in [Rank -> [Elem -> Value]]
  BY Zenon DEF RingInv, RingControl
<1>3. CASE RingEnter(r)
  BY <1>2, <1>3, Zenon DEF RingEnter, KeepsPromise
<1>4. CASE RingSendElem(r)
  <2>1. phase[r] = "running" /\ UNCHANGED <<phase, t>>
    BY <1>4, RingSendIs, Zenon DEF RingInv
  <2> QED BY <2>1, Zenon DEF KeepsPromise
<1>5. CASE RingRecvElem(r)
  <2>1. phase[r] = "running" /\ phase' = phase
    BY <1>5, RingRecvIs, Zenon DEF RingInv
  <2>2. \A q \in Rank : q # r => t'[q] = t[q]
    BY <1>2, <1>5, RingRecvIs, Zenon DEF RingInv
  <2> QED BY <2>1, <2>2, Zenon DEF KeepsPromise
<1>6. CASE EndStep(r)
  <2>1. phase[r] = "running" /\ phase' = phase
    BY <1>6, RingEndIs, Zenon DEF RingInv
  <2>2. \A q \in Rank : q # r => t'[q] = t[q]
    BY <1>2, <1>6, RingEndIs, Zenon DEF RingInv
  <2> QED BY <2>1, <2>2, Zenon DEF KeepsPromise
<1>7. CASE RingReturn(r)
  <2>1. phase[r] = "running" /\ phase' = [phase EXCEPT ![r] = "done"]
    BY <1>7, RingReturnIs, Zenon DEF RingInv
  <2>2. \A q \in Rank : q # r => t'[q] = t[q]
    BY <1>2, <1>7, RingReturnIs, Zenon DEF RingInv
  <2>3. t'[r] = RingResult /\ \A q \in Rank : phase[q] # "idle"
    BY <1>7, RingReturnStep, Zenon
  <2>4. \A q \in Rank : phase[q] = "done" => t[q] = RingResult
    BY Zenon DEF RingInv, RingTensors
  <2> QED BY <1>2, <2>1, <2>2, <2>3, <2>4, Zenon DEF KeepsPromise, RingResult
<1> QED BY <1>1, <1>3, <1>4, <1>5, <1>6, <1>7, Zenon DEF RingStep
-----------------------------------------------------------------------------
\* What the butterfly returns, on every rank.
ButterflyResult == Reduction([e \in Elem |-> ChunkOf(e)])

\* Rank r has left the first phase.
Scattered(r) == phase[r] \in {"gather", "done"}

\* What rank p puts, in its two phases, on the stream to rank q.
PairStream(p, q) ==
  [n \in Nat |-> IF n < Count(q) THEN Input(p)[Start(q) + n]
                 ELSE Complete(Start(p) + (n - Count(q)), p)]

\* How many elements p has written to that stream, and q has read from it.
PairPut(p, q) == (IF Scattered(p) THEN Count(q) ELSE 0) + sent[p][q]

PairGot(p, q) == (IF Scattered(q) THEN Count(q) ELSE 0) + rcvd[q][p]

\* Where a rank is: the positions of each of its transfers are within the
\* chunk it moves.
ButterflyControl ==
  /\ phase \in [Rank -> {"idle", "scatter", "gather", "done"}]
  /\ sent \in [Rank -> [Rank -> 0 .. PerRank]]
  /\ rcvd \in [Rank -> [Rank -> 0 .. PerRank]]
  /\ t \in [Rank -> [Elem -> Value]]
  /\ scratch \in [Rank -> [ButterflySlots -> Value]]
  /\ wire \in Wires
  /\ \A r \in Rank : \A p \in Peers(r) :
       /\ sent[r][p] <= Count(IF Scattered(r) THEN r ELSE p)
       /\ rcvd[r][p] <= Count(IF Scattered(r) THEN p ELSE r)
       /\ phase[r] = "idle" => sent[r][p] = 0 /\ rcvd[r][p] = 0
       /\ phase[r] = "done" => sent[r][p] = Count(r) /\ rcvd[r][p] = Count(p)

\* The socket from p to q holds the part of PairStream between what p has
\* written and what q has read.
ButterflyStreams ==
  \A p, q \in Rank :
    IF p = q THEN wire[p][q] = <<>>
    ELSE Carries(wire[p][q], PairStream(p, q), PairPut(p, q), PairGot(p, q))

\* Element e as rank r holds it until it returns.
PairHeld(r, e) ==
  IF Scattered(r) /\ \/ ChunkOf(e) = r
                     \/ e - Start(ChunkOf(e)) < rcvd[r][ChunkOf(e)]
  THEN Complete(e, ChunkOf(e)) ELSE Input(r)[e]

\* The tensor of a rank is what its position says, and the result when the
\* call has returned.
ButterflyTensors ==
  \A r \in Rank :
    IF phase[r] = "done" THEN t[r] = ButterflyResult
    ELSE \A e \in Elem : t[r][e] = PairHeld(r, e)

\* The slot of recv_view that is for peer p has what was received from p.
ButterflyScratch ==
  \A r \in Rank : phase[r] = "scatter" =>
    \A p \in Peers(r) : \A o \in 0 .. rcvd[r][p] - 1 :
      scratch[r][RecvOff(r, p) + o] = Input(p)[Start(r) + o]

\* The inductive invariant of the butterfly.
ButterflyInv ==
  ButterflyControl /\ ButterflyStreams /\ ButterflyTensors /\ ButterflyScratch
-----------------------------------------------------------------------------
\* Places in the scratch buffer belong to one slot only.
LEMMA OneSlot ==
  ASSUME NEW a \in Nat, NEW b \in Nat, NEW c \in Nat,
         NEW o \in 0 .. c - 1, NEW s \in 0 .. c - 1, a * c + o = b * c + s
  PROVE  a = b /\ o = s
<1>1. a * c = c * a /\ b * c = c * b /\ c * a \in Nat /\ c * b \in Nat
  OBVIOUS
<1>2. ~(a < b)
  <2> SUFFICES ASSUME a < b PROVE FALSE
    OBVIOUS
  <2>1. c * (a + 1) <= c * b
    BY Product
  <2>2. c * (a + 1) = c * a + c
    OBVIOUS
  <2> QED BY <1>1, <2>1, <2>2
<1>3. ~(b < a)
  <2> SUFFICES ASSUME b < a PROVE FALSE
    OBVIOUS
  <2>1. c * (b + 1) <= c * a
    BY Product
  <2>2. c * (b + 1) = c * b + c
    OBVIOUS
  <2> QED BY <1>1, <2>1, <2>2
<1>4. a = b
  BY <1>2, <1>3
<1> QED BY <1>1, <1>4

\* The length of a chunk is the position at the end of it.
LEMMA CountAsSum ==
  ASSUME NEW c \in Rank
  PROVE  0 <= Count(c) /\ 0 + Count(c) = Count(c) + 0
<1>1. Count(c) \in 0 .. PerRank /\ PerRank \in Nat
  BY ChunkFacts, PerFacts, Zenon
<1> QED BY <1>1

\* No two peers share a slot of recv_view.
LEMMA SlotFacts ==
  ASSUME NEW r \in Rank, NEW p \in Peers(r)
  PROVE  /\ p \in Rank /\ p # r /\ r \in Peers(p)
         /\ Slot(r, p) \in 0 .. World - 2
         /\ \A q \in Peers(r) : Slot(r, q) = Slot(r, p) => q = p
BY WorldAssumption DEF Peers, Rank, Slot

\* The slots are within recv_view and do not overlap.
LEMMA SlotPlace ==
  ASSUME NEW r \in Rank, NEW p \in Peers(r), NEW o \in 0 .. Count(r) - 1
  PROVE  /\ RecvOff(r, p) + o \in ButterflySlots
         /\ \A q \in Peers(r) : \A s \in 0 .. Count(r) - 1 :
              RecvOff(r, q) + s = RecvOff(r, p) + o => q = p /\ s = o
<1>1. World \in Nat /\ World >= 2 /\ PerRank \in Nat /\ Count(r) \in 0 .. PerRank
  BY WorldAssumption, PerFacts, ChunkFacts, Zenon
<1>2. Slot(r, p) \in 0 .. World - 2
  BY SlotFacts, Zenon
<1>3. RecvOff(r, p) + o \in ButterflySlots
  <2>1. PICK c : c = Count(r)
    OBVIOUS
  <2>2. PICK a : a = Slot(r, p)
    OBVIOUS
  <2>3. PICK b : b = PerRank
    OBVIOUS
  <2>4. a \in Nat /\ a + 1 \in Nat /\ a + 1 <= World - 1 /\ c \in Nat /\ b \in Nat /\ c <= b
    BY <1>1, <1>2, <2>1, <2>2, <2>3
  <2>5. c * (a + 1) \in Nat /\ c * (World - 1) \in Nat /\ c * (a + 1) <= c * (World - 1)
    BY <1>1, <2>4, Product
  <2>6. /\ (World - 1) * c \in Nat /\ (World - 1) * b \in Nat
        /\ (World - 1) * c <= (World - 1) * b
    BY <1>1, <2>4, Product
  <2>7. c * (a + 1) = a * c + c /\ c * (World - 1) = (World - 1) * c /\ a * c \in Nat
    BY <1>1, <2>4
  <2>8. RecvOff(r, p) = a * c
    BY <2>1, <2>2, Zenon DEF RecvOff
  <2>9. ButterflySlots = 0 .. (World - 1) * b - 1
    BY <2>3, Zenon DEF ButterflySlots, PerRank
  <2>10. o \in Nat /\ o < c
    BY <2>1, <2>4
  <2>11. a * c + o \in 0 .. (World - 1) * b - 1
    BY <2>4, <2>5, <2>6, <2>7, <2>10
  <2> QED BY <2>8, <2>9, <2>11, Zenon
<1>4. ASSUME NEW q \in Peers(r), NEW s \in 0 .. Count(r) - 1,
             RecvOff(r, q) + s = RecvOff(r, p) + o
      PROVE  q = p /\ s = o
  <2>1. Slot(r, q) \in Nat /\ Slot(r, p) \in Nat /\ Count(r) \in Nat
    BY <1>1, <1>2, SlotFacts
  <2>2. PICK a \in Nat, b \in Nat, c \in Nat :
          a = Slot(r, q) /\ b = Slot(r, p) /\ c = Count(r)
    BY <2>1, Zenon
  <2>3. o \in 0 .. c - 1 /\ s \in 0 .. c - 1 /\ a * c + s = b * c + o
    BY <1>4, <2>2, Zenon DEF RecvOff
  <2>4. a = b /\ s = o
    BY <2>3, OneSlot
  <2> QED BY <2>2, <2>4, SlotFacts, Zenon
<1> QED BY <1>3, <1>4, Zenon
-----------------------------------------------------------------------------
\* Element e after the first n slots.
SlotsIn(r, e, n) ==
  [elem |-> e,
   cnt |-> [q \in Rank |-> IF q = r \/ Slot(r, q) < n THEN 1 ELSE 0],
   by |-> r, scl |-> 0]

\* The peer whose input is in slot n.
PeerOf(r, n) == IF n < r THEN n ELSE n + 1

\* reduce_into of the n-th slot adds the tensor of the n-th peer.
LEMMA SlotStep ==
  ASSUME NEW r \in Rank, NEW e \in Elem, NEW n \in 1 .. World - 1
  PROVE  /\ PeerOf(r, n - 1) \in Peers(r) /\ Slot(r, PeerOf(r, n - 1)) = n - 1
         /\ ReduceInto(r, SlotsIn(r, e, n - 1), Input(PeerOf(r, n - 1))[e]) =
              SlotsIn(r, e, n)
<1> DEFINE p == PeerOf(r, n - 1)
           d == SlotsIn(r, e, n - 1)
           s == Input(p)[e]
<1>1. p \in Peers(r) /\ Slot(r, p) = n - 1
  BY WorldAssumption DEF PeerOf, Peers, Slot, Rank
<1>2. ASSUME NEW q \in Rank
      PROVE  (IF q = r \/ Slot(r, q) < n - 1 THEN 1 ELSE 0) + (IF q = p THEN 1 ELSE 0) =
               IF q = r \/ Slot(r, q) < n THEN 1 ELSE 0
  BY WorldAssumption DEF PeerOf, Slot, Rank
<1>3. /\ d.elem = e /\ d.scl = 0 /\ s.elem = e /\ s.scl = 0
      /\ \A q \in Rank : d.cnt[q] = IF q = r \/ Slot(r, q) < n - 1 THEN 1 ELSE 0
      /\ \A q \in Rank : s.cnt[q] = IF q = p THEN 1 ELSE 0
  BY Zenon DEF SlotsIn, Input
<1> HIDE DEF d, s, p
<1>4. [q \in Rank |-> d.cnt[q] + s.cnt[q]] =
        [q \in Rank |-> IF q = r \/ Slot(r, q) < n THEN 1 ELSE 0]
  BY <1>2, <1>3
<1>5. ReduceInto(r, d, s) =
        [elem |-> e, cnt |-> [q \in Rank |-> d.cnt[q] + s.cnt[q]], by |-> r, scl |-> 0]
  BY <1>3 DEF ReduceInto
<1>6. ReduceInto(r, d, s) = SlotsIn(r, e, n)
  BY <1>4, <1>5, Zenon DEF SlotsIn
<1> QED BY <1>1, <1>6, Zenon DEF d, s, p
-----------------------------------------------------------------------------
\* The positions are natural numbers.
LEMMA PairNat ==
  ASSUME ButterflyControl, NEW p \in Rank, NEW q \in Peers(p)
  PROVE  /\ q \in Rank /\ q # p /\ p \in Peers(q)
         /\ sent[p][q] \in Nat /\ rcvd[p][q] \in Nat
         /\ PairPut(p, q) \in Nat /\ PairGot(p, q) \in Nat
<1>1. q \in Rank /\ q # p /\ p \in Peers(q)
  BY Zenon DEF Peers
<1>2. sent[p][q] \in Nat /\ rcvd[p][q] \in Nat /\ rcvd[q][p] \in Nat
  BY <1>1, PerFacts DEF ButterflyControl
<1>3. Count(q) \in Nat
  BY <1>1, ChunkFacts, PerFacts
<1> QED BY <1>1, <1>2, <1>3 DEF PairPut, PairGot

\* What is at each place of the stream from p to q.
LEMMA PairPlace ==
  ASSUME NEW p \in Rank, NEW q \in Rank, NEW n \in Nat
  PROVE  /\ n < Count(q) => PairStream(p, q)[n] = Input(p)[Start(q) + n]
         /\ PairStream(p, q)[Count(q) + n] = Complete(Start(p) + n, p)
<1>1. PICK m : m = Count(q) + n
  OBVIOUS
<1>2. Count(q) \in Nat
  BY ChunkFacts, PerFacts
<1>3. m \in Nat /\ ~(m < Count(q)) /\ m - Count(q) = n
  BY <1>1, <1>2
<1>4. PairStream(p, q)[m] = Complete(Start(p) + n, p)
  BY <1>3, Zenon DEF PairStream
<1> QED BY <1>1, <1>4, Zenon DEF PairStream

\* What rank r sends next to p is what belongs at that place of the stream.
LEMMA PairSends ==
  ASSUME ButterflyInv, NEW r \in Rank, NEW p \in Peers(r), ButterflySending(r, p)
  PROVE  /\ t[r][Start(SendChunk(r, p)) + sent[r][p]] = PairStream(r, p)[PairPut(r, p)]
         /\ t[r][Start(SendChunk(r, p)) + sent[r][p]] \in Value
         /\ sent[r][p] + 1 <= Count(IF Scattered(r) THEN r ELSE p)
<1>1. /\ p \in Rank /\ sent[r][p] \in Nat /\ PairPut(r, p) \in Nat
      /\ Count(p) \in Nat /\ Count(r) \in Nat /\ Start(r) \in Nat
  BY PairNat, ChunkFacts, PerFacts, NumelAssumption DEF ButterflyInv
<1>2. phase[r] \in {"scatter", "gather"} /\ sent[r][p] < Count(SendChunk(r, p))
  BY Zenon DEF ButterflySending, Running
<1>3. CASE phase[r] = "scatter"
  <2>1. SendChunk(r, p) = p /\ ~Scattered(r)
    BY <1>3, Zenon DEF SendChunk, Scattered
  <2>2. sent[r][p] \in 0 .. Count(p) - 1
    BY <1>1, <1>2, <2>1
  <2>3. Start(p) + sent[r][p] \in Elem
    BY <1>1, <2>2, InChunk, Zenon
  <2>4. t[r][Start(p) + sent[r][p]] = Input(r)[Start(p) + sent[r][p]]
    BY <1>3, <2>1, <2>3, Zenon DEF ButterflyInv, ButterflyTensors, PairHeld
  <2>5. PairPut(r, p) = sent[r][p]
    BY <1>1, <2>1 DEF PairPut
  <2>6. PairStream(r, p)[sent[r][p]] = Input(r)[Start(p) + sent[r][p]]
    BY <1>1, <2>2, PairPlace
  <2>7. t[r][Start(p) + sent[r][p]] \in Value
    BY <2>3, Zenon DEF ButterflyInv, ButterflyControl
  <2>8. sent[r][p] + 1 <= Count(p)
    BY <1>1, <2>2
  <2> QED BY <2>1, <2>4, <2>5, <2>6, <2>7, <2>8, Zenon
<1>4. CASE phase[r] = "gather"
  <2>1. SendChunk(r, p) = r /\ Scattered(r)
    BY <1>4, Zenon DEF SendChunk, Scattered
  <2>2. sent[r][p] \in 0 .. Count(r) - 1
    BY <1>1, <1>2, <2>1
  <2>3. Start(r) + sent[r][p] \in Elem /\ ChunkOf(Start(r) + sent[r][p]) = r
    BY <2>2, InChunk, Zenon
  <2>4. t[r][Start(r) + sent[r][p]] = Complete(Start(r) + sent[r][p], r)
    BY <1>4, <2>1, <2>3, Zenon DEF ButterflyInv, ButterflyTensors, PairHeld
  <2>5. PairPut(r, p) = Count(p) + sent[r][p]
    BY <2>1, Zenon DEF PairPut
  <2>6. PairStream(r, p)[Count(p) + sent[r][p]] = Complete(Start(r) + sent[r][p], r)
    BY <1>1, PairPlace, Zenon
  <2>7. t[r][Start(r) + sent[r][p]] \in Value
    BY <2>3, Zenon DEF ButterflyInv, ButterflyControl
  <2>8. sent[r][p] + 1 <= Count(r)
    BY <1>1, <2>2
  <2> QED BY <2>1, <2>4, <2>5, <2>6, <2>7, <2>8, Zenon
<1> QED BY <1>2, <1>3, <1>4, Zenon

\* What rank r receives next from p is what belongs at the place it has come
\* to: of the first phase in the first phase, of the second in the second.
LEMMA PairReceives ==
  ASSUME ButterflyInv, NEW r \in Rank, NEW p \in Peers(r), ButterflyReceiving(r, p),
         CanRead(wire, p, r)
  PROVE  /\ Head(wire[p][r]) =
              IF phase[r] = "scatter" THEN Input(p)[Start(r) + rcvd[r][p]]
              ELSE Complete(Start(p) + rcvd[r][p], p)
         /\ Head(wire[p][r]) \in Value
         /\ Carries(Tail(wire[p][r]), PairStream(p, r), PairPut(p, r), PairGot(p, r) + 1)
         /\ phase[r] \in {"scatter", "gather"}
         /\ rcvd[r][p] \in 0 .. Count(IF Scattered(r) THEN p ELSE r) - 1
<1>1. /\ p \in Rank /\ p # r /\ rcvd[r][p] \in Nat /\ r \in Peers(p)
      /\ Count(p) \in Nat /\ Count(r) \in Nat /\ Start(p) \in Nat
  BY PairNat, ChunkFacts, PerFacts, NumelAssumption DEF ButterflyInv
<1>2. phase[r] \in {"scatter", "gather"} /\ rcvd[r][p] < Count(RecvChunk(r, p))
  BY Zenon DEF ButterflyReceiving, Running
<1>3. PairGot(p, r) \in Nat /\ PairPut(p, r) \in Nat
  BY <1>1, PairNat, Zenon DEF ButterflyInv
<1>4. Carries(wire[p][r], PairStream(p, r), PairPut(p, r), PairGot(p, r))
  BY <1>1, Zenon DEF ButterflyInv, ButterflyStreams
<1>5. /\ Head(wire[p][r]) = PairStream(p, r)[PairGot(p, r)]
      /\ PairStream(p, r)[PairGot(p, r)] \in Value
      /\ Carries(Tail(wire[p][r]), PairStream(p, r), PairPut(p, r), PairGot(p, r) + 1)
  BY <1>3, <1>4, CarriesTake, Zenon DEF CanRead
<1>6. CASE phase[r] = "scatter"
  <2>1. RecvChunk(r, p) = r /\ ~Scattered(r)
    BY <1>6, Zenon DEF RecvChunk, Scattered
  <2>2. PairGot(p, r) = rcvd[r][p] /\ rcvd[r][p] \in 0 .. Count(r) - 1
    <3>1. PairGot(p, r) = 0 + rcvd[r][p] /\ rcvd[r][p] < Count(r)
      BY <1>2, <2>1, Zenon DEF PairGot
    <3> QED BY <1>1, <3>1
  <2>3. PairStream(p, r)[rcvd[r][p]] = Input(p)[Start(r) + rcvd[r][p]]
    BY <1>1, <2>2, PairPlace
  <2> QED BY <1>5, <1>6, <2>1, <2>2, <2>3, Zenon
<1>7. CASE phase[r] = "gather"
  <2>1. RecvChunk(r, p) = p /\ Scattered(r) /\ phase[r] # "scatter"
    BY <1>7, Zenon DEF RecvChunk, Scattered
  <2>2. PairGot(p, r) = Count(r) + rcvd[r][p] /\ rcvd[r][p] \in 0 .. Count(p) - 1
    BY <1>1, <1>2, <2>1 DEF PairGot
  <2>3. PairStream(p, r)[Count(r) + rcvd[r][p]] = Complete(Start(p) + rcvd[r][p], p)
    BY <1>1, PairPlace, Zenon
  <2> QED BY <1>5, <1>7, <2>1, <2>2, <2>3, Zenon
<1> QED BY <1>2, <1>6, <1>7, Zenon
-----------------------------------------------------------------------------
\* A rank enters the butterfly.
LEMMA ButterflyEnterStep ==
  ASSUME ButterflyInv, NEW r \in Rank, ButterflyEnter(r)
  PROVE  ButterflyInv'
<1>1. /\ phase[r] = "idle" /\ phase' = [phase EXCEPT ![r] = "scatter"]
      /\ UNCHANGED <<sent, rcvd, t, scratch, wire>>
  BY Zenon DEF ButterflyEnter
<1>2. \A q \in Rank : phase'[q] = IF q = r THEN "scatter" ELSE phase[q]
  BY <1>1, Zenon DEF ButterflyInv, ButterflyControl
<1>3. \A q \in Rank : Scattered(q)' <=> Scattered(q)
  BY <1>1, <1>2 DEF Scattered
<1>4. ButterflyControl'
  <2>1. phase' \in [Rank -> {"idle", "scatter", "gather", "done"}]
    BY <1>1, Zenon DEF ButterflyInv, ButterflyControl
  <2> QED BY <1>1, <1>2, <1>3, <2>1 DEF ButterflyInv, ButterflyControl
<1>5. ButterflyStreams'
  <2>1. \A p, q \in Rank : PairPut(p, q)' = PairPut(p, q) /\ PairGot(p, q)' = PairGot(p, q)
    BY <1>1, <1>3, Zenon DEF PairPut, PairGot
  <2> QED BY <1>1, <2>1, Zenon DEF ButterflyInv, ButterflyStreams
<1>6. ButterflyTensors'
  <2>1. \A q \in Rank : \A e \in Elem : PairHeld(q, e)' = PairHeld(q, e)
    BY <1>1, <1>3, Zenon DEF PairHeld
  <2> QED BY <1>1, <1>2, <2>1 DEF ButterflyInv, ButterflyTensors
<1>7. ButterflyScratch'
  <2> SUFFICES ASSUME NEW q \in Rank, phase'[q] = "scatter", NEW p \in Peers(q),
                      NEW o \in 0 .. rcvd[q][p] - 1
               PROVE  scratch[q][RecvOff(q, p) + o] = Input(p)[Start(q) + o]
    BY <1>1, Zenon DEF ButterflyScratch
  <2>1. CASE q = r
    <3>1. rcvd[q][p] = 0
      BY <1>1, <2>1, Zenon DEF ButterflyInv, ButterflyControl
    <3> QED BY <3>1
  <2>2. CASE q # r
    BY <1>2, <2>2, Zenon DEF ButterflyInv, ButterflyScratch
  <2> QED BY <2>1, <2>2, Zenon
<1> QED BY <1>4, <1>5, <1>6, <1>7, Zenon DEF ButterflyInv

\* A send keeps the invariant.
LEMMA ButterflySendStep ==
  ASSUME ButterflyInv, NEW r \in Rank, NEW p \in Peers(r), ButterflySendElem(r, p)
  PROVE  ButterflyInv'
<1> DEFINE x == t[r][Start(SendChunk(r, p)) + sent[r][p]]
<1>1. /\ ButterflySending(r, p)
      /\ wire' = WirePut(wire, r, p, x)
      /\ sent' = [sent EXCEPT ![r][p] = @ + 1]
      /\ UNCHANGED <<phase, rcvd, t, scratch>>
  BY Zenon DEF ButterflySendElem
<1>2. /\ x = PairStream(r, p)[PairPut(r, p)] /\ x \in Value
      /\ sent[r][p] + 1 <= Count(IF Scattered(r) THEN r ELSE p)
  BY <1>1, PairSends, Zenon
<1>3. p \in Rank /\ p # r /\ sent[r][p] \in Nat /\ PairPut(r, p) \in Nat /\ PairGot(r, p) \in Nat
  BY PairNat, Zenon DEF ButterflyInv
<1> HIDE DEF x
<1>4. OnePut(wire', wire, r, p, x)
  <2>1. wire \in Wires
    BY Zenon DEF ButterflyInv, ButterflyControl
  <2> QED BY <1>1, <1>2, <1>3, <2>1, PutOne, Zenon
<1>5. /\ wire' \in Wires /\ wire'[r][p] = Append(wire[r][p], x)
      /\ \A a, b \in Rank : a # r \/ b # p => wire'[a][b] = wire[a][b]
  BY <1>4, Zenon DEF OnePut
<1>6. \A a, b \in Rank : sent'[a][b] = IF a = r /\ b = p THEN sent[r][p] + 1 ELSE sent[a][b]
  BY <1>1, <1>3, Zenon DEF ButterflyInv, ButterflyControl
<1>7. \A q \in Rank : Scattered(q)' <=> Scattered(q)
  BY <1>1, Zenon DEF Scattered
<1>8. ButterflyControl'
  <2>1. sent[r][p] + 1 \in 0 .. PerRank
    <3>1. Count(r) \in 0 .. PerRank /\ Count(p) \in 0 .. PerRank /\ PerRank \in Nat
      BY <1>3, ChunkFacts, PerFacts, Zenon
    <3> QED BY <1>2, <1>3, <3>1
  <2>2. sent' \in [Rank -> [Rank -> 0 .. PerRank]]
    <3>1. sent \in [Rank -> [Rank -> 0 .. PerRank]]
      BY Zenon DEF ButterflyInv, ButterflyControl
    <3> QED BY <1>1, <1>3, <2>1, <3>1, Zenon
  <2>3. phase[r] \in {"scatter", "gather"}
    BY <1>1, Zenon DEF ButterflySending, Running
  <2>4. ASSUME NEW a \in Rank, NEW b \in Peers(a)
        PROVE  /\ sent'[a][b] <= Count(IF Scattered(a) THEN a ELSE b)
               /\ phase[a] = "idle" => sent'[a][b] = 0
               /\ phase[a] = "done" => sent'[a][b] = Count(a)
    <3>1. b \in Rank
      BY Zenon DEF Peers
    <3>2. CASE a = r /\ b = p
      BY <1>2, <1>6, <2>3, <3>1, <3>2, Zenon
    <3>3. CASE a # r \/ b # p
      <4>1. sent'[a][b] = sent[a][b]
        BY <1>6, <3>1, <3>3, Zenon
      <4> QED BY <4>1, Zenon DEF ButterflyInv, ButterflyControl
    <3> QED BY <3>2, <3>3, Zenon
  <2>5. ASSUME NEW a \in Rank, NEW b \in Peers(a)
        PROVE  /\ sent'[a][b] <= Count(IF Scattered(a)' THEN a ELSE b)
               /\ rcvd'[a][b] <= Count(IF Scattered(a)' THEN b ELSE a)
               /\ phase'[a] = "idle" => sent'[a][b] = 0 /\ rcvd'[a][b] = 0
               /\ phase'[a] = "done" => sent'[a][b] = Count(a) /\ rcvd'[a][b] = Count(b)
    BY <1>1, <1>7, <2>4 DEF ButterflyInv, ButterflyControl
  <2> QED BY <1>1, <1>5, <2>2, <2>5, Zenon DEF ButterflyInv, ButterflyControl
<1>9. ButterflyStreams'
  <2> SUFFICES ASSUME NEW a \in Rank, NEW b \in Rank
               PROVE  IF a = b THEN wire'[a][b] = <<>>
                      ELSE Carries(wire'[a][b], PairStream(a, b), PairPut(a, b)', PairGot(a, b)')
    BY Zenon DEF ButterflyStreams
  <2>1. IF a = b THEN wire[a][b] = <<>>
        ELSE Carries(wire[a][b], PairStream(a, b), PairPut(a, b), PairGot(a, b))
    BY Zenon DEF ButterflyInv, ButterflyStreams
  <2>2. PairGot(a, b)' = PairGot(a, b)
    BY <1>1, <1>7, Zenon DEF PairGot
  <2>3. CASE a # r \/ b # p
    <3>1. PairPut(a, b)' = PairPut(a, b) /\ wire'[a][b] = wire[a][b]
      BY <1>5, <1>6, <1>7, <2>3, Zenon DEF PairPut
    <3> QED BY <2>1, <2>2, <3>1, Zenon
  <2>4. CASE a = r /\ b = p
    <3>1. PairPut(r, p)' = PairPut(r, p) + 1
      <4>1. Count(p) \in Nat
        BY <1>3, ChunkFacts, PerFacts
      <4> QED BY <1>3, <1>6, <1>7, <4>1 DEF PairPut
    <3>2. Carries(Append(wire[r][p], x), PairStream(r, p), PairPut(r, p) + 1, PairGot(r, p))
      <4>1. Carries(wire[r][p], PairStream(r, p), PairPut(r, p), PairGot(r, p))
        BY <1>3, <2>1, <2>4, Zenon
      <4> QED BY <1>2, <1>3, <4>1, CarriesPut, Zenon
    <3> QED BY <1>3, <1>5, <2>2, <2>4, <3>1, <3>2, Zenon
  <2> QED BY <2>3, <2>4, Zenon
<1>10. ButterflyTensors'
  <2>1. \A q \in Rank : \A e \in Elem : PairHeld(q, e)' = PairHeld(q, e)
    BY <1>1, <1>7, Zenon DEF PairHeld
  <2> QED BY <1>1, <2>1, Zenon DEF ButterflyInv, ButterflyTensors
<1>11. ButterflyScratch'
  BY <1>1, Zenon DEF ButterflyInv, ButterflyScratch
<1> QED BY <1>8, <1>9, <1>10, <1>11, Zenon DEF ButterflyInv

\* A receive keeps the invariant.
LEMMA ButterflyRecvStep ==
  ASSUME ButterflyInv, NEW r \in Rank, NEW p \in Peers(r), ButterflyRecvElem(r, p)
  PROVE  ButterflyInv'
<1> DEFINE x == Head(wire[p][r])
           o == rcvd[r][p]
           f == Start(p) + o
           i == RecvOff(r, p) + o
<1>1. /\ ButterflyReceiving(r, p) /\ CanRead(wire, p, r)
      /\ IF phase[r] = "scatter"
         THEN scratch' = [scratch EXCEPT ![r][i] = x] /\ t' = t
         ELSE t' = [t EXCEPT ![r][f] = x] /\ scratch' = scratch
      /\ wire' = WireDrop(wire, p, r)
      /\ rcvd' = [rcvd EXCEPT ![r][p] = @ + 1]
      /\ UNCHANGED <<phase, sent>>
  BY Zenon DEF ButterflyRecvElem
<1>2. /\ x = IF phase[r] = "scatter" THEN Input(p)[Start(r) + o] ELSE Complete(f, p)
      /\ x \in Value
      /\ Carries(Tail(wire[p][r]), PairStream(p, r), PairPut(p, r), PairGot(p, r) + 1)
      /\ phase[r] \in {"scatter", "gather"}
      /\ o \in 0 .. Count(IF Scattered(r) THEN p ELSE r) - 1
  BY <1>1, PairReceives, Zenon
<1>3. /\ p \in Rank /\ p # r /\ r \in Peers(p) /\ o \in Nat
      /\ PairPut(p, r) \in Nat /\ PairGot(p, r) \in Nat
  BY PairNat, Zenon DEF ButterflyInv
<1>4. Scattered(r) <=> phase[r] # "scatter"
  BY <1>2, Zenon DEF Scattered
<1>5. wire[p][r] # <<>>
  BY <1>1, Zenon DEF CanRead
<1>6. phase[r] = "scatter" => o \in 0 .. Count(r) - 1 /\ i \in ButterflySlots
  BY <1>2, <1>4, SlotPlace, Zenon
<1>7. phase[r] # "scatter" => o \in 0 .. Count(p) - 1 /\ f \in Elem /\ ChunkOf(f) = p
  BY <1>2, <1>3, <1>4, InChunk, Zenon
<1> HIDE DEF x, o, f, i
<1>8. /\ wire' \in Wires /\ wire'[p][r] = Tail(wire[p][r])
      /\ \A a, b \in Rank : a # p \/ b # r => wire'[a][b] = wire[a][b]
  <2>1. wire \in Wires
    BY Zenon DEF ButterflyInv, ButterflyControl
  <2>2. OneDrop(wire', wire, p, r)
    BY <1>1, <1>3, <1>5, <2>1, DropOne, Zenon
  <2> QED BY <2>2, Zenon DEF OneDrop
<1>9. \A a, b \in Rank : rcvd'[a][b] = IF a = r /\ b = p THEN o + 1 ELSE rcvd[a][b]
  BY <1>1, <1>3, Zenon DEF ButterflyInv, ButterflyControl, o
<1>10. \A q \in Rank : Scattered(q)' <=> Scattered(q)
  BY <1>1, Zenon DEF Scattered
<1>11. /\ t' \in [Rank -> [Elem -> Value]]
       /\ \A q \in Rank : \A e \in Elem :
            t'[q][e] = IF phase[r] # "scatter" /\ q = r /\ e = f THEN x ELSE t[q][e]
  <2>1. t \in [Rank -> [Elem -> Value]]
    BY Zenon DEF ButterflyInv, ButterflyControl
  <2>2. CASE phase[r] = "scatter"
    BY <1>1, <2>1, <2>2, Zenon
  <2>3. CASE phase[r] # "scatter"
    BY <1>1, <1>2, <1>7, <2>1, <2>3
  <2> QED BY <2>2, <2>3, Zenon
<1>12. /\ scratch' \in [Rank -> [ButterflySlots -> Value]]
       /\ \A q \in Rank : \A s \in ButterflySlots :
            scratch'[q][s] = IF phase[r] = "scatter" /\ q = r /\ s = i THEN x ELSE scratch[q][s]
  <2>1. scratch \in [Rank -> [ButterflySlots -> Value]]
    BY Zenon DEF ButterflyInv, ButterflyControl
  <2>2. CASE phase[r] = "scatter"
    BY <1>1, <1>2, <1>6, <2>1, <2>2
  <2>3. CASE phase[r] # "scatter"
    BY <1>1, <2>1, <2>3, Zenon
  <2> QED BY <2>2, <2>3, Zenon
<1>13. ButterflyControl'
  <2>1. o + 1 <= Count(IF Scattered(r) THEN p ELSE r) /\ o + 1 \in 0 .. PerRank
    <3>1. Count(r) \in 0 .. PerRank /\ Count(p) \in 0 .. PerRank /\ PerRank \in Nat
      BY <1>3, ChunkFacts, PerFacts, Zenon
    <3> QED BY <1>2, <1>3, <3>1
  <2>2. rcvd' \in [Rank -> [Rank -> 0 .. PerRank]]
    <3>1. rcvd \in [Rank -> [Rank -> 0 .. PerRank]]
      BY Zenon DEF ButterflyInv, ButterflyControl
    <3>2. rcvd' = [rcvd EXCEPT ![r][p] = o + 1]
      BY <1>1, Zenon DEF o
    <3> QED BY <1>3, <2>1, <3>1, <3>2, Zenon
  <2>3. ASSUME NEW a \in Rank, NEW b \in Peers(a)
        PROVE  /\ rcvd'[a][b] <= Count(IF Scattered(a) THEN b ELSE a)
               /\ phase[a] = "idle" => rcvd'[a][b] = 0
               /\ phase[a] = "done" => rcvd'[a][b] = Count(b)
    <3>1. b \in Rank
      BY Zenon DEF Peers
    <3>2. CASE a = r /\ b = p
      BY <1>2, <1>9, <2>1, <3>1, <3>2, Zenon
    <3>3. CASE a # r \/ b # p
      <4>1. rcvd'[a][b] = rcvd[a][b]
        BY <1>9, <3>1, <3>3, Zenon
      <4> QED BY <4>1, Zenon DEF ButterflyInv, ButterflyControl
    <3> QED BY <3>2, <3>3, Zenon
  <2>4. ASSUME NEW a \in Rank, NEW b \in Peers(a)
        PROVE  /\ sent'[a][b] <= Count(IF Scattered(a)' THEN a ELSE b)
               /\ rcvd'[a][b] <= Count(IF Scattered(a)' THEN b ELSE a)
               /\ phase'[a] = "idle" => sent'[a][b] = 0 /\ rcvd'[a][b] = 0
               /\ phase'[a] = "done" => sent'[a][b] = Count(a) /\ rcvd'[a][b] = Count(b)
    <3>1. /\ sent[a][b] <= Count(IF Scattered(a) THEN a ELSE b)
          /\ phase[a] = "idle" => sent[a][b] = 0
          /\ phase[a] = "done" => sent[a][b] = Count(a)
      BY Zenon DEF ButterflyInv, ButterflyControl
    <3>2. sent' = sent /\ phase' = phase /\ (Scattered(a)' <=> Scattered(a))
      BY <1>1, <1>10, Zenon
    <3> QED BY <2>3, <3>1, <3>2, Zenon
  <2>5. sent' \in [Rank -> [Rank -> 0 .. PerRank]]
        /\ phase' \in [Rank -> {"idle", "scatter", "gather", "done"}]
    BY <1>1, Zenon DEF ButterflyInv, ButterflyControl
  <2> QED BY <1>8, <1>11, <1>12, <2>2, <2>4, <2>5, Zenon DEF ButterflyControl
<1>14. ButterflyStreams'
  <2> SUFFICES ASSUME NEW a \in Rank, NEW b \in Rank
               PROVE  IF a = b THEN wire'[a][b] = <<>>
                      ELSE Carries(wire'[a][b], PairStream(a, b), PairPut(a, b)', PairGot(a, b)')
    BY Zenon DEF ButterflyStreams
  <2>1. IF a = b THEN wire[a][b] = <<>>
        ELSE Carries(wire[a][b], PairStream(a, b), PairPut(a, b), PairGot(a, b))
    BY Zenon DEF ButterflyInv, ButterflyStreams
  <2>2. PairPut(a, b)' = PairPut(a, b)
    BY <1>1, <1>10, Zenon DEF PairPut
  <2>3. CASE a # p \/ b # r
    <3>1. rcvd'[b][a] = rcvd[b][a] /\ wire'[a][b] = wire[a][b]
      BY <1>8, <1>9, <2>3, Zenon
    <3>2. PairGot(a, b)' = PairGot(a, b)
      BY <1>10, <3>1, Zenon DEF PairGot
    <3> QED BY <2>1, <2>2, <3>1, <3>2, Zenon
  <2>4. CASE a = p /\ b = r
    <3>1. PairGot(p, r)' = PairGot(p, r) + 1
      <4>1. Count(r) \in Nat
        BY ChunkFacts, PerFacts
      <4> QED BY <1>3, <1>9, <1>10, <4>1 DEF PairGot, o
    <3> QED BY <1>2, <1>3, <1>8, <2>2, <2>4, <3>1, Zenon
  <2> QED BY <2>3, <2>4, Zenon
<1>15. ButterflyTensors'
  <2> SUFFICES ASSUME NEW q \in Rank
               PROVE  IF phase[q] = "done" THEN t'[q] = ButterflyResult
                      ELSE \A e \in Elem : t'[q][e] = PairHeld(q, e)'
    BY <1>1, Zenon DEF ButterflyTensors
  <2>1. IF phase[q] = "done" THEN t[q] = ButterflyResult
        ELSE \A e \in Elem : t[q][e] = PairHeld(q, e)
    BY Zenon DEF ButterflyInv, ButterflyTensors
  <2>2. CASE q # r
    <3>1. t'[q] = t[q]
      BY <1>1, <2>2, Zenon DEF ButterflyInv, ButterflyControl
    <3>2. \A e \in Elem : PairHeld(q, e)' = PairHeld(q, e)
      BY <1>9, <1>10, <2>2, ChunkOfElem, Zenon DEF PairHeld
    <3> QED BY <2>1, <3>1, <3>2, Zenon
  <2>3. CASE q = r /\ phase[r] = "scatter"
    <3>1. \A e \in Elem : PairHeld(r, e)' = PairHeld(r, e)
      BY <1>4, <1>10, <2>3, Zenon DEF PairHeld
    <3>2. \A e \in Elem : t'[r][e] = t[r][e]
      BY <1>11, <2>3, Zenon
    <3> QED BY <2>1, <2>3, <3>1, <3>2, Zenon
  <2>4. CASE q = r /\ phase[r] # "scatter"
    <3>1. ASSUME NEW e \in Elem PROVE t'[r][e] = PairHeld(r, e)'
      <4>1. PICK c \in Rank : c = ChunkOf(e)
        BY ChunkOfElem, Zenon
      <4>2. Scattered(r) /\ Scattered(r)'
        BY <1>4, <1>10, <2>4, Zenon
      <4>3. t[r][e] = PairHeld(r, e)
        BY <1>2, <2>1, <2>4
      <4>4. CASE c # p
        <5>1. rcvd'[r][c] = rcvd[r][c] /\ e # f
          BY <1>7, <1>9, <2>4, <4>1, <4>4, Zenon
        <5> QED BY <1>11, <4>1, <4>2, <4>3, <5>1, Zenon DEF PairHeld
      <4>5. CASE c = p
        <5>1. rcvd'[r][c] = o + 1 /\ rcvd[r][c] = o /\ c # r
          BY <1>3, <1>9, <4>1, <4>5, Zenon DEF o
        <5>2. Start(p) \in Int /\ e \in Int
          BY <1>3, ChunkFacts DEF Elem
        <5>3. e - Start(c) < o + 1 <=> e - Start(c) < o \/ e = f
          BY <1>3, <4>5, <5>2 DEF f
        <5>4. CASE e = f
          <6>1. t'[r][e] = Complete(e, c)
            BY <1>2, <1>11, <2>4, <4>5, <5>4, Zenon
          <6> QED BY <4>1, <4>2, <5>1, <5>3, <5>4, <6>1, Zenon DEF PairHeld
        <5>5. CASE e # f
          <6>1. t'[r][e] = t[r][e]
            BY <1>11, <5>5, Zenon
          <6> QED BY <4>1, <4>2, <4>3, <5>1, <5>3, <5>5, <6>1 DEF PairHeld
        <5> QED BY <5>4, <5>5, Zenon
      <4> QED BY <4>4, <4>5, Zenon
    <3> QED BY <1>2, <2>4, <3>1, Zenon
  <2> QED BY <2>2, <2>3, <2>4, Zenon
<1>16. ButterflyScratch'
  <2> SUFFICES ASSUME NEW q \in Rank, phase[q] = "scatter", NEW b \in Peers(q),
                      NEW s \in 0 .. rcvd'[q][b] - 1
               PROVE  scratch'[q][RecvOff(q, b) + s] = Input(b)[Start(q) + s]
    BY <1>1, Zenon DEF ButterflyScratch
  <2>1. /\ b \in Rank /\ Count(q) \in Nat /\ rcvd'[q][b] \in Nat /\ rcvd[q][b] \in Nat
        /\ rcvd'[q][b] <= Count(q) /\ rcvd[q][b] <= Count(q)
    <3>1. ~Scattered(q) /\ ~Scattered(q)'
      BY <1>10, Zenon DEF Scattered
    <3> QED BY <1>13, <3>1, ChunkFacts, PerFacts DEF ButterflyInv, ButterflyControl, Peers
  <2>2. s \in 0 .. Count(q) - 1
    BY <2>1
  <2>3. RecvOff(q, b) + s \in ButterflySlots
    BY <2>2, SlotPlace, Zenon
  <2>4. s \in 0 .. rcvd[q][b] - 1 =>
          scratch[q][RecvOff(q, b) + s] = Input(b)[Start(q) + s]
    BY Zenon DEF ButterflyInv, ButterflyScratch
  <2>5. CASE q = r /\ b = p /\ s = o
    BY <1>2, <1>12, <2>3, <2>5, Zenon DEF i
  <2>6. CASE ~(q = r /\ b = p /\ s = o)
    <3>1. s \in 0 .. rcvd[q][b] - 1
      BY <1>3, <1>9, <2>1, <2>6 DEF o
    <3>2. q = r => RecvOff(q, b) + s # i
      <4> SUFFICES ASSUME q = r, RecvOff(r, b) + s = RecvOff(r, p) + o PROVE FALSE
        BY Zenon DEF i
      <4>1. o \in 0 .. Count(r) - 1 /\ b \in Peers(r) /\ s \in 0 .. Count(r) - 1
        BY <1>6, <2>2, Zenon
      <4>2. b = p /\ s = o
        BY <4>1, SlotPlace
      <4> QED BY <2>6, <4>2, Zenon
    <3>3. scratch'[q][RecvOff(q, b) + s] = scratch[q][RecvOff(q, b) + s]
      BY <1>12, <2>3, <3>2, Zenon
    <3> QED BY <2>4, <3>1, <3>3, Zenon
  <2> QED BY <2>5, <2>6, Zenon
<1> QED BY <1>13, <1>14, <1>15, <1>16, Zenon DEF ButterflyInv

\* A rank that has all of the result has it from ranks that had all inputs.
LEMMA AllCalled ==
  ASSUME ButterflyInv, NEW r \in Rank, phase[r] = "gather", Joined(r), NEW q \in Rank
  PROVE  phase[q] # "idle"
<1>1. PICK c \in Rank : Count(c) \in Nat /\ Count(c) > 0
  <2>1. 0 \in Elem
    BY NumelAssumption DEF Elem
  <2>2. ChunkOf(0) \in Rank /\ 0 - Start(ChunkOf(0)) \in 0 .. Count(ChunkOf(0)) - 1
    BY <2>1, ChunkOfElem, Zenon
  <2>3. Count(ChunkOf(0)) \in Nat
    BY <2>2, ChunkFacts, PerFacts
  <2>4. Count(ChunkOf(0)) > 0
    BY <2>2, <2>3
  <2> QED BY <2>2, <2>3, <2>4, Zenon
<1>2. Scattered(c)
  <2>1. CASE c = r
    BY <2>1, Zenon DEF Scattered
  <2>2. CASE c # r
    <3>1. c \in Peers(r) /\ r \in Peers(c) /\ Scattered(r)
      BY <2>2, Zenon DEF Peers, Scattered
    <3>2. rcvd[r][c] = Count(c) /\ Count(r) \in Nat
      BY <3>1, ChunkFacts, PerFacts DEF Joined, RecvChunk
    <3>3. PairGot(c, r) = Count(r) + Count(c)
      BY <3>1, <3>2, Zenon DEF PairGot
    <3>4. Len(wire[c][r]) = PairPut(c, r) - PairGot(c, r) /\ Len(wire[c][r]) \in Nat
      BY <2>2 DEF ButterflyInv, ButterflyStreams, Carries
    <3>5. PairPut(c, r) \in Nat /\ sent[c][r] \in Nat
      BY <3>1, PairNat, Zenon DEF ButterflyInv
    <3>6. ~Scattered(c) => PairPut(c, r) = sent[c][r] /\ sent[c][r] <= Count(r)
      BY <3>1, <3>5 DEF PairPut, ButterflyInv, ButterflyControl
    <3> QED BY <1>1, <3>2, <3>3, <3>4, <3>5, <3>6
  <2> QED BY <2>1, <2>2, Zenon
<1>3. CASE q = c
  BY <1>2, <1>3, Zenon DEF Scattered
<1>4. CASE q # c
  <2>1. q \in Peers(c) /\ c \in Peers(q)
    BY <1>4, Zenon DEF Peers
  <2>2. PairGot(q, c) = Count(c) + rcvd[c][q] /\ rcvd[c][q] \in Nat
    BY <1>2, <2>1, PairNat, Zenon DEF PairGot, ButterflyInv
  <2>3. Len(wire[q][c]) = PairPut(q, c) - PairGot(q, c) /\ Len(wire[q][c]) \in Nat
    BY <1>4 DEF ButterflyInv, ButterflyStreams, Carries
  <2>4. phase[q] = "idle" => PairPut(q, c) = 0
    BY <2>1 DEF PairPut, Scattered, ButterflyInv, ButterflyControl
  <2>5. PairPut(q, c) \in Nat
    BY <2>1, PairNat, Zenon DEF ButterflyInv
  <2> QED BY <1>1, <2>2, <2>3, <2>4, <2>5
<1> QED BY <1>3, <1>4, Zenon

\* Joining the threads of the second phase, and scaling, keeps the invariant:
\* the tensor is the result.
LEMMA EndGatherStep ==
  ASSUME ButterflyInv, NEW r \in Rank, EndGather(r)
  PROVE  ButterflyInv' /\ t'[r] = ButterflyResult
<1>1. /\ phase[r] = "gather" /\ Joined(r)
      /\ t' = [t EXCEPT ![r] = ScaleIfAvg(t[r])]
      /\ phase' = [phase EXCEPT ![r] = "done"]
      /\ UNCHANGED <<sent, rcvd, scratch, wire>>
  BY Zenon DEF EndGather
<1>2. /\ \A q \in Rank : phase'[q] = IF q = r THEN "done" ELSE phase[q]
      /\ phase' \in [Rank -> {"idle", "scatter", "gather", "done"}]
  BY <1>1, Zenon DEF ButterflyInv, ButterflyControl
<1>3. Scattered(r) /\ \A q \in Rank : Scattered(q)' <=> Scattered(q)
  BY <1>1, <1>2, Zenon DEF Scattered
<1>4. \A p \in Peers(r) : p \in Rank /\ sent[r][p] = Count(r) /\ rcvd[r][p] = Count(p)
  BY <1>1, Zenon DEF Joined, SendChunk, RecvChunk, Peers
<1>5. ASSUME NEW e \in Elem PROVE t[r][e] = Complete(e, ChunkOf(e))
  <2>1. PICK c \in Rank : c = ChunkOf(e)
    BY ChunkOfElem, Zenon
  <2>2. t[r][e] = PairHeld(r, e)
    BY <1>1, Zenon DEF ButterflyInv, ButterflyTensors
  <2>3. CASE c = r
    BY <1>3, <2>1, <2>2, <2>3, Zenon DEF PairHeld
  <2>4. CASE c # r
    <3>1. rcvd[r][c] = Count(c)
      BY <1>4, <2>4, Zenon DEF Peers
    <3>2. e - Start(c) \in 0 .. Count(c) - 1 /\ Count(c) \in Nat
      BY <2>1, ChunkOfElem, ChunkFacts, PerFacts
    <3>3. e - Start(c) < rcvd[r][c]
      BY <3>1, <3>2
    <3> QED BY <1>3, <2>1, <2>2, <3>3, Zenon DEF PairHeld
  <2> QED BY <2>3, <2>4, Zenon
<1>6. ScaleIfAvg(t[r]) = ButterflyResult
  <2>1. t[r] = [e \in Elem |-> t[r][e]]
    BY Zenon DEF ButterflyInv, ButterflyControl
  <2>2. PICK owner : owner = [e \in Elem |-> ChunkOf(e)]
    BY Zenon
  <2>3. \A e \in Elem : t[r][e] = Complete(e, owner[e])
    BY <1>5, <2>2, Zenon
  <2>4. ScaleIfAvg(t[r]) = Reduction(owner)
    BY <2>1, <2>3, Scaled, Zenon
  <2> QED BY <2>2, <2>4, Zenon DEF ButterflyResult
<1>7. t'[r] = ButterflyResult /\ \A q \in Rank : q # r => t'[q] = t[q]
  BY <1>1, <1>6, Zenon DEF ButterflyInv, ButterflyControl
<1>8. ButterflyControl'
  <2>1. ButterflyResult \in [Elem -> Value]
    BY ChunkOfElem, Zenon DEF ButterflyResult, Reduction, Value
  <2>2. t' \in [Rank -> [Elem -> Value]]
    BY <1>1, <1>6, <2>1, Zenon DEF ButterflyInv, ButterflyControl
  <2>3. ASSUME NEW a \in Rank, NEW b \in Peers(a)
        PROVE  /\ sent'[a][b] <= Count(IF Scattered(a)' THEN a ELSE b)
               /\ rcvd'[a][b] <= Count(IF Scattered(a)' THEN b ELSE a)
               /\ phase'[a] = "idle" => sent'[a][b] = 0 /\ rcvd'[a][b] = 0
               /\ phase'[a] = "done" => sent'[a][b] = Count(a) /\ rcvd'[a][b] = Count(b)
    BY <1>1, <1>2, <1>3, <1>4 DEF ButterflyInv, ButterflyControl
  <2> QED BY <1>1, <1>2, <2>2, <2>3, Zenon DEF ButterflyInv, ButterflyControl
<1>9. ButterflyStreams'
  <2>1. \A p, q \in Rank : PairPut(p, q)' = PairPut(p, q) /\ PairGot(p, q)' = PairGot(p, q)
    BY <1>1, <1>3, Zenon DEF PairPut, PairGot
  <2> QED BY <1>1, <2>1, Zenon DEF ButterflyInv, ButterflyStreams
<1>10. ButterflyTensors'
  <2>1. \A q \in Rank : \A e \in Elem : PairHeld(q, e)' = PairHeld(q, e)
    BY <1>1, <1>3, Zenon DEF PairHeld
  <2> QED BY <1>2, <1>7, <2>1 DEF ButterflyInv, ButterflyTensors
<1>11. ButterflyScratch'
  BY <1>1, <1>2, Zenon DEF ButterflyInv, ButterflyScratch
<1> QED BY <1>7, <1>8, <1>9, <1>10, <1>11, Zenon DEF ButterflyInv

\* The invariant holds before the call.
LEMMA ButterflyStart ==
  ASSUME ButterflyInit
  PROVE  ButterflyInv
<1>1. World \in Nat /\ World >= 2 /\ PerRank \in Nat \ {0}
  BY WorldAssumption, PerFacts, Zenon
<1>2. /\ phase = [r \in Rank |-> "idle"]
      /\ sent = [r \in Rank |-> [p \in Rank |-> 0]]
      /\ rcvd = [r \in Rank |-> [p \in Rank |-> 0]]
      /\ t = [r \in Rank |-> Input(r)]
      /\ scratch = [r \in Rank |-> [i \in ButterflySlots |-> Garbage]]
      /\ wire = [p \in Rank |-> [q \in Rank |-> <<>>]]
  BY Zenon DEF ButterflyInit, EmptyWire
<1>3. \A r \in Rank : ~Scattered(r) /\ phase[r] = "idle"
  BY <1>2, Zenon DEF Scattered
<1>4. \A p, q \in Rank : sent[p][q] = 0 /\ rcvd[p][q] = 0 /\ wire[p][q] = <<>>
  BY <1>2, Zenon
<1>5. ButterflyControl
  <2>1. t \in [Rank -> [Elem -> Value]]
    <3>1. \A r \in Rank : \A e \in Elem : Input(r)[e] \in Value
      BY InputIsPartial, ValueTypes, Zenon
    <3>2. \A r \in Rank : Input(r) \in [Elem -> Value]
      BY <3>1, Zenon DEF Input
    <3> QED BY <1>2, <3>2, Zenon
  <2>2. Garbage \in Value
    BY <1>1 DEF Garbage, Value, Rank
  <2>3. scratch \in [Rank -> [ButterflySlots -> Value]] /\ wire \in Wires
    BY <1>2, <2>2 DEF Wires
  <2>4. /\ phase \in [Rank -> {"idle", "scatter", "gather", "done"}]
        /\ sent \in [Rank -> [Rank -> 0 .. PerRank]]
        /\ rcvd \in [Rank -> [Rank -> 0 .. PerRank]]
    BY <1>1, <1>2
  <2>5. \A r \in Rank : Count(r) \in Nat
    BY ChunkFacts, PerFacts
  <2>6. \A r \in Rank : \A p \in Peers(r) : p \in Rank
    BY Zenon DEF Peers
  <2>7. ASSUME NEW r \in Rank, NEW p \in Peers(r)
        PROVE  /\ sent[r][p] <= Count(IF Scattered(r) THEN r ELSE p)
               /\ rcvd[r][p] <= Count(IF Scattered(r) THEN p ELSE r)
               /\ sent[r][p] = 0 /\ rcvd[r][p] = 0 /\ phase[r] # "done"
    <3>1. sent[r][p] = 0 /\ rcvd[r][p] = 0
      BY <1>4, <2>6, Zenon
    <3>2. Count(r) \in Nat /\ Count(p) \in Nat
      BY <2>5, <2>6, Zenon
    <3>3. 0 <= Count(r) /\ 0 <= Count(p)
      BY <3>2
    <3>4. ~Scattered(r) /\ phase[r] = "idle"
      BY <1>3, Zenon
    <3> QED BY <3>1, <3>3, <3>4, Zenon
  <2> QED BY <2>1, <2>3, <2>4, <2>7, Zenon DEF ButterflyControl
<1>6. ButterflyStreams
  <2>1. \A p, q \in Rank : PairPut(p, q) = 0 /\ PairGot(p, q) = 0
    BY <1>3, <1>4 DEF PairPut, PairGot
  <2>2. \A f : Carries(<<>>, f, 0, 0)
    BY DEF Carries
  <2> QED BY <1>4, <2>1, <2>2, Zenon DEF ButterflyStreams
<1>7. ButterflyTensors
  BY <1>2, <1>3, Zenon DEF ButterflyTensors, PairHeld
<1>8. ButterflyScratch
  BY <1>3, Zenon DEF ButterflyScratch
<1> QED BY <1>5, <1>6, <1>7, <1>8, Zenon DEF ButterflyInv

\* What the runs check of the butterfly follows from the invariant: what a rank
\* reads belongs to the phase it is in.
LEMMA ButterflySafe ==
  ASSUME ButterflyInv
  PROVE  ButterflyTypeOK /\ PhasesDoNotMix
<1>1. ButterflyTypeOK
  BY Zenon DEF ButterflyInv, ButterflyControl, ButterflyTypeOK, PerRank, Wires
<1>2. PhasesDoNotMix
  <2> SUFFICES ASSUME NEW r \in Rank, NEW p \in Peers(r), Running(r),
                      rcvd[r][p] < Count(RecvChunk(r, p)), CanRead(wire, p, r)
               PROVE  /\ Head(wire[p][r]).elem = Start(RecvChunk(r, p)) + rcvd[r][p]
                      /\ phase[r] = "scatter" <=>
                           Head(wire[p][r]) = Input(p)[Head(wire[p][r]).elem]
    BY Zenon DEF PhasesDoNotMix
  <2>1. /\ Head(wire[p][r]) =
             IF phase[r] = "scatter" THEN Input(p)[Start(r) + rcvd[r][p]]
             ELSE Complete(Start(p) + rcvd[r][p], p)
        /\ phase[r] \in {"scatter", "gather"}
        /\ rcvd[r][p] \in 0 .. Count(IF Scattered(r) THEN p ELSE r) - 1
    BY PairReceives, Zenon DEF ButterflyReceiving
  <2>2. p \in Rank /\ p # r
    BY Zenon DEF Peers
  <2>3. CASE phase[r] = "scatter"
    <3>1. RecvChunk(r, p) = r /\ ~Scattered(r)
      BY <2>3, Zenon DEF RecvChunk, Scattered
    <3>2. PICK e \in Elem : e = Start(r) + rcvd[r][p]
      BY <2>1, <3>1, InChunk, Zenon
    <3>3. Head(wire[p][r]) = Input(p)[e] /\ Input(p)[e].elem = e
      BY <2>1, <2>3, <3>2, Zenon DEF Input
    <3> QED BY <2>3, <3>1, <3>2, <3>3, Zenon
  <2>4. CASE phase[r] = "gather"
    <3>1. RecvChunk(r, p) = p /\ Scattered(r) /\ phase[r] # "scatter"
      BY <2>4, Zenon DEF RecvChunk, Scattered
    <3>2. PICK e \in Elem : e = Start(p) + rcvd[r][p]
      BY <2>1, <2>2, <3>1, InChunk, Zenon
    <3>3. Head(wire[p][r]) = Complete(e, p) /\ Complete(e, p).elem = e
      BY <2>1, <3>1, <3>2, Zenon DEF Complete
    <3>4. Complete(e, p).cnt[r] = 1 /\ Input(p)[e].cnt[r] = 0
      BY <2>2, Zenon DEF Complete, Input
    <3>5. Complete(e, p) # Input(p)[e]
      BY <3>4
    <3> QED BY <3>1, <3>2, <3>3, <3>5, Zenon
  <2> QED BY <2>1, <2>3, <2>4, Zenon
<1> QED BY <1>1, <1>2, Zenon

\* When a rank has returned, nothing is left on the streams to it.
LEMMA ButterflyClean ==
  ASSUME ButterflyInv, NEW r \in Rank, phase[r] = "done", NEW p \in Rank
  PROVE  wire[p][r] = <<>>
<1>1. CASE p = r
  BY <1>1, Zenon DEF ButterflyInv, ButterflyStreams
<1>2. CASE p # r
  <2>1. p \in Peers(r) /\ r \in Peers(p)
    BY <1>2, Zenon DEF Peers
  <2>2. /\ wire[p][r] \in Seq(Value) /\ Len(wire[p][r]) = PairPut(p, r) - PairGot(p, r)
    BY <1>2, Zenon DEF ButterflyInv, ButterflyStreams, Carries
  <2>3. Count(p) \in Nat /\ Count(r) \in Nat /\ sent[p][r] \in Nat
    BY <2>1, ChunkFacts, PerFacts, PairNat DEF ButterflyInv
  <2>4. PairGot(p, r) = Count(r) + Count(p)
    BY <2>1, Zenon DEF PairGot, Scattered, ButterflyInv, ButterflyControl
  <2>5. sent[p][r] <= Count(IF Scattered(p) THEN p ELSE r)
    BY <2>1, Zenon DEF ButterflyInv, ButterflyControl
  <2>6. PairPut(p, r) \in Nat /\ PairPut(p, r) <= Count(r) + Count(p)
    BY <2>3, <2>5 DEF PairPut
  <2>7. Len(wire[p][r]) = 0
    BY <2>2, <2>3, <2>4, <2>6
  <2> QED BY <2>2, <2>7
<1> QED BY <1>1, <1>2, Zenon

\* Every step of the butterfly keeps the promise of the call.
LEMMA ButterflyPromise ==
  ASSUME ButterflyInv, ButterflyNext
  PROVE  KeepsPromise([e \in Elem |-> ChunkOf(e)])
<1>1. /\ phase \in [Rank -> {"idle", "scatter", "gather", "done"}]
      /\ t \in [Rank -> [Elem -> Value]]
  BY Zenon DEF ButterflyInv, ButterflyControl
<1>2. PICK r \in Rank : ButterflyEnter(r) \/ Threads(r) \/ EndScatter(r) \/ EndGather(r)
  BY Zenon DEF ButterflyNext
<1>3. CASE ButterflyEnter(r)
  BY <1>1, <1>3, Zenon DEF ButterflyEnter, KeepsPromise
<1>4. CASE Threads(r)
  <2>1. phase[r] \in {"scatter", "gather"} /\ phase' = phase
    BY <1>4, Zenon DEF Threads, ButterflySendElem, ButterflyRecvElem, ButterflySending,
                       ButterflyReceiving, Running
  <2>2. PICK p \in Peers(r) : ButterflySendElem(r, p) \/ ButterflyRecvElem(r, p)
    BY <1>4, Zenon DEF Threads
  <2>3. \A q \in Rank : q # r => t'[q] = t[q]
    <3>1. \/ t' = t
          \/ t' = [t EXCEPT ![r][Start(p) + rcvd[r][p]] = Head(wire[p][r])]
      BY <2>2, Zenon DEF ButterflySendElem, ButterflyRecvElem
    <3> QED BY <1>1, <3>1, Zenon
  <2> QED BY <2>1, <2>3, Zenon DEF KeepsPromise
<1>5. CASE EndScatter(r)
  <2>1. /\ phase[r] = "scatter" /\ phase' = [phase EXCEPT ![r] = "gather"]
        /\ \A q \in Rank : q # r => t'[q] = t[q]
    BY <1>1, <1>5, Zenon DEF EndScatter
  <2> QED BY <1>1, <2>1, Zenon DEF KeepsPromise
<1>6. CASE EndGather(r)
  <2>1. /\ phase[r] = "gather" /\ phase' = [phase EXCEPT ![r] = "done"] /\ Joined(r)
        /\ \A q \in Rank : q # r => t'[q] = t[q]
    BY <1>1, <1>6, Zenon DEF EndGather
  <2>2. t'[r] = ButterflyResult
    BY <1>6, EndGatherStep, Zenon
  <2>3. \A q \in Rank : phase[q] # "idle"
    BY <2>1, AllCalled, Zenon
  <2>4. \A q \in Rank : phase[q] = "done" => t[q] = ButterflyResult
    BY Zenon DEF ButterflyInv, ButterflyTensors
  <2> QED BY <1>1, <2>1, <2>2, <2>3, <2>4, Zenon DEF KeepsPromise,
     ButterflyResult
<1> QED BY <1>2, <1>3, <1>4, <1>5, <1>6, Zenon
-----------------------------------------------------------------------------
INSTANCE WellFoundedInduction
INSTANCE NaturalsInduction

\* A set of naturals that is not empty has a least element.
LEMMA LeastNat ==
  ASSUME NEW T, T \subseteq Nat, T # {}
  PROVE  \E x \in T : \A y \in T : x <= y
<1>1. PICK x \in T : \A y \in T : ~(<<y, x>> \in OpToRel(<, Nat))
  BY NatLessThanWellFounded, WFMin, Zenon
<1>2. \A y \in T : ~(y < x)
  BY <1>1, Zenon DEF OpToRel
<1> QED
  BY <1>2

\* The loop over the slots, when each holds the input of its peer.
LEMMA SlotsReduce ==
  ASSUME NEW r \in Rank, NEW e \in Elem, t[r][e] = Input(r)[e],
         \A n \in 1 .. World - 1 :
           scratch[r][(n - 1) * Count(r) + e - Start(r)] = Input(PeerOf(r, n - 1))[e]
  PROVE  ReducedSlots(r, e) = Complete(e, r)
<1> DEFINE Dom == 0 .. World - 1
           At(n) == scratch[r][(n - 1) * Count(r) + e - Start(r)]
           Loops(f) == f = [n \in Dom |-> IF n = 0 THEN t[r][e]
                                          ELSE ReduceInto(r, f[n - 1], At(n))]
           g == [n \in Dom |-> SlotsIn(r, e, n)]
<1>1. World \in Nat /\ World >= 2
  BY WorldAssumption, Zenon
<1>2. \A n \in 1 .. World - 1 : At(n) = Input(PeerOf(r, n - 1))[e]
  OBVIOUS
<1>3. t[r][e] = SlotsIn(r, e, 0)
  <2>1. \A q \in Rank : ~(q = r) => ~(Slot(r, q) < 0)
    BY <1>1 DEF Slot, Rank
  <2>2. [q \in Rank |-> IF q = r \/ Slot(r, q) < 0 THEN 1 ELSE 0] =
          [q \in Rank |-> IF q = r THEN 1 ELSE 0]
    BY <2>1, Zenon
  <2> QED BY <2>2, Zenon DEF SlotsIn, Input
<1>4. ReducedSlots(r, e) = (CHOOSE f : Loops(f))[World - 1]
  BY Zenon DEF ReducedSlots
<1> HIDE DEF At
<1>5. Loops(g)
  <2>1. ASSUME NEW n \in Dom
        PROVE  SlotsIn(r, e, n) = IF n = 0 THEN t[r][e] ELSE ReduceInto(r, g[n - 1], At(n))
    <3>1. CASE n = 0
      BY <1>3, <3>1, Zenon
    <3>2. CASE n # 0
      <4>1. n \in 1 .. World - 1 /\ n - 1 \in Dom
        BY <1>1, <3>2
      <4>2. g[n - 1] = SlotsIn(r, e, n - 1)
        BY <4>1, Zenon
      <4>3. ReduceInto(r, SlotsIn(r, e, n - 1), At(n)) = SlotsIn(r, e, n)
        BY <1>2, <4>1, SlotStep, Zenon
      <4> QED BY <3>2, <4>2, <4>3, Zenon
    <3> QED BY <3>1, <3>2, Zenon
  <2> QED BY <2>1, Zenon
<1>6. ASSUME NEW f, Loops(f), NEW n \in Dom PROVE f[n] = SlotsIn(r, e, n)
  <2> DEFINE Bad == {m \in Dom : f[m] # SlotsIn(r, e, m)}
  <2> SUFFICES ASSUME Bad # {} PROVE FALSE
    OBVIOUS
  <2>1. Bad \subseteq Nat
    BY <1>1
  <2>2. PICK m \in Bad : \A y \in Bad : m <= y
    BY <2>1, LeastNat, Zenon
  <2>3. f[m] = IF m = 0 THEN t[r][e] ELSE ReduceInto(r, f[m - 1], At(m))
    BY <1>6, <2>2, Zenon
  <2>4. CASE m = 0
    BY <1>3, <2>2, <2>3, <2>4, Zenon
  <2>5. CASE m # 0
    <3>1. m \in 1 .. World - 1 /\ m - 1 \in Dom /\ ~(m <= m - 1)
      BY <1>1, <2>2, <2>5
    <3>2. f[m - 1] = SlotsIn(r, e, m - 1)
      BY <2>2, <3>1, Zenon
    <3>3. ReduceInto(r, SlotsIn(r, e, m - 1), At(m)) = SlotsIn(r, e, m)
      BY <1>2, <3>1, SlotStep, Zenon
    <3> QED BY <2>2, <2>3, <2>5, <3>2, <3>3, Zenon
  <2> QED BY <2>4, <2>5, Zenon
<1>7. PICK h : h = CHOOSE f : Loops(f)
  OBVIOUS
<1> HIDE DEF Loops, g
<1>8. Loops(h)
  BY <1>5, <1>7, Zenon
<1>9. h[World - 1] = SlotsIn(r, e, World - 1)
  BY <1>1, <1>6, <1>8
<1>10. SlotsIn(r, e, World - 1) = Complete(e, r)
  <2>1. \A q \in Rank : Slot(r, q) < World - 1 \/ q = r
    BY <1>1 DEF Slot, Rank
  <2>2. [q \in Rank |-> IF q = r \/ Slot(r, q) < World - 1 THEN 1 ELSE 0] = [q \in Rank |-> 1]
    BY <2>1, Zenon
  <2> QED BY <2>2, Zenon DEF SlotsIn, Complete
<1> QED BY <1>4, <1>7, <1>9, <1>10, Zenon

\* After the first phase every element of a rank's own chunk is complete.
LEMMA OwnChunk ==
  ASSUME ButterflyInv, NEW r \in Rank, phase[r] = "scatter", Joined(r),
         NEW e \in Elem, ChunkOf(e) = r
  PROVE  ReducedSlots(r, e) = Complete(e, r)
<1>1. /\ World \in Nat /\ World >= 2 /\ Count(r) \in Nat /\ Start(r) \in Int /\ e \in Int
  BY WorldAssumption, ChunkFacts, PerFacts DEF Elem
<1>2. ~Scattered(r)
  BY Zenon DEF Scattered
<1>3. t[r][e] = Input(r)[e]
  BY <1>2, Zenon DEF ButterflyInv, ButterflyTensors, PairHeld
<1>4. PICK o \in 0 .. Count(r) - 1 : o = e - Start(r)
  BY ChunkOfElem, Zenon
<1>5. ASSUME NEW n \in 1 .. World - 1
      PROVE  scratch[r][(n - 1) * Count(r) + e - Start(r)] = Input(PeerOf(r, n - 1))[e]
  <2>1. PICK p \in Peers(r) : p = PeerOf(r, n - 1) /\ Slot(r, p) = n - 1
    BY SlotStep, Zenon
  <2>2. rcvd[r][p] = Count(r)
    BY Zenon DEF Joined, RecvChunk
  <2>3. scratch[r][RecvOff(r, p) + o] = Input(p)[Start(r) + o]
    BY <1>4, <2>2, Zenon DEF ButterflyInv, ButterflyScratch
  <2>4. Start(r) + o = e
    BY <1>1, <1>4
  <2>5. (n - 1) * Count(r) + e - Start(r) = RecvOff(r, p) + o
    <3>1. PICK a \in Int : a = (n - 1) * Count(r)
      BY <1>1
    <3>2. RecvOff(r, p) = a
      BY <2>1, <3>1, Zenon DEF RecvOff
    <3>3. a + e - Start(r) = a + o
      BY <1>1, <1>4, Zenon
    <3> QED BY <3>1, <3>2, <3>3, Zenon
  <2> QED BY <2>1, <2>3, <2>4, <2>5, Zenon
<1> QED BY <1>3, <1>5, SlotsReduce, Zenon

\* Joining the threads of the first phase, and reducing the slots, keeps the
\* invariant.
LEMMA EndScatterStep ==
  ASSUME ButterflyInv, NEW r \in Rank, EndScatter(r)
  PROVE  ButterflyInv'
<1>1. /\ phase[r] = "scatter" /\ Joined(r)
      /\ t' = [t EXCEPT ![r] =
                 [e \in Elem |-> IF e \in Elems(r) THEN ReducedSlots(r, e) ELSE t[r][e]]]
      /\ phase' = [phase EXCEPT ![r] = "gather"]
      /\ sent' = [sent EXCEPT ![r] = [p \in Rank |-> 0]]
      /\ rcvd' = [rcvd EXCEPT ![r] = [p \in Rank |-> 0]]
      /\ UNCHANGED <<scratch, wire>>
  BY Zenon DEF EndScatter
<1>2. /\ \A q \in Rank : phase'[q] = IF q = r THEN "gather" ELSE phase[q]
      /\ phase' \in [Rank -> {"idle", "scatter", "gather", "done"}]
  BY <1>1, Zenon DEF ButterflyInv, ButterflyControl
<1>3. /\ \A q \in Rank : q # r => (Scattered(q)' <=> Scattered(q))
      /\ ~Scattered(r) /\ Scattered(r)'
  BY <1>1, <1>2, Zenon DEF Scattered
<1>4. \A p \in Peers(r) : p \in Rank /\ sent[r][p] = Count(p) /\ rcvd[r][p] = Count(r)
  BY <1>1, Zenon DEF Joined, SendChunk, RecvChunk, Peers
<1>5. /\ \A a, b \in Rank : sent'[a][b] = IF a = r THEN 0 ELSE sent[a][b]
      /\ \A a, b \in Rank : rcvd'[a][b] = IF a = r THEN 0 ELSE rcvd[a][b]
      /\ sent' \in [Rank -> [Rank -> 0 .. PerRank]]
      /\ rcvd' \in [Rank -> [Rank -> 0 .. PerRank]]
  BY <1>1, PerFacts DEF ButterflyInv, ButterflyControl
<1>6. ASSUME NEW e \in Elem
      PROVE  t'[r][e] = IF ChunkOf(e) = r THEN Complete(e, r) ELSE Input(r)[e]
  <2>1. t'[r][e] = IF e \in Elems(r) THEN ReducedSlots(r, e) ELSE t[r][e]
    BY <1>1, Zenon DEF ButterflyInv, ButterflyControl
  <2>2. e \in Elems(r) <=> ChunkOf(e) = r
    BY ChunkFacts, Zenon
  <2>3. t[r][e] = Input(r)[e]
    BY <1>1, <1>3, Zenon DEF ButterflyInv, ButterflyTensors, PairHeld
  <2> QED BY <1>1, <2>1, <2>2, <2>3, OwnChunk, Zenon
<1>7. \A q \in Rank : q # r => t'[q] = t[q]
  BY <1>1, Zenon DEF ButterflyInv, ButterflyControl
<1>8. t' \in [Rank -> [Elem -> Value]]
  <2>1. PICK f : f = [e \in Elem |-> IF e \in Elems(r) THEN ReducedSlots(r, e) ELSE t[r][e]]
    BY Zenon
  <2>2. t' = [t EXCEPT ![r] = f] /\ t \in [Rank -> [Elem -> Value]]
    BY <1>1, <2>1, Zenon DEF ButterflyInv, ButterflyControl
  <2>3. t'[r] = f /\ f = [e \in Elem |-> f[e]]
    BY <2>1, <2>2, Zenon
  <2>4. ASSUME NEW e \in Elem PROVE f[e] \in Value
    <3>1. Complete(e, r) \in Value
      BY ValueTypes, Zenon
    <3>2. Input(r)[e] \in Value
      BY InputIsPartial, ValueTypes, Zenon
    <3> QED BY <1>6, <2>3, <3>1, <3>2, Zenon
  <2>5. f \in [Elem -> Value]
    BY <2>3, <2>4, Zenon
  <2> QED BY <2>2, <2>5, Zenon
<1>9. ButterflyControl'
  <2> SUFFICES ASSUME NEW a \in Rank, NEW b \in Peers(a)
               PROVE  /\ sent'[a][b] <= Count(IF Scattered(a)' THEN a ELSE b)
                      /\ rcvd'[a][b] <= Count(IF Scattered(a)' THEN b ELSE a)
                      /\ phase'[a] = "idle" => sent'[a][b] = 0 /\ rcvd'[a][b] = 0
                      /\ phase'[a] = "done" => sent'[a][b] = Count(a) /\ rcvd'[a][b] = Count(b)
    BY <1>1, <1>2, <1>5, <1>8, Zenon DEF ButterflyInv, ButterflyControl
  <2>1. b \in Rank
    BY Zenon DEF Peers
  <2>2. CASE a = r
    <3>1. sent'[a][b] = 0 /\ rcvd'[a][b] = 0 /\ phase'[a] = "gather"
      BY <1>2, <1>5, <2>1, <2>2, Zenon
    <3>2. 0 <= Count(a) /\ 0 <= Count(b)
      BY <2>1, CountAsSum, Zenon
    <3> QED BY <3>1, <3>2, Zenon
  <2>3. CASE a # r
    <3>1. /\ sent'[a][b] = sent[a][b] /\ rcvd'[a][b] = rcvd[a][b]
          /\ phase'[a] = phase[a] /\ (Scattered(a)' <=> Scattered(a))
      BY <1>2, <1>3, <1>5, <2>1, <2>3, Zenon
    <3> QED BY <3>1, Zenon DEF ButterflyInv, ButterflyControl
  <2> QED BY <2>2, <2>3, Zenon
<1>10. ButterflyStreams'
  <2>1. ASSUME NEW a \in Rank, NEW b \in Rank, a # b
        PROVE  PairPut(a, b)' = PairPut(a, b) /\ PairGot(a, b)' = PairGot(a, b)
    <3>1. /\ 0 + Count(b) = Count(b) + 0
          /\ b \in Peers(a) /\ a \in Peers(b)
      BY <2>1, CountAsSum, Zenon DEF Peers
    <3>2. PairPut(a, b)' = PairPut(a, b)
      <4>1. CASE a = r
        <5>1. sent'[a][b] = 0 /\ sent[a][b] = Count(b) /\ ~Scattered(a) /\ Scattered(a)'
          BY <1>3, <1>4, <1>5, <3>1, <4>1, Zenon
        <5> QED BY <3>1, <5>1, Zenon DEF PairPut
      <4>2. CASE a # r
        BY <1>3, <1>5, <4>2, Zenon DEF PairPut
      <4> QED BY <4>1, <4>2, Zenon
    <3>3. PairGot(a, b)' = PairGot(a, b)
      <4>1. CASE b = r
        <5>1. rcvd'[b][a] = 0 /\ rcvd[b][a] = Count(b) /\ ~Scattered(b) /\ Scattered(b)'
          BY <1>3, <1>4, <1>5, <3>1, <4>1, Zenon
        <5> QED BY <3>1, <5>1, Zenon DEF PairGot
      <4>2. CASE b # r
        BY <1>3, <1>5, <4>2, Zenon DEF PairGot
      <4> QED BY <4>1, <4>2, Zenon
    <3> QED BY <3>2, <3>3, Zenon
  <2> QED BY <1>1, <2>1, Zenon DEF ButterflyInv, ButterflyStreams
<1>11. ButterflyTensors'
  <2> SUFFICES ASSUME NEW q \in Rank
               PROVE  IF phase'[q] = "done" THEN t'[q] = ButterflyResult
                      ELSE \A e \in Elem : t'[q][e] = PairHeld(q, e)'
    BY Zenon DEF ButterflyTensors
  <2>1. CASE q # r
    <3>1. \A e \in Elem : PairHeld(q, e)' = PairHeld(q, e)
      BY <1>3, <1>5, <2>1, ChunkOfElem, Zenon DEF PairHeld
    <3> QED BY <1>2, <1>7, <2>1, <3>1, Zenon DEF ButterflyInv, ButterflyTensors
  <2>2. CASE q = r
    <3>1. ASSUME NEW e \in Elem PROVE t'[r][e] = PairHeld(r, e)'
      <4>1. PICK c \in Rank : c = ChunkOf(e)
        BY ChunkOfElem, Zenon
      <4>2. ~(e - Start(c) < 0)
        <5>1. e - Start(c) \in 0 .. Count(c) - 1
          BY <4>1, ChunkOfElem, Zenon
        <5> QED BY <5>1
      <4>3. rcvd'[r][c] = 0
        BY <1>5, Zenon
      <4> QED BY <1>3, <1>6, <4>1, <4>2, <4>3, Zenon DEF PairHeld
    <3> QED BY <1>2, <2>2, <3>1, Zenon
  <2> QED BY <2>1, <2>2, Zenon
<1>12. ButterflyScratch'
  <2> SUFFICES ASSUME NEW q \in Rank, phase'[q] = "scatter", NEW b \in Peers(q),
                      NEW s \in 0 .. rcvd'[q][b] - 1
               PROVE  scratch[q][RecvOff(q, b) + s] = Input(b)[Start(q) + s]
    BY <1>1, Zenon DEF ButterflyScratch
  <2>1. q # r /\ phase[q] = "scatter"
    BY <1>2, Zenon
  <2>2. rcvd'[q][b] = rcvd[q][b]
    BY <1>5, <2>1, Zenon DEF Peers
  <2> QED BY <2>1, <2>2, Zenon DEF ButterflyInv, ButterflyScratch
<1> QED BY <1>9, <1>10, <1>11, <1>12, Zenon DEF ButterflyInv

\* Every step of the butterfly keeps the invariant.
LEMMA ButterflyKept ==
  ASSUME ButterflyInv, ButterflyNext \/ UNCHANGED butterflyVars
  PROVE  ButterflyInv'
<1>1. CASE UNCHANGED butterflyVars
  <2>1. /\ UNCHANGED <<phase, sent, rcvd, t, scratch, wire>>
        /\ \A r : Scattered(r)' = Scattered(r)
    BY <1>1, Zenon DEF butterflyVars, Scattered
  <2>2. /\ \A p, q : PairPut(p, q)' = PairPut(p, q) /\ PairGot(p, q)' = PairGot(p, q)
        /\ \A r, e : PairHeld(r, e)' = PairHeld(r, e)
    BY <2>1, Zenon DEF PairPut, PairGot, PairHeld
  <2>3. ButterflyControl'
    BY <2>1, Zenon DEF ButterflyInv, ButterflyControl
  <2>4. ButterflyStreams'
    BY <2>1, <2>2, Zenon DEF ButterflyInv, ButterflyStreams
  <2>5. ButterflyTensors'
    BY <2>1, <2>2, Zenon DEF ButterflyInv, ButterflyTensors
  <2>6. ButterflyScratch'
    BY <2>1, Zenon DEF ButterflyInv, ButterflyScratch
  <2> QED BY <2>3, <2>4, <2>5, <2>6, Zenon DEF ButterflyInv
<1>2. CASE ButterflyNext
  BY <1>2, ButterflyEnterStep, ButterflySendStep, ButterflyRecvStep,
     EndScatterStep,
     EndGatherStep, Zenon DEF ButterflyNext, Threads
<1> QED BY <1>1, <1>2, Zenon
=============================================================================
