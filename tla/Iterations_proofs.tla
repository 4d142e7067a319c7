-------------------------- MODULE Iterations_proofs --------------------------
(***************************************************************************)
(* Theorems about the numbers of loops, for loops of every length and      *)
(* stride and for every parameter of a transformation.                     *)
(***************************************************************************)
EXTENDS Iterations, TLAPS

-----------------------------------------------------------------------------
(* Division.                                                               *)

\* Division with remainder.
LEMMA DivMod ==
  ASSUME NEW a \in Int, NEW b \in Nat \ {0}
  PROVE  /\ a \div b \in Int /\ a % b \in Int
         /\ a = b * (a \div b) + (a % b) /\ 0 <= a % b /\ a % b < b
  OBVIOUS

\* The quotient and the remainder are the only ones.
LEMMA DivModUnique ==
  ASSUME NEW b \in Nat \ {0}, NEW q \in Int, NEW r \in Int, 0 <= r, r < b
  PROVE  (b * q + r) \div b = q /\ (b * q + r) % b = r
<1> DEFINE a == b * q + r
           p == a \div b
           s == a % b
<1>1. a \in Int /\ p \in Int /\ s \in Int /\ a = b * p + s /\ 0 <= s /\ s < b
  BY DivMod
<1>2. b * q + r = b * p + s
  BY <1>1
<1> HIDE DEF a, p, s
<1>3. ASSUME q < p PROVE FALSE
  <2>1. b * (p - q) = r - s /\ p - q >= 1
    BY <1>1, <1>2, <1>3
  <2>2. b * (p - q) >= b
    BY <1>1, <2>1
  <2> QED  BY <1>1, <2>1, <2>2
<1>4. ASSUME p < q PROVE FALSE
  <2>1. b * (q - p) = s - r /\ q - p >= 1
    BY <1>1, <1>2, <1>4
  <2>2. b * (q - p) >= b
    BY <1>1, <2>1
  <2> QED  BY <1>1, <2>1, <2>2
<1>5. p = q
  BY <1>1, <1>3, <1>4
<1> QED  BY <1>2, <1>5, <1>1 DEF p, s, a

\* Multiples of a stride.
LEMMA Multiple ==
  ASSUME NEW a \in Int, NEW b \in Nat \ {0}
  PROVE  a % b = 0 <=> \E q \in Int : a = b * q
<1>1. ASSUME NEW q \in Int, a = b * q PROVE a % b = 0
  <2>1. a = b * q + 0
    BY <1>1
  <2> QED  BY <2>1, DivModUnique
<1>2. ASSUME a % b = 0 PROVE \E q \in Int : a = b * q
  BY <1>2, DivMod
<1> QED  BY <1>1, <1>2

\* Multiples of multiples are multiples.
LEMMA MultiplesTimes ==
  ASSUME NEW b \in Nat \ {0}, NEW x \in Int, x % b = 0, NEW z \in Int
  PROVE  (x * z) % b = 0
<1>1. PICK p \in Int : x = b * p
  BY Multiple
<1>2. x * z = b * (p * z) /\ p * z \in Int /\ x * z \in Int
  BY <1>1
<1> QED  BY <1>2, Multiple

\* Sums and differences of multiples are multiples.
LEMMA MultiplesAdd ==
  ASSUME NEW b \in Nat \ {0}, NEW x \in Int, x % b = 0, NEW y \in Int
  PROVE  /\ (x + y) % b = 0 <=> y % b = 0
         /\ y % b = 0 => (x - y) % b = 0
<1>1. PICK p \in Int : x = b * p
  BY Multiple
<1>2. ASSUME NEW q \in Int, y = b * q PROVE (x + y) % b = 0 /\ (x - y) % b = 0
  <2>1. x + y = b * (p + q) /\ x - y = b * (p - q) /\ p + q \in Int /\ p - q \in Int
    BY <1>1, <1>2
  <2>2. (\E r \in Int : x + y = b * r) /\ (\E r \in Int : x - y = b * r)
    BY <2>1
  <2>3. x + y \in Int /\ x - y \in Int
    OBVIOUS
  <2> QED  BY <2>2, <2>3, Multiple
<1>3. ASSUME NEW q \in Int, x + y = b * q PROVE y % b = 0
  <2>1. y = b * (q - p) /\ q - p \in Int
    BY <1>1, <1>3
  <2> QED  BY <2>1, Multiple
<1>4. x + y \in Int
  OBVIOUS
<1> QED  BY <1>2, <1>3, <1>4, Multiple

-----------------------------------------------------------------------------
(* The values of an index.                                                 *)

\* The code that emit(Loop) creates takes these values one after the other: it
\* starts at 0, adds the stride, and stops at the end.
THEOREM LoopCounts ==
  ASSUME NEW end \in Nat, NEW stride \in Nat \ {0}
  PROVE  /\ 0 \in IndexValues(end, stride) <=> 0 < end
         /\ \A v \in IndexValues(end, stride) :
              /\ v + stride < end <=> v + stride \in IndexValues(end, stride)
              /\ \A w \in IndexValues(end, stride) : v < w => v + stride <= w
              /\ v # 0 => v - stride \in IndexValues(end, stride)
<1>1. 0 % stride = 0 /\ stride % stride = 0
  <2>1. 0 = stride * 0 /\ stride = stride * 1
    OBVIOUS
  <2> QED  BY <2>1, Multiple
<1>2. 0 \in IndexValues(end, stride) <=> 0 < end
  BY <1>1 DEF IndexValues
<1>3. ASSUME NEW v \in IndexValues(end, stride)
      PROVE  /\ v + stride < end <=> v + stride \in IndexValues(end, stride)
             /\ \A w \in IndexValues(end, stride) : v < w => v + stride <= w
             /\ v # 0 => v - stride \in IndexValues(end, stride)
  <2>1. v \in Int /\ 0 <= v /\ v < end /\ v % stride = 0
    BY DEF IndexValues
  <2>2. (v + stride) % stride = 0 /\ (v - stride) % stride = 0
    BY <1>1, <2>1, MultiplesAdd
  <2>3. PICK p \in Int : v = stride * p
    BY <2>1, Multiple
  <2>4. ASSUME NEW w \in IndexValues(end, stride), v < w PROVE v + stride <= w
    <3>1. w \in Int /\ w % stride = 0
      BY DEF IndexValues
    <3>2. PICK q \in Int : w = stride * q
      BY <3>1, Multiple
    <3>3. stride * (q - p) > 0
      BY <2>3, <2>4, <3>2
    <3>4. q - p >= 1
      BY <3>3
    <3>5. stride * (q - p) >= stride
      BY <3>4
    <3> QED  BY <2>3, <3>2, <3>5
  <2>5. v # 0 => v - stride >= 0
    <3> SUFFICES ASSUME v # 0 PROVE v - stride >= 0
      OBVIOUS
    <3>1. p >= 1
      BY <2>1, <2>3
    <3>2. stride * p >= stride
      BY <3>1
    <3> QED  BY <2>3, <3>2
  <2> QED  BY <2>1, <2>2, <2>4, <2>5 DEF IndexValues
<1> QED  BY <1>2, <1>3

-----------------------------------------------------------------------------
(* tile.                                                                   *)

\* The value of the expression that tile puts in the place of the index, for the index b
\* of the loop of blocks and the index i within the block.
TiledIndex(b, i, bs) == Arith("add", i, Arith("mul", b, bs))

\* Its value, as a number.
LEMMA TiledIndexIs ==
  ASSUME NEW b, NEW i, NEW bs
  PROVE  TiledIndex(b, i, bs) = i + b * bs
BY DEF TiledIndex, Arith

\* The number of blocks is the quotient, rounded up.
LEMMA BlocksRoundUp ==
  ASSUME NEW end \in Nat, NEW bs \in Nat \ {0}
  PROVE  /\ Blocks(end, bs) \in Nat
         /\ end <= bs * Blocks(end, bs)
         /\ bs * Blocks(end, bs) < end + bs
         /\ ~NeedRangeCheck(end, bs) => bs * Blocks(end, bs) = end
<1> DEFINE q == end \div bs
           r == end % bs
<1>1. q \in Int /\ r \in Int /\ end = bs * q + r /\ 0 <= r /\ r < bs
  BY DivMod
<1>2. Blocks(end, bs) = q + (IF r # 0 THEN 1 ELSE 0) /\ (NeedRangeCheck(end, bs) <=> r # 0)
  BY DEF Blocks, NeedRangeCheck
<1> HIDE DEF q, r
<1>3. q >= 0
  <2> SUFFICES ASSUME q <= -1 PROVE FALSE
    BY <1>1
  <2>1. bs * q <= bs * (-1)
    BY <1>1
  <2> QED  BY <1>1, <2>1
<1>4. CASE r = 0
  BY <1>1, <1>2, <1>3, <1>4
<1>5. CASE r # 0
  <2>1. bs * (q + 1) = bs * q + bs
    BY <1>1
  <2> QED  BY <1>1, <1>2, <1>3, <1>5, <2>1
<1> QED  BY <1>4, <1>5

\* Together the two loops that tile makes of a loop take the values of its index: all of
\* them, whatever the block size and the stride are, and no other, in that the range
\* check keeps a partial block from the values behind the end.
THEOREM TileCoversLoop ==
  ASSUME NEW end \in Nat, NEW stride \in Nat \ {0}, NEW bs \in Nat \ {0},
         TileAccepts(end, stride, bs)
  PROVE  IndexValues(end, stride) =
           {v \in {TiledIndex(b, i, bs) : b \in IndexValues(Blocks(end, bs), 1),
                                          i \in IndexValues(bs, stride)} :
              NeedRangeCheck(end, bs) => InRange(v, 0, end)}
<1> DEFINE n == Blocks(end, bs)
<1>1. n \in Nat /\ end <= bs * n /\ (~NeedRangeCheck(end, bs) => bs * n = end)
  BY BlocksRoundUp
<1>2. bs % stride = 0
  BY DEF TileAccepts
<1> HIDE DEF n
<1>3. ASSUME NEW v \in IndexValues(end, stride)
      PROVE  /\ \E b \in IndexValues(n, 1), i \in IndexValues(bs, stride) :
                  v = TiledIndex(b, i, bs)
             /\ InRange(v, 0, end)
  <2> DEFINE b == v \div bs
             i == v % bs
  <2>1. v \in Int /\ 0 <= v /\ v < end /\ v % stride = 0
    BY DEF IndexValues
  <2>2. b \in Int /\ i \in Int /\ v = bs * b + i /\ 0 <= i /\ i < bs
    BY <2>1, DivMod
  <2> HIDE DEF b, i
  <2>3. i % stride = 0
    <3>1. PICK p \in Int : bs = stride * p
      <4>1. bs \in Int
        OBVIOUS
      <4>2. bs % stride = 0 <=> \E q \in Int : bs = stride * q
        BY <4>1, Multiple
      <4> QED  BY <1>2, <4>2
    <3>2. b \in Int
      BY <2>2
    <3> DEFINE m == bs * b
    <3>3. m = stride * (p * b) /\ p * b \in Int /\ m \in Int
      BY <3>1, <3>2
    <3>4. v = m + i
      BY <2>2
    <3> HIDE DEF m
    <3>5. m % stride = 0
      BY <3>3, Multiple
    <3>6. (m + i) % stride = 0
      BY <2>1, <3>4
    <3> QED  BY <2>2, <3>3, <3>5, <3>6, MultiplesAdd
  <2>4. 0 <= b
    <3> SUFFICES ASSUME b <= -1 PROVE FALSE
      BY <2>2
    <3>1. bs * b <= bs * (-1)
      BY <2>2
    <3> QED  BY <2>1, <2>2, <3>1
  <2>5. b < n
    <3> SUFFICES ASSUME n <= b PROVE FALSE
      BY <1>1, <2>2
    <3>1. bs * n <= bs * b
      BY <1>1, <2>2
    <3> QED  BY <1>1, <2>1, <2>2, <3>1
  <2>6. b % 1 = 0
    BY <2>2
  <2>7. b \in IndexValues(n, 1) /\ i \in IndexValues(bs, stride)
    BY <1>1, <2>2, <2>3, <2>4, <2>5, <2>6 DEF IndexValues
  <2>8. v = TiledIndex(b, i, bs)
    BY <2>2, TiledIndexIs
  <2> QED  BY <2>1, <2>7, <2>8 DEF InRange
<1>4. ASSUME NEW b \in IndexValues(n, 1), NEW i \in IndexValues(bs, stride),
             NeedRangeCheck(end, bs) => InRange(TiledIndex(b, i, bs), 0, end)
      PROVE  TiledIndex(b, i, bs) \in IndexValues(end, stride)
  <2>1. /\ b \in Int /\ 0 <= b /\ b <= n - 1
        /\ i \in Int /\ 0 <= i /\ i < bs /\ i % stride = 0
    BY <1>1 DEF IndexValues
  <2>2. (bs * b) % stride = 0 /\ bs * b \in Int /\ b * bs = bs * b
    BY <1>2, <2>1, MultiplesTimes
  <2>3. TiledIndex(b, i, bs) = bs * b + i
    <3>1. TiledIndex(b, i, bs) = i + b * bs
      BY TiledIndexIs
    <3> QED  BY <2>1, <2>2, <3>1
  <2>4. (bs * b + i) % stride = 0
    BY <2>1, <2>2, MultiplesAdd
  <2>5. 0 <= bs * b
    BY <2>1
  <2>6. bs * b + i < end
    <3>1. CASE NeedRangeCheck(end, bs)
      BY <1>4, <2>3, <3>1 DEF InRange
    <3>2. CASE ~NeedRangeCheck(end, bs)
      <4>1. bs * b <= bs * (n - 1)
        BY <1>1, <2>1
      <4>2. bs * (n - 1) = bs * n - bs
        BY <1>1
      <4> QED  BY <1>1, <2>1, <2>2, <3>2, <4>1, <4>2
    <3> QED  BY <3>1, <3>2
  <2> QED  BY <2>1, <2>2, <2>3, <2>4, <2>5, <2>6 DEF IndexValues
<1> QED  BY <1>3, <1>4 DEF n

\* They take them in the order of the loop, and none twice: a block is behind the blocks
\* before it.
THEOREM TileKeepsOrder ==
  ASSUME NEW bs \in Nat \ {0},
         NEW b1 \in Nat, NEW i1 \in 0..bs - 1, NEW b2 \in Nat, NEW i2 \in 0..bs - 1
  PROVE  TiledIndex(b1, i1, bs) < TiledIndex(b2, i2, bs) <=> b1 < b2 \/ (b1 = b2 /\ i1 < i2)
<1>1. CASE b1 < b2
  <2>1. (b2 - b1) * bs >= bs
    BY <1>1
  <2>2. b2 * bs - b1 * bs = (b2 - b1) * bs
    OBVIOUS
  <2> QED  BY <1>1, <2>1, <2>2, TiledIndexIs
<1>2. CASE b1 = b2
  BY <1>2, TiledIndexIs
<1>3. CASE b1 > b2
  <2>1. (b1 - b2) * bs >= bs
    BY <1>3
  <2>2. b1 * bs - b2 * bs = (b1 - b2) * bs
    OBVIOUS
  <2> QED  BY <1>3, <2>1, <2>2, TiledIndexIs
<1> QED  BY <1>1, <1>2, <1>3

\* The two loops that tile makes are loops that Loop::verify accepts.
THEOREM TilePassesVerify ==
  ASSUME NEW end \in Nat, NEW stride \in Nat \ {0}, NEW bs \in Nat \ {0},
         TileAccepts(end, stride, bs)
  PROVE  Blocks(end, bs) > 0 /\ StrideDivides(Blocks(end, bs), 1) /\ StrideDivides(bs, stride)
<1>1. Blocks(end, bs) \in Nat /\ end <= bs * Blocks(end, bs)
  BY BlocksRoundUp
<1>2. end > bs /\ bs % stride = 0
  BY DEF TileAccepts
<1>3. Blocks(end, bs) # 0
  BY <1>1, <1>2
<1> QED  BY <1>1, <1>2, <1>3 DEF StrideDivides

-----------------------------------------------------------------------------
(* peelLoop.                                                               *)

\* The value of the expression that peelLoop puts in the place of the index in the copy
\* of the loop.
PeeledIndex(n, i) == Arith("add", n, i)

\* peelLoop divides the values of the index between the two loops, the first of them
\* taking those that come first, and both loops have whole steps.  The first loop is never
\* empty, but the second is when all of the iterations are asked for: Loop::verify rejects
\* that program, peelLoop does not refuse to make it.
THEOREM PeelDividesLoop ==
  ASSUME NEW end \in Nat, NEW stride \in Nat \ {0}, NEW k \in Int,
         StrideDivides(end, stride), PeelAccepts(end, stride, k)
  PROVE  LET n == PeelCount(end, k)
             first == IndexValues(n, stride)
             second == {PeeledIndex(n, i) : i \in IndexValues(end - n, stride)}
         IN  /\ n \in 1..end
             /\ StrideDivides(n, stride) /\ StrideDivides(end - n, stride)
             /\ IndexValues(end, stride) = first \union second
             /\ \A v \in first, w \in second : v < w
             /\ second = {} <=> k = 0 \/ k = end
<1> DEFINE n == PeelCount(end, k)
           first == IndexValues(n, stride)
           second == {PeeledIndex(n, i) : i \in IndexValues(end - n, stride)}
<1>1. n \in Int /\ 1 <= n /\ n <= end /\ n % stride = 0 /\ (n = end <=> k = 0 \/ k = end)
  BY DEF PeelAccepts, PeelCount
<1> HIDE DEF n
<1>2. end % stride = 0 /\ stride > 0
  BY DEF StrideDivides
<1>3. (end - n) % stride = 0
  <2>1. n \in Int /\ end \in Int
    BY <1>1
  <2> QED  BY <1>1, <1>2, <2>1, MultiplesAdd
<1>4. \A i \in Int : (n + i) % stride = 0 <=> i % stride = 0
  BY <1>1, MultiplesAdd
<1>5. \A i : PeeledIndex(n, i) = n + i
  BY DEF PeeledIndex, Arith
<1>6. ASSUME NEW v \in IndexValues(end, stride) PROVE v \in first \union second
  <2>1. v \in Int /\ 0 <= v /\ v < end /\ v % stride = 0
    BY DEF IndexValues
  <2>2. CASE v < n
    BY <1>1, <2>1, <2>2 DEF IndexValues
  <2>3. CASE v >= n
    <3> DEFINE i == v - n
    <3>1. i \in Int /\ 0 <= i /\ i < end - n /\ v = n + i
      BY <1>1, <2>1, <2>3
    <3> HIDE DEF i
    <3>2. i % stride = 0
      BY <1>4, <2>1, <3>1
    <3>3. i \in IndexValues(end - n, stride)
      BY <1>1, <3>1, <3>2 DEF IndexValues
    <3>4. v = PeeledIndex(n, i)
      BY <1>5, <3>1
    <3> QED  BY <3>3, <3>4
  <2> QED  BY <1>1, <2>1, <2>2, <2>3
<1>7. ASSUME NEW v \in first PROVE v \in IndexValues(end, stride) /\ v \in Int /\ v < n
  BY <1>1 DEF IndexValues
<1>8. ASSUME NEW i \in IndexValues(end - n, stride)
      PROVE  PeeledIndex(n, i) \in IndexValues(end, stride) /\ n <= PeeledIndex(n, i)
  <2>1. i \in Int /\ 0 <= i /\ i < end - n /\ i % stride = 0
    BY <1>1 DEF IndexValues
  <2>2. (n + i) % stride = 0
    BY <1>4, <2>1
  <2>3. n + i \in Int /\ n <= n + i /\ 0 <= n + i /\ n + i < end
    BY <1>1, <2>1
  <2>4. n + i \in IndexValues(end, stride)
    BY <2>2, <2>3 DEF IndexValues
  <2> QED  BY <1>5, <2>3, <2>4
<1>9. second = {} <=> n = end
  <2>1. second = {} <=> IndexValues(end - n, stride) = {}
    OBVIOUS
  <2>2. ASSUME n < end PROVE 0 \in IndexValues(end - n, stride)
    BY <1>1, <2>2, LoopCounts
  <2>3. ASSUME n = end PROVE IndexValues(end - n, stride) = {}
    BY <1>1, <2>3 DEF IndexValues
  <2> QED  BY <1>1, <2>1, <2>2, <2>3
<1>10. IndexValues(end, stride) = first \union second
  BY <1>6, <1>7, <1>8
<1>11. \A v \in first, w \in second : v < w
  <2>1. ASSUME NEW v \in first, NEW i \in IndexValues(end - n, stride)
        PROVE  v < PeeledIndex(n, i)
    <3>1. i \in Int
      BY DEF IndexValues
    <3>2. PeeledIndex(n, i) \in Int /\ n <= PeeledIndex(n, i)
      BY <1>1, <1>5, <1>8, <3>1
    <3> QED  BY <1>1, <1>7, <3>2
  <2> QED  BY <2>1
<1>12. StrideDivides(n, stride) /\ StrideDivides(end - n, stride)
  BY <1>1, <1>2, <1>3 DEF StrideDivides
<1> QED  BY <1>1, <1>9, <1>10, <1>11, <1>12 DEF n

-----------------------------------------------------------------------------
(* unrollLoop.                                                             *)

\* unrollLoop makes one copy of the body for every value of the index and writes the
\* value into it, in the order of the loop; the stride need not divide the end.
THEOREM UnrollCoversLoop ==
  ASSUME NEW end \in Nat, NEW stride \in Nat \ {0}
  PROVE  /\ IndexValues(end, stride) =
              {CopyIndex(i, stride) : i \in 1..Copies(end, stride)}
         /\ \A i, j \in 1..Copies(end, stride) :
              i < j => CopyIndex(i, stride) < CopyIndex(j, stride)
<1> DEFINE n == Copies(end, stride)
           a == end + stride - 1
           r == a % stride
<1>1. n \in Int /\ r \in Int /\ a = stride * n + r /\ 0 <= r /\ r < stride
  <2>1. a \in Int
    OBVIOUS
  <2>2. n = a \div stride
    BY DEF Copies
  <2> QED  BY <2>1, <2>2, DivMod
<1>2. end <= stride * n /\ stride * n < end + stride
  BY <1>1
<1> HIDE DEF n, a, r
<1>3. ASSUME NEW v \in IndexValues(end, stride)
      PROVE  \E i \in 1..n : v = CopyIndex(i, stride)
  <2>1. v \in Int /\ 0 <= v /\ v < end /\ v % stride = 0
    BY DEF IndexValues
  <2>2. PICK p \in Int : v = stride * p
    BY <2>1, Multiple
  <2>3. 0 <= p
    <3> SUFFICES ASSUME p <= -1 PROVE FALSE
      BY <2>2
    <3>1. stride * p <= stride * (-1)
      BY <2>2
    <3> QED  BY <2>1, <2>2, <3>1
  <2>4. p < n
    <3> SUFFICES ASSUME n <= p PROVE FALSE
      BY <1>1, <2>2
    <3>1. stride * n <= stride * p
      BY <1>1, <2>2
    <3> QED  BY <1>1, <1>2, <2>1, <2>2, <3>1
  <2>5. p + 1 \in 1..n
    BY <1>1, <2>2, <2>3, <2>4
  <2>6. CopyIndex(p + 1, stride) = p * stride
    BY <2>2 DEF CopyIndex
  <2>7. p * stride = stride * p
    BY <2>2
  <2> QED  BY <2>2, <2>5, <2>6, <2>7
<1>4. ASSUME NEW i \in 1..n PROVE CopyIndex(i, stride) \in IndexValues(end, stride)
  <2>1. i \in Int /\ 1 <= i /\ i <= n
    BY <1>1
  <2> DEFINE p == i - 1
  <2>2. p \in Int /\ 0 <= p /\ p <= n - 1
    BY <1>1, <2>1
  <2>3. CopyIndex(i, stride) = stride * p
    BY <2>1 DEF CopyIndex
  <2> HIDE DEF p
  <2>4. 0 <= stride * p /\ stride * p \in Int
    BY <2>2
  <2>5. (stride * p) % stride = 0
    BY <2>2, <2>4, Multiple
  <2>6. stride * p <= stride * (n - 1) /\ stride * (n - 1) = stride * n - stride
    BY <1>1, <2>2
  <2>7. stride * p < end
    BY <1>1, <1>2, <2>4, <2>6
  <2> QED  BY <2>3, <2>4, <2>5, <2>7 DEF IndexValues
<1>5. ASSUME NEW i \in 1..n, NEW j \in 1..n, i < j
      PROVE  CopyIndex(i, stride) < CopyIndex(j, stride)
  <2>1. i \in Int /\ j \in Int
    BY <1>1
  <2>2. (j - i) * stride > 0
    BY <1>5, <2>1
  <2>3. (j - 1) * stride - (i - 1) * stride = (j - i) * stride
    BY <2>1
  <2> QED  BY <2>1, <2>2, <2>3 DEF CopyIndex
<1> QED  BY <1>3, <1>4, <1>5 DEF n

-----------------------------------------------------------------------------
(* vectorize and widen.                                                    *)

\* What is left over when n, a multiple of the stride, does not divide the trip count is
\* peeled.  The call of peelLoop is never refused, although vectorize and widen do not look
\* at its result before they change the stride, and leaves a loop that n divides.
THEOREM TailIsPeeled ==
  ASSUME NEW end \in Nat, NEW stride \in Nat \ {0}, NEW n \in Nat \ {0},
         StrideDivides(end, stride), n % stride = 0, end >= n
  PROVE  /\ PeelAccepts(end, stride, WholePart(end, n))
         /\ PeelCount(end, WholePart(end, n)) = WholePart(end, n)
         /\ WholePart(end, n) > 0
         /\ StrideDivides(WholePart(end, n), n)
         /\ StrideDivides(end - WholePart(end, n), stride)
<1> DEFINE q == end \div n
           r == end % n
           w == WholePart(end, n)
<1>1. q \in Int /\ r \in Int /\ end = n * q + r /\ 0 <= r /\ r < n
  BY DivMod
<1>2. w = n * q
  BY <1>1 DEF WholePart
<1> HIDE DEF q, r, w
<1>3. w \in Int /\ 0 < w /\ w <= end
  BY <1>1, <1>2
<1>4. w % n = 0
  BY <1>1, <1>2, <1>3, Multiple
<1>5. PICK p \in Int : n = stride * p
  <2>1. n \in Int
    OBVIOUS
  <2>2. n % stride = 0 <=> \E x \in Int : n = stride * x
    BY <2>1, Multiple
  <2> QED  BY <2>2
<1>6. w = stride * (p * q) /\ p * q \in Int
  BY <1>1, <1>2, <1>5
<1>7. w % stride = 0
  BY <1>3, <1>6, Multiple
<1>8. end \in Int /\ end % stride = 0 /\ stride > 0
  BY DEF StrideDivides
<1>9. (end - w) % stride = 0
  BY <1>3, <1>7, <1>8, MultiplesAdd
<1>10. PeelCount(end, w) = w
  BY <1>3 DEF PeelCount
<1>11. PeelAccepts(end, stride, w)
  BY <1>3, <1>7, <1>10 DEF PeelAccepts
<1>12. StrideDivides(w, n) /\ StrideDivides(end - w, stride)
  BY <1>4, <1>8, <1>9 DEF StrideDivides
<1> QED  BY <1>3, <1>10, <1>11, <1>12 DEF w

\* The value of the index that a copy of a store sees.
WidenedIndex(v, i, stride) == Arith("add", v, WidenOffset(i, stride))

\* Every iteration of the widened loop stores for wf values of the index of the loop as it
\* was: for all of them, in their order and for none twice.  With a stride of 1 these are
\* also the lanes of a vectorized loop.
THEOREM WidenCoversLoop ==
  ASSUME NEW end \in Nat, NEW stride \in Nat \ {0}, NEW wf \in Nat \ {0},
         StrideDivides(end, stride * wf)
  PROVE  /\ IndexValues(end, stride) =
              {WidenedIndex(v, i, stride) :
                 v \in IndexValues(end, stride * wf), i \in 1..wf}
         /\ \A v, w \in IndexValues(end, stride * wf), i, j \in 1..wf :
              WidenedIndex(v, i, stride) < WidenedIndex(w, j, stride)
                <=> v < w \/ (v = w /\ i < j)
<1> DEFINE ns == stride * wf
<1>1. ns \in Nat \ {0}
  <2>1. stride * wf > 0 /\ stride * wf \in Int
    OBVIOUS
  <2> QED  BY <2>1
<1>2. end % ns = 0
  BY DEF StrideDivides
<1>3. PICK m \in Int : end = ns * m
  <2>1. end \in Int
    OBVIOUS
  <2> QED  BY <1>1, <1>2, <2>1, Multiple
<1>4. ns = stride * wf
  OBVIOUS
<1> HIDE DEF ns
<1>5. \A v, i : WidenedIndex(v, i, stride) = v + (i - 1) * stride
  BY DEF WidenedIndex, Arith, WidenOffset
<1>6. ASSUME NEW v \in IndexValues(end, stride)
      PROVE  \E u \in IndexValues(end, ns), i \in 1..wf :
               v = WidenedIndex(u, i, stride)
  <2>1. v \in Int /\ 0 <= v /\ v < ns * m /\ v % stride = 0
    BY <1>3 DEF IndexValues
  <2>2. PICK p \in Int : v = stride * p
    BY <2>1, Multiple
  <2> DEFINE q == p \div wf
             r == p % wf
  <2>3. q \in Int /\ r \in Int /\ p = wf * q + r /\ 0 <= r /\ r < wf
    BY DivMod
  <2> HIDE DEF q, r
  <2>4. ns * q \in Int /\ stride * r \in Int
    BY <1>1, <2>3
  <2>5. v = ns * q + stride * r
    <3>1. stride * (wf * q + r) = (stride * wf) * q + stride * r
      BY <2>3
    <3> QED  BY <1>4, <2>2, <2>3, <3>1
  <2>6. 0 <= stride * r /\ stride * r < ns
    <3>1. stride * r <= stride * (wf - 1) /\ stride * (wf - 1) = stride * wf - stride
      BY <2>3
    <3>2. 0 <= stride * r
      BY <2>3
    <3> QED  BY <1>1, <1>4, <2>4, <3>1, <3>2
  <2>7. 0 <= q
    <3> SUFFICES ASSUME q <= -1 PROVE FALSE
      BY <2>3
    <3>1. ns * q <= ns * (-1)
      BY <1>1, <2>3
    <3> QED  BY <1>1, <2>1, <2>4, <2>5, <2>6, <3>1
  <2>8. ns * q >= 0
    BY <1>1, <2>3, <2>7
  <2>9. ns * q < ns * m
    BY <1>1, <2>1, <2>4, <2>5, <2>6
  <2>10. (ns * q) % ns = 0
    BY <1>1, <2>3, <2>4, Multiple
  <2>11. ns * q \in IndexValues(end, ns)
    BY <1>3, <2>4, <2>8, <2>9, <2>10 DEF IndexValues
  <2>12. r + 1 \in 1..wf
    BY <2>3
  <2>13. v = WidenedIndex(ns * q, r + 1, stride)
    <3> DEFINE u == ns * q
               i == r + 1
    <3>1. (i - 1) * stride = stride * r
      BY <2>3
    <3>2. u + stride * r = v
      BY <2>5
    <3> HIDE DEF u, i
    <3>3. WidenedIndex(u, i, stride) = u + (i - 1) * stride
      BY <1>5
    <3>4. WidenedIndex(u, i, stride) = v
      BY <3>1, <3>2, <3>3
    <3> QED  BY <3>4 DEF u, i
  <2> QED  BY <2>11, <2>12, <2>13
<1>7. ASSUME NEW u \in IndexValues(end, ns), NEW i \in 1..wf
      PROVE  WidenedIndex(u, i, stride) \in IndexValues(end, stride)
  <2>1. u \in Int /\ 0 <= u /\ u < ns * m /\ u % ns = 0
    BY <1>3 DEF IndexValues
  <2>2. PICK q \in Int : u = ns * q
    BY <1>1, <2>1, Multiple
  <2> DEFINE r == i - 1
  <2>3. r \in Int /\ 0 <= r /\ r <= wf - 1
    OBVIOUS
  <2>4. WidenedIndex(u, i, stride) = u + r * stride
    BY <1>5
  <2> HIDE DEF r
  <2>5. u + r * stride = stride * (wf * q + r) /\ wf * q + r \in Int
    <3>1. (stride * wf) * q + r * stride = stride * (wf * q + r)
      BY <2>2, <2>3
    <3> QED  BY <1>4, <2>2, <2>3, <3>1
  <2>6. u + r * stride \in Int /\ 0 <= r * stride
    BY <2>1, <2>3
  <2>7. (u + r * stride) % stride = 0
    BY <2>5, <2>6, Multiple
  <2>8. r * stride <= ns - stride
    <3>1. r * stride <= (wf - 1) * stride /\ (wf - 1) * stride = stride * wf - stride
      BY <2>3
    <3> QED  BY <1>4, <2>3, <3>1
  <2>9. u + ns <= ns * m
    <3>1. q < m
      <4> SUFFICES ASSUME m <= q PROVE FALSE
        BY <2>2
      <4>1. ns * m <= ns * q
        BY <1>1, <2>2
      <4> QED  BY <1>1, <2>1, <2>2, <4>1
    <3>2. ns * (q + 1) <= ns * m
      BY <1>1, <2>2, <3>1
    <3>3. ns * (q + 1) = ns * q + ns
      BY <1>1, <2>2
    <3> QED  BY <2>2, <3>2, <3>3
  <2>10. u + r * stride < ns * m
    BY <1>1, <2>1, <2>6, <2>8, <2>9, <2>3
  <2>11. 0 <= u + r * stride
    BY <2>1, <2>6, <2>3
  <2> QED  BY <1>3, <2>4, <2>6, <2>7, <2>10, <2>11 DEF IndexValues
<1>8. IndexValues(end, stride) =
        {WidenedIndex(v, i, stride) : v \in IndexValues(end, ns), i \in 1..wf}
  BY <1>6, <1>7
<1>9. ASSUME NEW v \in IndexValues(end, ns), NEW w \in IndexValues(end, ns),
             NEW i \in 1..wf, NEW j \in 1..wf
      PROVE  /\ v < w => v + (i - 1) * stride < w + (j - 1) * stride
             /\ v = w => (v + (i - 1) * stride < w + (j - 1) * stride <=> i < j)
  <2>1. v \in Int /\ w \in Int
    BY DEF IndexValues
  <2>2. (j - 1) * stride >= 0 /\ (i - 1) * stride <= (wf - 1) * stride
    OBVIOUS
  <2>3. (wf - 1) * stride = stride * wf - stride
    OBVIOUS
  <2>4. v < w => v + ns <= w
    BY <1>1, LoopCounts
  <2>5. v < w => v + (i - 1) * stride < w + (j - 1) * stride
    BY <1>4, <2>1, <2>2, <2>3, <2>4
  <2>6. i < j => (i - 1) * stride < (j - 1) * stride
    <3>1. i < j => (j - i) * stride > 0
      OBVIOUS
    <3>2. (j - i) * stride = (j - 1) * stride - (i - 1) * stride
      OBVIOUS
    <3> QED  BY <3>1, <3>2
  <2>7. j <= i => (j - 1) * stride <= (i - 1) * stride
    OBVIOUS
  <2> QED  BY <2>1, <2>5, <2>6, <2>7
<1>10. ASSUME NEW v \in IndexValues(end, ns), NEW w \in IndexValues(end, ns),
              NEW i \in 1..wf, NEW j \in 1..wf
       PROVE  WidenedIndex(v, i, stride) < WidenedIndex(w, j, stride)
                <=> v < w \/ (v = w /\ i < j)
  <2>1. v \in Int /\ w \in Int /\ i \in Int /\ j \in Int
    BY DEF IndexValues
  <2>2. /\ WidenedIndex(v, i, stride) = v + (i - 1) * stride
        /\ WidenedIndex(w, j, stride) = w + (j - 1) * stride
    BY <1>5
  <2>3. (i - 1) * stride \in Int /\ (j - 1) * stride \in Int
    OBVIOUS
  <2>4. CASE v < w
    <3>1. v + (i - 1) * stride < w + (j - 1) * stride
      BY <1>9, <2>4
    <3> QED  BY <2>2, <2>4, <3>1
  <2>5. CASE v = w
    <3>1. v + (i - 1) * stride < w + (j - 1) * stride <=> i < j
      BY <1>9, <2>5
    <3> QED  BY <2>1, <2>2, <2>5, <3>1
  <2>6. CASE w < v
    <3>1. w + (j - 1) * stride < v + (i - 1) * stride
      BY <1>9, <2>6
    <3> QED  BY <2>1, <2>2, <2>3, <2>6, <3>1
  <2> QED  BY <2>1, <2>4, <2>5, <2>6
<1> QED  BY <1>4, <1>8, <1>10

-----------------------------------------------------------------------------
(* computeKnownIntegerRange.                                               *)

\* The range of an index: its first and its last value are the ends of what it takes.
THEOREM IndexRangeIsTight ==
  ASSUME NEW end \in Nat \ {0}, NEW stride \in Nat \ {0}, StrideDivides(end, stride)
  PROVE  /\ 0 \in IndexValues(end, stride) /\ LastValue(end, stride) \in IndexValues(end, stride)
         /\ \A v \in IndexValues(end, stride) : 0 <= v /\ v <= LastValue(end, stride)
<1>1. end \in Int /\ end % stride = 0
  BY DEF StrideDivides
<1>2. PICK m \in Int : end = stride * m
  BY <1>1, Multiple
<1>3. m >= 1
  <2> SUFFICES ASSUME m <= 0 PROVE FALSE
    BY <1>2
  <2>1. stride * m <= stride * 0
    BY <1>2
  <2> QED  BY <1>2, <2>1
<1>4. end - stride = stride * (m - 1) /\ m - 1 \in Int /\ end - stride \in Int
  BY <1>1, <1>2
<1>5. (end - stride) % stride = 0
  BY <1>4, Multiple
<1>6. 0 <= end - stride
  BY <1>3, <1>4
<1>7. LastValue(end, stride) \in IndexValues(end, stride)
  BY <1>4, <1>5, <1>6 DEF IndexValues, LastValue
<1>8. ASSUME NEW v \in IndexValues(end, stride) PROVE 0 <= v /\ v <= LastValue(end, stride)
  <2>1. v \in Int /\ 0 <= v /\ v < end
    BY DEF IndexValues
  <2>2. LastValue(end, stride) = end - stride
    BY DEF LastValue
  <2>3. CASE v < end - stride
    BY <2>1, <2>2, <2>3
  <2>4. CASE v >= end - stride
    <3>1. v = end - stride
      <4>1. end - stride < v => end - stride + stride <= v
        BY <1>7, <2>2, LoopCounts
      <4> QED  BY <1>4, <2>1, <2>4, <4>1
    <3> QED  BY <1>4, <2>1, <2>2, <3>1
  <2> QED  BY <1>4, <2>1, <2>3, <2>4
<1> QED  BY <1>7, <1>8, LoopCounts

\* The least and the greatest of four numbers.
LEMMA Extremes ==
  ASSUME NEW a \in Int, NEW b \in Int, NEW c \in Int, NEW d \in Int
  PROVE  LET S == {a, b, c, d}
         IN  /\ Min(S) \in S /\ \A s \in S : Min(S) <= s
             /\ Max(S) \in S /\ \A s \in S : s <= Max(S)
<1> DEFINE S == {a, b, c, d}
<1>1. \E x \in S : \A s \in S : x <= s
  OBVIOUS
<1>2. \E x \in S : \A s \in S : x >= s
  OBVIOUS
<1>3. Min(S) \in S /\ \A s \in S : Min(S) <= s
  BY <1>1 DEF Min
<1>4. Max(S) \in S /\ \A s \in S : Max(S) >= s
  BY <1>2 DEF Max
<1> QED  BY <1>3, <1>4

\* The least of two numbers, which may be equal.
LEMMA LesserOfTwo ==
  ASSUME NEW a \in Int, NEW b \in Int
  PROVE  Min({a, b}) = IF a < b THEN a ELSE b
<1>1. Min({a, b}) \in {a, b} /\ \A s \in {a, b} : Min({a, b}) <= s
  <2>1. \E x \in {a, b} : \A s \in {a, b} : x <= s
    OBVIOUS
  <2> QED  BY <2>1 DEF Min
<1> QED  BY <1>1

\* A product with one factor between two numbers is between the products with these.
LEMMA ProductBetween ==
  ASSUME NEW a \in Int, NEW b \in Int, NEW z \in Int, a <= z, z <= b, NEW c \in Int
  PROVE  \/ c * a <= c * z /\ c * z <= c * b
         \/ c * b <= c * z /\ c * z <= c * a
<1>1. CASE c >= 0
  BY <1>1
<1>2. CASE c < 0
  BY <1>2
<1> QED  BY <1>1, <1>2

\* The range of a BinaryExpr, for the operators whose range the code takes from the four
\* combinations of the ends of the operands: it contains every result, and both of its
\* ends are results.  The assertion "invalid range" holds.
THEOREM RangesContain ==
  ASSUME NEW op \in {"add", "sub", "mul"},
         NEW l1 \in Int, NEW l2 \in Int, NEW r1 \in Int, NEW r2 \in Int, l1 <= l2, r1 <= r2
  PROVE  LET R == RangeOfBin(op, <<l1, l2>>, <<r1, r2>>)
         IN  /\ R[1] <= R[2]
             /\ \A x \in l1..l2, y \in r1..r2 : R[1] <= Arith(op, x, y) /\ Arith(op, x, y) <= R[2]
             /\ \E x \in {l1, l2}, y \in {r1, r2} : Arith(op, x, y) = R[1]
             /\ \E x \in {l1, l2}, y \in {r1, r2} : Arith(op, x, y) = R[2]
<1> DEFINE R == RangeOfBin(op, <<l1, l2>>, <<r1, r2>>)
           S == {Arith(op, x, y) : x \in {l1, l2}, y \in {r1, r2}}
           F(x, y) == Arith(op, x, y)
<1>1. R = <<Min(S), Max(S)>>
  BY DEF RangeOfBin
<1>2. S = {F(l1, r1), F(l1, r2), F(l2, r1), F(l2, r2)}
  OBVIOUS
<1>3. \A x, y \in Int : F(x, y) \in Int
  BY DEF Arith
<1> HIDE DEF R, S
<1>4. /\ Min(S) \in S /\ \A s \in S : Min(S) <= s
      /\ Max(S) \in S /\ \A s \in S : s <= Max(S)
  <2>1. F(l1, r1) \in Int /\ F(l1, r2) \in Int /\ F(l2, r1) \in Int /\ F(l2, r2) \in Int
    BY <1>3
  <2> DEFINE a == F(l1, r1)
             b == F(l1, r2)
             c == F(l2, r1)
             d == F(l2, r2)
  <2>2. S = {a, b, c, d} /\ a \in Int /\ b \in Int /\ c \in Int /\ d \in Int
    BY <1>2, <2>1
  <2> HIDE DEF a, b, c, d
  <2>3. LET T == {a, b, c, d}
        IN  /\ Min(T) \in T /\ \A s \in T : Min(T) <= s
            /\ Max(T) \in T /\ \A s \in T : s <= Max(T)
    BY <2>2, Extremes
  <2> QED  BY <2>2, <2>3
<1>5. PICK lo \in Int, hi \in Int : lo = Min(S) /\ hi = Max(S)
  BY <1>2, <1>3, <1>4
<1>6. /\ lo <= F(l1, r1) /\ lo <= F(l1, r2) /\ lo <= F(l2, r1) /\ lo <= F(l2, r2)
      /\ F(l1, r1) <= hi /\ F(l1, r2) <= hi /\ F(l2, r1) <= hi /\ F(l2, r2) <= hi
  BY <1>2, <1>4, <1>5
<1>7. ASSUME NEW x \in l1..l2, NEW y \in r1..r2 PROVE lo <= F(x, y) /\ F(x, y) <= hi
  <2>1. x \in Int /\ l1 <= x /\ x <= l2 /\ y \in Int /\ r1 <= y /\ y <= r2
    OBVIOUS
  <2>2. CASE op = "add"
    BY <1>6, <2>1, <2>2 DEF Arith
  <2>3. CASE op = "sub"
    BY <1>6, <2>1, <2>3 DEF Arith
  <2>4. CASE op = "mul"
    <3>1. /\ lo <= l1 * r1 /\ lo <= l1 * r2 /\ lo <= l2 * r1 /\ lo <= l2 * r2
          /\ l1 * r1 <= hi /\ l1 * r2 <= hi /\ l2 * r1 <= hi /\ l2 * r2 <= hi
      BY <1>6, <2>4 DEF Arith
    <3>2. /\ \/ l1 * r1 <= l1 * y /\ l1 * y <= l1 * r2
             \/ l1 * r2 <= l1 * y /\ l1 * y <= l1 * r1
          /\ \/ l2 * r1 <= l2 * y /\ l2 * y <= l2 * r2
             \/ l2 * r2 <= l2 * y /\ l2 * y <= l2 * r1
      BY <2>1, ProductBetween
    <3>3. \/ y * l1 <= y * x /\ y * x <= y * l2
          \/ y * l2 <= y * x /\ y * x <= y * l1
      BY <2>1, ProductBetween
    <3>4. y * l1 = l1 * y /\ y * l2 = l2 * y /\ y * x = x * y
      BY <2>1
    <3>5. F(x, y) = x * y
      BY <2>4 DEF Arith
    <3>6. /\ l1 * r1 \in Int /\ l1 * r2 \in Int /\ l2 * r1 \in Int /\ l2 * r2 \in Int
          /\ l1 * y \in Int /\ l2 * y \in Int /\ x * y \in Int
      BY <2>1
    <3>7. lo <= l1 * y /\ l1 * y <= hi /\ lo <= l2 * y /\ l2 * y <= hi
      BY <3>1, <3>2, <3>6
    <3>8. lo <= x * y /\ x * y <= hi
      BY <3>3, <3>4, <3>6, <3>7
    <3> QED  BY <3>5, <3>8
  <2> QED  BY <2>2, <2>3, <2>4
<1>8. R[1] = lo /\ R[2] = hi
  BY <1>1, <1>5
<1>9. lo <= hi
  BY <1>4, <1>5
<1>10. (\E x \in {l1, l2}, y \in {r1, r2} : F(x, y) = lo)
         /\ (\E x \in {l1, l2}, y \in {r1, r2} : F(x, y) = hi)
  BY <1>4, <1>5 DEF S
<1> QED  BY <1>7, <1>8, <1>9, <1>10 DEF R

\* The range of the lesser of two operands contains every result, and that of the greater,
\* which the code computes in the same way, contains every result only if the greatest
\* values of the two operands are equal: otherwise the result for these two is above it.
THEOREM RangesOfMinAndMax ==
  ASSUME NEW l1 \in Int, NEW l2 \in Int, NEW r1 \in Int, NEW r2 \in Int, l1 <= l2, r1 <= r2
  PROVE  LET Contains(op, x, y) ==
               LET R == RangeOfBin(op, <<l1, l2>>, <<r1, r2>>)
               IN  R[1] <= Arith(op, x, y) /\ Arith(op, x, y) <= R[2]
         IN  /\ \A x \in l1..l2, y \in r1..r2 : Contains("min", x, y)
             /\ (\A x \in l1..l2, y \in r1..r2 : Contains("max", x, y)) <=> l2 = r2
             /\ l2 # r2 => ~Contains("max", l2, r2)
<1> DEFINE lo == IF l1 < r1 THEN l1 ELSE r1
           hi == IF l2 < r2 THEN l2 ELSE r2
<1>1. /\ RangeOfBin("min", <<l1, l2>>, <<r1, r2>>) = <<lo, hi>>
      /\ RangeOfBin("max", <<l1, l2>>, <<r1, r2>>) = <<lo, hi>>
  BY LesserOfTwo DEF RangeOfBin
<1>2. \A x, y : /\ Arith("min", x, y) = IF x < y THEN x ELSE y
                /\ Arith("max", x, y) = IF x >= y THEN x ELSE y
  BY DEF Arith
<1>3. l2 \in l1..l2 /\ r2 \in r1..r2
  OBVIOUS
<1>4. \A x \in l1..l2, y \in r1..r2 : lo <= Arith("min", x, y) /\ Arith("min", x, y) <= hi
  BY <1>2
<1>5. ASSUME l2 = r2
      PROVE  \A x \in l1..l2, y \in r1..r2 :
               lo <= Arith("max", x, y) /\ Arith("max", x, y) <= hi
  BY <1>2, <1>5
<1>6. ASSUME l2 # r2 PROVE ~(Arith("max", l2, r2) <= hi)
  BY <1>2, <1>6
<1> HIDE DEF lo, hi
<1> DEFINE Contains(op, x, y) ==
             LET R == RangeOfBin(op, <<l1, l2>>, <<r1, r2>>)
             IN  R[1] <= Arith(op, x, y) /\ Arith(op, x, y) <= R[2]
<1>7. \A x, y : Contains("min", x, y) <=> lo <= Arith("min", x, y) /\ Arith("min", x, y) <= hi
  BY <1>1
<1>8. \A x, y : Contains("max", x, y) <=> lo <= Arith("max", x, y) /\ Arith("max", x, y) <= hi
  BY <1>1
<1> HIDE DEF Contains
<1>9. \A x \in l1..l2, y \in r1..r2 : Contains("min", x, y)
  BY <1>4, <1>7
<1>10. l2 = r2 => \A x \in l1..l2, y \in r1..r2 : Contains("max", x, y)
  BY <1>5, <1>8
<1>11. l2 # r2 => ~Contains("max", l2, r2)
  BY <1>6, <1>8
<1>12. (\A x \in l1..l2, y \in r1..r2 : Contains("max", x, y)) <=> l2 = r2
  BY <1>3, <1>10, <1>11
<1> QED  BY <1>9, <1>11, <1>12 DEF Contains

-----------------------------------------------------------------------------
(* getRangeRelation.                                                       *)

\* A range check with a known relation does what simplifyIfs takes it to do, except at one
\* value.  The range of the index includes its end and that of the check does not, so the
\* comparison of the two ends is wrong when they are equal: a "subset" whose last value is
\* the end of the check contains that value, for which the check fails, and a "disjoint"
\* range whose last value is the start of a check that is not empty contains that value,
\* for which it holds.
THEOREM RelationIsSound ==
  ASSUME NEW a1 \in Int, NEW a2 \in Int, a1 <= a2, NEW b1 \in Int, NEW b2 \in Int, b1 < b2
  PROVE  LET rel == getRangeRelation(<<a1, a2>>, <<b1, b2>>)
         IN  /\ rel = "subset" => ((\A v \in a1..a2 : InRange(v, b1, b2)) <=> a2 # b2)
             /\ rel = "disjoint" => ((\A v \in a1..a2 : ~InRange(v, b1, b2)) <=> a2 # b1)
             /\ (\A v \in a1..a2 : InRange(v, b1, b2)) => rel = "subset"
             /\ (\A v \in a1..a2 : ~InRange(v, b1, b2)) /\ a1 < b1 => rel = "disjoint"
<1> DEFINE rel == getRangeRelation(<<a1, a2>>, <<b1, b2>>)
<1>1. /\ rel = "subset" <=> b1 <= a1 /\ a2 <= b2
      /\ rel = "disjoint" <=> ~(b1 <= a1 /\ a2 <= b2) /\ a2 <= b1
  BY DEF getRangeRelation
<1> HIDE DEF rel
<1>2. a1 \in a1..a2 /\ a2 \in a1..a2
  OBVIOUS
<1>3. \A v \in a1..a2 : v \in Int /\ a1 <= v /\ v <= a2
  OBVIOUS
<1>4. \A v \in Int : InRange(v, b1, b2) <=> b1 <= v /\ v < b2
  BY DEF InRange
<1>5. ASSUME rel = "subset"
      PROVE  (\A v \in a1..a2 : InRange(v, b1, b2)) <=> a2 # b2
  <2>1. b1 <= a1 /\ a2 <= b2
    BY <1>1, <1>5
  <2>2. ASSUME a2 = b2 PROVE ~InRange(a2, b1, b2)
    BY <1>4, <2>2
  <2>3. ASSUME a2 # b2, NEW v \in a1..a2 PROVE InRange(v, b1, b2)
    BY <1>3, <1>4, <2>1, <2>3
  <2> QED  BY <1>2, <2>2, <2>3
<1>6. ASSUME rel = "disjoint"
      PROVE  (\A v \in a1..a2 : ~InRange(v, b1, b2)) <=> a2 # b1
  <2>1. a2 <= b1
    BY <1>1, <1>6
  <2>2. ASSUME a2 = b1 PROVE InRange(a2, b1, b2)
    BY <1>4, <2>2
  <2>3. ASSUME a2 # b1, NEW v \in a1..a2 PROVE ~InRange(v, b1, b2)
    BY <1>3, <1>4, <2>1, <2>3
  <2> QED  BY <1>2, <2>2, <2>3
<1>7. ASSUME \A v \in a1..a2 : InRange(v, b1, b2) PROVE rel = "subset"
  <2>1. InRange(a1, b1, b2) /\ InRange(a2, b1, b2)
    BY <1>2, <1>7
  <2> QED  BY <1>1, <1>4, <2>1
<1>8. ASSUME \A v \in a1..a2 : ~InRange(v, b1, b2), a1 < b1 PROVE rel = "disjoint"
  <2>1. a2 < b1
    <3> SUFFICES ASSUME b1 <= a2 PROVE FALSE
      OBVIOUS
    <3>1. b1 \in a1..a2
      BY <1>8
    <3> QED  BY <1>4, <1>8, <3>1
  <2> QED  BY <1>1, <1>8, <2>1
<1> QED  BY <1>5, <1>6, <1>7, <1>8 DEF rel

\* What the two meet in: the range check that tile puts around a partial block.  Simplify
\* never takes it for one that always fails, and drops it exactly when the blocks reach one
\* step over the end; the body then runs for the end itself, one step too many.
THEOREM TileCheckSurvives ==
  ASSUME NEW end \in Nat, NEW stride \in Nat \ {0}, NEW bs \in Nat \ {0},
         StrideDivides(end, stride), TileAccepts(end, stride, bs), NeedRangeCheck(end, bs)
  PROVE  LET block  == <<0, LastValue(bs, stride)>>
             blocks == <<0, LastValue(Blocks(end, bs), 1)>>
             range  == RangeOfBin("add", block, RangeOfBin("mul", blocks, <<bs, bs>>))
             rel    == getRangeRelation(range, <<0, end>>)
         IN  /\ range = <<0, bs * Blocks(end, bs) - stride>>
             /\ rel = IF bs * Blocks(end, bs) = end + stride THEN "subset" ELSE "intersect"
             /\ rel = "subset" =>
                  TiledIndex(Blocks(end, bs) - 1, LastValue(bs, stride), bs) = end
<1> DEFINE n == Blocks(end, bs)
           b == LastValue(bs, stride)
           t == LastValue(n, 1)
           prod == RangeOfBin("mul", <<0, t>>, <<bs, bs>>)
           range == RangeOfBin("add", <<0, b>>, prod)
           rel == getRangeRelation(range, <<0, end>>)
<1>1. n \in Nat /\ end <= bs * n /\ bs * n < end + bs
  BY BlocksRoundUp
<1>2. bs % stride = 0 /\ end % stride = 0 /\ end > bs /\ end % bs # 0
  BY DEF TileAccepts, StrideDivides, NeedRangeCheck
<1>3. n >= 1
  BY <1>1, <1>2
<1>4. bs * n # end
  <2> SUFFICES ASSUME bs * n = end PROVE FALSE
    OBVIOUS
  <2>1. end \in Int
    OBVIOUS
  <2> QED  BY <1>1, <1>2, <2>1, Multiple
<1> HIDE DEF n
<1>5. PICK p \in Int : bs = stride * p
  <2>1. bs \in Int
    OBVIOUS
  <2>2. bs % stride = 0 <=> \E q \in Int : bs = stride * q
    BY <2>1, Multiple
  <2> QED  BY <1>2, <2>2
<1>6. PICK q \in Int : end = stride * q
  <2>1. end \in Int
    OBVIOUS
  <2> QED  BY <1>2, <2>1, Multiple
<1>7. bs * n >= end + stride
  <2>1. bs * n = stride * (p * n) /\ p * n \in Int
    BY <1>1, <1>5
  <2>2. p * n > q
    <3> SUFFICES ASSUME p * n <= q PROVE FALSE
      BY <1>6, <2>1
    <3>1. stride * (p * n) <= stride * q
      BY <1>6, <2>1
    <3> QED  BY <1>1, <1>4, <1>6, <2>1, <3>1
  <2>3. stride * (p * n) >= stride * (q + 1)
    BY <1>6, <2>1, <2>2
  <2>4. stride * (q + 1) = stride * q + stride
    BY <1>6
  <2> QED  BY <1>6, <2>1, <2>3, <2>4
<1>8. p >= 1
  <2> SUFFICES ASSUME p <= 0 PROVE FALSE
    BY <1>5
  <2>1. stride * p <= stride * 0
    BY <1>5
  <2> QED  BY <1>5, <2>1
<1>9. b \in Int /\ b = bs - stride /\ 0 <= b
  <2>1. stride * p >= stride
    BY <1>5, <1>8
  <2> QED  BY <1>5, <2>1 DEF LastValue
<1>10. t \in Int /\ t = n - 1 /\ 0 <= t
  BY <1>1, <1>3 DEF LastValue
<1> HIDE DEF b, t
<1>11. prod = <<0, bs * t>>
  <2>1. prod = <<Min({Arith("mul", x, y) : x \in {0, t}, y \in {bs, bs}}),
                 Max({Arith("mul", x, y) : x \in {0, t}, y \in {bs, bs}})>>
    BY DEF RangeOfBin
  <2>2. {Arith("mul", x, y) : x \in {0, t}, y \in {bs, bs}} = {0, bs * t}
    <3>1. Arith("mul", 0, bs) = 0 /\ Arith("mul", t, bs) = bs * t
      BY <1>10 DEF Arith
    <3> QED  BY <3>1
  <2>3. bs * t \in Int /\ 0 <= bs * t
    BY <1>10
  <2> DEFINE m == bs * t
  <2>4. m \in Int /\ 0 <= m
    BY <2>3
  <2> HIDE DEF m
  <2>5. Min({0, m}) = 0 /\ Max({0, m}) = m
    <3>1. Min({0, m}) = 0
      BY <2>4, LesserOfTwo
    <3>2. \A x \in {0, m} : (\A y \in {0, m} : x >= y) => x = m
      BY <2>4
    <3>3. \A y \in {0, m} : m >= y
      BY <2>4
    <3>4. Max({0, m}) = m
      BY <3>2, <3>3 DEF Max
    <3> QED  BY <3>1, <3>4
  <2> QED  BY <2>1, <2>2, <2>5 DEF m
<1>12. range = <<0, b + bs * t>>
  <2> DEFINE m == bs * t
  <2>1. m \in Int /\ 0 <= m
    BY <1>10
  <2>2. prod = <<0, m>>
    BY <1>11
  <2> HIDE DEF m, prod
  <2>3. range = <<Min({Arith("add", x, y) : x \in {0, b}, y \in {0, m}}),
                  Max({Arith("add", x, y) : x \in {0, b}, y \in {0, m}})>>
    BY <2>2 DEF RangeOfBin
  <2> DEFINE S == {0, b, m, b + m}
  <2>4. {Arith("add", x, y) : x \in {0, b}, y \in {0, m}} = S
    <3>1. Arith("add", 0, 0) = 0 /\ Arith("add", 0, m) = m
          /\ Arith("add", b, 0) = b /\ Arith("add", b, m) = b + m
      BY <1>9, <2>1 DEF Arith
    <3> QED  BY <3>1
  <2>5. Min(S) = 0
    <3>1. \A x \in S : (\A y \in S : x <= y) => x = 0
      BY <1>9, <2>1
    <3>2. \A y \in S : 0 <= y
      BY <1>9, <2>1
    <3> QED  BY <3>1, <3>2 DEF Min
  <2>6. Max(S) = b + m
    <3>1. \A x \in S : (\A y \in S : x >= y) => x = b + m
      BY <1>9, <2>1
    <3>2. \A y \in S : b + m >= y
      BY <1>9, <2>1
    <3> QED  BY <3>1, <3>2 DEF Max
  <2> QED  BY <2>3, <2>4, <2>5, <2>6 DEF m
<1>13. b + bs * t = bs * n - stride /\ bs * n - stride \in Int
  <2>1. bs * (n - 1) = bs * n - bs
    BY <1>1
  <2> QED  BY <1>1, <1>9, <1>10, <2>1
<1> DEFINE top == bs * n - stride
<1>14. range = <<0, top>> /\ top \in Int /\ end <= top /\ (top = end <=> bs * n = end + stride)
  BY <1>1, <1>7, <1>12, <1>13
<1> HIDE DEF top, range
<1>15. rel = IF top = end THEN "subset" ELSE "intersect"
  <2>1. end > 0
    BY <1>2
  <2>2. rel = getRangeRelation(<<0, top>>, <<0, end>>)
    BY <1>14
  <2> HIDE DEF rel
  <2>3. CASE top = end
    BY <1>14, <2>1, <2>2, <2>3 DEF getRangeRelation
  <2>4. CASE top # end
    BY <1>14, <2>1, <2>2, <2>4 DEF getRangeRelation
  <2> QED  BY <2>3, <2>4
<1>16. TiledIndex(n - 1, b, bs) = top
  <2>1. TiledIndex(n - 1, b, bs) = b + (n - 1) * bs
    BY TiledIndexIs
  <2>2. (n - 1) * bs = bs * t
    BY <1>1, <1>10
  <2> QED  BY <1>13, <2>1, <2>2 DEF top
<1>17. rel = "subset" => top = end
  BY <1>15
<1>18. rel = IF bs * n = end + stride THEN "subset" ELSE "intersect"
  BY <1>14, <1>15
<1>19. range = <<0, bs * n - stride>>
  BY <1>14 DEF top
<1> HIDE DEF rel
<1> QED  BY <1>16, <1>17, <1>18, <1>19 DEF n, b, t, rel, range, prod


-----------------------------------------------------------------------------
(* fuse: which iterations touch the same element.                          *)
(*                                                                         *)
(* The two loops have the index values V.  E and F are the iterations of   *)
(* whatever is around one access in the first loop and one in the second.  *)
(* A subscript is a function of these, as SubscriptAllowed of Value sees   *)
(* it: the index itself, an expression with a known range, or one in which *)
(* the index does not occur.                                               *)

IsIndex(x, V, E) == \A v \in V, e \in E : x[v][e] = v

WithoutIndex(x, V, E) == \A v, w \in V, e \in E : x[v][e] = x[w][e]

HasRange(x, r, V, E) == \A v \in V, e \in E : r[1] <= x[v][e] /\ x[v][e] <= r[2]

BothIndex(x, y, V, E, F) == IsIndex(x, V, E) /\ IsIndex(y, V, F)

Apart(x, y, V, E, F) ==
  \E r1, r2 \in Int \X Int :
    HasRange(x, r1, V, E) /\ HasRange(y, r2, V, F) /\ RangesDisjoint(r1, r2)

\* The dependence test lets the subscripts x and y of one dimension pass.
Passes(x, y, V, E, F) ==
  \/ BothIndex(x, y, V, E, F)
  \/ Apart(x, y, V, E, F)
  \/ WithoutIndex(x, V, E) /\ WithoutIndex(y, V, F)

\* The accesses X and Y are to the same element in iterations v and w.
Meet(X, Y, v, e, w, f) == \A d \in DOMAIN X : X[d][v][e] = Y[d][w][f]

\* The first loop ran before the second one; in the fused loop the access of the first
\* still comes first when its iteration is not a later one.
OrderKept(X, Y, V, E, F) ==
  \A v, w \in V, e \in E, f \in F : Meet(X, Y, v, e, w, f) => v <= w

\* A dimension in which the subscripts are the index, or never equal.
Separated(X, Y, V, E, F) ==
  \E d \in DOMAIN X : BothIndex(X[d], Y[d], V, E, F) \/ Apart(X[d], Y[d], V, E, F)

\* In one such dimension the accesses meet in one iteration only, or never; the others do
\* not matter.
LEMMA SeparatedMeet ==
  ASSUME NEW V \in SUBSET Int, NEW E, NEW F, NEW D,
         NEW X \in [D -> [V -> [E -> Int]]], NEW Y \in [D -> [V -> [F -> Int]]],
         Separated(X, Y, V, E, F),
         NEW v \in V, NEW w \in V, NEW e \in E, NEW f \in F, Meet(X, Y, v, e, w, f)
  PROVE  v = w
<1>1. PICK d \in D : BothIndex(X[d], Y[d], V, E, F) \/ Apart(X[d], Y[d], V, E, F)
  BY DEF Separated
<1>2. X[d][v][e] = Y[d][w][f]
  BY DEF Meet
<1>3. CASE BothIndex(X[d], Y[d], V, E, F)
  BY <1>2, <1>3 DEF BothIndex, IsIndex
<1>4. CASE Apart(X[d], Y[d], V, E, F)
  <2>1. PICK r1 \in Int \X Int, r2 \in Int \X Int :
          HasRange(X[d], r1, V, E) /\ HasRange(Y[d], r2, V, F) /\ RangesDisjoint(r1, r2)
    BY <1>4 DEF Apart
  <2>2. X[d][v][e] \in Int
    OBVIOUS
  <2>3. r1[1] <= X[d][v][e] /\ X[d][v][e] <= r1[2] /\ r2[1] <= Y[d][w][f] /\ Y[d][w][f] <= r2[2]
    BY <2>1 DEF HasRange
  <2>4. r1[1] \in Int /\ r1[2] \in Int /\ r2[1] \in Int /\ r2[2] \in Int
    OBVIOUS
  <2>5. FALSE
    BY <1>2, <2>1, <2>2, <2>3, <2>4 DEF RangesDisjoint
  <2> QED  BY <2>5
<1> QED  BY <1>1, <1>3, <1>4

\* The index does not occur in accesses that pass and have no such dimension: if they meet
\* at all, they meet in all iterations.
LEMMA FixedMeet ==
  ASSUME NEW V \in SUBSET Int, NEW E, NEW F, NEW D,
         NEW X \in [D -> [V -> [E -> Int]]], NEW Y \in [D -> [V -> [F -> Int]]],
         \A d \in D : Passes(X[d], Y[d], V, E, F), ~Separated(X, Y, V, E, F),
         NEW v \in V, NEW w \in V, NEW e \in E, NEW f \in F, Meet(X, Y, v, e, w, f),
         NEW i \in V, NEW j \in V
  PROVE  Meet(X, Y, i, e, j, f)
<1> SUFFICES ASSUME NEW d \in D PROVE X[d][i][e] = Y[d][j][f]
  BY DEF Meet
<1>1. WithoutIndex(X[d], V, E) /\ WithoutIndex(Y[d], V, F)
  BY DEF Passes, Separated
<1>2. X[d][i][e] = X[d][v][e] /\ Y[d][j][f] = Y[d][w][f]
  BY <1>1 DEF WithoutIndex
<1>3. X[d][v][e] = Y[d][w][f]
  BY DEF Meet
<1> QED  BY <1>2, <1>3

\* What the dependence test of fuse is worth.  When it finds no dependence between two
\* accesses of a buffer, fusing the loops keeps their order exactly if some dimension
\* separates them, or they never meet, or the loops have one iteration.  So the test is right
\* but for accesses in which the index does not occur at all, of one element or of those that
\* inner loops run over; for these it is wrong in every pair of loops.
THEOREM FusionKeepsOrder ==
  ASSUME NEW end \in Nat, NEW stride \in Nat \ {0}, StrideDivides(end, stride),
         NEW E, NEW F, NEW D,
         NEW X \in [D -> [IndexValues(end, stride) -> [E -> Int]]],
         NEW Y \in [D -> [IndexValues(end, stride) -> [F -> Int]]],
         \A d \in D : Passes(X[d], Y[d], IndexValues(end, stride), E, F)
  PROVE  LET V == IndexValues(end, stride)
         IN  OrderKept(X, Y, V, E, F) <=>
               \/ Separated(X, Y, V, E, F)
               \/ \A v, w \in V, e \in E, f \in F : ~Meet(X, Y, v, e, w, f)
               \/ end <= stride
<1> DEFINE V == IndexValues(end, stride)
           Kept == OrderKept(X, Y, V, E, F)
<1>1. V \in SUBSET Int
  BY DEF IndexValues
<1>2. Separated(X, Y, V, E, F) => Kept
  <2> SUFFICES ASSUME Separated(X, Y, V, E, F),
                      NEW v \in V, NEW w \in V, NEW e \in E, NEW f \in F,
                      Meet(X, Y, v, e, w, f)
               PROVE  v <= w
    BY DEF OrderKept
  <2>1. v = w
    BY <1>1, SeparatedMeet
  <2> QED  BY <1>1, <2>1
<1>3. (\A v, w \in V, e \in E, f \in F : ~Meet(X, Y, v, e, w, f)) => Kept
  BY DEF OrderKept
<1>4. end <= stride => Kept
  <2>1. ASSUME end <= stride, NEW v \in V PROVE v = 0
    <3>1. v \in Int /\ 0 <= v /\ v < end /\ v % stride = 0
      BY DEF IndexValues
    <3>2. 0 \in V
      BY <3>1, LoopCounts
    <3>3. 0 < v => 0 + stride <= v
      BY <3>2, LoopCounts
    <3> QED  BY <2>1, <3>1, <3>3
  <2> QED  BY <2>1 DEF OrderKept
<1>5. ASSUME ~Separated(X, Y, V, E, F), end > stride,
             NEW v \in V, NEW w \in V, NEW e \in E, NEW f \in F, Meet(X, Y, v, e, w, f)
      PROVE  ~Kept
  <2>1. 0 \in V
    BY <1>5, LoopCounts
  <2>2. stride \in V
    <3>1. 0 + stride < end <=> 0 + stride \in V
      BY <2>1, LoopCounts
    <3> QED  BY <1>5, <3>1
  <2>3. Meet(X, Y, stride, e, 0, f)
    BY <1>1, <1>5, <2>1, <2>2, FixedMeet
  <2>4. ~(stride <= 0)
    OBVIOUS
  <2> QED  BY <2>1, <2>2, <2>3, <2>4 DEF OrderKept
<1>6. end <= stride \/ end > stride
  OBVIOUS
<1> QED  BY <1>2, <1>3, <1>4, <1>5, <1>6

-----------------------------------------------------------------------------
(* getIndexAccessKind: how a subscript changes with the index.             *)

Uniform(x) == \A v, w \in Nat : x[v] = x[w]

GrowsByOne(x) == \A v \in Nat : x[v + 1] = x[v] + 1

\* The subscript x is what Value.h says of subscripts of the kind K.
HasKind(x, K) ==
  /\ x \in [Nat -> Int]
  /\ K \in {"uniform", "consecutive", "other"}
  /\ K = "uniform" => Uniform(x)
  /\ K = "consecutive" => GrowsByOne(x)

Combined(op, x, y) == [v \in Nat |-> Arith(op, x[v], y[v])]

\* An index times a factor.
LEMMA GrowsByFactor ==
  ASSUME NEW x \in [Nat -> Int], NEW y \in [Nat -> Int], Uniform(x), GrowsByOne(y)
  PROVE  /\ \A v \in Nat : x[v + 1] * y[v + 1] = x[v] * y[v] + x[0]
         /\ \A v \in Nat : y[v + 1] * x[v + 1] = y[v] * x[v] + x[0]
<1> SUFFICES ASSUME NEW v \in Nat
             PROVE  /\ x[v + 1] * y[v + 1] = x[v] * y[v] + x[0]
                    /\ y[v + 1] * x[v + 1] = y[v] * x[v] + x[0]
  OBVIOUS
<1>1. PICK a \in Int, b \in Int :
        x[v + 1] = a /\ x[v] = a /\ x[0] = a /\ y[v] = b /\ y[v + 1] = b + 1
  <2>1. x[0] \in Int /\ y[v] \in Int
    OBVIOUS
  <2>2. v + 1 \in Nat /\ 0 \in Nat
    OBVIOUS
  <2>3. x[v + 1] = x[0] /\ x[v] = x[0]
    BY <2>2 DEF Uniform
  <2>4. y[v + 1] = y[v] + 1
    BY DEF GrowsByOne
  <2> QED  BY <2>1, <2>3, <2>4
<1>2. a * (b + 1) = a * b + a /\ (b + 1) * a = b * a + a
  OBVIOUS
<1> QED  BY <1>1, <1>2

\* The product of two subscripts that grow does not grow by one.
LEMMA ProductOfIndices ==
  ASSUME NEW x \in [Nat -> Int], NEW y \in [Nat -> Int], GrowsByOne(x), GrowsByOne(y)
  PROVE  ~(x[1] * y[1] = x[0] * y[0] + 1 /\ x[2] * y[2] = x[1] * y[1] + 1)
<1>1. PICK a \in Int, b \in Int : x[0] = a /\ y[0] = b
  OBVIOUS
<1>2. 0 \in Nat /\ 1 \in Nat /\ 0 + 1 = 1 /\ 1 + 1 = 2
  OBVIOUS
<1>3. x[0 + 1] = x[0] + 1 /\ y[0 + 1] = y[0] + 1 /\ x[1 + 1] = x[1] + 1 /\ y[1 + 1] = y[1] + 1
  BY <1>2 DEF GrowsByOne
<1>4. x[1] = a + 1 /\ y[1] = b + 1 /\ x[2] = a + 2 /\ y[2] = b + 2
  BY <1>1, <1>3
<1>5. (a + 1) * (b + 1) = a * b + a + b + 1
  OBVIOUS
<1>6. (a + 2) * (b + 2) = a * b + a + a + b + b + 4
  OBVIOUS
<1>7. PICK p \in Int : p = a * b
  OBVIOUS
<1>8. ~((a + 1) * (b + 1) = a * b + 1 /\ (a + 2) * (b + 2) = (a + 1) * (b + 1) + 1)
  BY <1>5, <1>6, <1>7
<1> QED  BY <1>1, <1>4, <1>8

\* What getIndexAccessKind says of a BinaryExpr when it is right about the operands.  A
\* "uniform" subscript does not change.  A "consecutive" one grows by one in a sum of an
\* index and a uniform operand; in a product only if the uniform operand is 1; and never when
\* both operands grow, neither in a product nor in a sum, such as i + i.
THEOREM AccessKinds ==
  ASSUME NEW op \in {"add", "sub", "mul", "min", "max"}, NEW L, NEW R, NEW x, NEW y,
         HasKind(x, L), HasKind(y, R)
  PROVE  LET z == Combined(op, x, y)
             K == AccessKindOfBin(op, L, R)
         IN  /\ K = "uniform" => Uniform(z)
             /\ K = "consecutive" =>
                  (GrowsByOne(z) <=>
                     /\ L # R
                     /\ op = "mul" => IF L = "uniform" THEN x[0] = 1 ELSE y[0] = 1)
<1> DEFINE z == Combined(op, x, y)
           K == AccessKindOfBin(op, L, R)
<1>1. x \in [Nat -> Int] /\ y \in [Nat -> Int]
  BY DEF HasKind
<1>2. \A v \in Nat : v + 1 \in Nat /\ z[v] = Arith(op, x[v], y[v]) /\ z[v + 1] = Arith(op, x[v + 1], y[v + 1])
  BY DEF Combined
<1>3. ASSUME K = "uniform" PROVE Uniform(z)
  <2>1. Uniform(x) /\ Uniform(y)
    BY <1>3 DEF AccessKindOfBin, HasKind
  <2> SUFFICES ASSUME NEW v \in Nat, NEW w \in Nat PROVE z[v] = z[w]
    BY DEF Uniform
  <2>2. x[v] = x[w] /\ y[v] = y[w]
    BY <2>1 DEF Uniform
  <2> QED  BY <1>2, <2>2
<1>4. ASSUME K = "consecutive"
      PROVE  GrowsByOne(z) <=>
               /\ L # R
               /\ op = "mul" => IF L = "uniform" THEN x[0] = 1 ELSE y[0] = 1
  <2>1. /\ op \in {"mul", "add"}
        /\ \/ L = "uniform" /\ R = "consecutive" /\ Uniform(x) /\ GrowsByOne(y)
           \/ L = "consecutive" /\ R = "uniform" /\ GrowsByOne(x) /\ Uniform(y)
           \/ L = "consecutive" /\ R = "consecutive" /\ GrowsByOne(x) /\ GrowsByOne(y)
    BY <1>4 DEF AccessKindOfBin, HasKind
  <2> HIDE DEF z, K
  <2>2. GrowsByOne(z) <=> \A v \in Nat : z[v + 1] = z[v] + 1
    BY DEF GrowsByOne
  <2>3. CASE op = "add"
    <3>1. \A v \in Nat : z[v] = x[v] + y[v] /\ z[v + 1] = x[v + 1] + y[v + 1]
      BY <1>2, <2>3 DEF Arith
    <3>2. CASE L = "uniform" /\ R = "consecutive"
      <4>1. \A v \in Nat : x[v + 1] = x[v] /\ y[v + 1] = y[v] + 1
        BY <1>2, <2>1, <3>2 DEF Uniform, GrowsByOne
      <4>2. \A v \in Nat : z[v + 1] = z[v] + 1
        BY <1>1, <3>1, <4>1
      <4> QED  BY <2>2, <2>3, <3>2, <4>2
    <3>3. CASE L = "consecutive" /\ R = "uniform"
      <4>1. \A v \in Nat : x[v + 1] = x[v] + 1 /\ y[v + 1] = y[v]
        BY <1>2, <2>1, <3>3 DEF Uniform, GrowsByOne
      <4>2. \A v \in Nat : z[v + 1] = z[v] + 1
        BY <1>1, <3>1, <4>1
      <4> QED  BY <2>2, <2>3, <3>3, <4>2
    <3>4. CASE L = "consecutive" /\ R = "consecutive"
      <4>1. x[0 + 1] = x[0] + 1 /\ y[0 + 1] = y[0] + 1
        BY <2>1, <3>4 DEF GrowsByOne
      <4>2. z[0] = x[0] + y[0] /\ z[0 + 1] = x[0 + 1] + y[0 + 1]
        BY <3>1
      <4>3. x[0] \in Int /\ y[0] \in Int
        BY <1>1
      <4>4. z[0 + 1] # z[0] + 1
        BY <4>1, <4>2, <4>3
      <4>5. 0 \in Nat
        OBVIOUS
      <4> QED  BY <2>2, <3>4, <4>4, <4>5
    <3> QED  BY <2>1, <3>2, <3>3, <3>4
  <2>4. CASE op = "mul"
    <3>1. \A v \in Nat : z[v] = x[v] * y[v] /\ z[v + 1] = x[v + 1] * y[v + 1]
      BY <1>2, <2>4 DEF Arith
    <3>2. 0 \in Nat /\ 1 \in Nat /\ 0 + 1 = 1 /\ 1 + 1 = 2
      OBVIOUS
    <3>3. \A v \in Nat : x[v] * y[v] \in Int
      BY <1>1
    <3>4. CASE L = "uniform" /\ R = "consecutive"
      <4>1. \A v \in Nat : z[v + 1] = z[v] + x[0]
        BY <1>1, <2>1, <3>1, <3>4, GrowsByFactor
      <4>2. (\A v \in Nat : z[v + 1] = z[v] + 1) <=> x[0] = 1
        BY <1>1, <3>1, <3>2, <3>3, <4>1
      <4> QED  BY <2>2, <2>4, <3>4, <4>2
    <3>5. CASE L = "consecutive" /\ R = "uniform"
      <4>1. \A v \in Nat : z[v + 1] = z[v] + y[0]
        BY <1>1, <2>1, <3>1, <3>5, GrowsByFactor
      <4>2. (\A v \in Nat : z[v + 1] = z[v] + 1) <=> y[0] = 1
        BY <1>1, <3>1, <3>2, <3>3, <4>1
      <4> QED  BY <2>2, <2>4, <3>5, <4>2
    <3>6. CASE L = "consecutive" /\ R = "consecutive"
      <4>1. z[0] = x[0] * y[0] /\ z[0 + 1] = x[0 + 1] * y[0 + 1] /\ z[1 + 1] = x[1 + 1] * y[1 + 1]
        BY <3>1, <3>2
      <4>2. ~(z[0 + 1] = z[0] + 1 /\ z[1 + 1] = z[1] + 1)
        BY <1>1, <2>1, <3>2, <3>6, <4>1, ProductOfIndices
      <4> QED  BY <2>2, <3>2, <3>6, <4>2
    <3> QED  BY <2>1, <3>4, <3>5, <3>6
  <2> QED  BY <2>1, <2>3, <2>4
<1> QED  BY <1>3, <1>4
=============================================================================
