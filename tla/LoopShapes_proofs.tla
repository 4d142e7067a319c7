-------------------------- MODULE LoopShapes_proofs --------------------------
(***************************************************************************)
(* Theorems about the loops of a program that is scheduled, for schedules  *)
(* of any length, with any parameters, of loops of any length and stride.  *)
(***************************************************************************)
EXTENDS LoopShapes, Iterations_proofs

\* t is a loop that verify accepts, no longer than s.
PieceOf(t, s) == Valid(t) /\ t.end <= s.end

\* The end and the stride of a shape.
LEMMA ShapeFields ==
  ASSUME NEW e, NEW d
  PROVE  ShapeOf(e, d).end = e /\ ShapeOf(e, d).stride = d
BY DEF ShapeOf

\* A shape is valid when its numbers are.
LEMMA ValidShape ==
  ASSUME NEW e \in Nat, NEW d \in Nat \ {0}, StrideDivides(e, d)
  PROVE  Valid(ShapeOf(e, d))
BY ShapeFields DEF Valid

-----------------------------------------------------------------------------
(* The pieces of a loop.                                                   *)

\* There are no more blocks than values of the index.
LEMMA BlocksNoLonger ==
  ASSUME NEW end \in Nat, NEW bs \in Nat \ {0}
  PROVE  Blocks(end, bs) <= end
<1> DEFINE n == Blocks(end, bs)
<1>1. n \in Nat /\ bs * n < end + bs
  BY BlocksRoundUp
<1> HIDE DEF n
<1>2. n = 0 => n <= end
  OBVIOUS
<1>3. ASSUME n # 0 PROVE n <= end
  <2>1. bs * n = bs * (n - 1) + bs
    BY <1>1
  <2>2. n - 1 <= bs * (n - 1)
    BY <1>1, <1>3
  <2>3. bs * (n - 1) < end
    BY <1>1, <2>1
  <2> QED  BY <1>1, <2>2, <2>3
<1>4. n <= end
  BY <1>2, <1>3
<1> QED  BY <1>4 DEF n

\* tile makes a loop over blocks and a loop over a block that verify accepts, both
\* with iterations.
LEMMA TileMakesLoops ==
  ASSUME NEW s, Valid(s), NEW bs \in 1..s.end, TileAccepts(s.end, s.stride, bs)
  PROVE  \A t \in TilePieces(s, bs) : PieceOf(t, s) /\ NotEmpty(t)
<1>1. s.end \in Nat /\ s.stride \in Nat \ {0} /\ bs \in Nat \ {0} /\ bs <= s.end
  BY DEF Valid
<1>2. Blocks(s.end, bs) > 0 /\ StrideDivides(Blocks(s.end, bs), 1) /\ StrideDivides(bs, s.stride)
  BY <1>1, TilePassesVerify
<1>3. Blocks(s.end, bs) \in Nat /\ Blocks(s.end, bs) <= s.end
  BY <1>1, BlocksRoundUp, BlocksNoLonger
<1>4. Valid(ShapeOf(Blocks(s.end, bs), 1)) /\ Valid(ShapeOf(bs, s.stride))
  BY <1>1, <1>2, <1>3, ValidShape
<1>5. PieceOf(ShapeOf(Blocks(s.end, bs), 1), s) /\ NotEmpty(ShapeOf(Blocks(s.end, bs), 1))
  BY <1>2, <1>3, <1>4, ShapeFields DEF PieceOf, NotEmpty
<1>6. PieceOf(ShapeOf(bs, s.stride), s) /\ NotEmpty(ShapeOf(bs, s.stride))
  BY <1>1, <1>4, ShapeFields DEF PieceOf, NotEmpty
<1> QED  BY <1>5, <1>6 DEF TilePieces

\* peelLoop divides a loop into two that verify accepts, except that the second is
\* empty when all iterations are peeled.
LEMMA PeelMakesLoops ==
  ASSUME NEW s, Valid(s), NEW k \in Int, PeelAccepts(s.end, s.stride, k)
  PROVE  \A t \in PeelPieces(s, PeelCount(s.end, k)) :
           PieceOf(t, s) /\ (PeelCount(s.end, k) # s.end => NotEmpty(t))
<1> DEFINE n == PeelCount(s.end, k)
           m == s.end - n
<1>1. s.end \in Nat /\ s.stride \in Nat \ {0} /\ StrideDivides(s.end, s.stride)
  BY DEF Valid
<1>2. n \in 1..s.end /\ StrideDivides(n, s.stride) /\ StrideDivides(m, s.stride)
  BY <1>1, PeelDividesLoop
<1> HIDE DEF n
<1>3. n \in Nat /\ m \in Nat /\ 0 < n /\ n <= s.end /\ m <= s.end /\ (n # s.end => 0 < m)
  BY <1>1, <1>2
<1> HIDE DEF m
<1>4. Valid(ShapeOf(n, s.stride)) /\ Valid(ShapeOf(m, s.stride))
  BY <1>1, <1>2, <1>3, ValidShape
<1>5. PieceOf(ShapeOf(n, s.stride), s) /\ NotEmpty(ShapeOf(n, s.stride))
  BY <1>3, <1>4, ShapeFields DEF PieceOf, NotEmpty
<1>6. PieceOf(ShapeOf(m, s.stride), s) /\ (n # s.end => NotEmpty(ShapeOf(m, s.stride)))
  BY <1>3, <1>4, ShapeFields DEF PieceOf, NotEmpty
<1> QED  BY <1>5, <1>6 DEF PeelPieces, n, m

\* widen and vectorize make steps of n and, when n does not divide the loop, a tail
\* that is not empty.
LEMMA StepMakesLoops ==
  ASSUME NEW s, Valid(s), NEW n \in Nat \ {0}, n % s.stride = 0, s.end >= n
  PROVE  \A t \in StepPieces(s, n) : PieceOf(t, s) /\ NotEmpty(t)
<1> DEFINE w == WholePart(s.end, n)
           m == s.end - w
           r == s.end % n
<1>1. s.end \in Nat /\ s.stride \in Nat \ {0} /\ StrideDivides(s.end, s.stride)
  BY DEF Valid
<1>2. w > 0 /\ StrideDivides(w, n) /\ StrideDivides(m, s.stride)
  BY <1>1, TailIsPeeled
<1>3. r \in Int /\ 0 <= r /\ w = s.end - r
  <2>1. r \in Int /\ 0 <= r
    BY <1>1, DivMod
  <2> QED  BY <2>1 DEF WholePart
<1>4. CASE r = 0
  <2>1. StrideDivides(s.end, n)
    BY <1>4 DEF StrideDivides
  <2>2. Valid(ShapeOf(s.end, n))
    BY <1>1, <2>1, ValidShape
  <2>3. PieceOf(ShapeOf(s.end, n), s) /\ NotEmpty(ShapeOf(s.end, n))
    BY <1>1, <2>2, ShapeFields DEF PieceOf, NotEmpty
  <2> QED  BY <1>4, <2>3 DEF StepPieces
<1>5. CASE r # 0
  <2> HIDE DEF w, r
  <2>1. m = r /\ m \in Nat /\ 0 < m /\ m <= s.end /\ w \in Nat /\ w <= s.end
    BY <1>1, <1>2, <1>3, <1>5
  <2> HIDE DEF m
  <2>2. Valid(ShapeOf(w, n)) /\ Valid(ShapeOf(m, s.stride))
    BY <1>1, <1>2, <2>1, ValidShape
  <2>3. PieceOf(ShapeOf(w, n), s) /\ NotEmpty(ShapeOf(w, n))
    BY <1>2, <2>1, <2>2, ShapeFields DEF PieceOf, NotEmpty
  <2>4. PieceOf(ShapeOf(m, s.stride), s) /\ NotEmpty(ShapeOf(m, s.stride))
    BY <2>1, <2>2, ShapeFields DEF PieceOf, NotEmpty
  <2>5. StepPieces(s, n) = {ShapeOf(w, n), ShapeOf(m, s.stride)}
    BY <1>5 DEF StepPieces, w, m, r
  <2> QED  BY <2>3, <2>4, <2>5
<1> QED  BY <1>4, <1>5

\* A wide step is a number of steps.
LEMMA WideStep ==
  ASSUME NEW s, Valid(s), NEW wf \in Nat \ {0}
  PROVE  s.stride * wf \in Nat \ {0} /\ (s.stride * wf) % s.stride = 0
<1>1. s.stride \in Nat \ {0}
  BY DEF Valid
<1>2. s.stride * wf \in Nat \ {0}
  BY <1>1
<1> QED  BY <1>1, <1>2, Multiple

-----------------------------------------------------------------------------
(* The steps of a schedule.                                                *)

\* The loop t comes from one of the loops in the program.
Comes(t) == \E s \in shapes : PieceOf(t, s)

AllNotEmpty == \A s \in shapes : NotEmpty(s)

\* A loop comes from itself.
LEMMA ComesFromItself ==
  ASSUME AllValid, NEW t \in shapes
  PROVE  Comes(t)
<1>1. Valid(t) /\ t.end <= t.end
  BY DEF AllValid, Valid
<1> QED  BY <1>1 DEF Comes, PieceOf

\* Loops that are divided, and the loops around and beside them, which stay.
LEMMA DividedLoops ==
  ASSUME AllValid, NEW s \in shapes, NEW P, Divide(s, P), \A t \in P : PieceOf(t, s)
  PROVE  /\ \A t \in shapes' : Comes(t)
         /\ AllNotEmpty /\ (\A t \in P : NotEmpty(t)) => \A t \in shapes' : NotEmpty(t)
<1>1. \A t \in shapes' : t \in shapes \/ t \in P
  BY DEF Divide
<1>2. \A t \in P : Comes(t)
  BY DEF Comes
<1> QED  BY <1>1, <1>2, ComesFromItself DEF AllNotEmpty

\* optimizeStatic makes loops of the ones in the program only, with iterations if those
\* have: the set of such loops is closed under what it does.
LEMMA OptimizedLoops ==
  ASSUME AllValid, Optimize
  PROVE  /\ \A t \in shapes' : Comes(t)
         /\ AllNotEmpty => \A t \in shapes' : NotEmpty(t)
<1> DEFINE Good(t) == Comes(t) /\ (AllNotEmpty => NotEmpty(t))
           S == {t \in Universe : Good(t)}
\* What a piece of a good loop is.
<1>1. ASSUME NEW u, Good(u), NEW t, PieceOf(t, u), NotEmpty(t)
      PROVE  Good(t)
  <2>1. PICK s \in shapes : PieceOf(u, s)
    BY <1>1 DEF Comes
  <2>2. Valid(s) /\ Valid(u) /\ Valid(t) /\ t.end <= u.end /\ u.end <= s.end
    BY <1>1, <2>1 DEF AllValid, PieceOf
  <2>3. t.end <= s.end
    BY <2>2 DEF Valid
  <2>4. PieceOf(t, s)
    BY <2>2, <2>3 DEF PieceOf
  <2> QED  BY <1>1, <2>4 DEF Comes
<1>2. Closed(S)
  <2> SUFFICES ASSUME NEW u \in S
               PROVE  /\ \A vf \in Lanes \intersect 1..u.end :
                           u.stride = 1 => StepPieces(u, vf) \intersect Universe \subseteq S
                      /\ BlockSize \in 1..u.end /\ TileAccepts(u.end, u.stride, BlockSize) =>
                           TilePieces(u, BlockSize) \intersect Universe \subseteq S
    BY DEF Closed
  <2>1. Good(u) /\ Valid(u)
    BY DEF Comes, PieceOf
  <2>2. u.end \in Nat /\ u.stride \in Nat \ {0}
    BY <2>1 DEF Valid
  <2>3. ASSUME NEW vf \in Lanes \intersect 1..u.end, u.stride = 1
        PROVE  StepPieces(u, vf) \intersect Universe \subseteq S
    <3>1. vf \in Nat \ {0} /\ u.end >= vf
      BY <2>2
    <3>2. vf % u.stride = 0
      <4>1. vf = 1 * vf /\ vf \in Int
        BY <3>1
      <4> QED  BY <2>3, <4>1, Multiple
    <3>3. \A t \in StepPieces(u, vf) : PieceOf(t, u) /\ NotEmpty(t)
      BY <2>1, <3>1, <3>2, StepMakesLoops
    <3> QED  BY <1>1, <2>1, <3>3
  <2>4. ASSUME BlockSize \in 1..u.end, TileAccepts(u.end, u.stride, BlockSize)
        PROVE  TilePieces(u, BlockSize) \intersect Universe \subseteq S
    <3>1. \A t \in TilePieces(u, BlockSize) : PieceOf(t, u) /\ NotEmpty(t)
      BY <2>1, <2>4, TileMakesLoops
    <3> QED  BY <1>1, <2>1, <3>1
  <2> QED  BY <2>3, <2>4
<1>3. shapes \subseteq S
  BY ComesFromItself DEF Optimize, AllNotEmpty
<1>4. shapes' \subseteq S
  <2>1. S \in SUBSET Universe
    OBVIOUS
  <2> HIDE DEF S
  <2> QED  BY <1>2, <1>3, <2>1 DEF Optimize
<1> QED  BY <1>4

PeelsAllOfOne == \E s \in shapes : \E k \in -s.end..s.end : PeelsAll(s, k)

\* Every step of a schedule makes loops that verify accepts, of the ones before it, and
\* empty ones only by peeling everything.
LEMMA EveryStep ==
  ASSUME AllValid, [Next]_shapes
  PROVE  /\ \A t \in shapes' : Comes(t)
         /\ AllNotEmpty => (\A t \in shapes' : NotEmpty(t)) \/ PeelsAllOfOne
<1>1. CASE Dissolve \/ UNCHANGED shapes
  <2>1. shapes' \subseteq shapes
    BY <1>1 DEF Dissolve
  <2> QED  BY <2>1, ComesFromItself DEF AllNotEmpty
<1>2. ASSUME NEW s \in shapes, NEW bs \in 1..s.end, Tile(s, bs)
      PROVE  (\A t \in shapes' : Comes(t)) /\ (AllNotEmpty => \A t \in shapes' : NotEmpty(t))
  <2>1. \A t \in TilePieces(s, bs) : PieceOf(t, s) /\ NotEmpty(t)
    BY <1>2, TileMakesLoops DEF Tile, AllValid
  <2> QED  BY <1>2, <2>1, DividedLoops DEF Tile
<1>3. ASSUME NEW s \in shapes, NEW k \in -s.end..s.end, Peel(s, k)
      PROVE  /\ \A t \in shapes' : Comes(t)
             /\ AllNotEmpty => (\A t \in shapes' : NotEmpty(t)) \/ PeelsAllOfOne
  <2>1. k \in Int /\ Valid(s)
    BY DEF AllValid, Valid
  <2>2. \A t \in PeelPieces(s, PeelCount(s.end, k)) :
          PieceOf(t, s) /\ (PeelCount(s.end, k) # s.end => NotEmpty(t))
    BY <1>3, <2>1, PeelMakesLoops DEF Peel
  <2>3. CASE PeelCount(s.end, k) = s.end
    <3>1. PeelsAllOfOne
      BY <1>3, <2>3 DEF PeelsAllOfOne, PeelsAll
    <3> QED  BY <1>3, <2>2, <3>1, DividedLoops DEF Peel
  <2>4. CASE PeelCount(s.end, k) # s.end
    BY <1>3, <2>2, <2>4, DividedLoops DEF Peel
  <2> QED  BY <2>3, <2>4
<1>4. ASSUME NEW s \in shapes, NEW wf \in 1..s.end, Widen(s, wf)
      PROVE  (\A t \in shapes' : Comes(t)) /\ (AllNotEmpty => \A t \in shapes' : NotEmpty(t))
  <2>1. Valid(s) /\ wf \in Nat \ {0}
    BY DEF AllValid, Valid
  <2>2. s.stride * wf \in Nat \ {0} /\ (s.stride * wf) % s.stride = 0
    BY <2>1, WideStep
  <2>3. \A t \in StepPieces(s, s.stride * wf) : PieceOf(t, s) /\ NotEmpty(t)
    BY <1>4, <2>1, <2>2, StepMakesLoops DEF Widen
  <2> QED  BY <1>4, <2>3, DividedLoops DEF Widen
<1>5. ASSUME NEW s \in shapes, NEW vf \in 1..s.end, Vectorize(s, vf)
      PROVE  (\A t \in shapes' : Comes(t)) /\ (AllNotEmpty => \A t \in shapes' : NotEmpty(t))
  <2>1. Valid(s) /\ vf \in Nat \ {0} /\ s.end >= vf /\ s.stride = 1
    BY <1>5 DEF AllValid, Valid, Vectorize
  <2>2. vf % s.stride = 0
    <3>1. vf = 1 * vf /\ vf \in Int
      BY <2>1
    <3> QED  BY <2>1, <3>1, Multiple
  <2>3. \A t \in StepPieces(s, vf) : PieceOf(t, s) /\ NotEmpty(t)
    BY <2>1, <2>2, StepMakesLoops
  <2> QED  BY <1>5, <2>3, DividedLoops DEF Vectorize
<1>6. CASE Optimize
  BY <1>6, OptimizedLoops
<1> QED  BY <1>1, <1>2, <1>3, <1>4, <1>5, <1>6 DEF Next, Transform

-----------------------------------------------------------------------------
(* Schedules.                                                              *)

\* Program::verify accepts the loops of the program after every schedule: the stride
\* divides the end, whatever pragmas were applied before to what the others left.
THEOREM LoopsStayValid == Spec => []AllValid
<1>1. Init => AllValid
  BY DEF Init, AllValid
<1>2. AllValid /\ [Next]_shapes => AllValid'
  <2> SUFFICES ASSUME AllValid, [Next]_shapes PROVE AllValid'
    OBVIOUS
  <2>1. \A t \in shapes' : Comes(t)
    BY EveryStep
  <2> QED  BY <2>1 DEF AllValid, Comes, PieceOf
<1> QED  BY <1>1, <1>2, PTL DEF Spec

\* The transformations do not make longer loops: tile rounds up without getting past the
\* end, and a tail is a part.  So no loop of a schedule is longer than the longest one
\* that was written, and by LoopsStayValid none that is not empty has wider steps.
THEOREM LoopsGetNoLonger == Spec => NoLonger
<1> DEFINE Shorter == \A t \in shapes' : \E s \in shapes : t.end <= s.end
<1>1. AllValid /\ [Next]_shapes => [Shorter]_shapes
  <2> SUFFICES ASSUME AllValid, [Next]_shapes PROVE Shorter
    OBVIOUS
  <2>1. \A t \in shapes' : Comes(t)
    BY EveryStep
  <2> QED  BY <2>1 DEF Comes, PieceOf
<1> HIDE DEF Shorter
<1>2. Spec => [][Shorter]_shapes
  BY <1>1, LoopsStayValid, PTL DEF Spec
<1> QED  BY <1>2 DEF Shorter, NoLonger

\* Loop::verify does not find an empty loop unless all iterations of a loop were
\* peeled: tails and blocks are made only when they have iterations.
THEOREM EmptyLoopsArePeeled == Spec => OnlyPeelEmpties
<1> DEFINE Keeps == (\A s \in shapes : NotEmpty(s)) =>
                      \/ \A s \in shapes' : NotEmpty(s)
                      \/ \E s \in shapes : \E k \in -s.end..s.end : PeelsAll(s, k)
<1>1. AllValid /\ [Next]_shapes => [Keeps]_shapes
  <2> SUFFICES ASSUME AllValid, [Next]_shapes PROVE Keeps
    OBVIOUS
  <2> QED  BY EveryStep DEF AllNotEmpty, PeelsAllOfOne
<1> HIDE DEF Keeps
<1>2. Spec => [][Keeps]_shapes
  BY <1>1, LoopsStayValid, PTL DEF Spec
<1> QED  BY <1>2 DEF Keeps, OnlyPeelEmpties

\* The ranges of indices, from which fuse and simplifyIfs draw their conclusions, are
\* exact after every schedule: end - stride is the last value of the index.
THEOREM RangesStayExact == Spec => []LastValuesAreLast
<1>1. AllValid => LastValuesAreLast
  <2> SUFFICES ASSUME AllValid, NEW s \in shapes, NotEmpty(s)
               PROVE  /\ LastValue(s.end, s.stride) \in IndexValues(s.end, s.stride)
                      /\ \A v \in IndexValues(s.end, s.stride) : v <= LastValue(s.end, s.stride)
    BY DEF LastValuesAreLast
  <2>1. s.end \in Nat \ {0} /\ s.stride \in Nat \ {0} /\ StrideDivides(s.end, s.stride)
    BY DEF AllValid, Valid, NotEmpty
  <2> QED  BY <2>1, IndexRangeIsTight
<1> QED  BY <1>1, LoopsStayValid, PTL
=============================================================================
