----------------------------- MODULE LoopShapes ------------------------------
(***************************************************************************)
(* What scheduling promises about the loops of a program, whatever is in   *)
(* them and however they are nested: a loop is its shape, the end and the  *)
(* stride.  A transformation divides one loop into loops of other shapes,  *)
(* copies or dissolves loops, or leaves their shapes alone when it moves   *)
(* code.  Module Schedule implements this specification.                   *)
(***************************************************************************)
EXTENDS Iterations

CONSTANTS
  Lanes,      \* the vector widths that optimizeStatic is called for
  BlockSize,  \* the block size that it tiles with
  Universe    \* the shapes among which its results are looked for

VARIABLE shapes  \* the shapes of the loops in the program

ShapeOf(end, stride) == [end |-> end, stride |-> stride]

\* Loop::verify on the loops of a program.
Valid(s) ==
  /\ s.end \in Nat /\ s.stride \in Nat \ {0}
  /\ StrideDivides(s.end, s.stride)

NotEmpty(s) == s.end > 0

\* A program that the parser has made and that passed Program::verify.
Init == \A s \in shapes : Valid(s) /\ NotEmpty(s)

-----------------------------------------------------------------------------
(* The loops that one loop becomes.                                        *)

\* tile: a loop over the blocks and a loop over one block.
TilePieces(s, bs) == {ShapeOf(Blocks(s.end, bs), 1), ShapeOf(bs, s.stride)}

\* peelLoop: the first n values, and the others.
PeelPieces(s, n) == {ShapeOf(n, s.stride), ShapeOf(s.end - n, s.stride)}

\* widen, vectorize: steps of n for as long as they fit, and the tail, if any.
StepPieces(s, n) ==
  IF s.end % n = 0 THEN {ShapeOf(s.end, n)}
  ELSE {ShapeOf(WholePart(s.end, n), n), ShapeOf(s.end - WholePart(s.end, n), s.stride)}

\* The loop may have a copy elsewhere in the program.
Divide(s, pieces) == shapes' \in {shapes \union pieces, (shapes \ {s}) \union pieces}

-----------------------------------------------------------------------------
(* The steps of a schedule.                                                *)

Tile(s, bs) == TileAccepts(s.end, s.stride, bs) /\ Divide(s, TilePieces(s, bs))

Peel(s, k) ==
  PeelAccepts(s.end, s.stride, k) /\ Divide(s, PeelPieces(s, PeelCount(s.end, k)))

Widen(s, wf) == s.end >= s.stride * wf /\ Divide(s, StepPieces(s, s.stride * wf))

Vectorize(s, vf) == s.stride = 1 /\ Divide(s, StepPieces(s, vf))

\* unrollLoop and simplify: loops are dissolved or removed.
Dissolve == shapes' \subseteq shapes

\* The set S has the pieces of its loops that optimizeStatic may make.
Closed(S) ==
  \A s \in S :
    /\ \A vf \in Lanes \intersect 1..s.end :
         s.stride = 1 => StepPieces(s, vf) \intersect Universe \subseteq S
    /\ BlockSize \in 1..s.end /\ TileAccepts(s.end, s.stride, BlockSize) =>
         TilePieces(s, BlockSize) \intersect Universe \subseteq S

\* optimizeStatic: loops are vectorized and tiled as often as the heuristics like,
\* and dissolved; nothing else is made of them.
Optimize ==
  /\ shapes \subseteq Universe
  /\ \A S \in SUBSET Universe : shapes \subseteq S /\ Closed(S) => shapes' \subseteq S

\* One transformation.
Transform ==
  \/ Dissolve
  \/ \E s \in shapes :
       \/ \E bs \in 1..s.end : Tile(s, bs)
       \/ \E k \in -s.end..s.end : Peel(s, k)
       \/ \E wf \in 1..s.end : Widen(s, wf)
       \/ \E vf \in 1..s.end : Vectorize(s, vf)

Next == Transform \/ Optimize

Spec == Init /\ [][Next]_shapes

-----------------------------------------------------------------------------
(* Properties.                                                             *)

\* Loop::verify, "Trip count must be divisible by the stride", for every loop after
\* every schedule: tiles, tails and wide loops of loops that were divided before.
AllValid == \A s \in shapes : Valid(s)

\* No transformation makes a loop that runs further than all of those before it.
NoLonger == [][\A t \in shapes' : \E s \in shapes : t.end <= s.end]_shapes

\* Peeling all of the iterations or none.
PeelsAll(s, k) == Peel(s, k) /\ PeelCount(s.end, k) = s.end

\* Loop::verify, "Loops must not be empty": only peelLoop makes an empty loop, and only
\* when it is told to peel all of the iterations.
OnlyPeelEmpties ==
  [][(\A s \in shapes : NotEmpty(s)) =>
       \/ \A s \in shapes' : NotEmpty(s)
       \/ \E s \in shapes : \E k \in -s.end..s.end : PeelsAll(s, k)]_shapes

\* What computeKnownIntegerRange takes for the last value of an index is one, and is
\* the last, as long as no loop is empty.
LastValuesAreLast ==
  (\A s \in shapes : NotEmpty(s)) =>
    \A s \in shapes :
      /\ LastValue(s.end, s.stride) \in IndexValues(s.end, s.stride)
      /\ \A v \in IndexValues(s.end, s.stride) : v <= LastValue(s.end, s.stride)
=============================================================================
