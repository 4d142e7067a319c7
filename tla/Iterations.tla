----------------------------- MODULE Iterations ------------------------------
(***************************************************************************)
(* The numbers of loops: the values that an index takes, which loops a     *)
(* transformation accepts and how it divides them, and what is known of    *)
(* the range of an expression of indices.                                  *)
(*                                                                         *)
(* Programs, as terms, are the matter of Program and the modules that      *)
(* extend it; they take their arithmetic from here, where it can be        *)
(* reasoned about without the recursion over terms.                        *)
(***************************************************************************)
EXTENDS Integers, FiniteSetsExt

\* What a BinaryExpr computes.
Arith(op, x, y) ==
  CASE op = "add" -> x + y
    [] op = "mul" -> x * y
    [] op = "sub" -> x - y
    [] op = "max" -> IF x >= y THEN x ELSE y
    [] op = "min" -> IF x < y THEN x ELSE y

-----------------------------------------------------------------------------
(* Loops.                                                                  *)

\* The values of the index: from 0 in steps of the stride, below the end.
IndexValues(end, stride) == {i \in 0..end - 1 : i % stride = 0}

\* Loop::verify: "Trip count must be divisible by the stride".
StrideDivides(end, stride) == stride > 0 /\ end % stride = 0

\* IfRange: the body runs when the value is in the half-open range.
InRange(v, lo, hi) == lo <= v /\ v < hi

-----------------------------------------------------------------------------
(* How transformations divide a loop.                                      *)

\* tile: the loop must not fit in one block, and the blocks hold whole steps.
TileAccepts(end, stride, bs) == end > bs /\ bs % stride = 0

\* The last block is partial.
NeedRangeCheck(end, bs) == end % bs # 0

Blocks(end, bs) == end \div bs + (IF NeedRangeCheck(end, bs) THEN 1 ELSE 0)

\* peelLoop: a count below one is counted from the end of the loop.
PeelCount(end, k) == IF k < 1 THEN end + k ELSE k

\* The loop has a value to keep, and it keeps whole steps.
PeelAccepts(end, stride, k) ==
  LET n == PeelCount(end, k)
  IN  (k < 1 => -k < end) /\ n <= end /\ n % stride = 0

\* unrollLoop: the number of copies of the body, and the index in each.
Copies(end, stride) == (end + stride - 1) \div stride

CopyIndex(i, stride) == (i - 1) * stride

\* vectorize, widen: the part of the loop that n divides; the rest is peeled.
WholePart(end, n) == end - (end % n)

\* widen: what is added to the index in the copies of a store.
WidenOffset(i, stride) == (i - 1) * stride

-----------------------------------------------------------------------------
(* Subscripts: getIndexAccessKind.                                         *)

\* The kind of a BinaryExpr with operands of the kinds L and R.  Mul falls through to Add.
AccessKindOfBin(op, L, R) ==
  IF L = "uniform" /\ R = "uniform" THEN "uniform"
  ELSE IF op \in {"mul", "add"} /\ "other" \notin {L, R} THEN "consecutive"
  ELSE "other"

-----------------------------------------------------------------------------
(* Ranges: computeKnownIntegerRange and getRangeRelation.                  *)

\* The last value of an index.
LastValue(end, stride) == end - stride

\* Fault: combines the first values and the last values only.
RangeOfEnds(op, L, R) == <<Arith(op, L[1], R[1]), Arith(op, L[2], R[2])>>

\* The range of a BinaryExpr with operands in the ranges L and R.
RangeOfBin(op, L, R) ==
  LET perm == {Arith(op, x, y) : x \in {L[1], L[2]}, y \in {R[1], R[2]}}
  IN  IF op \in {"min", "max"} THEN <<Min({L[1], R[1]}), Min({L[2], R[2]})>>
      ELSE <<Min(perm), Max(perm)>>

\* A is the range of an index, B the range of an IfRange.
getRangeRelation(A, B) ==
  IF A[1] >= B[1] /\ A[2] <= B[2] THEN "subset"
  ELSE IF A[2] <= B[1] THEN "disjoint" ELSE "intersect"

\* checkWeakSIVDependenceForIndex: the subscripts have no value in common.
RangesDisjoint(A, B) == A[2] < B[1] \/ B[2] < A[1]
=============================================================================
