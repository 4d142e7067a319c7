-------------------------------- MODULE Static -------------------------------
(***************************************************************************)
(* The optimizer without search (optimizeStatic in                         *)
(* lib/Optimizer/Optimizer.cpp): heuristics that apply the transformations *)
(* to all of the loops, one heuristic after the other.                     *)
(*                                                                         *)
(* A heuristic collects pointers to loops and then changes the program.  A *)
(* pointer is the path of its loop here, so the paths of the loops that    *)
(* are still to be visited follow what is inserted around them.            *)
(***************************************************************************)
EXTENDS Transforms, Simplify

CONSTANTS
  TileSize,       \* tileSize of tryToTileForLocality (32 in the code)
  LocalityLoads   \* the loads below which it leaves loops alone (1 << 13)

ASSUME StaticAssumption == TileSize \in Nat \ {0} /\ LocalityLoads \in Nat

\* The program after a transformation, if it did anything.
Try(ss, results) == IF results = {} THEN ss ELSE CHOOSE new \in results : TRUE

\* The sequence of the images of the elements of seq.
Each(seq, f(_)) == FoldLeft(LAMBDA done, x : Append(done, f(x)), <<>>, seq)

collectInnermostLoops(ss) ==
  SelectSeq(LoopPaths(ss), LAMBDA p : isInnermostLoop(At(ss, p)))

-----------------------------------------------------------------------------
(* sinkLoopsForConsecutiveIndexAccess.                                     *)

\* The loops whose index alone is the last subscript of an access in the loop at
\* p.  collectLastIndexForAllIndices returns the loop when there is only one.
LastIndices(ss, p) ==
  {e.loop : e \in {x \in {Last(a.ix) : a \in Loads(<<At(ss, p)>>) \union
                                             Stores(<<At(ss, p)>>)} : x.k = "index"}}

\* The path of the loop with identity l around, or at, the path p.
PathOfLoop(ss, p, l) ==
  CHOOSE q \in Range(LoopPaths(ss)) : IsPrefix(q, p) /\ At(ss, q).id = l

SinkLast(ss, p) ==
  LET last == LastIndices(ss, p)
  IN  IF Cardinality(last) # 1 THEN ss
      ELSE Try(ss, sink(ss, PathOfLoop(ss, p, CHOOSE l \in last : TRUE), 8))

\* Sinking passes through loops that hold a single loop: the paths of the other
\* innermost loops stay.
sinkLoopsForConsecutiveIndexAccess(ss) ==
  FoldLeft(SinkLast, ss, collectInnermostLoops(ss))

-----------------------------------------------------------------------------
(* tryToFuseAllShallowLoops.                                               *)

collectArgsUsed(s) == {x.buf : x \in Loads(<<s>>) \union Stores(<<s>>)}

\* The loops L and M share at least half of the buffers.
ShareBuffers(L, M) ==
  LET b1 == collectArgsUsed(L)
      b2 == collectArgsUsed(M)
  IN  Cardinality(b1 \intersect b2) >= Max({Cardinality(b1), Cardinality(b2)}) \div 2

\* getNextStmt is a loop.
HasNextLoop(ss, p) ==
  LET body == BodyAt(ss, Front(p))
  IN  Last(p) < Len(body) /\ body[Last(p) + 1].k = "loop"

\* The first loop that is fused: the scan ends at the first loop that no loop
\* follows, also when loops further on could be fused.
Fusable(ss, p) ==
  ShareBuffers(At(ss, p), BodyAt(ss, Front(p))[Last(p) + 1]) /\ CanFuse(ss, p)

RECURSIVE tryToFuseAllShallowLoops(_)
tryToFuseAllShallowLoops(ss) ==
  LET ps == LoopPaths(ss)
      scanned == {i \in DOMAIN ps : \A j \in 1..i : HasNextLoop(ss, ps[j])}
      found == {i \in scanned : Fusable(ss, ps[i])}
  IN  IF found = {} THEN ss
      ELSE tryToFuseAllShallowLoops(simplify(Try(ss, fuse(ss, ps[Min(found)]))))

-----------------------------------------------------------------------------
(* tryToVectorizeAllLoops.                                                 *)

\* The path q after n statements were inserted behind the one at p.
Moved(q, p, n) ==
  IF Len(q) >= Len(p) /\ IsPrefix(Front(p), q) /\ q[Len(p)] > Last(p)
  THEN [q EXCEPT ![Len(p)] = @ + n] ELSE q

RECURSIVE VectorizeLoops(_, _, _)
VectorizeLoops(ss, ps, vf) ==
  IF ps = <<>> THEN ss
  ELSE LET p == Head(ps)
           new == Try(ss, vectorize(ss, p, vf))
           n == Len(BodyAt(new, Front(p))) - Len(BodyAt(ss, Front(p)))
           rest == Each(Tail(ps), LAMBDA q : Moved(q, p, n))
       IN  VectorizeLoops(new, rest, vf)

tryToVectorizeAllLoops(ss, vf) == VectorizeLoops(ss, LoopPaths(ss), vf)

-----------------------------------------------------------------------------
(* tryToTileForLocality.                                                   *)

\* getAccessedMemoryForSubscript: the elements that the subscripts ix range over.
AccessedMemory(ix, last) ==
  LET r(i) == computeKnownIntegerRange(ix[i], last)
  IN  IF \E i \in DOMAIN ix : r(i) = Unknown THEN 0
      ELSE FoldLeft(LAMBDA n, i : n * (r(i)[2] - r(i)[1] + 1), 1, [i \in DOMAIN ix |-> i])

\* The sum over all loads in the expressions and statements xs, last as in
\* module Value, with the loops that are not live fixed to zero.
RECURSIVE SumLoads(_, _)
SumLoads(xs, last) ==
  FoldLeft(LAMBDA n, x :
             n + (IF x.k = "load" THEN AccessedMemory(x.ix, last) ELSE 0)
               + SumLoads(Operands(x), last)
               + (CASE x.k = "loop" ->
                         SumLoads(x.body, (x.id :> LastValue(x.end, x.stride)) @@ last)
                    [] x.k = "if" -> SumLoads(x.body, last)
                    [] OTHER -> 0),
           0, xs)

getNumLoadsInLoop(L) == SumLoads(<<L>>, [l \in 0..L.id |-> 0])

\* The paths of the loops around the path p, the nearest last.
Containing(ss, p) ==
  SelectSeq(LoopPaths(ss), LAMBDA q : IsPrefix(q, p) /\ q # p)

WorthTiling(ss, top, inner) ==
  /\ getNumLoadsInLoop(At(ss, top)) >= LocalityLoads
  /\ At(ss, top).end >= TileSize /\ At(ss, inner).end >= TileSize
  /\ Cardinality(LastIndices(ss, top)) # 1

\* The path q inside the loop at p after n scopes were put around its content.
Deeper(q, p, n) ==
  IF IsPrefix(p, q) /\ p # q
  THEN p \o [i \in 1..n |-> 1] \o SubSeq(q, Len(p) + 1, Len(q)) ELSE q

\* The scopes that tile puts around the content of L: a loop, and a range check
\* when the last block is partial.
NumScopes(L) == IF L.end % TileSize # 0 THEN 2 ELSE 1

RECURSIVE TileLoops(_, _)
TileLoops(ss, ps) ==
  IF ps = <<>> THEN ss
  ELSE LET inner == Head(ps)
           tops == Containing(ss, inner)
           top == Last(tops)
           t1 == tile(ss, inner, TileSize)
           ss1 == Try(ss, t1)
           t2 == tile(ss1, top, TileSize)
           n == IF t2 = {} THEN 0 ELSE NumScopes(At(ss1, top))
           new == Try(ss1, t2)
           ps2 == Each(ps, LAMBDA q : Deeper(q, top, n))
       IN  IF tops = <<>> \/ ~WorthTiling(ss, top, inner) THEN TileLoops(ss, Tail(ps))
           ELSE IF t1 \union t2 = {} THEN TileLoops(ss, Tail(ps))
           ELSE TileLoops(Try(new, hoist(new, ps2[1], 1)), Tail(ps2))

tryToTileForLocality(ss) == TileLoops(ss, collectInnermostLoops(ss))

-----------------------------------------------------------------------------

\* optimizeStatic, for a machine with vectors of vf lanes.
optimizeStatic(ss, vf) ==
  LET distributed == simplify(Try(ss, distributeAllLoops(ss, <<>>)))
      fused == tryToFuseAllShallowLoops(sinkLoopsForConsecutiveIndexAccess(distributed))
      tiled == tryToTileForLocality(tryToVectorizeAllLoops(fused, vf))
  IN  simplify(promoteLICM(simplify(tiled)))
=============================================================================
