----------------------------- MODULE Transforms ------------------------------
(***************************************************************************)
(* The loop transformations (lib/Transforms/Transforms.cpp) on program     *)
(* terms.  Each takes the program ss, the path p of the loop and the       *)
(* parameter of the command, and returns the set of resulting programs:    *)
(* one program, or none when the function returns nullptr or false and     *)
(* leaves the program alone.                                               *)
(***************************************************************************)
EXTENDS Value

\* The set {new}, unless some early return was taken.
OnlyIf(guard, new) == IF guard THEN {new} ELSE {}

-----------------------------------------------------------------------------
(* Restructuring one loop: tile, peelLoop, unrollLoop, widen.              *)

\* tile: the loop counts blocks, a new loop inside it counts within a block,
\* and a range check guards the last block when it is partial.
Tiled(L, bs) ==
  LET body == IF NeedRangeCheck(L.end, bs)
              THEN <<If(Index(L.id), 0, L.end, L.body)>> ELSE L.body
      combined == Bin("add", Index(L.id + 1), Bin("mul", Index(L.id), Const(bs)))
  IN  Loop(L.id, Blocks(L.end, bs), 1,
           <<Loop(L.id + 1, bs, L.stride, Rebase(body, L.id + 2, L.id :> combined))>>)

tile(ss, p, bs) ==
  LET L == At(ss, p)
  IN  OnlyIf(TileAccepts(L.end, L.stride, bs), Splice(ss, p, 1, <<Tiled(L, bs)>>))

\* Fault: the loop is not shortened.
PeeledTwice(L, k) ==
  <<L, Loop(L.id, L.end - k, L.stride,
            Rebase(L.body, L.id + 1, L.id :> Bin("add", Const(k), Index(L.id))))>>

\* peelLoop: the loop keeps its first k values, a copy of it after the loop
\* takes the others.
Peeled(L, k) ==
  LET shifted == Bin("add", Const(k), Index(L.id))
  IN  <<[L EXCEPT !.end = k],
        Loop(L.id, L.end - k, L.stride, Rebase(L.body, L.id + 1, L.id :> shifted))>>

peelLoop(ss, p, k) ==
  LET L == At(ss, p)
  IN  OnlyIf(PeelAccepts(L.end, L.stride, k),
             Splice(ss, p, 1, Peeled(L, PeelCount(L.end, k))))

\* unrollLoop: one copy of the body for every value of the index.
unrollLoop(ss, p, maxTripCount) ==
  LET L == At(ss, p)
      copies == [i \in 1..Copies(L.end, L.stride) |->
                   Rebase(L.body, L.id, L.id :> Const(CopyIndex(i, L.stride)))]
  IN  OnlyIf(L.end <= maxTripCount, Splice(ss, p, 1, FlattenSeq(copies)))

\* collectStoreSites: the uses of the index of L are all inside stores.
UsedInStoresOnly(L) ==
  \A s \in AllStmts(L.body) : DependsOn(s, L.id) => s.k = "store"

\* Fault: the iterations that are left over are not peeled.
WithoutTail(L, n) == <<L>>

\* Fault: peelLoop is told to keep n iterations, not as many as n divides.
WithLongTail(L, n) ==
  IF L.end % n = 0 THEN <<L>> ELSE Peeled(L, n)

\* The leading part of L whose trip count n divides, followed by the tail that
\* peelLoop leaves, if any.
WithTail(L, n) ==
  IF L.end % n = 0 THEN <<L>> ELSE Peeled(L, WholePart(L.end, n))

\* widenStore: S, then a copy of S for each of the next wf - 1 iterations.
WidenStore(s, L, wf) ==
  [i \in 1..wf |->
     IF i = 1 THEN s
     ELSE SubstStmt(s, L.id :> Bin("add", Index(L.id), Const(WidenOffset(i, L.stride))))]

RECURSIVE WidenStores(_, _, _)
WidenStores(ss, L, wf) ==
  LET One(s) ==
        CASE IsScope(s) -> <<[s EXCEPT !.body = WidenStores(@, L, wf)]>>
          [] ~IsScope(s) /\ DependsOn(s, L.id) -> WidenStore(s, L, wf)
          [] OTHER -> <<s>>
  IN  FlattenSeq([i \in DOMAIN ss |-> One(ss[i])])

widen(ss, p, wf) ==
  LET L == At(ss, p)
      newStride == L.stride * wf
      parts == WithTail(L, newStride)
      wide == [parts[1] EXCEPT !.stride = newStride, !.body = WidenStores(@, L, wf)]
  IN  OnlyIf(/\ VarsRead(L.body) \union VarsWrite(L.body) = {}
             /\ L.end >= newStride
             /\ UsedInStoresOnly(L),
             Splice(ss, p, 1, <<wide>> \o Tail(parts)))

-----------------------------------------------------------------------------
(* vectorize.                                                              *)

\* The subscripts allow vector accesses in loop l.
mayVectorizeLoadStoreAccess(ix, l) ==
  \A i \in DOMAIN ix :
    getIndexAccessKind(ix[i], l) \in
      (IF i = Len(ix) THEN {"consecutive", "uniform"} ELSE {"uniform"})

mayVectorizeStore(s, l) ==
  /\ Width(s.exp) = 1
  /\ \A e \in SubExprs(s.exp) : e.k = "load" => mayVectorizeLoadStoreAccess(e.ix, l)
  /\ mayVectorizeLoadStoreAccess(s.ix, l)

\* The expression e as vf lanes, if it is not a vector already.
AsVector(e, vf) == IF Width(e) = 1 THEN Broadcast(e, vf) ELSE e

\* vectorizeExpr: the loads that read index l become vector loads; what is
\* combined with a vector is broadcast.
RECURSIVE vectorizeExpr(_, _, _)
vectorizeExpr(e, l, vf) ==
  CASE e.k = "bin" ->
         LET VL == vectorizeExpr(e.lhs, l, vf)
             VR == vectorizeExpr(e.rhs, l, vf)
         IN  IF Width(VL) = Width(VR) THEN Bin(e.op, VL, VR)
             ELSE Bin(e.op, AsVector(VL, vf), AsVector(VR, vf))
    [] e.k = "load" -> IF DependsOn(e, l) THEN [e EXCEPT !.w = vf] ELSE e
    [] OTHER -> e

\* vectorizeStore, on every store that uses index l.
RECURSIVE VectorizeStores(_, _, _)
VectorizeStores(ss, l, vf) ==
  LET One(s) ==
        CASE IsScope(s) -> [s EXCEPT !.body = VectorizeStores(@, l, vf)]
          [] ~IsScope(s) /\ DependsOn(s, l) ->
               [s EXCEPT !.exp = AsVector(vectorizeExpr(@, l, vf), vf)]
          [] OTHER -> s
  IN  [i \in DOMAIN ss |-> One(ss[i])]

vectorize(ss, p, vf) ==
  LET L == At(ss, p)
      parts == WithTail(L, vf)
      vec == [parts[1] EXCEPT !.stride = vf, !.body = VectorizeStores(@, L.id, vf)]
  IN  OnlyIf(/\ L.end >= vf /\ L.stride = 1
             /\ \A s \in AllStmts(L.body) : s.k \in {"store", "if", "loop"}
             /\ UsedInStoresOnly(L)
             /\ \A s \in Stores(L.body) : DependsOn(s, L.id) => mayVectorizeStore(s, L.id),
             Splice(ss, p, 1, <<vec>> \o Tail(parts)))

-----------------------------------------------------------------------------
(* Exchanging a loop with the scope around it: hoist and sink.             *)

\* The scope P, whose only statement is the loop L, and L exchanged.
Exchanged(P, L) ==
  IF P.k = "if" THEN [L EXCEPT !.body = <<[P EXCEPT !.body = L.body]>>]
  ELSE LET swap == (P.id :> Index(L.id)) @@ (L.id :> Index(P.id))
       IN  Loop(P.id, L.end, L.stride,
                <<Loop(L.id, P.end, P.stride, Rebase(L.body, L.id + 1, swap))>>)

CanHoist(ss, p) == Len(p) > 1 /\ Len(At(ss, Front(p)).body) = 1

HoistOnce(ss, p) ==
  Splice(ss, Front(p), 1, <<Exchanged(At(ss, Front(p)), At(ss, p))>>)

\* The program after as many of the levels as possible.
RECURSIVE HoistBy(_, _, _)
HoistBy(ss, p, levels) ==
  IF levels = 0 \/ ~CanHoist(ss, p) THEN ss
  ELSE HoistBy(HoistOnce(ss, p), Front(p), levels - 1)

hoist(ss, p, levels) ==
  OnlyIf(levels > 0 /\ CanHoist(ss, p), HoistBy(ss, p, levels))

\* The only statement in the loop at p is a loop.
CanSink(ss, p) == LET b == At(ss, p).body IN Len(b) = 1 /\ b[1].k = "loop"

RECURSIVE SinkBy(_, _, _)
SinkBy(ss, p, levels) ==
  IF levels = 0 \/ ~CanSink(ss, p) THEN ss
  ELSE SinkBy(HoistOnce(ss, Append(p, 1)), Append(p, 1), levels - 1)

sink(ss, p, levels) ==
  OnlyIf(levels > 0 /\ CanSink(ss, p), SinkBy(ss, p, levels))

-----------------------------------------------------------------------------
(* Dividing loops: split, splitScopes, distributeAllLoops.                 *)

\* One copy of the loop at p for each packet of statements.
Divide(ss, p, packets) ==
  Splice(ss, p, 1, [i \in DOMAIN packets |-> [At(ss, p) EXCEPT !.body = packets[i]]])

split(ss, p) ==
  LET body == At(ss, p).body
  IN  OnlyIf(Len(body) >= 2, Divide(ss, p, [i \in DOMAIN body |-> <<body[i]>>]))

\* Scopes are in packets of their own, other statements stay together.
Packets(body) ==
  LET Add(ps, s) ==
        IF IsScope(s) \/ ps = <<>> \/ IsScope(Head(Last(ps)))
        THEN Append(ps, <<s>>) ELSE Append(Front(ps), Append(Last(ps), s))
  IN  FoldLeft(Add, <<>>, body)

CanSplitScopes(ss, p) == Len(Packets(At(ss, p).body)) >= 2

\* The paths of the loops in the scope at q, with the scope itself, if it is a
\* loop, that splitScopes would divide.
Divisible(ss, q) ==
  SelectSeq(LoopPaths(ss), LAMBDA p : IsPrefix(q, p) /\ CanSplitScopes(ss, p))

\* The loop at p divided by splitScopes.
SplitScopes(ss, p) == Divide(ss, p, Packets(At(ss, p).body))

\* Fault: does not start again after a loop was divided.
DistributeOnce(ss, q) ==
  LET todo == Divisible(ss, q)
  IN  IF todo = <<>> THEN ss ELSE SplitScopes(ss, todo[1])

\* distributeAllLoops on the scope at q: divides the first divisible loop and
\* starts again, until there is none.
RECURSIVE DistributeIn(_, _)
DistributeIn(ss, q) ==
  LET todo == Divisible(ss, q)
  IN  IF todo = <<>> THEN ss ELSE DistributeIn(SplitScopes(ss, todo[1]), q)

\* Dividing the loop at q itself detaches it: the restart divides the detached
\* loop again and inserts the copies into a parent that is null.  This may happen
\* at once, or after a loop inside was divided and q holds two scopes.
RECURSIVE DistributeDetaches(_, _)
DistributeDetaches(ss, q) ==
  LET todo == Divisible(ss, q)
  IN  /\ q # <<>> /\ todo # <<>>
      /\ todo[1] = q \/ DistributeDetaches(SplitScopes(ss, todo[1]), q)

distributeAllLoops(ss, q) ==
  OnlyIf(Divisible(ss, q) # <<>> /\ ~DistributeDetaches(ss, q), DistributeIn(ss, q))

-----------------------------------------------------------------------------
(* fuse.                                                                   *)

\* The loops L and M, one after the other in the program, may be fused.
NoDependence(L, M, last) ==
  LET A1 == Accesses(<<L>>, last)
      A2 == Accesses(<<M>>, last)
  IN  /\ VarsWrite(L.body) \intersect (VarsWrite(M.body) \union VarsRead(M.body)) = {}
      /\ VarsRead(L.body) \intersect VarsWrite(M.body) = {}
      /\ \A a \in A1, b \in A2 : (a.write \/ b.write) => depends(a, b, L.id) # "some"

CanFuse(ss, p) ==
  LET body == BodyAt(ss, Front(p))
      L == At(ss, p)
      M == body[Last(p) + 1]
  IN  /\ L.k = "loop" /\ Last(p) < Len(body) /\ M.k = "loop"
      /\ L.end = M.end /\ L.stride = M.stride
      /\ NoDependence(L, M, LastAround(ss, p))

\* The loop at p takes the content of the next one; then the first of its child
\* loops that can be fused is.
RECURSIVE Fused(_, _)
Fused(ss, p) ==
  LET L == At(ss, p)
      M == BodyAt(ss, Front(p))[Last(p) + 1]
      new == Splice(ss, p, 2, <<[L EXCEPT !.body = @ \o M.body]>>)
      inner == {i \in DOMAIN (L.body \o M.body) : CanFuse(new, Append(p, i))}
  IN  IF inner = {} THEN new ELSE Fused(new, Append(p, Min(inner)))

fuse(ss, p) == OnlyIf(CanFuse(ss, p), Fused(ss, p))

-----------------------------------------------------------------------------
(* promoteLICM: hoistLoads and sinkStores.                                 *)

\* Both functions leave other loops alone.
CanPromote(L) ==
  /\ areLoadsStoresDisjoint(L.body)
  /\ \A s \in Range(L.body) : s.k = "store"

\* The number of locals in the program (addTempVar finds a name not in use).
NumVars(ss) == Max({0} \union VarsRead(ss) \union VarsWrite(ss))

\* e with the loads in DOMAIN var read from locals.
RECURSIVE ReplaceLoads(_, _)
ReplaceLoads(e, var) ==
  CASE e \in DOMAIN var -> Local(var[e], e.w)
    [] e.k = "bin" -> [e EXCEPT !.lhs = ReplaceLoads(@, var), !.rhs = ReplaceLoads(@, var)]
    [] e.k = "bcast" -> [e EXCEPT !.arg = ReplaceLoads(@, var)]
    [] OTHER -> e

\* Fault: hoists the loads that depend on L as well.
hoistAllLoads(L, n) ==
  LET loads == FoldSet(LAMBDA e, seq : Append(seq, e), <<>>, Loads(L.body))
      var == [e \in Range(loads) |-> n + CHOOSE i \in DOMAIN loads : loads[i] = e]
  IN  [i \in DOMAIN loads |-> StoreLocal(n + i, loads[i], FALSE)] \o
      <<[L EXCEPT !.body = [i \in DOMAIN @ |->
            [@[i] EXCEPT !.exp = ReplaceLoads(@, var)]]]>>

\* hoistLoads: the loads that do not depend on L go to locals before L.  Equal
\* loads share a local here; the code gives each its own, with the same value.
hoistLoads(L, n) ==
  LET loads == FoldSet(LAMBDA e, seq : Append(seq, e), <<>>,
                       {e \in Loads(L.body) : ~DependsOn(e, L.id)})
      var == [e \in Range(loads) |-> n + CHOOSE i \in DOMAIN loads : loads[i] = e]
  IN  [i \in DOMAIN loads |-> StoreLocal(n + i, loads[i], FALSE)] \o
      <<[L EXCEPT !.body = [i \in DOMAIN @ |->
            [@[i] EXCEPT !.exp = ReplaceLoads(@, var)]]]>>

\* getZeroExpr
getZeroExpr(w) == IF w = 1 THEN Const(0) ELSE Broadcast(Const(0), w)

\* sinkStores: a store whose subscripts do not depend on L goes to a local that
\* is cleared before L and flushed after it, the last of the stores first.
sinkStores(L, n) ==
  LET Sunk(s) == \A i \in DOMAIN s.ix : ~DependsOn(s.ix[i], L.id)
      sunk == SelectSeq([i \in DOMAIN L.body |-> i], LAMBDA i : Sunk(L.body[i]))
      s(j) == L.body[sunk[j]]
      w(j) == Width(s(j).exp)
      var(i) == n + CHOOSE j \in DOMAIN sunk : sunk[j] = i
  IN  [j \in DOMAIN sunk |-> StoreLocal(n + j, getZeroExpr(w(j)), FALSE)] \o
      <<[L EXCEPT !.body = [i \in DOMAIN @ |->
            IF Sunk(@[i]) THEN StoreLocal(var(i), @[i].exp, @[i].acc) ELSE @[i]]]>> \o
      Reverse([j \in DOMAIN sunk |->
                 Store(s(j).buf, s(j).ix, Local(n + j, w(j)), s(j).acc)])

PromoteLoop(ss, p) ==
  LET L == At(ss, p)
      hoisted == hoistLoads(L, NumVars(ss))
      sunk == sinkStores(Last(hoisted), NumVars(ss) + Len(hoisted) - 1)
  IN  IF CanPromote(L) THEN Splice(ss, p, 1, Front(hoisted) \o sunk) ELSE ss

\* Every loop of the program, the last one first so that paths stay valid: what
\* is done to one loop does not depend on the others.
promoteLICM(ss) == FoldLeft(PromoteLoop, ss, Reverse(LoopPaths(ss)))
=============================================================================
