------------------------------- MODULE Value --------------------------------
(***************************************************************************)
(* The analyses that the transformations rest on (lib/Analysis/Value.cpp   *)
(* and lib/Transforms/Dependence.cpp).                                     *)
(*                                                                         *)
(* The functions of the code find the loop of an index expression by       *)
(* following a pointer; here "last" gives, for every loop around the       *)
(* analysed code, the last value its index takes.                          *)
(***************************************************************************)
EXTENDS Program

-----------------------------------------------------------------------------
(* getIndexAccessKind.                                                     *)

RECURSIVE getIndexAccessKind(_, _)
getIndexAccessKind(e, l) ==
  IF e.k = "index" THEN IF e.loop = l THEN "consecutive" ELSE "uniform"
  ELSE IF e.k = "const" THEN "uniform"
  ELSE IF e.k # "bin" THEN "other"
  ELSE AccessKindOfBin(e.op, getIndexAccessKind(e.lhs, l), getIndexAccessKind(e.rhs, l))

-----------------------------------------------------------------------------
(* computeKnownIntegerRange.                                               *)

Unknown == <<>>

\* The assertion "invalid range" stopped the compiler.
Aborted == <<"invalid range">>

\* The least and the greatest value of e, or Unknown, or Aborted: an index of a loop
\* that is shorter than its stride has no range.  The left operand comes first.
RECURSIVE computeKnownIntegerRange(_, _)
computeKnownIntegerRange(e, last) ==
  CASE e.k = "const" -> <<e.val, e.val>>
    [] e.k = "index" -> IF last[e.loop] < 0 THEN Aborted ELSE <<0, last[e.loop]>>
    [] e.k = "bin" ->
         LET L == computeKnownIntegerRange(e.lhs, last)
             R == computeKnownIntegerRange(e.rhs, last)
         IN  IF L \in {Unknown, Aborted} THEN L
             ELSE IF R \in {Unknown, Aborted} THEN R
             ELSE RangeOfBin(e.op, L, R)
    [] OTHER -> Unknown

-----------------------------------------------------------------------------
(* Loads, stores and locals of a piece of code.                            *)

Loads(ss)  == {e \in AllExprs(ss) : e.k = "load"}
Stores(ss) == {s \in AllStmts(ss) : s.k = "store"}

\* VarUsageCollector.
VarsRead(ss)  == {e.var : e \in {x \in AllExprs(ss) : x.k = "local"}}
VarsWrite(ss) == {s.var : s \in {x \in AllStmts(ss) : x.k = "storelocal"}}

\* areLoadsStoresDisjoint, for the loads and stores of ss.
areLoadsStoresDisjoint(ss) ==
  {e.buf : e \in Loads(ss)} \intersect {s.buf : s \in Stores(ss)} = {}

isInnermostLoop(s) == \A t \in Range(s.body) : ~IsScope(t)

\* StorageUsageCollector: the accesses in ss, each with the last values of the
\* loops around it.
Access(isWrite, x, last) ==
  [write |-> isWrite, buf |-> x.buf, ix |-> x.ix, last |-> last]

RECURSIVE Accesses(_, _)
Accesses(ss, last) ==
  UNION {{Access(TRUE, s, last) : s \in {t \in {ss[i]} : t.k = "store"}} \union
         {Access(FALSE, e, last) : e \in {x \in SubExprs(ss[i]) : x.k = "load"}} \union
         (CASE ss[i].k = "loop" ->
                 Accesses(ss[i].body, (ss[i].id :> LastValue(ss[i].end, ss[i].stride)) @@ last)
            [] ss[i].k = "if" -> Accesses(ss[i].body, last)
            [] OTHER -> {}) : i \in DOMAIN ss}

\* The last values of the loops around the statement at a path.
RECURSIVE LastAround(_, _)
LastAround(ss, path) ==
  IF Len(path) <= 1 THEN <<>>
  ELSE LET s == ss[path[1]]
       IN  LastAround(s.body, Tail(path)) @@
           (IF s.k = "loop" THEN s.id :> LastValue(s.end, s.stride) ELSE <<>>)

-----------------------------------------------------------------------------
(* checkWeakSIVDependenceForIndex, for two accesses, one in each of two     *)
(* loops with identity l: "none", "equals" or "some".                       *)

\* Fault: a subscript i+1 counts as a reference to i.
SubscriptAllowedNear(x, y, l, last1, last2) ==
  DependsOn(x, l) = DependsOn(y, l)

\* The subscripts x and y at one position leave the two accesses independent or
\* equal in every iteration.
SubscriptAllowed(x, y, l, last1, last2) ==
  LET r1 == computeKnownIntegerRange(x, last1)
      r2 == computeKnownIntegerRange(y, last2)
  IN  \/ x = Index(l) /\ y = Index(l)
      \/ Unknown \notin {r1, r2} /\ RangesDisjoint(r1, r2)
      \/ ~DependsOn(x, l) /\ ~DependsOn(y, l)

depends(a, b, l) ==
  IF a.buf # b.buf THEN "none"
  ELSE IF \A i \in DOMAIN a.ix : SubscriptAllowed(a.ix[i], b.ix[i], l, a.last, b.last)
       THEN "equals" ELSE "some"
=============================================================================
