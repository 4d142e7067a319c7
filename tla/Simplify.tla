------------------------------ MODULE Simplify -------------------------------
(***************************************************************************)
(* The cleanup of programs (lib/Transforms/Simplify.cpp): expressions are  *)
(* folded, empty loops removed, range checks decided, and loops that run   *)
(* once replaced by their body, until nothing changes.                     *)
(***************************************************************************)
EXTENDS Value

isConst(e) == e.k = "const"
isZero(e)  == e = Const(0)
isOne(e)   == e = Const(1)

\* The identities that simplifyExpr applies to an operator and its simplified
\* operands, with a constant operand already on the right.
FoldBin(op, l, r) ==
  CASE isConst(l) /\ isConst(r) -> Const(Arith(op, l.val, r.val))
    [] op = "mul" /\ ~(isConst(l) /\ isConst(r)) ->
         IF isZero(l) \/ isOne(r) THEN l ELSE IF isZero(r) \/ isOne(l) THEN r
         ELSE Bin(op, l, r)
    [] op = "add" /\ ~(isConst(l) /\ isConst(r)) ->
         IF isZero(l) THEN r ELSE IF isZero(r) THEN l ELSE Bin(op, l, r)
    [] OTHER -> Bin(op, l, r)

isCommutative(op) == op \in {"mul", "add", "max", "min"}

\* simplifyExpr rewrites the operators at the top of an expression; ExprSimplify
\* enters every load below and simplifies its subscripts (LoadsSimplified).
RECURSIVE simplifyExpr(_), LoadsSimplified(_)
simplifyExpr(e) ==
  IF e.k # "bin" THEN LoadsSimplified(e)
  ELSE LET SL == simplifyExpr(e.lhs)
           SR == simplifyExpr(e.rhs)
       IN  IF ~isConst(SR) /\ isConst(SL) /\ isCommutative(e.op)
           THEN FoldBin(e.op, SR, SL) ELSE FoldBin(e.op, SL, SR)
LoadsSimplified(e) ==
  CASE e.k = "load" -> [e EXCEPT !.ix = [i \in DOMAIN @ |-> simplifyExpr(@[i])]]
    [] e.k = "bcast" -> [e EXCEPT !.arg = LoadsSimplified(@)]
    [] e.k = "bin" -> [e EXCEPT !.lhs = LoadsSimplified(@), !.rhs = LoadsSimplified(@)]
    [] OTHER -> e

\* ExprSimplify, on every statement.
RECURSIVE SimplifyExprs(_)
SimplifyExprs(ss) ==
  LET One(s) ==
        CASE s.k = "store" -> [s EXCEPT !.ix = [i \in DOMAIN @ |-> simplifyExpr(@[i])],
                                        !.exp = simplifyExpr(@)]
          [] s.k = "storelocal" -> [s EXCEPT !.exp = simplifyExpr(@)]
          [] s.k = "if" -> [s EXCEPT !.idx = simplifyExpr(@), !.body = SimplifyExprs(@)]
          [] s.k = "loop" -> [s EXCEPT !.body = SimplifyExprs(@)]
  IN  [i \in DOMAIN ss |-> One(ss[i])]

\* removeEmptyLoops: the loops are visited from the outside in, so a loop that
\* becomes empty stays until the next round.
RECURSIVE removeEmptyLoops(_)
removeEmptyLoops(ss) ==
  LET One(s) == CASE s.k = "loop" /\ s.body = <<>> -> <<>>
                  [] IsScope(s) /\ s.body # <<>> -> <<[s EXCEPT !.body = removeEmptyLoops(@)]>>
                  [] OTHER -> <<s>>
  IN  FlattenSeq([i \in DOMAIN ss |-> One(ss[i])])

\* What is known of the range check s: "subset", "disjoint" or "intersect".
IfRelation(s, last) ==
  LET ir == computeKnownIntegerRange(s.idx, last)
  IN  IF ir = Unknown THEN "intersect" ELSE getRangeRelation(ir, <<s.lo, s.hi>>)

\* simplifyIfs: a range check that always holds is replaced by its body, one
\* that never holds is removed.
RECURSIVE simplifyIfs(_, _)
simplifyIfs(ss, last) ==
  LET One(s) ==
        CASE s.k = "loop" ->
               <<[s EXCEPT !.body = simplifyIfs(@, (s.id :> LastValue(s.end, s.stride)) @@ last)]>>
          [] s.k = "if" ->
               LET rel == IfRelation(s, last)
                   body == simplifyIfs(s.body, last)
               IN  IF rel = "subset" THEN body
                   ELSE IF rel = "disjoint" THEN <<>>
                   ELSE <<[s EXCEPT !.body = body]>>
          [] OTHER -> <<s>>
  IN  FlattenSeq([i \in DOMAIN ss |-> One(ss[i])])

\* removeTrip1Loops: a loop that runs once is replaced by its body.
RECURSIVE removeTrip1Loops(_)
removeTrip1Loops(ss) ==
  LET One(s) ==
        CASE s.k = "loop" /\ s.end = s.stride ->
               removeTrip1Loops(Rebase(s.body, s.id, s.id :> Const(0)))
          [] IsScope(s) /\ ~(s.k = "loop" /\ s.end = s.stride) ->
               <<[s EXCEPT !.body = removeTrip1Loops(@)]>>
          [] OTHER -> <<s>>
  IN  FlattenSeq([i \in DOMAIN ss |-> One(ss[i])])

\* simplify: rounds of the four, until a round changes nothing.
RECURSIVE simplify(_)
simplify(ss) ==
  LET new == removeTrip1Loops(simplifyIfs(removeEmptyLoops(SimplifyExprs(ss)), <<>>))
  IN  IF new = ss THEN ss ELSE simplify(new)

-----------------------------------------------------------------------------

\* The values that the expression e takes over the iterations of the loops in
\* "loops", a set of records with an id, an end and a stride.
RECURSIVE Values(_, _, _)
Values(e, loops, env) ==
  IF loops = {} THEN {Eval(e, env, InitialMemory)[1]}
  ELSE LET l == CHOOSE l \in loops : TRUE
       IN  UNION {Values(e, loops \ {l}, (l.id :> v) @@ env) :
                  v \in IndexValues(l.end, l.stride)}

\* The last values of the indices of the loops in "loops".
LastValues(loops) ==
  [l \in {s.id : s \in loops} |->
     LET s == CHOOSE s \in loops : s.id = l IN LastValue(s.end, s.stride)]

\* The subscripts in ss, each with the loops around it.
RECURSIVE SubscriptsIn(_, _)
SubscriptsIn(ss, loops) ==
  UNION {CASE s.k = "loop" -> SubscriptsIn(s.body, loops \union {s})
           [] s.k = "if" -> SubscriptsIn(s.body, loops)
           [] OTHER -> {[idx |-> e, loops |-> loops] :
                          e \in UNION {Range(x.ix) : x \in Loads(<<s>>) \union Stores(<<s>>)}}
         : s \in Range(ss)}

\* The range checks in ss, each with the loops around it.
RECURSIVE ChecksIn(_, _)
ChecksIn(ss, loops) ==
  UNION {CASE s.k = "loop" -> ChecksIn(s.body, loops \union {s})
           [] s.k = "if" -> {[check |-> s, loops |-> loops]} \union ChecksIn(s.body, loops)
           [] OTHER -> {} : s \in Range(ss)}
=============================================================================
