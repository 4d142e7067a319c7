------------------------------ MODULE Bytecode -------------------------------
(***************************************************************************)
(* The binary form of programs (lib/Bytecode/Bytecode.cpp): bistrac and    *)
(* the evaluator of the optimizer save programs in it, and bistrac loads   *)
(* them.                                                                   *)
(*                                                                         *)
(* The stream is the sequence of the written numbers and token kinds.      *)
(* Expressions come first, operands before their users, then the           *)
(* statements from the outside in; both refer to each other by ids.  The   *)
(* tables of strings, types and arguments are not modelled: an entry       *)
(* stands for itself.  Of the table of variables the types remain.         *)
(***************************************************************************)
EXTENDS Program

\* Bound: numbers of TLC have 32 bits, so a word of the model has 30.
WordSize == 2^30

\* StreamWriter::write.
U32(n) == n % WordSize
U8(n)  == n % 256

-----------------------------------------------------------------------------
(* Writing.  The writer has the stream, the number of expressions written  *)
(* (the ids of exprTable_), the statements that have an id (stmtTable_,    *)
(* where a statement is its path and the program is the first), and the    *)
(* ids of the operands of each statement so far.                           *)

\* IdTable::getIdFor, as the table after the call and the id.
WithId(table, x) == IF x \in Range(table) THEN table ELSE Append(table, x)
IdOf(table, x)   == (CHOOSE i \in DOMAIN table : table[i] = x) - 1

\* One expression: its kind, its id, and the fields.
WriteExpr(w, kind, fields) ==
  [w EXCEPT !.out = @ \o <<kind, U32(w.exprs)>> \o fields, !.exprs = @ + 1]
LastExpr(w) == w.exprs - 1

\* serialize(Expr) in the order of collectExprs.  loopAt gives the loops around e
\* by their path.
RECURSIVE serializeExpr(_, _, _), serializeGEP(_, _, _, _)
serializeExpr(w, e, loopAt) ==
  LET Ser(v, x) == serializeExpr(v, x, loopAt)
  IN  CASE e.k = "const" -> WriteExpr(w, "ConstantExprKind", <<U32(e.val)>>)
        [] e.k = "index" ->
             LET v == [w EXCEPT !.stmts = WithId(@, loopAt[e.loop])]
             IN  WriteExpr(v, "IndexExprKind", <<U32(IdOf(v.stmts, loopAt[e.loop]))>>)
        [] e.k = "bin" ->
             LET l == Ser(w, e.lhs)
                 r == Ser(l, e.rhs)
             IN  WriteExpr(r, "BinaryExprKind", <<e.op, LastExpr(l), LastExpr(r)>>)
        [] e.k = "load" ->
             LET g == serializeGEP(w, e.buf, e.ix, loopAt)
             IN  WriteExpr(g, "LoadExprKind", <<U8(e.w), LastExpr(g)>>)
        [] e.k = "local" -> WriteExpr(w, "LoadLocalExprKind", <<e.var>>)
        [] e.k = "bcast" ->
             LET v == Ser(w, e.arg)
             IN  WriteExpr(v, "BroadcastExprKind", <<LastExpr(v), U8(e.w)>>)
serializeGEP(w, buf, ix, loopAt) ==
  LET Next(acc, x) == LET v == serializeExpr(acc.w, x, loopAt)
                      IN  [w |-> v, ids |-> Append(acc.ids, LastExpr(v))]
      all == FoldLeft(Next, [w |-> w, ids |-> <<>>], ix)
  IN  WriteExpr(all.w, "GEPExprKind", <<buf, U32(Len(ix))>> \o all.ids)

\* The statements in the order in which collectExprs and collectStmts visit them,
\* each with its path and with the paths of the loops around it.
RECURSIVE Sites(_, _, _)
Sites(ss, path, loopAt) ==
  LET One(s, p) ==
        <<[stmt |-> s, path |-> p, loopAt |-> loopAt]>> \o
        (CASE s.k = "loop" -> Sites(s.body, p, (s.id :> p) @@ loopAt)
           [] s.k = "if" -> Sites(s.body, p, loopAt)
           [] OTHER -> <<>>)
  IN  FlattenSeq([i \in DOMAIN ss |-> One(ss[i], Append(path, i))])

\* The value of the statement s, after its address (g); the ids of both are kept.
ValueWritten(g, s, loopAt) ==
  LET e == CASE s.k = "loop" -> g
             [] s.k = "if" -> serializeExpr(g, s.idx, loopAt)
             [] OTHER -> serializeExpr(g, s.exp, loopAt)
  IN  [e EXCEPT !.operands = Append(@, [gep |-> LastExpr(g), val |-> LastExpr(e)])]

\* The expressions of the statement s.
OperandsWritten(w, s, loopAt) ==
  ValueWritten(IF s.k = "store" THEN serializeGEP(w, s.buf, s.ix, loopAt) ELSE w, s, loopAt)

\* serialize(Expr) on the expressions of the statements that are left.
RECURSIVE ExprsWritten(_, _)
ExprsWritten(w, sites) ==
  LET n == Len(w.operands) + 1
  IN  IF n > Len(sites) THEN w
      ELSE ExprsWritten(OperandsWritten(w, sites[n].stmt, sites[n].loopAt), sites)


\* The fields of a Loop and of an IfRange, whose end is written as its start.
LoopFields(s)       == <<U32(s.end), U32(s.stride)>>
IfRangeFields(s, o) == <<o.val, U32(s.lo), U32(s.lo)>>

StmtFields(s, o) ==
  CASE s.k = "loop"  -> LoopFields(s)
    [] s.k = "if"    -> IfRangeFields(s, o)
    [] s.k = "store" -> <<U8(IF s.acc THEN 1 ELSE 0), o.val, o.gep>>
    [] s.k = "storelocal" -> <<s.var, U8(IF s.acc THEN 1 ELSE 0), o.val>>

StmtKind(s) ==
  CASE s.k = "loop"  -> "LoopKind"
    [] s.k = "if"    -> "IfRangeKind"
    [] s.k = "store" -> "StoreStmtKind"
    [] s.k = "storelocal" -> "StoreLocalStmtKind"

\* serialize(Stmt) on the statements: the kind, the id, the id of the parent, and the
\* fields.
StmtsWritten(w, sites) ==
  LET One(v, i) ==
        LET s == sites[i].stmt
            p == sites[i].path
            t == WithId(v.stmts, p)
        IN  [v EXCEPT !.stmts = t,
                      !.out = @ \o <<StmtKind(s), U32(IdOf(t, p)), U32(IdOf(t, Front(p)))>> \o
                              StmtFields(s, v.operands[i])]
  IN  FoldLeft(One, w, [i \in DOMAIN sites |-> i])

\* The declared types of the variables: their widths.
VarTable(ss) ==
  LET reads  == {e \in AllExprs(ss) : e.k = "local"}
      writes == {s \in AllStmts(ss) : s.k = "storelocal"}
      Widths(x) == {e.w : e \in {r \in reads : r.var = x}} \union
                   {Width(s.exp) : s \in {t \in writes : t.var = x}}
  IN  [x \in {e.var : e \in reads} \union {s.var : s \in writes} |->
         U8(CHOOSE n \in Widths(x) : TRUE)]

\* The stream, after the expressions were written (e).
Stream(e, ss, sites) ==
  LET s == StmtsWritten([e EXCEPT !.out = <<>>], sites)
  IN  [vars |-> VarTable(ss),
       body |-> <<U32(e.exprs)>> \o e.out \o <<U32(Len(sites))>> \o s.out]

\* Bytecode::serialize.
serialize(ss) ==
  LET w == [out |-> <<>>, exprs |-> 0, stmts |-> <<<<>>>>, operands |-> <<>>]
      sites == Sites(ss, <<>>, <<>>)
  IN  Stream(ExprsWritten(w, sites), ss, sites)

-----------------------------------------------------------------------------
(* Reading.  The reader has its position, the expressions and statements   *)
(* by id, and the ids of the statements in each scope.  An index refers to *)
(* the id of its loop until all statements are there.                      *)

\* deserializeExpr.
deserializeExpr(r, media) ==
  LET f(i)  == media.body[r.pos + i]
      id    == f(2)
      E(i)  == r.exprs[f(i)]
      Registered(e, n) == [r EXCEPT !.pos = @ + n, !.exprs = (id :> e) @@ @]
  IN  CASE f(1) = "ConstantExprKind"  -> Registered(Const(f(3)), 3)
        [] f(1) = "BinaryExprKind"    -> Registered(Bin(f(3), E(4), E(5)), 5)
        [] f(1) = "GEPExprKind"       ->
             Registered([k |-> "gep", buf |-> f(3), ix |-> [i \in 1..f(4) |-> E(4 + i)]],
                        4 + f(4))
        [] f(1) = "LoadExprKind"      -> Registered(Load(E(4).buf, E(4).ix, f(3)), 4)
        [] f(1) = "LoadLocalExprKind" -> Registered(Local(f(3), media.vars[f(3)]), 3)
        [] f(1) = "BroadcastExprKind" -> Registered(Broadcast(E(3), f(4)), 4)
        [] f(1) = "IndexExprKind"     -> Registered(Index(f(3)), 3)

\* deserializeStmt: the statement is added at the end of its parent.
deserializeStmt(r, media) ==
  LET f(i) == media.body[r.pos + i]
      id   == f(2)
      parent == f(3)
      E(i) == r.exprs[f(i)]
      Registered(s, n) ==
        [r EXCEPT !.pos = @ + n,
                  !.stmts = (id :> s) @@ @,
                  !.kids = (id :> <<>>) @@ [@ EXCEPT ![parent] = Append(@, id)]]
  IN  CASE f(1) = "LoopKind"      -> Registered(Loop(id, f(4), f(5), <<>>), 5)
        [] f(1) = "IfRangeKind"   -> Registered(If(E(4), f(5), f(6), <<>>), 6)
        [] f(1) = "StoreStmtKind" ->
             Registered(Store(E(6).buf, E(6).ix, E(5), f(4) # 0), 6)
        [] f(1) = "StoreLocalStmtKind" -> Registered(StoreLocal(f(4), E(6), f(5) # 0), 6)

\* "Resolve the loop indices": the statements of a scope, with the ids of loops
\* replaced by what they mean at depth d.
RECURSIVE Resolved(_, _, _, _)
Resolved(r, parent, d, loopOf) ==
  LET One(id) ==
        LET s == r.stmts[id]
        IN  CASE s.k = "loop" ->
                   Loop(d, s.end, s.stride, Resolved(r, id, d + 1, (id :> Index(d)) @@ loopOf))
              [] s.k = "if" ->
                   If(SubstE(s.idx, loopOf), s.lo, s.hi, Resolved(r, id, d, loopOf))
              [] OTHER -> SubstStmt(s, loopOf)
  IN  [i \in DOMAIN r.kids[parent] |-> One(r.kids[parent][i])]

\* Reading until there are n expressions, and until there are n statements.
RECURSIVE ReadExprs(_, _, _), ReadStmts(_, _, _)
ReadExprs(r, n, media) ==
  IF Cardinality(DOMAIN r.exprs) = n THEN r ELSE ReadExprs(deserializeExpr(r, media), n, media)
ReadStmts(r, n, media) ==
  IF Cardinality(DOMAIN r.stmts) = n THEN r ELSE ReadStmts(deserializeStmt(r, media), n, media)

\* Bytecode::deserialize.
deserialize(media) ==
  LET start == [pos |-> 1, exprs |-> <<>>, stmts |-> <<>>, kids |-> (0 :> <<>>)]
      e == ReadExprs(start, media.body[1], media)
      s == ReadStmts([e EXCEPT !.pos = @ + 1], media.body[e.pos + 1], media)
  IN  Resolved(s, 0, 0, <<>>)
=============================================================================
