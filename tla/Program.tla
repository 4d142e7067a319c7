------------------------------- MODULE Program -------------------------------
(***************************************************************************)
(* Bistra programs as terms, what they compute, and what Program::verify   *)
(* demands of them (include/bistra/Program/Program.h,                      *)
(* lib/Program/Program.cpp, and for the meaning the code that              *)
(* lib/Backends/LLVMBackend/LLVMBackend.cpp emits for each node).          *)
(*                                                                         *)
(* A program is a sequence of statements.  A loop is known to its index    *)
(* expressions by its identity, which is the number of loops around it:    *)
(* names, locations and types other than the vector width are left out.    *)
(* Floating point values are integers here: like the compiler, the model   *)
(* reorders additions.                                                     *)
(***************************************************************************)
EXTENDS Iterations, Sequences, SequencesExt, FiniteSets, TLC

CONSTANT Dims  \* for each of the buffers (Arguments), the sizes of its dimensions

ASSUME DimsAssumption ==
  /\ DOMAIN Dims = 1..Len(Dims)
  /\ \A b \in DOMAIN Dims : \A d \in DOMAIN Dims[b] : Dims[b][d] \in Nat \ {0}

-----------------------------------------------------------------------------
(* Syntax.                                                                 *)

Const(v)         == [k |-> "const", val |-> v]
Index(l)         == [k |-> "index", loop |-> l]
Bin(op, a, b)    == [k |-> "bin", op |-> op, lhs |-> a, rhs |-> b]
Load(b, ix, w)   == [k |-> "load", buf |-> b, ix |-> ix, w |-> w]
Local(x, w)      == [k |-> "local", var |-> x, w |-> w]
Broadcast(e, w)  == [k |-> "bcast", arg |-> e, w |-> w]

Loop(l, n, s, body)    == [k |-> "loop", id |-> l, end |-> n, stride |-> s, body |-> body]
If(e, lo, hi, body)    == [k |-> "if", idx |-> e, lo |-> lo, hi |-> hi, body |-> body]
Store(b, ix, e, acc)   == [k |-> "store", buf |-> b, ix |-> ix, exp |-> e, acc |-> acc]
StoreLocal(x, e, acc)  == [k |-> "storelocal", var |-> x, exp |-> e, acc |-> acc]

IsScope(s) == s.k \in {"loop", "if"}

\* The expressions directly below an expression or a statement.
Operands(x) ==
  CASE x.k = "bin" -> <<x.lhs, x.rhs>>
    [] x.k = "load" -> x.ix
    [] x.k = "bcast" -> <<x.arg>>
    [] x.k = "if" -> <<x.idx>>
    [] x.k = "store" -> Append(x.ix, x.exp)
    [] x.k = "storelocal" -> <<x.exp>>
    [] OTHER -> <<>>

\* All of the expressions in x, x included (visit over expressions).
RECURSIVE SubExprs(_)
SubExprs(x) == {x} \union UNION {SubExprs(e) : e \in Range(Operands(x))}

\* All of the statements in the sequence ss, nested ones included
\* (collectStmts).
RECURSIVE AllStmts(_)
AllStmts(ss) ==
  UNION {{s} \union (IF IsScope(s) THEN AllStmts(s.body) ELSE {}) : s \in Range(ss)}

\* All of the expressions in the statements ss (collectExprs).
AllExprs(ss) == UNION {SubExprs(s) \ {s} : s \in AllStmts(ss)}

\* dependsOnLoop: some index expression in x reads l.
DependsOn(x, l) == Index(l) \in SubExprs(x)

\* The width of the type of an expression: 1, or the number of vector lanes.
RECURSIVE Width(_)
Width(e) ==
  CASE e.k \in {"load", "local", "bcast"} -> e.w
    [] e.k = "bin" -> Width(e.lhs)
    [] OTHER -> 1

-----------------------------------------------------------------------------
(* Rewriting: clone, and collectIndices followed by replaceUseWith.        *)

\* The expression e with every index in DOMAIN sub replaced.
RECURSIVE SubstE(_, _)
SubstE(e, sub) ==
  LET S(x) == SubstE(x, sub)
      All(xs) == [i \in DOMAIN xs |-> S(xs[i])]
  IN  CASE e.k = "index" /\ e.loop \in DOMAIN sub -> sub[e.loop]
        [] e.k = "bin" -> [e EXCEPT !.lhs = S(@), !.rhs = S(@)]
        [] e.k = "load" -> [e EXCEPT !.ix = All(@)]
        [] e.k = "bcast" -> [e EXCEPT !.arg = S(@)]
        [] OTHER -> e

\* The same for a statement that is not a scope.
SubstStmt(s, sub) ==
  IF s.k = "store"
  THEN [s EXCEPT !.ix = [i \in DOMAIN s.ix |-> SubstE(s.ix[i], sub)],
                 !.exp = SubstE(@, sub)]
  ELSE [s EXCEPT !.exp = SubstE(@, sub)]

\* The statements ss as they read at loop depth d, with the indices in
\* DOMAIN sub replaced: the loops in ss get the identities of their new depth.
RECURSIVE Rebase(_, _, _)
Rebase(ss, d, sub) ==
  LET One(s) ==
        CASE s.k = "loop" -> Loop(d, s.end, s.stride,
                                  Rebase(s.body, d + 1, (s.id :> Index(d)) @@ sub))
          [] s.k = "if" -> If(SubstE(s.idx, sub), s.lo, s.hi, Rebase(s.body, d, sub))
          [] OTHER -> SubstStmt(s, sub)
  IN  [i \in DOMAIN ss |-> One(ss[i])]

-----------------------------------------------------------------------------
(* Positions.  A path names a statement: the position in the program, then *)
(* the position in the body of that scope, and so on.  The program itself  *)
(* is at the empty path.                                                   *)

\* The body of the scope at a path.
RECURSIVE BodyAt(_, _)
BodyAt(ss, path) ==
  IF path = <<>> THEN ss ELSE BodyAt(ss[path[1]].body, Tail(path))

At(ss, path) == BodyAt(ss, Front(path))[Last(path)]

\* ss with the n statements from the path on replaced by the statements new.
RECURSIVE Splice(_, _, _, _)
Splice(ss, path, n, new) ==
  IF Len(path) = 1
  THEN SubSeq(ss, 1, path[1] - 1) \o new \o SubSeq(ss, path[1] + n, Len(ss))
  ELSE [ss EXCEPT ![path[1]].body = Splice(@, Tail(path), n, new)]

\* The paths of the loops, outer ones first (collectLoops).
RECURSIVE LoopPaths(_)
LoopPaths(ss) ==
  LET Under(i) == IF ~IsScope(ss[i]) THEN <<>>
                  ELSE LET ps == LoopPaths(ss[i].body)
                       IN  [j \in DOMAIN ps |-> <<i>> \o ps[j]]
      From(i) == (IF ss[i].k = "loop" THEN <<<<i>>>> ELSE <<>>) \o Under(i)
  IN  FlattenSeq([i \in DOMAIN ss |-> From(i)])

-----------------------------------------------------------------------------
(* Program::verify.                                                        *)

\* Loop::verify: "Loops must not be empty".
LoopsNotEmpty(ss) == \A s \in AllStmts(ss) : s.k = "loop" => s.end > 0

\* "Invalid stride", from here on.
StrideLimit == 1024

\* Loop::verify and IfRange::verify, on every loop and every range check.
ScopesVerify(ss) ==
  /\ LoopsNotEmpty(ss)
  /\ \A s \in AllStmts(ss) :
       /\ s.k = "loop" => StrideDivides(s.end, s.stride) /\ s.stride < StrideLimit
       /\ s.k = "if" => s.lo <= s.hi

\* IndexExpr::verify: an index expression is inside its loop.  d is the number
\* of loops around ss.
RECURSIVE IndicesInLoops(_, _)
IndicesInLoops(ss, d) ==
  \A s \in Range(ss) :
    /\ \A e \in SubExprs(s) : e.k = "index" => e.loop \in 0..d - 1
    /\ s.k = "loop" => s.id = d
    /\ IsScope(s) => IndicesInLoops(s.body, IF s.k = "loop" THEN d + 1 ELSE d)

\* BinaryExpr, BroadcastExpr, LoadLocalExpr and StoreLocalStmt::verify: the
\* operand types agree, and a local is read and written as one type.
WidthsAgree(ss) ==
  LET es == AllExprs(ss)
      writes == {s \in AllStmts(ss) : s.k = "storelocal"}
  IN  /\ \A e \in es : e.k = "bin" => Width(e.lhs) = Width(e.rhs)
      /\ \A e \in es : e.k = "bcast" => Width(e.arg) = 1
      /\ \A e \in es, s \in writes :
           e.k = "local" /\ e.var = s.var => e.w = Width(s.exp)

-----------------------------------------------------------------------------
(* Meaning.  A value is the sequence of its lanes.  The memory holds the   *)
(* buffers, how often each of their elements was written, the local        *)
(* variables, and whether an access left its buffer.                       *)

Size(b) == FoldLeft(LAMBDA x, y : x * y, 1, Dims[b])

\* getIndexOffsetForBuffer: row-major position of a subscript.
Offset(b, pos) ==
  LET Scale(i) == FoldLeft(LAMBDA x, y : x * y, 1,
                           SubSeq(Dims[b], i + 1, Len(Dims[b])))
  IN  FoldLeft(+, 0, [i \in DOMAIN pos |-> pos[i] * Scale(i)])

\* generate(Expr): env gives the loop indices their values.
RECURSIVE Eval(_, _, _)
Eval(e, env, mem) ==
  CASE e.k = "const" -> <<e.val>>
    [] e.k = "index" -> <<env[e.loop]>>
    [] e.k = "bin" ->
         LET x == Eval(e.lhs, env, mem)
             y == Eval(e.rhs, env, mem)
         IN  [i \in DOMAIN x |-> Arith(e.op, x[i], y[i])]
    [] e.k = "load" ->
         LET off == Offset(e.buf, [i \in DOMAIN e.ix |-> Eval(e.ix[i], env, mem)[1]])
         IN  [i \in 1..e.w |-> IF off + i - 1 \in 0..Size(e.buf) - 1
                               THEN mem.cells[e.buf][off + i - 1] ELSE 0]
    [] e.k = "local" -> mem.locals[e.var]
    [] e.k = "bcast" -> [i \in 1..e.w |-> Eval(e.arg, env, mem)[1]]

\* Every subscript of an access of w lanes is inside its dimension.
InBounds(b, ix, w, env, mem) ==
  \A i \in DOMAIN ix :
    LET v == Eval(ix[i], env, mem)[1]
    IN  v >= 0 /\ v + (IF i = Len(ix) THEN w ELSE 1) <= Dims[b][i]

LoadsInBounds(e, env, mem) ==
  \A x \in {y \in SubExprs(e) : y.k = "load"} : InBounds(x.buf, x.ix, x.w, env, mem)

\* IfRange: the body runs when the index is in the range.  This is the meaning that
\* tile and simplifyIfs rely on.
RangeHolds(s, v) == InRange(v, s.lo, s.hi)

\* The branch that emit(IfRange) creates, with CreateOr.  Schedule compares it
\* with RangeHolds; the meaning of programs below does not use it.
EmittedRangeHolds(s, v) == s.lo <= v \/ v < s.hi

\* emit(StoreStmt), emit(StoreLocalStmt): "+=" adds to the old value.
ExecStore(s, env, mem) ==
  LET new == Eval(s.exp, env, mem)
      off == Offset(s.buf, [i \in DOMAIN s.ix |-> Eval(s.ix[i], env, mem)[1]])
      hit == {c \in 0..Size(s.buf) - 1 : c - off + 1 \in DOMAIN new}
      ok  == /\ InBounds(s.buf, s.ix, Len(new), env, mem)
             /\ LoadsInBounds(s.exp, env, mem)
      Old(c) == IF s.acc THEN mem.cells[s.buf][c] ELSE 0
  IN  [mem EXCEPT
        !.cells[s.buf]  = [c \in hit |-> Old(c) + new[c - off + 1]] @@ @,
        !.writes[s.buf] = [c \in hit |-> mem.writes[s.buf][c] + 1] @@ @,
        !.oob = @ \/ ~ok]

ExecStoreLocal(s, env, mem) ==
  LET new == Eval(s.exp, env, mem)
      old == mem.locals[s.var]
  IN  [mem EXCEPT
        !.locals = (s.var :> (IF s.acc THEN [i \in DOMAIN new |-> old[i] + new[i]]
                                       ELSE new)) @@ @,
        !.oob = @ \/ ~LoadsInBounds(s.exp, env, mem)]

\* emit(IfRange), and the statements of a scope in their order.  An access outside
\* of its buffer ends the execution.  emit(Loop) executes the body for the values of
\* the index in their order.
RECURSIVE Exec(_, _, _)
Exec(ss, env, mem) ==
  IF ss = <<>> \/ mem.oob THEN mem
  ELSE LET s == Head(ss)
           Iterate(m, v) == Exec(s.body, (s.id :> v) @@ env, m)
           after == CASE s.k = "loop" ->
                           FoldLeft(Iterate, mem,
                                    SetToSortSeq(IndexValues(s.end, s.stride), <))
                      [] s.k = "if" -> IF RangeHolds(s, Eval(s.idx, env, mem)[1])
                                       THEN Exec(s.body, env, mem) ELSE mem
                      [] s.k = "store" -> ExecStore(s, env, mem)
                      [] s.k = "storelocal" -> ExecStoreLocal(s, env, mem)
       IN  Exec(Tail(ss), env, after)

\* Buffers start with different contents, so that a wrong access shows.
InitialMemory ==
  [cells  |-> [b \in DOMAIN Dims |->
                 [c \in 0..Size(b) - 1 |-> (c + 2) * (c + 2 + b) + b]],
   writes |-> [b \in DOMAIN Dims |-> [c \in 0..Size(b) - 1 |-> 0]],
   locals |-> <<>>,
   oob    |-> FALSE]

\* The memory after the program.
FinalMemory(ss) == Exec(ss, <<>>, InitialMemory)
=============================================================================
