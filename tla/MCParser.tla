------------------------------ MODULE MCParser -------------------------------
(***************************************************************************)
(* An instance of Parser for TLC: the constructs of small files.  Their    *)
(* few names are used for lets, loops, variables and arguments alike.      *)
(***************************************************************************)
EXTENDS Parser

Lit(v)         == [k |-> "int", val |-> v]
Name(n)        == [k |-> "name", name |-> n]
Element(n, e)  == [k |-> "sub", name |-> n, ix |-> <<e>>, w |-> 1]
Plus(l, r)     == [k |-> "op", op |-> "+", lhs |-> l, rhs |-> r]
FloatTy        == <<"float", 1>>

Arg(n, good)   == [k |-> "arg", name |-> n, good |-> good, ty |-> FloatTy, dims |-> 1,
                   size |-> 4]
Let(n, e)      == [k |-> "let", name |-> n, exp |-> e]
Var(n, e)      == [k |-> "var", name |-> n, ty |-> FloatTy, init |-> TRUE, exp |-> e]
For(n, e, s)   == [k |-> "for", name |-> n, head |-> "ok", end |-> e, strided |-> TRUE,
                   stride |-> s, brace |-> TRUE]
If(e)          == [k |-> "if", exp |-> e, start |-> Lit(0), end |-> Lit(2), brace |-> TRUE]
Store(n, i, e) == [k |-> "store", name |-> n, ix |-> <<i>>, exp |-> e]
Close          == [k |-> "close"]

\* The function, and what may be wrong with it.
Outside ==
  {[k |-> "func"], [k |-> "body", brace |-> TRUE], Arg("A", TRUE), Arg("B", FALSE)}

Scripts ==
  {[k |-> "script", head |-> "ok", brace |-> TRUE],
   [k |-> "script", head |-> "early", brace |-> TRUE],
   [k |-> "pragma", good |-> TRUE], [k |-> "pragma", good |-> FALSE]}

\* for i in 0 .. A.x { }, let n = i + 2, if n in 0 .. 2 { }, var x : float = A[n], ...
Inside ==
  {For("i", [k |-> "dim", name |-> "A"], Lit(1)),
   For("n", Lit(4), Name("n")),
   [For("n", Lit(4), Lit(2)) EXCEPT !.brace = FALSE],
   For("i", Lit(3), Lit(2)),
   For("i", Lit(4), Lit(0)),
   Let("n", Plus(Name("i"), Lit(2))),
   Let("n", Lit(2)),
   Let(NoName, Element("A", Lit(0))),
   If(Name("n")),
   Var("x", Element("A", Name("n"))),
   [Var("x", Name("i")) EXCEPT !.init = FALSE],
   Store("A", Name("i"), Plus(Element("A", Name("n")), Name("x"))),
   [k |-> "assign", name |-> "x", exp |-> Element("x", Lit(0))],
   [k |-> "call", name |-> "f", ix |-> <<Name("x")>>],
   Close, Junk}

MCInput == Outside \union Scripts \union Inside
=============================================================================
