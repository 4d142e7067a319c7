------------------------------ MODULE MCUseDef ------------------------------
(* Model checking of UseDef: addresses of one kind are interchangeable.    *)
EXTENDS UseDef, TLC

Symmetry ==
  Permutations(Stmt) \union Permutations(Expr) \union
  Permutations(StmtHandle) \union Permutations(ExprHandle)
=============================================================================
