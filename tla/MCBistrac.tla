------------------------------ MODULE MCBistrac ------------------------------
(* An instance of Bistrac for TLC: a search of ten programs in which every  *)
(* pass changes some programs and leaves others alone, two attempts are the *)
(* same program, two programs share a hash, one is rejected by the filter,  *)
(* and one needs too many registers.                                        *)
EXTENDS Bistrac

MCProgram == 1..10

\* f where it is defined, and d elsewhere.
Else(f, d(_)) == [p \in MCProgram |-> IF p \in DOMAIN f THEN f[p] ELSE d(p)]

Same(p) == p
Nothing(p) == None
NoAttempts(p) == <<>>

Try(nest, p, changed, regs) ==
  [nest |-> nest, prog |-> p, changed |-> changed, regs |-> regs]

MCDistributed  == Else([p \in {1} |-> 2], Same)
MCInterchanged == Else([p \in {2} |-> 3], Nothing)
MCTileAttempts ==
  Else([p \in {2} |-> <<Try(1, 2, FALSE, 1), Try(1, 4, TRUE, 1), Try(1, 2, FALSE, 1),
                        Try(2, 5, FALSE, 1)>>], NoAttempts)
MCFused        == Else([p \in {4} |-> 6], Nothing)
MCVectorized   == Else([p \in {2, 3} |-> IF p = 2 THEN 7 ELSE 8], Nothing)
MCWidenAttempts ==
  Else([p \in {7} |-> <<Try(1, 9, TRUE, 2), Try(1, 10, TRUE, 5)>>], NoAttempts)
MCPromoted     == Else([p \in {6} |-> 3], Same)
MCFits         == MCProgram \ {4}
MCHash         == Else([p \in {8} |-> 3], Same)
MCStatic       == Else([p \in {1} |-> 10], Same)
=============================================================================
