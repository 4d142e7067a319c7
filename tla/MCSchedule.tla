----------------------------- MODULE MCSchedule ------------------------------
(***************************************************************************)
(* Instances of Schedule for TLC: the kernels, small enough to be executed *)
(* in every state, and the commands of each run.                           *)
(***************************************************************************)
EXTENDS Schedule

\* The buffers.
A == 1
B == 2
C == 3
X == 4
Y == 5
Z == 6
S == 7

MCDims == <<<<2, 2>>, <<2, 4>>, <<2, 4>>, <<5>>, <<5>>, <<6>>, <<1>>>>

i0 == Index(0)
i1 == Index(1)
i2 == Index(2)

\* for i in 0..2 { for j in 0..4 { for k in 0..2 { C[i,j] += A[i,k] * B[k,j] }}}
MatMul ==
  <<Loop(0, 2, 1, <<Loop(1, 4, 1, <<Loop(2, 2, 1,
      <<Store(C, <<i0, i1>>,
              Bin("mul", Load(A, <<i0, i2>>, 1), Load(B, <<i2, i1>>, 1)), TRUE)>>)>>)>>)>>

\* The same with j innermost, and a factor.
MatMulRows ==
  <<Loop(0, 2, 1, <<Loop(1, 2, 1, <<Loop(2, 4, 1,
      <<Store(C, <<i0, i2>>,
              Bin("mul", Bin("mul", Load(A, <<i0, i1>>, 1), Const(3)),
                         Load(B, <<i1, i2>>, 1)), TRUE)>>)>>)>>)>>

\* for i in 0..5 { X[i] = Y[i] + 2 }
Shift ==
  <<Loop(0, 5, 1, <<Store(X, <<i0>>, Bin("add", Load(Y, <<i0>>, 1), Const(2)), FALSE)>>)>>

\* for i in 0..5 { X[4 - i] = Y[i] * 2 }
Flip ==
  <<Loop(0, 5, 1, <<Store(X, <<Bin("sub", Const(4), i0)>>,
                          Bin("mul", Load(Y, <<i0>>, 1), Const(2)), FALSE)>>)>>

\* for i in 0..2 { for j in 0..4 { C[i,j] = 0;
\*                                 for k in 0..2 { C[i,j] += A[i,k] * B[k,j] }}}
ClearAndMultiply ==
  <<Loop(0, 2, 1, <<Loop(1, 4, 1, <<Store(C, <<i0, i1>>, Const(0), FALSE)>> \o
                                    MatMul[1].body[1].body)>>)>>

\* for i in 0..5 { X[i] = Y[i] * Y[i] }
\* for i in 0..5 { Y[i] = X[i] + Z[i] }
\* for i in 0..5 { Z[i] = Y[i]; Z[i] += X[0] }
Stages ==
  <<Loop(0, 5, 1, <<Store(X, <<i0>>, Bin("mul", Load(Y, <<i0>>, 1), Load(Y, <<i0>>, 1)), FALSE)>>),
    Loop(0, 5, 1, <<Store(Y, <<i0>>, Bin("add", Load(X, <<i0>>, 1), Load(Z, <<i0>>, 1)), FALSE)>>),
    Loop(0, 5, 1, <<Store(Z, <<i0>>, Load(Y, <<i0>>, 1), FALSE),
                    Store(Z, <<i0>>, Load(X, <<Const(0)>>, 1), TRUE)>>)>>

\* for i in 0..2 { for j in 0..3 { C[i,j] = B[i,j] }}
\* for i in 0..2 { for j in 0..3 { B[i,j] += C[i,j + 1] }}
\* The loops over i may be fused, the loops over j may not.
Neighbours ==
  <<Loop(0, 2, 1, <<Loop(1, 3, 1, <<Store(C, <<i0, i1>>, Load(B, <<i0, i1>>, 1), FALSE)>>)>>),
    Loop(0, 2, 1, <<Loop(1, 3, 1,
       <<Store(B, <<i0, i1>>, Load(C, <<i0, Bin("add", i1, Const(1))>>, 1), TRUE)>>)>>)>>

\* for i in 0..5 { S[0] += Y[i] }
\* for i in 0..5 { X[i] = S[0] }
SumThenUse ==
  <<Loop(0, 5, 1, <<Store(S, <<Const(0)>>, Load(Y, <<i0>>, 1), TRUE)>>),
    Loop(0, 5, 1, <<Store(X, <<i0>>, Load(S, <<Const(0)>>, 1), FALSE)>>)>>

\* for i in 0..2 { var v = 0; for j in 0..4 { v += B[i,j] }  X[i] = v }
RowSums ==
  <<Loop(0, 2, 1, <<StoreLocal(1, Const(0), FALSE),
                    Loop(1, 4, 1, <<StoreLocal(1, Load(B, <<i0, i1>>, 1), TRUE)>>),
                    Store(X, <<i0>>, Local(1, 1), FALSE)>>)>>

\* for i in 0..4 { X[i] = Y[i]; S[0] += Z[0] }
WriteAndCount ==
  <<Loop(0, 4, 1, <<Store(X, <<i0>>, Load(Y, <<i0>>, 1), FALSE),
                    Store(S, <<Const(0)>>, Load(Z, <<Const(0)>>, 1), TRUE)>>)>>

\* for i in 0..3 { S[0] = Z[3 - i]; S[0] = 7 }
WriteTwice ==
  <<Loop(0, 3, 1, <<Store(S, <<Const(0)>>, Load(Z, <<Bin("sub", Const(3), i0)>>, 1), FALSE),
                    Store(S, <<Const(0)>>, Const(7), FALSE)>>)>>

-----------------------------------------------------------------------------

With(kernels, commands) == {[kernel |-> k, commands |-> commands] : k \in kernels}

\* Restructuring a nest.  The block size 3 leaves a partial block of the loop
\* with 4 iterations.
NestTasks ==
  With({MatMul}, {<<"tile", 3>>, <<"peel", 1>>, <<"unroll", 2>>, <<"widen", 2>>,
                  <<"hoist", 2>>, <<"sink", 1>>, <<"simplify", 0>>})

\* Dividing and fusing loops.
StageTasks ==
  With({ClearAndMultiply, Stages, Neighbours},
       {<<"split", 0>>, <<"distribute", 0>>, <<"fuse", 1>>, <<"peel", -1>>,
        <<"unroll", 2>>, <<"hoist", 1>>, <<"simplify", 0>>})

\* Vectors, wide bodies and locals.
VectorTasks ==
  With({MatMulRows, Shift, Flip},
       {<<"vectorize", 2>>, <<"widen", 2>>, <<"peel", 1>>, <<"unroll", 4>>,
        <<"hoist", 1>>, <<"promote", 0>>, <<"simplify", 0>>})

\* optimizeStatic on the program as the pragmas leave it.  Pragmas that tile are
\* left out: the run AccessKind is about what vectorize makes of their subscripts.
StaticTasks ==
  With({MatMul, MatMulRows, Shift, ClearAndMultiply, Stages, Neighbours},
       {<<"static", 2>>, <<"peel", -1>>, <<"hoist", 1>>})

AllTasks == NestTasks \union StageTasks \union VectorTasks \union StaticTasks

TileShift       == With({Shift}, {<<"tile", 2>>})
TileRows        == With({MatMulRows}, {<<"tile", 2>>})
FuseSum         == With({SumThenUse}, {<<"fuse", 1>>})
OptimizeKernels == With({RowSums, SumThenUse, WriteAndCount, WriteTwice}, {<<"static", 2>>})
PeelShift       == With({Shift}, {<<"peel", 5>>})
DistributeInner == With({ClearAndMultiply}, {<<"distribute", 0>>})
=============================================================================
