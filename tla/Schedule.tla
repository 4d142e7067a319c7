------------------------------ MODULE Schedule -------------------------------
(***************************************************************************)
(* A kernel while it is scheduled: the pragmas of the program              *)
(* (applyPragmaCommand in lib/Transforms/Transforms.cpp) and the passes of *)
(* the optimizer apply transformations to it one after the other, in any   *)
(* order and on any loop.                                                  *)
(***************************************************************************)
EXTENDS Static, Bytecode

CONSTANTS
  Tasks,    \* records: a kernel, and the commands it is scheduled with, each a
            \* pair of a transformation and its parameter
  MaxSteps, \* bound: the number of transformations of one schedule
  PeelAll   \* bound: whether a schedule may peel all iterations of a loop, and so
            \* leave a program that verify does not accept

ASSUME ScheduleAssumption ==
  /\ MaxSteps \in Nat /\ PeelAll \in BOOLEAN
  /\ \A t \in Tasks : /\ \A c \in t.commands : c[2] \in Int
                      /\ IndicesInLoops(t.kernel, 0) /\ ScopesVerify(t.kernel)

VARIABLES
  task,     \* the program as written, and the commands for it
  prog,     \* the program now
  steps,    \* how many transformations were applied
  phase     \* "schedule"; "optimized" after optimizeStatic; "crashed" when the
            \* compiler dereferenced a null pointer

vars == <<task, prog, steps, phase>>

Init ==
  /\ task \in Tasks
  /\ prog = task.kernel
  /\ steps = 0
  /\ phase = "schedule"

\* The transformation replaces the program by one of the results.
Step(results) ==
  /\ steps < MaxSteps /\ phase = "schedule"
  /\ prog' \in results
  /\ steps' = steps + 1
  /\ UNCHANGED <<task, phase>>

\* The parameters of the commands of one kind.
Params(kind) == {c[2] : c \in {d \in task.commands : d[1] = kind}}

Loops == Range(LoopPaths(prog))

Tile      == \E p \in Loops, n \in Params("tile") : Step(tile(prog, p, n))
Peel      == \E p \in Loops, n \in Params("peel") :
               /\ PeelAll \/ PeelCount(At(prog, p).end, n) # At(prog, p).end
               /\ Step(peelLoop(prog, p, n))
Unroll    == \E p \in Loops, n \in Params("unroll") : Step(unrollLoop(prog, p, n))
Widen     == \E p \in Loops, n \in Params("widen") : Step(widen(prog, p, n))
Vectorize == \E p \in Loops, n \in Params("vectorize") : Step(vectorize(prog, p, n))
Hoist     == \E p \in Loops, n \in Params("hoist") : Step(hoist(prog, p, n))
Sink      == \E p \in Loops, n \in Params("sink") : Step(sink(prog, p, n))
Fuse      == \E p \in Loops, n \in Params("fuse") : Step(fuse(prog, p))
Split     == \E p \in Loops, n \in Params("split") : Step(split(prog, p))

\* The scope that distributeAllLoops is called on: the program (DistributePass,
\* optimizeStatic), or the parent of the loop that the pragma names.
DistributeScopes == {Front(p) : p \in Loops}

Distribute ==
  \E q \in DistributeScopes, n \in Params("distribute") :
    Step(distributeAllLoops(prog, q))

DistributeCrash ==
  /\ steps < MaxSteps /\ phase = "schedule"
  /\ \E q \in DistributeScopes, n \in Params("distribute") : DistributeDetaches(prog, q)
  /\ phase' = "crashed"
  /\ UNCHANGED <<task, prog, steps>>

\* simplify and promoteLICM work on the whole program (PromoterPass).
SimplifyAll == \E n \in Params("simplify") : Step({simplify(prog)} \ {prog})
Promote     == \E n \in Params("promote") : Step({promoteLICM(prog)} \ {prog})

\* After the pragmas main optimizes the program, once (FLAGS_opt); n is the number
\* of lanes in a register of the backend.
OptimizeStatic ==
  /\ phase = "schedule"
  /\ \E n \in Params("static") : prog' = optimizeStatic(prog, n)
  /\ phase' = "optimized"
  /\ UNCHANGED <<task, steps>>

Next ==
  \/ Tile \/ Peel \/ Unroll \/ Widen \/ Vectorize
  \/ Hoist \/ Sink \/ Fuse \/ Split
  \/ Distribute \/ DistributeCrash
  \/ SimplifyAll \/ Promote \/ OptimizeStatic

Spec == Init /\ [][Next]_vars

-----------------------------------------------------------------------------
(* Properties.                                                             *)

\* The memory after the kernel of each task.
KernelMemory == [t \in Tasks |-> FinalMemory(t.kernel)]

\* IndexExpr::verify holds after every transformation: an index expression is
\* inside the loop it belongs to.
TypeOK ==
  /\ task \in Tasks /\ steps \in 0..MaxSteps /\ phase \in {"schedule", "optimized", "crashed"}
  /\ IndicesInLoops(prog, 0)

\* The transformed program computes what the kernel computes, and no access of
\* it leaves its buffer, after any sequence of transformations.
MeaningPreserved ==
  LET m == FinalMemory(prog)
  IN  m.cells = KernelMemory[task].cells /\ ~m.oob

\* No sequence of transformations makes the program write an element of a buffer
\* more often than the kernel does.
NoExtraWork ==
  LET m == FinalMemory(prog)
  IN  \A b \in DOMAIN Dims : \A c \in DOMAIN m.writes[b] :
        m.writes[b][c] <= KernelMemory[task].writes[b][c]

\* Loop::verify, IfRange::verify and the verify functions of the expressions: unless all
\* of a loop is peeled, no sequence of transformations leaves an empty loop, a loop whose
\* stride does not divide its end or is 1024 and more, or vectors of two widths that meet
\* in an expression.
StridesAndWidths == ScopesVerify(prog) /\ WidthsAgree(prog)

\* Value.h on computeKnownIntegerRange: "the possible full-interval range", and "must
\* be monotonic (start <= end)", which the function asserts of an index.  The assertion
\* holds, and what is known of a subscript is true of all of its values, whatever terms the
\* transformations have made of it; fuse takes accesses with disjoint ranges for
\* independent.
RangesHoldValues ==
  \A s \in SubscriptsIn(prog, {}) :
    LET R == computeKnownIntegerRange(s.idx, LastValues(s.loops))
    IN  /\ R # Aborted
        /\ R # Unknown => /\ R[1] <= R[2]
                          /\ \A v \in Values(s.idx, s.loops, <<>>) : v \in R[1]..R[2]

\* The statements ss with the start of each range check written in place of its end
\* (Bytecode.cpp, "Write range end").
RECURSIVE ChecksEmptied(_)
ChecksEmptied(ss) ==
  [i \in DOMAIN ss |->
     CASE ss[i].k = "loop" -> [ss[i] EXCEPT !.body = ChecksEmptied(@)]
       [] ss[i].k = "if" -> [ss[i] EXCEPT !.hi = ss[i].lo, !.body = ChecksEmptied(@)]
       [] OTHER -> ss[i]]


\* distributeAllLoops on the program leaves loops that are innermost or hold
\* nothing but one scope (Transforms.h, "This creates a structure that allows
\* loop interchange").
Distributed(ss) ==
  \A s \in AllStmts(ss) :
    s.k = "loop" => isInnermostLoop(s) \/ Len(s.body) = 1
DistributeSeparates ==
  [][\A n \in Params("distribute") :
       prog' \in distributeAllLoops(prog, <<>>) => Distributed(prog')]_vars

\* The shapes of the loops in ss.
Shapes(ss) ==
  {[end |-> s.end, stride |-> s.stride] : s \in {x \in AllStmts(ss) : x.k = "loop"}}

VectorWidths == {c[2] : c \in {d \in UNION {t.commands : t \in Tasks} : d[1] = "static"}}

\* No loop of the results of optimizeStatic is longer than the longest of a kernel.
ShapeUniverse ==
  LET kernels == UNION {Shapes(t.kernel) : t \in Tasks}
  IN  [end : 0..Max({s.end : s \in kernels}),
       stride : {s.stride : s \in kernels} \union VectorWidths]

L == INSTANCE LoopShapes WITH shapes <- Shapes(prog), Lanes <- VectorWidths,
                              BlockSize <- TileSize, Universe <- ShapeUniverse

\* Whatever is in the loops and however they are nested, a transformation divides one
\* loop as LoopShapes says, or leaves the loops alone, and optimizeStatic does no more
\* than that again and again; what is proved there for schedules of any length is about
\* these programs.
ImplementsLoopShapes == L!Spec /\ [][phase' = phase => L!Transform]_vars

-----------------------------------------------------------------------------
(* What comments and assertions of the code say.                           *)

\* Program.h on IfRange: "an if-in-range construct with the half-open range".  The
\* branch that the backend emits is taken for the values in the range.
EmittedCheckIsHalfOpen ==
  \A c \in ChecksIn(prog, {}) : \A v \in Values(c.check.idx, c.loops, <<>>) :
    EmittedRangeHolds(c.check, v) <=> RangeHolds(c.check, v)

\* Simplify.cpp on the check it removes: "The index always falls within the if
\* range".
SubsetIsWithinRange ==
  \A c \in ChecksIn(prog, {}) :
    IfRelation(c.check, LastValues(c.loops)) = "subset"
      => \A v \in Values(c.check.idx, c.loops, <<>>) : RangeHolds(c.check, v)

\* Dependence.h on depends: "True if the store W1 and the load R2 depend on one
\* another".  Loops between which fuse finds no dependence compute the same when
\* they are fused.
FuseFindsDependences ==
  [][Fuse => FinalMemory(prog').cells = FinalMemory(prog).cells]_vars

\* README.md on "--opt": "perform simple clean-up optimizations such as LICM and
\* promotion to registers".  The optimized program computes what the program did.
OptKeepsTheMeaning ==
  [][OptimizeStatic => FinalMemory(prog').cells = FinalMemory(prog).cells]_vars

\* Value.h on getIndexAccessKind: "A[i + 3] is 'consecutive', a[j] is 'uniform'
\* and A[i * 3] is 'other'".  A consecutive subscript grows by one with the index.
ConsecutiveGrowsByOne ==
  \A p \in Loops :
    LET l == At(prog, p).id
        subscripts == UNION {Range(x.ix) : x \in Loads(At(prog, p).body) \union
                                                 Stores(At(prog, p).body)}
        env(v) == [m \in 0..MaxSteps + 4 |-> IF m = l THEN v ELSE 0]
        Val(e, v) == Eval(e, env(v), InitialMemory)[1]
    IN  \A e \in subscripts :
          getIndexAccessKind(e, l) = "consecutive" => Val(e, 1) - Val(e, 0) = 1

\* Loop::verify: "Loops must not be empty".  No loop is, also when a schedule may peel as
\* many iterations as the loop has, which peelLoop accepts.
LoopsAreNotEmpty == LoopsNotEmpty(prog)

\* applyPragmaCommand: "We distribute all loops inside L, including L, so we pass
\* the parent scope".
NoCrash == phase # "crashed"
=============================================================================
