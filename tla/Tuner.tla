-------------------------------- MODULE Tuner --------------------------------
(***************************************************************************)
(* The search of the autotuner (optimizeEvaluate in                        *)
(* lib/Optimizer/Optimizer.cpp).                                           *)
(*                                                                         *)
(* Nine passes are chained.  A pass is called with a program, makes        *)
(* variants of it and calls the next pass on some of them; the last pass   *)
(* times the program it is called with, keeps the fastest one and saves    *)
(* it.  Which variants a pass makes is given by constants (module          *)
(* Transforms says what the transformations do); which of them it passes   *)
(* on, and in which order, is modelled.  Each pass is active at most once, *)
(* so that the call stack is the number of the innermost active pass, with *)
(* the argument and the progress of each pass.                             *)
(***************************************************************************)
EXTENDS Integers, Sequences

CONSTANTS
  Program,        \* the programs
  Hash, hash,     \* Program::hash
  Times,          \* what evaluateCode may measure
  NotFaster,      \* the time that the best time starts with
  MaxRegs,        \* Backend::getNumRegisters
  Distributed,    \* the results of distributeAllLoops and simplify
  Interchanged,   \* ... of sinking loops, or None when nothing was sunk
  Fused,          \* ... of fusing loops, or None
  Vectorized,     \* ... of vectorizing loops, or None
  Promoted,       \* ... of simplify and promoteLICM
  TileAttempts,   \* for each program the attempts of TilerPass, in their order:
                  \* the loop nest, the program, whether a loop was hoisted
  WidenAttempts,  \* ... of WidnerPass, with the number of registers
  Fits,           \* the programs that FilterPass passes on
  None,           \* the null pointer
  Absent,         \* no file
  Partial,        \* a file that was opened and not written yet
  Earlier         \* a file of an earlier session

Attempt == [nest : Nat, prog : Program, changed : BOOLEAN, regs : Nat]

ASSUME TunerAssumption ==
  /\ None \notin Program /\ Absent \notin Program /\ Partial \notin Program
  /\ Earlier \notin Program
  /\ hash \in [Program -> Hash]
  /\ Times \subseteq Nat /\ NotFaster \in Nat /\ MaxRegs \in Nat
  /\ Distributed \in [Program -> Program]
  /\ Promoted \in [Program -> Program]
  /\ Interchanged \in [Program -> Program \union {None}]
  /\ Fused \in [Program -> Program \union {None}]
  /\ Vectorized \in [Program -> Program \union {None}]
  /\ \A p \in Program :
       /\ Len(TileAttempts[p]) \in Nat
       /\ \A i \in 1..Len(TileAttempts[p]) : TileAttempts[p][i] \in Attempt
       /\ Len(WidenAttempts[p]) \in Nat
       /\ \A i \in 1..Len(WidenAttempts[p]) : WidenAttempts[p][i] \in Attempt
  /\ Fits \subseteq Program

VARIABLES
  level,     \* the innermost active pass, 0 when there is none
  arg,       \* the program that each active pass was called with
  pos,       \* how many of its variants each active pass is done with
  ran,       \* EvaluatorPass::alreadyRan_
  best,      \* EvaluatorPass::bestProgram_
  bestTime,  \* EvaluatorPass::bestTime_
  saving,    \* where EvaluatorPass is in saving the best program
  file,      \* what is in the file savePath_
  failed,    \* history: what failed in the latest save, of what the file still shows
  timed      \* history: the programs that were timed, with their times

tunerVars == <<level, arg, pos, ran, best, bestTime, saving, file, failed, timed>>

-----------------------------------------------------------------------------
(* The calls of the next pass.                                             *)

Evaluator == 9

\* A variant, and whether the next pass is called on it.
Variant(p, called) == [prog |-> p, called |-> called]

\* InterchangerPass, FusePass, VectorizerPass: the changed program, if the pass
\* changed anything, then the program itself.
ChangedThenOriginal(new, p) ==
  IF new = None THEN <<Variant(p, TRUE)>>
  ELSE <<Variant(new, TRUE), Variant(p, TRUE)>>

\* "changed" is reset for each nest, not for each attempt: an attempt is passed on
\* once it or an earlier one on the same nest changed something.
ChangedSoFar(attempts, i) ==
  \E j \in 1..i : attempts[j].nest = attempts[i].nest /\ attempts[j].changed

DistributeCalls(p) == <<Variant(Distributed[p], TRUE)>>

InterchangeCalls(p) == ChangedThenOriginal(Interchanged[p], p)

\* TilerPass: the program itself first.
TileCalls(p) ==
  LET a == TileAttempts[p]
  IN  [i \in 1..Len(a) + 1 |->
         IF i = 1 THEN Variant(p, TRUE)
         ELSE Variant(a[i - 1].prog, ChangedSoFar(a, i - 1))]

\* Fault: calls the next pass without a look at "changed".
FuseCallsAlways(p) == <<Variant(Fused[p], TRUE), Variant(p, TRUE)>>

FuseCalls(p) == ChangedThenOriginal(Fused[p], p)

\* Fault: the original is tried only when nothing was vectorized.
VectorizeCallsOne(p) ==
  IF Vectorized[p] = None THEN <<Variant(p, TRUE)>> ELSE <<Variant(Vectorized[p], TRUE)>>

VectorizeCalls(p) == ChangedThenOriginal(Vectorized[p], p)

\* WidnerPass: the program itself last.
WidenCalls(p) ==
  LET a == WidenAttempts[p]
  IN  [i \in 1..Len(a) + 1 |->
         IF i = Len(a) + 1 THEN Variant(p, TRUE)
         ELSE Variant(a[i].prog, ChangedSoFar(a, i) /\ a[i].regs <= MaxRegs)]

PromoteCalls(p) == <<Variant(Promoted[p], TRUE)>>

FilterCalls(p) == <<Variant(p, p \in Fits)>>

\* The chain of the passes.
Calls(k, p) ==
  <<DistributeCalls(p), InterchangeCalls(p), TileCalls(p), FuseCalls(p),
    VectorizeCalls(p), WidenCalls(p), PromoteCalls(p), FilterCalls(p)>>[k]

-----------------------------------------------------------------------------
(* The steps of the search.                                                *)

TunerInit ==
  /\ level = 0
  /\ arg = [k \in 1..Evaluator |-> None]
  /\ pos = [k \in 1..Evaluator |-> 0]
  /\ ran = {} /\ timed = {}
  /\ best = None /\ bestTime = NotFaster
  /\ saving = "no"
  /\ file \in {Absent, Earlier} /\ failed = {}

\* optimizeEvaluate calls the first pass.
Start(p) ==
  /\ level = 0
  /\ level' = 1
  /\ arg' = [arg EXCEPT ![1] = p]
  /\ pos' = [pos EXCEPT ![1] = 0]
  /\ UNCHANGED <<ran, best, bestTime, saving, file, failed, timed>>

\* Fault: stops before the last variant.
MoreCallsButOne == pos[level] + 1 < Len(Calls(level, arg[level]))

MoreCalls == pos[level] < Len(Calls(level, arg[level]))

\* Fault: the active pass stays at the variant.
AdvanceNot(f) == f

Advance(f) == [f EXCEPT ![level] = @ + 1]

\* doIt of the active pass calls the next pass on its next variant ...
Call ==
  /\ level \in 1..Evaluator - 1 /\ MoreCalls
  /\ LET v == Calls(level, arg[level])[pos[level] + 1]
     IN  /\ v.called
         /\ level' = level + 1
         /\ arg' = [arg EXCEPT ![level + 1] = v.prog]
         /\ pos' = [Advance(pos) EXCEPT ![level + 1] = 0]
  /\ UNCHANGED <<ran, best, bestTime, saving, file, failed, timed>>

\* ... or leaves the variant out ...
LeaveOut ==
  /\ level \in 1..Evaluator - 1 /\ MoreCalls
  /\ ~Calls(level, arg[level])[pos[level] + 1].called
  /\ pos' = Advance(pos)
  /\ UNCHANGED <<level, arg, ran, best, bestTime, saving, file, failed, timed>>

\* ... and returns after the last.
Return ==
  /\ level \in 1..Evaluator - 1 /\ ~MoreCalls
  /\ level' = level - 1
  /\ UNCHANGED <<arg, pos, ran, best, bestTime, saving, file, failed, timed>>

\* Fault: the hashes are not looked up.
IsNewAlways == TRUE

\* EvaluatorPass::doIt: whether no program with this hash was timed before.
IsNew == hash[arg[level]] \notin ran

AlreadyRan ==
  /\ level = Evaluator /\ saving = "no"
  /\ ~IsNew
  /\ level' = level - 1
  /\ UNCHANGED <<arg, pos, ran, best, bestTime, saving, file, failed, timed>>

\* Fault: the last result counts as the best.
IsBestAlways(t) == TRUE

IsBest(t) == t < bestTime

\* Fault: a new best program is not saved.
SaveNext(t) == "no"

\* What comes after the comparison of the times: a new best program is saved.
SaveAfter(t) == IF IsBest(t) THEN "remove" ELSE "no"

\* EvaluatorPass::doIt: the program runs and takes the time t.
Evaluate(t) ==
  /\ level = Evaluator /\ saving = "no"
  /\ IsNew
  /\ ran' = ran \union {hash[arg[level]]}
  /\ timed' = timed \union {[prog |-> arg[level], time |-> t]}
  /\ best' = IF IsBest(t) THEN arg[level] ELSE best
  /\ bestTime' = IF IsBest(t) THEN t ELSE bestTime
  /\ saving' = SaveAfter(t)
  /\ level' = IF SaveAfter(t) = "no" THEN level - 1 ELSE level
  /\ UNCHANGED <<arg, pos, file, failed>>

\* The best program replaces the file: it is removed, opened and written in
\* steps between which the process may be stopped.  Nobody looks at the result of
\* remove (writeFile calls it once more), and opening the file empties whatever is
\* still there.
Save ==
  /\ level = Evaluator
  /\ \/ /\ saving = "remove" /\ saving' = "open"
        /\ file' \in {Absent, file}
        /\ failed' = IF file' = Absent THEN {} ELSE {"remove"}
        /\ UNCHANGED level
     \/ /\ saving = "open" /\ saving' = "write"
        /\ file' = Partial /\ failed' = {}
        /\ UNCHANGED level
     \/ /\ saving = "write" /\ saving' = "no"
        /\ file' = arg[level] /\ level' = level - 1
        /\ UNCHANGED failed
  /\ UNCHANGED <<arg, pos, ran, best, bestTime, timed>>

\* The file cannot be opened, or nothing or not all is written to it, and the search
\* goes on (emitObject returns early; writeFile does not look at the stream again).
SaveFails ==
  /\ level = Evaluator /\ saving \in {"open", "write"}
  /\ saving' = "no"
  /\ failed' = failed \union {saving}
  /\ level' = level - 1
  /\ UNCHANGED <<arg, pos, ran, best, bestTime, file, timed>>

Search == Call \/ LeaveOut \/ Return \/ AlreadyRan \/ (\E t \in Times : Evaluate(t)) \/ Save
=============================================================================
