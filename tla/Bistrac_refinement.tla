-------------------------- MODULE Bistrac_refinement --------------------------
(***************************************************************************)
(* The driver and the passes of the autotuner implement Autotune: for      *)
(* every set of programs, results of the passes and measured times.        *)
(***************************************************************************)
EXTENDS Bistrac_proofs

USE DEF Evaluator

AutotuneStep == A!Next \/ UNCHANGED <<Phase, ran, best, bestTime, file, SaveFailed>>

\* A step of the promised search, or none, in the terms of the specification Autotune.
LEMMA AutotuneStepIsStep == AutotuneStep <=> [A!Next]_(A!vars)
  BY DEF AutotuneStep, A!vars

\* Timing a program is a step of the promised search: its hash is new, and it is one
\* of the candidates.
LEMMA EvaluateIsAutotuneStep ==
  ASSUME TypeInv, VariantsInv, pc = "search", NEW t \in Times, Evaluate(t), pc' = pc
  PROVE  AutotuneStep
<1>0. level = 9
  BY DEF Evaluate
<1>1. arg[9] \in Reached[9]
  <2>1. \A k \in 1..level : arg[k] \in Reached[k]
    BY DEF VariantsInv
  <2> QED
    BY <1>0, <2>1
<1>2. /\ hash[arg[9]] \notin ran /\ ran' = ran \union {hash[arg[9]]}
      /\ best' = IF t < bestTime THEN arg[9] ELSE best
      /\ bestTime' = IF t < bestTime THEN t ELSE bestTime
      /\ file' = file /\ failed' = failed
  <2>1. hash[arg[level]] \notin ran
    BY DEF Evaluate, IsNew
  <2>2. /\ ran' = ran \union {hash[arg[level]]}
        /\ best' = IF t < bestTime THEN arg[level] ELSE best
        /\ bestTime' = IF t < bestTime THEN t ELSE bestTime
        /\ file' = file /\ failed' = failed
    BY DEF Evaluate, IsBest
  <2> QED
    BY <1>0, <2>1, <2>2
<1>3. Phase = "tuning" /\ Phase' = "tuning"
  BY DEF Phase
<1>4. IF t < bestTime THEN best' = arg[9] /\ bestTime' = t ELSE UNCHANGED <<best, bestTime>>
  BY <1>2
<1>5. A!Time(arg[9], t)
  BY <1>2, <1>3, <1>4 DEF A!Time, SaveFailed
<1> QED
  BY <1>1, <1>5 DEF AutotuneStep, A!Next

\* What is known of the program that is being saved: the file may be replaced.
LEMMA SavingIsPromised ==
  ASSUME TypeInv, SaveInv, saving # "no", pc = "search"
  PROVE  /\ best = arg[9] /\ best # None /\ file # best /\ level = 9
         /\ A!Saving
<1>1. level = 9 /\ best = arg[9] /\ file # best
  BY DEF SaveInv, Saving, TypeInv, TypeOK
<1>2. arg[9] \in Program
  <2>1. \A k \in 1..level : arg[k] \in Program
    BY DEF TypeInv, TypeOK
  <2> QED
    BY <1>1, <2>1
<1>3. best # None
  BY <1>1, <1>2, TunerAssumption
<1>4. Phase = "tuning"
  BY DEF Phase
<1> QED
  BY <1>1, <1>3, <1>4 DEF A!Saving

\* Removing the file begins an attempt to save; opening and writing it go on with it.
LEMMA SaveIsAutotuneStep ==
  ASSUME TypeInv, SaveInv, Save, pc = "search", pc' = pc
  PROVE  AutotuneStep
<1>1. saving # "no"
  BY DEF Save
<1>2. best = arg[9] /\ level = 9 /\ A!Saving
  BY <1>1, SavingIsPromised
<1>3. Phase' = Phase /\ UNCHANGED <<ran, best, bestTime>>
  BY DEF Save, Phase
<1>4. CASE saving = "remove"
  <2>1. file' \in {Absent, file} /\ failed' \subseteq {"remove"}
    BY <1>4 DEF Save
  <2>2. SaveFailed' = FALSE
    BY <2>1 DEF SaveFailed
  <2>3. A!Remove
    BY <1>2, <1>3, <2>1, <2>2 DEF A!Remove
  <2> QED
    BY <2>3 DEF AutotuneStep, A!Next
<1>5. CASE saving \in {"open", "write"}
  <2>1. CASE ~SaveFailed
    <3>1. file' = Partial \/ (file = Partial /\ file' = best)
      BY <1>2, <1>5 DEF Save, SaveInv, Saving
    <3>2. SaveFailed' = SaveFailed
      BY <1>5, <2>1 DEF Save, SaveFailed
    <3>3. A!Write
      BY <1>2, <1>3, <2>1, <3>1, <3>2 DEF A!Write
    <3> QED
      BY <3>3 DEF AutotuneStep, A!Next
  <2>2. CASE SaveFailed
    BY <1>5, <2>2 DEF SaveFailed, SaveInv, Saving
  <2> QED
    BY <2>1, <2>2
<1> QED
  BY <1>4, <1>5 DEF Save

\* Where the file cannot be opened or written, the attempt fails.
LEMMA FailIsAutotuneStep ==
  ASSUME TypeInv, SaveInv, pc = "search", pc' \in {"search", "aborted"},
         saving \in {"open", "write"}, failed' = failed \union {saving},
         file' \in {Absent, file}, UNCHANGED <<ran, best, bestTime>>
  PROVE  AutotuneStep
<1>1. A!Saving
  BY SavingIsPromised
<1>2. Phase' \in {"tuning", "aborted"}
  BY DEF Phase
<1>3. SaveFailed' = TRUE
  BY DEF SaveFailed
<1>4. A!Fail
  BY <1>1, <1>2, <1>3 DEF A!Fail
<1> QED
  BY <1>4 DEF AutotuneStep, A!Next

\* Every step of main is a step of the promised search, or does not show.
LEMMA NextIsAutotuneStep ==
  ASSUME TypeInv, SaveInv, RanInv, VariantsInv, [Next]_vars
  PROVE  AutotuneStep
<1>1. /\ pc = "tune" => Phase = "idle"
      /\ pc = "search" => Phase = "tuning"
      /\ pc \in {"opt", "emit", "done"} => Phase = "over"
      /\ pc = "aborted" => Phase = "aborted"
      /\ pc' = "search" => Phase' = "tuning"
      /\ pc' \in {"opt", "emit", "done"} => Phase' = "over"
      /\ pc' = "aborted" => Phase' = "aborted"
      /\ pc' = pc => Phase' = Phase
  BY DEF Phase
<1>2. CASE Tune \/ NoTune
  <2>1. A!Begin
    BY <1>1, <1>2 DEF Tune, Start, NoTune, tunerVars, A!Begin, SaveFailed
  <2> QED
    BY <2>1 DEF AutotuneStep, A!Next
<1>3. CASE Searching
  <2>0. pc = "search" /\ pc' = pc
    BY <1>3 DEF Searching
  <2>1. CASE Call \/ LeaveOut \/ Return \/ AlreadyRan
    BY <1>1, <2>0, <2>1 DEF Call, LeaveOut, Return, AlreadyRan, AutotuneStep, SaveFailed
  <2>2. CASE \E t \in Times : Evaluate(t)
    BY <2>0, <2>2, EvaluateIsAutotuneStep
  <2>3. CASE Save
    BY <2>0, <2>3, SaveIsAutotuneStep
  <2>4. CASE SaveFails
    BY <2>0, <2>4, FailIsAutotuneStep DEF SaveFails
  <2> QED
    BY <1>3, <2>1, <2>2, <2>3, <2>4 DEF Searching, Search
<1>4. CASE SearchAborts
  BY <1>4, FailIsAutotuneStep DEF SearchAborts
<1>5. CASE Tuned
  <2>1. /\ pc = "search" /\ pc' = "opt" /\ level = 0
        /\ UNCHANGED <<ran, best, bestTime, file, failed, flags, saving>>
    BY <1>5 DEF Tuned, tunerVars
  <2>2. saving = "no"
    <3>1. saving # "no" => level = 9
      BY DEF TypeInv, TypeOK
    <3> QED
      BY <2>1, <3>1
  <2>3. best # None => SaveFailed \/ file = best
    BY <2>1, <2>2 DEF SaveInv, SavedIsBest, SaveFailed
  <2>4. ran = {hash[p] : p \in Reached[9]}
    <3>1. ASSUME NEW p \in Reached[9] PROVE hash[p] \in ran
      <4>1. PICK ch, ix : IsChain(ch, ix) /\ ch[9] = p
        BY ReachedByChain
      <4>2. hash[ch[9]] \in ran \/ \E k \in 1..level : Pending(ch, ix, k)
        BY <2>1, <4>1 DEF VariantsInv
      <4> QED
        BY <2>1, <4>1, <4>2
    <3>2. ASSUME NEW h \in ran PROVE \E p \in Reached[9] : h = hash[p]
      <4>1. \A q \in timed : q.prog \in Reached[9]
        BY DEF VariantsInv
      <4> QED
        BY <4>1 DEF RanInv
    <3> QED
      BY <3>1, <3>2
  <2>5. A!End
    BY <1>1, <2>1, <2>3, <2>4 DEF A!End, SaveFailed
  <2> QED
    BY <2>5 DEF AutotuneStep, A!Next
<1>6. CASE Optimize
  BY <1>1, <1>6 DEF Optimize, tunerVars, AutotuneStep, SaveFailed
<1>7. CASE Emit \/ EmitFails
  <2>1. /\ pc = "emit" /\ pc' \in {"done", "aborted"}
        /\ UNCHANGED <<ran, best, bestTime, failed>>
        /\ file' \in {program, Absent, Partial, file}
    BY <1>7 DEF Emit, EmitFails
  <2>2. program \in Program
    BY DEF TypeInv, TypeOK
  <2>3. A!Emit
    BY <1>1, <2>1, <2>2 DEF A!Emit, SaveFailed
  <2> QED
    BY <2>3 DEF AutotuneStep, A!Next
<1>8. CASE UNCHANGED vars
  BY <1>1, <1>8 DEF vars, tunerVars, AutotuneStep, SaveFailed
<1> QED
  BY <1>2, <1>3, <1>4, <1>5, <1>6, <1>7, <1>8 DEF Next

\* optimizeEvaluate with its chain of passes, called by main, does what somebody may
\* expect who does not know of the passes: it times the candidates once each, replaces
\* its file only by a better program, and ends with the file of the best one or after
\* it failed to save that (writeFile, emitObject, and the calls of remove, whose result
\* nobody looks at).
THEOREM DriverImplementsAutotune == Spec => ImplementsAutotune
<1>1. Init => A!Init
  BY DEF Init, TunerInit, A!Init, Phase, SaveFailed
<1>2. Spec => []SaveInv
  BY TypeInvInvariant, SaveInit, SaveInvNext, PTL DEF Spec
<1>3. TypeInv /\ SaveInv /\ RanInv /\ VariantsInv /\ [Next]_vars => [A!Next]_(A!vars)
  BY NextIsAutotuneStep, AutotuneStepIsStep
<1>4. Spec => [][A!Next]_(A!vars)
  BY <1>2, <1>3, TypeInvInvariant, VariantsInvariant, PTL DEF Spec
<1> QED
  BY <1>1, <1>4, PTL DEF Spec, ImplementsAutotune, A!Spec
=============================================================================
