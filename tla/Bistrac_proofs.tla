---------------------------- MODULE Bistrac_proofs ----------------------------
(* Theorems about the driver and the autotuner, for every set of programs,   *)
(* every result of the transformations and every measured time.              *)
EXTENDS Bistrac, TLAPS, SequenceTheorems

USE DEF Evaluator

-----------------------------------------------------------------------------
(* The calls of a pass.                                                     *)

\* The variants of a pass are a sequence of programs, whatever its transformation
\* returns (doIt of the passes before the evaluator).
LEMMA CallsType ==
  ASSUME NEW k \in 1..8, NEW p \in Program
  PROVE  /\ Len(Calls(k, p)) \in Nat /\ DOMAIN Calls(k, p) = 1..Len(Calls(k, p))
         /\ \A i \in 1..Len(Calls(k, p)) : Calls(k, p)[i].prog \in Program
<1> USE TunerAssumption
<1>1. ASSUME NEW new \in Program \union {None}
      PROVE  LET c == ChangedThenOriginal(new, p)
             IN  /\ Len(c) \in Nat /\ DOMAIN c = 1..Len(c)
                 /\ \A i \in 1..Len(c) : c[i].prog \in Program
  <2>1. CASE new = None
    BY <2>1 DEF ChangedThenOriginal, Variant
  <2>2. CASE new # None
    <3> DEFINE c == <<Variant(new, TRUE), Variant(p, TRUE)>>
    <3>1. Len(c) = 2 /\ DOMAIN c = 1..2
      OBVIOUS
    <3>2. c[1].prog = new /\ c[2].prog = p
      BY DEF Variant
    <3>3. c = ChangedThenOriginal(new, p)
      BY <2>2 DEF ChangedThenOriginal
    <3>4. new \in Program
      BY <1>1, <2>2
    <3> HIDE DEF c
    <3>5. \A i \in 1..Len(c) : i = 1 \/ i = 2
      BY <3>1
    <3>6. \A i \in 1..Len(c) : c[i].prog \in Program
      BY <3>2, <3>4, <3>5
    <3>7. Len(c) \in Nat /\ DOMAIN c = 1..Len(c)
      BY <3>1
    <3> QED  BY <3>3, <3>6, <3>7
  <2> QED  BY <2>1, <2>2
<1>2. LET c == TileCalls(p)
      IN  /\ Len(c) \in Nat /\ DOMAIN c = 1..Len(c)
          /\ \A i \in 1..Len(c) : c[i].prog \in Program
  BY DEF TileCalls, Variant, Attempt
<1>3. LET c == WidenCalls(p)
      IN  /\ Len(c) \in Nat /\ DOMAIN c = 1..Len(c)
          /\ \A i \in 1..Len(c) : c[i].prog \in Program
  BY DEF WidenCalls, Variant, Attempt
<1>4. CASE k = 1  BY <1>4 DEF Calls, DistributeCalls, Variant
<1>5. CASE k = 2  BY <1>1, <1>5 DEF Calls, InterchangeCalls
<1>6. CASE k = 3  BY <1>2, <1>6 DEF Calls
<1>7. CASE k = 4  BY <1>1, <1>7 DEF Calls, FuseCalls
<1>8. CASE k = 5  BY <1>1, <1>8 DEF Calls, VectorizeCalls
<1>9. CASE k = 6  BY <1>3, <1>9 DEF Calls
<1>10. CASE k = 7  BY <1>10 DEF Calls, PromoteCalls, Variant
<1>11. CASE k = 8  BY <1>11 DEF Calls, FilterCalls, Variant
<1> QED  BY <1>4, <1>5, <1>6, <1>7, <1>8, <1>9, <1>10, <1>11

\* Pass k, called with p, calls the next pass on q, as its call number i.
Passes(k, p, i, q) ==
  /\ i \in 1..Len(Calls(k, p))
  /\ Calls(k, p)[i].called /\ Calls(k, p)[i].prog = q

\* The definition of Reached is recursive; it has a solution.
LEMMA ReachedIs ==
  /\ Reached[1] = {Input}
  /\ \A k \in 1..8 : Reached[k + 1] =
       UNION {LET c == Calls(k, p)
              IN  {c[i].prog : i \in {j \in DOMAIN c : c[j].called}} : p \in Reached[k]}
<1> DEFINE Step(k, S) ==
             UNION {LET c == Calls(k, p)
                    IN  {c[i].prog : i \in {j \in DOMAIN c : c[j].called}} : p \in S}
           Solves(f) == f = [k \in 1..9 |-> IF k = 1 THEN {Input} ELSE Step(k - 1, f[k - 1])]
<1>1. \E f : Solves(f)
  <2> DEFINE R1 == {Input}      R2 == Step(1, R1)  R3 == Step(2, R2)
             R4 == Step(3, R3)  R5 == Step(4, R4)  R6 == Step(5, R5)
             R7 == Step(6, R6)  R8 == Step(7, R7)  R9 == Step(8, R8)
             r == <<R1, R2, R3, R4, R5, R6, R7, R8, R9>>
  <2>0. R1 = {Input}
    OBVIOUS
  <2>1. R2 = Step(1, R1) /\ R3 = Step(2, R2) /\ R4 = Step(3, R3) /\ R5 = Step(4, R4)
    OBVIOUS
  <2>2. R6 = Step(5, R5) /\ R7 = Step(6, R6) /\ R8 = Step(7, R7) /\ R9 = Step(8, R8)
    OBVIOUS
  <2> HIDE DEF Step, R1, R2, R3, R4, R5, R6, R7, R8, R9
  <2>3. r[1] = {Input} /\ \A k \in 1..8 : r[k + 1] = Step(k, r[k])
    BY <2>0, <2>1, <2>2
  <2> DEFINE f == [k \in 1..9 |-> r[k]]
  <2> HIDE DEF r
  <2>4. f[1] = {Input} /\ \A k \in 1..8 : f[k + 1] = Step(k, f[k])
    BY <2>3
  <2>5. f = [k \in 1..9 |-> f[k]]
    OBVIOUS
  <2> HIDE DEF f
  <2>6. ASSUME NEW k \in 1..9
        PROVE  f[k] = IF k = 1 THEN {Input} ELSE Step(k - 1, f[k - 1])
    <3>1. CASE k = 1
      BY <2>4, <3>1
    <3>2. CASE k # 1
      <4>1. k - 1 \in 1..8 /\ (k - 1) + 1 = k
        BY <3>2
      <4> QED  BY <2>4, <3>2, <4>1
    <3> QED  BY <3>1, <3>2
  <2>7. Solves(f)
    BY <2>5, <2>6
  <2> QED  BY <2>7
<1>2. Reached = CHOOSE f : Solves(f)
  BY DEF Reached
<1>3. Solves(Reached)
  <2> HIDE DEF Solves
  <2> QED  BY <1>1, <1>2
<1> HIDE DEF Step
<1>4. Reached[1] = {Input} /\ \A k \in 1..8 : Reached[k + 1] = Step(k, Reached[k])
  BY <1>3
<1> QED  BY <1>4 DEF Step

-----------------------------------------------------------------------------
(* Types.                                                                   *)

\* The search runs only inside optimizeEvaluate, which main calls on the program
\* that it read, before anything was timed.
DriverOK ==
  /\ pc \notin {"search", "aborted"} => level = 0
  /\ pc = "tune" => program = Input /\ best = None

TypeInv == TypeOK /\ DriverOK

\* main starts with well typed state, before optimizeEvaluate.
LEMMA TypeInvInit == Init => TypeInv
  BY TunerAssumption, BistracAssumption DEF Init, TunerInit, TypeInv, TypeOK, DriverOK

\* Every step of the search keeps the types.
LEMMA SearchType ==
  ASSUME TypeInv, Searching
  PROVE  TypeInv'
<1>0. /\ level \in 0..9 /\ pc = "search" /\ UNCHANGED <<flags, program, pc>>
      /\ arg \in [1..9 -> Program \union {None}]
      /\ \A k \in 1..level : arg[k] \in Program
      /\ pos \in [1..9 -> Nat]
      /\ saving # "no" => level = 9
  BY DEF Searching, TypeInv, TypeOK
<1>1. CASE Call
  <2> DEFINE c == Calls(level, arg[level])
             v == c[pos[level] + 1]
  <2>1. level \in 1..8 /\ arg[level] \in Program /\ pos[level] \in Nat
    BY <1>0, <1>1 DEF Call
  <2>2. v.prog \in Program
    <3>1. Len(c) \in Nat /\ \A i \in 1..Len(c) : c[i].prog \in Program
      BY <2>1, CallsType
    <3>2. pos[level] < Len(c)
      BY <1>1 DEF Call, MoreCalls
    <3> HIDE DEF c
    <3> QED  BY <2>1, <3>1, <3>2
  <2>3. /\ level' = level + 1
        /\ arg' = [arg EXCEPT ![level + 1] = v.prog]
        /\ pos' = [[pos EXCEPT ![level] = @ + 1] EXCEPT ![level + 1] = 0]
        /\ UNCHANGED <<ran, best, bestTime, saving, file, failed, timed>>
    BY <1>1 DEF Call, Advance
  <2> HIDE DEF v
  <2>4. /\ level' \in 0..9
        /\ arg' \in [1..9 -> Program \union {None}]
        /\ \A k \in 1..level' : arg'[k] \in Program
        /\ pos' \in [1..9 -> Nat]
        /\ saving' # "no" => level' = 9
    BY <1>0, <2>1, <2>2, <2>3
  <2> QED  BY <1>0, <2>3, <2>4 DEF TypeInv, TypeOK, DriverOK
<1>2. CASE LeaveOut
  <2>1. /\ pos' = [pos EXCEPT ![level] = @ + 1] /\ level \in 1..8
        /\ UNCHANGED <<level, arg, ran, best, bestTime, saving, file, failed, timed>>
    BY <1>2 DEF LeaveOut, Advance
  <2>2. pos' \in [1..9 -> Nat]
    BY <1>0, <2>1
  <2> QED  BY <1>0, <2>1, <2>2 DEF TypeInv, TypeOK, DriverOK
<1>3. CASE Return
  BY <1>0, <1>3 DEF Return, TypeInv, TypeOK, DriverOK
<1>4. CASE AlreadyRan
  BY <1>0, <1>4 DEF AlreadyRan, TypeInv, TypeOK, DriverOK
<1>5. ASSUME NEW t \in Times, Evaluate(t)
      PROVE  TypeInv'
  <2>1. /\ level = 9 /\ saving = "no" /\ arg[9] \in Program
        /\ hash[arg[9]] \in Hash /\ Times \subseteq Nat
    BY <1>0, <1>5, TunerAssumption DEF Evaluate
  <2>2. /\ ran \subseteq Hash /\ best \in Program \union {None} /\ bestTime \in Nat
        /\ timed \subseteq [prog : Program, time : Times]
    BY DEF TypeInv, TypeOK
  <2>3. ran' \subseteq Hash /\ timed' \subseteq [prog : Program, time : Times]
    BY <1>5, <2>1, <2>2 DEF Evaluate
  <2>4. best' \in Program \union {None} /\ bestTime' \in Nat
    BY <1>5, <2>1, <2>2 DEF Evaluate
  <2>5. /\ level' \in {8, 9} /\ saving' \in {"no", "remove"} /\ UNCHANGED <<arg, pos, file, failed>>
        /\ saving' # "no" => level' = 9
    BY <1>5, <2>1 DEF Evaluate, SaveAfter
  <2> QED  BY <1>0, <2>1, <2>3, <2>4, <2>5 DEF TypeInv, TypeOK, DriverOK
<1>6. CASE Save
  <2>1. /\ level = 9 /\ arg[9] \in Program /\ level' \in {8, 9}
        /\ UNCHANGED <<arg, pos, ran, best, bestTime, timed>>
        /\ saving' \in {"no", "open", "write"} /\ (saving' # "no" => level' = 9)
    BY <1>0, <1>6 DEF Save
  <2>2. file' \in Program \union {Absent, Partial, Earlier}
    BY <1>6, <2>1 DEF Save, TypeInv, TypeOK
  <2>3. failed' \subseteq {"remove", "open", "write"}
    BY <1>6 DEF Save, TypeInv, TypeOK
  <2> QED  BY <1>0, <2>1, <2>2, <2>3 DEF TypeInv, TypeOK, DriverOK
<1>7. CASE SaveFails
  BY <1>0, <1>7 DEF SaveFails, TypeInv, TypeOK, DriverOK
<1> QED  BY <1>1, <1>2, <1>3, <1>4, <1>5, <1>6, <1>7 DEF Searching, Search

\* Every step of main keeps the types.
LEMMA TypeInvNext ==
  ASSUME TypeInv, [Next]_vars
  PROVE  TypeInv'
<1>1. CASE Tune
  <2>1. /\ level = 0 /\ level' = 1 /\ pc' = "search" /\ UNCHANGED <<flags, program>>
        /\ arg' = [arg EXCEPT ![1] = program] /\ pos' = [pos EXCEPT ![1] = 0]
        /\ UNCHANGED <<ran, best, bestTime, saving, file, failed, timed>>
    BY <1>1 DEF Tune, Start
  <2>2. /\ arg' \in [1..9 -> Program \union {None}] /\ arg'[1] \in Program
        /\ pos' \in [1..9 -> Nat] /\ saving = "no"
    BY <2>1 DEF TypeInv, TypeOK
  <2> QED  BY <2>1, <2>2 DEF TypeInv, TypeOK, DriverOK
<1>2. CASE NoTune
  BY <1>2 DEF NoTune, tunerVars, TypeInv, TypeOK, DriverOK
<1>3. CASE Searching
  BY <1>3, SearchType
<1>4. CASE Tuned
  BY <1>4 DEF Tuned, tunerVars, TypeInv, TypeOK, DriverOK
<1>5. CASE Optimize
  BY <1>5, BistracAssumption DEF Optimize, tunerVars, TypeInv, TypeOK, DriverOK
<1>6. CASE Emit
  BY <1>6 DEF Emit, TypeInv, TypeOK, DriverOK
<1>7. CASE SearchAborts
  BY <1>7 DEF SearchAborts, TypeInv, TypeOK, DriverOK
<1>8. CASE EmitFails
  BY <1>8 DEF EmitFails, TypeInv, TypeOK, DriverOK
<1>9. CASE UNCHANGED vars
  BY <1>9 DEF vars, tunerVars, TypeInv, TypeOK, DriverOK
<1> QED  BY <1>1, <1>2, <1>3, <1>4, <1>5, <1>6, <1>7, <1>8, <1>9 DEF Next

\* The types hold in every state of main and the search.
LEMMA TypeInvInvariant == Spec => []TypeInv
  BY TypeInvInit, TypeInvNext, PTL DEF Spec

\* The state of the search is well typed; in particular no pass is called on a
\* variant that was not made (the null program of a pass that changed nothing).
THEOREM TypeCorrect == Spec => []TypeOK
  BY TypeInvInvariant, PTL DEF TypeInv

-----------------------------------------------------------------------------
(* The evaluator.                                                           *)

\* What EvaluatorPass leaves alone outside of doIt.
evaluatorVars == <<ran, best, bestTime, saving, timed>>

\* Every step but a timing and the saving leaves the evaluator alone; the file and
\* the history of its failures change only with those, and when main ends.
LEMMA EvaluatorSteps ==
  ASSUME [Next]_vars
  PROVE  \/ pc = "search" /\ (\E t \in Times : Evaluate(t)) /\ UNCHANGED <<flags, pc>>
         \/ pc = "search" /\ Save /\ UNCHANGED <<flags, pc>>
         \/ /\ pc = "search" /\ (saving = "open" => flags.object) /\ SaveFails
            /\ UNCHANGED <<flags, pc>>
         \/ UNCHANGED <<evaluatorVars, file, failed, flags, pc>>
         \/ pc = "tune" /\ UNCHANGED <<evaluatorVars, file, failed, flags>>
         \/ /\ pc = "search" /\ level = 0 /\ pc' = "opt"
            /\ UNCHANGED <<evaluatorVars, file, failed, flags>>
         \/ pc' \in {"emit", "done", "aborted"} /\ UNCHANGED evaluatorVars
<1> USE DEF evaluatorVars, tunerVars
<1>1. CASE Tune       BY <1>1 DEF Tune, Start
<1>2. CASE NoTune     BY <1>2 DEF NoTune
<1>3. CASE Searching
  BY <1>3 DEF Searching, Search, Call, LeaveOut, Return, AlreadyRan
<1>4. CASE Tuned      BY <1>4 DEF Tuned
<1>5. CASE Optimize   BY <1>5 DEF Optimize
<1>6. CASE Emit       BY <1>6 DEF Emit
<1>7. CASE SearchAborts  BY <1>7 DEF SearchAborts
<1>8. CASE EmitFails  BY <1>8 DEF EmitFails
<1>9. CASE UNCHANGED vars  BY <1>9 DEF vars
<1> QED  BY <1>1, <1>2, <1>3, <1>4, <1>5, <1>6, <1>7, <1>8, <1>9 DEF Next

\* EvaluatorPass starts without a best program, at its initial time.
LEMMA BestInit == Init => BestIsFastest
  BY DEF Init, TunerInit, BestIsFastest

\* Timing a program keeps the fastest one as the best; no other step of main
\* touches it.
LEMMA BestNext ==
  ASSUME TypeInv, BestIsFastest, [Next]_vars
  PROVE  BestIsFastest'
<1>1. ASSUME NEW t \in Times, Evaluate(t)
      PROVE  BestIsFastest'
  <2>1. /\ bestTime \in Nat /\ t \in Nat /\ NotFaster \in Nat
        /\ arg[9] \in Program /\ level = 9
        /\ \A r \in timed : r.time \in Nat
    <3>1. level = 9 /\ arg[9] \in Program
      BY <1>1 DEF Evaluate, TypeInv, TypeOK
    <3>2. bestTime \in Nat /\ timed \subseteq [prog : Program, time : Times]
      BY DEF TypeInv, TypeOK
    <3>3. Times \subseteq Nat /\ NotFaster \in Nat
      BY TunerAssumption
    <3> QED  BY <3>1, <3>2, <3>3
  <2>2. /\ timed' = timed \union {[prog |-> arg[9], time |-> t]}
        /\ best' = IF t < bestTime THEN arg[9] ELSE best
        /\ bestTime' = IF t < bestTime THEN t ELSE bestTime
    BY <1>1 DEF Evaluate, IsBest
  <2>3. bestTime <= NotFaster
    BY <2>1 DEF BestIsFastest
  <2>4. \A r \in timed' : bestTime' <= r.time
    BY <2>1, <2>2 DEF BestIsFastest
  <2>5. CASE t < bestTime
    BY <2>1, <2>2, <2>3, <2>4, <2>5, TunerAssumption DEF BestIsFastest
  <2>6. CASE ~(t < bestTime)
    BY <2>2, <2>4, <2>6 DEF BestIsFastest
  <2> QED  BY <2>5, <2>6
<1>2. CASE Save \/ SaveFails
  BY <1>2 DEF Save, SaveFails, BestIsFastest
<1>3. CASE UNCHANGED evaluatorVars
  BY <1>3 DEF evaluatorVars, BestIsFastest
<1> QED  BY <1>1, <1>2, <1>3, EvaluatorSteps

\* EvaluatorPass keeps the fastest of the programs it timed, for every chain of
\* variants that reaches it.
THEOREM BestFastest == Spec => []BestIsFastest
  BY TypeInvInvariant, BestInit, BestNext, PTL DEF Spec

\* The program that is being saved is the best one; it has been timed and is not in the
\* file yet.  The file is gone before a new one is opened, unless it could not be
\* removed, and open while the program is written.  While the search runs, the
\* programs that may be in the file have been timed.
Saving ==
  /\ saving # "no" =>
       /\ best = arg[Evaluator] /\ hash[arg[Evaluator]] \in ran
       /\ file # best
       /\ pc \in {"search", "aborted"}
  /\ saving = "open" => /\ "remove" \in failed \/ file = Absent
                        /\ pc = "search" => failed \subseteq {"remove"}
  /\ saving = "write" => file = Partial /\ (pc = "search" => failed = {})
  /\ pc \in {"tune", "search"} /\ file \in Program => hash[file] \in ran

SaveInv == SavedIsBest /\ Saving

\* At the start there is nothing to save.
LEMMA SaveInit == Init => SaveInv
  BY TunerAssumption DEF Init, TunerInit, SaveInv, SavedIsBest, Saving

\* A new best program was never in the file: it would have been timed.
LEMMA EvaluateSaves ==
  ASSUME TypeInv, SaveInv, NEW t \in Times, Evaluate(t), pc = "search", UNCHANGED <<flags, pc>>
  PROVE  SaveInv'
<1>1. /\ saving = "no" /\ level = 9 /\ arg[9] \in Program /\ arg' = arg
      /\ ran' = ran \union {hash[arg[9]]} /\ file' = file /\ failed' = failed
      /\ hash[arg[9]] \notin ran
  BY DEF Evaluate, IsNew, TypeInv, TypeOK
<1>2. file \in Program => hash[file] \in ran
  BY DEF SaveInv, Saving
<1>3. file # arg[9]
  BY <1>1, <1>2
<1>4. CASE IsBest(t)
  <2>1. best' = arg[9] /\ saving' = "remove"
    BY <1>1, <1>4 DEF Evaluate, SaveAfter
  <2> QED  BY <1>1, <1>2, <1>3, <2>1 DEF SaveInv, SavedIsBest, Saving
<1>5. CASE ~IsBest(t)
  <2>1. best' = best /\ saving' = "no"
    BY <1>1, <1>5 DEF Evaluate, SaveAfter
  <2> QED  BY <1>1, <1>2, <2>1 DEF SaveInv, SavedIsBest, Saving
<1> QED  BY <1>4, <1>5

\* Removing, opening and writing the file.
LEMMA SaveSaves ==
  ASSUME TypeInv, SaveInv, Save, pc = "search", UNCHANGED <<flags, pc>>
  PROVE  SaveInv'
<1>1. /\ level = 9 /\ arg[9] \in Program /\ UNCHANGED <<arg, ran, best>>
      /\ saving # "no" /\ best = arg[9] /\ hash[arg[9]] \in ran /\ file # best
      /\ file \in Program => hash[file] \in ran
  BY DEF Save, SaveInv, Saving, TypeInv, TypeOK
<1>2. Absent \notin Program /\ Partial \notin Program
  BY TunerAssumption
<1>3. CASE saving = "remove"
  <2>1. /\ saving' = "open" /\ file' \in {Absent, file}
        /\ "remove" \in failed' \/ file' = Absent
        /\ failed' \subseteq {"remove"}
    BY <1>3 DEF Save
  <2> QED  BY <1>1, <1>2, <2>1 DEF SaveInv, SavedIsBest, Saving
<1>4. CASE saving = "open"
  <2>1. saving' = "write" /\ file' = Partial /\ failed' = {}
    BY <1>4 DEF Save
  <2> QED  BY <1>1, <1>2, <2>1 DEF SaveInv, SavedIsBest, Saving
<1>5. CASE saving = "write"
  <2>1. saving' = "no" /\ file' = best /\ failed' = failed
    BY <1>1, <1>5 DEF Save
  <2>2. failed = {}
    BY <1>5 DEF SaveInv, Saving
  <2> QED  BY <1>1, <2>1, <2>2 DEF SaveInv, SavedIsBest, Saving
<1> QED  BY <1>3, <1>4, <1>5 DEF Save

\* The file stays as it is when it cannot be opened, or not be written to its end.
LEMMA SaveFailsSaves ==
  ASSUME TypeInv, SaveInv, SaveFails, saving = "open" => flags.object,
         pc = "search", UNCHANGED <<flags, pc>>
  PROVE  SaveInv'
<1>1. /\ UNCHANGED <<ran, best, file>> /\ saving \in {"open", "write"} /\ saving' = "no"
      /\ failed' = failed \union {saving}
      /\ file \in Program => hash[file] \in ran
  BY DEF SaveFails, SaveInv, Saving
<1>2. CASE saving = "open"
  <2>1. flags'.object /\ ("remove" \in failed \/ file = Absent)
    BY <1>2 DEF SaveInv, Saving
  <2> QED  BY <1>1, <1>2, <2>1 DEF SaveInv, SavedIsBest, Saving
<1>3. CASE saving = "write"
  <2>1. failed = {} /\ file = Partial
    BY <1>3 DEF SaveInv, Saving
  <2>2. failed' = {"write"}
    BY <1>1, <1>3, <2>1
  <2> QED  BY <1>1, <2>1, <2>2 DEF SaveInv, SavedIsBest, Saving
<1> QED  BY <1>1, <1>2, <1>3

\* Every step keeps the best program in the file, or is on the way of saving it.
LEMMA SaveInvNext ==
  ASSUME TypeInv, SaveInv, [Next]_vars
  PROVE  SaveInv'
<1>1. CASE Tune \/ NoTune
  <2>1. /\ best = None /\ saving = "no" /\ UNCHANGED <<best, saving, ran, file>>
        /\ file \in Program => hash[file] \in ran
    <3>1. pc = "tune"
      BY <1>1 DEF Tune, NoTune
    <3> QED
      BY <1>1, <3>1 DEF Tune, Start, NoTune, tunerVars, TypeInv, DriverOK, SaveInv, Saving
  <2> QED  BY <2>1 DEF SaveInv, SavedIsBest, Saving
<1>2. CASE Searching
  <2>0. pc = "search" /\ UNCHANGED <<flags, pc>>
    BY <1>2 DEF Searching
  <2>1. CASE Call \/ LeaveOut \/ Return \/ AlreadyRan
    <3>1. CASE saving = "no"
      <4>1. UNCHANGED <<ran, best, saving, file, failed>>
        BY <2>1 DEF Call, LeaveOut, Return, AlreadyRan
      <4> QED  BY <2>0, <3>1, <4>1 DEF SaveInv, SavedIsBest, Saving
    <3>2. CASE saving # "no"
      <4>1. level = 9
        BY <3>2 DEF TypeInv, TypeOK
      <4> QED  BY <2>1, <3>2, <4>1 DEF Call, LeaveOut, Return, AlreadyRan
    <3> QED  BY <3>1, <3>2
  <2>2. CASE \E t \in Times : Evaluate(t)
    BY <2>0, <2>2, EvaluateSaves
  <2>3. CASE Save
    BY <2>0, <2>3, SaveSaves
  <2>4. CASE (saving = "open" => flags.object) /\ SaveFails
    BY <2>0, <2>4, SaveFailsSaves
  <2> QED  BY <1>2, <2>1, <2>2, <2>3, <2>4 DEF Searching, Search
<1>3. CASE SearchAborts
  <2>1. /\ UNCHANGED <<arg, ran, best, saving>> /\ pc' = "aborted"
        /\ failed' = failed \union {saving}
        /\ saving \in {"open", "write"} /\ file' \in {Absent, file}
        /\ saving = "write" => file' = file
    BY <1>3 DEF SearchAborts
  <2>2. best = arg[9] /\ arg[9] \in Program /\ Absent \notin Program
    BY <1>3, <2>1, TunerAssumption DEF TypeInv, TypeOK, SaveInv, Saving
  <2>3. SavedIsBest'
    BY <2>1 DEF SavedIsBest
  <2>4. Saving'
    BY <2>1, <2>2 DEF SaveInv, Saving
  <2> QED  BY <2>3, <2>4 DEF SaveInv
\* The other steps are taken while nothing is being saved.
<1>4. saving # "no" => level = 9 /\ pc \in {"search", "aborted"}
  BY DEF TypeInv, TypeOK, SaveInv, Saving
<1>5. CASE Tuned
  <2>1. /\ pc = "search" /\ saving = "no" /\ pc' = "opt"
        /\ UNCHANGED <<best, saving, file, failed, flags>>
    BY <1>4, <1>5 DEF Tuned, tunerVars
  <2> QED  BY <2>1 DEF SaveInv, SavedIsBest, Saving
<1>6. CASE Optimize \/ Emit \/ EmitFails
  <2>1. saving = "no" /\ saving' = saving /\ pc' \in {"emit", "done", "aborted"}
    BY <1>4, <1>6 DEF Optimize, Emit, EmitFails, tunerVars
  <2> QED  BY <2>1 DEF SaveInv, SavedIsBest, Saving
<1>7. CASE UNCHANGED vars
  BY <1>7 DEF vars, tunerVars, SaveInv, SavedIsBest, Saving
<1> QED  BY <1>1, <1>2, <1>3, <1>5, <1>6, <1>7 DEF Next


\* Whenever EvaluatorPass is not in the middle of saving, the file is its best
\* program, so that a search that is interrupted leaves its best result; unless remove,
\* whose result nobody looks at, emitObject or writeFile failed: then it is incomplete,
\* or missing, and an older program only when an object file could neither be removed
\* nor opened.
THEOREM SavedBest == Spec => []SavedIsBest
<1>1. Spec => []SaveInv
  BY TypeInvInvariant, SaveInit, SaveInvNext, PTL DEF Spec
<1> QED  BY <1>1, PTL DEF SaveInv

-----------------------------------------------------------------------------
(* Every variant reaches the evaluator.                                     *)

\* alreadyRan_ holds the hashes of the programs that were timed.
RanInv == ran = {hash[r.prog] : r \in timed}

\* EvaluatorPass::doIt remembers the hash of a program exactly when it times it.
LEMMA RanInvNext ==
  ASSUME RanInv, [Next]_vars
  PROVE  RanInv'
<1>1. ASSUME NEW t \in Times, Evaluate(t)
      PROVE  RanInv'
  <2>1. /\ ran' = ran \union {hash[arg[level]]}
        /\ timed' = timed \union {[prog |-> arg[level], time |-> t]}
    BY <1>1 DEF Evaluate
  <2> DEFINE r == [prog |-> arg[level], time |-> t]
  <2>2. r.prog = arg[level]
    OBVIOUS
  <2> HIDE DEF r
  <2>3. ASSUME NEW h
        PROVE  h \in ran' <=> \E q \in timed' : h = hash[q.prog]
    BY <2>1, <2>2 DEF RanInv, r
  <2> QED  BY <2>3 DEF RanInv
<1>2. CASE Save \/ SaveFails
  BY <1>2 DEF Save, SaveFails, RanInv
<1>3. CASE UNCHANGED evaluatorVars
  BY <1>3 DEF evaluatorVars, RanInv
<1> QED  BY <1>1, <1>2, <1>3, EvaluatorSteps

\* The programs that the passes are called with are those of the definition.
LEMMA ReachedCalls ==
  /\ \A k \in 1..9 : Reached[k] \subseteq Program
  /\ \A k \in 1..8 : \A q :
       q \in Reached[k + 1] <=> \E p, i : p \in Reached[k] /\ Passes(k, p, i, q)
<1>1. ASSUME NEW k \in 1..8, Reached[k] \subseteq Program
      PROVE  \A q : q \in Reached[k + 1] <=> \E p, i : p \in Reached[k] /\ Passes(k, p, i, q)
  <2>1. \A p \in Reached[k] : DOMAIN Calls(k, p) = 1..Len(Calls(k, p))
    BY <1>1, CallsType
  <2>2. Reached[k + 1] =
          UNION {LET c == Calls(k, p)
                 IN  {c[i].prog : i \in {j \in DOMAIN c : c[j].called}} : p \in Reached[k]}
    BY ReachedIs
  <2> QED  BY <2>1, <2>2 DEF Passes
<1>2. ASSUME NEW k \in 1..8, Reached[k] \subseteq Program
      PROVE  Reached[k + 1] \subseteq Program
  <2> SUFFICES ASSUME NEW q \in Reached[k + 1] PROVE q \in Program
    OBVIOUS
  <2>1. PICK p, i : p \in Reached[k] /\ Passes(k, p, i, q)
    BY <1>1, <1>2
  <2> QED  BY <1>2, <2>1, CallsType DEF Passes
<1>3. Reached[1] \subseteq Program
  BY ReachedIs, BistracAssumption
<1>4. Reached[2] \subseteq Program  BY <1>2, <1>3
<1>5. Reached[3] \subseteq Program  BY <1>2, <1>4
<1>6. Reached[4] \subseteq Program  BY <1>2, <1>5
<1>7. Reached[5] \subseteq Program  BY <1>2, <1>6
<1>8. Reached[6] \subseteq Program  BY <1>2, <1>7
<1>9. Reached[7] \subseteq Program  BY <1>2, <1>8
<1>10. Reached[8] \subseteq Program  BY <1>2, <1>9
<1>11. Reached[9] \subseteq Program  BY <1>2, <1>10
<1>12. ASSUME NEW k \in 1..9 PROVE Reached[k] \subseteq Program
  <2>1. k \in {1, 2, 3, 4, 5, 6, 7, 8, 9}
    OBVIOUS
  <2> QED  BY <2>1, <1>3, <1>4, <1>5, <1>6, <1>7, <1>8, <1>9, <1>10, <1>11
<1> QED  BY <1>1, <1>12

\* A chain of calls: the programs that the passes are called with, one after the
\* other, and the number of the call in each pass.
IsChain(ch, ix) ==
  /\ ch[1] = Input
  /\ \A k \in 1..9 : ch[k] \in Program
  /\ \A k \in 1..8 : Passes(k, ch[k], ix[k], ch[k + 1])

\* Every program that should reach the evaluator does so along a chain.
LEMMA ReachedByChain ==
  ASSUME NEW p9 \in Reached[9]
  PROVE  \E ch, ix : IsChain(ch, ix) /\ ch[9] = p9
<1>0. ASSUME NEW k \in 1..8, NEW q \in Reached[k + 1]
      PROVE  \E p, i : p \in Reached[k] /\ Passes(k, p, i, q)
  BY ReachedCalls
<1>8. PICK p8, i8 : p8 \in Reached[8] /\ Passes(8, p8, i8, p9)  BY <1>0
<1>7. PICK p7, i7 : p7 \in Reached[7] /\ Passes(7, p7, i7, p8)  BY <1>0, <1>8
<1>6. PICK p6, i6 : p6 \in Reached[6] /\ Passes(6, p6, i6, p7)  BY <1>0, <1>7
<1>5. PICK p5, i5 : p5 \in Reached[5] /\ Passes(5, p5, i5, p6)  BY <1>0, <1>6
<1>4. PICK p4, i4 : p4 \in Reached[4] /\ Passes(4, p4, i4, p5)  BY <1>0, <1>5
<1>3. PICK p3, i3 : p3 \in Reached[3] /\ Passes(3, p3, i3, p4)  BY <1>0, <1>4
<1>2. PICK p2, i2 : p2 \in Reached[2] /\ Passes(2, p2, i2, p3)  BY <1>0, <1>3
<1>1. PICK p1, i1 : p1 \in Reached[1] /\ Passes(1, p1, i1, p2)  BY <1>0, <1>2
<1> DEFINE ch == <<p1, p2, p3, p4, p5, p6, p7, p8, p9>>
           ix == <<i1, i2, i3, i4, i5, i6, i7, i8>>
<1>9. ch[1] = Input /\ ch[9] = p9
  BY <1>1, ReachedIs
<1>10. \A k \in 1..9 : ch[k] \in Reached[k]
  BY <1>1, <1>2, <1>3, <1>4, <1>5, <1>6, <1>7, <1>8
<1>11. ASSUME NEW k \in 1..8 PROVE Passes(k, ch[k], ix[k], ch[k + 1])
  BY <1>1, <1>2, <1>3, <1>4, <1>5, <1>6, <1>7, <1>8
<1> HIDE DEF ch, ix
<1>12. IsChain(ch, ix)
  BY <1>9, <1>10, <1>11, ReachedCalls DEF IsChain
<1> QED  BY <1>9, <1>12

\* Along the chain it is the turn of pass k: it is active, and was called with the
\* program of the chain, but has not made the call of the chain yet.
Pending(ch, ix, k) == arg[k] = ch[k] /\ (k # Evaluator => pos[k] < ix[k])

\* While the search runs the last program of each chain was timed, or it is the
\* turn of some active pass; and nothing else was called.
VariantsInv ==
  /\ \A k \in 1..level : arg[k] \in Reached[k]
  /\ \A r \in timed : r.prog \in Reached[Evaluator]
  /\ \A ch, ix : IsChain(ch, ix) =>
       /\ pc = "search" => hash[ch[9]] \in ran \/ \E k \in 1..level : Pending(ch, ix, k)
       /\ pc = "opt" /\ flags.tune => hash[ch[9]] \in ran

\* The call of the active pass.
LEMMA CallPasses ==
  ASSUME TypeInv, Call
  PROVE  \E q \in Program :
           /\ level \in 1..8 /\ arg[level] \in Program /\ pos[level] \in Nat
           /\ Passes(level, arg[level], pos[level] + 1, q)
           /\ level' = level + 1
           /\ arg' = [arg EXCEPT ![level + 1] = q]
           /\ pos' = [[pos EXCEPT ![level] = @ + 1] EXCEPT ![level + 1] = 0]
           /\ UNCHANGED <<ran, timed>>
<1> DEFINE c == Calls(level, arg[level])
           v == c[pos[level] + 1]
<1>1. level \in 1..8 /\ arg[level] \in Program /\ pos[level] \in Nat
  BY DEF Call, TypeInv, TypeOK
<1>2. Len(c) \in Nat /\ \A i \in 1..Len(c) : c[i].prog \in Program
  BY <1>1, CallsType
<1>3. pos[level] < Len(c)
  BY DEF Call, MoreCalls
<1>4. /\ level' = level + 1
      /\ arg' = [arg EXCEPT ![level + 1] = v.prog]
      /\ pos' = [[pos EXCEPT ![level] = @ + 1] EXCEPT ![level + 1] = 0]
      /\ UNCHANGED <<ran, timed>> /\ v.called
  BY DEF Call, Advance
<1> HIDE DEF c
<1>5. pos[level] + 1 \in 1..Len(c) /\ v.prog \in Program
  BY <1>1, <1>2, <1>3
<1>6. Passes(level, arg[level], pos[level] + 1, v.prog)
  BY <1>4, <1>5 DEF Passes, c
<1> HIDE DEF v
<1> QED  BY <1>1, <1>4, <1>5, <1>6

\* A step of the search does not lose the last program of a chain.
LEMMA SearchPending ==
  ASSUME TypeInv, Saving, Searching, NEW ch, NEW ix, IsChain(ch, ix),
         hash[ch[9]] \in ran \/ \E k \in 1..level : Pending(ch, ix, k)
  PROVE  hash[ch[9]] \in ran' \/ \E k \in 1..level' : Pending(ch, ix, k)'
<1>0. /\ level \in 0..9
      /\ arg \in [1..9 -> Program \union {None}]
      /\ \A k \in 1..level : arg[k] \in Program
      /\ pos \in [1..9 -> Nat]
  BY DEF TypeInv, TypeOK
<1> DEFINE Evaluating ==
             AlreadyRan \/ (\E t \in Times : Evaluate(t)) \/ Save \/ SaveFails
\* What is known of the calls of the chain.
<1>n. ASSUME NEW k \in 1..8
      PROVE  /\ ix[k] \in Nat /\ 0 < ix[k]
             /\ ix[k] <= Len(Calls(k, ch[k])) /\ Len(Calls(k, ch[k])) \in Nat
  <2>1. Passes(k, ch[k], ix[k], ch[k + 1]) /\ ch[k] \in Program
    BY DEF IsChain
  <2>2. Len(Calls(k, ch[k])) \in Nat
    BY <2>1, CallsType
  <2>3. ix[k] \in 1..Len(Calls(k, ch[k]))
    BY <2>1 DEF Passes
  <2> QED  BY <2>2, <2>3
<1>1. ASSUME NEW k \in 1..8
      PROVE  Calls(k, ch[k])[ix[k]].called /\ Calls(k, ch[k])[ix[k]].prog = ch[k + 1]
  BY DEF IsChain, Passes
<1>2. CASE hash[ch[9]] \in ran
  BY <1>2 DEF Searching, Search, Call, LeaveOut, Return, AlreadyRan, Evaluate, Save, SaveFails
<1> SUFFICES ASSUME hash[ch[9]] \notin ran', NEW k \in 1..level, Pending(ch, ix, k)
             PROVE  \E n \in 1..level' : Pending(ch, ix, n)'
  BY <1>2
<1> DEFINE Turn(n) == n \in 1..level' /\ arg'[n] = ch[n] /\ (n # 9 => pos'[n] < ix[n])
<1> SUFFICES \E n : Turn(n)
  BY DEF Pending
<1>k. k \in 1..level /\ arg[k] = ch[k] /\ (k # 9 => pos[k] < ix[k])
  BY DEF Pending
<1>b. k \in 1..8 => arg[k] = ch[k] /\ pos[k] < ix[k] /\ ix[k] \in Nat
  <2> SUFFICES ASSUME k \in 1..8 PROVE arg[k] = ch[k] /\ pos[k] < ix[k] /\ ix[k] \in Nat
    OBVIOUS
  <2>1. ix[k] \in Nat
    BY <1>n
  <2>2. k # 9
    OBVIOUS
  <2> QED  BY <1>k, <2>1, <2>2
\* It stays the turn of a pass whose progress did not change.
<1>3. ASSUME k \in 1..level', arg'[k] = arg[k], pos'[k] = pos[k]
      PROVE  \E n : Turn(n)
  BY <1>3, <1>k
<1>4. CASE Call
  <2>1. PICK q \in Program :
          /\ level \in 1..8 /\ pos[level] \in Nat
          /\ Passes(level, arg[level], pos[level] + 1, q)
          /\ level' = level + 1
          /\ arg' = [arg EXCEPT ![level + 1] = q]
          /\ pos' = [[pos EXCEPT ![level] = @ + 1] EXCEPT ![level + 1] = 0]
    BY <1>4, CallPasses
  <2>2. /\ level \in 1..level' /\ level + 1 \in 1..level'
        /\ arg'[level] = arg[level] /\ pos'[level] = pos[level] + 1
        /\ arg'[level + 1] = q /\ pos'[level + 1] = 0
    BY <1>0, <2>1
  <2>3. CASE k < level
    <3>1. k \in 1..level' /\ arg'[k] = arg[k] /\ pos'[k] = pos[k]
      BY <1>0, <2>1, <2>3
    <3> QED  BY <1>3, <3>1
  <2>4. CASE k = level
    <3>1. arg[level] = ch[level] /\ pos[level] < ix[level] /\ ix[level] \in Nat
      BY <1>b, <2>1, <2>4
    <3>2. CASE ix[level] = pos[level] + 1
      <4>1. q = ch[level + 1]
        BY <1>1, <2>1, <3>1, <3>2 DEF Passes
      <4>2. level + 1 # 9 => level + 1 \in 1..8
        BY <2>1
      <4> DEFINE n == level + 1
      <4>3. n \in 1..level' /\ arg'[n] = ch[n] /\ pos'[n] = 0 /\ (n # 9 => n \in 1..8)
        BY <2>2, <4>1, <4>2
      <4> HIDE DEF n
      <4>4. Turn(n)
        BY <1>n, <4>3
      <4> QED  BY <4>4
    <3>3. CASE ix[level] # pos[level] + 1
      <4>1. pos'[level] < ix[level]
        BY <2>1, <2>2, <3>1, <3>3
      <4>2. Turn(level)
        BY <2>2, <3>1, <4>1
      <4> QED  BY <4>2
    <3> QED  BY <3>2, <3>3
  <2> QED  BY <1>0, <2>3, <2>4
<1>5. CASE LeaveOut
  <2>1. /\ level \in 1..8 /\ pos[level] \in Nat
        /\ UNCHANGED <<level, arg>> /\ pos' = [pos EXCEPT ![level] = @ + 1]
        /\ ~Calls(level, arg[level])[pos[level] + 1].called
    BY <1>0, <1>5 DEF LeaveOut, Advance
  <2>2. CASE k < level
    BY <1>0, <1>3, <2>1, <2>2
  <2>3. CASE k = level
    <3>1. pos'[level] = pos[level] + 1 /\ level \in 1..level'
      BY <1>0, <2>1
    <3>2. arg[level] = ch[level] /\ pos[level] < ix[level] /\ ix[level] \in Nat
      BY <1>b, <2>1, <2>3
    <3>3. ix[level] # pos[level] + 1
      BY <1>1, <2>1, <3>2
    <3>4. pos'[level] < ix[level]
      BY <2>1, <3>1, <3>2, <3>3
    <3>5. Turn(level)
      BY <2>1, <3>1, <3>2, <3>4
    <3> QED  BY <3>5
  <2> QED  BY <1>0, <2>2, <2>3
<1>6. CASE Return
  <2>1. /\ level \in 1..8 /\ level' = level - 1 /\ UNCHANGED <<arg, pos>>
        /\ ~MoreCalls
    BY <1>6 DEF Return
  <2>2. ~(pos[level] < Len(Calls(level, arg[level])))
    BY <2>1, Zenon DEF MoreCalls
  <2>3. pos[level] \in Nat
    BY <1>0, <2>1
  <2>4. k # level
    <3>1. k = level => pos[level] < ix[level] /\ arg[level] = ch[level]
      BY <1>k, <2>1
    <3>2. ix[level] \in Nat /\ ix[level] <= Len(Calls(level, ch[level]))
          /\ Len(Calls(level, ch[level])) \in Nat
      BY <1>n, <2>1
    <3> QED  BY <2>2, <2>3, <3>1, <3>2
  <2> QED  BY <1>0, <1>3, <2>1, <2>4
<1>7. CASE level = 9 /\ k = 9 /\ Evaluating
  <2>1. arg[9] = ch[9]
    BY <1>7, <1>k
  <2>2. CASE AlreadyRan
    BY <1>7, <2>1, <2>2 DEF AlreadyRan, IsNew
  <2>3. CASE \E t \in Times : Evaluate(t)
    BY <1>7, <2>1, <2>3 DEF Evaluate
  <2>4. CASE Save \/ SaveFails
    BY <1>7, <2>1, <2>4 DEF Save, SaveFails, Saving
  <2> QED  BY <1>7, <2>2, <2>3, <2>4
<1>8. CASE level = 9 /\ k # 9 /\ Evaluating
  <2>1. UNCHANGED <<arg, pos>> /\ level' \in {8, 9}
    BY <1>8 DEF AlreadyRan, Evaluate, Save, SaveFails
  <2> QED  BY <1>3, <1>8, <2>1
<1> QED
  BY <1>4, <1>5, <1>6, <1>7, <1>8 DEF Searching, Search, AlreadyRan, Evaluate, Save, SaveFails

\* Every step of main keeps the last program of each chain timed or on its way.
LEMMA VariantsInvNext ==
  ASSUME TypeInv, Saving, VariantsInv, [Next]_vars
  PROVE  VariantsInv'
<1>0. /\ level \in 0..9
      /\ arg \in [1..9 -> Program \union {None}]
      /\ pos \in [1..9 -> Nat]
  BY DEF TypeInv, TypeOK
<1>1. /\ \A k \in 1..level : arg[k] \in Reached[k]
      /\ \A r \in timed : r.prog \in Reached[9]
  BY DEF VariantsInv
\* The steps that are not of the search.
<1>2. ASSUME timed' = timed, ran' = ran,
             \A k \in 1..level' : arg'[k] \in Reached[k],
             pc' = "search" =>
               \A ch, ix : IsChain(ch, ix) => \E k \in 1..level' : Pending(ch, ix, k)',
             pc' = "opt" /\ flags'.tune => pc = "opt" /\ flags.tune
      PROVE  VariantsInv'
  BY <1>2 DEF VariantsInv, IsChain
<1>3. CASE Tune
  <2>1. /\ level' = 1 /\ pc' = "search" /\ timed' = timed /\ ran' = ran
        /\ arg' = [arg EXCEPT ![1] = Input] /\ pos' = [pos EXCEPT ![1] = 0]
    BY <1>3 DEF Tune, Start, TypeInv, DriverOK
  <2>2. arg'[1] = Input /\ pos'[1] = 0
    BY <1>0, <2>1
  <2>3. \A k \in 1..level' : arg'[k] \in Reached[k]
    BY <2>1, <2>2, ReachedIs
  <2>4. ASSUME NEW ch, NEW ix, IsChain(ch, ix)
        PROVE  \E k \in 1..level' : Pending(ch, ix, k)'
    <3>1. ch[1] = Input /\ Passes(1, Input, ix[1], ch[2])
      BY <2>4 DEF IsChain
    <3>2. ix[1] \in 1..Len(Calls(1, Input)) /\ Len(Calls(1, Input)) \in Nat
      BY <3>1, BistracAssumption, CallsType DEF Passes
    <3>3. 0 < ix[1]
      BY <3>2
    <3>4. Pending(ch, ix, 1)'
      BY <2>2, <3>1, <3>3 DEF Pending
    <3> QED  BY <2>1, <3>4
  <2> QED  BY <1>2, <2>1, <2>3, <2>4
<1>4. CASE Searching
  <2>1. pc = "search" /\ pc' = "search"
    BY <1>4 DEF Searching
  <2>2. ASSUME NEW ch, NEW ix, IsChain(ch, ix)
        PROVE  hash[ch[9]] \in ran' \/ \E k \in 1..level' : Pending(ch, ix, k)'
    <3>1. hash[ch[9]] \in ran \/ \E k \in 1..level : Pending(ch, ix, k)
      BY <2>1, <2>2 DEF VariantsInv
    <3> QED  BY <1>4, <2>2, <3>1, SearchPending
  <2>3. \A k \in 1..level' : arg'[k] \in Reached[k]
    <3>1. CASE Call
      <4>1. PICK q \in Program :
              /\ level \in 1..8
              /\ Passes(level, arg[level], pos[level] + 1, q)
              /\ level' = level + 1
              /\ arg' = [arg EXCEPT ![level + 1] = q]
        BY <3>1, CallPasses
      <4>2. arg[level] \in Reached[level]
        BY <1>1, <4>1
      <4>3. q \in Reached[level + 1]
        BY <4>1, <4>2, ReachedCalls
      <4>4. ASSUME NEW k \in 1..level + 1 PROVE arg'[k] \in Reached[k]
        BY <1>0, <1>1, <4>1, <4>3
      <4> QED  BY <4>1, <4>4
    <3>2. CASE ~Call
      <4>1. arg' = arg /\ level' \in {level, level - 1}
        BY <1>4, <3>2
           DEF Searching, Search, LeaveOut, Return, AlreadyRan, Evaluate, Save, SaveFails
      <4> QED  BY <1>0, <1>1, <4>1
    <3> QED  BY <3>1, <3>2
  <2>4. \A r \in timed' : r.prog \in Reached[9]
    <3>1. CASE \E t \in Times : Evaluate(t)
      <4>1. PICK t : level = 9 /\ timed' = timed \union {[prog |-> arg[9], time |-> t]}
        BY <3>1 DEF Evaluate
      <4>2. arg[9] \in Reached[9]
        BY <1>1, <4>1
      <4> QED  BY <1>1, <4>1, <4>2
    <3>2. CASE ~\E t \in Times : Evaluate(t)
      <4>1. timed' = timed
        BY <1>4, <3>2
           DEF Searching, Search, Call, LeaveOut, Return, AlreadyRan, Save, SaveFails
      <4> QED  BY <1>1, <4>1
    <3> QED  BY <3>1, <3>2
  <2> QED  BY <2>1, <2>2, <2>3, <2>4 DEF VariantsInv, IsChain
<1>5. CASE Tuned
  <2>1. level = 0 /\ pc = "search" /\ UNCHANGED <<level, arg, ran, timed>> /\ pc' = "opt"
    BY <1>5 DEF Tuned, tunerVars
  <2>2. ASSUME NEW ch, NEW ix, IsChain(ch, ix) PROVE hash[ch[9]] \in ran'
    BY <2>1, <2>2 DEF VariantsInv
  <2> QED  BY <1>1, <2>1, <2>2 DEF VariantsInv, IsChain
<1>6. CASE NoTune \/ Optimize \/ Emit \/ EmitFails \/ SearchAborts
  <2>1. /\ UNCHANGED <<level, arg, ran, timed>> /\ pc' # "search"
        /\ ~(pc' = "opt" /\ flags'.tune)
    BY <1>6 DEF NoTune, Optimize, Emit, EmitFails, SearchAborts, tunerVars
  <2> QED  BY <1>1, <1>2, <2>1
<1>7. CASE UNCHANGED vars
  BY <1>7 DEF vars, tunerVars, VariantsInv, IsChain, Pending
<1> QED  BY <1>3, <1>4, <1>5, <1>6, <1>7 DEF Next

\* The hashes are those of what was timed, and no chain of calls is lost.
LEMMA VariantsInvariant == Spec => [](RanInv /\ VariantsInv)
<1>1. Init => RanInv /\ VariantsInv
  BY DEF Init, TunerInit, RanInv, VariantsInv
<1>2. Spec => []SaveInv
  BY TypeInvInvariant, SaveInit, SaveInvNext, PTL DEF Spec
<1>3. SaveInv => Saving
  BY DEF SaveInv
<1> QED
  BY <1>1, <1>2, <1>3, TypeInvInvariant, RanInvNext, VariantsInvNext, PTL DEF Spec

\* optimizeEvaluate times every program that the passes make of the input, up to the
\* hash that EvaluatorPass::doIt compares, and no other: no call of doIt is lost
\* on the way, whichever variants the passes leave out and whenever a program that
\* was timed comes back.
THEOREM VariantsAreTimed == Spec => []AllVariantsTimed
<1>1. RanInv /\ VariantsInv => AllVariantsTimed
  <2> SUFFICES ASSUME RanInv, VariantsInv, pc = "opt", flags.tune
               PROVE  ran = {hash[p] : p \in Reached[9]}
    BY DEF VariantsInv, AllVariantsTimed
  <2>1. ASSUME NEW h \in ran PROVE h \in {hash[p] : p \in Reached[9]}
    BY <2>1 DEF RanInv, VariantsInv
  <2>2. ASSUME NEW p \in Reached[9] PROVE hash[p] \in ran
    <3>1. PICK ch, ix : IsChain(ch, ix) /\ ch[9] = p
      BY ReachedByChain
    <3> QED  BY <3>1 DEF VariantsInv
  <2> QED  BY <2>1, <2>2
<1> QED  BY <1>1, VariantsInvariant, PTL

-----------------------------------------------------------------------------
(* The unchanged program reaches the evaluator.                             *)

\* What reaches the evaluator when pass k is called with p and every pass from k
\* on passes its program on unchanged.
Kept(k, p) ==
  IF k = 1 THEN Promoted[Distributed[p]] ELSE IF k <= 7 THEN Promoted[p] ELSE p

\* Variant i of pass k, called with p, leads to the baseline.
Leads(k, p, i) ==
  Calls(k, p)[i].called /\ Kept(k + 1, Calls(k, p)[i].prog) = Baseline

\* Every pass passes on a program unchanged (PromoterPass and DistributePass: only
\* cleaned up), unless FilterPass rejects it.
LEMMA PassesOn ==
  ASSUME NEW k \in 1..8, NEW p \in Program, Kept(k, p) = Baseline, Baseline \in Fits
  PROVE  \E i \in 1..Len(Calls(k, p)) : Leads(k, p, i)
<1> USE TunerAssumption
<1>1. ASSUME NEW new
      PROVE  LET c == ChangedThenOriginal(new, p)
             IN  \E i \in 1..Len(c) : c[i].called /\ c[i].prog = p
  BY DEF ChangedThenOriginal, Variant
<1>2. LET c == TileCalls(p) IN \E i \in 1..Len(c) : c[i].called /\ c[i].prog = p
  <2> DEFINE c == TileCalls(p)
  <2>1. Len(c) = Len(TileAttempts[p]) + 1 /\ Len(TileAttempts[p]) \in Nat
    BY DEF TileCalls
  <2>2. c[1].called /\ c[1].prog = p
    BY <2>1 DEF TileCalls, Variant
  <2> QED  BY <2>1, <2>2
<1>3. LET c == WidenCalls(p) IN \E i \in 1..Len(c) : c[i].called /\ c[i].prog = p
  <2> DEFINE n == Len(WidenAttempts[p]) + 1
  <2>1. Len(WidenCalls(p)) = n /\ n \in Nat /\ n >= 1
    BY DEF WidenCalls
  <2>2. WidenCalls(p)[n].called /\ WidenCalls(p)[n].prog = p
    BY <2>1 DEF WidenCalls, Variant
  <2> HIDE DEF n
  <2> QED  BY <2>1, <2>2
\* The passes that call the next one on their program itself.
<1>4. ASSUME k # 1, k # 7, k # 8,
             \E i \in 1..Len(Calls(k, p)) : Calls(k, p)[i].called /\ Calls(k, p)[i].prog = p
      PROVE  \E i \in 1..Len(Calls(k, p)) : Leads(k, p, i)
  <2>1. Kept(k + 1, p) = Kept(k, p)
    BY <1>4 DEF Kept
  <2> QED  BY <1>4, <2>1 DEF Leads
<1>5. CASE k = 1  BY <1>5 DEF Calls, DistributeCalls, Variant, Kept, Leads
<1>6. CASE k = 2
  <2>1. Calls(k, p) = ChangedThenOriginal(Interchanged[p], p)
    BY <1>6 DEF Calls, InterchangeCalls
  <2> QED  BY <1>1, <1>4, <1>6, <2>1
<1>7. CASE k = 3
  <2>1. Calls(k, p) = TileCalls(p)
    BY <1>7 DEF Calls
  <2> QED  BY <1>2, <1>4, <1>7, <2>1
<1>8. CASE k = 4
  <2>1. Calls(k, p) = ChangedThenOriginal(Fused[p], p)
    BY <1>8 DEF Calls, FuseCalls
  <2> QED  BY <1>1, <1>4, <1>8, <2>1
<1>9. CASE k = 5
  <2>1. Calls(k, p) = ChangedThenOriginal(Vectorized[p], p)
    BY <1>9 DEF Calls, VectorizeCalls
  <2> QED  BY <1>1, <1>4, <1>9, <2>1
<1>10. CASE k = 6
  <2>1. Calls(k, p) = WidenCalls(p)
    BY <1>10 DEF Calls
  <2> QED  BY <1>3, <1>4, <1>10, <2>1
<1>11. CASE k = 7  BY <1>11 DEF Calls, PromoteCalls, Variant, Kept, Leads
<1>12. CASE k = 8
  <2>1. Calls(k, p) = <<Variant(p, p \in Fits)>>
    BY <1>12 DEF Calls, FilterCalls
  <2>2. p = Baseline /\ Kept(k + 1, p) = p
    BY <1>12 DEF Kept
  <2>3. Len(Calls(k, p)) = 1 /\ Calls(k, p)[1] = Variant(p, p \in Fits)
    BY <2>1
  <2>4. Variant(p, p \in Fits).called = (p \in Fits)
    BY Zenon DEF Variant
  <2>5. Calls(k, p)[1].called /\ Calls(k, p)[1].prog = p
    <3>1. p \in Fits /\ Variant(p, p \in Fits).prog = p
      BY <2>2, Zenon DEF Variant
    <3> QED  BY <2>3, <2>4, <3>1, Zenon
  <2> QED  BY <2>2, <2>3, <2>5 DEF Leads
<1> QED  BY <1>5, <1>6, <1>7, <1>8, <1>9, <1>10, <1>11, <1>12

\* So the baseline is one of the programs that reach the evaluator.
LEMMA BaselineReached ==
  ASSUME Baseline \in Fits
  PROVE  Baseline \in Reached[9]
<1>1. ASSUME NEW k \in 1..8, \E p \in Reached[k] : Kept(k, p) = Baseline
      PROVE  \E p \in Reached[k + 1] : Kept(k + 1, p) = Baseline
  <2>1. PICK p \in Reached[k] : Kept(k, p) = Baseline
    BY <1>1
  <2>2. p \in Program
    BY ReachedCalls
  <2>3. PICK i \in 1..Len(Calls(k, p)) : Leads(k, p, i)
    BY <2>1, <2>2, PassesOn
  <2>4. Passes(k, p, i, Calls(k, p)[i].prog)
    BY <2>3 DEF Passes, Leads
  <2>5. Calls(k, p)[i].prog \in Reached[k + 1]
    BY <2>4, ReachedCalls
  <2> QED  BY <2>3, <2>5 DEF Leads
<1> DEFINE On(k) == \E p \in Reached[k] : Kept(k, p) = Baseline
<1>2. On(1)
  BY ReachedIs DEF Kept, Baseline
<1>3. \A k \in 1..8 : On(k) => On(k + 1)
  BY <1>1
<1>4. On(9) => Baseline \in Reached[9]
  BY DEF Kept
<1> HIDE DEF On
<1>5. On(2)  BY <1>2, <1>3
<1>6. On(3)  BY <1>5, <1>3
<1>7. On(4)  BY <1>6, <1>3
<1>8. On(5)  BY <1>7, <1>3
<1>9. On(6)  BY <1>8, <1>3
<1>10. On(7)  BY <1>9, <1>3
<1>11. On(8)  BY <1>10, <1>3
<1>12. On(9)  BY <1>11, <1>3
<1> QED  BY <1>4, <1>12

\* The result of a search is never slower than the program that was only cleaned
\* up: every pass tries its program unchanged as well, at whatever place of its
\* calls, and no later call displaces what was timed.
THEOREM BaselineIsTimed == Spec => []BaselineTimed
<1>1. RanInv /\ AllVariantsTimed /\ BestIsFastest => BaselineTimed
  <2> SUFFICES ASSUME RanInv, AllVariantsTimed, BestIsFastest,
                      pc = "opt", flags.tune, Baseline \in Fits
               PROVE  \E r \in timed : hash[r.prog] = hash[Baseline] /\ bestTime <= r.time
    BY DEF BaselineTimed
  <2>1. hash[Baseline] \in ran
    BY BaselineReached DEF AllVariantsTimed
  <2> QED  BY <2>1 DEF RanInv, BestIsFastest
<1> QED  BY <1>1, VariantsInvariant, VariantsAreTimed, BestFastest, PTL

-----------------------------------------------------------------------------
(* The search ends.                                                         *)

\* How many variants pass k makes of p.
NumCalls(k, p) == Len(Calls(k, p))

\* A pass makes finitely many variants.
LEMMA NumCallsType == \A k \in 1..8, p \in Program : NumCalls(k, p) \in Nat
  BY CallsType DEF NumCalls

\* Left(k), for l active passes with the arguments a, of which the calls n are
\* done, while s is saved.
LeftOf(k, l, a, n, s) ==
  IF k > l THEN 0
  ELSE IF k # Evaluator THEN NumCalls(k, a[k]) - n[k] + 1
  ELSE [no |-> 4, remove |-> 3, open |-> 2, write |-> 1][s]

\* What is left before a step and after it.
LEMMA LeftIs ==
  ASSUME NEW k \in 1..9
  PROVE  /\ Left(k) = LeftOf(k, level, arg, pos, saving)
         /\ Left(k)' = LeftOf(k, level', arg', pos', saving')
  BY DEF Left, LeftOf, NumCalls

\* No pass is done with more calls than it makes.
PosOK == \A k \in 1..level : k # 9 => pos[k] <= NumCalls(k, arg[k])

\* An active pass has something left to do, and the other ones have not.
LEMMA ActiveHasLeft ==
  ASSUME NEW l \in 0..9, NEW a, NEW n \in [1..9 -> Nat],
         NEW s \in {"no", "remove", "open", "write"}, NEW k \in 1..9,
         k <= l => a[k] \in Program /\ (k # 9 => n[k] <= NumCalls(k, a[k]))
  PROVE  /\ LeftOf(k, l, a, n, s) \in Nat
         /\ k <= l => LeftOf(k, l, a, n, s) >= 1
         /\ k > l => LeftOf(k, l, a, n, s) = 0
<1>1. CASE k > l
  BY <1>1 DEF LeftOf
<1>2. CASE k <= l /\ k = 9
  <2>1. \/ LeftOf(k, l, a, n, s) = 4 \/ LeftOf(k, l, a, n, s) = 3
        \/ LeftOf(k, l, a, n, s) = 2 \/ LeftOf(k, l, a, n, s) = 1
    BY <1>2 DEF LeftOf
  <2> QED  BY <1>2, <2>1
<1>3. CASE k <= l /\ k # 9
  <2>1. k \in 1..8 /\ a[k] \in Program /\ n[k] \in Nat
    BY <1>3
  <2>2. NumCalls(k, a[k]) \in Nat /\ n[k] <= NumCalls(k, a[k]) /\ n[k] \in Nat
    BY <1>3, <2>1, NumCallsType
  <2>3. LeftOf(k, l, a, n, s) = NumCalls(k, a[k]) - n[k] + 1
    BY <1>3 DEF LeftOf
  <2> QED  BY <1>3, <2>2, <2>3
<1> QED  BY <1>1, <1>2, <1>3

\* The calls that doIt of pass k loops over are not exceeded by any step.
LEMMA PosNext ==
  ASSUME TypeInv, PosOK, [Next]_vars
  PROVE  PosOK'
<1>0. /\ level \in 0..9
      /\ arg \in [1..9 -> Program \union {None}]
      /\ \A k \in 1..level : arg[k] \in Program
      /\ pos \in [1..9 -> Nat]
      /\ \A k \in 1..level : k # 9 => pos[k] <= NumCalls(k, arg[k])
  BY DEF TypeInv, TypeOK, PosOK
<1>1. CASE Tune
  <2>1. level' = 1 /\ arg' = [arg EXCEPT ![1] = program] /\ pos' = [pos EXCEPT ![1] = 0]
    BY <1>1 DEF Tune, Start
  <2>2. program \in Program
    BY DEF TypeInv, TypeOK
  <2>3. arg'[1] = program /\ pos'[1] = 0 /\ NumCalls(1, program) \in Nat
    BY <1>0, <2>1, <2>2, NumCallsType
  <2>4. \A k \in 1..level' : k = 1
    BY <2>1
  <2>5. 0 <= NumCalls(1, program)
    BY <2>3
  <2>6. pos'[1] <= NumCalls(1, arg'[1])
    BY <2>3, <2>5
  <2> QED  BY <2>4, <2>6 DEF PosOK
<1>2. CASE Call
  <2>1. PICK q \in Program :
          /\ level \in 1..8
          /\ Passes(level, arg[level], pos[level] + 1, q)
          /\ level' = level + 1
          /\ arg' = [arg EXCEPT ![level + 1] = q]
          /\ pos' = [[pos EXCEPT ![level] = @ + 1] EXCEPT ![level + 1] = 0]
    BY <1>2, CallPasses
  <2>2. ASSUME NEW k \in 1..level + 1, k # 9 PROVE pos'[k] <= NumCalls(k, arg'[k])
    <3>1. CASE k = level + 1
      <4>1. k \in 1..8 /\ arg'[k] = q /\ pos'[k] = 0
        BY <1>0, <2>1, <2>2, <3>1
      <4>2. NumCalls(k, q) \in Nat
        BY <4>1, NumCallsType
      <4> QED  BY <4>1, <4>2
    <3>2. CASE k = level
      <4>1. arg'[k] = arg[k] /\ pos'[k] = pos[k] + 1
        BY <1>0, <2>1, <3>2
      <4>2. pos[k] + 1 \in 1..NumCalls(k, arg[k]) /\ pos[k] \in Nat
        <5>1. pos[level] + 1 \in 1..NumCalls(level, arg[level])
          BY <2>1 DEF Passes, NumCalls
        <5> QED  BY <1>0, <2>1, <3>2, <5>1
      <4>3. NumCalls(k, arg[k]) \in Nat
        BY <1>0, <2>1, <3>2, NumCallsType
      <4> QED  BY <4>1, <4>2, <4>3
    <3>3. CASE k < level
      BY <1>0, <2>1, <2>2, <3>3
    <3> QED  BY <1>0, <2>1, <3>1, <3>2, <3>3
  <2> QED  BY <2>1, <2>2 DEF PosOK
<1>3. CASE LeaveOut
  <2>1. /\ level \in 1..8 /\ level' = level /\ arg' = arg
        /\ pos' = [pos EXCEPT ![level] = @ + 1]
        /\ pos[level] < NumCalls(level, arg[level])
    BY <1>3 DEF LeaveOut, MoreCalls, Advance, NumCalls
  <2>2. NumCalls(level, arg[level]) \in Nat /\ pos[level] \in Nat
    BY <1>0, <2>1, NumCallsType
  <2>3. pos'[level] = pos[level] + 1 /\ \A k \in 1..9 : k # level => pos'[k] = pos[k]
    BY <1>0, <2>1
  <2>4. pos[level] + 1 <= NumCalls(level, arg[level])
    BY <2>1, <2>2
  <2> QED  BY <1>0, <2>1, <2>3, <2>4 DEF PosOK
<1>4. CASE level' \in 0..level /\ UNCHANGED <<arg, pos>>
  BY <1>0, <1>4 DEF PosOK
<1> QED
  BY <1>0, <1>1, <1>2, <1>3, <1>4
     DEF Next, NoTune, Searching, Search, Return, AlreadyRan, Evaluate, Save, SaveFails,
         SearchAborts, Tuned, Optimize, Emit, EmitFails, vars, tunerVars

\* A step of the search leaves less to do for one pass, and as much as before for the
\* passes that called it.
LEMMA SearchLeavesLess ==
  ASSUME TypeInv, PosOK, Searching
  PROVE  \E k \in 1..9 : Left(k)' < Left(k) /\ \A j \in 1..k - 1 : Left(j)' = Left(j)
<1>0. /\ level \in 0..9
      /\ arg \in [1..9 -> Program \union {None}]
      /\ \A k \in 1..level : arg[k] \in Program
      /\ pos \in [1..9 -> Nat]
      /\ \A k \in 1..level : k # 9 => pos[k] <= NumCalls(k, arg[k])
  BY DEF TypeInv, TypeOK, PosOK
\* The innermost pass is the one; the others are as before.
<1>l. PICK l : l = level
  OBVIOUS
<1>1. ASSUME level \in 1..9, level - 1 <= level', level' \in 0..9,
             \A j \in 1..level - 1 : arg'[j] = arg[j] /\ pos'[j] = pos[j],
             Left(l)' < Left(l)
      PROVE  \E k \in 1..9 : Left(k)' < Left(k) /\ \A j \in 1..k - 1 : Left(j)' = Left(j)
  <2>1. ASSUME NEW j \in 1..level - 1 PROVE Left(j)' = Left(j)
    <3>1. j \in 1..9 /\ j # 9 /\ j <= level /\ j <= level'
      BY <1>1
    <3>2. arg'[j] = arg[j] /\ pos'[j] = pos[j]
      BY <1>1
    <3>3. Left(j) = NumCalls(j, arg[j]) - pos[j] + 1
      BY <3>1, <1>1 DEF Left, NumCalls
    <3>4. Left(j)' = NumCalls(j, arg'[j]) - pos'[j] + 1
      BY <3>1, <1>1 DEF Left, NumCalls
    <3> QED  BY <3>2, <3>3, <3>4
  <2>2. \A j \in 1..level - 1 : Left(j)' = Left(j)
    BY <1>l, <2>1
  <2> QED  BY <1>1, <1>l, <2>2
\* A pass that returns has nothing left.
<1>2. ASSUME level \in 1..9, level' = level - 1, UNCHANGED <<arg, pos>>
      PROVE  Left(l)' < Left(l)
  <2>1. /\ l \in 1..9 /\ l \in 0..9 /\ l <= l
        /\ arg[l] \in Program /\ (l # 9 => pos[l] <= NumCalls(l, arg[l]))
    BY <1>0, <1>l, <1>2
  <2>2. saving \in {"no", "remove", "open", "write"}
    BY DEF TypeInv, TypeOK
  <2>3. LeftOf(l, l, arg, pos, saving) \in Nat /\ LeftOf(l, l, arg, pos, saving) >= 1
    BY <1>0, <2>1, <2>2, ActiveHasLeft
  <2>4. LeftOf(l, level', arg', pos', saving') = 0
    BY <1>l, <1>2 DEF LeftOf
  <2>5. Left(l) = LeftOf(l, l, arg, pos, saving)
        /\ Left(l)' = LeftOf(l, level', arg', pos', saving')
    BY <1>l, <2>1, LeftIs
  <2> QED  BY <2>3, <2>4, <2>5
\* A pass that goes on to its next variant has one call less.
<1>3. ASSUME level \in 1..8, level' \in {level, level + 1},
             arg'[level] = arg[level], pos'[level] = pos[level] + 1
      PROVE  Left(l)' < Left(l)
  <2>1. NumCalls(level, arg[level]) \in Nat /\ pos[level] \in Nat
    BY <1>0, <1>3, NumCallsType
  <2>2. Left(l) = NumCalls(l, arg[l]) - pos[l] + 1
    BY <1>l, <1>3 DEF Left, NumCalls
  <2>3. Left(l)' = NumCalls(l, arg'[l]) - pos'[l] + 1
    BY <1>l, <1>3 DEF Left, NumCalls
  <2> QED  BY <1>l, <1>3, <2>1, <2>2, <2>3
\* The evaluator goes on to save the program.
<1>4. ASSUME level = 9, level' = 9,
             \/ saving = "no" /\ saving' = "remove"
             \/ saving = "remove" /\ saving' = "open"
             \/ saving = "open" /\ saving' = "write"
      PROVE  Left(l)' < Left(l)
  BY <1>l, <1>4 DEF Left, NumCalls
<1>5. CASE Call
  <2>1. PICK q \in Program :
          /\ level \in 1..8
          /\ level' = level + 1
          /\ arg' = [arg EXCEPT ![level + 1] = q]
          /\ pos' = [[pos EXCEPT ![level] = @ + 1] EXCEPT ![level + 1] = 0]
    BY <1>5, CallPasses
  <2>2. /\ \A j \in 1..level : arg'[j] = arg[j]
        /\ \A j \in 1..level - 1 : pos'[j] = pos[j]
        /\ pos'[level] = pos[level] + 1
    BY <1>0, <2>1
  <2>3. Left(l)' < Left(l)
    BY <1>3, <2>1, <2>2
  <2>4. /\ level \in 1..9 /\ level - 1 <= level' /\ level' \in 0..9
    BY <2>1
  <2>5. \A j \in 1..level - 1 : j \in 1..level
    BY <2>1
  <2>6. \A j \in 1..level - 1 : arg'[j] = arg[j] /\ pos'[j] = pos[j]
    BY <2>2, <2>5
  <2> QED  BY <1>1, <2>3, <2>4, <2>6
<1>6. CASE LeaveOut
  <2>1. level \in 1..8 /\ level' = level /\ arg' = arg /\ pos' = [pos EXCEPT ![level] = @ + 1]
    BY <1>6 DEF LeaveOut, Advance
  <2>2. pos'[level] = pos[level] + 1 /\ \A j \in 1..level - 1 : pos'[j] = pos[j]
    BY <1>0, <2>1
  <2>3. Left(l)' < Left(l)
    BY <1>3, <2>1, <2>2
  <2> QED  BY <1>1, <2>1, <2>2, <2>3
<1>7. CASE level \in 1..9 /\ level' = level - 1 /\ UNCHANGED <<arg, pos>>
  BY <1>1, <1>2, <1>7
<1>8. CASE \/ Return \/ AlreadyRan \/ (\E t \in Times : Evaluate(t)) \/ Save \/ SaveFails
  <2>1. \/ level \in 1..9 /\ level' = level - 1 /\ UNCHANGED <<arg, pos>>
        \/ /\ level = 9 /\ level' = 9 /\ UNCHANGED <<arg, pos>>
           /\ \/ saving = "no" /\ saving' = "remove"
              \/ saving = "remove" /\ saving' = "open"
              \/ saving = "open" /\ saving' = "write"
    BY <1>8 DEF Return, AlreadyRan, Evaluate, SaveAfter, Save, SaveFails
  <2>2. CASE level = 9 /\ level' = 9
    BY <1>1, <1>4, <2>1, <2>2
  <2> QED  BY <1>7, <2>1, <2>2
<1> QED  BY <1>5, <1>6, <1>8 DEF Searching, Search

\* main is done with a stage, or searches.
LEMMA StageNext ==
  ASSUME TypeInv, Next
  PROVE  Stage' < Stage \/ (Searching /\ Stage' = Stage)
  BY DEF Next, Tune, NoTune, Searching, SearchAborts, Tuned, Optimize, Emit, EmitFails, Stage

\* For every set of programs, all results of the transformations and all measured
\* times, the recursion of the passes (doIt) comes to its end: each of its steps
\* leaves less to do.
THEOREM SearchStepsForward == Spec => SearchAdvances
<1> DEFINE Forward ==
      /\ \A k \in 1..9 : Left(k)' >= 0
      /\ \/ Stage' < Stage
         \/ /\ Stage' = Stage
            /\ \E k \in 1..9 : Left(k)' < Left(k) /\ \A j \in 1..k - 1 : Left(j)' = Left(j)
<1>1. Spec => []PosOK
  <2>1. Init => PosOK
    BY DEF Init, TunerInit, PosOK
  <2> QED  BY <2>1, PosNext, TypeInvInvariant, PTL DEF Spec
<1>2. ASSUME TypeInv, PosOK, TypeInv', PosOK', Next
      PROVE  Forward
  <2>1. ASSUME NEW k \in 1..9 PROVE Left(k)' >= 0
    <3>1. /\ level' \in 0..9 /\ pos' \in [1..9 -> Nat]
          /\ saving' \in {"no", "remove", "open", "write"}
          /\ k <= level' => arg'[k] \in Program
                            /\ (k # 9 => pos'[k] <= NumCalls(k, arg'[k]))
      BY <1>2 DEF TypeInv, TypeOK, PosOK
    <3>2. LeftOf(k, level', arg', pos', saving') \in Nat
      BY <3>1, ActiveHasLeft
    <3> QED  BY <3>2, LeftIs
  <2> QED  BY <1>2, <2>1, StageNext, SearchLeavesLess
<1>3. TypeInv /\ PosOK /\ TypeInv' /\ PosOK' /\ [Next]_vars => [Forward]_vars
  BY <1>2
<1>4. Spec => [][Forward]_vars
  BY <1>1, <1>3, TypeInvInvariant, PTL DEF Spec
<1> QED  BY <1>4 DEF SearchAdvances
=============================================================================
