------------------------------- MODULE Bistrac -------------------------------
(***************************************************************************)
(* The driver (main in tools/bistrac/bistrac.cpp) around the autotuner: it *)
(* tunes the program, optimizes it and emits it, each when its flag is     *)
(* set.  Dumping, timing and warnings change nothing and are left out.     *)
(***************************************************************************)
EXTENDS Tuner

CONSTANTS
  Input,   \* the program that was parsed or read
  Static   \* the results of optimizeStatic

ASSUME BistracAssumption == Input \in Program /\ Static \in [Program -> Program]

VARIABLES
  flags,    \* FLAGS_tune, FLAGS_opt, whether FLAGS_out is given, and whether it
            \* gets an object file (neither FLAGS_textual nor FLAGS_bytecode)
  program,  \* the program that main works on
  pc        \* where main is

vars == <<tunerVars, flags, program, pc>>

Flags == [tune : BOOLEAN, opt : BOOLEAN, out : BOOLEAN, object : BOOLEAN]

Init ==
  /\ TunerInit
  /\ flags \in Flags
  /\ program = Input
  /\ pc = "tune"

Tune ==
  /\ pc = "tune" /\ flags.tune
  /\ Start(program)
  /\ pc' = "search"
  /\ UNCHANGED <<flags, program>>

NoTune ==
  /\ pc = "tune" /\ ~flags.tune
  /\ pc' = "opt"
  /\ UNCHANGED <<tunerVars, flags, program>>

\* Only emitObject goes on when the file cannot be opened.
Searching ==
  /\ pc = "search"
  /\ \/ Search
     \/ (saving = "open" => flags.object) /\ SaveFails
  /\ UNCHANGED <<flags, program, pc>>

\* writeFile, called by the search, cannot open the file, which it tried to remove once
\* more; or not all of an object file is written, which the stream of emitObject does
\* not survive (raw_fd_ostream).
SearchAborts ==
  /\ pc = "search"
  /\ \/ saving = "open" /\ ~flags.object /\ file' \in {Absent, file}
     \/ saving = "write" /\ flags.object /\ file' = file
  /\ failed' = failed \union {saving}
  /\ pc' = "aborted"
  /\ UNCHANGED <<level, arg, pos, ran, best, bestTime, saving, timed, flags, program>>

\* optimizeEvaluate returns; its result is not used.
Tuned ==
  /\ pc = "search" /\ level = 0
  /\ pc' = "opt"
  /\ UNCHANGED <<tunerVars, flags, program>>

Optimize ==
  /\ pc = "opt"
  /\ program' = IF flags.opt THEN Static[program] ELSE program
  /\ pc' = "emit"
  /\ UNCHANGED <<tunerVars, flags>>

Emit ==
  /\ pc = "emit"
  /\ file' = IF flags.out THEN program ELSE file
  /\ pc' = "done"
  /\ UNCHANGED <<level, arg, pos, ran, best, bestTime, saving, failed, timed, flags, program>>

\* The ways in which that fails.  Nothing or not all is written: emitObject returns
\* early, or writeFile does not notice.  The file cannot be opened: emitObject returns,
\* and writeFile aborts after it removed the file, or tried to.  The stream of
\* emitObject ends the process when not all was written.
EmitFails ==
  /\ pc = "emit" /\ flags.out
  /\ \/ file' = Partial /\ pc' = "done"
     \/ flags.object /\ file' = file /\ pc' = "done"
     \/ ~flags.object /\ file' \in {Absent, file} /\ pc' = "aborted"
     \/ flags.object /\ file' = Partial /\ pc' = "aborted"
  /\ UNCHANGED <<level, arg, pos, ran, best, bestTime, saving, failed, timed, flags, program>>

Next ==
  Tune \/ NoTune \/ Searching \/ SearchAborts \/ Tuned \/ Optimize \/ Emit \/ EmitFails

\* The process runs on: timing a program (evaluateCode) takes a finite time.
Spec == Init /\ [][Next]_vars /\ WF_vars(Next)

-----------------------------------------------------------------------------
(* Properties.                                                             *)

\* The types, and: an active pass has a program, and only the evaluator saves
\* (doIt is never called on a variant that was not made).
TypeOK ==
  /\ level \in 0..Evaluator
  /\ arg \in [1..Evaluator -> Program \union {None}]
  /\ \A k \in 1..level : arg[k] \in Program
  /\ pos \in [1..Evaluator -> Nat]
  /\ ran \subseteq Hash
  /\ timed \subseteq [prog : Program, time : Times]
  /\ best \in Program \union {None} /\ bestTime \in Nat
  /\ saving \in {"no", "remove", "open", "write"}
  /\ saving # "no" => level = Evaluator
  /\ file \in Program \union {Absent, Partial, Earlier}
  /\ failed \subseteq {"remove", "open", "write"}
  /\ flags \in Flags
  /\ program \in Program
  /\ pc \in {"tune", "search", "opt", "emit", "done", "aborted"}

\* The evaluator keeps the fastest of all the programs it timed, over all of the
\* calls that reach it; there is none exactly when no time was below the one it
\* starts with.
BestIsFastest ==
  /\ \A r \in timed : bestTime <= r.time
  /\ IF best = None THEN bestTime = NotFaster
     ELSE /\ bestTime < NotFaster
          /\ [prog |-> best, time |-> bestTime] \in timed

\* Whenever the evaluator is not about to save a program, the file holds the best
\* one: a search that is stopped, or still runs, leaves its best result.  After a save
\* that failed, it is a file that was opened and not written to its end, or there is
\* none; an older program stays only where an object file could neither be removed
\* nor opened.
SavedIsBest ==
  pc \in {"search", "opt"} /\ best # None /\ saving = "no" =>
    \/ failed = {} /\ file = best
    \/ failed = {"write"} /\ file = Partial
    \/ "open" \in failed /\ flags.object /\ (file = Absent \/ "remove" \in failed)

\* What the passes make of the input when they only pass it on.
Baseline == Promoted[Distributed[Input]]

\* The passes try every program unchanged as well: the result of the search is
\* not slower than the input that was only cleaned up, unless the filter rejects
\* that (programs with one hash count as one).
BaselineTimed ==
  pc = "opt" /\ flags.tune /\ Baseline \in Fits =>
    \E r \in timed : hash[r.prog] = hash[Baseline] /\ bestTime <= r.time

\* The programs that pass k is called with, for the input.
Reached[k \in 1..Evaluator] ==
  IF k = 1 THEN {Input}
  ELSE UNION {LET c == Calls(k - 1, p)
              IN  {c[i].prog : i \in {j \in DOMAIN c : c[j].called}} :
                p \in Reached[k - 1]}

\* No call is lost and none is invented: the programs that were timed are, up to
\* their hash, the ones that the passes make.
AllVariantsTimed ==
  LET reached == Reached[Evaluator]
  IN  /\ \A r \in timed : r.prog \in reached
      /\ pc = "opt" /\ flags.tune => ran = {hash[p] : p \in reached}

\* The search as somebody sees it who does not know of the passes.
Phase ==
  CASE pc = "tune" -> "idle"
    [] pc = "search" -> "tuning"
    [] pc = "aborted" -> "aborted"
    [] OTHER -> "over"

SaveFailed == "open" \in failed \/ "write" \in failed

A == INSTANCE Autotune WITH Candidate <- Reached[Evaluator], phase <- Phase, seen <- ran,
                           fault <- SaveFailed

\* Whatever the order of the calls, of the timings and of the writes: no hash is timed
\* twice, the best program and its file only get better, the file of the best program
\* is not touched, the search does not end before everything was timed and the best is
\* saved, unless that failed, and nothing is timed or saved when it has ended.
ImplementsAutotune == A!Spec

\* What is ahead of main: the search, optimizeStatic and the output.
Stage == [tune |-> 4, search |-> 3, opt |-> 2, emit |-> 1, done |-> 0, aborted |-> 0][pc]

\* What is ahead of pass k when it is active: its calls and its return; of the
\* evaluator: the timing and the three steps of saving.
Left(k) ==
  IF k > level THEN 0
  ELSE IF k # Evaluator THEN Len(Calls(k, arg[k])) - pos[k] + 1
  ELSE [no |-> 4, remove |-> 3, open |-> 2, write |-> 1][saving]

\* No step is for nothing: each brings main to a later stage, or leaves less to do
\* for some active pass and as much as before for the passes that called it.  No
\* infinite run can do that, so the search ends, however many variants the passes
\* make; a call that comes back to a program does not start over.
SearchAdvances ==
  [][/\ \A k \in 1..Evaluator : Left(k)' >= 0
     /\ \/ Stage' < Stage
        \/ /\ Stage' = Stage
           /\ \E k \in 1..Evaluator :
                Left(k)' < Left(k) /\ \A j \in 1..k - 1 : Left(j)' = Left(j)]_vars

\* The driver ends, whatever the times are and whichever file cannot be opened.
Terminates == <>(pc \in {"done", "aborted"})

-----------------------------------------------------------------------------
(* What the documentation says.                                            *)

\* README.md on "--tune --textual --out save.ll": "auto-tune the program and save
\* the best program".  When no save failed, a program in the file is that one.
TunedProgramSaved ==
  pc = "done" /\ flags.tune /\ ~flags.opt /\ flags.out /\ ~flags.object /\ best # None /\
  failed = {} /\ file \in Program => file = best
=============================================================================
