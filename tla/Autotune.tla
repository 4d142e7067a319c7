------------------------------ MODULE Autotune -------------------------------
(***************************************************************************)
(* What the autotuner promises to somebody who starts it and reads its     *)
(* file: it times each of the candidates once, in whatever order, keeps    *)
(* the fastest one, and replaces the file by the fastest one so far, or    *)
(* fails to.                                                               *)
(* There are no passes and no calls here; module Bistrac implements this   *)
(* specification.                                                          *)
(***************************************************************************)
EXTENDS Naturals

CONSTANTS
  Program,      \* the programs
  Candidate,    \* those that are to be timed
  hash,         \* the hash of each program: programs with one hash count as one
  Times,        \* what timing a program may measure
  NotFaster,    \* the time that has to be beaten
  None,         \* no program
  Absent,       \* no file
  Partial,      \* a file that is being written
  Earlier       \* a file of an earlier session

VARIABLES
  phase,     \* "idle", "tuning", "over" or "aborted"
  seen,      \* the hashes of the programs that were timed
  best,      \* the fastest of them
  bestTime,  \* its time
  file,      \* what is in the file
  fault      \* whether the latest attempt to replace it failed

vars == <<phase, seen, best, bestTime, file, fault>>

Init ==
  /\ phase = "idle"
  /\ seen = {}
  /\ best = None /\ bestTime = NotFaster
  /\ file \in {Absent, Earlier} /\ fault = FALSE

\* The search begins, unless nobody asked for it.
Begin ==
  /\ phase = "idle"
  /\ phase' \in {"tuning", "over"}
  /\ UNCHANGED <<seen, best, bestTime, file, fault>>

\* The candidate p is timed, which takes t; the best program is never replaced by
\* one that is not faster.
Time(p, t) ==
  /\ phase = "tuning"
  /\ hash[p] \notin seen
  /\ seen' = seen \union {hash[p]}
  /\ IF t < bestTime THEN best' = p /\ bestTime' = t ELSE UNCHANGED <<best, bestTime>>
  /\ UNCHANGED <<phase, file, fault>>

\* A file that is not the best program's is about to be replaced.
Saving == phase = "tuning" /\ best # None /\ file # best

\* An attempt to replace the file begins: the file is removed, or cannot be.
Remove ==
  /\ Saving
  /\ file' \in {Absent, file} /\ fault' = FALSE
  /\ UNCHANGED <<phase, seen, best, bestTime>>

\* The file is opened, which empties it, and written: whenever the process stops the
\* file is missing, incomplete, the best program of some moment, or one that was there
\* before and could not be removed.
Write ==
  /\ Saving /\ ~fault
  /\ file' = Partial \/ (file = Partial /\ file' = best)
  /\ UNCHANGED <<phase, seen, best, bestTime, fault>>

\* The file cannot be opened or written: the search goes on, or is aborted.
Fail ==
  /\ Saving
  /\ phase' \in {"tuning", "aborted"} /\ fault' = TRUE
  /\ file' \in {Absent, file}
  /\ UNCHANGED <<seen, best, bestTime>>

\* The search ends when all of the candidates were timed, with the file of the best of
\* them, or after it failed to save that.
End ==
  /\ phase = "tuning"
  /\ seen = {hash[p] : p \in Candidate}
  /\ best # None => fault \/ file = best
  /\ phase' = "over"
  /\ UNCHANGED <<seen, best, bestTime, file, fault>>

\* What the driver does with the file afterwards.
Emit ==
  /\ phase = "over"
  /\ phase' \in {"over", "aborted"}
  /\ file' \in Program \union {Absent, Partial, file}
  /\ UNCHANGED <<seen, best, bestTime, fault>>

Next ==
  \/ Begin
  \/ \E p \in Candidate, t \in Times : Time(p, t)
  \/ Remove \/ Write \/ Fail
  \/ End \/ Emit

Spec == Init /\ [][Next]_vars
=============================================================================
