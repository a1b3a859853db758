---------------------------- MODULE ParallelJob ----------------------------
(***************************************************************************)
(* What WorkerPool::ParallelFor (plume_parallel.h) promises its callers,   *)
(* with none of the threads, mutexes or atomics that keep the promise:     *)
(* calls that share their work run one at a time, every index of a call is *)
(* run exactly once while the call is in progress, and the call returns    *)
(* only when no index is left.                                             *)
(***************************************************************************)
EXTENDS Naturals

CONSTANTS
  Callers,   \* the threads that call ParallelFor
  Counts,    \* the numbers of indices a shared call may have
  NoThread   \* nobody

VARIABLES
  running,   \* the caller whose call is in progress, NoThread for none
  left       \* the indices of that call not run yet

jobVars == <<running, left>>

Init ==
  /\ running = NoThread
  /\ left = {}

\* A call starts: all of its indices are to be run.
Begin(c) ==
  /\ running = NoThread
  /\ running' = c
  /\ \E n \in Counts : left' = 0 .. n - 1

\* fn(i), on any thread.
RunIndex(i) ==
  /\ running # NoThread
  /\ i \in left
  /\ left' = left \ {i}
  /\ UNCHANGED running

\* ParallelFor returns.
Return ==
  /\ running # NoThread
  /\ left = {}
  /\ running' = NoThread
  /\ UNCHANGED left

Next ==
  \/ \E c \in Callers : Begin(c)
  \/ \E i \in left : RunIndex(i)
  \/ Return

Spec == Init /\ [][Next]_jobVars
=============================================================================
