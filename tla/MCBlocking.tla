----------------------------- MODULE MCBlocking -----------------------------
(***************************************************************************)
(* The blocking executor alone, with two workers, two other threads and    *)
(* three pieces of work on a queue of two, which may call it; two awaited  *)
(* file operations on it and on a shard whose lane has one place; or file  *)
(* operations of every kind next to direct calls on the file, on an        *)
(* executor and a shard that accept everything.  scenario says which.      *)
(***************************************************************************)
EXTENDS FileRuntime

VARIABLE scenario

MCInit == scenario \in {"executor", "runtime", "file"} /\ RuntimeInit

MCNext ==
  /\ UNCHANGED scenario
  /\ \/ scenario = "executor" /\ Next /\ UNCHANGED <<fileVars, stopped, terminated>>
     \/ scenario = "runtime" /\ RuntimeNext
     \/ scenario = "file" /\ F!Next /\ UNCHANGED <<vars, stopped, terminated>>

MCSpec ==
  /\ MCInit /\ [][MCNext]_<<scenario, runtimeVars>>
  /\ scenario = "executor" => Fairness
  /\ scenario = "runtime" => RuntimeFairness

\* A coroutine that awaits a file operation is resumed with the result or
\* destroyed (FileRuntime).
EventuallyResumed == scenario = "runtime" => Resumed

\* shutdown returns to every caller, also when work shuts the executor down,
\* unless the process ended (BlockingExecutor).
ShutdownEnds == \A t \in Callers : call[t] = "notify_all" ~> (call[t] = "returned" \/ terminated)
==============================================================================
