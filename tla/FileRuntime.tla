----------------------------- MODULE FileRuntime -----------------------------
(***************************************************************************)
(* Awaited file operations on the blocking executor and on one shard: the  *)
(* composition of File and BlockingExecutor (src/src/file.cpp,             *)
(* src/src/blocking_executor.cpp) with the bounded system lane of a shard. *)
(*                                                                         *)
(* The work of an operation is one of the executor's works: constructing   *)
(* the operation submits it, and the worker that took it runs it and       *)
(* publishes its result before it is done.  Coroutines run on the thread   *)
(* of the shard, which is one of the executor's callers.  The lane keeps   *)
(* resumptions until the shard runs them and refuses when it is full or    *)
(* the shard was told to stop (module Shard); a refused resumption ends    *)
(* the process.  Spurious wakeups, and shutdown called by a coroutine, are *)
(* left to BlockingExecutor.                                               *)
(***************************************************************************)
EXTENDS BlockingExecutor

CONSTANTS
  Ops,          \* awaited operations, some of Works
  Sizes,        \* offsets and lengths
  ShardThread,  \* the caller that runs the shard
  LaneLimit     \* capacity of the system lane

ASSUME FileConstants ==
  /\ Ops \subseteq Works /\ IsFiniteSet(Ops) /\ Sizes \subseteq Nat
  /\ ShardThread \in Callers /\ LaneLimit \in Nat

VARIABLES
  kind, coroutine, work, result, done, continuation, detached, submitted, scheduling, queued,
  schedules, outcome, open, size, dirty, allocating,   \* module File
  stopped,      \* the shard's stop_requested_
  terminated    \* std::terminate was called

fileVars == <<kind, coroutine, work, result, done, continuation, detached, submitted, scheduling,
              queued, schedules, outcome, open, size, dirty, allocating>>
runtimeVars == <<vars, fileVars, stopped, terminated>>

F == INSTANCE File

RuntimeInit == Init /\ F!Init /\ stopped = FALSE /\ terminated = FALSE

\* The shard's thread is not inside a call of the executor.
OnShard == call[ShardThread] = "none"

------------------------------------------------------------------------------
\* The constructor of an operation.  Reads are enough here: what the
\* kinds of work and direct calls do to the file meets in File alone.
StartOp(o) ==
  /\ \/ /\ \E k \in F!Kinds : k.op = "read" /\ F!Start(o, k)
        /\ Submit(ShardThread, o)
     \/ /\ F!StartRefused(o)
        /\ OnShard /\ (shuttingDown \/ Len(queue) >= QueueLimit)
        /\ UNCHANGED vars
  /\ UNCHANGED <<stopped, terminated>>

\* Mutant: the lane refuses its last place.
LaneAccepts_OneLess == ~stopped /\ Cardinality(queued) + 1 < LaneLimit

\* shard::submit_system
LaneAccepts == ~stopped /\ Cardinality(queued) < LaneLimit

ScheduleResume(o, side) ==
  /\ <<o, side>> \in scheduling
  /\ IF LaneAccepts
     THEN F!ScheduleResume(o, side) /\ UNCHANGED terminated
     ELSE terminated' = TRUE /\ UNCHANGED fileVars
  /\ UNCHANGED <<vars, stopped>>

\* What the coroutine of o and its queued resumption do.
CoroutineStep(o) ==
  /\ OnShard
  /\ \/ F!Coroutine(o) /\ UNCHANGED <<vars, stopped, terminated>>
     \/ ScheduleResume(o, "coroutine")

DestroyOp(o) ==
  /\ OnShard
  /\ F!Destroy(o)
  /\ UNCHANGED <<vars, stopped, terminated>>

\* The worker inside the work: it runs, publishes and schedules.
WorkerStep(w) ==
  /\ worker[w] = "running" /\ current[w] \in Ops
  /\ \/ (F!Run(current[w]) \/ F!Publish(current[w])) /\ UNCHANGED <<vars, stopped, terminated>>
     \/ ScheduleResume(current[w], "worker")

FinishOp(w) ==
  /\ worker[w] = "running" /\ current[w] \in Ops
  /\ work[current[w]] = "published" /\ <<current[w], "worker">> \notin scheduling
  /\ Finish(w)
  /\ UNCHANGED <<fileVars, stopped, terminated>>

TakeOp(w) == Take(w) /\ UNCHANGED <<fileVars, stopped, terminated>>

\* The executor's calls, by threads that are not workers.
CallerStep(t) == CallStep(t) /\ UNCHANGED <<fileVars, stopped, terminated>>

ShutdownCall(t) == RequestShutdown(t) /\ UNCHANGED <<fileVars, stopped, terminated>>

\* request_stop on the shard; what the lane holds is still run.
StopShard ==
  /\ ~stopped
  /\ stopped' = TRUE
  /\ UNCHANGED <<vars, fileVars, terminated>>

RuntimeNext ==
  /\ ~terminated
  /\ \/ \E o \in Ops : StartOp(o) \/ CoroutineStep(o) \/ DestroyOp(o)
     \/ \E w \in Workers : TakeOp(w) \/ WorkerStep(w) \/ FinishOp(w)
     \/ \E t \in Callers : CallerStep(t)
     \/ \E t \in Callers \ {ShardThread} : ShutdownCall(t)
     \/ StopShard

RuntimeSpec == RuntimeInit /\ [][RuntimeNext]_runtimeVars

\* The shard, the workers and the callers get to run, and file work returns.
RuntimeFairness ==
  /\ \A o \in Ops : WF_runtimeVars(~terminated /\ CoroutineStep(o))
  /\ \A w \in Workers : WF_runtimeVars(~terminated /\ (TakeOp(w) \/ WorkerStep(w) \/ FinishOp(w)))
  /\ \A t \in Callers : WF_runtimeVars(~terminated /\ CallerStep(t))

------------------------------------------------------------------------------
(* Properties. *)

\* Operations whose resumption is still to come or in the lane.
Outstanding ==
  {o \in Ops : \/ coroutine[o] \in {"awaiting", "installing", "suspended"}
               \/ o \in queued \/ \E side \in F!Sides : <<o, side>> \in scheduling}

\* What an awaiting coroutine gets is what its work did, whoever schedules it.
\* The process is ended only for a resumption that came after the shard was
\* stopped, or with more operations outstanding than the system lane holds;
\* and once shutdown returned, every operation the executor accepted has its
\* result and no worker is left that could schedule on the shard.
CompletionsHonoured ==
  /\ F!TrueOutcome
  /\ terminated => stopped \/ Cardinality(Outstanding) > LaneLimit
  /\ (\E t \in Callers : call[t] = "returned") =>
       \A o \in Ops : work[o] \in {"none", "published"} /\ <<o, "worker">> \notin scheduling

\* A coroutine that awaits a file operation is resumed with the result or
\* destroyed, also when the executor is shut down in between, unless the
\* process ended.
Resumed ==
  \A o \in Ops : coroutine[o] = "awaiting" ~> (coroutine[o] \in {"resumed", "destroyed"} \/ terminated)
==============================================================================
