-------------------------------- MODULE File --------------------------------
(***************************************************************************)
(* file and blocking_file_operation (src/src/file.cpp): coroutines await   *)
(* file work that runs on the blocking executor.                           *)
(*                                                                         *)
(* The constructor of an operation, each critical section of its state and *)
(* each section under the file's mutex is a step; the executor's threads,  *)
(* the shard that resumes coroutines, and a thread that calls the file     *)
(* directly interleave.  Alone, the module has the executor and the shard  *)
(* accept anything and run it once; FileRuntime puts it on the real ones.  *)
(* A file is its length: bytes that fstream still buffers are not in it.   *)
(***************************************************************************)
EXTENDS Integers, FiniteSets

CONSTANTS
  Ops,     \* awaited operations
  Sizes    \* offsets and lengths

VARIABLES
  kind,         \* what a started operation is to do
  coroutine,    \* where the awaiting coroutine is
  work,         \* where the work is on the executor
  result,       \* operation_state::result
  done,         \* history: what the work did
  continuation, detached, submitted,   \* sets: operation_state
  scheduling,   \* <<op, side>>: the side left the lock in order to call schedule_resume
  queued,       \* resumptions queued on the shard
  schedules,    \* history: calls of schedule_resume
  outcome,      \* history: what the coroutine got from take_result
  open,         \* file_state::stream is open
  size,         \* length of the file on disk
  dirty,        \* end of the bytes fstream buffers, 0 for none
  allocating    \* argument of a running allocate that found the file shorter, 0 for none

opVars == <<kind, coroutine, work, result, done, continuation, detached, submitted, scheduling,
            queued, schedules, outcome>>
fileVars == <<open, size, dirty>>
vars == <<opVars, fileVars, allocating>>

\* What the work is: a write is known by the end of the bytes it writes.
Kinds == [op : {"read", "close"}, end : {0}] \cup [op : {"write"}, end : Sizes]
Sides == {"coroutine", "worker"}
Results == {"none", "ok", "closed", "failure", "refused"}

TypeOK ==
  /\ kind \in [Ops -> Kinds]
  /\ coroutine \in [Ops -> {"unstarted", "awaiting", "installing", "suspended", "resumed", "destroyed"}]
  /\ work \in [Ops -> {"none", "queued", "ran", "published"}]
  /\ result \in [Ops -> Results] /\ done \in [Ops -> Results]
  /\ outcome \in [Ops -> Results \cup {"unread"}]
  /\ continuation \subseteq Ops /\ detached \subseteq Ops /\ submitted \subseteq Ops
  /\ scheduling \subseteq Ops \X Sides /\ queued \subseteq Ops
  /\ schedules \in [Ops -> 0..1]
  /\ open \in BOOLEAN /\ size \in Nat /\ dirty \in Nat /\ allocating \in Sizes \cup {0}

Init ==
  /\ kind = [o \in Ops |-> [op |-> "read", end |-> 0]]
  /\ coroutine = [o \in Ops |-> "unstarted"] /\ work = [o \in Ops |-> "none"]
  /\ result = [o \in Ops |-> "none"] /\ done = [o \in Ops |-> "none"]
  /\ outcome = [o \in Ops |-> "unread"] /\ schedules = [o \in Ops |-> 0]
  /\ continuation = {} /\ detached = {} /\ submitted = Ops /\ scheduling = {} /\ queued = {}
  /\ open = TRUE /\ size = 0 /\ dirty = 0 /\ allocating = 0

Longest(a, b) == IF a < b THEN b ELSE a

------------------------------------------------------------------------------
(* The coroutine. *)

\* The operation is constructed and submitted.
Start(o, k) ==
  /\ coroutine[o] = "unstarted"
  /\ coroutine' = [coroutine EXCEPT ![o] = "awaiting"]
  /\ kind' = [kind EXCEPT ![o] = k]
  /\ work' = [work EXCEPT ![o] = "queued"]
  /\ UNCHANGED <<result, done, continuation, detached, submitted, scheduling, queued,
                 schedules, outcome, fileVars, allocating>>

\* The executor refuses the work: complete_submit_failure.
StartRefused(o) ==
  /\ coroutine[o] = "unstarted"
  /\ coroutine' = [coroutine EXCEPT ![o] = "awaiting"]
  /\ result' = [result EXCEPT ![o] = "refused"]
  /\ done' = [done EXCEPT ![o] = "refused"]
  /\ submitted' = submitted \ {o}
  /\ UNCHANGED <<kind, work, continuation, detached, scheduling, queued, schedules, outcome,
                 fileVars, allocating>>

\* await_resume, and the end of the awaiter.
TakeResult(o) ==
  /\ outcome' = [outcome EXCEPT ![o] = result[o]]
  /\ coroutine' = [coroutine EXCEPT ![o] = "resumed"]
  /\ detached' = detached \cup {o}

\* await_ready: only a refused operation is taken without suspending.
AwaitReady(o) ==
  /\ coroutine[o] = "awaiting"
  /\ IF o \notin submitted /\ result[o] # "none"
     THEN TakeResult(o)
     ELSE coroutine' = [coroutine EXCEPT ![o] = "installing"] /\ UNCHANGED <<outcome, detached>>
  /\ UNCHANGED <<kind, work, result, done, continuation, submitted, scheduling, queued, schedules,
                 fileVars, allocating>>

\* Mutant: a result that is already there is not noticed.
Install_NotScheduled(o) ==
  /\ coroutine[o] = "installing"
  /\ coroutine' = [coroutine EXCEPT ![o] = "suspended"]
  /\ continuation' = continuation \cup {o}
  /\ UNCHANGED <<kind, work, result, done, detached, submitted, scheduling, queued, schedules,
                 outcome, fileVars, allocating>>

\* await_suspend
Install(o) ==
  /\ coroutine[o] = "installing"
  /\ coroutine' = [coroutine EXCEPT ![o] = "suspended"]
  /\ continuation' = continuation \cup {o}
  /\ scheduling' = IF result[o] # "none" THEN scheduling \cup {<<o, "coroutine">>} ELSE scheduling
  /\ UNCHANGED <<kind, work, result, done, detached, submitted, queued, schedules, outcome,
                 fileVars, allocating>>

\* The suspended coroutine is destroyed: ~awaiter calls detach.  The thread
\* that destroys it is the one that resumes it, so a resumption is a step.
Destroy(o) ==
  /\ coroutine[o] = "suspended"
  /\ coroutine' = [coroutine EXCEPT ![o] = "destroyed"]
  /\ detached' = detached \cup {o}
  /\ continuation' = continuation \ {o}
  /\ UNCHANGED <<kind, work, result, done, submitted, scheduling, queued, schedules, outcome,
                 fileVars, allocating>>

------------------------------------------------------------------------------
(* The executor. *)

\* invoke_work: the file work under the file's mutex.  Only a write can fail on
\* an open file; its seek, like that of a read, flushes what was buffered before.
Run(o) ==
  /\ work[o] = "queued"
  /\ work' = [work EXCEPT ![o] = "ran"]
  /\ \E r \in {"ok", "failure"} :
       LET op  == kind[o].op
           did == IF op = "close" THEN "ok" ELSE IF ~open THEN "closed"
                  ELSE IF op = "write" THEN r ELSE "ok"
       IN  /\ done' = [done EXCEPT ![o] = did]
           /\ size' = Longest(size, dirty)
           /\ dirty' = IF op = "write" /\ did = "ok" THEN kind[o].end ELSE 0
           /\ open' = (open /\ op # "close")
  /\ UNCHANGED <<kind, coroutine, result, continuation, detached, submitted, scheduling, queued,
                 schedules, outcome, allocating>>

\* Mutant: the result of a detached operation counts as cancelled.
Publish_Masked(o) ==
  /\ work[o] = "ran"
  /\ work' = [work EXCEPT ![o] = "published"]
  /\ result' = [result EXCEPT ![o] = IF o \in continuation THEN done[o] ELSE "refused"]
  /\ scheduling' = IF o \in continuation \ detached
                         THEN scheduling \cup {<<o, "worker">>} ELSE scheduling
  /\ UNCHANGED <<kind, coroutine, done, continuation, detached, submitted, queued, schedules,
                 outcome, fileVars, allocating>>

Publish(o) ==
  /\ work[o] = "ran"
  /\ work' = [work EXCEPT ![o] = "published"]
  /\ IF result[o] # "none" THEN UNCHANGED <<result, scheduling>>
     ELSE /\ result' = [result EXCEPT ![o] = done[o]]
          /\ scheduling' = IF o \in continuation \ detached
                         THEN scheduling \cup {<<o, "worker">>} ELSE scheduling
  /\ UNCHANGED <<kind, coroutine, done, continuation, detached, submitted, queued, schedules,
                 outcome, fileVars, allocating>>

\* schedule_resume, when schedule_system accepts.
ScheduleResume(o, side) ==
  /\ <<o, side>> \in scheduling
  /\ scheduling' = scheduling \ {<<o, side>>}
  /\ queued' = queued \cup {o}
  /\ schedules' = [schedules EXCEPT ![o] = @ + 1]
  /\ UNCHANGED <<kind, coroutine, work, result, done, continuation, detached, submitted, outcome,
                 fileVars, allocating>>

\* The queued resumption runs on the shard.
ResumeIfClaimed(o) ==
  /\ o \in queued
  /\ queued' = queued \ {o}
  /\ IF o \in detached \/ o \notin continuation
     THEN UNCHANGED <<continuation, outcome, coroutine, detached>>
     ELSE continuation' = continuation \ {o} /\ TakeResult(o)
  /\ UNCHANGED <<kind, work, result, done, submitted, scheduling, schedules, fileVars, allocating>>

------------------------------------------------------------------------------
(* Direct calls on the file. *)

\* allocate asks for the length and lets go of the mutex.
AllocateSize(n) ==
  /\ allocating = 0 /\ size < n
  /\ allocating' = n
  /\ UNCHANGED <<opVars, fileVars>>

\* resize_file to what was asked for.
AllocateTruncate ==
  /\ allocating # 0
  /\ size' = allocating /\ allocating' = 0
  /\ UNCHANGED <<opVars, open, dirty>>

Truncate(n) ==
  /\ allocating = 0 /\ size # n
  /\ size' = n
  /\ UNCHANGED <<opVars, open, dirty, allocating>>

\* sync_data, or fstream empties its buffer by itself.
Flush ==
  /\ open /\ dirty # 0
  /\ size' = Longest(size, dirty) /\ dirty' = 0
  /\ UNCHANGED <<opVars, open, allocating>>

\* file::close and the destructor, with operations still queued.
Close ==
  /\ open
  /\ open' = FALSE /\ size' = Longest(size, dirty) /\ dirty' = 0
  /\ UNCHANGED <<opVars, allocating>>

Coroutine(o) == AwaitReady(o) \/ Install(o) \/ ResumeIfClaimed(o)

Direct ==
  \/ \E n \in Sizes : AllocateSize(n) \/ Truncate(n)
  \/ AllocateTruncate \/ Flush \/ Close

Next ==
  \/ \E o \in Ops, k \in Kinds : Start(o, k)
  \/ \E o \in Ops : StartRefused(o) \/ Coroutine(o) \/ Destroy(o) \/ Run(o) \/ Publish(o)
  \/ \E o \in Ops, side \in Sides : ScheduleResume(o, side)
  \/ Direct

Spec == Init /\ [][Next]_vars

------------------------------------------------------------------------------
(* Properties. *)

\* What a coroutine gets is what its work did to the file, or the refusal; a
\* completed side effect is never masked, no result is read too early, and the
\* resumption that delivers it is scheduled once.
TrueOutcome ==
  \A o \in Ops : /\ outcome[o] # "unread" => outcome[o] = done[o] /\ done[o] # "none"
                 /\ schedules[o] <= 1

\* allocate grows the file when needed and never shrinks it.
AllocateOnlyGrows == [][allocating # 0 /\ allocating' = 0 => size' >= size]_vars
==============================================================================
