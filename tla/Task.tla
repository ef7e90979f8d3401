-------------------------------- MODULE Task --------------------------------
(***************************************************************************)
(* task and task_continuation_state (src/include/voris/io/task.hpp).       *)
(*                                                                         *)
(* Tasks 1..N form a chain: the body of task t creates, awaits, reads or   *)
(* drops task t+1, and task 1 belongs to code outside any task.  Each      *)
(* critical section of task_continuation_state is one step, and so is each *)
(* stretch of a body between two suspensions; bodies and the queued work   *)
(* of final_suspend interleave freely, as on different shards.             *)
(*                                                                         *)
(* A task is move-only, so install is called once per task and its         *)
(* already_consumed answer does not occur.  schedule_system is assumed to  *)
(* accept: the code terminates the process otherwise.                      *)
(***************************************************************************)
EXTENDS Integers, FiniteSets

CONSTANTS
  N,        \* length of the chain
  NoTask    \* a null coroutine handle

ASSUME TaskConstants == N \in Nat \ {0} /\ NoTask \notin Nat

Tasks == 1..N

VARIABLES
  phase,      \* where the coroutine of a task is
  held,       \* tasks whose frame is owned by a task object or an awaiter
  awaited,    \* held by an awaiter
  cont,       \* continuation and scheduler of the task's state
  completed, detached,  \* flags of the task's state
  result,     \* promise_type::result
  scheduling, \* final awaiters between publish_completed and schedule_system
  queue,      \* queued resume_task_continuation calls
  resumes,    \* history: resumptions through the task's state
  outcome     \* history: what the owner of a task read from it

vars == <<phase, held, awaited, cont, completed, detached, result, scheduling, queue, resumes,
          outcome>>

Phases == {"uncreated",  \* not called yet
           "unstarted",  \* suspended at initial_suspend
           "running",
           "external",   \* suspended on something that is not a task
           "awaiting",   \* await_ready was false, await_suspend not yet called
           "suspended",  \* suspended on the next task
           "finishing",  \* the result is set, publish_completed not yet called
           "final",      \* suspended at final_suspend
           "destroyed"}

TypeOK ==
  /\ phase \in [Tasks -> Phases]
  /\ held \in SUBSET Tasks /\ awaited \in SUBSET Tasks
  /\ cont \in [Tasks -> Tasks \cup {NoTask}]
  /\ completed \in SUBSET Tasks /\ detached \in SUBSET Tasks
  /\ result \in [Tasks -> {"none", "value", "invalid_state"}]
  /\ scheduling \in SUBSET Tasks /\ queue \in SUBSET Tasks
  /\ resumes \in [Tasks -> Nat]
  /\ outcome \in [Tasks -> {"unread", "value", "invalid_state", "not_completed"}]

Init ==
  /\ phase = [t \in Tasks |-> "uncreated"]
  /\ held = {} /\ awaited = {}
  /\ cont = [t \in Tasks |-> NoTask]
  /\ completed = {} /\ detached = {}
  /\ result = [t \in Tasks |-> "none"]
  /\ scheduling = {} /\ queue = {}
  /\ resumes = [t \in Tasks |-> 0]
  /\ outcome = [t \in Tasks |-> "unread"]

------------------------------------------------------------------------------
(* Frames and results. *)

\* The frames that go when the frame of t is destroyed: t and, through the
\* task objects and awaiters in the frames, the tasks they own.
Subtree(t) == {u \in Tasks : u >= t /\ \A v \in (t + 1)..u : v \in held}

\* The code that owns t can act: task t-1, or the outside for task 1.
OwnerRuns(t) == IF t = 1 THEN TRUE ELSE phase[t - 1] = "running"

\* Destroying a running coroutine is outside the contract of every caller.
Destroyable(t) == \A u \in Subtree(t) : phase[u] \notin {"running", "awaiting", "finishing"}

\* Mutant: an awaiter is destroyed without detaching its continuation state.
Destroy_NoDetach(t) ==
  /\ phase' = [u \in Tasks |-> IF u \in Subtree(t) THEN "destroyed" ELSE phase[u]]
  /\ held' = held \ Subtree(t)
  /\ UNCHANGED <<detached, cont>>

\* Destruction of the task object or awaiter that owns t: the awaiters among
\* the owners detach the states of their tasks before the frames go.
Destroy(t) ==
  LET gone == Subtree(t) \cap awaited
  IN  /\ phase' = [u \in Tasks |-> IF u \in Subtree(t) THEN "destroyed" ELSE phase[u]]
      /\ held' = held \ Subtree(t)
      /\ detached' = detached \cup gone
      /\ cont' = [u \in Tasks |-> IF u \in gone THEN NoTask ELSE cont[u]]

\* promise_type::take_result
TakenFrom(done, r) == IF ~done \/ r = "none" THEN "not_completed" ELSE r

\* awaiter::await_resume of task c in the body of its owner: the result is
\* taken, the frame destroyed, the state detached and the owner runs on.
AwaitResume(c, done, r) ==
  LET gone == Subtree(c)
  IN  /\ outcome' = [outcome EXCEPT ![c] = TakenFrom(done, r)]
      /\ phase' = [u \in Tasks |-> IF u \in gone THEN "destroyed"
                                   ELSE IF u = c - 1 THEN "running" ELSE phase[u]]
      /\ held' = held \ gone
      /\ detached' = detached \cup (gone \cap awaited) \cup {c}
      /\ cont' = [u \in Tasks |-> IF u \in (gone \cap awaited) \cup {c} THEN NoTask ELSE cont[u]]

------------------------------------------------------------------------------
(* The body of a task. *)

\* Calling the coroutine of t; without a current scheduler it stays at
\* initial_suspend with an error.
Create(t, scheduler) ==
  /\ phase[t] = "uncreated"
  /\ OwnerRuns(t)
  /\ held' = held \cup {t}
  /\ IF scheduler
     THEN /\ phase' = [phase EXCEPT ![t] = "running"]
          /\ UNCHANGED <<result, completed>>
     ELSE /\ phase' = [phase EXCEPT ![t] = "unstarted"]
          /\ result' = [result EXCEPT ![t] = "invalid_state"]
          /\ completed' = completed \cup {t}
  /\ UNCHANGED <<awaited, cont, detached, scheduling, queue, resumes, outcome>>

\* The body suspends on a timer, an operation or a lock, and is resumed.
External(t) ==
  /\ \/ phase[t] = "running" /\ phase' = [phase EXCEPT ![t] = "external"]
     \/ phase[t] = "external" /\ phase' = [phase EXCEPT ![t] = "running"]
  /\ UNCHANGED <<held, awaited, cont, completed, detached, result, scheduling, queue, resumes,
                 outcome>>

\* co_await std::move(c) up to and including await_ready.
AwaitReady(c) ==
  /\ c # 1 /\ phase[c - 1] = "running"
  /\ c \in held
  /\ awaited' = awaited \cup {c}
  /\ IF c \in completed
     THEN AwaitResume(c, TRUE, result[c])
     ELSE /\ phase' = [phase EXCEPT ![c - 1] = "awaiting"]
          /\ UNCHANGED <<held, cont, detached, outcome>>
  /\ UNCHANGED <<completed, result, scheduling, queue, resumes>>

\* Mutant: install does not look whether the task has completed meanwhile.
AwaitSuspend_NoRecheck(c) ==
  /\ c # 1 /\ phase[c - 1] = "awaiting"
  /\ cont' = [cont EXCEPT ![c] = c - 1]
  /\ phase' = [phase EXCEPT ![c - 1] = "suspended"]
  /\ UNCHANGED <<held, awaited, completed, detached, result, scheduling, queue, resumes, outcome>>

\* await_suspend with a current scheduler: install.
AwaitSuspend(c) ==
  /\ c # 1 /\ phase[c - 1] = "awaiting"
  /\ IF c \in completed \cup detached
     THEN AwaitResume(c, c \in completed, result[c])
     ELSE /\ cont' = [cont EXCEPT ![c] = c - 1]
          /\ phase' = [phase EXCEPT ![c - 1] = "suspended"]
          /\ UNCHANGED <<held, detached, outcome>>
  /\ UNCHANGED <<awaited, completed, result, scheduling, queue, resumes>>

\* await_suspend without one: set_invalid_state, and the await fails at once.
\* The awaited frame is destroyed, so it must not be running elsewhere.
AwaitSuspendUnscheduled(c) ==
  /\ c # 1 /\ phase[c - 1] = "awaiting"
  /\ Destroyable(c)
  /\ IF result[c] = "none"
     THEN /\ result' = [result EXCEPT ![c] = "invalid_state"]
          /\ completed' = completed \cup {c}
          /\ AwaitResume(c, TRUE, "invalid_state")
     ELSE /\ AwaitResume(c, c \in completed, result[c])
          /\ UNCHANGED <<result, completed>>
  /\ UNCHANGED <<awaited, scheduling, queue, resumes>>

\* std::move(c).take_result() by the owner of the task object.
TakeResult(c) ==
  /\ c \in held \ awaited
  /\ OwnerRuns(c)
  /\ Destroyable(c)
  /\ outcome' = [outcome EXCEPT ![c] = TakenFrom(c \in completed, result[c])]
  /\ Destroy(c)
  /\ UNCHANGED <<awaited, completed, result, scheduling, queue, resumes>>

\* ~task: the owner drops the task, also in the middle of everything the
\* chain below it waits for.
Drop(c) ==
  /\ c \in held \ awaited
  /\ OwnerRuns(c)
  /\ Destroyable(c)
  /\ Destroy(c)
  /\ UNCHANGED <<awaited, completed, result, scheduling, queue, resumes, outcome>>

\* The body returns or throws; a task object it still holds is destroyed.
Finish(t, r) ==
  /\ phase[t] = "running"
  /\ result' = [result EXCEPT ![t] = r]
  /\ LET gone == Subtree(t) \ {t}
     IN  /\ \A u \in gone : phase[u] \notin {"running", "awaiting", "finishing"}
         /\ phase' = [u \in Tasks |-> IF u = t THEN "finishing"
                                      ELSE IF u \in gone THEN "destroyed" ELSE phase[u]]
         /\ held' = held \ gone
         /\ detached' = detached \cup (gone \cap awaited)
         /\ cont' = [u \in Tasks |-> IF u \in gone \cap awaited THEN NoTask ELSE cont[u]]
  /\ UNCHANGED <<awaited, completed, scheduling, queue, resumes, outcome>>

\* final_suspend: publish_completed.  From here on the frame is not touched.
PublishCompleted(t) ==
  /\ phase[t] = "finishing"
  /\ phase' = [phase EXCEPT ![t] = "final"]
  /\ completed' = completed \cup {t}
  /\ scheduling' = IF t \in detached \/ cont[t] = NoTask THEN scheduling ELSE scheduling \cup {t}
  /\ UNCHANGED <<held, awaited, cont, detached, result, queue, resumes, outcome>>

\* final_suspend: schedule_system of resume_task_continuation.
ScheduleSystem(t) ==
  /\ t \in scheduling
  /\ scheduling' = scheduling \ {t}
  /\ queue' = queue \cup {t}
  /\ UNCHANGED <<phase, held, awaited, cont, completed, detached, result, resumes, outcome>>

\* resume_task_continuation: claim, then the continuation runs await_resume.
ResumeTaskContinuation(t) ==
  /\ t \in queue
  /\ queue' = queue \ {t}
  /\ IF t \in detached \/ cont[t] = NoTask
     THEN UNCHANGED <<phase, held, cont, detached, outcome, resumes>>
     ELSE /\ resumes' = [resumes EXCEPT ![t] = @ + 1]
          /\ AwaitResume(t, t \in completed, result[t])
  /\ UNCHANGED <<awaited, completed, result, scheduling>>

Next ==
  \E t \in Tasks :
    \/ \E scheduler \in BOOLEAN : Create(t, scheduler)
    \/ External(t)
    \/ AwaitReady(t)
    \/ AwaitSuspend(t)
    \/ AwaitSuspendUnscheduled(t)
    \/ TakeResult(t)
    \/ Drop(t)
    \/ \E r \in {"value", "invalid_state"} : Finish(t, r)
    \/ PublishCompleted(t)
    \/ ScheduleSystem(t)
    \/ ResumeTaskContinuation(t)

\* A body that returned runs through final_suspend, and schedulers run what is
\* queued.  Bodies themselves may wait for ever.
Fairness ==
  \A t \in Tasks : WF_vars(PublishCompleted(t)) /\ WF_vars(ScheduleSystem(t))
                     /\ WF_vars(ResumeTaskContinuation(t))

Spec == Init /\ [][Next]_vars /\ Fairness

------------------------------------------------------------------------------
(* Properties. *)

\* A stored continuation is the frame of a live coroutine suspended on this
\* very task, whose frame the awaiter in it still owns: no queued resumption
\* reaches a destroyed frame or a coroutine that waits for something else, and
\* none comes twice.
ContinuationLive ==
  \A t \in Tasks :
    /\ cont[t] # NoTask => /\ phase[cont[t]] = "suspended"
                          /\ cont[t] = t - 1
                          /\ t \in held \cap awaited
    /\ resumes[t] <= 1

\* A coroutine suspended on a task that finished is resumed or destroyed.
AwaiterEventuallyResumed ==
  \A t \in Tasks \ {1} :
    (phase[t - 1] = "suspended" /\ phase[t] \in {"finishing", "final"})
      ~> (phase[t - 1] # "suspended")
==============================================================================
