-------------------------------- MODULE Shard --------------------------------
(***************************************************************************)
(* A shard (src/src/shard.cpp): the two bounded mailbox queues, the        *)
(* wakeup counter, the loop thread, and the threads that submit work or    *)
(* request a stop.                                                         *)
(*                                                                         *)
(* Atomic steps are the critical sections of the mutexes involved.  The    *)
(* lifecycle mutex is held over several steps of submit, so its owner is a *)
(* variable; the queue, metrics and wakeup mutexes protect one step each.  *)
(* The two size() reads that make up queue_depth are one step: whoever     *)
(* changed a queue in between refreshes queue_depth later.                 *)
(*                                                                         *)
(* The queues have one consumer at a time: the loop thread, or the owner   *)
(* calling run_one_loop_iteration or drain on a shard it has not started.  *)
(***************************************************************************)
EXTENDS Integers, Sequences, FiniteSets

CONSTANTS
  Threads,         \* threads that call submit, submit_system and request_stop
  Owner,           \* the thread among them that calls start and join
  Loop,            \* the loop thread, which submits from the work it runs
  UserMessages,    \* continuations handed to submit
  SystemMessages,  \* continuations handed to submit_system
  Capacity,        \* queue_limit
  Budgets,         \* values of budget_.task_budget; 0 fails validation
  MaxStarts        \* bound: calls of start

Classes == {"user", "system"}
Of(class) == IF class = "user" THEN UserMessages ELSE SystemMessages
ClassOf(m) == IF m \in UserMessages THEN "user" ELSE "system"
Messages == UserMessages \cup SystemMessages
Callers == Threads \cup {Loop}

ASSUME ShardConstants ==
  /\ Owner \in Threads
  /\ Loop \notin Threads
  /\ UserMessages \cap SystemMessages = {}
  /\ Capacity \in Nat
  /\ Budgets \subseteq Nat
  /\ MaxStarts \in Nat

NoThread == "none"
NoMessage == "none"
ASSUME NamesAreFresh == NoThread \notin Callers /\ NoMessage \notin Messages

VARIABLES
  queue,               \* mailbox_: the user and the system queue
  pending,             \* wakeup_.pending_
  lifecycle,           \* owner of lifecycle_mutex_
  stopRequested,       \* stop_requested_
  running,             \* running_
  loopError,           \* loop_error_ is set
  metrics,             \* queue_depth, submitted_tasks, completed_tasks
  budget,              \* budget_.task_budget
  pc, arg,             \* per caller: where it is in submit/request_stop, and with what
  driver,              \* what consumes: the "thread", a manual "iteration" or "drain"
  loop,                \* where the consumer is
  ran,                 \* tasks run in the current iteration
  message,             \* the message popped and not finished
  starts,              \* calls of start so far
  accepted, finished   \* history, per class: messages pushed, messages run to an end

callVars == <<pc, arg>>
loopVars == <<driver, loop, ran, message>>
history == <<accepted, finished>>
vars == <<queue, pending, lifecycle, stopRequested, running, loopError, metrics, budget,
          callVars, loopVars, starts, history>>

CallPoints == {"idle", "push", "count", "wake"}
LoopPoints == {"off", "check", "slice", "popSystem", "popUser", "observe", "work", "count",
               "wait", "consume", "drainSystem", "drainUser", "drainObserve", "drainWork",
               "drainCount", "failing", "exited"}

Metrics == [depth : Nat, submitted : Nat, completed : Nat]

TypeOK ==
  /\ queue \in [Classes -> Seq(Messages)]
  /\ \A c \in Classes : queue[c] \in Seq(Of(c)) /\ Len(queue[c]) <= Capacity
  /\ pending \in Nat
  /\ lifecycle \in Callers \cup {NoThread}
  /\ stopRequested \in BOOLEAN /\ running \in BOOLEAN /\ loopError \in BOOLEAN
  /\ metrics \in Metrics
  /\ budget \in Budgets
  /\ pc \in [Callers -> CallPoints]
  /\ arg \in [Callers -> Messages \cup {NoMessage}]
  /\ driver \in {"thread", "iteration", "drain"}
  /\ loop \in LoopPoints
  /\ ran \in Nat
  /\ message \in Messages \cup {NoMessage}
  /\ starts \in Nat
  /\ accepted \in [Classes -> Seq(Messages)]
  /\ finished \in [Classes -> Seq(Messages)]

Init ==
  /\ queue = [c \in Classes |-> <<>>]
  /\ pending = 0
  /\ lifecycle = NoThread
  /\ stopRequested = FALSE /\ running = FALSE /\ loopError = FALSE
  /\ metrics = [depth |-> 0, submitted |-> 0, completed |-> 0]
  /\ budget \in Budgets
  /\ pc = [t \in Callers |-> "idle"]
  /\ arg = [t \in Callers |-> NoMessage]
  /\ driver = "thread" /\ loop = "off" /\ ran = 0 /\ message = NoMessage
  /\ starts = 0
  /\ accepted = [c \in Classes |-> <<>>] /\ finished = [c \in Classes |-> <<>>]

\* bounded_queue::try_push accepts.
Room(q) == Len(q) < Capacity

\* Mutant: pop reads the newest item.
Front_Newest(q) == q[Len(q)]

\* The item bounded_queue::pop takes.
Front(q) == Head(q)

Depth == Len(queue["user"]) + Len(queue["system"])
Go(t, point) == pc' = [pc EXCEPT ![t] = point]
RangeOf(s) == {s[k] : k \in DOMAIN s}

------------------------------------------------------------------------------
(* submit, submit_system, request_stop. *)

\* The owner is inside run_one_loop_iteration or drain.
Manual == driver # "thread" /\ loop # "off"

\* The consumer calls in only from the work it is running, and an owner that
\* consumes makes no other call.
MayCall(t) ==
  /\ pc[t] = "idle"
  /\ t = Loop => loop \in {"work", "drainWork"}
  /\ t = Owner => ~Manual

InCall == UNION {{arg[t]} : t \in {u \in Callers : pc[u] \in {"push", "count"}}}

\* A continuation not submitted before.  Which one does not matter: nothing
\* tells the messages of a class apart.
Fresh(class) == Of(class) \ (RangeOf(accepted[class]) \cup InCall)
NextOf(class) == CHOOSE m \in Fresh(class) : TRUE

\* submit and submit_system take the lifecycle mutex and pass the
\* stop_requested_ check.
SubmitEnter(t, class) ==
  /\ MayCall(t)
  /\ lifecycle = NoThread
  /\ ~stopRequested
  /\ Fresh(class) # {}
  /\ lifecycle' = t
  /\ arg' = [arg EXCEPT ![t] = NextOf(class)]
  /\ Go(t, "push")
  /\ UNCHANGED <<queue, pending, stopRequested, running, loopError, metrics, budget,
                 loopVars, starts, history>>

\* mailbox_.submit / submit_system: try_push on the queue of the message's class.
SubmitPush(t) ==
  /\ pc[t] = "push"
  /\ Room(queue[ClassOf(arg[t])])
  /\ queue' = [queue EXCEPT ![ClassOf(arg[t])] = Append(@, arg[t])]
  /\ accepted' = [accepted EXCEPT ![ClassOf(arg[t])] = Append(@, arg[t])]
  /\ Go(t, "count")
  /\ UNCHANGED <<pending, lifecycle, stopRequested, running, loopError, metrics, budget,
                 arg, loopVars, starts, finished>>

\* The queue is full: queue_depth is refreshed and the error returned.
SubmitFull(t) ==
  /\ pc[t] = "push"
  /\ ~Room(queue[ClassOf(arg[t])])
  /\ metrics' = [metrics EXCEPT !.depth = Depth]
  /\ lifecycle' = NoThread
  /\ arg' = [arg EXCEPT ![t] = NoMessage]
  /\ Go(t, "idle")
  /\ UNCHANGED <<queue, pending, stopRequested, running, loopError, budget, loopVars,
                 starts, history>>

\* The metrics update, and the end of the lifecycle critical section.
SubmitCount(t) ==
  /\ pc[t] = "count"
  /\ metrics' = [metrics EXCEPT !.depth = Depth, !.submitted = @ + 1]
  /\ lifecycle' = NoThread
  /\ arg' = [arg EXCEPT ![t] = NoMessage]
  /\ Go(t, "wake")
  /\ UNCHANGED <<queue, pending, stopRequested, running, loopError, budget, loopVars,
                 starts, history>>

\* wakeup_.wake(), outside the lifecycle mutex.
WakeCall(t) ==
  /\ pc[t] = "wake"
  /\ pending' = pending + 1
  /\ Go(t, "idle")
  /\ UNCHANGED <<queue, lifecycle, stopRequested, running, loopError, metrics, budget, arg,
                 loopVars, starts, history>>

\* Mutant: stop_requested_ is set without taking the lifecycle mutex.
RequestStop_Unlocked(t) ==
  /\ MayCall(t)
  /\ stopRequested' = TRUE
  /\ Go(t, "wake")
  /\ UNCHANGED <<queue, pending, lifecycle, running, loopError, metrics, budget, arg,
                 loopVars, starts, history>>

\* Mutant: request_stop forgets to wake the loop.
RequestStop_NoWake(t) ==
  /\ MayCall(t)
  /\ lifecycle = NoThread
  /\ ~stopRequested
  /\ stopRequested' = TRUE
  /\ Go(t, "idle")
  /\ UNCHANGED <<queue, pending, lifecycle, running, loopError, metrics, budget, arg,
                 loopVars, starts, history>>

\* A request repeated on a stopped shard only adds a wake and is left out.
RequestStop(t) ==
  /\ MayCall(t)
  /\ lifecycle = NoThread
  /\ ~stopRequested
  /\ stopRequested' = TRUE
  /\ Go(t, "wake")
  /\ UNCHANGED <<queue, pending, lifecycle, running, loopError, metrics, budget, arg,
                 loopVars, starts, history>>

------------------------------------------------------------------------------
(* start and join. *)

Start ==
  /\ pc[Owner] = "idle"
  /\ lifecycle = NoThread
  /\ ~running
  /\ loop = "off"
  /\ starts < MaxStarts
  /\ running' = TRUE
  /\ loopError' = FALSE
  /\ stopRequested' = FALSE
  /\ driver' = "thread"
  /\ loop' = "check"
  /\ starts' = starts + 1
  /\ UNCHANGED <<queue, pending, lifecycle, metrics, budget, callVars, ran, message, history>>

\* std::thread cannot be created: start throws after it has set the flags.
StartFails ==
  /\ pc[Owner] = "idle"
  /\ lifecycle = NoThread
  /\ ~running
  /\ loop = "off"
  /\ starts < MaxStarts
  /\ running' = TRUE
  /\ loopError' = FALSE
  /\ stopRequested' = FALSE
  /\ starts' = starts + 1
  /\ UNCHANGED <<queue, pending, lifecycle, metrics, budget, callVars, loopVars, history>>

\* join returns once the thread, if there is one, has left run_loop.
Join ==
  /\ pc[Owner] = "idle"
  /\ loop = "exited" \/ (loop = "off" /\ running)
  /\ loop' = "off"
  /\ running' = FALSE
  /\ UNCHANGED <<queue, pending, lifecycle, stopRequested, loopError, metrics, budget,
                 callVars, driver, ran, message, starts, history>>

\* The owner drives an unstarted shard by hand.
RunByHand(how) ==
  /\ pc[Owner] = "idle"
  /\ loop = "off"
  /\ driver' = how
  /\ \/ how = "iteration" /\ budget > 0 /\ loop' = "slice"
     \/ how = "drain" /\ loop' = "drainSystem"
  /\ UNCHANGED <<queue, pending, lifecycle, stopRequested, running, loopError, metrics,
                 budget, callVars, ran, message, starts, history>>

------------------------------------------------------------------------------
(* run_loop. *)

StepTo(point) == loop' = point
Elsewhere == <<lifecycle, running, budget, callVars, driver, starts>>

\* An iteration ends: a manual one returns, the loop goes on.
IterationEnds(point) == StepTo(IF driver = "iteration" THEN "off" ELSE point)

LoopCheck ==
  /\ loop = "check"
  /\ StepTo(IF stopRequested THEN "drainSystem" ELSE "slice")
  /\ UNCHANGED <<queue, pending, stopRequested, loopError, metrics, ran, message, history,
                 Elsewhere>>

\* loop_budget_slice::create.
LoopSlice ==
  /\ loop = "slice"
  /\ budget > 0
  /\ ran' = 0
  /\ StepTo("popSystem")
  /\ UNCHANGED <<queue, pending, stopRequested, loopError, metrics, message, history,
                 Elsewhere>>

\* The budget is invalid: the loop records the error.
LoopFail ==
  /\ loop = "slice"
  /\ budget = 0
  /\ loopError' = TRUE
  /\ metrics' = [metrics EXCEPT !.depth = Depth]
  /\ StepTo("failing")
  /\ UNCHANGED <<queue, pending, stopRequested, ran, message, history, Elsewhere>>

\* Then it sets stop_requested_, without the lifecycle mutex, and exits
\* without draining.
LoopGivesUp ==
  /\ loop = "failing"
  /\ stopRequested' = TRUE
  /\ StepTo("exited")
  /\ UNCHANGED <<queue, pending, loopError, metrics, ran, message, history, Elsewhere>>

PopFront(class) ==
  /\ message' = Front(queue[class])
  /\ queue' = [queue EXCEPT ![class] = Tail(@)]

\* pop_next, first half: the system queue.
PopSystem ==
  /\ loop \in {"popSystem", "drainSystem"}
  /\ \/ /\ queue["system"] # <<>>
        /\ PopFront("system")
        /\ StepTo(IF loop = "popSystem" THEN "observe" ELSE "drainObserve")
     \/ /\ queue["system"] = <<>>
        /\ StepTo(IF loop = "popSystem" THEN "popUser" ELSE "drainUser")
        /\ UNCHANGED <<queue, message>>
  /\ UNCHANGED <<pending, stopRequested, loopError, metrics, ran, history, Elsewhere>>

\* pop_next, second half: the user queue.  An empty iteration goes to wait, an
\* iteration that ran something back to the stop check, an empty drain ends.
PopUser ==
  /\ loop \in {"popUser", "drainUser"}
  /\ \/ /\ queue["user"] # <<>>
        /\ PopFront("user")
        /\ StepTo(IF loop = "popUser" THEN "observe" ELSE "drainObserve")
        /\ UNCHANGED metrics
     \/ /\ queue["user"] = <<>>
        /\ loop = "popUser"
        /\ IterationEnds(IF ran = 0 THEN "wait" ELSE "check")
        /\ UNCHANGED <<queue, message, metrics>>
     \/ /\ queue["user"] = <<>>
        /\ loop = "drainUser"
        /\ StepTo(IF driver = "drain" THEN "off" ELSE "exited")
        /\ metrics' = [metrics EXCEPT !.depth = Depth]
        /\ UNCHANGED <<queue, message>>
  /\ UNCHANGED <<pending, stopRequested, loopError, ran, history, Elsewhere>>

\* run_queued_message up to the call of the work.
Observe ==
  /\ loop \in {"observe", "drainObserve"}
  /\ metrics' = [metrics EXCEPT !.depth = Depth]
  /\ StepTo(IF loop = "observe" THEN "work" ELSE "drainWork")
  /\ UNCHANGED <<queue, pending, stopRequested, loopError, ran, message, history, Elsewhere>>

\* The work returns; it may have called submit or request_stop meanwhile.
WorkReturns ==
  /\ loop \in {"work", "drainWork"}
  /\ pc[Loop] = "idle"
  /\ finished' = [finished EXCEPT ![ClassOf(message)] = Append(@, message)]
  /\ StepTo(IF loop = "work" THEN "count" ELSE "drainCount")
  /\ UNCHANGED <<queue, pending, stopRequested, loopError, metrics, ran, message, accepted,
                 Elsewhere>>

\* The work throws.  The exception leaves a manual iteration or drain with the
\* message consumed and not counted; on the loop thread it ends the process.
WorkThrows ==
  /\ loop \in {"work", "drainWork"}
  /\ driver # "thread"
  /\ pc[Loop] = "idle"
  /\ finished' = [finished EXCEPT ![ClassOf(message)] = Append(@, message)]
  /\ message' = NoMessage
  /\ StepTo("off")
  /\ UNCHANGED <<queue, pending, stopRequested, loopError, metrics, ran, accepted, Elsewhere>>

\* completed_tasks, then the next pop while the budget lasts.
CountCompleted ==
  /\ loop \in {"count", "drainCount"}
  /\ metrics' = [metrics EXCEPT !.completed = @ + 1]
  /\ message' = NoMessage
  /\ IF loop = "drainCount"
     THEN StepTo("drainSystem") /\ UNCHANGED ran
     ELSE /\ ran' = ran + 1
          /\ IF ran + 1 < budget THEN StepTo("popSystem") ELSE IterationEnds("check")
  /\ UNCHANGED <<queue, pending, stopRequested, loopError, history, Elsewhere>>

\* wakeup_.wait(): blocks until a wake is pending, then takes one.
Wait ==
  /\ loop = "wait"
  /\ pending > 0
  /\ pending' = pending - 1
  /\ StepTo("consume")
  /\ UNCHANGED <<queue, stopRequested, loopError, metrics, ran, message, history, Elsewhere>>

\* Mutant: the loop consumes the wakes and parks again without looking at the
\* queues.
ConsumeAll_ParksAgain ==
  /\ loop = "consume"
  /\ pending' = 0
  /\ StepTo(IF stopRequested THEN "check" ELSE "wait")
  /\ UNCHANGED <<queue, stopRequested, loopError, metrics, ran, message, history, Elsewhere>>

ConsumeAll ==
  /\ loop = "consume"
  /\ pending' = 0
  /\ StepTo("check")
  /\ UNCHANGED <<queue, stopRequested, loopError, metrics, ran, message, history, Elsewhere>>

Call(t) == SubmitPush(t) \/ SubmitFull(t) \/ SubmitCount(t) \/ WakeCall(t)

RunLoop ==
  \/ LoopCheck \/ LoopSlice \/ LoopFail \/ LoopGivesUp \/ PopSystem \/ PopUser \/ Observe
  \/ WorkReturns \/ WorkThrows \/ CountCompleted \/ Wait \/ ConsumeAll

Next ==
  \/ \E t \in Callers, class \in Classes : SubmitEnter(t, class)
  \/ \E t \in Callers : RequestStop(t) \/ Call(t)
  \/ Start \/ StartFails \/ Join
  \/ \E how \in {"iteration", "drain"} : RunByHand(how)
  \/ RunLoop

\* A thread inside a call and the loop thread keep running, and the work of a
\* message returns even if it retries a full queue first; nobody has to submit,
\* stop, start or join.
Fairness ==
  /\ \A t \in Callers : WF_vars(Call(t))
  /\ WF_vars(RunLoop)
  /\ SF_vars(WorkReturns)

Spec == Init /\ [][Next]_vars /\ Fairness

------------------------------------------------------------------------------
(* Properties. *)

Queued == RangeOf(queue["user"]) \cup RangeOf(queue["system"])

\* The message popped and not yet run, if it is of the class.
InHand(class) ==
  IF loop \in {"observe", "work", "drainObserve", "drainWork"} /\ ClassOf(message) = class
  THEN <<message>> ELSE <<>>

\* submit and the loop lose, duplicate and reorder nothing: in each class the
\* messages accepted are, in order, those that ran, the one in hand and those
\* still in the mailbox.
AcceptedInOrder ==
  \A class \in Classes : accepted[class] = finished[class] \o InHand(class) \o queue[class]

\* A shard that stopped without a loop error left nothing behind: the stop
\* check and the push of submit share the lifecycle critical section with
\* request_stop, so drain() sees every message ever accepted.
CleanExitDrained == loop = "exited" /\ ~loopError => Queued = {}

\* The loop thread is in run_loop.
Looping == driver = "thread" /\ loop \notin {"off", "exited"}

\* With a valid budget, a message in the mailbox of a shard whose loop runs is
\* run, also when a stop overtakes it.
AcceptedEventuallyRun ==
  \A m \in Messages :
    (m \in Queued /\ Looping /\ budget > 0) ~> (m \in RangeOf(finished[ClassOf(m)]))

\* A stop request ends the loop thread, so join returns.
StopEndsLoop == (stopRequested /\ Looping) ~> ~Looping
==============================================================================
