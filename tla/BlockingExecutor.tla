-------------------------- MODULE BlockingExecutor --------------------------
(***************************************************************************)
(* blocking_executor (src/src/blocking_executor.cpp): worker threads that  *)
(* sleep on a condition variable, a bounded queue, and a shutdown that     *)
(* drains the queue and joins the workers.                                 *)
(*                                                                         *)
(* A step is one critical section; notifying happens after the lock is     *)
(* released and is a step of its own.  Running work may itself call submit *)
(* and shutdown, so workers make calls like any other thread.              *)
(***************************************************************************)
EXTENDS Integers, Sequences, FiniteSets

CONSTANTS
  Workers,      \* worker threads
  Callers,      \* other threads that submit and shut down
  Works,        \* pieces of work
  NoWork,       \* the worker runs nothing
  QueueLimit    \* queue_limit

\* The constructor makes at least one worker.
ASSUME BlockingConstants ==
  /\ QueueLimit \in Nat /\ NoWork \notin Works
  /\ Workers # {} /\ Workers \cap Callers = {}

VARIABLES
  queue, shuttingDown,          \* blocking_executor_state
  joinStarted, joinComplete,    \* blocking_executor_state
  worker,      \* where a worker thread is in worker_loop
  current,     \* the work it runs
  call,        \* where a thread is in submit or shutdown
  accepted,    \* history: work that submit accepted
  ran          \* history: work that ran to its end

vars == <<queue, shuttingDown, joinStarted, joinComplete, worker, current, call, accepted, ran>>

Threads == Workers \cup Callers
Queued == {queue[n] : n \in DOMAIN queue}

TypeOK ==
  /\ queue \in Seq(Works) /\ Len(queue) <= QueueLimit
  /\ shuttingDown \in BOOLEAN /\ joinStarted \in BOOLEAN /\ joinComplete \in BOOLEAN
  /\ worker \in [Workers -> {"checking", "asleep", "running", "exited"}]
  /\ current \in [Workers -> Works \cup {NoWork}]
  /\ call \in [Threads -> {"none", "notify_one", "notify_all", "join", "joining", "waiting", "returned"}]
  /\ accepted \subseteq Works /\ ran \subseteq Works

Init ==
  /\ queue = <<>> /\ shuttingDown = FALSE /\ joinStarted = FALSE /\ joinComplete = FALSE
  /\ worker = [w \in Workers |-> "checking"]
  /\ current = [w \in Workers |-> NoWork]
  /\ call = [t \in Threads |-> "none"]
  /\ accepted = {} /\ ran = {}

\* The thread is between two calls; a worker calls only from the work it runs.
MayCall(t) == call[t] = "none" /\ (t \in Workers => worker[t] = "running")

------------------------------------------------------------------------------
(* submit *)

\* A submit that is refused changes nothing.
Submit(t, x) ==
  /\ MayCall(t) /\ x \notin accepted
  /\ ~shuttingDown /\ Len(queue) < QueueLimit
  /\ queue' = Append(queue, x)
  /\ accepted' = accepted \cup {x}
  /\ call' = [call EXCEPT ![t] = "notify_one"]
  /\ UNCHANGED <<shuttingDown, joinStarted, joinComplete, worker, current, ran>>

\* cv.notify_one wakes some sleeping worker, if there is one.
NotifyOne(t) ==
  /\ call[t] = "notify_one"
  /\ call' = [call EXCEPT ![t] = "none"]
  /\ IF \E w \in Workers : worker[w] = "asleep"
     THEN \E w \in Workers : worker[w] = "asleep" /\ worker' = [worker EXCEPT ![w] = "checking"]
     ELSE UNCHANGED worker
  /\ UNCHANGED <<queue, shuttingDown, joinStarted, joinComplete, current, accepted, ran>>

------------------------------------------------------------------------------
(* shutdown: request_shutdown and join_workers *)

RequestShutdown(t) ==
  /\ MayCall(t)
  /\ shuttingDown' = TRUE
  /\ call' = [call EXCEPT ![t] = "notify_all"]
  /\ UNCHANGED <<queue, joinStarted, joinComplete, worker, current, accepted, ran>>

\* Mutant: only one sleeping worker is woken.
NotifyAll_One(t) ==
  /\ call[t] = "notify_all"
  /\ call' = [call EXCEPT ![t] = IF t \in Workers THEN "none" ELSE "join"]
  /\ IF \E w \in Workers : worker[w] = "asleep"
     THEN \E w \in Workers : worker[w] = "asleep" /\ worker' = [worker EXCEPT ![w] = "checking"]
     ELSE UNCHANGED worker
  /\ UNCHANGED <<queue, shuttingDown, joinStarted, joinComplete, current, accepted, ran>>

\* A worker does not join itself: its shutdown returns here.
NotifyAll(t) ==
  /\ call[t] = "notify_all"
  /\ call' = [call EXCEPT ![t] = IF t \in Workers THEN "none" ELSE "join"]
  /\ worker' = [w \in Workers |-> IF worker[w] = "asleep" THEN "checking" ELSE worker[w]]
  /\ UNCHANGED <<queue, shuttingDown, joinStarted, joinComplete, current, accepted, ran>>

\* Mutant: a second caller does not wait for the first one's join.
JoinWorkers_NoBarrier(t) ==
  /\ call[t] = "join"
  /\ joinStarted' = TRUE
  /\ call' = [call EXCEPT ![t] = IF joinStarted THEN "returned" ELSE "joining"]
  /\ UNCHANGED <<queue, shuttingDown, joinComplete, worker, current, accepted, ran>>

\* The first caller takes the threads to join, later ones wait for it.
JoinWorkers(t) ==
  /\ call[t] = "join"
  /\ joinStarted' = TRUE
  /\ call' = [call EXCEPT ![t] = IF joinComplete THEN "returned"
                                 ELSE IF joinStarted THEN "waiting" ELSE "joining"]
  /\ UNCHANGED <<queue, shuttingDown, joinComplete, worker, current, accepted, ran>>

\* Every thread was joined.
JoinCompletes(t) ==
  /\ call[t] = "joining" /\ \A w \in Workers : worker[w] = "exited"
  /\ joinComplete' = TRUE
  /\ call' = [call EXCEPT ![t] = "returned"]
  /\ UNCHANGED <<queue, shuttingDown, joinStarted, worker, current, accepted, ran>>

JoinObserved(t) ==
  /\ call[t] = "waiting" /\ joinComplete
  /\ call' = [call EXCEPT ![t] = "returned"]
  /\ UNCHANGED <<queue, shuttingDown, joinStarted, joinComplete, worker, current, accepted, ran>>

------------------------------------------------------------------------------
(* worker_loop *)

\* With the lock held a worker takes work, or leaves, or goes to sleep.
Take(w) ==
  /\ worker[w] = "checking"
  /\ IF queue # <<>>
     THEN /\ worker' = [worker EXCEPT ![w] = "running"]
          /\ current' = [current EXCEPT ![w] = Head(queue)]
          /\ queue' = Tail(queue)
     ELSE /\ worker' = [worker EXCEPT ![w] = IF shuttingDown THEN "exited" ELSE "asleep"]
          /\ UNCHANGED <<queue, current>>
  /\ UNCHANGED <<shuttingDown, joinStarted, joinComplete, call, accepted, ran>>

SpuriousWakeup(w) ==
  /\ worker[w] = "asleep"
  /\ worker' = [worker EXCEPT ![w] = "checking"]
  /\ UNCHANGED <<queue, shuttingDown, joinStarted, joinComplete, current, call, accepted, ran>>

\* The work returned or threw; either way the worker goes on.
Finish(w) ==
  /\ worker[w] = "running" /\ call[w] = "none"
  /\ worker' = [worker EXCEPT ![w] = "checking"]
  /\ ran' = ran \cup {current[w]}
  /\ current' = [current EXCEPT ![w] = NoWork]
  /\ UNCHANGED <<queue, shuttingDown, joinStarted, joinComplete, call, accepted>>

------------------------------------------------------------------------------
CallStep(t) ==
  NotifyOne(t) \/ NotifyAll(t) \/ JoinWorkers(t) \/ JoinCompletes(t) \/ JoinObserved(t)

Next ==
  \/ \E t \in Threads, x \in Works : Submit(t, x)
  \/ \E t \in Threads : RequestShutdown(t) \/ CallStep(t)
  \/ \E w \in Workers : Take(w) \/ SpuriousWakeup(w) \/ Finish(w)

Spec == Init /\ [][Next]_vars

\* Threads get to run, the lock is fair, and work makes finitely many calls and
\* returns.
Fairness ==
  /\ \A t \in Threads : WF_vars(CallStep(t))
  /\ \A w \in Workers : WF_vars(Take(w)) /\ SF_vars(Finish(w))

------------------------------------------------------------------------------
(* Properties. *)

\* Accepted work is in the queue, in one worker's hands or done: nothing is
\* lost between submit, the queue and the workers.
WorkConserved == accepted \subseteq Queued \cup {current[w] : w \in Workers} \cup ran

\* shutdown returns to a thread that is not a worker only when everything
\* accepted before has run and no worker thread is left, for each of several
\* concurrent callers.
ShutdownDrains ==
  \A t \in Callers : call[t] = "returned" =>
    accepted \subseteq ran /\ \A w \in Workers : worker[w] = "exited"
==============================================================================
