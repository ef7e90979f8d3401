--------------------------- MODULE IoUringFallback ---------------------------
(***************************************************************************)
(* io_uring_backend without a kernel ring                                  *)
(* (src/src/backends_io_uring_backend.cpp, use_kernel_submission false):   *)
(* submissions wait in a bounded queue, poll hands them to a               *)
(* virtual_backend (fallback_) batch by batch and fetches its completions  *)
(* into a queue of the backend's own.  Module IoUring has the kernel mode. *)
(*                                                                         *)
(* The backend and fallback_ each keep a set of active ids.  Both are      *)
(* confined to the owner, so each call is one action.  closed_ and         *)
(* stopped_ of fallback_ change together and are one variable.             *)
(***************************************************************************)
EXTENDS Integers, Sequences, FiniteSets, Positions

CONSTANTS
  Handles, Ids, UsedShapes, MaxGeneration, MaxCalls, DrainSizes,   \* VirtualBackend
  SubmissionCapacity,     \* submission_queue_capacity
  SubmitBatchLimit,       \* submit_batch_limit
  CompletionBatchLimit    \* completion_batch_limit

VARIABLES
  registry, pending, completions, active, counters, stopped,  \* fallback_
  submissions,      \* submission_queue_
  ringCompletions,  \* completion_queue_
  ringActive        \* active_operation_ids_

V == INSTANCE VirtualBackend

fallback == <<registry, pending, completions, active, counters, stopped>>
ring == <<submissions, ringCompletions, ringActive>>
vars == <<fallback, ring>>

Init ==
  /\ V!Init
  /\ submissions = <<>> /\ ringCompletions = <<>> /\ ringActive = {}

Least(a, b) == IF a < b THEN a ELSE b

\* What virtual_backend::submit asks; submit_to_fallback is never refused.
Flushable(q) == V!IsCurrent(q.token) /\ q.id \notin active

------------------------------------------------------------------------------
RegisterHandle(h) == V!RegisterHandle(h) /\ UNCHANGED ring

Submit(i, shape, t) ==
  /\ ~stopped /\ V!IsCurrent(t)
  /\ i \notin ringActive
  /\ Len(submissions) < SubmissionCapacity
  /\ ringActive' = ringActive \cup {i}
  /\ submissions' = Append(submissions, [id |-> i, shape |-> shape, token |-> t])
  /\ UNCHANGED <<fallback, ringCompletions>>

\* A queued submission is completed here; fallback_ only counts the request.
Cancel(i) ==
  LET K == {k \in DOMAIN submissions : submissions[k].id = i}
  IN  IF K # {}
      THEN /\ ~stopped
           /\ ringCompletions' = Append(ringCompletions, [id |-> i, result |-> "cancelled"])
           /\ \E rest \in InOrder(DOMAIN submissions \ K) :
                submissions' = V!Remaining(submissions, rest)
           /\ UNCHANGED <<fallback, ringActive>>
      ELSE V!Cancel(i) /\ UNCHANGED ring

\* flush_queued_submissions_for: the queued submissions it hands to fallback_.
QueuedFor(t) == {k \in DOMAIN submissions : submissions[k].token = t}

\* Mutant: queued submissions of the handle stay in the queue.
CloseHandle_QueueKept(t) == V!CloseHandle(t) /\ UNCHANGED ring

\* The queued submissions are flushed, then fallback_ closes the token: its
\* operations end there, those that were queued after those pending.
CloseHandle(t) ==
  LET K == QueuedFor(t)
  IN  /\ ~stopped
      /\ V!RegistryClose(t)
      /\ \A k \in K : Flushable(submissions[k])
      /\ \E done \in InOrder(V!OnToken(t)), left \in InOrder(DOMAIN pending \ V!OnToken(t)),
            flushed \in InOrder(K), rest \in InOrder(DOMAIN submissions \ K) :
           /\ completions' = completions \o V!Completed(pending, done, "closed")
                                         \o V!Completed(submissions, flushed, "closed")
           /\ pending' = V!Remaining(pending, left)
           /\ submissions' = V!Remaining(submissions, rest)
      /\ active' = active \cup {submissions[k].id : k \in K}
      /\ UNCHANGED <<counters, stopped, ringCompletions, ringActive>>

\* observe_completion_batch: how many completions of fallback_ a poll fetches.
ObservedCount == Least(CompletionBatchLimit, Len(completions))

\* A batch of the queue is flushed, then a batch of completions observed.
Poll ==
  LET n == Least(SubmitBatchLimit, Len(submissions))
      c == ObservedCount
  IN  /\ ~stopped
      /\ \A k \in 1..n : Flushable(submissions[k])
      /\ pending' = pending \o SubSeq(submissions, 1, n)
      /\ submissions' = SubSeq(submissions, n + 1, Len(submissions))
      /\ ringCompletions' = ringCompletions \o SubSeq(completions, 1, c)
      /\ completions' = SubSeq(completions, c + 1, Len(completions))
      /\ active' = (active \cup {submissions[k].id : k \in 1..n}) \ {completions[k].id : k \in 1..c}
      /\ UNCHANGED <<registry, counters, stopped, ringActive>>

DrainCompletions(size) ==
  LET count == Least(size, Len(ringCompletions))
  IN  /\ ringActive' = ringActive \ {ringCompletions[k].id : k \in 1..count}
      /\ ringCompletions' = SubSeq(ringCompletions, count + 1, Len(ringCompletions))
      /\ UNCHANGED <<fallback, submissions>>

Wake == V!Wake /\ UNCHANGED ring

\* drain_fallback_completions: what fallback_ yields when it was shut down.
FallbackDrained ==
  completions \o [k \in DOMAIN pending |-> [id |-> pending[k].id, result |-> "closed"]]

\* fallback_ is shut down and drained, then the queue is completed.
Shutdown ==
  /\ ~stopped
  /\ stopped' = TRUE
  /\ ringCompletions' = ringCompletions \o FallbackDrained
                          \o [k \in DOMAIN submissions |-> [id |-> submissions[k].id, result |-> "closed"]]
  /\ pending' = <<>> /\ completions' = <<>> /\ submissions' = <<>>
  /\ active' = active \ (V!IdsOf(pending) \cup V!IdsOf(completions))
  /\ UNCHANGED <<registry, counters, ringActive>>

Next ==
  \/ \E h \in Handles : RegisterHandle(h)
  \/ \E i \in Ids, shape \in UsedShapes, t \in V!IssuedTokens : Submit(i, shape, t)
  \/ \E i \in Ids : Cancel(i)
  \/ \E t \in V!IssuedTokens : CloseHandle(t)
  \/ \E size \in DrainSizes : DrainCompletions(size)
  \/ Poll \/ Wake \/ Shutdown

Spec == Init /\ [][Next]_vars

==============================================================================
