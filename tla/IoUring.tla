------------------------------ MODULE IoUring ------------------------------
(***************************************************************************)
(* io_uring_backend with kernel submission enabled                         *)
(* (src/src/backends_io_uring_backend.cpp), together with the kernel ring  *)
(* it drives.                                                              *)
(*                                                                         *)
(* The backend is confined to its owner shard: a public call is one action *)
(* except poll, which is two, because the kernel may post completions      *)
(* between its submission half and its drain half.  The kernel runs        *)
(* concurrently with everything.  A call that returns an error before it   *)
(* changed anything has no action.                                         *)
(*                                                                         *)
(* Every SQE is pushed through io_uring_enter before the call that         *)
(* published it returns, so pending_kernel_submissions_ and the submission *)
(* ring are empty between calls; a failed enter shows as the outcome of    *)
(* the request it belonged to.                                             *)
(***************************************************************************)
EXTENDS Integers, Sequences, FiniteSets, Positions

CONSTANTS
  Handles,          \* native handle values
  FileHandles,      \* the ones used with target file; the others are sockets
  Ids,              \* operation ids
  Reasons,          \* cancellation reasons
  QueueCapacity,    \* submission_queue_capacity
  SubmitBatch,      \* submit_batch_limit
  CompletionBatch,  \* completion_batch_limit
  DrainSizes,       \* sizes of the span passed to drain_completions
  Registration,     \* bound: callers register buffers and files
  MaxGeneration,    \* bound: registrations of one native handle
  MaxAcks           \* bound: unseen cancel acknowledgements of one id

VARIABLES
  registry,    \* fallback_'s handle registry: generation and open flag
  queue,       \* submission_queue_
  token,       \* kernel_operations_: the handle token of each id in it
  reason,      \* kernel_operation::cancellation, "none" when empty
  closing,     \* ids whose close_requested is set
  requested,   \* ids whose cancel_request_submitted is set
  inFlight,    \* ids whose cancel_sqe_in_flight is set
  cancelIds,   \* kernel_cancel_operation_ids_
  completions, \* completion_queue_
  active,      \* active_operation_ids_
  buffers,     \* registered_buffers_ is not empty
  files,       \* registered_files_
  closed,      \* closed_
  polling,     \* poll is between its two halves
  running,     \* kernel: operations it works on
  cancelled,   \* kernel: those of them a cancel request has hit
  acks,        \* kernel: per id, cancel requests not yet acknowledged
  cq           \* kernel: the completion ring

calls == <<registry, queue, completions, active, closed, polling>>
kernelOps == <<token, reason, closing>>
cancels == <<requested, inFlight, cancelIds, cancelled, acks>>
resources == <<buffers, files>>
vars == <<calls, kernelOps, cancels, resources, running, cq>>

\* The ids in kernel_operations_.
kops == DOMAIN token

ASSUME IoUringConstants ==
  /\ FileHandles \subseteq Handles
  /\ "none" \notin Reasons
  /\ QueueCapacity \in Nat \ {0} /\ SubmitBatch \in Nat \ {0}
  /\ CompletionBatch \in Nat \ {0} /\ DrainSizes \subseteq Nat \ {0}
  /\ Registration \in BOOLEAN /\ MaxGeneration \in Nat /\ MaxAcks \in Nat

Token == [handle : Handles, generation : Nat]
Result == {"ok", "error", "closed"} \cup Reasons
Completion == [id : Ids, result : Result]
Cqe == [kind : {"operation"}, id : Ids, res : {"ok", "error", "ecanceled"}]
         \cup [kind : {"cancel"}, id : Ids]

\* The submission queue stays within its capacity, and the flags of a
\* kernel_operation exist only together with the entry.
TypeOK ==
  /\ registry \in [Handles -> [generation : Nat, open : BOOLEAN]]
  /\ queue \in Seq([id : Ids, token : Token]) /\ Len(queue) <= QueueCapacity
  /\ completions \in Seq(Completion)
  /\ active \subseteq Ids /\ cancelIds \subseteq Ids
  /\ kops \subseteq Ids /\ token \in [kops -> Token]
  /\ reason \in [Ids -> Reasons \cup {"none"}]
  /\ {i \in Ids : reason[i] # "none"} \cup closing \cup requested \cup inFlight \subseteq kops
  /\ buffers \in BOOLEAN /\ closed \in BOOLEAN /\ polling \in BOOLEAN
  /\ files \subseteq Token
  /\ cancelled \subseteq running /\ running \subseteq Ids
  /\ acks \in [Ids -> Nat]
  /\ cq \in Seq(Cqe)

Init ==
  /\ registry = [h \in Handles |-> [generation |-> 0, open |-> FALSE]]
  /\ queue = <<>> /\ completions = <<>> /\ cq = <<>>
  /\ closing = {} /\ requested = {} /\ inFlight = {}
  /\ token = [i \in {} |-> {}] /\ reason = [i \in Ids |-> "none"]
  /\ active = {} /\ cancelIds = {} /\ running = {} /\ cancelled = {}
  /\ acks = [i \in Ids |-> 0]
  /\ buffers = FALSE /\ files = {} /\ closed = FALSE /\ polling = FALSE

IsCurrent(t) ==
  registry[t.handle].open /\ registry[t.handle].generation = t.generation

CurrentTokens ==
  {[handle |-> h, generation |-> registry[h].generation] : h \in {g \in Handles : registry[g].open}}

\* The calls an owner makes while the backend is open and not inside poll.
Open == ~closed /\ ~polling

------------------------------------------------------------------------------
(* Queues. *)

\* The entries of the submission queue at the positions K complete with r.
CompleteQueued(K, r) ==
  \E done \in InOrder(K), rest \in InOrder(DOMAIN queue \ K) :
    /\ completions' = completions \o [n \in DOMAIN done |-> [id |-> queue[done[n]].id, result |-> r]]
    /\ queue' = [n \in DOMAIN rest |-> queue[rest[n]]]

\* A cancel SQE is published for each id of missing; the enters for the ids of
\* sent succeed, the others fail and complete_unsubmitted_kernel_submissions
\* takes their bookkeeping back.  The kernel executes a cancel when it is
\* submitted: it hits the operation or finds it past cancelling.
RequestCancels(missing, sent) ==
  /\ requested' = requested \cup sent
  /\ inFlight' = inFlight \cup sent
  /\ cancelIds' = (cancelIds \ missing) \cup sent
  /\ acks' = [i \in Ids |-> IF i \in sent THEN acks[i] + 1 ELSE acks[i]]
  /\ \E hit \in SUBSET (sent \cap running) : cancelled' = cancelled \cup hit

------------------------------------------------------------------------------
(* Calls. *)

RegisterHandle(h) ==
  /\ Open
  /\ ~registry[h].open /\ registry[h].generation < MaxGeneration
  /\ registry' = [registry EXCEPT ![h] = [generation |-> @.generation + 1, open |-> TRUE]]
  /\ UNCHANGED <<queue, completions, active, closed, polling, kernelOps, cancels, resources, running, cq>>

\* Mutant: the id check looks at the queue only.
Submit_QueueOnly(i, t) ==
  /\ Open /\ IsCurrent(t)
  /\ \A k \in DOMAIN queue : queue[k].id # i
  /\ acks[i] < MaxAcks
  /\ Len(queue) < QueueCapacity
  /\ active' = active \cup {i}
  /\ queue' = Append(queue, [id |-> i, token |-> t])
  /\ UNCHANGED <<registry, completions, closed, polling, kernelOps, cancels, resources, running, cq>>

Submit(i, t) ==
  /\ Open /\ IsCurrent(t)
  /\ i \notin active /\ acks[i] < MaxAcks
  /\ Len(queue) < QueueCapacity
  /\ active' = active \cup {i}
  /\ queue' = Append(queue, [id |-> i, token |-> t])
  /\ UNCHANGED <<registry, completions, closed, polling, kernelOps, cancels, resources, running, cq>>

\* cancel of an operation that is still queued.
CancelQueued(i, r) ==
  /\ Open
  /\ \E k \in DOMAIN queue : queue[k].id = i /\ CompleteQueued({k}, r)
  /\ UNCHANGED <<registry, active, closed, polling, kernelOps, cancels, resources, running, cq>>

\* cancel of an operation the kernel has: the first reason is kept, and a
\* cancel SQE is sent unless one was sent before.
CancelInKernel(i, r) ==
  /\ Open /\ i \in kops
  /\ reason' = [reason EXCEPT ![i] = IF @ = "none" THEN r ELSE @]
  /\ LET missing == {i} \ (requested \cup inFlight)
     IN  \E sent \in SUBSET missing : RequestCancels(missing, sent)
  /\ UNCHANGED <<calls, token, closing, resources, running, cq>>

\* close_handle; when the provider refuses to unregister the files it returns
\* before anything changed.
CloseHandle(t) ==
  LET on == {i \in kops : token[i] = t}
      missing == on \ (requested \cup inFlight)
  IN  /\ Open /\ IsCurrent(t)
      /\ files' = IF t \in files THEN {} ELSE files
      /\ closing' = closing \cup on
      /\ \E sent \in SUBSET missing : RequestCancels(missing, sent)
      /\ CompleteQueued({k \in DOMAIN queue : queue[k].token = t}, "closed")
      /\ registry' = [registry EXCEPT ![t.handle].open = FALSE]
      /\ UNCHANGED <<active, closed, polling, token, reason, buffers, running, cq>>

DrainCompletions(size) ==
  LET count == IF size < Len(completions) THEN size ELSE Len(completions)
  IN  /\ ~polling /\ count > 0
      /\ active' = active \ {completions[k].id : k \in 1..count}
      /\ completions' = SubSeq(completions, count + 1, Len(completions))
      /\ UNCHANGED <<registry, queue, closed, polling, kernelOps, cancels, resources, running, cq>>

RegisterBuffers ==
  /\ Open /\ Registration /\ ~buffers
  /\ buffers' = TRUE
  /\ UNCHANGED <<calls, kernelOps, cancels, files, running, cq>>

UnregisterBuffers ==
  /\ Open /\ buffers
  /\ buffers' = FALSE
  /\ UNCHANGED <<calls, kernelOps, cancels, files, running, cq>>

RegisterFiles(S) ==
  /\ Open /\ Registration /\ files = {} /\ S # {}
  /\ \A t \in S : IsCurrent(t)
  /\ files' = S
  /\ UNCHANGED <<calls, kernelOps, cancels, buffers, running, cq>>

UnregisterFiles ==
  /\ Open /\ files # {}
  /\ files' = {}
  /\ UNCHANGED <<calls, kernelOps, cancels, buffers, running, cq>>

\* Mutant: the cancel intent of kernel operations is not recorded.
Shutdown_IntentDropped ==
  LET missing == kops \ (requested \cup inFlight)
  IN  /\ Open
      /\ buffers' = FALSE /\ files' = {}
      /\ \E sent \in SUBSET missing : RequestCancels(missing, sent)
      /\ closed' = TRUE
      /\ CompleteQueued(DOMAIN queue, "closed")
      /\ UNCHANGED <<registry, active, polling, kernelOps, running, cq>>

Shutdown ==
  LET missing == kops \ (requested \cup inFlight)
  IN  /\ Open
      /\ buffers' = FALSE /\ files' = {}
      /\ closing' = closing \cup kops
      /\ \E sent \in SUBSET missing : RequestCancels(missing, sent)
      /\ closed' = TRUE
      /\ CompleteQueued(DOMAIN queue, "closed")
      /\ UNCHANGED <<registry, active, polling, token, reason, running, cq>>

\* shutdown gives up when the provider keeps the registered files, after it
\* already released the buffers.
ShutdownFails ==
  /\ Open /\ buffers /\ files # {}
  /\ buffers' = FALSE
  /\ UNCHANGED <<calls, kernelOps, cancels, files, running, cq>>

------------------------------------------------------------------------------
(* poll, first half: flush_submission_batch and the cancel retries. *)

\* Mutant: the retry looks at explicit cancels only.
RetryRequired_CancelsOnly(i) ==
  reason[i] # "none" /\ i \notin requested /\ i \notin inFlight

\* io_uring_cancel_retry_required
RetryRequired(i) ==
  (reason[i] # "none" \/ i \in closing) /\ i \notin requested /\ i \notin inFlight

\* The operations at the positions F of the batch of n are refused by the
\* kernel and complete at once.
Flush(n, F) ==
  LET taken == (1..n) \ F
      ids == {queue[k].id : k \in taken}
  IN  /\ running' = running \cup ids
      /\ token' = [i \in kops \cup ids |->
           IF i \in ids THEN queue[CHOOSE k \in taken : queue[k].id = i].token ELSE token[i]]
      /\ queue' = SubSeq(queue, n + 1, Len(queue))
      /\ \E refused \in InOrder(F) :
           completions' = completions \o [k \in DOMAIN refused |->
             [id |-> queue[refused[k]].id,
              result |-> IF IsCurrent(queue[refused[k]].token) THEN "error" ELSE "closed"]]

PollSubmit ==
  LET n == IF closed THEN 0
           ELSE IF SubmitBatch < Len(queue) THEN SubmitBatch ELSE Len(queue)
      missing == {i \in kops : RetryRequired(i)}
  IN  /\ ~polling
      /\ closed => kops # {} \/ cancelIds # {}
      /\ \E F \in SUBSET (1..n) : Flush(n, F)
      /\ \E sent \in SUBSET missing : RequestCancels(missing, sent)
      /\ polling' = TRUE
      /\ UNCHANGED <<registry, active, closed, reason, closing, resources, cq>>

------------------------------------------------------------------------------
(* poll, second half: observe_kernel_completions. *)

\* An accept whose descriptor is 0 and cannot be duplicated is reported as an
\* error; the kernel's own error stands for it, the completion is the same.
KernelResult(res) == IF res = "ok" THEN "ok" ELSE "error"

\* io_uring_completion_result_for
CompletionResultFor(i, res) ==
  LET gone == i \in closing \/ ~IsCurrent(token[i])
  IN  IF reason[i] # "none"
      THEN IF res = "ecanceled" THEN reason[i] ELSE KernelResult(res)
      ELSE IF gone /\ (token[i].handle \in FileHandles => res = "ecanceled")
      THEN "closed"
      ELSE KernelResult(res)

\* Mutant: a cancel acknowledgement ends the operation as well.
PollDrain_AckCompletes ==
  LET m == IF CompletionBatch < Len(cq) THEN CompletionBatch ELSE Len(cq)
      ops == {k \in 1..m : cq[k].id \in kops}
      done == {cq[k].id : k \in ops}
  IN  /\ polling
      /\ cq' = SubSeq(cq, m + 1, Len(cq))
      /\ \E order \in InOrder(ops) :
           completions' = completions \o [n \in DOMAIN order |->
             [id |-> cq[order[n]].id,
              result |-> IF cq[order[n]].kind = "cancel" THEN "closed"
                         ELSE CompletionResultFor(cq[order[n]].id, cq[order[n]].res)]]
      /\ token' = [i \in kops \ done |-> token[i]]
      /\ reason' = [i \in Ids |-> IF i \in done THEN "none" ELSE reason[i]]
      /\ closing' = closing \ done
      /\ requested' = requested \ done
      /\ inFlight' = inFlight \ done
      /\ polling' = FALSE
      /\ UNCHANGED <<registry, queue, active, closed, cancelIds, cancelled, acks, resources, running>>

\* Up to completion_batch_limit CQEs are taken.  An operation's CQE ends it;
\* a cancel acknowledgement only clears bookkeeping.
PollDrain ==
  LET m == IF CompletionBatch < Len(cq) THEN CompletionBatch ELSE Len(cq)
      ops == {k \in 1..m : cq[k].kind = "operation" /\ cq[k].id \in kops}
      done == {cq[k].id : k \in ops}
      acked == {cq[k].id : k \in {j \in 1..m : cq[j].kind = "cancel"}}
  IN  /\ polling
      /\ cq' = SubSeq(cq, m + 1, Len(cq))
      /\ \E order \in InOrder(ops) :
           completions' = completions \o [n \in DOMAIN order |->
             [id |-> cq[order[n]].id,
              result |-> CompletionResultFor(cq[order[n]].id, cq[order[n]].res)]]
      /\ token' = [i \in kops \ done |-> token[i]]
      /\ reason' = [i \in Ids |-> IF i \in done THEN "none" ELSE reason[i]]
      /\ closing' = closing \ done
      /\ requested' = requested \ done
      /\ inFlight' = inFlight \ (done \cup acked)
      /\ cancelIds' = cancelIds \ acked
      /\ polling' = FALSE
      /\ UNCHANGED <<registry, queue, active, closed, cancelled, acks, resources, running>>

\* The enter that flushes an overflown completion ring fails; poll returns.
PollEnterFails ==
  /\ polling
  /\ polling' = FALSE
  /\ UNCHANGED <<registry, queue, completions, active, closed, kernelOps, cancels, resources, running, cq>>

------------------------------------------------------------------------------
(* The kernel. *)

KernelFinish(i) ==
  /\ i \in running
  /\ \E res \in (IF i \in cancelled THEN {"ecanceled"} ELSE {"ok", "error"}) :
       cq' = Append(cq, [kind |-> "operation", id |-> i, res |-> res])
  /\ running' = running \ {i}
  /\ cancelled' = cancelled \ {i}
  /\ UNCHANGED <<calls, kernelOps, requested, inFlight, cancelIds, acks, resources>>

KernelAck(i) ==
  /\ acks[i] > 0
  /\ acks' = [acks EXCEPT ![i] = @ - 1]
  /\ cq' = Append(cq, [kind |-> "cancel", id |-> i])
  /\ UNCHANGED <<calls, kernelOps, requested, inFlight, cancelIds, cancelled, resources, running>>

Next ==
  \/ \E h \in Handles : RegisterHandle(h)
  \/ \E i \in Ids, t \in CurrentTokens : Submit(i, t)
  \/ \E i \in Ids, r \in Reasons : CancelQueued(i, r) \/ CancelInKernel(i, r)
  \/ \E t \in CurrentTokens : CloseHandle(t)
  \/ \E size \in DrainSizes : DrainCompletions(size)
  \/ RegisterBuffers \/ UnregisterBuffers
  \/ \E S \in SUBSET CurrentTokens : RegisterFiles(S)
  \/ UnregisterFiles
  \/ Shutdown \/ ShutdownFails
  \/ PollSubmit \/ PollDrain \/ PollEnterFails
  \/ \E i \in Ids : KernelFinish(i) \/ KernelAck(i)

Spec == Init /\ [][Next]_vars

\* The owner shard keeps polling; an enter or a cancel submission that is tried
\* again and again succeeds at some time; the kernel acknowledges every cancel
\* request and ends an operation it was asked to cancel.
Fairness ==
  /\ WF_vars(PollSubmit) /\ SF_vars(PollDrain)
  /\ \A i \in Ids :
       /\ SF_vars(PollSubmit /\ i \notin requested /\ i \in requested')
       /\ WF_vars(i \in requested /\ KernelFinish(i))
       /\ WF_vars(KernelAck(i))

FairSpec == Spec /\ Fairness

------------------------------------------------------------------------------
(* Properties. *)

IdsOf(s) == {s[k].id : k \in DOMAIN s}
Distinct(s) == \A j, k \in DOMAIN s : s[j].id = s[k].id => j = k
PostedAt == {k \in DOMAIN cq : cq[k].kind = "operation"}
Posted == {cq[k].id : k \in PostedAt}

\* Every active id is in exactly one of submission_queue_, kernel_operations_
\* and completion_queue_, and kernel_operations_ holds exactly the operations
\* the kernel works on or whose CQE is still in the ring: storage is kept while
\* the kernel can refer to it, and each CQE finds its own operation.
OperationsAccounted ==
  /\ Distinct(queue) /\ Distinct(completions)
  /\ \A j, k \in PostedAt : cq[j].id = cq[k].id => j = k
  /\ IdsOf(queue) \cap kops = {}
  /\ (IdsOf(queue) \cup kops) \cap IdsOf(completions) = {}
  /\ active = IdsOf(queue) \cup kops \cup IdsOf(completions)
  /\ kops = running \cup Posted /\ running \cap Posted = {}

\* The contract's view of the ids.
Status ==
  [i \in Ids |->
     IF i \in IdsOf(queue) \cup kops THEN "active"
     ELSE IF i \in IdsOf(completions)
          THEN completions[CHOOSE k \in DOMAIN completions : completions[k].id = i].result
     ELSE "free"]

Contract == INSTANCE OperationContract WITH Results <- Result, status <- Status

\* Whatever the kernel reports and in whatever order, an accepted submission
\* gets one terminal result, which is not rewritten, and its id is free again
\* only after drain_completions returned it.
ImplementsContract == Contract!Spec

\* A cancel, close or shutdown intent recorded for an operation the kernel has
\* is never forgotten: the operation ends although cancel submissions may fail
\* and retries happen once per poll.
IntentEventuallyCompletes ==
  \A i \in Ids : (i \in kops /\ (reason[i] # "none" \/ i \in closing)) ~> i \notin kops

\* After shutdown, poll drains the kernel completely: no operation and no
\* unseen cancel acknowledgement keeps has_inflight_kernel_work true forever.
ShutdownDrainsKernel == closed ~> kops = {} /\ cancelIds = {}

==============================================================================
