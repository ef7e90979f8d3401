------------------------------ MODULE Backends ------------------------------
(***************************************************************************)
(* The state of the backends that are built around a virtual_backend, and  *)
(* what is said of it.  The variables of VirtualBackend are the fallback_  *)
(* of an epoll or kqueue backend, or a virtual_backend on its own, so its  *)
(* properties are stated once for all three.  The io_uring backend without *)
(* a ring makes several calls of its fallback_ in one step and has         *)
(* variables of its own.  Module Providers has the steps.                  *)
(***************************************************************************)
EXTENDS VirtualBackend

CONSTANTS SocketShapes, MaxEvents, SubmissionCapacity, SubmitBatchLimit, CompletionBatchLimit

\* Operations on descriptors wait for readiness; batches may be of any size.
ASSUME ProviderConstants ==
  /\ SocketShapes \subseteq Ready("read") \cup Ready("write")
  /\ {SubmissionCapacity, SubmitBatchLimit, CompletionBatchLimit} \subseteq Nat

VARIABLES
  scenario,                                                    \* which backend it is
  filters, ready, woken, lost, events,                         \* Readiness
  fRegistry, fPending, fCompletions, fActive, fCounters, fStopped,
  submissions, ringCompletions, ringActive                     \* IoUringFallback

kernelVars == <<filters, ready, woken, lost, events>>
ringVars == <<fRegistry, fPending, fCompletions, fActive, fCounters, fStopped,
              submissions, ringCompletions, ringActive>>

\* Epoll, kqueue: nobody waits for an event that cannot come.  The kernel has
\* the filter that every pending operation waits for, unless the descriptor was
\* closed under it or a failed close_handle took that very filter.
PendingHasFilter ==
  \A n \in DOMAIN pending :
    \E k \in {"read", "write"} :
      pending[n].shape \in Ready(k) /\ [token |-> pending[n].token, kind |-> k] \in filters \cup lost

\* Epoll, kqueue: a step completes an operation successfully although the
\* event it handles is not one of the operation's registration.
CompletesByOtherEvent ==
  \E n \in DOMAIN completions', k \in DOMAIN pending :
    /\ n > Len(completions) /\ completions'[n].result = "ok"
    /\ pending[k].id = completions'[n].id
    /\ events = <<>> \/ pending[k].token # Head(events).token

\* io_uring without a ring: the two sets of active ids agree, as an accepted id
\* is in exactly one of the queue, fallback_ and the completions; and fallback_
\* would accept every queued submission, so no refusal is left at the front of
\* the queue, where it would fail every later poll.
QueueAgrees ==
  LET queued == IdsOf(submissions)
      ended == IdsOf(ringCompletions)
      Accepts(t) == fRegistry[t.handle].open /\ fRegistry[t.handle].generation = t.generation
  IN  /\ Distinct(submissions) /\ Distinct(ringCompletions)
      /\ queued \cap fActive = {} /\ queued \cap ended = {} /\ fActive \cap ended = {}
      /\ ringActive = queued \cup fActive \cup ended
      /\ \A k \in DOMAIN submissions : ~fStopped /\ Accepts(submissions[k].token)

\* The fallback_ of the io_uring backend without a ring.
FB == INSTANCE VirtualBackend WITH registry <- fRegistry, pending <- fPending,
        completions <- fCompletions, active <- fActive, counters <- fCounters, stopped <- fStopped

\* What a backend keeps beside fallback_ agrees with it, and the bookkeeping of
\* a fallback_ that io_uring flushes, drains and closes is in order.
ProviderAgrees ==
  /\ scenario \in {"epoll", "kqueue"} => PendingHasFilter
  /\ QueueAgrees
  /\ FB!ActiveIdsAccounted /\ FB!PendingOnCurrentHandle

\* Readiness of a reused descriptor, reported under an old cookie, completes
\* nothing: an operation succeeds only by an event of its own registration.
StaleEventsIgnored ==
  [][(scenario \in {"epoll", "kqueue"}) => ~CompletesByOtherEvent]_<<vars, kernelVars>>
==============================================================================
