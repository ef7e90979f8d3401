--------------------------- MODULE AsyncSemaphore ---------------------------
(***************************************************************************)
(* async_semaphore (src/include/voris/io/async_semaphore.hpp).             *)
(*                                                                         *)
(* Confined to a shard like async_mutex: a call is one step, and the       *)
(* queued resumption of a waiter interleaves with everything else.  Unlike *)
(* the mutex, a grant stores its result at once, so a waiter granted       *)
(* before the semaphore is destroyed still succeeds.                       *)
(***************************************************************************)
EXTENDS Integers, Sequences, FiniteSets

CONSTANTS
  Ops,          \* acquire operations, each awaited at most once
  Initial,      \* permits of the constructor
  MaxWaiters,   \* max_waiters
  MaxPermits,   \* the largest size_t
  MaxRelease,   \* bound: the largest argument of release
  MaxIssued     \* bound: permits ever put into circulation

VARIABLES
  alive, permits, waiters,      \* semaphore_state
  created,      \* operations returned by acquire()
  owned,        \* waiter_state::owner not reset
  suspended,    \* continuation and scheduler set
  result,       \* the result, "none" until has_result
  enqueued, detached, observing, reserved,  \* flags of waiter_state
  ready,        \* resumptions queued on the scheduler
  schedules,    \* history: how often an operation was scheduled
  taken,        \* history: permits that callers obtained
  issued,       \* history: Initial and all that was released
  saturated     \* history: permits dropped by add_permits_saturating

waiterVars == <<created, owned, suspended, result, enqueued, detached, observing, reserved,
                ready, schedules>>
vars == <<alive, permits, waiters, waiterVars, taken, issued, saturated>>

Results == {"ok", "invalid_state", "resource_exhausted"}

TypeOK ==
  /\ alive \in BOOLEAN
  /\ permits \in 0..MaxPermits
  /\ waiters \in Seq(Ops)
  /\ Len(waiters) <= MaxWaiters
  /\ created \in SUBSET Ops /\ owned \in SUBSET Ops /\ suspended \in SUBSET Ops
  /\ enqueued \in SUBSET Ops /\ detached \in SUBSET Ops
  /\ observing \in SUBSET Ops /\ reserved \in SUBSET Ops
  /\ result \in [Ops -> Results \cup {"none"}]
  /\ ready \in SUBSET Ops
  /\ schedules \in [Ops -> Nat]
  /\ taken \in Nat /\ issued \in Nat /\ saturated \in Nat

Init ==
  /\ alive = TRUE /\ permits = Initial /\ waiters = <<>>
  /\ created = {} /\ owned = {} /\ suspended = {}
  /\ enqueued = {} /\ detached = {} /\ observing = {} /\ reserved = {}
  /\ result = [o \in Ops |-> "none"]
  /\ ready = {}
  /\ schedules = [o \in Ops |-> 0]
  /\ taken = 0 /\ issued = Initial /\ saturated = 0

RangeOf(s) == {s[k] : k \in DOMAIN s}

\* owner.lock() succeeds and the semaphore is alive.
HasOwner(o) == o \in owned /\ alive

------------------------------------------------------------------------------
(* Helpers of the code. *)

QueueFull == Len(waiters) >= MaxWaiters

\* prepare_waiter_for_resume accepts the operation.
Resumable(o) == o \in suspended /\ o \notin detached

\* add_permits_saturating
AddPermitsSaturating(n) ==
  IF n > MaxPermits - permits
  THEN permits' = MaxPermits /\ saturated' = saturated + (n - (MaxPermits - permits))
  ELSE permits' = permits + n /\ saturated' = saturated

\* Mutant: a release grants one permit, to the newest waiter.
ReleaseToState_OnlyNewest(n, gone) ==
  LET got == {waiters[k] : k \in DOMAIN waiters \cap {Len(waiters)}}
  IN  /\ waiters' = SubSeq(waiters, 1, Len(waiters) - 1)
      /\ enqueued' = enqueued \ got
      /\ owned' = owned \ gone
      /\ reserved' = (reserved \ gone) \cup got
      /\ result' = [o \in Ops |-> IF o \in got /\ result[o] = "none" THEN "ok" ELSE result[o]]
      /\ ready' = ready \cup got
      /\ schedules' = [o \in Ops |-> IF o \in got THEN schedules[o] + 1 ELSE schedules[o]]
      /\ AddPermitsSaturating(n - Cardinality(got))

\* release_to_state: waiters are granted a permit in queue order until the
\* permits or the queue run out; p entries leave the queue.  gone is the
\* operation, if any, that gives its permit back.
ReleaseToState(n, gone) ==
  \E p \in 0..Len(waiters) :
    LET popped == {waiters[k] : k \in 1..p}
        got    == {o \in popped : Resumable(o)}
    IN  /\ \/ p = Len(waiters) /\ Cardinality(got) < n
           \/ p > 0 /\ Resumable(waiters[p]) /\ Cardinality(got) = n
        /\ waiters' = SubSeq(waiters, p + 1, Len(waiters))
        /\ enqueued' = enqueued \ popped
        /\ owned' = (owned \ (popped \ got)) \ gone
        /\ reserved' = (reserved \ gone) \cup got
        /\ result' = [o \in Ops |-> IF o \in got /\ result[o] = "none" THEN "ok" ELSE result[o]]
        /\ ready' = ready \cup got
        /\ schedules' = [o \in Ops |-> IF o \in got THEN schedules[o] + 1 ELSE schedules[o]]
        /\ AddPermitsSaturating(n - Cardinality(got))

\* The awaiting coroutine reads the result at once: await_ready was true, or
\* await_suspend returned false.
ResumeInline(o, r) ==
  /\ result' = [result EXCEPT ![o] = r]
  /\ observing' = observing \cup {o}
  /\ owned' = owned \ {o}
  /\ taken' = IF r = "ok" THEN taken + 1 ELSE taken

------------------------------------------------------------------------------
(* The calls. *)

Acquire(o) ==
  /\ alive
  /\ o \notin created
  /\ created' = created \cup {o}
  /\ owned' = owned \cup {o}
  /\ UNCHANGED <<alive, permits, waiters, suspended, result, enqueued, detached, observing,
                 reserved, ready, schedules, taken, issued, saturated>>

\* co_await on a fresh operation: await_ready, and await_suspend if it is false.
Await(o, scheduler) ==
  /\ o \in created
  /\ o \notin observing \cup detached \cup suspended
  /\ \/ /\ ~HasOwner(o)
        /\ ResumeInline(o, "invalid_state")
        /\ UNCHANGED <<permits, waiters, suspended, enqueued>>
     \/ /\ HasOwner(o) /\ permits # 0
        /\ permits' = permits - 1
        /\ ResumeInline(o, "ok")
        /\ UNCHANGED <<waiters, suspended, enqueued>>
     \/ /\ HasOwner(o) /\ permits = 0 /\ QueueFull
        /\ ResumeInline(o, "resource_exhausted")
        /\ UNCHANGED <<permits, waiters, suspended, enqueued>>
     \/ /\ HasOwner(o) /\ permits = 0 /\ ~QueueFull /\ ~scheduler
        /\ ResumeInline(o, "invalid_state")
        /\ UNCHANGED <<permits, waiters, suspended, enqueued>>
     \/ /\ HasOwner(o) /\ permits = 0 /\ ~QueueFull /\ scheduler
        /\ suspended' = suspended \cup {o}
        /\ enqueued' = enqueued \cup {o}
        /\ waiters' = Append(waiters, o)
        /\ UNCHANGED <<permits, owned, result, observing, taken>>
  /\ UNCHANGED <<alive, created, detached, reserved, ready, schedules, issued, saturated>>

\* try_acquire that finds a permit; one that does not changes nothing.
TryAcquire ==
  /\ alive
  /\ permits # 0
  /\ permits' = permits - 1
  /\ taken' = taken + 1
  /\ UNCHANGED <<alive, waiters, waiterVars, issued, saturated>>

\* release(n): any caller, also one that acquired nothing.
Release(n) ==
  /\ alive
  /\ issued + n <= MaxIssued
  /\ issued' = issued + n
  /\ \/ /\ n = 0
        /\ UNCHANGED <<permits, waiters, waiterVars, saturated>>
     \/ /\ n # 0
        /\ ReleaseToState(n, {})
        /\ UNCHANGED <<created, suspended, detached, observing>>
  /\ UNCHANGED <<alive, taken>>

\* The queued resumption runs: resume_waiter and, in the resumed coroutine,
\* await_resume.  It is dropped if the operation was destroyed meanwhile.
Resume(o) ==
  /\ o \in ready
  /\ ready' = ready \ {o}
  /\ IF o \in detached \cup observing \/ o \notin suspended
     THEN UNCHANGED <<suspended, observing, reserved, owned, result, taken>>
     ELSE LET r == IF result[o] # "none" THEN result[o] ELSE "invalid_state"
          IN  /\ suspended' = suspended \ {o}
              /\ observing' = observing \cup {o}
              /\ reserved' = reserved \ {o}
              /\ owned' = owned \ {o}
              /\ result' = [result EXCEPT ![o] = r]
              /\ taken' = IF r = "ok" THEN taken + 1 ELSE taken
  /\ UNCHANGED <<alive, permits, waiters, created, enqueued, detached, schedules, issued, saturated>>

\* find_if and erase: the operation leaves the queue, the others keep their order.
EraseWaiter(o) ==
  \E k \in DOMAIN waiters :
    /\ waiters[k] = o
    /\ waiters' = [j \in 1..(Len(waiters) - 1) |-> IF j < k THEN waiters[j] ELSE waiters[j + 1]]

\* Mutant: destroying an operation forgets the permit reserved for it.
Detach_ReservationKept(o) ==
  /\ o \in created
  /\ o \notin observing \cup detached
  /\ detached' = detached \cup {o}
  /\ suspended' = suspended \ {o}
  /\ owned' = owned \ {o}
  /\ enqueued' = enqueued \ {o}
  /\ o \in enqueued => EraseWaiter(o)
  /\ o \notin enqueued => UNCHANGED waiters
  /\ reserved' = reserved \ {o}
  /\ UNCHANGED <<alive, permits, created, result, observing, ready, schedules, taken, issued, saturated>>

\* The operation is destroyed before its result was read: detach and, while
\* the semaphore's state exists, detach_waiter.
Detach(o) ==
  /\ o \in created
  /\ o \notin observing \cup detached
  /\ detached' = detached \cup {o}
  /\ suspended' = suspended \ {o}
  /\ \/ /\ HasOwner(o) /\ o \in enqueued
        /\ EraseWaiter(o)
        /\ enqueued' = enqueued \ {o}
        /\ owned' = owned \ {o}
        /\ UNCHANGED <<permits, reserved, result, ready, schedules, saturated>>
     \/ /\ HasOwner(o) /\ o \notin enqueued /\ o \in reserved
        /\ ReleaseToState(1, {o})
     \/ /\ ~HasOwner(o) \/ o \notin enqueued \cup reserved
        /\ owned' = owned \ {o}
        /\ UNCHANGED <<permits, waiters, enqueued, reserved, result, ready, schedules, saturated>>
  /\ UNCHANGED <<alive, created, observing, taken, issued>>

\* ~async_semaphore, close_state: every queued waiter fails and is scheduled;
\* a waiter that already has its permit keeps it.
Destroy ==
  LET failing == {o \in RangeOf(waiters) : Resumable(o)}
  IN  /\ alive
      /\ alive' = FALSE
      /\ waiters' = <<>>
      /\ enqueued' = enqueued \ RangeOf(waiters)
      /\ owned' = owned \ RangeOf(waiters)
      /\ result' = [o \in Ops |-> IF o \in failing /\ result[o] = "none"
                                  THEN "invalid_state" ELSE result[o]]
      /\ ready' = ready \cup failing
      /\ schedules' = [o \in Ops |-> IF o \in failing THEN schedules[o] + 1 ELSE schedules[o]]
      /\ UNCHANGED <<permits, created, suspended, detached, observing, reserved,
                     taken, issued, saturated>>

Next ==
  \/ \E o \in Ops : Acquire(o) \/ Resume(o) \/ Detach(o)
  \/ \E o \in Ops, scheduler \in BOOLEAN : Await(o, scheduler)
  \/ TryAcquire
  \/ \E n \in 0..MaxRelease : Release(n)
  \/ Destroy

\* The scheduler runs what is queued on it.  Nobody is bound to release.
Fairness == \A o \in Ops : WF_vars(Resume(o))

Spec == Init /\ [][Next]_vars /\ Fairness

------------------------------------------------------------------------------
(* Properties. *)

\* While the semaphore lives no permit is lost or invented: those available,
\* reserved for a scheduled waiter, obtained by a caller and cut off at the
\* largest count add up to those put in.  None is left lying while somebody
\* waits, a suspended operation is queued or has a resumption on its way, and
\* none is scheduled twice.
PermitsConserved ==
  /\ alive => permits + Cardinality(reserved) + taken + saturated = issued
  /\ alive /\ permits # 0 => waiters = <<>>
  /\ \A o \in suspended : o \in RangeOf(waiters) \cup ready
  /\ \A o \in Ops : schedules[o] <= 1

\* release grants in the order of the queue: an operation that still waits
\* behind another is not served before it.
GrantedInOrder ==
  [][\A j, k \in DOMAIN waiters :
       j < k /\ waiters[k] \in reserved' => waiters[j] \in reserved']_vars

==============================================================================
