----------------------------- MODULE AsyncMutex -----------------------------
(***************************************************************************)
(* async_mutex (src/include/voris/io/async_mutex.hpp).                     *)
(*                                                                         *)
(* The mutex is confined to a shard, so a call is one step; what races is  *)
(* the resumption of a waiter, queued on its scheduler, with everything    *)
(* else the shard does before it runs: unlock, destruction of the waiting  *)
(* coroutine, destruction of the mutex.  A lock_operation that need not    *)
(* suspend goes through await_ready and await_resume in one step.          *)
(*                                                                         *)
(* The flags of waiter_state are sets of operations; continuation and      *)
(* scheduler are set and cleared together.  schedule_system is assumed to  *)
(* accept: the code terminates the process otherwise.                      *)
(***************************************************************************)
EXTENDS Integers, Sequences, FiniteSets

CONSTANTS
  Ops,         \* lock operations, each awaited at most once
  Clients,     \* callers of try_lock
  MaxWaiters,  \* max_waiters
  NoOp         \* an expired handoff pointer

ASSUME MutexConstants ==
  /\ MaxWaiters \in Nat
  /\ NoOp \notin Ops
  /\ Ops \cap Clients = {}

VARIABLES
  alive, locked, waiters, handoff,  \* mutex_state
  created,      \* operations returned by lock()
  owned,        \* waiter_state::owner not reset
  suspended,    \* continuation and scheduler set
  result,       \* the result, "none" until has_result
  enqueued, detached, observing, reserved,  \* flags of waiter_state
  ready,        \* resumptions queued on the scheduler
  schedules,    \* history: how often an operation was scheduled
  holders       \* who was granted the lock and has not unlocked

waiterVars == <<created, owned, suspended, result, enqueued, detached, observing, reserved,
                ready, schedules>>
vars == <<alive, locked, waiters, handoff, waiterVars, holders>>

Results == {"ok", "invalid_state", "resource_exhausted"}

TypeOK ==
  /\ alive \in BOOLEAN
  /\ locked \in BOOLEAN
  /\ waiters \in Seq(Ops)
  /\ Len(waiters) <= MaxWaiters
  /\ handoff \in Ops \cup {NoOp}
  /\ created \in SUBSET Ops /\ owned \in SUBSET Ops /\ suspended \in SUBSET Ops
  /\ enqueued \in SUBSET Ops /\ detached \in SUBSET Ops
  /\ observing \in SUBSET Ops /\ reserved \in SUBSET Ops
  /\ result \in [Ops -> Results \cup {"none"}]
  /\ ready \in SUBSET Ops
  /\ schedules \in [Ops -> Nat]
  /\ holders \in SUBSET (Ops \cup Clients)

Init ==
  /\ alive = TRUE /\ locked = FALSE /\ waiters = <<>> /\ handoff = NoOp
  /\ created = {} /\ owned = {} /\ suspended = {}
  /\ enqueued = {} /\ detached = {} /\ observing = {} /\ reserved = {}
  /\ result = [o \in Ops |-> "none"]
  /\ ready = {}
  /\ schedules = [o \in Ops |-> 0]
  /\ holders = {}

RangeOf(s) == {s[k] : k \in DOMAIN s}

\* owner.lock() succeeds: not reset, and the mutex still holds its state.
HasOwner(o) == o \in owned /\ alive

------------------------------------------------------------------------------
(* Helpers of the code. *)

QueueFull == Len(waiters) >= MaxWaiters

\* prepare_waiter_for_resume would accept the operation.
Resumable(o) == o \in suspended /\ o \notin detached

\* transfer_or_unlock: the first waiter that can still be resumed gets the
\* lock reserved and its resumption scheduled; without one the lock is free.
\* gone is the set of operations that give a reservation back.
TransferOrUnlock(gone) ==
  \/ \E k \in DOMAIN waiters :
       LET o == waiters[k]
       IN  /\ Resumable(o)
           /\ \A j \in 1..(k - 1) : ~Resumable(waiters[j])
           /\ waiters' = SubSeq(waiters, k + 1, Len(waiters))
           /\ enqueued' = enqueued \ {waiters[j] : j \in 1..k}
           /\ owned' = (owned \ {waiters[j] : j \in 1..(k - 1)}) \ gone
           /\ reserved' = (reserved \ gone) \cup {o}
           /\ locked' = TRUE
           /\ handoff' = o
           /\ ready' = ready \cup {o}
           /\ schedules' = [schedules EXCEPT ![o] = @ + 1]
  \/ /\ \A k \in DOMAIN waiters : ~Resumable(waiters[k])
     /\ waiters' = <<>>
     /\ enqueued' = enqueued \ RangeOf(waiters)
     /\ owned' = (owned \ RangeOf(waiters)) \ gone
     /\ reserved' = reserved \ gone
     /\ handoff' = NoOp
     /\ locked' = FALSE
     /\ UNCHANGED <<ready, schedules>>

\* The awaiting coroutine reads the result at once: await_ready was true, or
\* await_suspend returned false.
ResumeInline(o, r) ==
  /\ result' = [result EXCEPT ![o] = r]
  /\ observing' = observing \cup {o}
  /\ owned' = owned \ {o}
  /\ holders' = IF r = "ok" THEN holders \cup {o} ELSE holders

------------------------------------------------------------------------------
(* The calls. *)

Lock(o) ==
  /\ alive
  /\ o \notin created
  /\ created' = created \cup {o}
  /\ owned' = owned \cup {o}
  /\ UNCHANGED <<alive, locked, waiters, handoff, suspended, result, enqueued, detached,
                 observing, reserved, ready, schedules, holders>>

\* co_await on a fresh operation: await_ready, and await_suspend if it is false.
Await(o, scheduler) ==
  /\ o \in created
  /\ o \notin observing \cup detached \cup suspended
  /\ \/ /\ ~HasOwner(o)
        /\ ResumeInline(o, "invalid_state")
        /\ UNCHANGED <<locked, waiters, suspended, enqueued>>
     \/ /\ HasOwner(o) /\ ~locked
        /\ locked' = TRUE
        /\ ResumeInline(o, "ok")
        /\ UNCHANGED <<waiters, suspended, enqueued>>
     \/ /\ HasOwner(o) /\ locked /\ QueueFull
        /\ ResumeInline(o, "resource_exhausted")
        /\ UNCHANGED <<locked, waiters, suspended, enqueued>>
     \/ /\ HasOwner(o) /\ locked /\ ~QueueFull /\ ~scheduler
        /\ ResumeInline(o, "invalid_state")
        /\ UNCHANGED <<locked, waiters, suspended, enqueued>>
     \/ /\ HasOwner(o) /\ locked /\ ~QueueFull /\ scheduler
        /\ suspended' = suspended \cup {o}
        /\ enqueued' = enqueued \cup {o}
        /\ waiters' = Append(waiters, o)
        /\ UNCHANGED <<locked, owned, result, observing, holders>>
  /\ UNCHANGED <<alive, handoff, created, detached, reserved, ready, schedules>>

TryLock(c) ==
  /\ alive
  /\ ~locked
  /\ c \notin holders
  /\ locked' = TRUE
  /\ holders' = holders \cup {c}
  /\ UNCHANGED <<alive, waiters, handoff, waiterVars>>

\* Mutant: unlock frees the lock without looking at the queue.
Unlock_NoTransfer(h) ==
  /\ h \in holders
  /\ alive /\ locked
  /\ holders' = holders \ {h}
  /\ locked' = FALSE
  /\ UNCHANGED <<alive, waiters, handoff, waiterVars>>

Unlock(h) ==
  /\ h \in holders
  /\ alive /\ locked
  /\ holders' = holders \ {h}
  /\ TransferOrUnlock({})
  /\ UNCHANGED <<alive, created, suspended, result, detached, observing>>

\* The queued resumption runs: resume_waiter, complete_reserved_waiter and,
\* in the resumed coroutine, await_resume.  It is dropped if the operation was
\* destroyed meanwhile.
Resume(o) ==
  /\ o \in ready
  /\ ready' = ready \ {o}
  /\ IF o \in detached \cup observing \/ o \notin suspended
     THEN UNCHANGED <<suspended, result, observing, reserved, owned, handoff, holders>>
     ELSE LET r == IF result[o] # "none" THEN result[o]
                   ELSE IF o \in reserved /\ HasOwner(o) THEN "ok" ELSE "invalid_state"
          IN  /\ result' = [result EXCEPT ![o] = r]
              /\ suspended' = suspended \ {o}
              /\ observing' = observing \cup {o}
              /\ reserved' = reserved \ {o}
              /\ owned' = owned \ {o}
              /\ handoff' = IF o \in reserved /\ HasOwner(o) /\ handoff = o THEN NoOp ELSE handoff
              /\ holders' = IF r = "ok" THEN holders \cup {o} ELSE holders
  /\ UNCHANGED <<alive, locked, waiters, created, enqueued, detached, schedules>>

\* Mutant: destroying an operation forgets the lock reserved for it.
Detach_ReservationKept(o) ==
  /\ o \in created
  /\ o \notin observing \cup detached
  /\ detached' = detached \cup {o}
  /\ suspended' = suspended \ {o}
  /\ owned' = owned \ {o}
  /\ enqueued' = enqueued \ {o}
  /\ waiters' = SelectSeq(waiters, LAMBDA w : w # o)
  /\ reserved' = reserved \ {o}
  /\ UNCHANGED <<alive, locked, handoff, created, result, observing, ready, schedules, holders>>

\* erase_waiter: the operation leaves the queue, the others keep their order.
EraseWaiter(o) ==
  \E k \in DOMAIN waiters :
    /\ waiters[k] = o
    /\ waiters' = [j \in 1..(Len(waiters) - 1) |-> IF j < k THEN waiters[j] ELSE waiters[j + 1]]

\* The operation is destroyed before its result was read: detach and, while
\* the mutex lives, detach_waiter.  A reserved lock goes to the next waiter.
Detach(o) ==
  /\ o \in created
  /\ o \notin observing \cup detached
  /\ detached' = detached \cup {o}
  /\ suspended' = suspended \ {o}
  /\ \/ /\ HasOwner(o) /\ o \in enqueued
        /\ EraseWaiter(o)
        /\ enqueued' = enqueued \ {o}
        /\ owned' = owned \ {o}
        /\ UNCHANGED <<locked, reserved, handoff, ready, schedules>>
     \/ /\ HasOwner(o) /\ o \notin enqueued /\ o \in reserved
        /\ TransferOrUnlock({o})
     \/ /\ ~HasOwner(o) \/ o \notin enqueued \cup reserved
        /\ owned' = owned \ {o}
        /\ UNCHANGED <<locked, waiters, enqueued, reserved, handoff, ready, schedules>>
  /\ UNCHANGED <<alive, created, result, observing, holders>>

\* ~async_mutex, close_state: the waiter the lock is reserved for and every
\* queued waiter fail; only the queued ones need scheduling.
Destroy ==
  LET failing == {o \in RangeOf(waiters) : Resumable(o)}
      dropped == {o \in {handoff} \ {NoOp} :
                    o \in reserved /\ o \notin detached \cup observing /\ result[o] = "none"}
  IN  /\ alive
      /\ alive' = FALSE
      /\ reserved' = reserved \ dropped
      /\ owned' = owned \ (RangeOf(waiters) \cup dropped)
      /\ result' = [o \in Ops |-> IF o \in failing \cup dropped /\ result[o] = "none"
                                  THEN "invalid_state" ELSE result[o]]
      /\ enqueued' = enqueued \ RangeOf(waiters)
      /\ waiters' = <<>>
      /\ handoff' = NoOp
      /\ ready' = ready \cup failing
      /\ schedules' = [o \in Ops |-> IF o \in failing THEN schedules[o] + 1 ELSE schedules[o]]
      /\ UNCHANGED <<locked, created, suspended, detached, observing, holders>>

Next ==
  \/ \E o \in Ops : Lock(o) \/ Resume(o) \/ Detach(o)
  \/ \E o \in Ops, scheduler \in BOOLEAN : Await(o, scheduler)
  \/ \E c \in Clients : TryLock(c)
  \/ \E h \in Ops \cup Clients : Unlock(h)
  \/ Destroy

\* The scheduler runs what is queued on it; a holder eventually unlocks.
Fairness ==
  /\ \A o \in Ops : WF_vars(Resume(o))
  /\ \A h \in Ops \cup Clients : WF_vars(Unlock(h))

Spec == Init /\ [][Next]_vars /\ Fairness

------------------------------------------------------------------------------
(* Properties. *)

\* While the mutex lives, at most one coroutine or client has the lock or has
\* it reserved, and the mutex is locked exactly when one does: a hand-over to a
\* waiter that is destroyed before it runs neither leaks nor doubles the lock.
LockAccounted ==
  alive =>
    /\ \A a, b \in holders \cup reserved : a = b
    /\ holders \cap reserved = {}
    /\ locked <=> holders \cup reserved # {}

\* Nobody waits for a free lock, every suspended operation is queued or has a
\* resumption on its way, and no operation is scheduled twice.
NoWaiterStranded ==
  /\ alive /\ waiters # <<>> => locked
  /\ \A o \in suspended : o \in RangeOf(waiters) \cup ready
  /\ \A o \in Ops : schedules[o] <= 1

\* The lock goes to a newcomer (an immediate lock or a try_lock) only when
\* nobody waits and nothing is reserved; otherwise to the reserved operation.
NoBarging ==
  [][\A h \in holders' \ holders :
       h \in reserved \/ (waiters = <<>> /\ reserved = {} /\ holders = {})]_vars

\* A suspended lock operation is resumed or destroyed, also across the
\* destruction of the mutex.
WaiterEventuallyResumed ==
  \A o \in Ops : (o \in suspended) ~> (o \notin suspended)
==============================================================================
