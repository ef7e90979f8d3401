--------------------------- MODULE ComputeExecutor ---------------------------
(***************************************************************************)
(* compute_executor (src/include/voris/io/compute_executor.hpp): a bounded *)
(* queue whose slots can be reserved ahead of submitting.                  *)
(*                                                                         *)
(* Each call is one critical section.  run_until_idle takes work under the *)
(* lock and runs it outside, so several threads may run it at once and     *)
(* other calls fall between.                                               *)
(***************************************************************************)
EXTENDS Integers, Sequences, FiniteSets

CONSTANTS
  Holders,    \* capacity_reservation objects
  Works,      \* pieces of work
  Capacity    \* queue_limit

ASSUME ComputeConstants == Capacity \in Nat /\ IsFiniteSet(Holders)

VARIABLES
  queue, reservedSlots, capacityWaiters, shuttingDown,   \* compute_executor::state
  active,      \* reservations that are armed
  accepted,    \* history: work in the order it was accepted
  started      \* history: work in the order run_until_idle took it

vars == <<queue, reservedSlots, capacityWaiters, shuttingDown, active, accepted, started>>

WaiterLimit == IF Capacity = 0 THEN 1 ELSE Capacity

TypeOK ==
  /\ queue \in Seq(Works)
  /\ reservedSlots \in Nat
  /\ capacityWaiters \in 0..WaiterLimit
  /\ shuttingDown \in BOOLEAN
  /\ active \subseteq Holders
  /\ accepted \in Seq(Works) /\ started \in Seq(Works)

Init ==
  /\ queue = <<>> /\ reservedSlots = 0 /\ capacityWaiters = 0 /\ shuttingDown = FALSE
  /\ active = {} /\ accepted = <<>> /\ started = <<>>

Accepted == {accepted[n] : n \in DOMAIN accepted}

Enqueue(x) ==
  /\ queue' = Append(queue, x)
  /\ accepted' = Append(accepted, x)
  /\ capacityWaiters' = 0

\* Mutant: reserved slots are not counted.
HasCapacity_IgnoresReserved == Len(queue) < Capacity

HasCapacity == Len(queue) < Capacity /\ reservedSlots < Capacity - Len(queue)

RecordCapacityWaiter ==
  capacityWaiters' = IF capacityWaiters < WaiterLimit THEN capacityWaiters + 1 ELSE capacityWaiters

Submit(x) ==
  /\ ~shuttingDown /\ x \notin Accepted
  /\ IF HasCapacity THEN Enqueue(x)
     ELSE RecordCapacityWaiter /\ UNCHANGED <<queue, accepted>>
  /\ UNCHANGED <<reservedSlots, shuttingDown, active, started>>

TryReserveCapacity(r) ==
  /\ ~shuttingDown /\ r \notin active
  /\ IF HasCapacity
     THEN /\ reservedSlots' = reservedSlots + 1
          /\ capacityWaiters' = 0
          /\ active' = active \cup {r}
     ELSE RecordCapacityWaiter /\ UNCHANGED <<reservedSlots, active>>
  /\ UNCHANGED <<queue, shuttingDown, accepted, started>>

\* capacity_reservation::release; also its destructor and move assignment.
Release(r) ==
  /\ r \in active
  /\ active' = active \ {r}
  /\ IF ~shuttingDown /\ reservedSlots # 0
     THEN reservedSlots' = reservedSlots - 1 /\ capacityWaiters' = 0
     ELSE UNCHANGED <<reservedSlots, capacityWaiters>>
  /\ UNCHANGED <<queue, shuttingDown, accepted, started>>

\* A reservation is used up by a shutdown or by the work it lets in; one that is
\* not of this executor is refused without a change here.  The invalid_state
\* answer leaves it armed: the destructor of the parameter releases it after
\* the mutex, which is Release.
SubmitReserved(r, x) ==
  /\ r \in active /\ x \notin Accepted
  /\ IF shuttingDown
     THEN active' = active \ {r} /\ UNCHANGED <<queue, accepted, reservedSlots, capacityWaiters>>
     ELSE IF reservedSlots = 0 \/ Len(queue) >= Capacity
     THEN UNCHANGED <<active, queue, accepted, reservedSlots, capacityWaiters>>
     ELSE Enqueue(x) /\ reservedSlots' = reservedSlots - 1 /\ active' = active \ {r}
  /\ UNCHANGED <<shuttingDown, started>>

\* One round of run_until_idle, on any thread.
RunOne ==
  /\ queue # <<>>
  /\ queue' = Tail(queue)
  /\ started' = Append(started, Head(queue))
  /\ capacityWaiters' = 0
  /\ UNCHANGED <<reservedSlots, shuttingDown, active, accepted>>

RequestShutdown ==
  /\ ~shuttingDown
  /\ shuttingDown' = TRUE
  /\ capacityWaiters' = 0 /\ reservedSlots' = 0
  /\ UNCHANGED <<queue, active, accepted, started>>

Next ==
  \/ \E x \in Works : Submit(x)
  \/ \E r \in Holders : TryReserveCapacity(r) \/ Release(r)
  \/ \E r \in Holders, x \in Works : SubmitReserved(r, x)
  \/ RunOne \/ RequestShutdown

Spec == Init /\ [][Next]_vars

------------------------------------------------------------------------------
(* Properties. *)

\* Queued work and reserved slots together stay within queue_limit; after a
\* shutdown nothing is reserved.
WithinCapacity ==
  /\ Len(queue) + reservedSlots <= Capacity
  /\ shuttingDown => reservedSlots = 0

\* A slot is reserved exactly as long as an armed reservation stands for it, so
\* no slot leaks and none is given back twice.
SlotsMatchReservations == ~shuttingDown => reservedSlots = Cardinality(active)

\* submit_reserved with an armed reservation is never answered invalid_state:
\* until a shutdown, the slot it promises is there, whatever others submit.
ReservationHonoured ==
  active # {} /\ ~shuttingDown => reservedSlots # 0 /\ Len(queue) < Capacity

==============================================================================
