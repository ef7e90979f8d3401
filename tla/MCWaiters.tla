----------------------------- MODULE MCWaiters -----------------------------
(***************************************************************************)
(* The two primitives on which coroutines of a shard wait: a mutex with    *)
(* four lock operations and a try_lock client, or a semaphore with three   *)
(* acquire operations and a counter that saturates.  One of them runs, as  *)
(* scenario says, and the other stays in its initial state.                *)
(***************************************************************************)
EXTENDS AsyncMutex

CONSTANTS AcquireOps, Initial, MaxPermits, MaxRelease, MaxIssued

\* Counts of permits are values of size_t.
ASSUME SemaphoreConstants == MaxPermits \in Nat /\ Initial \in 0..MaxPermits /\ MaxRelease \in Nat

VARIABLES
  scenario,
  sAlive, permits, sWaiters, sCreated, sOwned, sSuspended, sResult, sEnqueued, sDetached,
  sObserving, sReserved, sReady, sSchedules, taken, issued, saturated

semaphoreVars == <<sAlive, permits, sWaiters, sCreated, sOwned, sSuspended, sResult, sEnqueued,
                   sDetached, sObserving, sReserved, sReady, sSchedules, taken, issued, saturated>>

S == INSTANCE AsyncSemaphore WITH
       Ops <- AcquireOps, alive <- sAlive, waiters <- sWaiters, created <- sCreated,
       owned <- sOwned, suspended <- sSuspended, result <- sResult, enqueued <- sEnqueued,
       detached <- sDetached, observing <- sObserving, reserved <- sReserved, ready <- sReady,
       schedules <- sSchedules

MCInit == scenario \in {"mutex", "semaphore"} /\ Init /\ S!Init

MCNext ==
  /\ UNCHANGED scenario
  /\ \/ scenario = "mutex" /\ Next /\ UNCHANGED semaphoreVars
     \/ scenario = "semaphore" /\ S!Next /\ UNCHANGED vars

MCSpec == MCInit /\ [][MCNext]_<<scenario, vars, semaphoreVars>> /\ Fairness /\ S!Fairness

\* No permit of the semaphore is lost, invented or idle while an operation
\* waits (AsyncSemaphore).
PermitsConserved == S!PermitsConserved

\* The semaphore grants in the order of its queue (AsyncSemaphore).
GrantedInOrder == S!GrantedInOrder
==============================================================================
