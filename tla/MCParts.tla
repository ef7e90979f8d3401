------------------------------ MODULE MCParts ------------------------------
(***************************************************************************)
(* The parts that have no thread of their own and answer their callers at  *)
(* once.  One of them runs, as scenario says, and the others stay in their *)
(* initial states:                                                         *)
(*   compute_executor  three reservations, four works, two slots           *)
(*   channel           a channel that buffers two values                   *)
(*   timer_heap        two heaps moved onto each other once, six timers:   *)
(*                     an erased entry may be replaced by one that rises   *)
(*   trampoline        four continuations, one of them not trampolined, on *)
(*                     a scheduler of each kind                            *)
(*   stream            chains with empty segments, longer than a request   *)
(*   setup             two clients, two accepting threads, descriptors 0-2 *)
(***************************************************************************)
EXTENDS Parts, TLC

CONSTANTS Heaps, MaxTimers, MaxOwners

MCTimes == {1, 2}
MCBudgets == {0, 1, 2}
MCChains == {<<2, 0, 2>>, <<0, 1, 1, 1>>, <<4>>, <<0>>}

ASSUME TimerConstants == IsFiniteSet(Heaps) /\ Cardinality(Heaps) <= MaxOwners

VARIABLES scenario, ownerId, nextId, entries, indices, nextOwnerId, handles, call

channel == <<buffer, rendezvous, closed, waitingSenders, waitingReceivers, sent, received>>
timers == <<ownerId, nextId, entries, indices, nextOwnerId, handles, call>>
trampoline == <<unused, ready, draining, deferred, stack, current, escaped, reached, begun>>
stream == <<operations, chain, ops, written, pipe, bytes>>
setup == <<link, soError, client, backlog, fds, pc, duplicate, owned>>

H == INSTANCE TimerHeap WITH Times <- MCTimes, Budgets <- MCBudgets

MCInit ==
  /\ scenario \in {"compute_executor", "channel", "timer_heap", "trampoline", "stream", "setup"}
  /\ Init /\ B!Init /\ H!Init /\ T!Init /\ S!Init /\ C!Init

MCNext ==
  /\ UNCHANGED scenario
  /\ \/ scenario = "compute_executor" /\ Next
        /\ UNCHANGED <<channel, timers, trampoline, stream, setup>>
     \/ scenario = "channel" /\ B!Next
        /\ UNCHANGED <<vars, timers, trampoline, stream, setup>>
     \/ scenario = "timer_heap" /\ H!Next
        /\ UNCHANGED <<vars, channel, trampoline, stream, setup>>
     \/ scenario = "trampoline" /\ T!Next
        /\ UNCHANGED <<vars, channel, timers, stream, setup>>
     \/ scenario = "stream" /\ S!Next
        /\ UNCHANGED <<vars, channel, timers, trampoline, setup>>
     \/ scenario = "setup" /\ C!Next
        /\ UNCHANGED <<vars, channel, timers, trampoline, stream>>

MCSpec == MCInit /\ [][MCNext]_<<scenario, vars, channel, timers, trampoline, stream, setup>>

\* Heaps only occur in the timer heap's scenario.
HeapSymmetry == Permutations(Heaps)

\* No step of the heap reads the record of the last call, so states that differ
\* in it alone are one state; TLC still checks the calls of every step.
WithoutLastCall ==
  <<scenario, vars, channel, ownerId, nextId, entries, indices, nextOwnerId, handles,
    trampoline, stream, setup>>

\* The heap implements the timer service (TimerHeap).
ImplementsService == H!ImplementsService
==============================================================================
