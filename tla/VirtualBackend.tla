--------------------------- MODULE VirtualBackend ---------------------------
(***************************************************************************)
(* virtual_backend (src/src/backend.cpp) on top of native_handle_registry. *)
(*                                                                         *)
(* The backend is confined to its owner shard, so each public call is one  *)
(* atomic action.  A call that returns an error before it changes anything *)
(* is a stuttering step and has no action; its conditions are the guards   *)
(* of the call that succeeds.                                              *)
(*                                                                         *)
(* The epoll, kqueue, io_uring and IOCP backends own one virtual_backend   *)
(* each and call these operations.                                         *)
(***************************************************************************)
EXTENDS Integers, Sequences, FiniteSets, Positions

CONSTANTS
  Handles,         \* native handle values (non-zero)
  Ids,             \* operation ids (non-zero)
  UsedShapes,      \* the <<target, kind>> pairs callers submit
  MaxGeneration,   \* bound: registrations of one native handle
  MaxCalls,        \* bound: counted cancel and wake calls
  DrainSizes       \* sizes of the span passed to drain_completions

VARIABLES
  registry,     \* native_handle_registry::entries_: generation and open flag
  pending,      \* pending_: submitted operations, oldest first
  completions,  \* completions_: terminal results not yet drained
  active,       \* active_operation_ids_
  counters,     \* cancelled_ and wakeups_
  stopped       \* stopped_

vars == <<registry, pending, completions, active, counters, stopped>>

\* is_valid_backend_operation_shape: the accepted <<target, kind>> pairs.
Shapes ==
  ({"socket"} \X {"read", "write", "accept", "connect"})
    \cup ({"file"} \X {"read", "write", "fsync"})

ASSUME BackendConstants ==
  /\ UsedShapes \subseteq Shapes
  /\ MaxGeneration \in Nat
  /\ MaxCalls \in Nat
  /\ DrainSizes \subseteq Nat \ {0}

Token == [handle : Handles, generation : Nat]
Operation == [id : Ids, shape : Shapes, token : Token]
Result == {"ok", "closed"}
Completion == [id : Ids, result : Result]

TypeOK ==
  /\ registry \in [Handles -> [generation : Nat, open : BOOLEAN]]
  /\ pending \in Seq(Operation)
  /\ completions \in Seq(Completion)
  /\ active \in SUBSET Ids
  /\ counters \in [cancelled : Nat, wakeups : Nat]
  /\ stopped \in BOOLEAN

Init ==
  /\ registry = [h \in Handles |-> [generation |-> 0, open |-> FALSE]]
  /\ pending = <<>>
  /\ completions = <<>>
  /\ active = {}
  /\ counters = [cancelled |-> 0, wakeups |-> 0]
  /\ stopped = FALSE

------------------------------------------------------------------------------
(* The handle registry. *)

IsCurrent(t) ==
  /\ registry[t.handle].open
  /\ registry[t.handle].generation = t.generation

RegistryRegister(h) ==
  /\ ~registry[h].open
  /\ registry' = [registry EXCEPT ![h] = [generation |-> @.generation + 1, open |-> TRUE]]

RegistryClose(t) ==
  /\ IsCurrent(t)
  /\ registry' = [registry EXCEPT ![t.handle].open = FALSE]

\* The tokens register_handle has returned; all but the newest are stale.
Issued(h) == [handle : {h}, generation : 1..registry[h].generation]
IssuedTokens == UNION {Issued(h) : h \in Handles}

------------------------------------------------------------------------------
(* Completing part of the pending vector in order. *)

Completed(ops, f, r) == [n \in DOMAIN f |-> [id |-> ops[f[n]].id, result |-> r]]
Remaining(ops, f) == [n \in DOMAIN f |-> ops[f[n]]]

\* complete_pending: the operations at the positions K complete with r.
CompletePending(K, r) ==
  \E done \in InOrder(K), rest \in InOrder(DOMAIN pending \ K) :
    /\ completions' = completions \o Completed(pending, done, r)
    /\ pending' = Remaining(pending, rest)

OnToken(t) == {k \in DOMAIN pending : pending[k].token = t}

Ready(kind) ==
  IF kind = "read" THEN {<<"socket", "read">>, <<"socket", "accept">>}
                   ELSE {<<"socket", "write">>, <<"socket", "connect">>}

------------------------------------------------------------------------------
(* The calls. *)

RegisterHandle(h) ==
  /\ ~stopped
  /\ registry[h].generation < MaxGeneration
  /\ RegistryRegister(h)
  /\ UNCHANGED <<pending, completions, active, counters, stopped>>

\* Mutant: the check against active_operation_ids_ is dropped.
Submit_DuplicateAccepted(i, shape, t) ==
  /\ ~stopped
  /\ IsCurrent(t)
  /\ active' = active \cup {i}
  /\ pending' = Append(pending, [id |-> i, shape |-> shape, token |-> t])
  /\ UNCHANGED <<registry, completions, counters, stopped>>

Submit(i, shape, t) ==
  /\ ~stopped
  /\ IsCurrent(t)
  /\ i \notin active
  /\ active' = active \cup {i}
  /\ pending' = Append(pending, [id |-> i, shape |-> shape, token |-> t])
  /\ UNCHANGED <<registry, completions, counters, stopped>>

\* A cancel request is counted and nothing else: the operation stays pending.
Cancel(i) ==
  /\ ~stopped
  /\ \E k \in DOMAIN pending : pending[k].id = i
  /\ counters.cancelled < MaxCalls
  /\ counters' = [counters EXCEPT !.cancelled = @ + 1]
  /\ UNCHANGED <<registry, pending, completions, active, stopped>>

\* Mutant: close_handle forgets the operations pending on the token.
CloseHandle_PendingKept(t) ==
  /\ ~stopped
  /\ RegistryClose(t)
  /\ UNCHANGED <<pending, completions, active, counters, stopped>>

CloseHandle(t) ==
  /\ ~stopped
  /\ RegistryClose(t)
  /\ CompletePending(OnToken(t), "closed")
  /\ UNCHANGED <<active, counters, stopped>>

\* Mutant: the id is released when the operation completes, not when its
\* completion is drained.
CompleteReady_IdReleased(t, kind) ==
  LET K == {k \in OnToken(t) : pending[k].shape \in Ready(kind)}
  IN  /\ IsCurrent(t)
      /\ CompletePending(K, "ok")
      /\ active' = active \ {pending[k].id : k \in K}
      /\ UNCHANGED <<registry, counters, stopped>>

\* complete_ready: a provider reports readiness of a handle.
CompleteReady(t, kind) ==
  /\ IsCurrent(t)
  /\ CompletePending({k \in OnToken(t) : pending[k].shape \in Ready(kind)}, "ok")
  /\ UNCHANGED <<registry, active, counters, stopped>>

DrainCompletions(size) ==
  LET count == IF size < Len(completions) THEN size ELSE Len(completions)
  IN  /\ active' = active \ {completions[k].id : k \in 1..count}
      /\ completions' = SubSeq(completions, count + 1, Len(completions))
      /\ UNCHANGED <<registry, pending, counters, stopped>>

Wake ==
  /\ ~stopped
  /\ counters.wakeups < MaxCalls
  /\ counters' = [counters EXCEPT !.wakeups = @ + 1]
  /\ UNCHANGED <<registry, pending, completions, active, stopped>>

Shutdown ==
  /\ ~stopped
  /\ stopped' = TRUE
  /\ CompletePending(DOMAIN pending, "closed")
  /\ UNCHANGED <<registry, active, counters>>

Next ==
  \/ \E h \in Handles : RegisterHandle(h)
  \/ \E i \in Ids, shape \in UsedShapes, t \in IssuedTokens : Submit(i, shape, t)
  \/ \E i \in Ids : Cancel(i)
  \/ \E t \in IssuedTokens : CloseHandle(t)
  \/ \E t \in IssuedTokens, kind \in {"read", "write"} : CompleteReady(t, kind)
  \/ \E size \in DrainSizes : DrainCompletions(size)
  \/ Wake
  \/ Shutdown

Spec == Init /\ [][Next]_vars

------------------------------------------------------------------------------
(* Properties. *)

IdsOf(s) == {s[k].id : k \in DOMAIN s}
Distinct(s) == \A j, k \in DOMAIN s : s[j].id = s[k].id => j = k

\* active_operation_ids_ holds exactly the ids that are pending or wait in
\* completions_, and no id is in two places or twice in one: the bookkeeping
\* of submit, complete_pending, shutdown and drain_completions agrees, so an
\* accepted submission is completed exactly once.
ActiveIdsAccounted ==
  /\ Distinct(pending)
  /\ Distinct(completions)
  /\ IdsOf(pending) \cap IdsOf(completions) = {}
  /\ active = IdsOf(pending) \cup IdsOf(completions)

\* Closing a handle and shutting down leave nothing behind: an operation is
\* pending only on the current generation of an open handle, so readiness of a
\* reused native handle value can never complete an operation of the old one.
PendingOnCurrentHandle ==
  \A k \in DOMAIN pending : ~stopped /\ IsCurrent(pending[k].token)

\* The contract's view of the ids, from the pending vector p and completions c.
StatusOf(p, c) ==
  [i \in Ids |->
     IF i \in IdsOf(p) THEN "active"
     ELSE IF i \in IdsOf(c) THEN c[CHOOSE k \in DOMAIN c : c[k].id = i].result
     ELSE "free"]

Status == StatusOf(pending, completions)

Contract == INSTANCE OperationContract WITH Results <- Result, status <- Status

\* Every submit, completion, close, shutdown and drain is a step the contract
\* allows: one terminal result per accepted submission, never rewritten, and
\* the id free again only after the result was drained.
ImplementsContract == Contract!Spec
==============================================================================
