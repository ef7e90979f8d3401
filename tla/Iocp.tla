-------------------------------- MODULE Iocp --------------------------------
(***************************************************************************)
(* iocp_backend (src/src/backends_iocp_backend.cpp): operation storages    *)
(* that live as long as the completion port can name them, and a bounded   *)
(* table of completion-key associations whose slots are reused.            *)
(*                                                                         *)
(* The backend is confined to its owner shard, so a call is one action;    *)
(* the operating system completes native operations concurrently.  The     *)
(* OVERLAPPED address of a packet is named by the operation id.  A call    *)
(* that returns an error before it changed anything has no action.         *)
(***************************************************************************)
EXTENDS Integers, Sequences, FiniteSets, Positions

CONSTANTS
  Handles,         \* native handle values
  Ids,             \* operation ids
  Reasons,         \* cancellation reasons callers give
  Capacity,        \* association_capacity
  KeyMax,          \* iocp_completion_key_low_mask: largest generation in a key
  BatchLimit,      \* completion_batch_limit
  DrainSizes,      \* sizes of the span passed to drain_completions
  MaxGeneration,   \* bound: registrations of one native handle
  MaxWakes         \* bound: wake packets in the port

VARIABLES
  registry,      \* fallback_'s handle registry: generation and open flag
  associations,  \* associations_
  free,          \* free_association_ids_, a stack
  byHandle,      \* association_by_native_handle_, 0 when absent
  storage,       \* operations_: per id its token, key and flags
  order,         \* operation_submission_order_
  completions,   \* completion_queue_
  active,        \* active_operation_ids_
  stopped,       \* stopped_
  portOpen,      \* completion_port_ is not null
  inOs,          \* OS: native operations it works on
  aborted,       \* OS: those of them CancelIoEx has hit
  port           \* OS: the packets queued in the completion port

table == <<associations, free, byHandle>>
os == <<inOs, aborted, port>>
vars == <<registry, table, storage, order, completions, active, stopped, portOpen, os>>

ASSUME IocpConstants ==
  /\ Handles \subseteq Nat \ {0}
  /\ Reasons \cap {"none", "ok", "error", "closed", "backend_abort"} = {}
  /\ Capacity \in Nat \ {0} /\ KeyMax \in Nat \ {0}
  /\ BatchLimit \in Nat \ {0} /\ DrainSizes \subseteq Nat \ {0}
  /\ MaxGeneration \in Nat /\ MaxWakes \in Nat

Token == [handle : Handles \cup {0}, generation : Nat]
NoToken == [handle |-> 0, generation |-> 0]
Key == [id : 1..Capacity, generation : 1..KeyMax]
Result == {"ok", "error", "closed", "backend_abort"} \cup Reasons
Association ==
  [token : Token, generation : 1..KeyMax, open : BOOLEAN, reusable : BOOLEAN, bump : BOOLEAN]
Storage ==
  [token : Token, key : Key, reason : Reasons \cup {"none"},
   cancelRequested : BOOLEAN, closeRequested : BOOLEAN, native : BOOLEAN]
Packet ==
  [kind : {"wake"}] \cup [kind : {"operation"}, id : Ids, key : Key, status : {"ok", "error", "aborted"}]

ops == DOMAIN storage

TypeOK ==
  /\ registry \in [Handles -> [generation : Nat, open : BOOLEAN]]
  /\ associations \in Seq(Association) /\ Len(associations) <= Capacity
  /\ free \in Seq(1..Capacity)
  /\ byHandle \in [Handles -> 0..Capacity]
  /\ ops \subseteq Ids /\ storage \in [ops -> Storage]
  /\ order \in Seq(Ids)
  /\ completions \in Seq([id : Ids, result : Result])
  /\ active \subseteq Ids
  /\ stopped \in BOOLEAN /\ portOpen \in BOOLEAN
  /\ inOs \subseteq Ids /\ aborted \subseteq inOs
  /\ port \in Seq(Packet)

Init ==
  /\ registry = [h \in Handles |-> [generation |-> 0, open |-> FALSE]]
  /\ associations = <<>> /\ free = <<>> /\ byHandle = [h \in Handles |-> 0]
  /\ storage = [i \in {} |-> {}] /\ order = <<>>
  /\ completions = <<>> /\ active = {}
  /\ stopped = FALSE /\ portOpen = TRUE
  /\ inOs = {} /\ aborted = {} /\ port = <<>>

IsCurrent(t) ==
  /\ t.handle \in Handles
  /\ registry[t.handle].open /\ registry[t.handle].generation = t.generation

CurrentTokens ==
  {[handle |-> h, generation |-> registry[h].generation] : h \in {g \in Handles : registry[g].open}}

------------------------------------------------------------------------------
(* Associations. *)

Usable(a) ==
  /\ ~associations[a].open /\ associations[a].reusable
  /\ associations[a].bump => associations[a].generation < KeyMax

\* The stack position create_association pops to; 0 when nothing is usable.
PopAt ==
  IF \E k \in DOMAIN free : Usable(free[k])
  THEN CHOOSE k \in DOMAIN free : Usable(free[k]) /\ \A j \in (k + 1)..Len(free) : ~Usable(free[j])
  ELSE 0

\* Mutant: a reused slot keeps its generation.
NextKey_SameGeneration ==
  IF PopAt # 0 THEN [id |-> free[PopAt], generation |-> associations[free[PopAt]].generation]
  ELSE [id |-> Len(associations) + 1, generation |-> 1]

\* The key create_association hands out, when the table has room.
NextKey ==
  IF PopAt # 0
  THEN LET e == associations[free[PopAt]]
       IN  [id |-> free[PopAt], generation |-> IF e.bump THEN e.generation + 1 ELSE e.generation]
  ELSE [id |-> Len(associations) + 1, generation |-> 1]

TableFull == PopAt = 0 /\ Len(associations) >= Capacity

\* associations_ with the entry of key k set.
WithEntry(k, t, open, reusable, bump) ==
  LET e == [token |-> t, generation |-> k.generation, open |-> open, reusable |-> reusable, bump |-> bump]
  IN  IF k.id > Len(associations) THEN Append(associations, e)
      ELSE [associations EXCEPT ![k.id] = e]

Popped == SubSeq(free, 1, PopAt - 1)

\* Mutant: an association whose handle could not be bound to the port is lost.
RollbackAssociation_SlotLost(k) ==
  /\ associations' = WithEntry(k, NoToken, FALSE, FALSE, FALSE)
  /\ free' = Popped
  /\ UNCHANGED byHandle

\* create_association followed by rollback_association: the key was never
\* published, so its generation is used again.
RollbackAssociation(k) ==
  /\ associations' = WithEntry(k, NoToken, FALSE, TRUE, FALSE)
  /\ free' = Append(Popped, k.id)
  /\ UNCHANGED byHandle

CreateAssociation(k, t) ==
  /\ associations' = WithEntry(k, t, TRUE, FALSE, FALSE)
  /\ free' = Popped
  /\ byHandle' = [byHandle EXCEPT ![t.handle] = k.id]

\* A slot whose generation is used up is never handed out again.
CloseAssociation(t) ==
  LET a == byHandle[t.handle]
  IN  IF a = 0 \/ associations[a].token # t THEN UNCHANGED table
      ELSE LET again == associations[a].generation < KeyMax
           IN  /\ associations' = [associations EXCEPT ![a] =
                    [@ EXCEPT !.token = NoToken, !.open = FALSE, !.reusable = again, !.bump = again]]
               /\ free' = IF again THEN Append(free, a) ELSE free
               /\ byHandle' = [byHandle EXCEPT ![t.handle] = 0]

\* current_handle_for
CurrentHandleFor(k) ==
  IF k.id \in DOMAIN associations /\ associations[k.id].open
       /\ associations[k.id].generation = k.generation /\ IsCurrent(associations[k.id].token)
  THEN associations[k.id].token ELSE NoToken

------------------------------------------------------------------------------
(* Operation storages. *)

Without(S) == [i \in ops \ S |-> storage[i]]
OrderWithout(S) == Kept(order, {k \in DOMAIN order : order[k] \notin S})

\* maybe_close_stopped_port, after the storages S are gone and stopped_ is s.
MaybeClosePort(S, s) ==
  IF s /\ ops \subseteq S
  THEN /\ portOpen' = FALSE
       /\ associations' = <<>> /\ free' = <<>> /\ byHandle' = [h \in Handles |-> 0]
  ELSE UNCHANGED <<table, portOpen>>

\* CancelIoEx on the operations of accepted: it finds nothing any more or hits
\* the operation.  A request that fails otherwise is not recorded.
CancelIoEx(accepted) ==
  \E hit \in SUBSET (accepted \cap inOs) : aborted' = aborted \cup hit

\* The operations of S become close_requested: those the OS never saw complete
\* as closed in submission order, for the others a cancel is requested once.
MarkCloseRequested(S) ==
  LET plain == {i \in S : ~storage[i].native}
      asked == {i \in S \ plain : ~storage[i].cancelRequested}
  IN  \E accepted \in SUBSET asked,
         done \in Kept(order, {k \in DOMAIN order : order[k] \in plain}) :
        /\ CancelIoEx(accepted)
        /\ completions' = completions \o [n \in DOMAIN done |-> [id |-> done[n], result |-> "closed"]]
        /\ storage' = [i \in ops \ plain |->
             [storage[i] EXCEPT !.closeRequested = @ \/ i \in S, !.cancelRequested = @ \/ i \in accepted]]
        /\ order' \in OrderWithout(plain)

------------------------------------------------------------------------------
(* Calls. *)

RegisterHandle(h) ==
  LET t == [handle |-> h, generation |-> registry[h].generation + 1]
  IN  /\ ~stopped /\ ~registry[h].open /\ registry[h].generation < MaxGeneration
      /\ ~TableFull
      /\ registry' = [registry EXCEPT ![h] = [generation |-> t.generation, open |-> TRUE]]
      /\ CreateAssociation(NextKey, t)
      /\ UNCHANGED <<storage, order, completions, active, stopped, portOpen, os>>

\* CreateIoCompletionPort refuses the handle, or the table is full: the token
\* is closed again, but its generation is used up.
RegisterHandleFails(h) ==
  /\ ~stopped /\ ~registry[h].open /\ registry[h].generation < MaxGeneration
  /\ registry' = [registry EXCEPT ![h].generation = @ + 1]
  /\ IF TableFull THEN free' = <<>> /\ UNCHANGED <<associations, byHandle>>
                  ELSE RollbackAssociation(NextKey)
  /\ UNCHANGED <<storage, order, completions, active, stopped, portOpen, os>>

\* Mutant: an id counts as free as soon as its storage is gone.
Submit_CheckedByStorage(i, t) ==
  LET a == byHandle[t.handle]
  IN  /\ ~stopped /\ IsCurrent(t) /\ i \notin ops
      /\ a # 0
      /\ associations[a].open /\ associations[a].token = t
      /\ storage' = [j \in ops \cup {i} |->
           IF j = i
           THEN [token |-> t, key |-> [id |-> a, generation |-> associations[a].generation],
                 reason |-> "none", cancelRequested |-> FALSE, closeRequested |-> FALSE, native |-> FALSE]
           ELSE storage[j]]
      /\ order' = Append(order, i)
      /\ active' = active \cup {i}
      /\ UNCHANGED <<registry, table, completions, stopped, portOpen, os>>

Submit(i, t) ==
  LET a == byHandle[t.handle]
  IN  /\ ~stopped /\ IsCurrent(t) /\ i \notin active
      /\ a # 0
      /\ associations[a].open /\ associations[a].token = t
      /\ storage' = [j \in ops \cup {i} |->
           IF j = i
           THEN [token |-> t, key |-> [id |-> a, generation |-> associations[a].generation],
                 reason |-> "none", cancelRequested |-> FALSE, closeRequested |-> FALSE, native |-> FALSE]
           ELSE storage[j]]
      /\ order' = Append(order, i)
      /\ active' = active \cup {i}
      /\ UNCHANGED <<registry, table, completions, stopped, portOpen, os>>

\* mark_iocp_operation_native_submitted: from here on the OS may name the
\* storage in a packet.
NativeSubmit(i) ==
  /\ ~stopped /\ i \in ops /\ ~storage[i].native
  /\ storage' = [storage EXCEPT ![i].native = TRUE]
  /\ inOs' = inOs \cup {i}
  /\ UNCHANGED <<registry, table, order, completions, active, stopped, portOpen, aborted, port>>

\* Mutant: cancel frees the storage although the OS has it.
Cancel_FreesStorage(i, r) ==
  /\ ~stopped /\ i \in ops /\ ~storage[i].closeRequested
  /\ completions' = Append(completions, [id |-> i, result |-> r])
  /\ storage' = Without({i}) /\ order' \in OrderWithout({i})
  /\ UNCHANGED <<registry, table, active, stopped, portOpen, os>>

\* The first reason is kept; CancelIoEx is asked again until it was accepted.
Cancel(i, r) ==
  /\ ~stopped /\ i \in ops /\ ~storage[i].closeRequested
  /\ LET first == IF storage[i].reason = "none" THEN r ELSE storage[i].reason
     IN  IF ~storage[i].native
         THEN /\ completions' = Append(completions, [id |-> i, result |-> first])
              /\ storage' = Without({i}) /\ order' \in OrderWithout({i})
              /\ UNCHANGED aborted
         ELSE /\ \E accepted \in SUBSET {j \in {i} : ~storage[i].cancelRequested} :
                   /\ CancelIoEx(accepted)
                   /\ storage' = [storage EXCEPT ![i] =
                        [storage[i] EXCEPT !.reason = first, !.cancelRequested = @ \/ i \in accepted]]
              /\ UNCHANGED <<completions, order>>
  /\ UNCHANGED <<registry, table, active, stopped, portOpen, inOs, port>>

CloseHandle(t) ==
  /\ ~stopped /\ IsCurrent(t)
  /\ MarkCloseRequested({i \in ops : storage[i].token = t})
  /\ registry' = [registry EXCEPT ![t.handle].open = FALSE]
  /\ CloseAssociation(t)
  /\ UNCHANGED <<active, stopped, portOpen, inOs, port>>

DrainCompletions(size) ==
  LET count == IF size < Len(completions) THEN size ELSE Len(completions)
  IN  /\ count > 0
      /\ active' = active \ {completions[k].id : k \in 1..count}
      /\ completions' = SubSeq(completions, count + 1, Len(completions))
      /\ UNCHANGED <<registry, table, storage, order, stopped, portOpen, os>>

Wake ==
  /\ ~stopped
  /\ Cardinality({k \in DOMAIN port : port[k].kind = "wake"}) < MaxWakes
  /\ port' = Append(port, [kind |-> "wake"])
  /\ UNCHANGED <<registry, table, storage, order, completions, active, stopped, portOpen, inOs, aborted>>

\* shutdown; the port stays open while a native operation is outstanding.
Shutdown ==
  /\ ~stopped
  /\ MarkCloseRequested(ops)
  /\ stopped' = TRUE
  /\ MaybeClosePort({i \in ops : ~storage[i].native}, TRUE)
  /\ port' = IF portOpen' THEN port ELSE <<>>
  /\ UNCHANGED <<registry, active, inOs>>

------------------------------------------------------------------------------
(* poll. *)

\* complete_native_operation
NativeResult(i, status) ==
  LET s == storage[i]
  IN  IF status = "aborted" /\ s.reason # "none" THEN s.reason
      ELSE IF s.closeRequested \/ stopped \/ ~IsCurrent(s.token) THEN "closed"
      ELSE IF status = "aborted" THEN "backend_abort"
      ELSE status

\* Mutant: packets are looked up only while their handle is current.
Matches_CurrentOnly(p) ==
  p.kind = "operation" /\ p.id \in ops /\ storage[p.id].key = p.key
    /\ CurrentHandleFor(p.key) # NoToken

\* observe_native_packet finds the storage of the packet.
Matches(p) ==
  p.kind = "operation" /\ p.id \in ops /\ storage[p.id].key = p.key

\* Up to completion_batch_limit packets are observed, unless completions still
\* wait to be drained.
Poll ==
  LET m == IF BatchLimit < Len(port) THEN BatchLimit ELSE Len(port)
      found == {k \in 1..m : Matches(port[k])}
      done == {port[k].id : k \in found}
  IN  /\ completions = <<>> /\ portOpen /\ m > 0
      /\ \E batch \in Kept(port, found) :
           completions' = [n \in DOMAIN batch |->
             [id |-> batch[n].id, result |-> NativeResult(batch[n].id, batch[n].status)]]
      /\ storage' = Without(done) /\ order' \in OrderWithout(done)
      /\ IF done # {} THEN MaybeClosePort(done, stopped) ELSE UNCHANGED <<table, portOpen>>
      /\ port' = IF portOpen' THEN SubSeq(port, m + 1, Len(port)) ELSE <<>>
      /\ UNCHANGED <<registry, active, stopped, inOs, aborted>>

------------------------------------------------------------------------------
(* The operating system. *)

\* A native operation ends and its packet is queued to the port.
OsFinish(i) ==
  /\ i \in inOs
  /\ \E status \in (IF i \in aborted THEN {"aborted"} ELSE {"ok", "error"}) :
       port' = Append(port, [kind |-> "operation", id |-> i, key |-> storage[i].key, status |-> status])
  /\ inOs' = inOs \ {i} /\ aborted' = aborted \ {i}
  /\ UNCHANGED <<registry, table, storage, order, completions, active, stopped, portOpen>>

Next ==
  \/ \E h \in Handles : RegisterHandle(h) \/ RegisterHandleFails(h)
  \/ \E i \in Ids, t \in CurrentTokens : Submit(i, t)
  \/ \E i \in Ids : NativeSubmit(i)
  \/ \E i \in Ids, r \in Reasons : Cancel(i, r)
  \/ \E t \in CurrentTokens : CloseHandle(t)
  \/ \E size \in DrainSizes : DrainCompletions(size)
  \/ Wake \/ Shutdown \/ Poll
  \/ \E i \in Ids : OsFinish(i)

Spec == Init /\ [][Next]_vars

\* Once it has shut the backend down the owner's loop keeps going: it drains the
\* completions that wait, or polls when there are none.  The OS keeps ending
\* operations (the owner closes the native handle of one that was not cancelled).
Fairness ==
  /\ WF_vars(stopped /\ (Poll \/ \E size \in DrainSizes : DrainCompletions(size)))
  /\ WF_vars(stopped /\ \E i \in Ids : OsFinish(i))

FairSpec == Spec /\ Fairness

------------------------------------------------------------------------------
(* Properties. *)

IdsOf(s) == {s[k].id : k \in DOMAIN s}
Distinct(s) == \A j, k \in DOMAIN s : s[j].id = s[k].id => j = k
InPort == {k \in DOMAIN port : port[k].kind = "operation"}
IdsInPort == {port[k].id : k \in InPort}

\* A storage is erased only when the OS can no longer name its OVERLAPPED: the
\* natively submitted storages are exactly the operations the OS works on or
\* has a packet for, once each and with the key they were submitted under; and
\* every active id has either its storage or its completion.
StorageOutlivesOs ==
  /\ {i \in ops : storage[i].native} = inOs \cup IdsInPort
  /\ inOs \cap IdsInPort = {} /\ \A j, k \in InPort : port[j].id = port[k].id => j = k
  /\ \A k \in InPort : port[k].key = storage[port[k].id].key
  /\ ops \cap IdsOf(completions) = {} /\ active = ops \cup IdsOf(completions)
  /\ Distinct(completions)
  /\ {order[k] : k \in DOMAIN order} = ops /\ \A j, k \in DOMAIN order : order[j] = order[k] => j = k
  /\ ops # {} => portOpen

\* A slot is open for exactly one current handle, or free once and usable, or
\* used up; and every open handle has its slot.
SlotsAccounted ==
  /\ \A j, k \in DOMAIN free : free[j] = free[k] => j = k
  /\ \A a \in DOMAIN associations :
       \/ associations[a].open /\ IsCurrent(associations[a].token)
            /\ byHandle[associations[a].token.handle] = a /\ \A k \in DOMAIN free : free[k] # a
       \/ ~associations[a].open /\ Usable(a) /\ \E k \in DOMAIN free : free[k] = a
       \/ ~associations[a].open /\ associations[a].generation = KeyMax
            /\ \A k \in DOMAIN free : free[k] # a
  /\ ~stopped => \A t \in CurrentTokens :
       byHandle[t.handle] # 0 /\ associations[byHandle[t.handle]].token = t

\* The association table neither leaks nor doubles a slot, so that a popped
\* slot is always usable and the table is full only when it really is; and
\* because a slot is reused under a new generation, the completion key of a
\* storage never resolves to another registration, of its own or of another
\* handle.
AssociationsAccounted ==
  /\ SlotsAccounted
  /\ \A i \in ops : CurrentHandleFor(storage[i].key) \in {NoToken, storage[i].token}

\* The contract's view of the ids.
Status ==
  [i \in Ids |->
     IF i \in ops THEN "active"
     ELSE IF i \in IdsOf(completions)
          THEN completions[CHOOSE k \in DOMAIN completions : completions[k].id = i].result
     ELSE "free"]

Contract == INSTANCE OperationContract WITH Results <- Result, status <- Status

\* One terminal result per accepted submission, never rewritten, and the id
\* free again only after it was drained.
ImplementsContract == Contract!Spec

\* shutdown eventually releases the completion port: every outstanding native
\* operation is observed and the last one closes it.
ShutdownClosesPort == stopped ~> ~portOpen
==============================================================================
