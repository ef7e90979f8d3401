----------------------------- MODULE Readiness -----------------------------
(***************************************************************************)
(* What epoll_backend and kqueue_backend have in common: a virtual_backend *)
(* (fallback_) that holds the operations, and a level-triggered kernel     *)
(* queue whose filters carry the handle token as their cookie.             *)
(*                                                                         *)
(* poll fetches a batch of events and handles them one after the other;    *)
(* the owner makes no other call meanwhile, but descriptors become ready   *)
(* or cease to be.  stopped_ of the backend and of fallback_ change        *)
(* together and are one variable.                                          *)
(***************************************************************************)
EXTENDS Integers, Sequences, FiniteSets

CONSTANTS
  Handles,         \* native descriptors
  Ids,             \* operation ids
  UsedShapes,      \* the <<target, kind>> pairs callers submit
  MaxGeneration,   \* bound: registrations of one descriptor
  MaxCalls,        \* bound: counted cancel calls
  DrainSizes,      \* sizes of the span passed to drain_completions
  MaxEvents        \* events one poll fetches (64 in the code)

VARIABLES
  registry, pending, completions, active, counters, stopped,  \* fallback_
  filters,  \* kernel: registered cookies, each for reading or writing
  ready,    \* kernel: <<descriptor, kind>> pairs that are ready
  woken,    \* kernel: the wake event is signalled
  lost,     \* filters that went with a closed descriptor or in a failed close_handle
  events    \* the events the running poll still has to handle

V == INSTANCE VirtualBackend

fallback == <<registry, pending, completions, active, counters, stopped>>
vars == <<fallback, filters, ready, woken, lost, events>>

Kinds == {"read", "write"}
Filter == [token : V!Token, kind : Kinds]

TypeOK ==
  /\ V!TypeOK
  /\ filters \subseteq Filter
  /\ ready \subseteq Handles \X Kinds
  /\ woken \in BOOLEAN
  /\ lost \subseteq Filter
  /\ Len(events) <= MaxEvents
  /\ \A n \in DOMAIN events :
       events[n].kinds = {"wake"} \/ events[n] \in [token : V!Token, kinds : SUBSET Kinds \ {{}}]

Init ==
  /\ V!Init
  /\ filters = {} /\ ready = {} /\ woken = FALSE /\ lost = {} /\ events = <<>>

\* The owner is not inside poll.
Idle == events = <<>>

Both(t) == {[token |-> t, kind |-> k] : k \in Kinds}
NewToken(h) == [handle |-> h, generation |-> registry[h].generation + 1]
CurrentToken(h) == [handle |-> h, generation |-> registry[h].generation]

------------------------------------------------------------------------------
(* Calls that go straight to fallback_. *)

Submit(i, shape, t) ==
  Idle /\ V!Submit(i, shape, t) /\ UNCHANGED <<filters, ready, woken, lost, events>>

Cancel(i) ==
  Idle /\ V!Cancel(i) /\ UNCHANGED <<filters, ready, woken, lost, events>>

DrainCompletions(size) ==
  Idle /\ V!DrainCompletions(size) /\ UNCHANGED <<filters, ready, woken, lost, events>>

\* The kernel queue is closed together with the backend.
Shutdown ==
  /\ Idle /\ V!Shutdown
  /\ filters' = {} /\ woken' = FALSE
  /\ UNCHANGED <<ready, lost, events>>

Wake ==
  /\ Idle /\ ~stopped
  /\ woken' = TRUE
  /\ UNCHANGED <<fallback, filters, ready, lost, events>>

\* register_handle when the kernel refuses the descriptor: the new token is
\* closed again and the filters of left remain in the kernel.
RegisterFails(h, left) ==
  /\ Idle /\ ~stopped /\ ~registry[h].open /\ registry[h].generation < MaxGeneration
  /\ registry' = [registry EXCEPT ![h].generation = @ + 1]
  /\ filters' = left
  /\ UNCHANGED <<pending, completions, active, counters, stopped, ready, woken, lost, events>>

------------------------------------------------------------------------------
(* poll. *)

IsReady(f) == <<f.token.handle, f.kind>> \in ready

\* One poll fetches up to MaxEvents of the reports, in any order; the wake
\* event is one of them.
PollFetch(reports) ==
  /\ Idle /\ ~stopped
  /\ \E n \in 1..MaxEvents :
       \E b \in [1..n -> reports \cup (IF woken THEN {[kinds |-> {"wake"}]} ELSE {})] :
         /\ \A j, k \in 1..n : b[j] = b[k] => j = k
         /\ events' = b
  /\ UNCHANGED <<fallback, filters, ready, lost>>

\* Mutant: the generation in the cookie is not looked at.
TokenOf_HandleOnly(e) == CurrentToken(e.token.handle)

\* unpack_event_cookie
TokenOf(e) == e.token

\* Mutant: a readable descriptor is not looked at for writing.
PollEvent_OneKind ==
  /\ ~Idle
  /\ LET e == Head(events)
         kind == IF "read" \in e.kinds THEN "read" ELSE "write"
     IN  IF e.kinds = {"wake"}
         THEN woken' = FALSE /\ events' = Tail(events) /\ UNCHANGED fallback
         ELSE /\ UNCHANGED woken
              /\ IF ~V!IsCurrent(TokenOf(e))
                 THEN events' = Tail(events) /\ UNCHANGED fallback
                 ELSE /\ V!CompleteReady(TokenOf(e), kind)
                      /\ events' = Tail(events)
  /\ UNCHANGED <<filters, ready, lost>>

\* A readiness event completes the waiting operations of its token, reading
\* before writing; one whose token is not current any more is skipped.
PollEvent ==
  /\ ~Idle
  /\ LET e == Head(events)
         kind == IF "read" \in e.kinds THEN "read" ELSE "write"
     IN  IF e.kinds = {"wake"}
         THEN woken' = FALSE /\ events' = Tail(events) /\ UNCHANGED fallback
         ELSE /\ UNCHANGED woken
              /\ IF ~V!IsCurrent(TokenOf(e))
                 THEN events' = Tail(events) /\ UNCHANGED fallback
                 ELSE /\ V!CompleteReady(TokenOf(e), kind)
                      /\ events' = IF e.kinds = {kind} THEN Tail(events)
                                   ELSE [events EXCEPT ![1].kinds = @ \ {kind}]
  /\ UNCHANGED <<filters, ready, lost>>

\* An error at the front event ends poll; the rest of the batch is dropped.
PollAborts ==
  /\ ~Idle
  /\ events' = <<>>
  /\ UNCHANGED <<fallback, filters, ready, woken, lost>>

------------------------------------------------------------------------------
(* The kernel and the owner of the descriptors. *)

ReadinessChanges(h, k) ==
  /\ \/ <<h, k>> \notin ready /\ ready' = ready \cup {<<h, k>>}
     \/ <<h, k>> \in ready /\ ready' = ready \ {<<h, k>>}
  /\ UNCHANGED <<fallback, filters, woken, lost, events>>

\* The descriptor of t is closed before close_handle is called.  The kernel
\* drops its filters, unless a duplicate of the descriptor keeps them.
NativeClose(t, kept) ==
  /\ Idle /\ ~stopped /\ V!IsCurrent(t) /\ ~(Both(t) \subseteq lost)
  /\ lost' = lost \cup Both(t)
  /\ filters' = IF kept THEN filters ELSE filters \ Both(t)
  /\ UNCHANGED <<fallback, ready, woken, events>>

------------------------------------------------------------------------------
(* Properties. *)

WaitsReady(i) ==
  /\ ~stopped
  /\ \E n \in DOMAIN pending :
       /\ pending[n].id = i
       /\ \E k \in Kinds : /\ pending[n].shape \in V!Ready(k) /\ <<pending[n].token.handle, k>> \in ready
                          /\ [token |-> pending[n].token, kind |-> k] \notin lost

\* An operation whose descriptor stays ready completes, although polls fetch
\* few events at a time and may break off; see the fairness of the backend.
ReadyEventuallyCompletes == \A i \in Ids : WaitsReady(i) ~> ~WaitsReady(i)
==============================================================================
