---------------------------- MODULE Cancellation ----------------------------
(***************************************************************************)
(* cancellation_source, token and registration (src/src/cancellation.cpp). *)
(*                                                                         *)
(* Each critical section of cancellation_state::mutex is one step, and so  *)
(* are the start and the return of a callback, which runs outside the      *)
(* mutex and may itself register, unregister or request.  A thread is      *)
(* therefore a stack of calls: a frame holds the callbacks its call still  *)
(* has to invoke, the snapshot of request_cancellation or the single late  *)
(* callback of register_callback.                                          *)
(***************************************************************************)
EXTENDS Integers, Sequences, FiniteSets, Positions

CONSTANTS
  Threads,   \* threads that share the source
  Slots,     \* callbacks that may be registered, each once
  Reasons,   \* cancellation_reason values used
  MaxDepth   \* bound: nesting of callbacks on one thread

NoReason == "none"

VARIABLES
  requested, reason,   \* cancellation_state
  callbacks,           \* cancellation_state::callbacks
  registered,          \* slot->registered
  handles,             \* slots whose cancellation_registration is still owned
  stack,               \* per thread: its nested calls, innermost last
  calls,               \* history: the reasons each callback was invoked with
  revoked,             \* history: slots unregistered before they were selected
  abandoned,           \* history: slots selected behind a callback that threw
  order                \* history: callbacks in the order they were registered

vars == <<requested, reason, callbacks, registered, handles, stack, calls, revoked, abandoned,
          order>>

Frame == [rest : Seq(Slots), running : BOOLEAN, reason : Reasons]

TypeOK ==
  /\ requested \in BOOLEAN
  /\ reason \in Reasons \cup {NoReason}
  /\ callbacks \in Seq(Slots)
  /\ registered \in SUBSET Slots
  /\ handles \in SUBSET Slots
  /\ stack \in [Threads -> Seq(Frame)]
  /\ calls \in [Slots -> Seq(Reasons)]
  /\ revoked \in SUBSET Slots
  /\ abandoned \in SUBSET Slots
  /\ order \in Seq(Slots)

Init ==
  /\ requested = FALSE /\ reason = NoReason
  /\ callbacks = <<>>
  /\ registered = {} /\ handles = {}
  /\ stack = [t \in Threads |-> <<>>]
  /\ calls = [c \in Slots |-> <<>>]
  /\ revoked = {} /\ abandoned = {}
  /\ order = <<>>

RangeOf(s) == {s[k] : k \in DOMAIN s}
Top(t) == stack[t][Len(stack[t])]

\* A thread calls the API from outside or from the callback it is running.
MayCall(t) == stack[t] # <<>> => Top(t).running /\ Len(stack[t]) < MaxDepth

Push(t, rest, r) ==
  stack' = [stack EXCEPT ![t] = Append(@, [rest |-> rest, running |-> FALSE, reason |-> r])]

SetTop(t, frame) == stack' = [stack EXCEPT ![t][Len(stack[t])] = frame]

------------------------------------------------------------------------------
\* register_callback before cancellation: the slot joins the list.
Register(t, c) ==
  /\ MayCall(t)
  /\ c \notin RangeOf(order)
  /\ ~requested
  /\ callbacks' = Append(callbacks, c)
  /\ registered' = registered \cup {c}
  /\ handles' = handles \cup {c}
  /\ order' = Append(order, c)
  /\ UNCHANGED <<requested, reason, stack, calls, revoked, abandoned>>

\* register_callback after cancellation: it is invoked before the call
\* returns, with the reason read under the mutex, and no registration is left.
RegisterLate(t, c) ==
  /\ MayCall(t)
  /\ c \notin RangeOf(order)
  /\ requested
  /\ Push(t, <<c>>, reason)
  /\ order' = Append(order, c)
  /\ UNCHANGED <<requested, reason, callbacks, registered, handles, calls, revoked, abandoned>>

\* Mutant: the early return is taken for registered slots.
Unregister_GuardInverted(t, c) ==
  /\ MayCall(t)
  /\ c \in handles
  /\ handles' = handles \ {c}
  /\ revoked' = revoked \cup (registered \cap {c})
  /\ UNCHANGED <<requested, reason, callbacks, registered, stack, calls, abandoned, order>>

\* unregister, or the destruction of the registration.  It does not wait for a
\* callback that was already selected.
Unregister(t, c) ==
  /\ MayCall(t)
  /\ c \in handles
  /\ handles' = handles \ {c}
  /\ revoked' = revoked \cup (registered \cap {c})
  /\ IF c \in registered
     THEN /\ registered' = registered \ {c}
          /\ callbacks' \in Kept(callbacks, {k \in DOMAIN callbacks : callbacks[k] # c})
     ELSE UNCHANGED <<registered, callbacks>>
  /\ UNCHANGED <<requested, reason, stack, calls, abandoned, order>>

\* Mutant: a second request overwrites the reason.
RequestCancellation_LastWins(t, r) ==
  /\ MayCall(t)
  /\ requested' = TRUE
  /\ reason' = r
  /\ Push(t, callbacks, r)
  /\ registered' = {}
  /\ callbacks' = <<>>
  /\ UNCHANGED <<handles, calls, revoked, abandoned, order>>

\* request_cancellation: the first request publishes its reason and selects
\* the callbacks; a later one returns false and changes nothing.
RequestCancellation(t, r) ==
  /\ MayCall(t)
  /\ ~requested
  /\ requested' = TRUE
  /\ reason' = r
  /\ \E selected \in Kept(callbacks, {k \in DOMAIN callbacks : callbacks[k] \in registered}) :
       Push(t, selected, r)
  /\ registered' = registered \ RangeOf(callbacks)
  /\ callbacks' = <<>>
  /\ UNCHANGED <<handles, calls, revoked, abandoned, order>>

\* The call on top of the stack invokes its next callback.
Invoke(t) ==
  /\ stack[t] # <<>>
  /\ ~Top(t).running
  /\ Top(t).rest # <<>>
  /\ SetTop(t, [Top(t) EXCEPT !.running = TRUE])
  /\ calls' = [calls EXCEPT ![Head(Top(t).rest)] = Append(@, Top(t).reason)]
  /\ UNCHANGED <<requested, reason, callbacks, registered, handles, revoked, abandoned, order>>

CallbackReturns(t) ==
  /\ stack[t] # <<>>
  /\ Top(t).running
  /\ SetTop(t, [Top(t) EXCEPT !.running = FALSE, !.rest = Tail(@)])
  /\ UNCHANGED <<requested, reason, callbacks, registered, handles, calls, revoked, abandoned, order>>

\* A callback throws: the exception leaves the loop and the call that runs it,
\* and the callbacks behind it are not invoked.  The caller, which may be a
\* callback itself, catches the exception or throws in turn.
CallbackThrows(t) ==
  /\ stack[t] # <<>>
  /\ Top(t).running
  /\ stack' = [stack EXCEPT ![t] = SubSeq(@, 1, Len(@) - 1)]
  /\ abandoned' = abandoned \cup RangeOf(Tail(Top(t).rest))
  /\ UNCHANGED <<requested, reason, callbacks, registered, handles, calls, revoked, order>>

\* Mutant: the loop over the snapshot stops after the first callback.
CallReturns_AfterFirst(t) ==
  /\ stack[t] # <<>>
  /\ ~Top(t).running
  /\ stack' = [stack EXCEPT ![t] = SubSeq(@, 1, Len(@) - 1)]
  /\ UNCHANGED <<requested, reason, callbacks, registered, handles, calls, revoked, abandoned, order>>

CallReturns(t) ==
  /\ stack[t] # <<>>
  /\ ~Top(t).running
  /\ Top(t).rest = <<>>
  /\ stack' = [stack EXCEPT ![t] = SubSeq(@, 1, Len(@) - 1)]
  /\ UNCHANGED <<requested, reason, callbacks, registered, handles, calls, revoked, abandoned, order>>

Step(t) == Invoke(t) \/ CallbackReturns(t) \/ CallbackThrows(t) \/ CallReturns(t)

Next ==
  \E t \in Threads :
    \/ \E c \in Slots : Register(t, c) \/ RegisterLate(t, c) \/ Unregister(t, c)
    \/ \E r \in Reasons : RequestCancellation(t, r)
    \/ Step(t)

\* A thread inside a call goes on, and callbacks return or throw.
Fairness == \A t \in Threads : WF_vars(Step(t))

Spec == Init /\ [][Next]_vars /\ Fairness

------------------------------------------------------------------------------
(* Properties. *)

Selected == UNION {RangeOf(f.rest) : f \in UNION {RangeOf(stack[t]) : t \in Threads}}

\* A callback is invoked at most once, however request_cancellation, late
\* registration and nested calls interleave, and with the reason that was
\* published first.  An unregister that takes the mutex before the selection
\* removes its callback for good.  A callback that an exception left behind has
\* no second chance either: nobody holds it any more.
InvokedOnceUnlessRevoked ==
  /\ \A c \in Slots : calls[c] = <<>> \/ (requested /\ calls[c] = <<reason>>)
  /\ \A c \in revoked \cup abandoned : calls[c] = <<>> /\ c \notin Selected

\* After cancellation every callback that was not revoked has its call, but for
\* those behind one that throws.
CancelledEventuallyInvoked ==
  \A c \in Slots :
    (requested /\ c \in RangeOf(order) \ revoked) ~> (calls[c] # <<>> \/ c \in abandoned)
==============================================================================
