------------------------------ MODULE Trampoline ------------------------------
(***************************************************************************)
(* The trampoline, the current scheduler and the schedulers a thread       *)
(* drives by hand (src/src/trampoline.cpp, src/src/scheduler.cpp,          *)
(* src/include/voris/io/test_scheduler.hpp), on one thread.                *)
(*                                                                         *)
(* The state is thread local, so there is no interleaving but that of      *)
(* calls: the body of a continuation may schedule others, drive a          *)
(* scheduler, return or throw.  The stack holds the bodies being executed. *)
(* run_until_idle and run_ready are calls of run_one by the same caller.   *)
(***************************************************************************)
EXTENDS Integers, Sequences, FiniteSets

CONSTANTS
  Items,        \* continuations
  Wrapped,      \* those handed to trampoline::schedule or schedule_system
  Scoped,       \* default_schedulers, which install themselves as current
  Plain,        \* test_schedulers, which do not
  Inline,       \* schedulers that invoke what they are given at once
  NoScheduler   \* current_scheduler() is empty

VARIABLES
  unused,           \* continuations not scheduled yet
  ready,            \* ready_ of each scheduler with a queue
  draining,         \* trampoline_state::draining
  deferred,         \* trampoline_state::deferred
  stack,            \* bodies being executed: the scheduler to restore, the one seen
  current,          \* tls_current_scheduler
  escaped,          \* history: an exception left run_continuation
  reached, begun    \* history: wrapped continuations that reached run_continuation, and began

vars == <<unused, ready, draining, deferred, stack, current, escaped, reached, begun>>

Queued == Scoped \cup Plain
Schedulers == Queued \cup Inline
Frame == [item : Items, saved : Schedulers \cup {NoScheduler}, seen : Schedulers \cup {NoScheduler}]

TypeOK ==
  /\ unused \subseteq Items
  /\ ready \in [Queued -> Seq(Items)]
  /\ draining \in BOOLEAN /\ escaped \in BOOLEAN
  /\ deferred \in Seq(Wrapped) /\ reached \in Seq(Wrapped) /\ begun \in Seq(Wrapped)
  /\ stack \in Seq(Frame)
  /\ current \in Schedulers \cup {NoScheduler}

Init ==
  /\ unused = Items
  /\ ready = [s \in Queued |-> <<>>]
  /\ draining = FALSE /\ deferred = <<>>
  /\ stack = <<>> /\ current = NoScheduler
  /\ escaped = FALSE /\ reached = <<>> /\ begun = <<>>

Top == stack[Len(stack)]
IfWrapped(i, seq) == IF i \in Wrapped THEN Append(seq, i) ELSE seq

------------------------------------------------------------------------------
(* run_continuation. *)

\* The continuation is called under the scheduler s.
Begin(i, s) ==
  /\ stack' = Append(stack, [item |-> i, saved |-> current, seen |-> s])
  /\ current' = s
  /\ begun' = IfWrapped(i, begun)

\* Mutant: the draining flag is never raised.
RunContinuation_NotRaised(i, s) ==
  /\ Begin(i, s)
  /\ reached' = IfWrapped(i, reached)
  /\ UNCHANGED <<draining, deferred, escaped>>

\* A continuation is invoked; a wrapped one runs now, or is deferred when the
\* thread is already draining.
RunContinuation(i, s) ==
  /\ reached' = IfWrapped(i, reached)
  /\ IF i \in Wrapped /\ draining
     THEN deferred' = Append(deferred, i) /\ UNCHANGED <<draining, stack, current, begun>>
     ELSE Begin(i, s) /\ draining' = (draining \/ i \in Wrapped) /\ UNCHANGED deferred
  /\ UNCHANGED escaped

\* The body on top returns.  Under run_continuation the next deferred
\* continuation follows in the same frame; the last one ends the drain.
Return ==
  /\ stack # <<>>
  /\ IF Top.item \in Wrapped /\ deferred # <<>>
     THEN /\ stack' = [stack EXCEPT ![Len(stack)].item = Head(deferred)]
          /\ begun' = Append(begun, Head(deferred))
          /\ deferred' = Tail(deferred)
          /\ UNCHANGED <<draining, current>>
     ELSE /\ stack' = SubSeq(stack, 1, Len(stack) - 1)
          /\ current' = Top.saved
          /\ draining' = (draining /\ Top.item \notin Wrapped)
          /\ UNCHANGED <<deferred, begun>>
  /\ UNCHANGED <<unused, ready, escaped, reached>>

\* Mutant: an exception does not restore the scheduler.
Throw_Unscoped(n) ==
  /\ n \in 1..Len(stack)
  /\ stack' = SubSeq(stack, 1, n - 1)
  /\ escaped' = (escaped \/ \E k \in n..Len(stack) : stack[k].item \in Wrapped)
  /\ UNCHANGED <<unused, ready, draining, deferred, current, reached, begun>>

\* The body on top throws, and the code that called the n-th body catches: the
\* destructors of the scopes run, the rest of run_continuation does not.
Throw(n) ==
  /\ n \in 1..Len(stack)
  /\ stack' = SubSeq(stack, 1, n - 1)
  /\ current' = stack[n].saved
  /\ escaped' = (escaped \/ \E k \in n..Len(stack) : stack[k].item \in Wrapped)
  /\ UNCHANGED <<unused, ready, draining, deferred, reached, begun>>

------------------------------------------------------------------------------
(* Calls of the thread, or of the body on top of its stack. *)

\* scheduler_ref::schedule on a scheduler with a queue.
Schedule(i, s) ==
  /\ i \in unused
  /\ unused' = unused \ {i}
  /\ ready' = [ready EXCEPT ![s] = Append(@, i)]
  /\ UNCHANGED <<draining, deferred, stack, current, escaped, reached, begun>>

\* scheduler_ref::schedule on a scheduler that invokes inline.
ScheduleInline(i) ==
  /\ i \in unused
  /\ unused' = unused \ {i}
  /\ RunContinuation(i, current)
  /\ UNCHANGED ready

\* The oldest item of s is taken out and invoked under the scheduler seen.
InvokeFront(s, seen) ==
  /\ ready[s] # <<>>
  /\ ready' = [ready EXCEPT ![s] = Tail(@)]
  /\ RunContinuation(Head(ready[s]), seen)
  /\ UNCHANGED unused

\* default_scheduler::run_one, in a current_scheduler_scope of its own.
RunOne(s) == InvokeFront(s, s)

\* test_scheduler::run_one, under the scheduler of its caller.
RunOneTest(s) == InvokeFront(s, current)

Next ==
  \/ \E i \in Items, s \in Queued : Schedule(i, s)
  \/ Inline # {} /\ \E i \in Items : ScheduleInline(i)
  \/ \E s \in Scoped : RunOne(s)
  \/ \E s \in Plain : RunOneTest(s)
  \/ Return
  \/ \E n \in 1..Len(stack) : Throw(n)

\* Bodies return, and the thread drives its schedulers; nobody has to schedule
\* or throw.
Fairness ==
  /\ WF_vars(Return)
  /\ \A s \in Scoped : WF_vars(RunOne(s))
  /\ \A s \in Plain : WF_vars(RunOneTest(s))

Spec == Init /\ [][Next]_vars

FairSpec == Spec /\ Fairness

------------------------------------------------------------------------------
(* Properties. *)

\* Trampolined bodies do not nest, however deep the schedulers are driven, and
\* begin in the order in which they reached run_continuation; while no
\* exception left it, what is deferred has somebody on the stack to drain it.
\* A body sees the scheduler it was entered under as the current one, whatever
\* it ran nested and whatever that threw.
DrainedInOrder ==
  LET drainers == {k \in DOMAIN stack : stack[k].item \in Wrapped}
  IN  /\ Cardinality(drainers) <= 1
      /\ reached = begun \o deferred
      /\ ~escaped => (drainers # {} <=> draining) /\ (deferred # <<>> => draining)
      /\ current = IF stack = <<>> THEN NoScheduler ELSE Top.seen

\* A continuation that reached the trampoline is run.
DeferredEventuallyRun ==
  \A i \in Wrapped : (\E k \in DOMAIN reached : reached[k] = i) ~> (\E k \in DOMAIN begun : begun[k] = i)
==============================================================================
