------------------------------- MODULE WhenAny -------------------------------
(***************************************************************************)
(* when_any (src/include/voris/io/when_any.hpp).                           *)
(*                                                                         *)
(* Observer i awaits child i and publishes its result; the parent, the     *)
(* coroutine of when_any_impl, waits for a winner and then joins every     *)
(* observer.  Children may finish on other shards, so the critical         *)
(* sections of when_any_state interleave with the parent.  Awaiting an     *)
(* observer is the protocol of module Task and one step here.              *)
(***************************************************************************)
EXTENDS Integers, Sequences

CONSTANTS
  K,        \* number of children
  NoWinner  \* winner_ is empty

Children == 1..K

\* The winner published by publish_invalid: it has index 0 and no child.
Invalid == 0

VARIABLES
  winner, installed, detached,   \* winner_, parent_ with its scheduler, detached_
  cancelled,   \* cancellation requested from the losers' source
  observer,    \* where observer i is
  notify,      \* observers that took the parent's scheduler out of publish
  queue,       \* queued resume_parent calls
  parent,      \* where the coroutine of when_any_impl is
  joined,      \* observers awaited after the winner
  taken,       \* what take_winner returned
  published    \* history: children in the order publish was called

vars == <<winner, installed, detached, cancelled, observer, notify, queue, parent, joined, taken,
          published>>

ObserverPhases == {"uncreated", "waiting", "publish", "cancel", "schedule", "done", "destroyed"}
ParentPhases == {"starting", "checked", "invalid", "suspended", "joining", "done", "destroyed"}

TypeOK ==
  /\ winner \in Children \cup {NoWinner, Invalid}
  /\ installed \in BOOLEAN /\ detached \in BOOLEAN /\ cancelled \in BOOLEAN
  /\ observer \in [Children -> ObserverPhases]
  /\ notify \in SUBSET Children
  /\ queue \in 0..1
  /\ parent \in ParentPhases
  /\ joined \in 0..K
  /\ taken \in Children \cup {NoWinner, Invalid}
  /\ published \in Seq(Children)

Init ==
  /\ winner = NoWinner /\ installed = FALSE /\ detached = FALSE /\ cancelled = FALSE
  /\ observer = [i \in Children |-> "uncreated"]
  /\ notify = {} /\ queue = 0
  /\ parent = "starting" /\ joined = 0 /\ taken = NoWinner
  /\ published = <<>>

------------------------------------------------------------------------------
(* Observers. *)

\* make_when_any_observers: the observers start in the order of the tasks.
StartObserver(i) ==
  /\ parent = "starting"
  /\ observer[i] = "uncreated"
  /\ \A j \in 1..(i - 1) : observer[j] # "uncreated"
  /\ observer' = [observer EXCEPT ![i] = "waiting"]
  /\ UNCHANGED <<winner, installed, detached, cancelled, notify, queue, parent, joined, taken,
                 published>>

\* Child i completes and its observer resumes in front of publish.
ChildFinishes(i) ==
  /\ observer[i] = "waiting"
  /\ observer' = [observer EXCEPT ![i] = "publish"]
  /\ UNCHANGED <<winner, installed, detached, cancelled, notify, queue, parent, joined, taken,
                 published>>

\* Mutant: a later publication replaces the winner.
Publish_LastWins(i) ==
  /\ observer[i] = "publish"
  /\ published' = Append(published, i)
  /\ winner' = i
  /\ observer' = [observer EXCEPT ![i] = "cancel"]
  /\ notify' = IF ~detached /\ installed THEN notify \cup {i} ELSE notify
  /\ UNCHANGED <<installed, detached, cancelled, queue, parent, joined, taken>>

\* publish: the critical section.
Publish(i) ==
  /\ observer[i] = "publish"
  /\ published' = Append(published, i)
  /\ IF winner # NoWinner
     THEN /\ observer' = [observer EXCEPT ![i] = "done"]
          /\ UNCHANGED <<winner, notify>>
     ELSE /\ winner' = i
          /\ observer' = [observer EXCEPT ![i] = "cancel"]
          /\ notify' = IF ~detached /\ installed THEN notify \cup {i} ELSE notify
  /\ UNCHANGED <<installed, detached, cancelled, queue, parent, joined, taken>>

\* Mutant: the losers are not cancelled.
RequestCancellation_Skipped(i) ==
  /\ observer[i] = "cancel"
  /\ observer' = [observer EXCEPT ![i] = IF i \in notify THEN "schedule" ELSE "done"]
  /\ UNCHANGED <<winner, installed, detached, cancelled, notify, queue, parent, joined, taken,
                 published>>

\* publish: request_cancellation on the losers' source.
RequestCancellation(i) ==
  /\ observer[i] = "cancel"
  /\ cancelled' = TRUE
  /\ observer' = [observer EXCEPT ![i] = IF i \in notify THEN "schedule" ELSE "done"]
  /\ UNCHANGED <<winner, installed, detached, notify, queue, parent, joined, taken, published>>

\* publish: schedule_system of resume_parent.
ScheduleParent(i) ==
  /\ observer[i] = "schedule"
  /\ queue' = queue + 1
  /\ observer' = [observer EXCEPT ![i] = "done"]
  /\ notify' = notify \ {i}
  /\ UNCHANGED <<winner, installed, detached, cancelled, parent, joined, taken, published>>

------------------------------------------------------------------------------
(* The parent. *)

\* await_resume, and the destructor of the awaiter at the end of the
\* expression.
TakeWinner ==
  /\ taken' = winner
  /\ parent' = "joining"
  /\ installed' = FALSE /\ detached' = TRUE

\* co_await of the winner up to and including await_ready.
AwaitReady ==
  /\ parent = "starting"
  /\ \A i \in Children : observer[i] # "uncreated"
  /\ IF winner # NoWinner THEN TakeWinner
     ELSE parent' = "checked" /\ UNCHANGED <<taken, installed, detached>>
  /\ UNCHANGED <<winner, cancelled, observer, notify, queue, joined, published>>

\* await_suspend with a current scheduler: install_parent.
AwaitSuspend ==
  /\ parent = "checked"
  /\ IF detached \/ winner # NoWinner THEN TakeWinner
     ELSE installed' = TRUE /\ parent' = "suspended" /\ UNCHANGED <<taken, detached>>
  /\ UNCHANGED <<winner, cancelled, observer, notify, queue, joined, published>>

\* await_suspend without one: publish_invalid, in its two steps.
PublishInvalid ==
  /\ parent = "checked"
  /\ IF winner # NoWinner THEN TakeWinner /\ UNCHANGED winner
     ELSE winner' = Invalid /\ parent' = "invalid" /\ UNCHANGED <<taken, installed, detached>>
  /\ UNCHANGED <<cancelled, observer, notify, queue, joined, published>>

CancelInvalid ==
  /\ parent = "invalid"
  /\ cancelled' = TRUE
  /\ TakeWinner
  /\ UNCHANGED <<winner, observer, notify, queue, joined, published>>

\* resume_parent: claim_parent, then the parent runs await_resume.
ResumeParent ==
  /\ queue > 0
  /\ queue' = queue - 1
  /\ IF detached \/ ~installed THEN UNCHANGED <<taken, parent, installed, detached>>
     ELSE TakeWinner
  /\ UNCHANGED <<winner, cancelled, observer, notify, joined, published>>

\* Mutant: the parent returns as soon as the winner's observer is done.
JoinObserver_WinnerOnly ==
  /\ parent = "joining"
  /\ taken # Invalid => observer[taken] = "done"
  /\ parent' = "done"
  /\ UNCHANGED <<winner, installed, detached, cancelled, observer, notify, queue, joined, taken,
                 published>>

\* The parent awaits the observers one after the other and returns.
JoinObserver ==
  /\ parent = "joining"
  /\ \/ /\ joined < K
        /\ observer[joined + 1] = "done"
        /\ joined' = joined + 1
        /\ UNCHANGED parent
     \/ /\ joined = K
        /\ parent' = "done"
        /\ UNCHANGED joined
  /\ UNCHANGED <<winner, installed, detached, cancelled, observer, notify, queue, taken, published>>

\* The task of when_any is destroyed while it is suspended: ~awaiter detaches,
\* the observers and children go with the frame.  None of them is running.
Destroy ==
  /\ parent \in {"suspended", "joining"}
  /\ \A i \in Children : observer[i] \notin {"publish", "cancel", "schedule"}
  /\ parent' = "destroyed"
  /\ detached' = TRUE /\ installed' = FALSE
  /\ observer' = [i \in Children |-> "destroyed"]
  /\ UNCHANGED <<winner, cancelled, notify, queue, joined, taken, published>>

Next ==
  \/ \E i \in Children : \/ StartObserver(i) \/ ChildFinishes(i) \/ Publish(i)
                         \/ RequestCancellation(i) \/ ScheduleParent(i)
  \/ AwaitReady \/ AwaitSuspend \/ PublishInvalid \/ CancelInvalid \/ ResumeParent
  \/ JoinObserver \/ Destroy

\* Code that is running goes on, schedulers run what is queued, and a child
\* whose cancellation is requested finishes.
Fairness ==
  /\ \A i \in Children :
       /\ WF_vars(StartObserver(i)) /\ WF_vars(Publish(i))
       /\ WF_vars(RequestCancellation(i)) /\ WF_vars(ScheduleParent(i))
       /\ WF_vars(cancelled /\ ChildFinishes(i))
  /\ WF_vars(AwaitReady) /\ WF_vars(AwaitSuspend) /\ WF_vars(CancelInvalid)
  /\ WF_vars(ResumeParent) /\ WF_vars(JoinObserver)

Spec == Init /\ [][Next]_vars /\ Fairness

------------------------------------------------------------------------------
(* Properties. *)

\* The parent gets the first published result, or the error of its own await
\* when that came before every child; a late loser never replaces it.  It
\* returns only after every observer is done and the losers were told to stop:
\* nothing it started outlives it.
FirstWinsRestJoined ==
  /\ taken # NoWinner =>
       /\ taken = winner
       /\ taken # Invalid => taken = Head(published)
  /\ parent = "done" => cancelled /\ \A i \in Children : observer[i] = "done"

\* Once a child has finished, when_any returns, unless it is destroyed.
EventuallyReturns ==
  (\E i \in Children : observer[i] = "publish") ~> (parent \in {"done", "destroyed"})
==============================================================================
