----------------------------- MODULE Shard_proofs -----------------------------
(***************************************************************************)
(* For any number of submitting threads, messages, queue limit, budgets    *)
(* and restarts: what a shard accepts is run in order or still there, and  *)
(* a clean exit of the loop left nothing in the mailbox.                   *)
(***************************************************************************)
EXTENDS Shard, SequenceTheorems, TLAPS

USE ShardConstants, NamesAreFresh

------------------------------------------------------------------------------
(* The inductive invariant. *)

DrainPoints == {"drainSystem", "drainUser", "drainObserve", "drainWork", "drainCount"}
HoldingPoints == {"observe", "work", "drainObserve", "drainWork"}

\* submit holds the lifecycle mutex from its stop check to its metrics update,
\* so a push happens before a stop, or after a loop that gave up.
CallsOK ==
  \A t \in Callers :
    /\ pc[t] \in {"push", "count"} => lifecycle = t /\ arg[t] \in Messages
    /\ pc[t] = "push" => ~stopRequested \/ loopError

\* Who may be where in the loop, and what the drain of a stop may rely on.
LoopOK ==
  /\ driver = "iteration" => budget > 0
  /\ driver = "iteration" => loop \notin DrainPoints \cup {"check", "wait", "consume", "failing", "exited"}
  /\ loop \in DrainPoints /\ driver = "thread" => stopRequested
  /\ driver = "thread" /\ loop \notin {"off", "failing", "exited"} => ~loopError
  /\ loop = "failing" => loopError
  /\ loop = "drainUser" /\ driver = "thread" => queue["system"] = <<>>
  /\ loop \in HoldingPoints => message \in Messages

\* What a clean exit leaves.
ExitOK ==
  loop = "exited" /\ ~loopError => stopRequested /\ \A c \in Classes : queue[c] = <<>>

IInv == TypeOK /\ CallsOK /\ LoopOK /\ ExitOK /\ AcceptedInOrder

------------------------------------------------------------------------------
(* Classes and sequences. *)

\* A message belongs to the class it was submitted for, and to no other.
LEMMA ClassFacts ==
  /\ \A m \in Messages : ClassOf(m) \in Classes /\ m \in Of(ClassOf(m))
  /\ \A c \in Classes : \A m \in Of(c) : m \in Messages /\ ClassOf(m) = c
BY Zenon DEF Classes, ClassOf, Of, Messages

\* The updates of the metrics keep their type.
LEMMA MetricsFacts ==
  ASSUME NEW old \in Metrics, NEW n \in Nat
  PROVE  /\ [old EXCEPT !.depth = n] \in Metrics
         /\ [old EXCEPT !.depth = n, !.submitted = @ + 1] \in Metrics
         /\ [old EXCEPT !.completed = @ + 1] \in Metrics
<1>1. [old EXCEPT !.depth = n] \in Metrics
  BY Zenon DEF Metrics
<1>2. [old EXCEPT !.depth = n, !.submitted = @ + 1] \in Metrics
  <2> DEFINE observed == [old EXCEPT !.depth = n]
  <2>1. observed \in Metrics /\ old.submitted + 1 \in Nat
    BY <1>1 DEF Metrics
  <2> HIDE DEF observed
  <2>2. [observed EXCEPT !.submitted = old.submitted + 1] \in Metrics
    BY <2>1, Zenon DEF Metrics
  <2> QED BY <2>2, Zenon DEF observed
<1>3. [old EXCEPT !.completed = @ + 1] \in Metrics
  BY DEF Metrics
<1> QED BY <1>1, <1>2, <1>3, Zenon

------------------------------------------------------------------------------
(* The invariant holds in every reachable state. *)

\* A new shard satisfies the invariant.
LEMMA Initially == Init => IInv
<1> SUFFICES ASSUME Init PROVE IInv
  BY Zenon
<1>0. /\ metrics \in Metrics
      /\ \A c \in Classes : queue[c] \in Seq(Of(c)) /\ Len(queue[c]) <= Capacity
  BY DEF Init, Metrics
<1>a. /\ queue \in [Classes -> Seq(Messages)]
      /\ accepted \in [Classes -> Seq(Messages)] /\ finished \in [Classes -> Seq(Messages)]
  BY DEF Init
<1>1. TypeOK
  BY <1>0, <1>a, Zenon DEF Init, TypeOK, CallPoints, LoopPoints
<1>2. CallsOK /\ LoopOK /\ ExitOK
  BY Zenon DEF Init, CallsOK, LoopOK, ExitOK, DrainPoints, HoldingPoints
<1>3. AcceptedInOrder
  BY DEF Init, AcceptedInOrder, InHand
<1> QED BY <1>1, <1>2, <1>3, Zenon DEF IInv

\* The queues and the history do not move, and neither does what is in hand.
LEMMA LineUntouched ==
  ASSUME AcceptedInOrder, UNCHANGED <<queue, accepted, finished>>,
         \A class \in Classes : InHand(class)' = InHand(class)
  PROVE  AcceptedInOrder'
BY Zenon DEF AcceptedInOrder

\* submit, submit_system and request_stop preserve the invariant.
LEMMA CallsPreserve ==
  ASSUME IInv, NEW t \in Callers,
         \/ \E class \in Classes : SubmitEnter(t, class)
         \/ RequestStop(t)
         \/ Call(t)
  PROVE  IInv'
<1> USE DEF IInv
<1> DEFINE Same == \A class \in Classes : InHand(class)' = InHand(class)
<1>0. Len(queue["user"]) \in Nat /\ Len(queue["system"]) \in Nat /\ Depth \in Nat
  BY LenProperties DEF TypeOK, Classes, Depth
<1>1. ASSUME NEW class \in Classes, SubmitEnter(t, class) PROVE IInv'
  <2> USE <1>1 DEF SubmitEnter, loopVars, history, Go
  <2>1. NextOf(class) \in Messages
    BY ClassFacts, Zenon DEF Fresh, NextOf
  <2>2. TypeOK'
    BY <2>1, Zenon DEF TypeOK, CallPoints, Callers
  <2>3. CallsOK'
    BY <2>1, Zenon DEF CallsOK, TypeOK, Callers
  <2>4. LoopOK' /\ ExitOK'
    BY Zenon DEF LoopOK, ExitOK
  <2>5. Same
    BY Zenon DEF InHand
  <2> QED BY <2>2, <2>3, <2>4, <2>5, LineUntouched, Zenon
<1>2. CASE RequestStop(t)
  <2> USE <1>2 DEF RequestStop, loopVars, history, Go
  <2>1. TypeOK'
    BY Zenon DEF TypeOK, CallPoints, Callers
  <2>2. CallsOK'
    BY Zenon DEF CallsOK, TypeOK, Callers
  <2>3. LoopOK' /\ ExitOK'
    BY Zenon DEF LoopOK, ExitOK
  <2>4. Same
    BY Zenon DEF InHand
  <2> QED BY <2>1, <2>2, <2>3, <2>4, LineUntouched, Zenon
<1>3. CASE SubmitPush(t)
  <2> USE <1>3 DEF SubmitPush, loopVars, Go
  <2> DEFINE c == ClassOf(arg[t])
  <2>1. arg[t] \in Of(c) /\ c \in Classes /\ arg[t] \in Messages
    BY ClassFacts, Zenon DEF CallsOK
  <2>2. /\ queue[c] \in Seq(Of(c)) /\ queue[c] \in Seq(Messages)
        /\ accepted[c] \in Seq(Messages) /\ finished[c] \in Seq(Messages)
    BY <2>1, Zenon DEF TypeOK
  <2>3. /\ Append(queue[c], arg[t]) \in Seq(Of(c))
        /\ Append(queue[c], arg[t]) \in Seq(Messages)
        /\ Len(Append(queue[c], arg[t])) <= Capacity
        /\ Append(accepted[c], arg[t]) \in Seq(Messages)
    BY <2>1, <2>2, AppendProperties, LenProperties DEF Room
  <2>4. TypeOK'
    <3>1. queue' \in [Classes -> Seq(Messages)] /\ accepted' \in [Classes -> Seq(Messages)]
      BY <2>1, <2>3, Zenon DEF TypeOK
    <3>2. ASSUME NEW d \in Classes PROVE queue'[d] \in Seq(Of(d)) /\ Len(queue'[d]) <= Capacity
      <4>1. CASE d = c
        BY <4>1, <2>1, <2>3, Zenon DEF TypeOK
      <4>2. CASE d # c
        BY <4>2, <2>1, Zenon DEF TypeOK
      <4> QED BY <4>1, <4>2, Zenon
    <3> QED BY <3>1, <3>2, Zenon DEF TypeOK, CallPoints
  <2>5. CallsOK'
    BY <2>1, Zenon DEF CallsOK, TypeOK, Callers
  <2>6. LoopOK' /\ ExitOK'
    BY <2>1, Zenon DEF LoopOK, ExitOK, CallsOK, TypeOK, DrainPoints
  <2>7. InHand(c) \in Seq(Messages) /\ finished[c] \o InHand(c) \in Seq(Messages)
    BY <2>1, <2>2, ConcatProperties DEF InHand, LoopOK, HoldingPoints
  <2>8. Append(accepted[c], arg[t]) = finished[c] \o InHand(c) \o Append(queue[c], arg[t])
    <3>1. accepted[c] = (finished[c] \o InHand(c)) \o queue[c]
      BY <2>1, Zenon DEF AcceptedInOrder
    <3> DEFINE done == finished[c] \o InHand(c)
               left == queue[c]
               new == arg[t]
    <3>2. done \in Seq(Messages) /\ left \in Seq(Messages) /\ new \in Messages
      BY <2>1, <2>2, <2>7, Zenon
    <3> HIDE DEF c, done, left, new
    <3>3. Append(done \o left, new) = done \o Append(left, new)
      BY ONLY <3>2
    <3> QED BY <3>1, <3>3, Zenon DEF done, left, new
  <2>9. AcceptedInOrder'
    <3> SUFFICES ASSUME NEW d \in Classes
                 PROVE  accepted'[d] = finished'[d] \o InHand(d)' \o queue'[d]
      BY Zenon DEF AcceptedInOrder
    <3>1. InHand(d)' = InHand(d) /\ finished' = finished
      BY Zenon DEF InHand
    <3>2. CASE d = c
      BY <3>1, <3>2, <2>1, <2>8, Zenon DEF TypeOK
    <3>3. CASE d # c
      BY <3>1, <3>3, <2>1, Zenon DEF TypeOK, AcceptedInOrder
    <3> QED BY <3>2, <3>3, Zenon
  <2> QED BY <2>4, <2>5, <2>6, <2>9, Zenon
<1>4. CASE SubmitFull(t)
  <2> USE <1>4 DEF SubmitFull, loopVars, history, Go
  <2>0. metrics' \in Metrics
    BY <1>0, MetricsFacts, Zenon DEF TypeOK
  <2>1. TypeOK'
    BY <2>0, Zenon DEF TypeOK, CallPoints
  <2>2. CallsOK'
    BY Zenon DEF CallsOK, TypeOK, Callers
  <2>3. LoopOK' /\ ExitOK'
    BY Zenon DEF LoopOK, ExitOK
  <2>4. Same
    BY Zenon DEF InHand
  <2> QED BY <2>1, <2>2, <2>3, <2>4, LineUntouched, Zenon
<1>5. CASE SubmitCount(t)
  <2> USE <1>5 DEF SubmitCount, loopVars, history, Go
  <2>0. metrics' \in Metrics
    BY <1>0, MetricsFacts, Zenon DEF TypeOK
  <2>1. TypeOK'
    BY <2>0, Zenon DEF TypeOK, CallPoints
  <2>2. CallsOK'
    BY Zenon DEF CallsOK, TypeOK, Callers
  <2>3. LoopOK' /\ ExitOK'
    BY Zenon DEF LoopOK, ExitOK
  <2>4. Same
    BY Zenon DEF InHand
  <2> QED BY <2>1, <2>2, <2>3, <2>4, LineUntouched, Zenon
<1>6. CASE WakeCall(t)
  <2> USE <1>6 DEF WakeCall, loopVars, history, Go
  <2>1. TypeOK'
    BY DEF TypeOK, CallPoints, Callers
  <2>2. CallsOK'
    BY Zenon DEF CallsOK, TypeOK, Callers
  <2>3. LoopOK' /\ ExitOK'
    BY Zenon DEF LoopOK, ExitOK
  <2>4. Same
    BY Zenon DEF InHand
  <2> QED BY <2>1, <2>2, <2>3, <2>4, LineUntouched, Zenon
<1> QED BY <1>1, <1>2, <1>3, <1>4, <1>5, <1>6, Zenon DEF Call
\* start, join and the manual calls preserve the invariant.
LEMMA OwnerPreserves ==
  ASSUME IInv, Start \/ StartFails \/ Join \/ \E how \in {"iteration", "drain"} : RunByHand(how)
  PROVE  IInv'
<1> USE DEF IInv
<1> DEFINE Same == \A class \in Classes : InHand(class)' = InHand(class)
<1>1. CASE Start
  <2> USE <1>1 DEF Start, callVars, history
  <2>0. starts' \in Nat
    <3>1. starts \in Nat
      BY Zenon DEF TypeOK
    <3> QED BY ONLY <3>1, <1>1 DEF Start
  <2>1. TypeOK'
    BY <2>0, Zenon DEF TypeOK, LoopPoints
  <2>2. CallsOK'
    BY Zenon DEF CallsOK
  <2>3. LoopOK' /\ ExitOK'
    BY Zenon DEF LoopOK, ExitOK, DrainPoints, HoldingPoints, TypeOK
  <2>4. Same
    BY Zenon DEF InHand, LoopOK, HoldingPoints
  <2> QED BY <2>1, <2>2, <2>3, <2>4, LineUntouched, Zenon
<1>2. CASE StartFails
  <2> USE <1>2 DEF StartFails, callVars, loopVars, history
  <2>0. starts' \in Nat
    <3>1. starts \in Nat
      BY Zenon DEF TypeOK
    <3> QED BY ONLY <3>1, <1>2 DEF StartFails
  <2>1. TypeOK'
    BY <2>0, Zenon DEF TypeOK, LoopPoints
  <2>2. CallsOK'
    BY Zenon DEF CallsOK
  <2>3. LoopOK' /\ ExitOK'
    BY Zenon DEF LoopOK, ExitOK, DrainPoints, HoldingPoints, TypeOK
  <2>4. Same
    BY Zenon DEF InHand, LoopOK, HoldingPoints
  <2> QED BY <2>1, <2>2, <2>3, <2>4, LineUntouched, Zenon
<1>3. CASE Join
  <2> USE <1>3 DEF Join, callVars, history
  <2>1. TypeOK'
    BY Zenon DEF TypeOK, LoopPoints
  <2>2. CallsOK'
    BY Zenon DEF CallsOK
  <2>3. LoopOK' /\ ExitOK'
    BY Zenon DEF LoopOK, ExitOK, DrainPoints, HoldingPoints, TypeOK
  <2>4. Same
    BY Zenon DEF InHand, LoopOK, HoldingPoints
  <2> QED BY <2>1, <2>2, <2>3, <2>4, LineUntouched, Zenon
<1>4. ASSUME NEW how \in {"iteration", "drain"}, RunByHand(how) PROVE IInv'
  <2> USE <1>4 DEF RunByHand, callVars, history
  <2>1. TypeOK'
    BY Zenon DEF TypeOK, LoopPoints
  <2>2. CallsOK'
    BY Zenon DEF CallsOK
  <2>3. LoopOK' /\ ExitOK'
    BY Zenon DEF LoopOK, ExitOK, DrainPoints, HoldingPoints, TypeOK
  <2>4. Same
    BY Zenon DEF InHand
  <2> QED BY <2>1, <2>2, <2>3, <2>4, LineUntouched, Zenon
<1> QED BY <1>1, <1>2, <1>3, <1>4, Zenon

\* The steps of run_loop that pop nothing and finish nothing preserve it.
LEMMA LoopPreserves ==
  ASSUME IInv,
         \/ LoopCheck \/ LoopSlice \/ LoopFail \/ LoopGivesUp
         \/ Observe \/ CountCompleted \/ Wait \/ ConsumeAll
  PROVE  IInv'
<1> USE DEF IInv
<1> DEFINE Same == \A class \in Classes : InHand(class)' = InHand(class)
<1>0. Len(queue["user"]) \in Nat /\ Len(queue["system"]) \in Nat /\ Depth \in Nat
  BY LenProperties DEF TypeOK, Classes, Depth
<1>1. CASE LoopCheck
  <2> USE <1>1 DEF LoopCheck, StepTo, Elsewhere, callVars, history
  <2>1. TypeOK'
    BY Zenon DEF TypeOK, LoopPoints
  <2>2. CallsOK'
    BY Zenon DEF CallsOK
  <2>3. LoopOK' /\ ExitOK'
    BY Zenon DEF LoopOK, ExitOK, DrainPoints, HoldingPoints, TypeOK
  <2>4. Same
    BY Zenon DEF InHand, LoopOK, HoldingPoints
  <2> QED BY <2>1, <2>2, <2>3, <2>4, LineUntouched, Zenon
<1>2. CASE LoopSlice
  <2> USE <1>2 DEF LoopSlice, StepTo, Elsewhere, callVars, history
  <2>1. TypeOK'
    BY Zenon DEF TypeOK, LoopPoints
  <2>2. CallsOK'
    BY Zenon DEF CallsOK
  <2>3. LoopOK' /\ ExitOK'
    BY Zenon DEF LoopOK, ExitOK, DrainPoints, HoldingPoints, TypeOK
  <2>4. Same
    BY Zenon DEF InHand, LoopOK, HoldingPoints
  <2> QED BY <2>1, <2>2, <2>3, <2>4, LineUntouched, Zenon
<1>3. CASE LoopFail
  <2> USE <1>3 DEF LoopFail, StepTo, Elsewhere, callVars, history
  <2>0. metrics' \in Metrics
    BY <1>0, MetricsFacts, Zenon DEF TypeOK
  <2>1. TypeOK'
    BY <2>0, Zenon DEF TypeOK, LoopPoints
  <2>2. CallsOK'
    BY Zenon DEF CallsOK
  <2>3. LoopOK' /\ ExitOK'
    BY DEF LoopOK, ExitOK, DrainPoints, HoldingPoints, TypeOK
  <2>4. Same
    BY Zenon DEF InHand, LoopOK, HoldingPoints
  <2> QED BY <2>1, <2>2, <2>3, <2>4, LineUntouched, Zenon
<1>4. CASE Observe
  <2> USE <1>4 DEF Observe, StepTo, Elsewhere, callVars, history
  <2>0. metrics' \in Metrics
    BY <1>0, MetricsFacts, Zenon DEF TypeOK
  <2>1. TypeOK'
    BY <2>0, Zenon DEF TypeOK, LoopPoints
  <2>2. CallsOK'
    BY Zenon DEF CallsOK
  <2>3. LoopOK' /\ ExitOK'
    BY Zenon DEF LoopOK, ExitOK, DrainPoints, HoldingPoints, TypeOK
  <2>4. Same
    BY Zenon DEF InHand, LoopOK, HoldingPoints
  <2> QED BY <2>1, <2>2, <2>3, <2>4, LineUntouched, Zenon
<1>5. CASE CountCompleted
  <2> USE <1>5 DEF CountCompleted, StepTo, Elsewhere, callVars, history, IterationEnds
  <2>0. metrics' \in Metrics
    BY <1>0, MetricsFacts, Zenon DEF TypeOK
  <2>1. TypeOK'
    BY <2>0 DEF TypeOK, LoopPoints
  <2>2. CallsOK'
    BY Zenon DEF CallsOK
  <2>3. LoopOK' /\ ExitOK'
    <3>1. CASE loop = "drainCount"
      BY <3>1, Zenon DEF LoopOK, ExitOK, DrainPoints, HoldingPoints
    <3>2. CASE loop = "count"
      <4>1. loop' \in {"popSystem", "check", "off"} /\ (driver = "iteration" => loop' # "check")
        BY <3>2, Zenon
      <4> QED BY <4>1, <3>2, Zenon DEF LoopOK, ExitOK, DrainPoints, HoldingPoints
    <3> QED BY <3>1, <3>2, Zenon
  <2>4. Same
    BY Zenon DEF InHand, LoopOK, HoldingPoints
  <2> QED BY <2>1, <2>2, <2>3, <2>4, LineUntouched, Zenon
<1>6. CASE Wait
  <2> USE <1>6 DEF Wait, StepTo, Elsewhere, callVars, history
  <2>1. TypeOK'
    BY DEF TypeOK, LoopPoints
  <2>2. CallsOK'
    BY Zenon DEF CallsOK
  <2>3. LoopOK' /\ ExitOK'
    BY Zenon DEF LoopOK, ExitOK, DrainPoints, HoldingPoints, TypeOK
  <2>4. Same
    BY Zenon DEF InHand, LoopOK, HoldingPoints
  <2> QED BY <2>1, <2>2, <2>3, <2>4, LineUntouched, Zenon
<1>7. CASE ConsumeAll
  <2> USE <1>7 DEF ConsumeAll, StepTo, Elsewhere, callVars, history
  <2>1. TypeOK'
    BY Zenon DEF TypeOK, LoopPoints
  <2>2. CallsOK'
    BY Zenon DEF CallsOK
  <2>3. LoopOK' /\ ExitOK'
    BY Zenon DEF LoopOK, ExitOK, DrainPoints, HoldingPoints, TypeOK
  <2>4. Same
    BY Zenon DEF InHand, LoopOK, HoldingPoints
  <2> QED BY <2>1, <2>2, <2>3, <2>4, LineUntouched, Zenon
<1>8. CASE LoopGivesUp
  <2> USE <1>8 DEF LoopGivesUp, StepTo, Elsewhere, callVars, history
  <2>0. loopError
    BY Zenon DEF LoopOK
  <2>1. TypeOK'
    BY Zenon DEF TypeOK, LoopPoints
  <2>2. CallsOK'
    BY <2>0, Zenon DEF CallsOK
  <2>3. LoopOK' /\ ExitOK'
    BY <2>0, Zenon DEF LoopOK, ExitOK, DrainPoints, HoldingPoints, TypeOK
  <2>4. Same
    BY Zenon DEF InHand, LoopOK, HoldingPoints
  <2> QED BY <2>1, <2>2, <2>3, <2>4, LineUntouched, Zenon
<1> QED BY <1>1, <1>2, <1>3, <1>4, <1>5, <1>6, <1>7, <1>8, Zenon

\* Popping the front of a queue moves it into the hand.
LEMMA PopPreserves ==
  ASSUME IInv, NEW c \in Classes, queue[c] # <<>>, PopFront(c),
         loop \notin HoldingPoints, loop' \in HoldingPoints,
         UNCHANGED <<accepted, finished>>
  PROVE  /\ message' \in Messages
         /\ queue' \in [Classes -> Seq(Messages)]
         /\ \A d \in Classes : queue'[d] \in Seq(Of(d)) /\ Len(queue'[d]) <= Capacity
         /\ \A d \in Classes : queue[d] = <<>> => queue'[d] = <<>>
         /\ AcceptedInOrder'
<1> USE DEF PopFront, Front
<1>1. /\ queue[c] \in Seq(Of(c)) /\ queue[c] \in Seq(Messages)
      /\ finished[c] \in Seq(Messages) /\ Len(queue[c]) <= Capacity
  BY Zenon DEF IInv, TypeOK
<1>2. /\ Head(queue[c]) \in Of(c)
      /\ Tail(queue[c]) \in Seq(Of(c)) /\ Tail(queue[c]) \in Seq(Messages)
      /\ Len(Tail(queue[c])) <= Capacity
  BY <1>1, HeadTailProperties, LenProperties
<1>3. message' \in Messages /\ ClassOf(message') = c
  BY <1>2, ClassFacts, Zenon
<1>4. \A d \in Classes : queue'[d] = IF d = c THEN Tail(queue[c]) ELSE queue[d]
  BY Zenon DEF IInv, TypeOK
<1>5. queue' \in [Classes -> Seq(Messages)]
  BY <1>2, Zenon DEF IInv, TypeOK
<1>6. \A d \in Classes : queue'[d] \in Seq(Of(d)) /\ Len(queue'[d]) <= Capacity
  BY <1>2, <1>4, Zenon DEF IInv, TypeOK
<1>7. ASSUME NEW d \in Classes PROVE accepted'[d] = finished'[d] \o InHand(d)' \o queue'[d]
  <2>0. accepted[d] = finished[d] \o InHand(d) \o queue[d] /\ InHand(d) = <<>>
    BY Zenon DEF IInv, AcceptedInOrder, InHand, HoldingPoints
  <2>1. CASE d = c
    <3>1. InHand(c)' = <<Head(queue[c])>>
      BY <1>3, Zenon DEF InHand, HoldingPoints
    <3> DEFINE done == finished[c]
               left == queue[c]
    <3>2. done \in Seq(Messages) /\ left \in Seq(Messages) /\ left # <<>>
      BY <1>1, Zenon
    <3> HIDE DEF done, left
    <3>3. (done \o <<>>) \o left = (done \o <<Head(left)>>) \o Tail(left)
      BY ONLY <3>2
    <3> QED BY <2>0, <2>1, <3>1, <3>3, <1>4, Zenon DEF done, left
  <2>2. CASE d # c
    <3>1. InHand(d)' = <<>> /\ queue'[d] = queue[d]
      BY <2>2, <1>3, <1>4, Zenon DEF InHand
    <3> QED BY <3>1, <2>0, Zenon
  <2> QED BY <2>1, <2>2, Zenon
<1> QED BY <1>3, <1>4, <1>5, <1>6, <1>7, Zenon DEF AcceptedInOrder

\* pop_next preserves the invariant.
LEMMA PopsPreserve ==
  ASSUME IInv, PopSystem \/ PopUser
  PROVE  IInv'
<1> USE DEF IInv, StepTo, Elsewhere, callVars, history
<1> DEFINE Same == \A class \in Classes : InHand(class)' = InHand(class)
<1>0. Len(queue["user"]) \in Nat /\ Len(queue["system"]) \in Nat /\ Depth \in Nat
  BY LenProperties DEF TypeOK, Classes, Depth
<1>c. "user" \in Classes /\ "system" \in Classes
  BY Zenon DEF Classes
<1>1. CASE PopSystem /\ queue["system"] # <<>>
  <2> USE <1>1 DEF PopSystem
  <2>1. /\ loop \notin HoldingPoints /\ loop' \in HoldingPoints
        /\ loop = "popSystem" => loop' = "observe"
        /\ loop = "drainSystem" => loop' = "drainObserve"
    BY Zenon DEF HoldingPoints
  <2>2. /\ message' \in Messages
        /\ queue' \in [Classes -> Seq(Messages)]
        /\ \A d \in Classes : queue'[d] \in Seq(Of(d)) /\ Len(queue'[d]) <= Capacity
        /\ AcceptedInOrder'
    BY <1>c, <2>1, PopPreserves, Zenon
  <2>3. TypeOK'
    BY <2>2, Zenon DEF TypeOK, LoopPoints
  <2>4. CallsOK'
    BY Zenon DEF CallsOK
  <2>5. LoopOK' /\ ExitOK'
    BY <2>1, <2>2, Zenon DEF LoopOK, ExitOK, DrainPoints, HoldingPoints
  <2> QED BY <2>2, <2>3, <2>4, <2>5, Zenon
<1>2. CASE PopSystem /\ queue["system"] = <<>>
  <2> USE <1>2 DEF PopSystem
  <2>1. TypeOK'
    BY Zenon DEF TypeOK, LoopPoints
  <2>2. CallsOK'
    BY Zenon DEF CallsOK
  <2>3. LoopOK' /\ ExitOK'
    BY Zenon DEF LoopOK, ExitOK, DrainPoints, HoldingPoints
  <2>4. Same
    BY Zenon DEF InHand
  <2> QED BY <2>1, <2>2, <2>3, <2>4, LineUntouched, Zenon
<1>3. CASE PopUser /\ queue["user"] # <<>>
  <2> USE <1>3 DEF PopUser
  <2>1. /\ loop \notin HoldingPoints /\ loop' \in HoldingPoints
        /\ loop = "popUser" => loop' = "observe"
        /\ loop = "drainUser" => loop' = "drainObserve"
    BY Zenon DEF HoldingPoints
  <2>2. /\ message' \in Messages
        /\ queue' \in [Classes -> Seq(Messages)]
        /\ \A d \in Classes : queue'[d] \in Seq(Of(d)) /\ Len(queue'[d]) <= Capacity
        /\ AcceptedInOrder'
    BY <1>c, <2>1, PopPreserves, Zenon
  <2>3. TypeOK'
    BY <2>2, Zenon DEF TypeOK, LoopPoints
  <2>4. CallsOK'
    BY Zenon DEF CallsOK
  <2>5. LoopOK' /\ ExitOK'
    BY <2>1, <2>2, Zenon DEF LoopOK, ExitOK, DrainPoints, HoldingPoints
  <2> QED BY <2>2, <2>3, <2>4, <2>5, Zenon
<1>4. CASE PopUser /\ queue["user"] = <<>> /\ loop = "popUser"
  <2> USE <1>4 DEF PopUser, IterationEnds
  <2>1. loop' \in {"off", "wait", "check"} /\ (driver = "iteration" => loop' = "off")
    BY Zenon
  <2>2. TypeOK'
    BY <2>1, Zenon DEF TypeOK, LoopPoints
  <2>3. CallsOK'
    BY Zenon DEF CallsOK
  <2>4. LoopOK' /\ ExitOK'
    BY <2>1, Zenon DEF LoopOK, ExitOK, DrainPoints, HoldingPoints
  <2>5. Same
    BY <2>1, Zenon DEF InHand
  <2> QED BY <2>2, <2>3, <2>4, <2>5, LineUntouched, Zenon
<1>5. CASE PopUser /\ queue["user"] = <<>> /\ loop = "drainUser"
  <2> USE <1>5 DEF PopUser
  <2>0. metrics' \in Metrics
    <3>1. metrics' = [metrics EXCEPT !.depth = Depth] /\ metrics \in Metrics
      BY Zenon DEF TypeOK
    <3> QED BY ONLY <3>1, <1>0, MetricsFacts, Zenon
  <2>1. /\ loop' \in {"off", "exited"} /\ driver # "iteration"
        /\ loop' = "exited" => driver = "thread"
    BY Zenon DEF LoopOK, DrainPoints, TypeOK
  <2>2. TypeOK'
    BY <2>0, <2>1, Zenon DEF TypeOK, LoopPoints
  <2>3. CallsOK'
    BY Zenon DEF CallsOK
  <2>4. driver = "thread" => stopRequested /\ queue["system"] = <<>>
    BY Zenon DEF LoopOK, DrainPoints
  <2>a. ExitOK'
    BY <2>1, <2>4, Zenon DEF ExitOK, Classes
  <2>b. LoopOK'
    BY <2>1, Zenon DEF LoopOK, DrainPoints, HoldingPoints
  <2>5. Same
    BY <2>1, Zenon DEF InHand
  <2> QED BY <2>2, <2>3, <2>a, <2>b, <2>5, LineUntouched, Zenon
<1> QED BY <1>1, <1>2, <1>3, <1>4, <1>5, Zenon DEF PopUser

\* The work of a message returns or throws: it moves from the hand to what has
\* run.
LEMMA ReturnPreserves ==
  ASSUME IInv, WorkReturns \/ WorkThrows
  PROVE  IInv'
<1> USE DEF IInv, WorkReturns, WorkThrows, StepTo, Elsewhere, callVars
<1> DEFINE c == ClassOf(message)
<1>1. message \in Messages /\ c \in Classes
  BY ClassFacts, Zenon DEF LoopOK, HoldingPoints
<1>2. /\ finished[c] \in Seq(Messages) /\ queue[c] \in Seq(Messages)
      /\ Append(finished[c], message) \in Seq(Messages)
  BY <1>1, AppendProperties, Zenon DEF TypeOK
<1>3. \A d \in Classes : finished'[d] = IF d = c THEN Append(finished[c], message)
                                       ELSE finished[d]
  BY <1>1, Zenon DEF TypeOK
<1>4. /\ loop' \in {"count", "drainCount", "off"}
      /\ loop' = "drainCount" => loop = "drainWork"
      /\ loop' # "off" => message' = message
      /\ message' \in {message, NoMessage}
      /\ UNCHANGED <<queue, stopRequested, loopError, lifecycle, budget, pc, arg, driver>>
      /\ loop \in {"work", "drainWork"}
      /\ loop' = "count" => loop = "work"
  BY Zenon
<1>5. finished' \in [Classes -> Seq(Messages)]
  BY <1>1, <1>2, Zenon DEF TypeOK
<1>6. TypeOK'
  BY <1>4, <1>5, Zenon DEF TypeOK, LoopPoints
<1>7. CallsOK'
  <2>1. CallsOK
    BY Zenon
  <2> QED BY ONLY <1>4, <2>1, Zenon DEF CallsOK
<1>8. LoopOK' /\ ExitOK'
  <2>1. LoopOK /\ ExitOK
    BY Zenon
  <2> QED BY ONLY <1>4, <2>1, Zenon DEF LoopOK, ExitOK, DrainPoints, HoldingPoints
<1>9. ASSUME NEW d \in Classes PROVE accepted'[d] = finished'[d] \o InHand(d)' \o queue'[d]
  <2>0. accepted[d] = finished[d] \o InHand(d) \o queue[d] /\ InHand(d)' = <<>>
    BY <1>4, Zenon DEF AcceptedInOrder, InHand
  <2>1. CASE d = c
    <3>1. InHand(d) = <<message>>
      BY <2>1, Zenon DEF InHand
    <3> DEFINE done == finished[c]
               left == queue[c]
    <3>2. done \in Seq(Messages) /\ left \in Seq(Messages)
      BY <1>2, Zenon
    <3> HIDE DEF done, left, c
    <3>3. (done \o <<message>>) \o left = (Append(done, message) \o <<>>) \o left
      BY ONLY <3>2, <1>1
    <3> QED BY <2>0, <2>1, <3>1, <3>3, <1>3, Zenon DEF done, left
  <2>2. CASE d # c
    <3>1. InHand(d) = <<>> /\ finished'[d] = finished[d]
      BY <2>2, <1>3, Zenon DEF InHand
    <3> QED BY <3>1, <2>0, Zenon
  <2> QED BY <2>1, <2>2, Zenon
<1> QED BY <1>6, <1>7, <1>8, <1>9, Zenon DEF AcceptedInOrder

\* Every step of a shard preserves the invariant.
LEMMA Inductive == IInv /\ [Next]_vars => IInv'
<1> SUFFICES ASSUME IInv, [Next]_vars PROVE IInv'
  BY Zenon
<1>1. CASE UNCHANGED vars
  <2> USE <1>1 DEF vars, callVars, loopVars, history
  <2>1. TypeOK'
    BY Zenon DEF IInv, TypeOK
  <2>2. CallsOK' /\ LoopOK' /\ ExitOK'
    BY Zenon DEF IInv, CallsOK, LoopOK, ExitOK
  <2>3. AcceptedInOrder'
    BY Zenon DEF IInv, AcceptedInOrder, InHand
  <2> QED BY <2>1, <2>2, <2>3, Zenon DEF IInv
<1>2. CASE Next
  BY <1>2, CallsPreserve, OwnerPreserves, LoopPreserves, PopsPreserve, ReturnPreserves, Zenon
  DEF Next, RunLoop
<1> QED BY <1>1, <1>2, Zenon

\* The invariant holds throughout.
LEMMA Invariance == Spec => []IInv
BY Initially, Inductive, PTL DEF Spec

\* The state of a shard keeps its type; the two queues never exceed queue_limit
\* and hold messages of their own class only.
THEOREM TypeCorrect == Spec => []TypeOK
BY Invariance, PTL DEF IInv

\* Whatever the interleaving of submitters, stops, restarts, manual iterations
\* and the loop, a shard loses, duplicates and reorders no message it accepted.
THEOREM RunInOrder == Spec => []AcceptedInOrder
BY Invariance, PTL DEF IInv

\* A loop that exits without an error has run every message ever accepted,
\* whichever submission raced the stop.
THEOREM DrainedOnExit == Spec => []CleanExitDrained
<1>1. IInv => CleanExitDrained
  BY DEF IInv, ExitOK, CleanExitDrained, Queued, RangeOf, Classes
<1> QED BY <1>1, Invariance, PTL
==============================================================================
