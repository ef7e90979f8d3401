---------------------------- MODULE Parts_proofs ----------------------------
(***************************************************************************)
(* The parts that have no thread of their own, for every value of the      *)
(* constants: the capacity of compute_executor and the promise of a        *)
(* reservation (ComputeExecutor), the order of a channel (Channel), of the *)
(* trampoline and of the schedulers it runs under (Trampoline), and of the *)
(* bytes of a stream (SocketStream), and who has which descriptor while    *)
(* connections are accepted (SocketSetup).                                 *)
(***************************************************************************)
EXTENDS Parts, FiniteSetTheorems, TLAPS

USE ComputeConstants

\* reserved_slots counts the armed reservations, and shares the limit with the
\* queue: neither alone is preserved by submit_reserved.
Inv == TypeOK /\ WithinCapacity /\ SlotsMatchReservations

------------------------------------------------------------------------------
\* A new executor.
LEMMA InvInit == Init => Inv
<1> SUFFICES ASSUME Init PROVE Inv
  BY Zenon
<1>1. <<>> \in Seq(Works) /\ Len(<<>>) = 0
  OBVIOUS
<1>2. WaiterLimit \in Nat
  BY Zenon DEF WaiterLimit
<1>3. TypeOK
  <2>1. capacityWaiters \in 0..WaiterLimit
    BY <1>2 DEF Init
  <2> QED
    BY <1>1, <2>1, Zenon DEF Init, TypeOK
<1>4. WithinCapacity
  BY <1>1 DEF Init, WithinCapacity
<1>5. SlotsMatchReservations
  BY FS_EmptySet, Zenon DEF Init, SlotsMatchReservations
<1> QED
  BY <1>3, <1>4, <1>5, Zenon DEF Inv

\* Every call keeps the types; the count of waiters is limited.
LEMMA TypeNext == TypeOK /\ [Next]_vars => TypeOK'
<1> SUFFICES ASSUME TypeOK, [Next]_vars PROVE TypeOK'
  BY Zenon
<1>0. WaiterLimit \in Nat
  BY Zenon DEF WaiterLimit
<1> USE <1>0 DEF TypeOK
<1>w. RecordCapacityWaiter => capacityWaiters' \in 0..WaiterLimit
  BY DEF RecordCapacityWaiter
<1>z. 0 \in 0..WaiterLimit
  OBVIOUS
<1>1. ASSUME NEW x \in Works, Submit(x) PROVE TypeOK'
  <2>1. CASE HasCapacity
    <3>1. Append(queue, x) \in Seq(Works) /\ Append(accepted, x) \in Seq(Works)
      OBVIOUS
    <3> QED
      BY <1>1, <1>z, <2>1, <3>1, Zenon DEF Submit, Enqueue
  <2>2. CASE ~HasCapacity
    BY <1>1, <1>w, <2>2, Zenon DEF Submit
  <2> QED
    BY <2>1, <2>2, Zenon
<1>2. ASSUME NEW r \in Holders, TryReserveCapacity(r) PROVE TypeOK'
  BY <1>2, <1>w, <1>z DEF TryReserveCapacity
<1>3. ASSUME NEW r \in Holders, Release(r) PROVE TypeOK'
  <2>1. CASE ~shuttingDown /\ reservedSlots # 0
    BY <1>3, <2>1 DEF Release
  <2>2. CASE ~(~shuttingDown /\ reservedSlots # 0)
    BY <1>3, <2>2, Zenon DEF Release
  <2> QED
    BY <2>1, <2>2, Zenon
<1>4. ASSUME NEW r \in Holders, NEW x \in Works, SubmitReserved(r, x) PROVE TypeOK'
  <2>0. Append(queue, x) \in Seq(Works) /\ Append(accepted, x) \in Seq(Works)
    OBVIOUS
  <2>1. CASE shuttingDown
    BY <1>4, <2>1, Zenon DEF SubmitReserved
  <2>2. CASE ~shuttingDown /\ (reservedSlots = 0 \/ Len(queue) >= Capacity)
    BY <1>4, <1>z, <2>2 DEF SubmitReserved
  <2>3. CASE ~shuttingDown /\ ~(reservedSlots = 0 \/ Len(queue) >= Capacity)
    <3>1. reservedSlots' = reservedSlots - 1 /\ reservedSlots - 1 \in Nat
      BY <1>4, <2>3 DEF SubmitReserved
    <3>2. queue' = Append(queue, x) /\ accepted' = Append(accepted, x) /\ capacityWaiters' = 0
      BY <1>4, <2>3, Zenon DEF SubmitReserved, Enqueue
    <3>3. active' \subseteq Holders /\ UNCHANGED <<shuttingDown, started>>
      BY <1>4, Zenon DEF SubmitReserved
    <3> QED
      BY <1>z, <2>0, <3>1, <3>2, <3>3, Zenon
  <2> QED
    BY <2>1, <2>2, <2>3, Zenon
<1>5. ASSUME RunOne PROVE TypeOK'
  <2>1. Head(queue) \in Works /\ Tail(queue) \in Seq(Works)
    BY <1>5 DEF RunOne
  <2> QED
    BY <1>5, <2>1 DEF RunOne
<1>6. ASSUME RequestShutdown PROVE TypeOK'
  BY <1>6 DEF RequestShutdown
<1>7. ASSUME UNCHANGED vars PROVE TypeOK'
  BY <1>7, Zenon DEF vars
<1> QED
  BY <1>1, <1>2, <1>3, <1>4, <1>5, <1>6, <1>7, Zenon DEF Next

\* Only an admission adds to the sum of queued and reserved, and has_capacity
\* found room for one more.
LEMMA CapacityNext == TypeOK /\ WithinCapacity /\ [Next]_vars => WithinCapacity'
<1> SUFFICES ASSUME TypeOK, WithinCapacity, [Next]_vars PROVE WithinCapacity'
  BY Zenon
<1> USE DEF TypeOK, WithinCapacity
<1>0. Len(queue) \in Nat
  OBVIOUS
<1>1. ASSUME NEW x \in Works, Submit(x) PROVE WithinCapacity'
  <2>1. CASE HasCapacity
    <3>1. queue' = Append(queue, x) /\ UNCHANGED <<reservedSlots, shuttingDown>>
      BY <1>1, <2>1, Zenon DEF Submit, Enqueue
    <3>2. Len(queue') = Len(queue) + 1
      BY <3>1
    <3> QED
      BY <1>0, <2>1, <3>1, <3>2, <1>1 DEF HasCapacity, Submit
  <2>2. CASE ~HasCapacity
    BY <1>1, <2>2, Zenon DEF Submit
  <2> QED
    BY <2>1, <2>2, Zenon
<1>2. ASSUME NEW r \in Holders, TryReserveCapacity(r) PROVE WithinCapacity'
  <2>1. CASE HasCapacity
    BY <1>2, <1>0, <2>1 DEF TryReserveCapacity, HasCapacity
  <2>2. CASE ~HasCapacity
    BY <1>2, <2>2, Zenon DEF TryReserveCapacity
  <2> QED
    BY <2>1, <2>2, Zenon
<1>3. ASSUME NEW r \in Holders, Release(r) PROVE WithinCapacity'
  BY <1>3, <1>0 DEF Release
<1>4. ASSUME NEW r \in Holders, NEW x \in Works, SubmitReserved(r, x) PROVE WithinCapacity'
  <2>1. CASE shuttingDown
    BY <1>4, <2>1, Zenon DEF SubmitReserved
  <2>2. CASE ~shuttingDown /\ (reservedSlots = 0 \/ Len(queue) >= Capacity)
    BY <1>4, <1>0, <2>2 DEF SubmitReserved
  <2>3. CASE ~shuttingDown /\ ~(reservedSlots = 0 \/ Len(queue) >= Capacity)
    <3>1. queue' = Append(queue, x) /\ reservedSlots' = reservedSlots - 1 /\ UNCHANGED shuttingDown
      BY <1>4, <2>3, Zenon DEF SubmitReserved, Enqueue
    <3>2. Len(queue') = Len(queue) + 1
      BY <3>1
    <3> QED
      BY <1>0, <2>3, <3>1, <3>2
  <2> QED
    BY <2>1, <2>2, <2>3, Zenon
<1>5. ASSUME RunOne PROVE WithinCapacity'
  <2>1. Len(Tail(queue)) = Len(queue) - 1
    BY <1>5 DEF RunOne
  <2> QED
    BY <1>5, <1>0, <2>1 DEF RunOne
<1>6. ASSUME RequestShutdown PROVE WithinCapacity'
  BY <1>6 DEF RequestShutdown
<1>7. ASSUME UNCHANGED vars PROVE WithinCapacity'
  BY <1>7, Zenon DEF vars
<1> QED
  BY <1>1, <1>2, <1>3, <1>4, <1>5, <1>6, <1>7, Zenon DEF Next

\* A reservation is armed and a slot reserved together, and both end together.
LEMMA SlotsNext ==
  TypeOK /\ WithinCapacity /\ SlotsMatchReservations /\ [Next]_vars => SlotsMatchReservations'
<1> SUFFICES ASSUME TypeOK, WithinCapacity, SlotsMatchReservations, [Next]_vars
             PROVE  SlotsMatchReservations'
  BY Zenon
<1>0. IsFiniteSet(active) /\ Cardinality(active) \in Nat
  BY FS_Subset, FS_CardinalityType, Zenon DEF TypeOK
<1>a. ASSUME NEW r \in active PROVE Cardinality(active \ {r}) = Cardinality(active) - 1 /\ Cardinality(active) # 0
  BY <1>0, FS_RemoveElement, FS_EmptySet, Zenon
<1> USE DEF SlotsMatchReservations
<1>1. ASSUME NEW x \in Works, Submit(x) PROVE SlotsMatchReservations'
  BY <1>1, Zenon DEF Submit
<1>2. ASSUME NEW r \in Holders, TryReserveCapacity(r) PROVE SlotsMatchReservations'
  <2>1. CASE HasCapacity
    <3>1. Cardinality(active \cup {r}) = Cardinality(active) + 1
      BY <1>2, <1>0, FS_AddElement, Zenon DEF TryReserveCapacity
    <3> QED
      BY <1>2, <2>1, <3>1, Zenon DEF TryReserveCapacity
  <2>2. CASE ~HasCapacity
    BY <1>2, <2>2, Zenon DEF TryReserveCapacity
  <2> QED
    BY <2>1, <2>2, Zenon
<1>3. ASSUME NEW r \in Holders, Release(r) PROVE SlotsMatchReservations'
  BY <1>3, <1>a, Zenon DEF Release
<1>4. ASSUME NEW r \in Holders, NEW x \in Works, SubmitReserved(r, x) PROVE SlotsMatchReservations'
  <2>1. CASE shuttingDown
    BY <1>4, <2>1, Zenon DEF SubmitReserved
  <2>2. CASE ~shuttingDown /\ (reservedSlots = 0 \/ Len(queue) >= Capacity)
    BY <1>4, <2>2, Zenon DEF SubmitReserved
  <2>3. CASE ~shuttingDown /\ ~(reservedSlots = 0 \/ Len(queue) >= Capacity)
    <3>1. r \in active /\ active' = active \ {r} /\ reservedSlots' = reservedSlots - 1
      BY <1>4, <2>3, Zenon DEF SubmitReserved
    <3> QED
      BY <1>a, <2>3, <3>1, Zenon
  <2> QED
    BY <2>1, <2>2, <2>3, Zenon
<1>5. ASSUME RunOne PROVE SlotsMatchReservations'
  BY <1>5, Zenon DEF RunOne
<1>6. ASSUME RequestShutdown PROVE SlotsMatchReservations'
  BY <1>6, Zenon DEF RequestShutdown
<1>7. ASSUME UNCHANGED vars PROVE SlotsMatchReservations'
  BY <1>7, Zenon DEF vars
<1> QED
  BY <1>1, <1>2, <1>3, <1>4, <1>5, <1>6, <1>7, Zenon DEF Next

------------------------------------------------------------------------------
\* The invariant holds in every reachable state.
LEMMA Invariance == Spec => []Inv
<1>1. Inv /\ [Next]_vars => Inv'
  BY TypeNext, CapacityNext, SlotsNext, Zenon DEF Inv
<1> QED
  BY InvInit, <1>1, PTL DEF Spec

\* Queued work and reserved slots never exceed queue_limit together.
THEOREM CapacityRespected == Spec => []WithinCapacity
<1>1. Inv => WithinCapacity
  BY Zenon DEF Inv
<1> QED
  BY Invariance, <1>1, PTL

\* No slot leaks and none is given back twice.
THEOREM SlotsMatch == Spec => []SlotsMatchReservations
<1>1. Inv => SlotsMatchReservations
  BY Zenon DEF Inv
<1> QED
  BY Invariance, <1>1, PTL

\* submit_reserved finds the slot its reservation promises.
THEOREM Honoured == Spec => []ReservationHonoured
<1>1. Inv => ReservationHonoured
  <2> SUFFICES ASSUME Inv, active # {}, ~shuttingDown PROVE reservedSlots # 0 /\ Len(queue) < Capacity
    BY Zenon DEF ReservationHonoured
  <2>1. IsFiniteSet(active)
    BY FS_Subset, Zenon DEF Inv, TypeOK
  <2>2. reservedSlots # 0
    BY <2>1, FS_EmptySet, Zenon DEF Inv, SlotsMatchReservations
  <2>3. Len(queue) \in Nat /\ reservedSlots \in Nat
    BY DEF Inv, TypeOK
  <2> QED
    BY <2>2, <2>3 DEF Inv, WithinCapacity
<1> QED
  BY Invariance, <1>1, PTL
------------------------------------------------------------------------------
(* channel: Channel, with a buffer. *)

\* What was received are the first values that were accepted, the buffer holds
\* the rest, and the rendezvous slot of a channel that buffers stays empty.
ChannelInv ==
  /\ rendezvous = <<>>
  /\ buffer \in Seq(Nat) /\ received \in Seq(Nat) /\ sent \in Nat
  /\ Len(received) + Len(buffer) = sent
  /\ \A n \in 1..Len(received) : received[n] = n
  /\ \A n \in 1..Len(buffer) : buffer[n] = Len(received) + n

\* send appends the next number, receive moves the front of the buffer to the
\* end of what was received, and close changes neither.
LEMMA ChannelNext == Capacity # 0 /\ ChannelInv /\ [B!Next]_(B!vars) => ChannelInv'
<1> SUFFICES ASSUME Capacity # 0, ChannelInv, [B!Next]_(B!vars) PROVE ChannelInv'
  BY Zenon
<1> USE DEF ChannelInv
<1>1. CASE B!Send
  <2>1. CASE Len(buffer) >= Capacity
    <3>1. UNCHANGED <<buffer, rendezvous, sent, received>>
      BY <1>1, <2>1, Zenon DEF B!Send, B!SenderWaits
    <3> QED
      BY <3>1, Zenon
  <2>2. CASE ~(Len(buffer) >= Capacity)
    <3>1. buffer' = Append(buffer, sent + 1) /\ sent' = sent + 1 /\ UNCHANGED <<rendezvous, received>>
      BY <1>1, <2>2, Zenon DEF B!Send
    <3>2. Len(buffer') = Len(buffer) + 1 /\ buffer' \in Seq(Nat)
      BY <3>1
    <3>3. ASSUME NEW n \in 1..Len(buffer') PROVE buffer'[n] = Len(received) + n
      <4>1. CASE n = Len(buffer) + 1
        <5>1. buffer'[n] = sent + 1
          BY <3>1, <4>1
        <5> QED
          BY <4>1, <5>1
      <4>2. CASE n # Len(buffer) + 1
        <5>1. n \in 1..Len(buffer) /\ buffer'[n] = buffer[n]
          BY <3>1, <3>2, <4>2
        <5> QED
          BY <5>1, Zenon
      <4> QED
        BY <4>1, <4>2, Zenon
    <3> QED
      BY <3>1, <3>2, <3>3
  <2> QED
    BY <2>1, <2>2, Zenon
<1>2. CASE B!Receive
  <2>1. CASE buffer # <<>>
    <3>1. received' = Append(received, Head(buffer)) /\ buffer' = Tail(buffer)
          /\ UNCHANGED <<rendezvous, sent>>
      BY <1>2, <2>1, Zenon DEF B!Receive
    <3>2. Len(buffer) >= 1 /\ Head(buffer) = Len(received) + 1
      BY <2>1
    <3>3. /\ received' \in Seq(Nat) /\ Len(received') = Len(received) + 1
          /\ buffer' \in Seq(Nat) /\ Len(buffer') = Len(buffer) - 1
      BY <2>1, <3>1, <3>2
    <3>4. ASSUME NEW n \in 1..Len(received') PROVE received'[n] = n
      BY <3>1, <3>2, <3>3
    <3>5. ASSUME NEW n \in 1..Len(buffer') PROVE buffer'[n] = Len(received') + n
      <4>1. buffer'[n] = buffer[n + 1] /\ n + 1 \in 1..Len(buffer)
        BY <2>1, <3>1, <3>3
      <4> QED
        BY <3>3, <4>1
    <3>6. Len(received') + Len(buffer') = sent'
      <4>1. Len(received) \in Nat /\ Len(buffer) \in Nat /\ Len(received) + Len(buffer) = sent
        OBVIOUS
      <4> QED
        BY ONLY <3>1, <3>3, <4>1
    <3> QED
      BY <3>1, <3>3, <3>4, <3>5, <3>6, Zenon
  <2>2. CASE buffer = <<>>
    <3>1. UNCHANGED <<buffer, rendezvous, sent, received>>
      BY <1>2, <2>2, Zenon DEF B!Receive
    <3> QED
      BY <3>1, Zenon
  <2> QED
    BY <2>1, <2>2, Zenon
<1>3. CASE B!Close
  BY <1>3, Zenon DEF B!Close
<1>4. CASE UNCHANGED B!vars
  BY <1>4, Zenon DEF B!vars
<1> QED
  BY <1>1, <1>2, <1>3, <1>4, Zenon DEF B!Next

\* Put together, the parts are the numbers from 1 to sent.
LEMMA ChannelFifo == ChannelInv => Fifo
<1> SUFFICES ASSUME ChannelInv PROVE Fifo
  BY Zenon
<1> DEFINE all == (received \o rendezvous) \o buffer
<1>1. received \o rendezvous = received
  BY DEF ChannelInv
<1>2. all \in Seq(Nat) /\ Len(all) = sent
  BY <1>1 DEF ChannelInv
<1>3. ASSUME NEW n \in 1..sent PROVE all[n] = n
  <2>1. CASE n <= Len(received)
    BY <1>1, <2>1 DEF ChannelInv
  <2>2. CASE n > Len(received)
    <3>1. all[n] = buffer[n - Len(received)] /\ n - Len(received) \in 1..Len(buffer)
      BY <1>1, <2>2 DEF ChannelInv
    <3> QED
      BY <3>1 DEF ChannelInv
  <2> QED
    BY <2>1, <2>2 DEF ChannelInv
<1> HIDE DEF all
<1>5. all \in [1..sent -> Nat]
  BY ONLY <1>2
<1>6. all = [n \in 1..sent |-> n]
  BY <1>3, <1>5, Zenon
<1> QED
  BY <1>6, Zenon DEF Fifo, B!Fifo, all

\* A channel that buffers delivers everything send accepted, in order and once,
\* for every capacity but 0 and however sends, receives and a close interleave.
THEOREM ChannelInOrder ==
  ASSUME Capacity # 0
  PROVE  B!Spec => []Fifo
<1>1. B!Init => ChannelInv
  BY DEF B!Init, ChannelInv
<1>2. ChannelInv /\ [B!Next]_(B!vars) => ChannelInv'
  BY ChannelNext, Zenon
<1> QED
  BY <1>1, <1>2, ChannelFifo, PTL DEF B!Spec

------------------------------------------------------------------------------
(* trampoline, schedulers: Trampoline. *)

\* What is waiting to be invoked are continuations.
ReadyOK == unused \subseteq Items /\ ready \in [T!Queued -> Seq(Items)]

StackTypes ==
  /\ draining \in BOOLEAN /\ escaped \in BOOLEAN
  /\ deferred \in Seq(Wrapped) /\ reached \in Seq(Wrapped) /\ begun \in Seq(Wrapped)
  /\ stack \in Seq(T!Frame)

\* The flag is up while a trampolined body is on the stack, which at most one
\* is, and without an exception only then; nothing is deferred while it is down.
OneDrainer ==
  /\ \A j, k \in 1..Len(stack) : stack[j].item \in Wrapped /\ stack[k].item \in Wrapped => j = k
  /\ ~draining => deferred = <<>> /\ \A k \in 1..Len(stack) : stack[k].item \notin Wrapped
  /\ draining /\ ~escaped => \E k \in 1..Len(stack) : stack[k].item \in Wrapped

\* Each scope saved what the body below it sees, and the topmost is current.
ScopesNest ==
  /\ \A k \in 1..Len(stack) : stack[k].saved = IF k = 1 THEN NoScheduler ELSE stack[k - 1].seen
  /\ current = IF stack = <<>> THEN NoScheduler ELSE stack[Len(stack)].seen

InOrderOK == reached = begun \o deferred

StackOK == StackTypes /\ OneDrainer /\ ScopesNest /\ InOrderOK

TrampolineInv == ReadyOK /\ StackOK

\* Sequences with the same entries are the same.
LEMMA SameEntries ==
  ASSUME NEW X, NEW s \in Seq(X), NEW t \in Seq(X), Len(s) = Len(t),
         \A n \in 1..Len(s) : s[n] = t[n]
  PROVE  s = t
<1>1. s \in [1..Len(s) -> X] /\ t \in [1..Len(s) -> X]
  OBVIOUS
<1> QED
  BY <1>1

\* One entry of a sequence replaced.
LEMMA Replaced ==
  ASSUME NEW X, NEW s \in Seq(X), NEW i \in 1..Len(s), NEW e \in X
  PROVE  /\ [s EXCEPT ![i] = e] \in Seq(X) /\ Len([s EXCEPT ![i] = e]) = Len(s)
         /\ \A n \in 1..Len(s) : [s EXCEPT ![i] = e][n] = IF n = i THEN e ELSE s[n]
OBVIOUS

\* A continuation at the end of what is deferred, and one at its front that
\* begins, leave the order of everything that was reached.
LEMMA OrderFacts ==
  ASSUME NEW X, NEW b \in Seq(X), NEW d \in Seq(X), NEW i \in X
  PROVE  /\ Append(b \o d, i) = b \o Append(d, i)
         /\ Append(b \o <<>>, i) = Append(b, i) \o <<>>
         /\ d # <<>> => b \o d = Append(b, Head(d)) \o Tail(d)
<1>1. Append(b \o d, i) = b \o Append(d, i)
  <2>1. b \o d \in Seq(X) /\ Append(b \o d, i) \in Seq(X) /\ b \o Append(d, i) \in Seq(X)
    OBVIOUS
  <2>2. Len(Append(b \o d, i)) = Len(b \o Append(d, i))
    OBVIOUS
  <2>3. \A n \in 1..Len(Append(b \o d, i)) : Append(b \o d, i)[n] = (b \o Append(d, i))[n]
    OBVIOUS
  <2> QED
    BY <2>1, <2>2, <2>3, SameEntries, Zenon
<1>2. Append(b \o <<>>, i) = Append(b, i) \o <<>>
  OBVIOUS
<1>3. ASSUME d # <<>> PROVE b \o d = Append(b, Head(d)) \o Tail(d)
  <2>1. b \o d \in Seq(X) /\ Append(b, Head(d)) \o Tail(d) \in Seq(X)
    BY <1>3
  <2>2. Len(b \o d) = Len(Append(b, Head(d)) \o Tail(d))
    BY <1>3
  <2>3. \A n \in 1..Len(b \o d) : (b \o d)[n] = (Append(b, Head(d)) \o Tail(d))[n]
    BY <1>3
  <2> QED
    BY <2>1, <2>2, <2>3, SameEntries, Zenon
<1> QED
  BY <1>1, <1>2, <1>3, Zenon

\* The current scheduler is one, or none.
LEMMA CurrentType == StackOK => current \in T!Schedulers \cup {NoScheduler}
<1> SUFFICES ASSUME StackOK PROVE current \in T!Schedulers \cup {NoScheduler}
  BY Zenon
<1>1. CASE stack = <<>>
  BY <1>1, Zenon DEF StackOK, ScopesNest
<1>2. CASE stack # <<>>
  <2>1. stack[Len(stack)] \in T!Frame
    BY <1>2 DEF StackOK, StackTypes
  <2>2. stack[Len(stack)].seen \in T!Schedulers \cup {NoScheduler}
    BY <2>1, Zenon DEF T!Frame
  <2> QED
    BY <1>2, <2>2, Zenon DEF StackOK, ScopesNest
<1> QED
  BY <1>1, <1>2, Zenon

\* Invoking a continuation under a scheduler keeps the stack in order, whether
\* it begins or is deferred.
LEMMA RunKeeps ==
  ASSUME StackOK, NEW i \in Items, NEW s \in T!Schedulers \cup {NoScheduler},
         T!RunContinuation(i, s)
  PROVE  StackOK'
<1> USE TrampolineConstants
<1>1. CASE i \in Wrapped /\ draining
  <2>1. /\ reached' = Append(reached, i) /\ deferred' = Append(deferred, i)
        /\ UNCHANGED <<draining, stack, current, begun, escaped>>
    BY <1>1, Zenon DEF T!RunContinuation, T!IfWrapped
  <2>2. InOrderOK'
    BY <1>1, <2>1, OrderFacts DEF StackOK, StackTypes, InOrderOK
  <2>3. StackTypes'
    BY <1>1, <2>1 DEF StackOK, StackTypes
  <2>4. OneDrainer' /\ ScopesNest'
    BY <1>1, <2>1, Zenon DEF StackOK, OneDrainer, ScopesNest
  <2> QED
    BY <2>2, <2>3, <2>4, Zenon DEF StackOK
<1>2. CASE ~(i \in Wrapped /\ draining)
  <2> DEFINE f == [item |-> i, saved |-> current, seen |-> s]
  <2>1. /\ stack' = Append(stack, f) /\ current' = s
        /\ draining' = (draining \/ i \in Wrapped) /\ UNCHANGED <<deferred, escaped>>
    BY <1>2, Zenon DEF T!RunContinuation, T!Begin
  <2>2. /\ reached' = IF i \in Wrapped THEN Append(reached, i) ELSE reached
        /\ begun' = IF i \in Wrapped THEN Append(begun, i) ELSE begun
    BY <1>2, Zenon DEF T!RunContinuation, T!Begin, T!IfWrapped
  <2>3. i \in Wrapped => deferred = <<>> /\ ~draining
    BY <1>2, Zenon DEF StackOK, OneDrainer
  <2>4. current \in T!Schedulers \cup {NoScheduler}
    BY CurrentType, Zenon
  <2>5. f \in T!Frame
    BY <2>4, Zenon DEF T!Frame
  <2>6. stack' \in Seq(T!Frame) /\ Len(stack') = Len(stack) + 1 /\ Len(stack) \in Nat
    BY <2>1, <2>5 DEF StackOK, StackTypes
  <2>7. stack'[Len(stack) + 1] = f /\ \A k \in 1..Len(stack) : stack'[k] = stack[k]
    BY <2>1, <2>5 DEF StackOK, StackTypes
  <2>8. f.item = i /\ f.saved = current /\ f.seen = s
    BY Zenon
  <2> HIDE DEF f
  <2>9. StackTypes'
    <3>1. draining' \in BOOLEAN
      BY <2>1, Zenon
    <3> QED
      BY <2>1, <2>2, <2>6, <3>1 DEF StackOK, StackTypes
  <2>10. InOrderOK'
    <3>1. CASE i \in Wrapped
      BY <2>1, <2>2, <2>3, <3>1, OrderFacts, ZenonT(60) DEF StackOK, StackTypes, InOrderOK
    <3>2. CASE i \notin Wrapped
      BY <2>1, <2>2, <3>2, Zenon DEF StackOK, InOrderOK
    <3> QED
      BY <3>1, <3>2, Zenon
  <2>11. OneDrainer'
    <3>1. \A k \in 1..Len(stack') : k \in 1..Len(stack) \/ k = Len(stack) + 1
      BY <2>6
    <3>2. \A k \in 1..Len(stack) : k \in 1..Len(stack')
      BY <2>6
    <3>3. Len(stack) + 1 \in 1..Len(stack')
      BY <2>6
    <3> QED
      BY <2>1, <2>3, <2>7, <2>8, <3>1, <3>2, <3>3, ZenonT(60) DEF StackOK, OneDrainer
  <2>12. ScopesNest'
    <3>1. current' = stack'[Len(stack')].seen /\ stack' # <<>>
      BY <2>1, <2>6, <2>7, <2>8
    <3>2. ASSUME NEW k \in 1..Len(stack')
          PROVE  stack'[k].saved = IF k = 1 THEN NoScheduler ELSE stack'[k - 1].seen
      <4>1. CASE k \in 1..Len(stack)
        BY <2>7, <4>1 DEF StackOK, ScopesNest
      <4>2. CASE k = Len(stack) + 1
        <5>1. stack = <<>> <=> Len(stack) = 0
          BY DEF StackOK, StackTypes
        <5> QED
          BY <2>6, <2>7, <2>8, <4>2, <5>1 DEF StackOK, ScopesNest
      <4> QED
        BY <2>6, <4>1, <4>2
    <3> QED
      BY <3>1, <3>2, Zenon DEF ScopesNest
  <2> QED
    BY <2>9, <2>10, <2>11, <2>12, Zenon DEF StackOK
<1> QED
  BY <1>1, <1>2, Zenon

\* The lower part of the stack, which a return or a throw leaves.
LEMMA StackBelow ==
  ASSUME StackTypes, NEW n \in 1..Len(stack)
  PROVE  LET below == SubSeq(stack, 1, n - 1)
         IN  /\ below \in Seq(T!Frame) /\ Len(below) = n - 1
             /\ \A k \in 1..(n - 1) : below[k] = stack[k]
BY DEF StackTypes

\* The scope of the n-th body saved what the body below it sees.
LEMMA ScopesBelow ==
  ASSUME StackTypes, ScopesNest, NEW n \in 1..Len(stack),
         stack' \in Seq(T!Frame), Len(stack') = n - 1,
         \A k \in 1..(n - 1) : stack'[k] = stack[k],
         current' = stack[n].saved
  PROVE  ScopesNest'
<1>1. Len(stack) \in Nat
  BY DEF StackTypes
<1>2. ASSUME NEW k \in 1..Len(stack')
      PROVE  stack'[k].saved = IF k = 1 THEN NoScheduler ELSE stack'[k - 1].seen
  <2>1. k \in 1..Len(stack) /\ stack'[k] = stack[k] /\ (k # 1 => stack'[k - 1] = stack[k - 1])
    BY <1>1
  <2> QED
    BY <2>1, Zenon DEF ScopesNest
<1>3. current' = IF stack' = <<>> THEN NoScheduler ELSE stack'[Len(stack')].seen
  <2>1. stack' = <<>> <=> n = 1
    OBVIOUS
  <2>2. n # 1 => stack'[Len(stack')] = stack[n - 1]
    BY <1>1
  <2> QED
    BY <2>1, <2>2, Zenon DEF ScopesNest
<1> QED
  BY <1>2, <1>3, Zenon DEF ScopesNest

\* The body that returns hands its frame to the next deferred one, or its scope
\* ends and the body below it goes on.
LEMMA ReturnKeeps == StackOK /\ T!Return => StackOK'
<1> SUFFICES ASSUME StackOK, T!Return PROVE StackOK'
  BY Zenon
<1> USE TrampolineConstants
<1> DEFINE last == Len(stack)
<1>0. stack # <<>> /\ last \in Nat /\ last # 0 /\ last \in 1..last /\ UNCHANGED <<escaped, reached>>
  BY DEF T!Return, StackOK, StackTypes
<1>t. stack[last] \in T!Frame
  BY <1>0 DEF StackOK, StackTypes
<1>1. CASE stack[last].item \in Wrapped /\ deferred # <<>>
  <2> DEFINE i == Head(deferred)
             g == [stack[last] EXCEPT !.item = i]
  <2>1. /\ stack' = [stack EXCEPT ![last].item = i] /\ begun' = Append(begun, i)
        /\ deferred' = Tail(deferred) /\ UNCHANGED <<draining, current>>
    BY <1>1, Zenon DEF T!Return, T!Top
  <2>2. i \in Wrapped /\ Tail(deferred) \in Seq(Wrapped)
    BY <1>1 DEF StackOK, StackTypes
  <2>3. g \in T!Frame /\ g.item = i /\ g.saved = stack[last].saved /\ g.seen = stack[last].seen
    BY <1>t, <2>2, Zenon DEF T!Frame
  <2>4. stack' = [stack EXCEPT ![last] = g]
    BY <2>1, Zenon
  <2> HIDE DEF g, i
  <2>5. /\ stack' \in Seq(T!Frame) /\ Len(stack') = last
        /\ \A k \in 1..last : stack'[k] = IF k = last THEN g ELSE stack[k]
    BY <1>0, <2>3, <2>4, Replaced DEF StackOK, StackTypes
  <2>6. stack' # <<>>
    BY <1>0, <2>5, Zenon
  <2> HIDE DEF last
  <2>7. StackTypes'
    BY <1>0, <2>1, <2>2, <2>5 DEF StackOK, StackTypes
  <2>8. \A k \in 1..last : /\ stack'[k].item \in Wrapped <=> stack[k].item \in Wrapped
                           /\ stack'[k].saved = stack[k].saved /\ stack'[k].seen = stack[k].seen
    BY <1>1, <2>2, <2>3, <2>5, Zenon
  <2>9. OneDrainer'
    <3>1. draining
      BY <1>0, <1>1, Zenon DEF StackOK, OneDrainer, last
    <3> QED
      BY <1>0, <2>1, <2>5, <2>8, <3>1, ZenonT(60) DEF StackOK, OneDrainer, last
  <2>10. ScopesNest'
    <3>1. current' = stack'[Len(stack')].seen
      BY <1>0, <2>1, <2>5, <2>8, ZenonT(60) DEF StackOK, ScopesNest, last
    <3>2. ASSUME NEW k \in 1..last
          PROVE  stack'[k].saved = IF k = 1 THEN NoScheduler ELSE stack'[k - 1].seen
      <4>1. k # 1 => k - 1 \in 1..last
        BY <1>0
      <4> QED
        BY <2>8, <4>1, Zenon DEF StackOK, ScopesNest, last
    <3> QED
      BY <2>5, <2>6, <3>1, <3>2, Zenon DEF ScopesNest
  <2>11. InOrderOK'
    BY <1>0, <1>1, <2>1, OrderFacts, ZenonT(60) DEF StackOK, StackTypes, InOrderOK, i
  <2> QED
    BY <2>7, <2>9, <2>10, <2>11, Zenon DEF StackOK
<1>2. CASE ~(stack[last].item \in Wrapped /\ deferred # <<>>)
  <2>1. /\ stack' = SubSeq(stack, 1, last - 1) /\ current' = stack[last].saved
        /\ draining' = (draining /\ stack[last].item \notin Wrapped) /\ UNCHANGED <<deferred, begun>>
    BY <1>2, Zenon DEF T!Return, T!Top
  <2>2. /\ stack' \in Seq(T!Frame) /\ Len(stack') = last - 1
        /\ \A k \in 1..(last - 1) : stack'[k] = stack[k]
    BY <1>0, <2>1, StackBelow, Zenon DEF StackOK
  <2> HIDE DEF last
  <2>3. StackTypes'
    <3>1. draining' \in BOOLEAN
      BY <2>1, Zenon
    <3> QED
      BY <1>0, <2>1, <2>2, <3>1, Zenon DEF StackOK, StackTypes
  <2>4. OneDrainer'
    <3>1. \A k \in 1..Len(stack') : k \in 1..last /\ k # last /\ stack'[k] = stack[k]
      BY <1>0, <2>2
    <3>2. \A k \in 1..last : k = last \/ k \in 1..Len(stack')
      BY <1>0, <2>2
    <3>3. CASE stack[last].item \in Wrapped
      BY <1>0, <1>2, <2>1, <3>1, <3>3, ZenonT(60) DEF StackOK, OneDrainer, last
    <3>4. CASE stack[last].item \notin Wrapped
      BY <1>0, <2>1, <3>1, <3>2, <3>4, Zenon DEF StackOK, OneDrainer, last
    <3> QED
      BY <3>3, <3>4, Zenon
  <2>5. ScopesNest'
    BY <1>0, <2>1, <2>2, ScopesBelow, Zenon DEF StackOK, last
  <2>6. InOrderOK'
    BY <1>0, <2>1, Zenon DEF StackOK, InOrderOK
  <2> QED
    BY <2>3, <2>4, <2>5, <2>6, Zenon DEF StackOK
<1> QED
  BY <1>1, <1>2, Zenon

\* The exception leaves the bodies below the n-th, with the scheduler they see;
\* the flag and what is deferred stay as they were.
LEMMA ThrowKeeps == ASSUME StackOK, NEW n \in 1..Len(stack), T!Throw(n) PROVE StackOK'
<1>1. /\ stack' = SubSeq(stack, 1, n - 1) /\ current' = stack[n].saved
      /\ escaped' = (escaped \/ \E k \in n..Len(stack) : stack[k].item \in Wrapped)
      /\ UNCHANGED <<draining, deferred, reached, begun>>
  BY Zenon DEF T!Throw
<1>2. /\ stack' \in Seq(T!Frame) /\ Len(stack') = n - 1
      /\ \A k \in 1..(n - 1) : stack'[k] = stack[k]
  BY <1>1, StackBelow, Zenon DEF StackOK
<1>3. Len(stack) \in Nat
  BY DEF StackOK, StackTypes
<1>4. StackTypes'
  <2>1. escaped' \in BOOLEAN
    BY <1>1, Zenon
  <2> QED
    BY <1>1, <1>2, <2>1, Zenon DEF StackOK, StackTypes
<1>5. OneDrainer'
  <2>1. \A k \in 1..Len(stack') : k \in 1..Len(stack) /\ stack'[k] = stack[k]
    BY <1>2, <1>3
  <2>2. \A k \in 1..Len(stack) : k \in 1..Len(stack') \/ k \in n..Len(stack)
    BY <1>2, <1>3
  <2> QED
    BY <1>1, <2>1, <2>2, Zenon DEF StackOK, OneDrainer
<1>6. ScopesNest'
  BY <1>1, <1>2, ScopesBelow, Zenon DEF StackOK
<1>7. InOrderOK'
  BY <1>1, Zenon DEF StackOK, InOrderOK
<1> QED
  BY <1>4, <1>5, <1>6, <1>7, Zenon DEF StackOK

\* The invariant is inductive.
LEMMA TrampolineNext == TrampolineInv /\ [T!Next]_(T!vars) => TrampolineInv'
<1> SUFFICES ASSUME TrampolineInv, [T!Next]_(T!vars) PROVE TrampolineInv'
  BY Zenon
<1>0. ReadyOK /\ StackOK
  BY Zenon DEF TrampolineInv
<1>1. ASSUME NEW i \in Items, NEW s \in T!Queued, T!Schedule(i, s) PROVE TrampolineInv'
  <2>1. unused' = unused \ {i} /\ ready' = [ready EXCEPT ![s] = Append(@, i)]
        /\ UNCHANGED <<draining, deferred, stack, current, escaped, reached, begun>>
    BY <1>1, Zenon DEF T!Schedule
  <2>2. ReadyOK'
    BY <1>0, <2>1 DEF ReadyOK
  <2>3. StackOK'
    BY <1>0, <2>1, Zenon DEF StackOK, StackTypes, OneDrainer, ScopesNest, InOrderOK
  <2> QED
    BY <2>2, <2>3, Zenon DEF TrampolineInv
<1>2. ASSUME NEW i \in Items, T!ScheduleInline(i) PROVE TrampolineInv'
  <2>1. unused' = unused \ {i} /\ UNCHANGED ready /\ T!RunContinuation(i, current)
    BY <1>2, Zenon DEF T!ScheduleInline
  <2>2. ReadyOK'
    BY <1>0, <2>1, Zenon DEF ReadyOK
  <2>3. StackOK'
    BY <1>0, <2>1, CurrentType, RunKeeps, Zenon
  <2> QED
    BY <2>2, <2>3, Zenon DEF TrampolineInv
<1>3. ASSUME NEW s \in T!Queued, NEW seen \in T!Schedulers \cup {NoScheduler}, T!InvokeFront(s, seen)
      PROVE  TrampolineInv'
  <2>1. /\ ready[s] # <<>> /\ ready' = [ready EXCEPT ![s] = Tail(@)] /\ UNCHANGED unused
        /\ T!RunContinuation(Head(ready[s]), seen)
    BY <1>3, Zenon DEF T!InvokeFront
  <2>2. ready[s] \in Seq(Items)
    BY <1>0, Zenon DEF ReadyOK
  <2>3. Head(ready[s]) \in Items /\ Tail(ready[s]) \in Seq(Items)
    BY <2>1, <2>2
  <2>4. ReadyOK'
    BY <1>0, <2>1, <2>3, Zenon DEF ReadyOK
  <2>5. StackOK'
    BY <1>0, <2>1, <2>3, RunKeeps, Zenon
  <2> QED
    BY <2>4, <2>5, Zenon DEF TrampolineInv
<1>4. ASSUME NEW s \in Scoped, T!RunOne(s) PROVE TrampolineInv'
  BY <1>3, <1>4, Zenon DEF T!RunOne, T!Queued, T!Schedulers
<1>5. ASSUME NEW s \in Plain, T!RunOneTest(s) PROVE TrampolineInv'
  BY <1>0, <1>3, <1>5, CurrentType, Zenon DEF T!RunOneTest, T!Queued
<1>6. CASE T!Return
  <2>1. UNCHANGED <<unused, ready>>
    BY <1>6, Zenon DEF T!Return
  <2> QED
    BY <1>0, <1>6, <2>1, ReturnKeeps, Zenon DEF TrampolineInv, ReadyOK
<1>7. ASSUME NEW n \in 1..Len(stack), T!Throw(n) PROVE TrampolineInv'
  <2>1. UNCHANGED <<unused, ready>>
    BY <1>7, Zenon DEF T!Throw
  <2> QED
    BY <1>0, <1>7, <2>1, ThrowKeeps, Zenon DEF TrampolineInv, ReadyOK
<1>8. CASE UNCHANGED T!vars
  BY <1>0, <1>8, Zenon DEF T!vars, TrampolineInv, ReadyOK, StackOK, StackTypes, OneDrainer, ScopesNest, InOrderOK
<1> QED
  BY <1>1, <1>2, <1>4, <1>5, <1>6, <1>7, <1>8, ZenonT(60) DEF T!Next

\* Trampolined bodies do not nest and begin in the order they reached the
\* trampoline, and every body sees the scheduler it was entered under, for any
\* number of schedulers, continuations and nested calls that return or throw.
THEOREM TrampolineDrains == T!Spec => []DrainedInOrder
<1>1. T!Init => TrampolineInv
  <2> SUFFICES ASSUME T!Init PROVE TrampolineInv
    BY Zenon
  <2>1. /\ unused = Items /\ ready = [s \in T!Queued |-> <<>>] /\ draining = FALSE /\ deferred = <<>>
        /\ stack = <<>> /\ current = NoScheduler /\ escaped = FALSE /\ reached = <<>> /\ begun = <<>>
    BY Zenon DEF T!Init
  <2>2. \A X : <<>> \in Seq(X)
    OBVIOUS
  <2>3. ReadyOK
    BY <2>1, <2>2, Zenon DEF ReadyOK
  <2>4. StackTypes
    BY <2>1, <2>2, Zenon DEF StackTypes
  <2>5. Len(stack) = 0
    BY <2>1, Zenon
  <2>6. OneDrainer /\ ScopesNest
    BY <2>1, <2>5 DEF OneDrainer, ScopesNest
  <2>7. InOrderOK
    BY <2>1, <2>2 DEF InOrderOK
  <2> QED
    BY <2>3, <2>4, <2>6, <2>7, ZenonT(60) DEF TrampolineInv, StackOK
<1>2. TrampolineInv => DrainedInOrder
  <2> SUFFICES ASSUME TrampolineInv PROVE T!DrainedInOrder
    BY Zenon DEF DrainedInOrder
  <2> DEFINE drainers == {k \in DOMAIN stack : stack[k].item \in Wrapped}
  <2>1. DOMAIN stack = 1..Len(stack)
    BY DEF TrampolineInv, StackOK, StackTypes
  <2>2. T!Cardinality(drainers) <= 1
    <3>1. T!Cardinality(drainers) = Cardinality(drainers)
      BY Zenon DEF T!Cardinality, Cardinality
    <3>2. CASE drainers = {}
      <4>1. Cardinality(drainers) = 0
        BY <3>2, FS_EmptySet, Zenon
      <4> QED
        BY <3>1, <4>1
    <3>3. CASE drainers # {}
      <4>1. PICK k \in drainers : TRUE
        BY <3>3, Zenon
      <4>2. drainers = {k}
        BY <2>1, <4>1, Zenon DEF TrampolineInv, StackOK, OneDrainer
      <4> HIDE DEF drainers
      <4>3. Cardinality(drainers) = 1
        BY <4>2, FS_Singleton, Zenon
      <4> QED
        BY <3>1, <4>3
    <3> QED
      BY <3>2, <3>3, Zenon
  <2>3. ~escaped => (drainers # {} <=> draining) /\ (deferred # <<>> => draining)
    BY <2>1, Zenon DEF TrampolineInv, StackOK, OneDrainer
  <2>4. current = IF stack = <<>> THEN NoScheduler ELSE T!Top.seen
    BY Zenon DEF TrampolineInv, StackOK, ScopesNest, T!Top
  <2>5. reached = begun \o deferred
    BY Zenon DEF TrampolineInv, StackOK, InOrderOK
  <2> QED
    BY <2>2, <2>3, <2>4, <2>5, Zenon DEF T!DrainedInOrder
<1> QED
  BY <1>1, <1>2, TrampolineNext, PTL DEF T!Spec

------------------------------------------------------------------------------
(* start_connect, finish_connect, accept_one: SocketSetup. *)

\* What a client was told fits the state of its connection; a handshake that
\* failed left the error until the client reads it.
Reported ==
  \A c \in Clients :
    /\ client[c] = "idle" => link[c] = "none"
    /\ link[c] = "pending" => client[c] = "waiting"
    /\ client[c] = "waiting" /\ link[c] = "down" => c \in soError
    /\ client[c] = "connected" => link[c] \in {"up", "none"}

\* A connection waits in the backlog or has descriptors, never both, and only
\* after it came up: the kernel hands out each connection once.
Placed ==
  /\ \A n \in 1..Len(backlog) : link[backlog[n]] = "up"
  /\ \A m, n \in 1..Len(backlog) : backlog[m] = backlog[n] => m = n
  /\ \A d \in C!Fds : fds[d] \in Clients =>
       link[fds[d]] = "up" /\ \A n \in 1..Len(backlog) : backlog[n] # fds[d]

\* A descriptor the caller has, or an accept_one that has not returned.
Held(d) ==
  \/ d \in owned
  \/ d = 0 /\ \E a \in Acceptors : pc[a] # "idle"
  \/ \E a \in Acceptors : pc[a] = "duplicated" /\ duplicate[a] = d

\* Exactly the descriptors of connections are held.
HeldOK == \A d \in C!Fds : fds[d] \in Clients <=> Held(d)

\* Descriptor 0 is never the caller's, and in the hands of one accept_one.
ZeroOK == 0 \notin owned /\ \A a, b \in Acceptors : pc[a] # "idle" /\ pc[b] # "idle" => a = b

\* The duplicate is another descriptor of the same connection.
DuplicateOK ==
  \A a \in Acceptors : pc[a] = "duplicated" =>
    duplicate[a] # 0 /\ duplicate[a] \notin owned /\ fds[duplicate[a]] = fds[0]

\* Only the two that accept_one is about to reduce to one share a connection.
SharedOK ==
  /\ \A d, e \in C!Fds \ {0} : fds[d] \in Clients /\ fds[d] = fds[e] => d = e
  /\ \A d \in C!Fds \ {0} : fds[d] \in Clients /\ fds[d] = fds[0] =>
       \E a \in Acceptors : pc[a] = "duplicated" /\ duplicate[a] = d

Hands == HeldOK /\ ZeroOK /\ DuplicateOK /\ SharedOK

SetupInv == C!TypeOK /\ Reported /\ Placed /\ Hands

\* The kernel finds the lowest free descriptor when there is one.
LEMMA LowestFree ==
  ASSUME NEW low \in Nat, C!FreeFrom(low) # {}
  PROVE  /\ C!Lowest(C!FreeFrom(low)) \in C!Fds /\ C!Lowest(C!FreeFrom(low)) >= low
         /\ fds[C!Lowest(C!FreeFrom(low))] = Free
<1> DEFINE F == C!FreeFrom(low)
<1>1. F \subseteq Nat /\ F # {}
  BY SetupConstants DEF C!FreeFrom, C!Fds
<1> HIDE DEF F
<1>2. PICK d \in F : \A e \in F : ~(<<e, d>> \in OpToRel(<, Nat))
  BY <1>1, NatLessThanWellFounded, WFMin, Zenon
<1>3. \A e \in F : d <= e
  <2> TAKE e \in F
  <2>1. d \in Nat /\ e \in Nat
    BY <1>1, Zenon
  <2>2. ~(e < d)
    BY <1>2, <2>1, Zenon DEF OpToRel
  <2> QED
    BY <2>1, <2>2
<1>4. C!Lowest(F) \in F
  BY <1>2, <1>3, Zenon DEF C!Lowest
<1> QED
  BY <1>4, Zenon DEF F, C!FreeFrom

\* A connection that comes up goes to the end of the backlog, others stay.
LEMMA ComesUp ==
  ASSUME SetupInv, NEW c \in Clients, link[c] # "up",
         \A e \in Clients \ {c} : link'[e] = link[e],
         backlog' = backlog \/ (backlog' = Append(backlog, c) /\ link'[c] = "up"),
         UNCHANGED <<fds, pc, duplicate, owned>>
  PROVE  Placed' /\ Hands' /\ backlog' \in Seq(Clients)
<1>1. Hands'
  BY ZenonT(60) DEF SetupInv, Hands, HeldOK, ZeroOK, DuplicateOK, SharedOK, Held
<1>2. backlog \in Seq(Clients) /\ Len(backlog) \in Nat
  BY DEF SetupInv, C!TypeOK
<1>3. \A n \in 1..Len(backlog) : backlog[n] \in Clients \ {c}
  BY <1>2 DEF SetupInv, Placed
<1>4. \A d \in C!Fds : fds[d] \in Clients => fds[d] # c
  BY Zenon DEF SetupInv, Placed
<1>5. CASE backlog' = backlog
  BY <1>2, <1>3, <1>4, <1>5, <1>1, ZenonT(60) DEF SetupInv, Placed
<1>6. CASE backlog' = Append(backlog, c) /\ link'[c] = "up"
  <2>1. backlog' \in Seq(Clients) /\ Len(backlog') = Len(backlog) + 1
    BY <1>2, <1>6
  <2>2. backlog'[Len(backlog) + 1] = c /\ \A n \in 1..Len(backlog) : backlog'[n] = backlog[n]
    BY <1>2, <1>6
  <2>3. \A n \in 1..Len(backlog') : n \in 1..Len(backlog) \/ n = Len(backlog) + 1
    BY <1>2, <2>1
  <2>4. Placed'
    BY <1>3, <1>4, <1>6, <2>2, <2>3, SMTT(60) DEF SetupInv, Placed
  <2> QED
    BY <1>1, <2>1, <2>4, Zenon
<1> QED
  BY <1>5, <1>6, Zenon

\* connect, the end of a handshake, and reading SO_ERROR.
LEMMA ConnectKeeps ==
  ASSUME SetupInv, NEW c \in Clients,
         \/ \E answer \in {"ok", "in_progress", "again", "refused"} : C!StartConnect(c, answer)
         \/ \E ok \in BOOLEAN : C!Handshake(c, ok)
         \/ C!FinishConnect(c)
  PROVE  SetupInv'
<1> USE DEF C!accepts
<1>t. /\ link \in [Clients -> {"none", "pending", "up", "down"}] /\ soError \subseteq Clients
      /\ client \in [Clients -> {"idle", "waiting", "connected", "failed"}]
      /\ Reported
  BY Zenon DEF SetupInv, C!TypeOK
<1>1. ASSUME NEW answer \in {"ok", "in_progress", "again", "refused"}, C!StartConnect(c, answer)
      PROVE  SetupInv'
  <2>1. link[c] = "none" /\ UNCHANGED <<soError, fds, pc, duplicate, owned>>
    BY <1>1, <1>t, Zenon DEF C!StartConnect, Reported
  <2>2. /\ link' \in [Clients -> {"none", "pending", "up", "down"}]
        /\ client' \in [Clients -> {"idle", "waiting", "connected", "failed"}]
        /\ \A e \in Clients \ {c} : link'[e] = link[e] /\ client'[e] = client[e]
    BY <1>1, <1>t, Zenon DEF C!StartConnect
  <2>3. backlog' = backlog \/ (backlog' = Append(backlog, c) /\ link'[c] = "up")
    BY <1>1, <1>t, Zenon DEF C!StartConnect
  <2>4. \/ link'[c] = "up" /\ client'[c] = "connected"
        \/ link'[c] = "pending" /\ client'[c] = "waiting"
        \/ link'[c] = "none" /\ client'[c] = "waiting"
        \/ link'[c] = "down" /\ client'[c] = "failed"
    BY <1>1, <1>t, Zenon DEF C!StartConnect
  <2>5. Reported'
    BY <1>t, <2>1, <2>2, <2>4, ZenonT(60) DEF Reported
  <2>6. Placed' /\ Hands' /\ backlog' \in Seq(Clients)
    BY <2>1, <2>2, <2>3, ComesUp, ZenonT(60)
  <2> QED
    BY <1>t, <2>1, <2>2, <2>5, <2>6, ZenonT(60) DEF SetupInv, C!TypeOK
<1>2. ASSUME NEW ok \in BOOLEAN, C!Handshake(c, ok) PROVE SetupInv'
  <2>1. link[c] = "pending" /\ client[c] = "waiting" /\ UNCHANGED <<client, fds, pc, duplicate, owned>>
    BY <1>2, <1>t, Zenon DEF C!Handshake, Reported
  <2>2. /\ link' \in [Clients -> {"none", "pending", "up", "down"}]
        /\ \A e \in Clients \ {c} : link'[e] = link[e] /\ (e \in soError' <=> e \in soError)
        /\ soError' \subseteq Clients
    BY <1>2, <1>t, Zenon DEF C!Handshake
  <2>3. backlog' = backlog \/ (backlog' = Append(backlog, c) /\ link'[c] = "up")
    BY <1>2, <1>t, Zenon DEF C!Handshake
  <2>4. link'[c] = "up" \/ (link'[c] = "down" /\ c \in soError')
    BY <1>2, <1>t, Zenon DEF C!Handshake
  <2>5. Reported'
    BY <1>t, <2>1, <2>2, <2>4, ZenonT(60) DEF Reported
  <2>6. Placed' /\ Hands' /\ backlog' \in Seq(Clients)
    BY <2>1, <2>2, <2>3, ComesUp, ZenonT(60)
  <2> QED
    BY <1>t, <2>1, <2>2, <2>5, <2>6, ZenonT(60) DEF SetupInv, C!TypeOK
<1>3. ASSUME C!FinishConnect(c) PROVE SetupInv'
  <2>1. /\ client[c] = "waiting" /\ link[c] # "pending" /\ soError' = soError \ {c}
        /\ client' = [client EXCEPT ![c] = IF c \in soError THEN "failed" ELSE "connected"]
        /\ UNCHANGED <<link, backlog, fds, pc, duplicate, owned>>
    BY <1>3, Zenon DEF C!FinishConnect, C!Writable
  <2>2. Reported'
    BY <1>t, <2>1, ZenonT(60) DEF Reported
  <2>3. Placed' /\ Hands'
    BY <2>1 DEF SetupInv, Placed, Hands, HeldOK, ZeroOK, DuplicateOK, SharedOK, Held
  <2> QED
    BY <1>t, <2>1, <2>2, <2>3, Zenon DEF SetupInv, C!TypeOK
<1> QED
  BY <1>1, <1>2, <1>3, Zenon

\* The front connection leaves the backlog, for a descriptor or for good.
LEMMA LeavesBacklog ==
  ASSUME SetupInv, backlog # <<>>
  PROVE  /\ Head(backlog) \in Clients /\ link[Head(backlog)] = "up"
         /\ Tail(backlog) \in Seq(Clients) /\ Len(Tail(backlog)) = Len(backlog) - 1
         /\ \A n \in 1..(Len(backlog) - 1) :
              n + 1 \in 1..Len(backlog) /\ Tail(backlog)[n] = backlog[n + 1]
                /\ Tail(backlog)[n] # Head(backlog)
         /\ \A d \in C!Fds : fds[d] # Head(backlog)
<1>1. backlog \in Seq(Clients) /\ Len(backlog) \in Nat /\ Len(backlog) # 0 /\ 1 \in 1..Len(backlog)
  BY DEF SetupInv, C!TypeOK
<1>2. Head(backlog) = backlog[1] /\ backlog[1] \in Clients
  BY <1>1
<1>3. Tail(backlog) \in Seq(Clients) /\ Len(Tail(backlog)) = Len(backlog) - 1
  BY <1>1
<1>4. ASSUME NEW n \in 1..(Len(backlog) - 1)
      PROVE  n + 1 \in 1..Len(backlog) /\ n + 1 # 1 /\ Tail(backlog)[n] = backlog[n + 1]
  BY <1>1
<1>5. \A n \in 1..(Len(backlog) - 1) : Tail(backlog)[n] # backlog[1]
  BY <1>1, <1>4, ZenonT(60) DEF SetupInv, Placed
<1>6. link[backlog[1]] = "up" /\ \A d \in C!Fds : fds[d] # backlog[1]
  BY <1>1, <1>2, Zenon DEF SetupInv, Placed
<1> QED
  BY <1>2, <1>3, <1>4, <1>5, <1>6, ZenonT(60)

\* Without its front the backlog still holds connections once.
LEMMA PlacedAfter ==
  ASSUME SetupInv, backlog # <<>>, backlog' = Tail(backlog), UNCHANGED link,
         \A d \in C!Fds : fds'[d] \in Clients => fds'[d] = fds[d] \/ fds'[d] = Head(backlog)
  PROVE  Placed' /\ backlog' \in Seq(Clients)
<1>1. /\ backlog' \in Seq(Clients) /\ Len(backlog') = Len(backlog) - 1
      /\ link[Head(backlog)] = "up"
  BY LeavesBacklog, Zenon
<1>2. \A n \in 1..Len(backlog') :
        n + 1 \in 1..Len(backlog) /\ backlog'[n] = backlog[n + 1] /\ backlog'[n] # Head(backlog)
  BY <1>1, LeavesBacklog, Zenon
<1>3. \A n \in 1..Len(backlog') : link'[backlog'[n]] = "up"
  BY <1>2 DEF SetupInv, Placed
<1>4. ASSUME NEW m \in 1..Len(backlog'), NEW n \in 1..Len(backlog'), backlog'[m] = backlog'[n]
      PROVE  m = n
  <2>1. m + 1 = n + 1
    BY <1>2, <1>4, ZenonT(60) DEF SetupInv, Placed
  <2>2. m \in Int /\ n \in Int
    OBVIOUS
  <2> QED
    BY ONLY <2>1, <2>2
<1>5. ASSUME NEW d \in C!Fds, fds'[d] \in Clients
      PROVE  link'[fds'[d]] = "up" /\ \A n \in 1..Len(backlog') : backlog'[n] # fds'[d]
  BY <1>1, <1>2, <1>5 DEF SetupInv, Placed
<1> QED
  BY <1>1, <1>3, <1>4, <1>5, Zenon DEF Placed

\* accept4 with any descriptor.
LEMMA AcceptKeeps == ASSUME SetupInv, NEW a \in Acceptors, C!Accept4(a) PROVE SetupInv'
<1> USE SetupConstants
<1>i. C!TypeOK /\ Reported /\ Placed /\ HeldOK /\ ZeroOK /\ DuplicateOK /\ SharedOK
  BY Zenon DEF SetupInv, Hands
<1> DEFINE h == Head(backlog)
           n == C!Lowest(C!FreeFrom(0))
<1>1. /\ pc[a] = "idle" /\ backlog # <<>> /\ C!FreeFrom(0) # {} /\ backlog' = Tail(backlog)
      /\ fds' = [fds EXCEPT ![n] = h] /\ UNCHANGED <<link, soError, client, duplicate>>
      /\ n # 0 => owned' = owned \cup {n} /\ UNCHANGED pc
      /\ n = 0 => pc' = [pc EXCEPT ![a] = "zero"] /\ UNCHANGED owned
  BY Zenon DEF C!Accept4, C!connects
<1>2. n \in C!Fds /\ fds[n] = Free
  BY <1>1, LowestFree, Zenon
<1>3. h \in Clients /\ \A d \in C!Fds : fds[d] # h
  BY <1>1, LeavesBacklog, Zenon
<1> HIDE DEF h, n
<1>t. /\ fds \in [C!Fds -> Clients \cup {Free, Other}] /\ owned \subseteq C!Fds
      /\ pc \in [Acceptors -> {"idle", "zero", "duplicated"}]
      /\ duplicate \in [Acceptors -> C!Fds] /\ 0 \in C!Fds
  BY <1>i DEF C!TypeOK, C!Fds
<1>4. fds'[n] = h /\ \A d \in C!Fds \ {n} : fds'[d] = fds[d]
  BY <1>1, <1>2, <1>t, Zenon
<1>5. Placed' /\ backlog' \in Seq(Clients)
  <2>1. backlog # <<>> /\ backlog' = Tail(backlog) /\ UNCHANGED link
    BY <1>1, Zenon
  <2> QED
    BY <1>4, <2>1, PlacedAfter, Zenon DEF h
<1>6. Reported'
  BY <1>1, <1>i, Zenon DEF Reported
<1>7. ~Held(n)
  BY <1>2, <1>i, Zenon DEF HeldOK
<1>8. CASE n # 0
  <2>1. owned' = owned \cup {n} /\ UNCHANGED <<pc, duplicate>>
    BY <1>1, <1>8, Zenon
  <2>2. HeldOK'
    <3>1. \A d \in C!Fds : Held(d)' <=> Held(d) \/ d = n
      BY <2>1, Zenon DEF Held
    <3> QED
      BY <1>3, <1>4, <1>i, <3>1, ZenonT(60) DEF HeldOK
  <2>3. ZeroOK'
    BY <1>8, <1>i, <2>1, Zenon DEF ZeroOK
  <2>4. DuplicateOK'
    <3>1. \A b \in Acceptors : pc[b] = "duplicated" => duplicate[b] # n
      BY <1>7, Zenon DEF Held
    <3> QED
      BY <1>4, <1>8, <1>i, <1>t, <2>1, <3>1, ZenonT(60) DEF DuplicateOK
  <2>5. SharedOK'
    BY <1>3, <1>4, <1>8, <1>i, <1>t, <2>1, ZenonT(60) DEF SharedOK
  <2>6. C!TypeOK'
    BY <1>1, <1>2, <1>3, <1>5, <1>i, <2>1, ZenonT(60) DEF C!TypeOK
  <2> QED
    BY <1>5, <1>6, <2>2, <2>3, <2>4, <2>5, <2>6, ZenonT(60) DEF SetupInv, Hands
<1>9. CASE n = 0
  <2>1. pc' = [pc EXCEPT ![a] = "zero"] /\ UNCHANGED <<owned, duplicate>>
    BY <1>1, <1>9, Zenon
  <2>2. \A b \in Acceptors : pc[b] = "idle"
    BY <1>7, <1>9, Zenon DEF Held
  <2>3. \A b \in Acceptors : pc'[b] = IF b = a THEN "zero" ELSE "idle"
    BY <1>t, <2>1, <2>2, Zenon
  <2>4. HeldOK'
    <3>1. \A d \in C!Fds : Held(d)' <=> Held(d) \/ d = 0
      BY <2>1, <2>2, <2>3, SMTT(60) DEF Held
    <3> QED
      BY <1>3, <1>4, <1>9, <1>i, <3>1, ZenonT(60) DEF HeldOK
  <2>5. ZeroOK' /\ DuplicateOK'
    BY <1>i, <2>1, <2>3 DEF ZeroOK, DuplicateOK
  <2>6. SharedOK'
    BY <1>3, <1>4, <1>9, <1>i, ZenonT(60) DEF SharedOK
  <2>7. C!TypeOK'
    BY <1>1, <1>2, <1>3, <1>5, <1>i, <2>1, ZenonT(60) DEF C!TypeOK
  <2> QED
    BY <1>5, <1>6, <2>4, <2>5, <2>6, <2>7, ZenonT(60) DEF SetupInv, Hands
<1> QED
  BY <1>8, <1>9, Zenon

\* The backlog and the connections do not change, and no new connection gets a
\* descriptor.
LEMMA FdsKeep ==
  ASSUME Reported, Placed, UNCHANGED <<link, soError, client, backlog>>,
         \A d \in C!Fds : fds'[d] \in Clients => \E e \in C!Fds : fds'[d] = fds[e]
  PROVE  Reported' /\ Placed'
<1>1. Reported'
  BY Zenon DEF Reported
<1>2. Placed'
  BY DEF Placed
<1> QED
  BY <1>1, <1>2, Zenon

\* fcntl: the connection of descriptor 0 gets another one.
LEMMA DuplicateKeeps == ASSUME SetupInv, NEW a \in Acceptors, C!DuplicateFd(a) PROVE SetupInv'
<1> USE SetupConstants
<1>i. C!TypeOK /\ Reported /\ Placed /\ HeldOK /\ ZeroOK /\ DuplicateOK /\ SharedOK
  BY Zenon DEF SetupInv, Hands
<1> DEFINE n == C!Lowest(C!FreeFrom(1))
<1>1. /\ pc[a] = "zero" /\ C!FreeFrom(1) # {} /\ fds' = [fds EXCEPT ![n] = fds[0]]
      /\ duplicate' = [duplicate EXCEPT ![a] = n] /\ pc' = [pc EXCEPT ![a] = "duplicated"]
      /\ UNCHANGED <<link, soError, client, backlog, owned>>
  BY Zenon DEF C!DuplicateFd, C!connects
<1>2. n \in C!Fds /\ fds[n] = Free /\ n # 0
  BY <1>1, LowestFree
<1> HIDE DEF n
<1>t. /\ fds \in [C!Fds -> Clients \cup {Free, Other}] /\ owned \subseteq C!Fds
      /\ pc \in [Acceptors -> {"idle", "zero", "duplicated"}]
      /\ duplicate \in [Acceptors -> C!Fds] /\ 0 \in C!Fds
  BY <1>i DEF C!TypeOK, C!Fds
<1>3. fds'[n] = fds[0] /\ fds'[0] = fds[0] /\ \A d \in C!Fds \ {n} : fds'[d] = fds[d]
  BY <1>1, <1>2, <1>t, ZenonT(60)
<1>4. Reported' /\ Placed'
  <2>1. UNCHANGED <<link, soError, client, backlog>>
    BY <1>1, Zenon
  <2>2. \A d \in C!Fds : fds'[d] \in Clients => \E e \in C!Fds : fds'[d] = fds[e]
    BY <1>3, <1>t, Zenon
  <2> QED
    BY <1>i, <2>1, <2>2, FdsKeep, ZenonT(60)
<1>5. \A b \in Acceptors : b # a => pc[b] = "idle" /\ pc'[b] = "idle"
  BY <1>1, <1>i, <1>t, Zenon DEF ZeroOK
<1>6. pc'[a] = "duplicated" /\ duplicate'[a] = n
  BY <1>1, <1>t, Zenon
<1>7. fds[0] \in Clients /\ n \notin owned
  BY <1>1, <1>2, <1>i, <1>t, ZenonT(60) DEF HeldOK, Held
<1>8. HeldOK'
  <2>1. \A d \in C!Fds : Held(d)' <=> Held(d) \/ d = n
    BY <1>1, <1>5, <1>6, ZenonT(60) DEF Held
  <2> QED
    BY <1>3, <1>7, <1>i, <2>1, ZenonT(60) DEF HeldOK
<1>9. ZeroOK' /\ DuplicateOK'
  <2>1. ZeroOK'
    BY <1>1, <1>5, <1>i, Zenon DEF ZeroOK
  <2>2. owned' = owned
    BY <1>1, Zenon
  <2>3. DuplicateOK'
    BY <1>2, <1>3, <1>5, <1>6, <1>7, <2>2, Zenon DEF DuplicateOK
  <2> QED BY <2>1, <2>3, Zenon
<1>10. SharedOK'
  <2>1. \A d \in C!Fds \ {0} : fds[d] \in Clients => fds[d] # fds[0]
    BY <1>1, <1>5, <1>i, ZenonT(60) DEF SharedOK
  <2> QED
    BY <1>2, <1>3, <1>6, <1>i, <2>1, SMTT(60) DEF SharedOK
<1>11. C!TypeOK'
  BY <1>1, <1>2, <1>t, <1>i, ZenonT(60) DEF C!TypeOK
<1> QED
  BY <1>4, <1>8, <1>9, <1>10, <1>11, ZenonT(60) DEF SetupInv, Hands

\* accept_one closes descriptor 0 and returns the duplicate, if it has one.
LEMMA CloseKeeps ==
  ASSUME SetupInv, NEW a \in Acceptors, C!DuplicateFails(a) \/ C!CloseAccepted(a)
  PROVE  SetupInv'
<1> USE SetupConstants
<1>i. C!TypeOK /\ Reported /\ Placed /\ HeldOK /\ ZeroOK /\ DuplicateOK /\ SharedOK
  BY Zenon DEF SetupInv, Hands
<1>1. /\ fds' = [fds EXCEPT ![0] = Free] /\ pc' = [pc EXCEPT ![a] = "idle"] /\ pc[a] # "idle"
      /\ UNCHANGED <<link, soError, client, backlog, duplicate>>
  BY Zenon DEF C!DuplicateFails, C!CloseAccepted, C!connects
<1>2. owned' = owned \cup (IF pc[a] = "duplicated" THEN {duplicate[a]} ELSE {})
  BY Zenon DEF C!DuplicateFails, C!CloseAccepted
<1>t. /\ fds \in [C!Fds -> Clients \cup {Free, Other}] /\ owned \subseteq C!Fds
      /\ pc \in [Acceptors -> {"idle", "zero", "duplicated"}]
      /\ duplicate \in [Acceptors -> C!Fds] /\ 0 \in C!Fds
  BY <1>i DEF C!TypeOK, C!Fds
<1>3. fds'[0] = Free /\ \A d \in C!Fds \ {0} : fds'[d] = fds[d]
  BY <1>1, <1>t, Zenon
<1>4. Reported' /\ Placed'
  <2>1. UNCHANGED <<link, soError, client, backlog>>
    BY <1>1, Zenon
  <2>2. \A d \in C!Fds : fds'[d] \in Clients => \E e \in C!Fds : fds'[d] = fds[e]
    BY <1>3, Zenon
  <2> QED
    BY <1>i, <2>1, <2>2, FdsKeep, ZenonT(60)
<1>5. \A b \in Acceptors : pc'[b] = "idle" /\ (b # a => pc[b] = "idle")
  BY <1>1, <1>i, <1>t, Zenon DEF ZeroOK
<1>6. ZeroOK' /\ DuplicateOK'
  BY <1>2, <1>5, <1>i, Zenon DEF ZeroOK, DuplicateOK
<1>7. HeldOK'
  <2>1. \A d \in C!Fds \ {0} : Held(d)' <=> Held(d)
    BY <1>1, <1>2, <1>5, Zenon DEF Held
  <2>2. ~Held(0)'
    BY <1>5, <1>6, Zenon DEF Held, ZeroOK
  <2> QED
    BY <1>3, <1>i, <2>1, <2>2, ZenonT(60) DEF HeldOK
<1>8. SharedOK'
  BY <1>3, <1>i, Zenon DEF SharedOK
<1>9. C!TypeOK'
  BY <1>1, <1>2, <1>i, <1>t, ZenonT(60) DEF C!TypeOK
<1> QED
  BY <1>4, <1>6, <1>7, <1>8, <1>9, ZenonT(60) DEF SetupInv, Hands

\* Other code opens and closes descriptors.
LEMMA OthersKeep ==
  ASSUME SetupInv, NEW n \in C!Fds, fds[n] \notin Clients,
         fds' = [fds EXCEPT ![n] = Free] \/ fds' = [fds EXCEPT ![n] = Other],
         UNCHANGED <<link, soError, client, backlog, pc, duplicate, owned>>
  PROVE  SetupInv'
<1> USE SetupConstants
<1>i. C!TypeOK /\ Reported /\ Placed /\ HeldOK /\ ZeroOK /\ DuplicateOK /\ SharedOK
  BY Zenon DEF SetupInv, Hands
<1>t. /\ fds \in [C!Fds -> Clients \cup {Free, Other}] /\ owned \subseteq C!Fds
      /\ pc \in [Acceptors -> {"idle", "zero", "duplicated"}]
      /\ duplicate \in [Acceptors -> C!Fds] /\ 0 \in C!Fds
  BY <1>i DEF C!TypeOK, C!Fds
<1>1. fds'[n] \in {Free, Other} /\ \A d \in C!Fds \ {n} : fds'[d] = fds[d]
  BY <1>t, Zenon
<1>2. Reported' /\ Placed'
  BY <1>1, <1>i, FdsKeep, Zenon
<1>3. HeldOK'
  BY <1>1, <1>i, Zenon DEF HeldOK, Held
<1>4. DuplicateOK'
  <2>1. ~Held(n)
    BY <1>i, Zenon DEF HeldOK
  <2>2. \A b \in Acceptors : pc[b] = "duplicated" => n # 0 /\ n # duplicate[b]
    BY <2>1, Zenon DEF Held
  <2> QED
    BY <1>1, <1>i, <1>t, <2>2, ZenonT(60) DEF DuplicateOK
<1>5. ZeroOK'
  BY <1>i, Zenon DEF ZeroOK
<1>6. SharedOK'
  BY <1>1, <1>i, <1>t, ZenonT(60) DEF SharedOK
<1>7. C!TypeOK'
  BY <1>i, <1>t, Zenon DEF C!TypeOK
<1> QED
  BY <1>2, <1>3, <1>4, <1>5, <1>6, <1>7, ZenonT(60) DEF SetupInv, Hands

\* The caller closes a handle it got.
LEMMA CloseOwnedKeeps == ASSUME SetupInv, NEW n \in C!Fds, C!CloseOwned(n) PROVE SetupInv'
<1> USE SetupConstants
<1>i. C!TypeOK /\ Reported /\ Placed /\ HeldOK /\ ZeroOK /\ DuplicateOK /\ SharedOK
  BY Zenon DEF SetupInv, Hands
<1>t. /\ fds \in [C!Fds -> Clients \cup {Free, Other}] /\ owned \subseteq C!Fds
      /\ pc \in [Acceptors -> {"idle", "zero", "duplicated"}]
      /\ duplicate \in [Acceptors -> C!Fds] /\ 0 \in C!Fds
  BY <1>i DEF C!TypeOK, C!Fds
<1>1. /\ n \in owned /\ owned' = owned \ {n} /\ fds' = [fds EXCEPT ![n] = Free]
      /\ UNCHANGED <<link, soError, client, backlog, pc, duplicate>>
  BY Zenon DEF C!CloseOwned, C!connects
<1>2. n # 0
  BY <1>1, <1>i, Zenon DEF ZeroOK
<1>3. fds'[n] = Free /\ fds'[0] = fds[0] /\ \A d \in C!Fds \ {n} : fds'[d] = fds[d]
  BY <1>1, <1>2, <1>t, Zenon
<1>4. Reported' /\ Placed'
  <2>1. UNCHANGED <<link, soError, client, backlog>>
    BY <1>1, Zenon
  <2>2. \A d \in C!Fds : fds'[d] \in Clients => \E e \in C!Fds : fds'[d] = fds[e]
    BY <1>3, Zenon
  <2> QED
    BY <1>i, <2>1, <2>2, FdsKeep, ZenonT(60)
<1>5. \A b \in Acceptors : pc[b] = "duplicated" => n # duplicate[b]
  BY <1>1, <1>i, Zenon DEF DuplicateOK
<1>6. HeldOK'
  <2>1. \A d \in C!Fds : Held(d)' <=> Held(d) /\ d # n
    BY <1>1, <1>2, <1>5, Zenon DEF Held
  <2> QED
    BY <1>3, <1>i, <2>1, Zenon DEF HeldOK
<1>7. DuplicateOK'
  BY <1>1, <1>3, <1>5, <1>i, <1>t, ZenonT(60) DEF DuplicateOK
<1>8. ZeroOK'
  BY <1>1, <1>i, Zenon DEF ZeroOK
<1>9. SharedOK'
  BY <1>1, <1>3, <1>i, Zenon DEF SharedOK
<1>10. C!TypeOK'
  BY <1>1, <1>i, <1>t, Zenon DEF C!TypeOK
<1> QED
  BY <1>4, <1>6, <1>7, <1>8, <1>9, <1>10, ZenonT(60) DEF SetupInv, Hands

\* The invariant is inductive.
LEMMA SetupNext == SetupInv /\ [C!Next]_(C!vars) => SetupInv'
<1> SUFFICES ASSUME SetupInv, [C!Next]_(C!vars) PROVE SetupInv'
  BY Zenon
<1>1. CASE C!AcceptBroken
  <2>1. /\ backlog # <<>> /\ backlog' = Tail(backlog)
        /\ UNCHANGED <<link, soError, client, fds, pc, duplicate, owned>>
    BY <1>1, Zenon DEF C!AcceptBroken, C!connects, C!accepts
  <2>2. Placed' /\ backlog' \in Seq(Clients)
    BY <2>1, PlacedAfter, Zenon
  <2>3. Reported' /\ Hands'
    BY <2>1, ZenonT(60) DEF SetupInv, Reported, Hands, HeldOK, ZeroOK, DuplicateOK, SharedOK, Held
  <2> QED
    BY <2>1, <2>2, <2>3, Zenon DEF SetupInv, C!TypeOK
<1>2. CASE UNCHANGED C!vars
  BY <1>2 DEF C!vars, C!connects, C!accepts, SetupInv, C!TypeOK, Reported, Placed, Hands, HeldOK,
              ZeroOK, DuplicateOK, SharedOK, Held
<1>3. CASE C!OpenOther
  <2>1. /\ C!FreeFrom(0) # {} /\ fds' = [fds EXCEPT ![C!Lowest(C!FreeFrom(0))] = Other]
        /\ UNCHANGED <<link, soError, client, backlog, pc, duplicate, owned>>
    BY <1>3, Zenon DEF C!OpenOther, C!connects, C!accepts
  <2>2. C!Lowest(C!FreeFrom(0)) \in C!Fds /\ fds[C!Lowest(C!FreeFrom(0))] \notin Clients
    BY <2>1, LowestFree, SetupConstants, Zenon
  <2> QED
    BY <2>1, <2>2, OthersKeep, Zenon
<1>4. ASSUME NEW d \in C!Fds, C!CloseOther(d) PROVE SetupInv'
  <2>1. /\ fds[d] = Other /\ fds' = [fds EXCEPT ![d] = Free]
        /\ UNCHANGED <<link, soError, client, backlog, pc, duplicate, owned>>
    BY <1>4, Zenon DEF C!CloseOther, C!connects, C!accepts
  <2> QED
    BY <2>1, OthersKeep, SetupConstants, Zenon
<1>5. \/ \E c \in Clients : \/ \E answer \in {"ok", "in_progress", "again", "refused"} : C!StartConnect(c, answer)
                             \/ \E ok \in BOOLEAN : C!Handshake(c, ok)
                             \/ C!FinishConnect(c)
      \/ \E a \in Acceptors : \/ C!Accept4(a) \/ C!DuplicateFd(a)
                               \/ C!DuplicateFails(a) \/ C!CloseAccepted(a)
      \/ C!AcceptBroken
      \/ \E d \in C!Fds : C!CloseOwned(d) \/ C!CloseOther(d)
      \/ C!OpenOther \/ UNCHANGED C!vars
  BY Zenon DEF C!Next
<1>6. ASSUME NEW a \in Acceptors,
             C!Accept4(a) \/ C!DuplicateFd(a) \/ C!DuplicateFails(a) \/ C!CloseAccepted(a)
      PROVE  SetupInv'
  BY <1>6, AcceptKeeps, DuplicateKeeps, CloseKeeps, ZenonT(60)
<1>7. ASSUME NEW c \in Clients,
             \/ \E answer \in {"ok", "in_progress", "again", "refused"} : C!StartConnect(c, answer)
             \/ \E ok \in BOOLEAN : C!Handshake(c, ok)
             \/ C!FinishConnect(c)
      PROVE  SetupInv'
  BY <1>7, ConnectKeeps, Zenon
<1>8. ASSUME NEW d \in C!Fds, C!CloseOwned(d) PROVE SetupInv'
  BY <1>8, CloseOwnedKeeps, ZenonT(60)
<1> QED
  BY <1>1, <1>2, <1>3, <1>4, <1>5, <1>6, <1>7, <1>8, ZenonT(60)

\* Every descriptor of an accepted connection is with the caller, alone and
\* never 0, or in the hands of one accept_one; and a client that was told it is
\* connected is, unless its connect answered EAGAIN: for any number of clients,
\* accepting threads and descriptors, with other code opening and closing
\* descriptors in between.
THEOREM DescriptorsOwned == C!Spec => []HandlesAccounted
<1>1. C!Init => SetupInv
  <2> SUFFICES ASSUME C!Init PROVE SetupInv
    BY Zenon
  <2>1. 0 \in C!Fds
    BY SetupConstants DEF C!Fds
  <2>2. backlog = <<>> /\ Len(backlog) = 0 /\ backlog \in Seq(Clients)
    BY DEF C!Init
  <2>3. C!TypeOK
    BY <2>1, <2>2, Zenon DEF C!Init, C!TypeOK
  <2>4. Reported
    BY Zenon DEF C!Init, Reported
  <2>5. Placed
    BY <2>2, SetupConstants DEF C!Init, Placed
  <2>6. Hands
    BY SetupConstants, Zenon DEF C!Init, Hands, HeldOK, ZeroOK, DuplicateOK, SharedOK, Held
  <2> QED
    BY <2>3, <2>4, <2>5, <2>6, ZenonT(60) DEF SetupInv
<1>2. SetupInv => HandlesAccounted
  <2> SUFFICES ASSUME SetupInv PROVE C!HandlesAccounted
    BY Zenon DEF HandlesAccounted
  <2>0. C!TypeOK /\ Reported /\ HeldOK /\ ZeroOK /\ DuplicateOK /\ SharedOK
    BY Zenon DEF SetupInv, Hands
  <2> DEFINE inHand(a) == CASE pc[a] = "idle" -> {} [] pc[a] = "zero" -> {0}
                            [] pc[a] = "duplicated" -> {0, duplicate[a]}
  <2>1. \A a \in Acceptors : pc[a] \in {"idle", "zero", "duplicated"} /\ duplicate[a] \in C!Fds
    BY <2>0, Zenon DEF C!TypeOK
  <2>2. \A a \in Acceptors : \A d : d \in inHand(a) <=>
          (pc[a] # "idle" /\ d = 0) \/ (pc[a] = "duplicated" /\ d = duplicate[a])
    BY <2>1, Zenon
  <2> HIDE DEF inHand
  <2>3. \A d \in C!Fds : Held(d) <=> d \in owned \cup UNION {inHand(a) : a \in Acceptors}
    BY <2>2, Zenon DEF Held
  <2>4. 0 \in C!Fds /\ owned \subseteq C!Fds
    BY <2>0, SetupConstants DEF C!TypeOK, C!Fds
  <2>5. UNION {inHand(a) : a \in Acceptors} \subseteq C!Fds
    BY <2>1, <2>2, <2>4, Zenon
  <2>6. {d \in C!Fds : fds[d] \in Clients} = owned \cup UNION {inHand(a) : a \in Acceptors}
    BY <2>3, <2>4, <2>5, <2>0, ZenonT(60) DEF HeldOK
  <2>7. \A d, e \in owned : fds[d] = fds[e] => d = e
    BY <2>0, <2>4, ZenonT(60) DEF HeldOK, ZeroOK, SharedOK, Held
  <2>8. \A a, b \in Acceptors : a # b => inHand(a) \cap inHand(b) = {}
    BY <2>0, <2>2, Zenon DEF ZeroOK, DuplicateOK
  <2>9. 0 \notin owned /\ \A a \in Acceptors : pc[a] = "duplicated" => fds[duplicate[a]] = fds[0]
    BY <2>0, Zenon DEF ZeroOK, DuplicateOK
  <2>10. \A c \in Clients : client[c] = "connected" => link[c] \in {"up", "none"}
    BY <2>0, Zenon DEF Reported
  <2> QED
    BY <2>6, <2>7, <2>8, <2>9, <2>10, ZenonT(60) DEF C!HandlesAccounted, inHand
<1> QED
  BY <1>1, <1>2, SetupNext, PTL DEF C!Spec
------------------------------------------------------------------------------
(* Byte transfer (SocketStream).  Plans and offsets are recursive functions: *)
(* what they compute is shown by induction over sets of numbers.             *)

\* The order of the natural numbers.
LessThan == {p \in Nat \X Nat : p[1] < p[2]}

\* A set of natural numbers has a least one.
LEMMA Least == ASSUME NEW Q \in SUBSET Nat, Q # {} PROVE \E m \in Q : \A n \in Q : m <= n
<1>1. IsWellFoundedOn(OpToRel(<,Nat), Nat)
  BY NatLessThanWellFounded, Zenon
<1>2. OpToRel(<,Nat) = LessThan
  BY DEF OpToRel, LessThan
<1>3. IsWellFoundedOn(LessThan, Nat)
  BY <1>1, <1>2
<1>4. PICK m \in Q : \A n \in Q : ~(<<n, m>> \in LessThan)
  BY <1>3, WFMin, Zenon
<1>5. \A n \in Q : ~(n < m)
  BY <1>4 DEF LessThan
<1> QED BY <1>5

\* Upward induction on 0..N, for a set.
LEMMA Upwards == 
  ASSUME NEW N \in Nat, NEW X, 0 \in X, \A j \in 1..N : j - 1 \in X => j \in X
  PROVE \A j \in 0..N : j \in X
<1> SUFFICES ASSUME NEW k \in 0..N, k \notin X PROVE FALSE
  BY Zenon
<1> DEFINE Q == {j \in 0..N : j \notin X}
<1>1. Q \in SUBSET Nat /\ Q # {}
  OBVIOUS
<1>2. PICK m \in Q : \A n \in Q : m <= n
  BY <1>1, Least, Zenon
<1>3. m \in 0..N /\ m \notin X
  BY Zenon
<1>4. m # 0 /\ m \in 1..N
  BY <1>3
<1>5. m - 1 \notin X
  BY <1>3, <1>4
<1>6. m - 1 \in Q
  BY <1>4, <1>5
<1>7. m <= m - 1
  BY <1>2, <1>6, Zenon
<1> QED BY ONLY <1>4, <1>7

\* f is the recursive function on 0..N that starts at z and goes on by G.
Follows(f, V, N, z, G) ==
  /\ f \in [0..N -> V]
  /\ f[0] = z
  /\ \A j \in 1..N : f[j] = G[j][f[j - 1]]

\* A recursive definition on 0..N defines a function.
LEMMA Recursion ==
  ASSUME NEW V, NEW N \in Nat, NEW z \in V, NEW G \in [1..N -> [V -> V]]
  PROVE  \E f : Follows(f, V, N, z, G)
<1> DEFINE P(m) == \E f \in [0..m -> V] : f[0] = z /\ \A j \in 1..m : f[j] = G[j][f[j - 1]]
           X == {m \in 0..N : P(m)}
<1>1. P(0)
  <2> DEFINE f == [j \in 0..0 |-> z]
  <2>1. f \in [0..0 -> V] /\ f[0] = z /\ 1..0 = {}
    OBVIOUS
  <2> QED BY <2>1, Zenon
<1>2. ASSUME NEW j \in 1..N, j - 1 \in X PROVE j \in X
  <2>1. PICK f \in [0..(j - 1) -> V] : f[0] = z /\ \A i \in 1..(j - 1) : f[i] = G[i][f[i - 1]]
    BY <1>2, Zenon
  <2> DEFINE v == G[j][f[j - 1]]
             g == [i \in 0..j |-> IF i = j THEN v ELSE f[i]]
  <2>2. j \in Nat /\ j - 1 \in 0..(j - 1) /\ j \in 0..N /\ 0 # j /\ 0 \in 0..j /\ j \in 0..j
    OBVIOUS
  <2>3. v \in V
    BY <2>1, <2>2, Zenon
  <2> HIDE DEF v
  <2>4. \A i \in 0..j : i # j => i \in 0..(j - 1)
    BY <2>2
  <2>5. g \in [0..j -> V]
    BY <2>1, <2>3, <2>4, Zenon
  <2>6. g[0] = z /\ g[j] = v
    BY <2>1, <2>2, Zenon
  <2>7. \A i \in 1..j : i - 1 \in 0..j /\ i - 1 # j /\ i \in 0..j /\ (i # j => i \in 1..(j - 1))
    BY <2>2
  <2>8. \A i \in 1..j : g[i] = IF i = j THEN v ELSE f[i]
    BY <2>7, Zenon
  <2>9. \A i \in 1..j : g[i - 1] = f[i - 1]
    BY <2>7, Zenon
  <2>10. \A i \in 1..j : g[i] = G[i][g[i - 1]]
    BY <2>1, <2>7, <2>8, <2>9, Zenon DEF v
  <2> HIDE DEF g
  <2>11. P(j)
    BY <2>5, <2>6, <2>10, Zenon
  <2> QED BY <2>2, <2>11, Zenon
<1>3. 0 \in X /\ N \in 0..N
  BY <1>1
<1> HIDE DEF P
<1>4. N \in X
  <2> HIDE DEF X
  <2> QED BY <1>2, <1>3, Upwards
<1>5. P(N)
  BY <1>4, Zenon
<1> QED BY <1>5, Zenon DEF P, Follows


\* What the recursion of Offsets computes: partial sums.
\* Two sequences, one after the other.
LEMMA Joined ==
  ASSUME NEW X, NEW a \in Seq(X), NEW b \in Seq(X)
  PROVE  /\ a \o b \in Seq(X) /\ Len(a \o b) = Len(a) + Len(b)
         /\ \A i \in 1..(Len(a) + Len(b)) : (a \o b)[i] = IF i <= Len(a) THEN a[i] ELSE b[i - Len(a)]
OBVIOUS

LEMMA OffsetsFacts ==
  ASSUME NEW lens \in Seq(Nat)
  PROVE  /\ S!Offsets(lens) \in [0..Len(lens) -> Nat]
         /\ S!Offsets(lens)[0] = 0
         /\ \A j \in 1..Len(lens) : S!Offsets(lens)[j] = S!Offsets(lens)[j - 1] + lens[j]
<1> DEFINE N == Len(lens)
           G == [j \in 1..N |-> [x \in Nat |-> x + lens[j]]]
           o == S!Offsets(lens)
<1>1. N \in Nat /\ \A j \in 1..N : lens[j] \in Nat
  OBVIOUS
<1>2. G \in [1..N -> [Nat -> Nat]]
  BY <1>1
<1> HIDE DEF G
<1>3. PICK f : Follows(f, Nat, N, 0, G)
  <2>1. 0 \in Nat
    OBVIOUS
  <2> HIDE DEF N
  <2> QED
    BY ONLY <1>1, <1>2, <2>1, Recursion, Zenon
<1>4. /\ \A j \in 1..N : j - 1 \in 0..N /\ j \in 0..N /\ j # 0
      /\ \A j \in 0..N : j # 0 => j \in 1..N
      /\ 0 \in 0..N
  BY <1>1
<1>5. \A j \in 1..N : f[j] = f[j - 1] + lens[j]
  BY <1>3, <1>4, Zenon DEF G, Follows
<1>6. f = [j \in 0..N |-> IF j = 0 THEN 0 ELSE f[j - 1] + lens[j]]
  BY <1>3, <1>4, <1>5, Zenon DEF Follows
<1>7. o = [j \in 0..N |-> IF j = 0 THEN 0 ELSE o[j - 1] + lens[j]]
  BY <1>6, Zenon DEF S!Offsets
<1> HIDE DEF o
<1>8. o[0] = 0 /\ \A j \in 1..N : o[j] = o[j - 1] + lens[j]
  BY <1>4, <1>7, Zenon
<1>9. \A j \in 0..N : o[j] \in Nat
  <2> DEFINE Q == {j \in 0..N : o[j] \in Nat}
  <2>1. 0 \in Q
    BY <1>4, <1>8
  <2>2. ASSUME NEW j \in 1..N, j - 1 \in Q PROVE j \in Q
    <3>1. o[j - 1] \in Nat /\ lens[j] \in Nat /\ o[j] = o[j - 1] + lens[j] /\ j \in 0..N
      BY <1>1, <1>4, <1>8, <2>2, Zenon
    <3>2. o[j] \in Nat
      BY ONLY <3>1
    <3> QED
      BY <3>1, <3>2, Zenon
  <2> HIDE DEF Q
  <2>3. \A j \in 0..N : j \in Q
    BY ONLY <1>1, <2>1, <2>2, Upwards
  <2> QED
    BY <2>3, Zenon DEF Q
<1>10. o \in [0..N -> Nat]
  BY <1>7, <1>9, Zenon
<1> QED
  BY <1>8, <1>10, Zenon DEF o

\* The plans of build_iovec_chain.
Plans == [count : Nat, positions : Seq(Nat)]

\* One round of its loop, at segment length with start bytes before it.
PlanStep(plan, start, length) ==
  IF length = 0 \/ S!PlanFull(plan) THEN plan ELSE S!AppendSegment(plan, start, length)

\* A prefix of the positions of a concatenation, numbered from 1.
Counting(n) == [k \in 1..n |-> k]

\* What holds of the plan after some segments of offset bytes together.
PlanGood(plan, offset) ==
  /\ plan \in Plans
  /\ plan.positions = Counting(Len(plan.positions))
  /\ Len(plan.positions) <= RequestLimit
  /\ Len(plan.positions) <= offset
  /\ Len(plan.positions) = offset \/ S!PlanFull(plan)
  /\ plan.count > 0 => Len(plan.positions) > 0

\* append_socket_iovec_segment takes at least a byte, and no more than the
\* segment has or the request allows.
LEMMA AppendFacts ==
  ASSUME NEW plan \in Plans, NEW start \in Nat, NEW length \in Nat,
         length # 0, ~S!PlanFull(plan)
  PROVE  LET remaining == RequestLimit - Len(plan.positions)
             taken == IF length < remaining THEN length ELSE remaining
             next == S!AppendSegment(plan, start, length)
         IN  /\ taken \in 1..length /\ taken <= remaining
             /\ taken = length \/ taken = remaining
             /\ Len(plan.positions) \in Nat
             /\ next.count = plan.count + 1
             /\ next.positions = plan.positions \o [k \in 1..taken |-> start + k]
             /\ Len(next.positions) = Len(plan.positions) + taken
             /\ next \in Plans
<1> DEFINE remaining == RequestLimit - Len(plan.positions)
           taken == IF length < remaining THEN length ELSE remaining
           next == S!AppendSegment(plan, start, length)
           more == [k \in 1..taken |-> start + k]
<1>1. plan.count \in Nat /\ plan.positions \in Seq(Nat)
  BY Zenon DEF Plans
<1>2. Len(plan.positions) \in Nat
  BY <1>1
<1>3. RequestLimit \in Nat \ {0} /\ Len(plan.positions) < RequestLimit
  BY <1>2, StreamConstants DEF S!PlanFull
<1>4. taken \in 1..length /\ taken <= remaining /\ (taken = length \/ taken = remaining)
  <2> DEFINE L == Len(plan.positions)
  <2>1. L \in Nat /\ L < RequestLimit /\ RequestLimit \in Nat
    BY <1>2, <1>3
  <2> HIDE DEF L
  <2>2. /\ (IF length < RequestLimit - L THEN length ELSE RequestLimit - L) \in 1..length
        /\ (IF length < RequestLimit - L THEN length ELSE RequestLimit - L) <= RequestLimit - L
        /\ \/ (IF length < RequestLimit - L THEN length ELSE RequestLimit - L) = length
           \/ (IF length < RequestLimit - L THEN length ELSE RequestLimit - L) = RequestLimit - L
    BY ONLY <2>1, length \in Nat, length # 0
  <2> QED
    BY <2>2, Zenon DEF L
<1>5. next = [count |-> plan.count + 1, positions |-> plan.positions \o more]
  BY Zenon DEF S!AppendSegment
<1> HIDE DEF taken, remaining
<1>6. taken \in Nat
  BY <1>4
<1>7. more \in Seq(Nat) /\ Len(more) = taken
  BY ONLY <1>6, start \in Nat
<1> HIDE DEF more, next
<1>8. plan.positions \o more \in Seq(Nat) /\ Len(plan.positions \o more) = Len(plan.positions) + taken
  BY <1>1, <1>7, Joined, Zenon
<1>9. plan.count + 1 \in Nat
  BY <1>1
<1>10. next.count = plan.count + 1 /\ next.positions = plan.positions \o more
  BY <1>5, Zenon
<1>11. next \in Plans
  BY <1>5, <1>8, <1>9, Zenon DEF Plans
<1> QED
  BY <1>2, <1>4, <1>8, <1>10, <1>11, Zenon DEF next, more, taken, remaining

\* One turn of the loop of build_iovec_chain keeps the plan a prefix.
LEMMA PlanStepGood ==
  ASSUME NEW plan, NEW start \in Nat, NEW length \in Nat, PlanGood(plan, start)
  PROVE  PlanGood(PlanStep(plan, start, length), start + length)
<1>1. plan \in Plans /\ plan.count \in Nat /\ plan.positions \in Seq(Nat)
  BY Zenon DEF Plans, PlanGood
<1> DEFINE L == Len(plan.positions)
<1>2. L \in Nat /\ plan.positions = Counting(L)
  BY <1>1 DEF PlanGood
<1>3. L <= RequestLimit /\ L <= start /\ (L = start \/ S!PlanFull(plan)) /\ (plan.count > 0 => L > 0)
  BY Zenon DEF PlanGood
<1> HIDE DEF L
<1>4. CASE length = 0
  <2>1. start + length = start /\ PlanStep(plan, start, length) = plan
    BY <1>4 DEF PlanStep
  <2> QED
    BY <2>1, Zenon
<1>5. CASE S!PlanFull(plan)
  <2>1. PlanStep(plan, start, length) = plan
    BY <1>5, Zenon DEF PlanStep
  <2>2. L <= start + length
    BY ONLY <1>2, <1>3, start \in Nat, length \in Nat
  <2> QED
    BY <1>1, <1>2, <1>3, <1>5, <2>1, <2>2, Zenon DEF PlanGood, L
<1>6. CASE length # 0 /\ ~S!PlanFull(plan)
  <2> DEFINE remaining == RequestLimit - L
             taken == IF length < remaining THEN length ELSE remaining
             next == S!AppendSegment(plan, start, length)
  <2>1. /\ taken \in 1..length /\ taken <= remaining
        /\ taken = length \/ taken = remaining
        /\ next.count = plan.count + 1
        /\ next.positions = plan.positions \o [k \in 1..taken |-> start + k]
        /\ Len(next.positions) = L + taken
        /\ next \in Plans
    BY <1>1, <1>6, AppendFacts, Zenon DEF L
  <2>2. PlanStep(plan, start, length) = next
    BY <1>6, Zenon DEF PlanStep
  <2>3. L = start /\ RequestLimit \in Nat
    BY <1>3, <1>6, StreamConstants
  <2> HIDE DEF next, taken
  <2>4. next.positions = Counting(L + taken)
    <3>1. taken \in Nat
      BY <2>1
    <3>2. Counting(L) \o [k \in 1..taken |-> L + k] = Counting(L + taken)
      BY ONLY <1>2, <3>1 DEF Counting
    <3> QED
      BY <1>2, <2>1, <2>3, <3>2, Zenon
  <2>5. /\ L + taken <= RequestLimit
        /\ L + taken <= start + length
        /\ L + taken = start + length \/ L + taken >= RequestLimit
        /\ L + taken > 0
    <3>1. taken \in 1..length /\ taken <= RequestLimit - L
          /\ (taken = length \/ taken = RequestLimit - L)
      BY <2>1, Zenon
    <3> QED
      BY ONLY <1>2, <2>3, <3>1, length \in Nat
  <2>6. L + taken = start + length \/ S!PlanFull(next)
    BY <2>1, <2>5, Zenon DEF S!PlanFull
  <2>7. PlanGood(next, start + length)
    BY <2>1, <2>4, <2>5, <2>6, Zenon DEF PlanGood
  <2> QED
    BY <2>2, <2>7, Zenon
<1> QED
  BY <1>4, <1>5, <1>6, Zenon

\* build_iovec_chain covers a prefix of the chain, empty only when the chain
\* is, and within the limit of a request.
LEMMA RequestFacts ==
  ASSUME NEW lens \in Seq(Nat)
  PROVE  LET request == S!BuildIovecChain(lens)
         IN  /\ Len(request) \in Nat
             /\ request = Counting(Len(request))
             /\ Len(request) <= RequestLimit
             /\ Len(request) = 0 <=> S!Total(lens) = 0
<1> DEFINE N == Len(lens)
           o == S!Offsets(lens)
           z == [count |-> 0, positions |-> <<>>]
           G == [j \in 1..N |-> [x \in Plans |-> PlanStep(x, o[j - 1], lens[j])]]
           Loop(b) == b = [j \in 0..N |-> IF j = 0 THEN z
                                          ELSE IF lens[j] = 0 \/ S!PlanFull(b[j - 1]) THEN b[j - 1]
                                          ELSE S!AppendSegment(b[j - 1], o[j - 1], lens[j])]
           build == CHOOSE b : Loop(b)
<1>1. N \in Nat /\ \A j \in 1..N : lens[j] \in Nat
  OBVIOUS
<1>2. /\ \A j \in 1..N : j - 1 \in 0..N /\ j \in 0..N /\ j # 0
      /\ \A j \in 0..N : j # 0 => j \in 1..N
      /\ 0 \in 0..N /\ N \in 0..N
  BY <1>1
<1>3. o \in [0..N -> Nat] /\ o[0] = 0 /\ \A j \in 1..N : o[j] = o[j - 1] + lens[j]
  BY OffsetsFacts, Zenon
<1>4. S!BuildIovecChain(lens) = build[N].positions /\ S!Total(lens) = o[N]
  BY Zenon DEF S!BuildIovecChain, S!Total
<1> HIDE DEF o, N
<1>5. z \in Plans /\ z.count = 0 /\ z.positions = <<>>
  BY DEF Plans
<1>6. G \in [1..N -> [Plans -> Plans]]
  <2> SUFFICES ASSUME NEW j \in 1..N, NEW x \in Plans PROVE PlanStep(x, o[j - 1], lens[j]) \in Plans
    BY Zenon
  <2>1. o[j - 1] \in Nat /\ lens[j] \in Nat
    BY <1>1, <1>2, <1>3, Zenon
  <2>2. CASE lens[j] # 0 /\ ~S!PlanFull(x)
    BY <2>1, <2>2, AppendFacts, Zenon DEF PlanStep
  <2>3. CASE lens[j] = 0 \/ S!PlanFull(x)
    BY <2>3, Zenon DEF PlanStep
  <2> QED
    BY <2>2, <2>3, Zenon
<1> HIDE DEF z, G
<1>7. PICK f : Follows(f, Plans, N, z, G)
  BY <1>1, <1>5, <1>6, Recursion, Zenon
<1>8. \A j \in 1..N : f[j] = PlanStep(f[j - 1], o[j - 1], lens[j])
  BY <1>2, <1>7, Zenon DEF Follows, G
<1>9. Loop(f)
  BY <1>2, <1>7, <1>8, Zenon DEF Follows, PlanStep
<1>10. Loop(build)
  <2> HIDE DEF Loop
  <2> QED
    BY <1>9, Zenon
<1> HIDE DEF build
<1>11. build[0] = z /\ \A j \in 1..N : build[j] = PlanStep(build[j - 1], o[j - 1], lens[j])
  BY <1>2, <1>10, Zenon DEF PlanStep
<1> HIDE DEF Loop
<1>12. PlanGood(build[N], o[N])
  <2> DEFINE Q == {j \in 0..N : PlanGood(build[j], o[j])}
  <2>1. 0 \in Q
    <3>1. Len(z.positions) = 0 /\ z.positions = Counting(0) /\ 0 <= RequestLimit /\ 0 <= 0 /\ ~(0 > 0)
      BY <1>5, StreamConstants DEF Counting
    <3>2. PlanGood(build[0], o[0])
      BY <1>3, <1>5, <1>11, <3>1, Zenon DEF PlanGood
    <3> QED
      BY <1>2, <3>2, Zenon
  <2>2. ASSUME NEW j \in 1..N, j - 1 \in Q PROVE j \in Q
    <3>1. PlanGood(build[j - 1], o[j - 1]) /\ o[j - 1] \in Nat /\ lens[j] \in Nat
      BY <1>1, <1>2, <1>3, <2>2, Zenon
    <3>2. PlanGood(build[j], o[j])
      BY <1>3, <1>11, <3>1, PlanStepGood, Zenon
    <3> QED
      BY <1>2, <3>2, Zenon
  <2> HIDE DEF Q
  <2>3. \A j \in 0..N : j \in Q
    BY ONLY <1>1, <2>1, <2>2, Upwards
  <2> QED
    BY <1>2, <2>3, Zenon DEF Q
<1> DEFINE plan == build[N]
           L == Len(plan.positions)
<1>13. plan.count \in Nat /\ plan.positions \in Seq(Nat) /\ o[N] \in Nat
  BY <1>2, <1>3, <1>12, Zenon DEF PlanGood, Plans
<1>14. L \in Nat
  BY <1>13
<1>15. plan.positions = Counting(L) /\ L <= RequestLimit /\ L <= o[N]
       /\ (plan.count > 0 => L > 0) /\ (L = o[N] \/ plan.count >= IovecLimit \/ L >= RequestLimit)
  BY <1>12, Zenon DEF PlanGood, S!PlanFull
<1> HIDE DEF L
<1>16. L = 0 <=> o[N] = 0
  <2>1. IovecLimit \in Nat \ {0} /\ RequestLimit \in Nat \ {0}
    BY StreamConstants, Zenon
  <2> QED
    BY ONLY <1>13, <1>14, <1>15, <2>1
<1> QED
  BY <1>4, <1>14, <1>15, <1>16, Zenon DEF L

\* What is left of a chain is a chain.
LEMMA AdvanceFacts ==
  ASSUME NEW lens \in Seq(Nat), NEW n \in Nat
  PROVE  S!Advance(lens, n) \in Seq(Nat)
<1> DEFINE N == Len(lens)
           o == S!Offsets(lens)
           cut(j) == IF n <= o[j - 1] THEN lens[j]
                     ELSE IF n >= o[j - 1] + lens[j] THEN 0 ELSE o[j - 1] + lens[j] - n
<1>1. N \in Nat /\ DOMAIN lens = 1..N /\ \A j \in 1..N : lens[j] \in Nat /\ j - 1 \in 0..N
  OBVIOUS
<1>2. \A j \in 1..N : o[j - 1] \in Nat
  BY <1>1, OffsetsFacts, Zenon
<1>3. S!Advance(lens, n) = [j \in 1..N |-> cut(j)]
  BY <1>1, Zenon DEF S!Advance
<1> HIDE DEF o, N
<1>4. \A j \in 1..N : cut(j) \in Nat
  BY ONLY <1>1, <1>2, n \in Nat
<1> HIDE DEF cut
<1>5. [j \in 1..N |-> cut(j)] \in Seq(Nat)
  BY ONLY <1>1, <1>4
<1> QED
  BY <1>3, <1>5, Zenon

\* The chains are lengths, the bytes numbers.
StreamTypes ==
  /\ operations \in [S!Directions -> Seq(Seq(Nat))]
  /\ chain \in [S!Directions -> Seq(Nat)]
  /\ written \in Nat
  /\ pipe \in Seq(Nat) /\ bytes \in Seq(Nat)

\* The inductive invariant.
StreamInv == StreamTypes /\ bytes \o pipe = Counting(written)

\* Requests of any chain.
LEMMA StreamInvImplies == StreamInv => StreamInOrder
<1> SUFFICES ASSUME StreamInv PROVE StreamInOrder
  BY Zenon
<1>1. bytes \o pipe = [n \in 1..written |-> n]
  BY Zenon DEF StreamInv, Counting
<1>2. ASSUME NEW d \in S!Directions
      PROVE  LET request == Len(S!BuildIovecChain(chain[d]))
             IN  request <= RequestLimit /\ (request = 0 <=> S!Total(chain[d]) = 0)
  <2>1. chain[d] \in Seq(Nat)
    BY Zenon DEF StreamInv, StreamTypes
  <2> QED
    BY <2>1, RequestFacts, Zenon
<1> QED
  BY <1>1, <1>2, Zenon DEF StreamInOrder, S!StreamInOrder

\* Nothing is written, nothing was read.
LEMMA StreamInit == S!Init => StreamInv
<1> SUFFICES ASSUME S!Init PROVE StreamInv
  BY Zenon
<1>1. <<>> \in Seq(Nat) /\ <<>> \in Seq(Seq(Nat)) /\ 0 \in Nat /\ <<>> \o <<>> = Counting(0)
  BY DEF Counting
<1> QED
  BY <1>1, Zenon DEF S!Init, StreamInv, StreamTypes

\* Concatenation of three sequences of bytes.
LEMMA BytesAssociate ==
  \A a, b, c \in Seq(Nat) : (a \o b) \o c = a \o (b \o c)
<1> SUFFICES ASSUME NEW a \in Seq(Nat), NEW b \in Seq(Nat), NEW c \in Seq(Nat)
             PROVE  (a \o b) \o c = a \o (b \o c)
  BY Zenon
<1> QED
  BY ONLY a \in Seq(Nat), b \in Seq(Nat), c \in Seq(Nat), SMT

\* write_some puts the next numbers into the pipe.
LEMMA WriteInOrder ==
  ASSUME StreamInv, NEW n \in Nat, S!WriteSome(n)
  PROVE  StreamInv'
<1> DEFINE w == "write"
           plan == S!BuildIovecChain(chain[w])
           more == [k \in 1..n |-> written + plan[k]]
<1>1. /\ n \in 1..Len(plan)
      /\ pipe' = pipe \o more
      /\ written' = written + n
      /\ chain' = [chain EXCEPT ![w] = S!Advance(@, n)]
      /\ operations' = operations /\ bytes' = bytes
  BY Zenon DEF S!WriteSome
<1>2. chain \in [S!Directions -> Seq(Nat)] /\ chain[w] \in Seq(Nat)
      /\ operations \in [S!Directions -> Seq(Seq(Nat))]
      /\ written \in Nat /\ pipe \in Seq(Nat) /\ bytes \in Seq(Nat)
      /\ bytes \o pipe = Counting(written)
  BY Zenon DEF StreamInv, StreamTypes, S!Directions
<1>3. Len(plan) \in Nat /\ plan = Counting(Len(plan))
  BY <1>2, RequestFacts, Zenon
<1> HIDE DEF plan
<1>4. \A k \in 1..n : k \in 1..Len(plan)
  BY ONLY <1>1, <1>3
<1>5. \A k \in 1..n : plan[k] = k
  BY <1>3, <1>4, Zenon DEF Counting
<1>6. more = [k \in 1..n |-> written + k]
  BY <1>5, Zenon
<1>7. more \in Seq(Nat)
  BY ONLY <1>2, <1>6
<1>8. Counting(written) \o [k \in 1..n |-> written + k] = Counting(written + n)
  BY ONLY <1>2, n \in Nat DEF Counting
<1> HIDE DEF more
<1>9. (bytes \o pipe) \o more = bytes \o (pipe \o more)
  <2>1. bytes \in Seq(Nat) /\ pipe \in Seq(Nat) /\ more \in Seq(Nat)
    BY <1>2, <1>7, Zenon
  <2> QED
    BY ONLY <2>1, BytesAssociate, Zenon
<1>10. bytes' \o pipe' = Counting(written')
  BY <1>1, <1>2, <1>6, <1>8, <1>9, Zenon
<1>11. written' \in Nat /\ pipe' \in Seq(Nat)
  BY ONLY <1>1, <1>2, <1>7, n \in Nat
<1>12. chain' \in [S!Directions -> Seq(Nat)]
  BY <1>1, <1>2, AdvanceFacts, Zenon
<1> QED
  BY <1>1, <1>2, <1>10, <1>11, <1>12, Zenon DEF StreamInv, StreamTypes

\* A sequence is its first n entries and the rest.
LEMMA SplitFacts ==
  ASSUME NEW X, NEW q \in Seq(X), NEW n \in Nat, n <= Len(q)
  PROVE  LET first == [p \in 1..n |-> q[p]]
             rest == SubSeq(q, n + 1, Len(q))
         IN  first \in Seq(X) /\ rest \in Seq(X) /\ first \o rest = q
<1> DEFINE first == [p \in 1..n |-> q[p]]
           N == Len(q)
           rest == SubSeq(q, n + 1, N)
           both == first \o rest
<1>1. N \in Nat /\ n + 1 \in Int /\ N \in Int /\ n <= N
  OBVIOUS
<1>2. \A i \in 1..N : q[i] \in X
  OBVIOUS
<1>3. /\ \A i \in (n + 1)..N : i \in 1..N
      /\ \A i \in 1..n : i \in 1..N
  BY <1>1
<1>4. first \in [1..n -> X]
  BY <1>2, <1>3, Zenon
<1>5. first \in Seq(X) /\ Len(first) = n
  BY ONLY <1>4, n \in Nat
<1>6. \A i \in (n + 1)..N : q[i] \in X
  BY <1>2, <1>3, Zenon
<1>7. /\ rest \in Seq(X)
      /\ Len(rest) = IF n + 1 <= N THEN N - (n + 1) + 1 ELSE 0
      /\ \A i \in 1..(N - (n + 1) + 1) : rest[i] = q[n + 1 + i - 1]
  <2> HIDE DEF N
  <2> QED
    BY ONLY <1>1, <1>6, SMT
<1>8. \A i \in 1..n : first[i] = q[i]
  BY Zenon
<1> HIDE DEF rest, first
<1>9. /\ both \in Seq(X) /\ Len(both) = Len(first) + Len(rest)
      /\ \A i \in 1..(Len(first) + Len(rest)) :
            both[i] = IF i <= Len(first) THEN first[i] ELSE rest[i - Len(first)]
  BY ONLY <1>5, <1>7, Joined, Zenon
<1> HIDE DEF both
<1>10. Len(first) + Len(rest) = N
  BY ONLY <1>1, <1>5, <1>7, n \in Nat
<1>11. ASSUME NEW i \in 1..N PROVE both[i] = q[i]
  <2>1. CASE i <= n
    <3>1. i \in 1..n
      BY <1>1, <2>1
    <3> QED
      BY <1>5, <1>8, <1>9, <1>10, <2>1, <3>1, Zenon
  <2>2. CASE ~(i <= n)
    <3>1. i - n \in 1..(N - (n + 1) + 1) /\ n + 1 + (i - n) - 1 = i
      BY ONLY <1>1, <2>2, n \in Nat, i \in 1..N
    <3>2. rest[i - n] = q[i]
      BY <1>7, <3>1, Zenon
    <3> QED
      BY <1>5, <1>9, <1>10, <2>2, <3>2, Zenon
  <2> QED
    BY <2>1, <2>2, Zenon
<1>12. both = q
  <2>1. Len(both) = Len(q)
    BY <1>9, <1>10, Zenon
  <2>2. both \in Seq(X) /\ q \in Seq(X) /\ \A i \in 1..Len(q) : both[i] = q[i]
    BY <1>9, <1>11, Zenon
  <2> QED
    BY ONLY <2>1, <2>2, SMT
<1> QED
  BY <1>5, <1>7, <1>12, Zenon DEF both, rest, first

\* read_some moves the front of the pipe to the reader.
LEMMA ReadInOrder ==
  ASSUME StreamInv, NEW n \in Nat, S!ReadSome(n)
  PROVE  StreamInv'
<1> DEFINE r == "read"
           plan == S!BuildIovecChain(chain[r])
           filled(p) == {k \in 1..n : plan[k] = p}
           found == [p \in 1..n |-> IF filled(p) = {} THEN -1
                                    ELSE pipe[CHOOSE k \in filled(p) : TRUE]]
<1>1. /\ n \in 1..Len(plan) /\ n <= Len(pipe)
      /\ bytes' = bytes \o found
      /\ pipe' = SubSeq(pipe, n + 1, Len(pipe))
      /\ chain' = [chain EXCEPT ![r] = S!Advance(@, n)]
      /\ operations' = operations /\ written' = written
  BY Zenon DEF S!ReadSome
<1>2. chain \in [S!Directions -> Seq(Nat)] /\ chain[r] \in Seq(Nat)
      /\ operations \in [S!Directions -> Seq(Seq(Nat))]
      /\ written \in Nat /\ pipe \in Seq(Nat) /\ bytes \in Seq(Nat)
      /\ bytes \o pipe = Counting(written)
  BY Zenon DEF StreamInv, StreamTypes, S!Directions
<1>3. Len(plan) \in Nat /\ plan = Counting(Len(plan))
  BY <1>2, RequestFacts, Zenon
<1> HIDE DEF plan
<1>4. \A k \in 1..n : k \in 1..Len(plan)
  BY ONLY <1>1, <1>3
<1>5. \A k \in 1..n : plan[k] = k
  BY <1>3, <1>4, Zenon DEF Counting
<1>6. \A p \in 1..n : filled(p) = {p}
  BY <1>5, Zenon
<1>7. found = [p \in 1..n |-> pipe[p]]
  <2> HIDE DEF filled
  <2> SUFFICES ASSUME NEW p \in 1..n
               PROVE  (IF filled(p) = {} THEN -1 ELSE pipe[CHOOSE k \in filled(p) : TRUE]) = pipe[p]
    BY Zenon
  <2>1. filled(p) # {} /\ (CHOOSE k \in filled(p) : TRUE) = p
    BY <1>6
  <2> QED
    BY <2>1, Zenon
<1> HIDE DEF found
<1>8. found \in Seq(Nat) /\ pipe' \in Seq(Nat) /\ found \o pipe' = pipe
  <2> DEFINE first == [p \in 1..n |-> pipe[p]]
             rest == SubSeq(pipe, n + 1, Len(pipe))
  <2>1. first \in Seq(Nat) /\ rest \in Seq(Nat) /\ first \o rest = pipe
    BY ONLY <1>1, <1>2, n \in Nat, SplitFacts, Zenon
  <2>2. found = first /\ pipe' = rest
    BY <1>1, <1>7, Zenon
  <2> HIDE DEF first, rest
  <2> QED
    BY ONLY <2>1, <2>2, Zenon
<1>9. (bytes \o found) \o pipe' = bytes \o (found \o pipe')
  <2>1. bytes \in Seq(Nat) /\ found \in Seq(Nat) /\ pipe' \in Seq(Nat)
    BY <1>2, <1>8, Zenon
  <2> QED
    BY ONLY <2>1, BytesAssociate, Zenon
<1>10. bytes' \o pipe' = Counting(written')
  BY <1>1, <1>2, <1>8, <1>9, Zenon
<1>11. bytes' \in Seq(Nat)
  BY ONLY <1>1, <1>2, <1>8
<1>12. chain' \in [S!Directions -> Seq(Nat)]
  BY <1>1, <1>2, AdvanceFacts, Zenon
<1> QED
  BY <1>1, <1>2, <1>8, <1>10, <1>11, <1>12, Zenon DEF StreamInv, StreamTypes

\* Every step keeps the invariant.
LEMMA StreamStep == StreamInv /\ [S!Next]_S!vars => StreamInv'
<1> SUFFICES ASSUME StreamInv, [S!Next]_S!vars PROVE StreamInv'
  BY Zenon
<1>1. operations \in [S!Directions -> Seq(Seq(Nat))] /\ chain \in [S!Directions -> Seq(Nat)]
  BY Zenon DEF StreamInv, StreamTypes
<1>2. ASSUME NEW d \in S!Directions, NEW lens \in Chains, S!Enqueue(d, lens) PROVE StreamInv'
  <2>1. operations' = [operations EXCEPT ![d] = Append(@, lens)]
        /\ chain' = chain /\ written' = written /\ pipe' = pipe /\ bytes' = bytes
    BY <1>2, Zenon DEF S!Enqueue
  <2>2. operations[d] \in Seq(Seq(Nat)) /\ lens \in Seq(Nat)
    BY <1>1, StreamConstants, Zenon
  <2>3. Append(operations[d], lens) \in Seq(Seq(Nat))
    BY ONLY <2>2
  <2>4. operations' \in [S!Directions -> Seq(Seq(Nat))]
    BY <1>1, <2>1, <2>3, Zenon
  <2> QED
    BY <2>1, <2>4, Zenon DEF StreamInv, StreamTypes
<1>3. ASSUME NEW d \in S!Directions, S!Pop(d) PROVE StreamInv'
  <2>1. operations' = [operations EXCEPT ![d] = Tail(@)] /\ chain' = [chain EXCEPT ![d] = Head(operations[d])]
        /\ operations[d] # <<>> /\ written' = written /\ pipe' = pipe /\ bytes' = bytes
    BY <1>3, Zenon DEF S!Pop
  <2>2. operations[d] \in Seq(Seq(Nat))
    BY <1>1, Zenon
  <2>3. Head(operations[d]) \in Seq(Nat) /\ Tail(operations[d]) \in Seq(Seq(Nat))
    BY ONLY <2>1, <2>2
  <2>4. operations' \in [S!Directions -> Seq(Seq(Nat))] /\ chain' \in [S!Directions -> Seq(Nat)]
    BY <1>1, <2>1, <2>3, Zenon
  <2> QED
    BY <2>1, <2>4, Zenon DEF StreamInv, StreamTypes
<1>4. ASSUME NEW n \in 1..RequestLimit, S!WriteSome(n) \/ S!ReadSome(n) PROVE StreamInv'
  <2>1. n \in Nat
    BY StreamConstants
  <2> QED
    BY <1>4, <2>1, WriteInOrder, ReadInOrder, Zenon
<1>5. CASE UNCHANGED S!vars
  BY <1>5, Zenon DEF S!vars, StreamInv, StreamTypes
<1> QED
  BY <1>2, <1>3, <1>4, <1>5, Zenon DEF S!Next

\* For all chains, limits of a request and of its entries: the reader finds
\* the bytes write_some reported, in order, over short counts and requests cut
\* in the middle of a segment, and a request is empty only when nothing is left.
THEOREM StreamsInOrder == S!Spec => []StreamInOrder
<1>1. S!Spec => []StreamInv
  BY StreamInit, StreamStep, PTL DEF S!Spec
<1> QED
  BY <1>1, StreamInvImplies, PTL

==============================================================================
