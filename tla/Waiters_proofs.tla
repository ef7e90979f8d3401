--------------------------- MODULE Waiters_proofs ---------------------------
(***************************************************************************)
(* The primitives on which coroutines wait, for any number of operations   *)
(* and clients and any bounds.  async_mutex: the lock is accounted for, no *)
(* waiter is stranded, and nobody barges in.  async_semaphore: permits are *)
(* conserved, none is idle while an operation waits, and they are granted  *)
(* in the order of the queue.                                              *)
(***************************************************************************)
EXTENDS MCWaiters, FiniteSetTheorems, TLAPS

------------------------------------------------------------------------------
(* Queues whose elements are distinct. *)

\* No element occurs twice.
Distinct(s) == \A j, k \in DOMAIN s : s[j] = s[k] => j = k

\* A new element at the end.
LEMMA AppendFacts ==
  ASSUME NEW T, NEW s \in Seq(T), Distinct(s), NEW e \in T, e \notin RangeOf(s)
  PROVE  /\ Append(s, e) \in Seq(T) /\ Len(Append(s, e)) = Len(s) + 1
         /\ Distinct(Append(s, e))
         /\ RangeOf(Append(s, e)) = RangeOf(s) \cup {e}
<1> DEFINE t == Append(s, e)
<1>1. /\ t \in Seq(T) /\ Len(t) = Len(s) + 1 /\ Len(s) \in Nat
      /\ DOMAIN s = 1..Len(s) /\ DOMAIN t = 1..(Len(s) + 1)
      /\ t[Len(s) + 1] = e /\ \A k \in 1..Len(s) : t[k] = s[k]
  OBVIOUS
<1> HIDE DEF t
<1>2. \A k \in 1..Len(s) : s[k] # e
  BY <1>1, Zenon DEF RangeOf
<1>3. Distinct(t)
  BY <1>1, <1>2 DEF Distinct
<1>4. RangeOf(t) = RangeOf(s) \cup {e}
  <2>1. \A x : x \in RangeOf(t) <=> x \in RangeOf(s) \cup {e}
    BY <1>1 DEF RangeOf
  <2> QED BY <2>1, Zenon
<1> QED BY <1>1, <1>3, <1>4, Zenon DEF t

\* One element taken out, the others in their order.
LEMMA EraseFrom ==
  ASSUME NEW T, NEW s \in Seq(T), Distinct(s), NEW k \in DOMAIN s,
         NEW t, t = [j \in 1..(Len(s) - 1) |-> IF j < k THEN s[j] ELSE s[j + 1]]
  PROVE  /\ t \in Seq(T) /\ Len(t) = Len(s) - 1
         /\ Distinct(t)
         /\ RangeOf(t) = RangeOf(s) \ {s[k]}
<1> DEFINE n == Len(s) - 1
<1>1. /\ n \in Nat /\ k \in 1..(n + 1) /\ DOMAIN s = 1..(n + 1)
      /\ \A j \in 1..(n + 1) : s[j] \in T
      /\ \A i, j \in 1..(n + 1) : s[i] = s[j] => i = j
  BY DEF Distinct
<1>2. t = [j \in 1..n |-> IF j < k THEN s[j] ELSE s[j + 1]]
  BY Zenon
<1> HIDE DEF n
<1>3. \A j \in 1..n : j \in 1..(n + 1) /\ j + 1 \in 1..(n + 1)
  BY <1>1
<1>4. /\ t \in [1..n -> T] /\ DOMAIN t = 1..n
      /\ \A j \in 1..n : t[j] = IF j < k THEN s[j] ELSE s[j + 1]
  BY <1>1, <1>2, <1>3, Zenon
<1>5. t \in Seq(T) /\ Len(t) = n
  BY <1>1, <1>4
<1>6. Distinct(t)
  BY <1>1, <1>3, <1>4 DEF Distinct
<1>7. ASSUME NEW x \in RangeOf(t) PROVE x \in RangeOf(s) \ {s[k]}
  BY <1>1, <1>3, <1>4 DEF RangeOf
<1>8. ASSUME NEW x \in RangeOf(s) \ {s[k]} PROVE x \in RangeOf(t)
  <2>1. PICK a \in 1..(n + 1) : s[a] = x
    BY <1>1, Zenon DEF RangeOf
  <2>2. CASE a < k
    <3>1. a \in 1..n
      BY <1>1, <2>2
    <3> QED BY <1>4, <2>1, <2>2, <3>1, Zenon DEF RangeOf
  <2>3. CASE a > k
    <3>1. a - 1 \in 1..n /\ ~(a - 1 < k) /\ (a - 1) + 1 = a
      BY <1>1, <2>3
    <3> QED BY <1>4, <2>1, <3>1, Zenon DEF RangeOf
  <2> QED BY <1>1, <2>1, <2>2, <2>3
<1> QED BY <1>5, <1>6, <1>7, <1>8, Zenon DEF n

\* The first p elements: there are p of them.
LEMMA PrefixFacts ==
  ASSUME NEW T, NEW s \in Seq(T), Distinct(s), NEW p \in 0..Len(s)
  PROVE  LET first == {s[k] : k \in 1..p} IN
         /\ IsFiniteSet(first) /\ Cardinality(first) = p
         /\ first \subseteq RangeOf(s)
         /\ p = Len(s) => first = RangeOf(s)
         /\ \A k \in DOMAIN s : s[k] \in first <=> k <= p
<1> DEFINE first == {s[k] : k \in 1..p}
           f == [k \in 1..p |-> s[k]]
<1>1. Len(s) \in Nat /\ DOMAIN s = 1..Len(s) /\ p \in Nat
  OBVIOUS
<1>2. /\ f \in [1..p -> first]
      /\ \A x \in first : \E k \in 1..p : f[k] = x
      /\ \A j, k \in 1..p : f[j] = f[k] => j = k
  BY <1>1 DEF Distinct
<1>3. f \in Bijection(1..p, first)
  BY <1>2, Zenon DEF Bijection, Injection, Surjection, IsInjective
<1>4. ExistsBijection(1..p, first)
  BY <1>3, Zenon DEF ExistsBijection
<1>5. Cardinality(first) = p /\ IsFiniteSet(first)
  BY <1>1, <1>4, FS_CountingElements, FS_NatBijection, Zenon
<1>6. first \subseteq RangeOf(s) /\ (p = Len(s) => first = RangeOf(s))
  <2>1. \A k \in 1..p : k \in DOMAIN s
    BY <1>1
  <2>2. p = Len(s) => 1..p = DOMAIN s
    BY <1>1, Zenon
  <2> QED BY <2>1, <2>2, Zenon DEF RangeOf
<1>7. \A k \in DOMAIN s : s[k] \in first <=> k <= p
  BY <1>1 DEF Distinct
<1> QED BY <1>5, <1>6, <1>7, Zenon

\* What is left when the first p elements are gone.
LEMMA DropFirst ==
  ASSUME NEW T, NEW s \in Seq(T), Distinct(s), NEW p \in 0..Len(s)
  PROVE  LET t == SubSeq(s, p + 1, Len(s)) IN
         /\ t \in Seq(T) /\ Len(t) = Len(s) - p
         /\ Distinct(t)
         /\ \A x : x \in RangeOf(t) <=> x \in RangeOf(s) /\ \A k \in 1..p : s[k] # x
<1> DEFINE t == SubSeq(s, p + 1, Len(s))
<1>1. /\ Len(s) \in Nat /\ DOMAIN s = 1..Len(s) /\ p \in Nat
      /\ \A i, j \in 1..Len(s) : s[i] = s[j] => i = j
  BY DEF Distinct
<1>2. /\ t \in Seq(T) /\ Len(t) = Len(s) - p /\ DOMAIN t = 1..(Len(s) - p)
      /\ \A k \in 1..(Len(s) - p) : t[k] = s[k + p] /\ k + p \in 1..Len(s)
  <2> DEFINE n == Len(s)
  <2>1. n \in Nat /\ p \in 0..n /\ \A k \in 1..(n - p) : k + p \in 1..n
    BY <1>1
  <2>2. p + 1 \in 1..(Len(s) + 1) /\ Len(s) \in ((p + 1) - 1)..Len(s)
    BY ONLY <2>1
  <2>3. t \in Seq(T)
    BY ONLY <2>1, s \in Seq(T)
  <2>4. Len(t) = n - p
    BY ONLY <2>1, s \in Seq(T)
  <2>5. \A k \in 1..(n - p) : t[k] = s[k + p]
    BY <1>1
  <2> QED BY <2>1, <2>3, <2>4, <2>5
<1> HIDE DEF t
<1>3. Distinct(t)
  <2> SUFFICES ASSUME NEW i \in 1..(Len(s) - p), NEW j \in 1..(Len(s) - p), t[i] = t[j] PROVE i = j
    BY <1>2, Zenon DEF Distinct
  <2>1. i + p = j + p
    BY <1>1, <1>2, Zenon
  <2> QED BY <1>1, <2>1
<1>4. ASSUME NEW x \in RangeOf(t) PROVE x \in RangeOf(s) \ {s[k] : k \in 1..p}
  <2>1. PICK j \in 1..(Len(s) - p) : t[j] = x
    BY <1>2, Zenon DEF RangeOf
  <2>2. x = s[j + p] /\ j + p \in 1..Len(s)
    BY <1>2, <2>1, Zenon
  <2>3. ASSUME NEW k \in 1..p, s[k] = x PROVE FALSE
    <3>1. k \in 1..Len(s)
      BY <1>1
    <3>2. k = j + p
      BY <1>1, <2>2, <2>3, <3>1, Zenon
    <3> QED BY <1>1, <3>2
  <2> QED BY <1>1, <2>2, <2>3, Zenon DEF RangeOf
<1>5. ASSUME NEW x \in RangeOf(s) \ {s[k] : k \in 1..p} PROVE x \in RangeOf(t)
  <2>1. PICK j \in 1..Len(s) : s[j] = x
    BY <1>1, Zenon DEF RangeOf
  <2>2. j \notin 1..p
    BY <2>1, Zenon
  <2>3. j - p \in 1..(Len(s) - p) /\ (j - p) + p = j
    BY <1>1, <2>2
  <2>4. t[j - p] = x
    BY <1>2, <2>1, <2>3, Zenon
  <2> QED BY <1>2, <2>3, <2>4, Zenon DEF RangeOf
<1> QED BY <1>2, <1>3, <1>4, <1>5, Zenon DEF t

USE MutexConstants

------------------------------------------------------------------------------
(* The mutex: the inductive invariant. *)

\* The wait queue lists the enqueued operations, each once.
QueueOK ==
  /\ waiters \in Seq(Ops)
  /\ Len(waiters) <= MaxWaiters
  /\ \A j, k \in DOMAIN waiters : waiters[j] = waiters[k] => j = k
  /\ RangeOf(waiters) = enqueued

FlagTypes ==
  /\ alive \in BOOLEAN
  /\ locked \in BOOLEAN
  /\ handoff \in Ops \cup {NoOp}
  /\ created \in SUBSET Ops /\ owned \in SUBSET Ops /\ suspended \in SUBSET Ops
  /\ enqueued \in SUBSET Ops /\ detached \in SUBSET Ops
  /\ observing \in SUBSET Ops /\ reserved \in SUBSET Ops
  /\ result \in [Ops -> Results \cup {"none"}]
  /\ ready \in SUBSET Ops
  /\ schedules \in [Ops -> Nat]
  /\ holders \in SUBSET (Ops \cup Clients)

\* Where an operation can be: not created, created, queued, scheduled, read or
\* destroyed, and which flags it has there.
PhasesOK ==
  /\ suspended \cup owned \cup observing \cup detached \cup ready \subseteq created
  /\ enqueued \subseteq suspended \cap owned
  /\ enqueued \cap ready = {}
  /\ suspended \cap (detached \cup observing) = {}
  /\ suspended \subseteq enqueued \cup ready
  /\ ready \subseteq suspended \cup detached
  /\ reserved \subseteq ready \cap suspended \cap owned
  /\ reserved \cap enqueued = {}
  /\ holders \cap Ops \subseteq observing
  /\ observing \cap detached = {}
  /\ \A o \in Ops :
       /\ schedules[o] \in {0, 1}
       /\ schedules[o] = 1 => o \in ready \cup observing \cup detached /\ o \notin enqueued
       /\ o \in ready => schedules[o] = 1
       /\ o \in reserved => result[o] = "none"
       /\ result[o] # "none" => o \in ready \cup observing \cup detached
       /\ o \in suspended => result[o] # "ok"

HandoffOK ==
  /\ alive => \A o \in reserved : handoff = o
  /\ alive /\ handoff # NoOp => handoff \in reserved
  /\ ~alive => enqueued = {} /\ reserved = {}
  /\ alive /\ enqueued # {} => locked

IInv == QueueOK /\ FlagTypes /\ PhasesOK /\ HandoffOK /\ LockAccounted

\* A new async_mutex satisfies the invariant.
LEMMA Initially == Init => IInv
<1> SUFFICES ASSUME Init PROVE IInv
  BY Zenon
<1>1. QueueOK
  BY DEF Init, QueueOK, RangeOf
<1>2. FlagTypes
  BY Zenon DEF Init, FlagTypes
<1>3. PhasesOK
  BY DEF Init, PhasesOK
<1>4. HandoffOK /\ LockAccounted
  BY Zenon DEF Init, HandoffOK, LockAccounted
<1> QED BY <1>1, <1>2, <1>3, <1>4, Zenon DEF IInv

\* What transfer_or_unlock does to a queue of resumable operations: the first
\* gets the reservation, or the queue was empty and the lock is free.
LEMMA TransferFacts ==
  ASSUME QueueOK, FlagTypes, PhasesOK, NEW gone \in SUBSET Ops, TransferOrUnlock(gone)
  PROVE  /\ QueueOK'
         /\ \/ \E o \in enqueued :
                  /\ enqueued' = enqueued \ {o}
                  /\ owned' = owned \ gone
                  /\ reserved' = (reserved \ gone) \cup {o}
                  /\ locked' = TRUE
                  /\ handoff' = o
                  /\ ready' = ready \cup {o}
                  /\ schedules' = [schedules EXCEPT ![o] = @ + 1]
            \/ /\ enqueued = {} /\ enqueued' = {}
               /\ owned' = owned \ gone
               /\ reserved' = reserved \ gone
               /\ handoff' = NoOp
               /\ locked' = FALSE
               /\ UNCHANGED <<ready, schedules>>
<1>1. \A k \in DOMAIN waiters : waiters[k] \in enqueued /\ Resumable(waiters[k])
  BY DEF QueueOK, RangeOf, PhasesOK, Resumable
<1>2. Len(waiters) \in Nat /\ DOMAIN waiters = 1..Len(waiters)
  BY DEF QueueOK
<1>3. CASE \E k \in DOMAIN waiters :
             /\ Resumable(waiters[k])
             /\ \A j \in 1..(k - 1) : ~Resumable(waiters[j])
             /\ waiters' = SubSeq(waiters, k + 1, Len(waiters))
             /\ enqueued' = enqueued \ {waiters[j] : j \in 1..k}
             /\ owned' = (owned \ {waiters[j] : j \in 1..(k - 1)}) \ gone
             /\ reserved' = (reserved \ gone) \cup {waiters[k]}
             /\ locked' = TRUE
             /\ handoff' = waiters[k]
             /\ ready' = ready \cup {waiters[k]}
             /\ schedules' = [schedules EXCEPT ![waiters[k]] = @ + 1]
  <2> PICK k \in DOMAIN waiters :
             /\ Resumable(waiters[k])
             /\ \A j \in 1..(k - 1) : ~Resumable(waiters[j])
             /\ waiters' = SubSeq(waiters, k + 1, Len(waiters))
             /\ enqueued' = enqueued \ {waiters[j] : j \in 1..k}
             /\ owned' = (owned \ {waiters[j] : j \in 1..(k - 1)}) \ gone
             /\ reserved' = (reserved \ gone) \cup {waiters[k]}
             /\ locked' = TRUE
             /\ handoff' = waiters[k]
             /\ ready' = ready \cup {waiters[k]}
             /\ schedules' = [schedules EXCEPT ![waiters[k]] = @ + 1]
    BY <1>3, Zenon
  <2>1. k = 1
    <3> SUFFICES ASSUME k # 1 PROVE FALSE
      BY Zenon
    <3>1. 1 \in 1..(k - 1) /\ 1 \in DOMAIN waiters
      BY <1>2
    <3> QED BY <3>1, <1>1, Zenon
  <2> DEFINE o == waiters[1]
  <2>2. o \in enqueued /\ {waiters[j] : j \in 1..k} = {o} /\ {waiters[j] : j \in 1..(k - 1)} = {}
    BY <1>1, <2>1
  <2>3. enqueued' = enqueued \ {o} /\ owned' = owned \ gone
    BY <2>2, Zenon
  <2>4. /\ waiters' \in Seq(Ops)
        /\ DOMAIN waiters' = 1..(Len(waiters) - 1)
        /\ Len(waiters') = Len(waiters) - 1
        /\ \A j \in 1..(Len(waiters) - 1) : waiters'[j] = waiters[j + 1]
    BY <1>2, <2>1 DEF QueueOK
  <2>5. QueueOK'
    <3>1. \A i, j \in DOMAIN waiters' : waiters'[i] = waiters'[j] => i = j
      <4> SUFFICES ASSUME NEW i \in DOMAIN waiters', NEW j \in DOMAIN waiters',
                          waiters'[i] = waiters'[j]
                   PROVE  i = j
        BY Zenon
      <4>0. i \in 1..(Len(waiters) - 1) /\ j \in 1..(Len(waiters) - 1)
        BY <2>4, Zenon
      <4>1. i + 1 \in DOMAIN waiters /\ j + 1 \in DOMAIN waiters /\ i \in Int /\ j \in Int
        <5>1. Len(waiters) \in Nat /\ DOMAIN waiters = 1..Len(waiters)
          BY DEF QueueOK
        <5> QED BY ONLY <4>0, <5>1
      <4>2. waiters[i + 1] = waiters[j + 1]
        BY <2>4, Zenon
      <4>3. i + 1 = j + 1
        BY <4>1, <4>2, Zenon DEF QueueOK
      <4> QED BY <4>1, <4>3
    <3>2. Len(waiters') <= MaxWaiters
      BY <1>2, <2>4, SMTT(60) DEF QueueOK
    <3>3. RangeOf(waiters') \subseteq enqueued \ {o}
      <4> SUFFICES ASSUME NEW j \in DOMAIN waiters' PROVE waiters'[j] \in enqueued \ {o}
        BY Zenon DEF RangeOf
      <4>0. j \in 1..(Len(waiters) - 1) /\ waiters'[j] = waiters[j + 1]
        BY <2>4, Zenon
      <4>1. j + 1 \in DOMAIN waiters /\ j + 1 # 1 /\ 1 \in DOMAIN waiters
        BY <1>2, <4>0
      <4> QED BY <4>0, <4>1, <1>1, Zenon DEF QueueOK
    <3>4. enqueued \ {o} \subseteq RangeOf(waiters')
      <4> SUFFICES ASSUME NEW w \in enqueued \ {o} PROVE w \in RangeOf(waiters')
        BY Zenon
      <4>1. PICK j \in DOMAIN waiters : waiters[j] = w
        BY Zenon DEF QueueOK, RangeOf
      <4>2. j - 1 \in DOMAIN waiters' /\ waiters'[j - 1] = w
        <5>1. waiters \in Seq(Ops) /\ Len(waiters) \in Nat /\ DOMAIN waiters = 1..Len(waiters)
          BY DEF QueueOK
        <5>2. j # 1
          BY <4>1, Zenon
        <5>3. j - 1 \in 1..(Len(waiters) - 1) /\ (j - 1) + 1 = j
          BY ONLY <5>1, <5>2, j \in DOMAIN waiters
        <5> QED BY <2>4, <4>1, <5>3, Zenon
      <4> QED BY <4>2, Zenon DEF RangeOf
    <3> QED BY <2>3, <2>4, <3>1, <3>2, <3>3, <3>4, ZenonT(60) DEF QueueOK
  <2> HIDE DEF o
  <2>6. waiters[k] = o
    BY <2>1, Zenon DEF o
  <2>7. /\ reserved' = (reserved \ gone) \cup {o}
        /\ locked' = TRUE
        /\ handoff' = o
        /\ ready' = ready \cup {o}
        /\ schedules' = [schedules EXCEPT ![o] = @ + 1]
    BY <2>6, Zenon
  <2>8. o \in enqueued
    BY <2>2, Zenon
  <2> QED BY <2>3, <2>5, <2>7, <2>8, Zenon
<1>4. CASE /\ \A k \in DOMAIN waiters : ~Resumable(waiters[k])
           /\ waiters' = <<>>
           /\ enqueued' = enqueued \ RangeOf(waiters)
           /\ owned' = (owned \ RangeOf(waiters)) \ gone
           /\ reserved' = reserved \ gone
           /\ handoff' = NoOp
           /\ locked' = FALSE
           /\ UNCHANGED <<ready, schedules>>
  <2>1. RangeOf(waiters) = {}
    BY <1>1, <1>4, Zenon DEF RangeOf
  <2>2. enqueued = {}
    BY <2>1, Zenon DEF QueueOK
  <2>3. QueueOK'
    <3>1. RangeOf(waiters') = {} /\ Len(waiters') = 0 /\ DOMAIN waiters' = {}
      BY <1>4 DEF RangeOf
    <3> QED BY <1>4, <2>2, <3>1 DEF QueueOK
  <2> QED BY <1>4, <2>1, <2>2, <2>3, Zenon
<1> QED BY <1>3, <1>4, Zenon DEF TransferOrUnlock

------------------------------------------------------------------------------
(* The mutex: one lemma per call. *)

\* A step that leaves the queue and its set alone keeps QueueOK.
LEMMA QueueUnchanged == QueueOK /\ UNCHANGED <<waiters, enqueued>> => QueueOK'
  BY Zenon DEF QueueOK, RangeOf

\* lock() only creates the operation.
LEMMA LockStep == ASSUME IInv, NEW o \in Ops, Lock(o) PROVE IInv'
<1> USE DEF IInv, Lock
<1>1. QueueOK'
  BY QueueUnchanged, Zenon
<1>2. FlagTypes'
  BY Zenon DEF FlagTypes
<1>3. PhasesOK'
  BY Zenon DEF PhasesOK, FlagTypes
<1>4. HandoffOK' /\ LockAccounted'
  BY Zenon DEF HandoffOK, LockAccounted
<1> QED BY <1>1, <1>2, <1>3, <1>4, Zenon

\* try_lock takes a free lock.
LEMMA TryLockStep == ASSUME IInv, NEW c \in Clients, TryLock(c) PROVE IInv'
<1> USE DEF IInv, TryLock, waiterVars
<1>1. QueueOK'
  BY QueueUnchanged, Zenon
<1>2. FlagTypes'
  BY Zenon DEF FlagTypes
<1>3. PhasesOK'
  BY DEF PhasesOK, FlagTypes
<1>4. HandoffOK' /\ LockAccounted'
  BY Zenon DEF HandoffOK, LockAccounted
<1> QED BY <1>1, <1>2, <1>3, <1>4, Zenon

\* An operation that suspends goes to the end of the queue.
LEMMA EnqueueKeepsQueue ==
  ASSUME QueueOK, FlagTypes, NEW o \in Ops, o \notin enqueued, ~QueueFull,
         waiters' = Append(waiters, o), enqueued' = enqueued \cup {o}
  PROVE  QueueOK'
<1> DEFINE t == Append(waiters, o)
<1>1. /\ t \in Seq(Ops) /\ Len(t) = Len(waiters) + 1
      /\ Distinct(t) /\ RangeOf(t) = RangeOf(waiters) \cup {o}
  BY AppendFacts, Zenon DEF QueueOK, Distinct
<1>2. Len(waiters) + 1 <= MaxWaiters
  BY DEF QueueFull, QueueOK
<1> HIDE DEF t
<1>3. waiters' = t
  BY Zenon DEF t
<1> QED BY <1>1, <1>2, <1>3, Zenon DEF QueueOK, Distinct

\* co_await: every outcome of try_complete_immediate and enqueue_waiter.
LEMMA AwaitStep == ASSUME IInv, NEW o \in Ops, NEW scheduler \in BOOLEAN, Await(o, scheduler) PROVE IInv'
<1> USE DEF IInv
<1>0. /\ o \in created /\ o \notin observing \cup detached \cup suspended
      /\ UNCHANGED <<alive, handoff, created, detached, reserved, ready, schedules>>
  BY Zenon DEF Await
<1>1. o \notin enqueued /\ o \notin reserved /\ o \notin ready /\ o \notin holders
  BY <1>0, Zenon DEF PhasesOK
<1>2. ASSUME NEW r \in Results, ResumeInline(o, r), UNCHANGED <<waiters, suspended, enqueued>>,
             \/ r # "ok" /\ UNCHANGED locked
             \/ r = "ok" /\ ~locked /\ HasOwner(o) /\ locked' = TRUE
      PROVE  IInv'
  <2> USE <1>0, <1>1, <1>2 DEF ResumeInline
  <2>1. QueueOK'
    BY QueueUnchanged, Zenon
  <2>2. FlagTypes'
    BY Zenon DEF FlagTypes
  <2>3. PhasesOK'
    BY DEF PhasesOK, FlagTypes
  <2>4. HandoffOK'
    BY Zenon DEF HandoffOK
  <2>5. LockAccounted'
    BY Zenon DEF LockAccounted, HasOwner
  <2> QED BY <2>1, <2>2, <2>3, <2>4, <2>5, Zenon
<1>3. ASSUME HasOwner(o), locked, ~QueueFull,
             suspended' = suspended \cup {o}, enqueued' = enqueued \cup {o},
             waiters' = Append(waiters, o),
             UNCHANGED <<locked, owned, result, observing, holders>>
      PROVE  IInv'
  <2> USE <1>0, <1>1, <1>3 DEF HasOwner
  <2>1. QueueOK'
    BY EnqueueKeepsQueue, Zenon
  <2>2. FlagTypes'
    BY Zenon DEF FlagTypes
  <2>a. schedules[o] = 0
    BY Zenon DEF PhasesOK
  <2>b. result[o] = "none"
    BY Zenon DEF PhasesOK
  <2>3. PhasesOK'
    BY <2>a, <2>b DEF PhasesOK, FlagTypes
  <2>4. HandoffOK' /\ LockAccounted'
    BY Zenon DEF HandoffOK, LockAccounted
  <2> QED BY <2>1, <2>2, <2>3, <2>4, Zenon
<1> QED BY <1>2, <1>3, Zenon DEF Await, Results

\* unlock hands the lock over or frees it.
LEMMA UnlockStep == ASSUME IInv, NEW h \in Ops \cup Clients, Unlock(h) PROVE IInv'
<1> USE DEF IInv
<1>0. /\ h \in holders /\ alive /\ locked
      /\ holders' = holders \ {h}
      /\ TransferOrUnlock({})
      /\ UNCHANGED <<alive, created, suspended, result, detached, observing>>
  BY Zenon DEF Unlock
<1>1. QueueOK'
  BY <1>0, TransferFacts, Zenon
<1>2. reserved = {} /\ holders = {h}
  BY <1>0, Zenon DEF LockAccounted
<1>3. ASSUME NEW o \in enqueued,
             enqueued' = enqueued \ {o}, owned' = owned \ {}, reserved' = (reserved \ {}) \cup {o},
             locked' = TRUE, handoff' = o, ready' = ready \cup {o},
             schedules' = [schedules EXCEPT ![o] = @ + 1]
      PROVE  FlagTypes' /\ PhasesOK' /\ HandoffOK' /\ LockAccounted'
  <2> USE <1>0, <1>2, <1>3
  <2>1. o \in Ops /\ schedules[o] = 0 /\ result[o] = "none"
    BY Zenon DEF PhasesOK, FlagTypes
  <2>2. FlagTypes'
    BY <2>1 DEF FlagTypes
  <2>3. PhasesOK'
    BY <2>1 DEF PhasesOK, FlagTypes
  <2>4. HandoffOK' /\ LockAccounted'
    BY Zenon DEF HandoffOK, LockAccounted
  <2> QED BY <2>2, <2>3, <2>4, Zenon
<1>4. ASSUME enqueued = {}, enqueued' = {}, owned' = owned \ {}, reserved' = reserved \ {},
             handoff' = NoOp, locked' = FALSE, UNCHANGED <<ready, schedules>>
      PROVE  FlagTypes' /\ PhasesOK' /\ HandoffOK' /\ LockAccounted'
  <2> USE <1>0, <1>2, <1>4
  <2>2. FlagTypes'
    BY Zenon DEF FlagTypes
  <2>3. PhasesOK'
    BY ZenonT(60) DEF PhasesOK, FlagTypes
  <2>4. HandoffOK' /\ LockAccounted'
    BY Zenon DEF HandoffOK, LockAccounted
  <2> QED BY <2>2, <2>3, <2>4, Zenon
<1>5. FlagTypes' /\ PhasesOK' /\ HandoffOK' /\ LockAccounted'
  BY <1>0, <1>3, <1>4, TransferFacts, Zenon
<1> QED BY <1>1, <1>5, Zenon

\* resume_waiter with complete_reserved_waiter and await_resume.
LEMMA ResumeStep == ASSUME IInv, NEW o \in Ops, Resume(o) PROVE IInv'
<1> USE DEF IInv
<1>0. /\ o \in ready /\ ready' = ready \ {o}
      /\ UNCHANGED <<alive, locked, waiters, created, enqueued, detached, schedules>>
  BY Zenon DEF Resume
<1>1. QueueOK'
  BY <1>0, QueueUnchanged, Zenon
<1>2. CASE o \in detached \cup observing \/ o \notin suspended
  <2>1. UNCHANGED <<suspended, result, observing, reserved, owned, handoff, holders>>
    BY <1>2, Zenon DEF Resume
  <2> USE <1>0, <1>2, <2>1
  <2>2. o \notin suspended /\ o \notin reserved
    BY Zenon DEF PhasesOK
  <2>3. FlagTypes'
    BY Zenon DEF FlagTypes
  <2>4. PhasesOK'
    BY <2>2 DEF PhasesOK, FlagTypes
  <2>5. HandoffOK' /\ LockAccounted'
    BY Zenon DEF HandoffOK, LockAccounted
  <2> QED BY <1>1, <2>3, <2>4, <2>5, Zenon
<1>3. CASE ~(o \in detached \cup observing \/ o \notin suspended)
  <2> DEFINE r == IF result[o] # "none" THEN result[o]
                  ELSE IF o \in reserved /\ HasOwner(o) THEN "ok" ELSE "invalid_state"
  <2>1. /\ result' = [result EXCEPT ![o] = r]
        /\ suspended' = suspended \ {o}
        /\ observing' = observing \cup {o}
        /\ reserved' = reserved \ {o}
        /\ owned' = owned \ {o}
        /\ handoff' = IF o \in reserved /\ HasOwner(o) /\ handoff = o THEN NoOp ELSE handoff
        /\ holders' = IF r = "ok" THEN holders \cup {o} ELSE holders
    BY <1>3, Zenon DEF Resume
  <2>2. r \in Results
    BY Zenon DEF FlagTypes, Results
  <2>3. r = "ok" <=> o \in reserved /\ alive
    <3>1. result[o] # "ok"
      BY <1>3, Zenon DEF PhasesOK
    <3>2. o \in reserved => result[o] = "none" /\ o \in owned
      BY Zenon DEF PhasesOK
    <3> QED BY <3>1, <3>2, Zenon DEF HasOwner
  <2> HIDE DEF r
  <2> USE <1>0, <1>3, <2>1
  <2>4. o \notin enqueued
    BY Zenon DEF PhasesOK
  <2>5. FlagTypes'
    BY <2>2, Zenon DEF FlagTypes
  <2>6. PhasesOK'
    BY <2>2, <2>4 DEF PhasesOK, FlagTypes, Results
  <2>7. HandoffOK'
    <3>1. alive /\ o \in reserved => HasOwner(o) /\ handoff = o
      BY Zenon DEF HandoffOK, PhasesOK, HasOwner
    <3> QED BY <3>1, Zenon DEF HandoffOK
  <2>8. LockAccounted'
    BY <2>3, Zenon DEF LockAccounted
  <2> QED BY <1>1, <2>5, <2>6, <2>7, <2>8, Zenon
<1> QED BY <1>2, <1>3, Zenon

\* erase_waiter removes one operation and keeps the queue a list of the rest.
LEMMA EraseFacts ==
  ASSUME QueueOK, FlagTypes, NEW o \in enqueued, EraseWaiter(o), enqueued' = enqueued \ {o}
  PROVE  QueueOK'
<1>1. PICK k \in DOMAIN waiters :
        /\ waiters[k] = o
        /\ waiters' = [j \in 1..(Len(waiters) - 1) |-> IF j < k THEN waiters[j] ELSE waiters[j + 1]]
  BY Zenon DEF EraseWaiter
<1>2. /\ waiters' \in Seq(Ops) /\ Len(waiters') = Len(waiters) - 1
      /\ Distinct(waiters') /\ RangeOf(waiters') = RangeOf(waiters) \ {o}
  <2>1. waiters \in Seq(Ops) /\ Distinct(waiters)
    BY Zenon DEF QueueOK, Distinct
  <2> QED BY <1>1, <2>1, EraseFrom
<1>3. Len(waiters) - 1 <= MaxWaiters
  BY DEF QueueOK
<1> QED BY <1>2, <1>3, Zenon DEF QueueOK, Distinct, RangeOf

\* Destroying an operation leaves the queue or gives the reservation back.
LEMMA DetachStep == ASSUME IInv, NEW o \in Ops, Detach(o) PROVE IInv'
<1> USE DEF IInv
<1>0. /\ o \in created /\ o \notin observing \cup detached
      /\ detached' = detached \cup {o}
      /\ suspended' = suspended \ {o}
      /\ UNCHANGED <<alive, created, result, observing, holders>>
  BY Zenon DEF Detach
<1>1. CASE /\ HasOwner(o) /\ o \in enqueued
           /\ EraseWaiter(o)
           /\ enqueued' = enqueued \ {o}
           /\ owned' = owned \ {o}
           /\ UNCHANGED <<locked, reserved, handoff, ready, schedules>>
  <2> USE <1>0, <1>1
  <2>1. QueueOK'
    BY EraseFacts, Zenon
  <2>2. FlagTypes'
    BY Zenon DEF FlagTypes
  <2>3. PhasesOK'
    BY DEF PhasesOK, FlagTypes
  <2>4. HandoffOK' /\ LockAccounted'
    BY Zenon DEF HandoffOK, LockAccounted
  <2> QED BY <2>1, <2>2, <2>3, <2>4, Zenon
<1>2. CASE /\ HasOwner(o) /\ o \notin enqueued /\ o \in reserved
           /\ TransferOrUnlock({o})
  <2> USE <1>0
  <2>0. alive /\ o \in reserved /\ o \notin enqueued /\ TransferOrUnlock({o})
    BY <1>2, Zenon DEF HasOwner
  <2>1. QueueOK'
    BY <2>0, TransferFacts, Zenon
  <2>2. reserved = {o} /\ holders = {}
    BY <2>0, Zenon DEF LockAccounted
  <2>3. ASSUME NEW w \in enqueued,
               enqueued' = enqueued \ {w}, owned' = owned \ {o}, reserved' = (reserved \ {o}) \cup {w},
               locked' = TRUE, handoff' = w, ready' = ready \cup {w},
               schedules' = [schedules EXCEPT ![w] = @ + 1]
        PROVE  FlagTypes' /\ PhasesOK' /\ HandoffOK' /\ LockAccounted'
    <3> USE <2>0, <2>2, <2>3
    <3>1. w \in Ops /\ schedules[w] = 0 /\ result[w] = "none" /\ w # o
      BY Zenon DEF PhasesOK, FlagTypes
    <3>2. FlagTypes'
      BY <3>1 DEF FlagTypes
    <3>3. PhasesOK'
      BY <3>1 DEF PhasesOK, FlagTypes
    <3>4. HandoffOK' /\ LockAccounted'
      BY Zenon DEF HandoffOK, LockAccounted
    <3> QED BY <3>2, <3>3, <3>4, Zenon
  <2>4. ASSUME enqueued = {}, enqueued' = {}, owned' = owned \ {o}, reserved' = reserved \ {o},
               handoff' = NoOp, locked' = FALSE, UNCHANGED <<ready, schedules>>
        PROVE  FlagTypes' /\ PhasesOK' /\ HandoffOK' /\ LockAccounted'
    <3> USE <2>0, <2>2, <2>4
    <3>2. FlagTypes'
      BY Zenon DEF FlagTypes
    <3>3. PhasesOK'
      BY DEF PhasesOK, FlagTypes
    <3>4. HandoffOK' /\ LockAccounted'
      BY Zenon DEF HandoffOK, LockAccounted
    <3> QED BY <3>2, <3>3, <3>4, Zenon
  <2> HIDE <1>0
  <2>5. FlagTypes' /\ PhasesOK' /\ HandoffOK' /\ LockAccounted'
    <3> DEFINE goal == FlagTypes' /\ PhasesOK' /\ HandoffOK' /\ LockAccounted'
    <3> HIDE DEF goal
    <3>1. {o} \in SUBSET Ops
      BY Zenon
    <3>2. goal
      BY <2>0, <2>3, <2>4, <3>1, TransferFacts, Zenon DEF goal
    <3> QED BY <3>2, Zenon DEF goal
  <2> QED BY <2>1, <2>5, Zenon
<1>3. CASE /\ ~HasOwner(o) \/ o \notin enqueued \cup reserved
           /\ owned' = owned \ {o}
           /\ UNCHANGED <<locked, waiters, enqueued, reserved, handoff, ready, schedules>>
  <2> USE <1>0, <1>3
  <2>0. o \notin enqueued /\ o \notin reserved
    BY Zenon DEF HandoffOK, PhasesOK, HasOwner
  <2>1. QueueOK'
    BY QueueUnchanged, Zenon
  <2>2. FlagTypes'
    BY Zenon DEF FlagTypes
  <2>3. PhasesOK'
    BY <2>0 DEF PhasesOK, FlagTypes
  <2>4. HandoffOK' /\ LockAccounted'
    BY Zenon DEF HandoffOK, LockAccounted
  <2> QED BY <2>1, <2>2, <2>3, <2>4, Zenon
<1> QED BY <1>1, <1>2, <1>3, Zenon DEF Detach

\* close_state fails the queued waiters and the one holding the reservation.
LEMMA DestroyStep == ASSUME IInv, Destroy PROVE IInv'
<1> USE DEF IInv
<1> DEFINE failing == {o \in RangeOf(waiters) : Resumable(o)}
           dropped == {o \in {handoff} \ {NoOp} :
                         o \in reserved /\ o \notin detached \cup observing /\ result[o] = "none"}
<1>1. failing = enqueued
  BY Zenon DEF QueueOK, PhasesOK, Resumable
<1>2. dropped = reserved /\ RangeOf(waiters) = enqueued
  BY DEF Destroy, QueueOK, PhasesOK, HandoffOK, FlagTypes
<1>3. /\ alive /\ alive' = FALSE
      /\ reserved' = reserved \ dropped
      /\ owned' = owned \ (enqueued \cup dropped)
      /\ result' = [o \in Ops |-> IF o \in failing \cup dropped /\ result[o] = "none"
                                  THEN "invalid_state" ELSE result[o]]
      /\ enqueued' = enqueued \ enqueued
      /\ waiters' = <<>>
      /\ handoff' = NoOp
      /\ ready' = ready \cup failing
      /\ schedules' = [o \in Ops |-> IF o \in failing THEN schedules[o] + 1 ELSE schedules[o]]
      /\ UNCHANGED <<locked, created, suspended, detached, observing, holders>>
  BY <1>2, ZenonT(60) DEF Destroy
<1> HIDE DEF failing, dropped
<1> USE <1>1, <1>2, <1>3
<1>4. QueueOK'
  <2>1. waiters' \in Seq(Ops) /\ Len(waiters') = 0 /\ DOMAIN waiters' = {} /\ enqueued' = {}
    OBVIOUS
  <2> QED BY <2>1 DEF QueueOK, RangeOf
<1>5. FlagTypes'
  <2>1. result' \in [Ops -> Results \cup {"none"}]
    BY Zenon DEF FlagTypes, Results
  <2>2. schedules' \in [Ops -> Nat]
    BY DEF FlagTypes
  <2>3. alive' \in BOOLEAN /\ locked' \in BOOLEAN /\ handoff' \in Ops \cup {NoOp}
        /\ ready' \in SUBSET Ops
    BY Zenon DEF FlagTypes
  <2> QED BY <2>1, <2>2, <2>3, Zenon DEF FlagTypes
<1>6. PhasesOK'
  BY DEF PhasesOK, FlagTypes
<1>7. HandoffOK' /\ LockAccounted'
  BY Zenon DEF HandoffOK, LockAccounted
<1> QED BY <1>4, <1>5, <1>6, <1>7, Zenon

\* Every step of the mutex keeps the invariant.
LEMMA InvStep == IInv /\ [Next]_vars => IInv'
<1> SUFFICES ASSUME IInv, [Next]_vars PROVE IInv'
  BY Zenon
<1>1. CASE UNCHANGED vars
  <2> USE <1>1 DEF vars, waiterVars, IInv
  <2>1. QueueOK'
    BY QueueUnchanged, Zenon
  <2>2. FlagTypes' /\ PhasesOK'
    BY Zenon DEF FlagTypes, PhasesOK
  <2>3. HandoffOK' /\ LockAccounted'
    BY Zenon DEF HandoffOK, LockAccounted
  <2> QED BY <2>1, <2>2, <2>3, Zenon
<1> QED BY <1>1, LockStep, AwaitStep, TryLockStep, UnlockStep, ResumeStep, DetachStep,
           DestroyStep, Zenon DEF Next

\* The wait queue, the flags of every operation and the reservation stay
\* consistent for any number of operations.
THEOREM Invariance == Spec => []IInv
  BY Initially, InvStep, PTL DEF Spec

\* The state has its type; in particular the queue never exceeds max_waiters.
THEOREM TypeCorrect == Spec => []TypeOK
<1>1. IInv => TypeOK
  BY Zenon DEF IInv, QueueOK, FlagTypes, TypeOK
<1> QED BY <1>1, Invariance, PTL

\* The lock is held or reserved by at most one party, and locked says so:
\* unlock, detach_waiter and transfer_or_unlock neither leak nor double it.
THEOREM LockIsAccounted == Spec => []LockAccounted
<1>1. IInv => LockAccounted
  BY Zenon DEF IInv
<1> QED BY <1>1, Invariance, PTL

\* No operation waits for a free lock, is forgotten or is scheduled twice.
THEOREM NobodyStranded == Spec => []NoWaiterStranded
<1>1. IInv => NoWaiterStranded
  <2> SUFFICES ASSUME IInv PROVE NoWaiterStranded
    BY Zenon
  <2>1. alive /\ waiters # <<>> => locked
    <3>1. waiters # <<>> => 1 \in DOMAIN waiters
      BY DEF IInv, QueueOK
    <3> QED BY <3>1, ZenonT(60) DEF IInv, QueueOK, RangeOf, HandoffOK
  <2>2. \A o \in suspended : o \in RangeOf(waiters) \cup ready
    BY Zenon DEF IInv, QueueOK, PhasesOK
  <2>3. \A o \in Ops : schedules[o] <= 1
    BY DEF IInv, PhasesOK
  <2> QED BY <2>1, <2>2, <2>3, Zenon DEF NoWaiterStranded
<1> QED BY <1>1, Invariance, PTL

\* A newcomer gets the lock only from a mutex that nobody waits for; a waiter
\* gets it only through the reservation made for it.
THEOREM NobodyBarges == Spec => NoBarging
<1> DEFINE Fair == \A h \in holders' \ holders :
                     h \in reserved \/ (waiters = <<>> /\ reserved = {} /\ holders = {})
<1>1. IInv /\ [Next]_vars => [Fair]_vars
  <2> SUFFICES ASSUME IInv, Next PROVE Fair
    BY Zenon
  <2>1. alive /\ ~locked => waiters = <<>> /\ reserved = {} /\ holders = {}
    <3>1. waiters # <<>> => 1 \in DOMAIN waiters
      BY DEF IInv, QueueOK
    <3>2. alive /\ ~locked => waiters = <<>>
      BY <3>1, ZenonT(60) DEF IInv, QueueOK, RangeOf, HandoffOK
    <3> QED BY <3>2, Zenon DEF IInv, LockAccounted
  <2>2. ASSUME NEW o \in Ops, Lock(o) \/ Detach(o) PROVE Fair
    BY <2>2, Zenon DEF Lock, Detach
  <2>3. ASSUME NEW o \in Ops, Resume(o) PROVE Fair
    <3>1. o \in suspended => result[o] # "ok"
      BY Zenon DEF IInv, PhasesOK
    <3> QED BY <2>3, <3>1, Zenon DEF Resume
  <2>4. ASSUME NEW o \in Ops, NEW scheduler \in BOOLEAN, Await(o, scheduler) PROVE Fair
    BY <2>1, <2>4, Zenon DEF Await, ResumeInline, HasOwner
  <2>5. ASSUME NEW c \in Clients, TryLock(c) PROVE Fair
    BY <2>1, <2>5, Zenon DEF TryLock
  <2>6. ASSUME NEW h \in Ops \cup Clients, Unlock(h) PROVE Fair
    BY <2>6, Zenon DEF Unlock
  <2>7. CASE Destroy
    BY <2>7, Zenon DEF Destroy
  <2> QED BY <2>2, <2>3, <2>4, <2>5, <2>6, <2>7, Zenon DEF Next
<1> QED BY <1>1, Invariance, PTL DEF Spec, NoBarging

HIDE MutexConstants

------------------------------------------------------------------------------
(* The semaphore: the inductive invariant. *)

\* The wait queue lists the enqueued operations, each once.
SQueueOK ==
  /\ sWaiters \in Seq(AcquireOps)
  /\ Len(sWaiters) <= MaxWaiters
  /\ Distinct(sWaiters)
  /\ RangeOf(sWaiters) = sEnqueued

SFlagTypes ==
  /\ sAlive \in BOOLEAN
  /\ sCreated \in SUBSET AcquireOps /\ sOwned \in SUBSET AcquireOps
  /\ sSuspended \in SUBSET AcquireOps /\ sEnqueued \in SUBSET AcquireOps
  /\ sDetached \in SUBSET AcquireOps /\ sObserving \in SUBSET AcquireOps
  /\ sReserved \in SUBSET AcquireOps /\ sReady \in SUBSET AcquireOps
  /\ sResult \in [AcquireOps -> S!Results \cup {"none"}]
  /\ sSchedules \in [AcquireOps -> Nat]

\* Where an operation can be, and which flags it has there.  A reservation
\* outlives the semaphore, so what it implies is stated for a live one only.
SPhasesOK ==
  /\ sSuspended \cup sOwned \cup sObserving \cup sDetached \cup sReady \subseteq sCreated
  /\ sEnqueued \subseteq sSuspended \cap sOwned
  /\ sEnqueued \cap sReady = {}
  /\ sSuspended \cap (sDetached \cup sObserving) = {}
  /\ sSuspended \subseteq sEnqueued \cup sReady
  /\ sReady \subseteq sSuspended \cup sDetached
  /\ sObserving \cap sDetached = {}
  /\ sAlive => sReserved \subseteq sReady \cap sSuspended \cap sOwned
  /\ ~sAlive => sEnqueued = {}
  /\ \A o \in AcquireOps :
       /\ sSchedules[o] \in {0, 1}
       /\ sSchedules[o] = 1 => o \in sReady \cup sObserving \cup sDetached /\ o \notin sEnqueued
       /\ o \in sReady => sSchedules[o] = 1
       /\ sResult[o] # "none" => o \in sReady \cup sObserving \cup sDetached
       /\ sAlive /\ o \in sSuspended => (sResult[o] = "ok" <=> o \in sReserved)

\* Permits are somewhere, and idle ones only while nobody is queued.
PermitAccount ==
  /\ permits \in 0..MaxPermits /\ taken \in Nat /\ issued \in Nat /\ saturated \in Nat
  /\ IsFiniteSet(sReserved)
  /\ sAlive => permits + Cardinality(sReserved) + taken + saturated = issued
  /\ sAlive /\ permits # 0 => sEnqueued = {}

SemInv == SQueueOK /\ SFlagTypes /\ SPhasesOK /\ PermitAccount

\* A new async_semaphore satisfies the invariant.
LEMMA SemInit == S!Init => SemInv
<1> SUFFICES ASSUME S!Init PROVE SemInv
  BY Zenon
<1> USE SemaphoreConstants, MutexConstants DEF S!Init
<1>1. sWaiters = <<>> /\ DOMAIN sWaiters = {} /\ Len(sWaiters) = 0
  OBVIOUS
<1>2. SQueueOK
  BY <1>1 DEF SQueueOK, Distinct, RangeOf
<1>3. SFlagTypes
  BY Zenon DEF SFlagTypes
<1>4. SPhasesOK
  BY DEF SPhasesOK
<1>5. PermitAccount
  BY FS_EmptySet DEF PermitAccount
<1> QED BY <1>2, <1>3, <1>4, <1>5, Zenon DEF SemInv

\* A step that leaves the queue and its set alone keeps SQueueOK.
LEMMA SQueueUnchanged == SQueueOK /\ UNCHANGED <<sWaiters, sEnqueued>> => SQueueOK'
  BY Zenon DEF SQueueOK, RangeOf, Distinct

\* add_permits_saturating moves n permits to the available and the cut-off ones.
LEMMA AddPermits ==
  ASSUME PermitAccount, NEW n \in Nat, S!AddPermitsSaturating(n)
  PROVE  /\ permits' \in 0..MaxPermits /\ saturated' \in Nat
         /\ permits' + saturated' = permits + saturated + n
         /\ permits' # 0 => permits # 0 \/ n # 0
<1> USE SemaphoreConstants DEF PermitAccount, S!AddPermitsSaturating
<1>1. CASE n > MaxPermits - permits
  BY <1>1
<1>2. CASE ~(n > MaxPermits - permits)
  BY <1>2
<1> QED BY <1>1, <1>2, Zenon

\* What release_to_state does to a queue of resumable operations: the first p
\* get a permit, where p is n or all of them.
LEMMA ReleaseFacts ==
  ASSUME SQueueOK, SFlagTypes, SPhasesOK, NEW n \in Nat \ {0}, NEW gone \in SUBSET AcquireOps,
         S!ReleaseToState(n, gone)
  PROVE  \E p \in 0..Len(sWaiters) :
           LET got == {sWaiters[k] : k \in 1..p} IN
           /\ IsFiniteSet(got) /\ Cardinality(got) = p /\ got \subseteq sEnqueued
           /\ p <= n /\ (p < n => got = sEnqueued)
           /\ \A k \in DOMAIN sWaiters : sWaiters[k] \in got <=> k <= p
           /\ SQueueOK'
           /\ sEnqueued' = sEnqueued \ got
           /\ sOwned' = sOwned \ gone
           /\ sReserved' = (sReserved \ gone) \cup got
           /\ sResult' = [o \in AcquireOps |-> IF o \in got THEN "ok" ELSE sResult[o]]
           /\ sReady' = sReady \cup got
           /\ sSchedules' = [o \in AcquireOps |->
                               IF o \in got THEN sSchedules[o] + 1 ELSE sSchedules[o]]
           /\ S!AddPermitsSaturating(n - p)
<1> USE DEF SQueueOK
<1>1. PICK p \in 0..Len(sWaiters) :
        LET popped == {sWaiters[k] : k \in 1..p}
            got    == {o \in popped : S!Resumable(o)}
        IN  /\ \/ p = Len(sWaiters) /\ S!Cardinality(got) < n
               \/ p > 0 /\ S!Resumable(sWaiters[p]) /\ S!Cardinality(got) = n
            /\ sWaiters' = SubSeq(sWaiters, p + 1, Len(sWaiters))
            /\ sEnqueued' = sEnqueued \ popped
            /\ sOwned' = (sOwned \ (popped \ got)) \ gone
            /\ sReserved' = (sReserved \ gone) \cup got
            /\ sResult' = [o \in AcquireOps |->
                 IF o \in got /\ sResult[o] = "none" THEN "ok" ELSE sResult[o]]
            /\ sReady' = sReady \cup got
            /\ sSchedules' = [o \in AcquireOps |->
                 IF o \in got THEN sSchedules[o] + 1 ELSE sSchedules[o]]
            /\ S!AddPermitsSaturating(n - S!Cardinality(got))
  BY Zenon DEF S!ReleaseToState
<1> DEFINE popped == {sWaiters[k] : k \in 1..p}
           got    == {o \in popped : S!Resumable(o)}
<1>2. /\ IsFiniteSet(popped) /\ Cardinality(popped) = p
      /\ popped \subseteq RangeOf(sWaiters)
      /\ p = Len(sWaiters) => popped = RangeOf(sWaiters)
      /\ \A k \in DOMAIN sWaiters : sWaiters[k] \in popped <=> k <= p
  BY PrefixFacts, Zenon
<1> HIDE DEF popped
<1>3. \A o \in popped : o \in sEnqueued /\ S!Resumable(o) /\ sResult[o] = "none"
  <2> SUFFICES ASSUME NEW o \in popped PROVE o \in sEnqueued /\ S!Resumable(o) /\ sResult[o] = "none"
    BY Zenon
  <2>1. o \in sEnqueued
    BY <1>2, Zenon
  <2> QED BY <2>1, Zenon DEF SPhasesOK, SFlagTypes, S!Resumable
<1>4. got = popped
  BY <1>3, Zenon
<1>5. S!Cardinality(got) = p
  <2>1. S!Cardinality(popped) = Cardinality(popped)
    BY Zenon DEF S!Cardinality, Cardinality
  <2> QED BY <1>2, <1>4, <2>1, Zenon
<1> HIDE DEF got
<1>6. /\ (p = Len(sWaiters) /\ p < n) \/ p = n
      /\ sWaiters' = SubSeq(sWaiters, p + 1, Len(sWaiters))
      /\ sEnqueued' = sEnqueued \ popped
      /\ sOwned' = (sOwned \ (popped \ got)) \ gone
      /\ sReserved' = (sReserved \ gone) \cup got
      /\ sResult' = [o \in AcquireOps |->
           IF o \in got /\ sResult[o] = "none" THEN "ok" ELSE sResult[o]]
      /\ sReady' = sReady \cup got
      /\ sSchedules' = [o \in AcquireOps |->
           IF o \in got THEN sSchedules[o] + 1 ELSE sSchedules[o]]
      /\ S!AddPermitsSaturating(n - p)
  BY <1>1, <1>5, Zenon DEF popped, got
<1>7. /\ sWaiters' \in Seq(AcquireOps) /\ Len(sWaiters') = Len(sWaiters) - p
      /\ Distinct(sWaiters')
      /\ RangeOf(sWaiters') = RangeOf(sWaiters) \ popped
  <2>1. sWaiters \in Seq(AcquireOps) /\ Distinct(sWaiters)
    BY Zenon
  <2>2. sWaiters' = SubSeq(sWaiters, p + 1, Len(sWaiters))
    BY <1>6, Zenon
  <2> DEFINE t == SubSeq(sWaiters, p + 1, Len(sWaiters))
  <2>3. /\ t \in Seq(AcquireOps) /\ Len(t) = Len(sWaiters) - p
        /\ Distinct(t)
        /\ \A x : x \in RangeOf(t) <=> x \in RangeOf(sWaiters) /\ \A k \in 1..p : sWaiters[k] # x
    BY ONLY <2>1, p \in 0..Len(sWaiters), DropFirst, Zenon
  <2> HIDE DEF t
  <2>4. sWaiters' = t
    BY <2>2, Zenon DEF t
  <2> QED BY ONLY <2>3, <2>4 DEF popped
<1>8. SQueueOK'
  <2>1. Len(sWaiters) \in Nat /\ p \in Nat
    OBVIOUS
  <2>2. Len(sWaiters') <= MaxWaiters
    BY <1>7, <2>1, MutexConstants
  <2> QED BY <1>6, <1>7, <2>2, Zenon DEF RangeOf, Distinct
<1>9. p <= n /\ (p < n => popped = sEnqueued) /\ popped \subseteq sEnqueued
  BY <1>2, <1>6
<1>10. sResult' = [o \in AcquireOps |-> IF o \in popped THEN "ok" ELSE sResult[o]]
  BY <1>3, <1>4, <1>6, Zenon
<1>11. sOwned' = sOwned \ gone
  BY <1>4, <1>6, Zenon
<1> QED BY <1>2, <1>4, <1>6, <1>8, <1>9, <1>10, <1>11, ZenonT(60) DEF popped

\* acquire() only creates the operation.
LEMMA AcquireStep == ASSUME SemInv, NEW o \in AcquireOps, S!Acquire(o) PROVE SemInv'
<1> USE DEF SemInv, S!Acquire
<1>1. SQueueOK'
  BY SQueueUnchanged, Zenon
<1>2. SFlagTypes' /\ SPhasesOK'
  BY Zenon DEF SFlagTypes, SPhasesOK
<1>3. PermitAccount'
  BY Zenon DEF PermitAccount
<1> QED BY <1>1, <1>2, <1>3, Zenon

\* try_acquire takes an available permit.
LEMMA TryAcquireStep == ASSUME SemInv, S!TryAcquire PROVE SemInv'
<1> USE DEF SemInv, S!TryAcquire, S!waiterVars
<1>1. SQueueOK'
  BY SQueueUnchanged, Zenon
<1>2. SFlagTypes' /\ SPhasesOK'
  BY Zenon DEF SFlagTypes, SPhasesOK
<1>3. PermitAccount'
  BY FS_CardinalityType, SemaphoreConstants DEF PermitAccount
<1> QED BY <1>1, <1>2, <1>3, Zenon

\* co_await: every outcome of try_complete_immediate and enqueue_waiter.
LEMMA SAwaitStep ==
  ASSUME SemInv, NEW o \in AcquireOps, NEW scheduler \in BOOLEAN, S!Await(o, scheduler)
  PROVE  SemInv'
<1> USE DEF SemInv
<1>0. /\ o \in sCreated /\ o \notin sObserving \cup sDetached \cup sSuspended
      /\ UNCHANGED <<sAlive, sCreated, sDetached, sReserved, sReady, sSchedules, issued, saturated>>
  BY Zenon DEF S!Await
<1>1. /\ o \notin sEnqueued /\ o \notin sReady /\ sSchedules[o] = 0 /\ sResult[o] = "none"
      /\ sAlive => o \notin sReserved
  BY <1>0, Zenon DEF SPhasesOK
<1>2. ASSUME NEW r \in S!Results, S!ResumeInline(o, r), UNCHANGED <<sWaiters, sSuspended, sEnqueued>>,
             \/ r # "ok" /\ UNCHANGED permits
             \/ r = "ok" /\ permits # 0 /\ permits' = permits - 1
      PROVE  SemInv'
  <2> USE <1>0, <1>1, <1>2 DEF S!ResumeInline
  <2>1. SQueueOK'
    BY SQueueUnchanged, Zenon
  <2>2. SFlagTypes'
    BY Zenon DEF SFlagTypes
  <2>3. SPhasesOK'
    BY DEF SPhasesOK, SFlagTypes
  <2>4. PermitAccount'
    BY FS_CardinalityType, SemaphoreConstants, SMTT(90) DEF PermitAccount
  <2> QED BY <2>1, <2>2, <2>3, <2>4, Zenon
<1>3. ASSUME S!HasOwner(o), permits = 0, ~S!QueueFull,
             sSuspended' = sSuspended \cup {o}, sEnqueued' = sEnqueued \cup {o},
             sWaiters' = Append(sWaiters, o),
             UNCHANGED <<permits, sOwned, sResult, sObserving, taken>>
      PROVE  SemInv'
  <2> USE <1>0, <1>1, <1>3 DEF S!HasOwner
  <2>1. SQueueOK'
    <3>1. /\ Append(sWaiters, o) \in Seq(AcquireOps) /\ Len(Append(sWaiters, o)) = Len(sWaiters) + 1
          /\ Distinct(Append(sWaiters, o))
          /\ RangeOf(Append(sWaiters, o)) = RangeOf(sWaiters) \cup {o}
      BY AppendFacts, ZenonT(60) DEF SQueueOK
    <3>2. Len(sWaiters) + 1 <= MaxWaiters
      BY MutexConstants DEF S!QueueFull, SQueueOK
    <3> QED BY <3>1, <3>2 DEF SQueueOK, Distinct, RangeOf
  <2>2. SFlagTypes'
    BY Zenon DEF SFlagTypes
  <2>3. SPhasesOK'
    BY DEF SPhasesOK, SFlagTypes
  <2>4. PermitAccount'
    BY Zenon DEF PermitAccount
  <2> QED BY <2>1, <2>2, <2>3, <2>4, Zenon
<1> QED BY <1>2, <1>3, Zenon DEF S!Await, S!Results

\* What a grant to the first of the queue keeps, when at most one operation,
\* whose permit is handed on, leaves.
LEMMA GrantKeeps ==
  ASSUME SemInv, sAlive, NEW n \in Nat \ {0}, NEW gone \in SUBSET sReserved,
         S!ReleaseToState(n, gone),
         sDetached' = sDetached \cup gone, sSuspended' = sSuspended \ gone,
         UNCHANGED <<sAlive, sCreated, sObserving>>
  PROVE  /\ SQueueOK' /\ SFlagTypes' /\ SPhasesOK'
         /\ permits' \in 0..MaxPermits /\ saturated' \in Nat
         /\ IsFiniteSet(sReserved') /\ IsFiniteSet(gone)
         /\ permits' + Cardinality(sReserved') + saturated'
              = permits + Cardinality(sReserved) + saturated + n - Cardinality(gone)
         /\ permits' # 0 => sEnqueued' = {}
<1> USE DEF SemInv
<1>0. gone \in SUBSET AcquireOps
  BY Zenon DEF SFlagTypes
<1>1. PICK p \in 0..Len(sWaiters) :
        LET got == {sWaiters[k] : k \in 1..p} IN
        /\ IsFiniteSet(got) /\ Cardinality(got) = p /\ got \subseteq sEnqueued
        /\ p <= n /\ (p < n => got = sEnqueued)
        /\ \A k \in DOMAIN sWaiters : sWaiters[k] \in got <=> k <= p
        /\ SQueueOK'
        /\ sEnqueued' = sEnqueued \ got
        /\ sOwned' = sOwned \ gone
        /\ sReserved' = (sReserved \ gone) \cup got
        /\ sResult' = [o \in AcquireOps |-> IF o \in got THEN "ok" ELSE sResult[o]]
        /\ sReady' = sReady \cup got
        /\ sSchedules' = [o \in AcquireOps |->
                            IF o \in got THEN sSchedules[o] + 1 ELSE sSchedules[o]]
        /\ S!AddPermitsSaturating(n - p)
  BY <1>0, ReleaseFacts, Zenon
<1> DEFINE got == {sWaiters[k] : k \in 1..p}
<1>2. /\ IsFiniteSet(got) /\ Cardinality(got) = p /\ got \subseteq sEnqueued
      /\ p <= n /\ (p < n => got = sEnqueued)
      /\ SQueueOK'
      /\ sEnqueued' = sEnqueued \ got
      /\ sOwned' = sOwned \ gone
      /\ sReserved' = (sReserved \ gone) \cup got
      /\ sResult' = [o \in AcquireOps |-> IF o \in got THEN "ok" ELSE sResult[o]]
      /\ sReady' = sReady \cup got
      /\ sSchedules' = [o \in AcquireOps |->
                          IF o \in got THEN sSchedules[o] + 1 ELSE sSchedules[o]]
      /\ S!AddPermitsSaturating(n - p)
  BY <1>1, Zenon
<1> HIDE DEF got
<1>3. got \subseteq AcquireOps /\ \A o \in got : sSchedules[o] = 0 /\ o \notin sReserved /\ o \in sSuspended
  BY <1>2, Zenon DEF SPhasesOK, SFlagTypes
<1>4. SFlagTypes'
  <2>1. sResult' \in [AcquireOps -> S!Results \cup {"none"}]
    BY <1>2, Zenon DEF SFlagTypes, S!Results
  <2>2. sSchedules' \in [AcquireOps -> Nat]
    BY <1>2 DEF SFlagTypes
  <2> QED BY <1>0, <1>2, <1>3, <2>1, <2>2, Zenon DEF SFlagTypes
<1>5. \A o \in AcquireOps : /\ sResult'[o] = IF o \in got THEN "ok" ELSE sResult[o]
                            /\ sSchedules'[o] = IF o \in got THEN sSchedules[o] + 1 ELSE sSchedules[o]
  BY <1>2, Zenon
<1>6. SPhasesOK'
  <2>1. \A o \in AcquireOps :
          /\ sSchedules'[o] \in {0, 1}
          /\ sSchedules'[o] = 1 => o \in sReady' \cup sObserving' \cup sDetached' /\ o \notin sEnqueued'
          /\ o \in sReady' => sSchedules'[o] = 1
    BY <1>2, <1>3, <1>5 DEF SPhasesOK
  <2>2. \A o \in AcquireOps :
          /\ sResult'[o] # "none" => o \in sReady' \cup sObserving' \cup sDetached'
          /\ o \in sSuspended' => (sResult'[o] = "ok" <=> o \in sReserved')
    BY <1>2, <1>3, <1>5, Zenon DEF SPhasesOK
  <2>3. /\ sSuspended' \cup sOwned' \cup sObserving' \cup sDetached' \cup sReady' \subseteq sCreated'
        /\ sEnqueued' \subseteq sSuspended' \cap sOwned'
        /\ sEnqueued' \cap sReady' = {}
    BY <1>2, <1>3, Zenon DEF SPhasesOK
  <2>4. /\ sSuspended' \cap (sDetached' \cup sObserving') = {}
        /\ sSuspended' \subseteq sEnqueued' \cup sReady'
        /\ sReady' \subseteq sSuspended' \cup sDetached'
        /\ sObserving' \cap sDetached' = {}
        /\ sReserved' \subseteq sReady' \cap sSuspended' \cap sOwned'
    BY <1>2, <1>3, ZenonT(60) DEF SPhasesOK
  <2> QED BY <2>1, <2>2, <2>3, <2>4, ZenonT(60) DEF SPhasesOK
<1>7. n - p \in Nat
  BY <1>2
<1>8. /\ permits' \in 0..MaxPermits /\ saturated' \in Nat
      /\ permits' + saturated' = permits + saturated + (n - p)
      /\ permits' # 0 => permits # 0 \/ n - p # 0
  BY <1>2, <1>7, AddPermits, Zenon
<1>9. IsFiniteSet(sReserved)
  BY Zenon DEF PermitAccount
<1>10. IsFiniteSet(gone) /\ IsFiniteSet(sReserved \ gone) /\ IsFiniteSet(sReserved')
       /\ Cardinality(gone) \in Nat /\ Cardinality(sReserved) \in Nat
  BY <1>2, <1>9, FS_Subset, FS_Union, FS_CardinalityType, ZenonT(60)
<1>11. Cardinality(sReserved') = Cardinality(sReserved) - Cardinality(gone) + p
  <2>1. sReserved \cap gone = gone /\ (sReserved \ gone) \cap got = {}
    BY <1>3, Zenon
  <2>2. Cardinality(sReserved \ gone) = Cardinality(sReserved) - Cardinality(gone)
    BY <1>9, <2>1, FS_Difference, ZenonT(60)
  <2>3. Cardinality(sReserved') = Cardinality(sReserved \ gone) + Cardinality(got) - Cardinality({})
    BY <1>2, <1>10, <2>1, FS_Union, Zenon
  <2> QED BY <1>2, <1>10, <2>2, <2>3, FS_EmptySet
<1>12. permits' + Cardinality(sReserved') + saturated'
         = permits + Cardinality(sReserved) + saturated + n - Cardinality(gone)
  <2>1. permits \in Int /\ saturated \in Int /\ permits' \in Int /\ saturated' \in Int
        /\ p \in Int /\ n \in Int
    BY <1>8, SemaphoreConstants DEF PermitAccount
  <2>2. permits' + saturated' = permits + saturated + (n - p)
    BY <1>8, Zenon
  <2> DEFINE a == Cardinality(sReserved)
             b == Cardinality(sReserved')
             c == Cardinality(gone)
  <2>3. a \in Int /\ c \in Int /\ b = a - c + p
    BY <1>10, <1>11
  <2> HIDE DEF a, b, c
  <2>4. permits' + b + saturated' = permits + a + saturated + n - c
    <3> DEFINE x == permits'
               y == saturated'
    <3>1. x \in Int /\ y \in Int /\ x + y = permits + saturated + (n - p)
      BY <2>1, <2>2, Zenon
    <3> HIDE DEF x, y
    <3>2. b \in Int
      BY ONLY <2>1, <2>3
    <3>3. x + b + y = (x + y) + b
      BY ONLY <3>1, <3>2
    <3>4. x + b + y = permits + a + saturated + n - c
      BY ONLY <2>1, <2>3, <3>1, <3>3, SMTT(90)
    <3> QED BY <3>4, Zenon DEF x, y
  <2> QED BY <2>4, Zenon DEF a, b, c
<1>13. permits' # 0 => sEnqueued' = {}
  BY <1>2, <1>8 DEF PermitAccount
<1> QED BY <1>2, <1>4, <1>6, <1>8, <1>10, <1>12, <1>13, Zenon

\* release(n) grants to the first waiters and keeps the rest of the permits.
LEMMA ReleaseStep == ASSUME SemInv, NEW n \in 0..MaxRelease, S!Release(n) PROVE SemInv'
<1> USE DEF SemInv
<1>0. /\ sAlive /\ issued' = issued + n /\ UNCHANGED <<sAlive, taken>> /\ n \in Nat
  BY SemaphoreConstants DEF S!Release
<1>1. CASE n = 0
  <2>1. UNCHANGED <<permits, sWaiters, S!waiterVars, saturated>>
    BY <1>1, Zenon DEF S!Release
  <2>2. SQueueOK'
    BY <2>1, SQueueUnchanged, Zenon DEF S!waiterVars
  <2>3. SFlagTypes' /\ SPhasesOK'
    BY <1>0, <2>1, Zenon DEF SFlagTypes, SPhasesOK, S!waiterVars
  <2>4. PermitAccount'
    BY <1>0, <1>1, <2>1 DEF PermitAccount, S!waiterVars
  <2> QED BY <2>2, <2>3, <2>4, Zenon
<1>2. CASE n # 0
  <2>1. S!ReleaseToState(n, {}) /\ UNCHANGED <<sCreated, sSuspended, sDetached, sObserving>>
    BY <1>2, Zenon DEF S!Release
  <2>2. sDetached' = sDetached \cup {} /\ sSuspended' = sSuspended \ {} /\ {} \in SUBSET sReserved
    BY <2>1, Zenon
  <2>3. n \in Nat \ {0}
    BY <1>0, <1>2, Zenon
  <2>4. /\ SQueueOK' /\ SFlagTypes' /\ SPhasesOK'
        /\ permits' \in 0..MaxPermits /\ saturated' \in Nat
        /\ IsFiniteSet(sReserved')
        /\ permits' + Cardinality(sReserved') + saturated'
             = permits + Cardinality(sReserved) + saturated + n - Cardinality({})
        /\ permits' # 0 => sEnqueued' = {}
    BY <1>0, <2>1, <2>2, <2>3, GrantKeeps, Zenon
  <2>5. PermitAccount'
    <3>1. Cardinality(sReserved) \in Int /\ Cardinality(sReserved') \in Int /\ Cardinality({}) = 0
      <4>1. IsFiniteSet(sReserved) /\ IsFiniteSet(sReserved')
        BY <2>4, Zenon DEF PermitAccount
      <4> QED BY ONLY <4>1, FS_CardinalityType, FS_EmptySet
    <3>2. permits \in Int /\ permits' \in Int
      BY <2>4, SemaphoreConstants DEF PermitAccount
    <3>3. permits' + Cardinality(sReserved') + taken' + saturated' = issued'
      BY <1>0, <2>4, <3>1, <3>2 DEF PermitAccount
    <3> QED BY <1>0, <2>4, <3>3 DEF PermitAccount
  <2> QED BY <2>4, <2>5, Zenon
<1> QED BY <1>1, <1>2, Zenon

\* resume_waiter and await_resume: a reserved permit becomes the caller's.
LEMMA SResumeStep == ASSUME SemInv, NEW o \in AcquireOps, S!Resume(o) PROVE SemInv'
<1> USE DEF SemInv
<1>0. /\ o \in sReady /\ sReady' = sReady \ {o}
      /\ UNCHANGED <<sAlive, permits, sWaiters, sCreated, sEnqueued, sDetached, sSchedules, issued, saturated>>
  BY Zenon DEF S!Resume
<1>1. SQueueOK'
  BY <1>0, SQueueUnchanged, Zenon
<1>2. CASE o \in sDetached \cup sObserving \/ o \notin sSuspended
  <2>1. UNCHANGED <<sSuspended, sObserving, sReserved, sOwned, sResult, taken>>
    BY <1>2, Zenon DEF S!Resume
  <2> USE <1>0, <1>2, <2>1
  <2>2. o \notin sSuspended
    BY Zenon DEF SPhasesOK
  <2>3. SFlagTypes'
    BY Zenon DEF SFlagTypes
  <2>4. SPhasesOK'
    BY <2>2, ZenonT(60) DEF SPhasesOK, SFlagTypes
  <2>5. PermitAccount'
    BY Zenon DEF PermitAccount
  <2> QED BY <1>1, <2>3, <2>4, <2>5, Zenon
<1>3. CASE ~(o \in sDetached \cup sObserving \/ o \notin sSuspended)
  <2> DEFINE r == IF sResult[o] # "none" THEN sResult[o] ELSE "invalid_state"
  <2>1. /\ sSuspended' = sSuspended \ {o} /\ sObserving' = sObserving \cup {o}
        /\ sReserved' = sReserved \ {o} /\ sOwned' = sOwned \ {o}
        /\ sResult' = [sResult EXCEPT ![o] = r]
        /\ taken' = IF r = "ok" THEN taken + 1 ELSE taken
    BY <1>3, Zenon DEF S!Resume
  <2>2. r \in S!Results /\ (sAlive => (r = "ok" <=> o \in sReserved))
    BY <1>3, Zenon DEF SFlagTypes, SPhasesOK, S!Results
  <2> HIDE DEF r
  <2> USE <1>0, <1>3, <2>1
  <2>3. SFlagTypes'
    BY <2>2, ZenonT(60) DEF SFlagTypes
  <2>4. SPhasesOK'
    BY <2>2 DEF SPhasesOK, SFlagTypes, S!Results
  <2>5. PermitAccount'
    <3>1. /\ IsFiniteSet(sReserved) /\ IsFiniteSet(sReserved') /\ Cardinality(sReserved) \in Nat
          /\ Cardinality(sReserved') = IF o \in sReserved THEN Cardinality(sReserved) - 1
                                       ELSE Cardinality(sReserved)
      BY FS_RemoveElement, FS_CardinalityType, Zenon DEF PermitAccount
    <3>2. permits \in Int
      BY SemaphoreConstants DEF PermitAccount
    <3>3. sAlive => permits + Cardinality(sReserved') + taken' + saturated = issued
      BY <2>2, <3>1, <3>2 DEF PermitAccount
    <3> QED BY <3>1, <3>3 DEF PermitAccount
  <2> QED BY <1>1, <2>3, <2>4, <2>5, Zenon
<1> QED BY <1>2, <1>3, Zenon

\* Destroying an operation leaves the queue or hands the reserved permit on.
LEMMA SDetachStep == ASSUME SemInv, NEW o \in AcquireOps, S!Detach(o) PROVE SemInv'
<1> USE DEF SemInv
<1>0. /\ o \in sCreated /\ o \notin sObserving \cup sDetached
      /\ sDetached' = sDetached \cup {o} /\ sSuspended' = sSuspended \ {o}
      /\ UNCHANGED <<sAlive, sCreated, sObserving, taken, issued>>
  BY Zenon DEF S!Detach
<1>1. CASE /\ S!HasOwner(o) /\ o \in sEnqueued
           /\ S!EraseWaiter(o)
           /\ sEnqueued' = sEnqueued \ {o}
           /\ sOwned' = sOwned \ {o}
           /\ UNCHANGED <<permits, sReserved, sResult, sReady, sSchedules, saturated>>
  <2> USE <1>0, <1>1
  <2>1. PICK k \in DOMAIN sWaiters :
          /\ sWaiters[k] = o
          /\ sWaiters' = [j \in 1..(Len(sWaiters) - 1) |->
                            IF j < k THEN sWaiters[j] ELSE sWaiters[j + 1]]
    BY Zenon DEF S!EraseWaiter
  <2>2. /\ sWaiters' \in Seq(AcquireOps) /\ Len(sWaiters') = Len(sWaiters) - 1
        /\ Distinct(sWaiters') /\ RangeOf(sWaiters') = RangeOf(sWaiters) \ {o}
    BY <2>1, EraseFrom DEF SQueueOK
  <2>3. SQueueOK'
    <3>1. Len(sWaiters) - 1 <= MaxWaiters
      BY MutexConstants DEF SQueueOK
    <3> QED BY <2>2, <3>1, Zenon DEF SQueueOK, Distinct, RangeOf
  <2>4. SFlagTypes'
    BY Zenon DEF SFlagTypes
  <2>5. SPhasesOK'
    BY DEF SPhasesOK, SFlagTypes
  <2>6. PermitAccount'
    BY Zenon DEF PermitAccount
  <2> QED BY <2>3, <2>4, <2>5, <2>6, Zenon
<1>2. CASE S!HasOwner(o) /\ o \notin sEnqueued /\ o \in sReserved /\ S!ReleaseToState(1, {o})
  <2>1. sAlive /\ {o} \in SUBSET sReserved /\ 1 \in Nat \ {0}
    BY <1>2 DEF S!HasOwner
  <2>2. /\ SQueueOK' /\ SFlagTypes' /\ SPhasesOK'
        /\ permits' \in 0..MaxPermits /\ saturated' \in Nat
        /\ IsFiniteSet(sReserved')
        /\ permits' + Cardinality(sReserved') + saturated'
             = permits + Cardinality(sReserved) + saturated + 1 - Cardinality({o})
        /\ permits' # 0 => sEnqueued' = {}
    BY <1>0, <1>2, <2>1, GrantKeeps, Zenon
  <2>3. PermitAccount'
    <3>1. Cardinality(sReserved) \in Int /\ Cardinality(sReserved') \in Int /\ Cardinality({o}) = 1
      <4>1. IsFiniteSet(sReserved) /\ IsFiniteSet(sReserved')
        BY <2>2, Zenon DEF PermitAccount
      <4>2. Cardinality(sReserved) \in Nat /\ Cardinality(sReserved') \in Nat
        BY ONLY <4>1, FS_CardinalityType, Zenon
      <4> QED BY ONLY <4>2, FS_Singleton
    <3>2. permits \in Int /\ permits' \in Int
      BY <2>2, SemaphoreConstants DEF PermitAccount
    <3>3. permits' + Cardinality(sReserved') + taken + saturated' = issued
      BY <2>1, <2>2, <3>1, <3>2 DEF PermitAccount
    <3> QED BY <1>0, <2>2, <3>3, Zenon DEF PermitAccount
  <2> QED BY <2>2, <2>3, Zenon
<1>3. CASE /\ ~S!HasOwner(o) \/ o \notin sEnqueued \cup sReserved
           /\ sOwned' = sOwned \ {o}
           /\ UNCHANGED <<permits, sWaiters, sEnqueued, sReserved, sResult, sReady, sSchedules, saturated>>
  <2> USE <1>0, <1>3
  <2>0. o \notin sEnqueued /\ (sAlive => o \notin sReserved)
    BY Zenon DEF SPhasesOK, S!HasOwner
  <2>1. SQueueOK'
    BY SQueueUnchanged, Zenon
  <2>2. SFlagTypes'
    BY Zenon DEF SFlagTypes
  <2>3. SPhasesOK'
    BY <2>0 DEF SPhasesOK, SFlagTypes
  <2>4. PermitAccount'
    BY Zenon DEF PermitAccount
  <2> QED BY <2>1, <2>2, <2>3, <2>4, Zenon
<1> QED BY <1>1, <1>2, <1>3, Zenon DEF S!Detach

\* close_state fails the queued waiters.
LEMMA SDestroyStep == ASSUME SemInv, S!Destroy PROVE SemInv'
<1> USE DEF SemInv
<1> DEFINE failing == {o \in S!RangeOf(sWaiters) : S!Resumable(o)}
<1>1. S!RangeOf(sWaiters) = sEnqueued
  BY Zenon DEF SQueueOK, RangeOf, S!RangeOf
<1>2. failing = sEnqueued
  BY <1>1, Zenon DEF SPhasesOK, S!Resumable
<1>3. /\ sAlive /\ sAlive' = FALSE /\ sWaiters' = <<>>
      /\ sEnqueued' = {} /\ sOwned' = sOwned \ sEnqueued
      /\ sResult' = [o \in AcquireOps |-> IF o \in failing /\ sResult[o] = "none"
                                          THEN "invalid_state" ELSE sResult[o]]
      /\ sReady' = sReady \cup failing
      /\ sSchedules' = [o \in AcquireOps |-> IF o \in failing THEN sSchedules[o] + 1 ELSE sSchedules[o]]
      /\ UNCHANGED <<permits, sCreated, sSuspended, sDetached, sObserving, sReserved,
                     taken, issued, saturated>>
  BY <1>1, ZenonT(60) DEF S!Destroy
<1> HIDE DEF failing
<1> USE <1>2, <1>3
<1>4. SQueueOK'
  <2>1. sWaiters' \in Seq(AcquireOps) /\ Len(sWaiters') = 0 /\ DOMAIN sWaiters' = {}
    OBVIOUS
  <2>2. 0 <= MaxWaiters
    BY ONLY MutexConstants
  <2>3. RangeOf(sWaiters') = {} /\ sEnqueued' = {} /\ Distinct(sWaiters')
    BY <2>1, Zenon DEF RangeOf, Distinct
  <2> QED BY <2>1, <2>2, <2>3, ZenonT(60) DEF SQueueOK
<1>5. SFlagTypes'
  <2>1. sResult' \in [AcquireOps -> S!Results \cup {"none"}]
    BY Zenon DEF SFlagTypes, S!Results
  <2>2. sSchedules' \in [AcquireOps -> Nat]
    BY DEF SFlagTypes
  <2> QED BY <2>1, <2>2, Zenon DEF SFlagTypes
<1>6. SPhasesOK'
  BY DEF SPhasesOK, SFlagTypes
<1>7. PermitAccount'
  BY Zenon DEF PermitAccount
<1> QED BY <1>4, <1>5, <1>6, <1>7, Zenon

\* Every step of the semaphore keeps the invariant.
LEMMA SemStep == SemInv /\ [S!Next]_(S!vars) => SemInv'
<1> SUFFICES ASSUME SemInv, [S!Next]_(S!vars) PROVE SemInv'
  BY Zenon
<1>1. CASE UNCHANGED S!vars
  <2> USE <1>1 DEF S!vars, S!waiterVars, SemInv
  <2>1. SQueueOK'
    BY SQueueUnchanged, Zenon
  <2>2. SFlagTypes' /\ SPhasesOK'
    BY Zenon DEF SFlagTypes, SPhasesOK
  <2>3. PermitAccount'
    BY Zenon DEF PermitAccount
  <2> QED BY <2>1, <2>2, <2>3, Zenon
<1> QED BY <1>1, AcquireStep, SAwaitStep, TryAcquireStep, ReleaseStep, SResumeStep, SDetachStep,
           SDestroyStep, ZenonT(60) DEF S!Next

\* The queue, the flags and the account of permits stay consistent.
LEMMA SemInvariance == S!Spec => []SemInv
  BY SemInit, SemStep, PTL DEF S!Spec

\* For any number of operations, initial permits and waiter bound, and for any
\* largest count: release, the hand-over of a destroyed operation's permit and
\* saturation neither lose nor invent a permit, none lies idle while an operation
\* waits, and no operation is forgotten or scheduled twice.
THEOREM PermitsAccounted == S!Spec => []PermitsConserved
<1>1. SemInv => PermitsConserved
  <2> SUFFICES ASSUME SemInv PROVE PermitsConserved
    BY Zenon
  <2>1. S!Cardinality(sReserved) = Cardinality(sReserved)
    BY Zenon DEF S!Cardinality, Cardinality
  <2>2. S!RangeOf(sWaiters) = sEnqueued
    BY Zenon DEF SemInv, SQueueOK, RangeOf, S!RangeOf
  <2>3. sEnqueued = {} => sWaiters = <<>>
    <3>1. sWaiters # <<>> => 1 \in DOMAIN sWaiters
      BY DEF SemInv, SQueueOK
    <3> QED BY <3>1, Zenon DEF SemInv, SQueueOK, RangeOf
  <2>4. \A o \in sSuspended : o \in S!RangeOf(sWaiters) \cup sReady
    BY <2>2, Zenon DEF SemInv, SPhasesOK
  <2>5. \A o \in AcquireOps : sSchedules[o] <= 1
    BY DEF SemInv, SPhasesOK
  <2> QED BY <2>1, <2>3, <2>4, <2>5, Zenon DEF SemInv, PermitAccount, PermitsConserved, S!PermitsConserved
<1> QED BY <1>1, SemInvariance, PTL

\* A release, or a destroyed operation's permit, serves the queue from its front:
\* nobody is granted a permit while one who waits longer is not.
THEOREM GrantsInOrder == S!Spec => GrantedInOrder
<1> DEFINE Fair == \A j, k \in DOMAIN sWaiters :
                     j < k /\ sWaiters[k] \in sReserved' => sWaiters[j] \in sReserved'
<1>1. SemInv /\ [S!Next]_(S!vars) => [Fair]_(S!vars)
  <2> SUFFICES ASSUME SemInv, S!Next PROVE Fair
    BY Zenon
  <2>1. \A k \in DOMAIN sWaiters : sAlive /\ sWaiters[k] \in sEnqueued /\ sWaiters[k] \notin sReserved
    BY ZenonT(60) DEF SemInv, SQueueOK, SPhasesOK, RangeOf
  <2>2. ASSUME sReserved' \subseteq sReserved PROVE Fair
    BY <2>1, <2>2, Zenon
  <2>3. ASSUME NEW n \in Nat \ {0}, NEW gone \in SUBSET AcquireOps, S!ReleaseToState(n, gone) PROVE Fair
    <3> SUFFICES ASSUME NEW j \in DOMAIN sWaiters, NEW k \in DOMAIN sWaiters, j < k,
                        sWaiters[k] \in sReserved'
                 PROVE  sWaiters[j] \in sReserved'
      BY Zenon
    <3>1. PICK p \in 0..Len(sWaiters) :
            LET got == {sWaiters[h] : h \in 1..p} IN
            /\ \A h \in DOMAIN sWaiters : sWaiters[h] \in got <=> h <= p
            /\ sReserved' = (sReserved \ gone) \cup got
      BY <2>3, ReleaseFacts, ZenonT(60) DEF SemInv
    <3>2. k <= p /\ k \in Int /\ j \in Int /\ p \in Int
      BY <2>1, <3>1 DEF SemInv, SQueueOK
    <3>3. j <= p
      BY <3>2
    <3> QED BY <3>1, <3>3, Zenon
  <2>4. ASSUME NEW o \in AcquireOps, S!Acquire(o) \/ S!Resume(o) PROVE Fair
    BY <2>2, <2>4, Zenon DEF S!Acquire, S!Resume
  <2>5. ASSUME NEW o \in AcquireOps, S!Detach(o) PROVE Fair
    <3>1. CASE S!ReleaseToState(1, {o})
      BY <2>3, <3>1
    <3>2. CASE ~S!ReleaseToState(1, {o})
      BY <2>2, <2>5, <3>2, Zenon DEF S!Detach
    <3> QED BY <3>1, <3>2, Zenon
  <2>6. ASSUME NEW o \in AcquireOps, NEW scheduler \in BOOLEAN, S!Await(o, scheduler) PROVE Fair
    BY <2>2, <2>6, Zenon DEF S!Await
  <2>7. CASE S!TryAcquire \/ S!Destroy
    BY <2>2, <2>7, Zenon DEF S!TryAcquire, S!Destroy, S!waiterVars
  <2>8. ASSUME NEW n \in 0..MaxRelease, S!Release(n) PROVE Fair
    <3>1. CASE n = 0
      BY <2>2, <2>8, <3>1, Zenon DEF S!Release, S!waiterVars
    <3>2. CASE n # 0
      <4>1. n \in Nat \ {0} /\ S!ReleaseToState(n, {})
        BY <2>8, <3>2, SemaphoreConstants DEF S!Release
      <4> QED BY <2>3, <4>1, Zenon
    <3> QED BY <3>1, <3>2, Zenon
  <2> QED BY <2>4, <2>5, <2>6, <2>7, <2>8, Zenon DEF S!Next
<1> QED BY <1>1, SemInvariance, PTL DEF S!Spec, GrantedInOrder, S!GrantedInOrder
==============================================================================
