--------------------------- MODULE Backends_proofs ---------------------------
(***************************************************************************)
(* The virtual backend, and the backends around one, for every set of      *)
(* handles and ids: the types, the exact bookkeeping of ids, the absence   *)
(* of operations pending on stale tokens, and the operation contract       *)
(* (VirtualBackend); the filters and events of epoll and kqueue            *)
(* (Readiness, Epoll, Kqueue); the queues of the io_uring backend without  *)
(* a ring (IoUringFallback).                                               *)
(***************************************************************************)
EXTENDS Backends, FiniteSetTheorems, TLAPS

USE BackendConstants

\* A listing of positions of a sequence is a sequence of those positions.
LEMMA InOrderFacts ==
  ASSUME NEW s, s \in Seq(Operation), NEW K \in SUBSET DOMAIN s, NEW f \in InOrder(K)
  PROVE  /\ Cardinality(K) \in Nat
         /\ DOMAIN f = 1..Cardinality(K)
         /\ \A n \in DOMAIN f : f[n] \in K /\ s[f[n]] \in Operation
         /\ \A i, j \in DOMAIN f : f[i] = f[j] => i = j
         /\ {f[n] : n \in DOMAIN f} = K
<1>1. IsFiniteSet(K)
  BY FS_Interval, FS_Subset, 0 \in Int, 1 \in Int
<1>2. Cardinality(K) \in Nat
  BY <1>1, FS_CardinalityType, Zenon
<1>3. DOMAIN f = 1..Cardinality(K) /\ \A n \in DOMAIN f : f[n] \in K
  BY Zenon DEF InOrder
<1>4. \A n \in DOMAIN f : s[f[n]] \in Operation
  BY <1>3
<1>5. \A i, j \in DOMAIN f : f[i] = f[j] => i = j
  <2>1. \A i, j \in 1..Cardinality(K) : i < j => f[i] < f[j]
    BY Zenon DEF InOrder
  <2>2. \A i \in DOMAIN f : f[i] \in Int
    BY <1>3
  <2>3. QED BY <1>2, <1>3, <2>1, <2>2
<1>6. {f[n] : n \in DOMAIN f} = K
  BY <1>3, Zenon DEF InOrder
<1> QED BY <1>2, <1>3, <1>4, <1>5, <1>6, Zenon

\* What complete_pending appends and what it keeps.
LEMMA ListFacts ==
  ASSUME NEW s, s \in Seq(Operation), NEW K \in SUBSET DOMAIN s, NEW f \in InOrder(K),
         NEW r \in Result
  PROVE  /\ Completed(s, f, r) \in Seq(Completion)
         /\ Remaining(s, f) \in Seq(Operation)
         /\ IdsOf(Completed(s, f, r)) = {s[k].id : k \in K}
         /\ IdsOf(Remaining(s, f)) = {s[k].id : k \in K}
         /\ Distinct(s) => Distinct(Completed(s, f, r)) /\ Distinct(Remaining(s, f))
         /\ \A n \in DOMAIN Remaining(s, f) :
              \E k \in K : Remaining(s, f)[n] = s[k]
         /\ \A n \in DOMAIN Completed(s, f, r) : Completed(s, f, r)[n].result = r
<1>1. /\ Cardinality(K) \in Nat
      /\ DOMAIN f = 1..Cardinality(K)
      /\ \A n \in DOMAIN f : f[n] \in K /\ s[f[n]] \in Operation
      /\ \A i, j \in DOMAIN f : f[i] = f[j] => i = j
      /\ {f[n] : n \in DOMAIN f} = K
  BY InOrderFacts
<1> DEFINE C == Completed(s, f, r)
           R == Remaining(s, f)
<1>2. /\ DOMAIN C = 1..Cardinality(K)
      /\ \A n \in 1..Cardinality(K) : C[n] = [id |-> s[f[n]].id, result |-> r]
  BY <1>1, Zenon DEF Completed
<1>3. /\ DOMAIN R = 1..Cardinality(K)
      /\ \A n \in 1..Cardinality(K) : R[n] = s[f[n]]
  BY <1>1, Zenon DEF Remaining
<1>4. C \in Seq(Completion)
  <2>1. C = [n \in 1..Cardinality(K) |-> [id |-> s[f[n]].id, result |-> r]]
    BY <1>1, Zenon DEF Completed
  <2>2. \A n \in 1..Cardinality(K) : [id |-> s[f[n]].id, result |-> r] \in Completion
    BY <1>1, Zenon DEF Completion, Operation
  <2>3. QED BY <1>1, <2>1, <2>2
<1>5. R \in Seq(Operation)
  <2>1. R = [n \in 1..Cardinality(K) |-> s[f[n]]]
    BY <1>1, Zenon DEF Remaining
  <2>2. QED BY <1>1, <2>1
<1>6. IdsOf(C) = {s[k].id : k \in K}
  <2>1. IdsOf(C) = {s[f[n]].id : n \in 1..Cardinality(K)}
    BY <1>2 DEF IdsOf
  <2>2. QED BY <1>1, <2>1
<1>7. IdsOf(R) = {s[k].id : k \in K}
  <2>1. IdsOf(R) = {s[f[n]].id : n \in 1..Cardinality(K)}
    BY <1>3 DEF IdsOf
  <2>2. QED BY <1>1, <2>1
<1>8. Distinct(s) => Distinct(C) /\ Distinct(R)
  BY <1>1, <1>2, <1>3, SMTT(60) DEF Distinct
<1>9. \A n \in DOMAIN R : \E k \in K : R[n] = s[k]
  BY <1>1, <1>3, Zenon
<1>10. \A n \in DOMAIN C : C[n].result = r
  BY <1>2
<1> QED BY <1>4, <1>5, <1>6, <1>7, <1>8, <1>9, <1>10, Zenon

\* Completing the operations at K preserves the sequences' types and moves
\* exactly their ids from pending_ to completions_.
LEMMA CompletePendingMoves ==
  ASSUME TypeOK, ActiveIdsAccounted, NEW K \in SUBSET DOMAIN pending, NEW r \in Result,
         CompletePending(K, r)
  PROVE  /\ pending' \in Seq(Operation)
         /\ completions' \in Seq(Completion)
         /\ Distinct(pending') /\ Distinct(completions')
         /\ IdsOf(pending') = IdsOf(pending) \ {pending[k].id : k \in K}
         /\ IdsOf(completions') = IdsOf(completions) \cup {pending[k].id : k \in K}
         /\ \A n \in DOMAIN pending' :
              \E k \in DOMAIN pending \ K : pending'[n] = pending[k]
         /\ \A n \in DOMAIN completions' :
              \/ n \in DOMAIN completions /\ completions'[n] = completions[n]
              \/ completions'[n].result = r /\ \E k \in K : completions'[n].id = pending[k].id
<1> USE DEF TypeOK
<1> PICK done \in InOrder(K), rest \in InOrder(DOMAIN pending \ K) :
      /\ completions' = completions \o Completed(pending, done, r)
      /\ pending' = Remaining(pending, rest)
  BY Zenon DEF CompletePending
<1> DEFINE C == Completed(pending, done, r)
<1>1. /\ C \in Seq(Completion)
      /\ IdsOf(C) = {pending[k].id : k \in K}
      /\ Distinct(C)
      /\ \A n \in DOMAIN C : C[n].result = r
  BY ListFacts, SMTT(60) DEF ActiveIdsAccounted
<1>2. /\ pending' \in Seq(Operation)
      /\ IdsOf(pending') = {pending[k].id : k \in DOMAIN pending \ K}
      /\ Distinct(pending')
      /\ \A n \in DOMAIN pending' : \E k \in DOMAIN pending \ K : pending'[n] = pending[k]
  BY ListFacts DEF ActiveIdsAccounted
<1>3. IdsOf(pending') = IdsOf(pending) \ {pending[k].id : k \in K}
  <2>1. \A j, k \in DOMAIN pending : pending[j].id = pending[k].id => j = k
    BY Zenon DEF ActiveIdsAccounted, Distinct
  <2>2. {pending[k].id : k \in DOMAIN pending \ K}
          = {pending[k].id : k \in DOMAIN pending} \ {pending[k].id : k \in K}
    <3> DEFINE D == DOMAIN pending
               id(k) == pending[k].id
    <3>1. K \subseteq D /\ \A j, k \in D : id(j) = id(k) => j = k
      BY <2>1, Zenon
    <3> HIDE DEF D, id
    <3>2. {id(k) : k \in D \ K} = {id(k) : k \in D} \ {id(k) : k \in K}
      <4>1. ASSUME NEW k \in D \ K PROVE id(k) \notin {id(j) : j \in K}
        BY <3>1, Zenon
      <4>2. ASSUME NEW k \in D, id(k) \notin {id(j) : j \in K} PROVE k \in D \ K
        BY <4>2, Zenon
      <4> QED BY <4>1, <4>2
    <3> QED BY <3>2, Zenon DEF D, id
  <2> QED BY <1>2, <2>2, Zenon DEF IdsOf
<1>4. /\ completions' \in Seq(Completion)
      /\ DOMAIN completions' = 1..(Len(completions) + Len(C))
      /\ \A n \in 1..Len(completions) : completions'[n] = completions[n]
      /\ \A n \in (Len(completions) + 1)..(Len(completions) + Len(C)) :
           completions'[n] = C[n - Len(completions)]
  BY <1>1
<1>5. IdsOf(completions') = IdsOf(completions) \cup IdsOf(C)
  <2>1. IdsOf(completions') \subseteq IdsOf(completions) \cup IdsOf(C)
    <3> SUFFICES ASSUME NEW n \in DOMAIN completions'
                 PROVE  completions'[n].id \in IdsOf(completions) \cup IdsOf(C)
      BY ZenonT(60) DEF IdsOf
    <3>1. CASE n \in 1..Len(completions)
      BY <3>1, <1>4 DEF IdsOf
    <3>2. CASE n \in (Len(completions) + 1)..(Len(completions) + Len(C))
      <4>1. n - Len(completions) \in DOMAIN C
        BY <3>2, <1>1
      <4>2. QED BY <4>1, <3>2, <1>4, Zenon DEF IdsOf
    <3> QED BY <3>1, <3>2, <1>1, <1>4
  <2>2. IdsOf(completions) \subseteq IdsOf(completions')
    <3> SUFFICES ASSUME NEW n \in DOMAIN completions
                 PROVE  completions[n].id \in IdsOf(completions')
      BY Zenon DEF IdsOf
    <3>1. n \in DOMAIN completions' /\ completions'[n] = completions[n]
      BY <1>1, <1>4
    <3> QED BY <3>1, Zenon DEF IdsOf
  <2>3. IdsOf(C) \subseteq IdsOf(completions')
    <3> SUFFICES ASSUME NEW n \in DOMAIN C
                 PROVE  C[n].id \in IdsOf(completions')
      BY Zenon DEF IdsOf
    <3>1. /\ n + Len(completions) \in DOMAIN completions'
          /\ completions'[n + Len(completions)] = C[n]
      BY <1>1, <1>4
    <3> QED BY <3>1, Zenon DEF IdsOf
  <2> QED BY <2>1, <2>2, <2>3, Zenon
<1>6. Distinct(completions')
  <2> SUFFICES ASSUME NEW a \in DOMAIN completions', NEW b \in DOMAIN completions',
                      completions'[a].id = completions'[b].id
               PROVE  a = b
    BY Zenon DEF Distinct
  <2>1. IdsOf(completions) \cap IdsOf(C) = {}
    BY <1>1, Zenon DEF ActiveIdsAccounted, IdsOf
  <2>2. CASE a \in 1..Len(completions) /\ b \in 1..Len(completions)
    BY <2>2, <1>4 DEF ActiveIdsAccounted, Distinct
  <2>3. CASE a > Len(completions) /\ b > Len(completions)
    <3>1. /\ a - Len(completions) \in DOMAIN C
          /\ b - Len(completions) \in DOMAIN C
          /\ completions'[a] = C[a - Len(completions)]
          /\ completions'[b] = C[b - Len(completions)]
      BY <2>3, <1>1, <1>4
    <3>2. a - Len(completions) = b - Len(completions)
      BY <3>1, <1>1, Zenon DEF Distinct
    <3> QED BY <3>2, <1>1, <1>4
  <2>4. ASSUME NEW x \in 1..Len(completions), NEW y \in DOMAIN completions',
               y > Len(completions)
        PROVE  completions'[x].id # completions'[y].id
    <3>1. y - Len(completions) \in DOMAIN C /\ completions'[y] = C[y - Len(completions)]
      <4>1. Len(completions) \in Nat /\ Len(C) \in Nat /\ DOMAIN C = 1..Len(C)
        BY <1>1
      <4>2. y \in 1..(Len(completions) + Len(C)) /\ y > Len(completions)
        BY <1>4, <2>4, Zenon
      <4>3. y - Len(completions) \in 1..Len(C) /\ y \in (Len(completions) + 1)..(Len(completions) + Len(C))
        BY ONLY <4>1, <4>2
      <4> QED BY <1>4, <4>1, <4>3, Zenon
    <3>2. completions'[x].id \in IdsOf(completions) /\ completions'[y].id \in IdsOf(C)
      <4>1. x \in DOMAIN completions /\ completions'[x] = completions[x]
        BY <1>4
      <4> QED BY <3>1, <4>1, Zenon DEF IdsOf
    <3> QED BY <3>2, <2>1, Zenon
  <2>5. /\ a \in Nat /\ b \in Nat /\ Len(completions) \in Nat
        /\ a \in 1..Len(completions) \/ a > Len(completions)
        /\ b \in 1..Len(completions) \/ b > Len(completions)
    <3>1. Len(completions) \in Nat /\ Len(C) \in Nat
      BY <1>1
    <3>2. /\ a \in 1..(Len(completions) + Len(C))
          /\ b \in 1..(Len(completions) + Len(C))
      BY <1>4, Zenon
    <3> QED BY ONLY <3>1, <3>2
  <2> QED BY <2>2, <2>3, <2>4, <2>5, Zenon
<1>7. \A n \in DOMAIN completions' :
        \/ n \in DOMAIN completions /\ completions'[n] = completions[n]
        \/ completions'[n].result = r /\ \E k \in K : completions'[n].id = pending[k].id
  <2> SUFFICES ASSUME NEW n \in DOMAIN completions', n \notin DOMAIN completions
               PROVE  /\ completions'[n].result = r
                      /\ \E k \in K : completions'[n].id = pending[k].id
    BY <1>4
  <2>1. n - Len(completions) \in DOMAIN C /\ completions'[n] = C[n - Len(completions)]
    BY <1>1, <1>4
  <2>2. completions'[n].id \in IdsOf(C)
    BY <2>1, Zenon DEF IdsOf
  <2> QED BY <2>1, <2>2, <1>1, Zenon
<1> QED BY <1>1, <1>2, <1>3, <1>4, <1>5, <1>6, <1>7, Zenon

\* The inductive invariant: types, exact bookkeeping, no stale pending work.
Inv == TypeOK /\ ActiveIdsAccounted /\ PendingOnCurrentHandle

\* A registration that the kernel refused uses up a generation (Readiness).
RegistrationTakenBack(h) ==
  /\ ~registry[h].open
  /\ registry' = [registry EXCEPT ![h].generation = @ + 1]
  /\ UNCHANGED <<pending, completions, active, counters, stopped>>

\* The calls of virtual_backend, by any owner.
Call ==
  \/ \E h \in Handles : RegisterHandle(h) \/ RegistrationTakenBack(h)
  \/ \E i \in Ids, shape \in Shapes, t \in IssuedTokens : Submit(i, shape, t)
  \/ \E i \in Ids : Cancel(i)
  \/ \E t \in IssuedTokens : CloseHandle(t)
  \/ \E t, kind : CompleteReady(t, kind)
  \/ \E size \in DrainSizes : DrainCompletions(size)
  \/ Wake
  \/ Shutdown

\* The virtual backend on its own makes these calls.
LEMMA NextCalls == Next => Call
BY Zenon DEF Next, Call

\* drain_completions hands out a prefix and frees exactly its ids.
LEMMA DrainKeepsSuffix ==
  ASSUME TypeOK, ActiveIdsAccounted, NEW size \in DrainSizes, DrainCompletions(size)
  PROVE  \E count \in 0..Len(completions) :
           /\ active' = active \ {completions[k].id : k \in 1..count}
           /\ completions' \in Seq(Completion)
           /\ Distinct(completions')
           /\ DOMAIN completions' = 1..(Len(completions) - count)
           /\ \A k \in DOMAIN completions' : completions'[k] = completions[k + count]
           /\ IdsOf(completions') = IdsOf(completions) \ {completions[k].id : k \in 1..count}
<1> DEFINE count == IF size < Len(completions) THEN size ELSE Len(completions)
<1>1. Len(completions) \in Nat /\ size \in Nat /\ DOMAIN completions = 1..Len(completions)
  BY DEF TypeOK
<1>2. count \in 0..Len(completions)
  BY <1>1
<1>3. /\ active' = active \ {completions[k].id : k \in 1..count}
      /\ completions' = SubSeq(completions, count + 1, Len(completions))
  BY Zenon DEF DrainCompletions
<1> HIDE DEF count
<1>4. /\ completions' \in Seq(Completion)
      /\ DOMAIN completions' = 1..(Len(completions) - count)
      /\ \A k \in DOMAIN completions' : completions'[k] = completions[k + count]
  BY <1>1, <1>2, <1>3, SMTT(60) DEF TypeOK
<1>5. \A j, k \in DOMAIN completions : completions[j].id = completions[k].id => j = k
  BY Zenon DEF ActiveIdsAccounted, Distinct
<1>6. Distinct(completions')
  <2> SUFFICES ASSUME NEW a \in DOMAIN completions', NEW b \in DOMAIN completions',
                      completions'[a].id = completions'[b].id
               PROVE  a = b
    BY Zenon DEF Distinct
  <2>1. a + count \in DOMAIN completions /\ b + count \in DOMAIN completions
    BY <1>1, <1>2, <1>4
  <2>2. a + count = b + count
    BY <2>1, <1>4, <1>5, Zenon
  <2> QED BY <2>2, <1>1, <1>2, <1>4
<1>7. IdsOf(completions') = IdsOf(completions) \ {completions[k].id : k \in 1..count}
  <2>1. IdsOf(completions') = {completions[k + count].id : k \in 1..(Len(completions) - count)}
    BY <1>4, Zenon DEF IdsOf
  <2>2. {completions[k + count].id : k \in 1..(Len(completions) - count)}
          = {completions[k].id : k \in (count + 1)..Len(completions)}
    <3>1. \A k \in 1..(Len(completions) - count) : k + count \in (count + 1)..Len(completions)
      BY <1>1, <1>2
    <3>2. \A k \in (count + 1)..Len(completions) :
            k - count \in 1..(Len(completions) - count) /\ (k - count) + count = k
      BY <1>1, <1>2
    <3> QED BY <3>1, <3>2, Zenon
  <2>3. {completions[k].id : k \in (count + 1)..Len(completions)}
          = {completions[k].id : k \in 1..Len(completions)}
              \ {completions[k].id : k \in 1..count}
    BY <1>1, <1>2, <1>5
  <2> QED BY <1>1, <2>1, <2>2, <2>3, Zenon DEF IdsOf
<1> QED BY <1>2, <1>3, <1>4, <1>6, <1>7, Zenon

\* A new backend, with nothing registered and nothing queued, satisfies Inv.
LEMMA InvInit == Init => Inv
<1> SUFFICES ASSUME Init PROVE Inv
  BY Zenon
<1>1. TypeOK
  <2>1. pending \in Seq(Operation) /\ completions \in Seq(Completion)
    BY DEF Init
  <2>2. registry \in [Handles -> [generation : Nat, open : BOOLEAN]]
    BY Zenon DEF Init
  <2>3. counters \in [cancelled : Nat, wakeups : Nat] /\ active \in SUBSET Ids /\ stopped \in BOOLEAN
    BY Zenon DEF Init
  <2> QED BY <2>1, <2>2, <2>3, Zenon DEF TypeOK
<1>2. ActiveIdsAccounted
  BY DEF Init, ActiveIdsAccounted, IdsOf, Distinct
<1>3. PendingOnCurrentHandle
  BY DEF Init, PendingOnCurrentHandle
<1> QED BY <1>1, <1>2, <1>3, Zenon DEF Inv

\* submit appends one fresh id.
LEMMA SubmitPreservesInv ==
  ASSUME Inv, NEW i \in Ids, NEW shape \in Shapes, NEW t \in IssuedTokens,
         Submit(i, shape, t)
  PROVE  Inv' /\ IdsOf(pending') = IdsOf(pending) \cup {i} /\ i \notin active
<1> USE DEF Inv
<1> DEFINE op == [id |-> i, shape |-> shape, token |-> t]
<1>0. t \in Token
  BY DEF IssuedTokens, Issued, Token, TypeOK
<1>1. op \in Operation
  BY <1>0, Zenon DEF Operation
<1> HIDE DEF op
<1>2. /\ pending' = Append(pending, op)
      /\ active' = active \cup {i} /\ i \notin active
      /\ IsCurrent(t) /\ ~stopped
      /\ UNCHANGED <<registry, completions, counters, stopped>>
  BY Zenon DEF Submit, op
<1>3. /\ pending' \in Seq(Operation)
      /\ DOMAIN pending' = 1..(Len(pending) + 1)
      /\ DOMAIN pending = 1..Len(pending) /\ Len(pending) \in Nat
      /\ \A k \in 1..Len(pending) : pending'[k] = pending[k]
      /\ pending'[Len(pending) + 1] = op
  BY <1>1, <1>2 DEF TypeOK
<1>4. op.id = i /\ op.token = t
  BY Zenon DEF op
<1>5. IdsOf(pending') = IdsOf(pending) \cup {i}
  <2>1. IdsOf(pending') \subseteq IdsOf(pending) \cup {i}
    BY <1>3, <1>4 DEF IdsOf
  <2>2. IdsOf(pending) \subseteq IdsOf(pending')
    <3> SUFFICES ASSUME NEW n \in DOMAIN pending PROVE pending[n].id \in IdsOf(pending')
      BY Zenon DEF IdsOf
    <3>1. n \in DOMAIN pending' /\ pending'[n] = pending[n]
      BY <1>3
    <3> QED BY <3>1, Zenon DEF IdsOf
  <2>3. i \in IdsOf(pending')
    <3>1. Len(pending) + 1 \in DOMAIN pending'
      BY <1>3
    <3> QED BY <3>1, <1>3, <1>4, Zenon DEF IdsOf
  <2> QED BY <2>1, <2>2, <2>3, Zenon
<1>6. TypeOK'
  BY <1>2, <1>3, Zenon DEF TypeOK
<1>7. ActiveIdsAccounted'
  <2>1. i \notin IdsOf(pending) /\ i \notin IdsOf(completions)
    BY <1>2, Zenon DEF ActiveIdsAccounted
  <2>2. Distinct(pending')
    <3>1. \A k \in 1..Len(pending) : pending[k].id # i
      BY <2>1, <1>3, Zenon DEF IdsOf
    <3> QED BY <3>1, <1>3, <1>4 DEF Distinct, ActiveIdsAccounted
  <2>3. IdsOf(completions') = IdsOf(completions) /\ Distinct(completions')
    BY <1>2, Zenon DEF ActiveIdsAccounted
  <2> QED BY <2>1, <2>2, <2>3, <1>2, <1>5, Zenon DEF ActiveIdsAccounted
<1>8. PendingOnCurrentHandle'
  BY <1>2, <1>3, <1>4 DEF PendingOnCurrentHandle, IsCurrent
<1> QED BY <1>2, <1>5, <1>6, <1>7, <1>8, Zenon

\* One step of the backend preserves the invariant.
LEMMA InvStep == Inv /\ [Call]_vars => Inv'
<1> SUFFICES ASSUME Inv, [Call]_vars PROVE Inv'
  BY Zenon
<1> USE DEF Inv
<1>1. ASSUME NEW h \in Handles, RegisterHandle(h) PROVE Inv'
  <2>1. /\ registry' = [registry EXCEPT ![h] =
                          [generation |-> registry[h].generation + 1, open |-> TRUE]]
        /\ ~registry[h].open
        /\ UNCHANGED <<pending, completions, active, counters, stopped>>
    BY <1>1, Zenon DEF RegisterHandle, RegistryRegister
  <2>2. TypeOK'
    BY <2>1 DEF TypeOK
  <2>3. ActiveIdsAccounted'
    BY <2>1 DEF ActiveIdsAccounted, IdsOf, Distinct
  <2>4. PendingOnCurrentHandle'
    <3> SUFFICES ASSUME NEW k \in DOMAIN pending
                 PROVE  ~stopped /\ IsCurrent(pending[k].token)'
      BY <2>1, Zenon DEF PendingOnCurrentHandle
    <3>1. pending[k].token \in Token
      <4>1. pending[k] \in Operation
        BY DEF TypeOK
      <4> QED BY <4>1, Zenon DEF Operation
    <3> QED BY <2>1, <3>1, Zenon DEF PendingOnCurrentHandle, IsCurrent, TypeOK, Token
  <2> QED BY <2>2, <2>3, <2>4, Zenon
<1>2. ASSUME NEW i \in Ids, NEW shape \in Shapes, NEW t \in IssuedTokens,
             Submit(i, shape, t)
      PROVE  Inv'
  BY <1>2, SubmitPreservesInv, Zenon
<1>3. ASSUME NEW i \in Ids, Cancel(i) PROVE Inv'
  <2>1. /\ counters' = [counters EXCEPT !.cancelled = @ + 1]
        /\ UNCHANGED <<registry, pending, completions, active, stopped>>
    BY <1>3, Zenon DEF Cancel
  <2>2. TypeOK'
    BY <2>1, SMTT(60) DEF TypeOK
  <2>3. ActiveIdsAccounted'
    BY <2>1, Zenon DEF ActiveIdsAccounted
  <2>4. PendingOnCurrentHandle'
    BY <2>1, Zenon DEF PendingOnCurrentHandle, IsCurrent
  <2> QED BY <2>2, <2>3, <2>4, Zenon
<1>4. ASSUME NEW t \in IssuedTokens, CloseHandle(t) PROVE Inv'
  <2> DEFINE K == OnToken(t)
  <2>0. K \in SUBSET DOMAIN pending /\ "closed" \in Result /\ t \in Token
    BY DEF OnToken, Result, IssuedTokens, Issued, Token, TypeOK
  <2>1. /\ CompletePending(K, "closed")
        /\ IsCurrent(t)
        /\ registry' = [registry EXCEPT ![t.handle].open = FALSE]
        /\ UNCHANGED <<active, counters, stopped>>
    BY <1>4, Zenon DEF CloseHandle, RegistryClose
  <2> HIDE DEF K
  <2>2. /\ pending' \in Seq(Operation)
        /\ completions' \in Seq(Completion)
        /\ Distinct(pending') /\ Distinct(completions')
        /\ IdsOf(pending') = IdsOf(pending) \ {pending[k].id : k \in K}
        /\ IdsOf(completions') = IdsOf(completions) \cup {pending[k].id : k \in K}
        /\ \A n \in DOMAIN pending' : \E k \in DOMAIN pending \ K : pending'[n] = pending[k]
    BY <2>0, <2>1, CompletePendingMoves, Zenon
  <2>3. TypeOK'
    BY <2>0, <2>1, <2>2, ZenonT(30) DEF TypeOK, Token
  <2>4. {pending[k].id : k \in K} \subseteq IdsOf(pending)
    BY <2>0, Zenon DEF IdsOf
  <2>5. ActiveIdsAccounted'
    BY <2>1, <2>2, <2>4, Zenon DEF ActiveIdsAccounted
  <2>6. PendingOnCurrentHandle'
    <3> SUFFICES ASSUME NEW n \in DOMAIN pending'
                 PROVE  ~stopped' /\ IsCurrent(pending[n].token)'
      BY Zenon DEF PendingOnCurrentHandle
    <3>1. PICK k \in DOMAIN pending \ K : pending'[n] = pending[k]
      BY <2>2, Zenon
    <3>2. pending[k].token \in Token /\ pending[k].token # t
      <4>1. pending[k] \in Operation
        BY <3>1 DEF TypeOK
      <4> QED BY <3>1, <4>1, Zenon DEF K, OnToken, Operation
    <3>3. pending[k].token.handle # t.handle
      BY <2>0, <2>1, <3>1, <3>2 DEF PendingOnCurrentHandle, IsCurrent, Token
    <3> QED BY <2>0, <2>1, <3>1, <3>2, <3>3, Zenon DEF PendingOnCurrentHandle, IsCurrent, TypeOK, Token
  <2> QED BY <2>3, <2>5, <2>6, Zenon
<1>5. ASSUME NEW t, NEW kind, CompleteReady(t, kind)
      PROVE  Inv'
  <2> DEFINE K == {k \in OnToken(t) : pending[k].shape \in Ready(kind)}
  <2>0. K \in SUBSET DOMAIN pending /\ "ok" \in Result
    BY Zenon DEF OnToken, Result
  <2>1. CompletePending(K, "ok") /\ UNCHANGED <<registry, active, counters, stopped>>
    BY <1>5, Zenon DEF CompleteReady
  <2> HIDE DEF K
  <2>2. /\ pending' \in Seq(Operation)
        /\ completions' \in Seq(Completion)
        /\ Distinct(pending') /\ Distinct(completions')
        /\ IdsOf(pending') = IdsOf(pending) \ {pending[k].id : k \in K}
        /\ IdsOf(completions') = IdsOf(completions) \cup {pending[k].id : k \in K}
        /\ \A n \in DOMAIN pending' : \E k \in DOMAIN pending \ K : pending'[n] = pending[k]
    BY <2>0, <2>1, CompletePendingMoves, Zenon
  <2>3. TypeOK'
    BY <2>1, <2>2, Zenon DEF TypeOK
  <2>4. {pending[k].id : k \in K} \subseteq IdsOf(pending)
    BY <2>0, Zenon DEF IdsOf
  <2>5. ActiveIdsAccounted'
    BY <2>1, <2>2, <2>4, Zenon DEF ActiveIdsAccounted
  <2>6. PendingOnCurrentHandle'
    BY <2>1, <2>2, Zenon DEF PendingOnCurrentHandle, IsCurrent
  <2> QED BY <2>3, <2>5, <2>6, Zenon
<1>6. ASSUME NEW size \in DrainSizes, DrainCompletions(size) PROVE Inv'
  <2>1. UNCHANGED <<registry, pending, counters, stopped>>
    BY <1>6, Zenon DEF DrainCompletions
  <2>2. PICK count \in 0..Len(completions) :
          /\ active' = active \ {completions[k].id : k \in 1..count}
          /\ completions' \in Seq(Completion)
          /\ Distinct(completions')
          /\ IdsOf(completions') = IdsOf(completions) \ {completions[k].id : k \in 1..count}
    BY <1>6, DrainKeepsSuffix, Zenon
  <2>3. TypeOK'
    BY <2>1, <2>2, Zenon DEF TypeOK
  <2>4. {completions[k].id : k \in 1..count} \subseteq IdsOf(completions)
    BY DEF IdsOf, TypeOK
  <2>5. ActiveIdsAccounted'
    <3>1. IdsOf(pending') = IdsOf(pending) /\ Distinct(pending')
      BY <2>1, Zenon DEF ActiveIdsAccounted
    <3> QED BY <2>1, <2>2, <2>4, <3>1, Zenon DEF ActiveIdsAccounted
  <2>6. PendingOnCurrentHandle'
    BY <2>1, Zenon DEF PendingOnCurrentHandle, IsCurrent
  <2> QED BY <2>3, <2>5, <2>6, Zenon
<1>7. ASSUME Wake PROVE Inv'
  <2>1. /\ counters' = [counters EXCEPT !.wakeups = @ + 1]
        /\ UNCHANGED <<registry, pending, completions, active, stopped>>
    BY <1>7, Zenon DEF Wake
  <2>2. TypeOK'
    BY <2>1 DEF TypeOK
  <2>3. ActiveIdsAccounted'
    BY <2>1, Zenon DEF ActiveIdsAccounted
  <2>4. PendingOnCurrentHandle'
    BY <2>1, Zenon DEF PendingOnCurrentHandle, IsCurrent
  <2> QED BY <2>2, <2>3, <2>4, Zenon
<1>8. ASSUME Shutdown PROVE Inv'
  <2>0. DOMAIN pending \in SUBSET DOMAIN pending /\ "closed" \in Result
    BY Zenon DEF Result
  <2>1. /\ CompletePending(DOMAIN pending, "closed")
        /\ stopped' = TRUE
        /\ UNCHANGED <<registry, active, counters>>
    BY <1>8, Zenon DEF Shutdown
  <2>2. /\ pending' \in Seq(Operation)
        /\ completions' \in Seq(Completion)
        /\ Distinct(pending') /\ Distinct(completions')
        /\ IdsOf(pending') = IdsOf(pending) \ {pending[k].id : k \in DOMAIN pending}
        /\ IdsOf(completions') = IdsOf(completions) \cup {pending[k].id : k \in DOMAIN pending}
        /\ \A n \in DOMAIN pending' :
             \E k \in DOMAIN pending \ DOMAIN pending : pending'[n] = pending[k]
    BY <2>0, <2>1, CompletePendingMoves, Zenon
  <2>3. TypeOK'
    BY <2>1, <2>2, Zenon DEF TypeOK
  <2>5. ActiveIdsAccounted'
    BY <2>1, <2>2, Zenon DEF ActiveIdsAccounted, IdsOf
  <2>6. PendingOnCurrentHandle'
    BY <2>2, Zenon DEF PendingOnCurrentHandle
  <2> QED BY <2>3, <2>5, <2>6, Zenon
<1>9. CASE UNCHANGED vars
  <2>1. UNCHANGED <<registry, pending, completions, active, counters, stopped>>
    BY <1>9, Zenon DEF vars
  <2>2. TypeOK'
    BY <2>1, Zenon DEF TypeOK
  <2>3. ActiveIdsAccounted'
    BY <2>1, Zenon DEF ActiveIdsAccounted
  <2>4. PendingOnCurrentHandle'
    BY <2>1, Zenon DEF PendingOnCurrentHandle, IsCurrent
  <2> QED BY <2>2, <2>3, <2>4, Zenon
<1>10. ASSUME NEW h \in Handles, RegistrationTakenBack(h) PROVE Inv'
  <2>1. /\ registry' = [registry EXCEPT ![h].generation = @ + 1]
        /\ ~registry[h].open
        /\ UNCHANGED <<pending, completions, active, counters, stopped>>
    BY <1>10, Zenon DEF RegistrationTakenBack
  <2>2. TypeOK'
    BY <2>1 DEF TypeOK
  <2>3. ActiveIdsAccounted'
    BY <2>1, Zenon DEF ActiveIdsAccounted
  <2>4. PendingOnCurrentHandle'
    <3> SUFFICES ASSUME NEW k \in DOMAIN pending
                 PROVE  ~stopped /\ IsCurrent(pending[k].token)'
      BY <2>1, Zenon DEF PendingOnCurrentHandle
    <3>1. pending[k].token \in Token
      <4>1. pending[k] \in Operation
        BY DEF TypeOK
      <4> QED BY <4>1, Zenon DEF Operation
    <3>2. pending[k].token.handle # h /\ pending[k].token.handle \in Handles
      BY <2>1, <3>1, Zenon DEF PendingOnCurrentHandle, IsCurrent, Token
    <3>3. registry'[pending[k].token.handle] = registry[pending[k].token.handle]
      BY <2>1, <3>2, Zenon DEF TypeOK
    <3> QED BY <2>1, <3>3, Zenon DEF PendingOnCurrentHandle, IsCurrent
  <2> QED BY <2>2, <2>3, <2>4, Zenon
<1> QED BY <1>1, <1>2, <1>3, <1>4, <1>5, <1>6, <1>7, <1>8, <1>9, <1>10, Zenon DEF Call

\* Inv, the conjunction the theorems below are read off from, is inductive.
THEOREM Invariance == Spec => []Inv
<1>1. Inv /\ [Next]_vars => Inv'
  BY InvStep, NextCalls, Zenon
<1> QED BY InvInit, <1>1, PTL DEF Spec

\* The members of virtual_backend keep their types.
THEOREM TypeCorrect == Spec => []TypeOK
<1>1. Inv => TypeOK
  BY Zenon DEF Inv
<1> QED BY Invariance, <1>1, PTL

\* An accepted id is in exactly one of pending_ and completions_, once, until
\* drain_completions hands its completion out.
THEOREM IdsAccounted == Spec => []ActiveIdsAccounted
<1>1. Inv => ActiveIdsAccounted
  BY Zenon DEF Inv
<1> QED BY Invariance, <1>1, PTL

\* close_handle and shutdown leave no operation on a stale token.
THEOREM NothingPendingOnStaleHandle == Spec => []PendingOnCurrentHandle
<1>1. Inv => PendingOnCurrentHandle
  BY Zenon DEF Inv
<1> QED BY Invariance, <1>1, PTL

------------------------------------------------------------------------------
(* The virtual backend implements the operation contract. *)

\* The contract's status of each id, read off the two queues.
LEMMA StatusFacts ==
  ASSUME NEW p \in Seq(Operation), NEW c \in Seq(Completion),
         Distinct(c), IdsOf(p) \cap IdsOf(c) = {}
  PROVE  /\ IdsOf(p) \subseteq Ids /\ IdsOf(c) \subseteq Ids
         /\ \A i \in IdsOf(p) : StatusOf(p, c)[i] = "active"
         /\ \A k \in DOMAIN c : StatusOf(p, c)[c[k].id] = c[k].result /\ c[k].result \in Result
         /\ \A i \in Ids : i \notin IdsOf(p) /\ i \notin IdsOf(c) => StatusOf(p, c)[i] = "free"
<1>1. (\A k \in DOMAIN p : p[k].id \in Ids) /\ (\A k \in DOMAIN c : c[k].id \in Ids /\ c[k].result \in Result)
  <2>1. \A k \in DOMAIN p : p[k] \in Operation
    OBVIOUS
  <2>2. \A k \in DOMAIN c : c[k] \in Completion
    OBVIOUS
  <2> QED BY <2>1, <2>2, Zenon DEF Operation, Completion
<1>2. IdsOf(p) \subseteq Ids /\ IdsOf(c) \subseteq Ids
  BY <1>1, Zenon DEF IdsOf
<1>3. \A i \in IdsOf(p) : StatusOf(p, c)[i] = "active"
  BY <1>2, Zenon DEF StatusOf
<1>4. ASSUME NEW k \in DOMAIN c
      PROVE  StatusOf(p, c)[c[k].id] = c[k].result
  <2> DEFINE ch == CHOOSE j \in DOMAIN c : c[j].id = c[k].id
  <2>1. ch \in DOMAIN c /\ c[ch].id = c[k].id
    BY Zenon
  <2>2. ch = k
    BY <2>1, Zenon DEF Distinct
  <2>3. c[k].id \in IdsOf(c) /\ c[k].id \notin IdsOf(p) /\ c[k].id \in Ids
    BY <1>1, Zenon DEF IdsOf
  <2>4. StatusOf(p, c)[c[k].id] = c[ch].result
    BY <2>3, Zenon DEF StatusOf
  <2> QED BY <2>2, <2>4, Zenon
<1>5. \A i \in Ids : i \notin IdsOf(p) /\ i \notin IdsOf(c) => StatusOf(p, c)[i] = "free"
  BY Zenon DEF StatusOf
<1> QED BY <1>1, <1>2, <1>3, <1>4, <1>5, Zenon

\* What Status says of every id, read off the two queues, in a state of Inv.
LEMMA StatusInv ==
  ASSUME Inv
  PROVE  /\ IdsOf(pending) \subseteq Ids /\ IdsOf(completions) \subseteq Ids
         /\ \A i \in IdsOf(pending) : Status[i] = "active"
         /\ \A k \in DOMAIN completions :
              Status[completions[k].id] = completions[k].result /\ completions[k].result \in Result
         /\ \A i \in Ids : i \notin IdsOf(pending) /\ i \notin IdsOf(completions) => Status[i] = "free"
BY StatusFacts, Zenon DEF Inv, TypeOK, ActiveIdsAccounted, Status

\* The same facts after a step that preserves Inv.
LEMMA StatusInvNext ==
  ASSUME Inv'
  PROVE  /\ \A i \in IdsOf(pending') : Status'[i] = "active"
         /\ \A k \in DOMAIN completions' :
              Status'[completions'[k].id] = completions'[k].result
         /\ \A i \in Ids : i \notin IdsOf(pending') /\ i \notin IdsOf(completions') => Status'[i] = "free"
<1>1. /\ pending' \in Seq(Operation) /\ completions' \in Seq(Completion)
      /\ Distinct(completions') /\ IdsOf(pending') \cap IdsOf(completions') = {}
  BY Zenon DEF Inv, TypeOK, ActiveIdsAccounted
<1>2. Status' = StatusOf(pending', completions')
  BY Zenon DEF Status
<1> QED BY <1>1, <1>2, StatusFacts

\* Status is a function on Ids, before and after a step.
LEMMA StatusDomain ==
  /\ Status = [i \in Ids |-> Status[i]]
  /\ Status' = [i \in Ids |-> Status'[i]]
BY DEF Status, StatusOf

\* A call that moves part of pending_ to completions_ is a Complete step.
LEMMA CompletePendingRefines ==
  ASSUME Inv, Inv', NEW K \in SUBSET DOMAIN pending, NEW r \in Result, CompletePending(K, r)
  PROVE  Contract!Next
<1> DEFINE S == {pending[k].id : k \in K}
           f == [i \in S |-> r]
<1>0. TypeOK /\ ActiveIdsAccounted
  BY Zenon DEF Inv
<1>1. /\ IdsOf(pending') = IdsOf(pending) \ S
      /\ IdsOf(completions') = IdsOf(completions) \cup S
      /\ \A n \in DOMAIN completions' :
           \/ n \in DOMAIN completions /\ completions'[n] = completions[n]
           \/ completions'[n].result = r /\ \E k \in K : completions'[n].id = pending[k].id
  <2>1. CompletePending(K, r)
    BY Zenon
  <2>2. IdsOf(pending') = IdsOf(pending) \ {pending[k].id : k \in K}
    BY <1>0, <2>1, CompletePendingMoves, Zenon
  <2>3. IdsOf(completions') = IdsOf(completions) \cup {pending[k].id : k \in K}
    BY <1>0, <2>1, CompletePendingMoves, Zenon
  <2>4. \A n \in DOMAIN completions' :
          \/ n \in DOMAIN completions /\ completions'[n] = completions[n]
          \/ completions'[n].result = r /\ \E k \in K : completions'[n].id = pending[k].id
    BY <1>0, <2>1, CompletePendingMoves
  <2> QED BY <2>2, <2>3, <2>4, Zenon
<1>2. S \subseteq IdsOf(pending)
  BY Zenon DEF IdsOf
<1>3. S \in SUBSET Ids /\ \A i \in S : Status[i] = "active"
  BY <1>2, StatusInv, Zenon
<1>a. \A k \in K : pending[k].id \in S
  BY Zenon
<1> HIDE DEF S
<1>4. \A i \in Ids : Status'[i] = IF i \in S THEN f[i] ELSE Status[i]
  <2> SUFFICES ASSUME NEW i \in Ids PROVE Status'[i] = IF i \in S THEN f[i] ELSE Status[i]
    BY Zenon
  <2>0. S \cap IdsOf(completions) = {}
    BY <1>2, Zenon DEF Inv, ActiveIdsAccounted
  <2>1. CASE i \in IdsOf(completions')
    <3>1. PICK n \in DOMAIN completions' : completions'[n].id = i
      BY <2>1, Zenon DEF IdsOf
    <3>2. Status'[i] = completions'[n].result
      BY <3>1, StatusInvNext, Zenon
    <3>3. CASE n \in DOMAIN completions /\ completions'[n] = completions[n]
      <4>1. i \in IdsOf(completions)
        BY <3>1, <3>3, Zenon DEF IdsOf
      <4>2. Status[i] = completions[n].result
        BY <3>1, <3>3, StatusInv, Zenon
      <4> QED BY <4>1, <4>2, <3>2, <3>3, <2>0, Zenon
    <3>4. CASE completions'[n].result = r /\ \E k \in K : completions'[n].id = pending[k].id
      BY <3>1, <3>2, <3>4, <1>a, Zenon
    <3> QED BY <1>1, <3>3, <3>4, Zenon
  <2>2. CASE i \in IdsOf(pending')
    BY <2>2, <1>1, StatusInv, StatusInvNext, Zenon
  <2>3. CASE i \notin IdsOf(pending') /\ i \notin IdsOf(completions')
    BY <2>3, <1>1, <1>2, StatusInv, StatusInvNext, Zenon
  <2> QED BY <2>1, <2>2, <2>3, Zenon
<1>5. f \in [S -> Result] /\ Status' = [i \in Ids |-> IF i \in S THEN f[i] ELSE Status[i]]
  BY <1>4, StatusDomain, Zenon
<1> HIDE DEF f
<1>6. Contract!Complete(S)
  BY <1>3, <1>5, Zenon DEF Contract!Complete
<1> QED BY <1>3, <1>6, Zenon DEF Contract!Next

\* submit is an Accept step.
LEMMA SubmitRefines ==
  ASSUME Inv, Inv', NEW i \in Ids, NEW shape \in Shapes, NEW t \in IssuedTokens,
         Submit(i, shape, t)
  PROVE  Contract!Next
<1>1. IdsOf(pending') = IdsOf(pending) \cup {i} /\ i \notin active
  BY SubmitPreservesInv, Zenon
<1>2. completions' = completions
  BY Zenon DEF Submit
<1>3. Status[i] = "free"
  BY <1>1, StatusInv, Zenon DEF Inv, ActiveIdsAccounted
<1>4. \A j \in Ids : Status'[j] = IF j = i THEN "active" ELSE Status[j]
  <2> SUFFICES ASSUME NEW j \in Ids PROVE Status'[j] = IF j = i THEN "active" ELSE Status[j]
    BY Zenon
  <2>1. CASE j \in IdsOf(pending')
    BY <1>1, <2>1, StatusInv, StatusInvNext, Zenon
  <2>2. CASE j \in IdsOf(completions)
    <3>1. PICK n \in DOMAIN completions : completions[n].id = j
      BY <2>2, Zenon DEF IdsOf
    <3>2. i # j
      BY <1>1, <2>2, Zenon DEF Inv, ActiveIdsAccounted
    <3> QED BY <1>2, <3>1, <3>2, StatusInv, StatusInvNext, Zenon
  <2>3. CASE j \notin IdsOf(pending') /\ j \notin IdsOf(completions)
    BY <1>1, <1>2, <2>3, StatusInv, StatusInvNext, Zenon
  <2> QED BY <2>1, <2>2, <2>3, Zenon
<1>5. Status' = [Status EXCEPT ![i] = "active"]
  BY <1>4, StatusDomain, Zenon
<1>6. Contract!Accept(i)
  BY <1>3, <1>5, Zenon DEF Contract!Accept
<1> QED BY <1>6, Zenon DEF Contract!Next

\* drain_completions is a Deliver step.
LEMMA DrainRefines ==
  ASSUME Inv, Inv', NEW size \in DrainSizes, DrainCompletions(size)
  PROVE  Contract!Next
<1>1. PICK count \in 0..Len(completions) :
         /\ DOMAIN completions' = 1..(Len(completions) - count)
         /\ \A k \in DOMAIN completions' : completions'[k] = completions[k + count]
         /\ IdsOf(completions') = IdsOf(completions) \ {completions[k].id : k \in 1..count}
  BY DrainKeepsSuffix, Zenon DEF Inv
<1>2. pending' = pending
  BY Zenon DEF DrainCompletions
<1>3. Len(completions) \in Nat /\ DOMAIN completions = 1..Len(completions)
  BY DEF Inv, TypeOK
<1> DEFINE S == {completions[k].id : k \in 1..count}
<1>4. S \subseteq IdsOf(completions)
  BY <1>3 DEF IdsOf
<1>5. \A i \in S : Status[i] \in Result
  BY <1>3, StatusInv
<1>6. \A i \in Ids : Status'[i] = IF i \in S THEN "free" ELSE Status[i]
  <2> HIDE DEF S
  <2> SUFFICES ASSUME NEW i \in Ids PROVE Status'[i] = IF i \in S THEN "free" ELSE Status[i]
    BY Zenon
  <2>0. IdsOf(completions') = IdsOf(completions) \ S
    BY <1>1, Zenon DEF S
  <2>1. CASE i \in IdsOf(completions')
    <3>1. PICK n \in DOMAIN completions' : completions'[n].id = i
      BY <2>1, Zenon DEF IdsOf
    <3>2. n + count \in DOMAIN completions /\ completions'[n] = completions[n + count]
      BY <1>1, <1>3
    <3> QED BY <2>0, <2>1, <3>1, <3>2, StatusInv, StatusInvNext, Zenon
  <2>2. CASE i \in IdsOf(pending)
    <3>1. i \notin S
      BY <1>4, <2>2, Zenon DEF Inv, ActiveIdsAccounted
    <3> QED BY <1>2, <2>2, <3>1, StatusInv, StatusInvNext, Zenon
  <2>3. CASE i \notin IdsOf(pending) /\ i \notin IdsOf(completions')
    <3>1. Status'[i] = "free"
      BY <1>2, <2>3, StatusInvNext, Zenon
    <3>2. i \notin S => Status[i] = "free"
      BY <2>0, <2>3, StatusInv, Zenon
    <3> QED BY <3>1, <3>2, Zenon
  <2> QED BY <2>1, <2>2, <2>3, Zenon
<1>7. S \in SUBSET Ids
  BY <1>4, StatusInv, Zenon
<1>8. Status' = [i \in Ids |-> IF i \in S THEN "free" ELSE Status[i]]
  BY <1>6, StatusDomain, Zenon
<1> HIDE DEF S
<1>9. Contract!Deliver(S)
  BY <1>5, <1>8, Zenon DEF Contract!Deliver
<1> QED BY <1>7, <1>9, Zenon DEF Contract!Next

\* A new backend has no operations.
LEMMA ContractInit == Init => Contract!Init
<1> SUFFICES ASSUME Init PROVE Contract!Init
  BY Zenon
<1>1. IdsOf(pending) = {} /\ IdsOf(completions) = {}
  BY DEF Init, IdsOf
<1>2. \A i \in Ids : Status[i] = "free"
  BY <1>1, Zenon DEF Status, StatusOf
<1>3. Status = [i \in Ids |-> "free"]
  BY <1>2, StatusDomain, Zenon
<1> QED BY <1>3, Zenon DEF Contract!Init

\* Each call is a step of the contract or changes no status.
LEMMA CallRefines == Inv /\ Inv' /\ [Call]_vars => [Contract!Next]_Status
<1> SUFFICES ASSUME Inv, Inv', [Call]_vars PROVE Contract!Next \/ UNCHANGED Status
  BY Zenon
<1>0. UNCHANGED <<pending, completions>> => UNCHANGED Status
  BY Zenon DEF Status
<1>1. ASSUME NEW h \in Handles, RegisterHandle(h) PROVE UNCHANGED Status
  BY <1>0, <1>1, Zenon DEF RegisterHandle
<1>2. ASSUME NEW i \in Ids, NEW shape \in Shapes, NEW t \in IssuedTokens,
             Submit(i, shape, t)
      PROVE  Contract!Next
  BY <1>2, SubmitRefines, Zenon
<1>3. ASSUME NEW i \in Ids, Cancel(i) PROVE UNCHANGED Status
  BY <1>0, <1>3, Zenon DEF Cancel
<1>4. ASSUME NEW t \in IssuedTokens, CloseHandle(t) PROVE Contract!Next
  <2>1. OnToken(t) \in SUBSET DOMAIN pending /\ "closed" \in Result
    BY Zenon DEF OnToken, Result
  <2>2. CompletePending(OnToken(t), "closed")
    BY <1>4, Zenon DEF CloseHandle
  <2> QED BY <2>1, <2>2, CompletePendingRefines, Zenon
<1>5. ASSUME NEW t, NEW kind, CompleteReady(t, kind)
      PROVE  Contract!Next
  <2> DEFINE K == {k \in OnToken(t) : pending[k].shape \in Ready(kind)}
  <2>1. K \in SUBSET DOMAIN pending /\ "ok" \in Result
    BY Zenon DEF OnToken, Result
  <2>2. CompletePending(K, "ok")
    BY <1>5, Zenon DEF CompleteReady
  <2> HIDE DEF K
  <2> QED BY <2>1, <2>2, CompletePendingRefines, Zenon
<1>6. ASSUME NEW size \in DrainSizes, DrainCompletions(size) PROVE Contract!Next
  BY <1>6, DrainRefines, Zenon
<1>7. ASSUME Wake PROVE UNCHANGED Status
  BY <1>0, <1>7, Zenon DEF Wake
<1>8. ASSUME Shutdown PROVE Contract!Next
  <2>1. CompletePending(DOMAIN pending, "closed") /\ "closed" \in Result
    BY <1>8, Zenon DEF Shutdown, Result
  <2> QED BY <2>1, CompletePendingRefines, Zenon
<1>10. ASSUME NEW h \in Handles, RegistrationTakenBack(h) PROVE UNCHANGED Status
  BY <1>0, <1>10, Zenon DEF RegistrationTakenBack
<1>9. CASE UNCHANGED vars
  BY <1>0, <1>9, Zenon DEF vars
<1> QED BY <1>1, <1>2, <1>3, <1>4, <1>5, <1>6, <1>7, <1>8, <1>9, <1>10, Zenon DEF Call

\* Every behaviour of the virtual backend is one the operation contract
\* allows: submit accepts, readiness, close_handle and shutdown complete,
\* drain_completions delivers, and the other calls change no status.
THEOREM Refinement == Spec => ImplementsContract
<1>1. Inv /\ Inv' /\ [Next]_vars => [Contract!Next]_Status
  BY CallRefines, NextCalls, Zenon
<1> QED BY <1>1, ContractInit, Invariance, PTL DEF Spec, ImplementsContract, Contract!Spec

------------------------------------------------------------------------------
(* Epoll and kqueue: the kernel's filters beside fallback_. *)

\* The filter of a registration, for reading or for writing.
FilterOf(g, n, k) == [token |-> [handle |-> g, generation |-> n], kind |-> k]

\* The kernel keeps the filters of the other descriptors.
OthersKept(h) ==
  \A g \in Handles \ {h}, n \in Nat, k \in {"read", "write"} :
    FilterOf(g, n, k) \in filters => FilterOf(g, n, k) \in filters'

\* What the kernel drops of the filters of t is recorded.
OwnLost(t) ==
  /\ lost \subseteq lost'
  /\ \A k \in {"read", "write"} :
       FilterOf(t.handle, t.generation, k) \in filters => FilterOf(t.handle, t.generation, k) \in filters' \cup lost'

\* The steps of both backends, as far as fallback_, the filters and the lost
\* ones go: what is proved below does not depend on how a kernel queue
\* registers, deletes and reports filters.
KernelStep ==
  \/ \E h \in Handles :
       /\ RegisterHandle(h) /\ OthersKept(h) /\ lost' = lost
       /\ \A k \in {"read", "write"} : FilterOf(h, registry[h].generation + 1, k) \in filters'
  \/ \E h \in Handles : RegistrationTakenBack(h) /\ OthersKept(h) /\ lost' = lost
  \/ \E i \in Ids, shape \in SocketShapes, t \in IssuedTokens :
       Submit(i, shape, t) /\ UNCHANGED <<filters, lost>>
  \/ \E i \in Ids : Cancel(i) /\ UNCHANGED <<filters, lost>>
  \/ \E t \in IssuedTokens : CloseHandle(t) /\ OthersKept(t.handle) /\ lost' = lost
  \/ \E t \in IssuedTokens :
       IsCurrent(t) /\ UNCHANGED vars /\ OthersKept(t.handle) /\ OwnLost(t)
  \/ \E kind : /\ events # <<>> /\ CompleteReady(Head(events).token, kind)
               /\ UNCHANGED <<filters, lost>>
  \/ \E size \in DrainSizes : DrainCompletions(size) /\ UNCHANGED <<filters, lost>>
  \/ Shutdown
  \/ UNCHANGED vars /\ UNCHANGED <<filters, lost>>

\* Every open registration has its two filters in the kernel, or they are
\* lost: stronger than what is said of pending operations, because submit
\* does not ask the kernel.
OpenHasFilters ==
  ~stopped => \A h \in Handles :
    registry[h].open =>
      \A k \in {"read", "write"} : FilterOf(h, registry[h].generation, k) \in filters \cup lost

\* Only operations that a readiness event can complete are pending.
PendingForSockets == \A n \in DOMAIN pending : pending[n].shape \in SocketShapes

\* The inductive invariant.
KernelInv == Inv /\ OpenHasFilters /\ PendingForSockets

\* An operation that succeeds in a step was pending on the token of the event
\* that the step handles.
OwnEvents ==
  \A n \in DOMAIN completions', k \in DOMAIN pending :
    n > Len(completions) /\ completions'[n].result = "ok" /\ pending[k].id = completions'[n].id
      => events # <<>> /\ pending[k].token = Head(events).token

\* A step that touches one descriptor keeps the filters of the others.
LEMMA FiltersKept ==
  ASSUME Inv, OpenHasFilters, NEW h \in Handles, stopped' = stopped, lost \subseteq lost', OthersKept(h),
         \A g \in Handles \ {h} : registry'[g] = registry[g],
         registry'[h].open =>
           \A k \in {"read", "write"} : FilterOf(h, registry'[h].generation, k) \in filters' \cup lost'
  PROVE  OpenHasFilters'
<1> SUFFICES ASSUME ~stopped, NEW g \in Handles, g # h, registry[g].open
             PROVE  \A k \in {"read", "write"} : FilterOf(g, registry[g].generation, k) \in filters' \cup lost'
  <2>1. \A g \in Handles : g # h => g \in Handles \ {h}
    BY Zenon
  <2> QED BY <2>1, Zenon DEF OpenHasFilters
<1>1. registry[g].generation \in Nat
  BY Zenon DEF Inv, TypeOK
<1>2. \A k \in {"read", "write"} : FilterOf(g, registry[g].generation, k) \in filters \cup lost
  BY Zenon DEF OpenHasFilters
<1>3. \A k \in {"read", "write"} :
        FilterOf(g, registry[g].generation, k) \in filters => FilterOf(g, registry[g].generation, k) \in filters'
  BY <1>1, Zenon DEF OthersKept
<1> QED BY <1>2, <1>3, Zenon

\* Completing operations leaves operations that were pending.
LEMMA CompletingKeepsSockets ==
  ASSUME Inv, PendingForSockets, NEW K \in SUBSET DOMAIN pending, NEW r \in Result, CompletePending(K, r)
  PROVE  PendingForSockets'
<1>1. \A n \in DOMAIN pending' : \E k \in DOMAIN pending \ K : pending'[n] = pending[k]
  BY CompletePendingMoves, Zenon DEF Inv
<1> QED BY <1>1, Zenon DEF PendingForSockets

\* What a step completes that only ends operations, or that completes nothing.
LEMMA NothingSucceeds ==
  ASSUME Inv, \A n \in DOMAIN completions' : n \in DOMAIN completions \/ completions'[n].result # "ok"
  PROVE  OwnEvents
<1>1. \A n \in DOMAIN completions : ~(n > Len(completions))
  <2>1. DOMAIN completions = 1..Len(completions) /\ Len(completions) \in Nat
    BY DEF Inv, TypeOK
  <2> QED BY ONLY <2>1
<1> QED BY <1>1, Zenon DEF OwnEvents

\* The completions a call adds, by the positions they were pending at.
Ended(K, r) ==
  \A n \in DOMAIN completions' :
    \/ n \in DOMAIN completions /\ completions'[n] = completions[n]
    \/ completions'[n].result = r /\ \E k \in K : completions'[n].id = pending[k].id

\* complete_pending adds those of its operations.
LEMMA CompletePendingEnds ==
  ASSUME TypeOK, ActiveIdsAccounted, NEW K \in SUBSET DOMAIN pending, NEW r \in Result,
         CompletePending(K, r)
  PROVE  Ended(K, r)
BY CompletePendingMoves DEF Ended

\* What an event completes was pending on the event's own token.
LEMMA EventsOwn ==
  ASSUME Inv, NEW kind, events # <<>>, CompleteReady(Head(events).token, kind)
  PROVE  OwnEvents
<1> DEFINE t == Head(events).token
           K == {k \in OnToken(t) : pending[k].shape \in Ready(kind)}
<1>1. K \in SUBSET DOMAIN pending /\ "ok" \in Result /\ CompletePending(K, "ok")
  BY Zenon DEF OnToken, Result, CompleteReady
<1>2. \A k \in K : pending[k].token = t /\ k \in DOMAIN pending
  BY Zenon DEF OnToken
<1> HIDE DEF K
<1>3. \A n \in DOMAIN completions' :
        \/ n \in DOMAIN completions /\ completions'[n] = completions[n]
        \/ completions'[n].result = "ok" /\ \E k \in K : completions'[n].id = pending[k].id
  BY <1>1, CompletePendingEnds, Zenon DEF Inv, Ended
<1>4. \A n \in DOMAIN completions : ~(n > Len(completions))
  <2>1. DOMAIN completions = 1..Len(completions) /\ Len(completions) \in Nat
    BY DEF Inv, TypeOK
  <2> QED BY ONLY <2>1
<1>5. \A j, k \in DOMAIN pending : pending[j].id = pending[k].id => j = k
  BY Zenon DEF Inv, ActiveIdsAccounted, Distinct
<1>6. ASSUME NEW n \in DOMAIN completions', NEW k \in DOMAIN pending, n > Len(completions),
             pending[k].id = completions'[n].id
      PROVE  pending[k].token = t
  <2>1. PICK j \in K : completions'[n].id = pending[j].id
    BY <1>3, <1>4, <1>6, Zenon
  <2>2. j = k
    BY <1>2, <1>5, <1>6, <2>1, Zenon
  <2> QED BY <1>2, <2>2, Zenon
<1> QED BY <1>6, Zenon DEF OwnEvents

\* Operations on sockets are operations.
LEMMA SocketsAreShapes == SocketShapes \subseteq Shapes
BY ProviderConstants DEF ProviderConstants, Ready, Shapes

\* The steps of both backends are calls of fallback_, keep KernelInv and
\* complete nothing by the event of another registration.
LEMMA KernelSteps ==
  ASSUME KernelInv, KernelStep
  PROVE  [Call]_vars /\ KernelInv' /\ OwnEvents
<1>0. Inv /\ OpenHasFilters /\ PendingForSockets
  BY Zenon DEF KernelInv
<1>a. SocketShapes \subseteq Shapes
  BY SocketsAreShapes
<1>b. [Call]_vars
  BY <1>a, Zenon DEF KernelStep, Call
<1>c. Inv'
  BY <1>0, <1>b, InvStep, Zenon
<1>d. ASSUME completions' = completions PROVE OwnEvents
  BY <1>0, <1>d, NothingSucceeds, Zenon
<1>e. ASSUME pending' = pending PROVE PendingForSockets'
  BY <1>0, <1>e, Zenon DEF PendingForSockets
<1>f. ASSUME UNCHANGED <<registry, stopped, filters, lost>> PROVE OpenHasFilters'
  BY <1>0, <1>f, Zenon DEF OpenHasFilters
<1>g. \A t \in IssuedTokens : t \in Token
  BY <1>0 DEF IssuedTokens, Issued, Token, Inv, TypeOK
<1>h. registry \in [Handles -> [generation : Nat, open : BOOLEAN]]
  BY <1>0, Zenon DEF Inv, TypeOK
<1> DEFINE Good == OpenHasFilters' /\ PendingForSockets' /\ OwnEvents
<1>i. ASSUME NEW K \in SUBSET DOMAIN pending, CompletePending(K, "closed")
      PROVE  PendingForSockets' /\ OwnEvents
  <2>1. "closed" \in Result /\ "closed" # "ok"
    BY Zenon DEF Result
  <2>2. PendingForSockets'
    BY <1>0, <1>i, <2>1, CompletingKeepsSockets, Zenon
  <2>3. \A n \in DOMAIN completions' : n \in DOMAIN completions \/ completions'[n].result # "ok"
    BY <1>0, <1>i, <2>1, CompletePendingMoves, Zenon DEF Inv
  <2> QED BY <1>0, <2>2, <2>3, NothingSucceeds, Zenon
<1>1. ASSUME NEW h \in Handles, RegisterHandle(h), OthersKept(h), lost' = lost,
             \A k \in {"read", "write"} : FilterOf(h, registry[h].generation + 1, k) \in filters'
      PROVE  Good
  <2>1. /\ registry' = [registry EXCEPT ![h] = [generation |-> registry[h].generation + 1, open |-> TRUE]]
        /\ UNCHANGED <<pending, completions, stopped>>
    BY <1>1, Zenon DEF RegisterHandle, RegistryRegister
  <2>2. registry'[h].generation = registry[h].generation + 1 /\ \A g \in Handles \ {h} : registry'[g] = registry[g]
    BY <1>h, <2>1, Zenon
  <2>3. OpenHasFilters'
    BY <1>0, <1>1, <2>1, <2>2, FiltersKept, Zenon
  <2> QED BY <1>d, <1>e, <2>1, <2>3, Zenon
<1>2. ASSUME NEW h \in Handles, RegistrationTakenBack(h), OthersKept(h), lost' = lost PROVE Good
  <2>1. /\ registry' = [registry EXCEPT ![h].generation = @ + 1] /\ ~registry[h].open
        /\ UNCHANGED <<pending, completions, stopped>>
    BY <1>2, Zenon DEF RegistrationTakenBack
  <2>2. ~registry'[h].open /\ \A g \in Handles \ {h} : registry'[g] = registry[g]
    BY <1>h, <2>1
  <2>3. OpenHasFilters'
    BY <1>0, <1>2, <2>1, <2>2, FiltersKept, Zenon
  <2> QED BY <1>d, <1>e, <2>1, <2>3, Zenon
<1>3. ASSUME NEW i \in Ids, NEW shape \in SocketShapes, NEW t \in IssuedTokens, Submit(i, shape, t),
             UNCHANGED <<filters, lost>>
      PROVE  Good
  <2>1. /\ pending' = Append(pending, [id |-> i, shape |-> shape, token |-> t])
        /\ UNCHANGED <<registry, completions, stopped>>
    BY <1>3, Zenon DEF Submit
  <2>2. pending \in Seq(Operation)
    BY <1>0, Zenon DEF Inv, TypeOK
  <2>3. \A n \in DOMAIN pending' :
          (n \in DOMAIN pending /\ pending'[n] = pending[n]) \/ pending'[n].shape = shape
    BY <2>1, <2>2
  <2>4. PendingForSockets'
    BY <1>0, <2>3, Zenon DEF PendingForSockets
  <2> QED BY <1>3, <1>d, <1>f, <2>1, <2>4, Zenon
<1>4. ASSUME NEW i \in Ids, Cancel(i), UNCHANGED <<filters, lost>> PROVE Good
  BY <1>4, <1>d, <1>e, <1>f, Zenon DEF Cancel
<1>5. ASSUME NEW t \in IssuedTokens, CloseHandle(t), OthersKept(t.handle), lost' = lost PROVE Good
  <2>1. /\ registry' = [registry EXCEPT ![t.handle].open = FALSE] /\ stopped' = stopped
        /\ CompletePending(OnToken(t), "closed")
    BY <1>5, Zenon DEF CloseHandle, RegistryClose
  <2>2. t.handle \in Handles /\ OnToken(t) \in SUBSET DOMAIN pending
    BY <1>g, Zenon DEF Token, OnToken
  <2>3. ~registry'[t.handle].open /\ \A g \in Handles \ {t.handle} : registry'[g] = registry[g]
    BY <1>h, <2>1, <2>2
  <2>4. OpenHasFilters'
    BY <1>0, <1>5, <2>1, <2>2, <2>3, FiltersKept, Zenon
  <2> QED BY <1>i, <2>1, <2>2, <2>4, Zenon
<1>6. ASSUME NEW t \in IssuedTokens, IsCurrent(t), UNCHANGED vars, OthersKept(t.handle), OwnLost(t)
      PROVE  Good
  <2>1. UNCHANGED <<registry, pending, completions, stopped>>
    BY <1>6, Zenon DEF vars
  <2>2. t \in Token /\ t.handle \in Handles /\ registry[t.handle].generation = t.generation
    BY <1>g, <1>6, Zenon DEF Token, IsCurrent
  <2>3. ~stopped /\ registry[t.handle].open =>
          \A k \in {"read", "write"} : FilterOf(t.handle, t.generation, k) \in filters \cup lost
    BY <1>0, <2>2, Zenon DEF OpenHasFilters
  <2>4. ~stopped /\ registry'[t.handle].open =>
          \A k \in {"read", "write"} : FilterOf(t.handle, registry'[t.handle].generation, k) \in filters' \cup lost'
    BY <1>6, <2>1, <2>2, <2>3, Zenon DEF OwnLost
  <2>5. OpenHasFilters'
    <3>1. CASE stopped
      BY <2>1, <3>1, Zenon DEF OpenHasFilters
    <3>2. CASE ~stopped
      BY <1>0, <1>6, <2>1, <2>2, <2>4, <3>2, FiltersKept, Zenon DEF OwnLost
    <3> QED BY <3>1, <3>2
  <2> QED BY <1>d, <1>e, <2>1, <2>5, Zenon
<1>7. ASSUME NEW kind, events # <<>>, CompleteReady(Head(events).token, kind), UNCHANGED <<filters, lost>>
      PROVE  Good
  <2> DEFINE K == {k \in OnToken(Head(events).token) : pending[k].shape \in Ready(kind)}
  <2>1. CompletePending(K, "ok") /\ UNCHANGED <<registry, stopped>> /\ "ok" \in Result /\ K \in SUBSET DOMAIN pending
    BY <1>7, Zenon DEF CompleteReady, Result, OnToken
  <2> HIDE DEF K
  <2>2. PendingForSockets'
    BY <1>0, <2>1, CompletingKeepsSockets, Zenon
  <2> QED BY <1>0, <1>7, <1>f, <2>1, <2>2, EventsOwn, Zenon
<1>8. ASSUME NEW size \in DrainSizes, DrainCompletions(size), UNCHANGED <<filters, lost>> PROVE Good
  <2>1. UNCHANGED <<registry, pending, stopped>>
    BY <1>8, Zenon DEF DrainCompletions
  <2>2. PICK count \in 0..Len(completions) : DOMAIN completions' = 1..(Len(completions) - count)
    BY <1>0, <1>8, DrainKeepsSuffix, Zenon DEF Inv
  <2>3. DOMAIN completions = 1..Len(completions) /\ Len(completions) \in Nat
    BY <1>0 DEF Inv, TypeOK
  <2>4. \A n \in DOMAIN completions' : n \in DOMAIN completions
    BY <2>2, <2>3
  <2> QED BY <1>0, <1>8, <1>e, <1>f, <2>1, <2>4, NothingSucceeds, Zenon
<1>9. ASSUME Shutdown PROVE Good
  <2>1. CompletePending(DOMAIN pending, "closed") /\ stopped'
    BY <1>9, Zenon DEF Shutdown
  <2>2. OpenHasFilters'
    BY <2>1, Zenon DEF OpenHasFilters
  <2> QED BY <1>i, <2>1, <2>2, Zenon
<1>10. ASSUME UNCHANGED vars, UNCHANGED <<filters, lost>> PROVE Good
  <2>1. UNCHANGED <<registry, pending, completions, stopped>>
    BY <1>10, Zenon DEF vars
  <2> QED BY <1>10, <1>d, <1>e, <1>f, <2>1, Zenon
<1> HIDE DEF Good
<1>11. Good
  BY <1>1, <1>2, <1>3, <1>4, <1>5, <1>6, <1>7, <1>8, <1>9, <1>10, Zenon DEF KernelStep
<1> QED BY <1>b, <1>c, <1>11, Zenon DEF Good, KernelInv

------------------------------------------------------------------------------
(* io_uring without a ring: the queues beside fallback_, by their ids. *)

\* Concatenation unites the ids.
LEMMA ConcatFacts ==
  ASSUME NEW T, NEW s \in Seq(T), NEW t \in Seq(T)
  PROVE  /\ s \o t \in Seq(T)
         /\ IdsOf(s \o t) = IdsOf(s) \cup IdsOf(t)
         /\ \A n \in DOMAIN s : n \in DOMAIN (s \o t) /\ (s \o t)[n] = s[n]
         /\ Distinct(s) /\ Distinct(t) /\ IdsOf(s) \cap IdsOf(t) = {} => Distinct(s \o t)
<1> DEFINE u == s \o t
<1>1. /\ u \in Seq(T) /\ Len(s) \in Nat /\ Len(t) \in Nat
      /\ DOMAIN u = 1..(Len(s) + Len(t)) /\ DOMAIN s = 1..Len(s) /\ DOMAIN t = 1..Len(t)
      /\ \A n \in 1..Len(s) : u[n] = s[n]
      /\ \A n \in (Len(s) + 1)..(Len(s) + Len(t)) : u[n] = t[n - Len(s)]
  OBVIOUS
<1> HIDE DEF u
<1>2. \A n \in DOMAIN t : n + Len(s) \in DOMAIN u /\ u[n + Len(s)] = t[n]
  <2> SUFFICES ASSUME NEW n \in DOMAIN t PROVE n + Len(s) \in DOMAIN u /\ u[n + Len(s)] = t[n]
    BY Zenon
  <2>1. n + Len(s) \in (Len(s) + 1)..(Len(s) + Len(t)) /\ n + Len(s) \in DOMAIN u /\ (n + Len(s)) - Len(s) = n
    BY <1>1
  <2> QED BY <1>1, <2>1, Zenon
<1>3. \A n \in DOMAIN u : n \in DOMAIN s \/ n - Len(s) \in DOMAIN t
  BY <1>1
<1>4. \A n \in DOMAIN s : n \in DOMAIN u
  BY <1>1
<1>5. \A n \in DOMAIN u : n \notin DOMAIN s => u[n] = t[n - Len(s)] /\ n \in Int
  BY <1>1
<1>6. IdsOf(u) = IdsOf(s) \cup IdsOf(t)
  <2>1. IdsOf(u) \subseteq IdsOf(s) \cup IdsOf(t)
    <3> SUFFICES ASSUME NEW n \in DOMAIN u PROVE u[n].id \in IdsOf(s) \cup IdsOf(t)
      BY Zenon DEF IdsOf
    <3>1. CASE n \in DOMAIN s
      BY <3>1, <1>1, Zenon DEF IdsOf
    <3>2. CASE n \notin DOMAIN s
      BY <3>2, <1>3, <1>5, Zenon DEF IdsOf
    <3> QED BY <3>1, <3>2, Zenon
  <2>2. IdsOf(s) \subseteq IdsOf(u)
    <3> SUFFICES ASSUME NEW n \in DOMAIN s PROVE s[n].id \in IdsOf(u)
      BY Zenon DEF IdsOf
    <3>1. n \in DOMAIN u /\ u[n] = s[n]
      BY <1>1, <1>4, Zenon
    <3> QED BY <3>1, Zenon DEF IdsOf
  <2>3. IdsOf(t) \subseteq IdsOf(u)
    <3> SUFFICES ASSUME NEW n \in DOMAIN t PROVE t[n].id \in IdsOf(u)
      BY Zenon DEF IdsOf
    <3> QED BY <1>2, Zenon DEF IdsOf
  <2> QED BY <2>1, <2>2, <2>3, Zenon
<1>7. ASSUME Distinct(s), Distinct(t), IdsOf(s) \cap IdsOf(t) = {} PROVE Distinct(u)
  <2> SUFFICES ASSUME NEW a \in DOMAIN u, NEW b \in DOMAIN u, u[a].id = u[b].id PROVE a = b
    BY Zenon DEF Distinct
  <2>1. CASE a \in DOMAIN s /\ b \in DOMAIN s
    BY <2>1, <1>1, <1>7, Zenon DEF Distinct
  <2>2. CASE a \notin DOMAIN s /\ b \notin DOMAIN s
    <3>1. a - Len(s) = b - Len(s)
      BY <2>2, <1>3, <1>5, <1>7, Zenon DEF Distinct
    <3> QED BY <3>1, <2>2, <1>1, <1>5
  <2>3. ASSUME NEW x \in DOMAIN s, NEW y \in DOMAIN u, y \notin DOMAIN s PROVE u[x].id # u[y].id
    <3>1. u[x].id \in IdsOf(s)
      BY <1>1, Zenon DEF IdsOf
    <3>2. u[y].id \in IdsOf(t)
      BY <2>3, <1>3, <1>5, Zenon DEF IdsOf
    <3> QED BY <3>1, <3>2, <1>7, Zenon
  <2> QED BY <2>1, <2>2, <2>3, Zenon
<1>8. \A n \in DOMAIN s : n \in DOMAIN u /\ u[n] = s[n]
  BY <1>1, <1>4, Zenon
<1> QED BY <1>1, <1>6, <1>7, <1>8, Zenon DEF u

\* What is left of a sequence without its first n elements.
Rest(s, n) == SubSeq(s, n + 1, Len(s))

\* What is left of a listing after its first n entries were drained.
LEMMA SuffixFacts ==
  ASSUME NEW T, NEW s \in Seq(T), NEW n \in 0..Len(s)
  PROVE  /\ Rest(s, n) \in Seq(T) /\ Len(Rest(s, n)) = Len(s) - n
         /\ DOMAIN Rest(s, n) = 1..(Len(s) - n)
         /\ \A k \in DOMAIN Rest(s, n) : k + n \in (n + 1)..Len(s) /\ Rest(s, n)[k] = s[k + n]
         /\ \A k \in (n + 1)..Len(s) : k - n \in DOMAIN Rest(s, n) /\ Rest(s, n)[k - n] = s[k]
         /\ Distinct(s) => /\ Distinct(Rest(s, n))
                           /\ IdsOf(Rest(s, n)) = IdsOf(s) \ {s[k].id : k \in 1..n}
<1> DEFINE u == Rest(s, n)
<1>1. /\ u \in Seq(T) /\ Len(u) = Len(s) - n /\ DOMAIN u = 1..(Len(s) - n)
      /\ Len(s) \in Nat /\ n \in Nat /\ DOMAIN s = 1..Len(s)
      /\ \A k \in DOMAIN u : u[k] = s[k + n]
  BY DEF Rest
<1> HIDE DEF u
<1>0. \A L, m \in Nat :
        /\ \A k \in 1..(L - m) : k + m \in (m + 1)..L /\ k + m \in 1..L /\ k \in Int
        /\ \A k \in (m + 1)..L : k - m \in 1..(L - m) /\ (k - m) + m = k /\ k \in Int
        /\ \A k \in 1..L : k \notin 1..m => k \in (m + 1)..L
  OBVIOUS
<1>2. \A k \in DOMAIN u : k + n \in (n + 1)..Len(s)
  BY <1>0, <1>1, Zenon
<1>3. \A k \in (n + 1)..Len(s) : k - n \in DOMAIN u /\ (k - n) + n = k /\ k \in Int
  <2>1. \A k \in (n + 1)..Len(s) : k - n \in 1..(Len(s) - n) /\ (k - n) + n = k /\ k \in Int
    BY ONLY <1>0, <1>1, Zenon
  <2>2. DOMAIN u = 1..(Len(s) - n)
    BY <1>1, Zenon
  <2> QED BY ONLY <2>1, <2>2, Zenon
<1>4. \A k \in (n + 1)..Len(s) : u[k - n] = s[k]
  <2> SUFFICES ASSUME NEW k \in (n + 1)..Len(s) PROVE u[k - n] = s[k]
    BY Zenon
  <2> DEFINE j == k - n
  <2>1. j \in DOMAIN u /\ j + n = k
    BY <1>3, Zenon
  <2> HIDE DEF j
  <2>2. u[j] = s[j + n]
    BY ONLY <2>1, <1>1, Zenon
  <2>3. u[j] = s[k]
    BY ONLY <2>1, <2>2, Zenon
  <2> QED BY <2>3, Zenon DEF j
<1>5. IdsOf(u) = {s[k].id : k \in (n + 1)..Len(s)}
  <2>1. IdsOf(u) \subseteq {s[k].id : k \in (n + 1)..Len(s)}
    BY <1>1, <1>2, Zenon DEF IdsOf
  <2>2. {s[k].id : k \in (n + 1)..Len(s)} \subseteq IdsOf(u)
    BY <1>3, <1>4, ZenonT(60) DEF IdsOf
  <2> QED BY <2>1, <2>2, Zenon
<1>6. ASSUME Distinct(s) PROVE Distinct(u) /\ IdsOf(u) = IdsOf(s) \ {s[k].id : k \in 1..n}
  <2>1. \A j, k \in 1..Len(s) : s[j].id = s[k].id => j = k
    BY <1>1, <1>6, Zenon DEF Distinct
  <2>2. Distinct(u)
    <3> SUFFICES ASSUME NEW a \in DOMAIN u, NEW b \in DOMAIN u, u[a].id = u[b].id PROVE a = b
      BY Zenon DEF Distinct
    <3>1. a + n \in 1..Len(s) /\ b + n \in 1..Len(s) /\ a \in Int /\ b \in Int
      BY <1>0, <1>1, Zenon
    <3>2. a + n = b + n
      BY <3>1, <1>1, <2>1, Zenon
    <3> QED BY ONLY <3>1, <3>2, n \in Nat, <1>1
  <2>3. {s[k].id : k \in (n + 1)..Len(s)} = {s[k].id : k \in 1..Len(s)} \ {s[k].id : k \in 1..n}
    <3>1. ASSUME NEW k \in (n + 1)..Len(s)
          PROVE  k \in 1..Len(s) /\ s[k].id \notin {s[j].id : j \in 1..n}
      <4>1. k \in 1..Len(s) /\ \A j \in 1..n : j \in 1..Len(s) /\ j # k
        BY ONLY Len(s) \in Nat, n \in 0..Len(s), k \in (n + 1)..Len(s)
      <4> QED BY ONLY <4>1, <2>1, Zenon
    <3>2. ASSUME NEW k \in 1..Len(s), k \notin 1..n PROVE k \in (n + 1)..Len(s)
      BY <1>0, <1>1, <3>2, Zenon
    <3> QED BY <3>1, <3>2, Zenon
  <2> QED BY <1>1, <1>5, <2>2, <2>3, Zenon DEF IdsOf
<1> QED BY <1>1, <1>2, <1>3, <1>4, <1>6, Zenon DEF u

\* The first n entries of a listing.
LEMMA PrefixFacts ==
  ASSUME NEW T, NEW s \in Seq(T), NEW n \in 0..Len(s)
  PROVE  /\ SubSeq(s, 1, n) \in Seq(T)
         /\ IdsOf(SubSeq(s, 1, n)) = {s[k].id : k \in 1..n}
         /\ {s[k].id : k \in 1..n} \subseteq IdsOf(s)
         /\ Distinct(s) => Distinct(SubSeq(s, 1, n))
<1> DEFINE u == SubSeq(s, 1, n)
<1>1. /\ u \in Seq(T) /\ DOMAIN u = 1..n /\ DOMAIN s = 1..Len(s) /\ Len(s) \in Nat /\ n \in Nat
      /\ \A k \in 1..n : u[k] = s[k]
  OBVIOUS
<1> HIDE DEF u
<1>2. \A k \in 1..n : k \in 1..Len(s)
  BY ONLY n \in 0..Len(s), <1>1
<1>3. IdsOf(u) = {s[k].id : k \in 1..n}
  BY <1>1, Zenon DEF IdsOf
<1>4. {s[k].id : k \in 1..n} \subseteq IdsOf(s)
  BY <1>1, <1>2, Zenon DEF IdsOf
<1>5. Distinct(s) => Distinct(u)
  BY <1>1, <1>2, Zenon DEF Distinct
<1> QED BY <1>1, <1>3, <1>4, <1>5, Zenon DEF u

\* One more entry.
LEMMA AppendFacts ==
  ASSUME NEW T, NEW s \in Seq(T), NEW e \in T
  PROVE  /\ Append(s, e) \in Seq(T)
         /\ IdsOf(Append(s, e)) = IdsOf(s) \cup {e.id}
         /\ Distinct(s) /\ e.id \notin IdsOf(s) => Distinct(Append(s, e))
<1> DEFINE u == Append(s, e)
<1>1. /\ u \in Seq(T) /\ DOMAIN u = 1..(Len(s) + 1) /\ DOMAIN s = 1..Len(s) /\ Len(s) \in Nat
      /\ \A k \in 1..Len(s) : u[k] = s[k]
      /\ u[Len(s) + 1] = e
  OBVIOUS
<1> HIDE DEF u
<1>2. /\ \A k \in DOMAIN s : k \in DOMAIN u
      /\ \A k \in DOMAIN u : k \in DOMAIN s \/ k = Len(s) + 1
      /\ Len(s) + 1 \in DOMAIN u /\ Len(s) + 1 \notin DOMAIN s
  BY <1>1
<1>3. IdsOf(u) = IdsOf(s) \cup {e.id}
  <2>1. IdsOf(u) \subseteq IdsOf(s) \cup {e.id}
    BY <1>1, <1>2, Zenon DEF IdsOf
  <2>2. IdsOf(s) \cup {e.id} \subseteq IdsOf(u)
    BY <1>1, <1>2, Zenon DEF IdsOf
  <2> QED BY <2>1, <2>2, Zenon
<1>4. ASSUME Distinct(s), e.id \notin IdsOf(s) PROVE Distinct(u)
  <2>1. \A k \in DOMAIN s : u[k].id # e.id
    BY <1>1, <1>4, Zenon DEF IdsOf
  <2> QED BY <1>1, <1>2, <1>4, <2>1, Zenon DEF Distinct
<1> QED BY <1>1, <1>3, <1>4, Zenon DEF u

\* The ids of a part of a listing and of the rest.
LEMMA SplitIds ==
  ASSUME NEW s, Distinct(s), NEW K \in SUBSET DOMAIN s
  PROVE  /\ {s[k].id : k \in DOMAIN s \ K} = IdsOf(s) \ {s[k].id : k \in K}
         /\ {s[k].id : k \in K} \subseteq IdsOf(s)
<1>1. ASSUME NEW k \in DOMAIN s \ K PROVE s[k].id \notin {s[j].id : j \in K}
  BY Zenon DEF Distinct
<1>2. ASSUME NEW k \in DOMAIN s, s[k].id \notin {s[j].id : j \in K} PROVE k \in DOMAIN s \ K
  BY <1>2, Zenon
<1> QED BY <1>1, <1>2 DEF IdsOf

\* Completions of either backend.
EndedOperation == [id : Ids, result : Result \cup {"cancelled"}]

\* A completion of fallback_ is one of the backend.
LEMMA CompletionsEnd == \A s \in Seq(Completion) : s \in Seq(EndedOperation)
<1>1. Completion \subseteq EndedOperation
  BY Zenon DEF Completion, EndedOperation
<1> SUFFICES ASSUME NEW s \in Seq(Completion) PROVE s \in Seq(EndedOperation)
  BY Zenon
<1> QED BY <1>1

\* Every operation of a listing ends, in order.
LEMMA AllEnd ==
  ASSUME NEW s \in Seq(Operation)
  PROVE  LET u == [k \in DOMAIN s |-> [id |-> s[k].id, result |-> "closed"]]
         IN  u \in Seq(EndedOperation) /\ IdsOf(u) = IdsOf(s) /\ (Distinct(s) => Distinct(u))
<1> DEFINE u == [k \in DOMAIN s |-> [id |-> s[k].id, result |-> "closed"]]
<1>1. DOMAIN s = 1..Len(s) /\ Len(s) \in Nat /\ \A k \in DOMAIN s : s[k] \in Operation
  OBVIOUS
<1>2. \A k \in DOMAIN s : [id |-> s[k].id, result |-> "closed"] \in EndedOperation
  BY <1>1, Zenon DEF Operation, EndedOperation, Result
<1>3. u \in Seq(EndedOperation)
  BY <1>1, <1>2
<1>4. DOMAIN u = DOMAIN s /\ \A k \in DOMAIN s : u[k].id = s[k].id
  BY Zenon
<1> HIDE DEF u
<1>5. IdsOf(u) = IdsOf(s) /\ (Distinct(s) => Distinct(u))
  BY <1>4, Zenon DEF IdsOf, Distinct
<1> QED BY <1>3, <1>5, Zenon DEF u

\* A listing without repetitions, with its ids; the ids at some of its places.
Listing(T, s, I) == s \in Seq(T) /\ Distinct(s) /\ IdsOf(s) = I

\* The ids at some positions of a sequence.
IdsAt(s, K) == {s[k].id : k \in K}

\* Nothing but the entries of s at the places K.
TakenFrom(u, s, K) == \A n \in DOMAIN u : \E k \in K : u[n] = s[k]

\* Listings with different ids, one behind the other.
LEMMA ListingConcat ==
  ASSUME NEW T, NEW s, NEW t, NEW I, NEW J, Listing(T, s, I), Listing(T, t, J), I \cap J = {}
  PROVE  Listing(T, s \o t, I \cup J)
<1>1. s \in Seq(T) /\ t \in Seq(T) /\ Distinct(s) /\ Distinct(t) /\ IdsOf(s) = I /\ IdsOf(t) = J
  BY Zenon DEF Listing
<1>2. IdsOf(s) \cap IdsOf(t) = {}
  BY <1>1, Zenon
<1> HIDE DEF Listing
<1>3. /\ s \o t \in Seq(T)
      /\ IdsOf(s \o t) = IdsOf(s) \cup IdsOf(t)
      /\ \A n \in DOMAIN s : n \in DOMAIN (s \o t) /\ (s \o t)[n] = s[n]
      /\ Distinct(s) /\ Distinct(t) /\ IdsOf(s) \cap IdsOf(t) = {} => Distinct(s \o t)
  BY ONLY <1>1, ConcatFacts, Zenon
<1> QED BY <1>1, <1>2, <1>3, Zenon DEF Listing

\* A listing with an entry behind it.
LEMMA ListingAppend ==
  ASSUME NEW T, NEW s, NEW I, Listing(T, s, I), NEW e \in T, e.id \notin I
  PROVE  Listing(T, Append(s, e), I \cup {e.id})
<1>1. s \in Seq(T) /\ Distinct(s) /\ IdsOf(s) = I
  BY Zenon DEF Listing
<1>2. /\ Append(s, e) \in Seq(T)
      /\ IdsOf(Append(s, e)) = IdsOf(s) \cup {e.id}
      /\ Distinct(s) /\ e.id \notin IdsOf(s) => Distinct(Append(s, e))
  BY ONLY <1>1, e \in T, AppendFacts, Zenon
<1> QED BY <1>1, <1>2, Zenon DEF Listing

\* A listing cut after n entries.
LEMMA ListingCut ==
  ASSUME NEW T, NEW s, NEW I, Listing(T, s, I), NEW n \in 0..Len(s)
  PROVE  /\ Listing(T, SubSeq(s, 1, n), IdsAt(s, 1..n)) /\ Listing(T, Rest(s, n), I \ IdsAt(s, 1..n))
         /\ IdsAt(s, 1..n) \subseteq I
<1>1. s \in Seq(T) /\ Distinct(s) /\ IdsOf(s) = I
  BY Zenon DEF Listing
<1>2. /\ SubSeq(s, 1, n) \in Seq(T)
      /\ IdsOf(SubSeq(s, 1, n)) = {s[k].id : k \in 1..n}
      /\ {s[k].id : k \in 1..n} \subseteq IdsOf(s)
      /\ Distinct(s) => Distinct(SubSeq(s, 1, n))
  BY ONLY <1>1, n \in 0..Len(s), PrefixFacts, Zenon
<1>3. Rest(s, n) \in Seq(T)
  BY <1>1 DEF Rest
<1>4. /\ Distinct(Rest(s, n))
      /\ IdsOf(Rest(s, n)) = IdsOf(s) \ {s[k].id : k \in 1..n}
  BY <1>1, SuffixFacts
<1> QED BY <1>1, <1>2, <1>3, <1>4, Zenon DEF Listing, IdsAt

\* The entries of a listing at some places, and at the others.
LEMMA ListingPart ==
  ASSUME NEW s, NEW I, Listing(Operation, s, I), NEW K, K \subseteq DOMAIN s, NEW f, f \in InOrder(K)
  PROVE  /\ Listing(Operation, Remaining(s, f), IdsAt(s, K))
         /\ Listing(EndedOperation, Completed(s, f, "closed"), IdsAt(s, K))
         /\ TakenFrom(Remaining(s, f), s, K)
<1>1. s \in Seq(Operation) /\ Distinct(s) /\ IdsOf(s) = I
  BY Zenon DEF Listing
<1>2. "closed" \in Result /\ K \in SUBSET DOMAIN s
  BY Zenon DEF Result
<1>3. /\ Completed(s, f, "closed") \in Seq(Completion)
      /\ Remaining(s, f) \in Seq(Operation)
      /\ IdsOf(Completed(s, f, "closed")) = {s[k].id : k \in K}
      /\ IdsOf(Remaining(s, f)) = {s[k].id : k \in K}
      /\ Distinct(s) => Distinct(Completed(s, f, "closed")) /\ Distinct(Remaining(s, f))
      /\ \A n \in DOMAIN Remaining(s, f) : \E k \in K : Remaining(s, f)[n] = s[k]
  BY ONLY <1>1, <1>2, f \in InOrder(K), ListFacts
<1>4. Completed(s, f, "closed") \in Seq(EndedOperation)
  BY <1>3, CompletionsEnd, Zenon
<1> QED BY <1>1, <1>3, <1>4, Zenon DEF Listing, IdsAt, TakenFrom

\* The ids at the other places are the other ids.
LEMMA ListingSplit ==
  ASSUME NEW T, NEW s, NEW I, Listing(T, s, I), NEW K, K \subseteq DOMAIN s
  PROVE  IdsAt(s, DOMAIN s \ K) = I \ IdsAt(s, K) /\ IdsAt(s, K) \subseteq I
<1>1. Distinct(s) /\ IdsOf(s) = I /\ K \in SUBSET DOMAIN s
  BY Zenon DEF Listing
<1>2. /\ {s[k].id : k \in DOMAIN s \ K} = IdsOf(s) \ {s[k].id : k \in K}
      /\ {s[k].id : k \in K} \subseteq IdsOf(s)
  BY ONLY <1>1, SplitIds, Zenon
<1> QED BY <1>1, <1>2, Zenon DEF IdsAt

\* Four sets of ids with nothing in common.
Apart(P, C, S, R) ==
  P \cap C = {} /\ P \cap S = {} /\ P \cap R = {} /\ C \cap S = {} /\ C \cap R = {} /\ S \cap R = {}

\* The pending operations p, the completions c and the active ids a of
\* fallback_, the queue s, the completions r and the active ids b of the
\* backend: an active id is in exactly one place.
Queues(p, c, a, s, r, b) ==
  \E P, C, S, R :
    /\ Listing(Operation, p, P) /\ Listing(EndedOperation, c, C)
    /\ Listing(Operation, s, S) /\ Listing(EndedOperation, r, R)
    /\ Apart(P, C, S, R)
    /\ a = P \cup C /\ b = P \cup C \cup S \cup R

\* submit queues a fresh id.
LEMMA QueueSubmit ==
  ASSUME NEW p, NEW c, NEW a, NEW s, NEW r, NEW b, Queues(p, c, a, s, r, b),
         NEW e \in Operation, e.id \notin b
  PROVE  Queues(p, c, a, Append(s, e), r, b \cup {e.id})
<1>1. PICK P, C, S, R :
        /\ Listing(Operation, p, P) /\ Listing(EndedOperation, c, C)
        /\ Listing(Operation, s, S) /\ Listing(EndedOperation, r, R)
        /\ Apart(P, C, S, R)
        /\ a = P \cup C /\ b = P \cup C \cup S \cup R
  BY Zenon DEF Queues
<1>a. P \cap C = {} /\ P \cap S = {} /\ P \cap R = {} /\ C \cap S = {} /\ C \cap R = {} /\ S \cap R = {}
  BY <1>1, Zenon DEF Apart
<1>2. e.id \notin P /\ e.id \notin C /\ e.id \notin S /\ e.id \notin R
  BY <1>1, <1>a, Zenon
<1>3. Listing(Operation, Append(s, e), S \cup {e.id})
  BY <1>1, <1>a, <1>2, ListingAppend, Zenon
<1>4. b \cup {e.id} = P \cup C \cup (S \cup {e.id}) \cup R
  BY <1>1, <1>a, Zenon
<1>5. Apart(P, C, S \cup {e.id}, R)
  BY <1>a, <1>2, Zenon DEF Apart
<1> QED
  <2>1. /\ Listing(Operation, p, P) /\ Listing(EndedOperation, c, C)
        /\ Listing(Operation, Append(s, e), (S \cup {e.id})) /\ Listing(EndedOperation, r, R)
        /\ Apart(P, C, (S \cup {e.id}), R)
        /\ a = P \cup C /\ (b \cup {e.id}) = P \cup C \cup (S \cup {e.id}) \cup R
    BY <1>1, <1>3, <1>4, <1>5, Zenon
  <2> QED BY ONLY <2>1, Zenon DEF Queues

\* cancel of a queued submission.
LEMMA QueueCancel ==
  ASSUME NEW p, NEW c, NEW a, NEW s, NEW r, NEW b, Queues(p, c, a, s, r, b), NEW i,
         {k \in DOMAIN s : s[k].id = i} # {},
         NEW rest \in InOrder(DOMAIN s \ {k \in DOMAIN s : s[k].id = i})
  PROVE  /\ Queues(p, c, a, Remaining(s, rest), Append(r, [id |-> i, result |-> "cancelled"]), b)
         /\ TakenFrom(Remaining(s, rest), s, DOMAIN s)
<1>1. PICK P, C, S, R :
        /\ Listing(Operation, p, P) /\ Listing(EndedOperation, c, C)
        /\ Listing(Operation, s, S) /\ Listing(EndedOperation, r, R)
        /\ Apart(P, C, S, R)
        /\ a = P \cup C /\ b = P \cup C \cup S \cup R
  BY Zenon DEF Queues
<1>a. P \cap C = {} /\ P \cap S = {} /\ P \cap R = {} /\ C \cap S = {} /\ C \cap R = {} /\ S \cap R = {}
  BY <1>1, Zenon DEF Apart
<1> DEFINE K == {k \in DOMAIN s : s[k].id = i}
           e == [id |-> i, result |-> "cancelled"]
<1>2. PICK j \in DOMAIN s : s[j].id = i
  BY Zenon
<1>3. s \in Seq(Operation) /\ IdsOf(s) = S
  BY <1>1, <1>a, Zenon DEF Listing
<1>4. i \in Ids /\ i \in S
  <2>1. s[j] \in Operation
    BY <1>3
  <2> QED BY <1>2, <1>3, <2>1, Zenon DEF Operation, IdsOf
<1>5. e \in EndedOperation /\ e.id = i
  BY <1>4, Zenon DEF EndedOperation
<1>6. IdsAt(s, K) = {i} /\ K \subseteq DOMAIN s /\ DOMAIN s \ K \subseteq DOMAIN s
  BY <1>2, Zenon DEF IdsAt
<1>7. rest \in InOrder(DOMAIN s \ K)
  BY Zenon
<1> HIDE DEF K, e
<1>8. IdsAt(s, DOMAIN s \ K) = S \ {i}
  <2>1. IdsAt(s, DOMAIN s \ K) = S \ IdsAt(s, K)
    BY <1>1, <1>6, ListingSplit, Zenon
  <2> QED BY <1>6, <2>1, Zenon
<1>9. /\ Listing(Operation, Remaining(s, rest), S \ {i})
      /\ TakenFrom(Remaining(s, rest), s, DOMAIN s)
  <2>1. /\ Listing(Operation, Remaining(s, rest), IdsAt(s, DOMAIN s \ K))
        /\ TakenFrom(Remaining(s, rest), s, DOMAIN s \ K)
    BY <1>1, <1>a, <1>6, <1>7, ListingPart, Zenon
  <2> QED BY <1>6, <1>8, <2>1, Zenon DEF TakenFrom
<1>10. Listing(EndedOperation, Append(r, e), R \cup {i})
  <2>1. e.id \notin R
    BY <1>1, <1>a, <1>4, <1>5, Zenon
  <2> QED BY <1>1, <1>a, <1>5, <2>1, ListingAppend, Zenon
<1>11. Apart(P, C, S \ {i}, R \cup {i}) /\ b = P \cup C \cup (S \ {i}) \cup (R \cup {i})
  BY <1>1, <1>a, <1>4, Zenon DEF Apart
<1>12. Queues(p, c, a, Remaining(s, rest), Append(r, e), b)
  <2>1. /\ Listing(Operation, p, P) /\ Listing(EndedOperation, c, C)
        /\ Listing(Operation, Remaining(s, rest), (S \ {i})) /\ Listing(EndedOperation, Append(r, e), (R \cup {i}))
        /\ Apart(P, C, (S \ {i}), (R \cup {i}))
        /\ a = P \cup C /\ b = P \cup C \cup (S \ {i}) \cup (R \cup {i})
    BY <1>1, <1>9, <1>10, <1>11, Zenon
  <2> QED BY ONLY <2>1, Zenon DEF Queues
<1> QED BY <1>9, <1>12, Zenon DEF e

\* drain_completions of the backend.
LEMMA QueueDrain ==
  ASSUME NEW p, NEW c, NEW a, NEW s, NEW r, NEW b, Queues(p, c, a, s, r, b), NEW n \in 0..Len(r)
  PROVE  Queues(p, c, a, s, Rest(r, n), b \ IdsAt(r, 1..n))
<1>1. PICK P, C, S, R :
        /\ Listing(Operation, p, P) /\ Listing(EndedOperation, c, C)
        /\ Listing(Operation, s, S) /\ Listing(EndedOperation, r, R)
        /\ Apart(P, C, S, R)
        /\ a = P \cup C /\ b = P \cup C \cup S \cup R
  BY Zenon DEF Queues
<1>a. P \cap C = {} /\ P \cap S = {} /\ P \cap R = {} /\ C \cap S = {} /\ C \cap R = {} /\ S \cap R = {}
  BY <1>1, Zenon DEF Apart
<1> DEFINE D == IdsAt(r, 1..n)
<1>2. Listing(EndedOperation, Rest(r, n), R \ D) /\ D \subseteq R
  BY <1>1, <1>a, ListingCut, Zenon
<1> HIDE DEF D
<1>3. Apart(P, C, S, R \ D) /\ b \ D = P \cup C \cup S \cup (R \ D)
  BY <1>1, <1>a, <1>2, Zenon DEF Apart
<1>4. Queues(p, c, a, s, Rest(r, n), b \ D)
  <2>1. /\ Listing(Operation, p, P) /\ Listing(EndedOperation, c, C)
        /\ Listing(Operation, s, S) /\ Listing(EndedOperation, Rest(r, n), (R \ D))
        /\ Apart(P, C, S, (R \ D))
        /\ a = P \cup C /\ (b \ D) = P \cup C \cup S \cup (R \ D)
    BY <1>1, <1>2, <1>3, Zenon
  <2> QED BY ONLY <2>1, Zenon DEF Queues
<1> QED BY <1>4, Zenon DEF D

\* poll: the first n submissions become pending, the first m completions of
\* fallback_ are fetched.
LEMMA QueuePoll ==
  ASSUME NEW p, NEW c, NEW a, NEW s, NEW r, NEW b, Queues(p, c, a, s, r, b),
         NEW n \in 0..Len(s), NEW m \in 0..Len(c)
  PROVE  Queues(p \o SubSeq(s, 1, n), Rest(c, m), (a \cup {s[k].id : k \in 1..n}) \ {c[k].id : k \in 1..m},
                Rest(s, n), r \o SubSeq(c, 1, m), b)
<1>1. PICK P, C, S, R :
        /\ Listing(Operation, p, P) /\ Listing(EndedOperation, c, C)
        /\ Listing(Operation, s, S) /\ Listing(EndedOperation, r, R)
        /\ Apart(P, C, S, R)
        /\ a = P \cup C /\ b = P \cup C \cup S \cup R
  BY Zenon DEF Queues
<1>a. P \cap C = {} /\ P \cap S = {} /\ P \cap R = {} /\ C \cap S = {} /\ C \cap R = {} /\ S \cap R = {}
  BY <1>1, Zenon DEF Apart
<1> DEFINE F == IdsAt(s, 1..n)
           D == IdsAt(c, 1..m)
<1>2. Listing(Operation, SubSeq(s, 1, n), F) /\ Listing(Operation, Rest(s, n), S \ F) /\ F \subseteq S
  BY <1>1, <1>a, ListingCut, Zenon
<1>3. Listing(EndedOperation, SubSeq(c, 1, m), D) /\ Listing(EndedOperation, Rest(c, m), C \ D) /\ D \subseteq C
  BY <1>1, <1>a, ListingCut, Zenon
<1> HIDE DEF F, D
<1>4. P \cap F = {} /\ R \cap D = {}
  BY <1>1, <1>a, <1>2, <1>3, Zenon
<1>5. Listing(Operation, p \o SubSeq(s, 1, n), P \cup F)
  BY <1>1, <1>a, <1>2, <1>4, ListingConcat, Zenon
<1>6. Listing(EndedOperation, r \o SubSeq(c, 1, m), R \cup D)
  BY <1>1, <1>a, <1>3, <1>4, ListingConcat, Zenon
<1>7. Apart(P \cup F, C \ D, S \ F, R \cup D)
  BY <1>a, <1>2, <1>3, Zenon DEF Apart
<1>8. (a \cup F) \ D = (P \cup F) \cup (C \ D) /\ b = (P \cup F) \cup (C \ D) \cup (S \ F) \cup (R \cup D)
  BY <1>1, <1>a, <1>2, <1>3, Zenon
<1>9. Queues(p \o SubSeq(s, 1, n), Rest(c, m), (a \cup F) \ D, Rest(s, n), r \o SubSeq(c, 1, m), b)
  BY <1>2, <1>3, <1>5, <1>6, <1>7, <1>8, Zenon DEF Queues
<1> QED BY <1>9, Zenon DEF F, D, IdsAt

\* close_handle: the queued submissions K are flushed and end behind the
\* pending operations J.
LEMMA QueueClose ==
  ASSUME NEW p, NEW c, NEW a, NEW s, NEW r, NEW b, Queues(p, c, a, s, r, b),
         NEW J, J \subseteq DOMAIN p, NEW K, K \subseteq DOMAIN s,
         NEW done \in InOrder(J), NEW left \in InOrder(DOMAIN p \ J),
         NEW flushed \in InOrder(K), NEW rest \in InOrder(DOMAIN s \ K)
  PROVE  /\ Queues(Remaining(p, left), c \o Completed(p, done, "closed") \o Completed(s, flushed, "closed"),
                   a \cup {s[k].id : k \in K}, Remaining(s, rest), r, b)
         /\ TakenFrom(Remaining(s, rest), s, DOMAIN s \ K)
         /\ TakenFrom(Remaining(p, left), p, DOMAIN p \ J)
<1>1. PICK P, C, S, R :
        /\ Listing(Operation, p, P) /\ Listing(EndedOperation, c, C)
        /\ Listing(Operation, s, S) /\ Listing(EndedOperation, r, R)
        /\ Apart(P, C, S, R)
        /\ a = P \cup C /\ b = P \cup C \cup S \cup R
  BY Zenon DEF Queues
<1>a. P \cap C = {} /\ P \cap S = {} /\ P \cap R = {} /\ C \cap S = {} /\ C \cap R = {} /\ S \cap R = {}
  BY <1>1, Zenon DEF Apart
<1> DEFINE X == IdsAt(p, J)
           F == IdsAt(s, K)
           x == Completed(p, done, "closed")
           y == Completed(s, flushed, "closed")
<1>2. DOMAIN p \ J \subseteq DOMAIN p /\ DOMAIN s \ K \subseteq DOMAIN s
  BY Zenon
<1>3. IdsAt(p, DOMAIN p \ J) = P \ X /\ X \subseteq P
  BY <1>1, <1>a, ListingSplit, Zenon
<1>4. IdsAt(s, DOMAIN s \ K) = S \ F /\ F \subseteq S
  BY <1>1, <1>a, ListingSplit, Zenon
<1>5. Listing(EndedOperation, x, X)
  BY <1>1, <1>a, ListingPart, Zenon
<1>6. Listing(EndedOperation, y, F)
  BY <1>1, <1>a, ListingPart, Zenon
<1>7. /\ Listing(Operation, Remaining(p, left), P \ X)
      /\ TakenFrom(Remaining(p, left), p, DOMAIN p \ J)
  <2>1. /\ Listing(Operation, Remaining(p, left), IdsAt(p, DOMAIN p \ J))
        /\ TakenFrom(Remaining(p, left), p, DOMAIN p \ J)
    BY <1>1, <1>a, <1>2, ListingPart, Zenon
  <2> QED BY <2>1, <1>3, Zenon
<1>8. /\ Listing(Operation, Remaining(s, rest), S \ F)
      /\ TakenFrom(Remaining(s, rest), s, DOMAIN s \ K)
  <2>1. /\ Listing(Operation, Remaining(s, rest), IdsAt(s, DOMAIN s \ K))
        /\ TakenFrom(Remaining(s, rest), s, DOMAIN s \ K)
    BY <1>1, <1>a, <1>2, ListingPart, Zenon
  <2> QED BY <2>1, <1>4, Zenon
<1> HIDE DEF X, F, x, y
<1>9. C \cap X = {} /\ (C \cup X) \cap F = {}
  BY <1>1, <1>a, <1>3, <1>4, Zenon
<1>10. Listing(EndedOperation, c \o x, C \cup X)
  BY <1>1, <1>a, <1>5, <1>9, ListingConcat, Zenon
<1>11. Listing(EndedOperation, (c \o x) \o y, (C \cup X) \cup F)
  BY <1>6, <1>9, <1>10, ListingConcat, Zenon
<1>12. Apart(P \ X, (C \cup X) \cup F, S \ F, R)
  BY <1>a, <1>3, <1>4, Zenon DEF Apart
<1>13. a \cup F = (P \ X) \cup ((C \cup X) \cup F)
       /\ b = (P \ X) \cup ((C \cup X) \cup F) \cup (S \ F) \cup R
  BY <1>1, <1>a, <1>3, <1>4, Zenon
<1>14. Queues(Remaining(p, left), (c \o x) \o y, a \cup F, Remaining(s, rest), r, b)
  <2>1. /\ Listing(Operation, Remaining(p, left), (P \ X)) /\ Listing(EndedOperation, (c \o x) \o y, ((C \cup X) \cup F))
        /\ Listing(Operation, Remaining(s, rest), (S \ F)) /\ Listing(EndedOperation, r, R)
        /\ Apart((P \ X), ((C \cup X) \cup F), (S \ F), R)
        /\ (a \cup F) = (P \ X) \cup ((C \cup X) \cup F) /\ b = (P \ X) \cup ((C \cup X) \cup F) \cup (S \ F) \cup R
    BY <1>1, <1>7, <1>8, <1>11, <1>12, <1>13, Zenon
  <2> QED BY ONLY <2>1, Zenon DEF Queues
<1> QED BY <1>7, <1>8, <1>14, Zenon DEF F, x, y, IdsAt

\* shutdown: all operations end, in the queue of the backend.
LEMMA QueueShutdown ==
  ASSUME NEW p, NEW c, NEW a, NEW s, NEW r, NEW b, Queues(p, c, a, s, r, b)
  PROVE  Queues(<<>>, <<>>, a \ (IdsOf(p) \cup IdsOf(c)), <<>>,
                r \o (c \o [k \in DOMAIN p |-> [id |-> p[k].id, result |-> "closed"]])
                  \o [k \in DOMAIN s |-> [id |-> s[k].id, result |-> "closed"]], b)
<1>1. PICK P, C, S, R :
        /\ Listing(Operation, p, P) /\ Listing(EndedOperation, c, C)
        /\ Listing(Operation, s, S) /\ Listing(EndedOperation, r, R)
        /\ Apart(P, C, S, R)
        /\ a = P \cup C /\ b = P \cup C \cup S \cup R
  BY Zenon DEF Queues
<1>a. P \cap C = {} /\ P \cap S = {} /\ P \cap R = {} /\ C \cap S = {} /\ C \cap R = {} /\ S \cap R = {}
  BY <1>1, Zenon DEF Apart
<1> DEFINE x == [k \in DOMAIN p |-> [id |-> p[k].id, result |-> "closed"]]
           y == [k \in DOMAIN s |-> [id |-> s[k].id, result |-> "closed"]]
<1>2. p \in Seq(Operation) /\ Distinct(p) /\ IdsOf(p) = P /\ s \in Seq(Operation) /\ Distinct(s) /\ IdsOf(s) = S
      /\ IdsOf(c) = C
  BY <1>1, <1>a, Zenon DEF Listing
<1>3. Listing(EndedOperation, x, P)
  BY <1>2, AllEnd, Zenon DEF Listing
<1>4. Listing(EndedOperation, y, S)
  BY <1>2, AllEnd, Zenon DEF Listing
<1> HIDE DEF x, y
<1>5. Listing(EndedOperation, c \o x, C \cup P)
  <2>1. C \cap P = {}
    BY <1>1, <1>a, Zenon
  <2> QED BY <1>1, <1>a, <1>3, <2>1, ListingConcat, Zenon
<1>6. Listing(EndedOperation, r \o (c \o x), R \cup (C \cup P))
  <2>1. R \cap (C \cup P) = {}
    BY <1>1, <1>a, Zenon
  <2> QED BY <1>1, <1>a, <1>5, <2>1, ListingConcat, Zenon
<1>7. Listing(EndedOperation, (r \o (c \o x)) \o y, (R \cup (C \cup P)) \cup S)
  <2>1. (R \cup (C \cup P)) \cap S = {}
    BY <1>1, <1>a, Zenon
  <2> QED BY <1>4, <1>6, <2>1, ListingConcat, Zenon
<1>8. Listing(Operation, <<>>, {}) /\ Listing(EndedOperation, <<>>, {})
  BY DEF Distinct, IdsOf, Listing
<1>9. a \ (IdsOf(p) \cup IdsOf(c)) = {} \cup {} /\ b = {} \cup {} \cup {} \cup ((R \cup (C \cup P)) \cup S)
  BY <1>1, <1>a, <1>2, Zenon
<1>10. Queues(<<>>, <<>>, a \ (IdsOf(p) \cup IdsOf(c)), <<>>, (r \o (c \o x)) \o y, b)
  <2>1. Apart({}, {}, {}, (R \cup (C \cup P)) \cup S)
    BY Zenon DEF Apart
  <2> QED BY <1>7, <1>8, <1>9, <2>1, Zenon DEF Queues
<1> QED BY <1>10, Zenon DEF x, y

\* A queued submission can be flushed: its handle is still the one it was
\* submitted on.
Queued(reg, s, stop) ==
  \A k \in DOMAIN s : /\ ~stop
                      /\ reg[s[k].token.handle].open
                      /\ reg[s[k].token.handle].generation = s[k].token.generation

\* With Queues, that is what QueueAgrees says.
LEMMA QueuesAgree ==
  ASSUME NEW p, NEW c, NEW a, NEW s, NEW r, NEW b, Queues(p, c, a, s, r, b)
  PROVE  /\ Distinct(s) /\ \A k \in DOMAIN s : s[k].id \notin a
         /\ IdsOf(s) \cap a = {} /\ IdsOf(s) \cap IdsOf(r) = {} /\ a \cap IdsOf(r) = {}
         /\ b = IdsOf(s) \cup a \cup IdsOf(r)
         /\ s \in Seq(Operation) /\ c \in Seq(EndedOperation) /\ r \in Seq(EndedOperation) /\ Distinct(r)
         /\ p \in Seq(Operation) /\ Distinct(p) /\ Distinct(c)
         /\ IdsOf(p) \cap IdsOf(c) = {} /\ a = IdsOf(p) \cup IdsOf(c)
<1>1. PICK P, C, S, R :
        /\ Listing(Operation, p, P) /\ Listing(EndedOperation, c, C)
        /\ Listing(Operation, s, S) /\ Listing(EndedOperation, r, R)
        /\ Apart(P, C, S, R)
        /\ a = P \cup C /\ b = P \cup C \cup S \cup R
  BY Zenon DEF Queues
<1>a. P \cap C = {} /\ P \cap S = {} /\ P \cap R = {} /\ C \cap S = {} /\ C \cap R = {} /\ S \cap R = {}
  BY <1>1, Zenon DEF Apart
<1>2. Distinct(s) /\ IdsOf(s) = S /\ IdsOf(r) = R /\ s \in Seq(Operation) /\ c \in Seq(EndedOperation)
      /\ r \in Seq(EndedOperation) /\ Distinct(r)
  BY <1>1, <1>a, Zenon DEF Listing
<1>3. S \cap a = {} /\ a \cap R = {} /\ b = S \cup a \cup R
  BY <1>1, <1>a, Zenon
<1>4. \A k \in DOMAIN s : s[k].id \notin a
  BY <1>2, <1>3, Zenon DEF IdsOf
<1>5. /\ p \in Seq(Operation) /\ Distinct(p) /\ Distinct(c)
      /\ IdsOf(p) \cap IdsOf(c) = {} /\ a = IdsOf(p) \cup IdsOf(c)
  BY <1>1, <1>a, Zenon DEF Listing
<1> QED BY <1>1, <1>a, <1>2, <1>3, <1>4, <1>5, Zenon

\* What is taken from the queue leaves the rest to be flushed.
LEMMA QueuedKept ==
  ASSUME NEW reg, NEW s, NEW stop, Queued(reg, s, stop), NEW u, TakenFrom(u, s, DOMAIN s)
  PROVE  Queued(reg, u, stop)
BY Zenon DEF Queued, TakenFrom

\* So does a cut.
LEMMA RestTaken ==
  ASSUME NEW T, NEW s \in Seq(T), NEW n \in 0..Len(s)
  PROVE  TakenFrom(Rest(s, n), s, DOMAIN s)
<1> SUFFICES ASSUME NEW k \in DOMAIN Rest(s, n) PROVE \E j \in DOMAIN s : Rest(s, n)[k] = s[j]
  BY Zenon DEF TakenFrom
<1>1. k + n \in DOMAIN s /\ Rest(s, n)[k] = s[k + n]
  BY DEF Rest
<1> QED BY <1>1, Zenon

\* Registering a handle is not about a queued submission: the handle is closed.
LEMMA QueuedRegister ==
  ASSUME NEW reg, NEW s \in Seq(Operation), NEW stop, Queued(reg, s, stop),
         reg \in [Handles -> [generation : Nat, open : BOOLEAN]], NEW h \in Handles, NEW e, ~reg[h].open
  PROVE  Queued([reg EXCEPT ![h] = e], s, stop)
<1> SUFFICES ASSUME NEW k \in DOMAIN s
             PROVE  LET now == [reg EXCEPT ![h] = e]
                    IN  /\ ~stop
                        /\ now[s[k].token.handle].open
                        /\ now[s[k].token.handle].generation = s[k].token.generation
  BY Zenon DEF Queued
<1>1. s[k].token.handle \in Handles
  <2>1. s[k] \in Operation
    OBVIOUS
  <2> QED BY <2>1 DEF Operation, Token
<1>2. /\ ~stop /\ reg[s[k].token.handle].open
      /\ reg[s[k].token.handle].generation = s[k].token.generation
  BY Zenon DEF Queued
<1>3. s[k].token.handle # h
  BY <1>2, Zenon
<1>4. [reg EXCEPT ![h] = e][s[k].token.handle] = reg[s[k].token.handle]
  BY <1>1, <1>3, Zenon
<1> QED BY <1>2, <1>4, Zenon

\* A submission is on a current token.
LEMMA QueuedSubmit ==
  ASSUME NEW reg, NEW s \in Seq(Operation), NEW stop, Queued(reg, s, stop), ~stop, NEW e \in Operation,
         reg[e.token.handle].open, reg[e.token.handle].generation = e.token.generation
  PROVE  Queued(reg, Append(s, e), stop)
<1> DEFINE u == Append(s, e)
<1>1. \A n \in DOMAIN u : u[n] = e \/ \E k \in DOMAIN s : u[n] = s[k]
  <2> SUFFICES ASSUME NEW n \in DOMAIN u PROVE u[n] = e \/ (n \in DOMAIN s /\ u[n] = s[n])
    BY Zenon
  <2> QED OBVIOUS
<1> HIDE DEF u
<1>2. Queued(reg, u, stop)
  BY <1>1, Zenon DEF Queued
<1> QED BY <1>2, Zenon DEF u

\* Closing a handle takes its submissions from the queue.
LEMMA QueuedClose ==
  ASSUME NEW reg, NEW s \in Seq(Operation), NEW stop, Queued(reg, s, stop),
         reg \in [Handles -> [generation : Nat, open : BOOLEAN]], NEW t \in Token,
         reg[t.handle].generation = t.generation,
         NEW u, TakenFrom(u, s, DOMAIN s \ {k \in DOMAIN s : s[k].token = t})
  PROVE  Queued([reg EXCEPT ![t.handle].open = FALSE], u, stop)
<1> DEFINE now == [reg EXCEPT ![t.handle].open = FALSE]
<1> SUFFICES ASSUME NEW n \in DOMAIN u
             PROVE  /\ ~stop
                    /\ now[u[n].token.handle].open
                    /\ now[u[n].token.handle].generation = u[n].token.generation
  BY Zenon DEF Queued
<1>1. PICK k \in DOMAIN s : s[k].token # t /\ u[n] = s[k]
  BY Zenon DEF TakenFrom
<1>2. s[k].token \in Token
  <2>1. s[k] \in Operation
    OBVIOUS
  <2> QED BY <2>1, Zenon DEF Operation
<1>3. /\ ~stop /\ reg[s[k].token.handle].open
      /\ reg[s[k].token.handle].generation = s[k].token.generation
  BY Zenon DEF Queued
<1>4. s[k].token.handle # t.handle
  BY <1>1, <1>2, <1>3 DEF Token
<1>5. s[k].token.handle \in Handles
  BY <1>2, Zenon DEF Token
<1>6. now[s[k].token.handle] = reg[s[k].token.handle]
  BY <1>4, <1>5, Zenon
<1> QED BY <1>1, <1>3, <1>6, Zenon

\* What is flushed goes behind the operations of fallback_.
LEMMA QueuedFlush ==
  ASSUME NEW reg, NEW s \in Seq(Operation), NEW p \in Seq(Operation), NEW stop, NEW n \in 0..Len(s),
         Queued(reg, s, stop), Queued(reg, p, stop)
  PROVE  Queued(reg, p \o SubSeq(s, 1, n), stop)
<1> DEFINE u == p \o SubSeq(s, 1, n)
<1>1. \A k \in DOMAIN u : (\E j \in DOMAIN p : u[k] = p[j]) \/ (\E j \in DOMAIN s : u[k] = s[j])
  <2> SUFFICES ASSUME NEW k \in DOMAIN u
               PROVE  \/ k \in DOMAIN p /\ u[k] = p[k]
                      \/ k - Len(p) \in DOMAIN s /\ u[k] = s[k - Len(p)]
    BY Zenon
  <2> QED OBVIOUS
<1> HIDE DEF u
<1>2. Queued(reg, u, stop)
  BY <1>1, Zenon DEF Queued
<1> QED BY <1>2, Zenon DEF u

\* What is always so of the io_uring backend without a ring: what it queues and
\* what its fallback_ holds is on current handles, and its queues list each id
\* once.
RingInv ==
  /\ fRegistry \in [Handles -> [generation : Nat, open : BOOLEAN]]
  /\ Queues(fPending, fCompletions, fActive, submissions, ringCompletions, ringActive)
  /\ Queued(fRegistry, submissions, fStopped) /\ Queued(fRegistry, fPending, fStopped)

\* The invariant, with its parts at hand.
LEMMA RingFacts ==
  ASSUME RingInv
  PROVE  /\ Distinct(submissions) /\ Distinct(ringCompletions)
         /\ \A k \in DOMAIN submissions : submissions[k].id \notin fActive
         /\ IdsOf(submissions) \cap fActive = {} /\ IdsOf(submissions) \cap IdsOf(ringCompletions) = {}
         /\ fActive \cap IdsOf(ringCompletions) = {}
         /\ ringActive = IdsOf(submissions) \cup fActive \cup IdsOf(ringCompletions)
         /\ submissions \in Seq(Operation) /\ fCompletions \in Seq(EndedOperation)
         /\ ringCompletions \in Seq(EndedOperation)
         /\ Len(submissions) \in Nat /\ Len(fCompletions) \in Nat /\ Len(ringCompletions) \in Nat
         /\ fPending \in Seq(Operation) /\ Distinct(fPending) /\ Distinct(fCompletions)
         /\ IdsOf(fPending) \cap IdsOf(fCompletions) = {} /\ fActive = IdsOf(fPending) \cup IdsOf(fCompletions)
<1>1. Queues(fPending, fCompletions, fActive, submissions, ringCompletions, ringActive)
  BY Zenon DEF RingInv
<1>2. /\ Distinct(submissions) /\ \A k \in DOMAIN submissions : submissions[k].id \notin fActive
      /\ IdsOf(submissions) \cap fActive = {} /\ IdsOf(submissions) \cap IdsOf(ringCompletions) = {}
      /\ fActive \cap IdsOf(ringCompletions) = {}
      /\ ringActive = IdsOf(submissions) \cup fActive \cup IdsOf(ringCompletions)
      /\ submissions \in Seq(Operation) /\ fCompletions \in Seq(EndedOperation)
      /\ ringCompletions \in Seq(EndedOperation) /\ Distinct(ringCompletions)
      /\ fPending \in Seq(Operation) /\ Distinct(fPending) /\ Distinct(fCompletions)
      /\ IdsOf(fPending) \cap IdsOf(fCompletions) = {} /\ fActive = IdsOf(fPending) \cup IdsOf(fCompletions)
  BY ONLY <1>1, QueuesAgree
<1>3. Len(submissions) \in Nat /\ Len(fCompletions) \in Nat /\ Len(ringCompletions) \in Nat
  BY <1>2
<1> QED BY <1>2, <1>3, Zenon

\* drain_completions, with the ids named.
LEMMA RingDrain ==
  ASSUME RingInv, NEW n \in 0..Len(ringCompletions)
  PROVE  Queues(fPending, fCompletions, fActive, submissions, Rest(ringCompletions, n),
                ringActive \ {ringCompletions[k].id : k \in 1..n})
<1>1. Queues(fPending, fCompletions, fActive, submissions, ringCompletions, ringActive)
  BY Zenon DEF RingInv
<1>2. Queues(fPending, fCompletions, fActive, submissions, Rest(ringCompletions, n),
             ringActive \ IdsAt(ringCompletions, 1..n))
  BY ONLY <1>1, n \in 0..Len(ringCompletions), QueueDrain, Zenon
<1> QED BY <1>2, Zenon DEF IdsAt

\* Closing keeps the registry a registry.
LEMMA RegistryClosed ==
  ASSUME RingInv, NEW t \in Token
  PROVE  [fRegistry EXCEPT ![t.handle].open = FALSE] \in [Handles -> [generation : Nat, open : BOOLEAN]]
BY DEF RingInv, Token

\* The steps of the io_uring backend without a ring, as far as its queues, the
\* two sets of active ids and the registry go.
RingStep ==
  \/ \E h \in Handles :
       /\ ~fRegistry[h].open
       /\ fRegistry' = [fRegistry EXCEPT ![h] = [generation |-> @.generation + 1, open |-> TRUE]]
       /\ UNCHANGED <<fPending, fCompletions, fActive, fStopped, submissions, ringCompletions, ringActive>>
  \/ \E e \in Operation :
       /\ ~fStopped /\ e.id \notin ringActive
       /\ fRegistry[e.token.handle].open /\ fRegistry[e.token.handle].generation = e.token.generation
       /\ submissions' = Append(submissions, e) /\ ringActive' = ringActive \cup {e.id}
       /\ UNCHANGED <<fRegistry, fPending, fCompletions, fActive, fStopped, ringCompletions>>
  \/ \E i : LET K == {k \in DOMAIN submissions : submissions[k].id = i}
            IN  /\ K # {}
                /\ \E rest \in InOrder(DOMAIN submissions \ K) : submissions' = Remaining(submissions, rest)
                /\ ringCompletions' = Append(ringCompletions, [id |-> i, result |-> "cancelled"])
                /\ UNCHANGED <<fRegistry, fPending, fCompletions, fActive, fStopped, ringActive>>
  \/ \E t \in Token :
       LET K == {k \in DOMAIN submissions : submissions[k].token = t}
           J == {k \in DOMAIN fPending : fPending[k].token = t}
       IN  /\ fRegistry[t.handle].generation = t.generation
           /\ fRegistry' = [fRegistry EXCEPT ![t.handle].open = FALSE]
           /\ \E done \in InOrder(J), left \in InOrder(DOMAIN fPending \ J),
                 flushed \in InOrder(K), rest \in InOrder(DOMAIN submissions \ K) :
                /\ fCompletions' = fCompletions \o Completed(fPending, done, "closed")
                                                \o Completed(submissions, flushed, "closed")
                /\ fPending' = Remaining(fPending, left)
                /\ submissions' = Remaining(submissions, rest)
           /\ fActive' = fActive \cup {submissions[k].id : k \in K}
           /\ UNCHANGED <<fStopped, ringCompletions, ringActive>>
  \/ \E n \in 0..Len(ringCompletions) :
       /\ ringActive' = ringActive \ {ringCompletions[k].id : k \in 1..n}
       /\ ringCompletions' = Rest(ringCompletions, n)
       /\ UNCHANGED <<fRegistry, fPending, fCompletions, fActive, fStopped, submissions>>
  \/ \E n \in 0..Len(submissions), m \in 0..Len(fCompletions) :
       /\ fPending' = fPending \o SubSeq(submissions, 1, n)
       /\ submissions' = Rest(submissions, n)
       /\ ringCompletions' = ringCompletions \o SubSeq(fCompletions, 1, m)
       /\ fCompletions' = Rest(fCompletions, m)
       /\ fActive' = (fActive \cup {submissions[k].id : k \in 1..n}) \ {fCompletions[k].id : k \in 1..m}
       /\ UNCHANGED <<fRegistry, fStopped, ringActive>>
  \/ /\ ringCompletions' =
          ringCompletions
            \o (fCompletions \o [k \in DOMAIN fPending |-> [id |-> fPending[k].id, result |-> "closed"]])
            \o [k \in DOMAIN submissions |-> [id |-> submissions[k].id, result |-> "closed"]]
     /\ fPending' = <<>> /\ fCompletions' = <<>> /\ submissions' = <<>>
     /\ fActive' = fActive \ (IdsOf(fPending) \cup IdsOf(fCompletions))
     /\ UNCHANGED <<fRegistry, ringActive>>
  \/ UNCHANGED <<fRegistry, fPending, fCompletions, fActive, fStopped, submissions, ringCompletions, ringActive>>

\* A new backend has nothing queued.
LEMMA NoQueues == Queues(<<>>, <<>>, {}, <<>>, <<>>, {})
<1>1. Listing(Operation, <<>>, {}) /\ Listing(EndedOperation, <<>>, {})
  BY DEF Distinct, IdsOf, Listing
<1>2. Apart({}, {}, {}, {}) /\ {} = {} \cup {} /\ {} = {} \cup {} \cup {} \cup {}
  BY Zenon DEF Apart
<1> QED BY <1>1, <1>2, Zenon DEF Queues

\* No call of io_uring_backend, flushing, closing, cancelling a queued
\* submission or shutting down, puts an id in two places, leaves a queued
\* submission that fallback_ would refuse, or one in fallback_ without a handle.
LEMMA RingSteps == ASSUME RingInv, RingStep PROVE RingInv'
<1> USE DEF RingInv
<1>0. /\ submissions \in Seq(Operation) /\ fCompletions \in Seq(EndedOperation)
      /\ ringCompletions \in Seq(EndedOperation) /\ fPending \in Seq(Operation)
  BY RingFacts, Zenon
<1>1. ASSUME NEW h \in Handles, ~fRegistry[h].open,
             fRegistry' = [fRegistry EXCEPT ![h] = [generation |-> @.generation + 1, open |-> TRUE]],
             UNCHANGED <<fPending, fCompletions, fActive, fStopped, submissions, ringCompletions, ringActive>>
      PROVE  RingInv'
  <2> DEFINE e == [generation |-> fRegistry[h].generation + 1, open |-> TRUE]
  <2>2. fRegistry' = [fRegistry EXCEPT ![h] = e]
    BY <1>1, Zenon
  <2>3. e \in [generation : Nat, open : BOOLEAN]
    BY DEF RingInv
  <2> HIDE DEF e
  <2>4. fRegistry' \in [Handles -> [generation : Nat, open : BOOLEAN]]
    BY <2>2, <2>3, Zenon
  <2>5. Queued(fRegistry', submissions, fStopped) /\ Queued(fRegistry', fPending, fStopped)
    <3>1. /\ Queued(fRegistry, submissions, fStopped) /\ Queued(fRegistry, fPending, fStopped)
          /\ fRegistry \in [Handles -> [generation : Nat, open : BOOLEAN]]
          /\ submissions \in Seq(Operation) /\ fPending \in Seq(Operation) /\ ~fRegistry[h].open
      BY <1>0, <1>1, Zenon
    <3>2. /\ Queued([fRegistry EXCEPT ![h] = e], submissions, fStopped)
          /\ Queued([fRegistry EXCEPT ![h] = e], fPending, fStopped)
      BY ONLY <3>1, h \in Handles, QueuedRegister, Zenon
    <3> QED BY <2>2, <3>2, Zenon
  <2> QED BY <1>1, <2>4, <2>5, Zenon
<1>2. ASSUME NEW e \in Operation, ~fStopped, e.id \notin ringActive,
             fRegistry[e.token.handle].open, fRegistry[e.token.handle].generation = e.token.generation,
             submissions' = Append(submissions, e), ringActive' = ringActive \cup {e.id},
             UNCHANGED <<fRegistry, fPending, fCompletions, fActive, fStopped, ringCompletions>>
      PROVE  RingInv'
  <2>4. Queues(fPending, fCompletions, fActive, Append(submissions, e), ringCompletions, ringActive \cup {e.id})
    BY <1>2, QueueSubmit, Zenon
  <2>6. Queued(fRegistry, Append(submissions, e), fStopped)
    BY <1>0, <1>2, QueuedSubmit, Zenon
  <2> QED BY <1>2, <2>4, <2>6, Zenon
<1>3. ASSUME NEW i, {k \in DOMAIN submissions : submissions[k].id = i} # {},
             NEW rest \in InOrder(DOMAIN submissions \ {k \in DOMAIN submissions : submissions[k].id = i}),
             submissions' = Remaining(submissions, rest),
             ringCompletions' = Append(ringCompletions, [id |-> i, result |-> "cancelled"]),
             UNCHANGED <<fRegistry, fPending, fCompletions, fActive, fStopped, ringActive>>
      PROVE  RingInv'
  <2>3. /\ Queues(fPending, fCompletions, fActive, Remaining(submissions, rest),
                  Append(ringCompletions, [id |-> i, result |-> "cancelled"]), ringActive)
        /\ TakenFrom(Remaining(submissions, rest), submissions, DOMAIN submissions)
    BY <1>3, QueueCancel, Zenon
  <2>4. Queued(fRegistry, Remaining(submissions, rest), fStopped)
    BY <2>3, QueuedKept, Zenon
  <2> QED BY <1>3, <2>3, <2>4, Zenon
<1>4. ASSUME NEW t \in Token, NEW K, NEW J, K = {k \in DOMAIN submissions : submissions[k].token = t},
             J = {k \in DOMAIN fPending : fPending[k].token = t},
             fRegistry[t.handle].generation = t.generation,
             fRegistry' = [fRegistry EXCEPT ![t.handle].open = FALSE],
             NEW done \in InOrder(J), NEW left \in InOrder(DOMAIN fPending \ J),
             NEW flushed \in InOrder(K), NEW rest \in InOrder(DOMAIN submissions \ K),
             fCompletions' = fCompletions \o Completed(fPending, done, "closed")
                                          \o Completed(submissions, flushed, "closed"),
             fPending' = Remaining(fPending, left), submissions' = Remaining(submissions, rest),
             fActive' = fActive \cup {submissions[k].id : k \in K},
             UNCHANGED <<fStopped, ringCompletions, ringActive>>
      PROVE  RingInv'
  <2>c. K \subseteq DOMAIN submissions /\ J \subseteq DOMAIN fPending
    BY <1>4, Zenon
  <2>3. /\ Queues(Remaining(fPending, left),
                  fCompletions \o Completed(fPending, done, "closed") \o Completed(submissions, flushed, "closed"),
                  fActive \cup {submissions[k].id : k \in K}, Remaining(submissions, rest),
                  ringCompletions, ringActive)
        /\ TakenFrom(Remaining(submissions, rest), submissions, DOMAIN submissions \ K)
        /\ TakenFrom(Remaining(fPending, left), fPending, DOMAIN fPending \ J)
    BY <2>c, QueueClose, Zenon
  <2>5. /\ Queued([fRegistry EXCEPT ![t.handle].open = FALSE], Remaining(submissions, rest), fStopped)
        /\ Queued([fRegistry EXCEPT ![t.handle].open = FALSE], Remaining(fPending, left), fStopped)
    BY <1>0, <1>4, <2>3, QueuedClose, Zenon
  <2>6. [fRegistry EXCEPT ![t.handle].open = FALSE] \in [Handles -> [generation : Nat, open : BOOLEAN]]
    BY RegistryClosed, Zenon
  <2> QED BY <1>4, <2>3, <2>5, <2>6, Zenon
<1>5. ASSUME NEW n \in 0..Len(ringCompletions),
             ringActive' = ringActive \ {ringCompletions[k].id : k \in 1..n},
             ringCompletions' = Rest(ringCompletions, n),
             UNCHANGED <<fRegistry, fPending, fCompletions, fActive, fStopped, submissions>>
      PROVE  RingInv'
  <2>3. Queues(fPending, fCompletions, fActive, submissions, Rest(ringCompletions, n),
               ringActive \ {ringCompletions[k].id : k \in 1..n})
    BY RingDrain, Zenon
  <2> QED BY <1>5, <2>3, Zenon
<1>6. ASSUME NEW n \in 0..Len(submissions), NEW m \in 0..Len(fCompletions),
             fPending' = fPending \o SubSeq(submissions, 1, n), submissions' = Rest(submissions, n),
             ringCompletions' = ringCompletions \o SubSeq(fCompletions, 1, m),
             fCompletions' = Rest(fCompletions, m),
             fActive' = (fActive \cup {submissions[k].id : k \in 1..n}) \ {fCompletions[k].id : k \in 1..m},
             UNCHANGED <<fRegistry, fStopped, ringActive>>
      PROVE  RingInv'
  <2>3. Queues(fPending \o SubSeq(submissions, 1, n), Rest(fCompletions, m),
               (fActive \cup {submissions[k].id : k \in 1..n}) \ {fCompletions[k].id : k \in 1..m},
               Rest(submissions, n), ringCompletions \o SubSeq(fCompletions, 1, m), ringActive)
    BY QueuePoll, Zenon
  <2>4. Queued(fRegistry, Rest(submissions, n), fStopped)
    BY <1>0, RestTaken, QueuedKept, Zenon
  <2>5. Queued(fRegistry, fPending \o SubSeq(submissions, 1, n), fStopped)
    BY <1>0, QueuedFlush, Zenon
  <2> QED BY <1>6, <2>3, <2>4, <2>5, Zenon
<1>7. ASSUME UNCHANGED <<fRegistry, fPending, fCompletions, fActive, fStopped, submissions, ringCompletions, ringActive>>
      PROVE  RingInv'
  BY <1>7, Zenon
<1>8. ASSUME ringCompletions' =
               ringCompletions
                 \o (fCompletions \o [k \in DOMAIN fPending |-> [id |-> fPending[k].id, result |-> "closed"]])
                 \o [k \in DOMAIN submissions |-> [id |-> submissions[k].id, result |-> "closed"]],
             fPending' = <<>>, fCompletions' = <<>>, submissions' = <<>>,
             fActive' = fActive \ (IdsOf(fPending) \cup IdsOf(fCompletions)),
             UNCHANGED <<fRegistry, ringActive>>
      PROVE  RingInv'
  <2>2. Queues(<<>>, <<>>, fActive \ (IdsOf(fPending) \cup IdsOf(fCompletions)), <<>>,
               ringCompletions
                 \o (fCompletions \o [k \in DOMAIN fPending |-> [id |-> fPending[k].id, result |-> "closed"]])
                 \o [k \in DOMAIN submissions |-> [id |-> submissions[k].id, result |-> "closed"]],
               ringActive)
    BY QueueShutdown, Zenon
  <2>3. Queued(fRegistry, <<>>, fStopped')
    BY DEF Queued
  <2> QED BY <1>8, <2>2, <2>3, Zenon
<1> HIDE DEF RingInv
<1> QED BY <1>1, <1>2, <1>3, <1>4, <1>5, <1>6, <1>7, <1>8, Zenon DEF RingStep

\* OwnEvents, in the words of the property.
LEMMA OwnEventsSuffice == ASSUME OwnEvents PROVE ~CompletesByOtherEvent
BY Zenon DEF OwnEvents, CompletesByOtherEvent

\* The invariant holds what is said of pending operations.
LEMMA KernelInvImplies == ASSUME KernelInv PROVE PendingHasFilter
<1> SUFFICES ASSUME NEW n \in DOMAIN pending
             PROVE  \E k \in {"read", "write"} : /\ pending[n].shape \in Ready(k)
                                                 /\ [token |-> pending[n].token, kind |-> k] \in filters \cup lost
  BY Zenon DEF PendingHasFilter
<1> DEFINE t == pending[n].token
<1>1. pending[n] \in Operation
  BY DEF KernelInv, Inv, TypeOK
<1>2. t \in Token /\ ~stopped /\ IsCurrent(t)
  BY <1>1, Zenon DEF Operation, KernelInv, Inv, PendingOnCurrentHandle
<1> HIDE DEF t
<1>3. /\ t.handle \in Handles /\ registry[t.handle].open
      /\ t = [handle |-> t.handle, generation |-> registry[t.handle].generation]
  BY <1>2 DEF Token, IsCurrent
<1>4. \A k \in {"read", "write"} : FilterOf(t.handle, registry[t.handle].generation, k) \in filters \cup lost
  BY <1>2, <1>3, Zenon DEF KernelInv, OpenHasFilters
<1>5. \A k : FilterOf(t.handle, registry[t.handle].generation, k) = [token |-> t, kind |-> k]
  BY <1>3, Zenon DEF FilterOf
<1>6. PICK k \in {"read", "write"} : pending[n].shape \in Ready(k)
  BY ProviderConstants, Zenon DEF KernelInv, PendingForSockets, ProviderConstants
<1> QED BY <1>4, <1>5, <1>6, Zenon DEF t

\* The invariant is what is said of the queue and of fallback_.
LEMMA RingInvImplies ==
  ASSUME RingInv
  PROVE  QueueAgrees /\ FB!ActiveIdsAccounted /\ FB!PendingOnCurrentHandle
<1>1. \A k \in DOMAIN submissions :
        /\ ~fStopped
        /\ fRegistry[submissions[k].token.handle].open
        /\ fRegistry[submissions[k].token.handle].generation = submissions[k].token.generation
  BY Zenon DEF RingInv, Queued
<1>2. QueueAgrees
  BY <1>1, RingFacts, Zenon DEF QueueAgrees
<1>3. FB!ActiveIdsAccounted
  BY RingFacts, Zenon DEF FB!ActiveIdsAccounted, FB!Distinct, FB!IdsOf, Distinct, IdsOf
<1>4. FB!PendingOnCurrentHandle
  BY Zenon DEF RingInv, Queued, FB!PendingOnCurrentHandle, FB!IsCurrent
<1> QED BY <1>2, <1>3, <1>4

------------------------------------------------------------------------------
(* All backends. *)

\* What is always so: of fallback_, of the kernel's filters beside it where
\* there are any, and of the queues of io_uring.
ProviderInv ==
  Inv /\ (scenario \in {"epoll", "kqueue"} => KernelInv) /\ RingInv

\* The steps of all backends, in the terms above.
ProviderStep ==
  /\ scenario' = scenario
  /\ \/ scenario \notin {"epoll", "kqueue"} /\ [Call]_vars /\ RingStep
     \/ scenario \in {"epoll", "kqueue"} /\ KernelStep /\ RingStep

\* All of it holds of a new backend.
LEMMA ProviderStarts ==
  ASSUME Init,
         fRegistry = [h \in Handles |-> [generation |-> 0, open |-> FALSE]],
         fPending = <<>>, fCompletions = <<>>, fActive = {},
         submissions = <<>>, ringCompletions = <<>>, ringActive = {}
  PROVE  ProviderInv
<1>1. Inv
  BY InvInit, Zenon
<1>2. KernelInv
  <2>1. pending = <<>> /\ registry = [h \in Handles |-> [generation |-> 0, open |-> FALSE]]
    BY Zenon DEF Init
  <2>2. PendingForSockets
    BY <2>1 DEF PendingForSockets
  <2>3. OpenHasFilters
    BY <2>1, Zenon DEF OpenHasFilters
  <2> QED BY <1>1, <2>2, <2>3, Zenon DEF KernelInv
<1>3. RingInv
  <2>1. Queued(fRegistry, <<>>, fStopped)
    BY DEF Queued
  <2>2. fRegistry \in [Handles -> [generation : Nat, open : BOOLEAN]]
    OBVIOUS
  <2> QED BY <2>1, <2>2, NoQueues, Zenon DEF RingInv
<1> QED BY <1>1, <1>2, <1>3, Zenon DEF ProviderInv

\* Every step of every backend is a call of its fallback_ or none, keeps the
\* invariant and completes nothing by the event of another registration.
LEMMA ProviderSteps ==
  ASSUME ProviderInv, ProviderStep
  PROVE  ProviderInv' /\ [Call]_vars /\ (scenario \in {"epoll", "kqueue"} => ~CompletesByOtherEvent)
<1>0. /\ Inv /\ RingInv /\ (scenario \in {"epoll", "kqueue"} => KernelInv)
      /\ scenario' = scenario /\ RingStep
  BY Zenon DEF ProviderInv, ProviderStep
<1>1. RingInv'
  BY <1>0, RingSteps, Zenon
<1>2. CASE scenario \in {"epoll", "kqueue"} /\ KernelStep
  <2>1. [Call]_vars /\ KernelInv' /\ OwnEvents
    BY <1>0, <1>2, KernelSteps, Zenon
  <2>2. Inv'
    BY <2>1, Zenon DEF KernelInv
  <2> QED BY <1>0, <1>1, <2>1, <2>2, OwnEventsSuffice, Zenon DEF ProviderInv
<1>3. CASE scenario \notin {"epoll", "kqueue"} /\ [Call]_vars
  BY <1>0, <1>1, <1>3, InvStep, Zenon DEF ProviderInv
<1> QED BY <1>2, <1>3, Zenon DEF ProviderStep

------------------------------------------------------------------------------
(* The backends do nothing else. *)

\* epoll_backend, around fallback_.
Ep == INSTANCE Epoll WITH UsedShapes <- SocketShapes

\* The calls that epoll_backend makes of fallback_ are those of VirtualBackend.
LEMMA EpollFallback ==
  ASSUME NEW h, NEW i, NEW shape, NEW t, NEW kind, NEW size
  PROVE  /\ Ep!V!RegisterHandle(h) <=> RegisterHandle(h)
         /\ Ep!V!Submit(i, shape, t) <=> Submit(i, shape, t)
         /\ Ep!V!Cancel(i) <=> Cancel(i)
         /\ Ep!V!CloseHandle(t) <=> CloseHandle(t)
         /\ Ep!V!CompleteReady(t, kind) <=> CompleteReady(t, kind)
         /\ Ep!V!DrainCompletions(size) <=> DrainCompletions(size)
         /\ Ep!V!Shutdown <=> Shutdown
         /\ Ep!V!IsCurrent(t) <=> IsCurrent(t)
         /\ Ep!V!IssuedTokens = IssuedTokens
         /\ Ep!V!Ready(kind) = Ready(kind)
BY Zenon DEF Ep!V!RegisterHandle, Ep!V!RegistryRegister, Ep!V!Submit, Ep!V!Cancel, Ep!V!IsCurrent,
             Ep!V!CloseHandle, Ep!V!RegistryClose, Ep!V!CompletePending, Ep!V!Completed, Ep!V!Remaining,
             Ep!V!OnToken, Ep!V!IssuedTokens, Ep!V!Issued, Ep!V!InOrder, Ep!V!Cardinality, Ep!V!CompleteReady,
             Ep!V!Ready, Ep!V!DrainCompletions, Ep!V!Shutdown, RegisterHandle, RegistryRegister, Submit, Cancel,
             IsCurrent, CloseHandle, RegistryClose, CompletePending, Completed, Remaining, OnToken,
             IssuedTokens, Issued, InOrder, Cardinality, CompleteReady, Ready, DrainCompletions, Shutdown

\* unpack_event_cookie, reading before writing, skipping what is not current.
LEMMA EpollEvents == ASSUME Ep!PollEvent PROVE KernelStep
<1> DEFINE e == Head(events)
           kind == IF "read" \in e.kinds THEN "read" ELSE "write"
<1>1. events # <<>> /\ UNCHANGED <<filters, lost>>
  BY Zenon DEF Ep!PollEvent, Ep!Idle
<1>2. \/ UNCHANGED vars
      \/ Ep!V!CompleteReady(Ep!TokenOf(e), kind)
  BY Zenon DEF Ep!PollEvent, Ep!fallback, vars
<1>3. Ep!TokenOf(e) = e.token
  BY Zenon DEF Ep!TokenOf
<1>4. UNCHANGED vars \/ CompleteReady(Head(events).token, kind)
  BY <1>2, <1>3, EpollFallback, Zenon
<1> HIDE DEF kind
<1> QED BY <1>1, <1>4, Zenon DEF KernelStep

\* What epoll_backend does is a KernelStep: one registration for both kinds.
LEMMA EpollSteps == ASSUME Ep!Next PROVE KernelStep
<1>1. ASSUME NEW h \in Handles, Ep!RegisterHandle(h) PROVE KernelStep
  <2>1. /\ RegisterHandle(h) /\ lost' = lost
        /\ filters' = filters \cup Ep!Both(Ep!NewToken(h))
    BY <1>1, EpollFallback, Zenon DEF Ep!RegisterHandle
  <2>2. \A k \in {"read", "write"} : FilterOf(h, registry[h].generation + 1, k) \in filters'
    BY <2>1, Zenon DEF FilterOf, Ep!Both, Ep!NewToken, Ep!Kinds
  <2>3. OthersKept(h)
    BY <2>1, Zenon DEF OthersKept
  <2> QED BY <2>1, <2>2, <2>3, Zenon DEF KernelStep
<1>2. ASSUME NEW h \in Handles, Ep!RegisterFails(h, filters) PROVE KernelStep
  <2>1. RegistrationTakenBack(h) /\ lost' = lost /\ filters' = filters
    BY <1>2, Zenon DEF Ep!RegisterFails, RegistrationTakenBack
  <2> QED BY <2>1, Zenon DEF KernelStep, OthersKept
<1>3. ASSUME NEW i \in Ids, NEW shape \in SocketShapes, NEW t \in IssuedTokens, Ep!Submit(i, shape, t)
      PROVE  KernelStep
  BY <1>3, EpollFallback, Zenon DEF Ep!Submit, KernelStep
<1>4. ASSUME NEW i \in Ids, Ep!Cancel(i) PROVE KernelStep
  BY <1>4, EpollFallback, Zenon DEF Ep!Cancel, KernelStep
<1>5. ASSUME NEW t \in IssuedTokens, Ep!CloseHandle(t) PROVE KernelStep
  <2>1. CloseHandle(t) /\ lost' = lost /\ filters \ Ep!Both(t) \subseteq filters'
    BY <1>5, EpollFallback, Zenon DEF Ep!CloseHandle
  <2>2. OthersKept(t.handle)
    <3>1. \A g, n, k : FilterOf(g, n, k).token.handle = g
      BY Zenon DEF FilterOf
    <3>2. \A f \in Ep!Both(t) : f.token.handle = t.handle
      BY DEF Ep!Both
    <3>3. ASSUME NEW g \in Handles \ {t.handle}, NEW n, NEW k PROVE FilterOf(g, n, k) \notin Ep!Both(t)
      <4>1. FilterOf(g, n, k).token.handle # t.handle
        BY <3>1
      <4> QED BY <3>2, <4>1
    <3> QED BY <2>1, <3>3, Zenon DEF OthersKept
  <2> QED BY <2>1, <2>2, Zenon DEF KernelStep
<1>6. ASSUME NEW t \in IssuedTokens, NEW kept \in BOOLEAN, Ep!NativeClose(t, kept) PROVE KernelStep
  <2>1. /\ IsCurrent(t) /\ UNCHANGED vars /\ lost' = lost \cup Ep!Both(t)
        /\ filters \ Ep!Both(t) \subseteq filters'
    BY <1>6, EpollFallback, Zenon DEF Ep!NativeClose, Ep!fallback, vars
  <2>2. OthersKept(t.handle)
    <3>1. \A g, n, k : FilterOf(g, n, k).token.handle = g
      BY Zenon DEF FilterOf
    <3>2. \A f \in Ep!Both(t) : f.token.handle = t.handle
      BY DEF Ep!Both
    <3>3. ASSUME NEW g \in Handles \ {t.handle}, NEW n, NEW k PROVE FilterOf(g, n, k) \notin Ep!Both(t)
      <4>1. FilterOf(g, n, k).token.handle # t.handle
        BY <3>1
      <4> QED BY <3>2, <4>1
    <3> QED BY <2>1, <3>3, Zenon DEF OthersKept
  <2>3. OwnLost(t)
    BY <2>1, Zenon DEF OwnLost
  <2> QED BY <2>1, <2>2, <2>3, Zenon DEF KernelStep
<1>7. ASSUME NEW size \in DrainSizes, Ep!DrainCompletions(size) PROVE KernelStep
  BY <1>7, EpollFallback, Zenon DEF Ep!DrainCompletions, KernelStep
<1>8. ASSUME Ep!Shutdown PROVE KernelStep
  BY <1>8, EpollFallback, Zenon DEF Ep!Shutdown, KernelStep
<1>9. ASSUME \/ Ep!Wake \/ Ep!PollFetches \/ Ep!WakeReadFails
             \/ \E h \in Handles, k \in Ep!Kinds : Ep!ReadinessChanges(h, k)
      PROVE  KernelStep
  <2>1. UNCHANGED vars /\ UNCHANGED <<filters, lost>>
    BY <1>9, Zenon DEF Ep!Wake, Ep!PollFetches, Ep!PollFetch, Ep!WakeReadFails, Ep!PollAborts,
                       Ep!ReadinessChanges, Ep!fallback, vars
  <2> QED BY <2>1, Zenon DEF KernelStep
<1>10. Ep!V!IssuedTokens = IssuedTokens
  BY EpollFallback, Zenon
<1> QED BY <1>1, <1>2, <1>3, <1>4, <1>5, <1>6, <1>7, <1>8, <1>9, <1>10, EpollEvents, Zenon DEF Ep!Next

\* kqueue_backend, around fallback_.
Kq == INSTANCE Kqueue WITH UsedShapes <- SocketShapes

\* The calls that kqueue_backend makes of fallback_ are those of VirtualBackend.
LEMMA KqueueFallback ==
  ASSUME NEW h, NEW i, NEW shape, NEW t, NEW kind, NEW size
  PROVE  /\ Kq!V!RegisterHandle(h) <=> RegisterHandle(h)
         /\ Kq!V!Submit(i, shape, t) <=> Submit(i, shape, t)
         /\ Kq!V!Cancel(i) <=> Cancel(i)
         /\ Kq!V!CloseHandle(t) <=> CloseHandle(t)
         /\ Kq!V!CompleteReady(t, kind) <=> CompleteReady(t, kind)
         /\ Kq!V!DrainCompletions(size) <=> DrainCompletions(size)
         /\ Kq!V!Shutdown <=> Shutdown
         /\ Kq!V!IsCurrent(t) <=> IsCurrent(t)
         /\ Kq!V!IssuedTokens = IssuedTokens
         /\ Kq!V!Ready(kind) = Ready(kind)
BY Zenon DEF Kq!V!RegisterHandle, Kq!V!RegistryRegister, Kq!V!Submit, Kq!V!Cancel, Kq!V!IsCurrent,
             Kq!V!CloseHandle, Kq!V!RegistryClose, Kq!V!CompletePending, Kq!V!Completed, Kq!V!Remaining,
             Kq!V!OnToken, Kq!V!IssuedTokens, Kq!V!Issued, Kq!V!InOrder, Kq!V!Cardinality, Kq!V!CompleteReady,
             Kq!V!Ready, Kq!V!DrainCompletions, Kq!V!Shutdown, RegisterHandle, RegistryRegister, Submit, Cancel,
             IsCurrent, CloseHandle, RegistryClose, CompletePending, Completed, Remaining, OnToken,
             IssuedTokens, Issued, InOrder, Cardinality, CompleteReady, Ready, DrainCompletions, Shutdown

\* unpack_event_cookie, as in epoll_backend.
LEMMA KqueueEvents == ASSUME Kq!PollEvent PROVE KernelStep
<1> DEFINE e == Head(events)
           kind == IF "read" \in e.kinds THEN "read" ELSE "write"
<1>1. events # <<>> /\ UNCHANGED <<filters, lost>>
  BY Zenon DEF Kq!PollEvent, Kq!Idle
<1>2. \/ UNCHANGED vars
      \/ Kq!V!CompleteReady(Kq!TokenOf(e), kind)
  BY Zenon DEF Kq!PollEvent, Kq!fallback, vars
<1>3. Kq!TokenOf(e) = e.token
  BY Zenon DEF Kq!TokenOf
<1>4. UNCHANGED vars \/ CompleteReady(Head(events).token, kind)
  BY <1>2, <1>3, KqueueFallback, Zenon
<1> HIDE DEF kind
<1> QED BY <1>1, <1>4, Zenon DEF KernelStep

\* What kqueue_backend does is a KernelStep, also when it fails between its
\* two filters: registering and closing touch those of one descriptor.
LEMMA KqueueSteps == ASSUME Kq!Next PROVE KernelStep
<1>0. ASSUME NEW h \in Handles, NEW ks \in SUBSET {"read", "write"}
      PROVE  /\ filters' = Kq!Deleting(h, ks) => OthersKept(h)
             /\ filters' = Kq!Replacing(Kq!NewToken(h), ks) => OthersKept(h)
  <2>1. \A g, n, k : FilterOf(g, n, k).token.handle = g
    BY Zenon DEF FilterOf
  <2>2. Kq!NewToken(h).handle = h
    BY Zenon DEF Kq!NewToken
  <2> QED BY <2>1, <2>2, Zenon DEF OthersKept, Kq!Deleting, Kq!Replacing
<1>1. ASSUME NEW h \in Handles, Kq!RegisterHandle(h) PROVE KernelStep
  <2>1. /\ RegisterHandle(h) /\ lost' = lost
        /\ filters' = Kq!Replacing(Kq!NewToken(h), {"read", "write"})
    BY <1>1, KqueueFallback, Zenon DEF Kq!RegisterHandle, Kq!Kinds
  <2>2. \A k \in {"read", "write"} : FilterOf(h, registry[h].generation + 1, k) \in filters'
    BY <2>1, Zenon DEF FilterOf, Kq!Replacing, Kq!NewToken
  <2>3. OthersKept(h)
    BY <1>0, <2>1, Zenon
  <2> QED BY <2>1, <2>2, <2>3, Zenon DEF KernelStep
<1>2. ASSUME NEW h \in Handles, Kq!RegisterFails(h, filters) \/ Kq!RegisterHalf(h) PROVE KernelStep
  <2>1. PICK left \in {filters, Kq!Deleting(h, {"read"}), Kq!Replacing(Kq!NewToken(h), {"read"})} :
          Kq!RegisterFails(h, left)
    BY <1>2, Zenon DEF Kq!RegisterHalf
  <2>2. RegistrationTakenBack(h) /\ lost' = lost /\ filters' = left
    BY <2>1, Zenon DEF Kq!RegisterFails, RegistrationTakenBack
  <2>3. filters' = filters => OthersKept(h)
    BY Zenon DEF OthersKept
  <2>4. {"read"} \in SUBSET {"read", "write"}
    BY Zenon
  <2>5. OthersKept(h)
    BY <1>0, <2>1, <2>2, <2>3, <2>4, Zenon
  <2> QED BY <2>2, <2>5, Zenon DEF KernelStep
<1>3. ASSUME NEW i \in Ids, NEW shape \in SocketShapes, NEW t \in IssuedTokens, Kq!Submit(i, shape, t)
      PROVE  KernelStep
  BY <1>3, KqueueFallback, Zenon DEF Kq!Submit, KernelStep
<1>4. ASSUME NEW i \in Ids, Kq!Cancel(i) PROVE KernelStep
  BY <1>4, KqueueFallback, Zenon DEF Kq!Cancel, KernelStep
<1>5. \A t \in IssuedTokens : t.handle \in Handles
  BY DEF IssuedTokens, Issued
<1>6. ASSUME NEW t \in IssuedTokens, Kq!CloseHandle(t) PROVE KernelStep
  <2>1. CloseHandle(t) /\ lost' = lost /\ filters' = Kq!Deleting(t.handle, {"read", "write"})
    BY <1>6, KqueueFallback, Zenon DEF Kq!CloseHandle, Kq!Kinds
  <2>2. OthersKept(t.handle)
    BY <1>0, <1>5, <2>1, Zenon
  <2> QED BY <2>1, <2>2, Zenon DEF KernelStep
<1>7. ASSUME NEW t \in IssuedTokens, Kq!CloseHandleHalf(t) PROVE KernelStep
  <2>1. /\ IsCurrent(t) /\ UNCHANGED vars /\ lost' = lost \cup {[token |-> t, kind |-> "read"]}
        /\ filters' = Kq!Deleting(t.handle, {"read"})
    BY <1>7, KqueueFallback, Zenon DEF Kq!CloseHandleHalf, Kq!fallback, vars
  <2>2. {"read"} \in SUBSET {"read", "write"}
    BY Zenon
  <2>3. OthersKept(t.handle)
    BY <1>0, <1>5, <2>1, <2>2, Zenon
  <2>4. OwnLost(t)
    <3>1. /\ FilterOf(t.handle, t.generation, "write").kind = "write"
          /\ FilterOf(t.handle, t.generation, "read") = [token |-> t, kind |-> "read"]
      BY <1>5 DEF FilterOf, IssuedTokens, Issued
    <3> QED BY <2>1, <3>1 DEF OwnLost, Kq!Deleting
  <2> QED BY <2>1, <2>3, <2>4, Zenon DEF KernelStep
<1>8. ASSUME NEW t \in IssuedTokens, Kq!NativeClose(t, FALSE) PROVE KernelStep
  <2>1. /\ IsCurrent(t) /\ UNCHANGED vars /\ lost' = lost \cup Kq!Both(t)
        /\ filters' = filters \ Kq!Both(t)
    BY <1>8, KqueueFallback, Zenon DEF Kq!NativeClose, Kq!fallback, vars
  <2>2. OthersKept(t.handle)
    <3>1. \A g, n, k : FilterOf(g, n, k).token.handle = g
      BY Zenon DEF FilterOf
    <3>2. \A f \in Kq!Both(t) : f.token.handle = t.handle
      BY DEF Kq!Both
    <3>3. ASSUME NEW g \in Handles \ {t.handle}, NEW n, NEW k PROVE FilterOf(g, n, k) \notin Kq!Both(t)
      <4>1. FilterOf(g, n, k).token.handle # t.handle
        BY <3>1
      <4> QED BY <3>2, <4>1
    <3> QED BY <2>1, <3>3, Zenon DEF OthersKept
  <2>3. OwnLost(t)
    BY <2>1, Zenon DEF OwnLost
  <2> QED BY <2>1, <2>2, <2>3, Zenon DEF KernelStep
<1>9. ASSUME NEW size \in DrainSizes, Kq!DrainCompletions(size) PROVE KernelStep
  BY <1>9, KqueueFallback, Zenon DEF Kq!DrainCompletions, KernelStep
<1>10. ASSUME Kq!Shutdown PROVE KernelStep
  BY <1>10, KqueueFallback, Zenon DEF Kq!Shutdown, KernelStep
<1>11. ASSUME \/ Kq!Wake \/ Kq!PollFetches \/ Kq!EventFails
              \/ \E h \in Handles, k \in Kq!Kinds : Kq!ReadinessChanges(h, k)
       PROVE  KernelStep
  <2>1. UNCHANGED vars /\ UNCHANGED <<filters, lost>>
    BY <1>11, Zenon DEF Kq!Wake, Kq!PollFetches, Kq!PollFetch, Kq!EventFails, Kq!PollAborts,
                        Kq!ReadinessChanges, Kq!fallback, vars
  <2> QED BY <2>1, Zenon DEF KernelStep
<1>12. Kq!V!IssuedTokens = IssuedTokens
  BY KqueueFallback, Zenon
<1> QED BY <1>1, <1>2, <1>3, <1>4, <1>6, <1>7, <1>8, <1>9, <1>10, <1>11, <1>12, KqueueEvents, Zenon
        DEF Kq!Next

\* The io_uring backend without a ring, around a fallback_ of its own.
Ring == INSTANCE IoUringFallback WITH UsedShapes <- SocketShapes,
          registry <- fRegistry, pending <- fPending, completions <- fCompletions,
          active <- fActive, counters <- fCounters, stopped <- fStopped

\* What its calls use of fallback_.
LEMMA RingFallback ==
  ASSUME NEW K, NEW s, NEW f, NEW r
  PROVE  /\ Ring!InOrder(K) = InOrder(K)
         /\ Ring!V!Completed(s, f, r) = Completed(s, f, r)
         /\ Ring!V!Remaining(s, f) = Remaining(s, f)
BY Zenon DEF Ring!InOrder, Ring!Cardinality, Ring!V!Completed, Ring!V!Remaining,
             InOrder, Cardinality, Completed, Remaining

\* What the io_uring backend does without a ring is a RingStep.
LEMMA RingCalls ==
  ASSUME RingInv, Ring!Next
  PROVE  RingStep
<1> SocketShapes \subseteq Shapes /\ SubmitBatchLimit \in Nat /\ CompletionBatchLimit \in Nat
  BY ProviderConstants, SocketsAreShapes, Zenon DEF ProviderConstants
<1>0. Len(submissions) \in Nat /\ Len(fCompletions) \in Nat /\ Len(ringCompletions) \in Nat
  BY RingFacts, Zenon
<1>a. \A a, b \in Nat : Ring!Least(a, b) \in 0..b
  BY DEF Ring!Least
<1>t. \A t \in Ring!V!IssuedTokens : t \in Token
  BY DEF Ring!V!IssuedTokens, Ring!V!Issued, Token
<1>1. ASSUME NEW h \in Handles, Ring!RegisterHandle(h) PROVE RingStep
  BY <1>1, Zenon DEF Ring!RegisterHandle, Ring!V!RegisterHandle, Ring!V!RegistryRegister, Ring!ring, RingStep
<1>2. ASSUME NEW i \in Ids, NEW shape \in SocketShapes, NEW t \in Ring!V!IssuedTokens,
             Ring!Submit(i, shape, t)
      PROVE  RingStep
  <2> DEFINE e == [id |-> i, shape |-> shape, token |-> t]
  <2>1. /\ ~fStopped /\ i \notin ringActive
        /\ fRegistry[t.handle].open /\ fRegistry[t.handle].generation = t.generation
        /\ ringActive' = ringActive \cup {i} /\ submissions' = Append(submissions, e)
        /\ UNCHANGED <<fRegistry, fPending, fCompletions, fActive, fStopped, ringCompletions>>
    BY <1>2, Zenon DEF Ring!Submit, Ring!fallback, Ring!V!IsCurrent
  <2>2. e \in Operation /\ e.id = i /\ e.token = t
    BY <1>t, Zenon DEF Operation
  <2> HIDE DEF e
  <2> QED BY <2>1, <2>2, Zenon DEF RingStep
<1>3. ASSUME NEW i \in Ids, Ring!Cancel(i) PROVE RingStep
  <2> DEFINE K == {k \in DOMAIN submissions : submissions[k].id = i}
  <2>1. CASE K # {}
    <3>1. /\ ringCompletions' = Append(ringCompletions, [id |-> i, result |-> "cancelled"])
          /\ UNCHANGED <<fRegistry, fPending, fCompletions, fActive, fStopped, ringActive>>
          /\ \E rest \in InOrder(DOMAIN submissions \ K) : submissions' = Remaining(submissions, rest)
      BY <1>3, <2>1, RingFallback, Zenon DEF Ring!Cancel, Ring!fallback
    <3> QED BY <2>1, <3>1, Zenon DEF RingStep
  <2>2. CASE K = {}
    BY <1>3, <2>2, Zenon DEF Ring!Cancel, Ring!V!Cancel, Ring!ring, RingStep
  <2> QED BY <2>1, <2>2, Zenon
<1>4. ASSUME NEW t \in Ring!V!IssuedTokens, Ring!CloseHandle(t) PROVE RingStep
  <2> DEFINE K == {k \in DOMAIN submissions : submissions[k].token = t}
             J == {k \in DOMAIN fPending : fPending[k].token = t}
  <2>1. /\ fRegistry[t.handle].generation = t.generation
        /\ fRegistry' = [fRegistry EXCEPT ![t.handle].open = FALSE]
        /\ UNCHANGED <<fStopped, ringCompletions, ringActive>>
        /\ fActive' = fActive \cup {submissions[k].id : k \in K}
        /\ \E done \in Ring!InOrder(J), left \in Ring!InOrder(DOMAIN fPending \ J),
              flushed \in Ring!InOrder(K), rest \in Ring!InOrder(DOMAIN submissions \ K) :
             /\ fCompletions' = fCompletions \o Ring!V!Completed(fPending, done, "closed")
                                             \o Ring!V!Completed(submissions, flushed, "closed")
             /\ fPending' = Ring!V!Remaining(fPending, left)
             /\ submissions' = Ring!V!Remaining(submissions, rest)
    BY <1>4, Zenon DEF Ring!CloseHandle, Ring!V!RegistryClose, Ring!V!IsCurrent, Ring!QueuedFor, Ring!V!OnToken
  <2>2. /\ Ring!InOrder(J) = InOrder(J) /\ Ring!InOrder(DOMAIN fPending \ J) = InOrder(DOMAIN fPending \ J)
        /\ Ring!InOrder(K) = InOrder(K) /\ Ring!InOrder(DOMAIN submissions \ K) = InOrder(DOMAIN submissions \ K)
        /\ \A s, f, r : Ring!V!Completed(s, f, r) = Completed(s, f, r)
        /\ \A s, f : Ring!V!Remaining(s, f) = Remaining(s, f)
    BY RingFallback, Zenon
  <2>3. \E done \in InOrder(J), left \in InOrder(DOMAIN fPending \ J),
           flushed \in InOrder(K), rest \in InOrder(DOMAIN submissions \ K) :
          /\ fCompletions' = fCompletions \o Completed(fPending, done, "closed")
                                          \o Completed(submissions, flushed, "closed")
          /\ fPending' = Remaining(fPending, left)
          /\ submissions' = Remaining(submissions, rest)
    BY <2>1, <2>2, Zenon
  <2> QED BY <1>t, <2>1, <2>3, Zenon DEF RingStep
<1>5. ASSUME NEW size \in DrainSizes, Ring!DrainCompletions(size) PROVE RingStep
  <2>1. Ring!Least(size, Len(ringCompletions)) \in 0..Len(ringCompletions)
    BY <1>0, <1>a, BackendConstants, Zenon
  <2> QED BY <1>5, <2>1, Zenon DEF Ring!DrainCompletions, Ring!fallback, Rest, RingStep
<1>6. ASSUME Ring!Poll PROVE RingStep
  <2>1. /\ Ring!Least(SubmitBatchLimit, Len(submissions)) \in 0..Len(submissions)
        /\ Ring!ObservedCount \in 0..Len(fCompletions)
    BY <1>0, <1>a, Zenon DEF Ring!ObservedCount
  <2> QED BY <1>6, <2>1, Zenon DEF Ring!Poll, Rest, RingStep
<1>7. ASSUME Ring!Wake PROVE RingStep
  BY <1>7, Zenon DEF Ring!Wake, Ring!V!Wake, Ring!ring, RingStep
<1>8. ASSUME Ring!Shutdown PROVE RingStep
  BY <1>8, Zenon DEF Ring!Shutdown, Ring!FallbackDrained, Ring!V!IdsOf, IdsOf, RingStep
<1> QED BY <1>1, <1>2, <1>3, <1>4, <1>5, <1>6, <1>7, <1>8, Zenon DEF Ring!Next

\* All of them, as the scenarios of Providers.
P == INSTANCE Providers

\* The scenarios are the backends above.
LEMMA Scenarios ==
  /\ P!Next <=> Next
  /\ P!Ep!Next <=> Ep!Next
  /\ P!Kq!Next <=> Kq!Next
  /\ P!Ring!Next <=> Ring!Next
<1>1. (P!Next <=> Next) /\ (P!Ep!Next <=> Ep!Next)
  BY Zenon DEF P!RegisterHandle, P!RegistryRegister, P!Submit, P!Cancel, P!IsCurrent, P!CloseHandle,
               P!RegistryClose, P!CompletePending, P!Completed, P!Remaining, P!OnToken, P!IssuedTokens,
               P!Issued, P!InOrder, P!Cardinality, P!CompleteReady, P!Ready, P!DrainCompletions, P!Shutdown,
               P!Next, P!Wake, RegisterHandle, RegistryRegister, Submit, Cancel, IsCurrent, CloseHandle,
               RegistryClose, CompletePending, Completed, Remaining, OnToken, IssuedTokens, Issued, InOrder,
               Cardinality, CompleteReady, Ready, DrainCompletions, Shutdown, Next, Wake, P!Ep!Idle,
               P!Ep!Both, P!Ep!NewToken, P!Ep!Kinds, P!Ep!Submit, P!Ep!Cancel, P!Ep!DrainCompletions,
               P!Ep!Shutdown, P!Ep!Wake, P!Ep!RegisterFails, P!Ep!IsReady, P!Ep!PollFetch, P!Ep!TokenOf,
               P!Ep!PollEvent, P!Ep!PollAborts, P!Ep!ReadinessChanges, P!Ep!NativeClose, P!Ep!fallback,
               P!Ep!RegisterHandle, P!Ep!CloseHandle, P!Ep!Reports, P!Ep!PollFetches, P!Ep!Next,
               P!Ep!WakeReadFails, P!Ep!V!RegisterHandle, P!Ep!V!RegistryRegister, P!Ep!V!Submit,
               P!Ep!V!Cancel, P!Ep!V!IsCurrent, P!Ep!V!CloseHandle, P!Ep!V!RegistryClose,
               P!Ep!V!CompletePending, P!Ep!V!Completed, P!Ep!V!Remaining, P!Ep!V!OnToken,
               P!Ep!V!IssuedTokens, P!Ep!V!Issued, P!Ep!V!InOrder, P!Ep!V!Cardinality, P!Ep!V!CompleteReady,
               P!Ep!V!Ready, P!Ep!V!DrainCompletions, P!Ep!V!Shutdown, Ep!Idle, Ep!Both, Ep!NewToken,
               Ep!Kinds, Ep!Submit, Ep!Cancel, Ep!DrainCompletions, Ep!Shutdown, Ep!Wake, Ep!RegisterFails,
               Ep!IsReady, Ep!PollFetch, Ep!TokenOf, Ep!PollEvent, Ep!PollAborts, Ep!ReadinessChanges,
               Ep!NativeClose, Ep!fallback, Ep!RegisterHandle, Ep!CloseHandle, Ep!Reports, Ep!PollFetches,
               Ep!Next, Ep!WakeReadFails, Ep!V!RegisterHandle, Ep!V!RegistryRegister, Ep!V!Submit,
               Ep!V!Cancel, Ep!V!IsCurrent, Ep!V!CloseHandle, Ep!V!RegistryClose, Ep!V!CompletePending,
               Ep!V!Completed, Ep!V!Remaining, Ep!V!OnToken, Ep!V!IssuedTokens, Ep!V!Issued, Ep!V!InOrder,
               Ep!V!Cardinality, Ep!V!CompleteReady, Ep!V!Ready, Ep!V!DrainCompletions, Ep!V!Shutdown
<1>2. P!Kq!Next <=> Kq!Next
  BY Zenon DEF P!Kq!Idle, P!Kq!Both, P!Kq!NewToken, P!Kq!Kinds, P!Kq!Submit, P!Kq!Cancel,
               P!Kq!DrainCompletions, P!Kq!Shutdown, P!Kq!Wake, P!Kq!RegisterFails, P!Kq!IsReady,
               P!Kq!PollFetch, P!Kq!TokenOf, P!Kq!PollEvent, P!Kq!PollAborts, P!Kq!ReadinessChanges,
               P!Kq!NativeClose, P!Kq!fallback, P!Kq!RegisterHandle, P!Kq!CloseHandle, P!Kq!Reports,
               P!Kq!PollFetches, P!Kq!Next, P!Kq!Replacing, P!Kq!Deleting, P!Kq!RegisterHalf,
               P!Kq!CloseHandleHalf, P!Kq!EventFails, P!Kq!V!RegisterHandle, P!Kq!V!RegistryRegister,
               P!Kq!V!Submit, P!Kq!V!Cancel, P!Kq!V!IsCurrent, P!Kq!V!CloseHandle, P!Kq!V!RegistryClose,
               P!Kq!V!CompletePending, P!Kq!V!Completed, P!Kq!V!Remaining, P!Kq!V!OnToken,
               P!Kq!V!IssuedTokens, P!Kq!V!Issued, P!Kq!V!InOrder, P!Kq!V!Cardinality, P!Kq!V!CompleteReady,
               P!Kq!V!Ready, P!Kq!V!DrainCompletions, P!Kq!V!Shutdown, Kq!Idle, Kq!Both, Kq!NewToken,
               Kq!Kinds, Kq!Submit, Kq!Cancel, Kq!DrainCompletions, Kq!Shutdown, Kq!Wake, Kq!RegisterFails,
               Kq!IsReady, Kq!PollFetch, Kq!TokenOf, Kq!PollEvent, Kq!PollAborts, Kq!ReadinessChanges,
               Kq!NativeClose, Kq!fallback, Kq!RegisterHandle, Kq!CloseHandle, Kq!Reports, Kq!PollFetches,
               Kq!Next, Kq!Replacing, Kq!Deleting, Kq!RegisterHalf, Kq!CloseHandleHalf, Kq!EventFails,
               Kq!V!RegisterHandle, Kq!V!RegistryRegister, Kq!V!Submit, Kq!V!Cancel, Kq!V!IsCurrent,
               Kq!V!CloseHandle, Kq!V!RegistryClose, Kq!V!CompletePending, Kq!V!Completed, Kq!V!Remaining,
               Kq!V!OnToken, Kq!V!IssuedTokens, Kq!V!Issued, Kq!V!InOrder, Kq!V!Cardinality,
               Kq!V!CompleteReady, Kq!V!Ready, Kq!V!DrainCompletions, Kq!V!Shutdown
<1>3. P!Ring!Next <=> Ring!Next
  BY Zenon DEF P!Ring!RegisterHandle, P!Ring!Submit, P!Ring!Cancel, P!Ring!QueuedFor, P!Ring!CloseHandle,
               P!Ring!ObservedCount, P!Ring!Poll, P!Ring!DrainCompletions, P!Ring!Wake,
               P!Ring!FallbackDrained, P!Ring!Shutdown, P!Ring!Next, P!Ring!Least, P!Ring!Flushable,
               P!Ring!fallback, P!Ring!ring, P!Ring!InOrder, P!Ring!Cardinality, P!Ring!V!RegisterHandle,
               P!Ring!V!RegistryRegister, P!Ring!V!RegistryClose, P!Ring!V!Cancel, P!Ring!V!IsCurrent,
               P!Ring!V!Completed, P!Ring!V!Remaining, P!Ring!V!OnToken, P!Ring!V!IssuedTokens,
               P!Ring!V!Issued, P!Ring!V!Wake, P!Ring!V!IdsOf, Ring!RegisterHandle, Ring!Submit, Ring!Cancel,
               Ring!QueuedFor, Ring!CloseHandle, Ring!ObservedCount, Ring!Poll, Ring!DrainCompletions,
               Ring!Wake, Ring!FallbackDrained, Ring!Shutdown, Ring!Next, Ring!Least, Ring!Flushable,
               Ring!fallback, Ring!ring, Ring!InOrder, Ring!Cardinality, Ring!V!RegisterHandle,
               Ring!V!RegistryRegister, Ring!V!RegistryClose, Ring!V!Cancel, Ring!V!IsCurrent,
               Ring!V!Completed, Ring!V!Remaining, Ring!V!OnToken, Ring!V!IssuedTokens, Ring!V!Issued,
               Ring!V!Wake, Ring!V!IdsOf
<1> QED BY <1>1, <1>2, <1>3, Zenon

\* A step of a scenario is a ProviderStep.
LEMMA ScenarioSteps ==
  ASSUME ProviderInv, [P!ProviderNext]_<<scenario, P!vars, P!kernelVars, P!ringVars>>
  PROVE  ProviderInv' /\ [Call]_vars /\ (scenario \in {"epoll", "kqueue"} => ~CompletesByOtherEvent)
<1>0. RingInv
  BY Zenon DEF ProviderInv
<1>1. /\ UNCHANGED P!ringVars => RingStep
      /\ UNCHANGED P!vars => UNCHANGED vars
      /\ UNCHANGED <<P!vars, P!kernelVars>> => KernelStep
  BY Zenon DEF P!vars, vars, P!ringVars, P!kernelVars, RingStep, KernelStep
<1>2. ProviderStep
  BY <1>0, <1>1, Scenarios, NextCalls, EpollSteps, KqueueSteps, RingCalls, Zenon DEF P!ProviderNext, ProviderStep
<1> QED BY <1>2, ProviderSteps, Zenon

\* The invariant, of all backends.
THEOREM ProviderInvariance == P!ProviderSpec => []ProviderInv
<1>1. P!ProviderInit => ProviderInv
  BY ProviderStarts, Zenon DEF P!ProviderInit, P!Init, Init, P!Ring!Init, P!Ring!V!Init
<1>2. ProviderInv /\ [P!ProviderNext]_<<scenario, P!vars, P!kernelVars, P!ringVars>> => ProviderInv'
  BY ScenarioSteps, Zenon
<1> QED BY <1>1, <1>2, PTL DEF P!ProviderSpec

\* With epoll and kqueue no operation waits for an event the kernel was not
\* asked for, also when registering failed between two filters or a descriptor
\* was closed under its registration; io_uring queues only what its fallback_
\* will accept, the two sets of active ids agree, and the fallback_ itself is in
\* order.
THEOREM ProvidersAgree == P!ProviderSpec => []ProviderAgrees
<1>1. ProviderInv => ProviderAgrees
  BY KernelInvImplies, RingInvImplies, Zenon DEF ProviderInv, ProviderAgrees
<1> QED BY <1>1, ProviderInvariance, PTL

\* An event fetched for an earlier registration of a descriptor, or left over
\* in a batch, completes no operation of a later one.
THEOREM StaleEventsCompleteNothing == P!ProviderSpec => StaleEventsIgnored
<1>1. ProviderInv /\ [P!ProviderNext]_<<scenario, P!vars, P!kernelVars, P!ringVars>>
        => [(scenario \in {"epoll", "kqueue"}) => ~CompletesByOtherEvent]_<<vars, kernelVars>>
  BY ScenarioSteps, Zenon
<1> QED BY <1>1, ProviderInvariance, PTL DEF P!ProviderSpec, StaleEventsIgnored

\* Whoever owns it, the bookkeeping of a virtual_backend holds: of one driven by
\* epoll or kqueue, that registers, closes and completes by events, and of the
\* fallback_ of io_uring, that is flushed, drained and closed in batches.
THEOREM FallbacksAccounted ==
  P!ProviderSpec => [](/\ ActiveIdsAccounted /\ PendingOnCurrentHandle
                       /\ FB!ActiveIdsAccounted /\ FB!PendingOnCurrentHandle)
<1>1. ProviderInv => /\ ActiveIdsAccounted /\ PendingOnCurrentHandle
                     /\ FB!ActiveIdsAccounted /\ FB!PendingOnCurrentHandle
  BY RingInvImplies, Zenon DEF ProviderInv, Inv
<1> QED BY <1>1, ProviderInvariance, PTL

\* The virtual backend, and the epoll and kqueue backends around it, with
\* registrations taken back, descriptors lost and polls cut short, implement
\* the operation contract.
THEOREM ProvidersRefine == P!ProviderSpec => ImplementsContract
<1>1. P!ProviderInit => Contract!Init
  BY ContractInit, Zenon DEF P!ProviderInit, P!Init, Init
<1>2. ProviderInv /\ ProviderInv' /\ [P!ProviderNext]_<<scenario, P!vars, P!kernelVars, P!ringVars>>
        => [Contract!Next]_Status
  BY ScenarioSteps, CallRefines, Zenon DEF ProviderInv
<1> QED BY <1>1, <1>2, ProviderInvariance, PTL DEF P!ProviderSpec, ImplementsContract, Contract!Spec

==============================================================================
