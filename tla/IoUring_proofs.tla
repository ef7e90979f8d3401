--------------------------- MODULE IoUring_proofs ---------------------------
(***************************************************************************)
(* For every set of handles and ids and every batch limit: the types of    *)
(* io_uring_backend, that every active id is in exactly one of its three   *)
(* containers while the kernel and the completion ring refer to exactly    *)
(* the operations that are kept, and that the backend implements the       *)
(* operation contract.                                                     *)
(***************************************************************************)
EXTENDS IoUring, FiniteSetTheorems, TLAPS

------------------------------------------------------------------------------
(* Sequences of records with an id. *)

\* A listing of the positions K names each of them once.
LEMMA ListingFacts ==
  ASSUME NEW n \in Nat, NEW K \in SUBSET (1..n), NEW f \in InOrder(K)
  PROVE  /\ Cardinality(K) \in Nat
         /\ DOMAIN f = 1..Cardinality(K)
         /\ \A m \in DOMAIN f : f[m] \in K
         /\ \A i, j \in DOMAIN f : f[i] = f[j] => i = j
         /\ {f[m] : m \in DOMAIN f} = K
<1>1. IsFiniteSet(K)
  <2>1. IsFiniteSet(1..n)
    BY FS_Interval, 1 \in Int, n \in Int, Zenon
  <2> QED BY <2>1, FS_Subset, Zenon
<1>2. Cardinality(K) \in Nat
  BY <1>1, FS_CardinalityType, Zenon
<1>3. DOMAIN f = 1..Cardinality(K) /\ \A m \in DOMAIN f : f[m] \in K
  BY Zenon DEF InOrder
<1>4. \A i, j \in DOMAIN f : f[i] = f[j] => i = j
  <2>1. \A i, j \in 1..Cardinality(K) : i < j => f[i] < f[j]
    BY Zenon DEF InOrder
  <2>2. \A i \in DOMAIN f : f[i] \in Int
    <3>1. K \subseteq Int
      BY 1..n \subseteq Int, Zenon
    <3> QED BY <1>3, <3>1, Zenon
  <2> QED BY <1>2, <1>3, <2>1, <2>2
<1>5. {f[m] : m \in DOMAIN f} = K
  BY <1>3, Zenon DEF InOrder
<1> QED BY <1>2, <1>3, <1>4, <1>5, Zenon

\* t lists, as elements of T, the ids of s at the positions K, front to back.
Picks(t, T, s, S, K) ==
  /\ s \in Seq(S) /\ K \subseteq DOMAIN s
  /\ \E f \in InOrder(K) : t \in [DOMAIN f -> T] /\ \A m \in DOMAIN f : t[m].id = s[f[m]].id

\* What is selected from a listing is selected once each.
LEMMA PickedFacts ==
  ASSUME NEW S, NEW s, NEW K, NEW T, NEW t, Picks(t, T, s, S, K)
  PROVE  /\ t \in Seq(T)
         /\ IdsOf(t) = {s[k].id : k \in K}
         /\ (\A j, k \in K : s[j].id = s[k].id => j = k) => Distinct(t)
<1> PICK f \in InOrder(K) : t \in [DOMAIN f -> T] /\ \A m \in DOMAIN f : t[m].id = s[f[m]].id
  BY Zenon DEF Picks
<1>0. s \in Seq(S) /\ K \subseteq DOMAIN s
  BY Zenon DEF Picks
<1>1. /\ Cardinality(K) \in Nat
      /\ DOMAIN f = 1..Cardinality(K)
      /\ \A m \in DOMAIN f : f[m] \in K
      /\ \A i, j \in DOMAIN f : f[i] = f[j] => i = j
      /\ {f[m] : m \in DOMAIN f} = K
  <2>1. Len(s) \in Nat /\ K \in SUBSET (1..Len(s))
    BY <1>0
  <2> QED BY <2>1, ListingFacts, Zenon
<1>2. DOMAIN t = 1..Cardinality(K)
  BY <1>1, Zenon
<1>3. t \in Seq(T)
  BY <1>1, <1>2
<1>4. IdsOf(t) = {s[k].id : k \in K}
  <2>1. IdsOf(t) = {s[f[m]].id : m \in DOMAIN f}
    <3>1. DOMAIN t = DOMAIN f
      BY <1>1, <1>2, Zenon
    <3> QED BY <3>1, ZenonT(60) DEF IdsOf
  <2> QED BY <1>1, <2>1
<1>5. ASSUME \A j, k \in K : s[j].id = s[k].id => j = k PROVE Distinct(t)
  BY <1>1, <1>2, <1>5 DEF Distinct
<1> QED BY <1>3, <1>4, <1>5, Zenon

\* The elements of s at the positions K are a sequence of their own.
Left(s, f) == [m \in DOMAIN f |-> s[f[m]]]

\* What is left of a listing after a selection was taken out.
LEMMA LeftFacts ==
  ASSUME NEW S, NEW s \in Seq(S), NEW K \in SUBSET DOMAIN s, NEW f \in InOrder(K)
  PROVE  /\ Left(s, f) \in Seq(S)
         /\ IdsOf(Left(s, f)) = {s[k].id : k \in K}
         /\ (\A j, k \in K : s[j].id = s[k].id => j = k) => Distinct(Left(s, f))
<1> DEFINE t == Left(s, f)
<1>1. \A m \in DOMAIN f : f[m] \in DOMAIN s
  BY Zenon DEF InOrder
<1>2. t \in [DOMAIN f -> S] /\ \A m \in DOMAIN f : t[m].id = s[f[m]].id
  BY <1>1 DEF Left
<1> HIDE DEF t
<1>3. /\ Cardinality(K) \in Nat
      /\ DOMAIN f = 1..Cardinality(K)
      /\ \A m \in DOMAIN f : f[m] \in K
      /\ \A i, j \in DOMAIN f : f[i] = f[j] => i = j
      /\ {f[m] : m \in DOMAIN f} = K
  <2>1. Len(s) \in Nat /\ K \in SUBSET (1..Len(s))
    OBVIOUS
  <2> QED BY <2>1, ListingFacts, Zenon
<1>4. t \in Seq(S)
  BY <1>2, <1>3
<1>5. IdsOf(t) = {s[k].id : k \in K}
  <2>1. IdsOf(t) = {s[f[m]].id : m \in DOMAIN f}
    BY <1>2, ZenonT(60) DEF IdsOf
  <2> QED BY <1>3, <2>1
<1>6. ASSUME \A j, k \in K : s[j].id = s[k].id => j = k PROVE Distinct(t)
  BY <1>2, <1>3, <1>6 DEF Distinct
<1> QED BY <1>4, <1>5, <1>6, Zenon DEF t

\* Concatenation unites the ids.
LEMMA ConcatFacts ==
  ASSUME NEW T, NEW s \in Seq(T), NEW t \in Seq(T)
  PROVE  /\ s \o t \in Seq(T)
         /\ IdsOf(s \o t) = IdsOf(s) \cup IdsOf(t)
         /\ \A n \in DOMAIN s : n \in DOMAIN (s \o t) /\ (s \o t)[n] = s[n]
         /\ Distinct(s) /\ Distinct(t) /\ IdsOf(s) \cap IdsOf(t) = {} => Distinct(s \o t)
<1> DEFINE u == s \o t
<1>1. /\ u \in Seq(T) /\ Len(s) \in Nat /\ Len(t) \in Nat
      /\ DOMAIN u = 1..(Len(s) + Len(t)) /\ DOMAIN s = 1..Len(s) /\ DOMAIN t = 1..Len(t)
      /\ \A n \in 1..Len(s) : u[n] = s[n]
      /\ \A n \in (Len(s) + 1)..(Len(s) + Len(t)) : u[n] = t[n - Len(s)]
  OBVIOUS
<1> HIDE DEF u
<1>2. \A n \in DOMAIN t : n + Len(s) \in DOMAIN u /\ u[n + Len(s)] = t[n]
  BY <1>1
<1>3. \A n \in DOMAIN u : n \in DOMAIN s \/ n - Len(s) \in DOMAIN t
  BY <1>1
<1>4. \A n \in DOMAIN s : n \in DOMAIN u
  BY <1>1
<1>5. \A n \in DOMAIN u : n \notin DOMAIN s => u[n] = t[n - Len(s)] /\ n \in Int
  BY <1>1
<1>6. IdsOf(u) = IdsOf(s) \cup IdsOf(t)
  <2>1. IdsOf(u) \subseteq IdsOf(s) \cup IdsOf(t)
    <3> SUFFICES ASSUME NEW n \in DOMAIN u PROVE u[n].id \in IdsOf(s) \cup IdsOf(t)
      BY Zenon DEF IdsOf
    <3>1. CASE n \in DOMAIN s
      BY <3>1, <1>1, Zenon DEF IdsOf
    <3>2. CASE n \notin DOMAIN s
      BY <3>2, <1>3, <1>5, Zenon DEF IdsOf
    <3> QED BY <3>1, <3>2, Zenon
  <2>2. IdsOf(s) \subseteq IdsOf(u)
    <3> SUFFICES ASSUME NEW n \in DOMAIN s PROVE s[n].id \in IdsOf(u)
      BY Zenon DEF IdsOf
    <3>1. n \in DOMAIN u /\ u[n] = s[n]
      BY <1>1, <1>4, Zenon
    <3> QED BY <3>1, Zenon DEF IdsOf
  <2>3. IdsOf(t) \subseteq IdsOf(u)
    <3> SUFFICES ASSUME NEW n \in DOMAIN t PROVE t[n].id \in IdsOf(u)
      BY Zenon DEF IdsOf
    <3> QED BY <1>2, Zenon DEF IdsOf
  <2> QED BY <2>1, <2>2, <2>3, Zenon
<1>7. ASSUME Distinct(s), Distinct(t), IdsOf(s) \cap IdsOf(t) = {} PROVE Distinct(u)
  <2> SUFFICES ASSUME NEW a \in DOMAIN u, NEW b \in DOMAIN u, u[a].id = u[b].id PROVE a = b
    BY Zenon DEF Distinct
  <2>1. CASE a \in DOMAIN s /\ b \in DOMAIN s
    BY <2>1, <1>1, <1>7, Zenon DEF Distinct
  <2>2. CASE a \notin DOMAIN s /\ b \notin DOMAIN s
    <3>1. a - Len(s) = b - Len(s)
      BY <2>2, <1>3, <1>5, <1>7, Zenon DEF Distinct
    <3> QED BY <3>1, <2>2, <1>1, <1>5
  <2>3. ASSUME NEW x \in DOMAIN s, NEW y \in DOMAIN u, y \notin DOMAIN s PROVE u[x].id # u[y].id
    <3>1. u[x].id \in IdsOf(s)
      BY <1>1, Zenon DEF IdsOf
    <3>2. u[y].id \in IdsOf(t)
      BY <2>3, <1>3, <1>5, Zenon DEF IdsOf
    <3> QED BY <3>1, <3>2, <1>7, Zenon
  <2> QED BY <2>1, <2>2, <2>3, Zenon
<1>8. \A n \in DOMAIN s : n \in DOMAIN u /\ u[n] = s[n]
  BY <1>1, <1>4, Zenon
<1> QED BY <1>1, <1>6, <1>7, <1>8, Zenon DEF u

\* What is left of a sequence without its first n elements.
Rest(s, n) == SubSeq(s, n + 1, Len(s))

\* What is left of a listing after its first n entries were drained.
LEMMA SuffixFacts ==
  ASSUME NEW T, NEW s \in Seq(T), NEW n \in 0..Len(s)
  PROVE  /\ Rest(s, n) \in Seq(T) /\ Len(Rest(s, n)) = Len(s) - n
         /\ DOMAIN Rest(s, n) = 1..(Len(s) - n)
         /\ \A k \in DOMAIN Rest(s, n) : k + n \in (n + 1)..Len(s) /\ Rest(s, n)[k] = s[k + n]
         /\ \A k \in (n + 1)..Len(s) : k - n \in DOMAIN Rest(s, n) /\ Rest(s, n)[k - n] = s[k]
         /\ Distinct(s) => /\ Distinct(Rest(s, n))
                           /\ IdsOf(Rest(s, n)) = IdsOf(s) \ {s[k].id : k \in 1..n}
<1> DEFINE u == Rest(s, n)
<1>1. /\ u \in Seq(T) /\ Len(u) = Len(s) - n /\ DOMAIN u = 1..(Len(s) - n)
      /\ Len(s) \in Nat /\ n \in Nat /\ DOMAIN s = 1..Len(s)
      /\ \A k \in DOMAIN u : u[k] = s[k + n]
  BY DEF Rest
<1> HIDE DEF u
<1>0. \A L, m \in Nat :
        /\ \A k \in 1..(L - m) : k + m \in (m + 1)..L /\ k + m \in 1..L /\ k \in Int
        /\ \A k \in (m + 1)..L : k - m \in 1..(L - m) /\ (k - m) + m = k /\ k \in Int
        /\ \A k \in 1..L : k \notin 1..m => k \in (m + 1)..L
  OBVIOUS
<1>2. \A k \in DOMAIN u : k + n \in (n + 1)..Len(s)
  BY <1>0, <1>1, Zenon
<1>3. \A k \in (n + 1)..Len(s) : k - n \in DOMAIN u /\ (k - n) + n = k /\ k \in Int
  <2>1. \A k \in (n + 1)..Len(s) : k - n \in 1..(Len(s) - n) /\ (k - n) + n = k /\ k \in Int
    BY ONLY <1>0, <1>1, Zenon
  <2>2. DOMAIN u = 1..(Len(s) - n)
    BY <1>1, Zenon
  <2> QED BY ONLY <2>1, <2>2, Zenon
<1>4. \A k \in (n + 1)..Len(s) : u[k - n] = s[k]
  <2> SUFFICES ASSUME NEW k \in (n + 1)..Len(s) PROVE u[k - n] = s[k]
    BY Zenon
  <2> DEFINE j == k - n
  <2>1. j \in DOMAIN u /\ j + n = k
    BY <1>3, Zenon
  <2> HIDE DEF j
  <2>2. u[j] = s[j + n]
    BY ONLY <2>1, <1>1, Zenon
  <2>3. u[j] = s[k]
    BY ONLY <2>1, <2>2, Zenon
  <2> QED BY <2>3, Zenon DEF j
<1>5. IdsOf(u) = {s[k].id : k \in (n + 1)..Len(s)}
  <2>1. IdsOf(u) \subseteq {s[k].id : k \in (n + 1)..Len(s)}
    BY <1>1, <1>2, Zenon DEF IdsOf
  <2>2. {s[k].id : k \in (n + 1)..Len(s)} \subseteq IdsOf(u)
    BY <1>3, <1>4, ZenonT(60) DEF IdsOf
  <2> QED BY <2>1, <2>2, Zenon
<1>6. ASSUME Distinct(s) PROVE Distinct(u) /\ IdsOf(u) = IdsOf(s) \ {s[k].id : k \in 1..n}
  <2>1. \A j, k \in 1..Len(s) : s[j].id = s[k].id => j = k
    BY <1>1, <1>6, Zenon DEF Distinct
  <2>2. Distinct(u)
    <3> SUFFICES ASSUME NEW a \in DOMAIN u, NEW b \in DOMAIN u, u[a].id = u[b].id PROVE a = b
      BY Zenon DEF Distinct
    <3>1. a + n \in 1..Len(s) /\ b + n \in 1..Len(s) /\ a \in Int /\ b \in Int
      BY <1>0, <1>1, Zenon
    <3>2. a + n = b + n
      BY <3>1, <1>1, <2>1, Zenon
    <3> QED BY ONLY <3>1, <3>2, n \in Nat, <1>1
  <2>3. {s[k].id : k \in (n + 1)..Len(s)} = {s[k].id : k \in 1..Len(s)} \ {s[k].id : k \in 1..n}
    <3>1. ASSUME NEW k \in (n + 1)..Len(s)
          PROVE  k \in 1..Len(s) /\ s[k].id \notin {s[j].id : j \in 1..n}
      <4>1. k \in 1..Len(s) /\ \A j \in 1..n : j \in 1..Len(s) /\ j # k
        BY ONLY Len(s) \in Nat, n \in 0..Len(s), k \in (n + 1)..Len(s)
      <4> QED BY ONLY <4>1, <2>1, Zenon
    <3>2. ASSUME NEW k \in 1..Len(s), k \notin 1..n PROVE k \in (n + 1)..Len(s)
      BY <1>0, <1>1, <3>2, Zenon
    <3> QED BY <3>1, <3>2, Zenon
  <2> QED BY <1>1, <1>5, <2>2, <2>3, Zenon DEF IdsOf
<1> QED BY <1>1, <1>2, <1>3, <1>4, <1>6, Zenon DEF u

------------------------------------------------------------------------------
(* The ids that moved in one call. *)

Queued == [id : Ids, token : Token]
Unfinished == IdsOf(queue) \cup kops

\* The ids of S got their completions, behind the ones that were there.
Completes(S) ==
  /\ IdsOf(completions') = IdsOf(completions) \cup S
  /\ \A n \in DOMAIN completions : n \in DOMAIN completions' /\ completions'[n] = completions[n]

\* What a position of the completion ring holds.
LEMMA CqeFacts ==
  ASSUME NEW c \in Cqe
  PROVE  c.id \in Ids /\ (c.kind = "operation" => c.res \in {"ok", "error", "ecanceled"})
BY Zenon DEF Cqe

\* complete_queued_operations moves the selected entries and only those.
LEMMA CompleteQueuedMoves ==
  ASSUME TypeOK, OperationsAccounted, NEW K \in SUBSET DOMAIN queue, NEW r \in Result,
         CompleteQueued(K, r)
  PROVE  /\ queue' \in Seq(Queued) /\ Len(queue') <= QueueCapacity
         /\ completions' \in Seq(Completion)
         /\ {queue[k].id : k \in K} \subseteq IdsOf(queue)
         /\ IdsOf(queue') = IdsOf(queue) \ {queue[k].id : k \in K}
         /\ Distinct(queue') /\ Distinct(completions')
         /\ Completes({queue[k].id : k \in K})
<1> DEFINE S == {queue[k].id : k \in K}
           R == DOMAIN queue \ K
<1>1. queue \in Seq(Queued) /\ completions \in Seq(Completion)
  BY Zenon DEF TypeOK, Queued
<1>2. PICK done \in InOrder(K), rest \in InOrder(R) :
         /\ completions' = completions \o [n \in DOMAIN done |-> [id |-> queue[done[n]].id, result |-> r]]
         /\ queue' = [n \in DOMAIN rest |-> queue[rest[n]]]
  BY Zenon DEF CompleteQueued
<1>3. \A k \in DOMAIN queue : queue[k] \in Queued /\ queue[k].id \in Ids
  <2>1. \A k \in DOMAIN queue : queue[k] \in Queued
    BY <1>1
  <2> QED BY <2>1, Zenon DEF Queued
<1>4. Distinct(queue) /\ Distinct(completions) /\ IdsOf(queue) \cap IdsOf(completions) = {}
  BY Zenon DEF OperationsAccounted
<1>5. (\A m \in DOMAIN done : done[m] \in K) /\ (\A m \in DOMAIN rest : rest[m] \in R)
  BY Zenon DEF InOrder
<1> DEFINE C == [n \in DOMAIN done |-> [id |-> queue[done[n]].id, result |-> r]]
<1>6. C \in Seq(Completion) /\ IdsOf(C) = S /\ Distinct(C)
  <2>1. C \in [DOMAIN done -> Completion]
    BY <1>3, <1>5, Zenon DEF Completion
  <2>2. Picks(C, Completion, queue, Queued, K)
    <3>1. \A m \in DOMAIN done : C[m].id = queue[done[m]].id
      BY Zenon
    <3> HIDE DEF C
    <3> QED BY <1>1, <2>1, <3>1, Zenon DEF Picks
  <2>3. \A j, k \in K : queue[j].id = queue[k].id => j = k
    BY <1>4, Zenon DEF Distinct
  <2> HIDE DEF C
  <2>5. /\ C \in Seq(Completion)
        /\ IdsOf(C) = {queue[k].id : k \in K}
        /\ (\A j, k \in K : queue[j].id = queue[k].id => j = k) => Distinct(C)
    BY ONLY <2>2, PickedFacts
  <2> QED BY <2>3, <2>5, Zenon
<1>7. queue' \in Seq(Queued) /\ IdsOf(queue') = {queue[k].id : k \in R} /\ Distinct(queue')
  <2>1. \A j, k \in R : queue[j].id = queue[k].id => j = k
    BY <1>4, Zenon DEF Distinct
  <2>2. R \in SUBSET DOMAIN queue
    BY Zenon
  <2> HIDE DEF R
  <2>3. queue' = Left(queue, rest)
    BY <1>2, Zenon DEF Left
  <2>4. /\ Left(queue, rest) \in Seq(Queued)
        /\ IdsOf(Left(queue, rest)) = {queue[k].id : k \in R}
        /\ (\A j, k \in R : queue[j].id = queue[k].id => j = k) => Distinct(Left(queue, rest))
    BY <1>1, <2>2, LeftFacts, Zenon
  <2> QED BY <2>1, <2>3, <2>4, Zenon
<1>8. {queue[k].id : k \in R} = IdsOf(queue) \ S /\ S \subseteq IdsOf(queue)
  BY <1>4 DEF IdsOf, Distinct
<1>9. Len(queue') <= QueueCapacity
  <2>1. Len(queue) \in Nat /\ DOMAIN queue = 1..Len(queue) /\ Len(queue) <= QueueCapacity
    BY <1>1 DEF TypeOK
  <2>2. IsFiniteSet(1..Len(queue)) /\ Cardinality(1..Len(queue)) = Len(queue)
    BY <2>1, FS_Interval, 1 \in Int, SMTT(60)
  <2>3. Cardinality(R) \in Nat /\ Cardinality(R) <= Len(queue)
    <3>1. R \in SUBSET (1..Len(queue))
      BY <2>1, Zenon
    <3> HIDE DEF R
    <3> QED BY <2>2, <3>1, FS_Subset, FS_CardinalityType, Zenon
  <2>4. DOMAIN queue' = 1..Cardinality(R)
    BY <1>2, Zenon DEF InOrder
  <2>5. Len(queue') = Cardinality(R)
    <3> HIDE DEF R
    <3> QED BY <1>7, <2>3, <2>4
  <2> QED BY <2>1, <2>3, <2>5, IoUringConstants
<1>10. completions' \in Seq(Completion) /\ Distinct(completions') /\ Completes(S)
  <2>1. completions' = completions \o C
    BY <1>2, Zenon
  <2>2. IdsOf(completions) \cap IdsOf(C) = {}
    BY <1>4, <1>6, <1>8, Zenon
  <2> HIDE DEF C, S
  <2> QED BY <1>1, <1>4, <1>6, <2>1, <2>2, ConcatFacts DEF Completes
<1> QED BY <1>7, <1>8, <1>9, <1>10, Zenon

\* flush_submission_batch takes a prefix of the queue: the entries the kernel
\* accepted are in kernel_operations_, the refused ones have completed.
LEMMA FlushMoves ==
  ASSUME TypeOK, OperationsAccounted, NEW n, n \in 0..Len(queue), NEW F, F \subseteq 1..n,
         Flush(n, F)
  PROVE  \E ids, refused \in SUBSET Ids :
           /\ queue' \in Seq(Queued) /\ Len(queue') <= QueueCapacity
           /\ completions' \in Seq(Completion)
           /\ ids \cup refused \subseteq IdsOf(queue) /\ ids \cap refused = {}
           /\ IdsOf(queue') = IdsOf(queue) \ (ids \cup refused)
           /\ Distinct(queue') /\ Distinct(completions')
           /\ kops' = kops \cup ids /\ token' \in [kops \cup ids -> Token]
           /\ running' = running \cup ids
           /\ Completes(refused)
<1> DEFINE ids == {queue[k].id : k \in (1..n) \ F}
           refused == {queue[k].id : k \in F}
<1>1. queue \in Seq(Queued) /\ completions \in Seq(Completion)
  BY Zenon DEF TypeOK, Queued
<1>2. \A k \in DOMAIN queue : queue[k] \in Queued /\ queue[k].id \in Ids /\ queue[k].token \in Token
  <2>1. \A k \in DOMAIN queue : queue[k] \in Queued
    BY <1>1
  <2> QED BY <2>1, Zenon DEF Queued
<1>3. Distinct(queue) /\ Distinct(completions) /\ IdsOf(queue) \cap IdsOf(completions) = {}
  BY Zenon DEF OperationsAccounted
<1>4. 1..n \subseteq DOMAIN queue /\ Len(queue) \in Nat /\ n \in Nat /\ Len(queue) - n <= Len(queue)
  BY <1>1
<1>5. \A j, k \in 1..n : queue[j].id = queue[k].id => j = k
  BY <1>3, <1>4, Zenon DEF Distinct
<1>6. /\ ids \cup refused = {queue[k].id : k \in 1..n} /\ ids \cap refused = {}
      /\ ids \cup refused \subseteq IdsOf(queue) /\ ids \subseteq Ids /\ refused \subseteq Ids
  <2>1. ids \cup refused = {queue[k].id : k \in 1..n}
    BY Zenon
  <2>2. ids \cap refused = {}
    BY <1>5, Zenon
  <2>3. ids \cup refused \subseteq IdsOf(queue)
    BY <1>4, <2>1, Zenon DEF IdsOf
  <2>4. ids \subseteq Ids /\ refused \subseteq Ids
    BY <1>2, <1>4, Zenon
  <2> QED BY <2>1, <2>2, <2>3, <2>4, Zenon
<1>7. /\ queue' \in Seq(Queued) /\ Len(queue') <= QueueCapacity
      /\ IdsOf(queue') = IdsOf(queue) \ (ids \cup refused) /\ Distinct(queue')
  <2>1. queue' = Rest(queue, n)
    BY Zenon DEF Flush, Rest
  <2>2. /\ Rest(queue, n) \in Seq(Queued) /\ Len(Rest(queue, n)) = Len(queue) - n
        /\ Distinct(queue) => /\ Distinct(Rest(queue, n))
                              /\ IdsOf(Rest(queue, n)) = IdsOf(queue) \ {queue[k].id : k \in 1..n}
    BY <1>1, SuffixFacts
  <2>3. Len(queue) <= QueueCapacity /\ QueueCapacity \in Nat
    BY IoUringConstants, Zenon DEF TypeOK
  <2>4. Len(queue') <= QueueCapacity
    BY <1>4, <2>1, <2>2, <2>3
  <2> QED BY <1>3, <1>6, <2>1, <2>2, <2>4, Zenon
<1>8. running' = running \cup ids /\ kops' = kops \cup ids /\ token' \in [kops \cup ids -> Token]
  <2> DEFINE taken == (1..n) \ F
             own(i) == queue[CHOOSE k \in taken : queue[k].id = i].token
  <2>1. /\ running' = running \cup ids
        /\ token' = [i \in kops \cup ids |-> IF i \in ids THEN own(i) ELSE token[i]]
    BY Zenon DEF Flush
  <2>2. \A i \in ids : own(i) \in Token
    <3> SUFFICES ASSUME NEW i \in ids PROVE own(i) \in Token
      BY Zenon
    <3>1. \E k \in taken : queue[k].id = i
      BY Zenon
    <3>2. (CHOOSE k \in taken : queue[k].id = i) \in taken
      BY <3>1, Zenon
    <3>3. taken \subseteq DOMAIN queue
      BY <1>4, Zenon
    <3> QED BY <1>2, <3>2, <3>3, Zenon
  <2>3. \A i \in kops : token[i] \in Token
    BY Zenon DEF TypeOK
  <2> HIDE DEF own
  <2> QED BY <2>1, <2>2, <2>3, Zenon DEF kops
<1>9. completions' \in Seq(Completion) /\ Distinct(completions') /\ Completes(refused)
  <2>1. PICK order \in InOrder(F) :
          completions' = completions \o [k \in DOMAIN order |->
             [id |-> queue[order[k]].id,
              result |-> IF IsCurrent(queue[order[k]].token) THEN "error" ELSE "closed"]]
    BY Zenon DEF Flush
  <2> DEFINE C == [k \in DOMAIN order |->
             [id |-> queue[order[k]].id,
              result |-> IF IsCurrent(queue[order[k]].token) THEN "error" ELSE "closed"]]
  <2>2. \A m \in DOMAIN order : order[m] \in F
    BY Zenon DEF InOrder
  <2>3. C \in [DOMAIN order -> Completion]
    <3>1. F \subseteq DOMAIN queue
      BY <1>4, Zenon
    <3> QED BY <1>2, <2>2, <3>1, Zenon DEF Completion, Result
  <2>4. Picks(C, Completion, queue, Queued, F)
    <3>1. \A m \in DOMAIN order : C[m].id = queue[order[m]].id
      BY Zenon
    <3>2. queue \in Seq(Queued) /\ F \subseteq DOMAIN queue
      BY <1>1, <1>4, Zenon
    <3> HIDE DEF C
    <3> QED BY <2>3, <3>1, <3>2, Zenon DEF Picks
  <2>6. completions' = completions \o C
    BY <2>1, Zenon
  <2> HIDE DEF C
  <2>7. /\ C \in Seq(Completion)
        /\ IdsOf(C) = {queue[k].id : k \in F}
        /\ (\A j, k \in F : queue[j].id = queue[k].id => j = k) => Distinct(C)
    BY ONLY <2>4, PickedFacts
  <2>8. Distinct(C) /\ IdsOf(C) = refused
    BY <1>5, <2>7, Zenon
  <2>9. IdsOf(completions) \cap IdsOf(C) = {}
    BY <1>3, <1>6, <2>8, Zenon
  <2> HIDE DEF ids, refused
  <2> QED BY <1>1, <1>3, <2>6, <2>7, <2>8, <2>9, ConcatFacts DEF Completes
<1> HIDE DEF ids, refused
<1> QED BY <1>6, <1>7, <1>8, <1>9, Zenon

\* The result recorded for an operation of the kernel is a terminal result.
LEMMA ResultFacts ==
  ASSUME TypeOK, NEW i \in Ids, NEW res \in {"ok", "error", "ecanceled"}
  PROVE  CompletionResultFor(i, res) \in Result
<1>1. reason[i] \in Reasons \cup {"none"}
  BY Zenon DEF TypeOK
<1> QED BY <1>1, Zenon DEF CompletionResultFor, KernelResult, Result

\* The ring after m of its entries were taken.
LEMMA RingFacts ==
  ASSUME TypeOK, OperationsAccounted, NEW m, m \in 0..Len(cq), cq' = SubSeq(cq, m + 1, Len(cq)),
         NEW done, done = {cq[k].id : k \in {j \in 1..m : cq[j].kind = "operation"}}
  PROVE  /\ cq' \in Seq(Cqe) /\ done \subseteq Posted
         /\ Posted' = Posted \ done
         /\ \A j, k \in PostedAt' : cq'[j].id = cq'[k].id => j = k
<1>1. cq \in Seq(Cqe) /\ cq' = Rest(cq, m)
  BY Zenon DEF TypeOK, Rest
<1>2. /\ Rest(cq, m) \in Seq(Cqe) /\ DOMAIN Rest(cq, m) = 1..(Len(cq) - m)
      /\ \A k \in DOMAIN Rest(cq, m) : k + m \in (m + 1)..Len(cq) /\ Rest(cq, m)[k] = cq[k + m]
      /\ \A k \in (m + 1)..Len(cq) : k - m \in DOMAIN Rest(cq, m) /\ Rest(cq, m)[k - m] = cq[k]
  BY <1>1, SuffixFacts, ZenonT(30)
<1>3. /\ cq' \in Seq(Cqe) /\ DOMAIN cq' = 1..(Len(cq) - m)
      /\ \A k \in DOMAIN cq' : k + m \in (m + 1)..Len(cq) /\ cq'[k] = cq[k + m]
      /\ \A k \in (m + 1)..Len(cq) : k - m \in DOMAIN cq' /\ cq'[k - m] = cq[k]
  BY <1>1, <1>2, Zenon
<1>4. Len(cq) \in Nat /\ m \in Nat /\ m <= Len(cq) /\ DOMAIN cq = 1..Len(cq)
  BY <1>1
<1>5. \A j, k \in PostedAt : cq[j].id = cq[k].id => j = k
  BY Zenon DEF OperationsAccounted
<1>6. PostedAt' = {k \in DOMAIN cq' : cq'[k].kind = "operation"}
  BY Zenon DEF PostedAt
<1>7. \A k \in PostedAt' : k + m \in PostedAt /\ k + m > m /\ cq'[k] = cq[k + m] /\ k \in Int
  <2> SUFFICES ASSUME NEW k \in DOMAIN cq', cq'[k].kind = "operation"
               PROVE  k + m \in PostedAt /\ k + m > m /\ cq'[k] = cq[k + m] /\ k \in Int
    BY <1>6, Zenon
  <2>1. k + m \in (m + 1)..Len(cq) /\ cq'[k] = cq[k + m]
    BY <1>3, Zenon
  <2>2. k \in 1..(Len(cq) - m)
    BY <1>3, Zenon
  <2>3. k \in Int /\ k + m \in 1..Len(cq) /\ k + m > m
    BY <2>2, <1>4
  <2>4. k + m \in DOMAIN cq
    BY <2>3, <1>4, Zenon
  <2> QED BY <2>1, <2>3, <2>4, Zenon DEF PostedAt
<1>8. \A j, k \in PostedAt' : cq'[j].id = cq'[k].id => j = k
  <2> SUFFICES ASSUME NEW j \in PostedAt', NEW k \in PostedAt', cq'[j].id = cq'[k].id
               PROVE  j = k
    BY Zenon
  <2>1. j + m = k + m
    BY <1>5, <1>7, Zenon
  <2> QED BY <2>1, <1>4, <1>7
<1>9. done \subseteq Posted
  BY <1>4 DEF Posted, PostedAt
<1>10. Posted' = {cq'[k].id : k \in PostedAt'}
  BY Zenon DEF Posted
<1>11. Posted' \subseteq Posted \ done
  <2> SUFFICES ASSUME NEW k \in PostedAt' PROVE cq'[k].id \in Posted \ done
    BY <1>10, Zenon
  <2>1. k + m \in PostedAt /\ k + m > m /\ cq'[k] = cq[k + m] /\ k \in Int
    BY <1>7, Zenon
  <2>2. cq'[k].id \in Posted
    BY <2>1, Zenon DEF Posted
  <2>3. ASSUME NEW j \in 1..m, cq[j].kind = "operation" PROVE cq[j].id # cq[k + m].id
    <3>1. j \in PostedAt
      BY <1>4, <2>3 DEF PostedAt
    <3>2. j # k + m
      BY <1>4, <2>1, <2>3
    <3> QED BY <1>5, <2>1, <3>1, <3>2, Zenon
  <2> QED BY <2>1, <2>2, <2>3, Zenon
<1>12. Posted \ done \subseteq Posted'
  <2> SUFFICES ASSUME NEW k \in PostedAt, cq[k].id \notin done PROVE cq[k].id \in Posted'
    BY Zenon DEF Posted
  <2>1. k \in 1..Len(cq) /\ cq[k].kind = "operation"
    BY <1>4, Zenon DEF PostedAt
  <2>2. k \notin 1..m
    BY <2>1, Zenon
  <2>3. k \in (m + 1)..Len(cq)
    BY <1>4, <2>1, <2>2
  <2>4. k - m \in DOMAIN cq' /\ cq'[k - m] = cq[k]
    BY <1>3, <2>3, Zenon
  <2>5. k - m \in PostedAt'
    BY <1>6, <2>1, <2>4, Zenon
  <2> QED BY <1>10, <2>4, <2>5, Zenon
<1> QED BY <1>3, <1>8, <1>9, <1>11, <1>12, Zenon

\* observe_kernel_completions: the operations whose CQE was taken have left
\* kernel_operations_ together with their flags, and have completed.
LEMMA PollDrainMoves ==
  ASSUME TypeOK, OperationsAccounted, PollDrain
  PROVE  \E done \in SUBSET kops :
           /\ completions' \in Seq(Completion) /\ Distinct(completions') /\ Completes(done)
           /\ kops' = kops \ done /\ token' \in [kops' -> Token]
           /\ reason' \in [Ids -> Reasons \cup {"none"}]
           /\ {i \in Ids : reason'[i] # "none"} \subseteq kops'
           /\ closing' \cup requested' \cup inFlight' \subseteq kops' /\ cancelIds' \subseteq Ids
           /\ cq' \in Seq(Cqe) /\ done \subseteq Posted /\ Posted' = Posted \ done
           /\ \A j, k \in PostedAt' : cq'[j].id = cq'[k].id => j = k
<1> DEFINE m == IF CompletionBatch < Len(cq) THEN CompletionBatch ELSE Len(cq)
           O == {k \in 1..m : cq[k].kind = "operation"}
           done == {cq[k].id : k \in O}
           acked == {cq[k].id : k \in {j \in 1..m : cq[j].kind = "cancel"}}
<1>1. cq \in Seq(Cqe) /\ completions \in Seq(Completion)
  BY Zenon DEF TypeOK
<1>2. m \in 0..Len(cq) /\ 1..m \subseteq DOMAIN cq
  BY <1>1, IoUringConstants
<1>3. \A k \in DOMAIN cq : cq[k].id \in Ids /\ (cq[k].kind = "operation" => cq[k].res \in {"ok", "error", "ecanceled"})
  BY <1>1, CqeFacts
<1>4. \A k \in O : k \in DOMAIN cq /\ cq[k].kind = "operation" /\ cq[k].id \in Posted
  BY <1>2, Zenon DEF Posted, PostedAt
<1>5. Posted \subseteq kops
  BY Zenon DEF OperationsAccounted
<1>6. O = {k \in 1..m : cq[k].kind = "operation" /\ cq[k].id \in kops}
  BY <1>4, <1>5, Zenon
<1> HIDE DEF m
<1>7. /\ cq' = SubSeq(cq, m + 1, Len(cq))
      /\ \E order \in InOrder(O) :
           completions' = completions \o [n \in DOMAIN order |->
             [id |-> cq[order[n]].id,
              result |-> CompletionResultFor(cq[order[n]].id, cq[order[n]].res)]]
      /\ token' = [i \in kops \ done |-> token[i]]
      /\ reason' = [i \in Ids |-> IF i \in done THEN "none" ELSE reason[i]]
      /\ closing' = closing \ done
      /\ requested' = requested \ done
      /\ inFlight' = inFlight \ (done \cup acked)
      /\ cancelIds' = cancelIds \ acked
  <2> HIDE DEF O
  <2> QED BY <1>6, Zenon DEF PollDrain, m
<1>8. /\ cq' \in Seq(Cqe) /\ done \subseteq Posted /\ Posted' = Posted \ done
      /\ \A j, k \in PostedAt' : cq'[j].id = cq'[k].id => j = k
  BY <1>2, <1>7, RingFacts, Zenon
<1>9. completions' \in Seq(Completion) /\ Distinct(completions') /\ Completes(done)
  <2>1. PICK order \in InOrder(O) :
           completions' = completions \o [n \in DOMAIN order |->
             [id |-> cq[order[n]].id,
              result |-> CompletionResultFor(cq[order[n]].id, cq[order[n]].res)]]
    BY <1>7, Zenon
  <2> DEFINE C == [n \in DOMAIN order |->
             [id |-> cq[order[n]].id,
              result |-> CompletionResultFor(cq[order[n]].id, cq[order[n]].res)]]
  <2>2. \A n \in DOMAIN order : order[n] \in O
    BY Zenon DEF InOrder
  <2>3. C \in [DOMAIN order -> Completion]
    <3>1. \A k \in O : cq[k].id \in Ids /\ cq[k].res \in {"ok", "error", "ecanceled"}
      BY <1>3, <1>4, Zenon
    <3>2. \A k \in O : CompletionResultFor(cq[k].id, cq[k].res) \in Result
      BY <3>1, ResultFacts, Zenon
    <3> HIDE DEF O
    <3> QED BY <2>2, <3>1, <3>2, Zenon DEF Completion
  <2>4. Picks(C, Completion, cq, Cqe, O)
    <3>1. \A n \in DOMAIN order : C[n].id = cq[order[n]].id
      BY Zenon
    <3>2. O \subseteq DOMAIN cq
      BY <1>4, Zenon
    <3> HIDE DEF C, O
    <3> QED BY <1>1, <2>3, <3>1, <3>2, Zenon DEF Picks
  <2>5. \A j, k \in O : cq[j].id = cq[k].id => j = k
    BY <1>4, Zenon DEF OperationsAccounted, PostedAt
  <2>6. completions' = completions \o C
    BY <2>1, Zenon
  <2> HIDE DEF C, O
  <2>7. /\ C \in Seq(Completion)
        /\ IdsOf(C) = {cq[k].id : k \in O}
        /\ (\A j, k \in O : cq[j].id = cq[k].id => j = k) => Distinct(C)
    BY ONLY <2>4, PickedFacts
  <2>8. Distinct(C) /\ IdsOf(C) = done
    BY <2>5, <2>7, Zenon
  <2>9. IdsOf(completions) \cap IdsOf(C) = {} /\ Distinct(completions)
    BY <1>5, <1>8, <2>8, Zenon DEF OperationsAccounted
  <2> QED BY <1>1, <2>6, <2>7, <2>8, <2>9, ConcatFacts DEF Completes
<1> HIDE DEF O, done, acked
<1>10. done \in SUBSET kops
  BY <1>5, <1>8, Zenon
<1>11. kops' = kops \ done /\ token' \in [kops' -> Token]
  BY <1>7, Zenon DEF TypeOK, kops
<1>12. /\ reason' \in [Ids -> Reasons \cup {"none"}]
       /\ {i \in Ids : reason'[i] # "none"} \subseteq kops'
       /\ closing' \cup requested' \cup inFlight' \subseteq kops' /\ cancelIds' \subseteq Ids
  BY <1>7, <1>11, Zenon DEF TypeOK
<1> QED BY <1>8, <1>9, <1>10, <1>11, <1>12, Zenon

------------------------------------------------------------------------------
(* The inductive invariant is OperationsAccounted with the types: that the  *)
(* ids in the three containers are disjoint and the CQEs of operations are  *)
(* distinct is what makes each CQE end exactly one kept operation.          *)

IInv == TypeOK /\ OperationsAccounted

\* The constructor leaves no operation anywhere.
LEMMA InitInv == Init => IInv
<1> SUFFICES ASSUME Init PROVE IInv
  BY Zenon
<1>1. kops = {}
  BY Zenon DEF Init, kops
<1>2. TypeOK
  <2>1. token \in [kops -> Token]
    BY <1>1, Zenon DEF Init, kops
  <2>2. queue \in Seq([id : Ids, token : Token]) /\ Len(queue) <= QueueCapacity
    BY IoUringConstants DEF Init
  <2>3. completions \in Seq(Completion) /\ cq \in Seq(Cqe)
    BY DEF Init
  <2>4. {i \in Ids : reason[i] # "none"} \cup closing \cup requested \cup inFlight = {}
    BY Zenon DEF Init
  <2>5. registry \in [Handles -> [generation : Nat, open : BOOLEAN]] /\ acks \in [Ids -> Nat]
    BY Zenon DEF Init
  <2> QED BY <1>1, <2>1, <2>2, <2>3, <2>4, <2>5, Zenon DEF Init, TypeOK
<1>3. OperationsAccounted
  BY <1>1 DEF Init, OperationsAccounted, IdsOf, Distinct, PostedAt, Posted
<1> QED BY <1>2, <1>3, Zenon DEF IInv

\* Calls that touch no operation.
LEMMA AccountedSame ==
  ASSUME OperationsAccounted, UNCHANGED <<queue, completions, active, token, running, cq>>
  PROVE  OperationsAccounted'
BY DEF OperationsAccounted, IdsOf, Distinct, PostedAt, Posted, kops

\* Cancel requests concern operations the kernel has.
LEMMA RequestCancelsTypes ==
  ASSUME TypeOK, NEW missing, missing \subseteq kops, NEW sent, sent \subseteq missing,
         RequestCancels(missing, sent)
  PROVE  /\ requested' \subseteq kops /\ inFlight' \subseteq kops /\ cancelIds' \subseteq Ids
         /\ cancelled' \subseteq running /\ acks' \in [Ids -> Nat]
<1>1. requested' \subseteq kops /\ inFlight' \subseteq kops /\ cancelIds' \subseteq Ids
  BY Zenon DEF TypeOK, RequestCancels
<1>2. cancelled' \subseteq running
  BY Zenon DEF TypeOK, RequestCancels
<1>3. acks' \in [Ids -> Nat]
  BY DEF TypeOK, RequestCancels
<1> QED BY <1>1, <1>2, <1>3, Zenon

\* submit: a fresh id is appended to the queue.
LEMMA SubmitMoves ==
  ASSUME TypeOK, OperationsAccounted, NEW i \in Ids, NEW t \in CurrentTokens, Submit(i, t)
  PROVE  /\ queue' \in Seq(Queued) /\ Len(queue') <= QueueCapacity
         /\ Distinct(queue') /\ IdsOf(queue') = IdsOf(queue) \cup {i}
         /\ i \notin IdsOf(queue) \cup kops \cup IdsOf(completions)
<1>1. queue \in Seq(Queued) /\ Len(queue) \in Nat /\ Len(queue) < QueueCapacity
  BY DEF TypeOK, Queued, Submit
<1>2. t \in Token
  BY DEF CurrentTokens, Token, TypeOK
<1>3. [id |-> i, token |-> t] \in Queued
  BY <1>2, Zenon DEF Queued
<1>4. i \notin IdsOf(queue) \cup kops \cup IdsOf(completions)
  BY Zenon DEF Submit, OperationsAccounted
<1> DEFINE e == [id |-> i, token |-> t]
<1>5. e.id = i /\ queue' = Append(queue, e)
  BY Zenon DEF Submit
<1> HIDE DEF e
<1>6. /\ queue' \in Seq(Queued) /\ Len(queue') = Len(queue) + 1
      /\ DOMAIN queue' = 1..(Len(queue) + 1) /\ DOMAIN queue = 1..Len(queue)
      /\ queue'[Len(queue) + 1] = e
      /\ \A k \in 1..Len(queue) : queue'[k] = queue[k]
  BY <1>1, <1>3, <1>5 DEF e
<1>7. DOMAIN queue' = DOMAIN queue \cup {Len(queue) + 1}
  BY <1>1, <1>6
<1>8. IdsOf(queue') = IdsOf(queue) \cup {i}
  BY <1>5, <1>6, <1>7 DEF IdsOf
<1>9. Distinct(queue')
  <2>1. \A k \in DOMAIN queue : queue'[k].id # i /\ queue'[k].id = queue[k].id
    BY <1>4, <1>6, Zenon DEF IdsOf
  <2>2. queue'[Len(queue) + 1].id = i
    BY <1>5, <1>6, Zenon
  <2>3. Distinct(queue)
    BY Zenon DEF OperationsAccounted
  <2> QED BY <1>7, <2>1, <2>2, <2>3, Zenon DEF Distinct
<1>10. Len(queue') <= QueueCapacity
  BY <1>1, <1>6, IoUringConstants
<1> QED BY <1>4, <1>6, <1>8, <1>9, <1>10, Zenon

\* drain_completions hands out a prefix of the completion queue.
LEMMA DrainMoves ==
  ASSUME TypeOK, OperationsAccounted, NEW size \in DrainSizes, DrainCompletions(size)
  PROVE  \E count \in 0..Len(completions) :
           /\ completions' \in Seq(Completion) /\ Distinct(completions')
           /\ \A k \in DOMAIN completions' :
                k + count \in DOMAIN completions /\ completions'[k] = completions[k + count]
           /\ IdsOf(completions') = IdsOf(completions) \ {completions[k].id : k \in 1..count}
           /\ active' = active \ {completions[k].id : k \in 1..count}
<1> DEFINE count == IF size < Len(completions) THEN size ELSE Len(completions)
<1>1. completions \in Seq(Completion) /\ Distinct(completions)
  BY Zenon DEF TypeOK, OperationsAccounted
<1>2. count \in 0..Len(completions) /\ Len(completions) \in Nat
  BY <1>1, IoUringConstants
<1>3. /\ completions' = Rest(completions, count)
      /\ active' = active \ {completions[k].id : k \in 1..count}
  BY Zenon DEF DrainCompletions, Rest
<1> HIDE DEF count
<1>4. /\ Rest(completions, count) \in Seq(Completion)
      /\ \A k \in DOMAIN Rest(completions, count) :
           k + count \in (count + 1)..Len(completions) /\ Rest(completions, count)[k] = completions[k + count]
      /\ Distinct(completions) =>
           /\ Distinct(Rest(completions, count))
           /\ IdsOf(Rest(completions, count)) = IdsOf(completions) \ {completions[k].id : k \in 1..count}
  BY <1>1, <1>2, SuffixFacts
<1>5. (count + 1)..Len(completions) \subseteq DOMAIN completions
  BY <1>1, <1>2
<1> QED BY <1>1, <1>2, <1>3, <1>4, <1>5, Zenon

\* The ring after the kernel posted one more entry.
LEMMA PostFacts ==
  ASSUME TypeOK, NEW e \in Cqe, cq' = Append(cq, e)
  PROVE  /\ cq' \in Seq(Cqe)
         /\ \A k \in PostedAt : k \in DOMAIN cq /\ cq'[k] = cq[k]
         /\ e.kind = "operation" =>
              PostedAt' = PostedAt \cup {Len(cq) + 1} /\ cq'[Len(cq) + 1] = e
         /\ e.kind # "operation" => PostedAt' = PostedAt
<1>1. cq \in Seq(Cqe) /\ Len(cq) \in Nat /\ DOMAIN cq = 1..Len(cq)
  BY DEF TypeOK
<1>2. /\ cq' \in Seq(Cqe) /\ DOMAIN cq' = 1..(Len(cq) + 1)
      /\ cq'[Len(cq) + 1] = e /\ \A k \in 1..Len(cq) : cq'[k] = cq[k]
  BY <1>1
<1>3. DOMAIN cq' = DOMAIN cq \cup {Len(cq) + 1}
  BY <1>1, <1>2
<1>4. PostedAt' = {k \in DOMAIN cq' : cq'[k].kind = "operation"}
  BY Zenon DEF PostedAt
<1>5. \A k \in PostedAt : k \in DOMAIN cq /\ cq'[k] = cq[k]
  BY <1>1, <1>2, Zenon DEF PostedAt
<1>6. ASSUME e.kind = "operation" PROVE PostedAt' = PostedAt \cup {Len(cq) + 1}
  BY <1>1, <1>2, <1>3, <1>4, <1>6, Zenon DEF PostedAt
<1>7. ASSUME e.kind # "operation" PROVE PostedAt' = PostedAt
  BY <1>1, <1>2, <1>3, <1>4, <1>7, Zenon DEF PostedAt
<1> QED BY <1>2, <1>5, <1>6, <1>7, Zenon

\* Every call, both halves of poll and every kernel step keep the invariant.
LEMMA StepInv == IInv /\ [Next]_vars => IInv'
<1> SUFFICES ASSUME IInv, [Next]_vars PROVE IInv'
  BY Zenon
<1>0. TypeOK /\ OperationsAccounted
  BY Zenon DEF IInv
<1> USE DEF calls, kernelOps, cancels, resources
<1>1. ASSUME NEW h \in Handles, RegisterHandle(h) PROVE IInv'
  <2>1. registry' \in [Handles -> [generation : Nat, open : BOOLEAN]]
    BY <1>0, <1>1 DEF TypeOK, RegisterHandle
  <2>2. TypeOK'
    BY <1>0, <1>1, <2>1, Zenon DEF TypeOK, RegisterHandle, kops
  <2>3. OperationsAccounted'
    BY <1>0, <1>1, AccountedSame, Zenon DEF RegisterHandle
  <2> QED BY <2>2, <2>3, Zenon DEF IInv
<1>2. ASSUME NEW i \in Ids, NEW t \in CurrentTokens, Submit(i, t) PROVE IInv'
  <2>1. /\ queue' \in Seq(Queued) /\ Len(queue') <= QueueCapacity
        /\ Distinct(queue') /\ IdsOf(queue') = IdsOf(queue) \cup {i}
        /\ i \notin IdsOf(queue) \cup kops \cup IdsOf(completions)
    BY <1>0, <1>2, SubmitMoves, Zenon
  <2>2. TypeOK'
    BY <1>0, <1>2, <2>1, Zenon DEF TypeOK, Submit, kops, Queued
  <2>3. OperationsAccounted'
    <3>1. kops' = kops /\ completions' = completions /\ Posted' = Posted /\ PostedAt' = PostedAt
          /\ cq' = cq /\ running' = running /\ active' = active \cup {i}
      BY <1>2, Zenon DEF Submit, kops, Posted, PostedAt
    <3> QED BY <1>0, <2>1, <3>1, ZenonT(60) DEF OperationsAccounted
  <2> QED BY <2>2, <2>3, Zenon DEF IInv
<1>3. ASSUME NEW i \in Ids, NEW r \in Reasons, CancelQueued(i, r) PROVE IInv'
  <2>1. PICK k \in DOMAIN queue : CompleteQueued({k}, r)
    BY <1>3, Zenon DEF CancelQueued
  <2> DEFINE S == {queue[j].id : j \in {k}}
  <2>2. r \in Result /\ {k} \in SUBSET DOMAIN queue
    BY Zenon DEF Result
  <2>3. /\ queue' \in Seq(Queued) /\ Len(queue') <= QueueCapacity
        /\ completions' \in Seq(Completion)
        /\ S \subseteq IdsOf(queue) /\ IdsOf(queue') = IdsOf(queue) \ S
        /\ Distinct(queue') /\ Distinct(completions') /\ Completes(S)
    BY <1>0, <2>1, <2>2, CompleteQueuedMoves, Zenon
  <2>4. TypeOK'
    BY <1>0, <1>3, <2>3, Zenon DEF TypeOK, CancelQueued, kops, Queued
  <2>5. OperationsAccounted'
    <3>1. kops' = kops /\ Posted' = Posted /\ PostedAt' = PostedAt
          /\ cq' = cq /\ running' = running /\ active' = active
      BY <1>3, Zenon DEF CancelQueued, kops, Posted, PostedAt
    <3> HIDE DEF S
    <3> QED BY <1>0, <2>3, <3>1, Zenon DEF OperationsAccounted, Completes
  <2> QED BY <2>4, <2>5, Zenon DEF IInv
<1>4. ASSUME NEW i \in Ids, NEW r \in Reasons, CancelInKernel(i, r) PROVE IInv'
  <2> DEFINE missing == {i} \ (requested \cup inFlight)
  <2>1. PICK sent \in SUBSET missing : RequestCancels(missing, sent)
    BY <1>4, Zenon DEF CancelInKernel
  <2>2. /\ requested' \subseteq kops /\ inFlight' \subseteq kops /\ cancelIds' \subseteq Ids
        /\ cancelled' \subseteq running /\ acks' \in [Ids -> Nat]
    <3>1. missing \subseteq kops
      BY <1>4, Zenon DEF CancelInKernel
    <3> HIDE DEF missing
    <3> QED BY <1>0, <2>1, <3>1, RequestCancelsTypes, Zenon
  <2>3. /\ reason' \in [Ids -> Reasons \cup {"none"}]
        /\ {j \in Ids : reason'[j] # "none"} \subseteq kops
    BY <1>0, <1>4, Zenon DEF TypeOK, CancelInKernel
  <2>4. TypeOK'
    <3> HIDE DEF missing
    <3> QED BY <1>0, <1>4, <2>2, <2>3, Zenon DEF TypeOK, CancelInKernel, kops
  <2>5. OperationsAccounted'
    BY <1>0, <1>4, AccountedSame, Zenon DEF CancelInKernel
  <2> QED BY <2>4, <2>5, Zenon DEF IInv
<1>5. ASSUME NEW t \in CurrentTokens, CloseHandle(t) PROVE IInv'
  <2> DEFINE on == {i \in kops : token[i] = t}
             missing == on \ (requested \cup inFlight)
             K == {k \in DOMAIN queue : queue[k].token = t}
             S == {queue[k].id : k \in K}
  <2>1. PICK sent \in SUBSET missing : RequestCancels(missing, sent)
    BY <1>5, Zenon DEF CloseHandle
  <2>2. /\ requested' \subseteq kops /\ inFlight' \subseteq kops /\ cancelIds' \subseteq Ids
        /\ cancelled' \subseteq running /\ acks' \in [Ids -> Nat]
    <3>1. missing \subseteq kops
      BY Zenon
    <3> HIDE DEF missing
    <3> QED BY <1>0, <2>1, <3>1, RequestCancelsTypes, Zenon
  <2>3. CompleteQueued(K, "closed") /\ K \in SUBSET DOMAIN queue /\ "closed" \in Result
    BY <1>5, Zenon DEF CloseHandle, Result
  <2>4. closing' \subseteq kops /\ files' \subseteq Token
    BY <1>0, <1>5, Zenon DEF CloseHandle, TypeOK
  <2>5. registry' \in [Handles -> [generation : Nat, open : BOOLEAN]]
    BY <1>0, <1>5, ZenonT(60) DEF CloseHandle, TypeOK
  <2> HIDE DEF K, missing, on
  <2>6. /\ queue' \in Seq(Queued) /\ Len(queue') <= QueueCapacity
        /\ completions' \in Seq(Completion)
        /\ S \subseteq IdsOf(queue) /\ IdsOf(queue') = IdsOf(queue) \ S
        /\ Distinct(queue') /\ Distinct(completions') /\ Completes(S)
    BY <1>0, <2>3, CompleteQueuedMoves, Zenon
  <2>7. /\ token' = token /\ reason' = reason /\ buffers' = buffers /\ running' = running /\ cq' = cq
        /\ active' = active /\ closed' = closed /\ polling' = polling
    BY <1>5, Zenon DEF CloseHandle
  <2>8. TypeOK'
    BY <1>0, <2>2, <2>4, <2>5, <2>6, <2>7, Zenon DEF TypeOK, kops, Queued
  <2>9. OperationsAccounted'
    <3>1. kops' = kops /\ Posted' = Posted /\ PostedAt' = PostedAt
      BY <2>7, Zenon DEF kops, Posted, PostedAt
    <3> HIDE DEF S
    <3> QED BY <1>0, <2>6, <2>7, <3>1, Zenon DEF OperationsAccounted, Completes
  <2> QED BY <2>8, <2>9, Zenon DEF IInv
<1>6. ASSUME NEW size \in DrainSizes, DrainCompletions(size) PROVE IInv'
  <2>1. PICK count \in 0..Len(completions) :
           /\ completions' \in Seq(Completion) /\ Distinct(completions')
           /\ IdsOf(completions') = IdsOf(completions) \ {completions[k].id : k \in 1..count}
           /\ active' = active \ {completions[k].id : k \in 1..count}
    BY <1>0, <1>6, DrainMoves, Zenon
  <2> DEFINE S == {completions[k].id : k \in 1..count}
  <2>2. S \subseteq IdsOf(completions)
    <3>1. 1..count \subseteq DOMAIN completions
      BY <1>0 DEF TypeOK
    <3> QED BY <3>1, Zenon DEF IdsOf
  <2> HIDE DEF S
  <2>3. /\ completions' \in Seq(Completion) /\ Distinct(completions')
        /\ IdsOf(completions') = IdsOf(completions) \ S /\ active' = active \ S
    BY <2>1, Zenon DEF S
  <2>4. TypeOK'
    BY <1>0, <1>6, <2>3, Zenon DEF TypeOK, DrainCompletions, kops
  <2>5. OperationsAccounted'
    <3>1. kops' = kops /\ Posted' = Posted /\ PostedAt' = PostedAt /\ queue' = queue
          /\ cq' = cq /\ running' = running
      BY <1>6, Zenon DEF DrainCompletions, kops, Posted, PostedAt
    <3> QED BY <1>0, <2>2, <2>3, <3>1, Zenon DEF OperationsAccounted
  <2> QED BY <2>4, <2>5, Zenon DEF IInv
<1>7. ASSUME RegisterBuffers \/ UnregisterBuffers \/ UnregisterFiles \/ ShutdownFails PROVE IInv'
  <2>1. TypeOK'
    BY <1>0, <1>7, Zenon DEF TypeOK, RegisterBuffers, UnregisterBuffers, UnregisterFiles, ShutdownFails, kops
  <2>2. OperationsAccounted'
    BY <1>0, <1>7, AccountedSame, Zenon DEF RegisterBuffers, UnregisterBuffers, UnregisterFiles, ShutdownFails
  <2> QED BY <2>1, <2>2, Zenon DEF IInv
<1>8. ASSUME NEW S \in SUBSET CurrentTokens, RegisterFiles(S) PROVE IInv'
  <2>1. CurrentTokens \subseteq Token
    BY <1>0, SMTT(30) DEF CurrentTokens, Token, TypeOK
  <2>2. TypeOK'
    BY <1>0, <1>8, <2>1, Zenon DEF TypeOK, RegisterFiles, kops
  <2>3. OperationsAccounted'
    BY <1>0, <1>8, AccountedSame, Zenon DEF RegisterFiles
  <2> QED BY <2>2, <2>3, Zenon DEF IInv
<1>9. ASSUME Shutdown PROVE IInv'
  <2> DEFINE missing == kops \ (requested \cup inFlight)
             S == {queue[k].id : k \in DOMAIN queue}
  <2>1. PICK sent \in SUBSET missing : RequestCancels(missing, sent)
    BY <1>9, Zenon DEF Shutdown
  <2>2. /\ requested' \subseteq kops /\ inFlight' \subseteq kops /\ cancelIds' \subseteq Ids
        /\ cancelled' \subseteq running /\ acks' \in [Ids -> Nat]
    <3>1. missing \subseteq kops
      BY Zenon
    <3> HIDE DEF missing
    <3> QED BY <1>0, <2>1, <3>1, RequestCancelsTypes, Zenon
  <2>3. CompleteQueued(DOMAIN queue, "closed") /\ "closed" \in Result
    BY <1>9, Zenon DEF Shutdown, Result
  <2>4. /\ closing' \subseteq kops /\ files' \subseteq Token /\ closed' \in BOOLEAN /\ buffers' \in BOOLEAN
        /\ token' = token /\ reason' = reason /\ running' = running /\ cq' = cq
        /\ active' = active /\ registry' = registry /\ polling' = polling
    BY <1>0, <1>9, Zenon DEF Shutdown, TypeOK
  <2>5. /\ queue' \in Seq(Queued) /\ Len(queue') <= QueueCapacity
        /\ completions' \in Seq(Completion)
        /\ S \subseteq IdsOf(queue) /\ IdsOf(queue') = IdsOf(queue) \ S
        /\ Distinct(queue') /\ Distinct(completions') /\ Completes(S)
    BY <1>0, <2>3, CompleteQueuedMoves, Zenon
  <2> HIDE DEF missing, S
  <2>6. TypeOK'
    BY <1>0, <2>2, <2>4, <2>5, Zenon DEF TypeOK, kops, Queued
  <2>7. OperationsAccounted'
    <3>1. kops' = kops /\ Posted' = Posted /\ PostedAt' = PostedAt
      BY <2>4, Zenon DEF kops, Posted, PostedAt
    <3> QED BY <1>0, <2>4, <2>5, <3>1, Zenon DEF OperationsAccounted, Completes
  <2> QED BY <2>6, <2>7, Zenon DEF IInv
<1>10. ASSUME PollSubmit PROVE IInv'
  <2> DEFINE n == IF closed THEN 0
                  ELSE IF SubmitBatch < Len(queue) THEN SubmitBatch ELSE Len(queue)
             missing == {i \in kops : RetryRequired(i)}
  <2>1. PICK sent \in SUBSET missing : RequestCancels(missing, sent)
    BY <1>10, Zenon DEF PollSubmit
  <2>2. /\ requested' \subseteq kops /\ inFlight' \subseteq kops /\ cancelIds' \subseteq Ids
        /\ cancelled' \subseteq running /\ acks' \in [Ids -> Nat]
    <3>1. missing \subseteq kops
      BY Zenon
    <3> HIDE DEF missing
    <3> QED BY <1>0, <2>1, <3>1, RequestCancelsTypes, Zenon
  <2>3. PICK F : F \subseteq 1..n /\ Flush(n, F)
    BY <1>10, Zenon DEF PollSubmit
  <2>4. n \in 0..Len(queue)
    BY <1>0, IoUringConstants DEF TypeOK
  <2>5. /\ polling' = TRUE /\ registry' = registry /\ active' = active /\ closed' = closed
        /\ reason' = reason /\ closing' = closing /\ buffers' = buffers /\ files' = files /\ cq' = cq
    BY <1>10, Zenon DEF PollSubmit
  <2> HIDE DEF n, missing
  <2>6. PICK ids, refused \in SUBSET Ids :
          /\ queue' \in Seq(Queued) /\ Len(queue') <= QueueCapacity
          /\ completions' \in Seq(Completion)
          /\ ids \cup refused \subseteq IdsOf(queue) /\ ids \cap refused = {}
          /\ IdsOf(queue') = IdsOf(queue) \ (ids \cup refused)
          /\ Distinct(queue') /\ Distinct(completions')
          /\ kops' = kops \cup ids /\ token' \in [kops \cup ids -> Token]
          /\ running' = running \cup ids
          /\ Completes(refused)
    BY ONLY <1>0, <2>3, <2>4, FlushMoves, Zenon
  <2>7. TypeOK'
    BY <1>0, <2>2, <2>5, <2>6, Zenon DEF TypeOK, Queued
  <2>8. OperationsAccounted'
    <3>1. Posted' = Posted /\ PostedAt' = PostedAt
      BY <2>5, Zenon DEF Posted, PostedAt
    <3> QED BY <1>0, <2>5, <2>6, <3>1, Zenon DEF OperationsAccounted, Completes
  <2> QED BY <2>7, <2>8, Zenon DEF IInv
<1>11. ASSUME PollDrain PROVE IInv'
  <2>1. PICK done \in SUBSET kops :
           /\ completions' \in Seq(Completion) /\ Distinct(completions') /\ Completes(done)
           /\ kops' = kops \ done /\ token' \in [kops' -> Token]
           /\ reason' \in [Ids -> Reasons \cup {"none"}]
           /\ {i \in Ids : reason'[i] # "none"} \subseteq kops'
           /\ closing' \cup requested' \cup inFlight' \subseteq kops' /\ cancelIds' \subseteq Ids
           /\ cq' \in Seq(Cqe) /\ done \subseteq Posted /\ Posted' = Posted \ done
           /\ \A j, k \in PostedAt' : cq'[j].id = cq'[k].id => j = k
    BY <1>0, <1>11, PollDrainMoves, Zenon
  <2>2. /\ polling' = FALSE /\ registry' = registry /\ queue' = queue /\ active' = active
        /\ closed' = closed /\ cancelled' = cancelled /\ acks' = acks /\ buffers' = buffers
        /\ files' = files /\ running' = running
    BY <1>11, Zenon DEF PollDrain
  <2>3. TypeOK'
    BY <1>0, <2>1, <2>2, Zenon DEF TypeOK
  <2>4. OperationsAccounted'
    BY <1>0, <2>1, <2>2, Zenon DEF OperationsAccounted, Completes
  <2> QED BY <2>3, <2>4, Zenon DEF IInv
<1>12. ASSUME PollEnterFails PROVE IInv'
  <2>1. TypeOK'
    BY <1>0, <1>12, Zenon DEF TypeOK, PollEnterFails, kops
  <2>2. OperationsAccounted'
    BY <1>0, <1>12, AccountedSame, Zenon DEF PollEnterFails
  <2> QED BY <2>1, <2>2, Zenon DEF IInv
<1>13. ASSUME NEW i \in Ids, KernelFinish(i) PROVE IInv'
  <2>1. PICK res \in {"ok", "error", "ecanceled"} :
          cq' = Append(cq, [kind |-> "operation", id |-> i, res |-> res])
    BY <1>13, Zenon DEF KernelFinish
  <2> DEFINE e == [kind |-> "operation", id |-> i, res |-> res]
  <2>2. e \in Cqe /\ e.kind = "operation" /\ e.id = i
    BY Zenon DEF Cqe
  <2> HIDE DEF e
  <2>3. /\ cq' \in Seq(Cqe) /\ \A k \in PostedAt : k \in DOMAIN cq /\ cq'[k] = cq[k]
        /\ PostedAt' = PostedAt \cup {Len(cq) + 1} /\ cq'[Len(cq) + 1] = e
    BY <1>0, <2>1, <2>2, PostFacts, Zenon DEF e
  <2>4. TypeOK'
    BY <1>0, <1>13, <2>3, Zenon DEF TypeOK, KernelFinish, kops
  <2>5. Posted' = Posted \cup {i}
    <3>1. Posted' = {cq'[k].id : k \in PostedAt'}
      BY Zenon DEF Posted
    <3> QED BY <2>2, <2>3, <3>1, Zenon DEF Posted
  <2>6. i \in running /\ i \notin Posted
    BY <1>0, <1>13, Zenon DEF KernelFinish, OperationsAccounted
  <2>7. \A j, k \in PostedAt' : cq'[j].id = cq'[k].id => j = k
    <3>1. \A k \in PostedAt : cq'[k].id # i
      BY <2>3, <2>6, Zenon DEF Posted
    <3> QED BY <1>0, <2>2, <2>3, <3>1 DEF OperationsAccounted
  <2>8. OperationsAccounted'
    <3>1. kops' = kops /\ queue' = queue /\ completions' = completions
          /\ running' = running \ {i} /\ active' = active
      BY <1>13, Zenon DEF KernelFinish, kops
    <3> QED BY <1>0, <2>5, <2>6, <2>7, <3>1, ZenonT(60) DEF OperationsAccounted
  <2> QED BY <2>4, <2>8, Zenon DEF IInv
<1>14. ASSUME NEW i \in Ids, KernelAck(i) PROVE IInv'
  <2> DEFINE e == [kind |-> "cancel", id |-> i]
  <2>1. e \in Cqe /\ e.kind # "operation" /\ cq' = Append(cq, e)
    BY <1>14, Zenon DEF Cqe, KernelAck
  <2> HIDE DEF e
  <2>2. /\ cq' \in Seq(Cqe) /\ \A k \in PostedAt : cq'[k] = cq[k]
        /\ PostedAt' = PostedAt
    BY <1>0, <2>1, PostFacts, Zenon
  <2>3. acks' \in [Ids -> Nat]
    BY <1>0, <1>14 DEF KernelAck, TypeOK
  <2>4. TypeOK'
    BY <1>0, <1>14, <2>2, <2>3, Zenon DEF TypeOK, KernelAck, kops
  <2>5. OperationsAccounted'
    <3>1. Posted' = Posted
      <4>1. Posted' = {cq'[k].id : k \in PostedAt'}
        BY Zenon DEF Posted
      <4> QED BY <2>2, <4>1, Zenon DEF Posted
    <3>2. kops' = kops /\ queue' = queue /\ completions' = completions
          /\ running' = running /\ active' = active
      BY <1>14, Zenon DEF KernelAck, kops
    <3> QED BY <1>0, <2>2, <3>1, <3>2, SMTT(30) DEF OperationsAccounted
  <2> QED BY <2>4, <2>5, Zenon DEF IInv
<1>15. CASE UNCHANGED vars
  <2>1. TypeOK'
    BY <1>0, <1>15, Zenon DEF TypeOK, vars, kops
  <2>2. OperationsAccounted'
    BY <1>0, <1>15, AccountedSame, Zenon DEF vars
  <2> QED BY <2>1, <2>2, Zenon DEF IInv
<1> QED
  BY <1>1, <1>2, <1>3, <1>4, <1>5, <1>6, <1>7, <1>8, <1>9, <1>10, <1>11, <1>12, <1>13, <1>14, <1>15, ZenonT(60)
  DEF Next

\* In every state of io_uring_backend each operation is in exactly one place.
THEOREM Invariance == Spec => []IInv
<1> QED BY InitInv, StepInv, PTL DEF Spec

\* The submission queue never exceeds its capacity, and the flags of a
\* kernel_operation exist only together with the entry.
THEOREM TypeCorrect == Spec => []TypeOK
<1>1. IInv => TypeOK
  BY Zenon DEF IInv
<1> QED BY <1>1, Invariance, PTL

\* Every active id is in exactly one container, and kernel_operations_ holds
\* exactly the operations the kernel works on or whose CQE is in the ring,
\* whatever fails, whatever order the kernel answers in, for every number of
\* handles and ids and every queue capacity and batch limit.
THEOREM EveryOperationAccounted == Spec => []OperationsAccounted
<1>1. IInv => OperationsAccounted
  BY Zenon DEF IInv
<1> QED BY <1>1, Invariance, PTL

------------------------------------------------------------------------------
(* Refinement. *)

\* Status as a function of the unfinished ids and the completion queue.
StatusAt(U, c, i) ==
  IF i \in U THEN "active"
  ELSE IF i \in IdsOf(c) THEN c[CHOOSE k \in DOMAIN c : c[k].id = i].result
  ELSE "free"

StatusOf(U, c) == [i \in Ids |-> StatusAt(U, c, i)]

\* The contract's view of an id, from where its operation is.
LEMMA StatusFacts ==
  ASSUME NEW U \in SUBSET Ids, NEW c \in Seq(Completion), Distinct(c), U \cap IdsOf(c) = {}
  PROVE  /\ IdsOf(c) \subseteq Ids
         /\ \A i \in U : StatusOf(U, c)[i] = "active"
         /\ \A k \in DOMAIN c : StatusOf(U, c)[c[k].id] = c[k].result /\ c[k].result \in Result
         /\ \A i \in Ids : i \notin U /\ i \notin IdsOf(c) => StatusOf(U, c)[i] = "free"
<1>1. \A k \in DOMAIN c : c[k].id \in Ids /\ c[k].result \in Result
  <2>1. \A k \in DOMAIN c : c[k] \in Completion
    OBVIOUS
  <2> QED BY <2>1, Zenon DEF Completion
<1>2. IdsOf(c) \subseteq Ids
  BY <1>1, Zenon DEF IdsOf
<1>3. ASSUME NEW k \in DOMAIN c PROVE StatusOf(U, c)[c[k].id] = c[k].result
  <2> DEFINE ch == CHOOSE j \in DOMAIN c : c[j].id = c[k].id
  <2>1. ch \in DOMAIN c /\ c[ch].id = c[k].id
    BY Zenon
  <2>2. ch = k
    BY <2>1, Zenon DEF Distinct
  <2>3. c[k].id \in IdsOf(c) /\ c[k].id \notin U /\ c[k].id \in Ids
    BY <1>1, Zenon DEF IdsOf
  <2>4. StatusOf(U, c)[c[k].id] = c[ch].result
    BY <2>3, Zenon DEF StatusOf, StatusAt
  <2> QED BY <2>2, <2>4, Zenon
<1>4. \A i \in U : StatusOf(U, c)[i] = "active"
  BY Zenon DEF StatusOf, StatusAt
<1>5. \A i \in Ids : i \notin U /\ i \notin IdsOf(c) => StatusOf(U, c)[i] = "free"
  BY Zenon DEF StatusOf, StatusAt
<1> QED BY <1>1, <1>2, <1>3, <1>4, <1>5, Zenon

\* What the contract sees of the containers, in a state of the invariant.
LEMMA StatusInv ==
  ASSUME IInv
  PROVE  /\ Unfinished \subseteq Ids /\ IdsOf(completions) \subseteq Ids
         /\ Unfinished \cap IdsOf(completions) = {}
         /\ Status = [i \in Ids |-> Status[i]]
         /\ \A i \in Unfinished : Status[i] = "active"
         /\ \A k \in DOMAIN completions :
              Status[completions[k].id] = completions[k].result /\ completions[k].result \in Result
         /\ \A i \in Ids : i \notin Unfinished /\ i \notin IdsOf(completions) => Status[i] = "free"
<1>1. /\ Unfinished \in SUBSET Ids /\ completions \in Seq(Completion)
      /\ Distinct(completions) /\ Unfinished \cap IdsOf(completions) = {}
  BY Zenon DEF IInv, TypeOK, OperationsAccounted, Unfinished
<1>2. Status = StatusOf(Unfinished, completions)
  BY Zenon DEF Status, StatusOf, StatusAt, Unfinished
<1>3. StatusOf(Unfinished, completions) = [i \in Ids |-> StatusOf(Unfinished, completions)[i]]
  BY ONLY Zenon DEF StatusOf
<1>4. /\ IdsOf(completions) \subseteq Ids
      /\ \A i \in Unfinished : StatusOf(Unfinished, completions)[i] = "active"
      /\ \A k \in DOMAIN completions :
           /\ StatusOf(Unfinished, completions)[completions[k].id] = completions[k].result
           /\ completions[k].result \in Result
      /\ \A i \in Ids : i \notin Unfinished /\ i \notin IdsOf(completions)
           => StatusOf(Unfinished, completions)[i] = "free"
  BY ONLY <1>1, StatusFacts, Zenon
<1> QED BY ONLY <1>1, <1>2, <1>3, <1>4, Zenon

\* The same view after a step.
LEMMA StatusInvNext ==
  ASSUME IInv'
  PROVE  /\ Status' = [i \in Ids |-> Status'[i]]
         /\ \A i \in Unfinished' : Status'[i] = "active"
         /\ \A k \in DOMAIN completions' :
              /\ Status'[completions'[k].id] = completions'[k].result
              /\ completions'[k].result \in Result
         /\ \A i \in Ids : i \notin Unfinished' /\ i \notin IdsOf(completions') => Status'[i] = "free"
<1>1. /\ Unfinished' \in SUBSET Ids /\ completions' \in Seq(Completion)
      /\ Distinct(completions') /\ Unfinished' \cap IdsOf(completions') = {}
  BY Zenon DEF IInv, TypeOK, OperationsAccounted, Unfinished
<1>2. Status' = StatusOf(Unfinished', completions')
  BY Zenon DEF Status, StatusOf, StatusAt, Unfinished
<1>3. StatusOf(Unfinished', completions') = [i \in Ids |-> StatusOf(Unfinished', completions')[i]]
  BY ONLY Zenon DEF StatusOf
<1>4. /\ IdsOf(completions') \subseteq Ids
      /\ \A i \in Unfinished' : StatusOf(Unfinished', completions')[i] = "active"
      /\ \A k \in DOMAIN completions' :
           /\ StatusOf(Unfinished', completions')[completions'[k].id] = completions'[k].result
           /\ completions'[k].result \in Result
      /\ \A i \in Ids : i \notin Unfinished' /\ i \notin IdsOf(completions')
           => StatusOf(Unfinished', completions')[i] = "free"
  BY ONLY <1>1, StatusFacts, Zenon
<1> QED BY ONLY <1>1, <1>2, <1>3, <1>4, Zenon

\* A step that moves the ids of S to the completion queue is a Complete step.
LEMMA CompletingRefines ==
  ASSUME IInv, IInv', NEW S, S \subseteq Unfinished, Unfinished' = Unfinished \ S, Completes(S)
  PROVE  Contract!Next
<1> DEFINE f == [i \in S |-> Status'[i]]
<1>1. S \in SUBSET Ids /\ \A i \in S : Status[i] = "active"
  BY StatusInv, Zenon
<1>2. IdsOf(completions') = IdsOf(completions) \cup S
  BY Zenon DEF Completes
<1>3. ASSUME NEW i \in S PROVE Status'[i] \in Result
  <2>1. PICK k \in DOMAIN completions' : completions'[k].id = i
    BY <1>2, Zenon DEF IdsOf
  <2> QED BY <2>1, StatusInvNext, Zenon
<1>4. ASSUME NEW i \in Ids, i \notin S PROVE Status'[i] = Status[i]
  <2>1. CASE i \in Unfinished
    BY <1>4, <2>1, StatusInv, StatusInvNext, Zenon
  <2>2. CASE i \in IdsOf(completions)
    <3>1. PICK k \in DOMAIN completions : completions[k].id = i
      BY <2>2, Zenon DEF IdsOf
    <3>2. k \in DOMAIN completions' /\ completions'[k] = completions[k]
      BY Zenon DEF Completes
    <3>3. Status[i] = completions[k].result
      BY <3>1, StatusInv, Zenon
    <3>4. Status'[i] = completions'[k].result
      BY <3>1, <3>2, StatusInvNext, Zenon
    <3> QED BY <3>2, <3>3, <3>4, Zenon
  <2>3. CASE i \notin Unfinished /\ i \notin IdsOf(completions)
    BY <1>2, <1>4, <2>3, StatusInv, StatusInvNext, Zenon
  <2> QED BY <2>1, <2>2, <2>3, Zenon
<1>5. Status' = [i \in Ids |-> Status'[i]]
  BY StatusInvNext, Zenon
<1>6. f \in [S -> Result] /\ Status' = [i \in Ids |-> IF i \in S THEN f[i] ELSE Status[i]]
  BY <1>3, <1>4, <1>5, Zenon
<1> HIDE DEF f
<1>7. Contract!Complete(S)
  BY <1>1, <1>6, Zenon DEF Contract!Complete
<1> QED BY <1>1, <1>7, Zenon DEF Contract!Next

\* submit is an Accept step.
LEMMA SubmitRefines ==
  ASSUME IInv, IInv', NEW i \in Ids, NEW t \in CurrentTokens, Submit(i, t)
  PROVE  Contract!Next
<1>1. IdsOf(queue') = IdsOf(queue) \cup {i} /\ i \notin Unfinished /\ i \notin IdsOf(completions)
  BY SubmitMoves, Zenon DEF IInv, Unfinished
<1>2. completions' = completions /\ kops' = kops
  BY Zenon DEF Submit, kops, kernelOps
<1>3. Unfinished' = Unfinished \cup {i}
  BY <1>1, <1>2, Zenon DEF Unfinished
<1>4. Status[i] = "free" /\ Status = [j \in Ids |-> Status[j]] /\ Status' = [j \in Ids |-> Status'[j]]
  BY <1>1, StatusInv, StatusInvNext, Zenon
<1>5. ASSUME NEW j \in Ids PROVE Status'[j] = IF j = i THEN "active" ELSE Status[j]
  <2>1. CASE j \in Unfinished'
    BY <1>3, <2>1, StatusInv, StatusInvNext, Zenon
  <2>2. CASE j \in IdsOf(completions)
    <3>1. PICK n \in DOMAIN completions : completions[n].id = j
      BY <2>2, Zenon DEF IdsOf
    <3>2. i # j
      BY <1>1, <2>2, Zenon
    <3> QED BY <1>2, <3>1, <3>2, StatusInv, StatusInvNext, Zenon
  <2>3. CASE j \notin Unfinished' /\ j \notin IdsOf(completions)
    BY <1>2, <1>3, <2>3, StatusInv, StatusInvNext, Zenon
  <2> QED BY <2>1, <2>2, <2>3, Zenon
<1>6. Status' = [Status EXCEPT ![i] = "active"]
  BY ONLY <1>4, <1>5, Zenon
<1>7. Contract!Accept(i)
  BY <1>4, <1>6, Zenon DEF Contract!Accept
<1> QED BY <1>7, Zenon DEF Contract!Next

\* drain_completions is a Deliver step.
LEMMA DrainRefines ==
  ASSUME IInv, IInv', NEW size \in DrainSizes, DrainCompletions(size)
  PROVE  Contract!Next
<1>1. PICK count \in 0..Len(completions) :
         /\ \A k \in DOMAIN completions' :
              k + count \in DOMAIN completions /\ completions'[k] = completions[k + count]
         /\ IdsOf(completions') = IdsOf(completions) \ {completions[k].id : k \in 1..count}
  BY DrainMoves, Zenon DEF IInv
<1>2. Unfinished' = Unfinished
  BY Zenon DEF DrainCompletions, kernelOps, kops, Unfinished, IdsOf
<1> DEFINE S == {completions[k].id : k \in 1..count}
<1>3. 1..count \subseteq DOMAIN completions
  BY DEF IInv, TypeOK
<1>4. S \subseteq IdsOf(completions) /\ \A i \in S : Status[i] \in Result
  BY <1>3, StatusInv, Zenon DEF IdsOf
<1>5. IdsOf(completions') = IdsOf(completions) \ S
  BY <1>1, Zenon
<1> HIDE DEF S
<1>6. ASSUME NEW i \in Ids PROVE Status'[i] = IF i \in S THEN "free" ELSE Status[i]
  <2>1. CASE i \in IdsOf(completions')
    <3>1. PICK n \in DOMAIN completions' : completions'[n].id = i
      BY <2>1, Zenon DEF IdsOf
    <3>2. n + count \in DOMAIN completions /\ completions'[n] = completions[n + count]
      BY <1>1, Zenon
    <3>3. Status'[i] = completions'[n].result
      BY <3>1, StatusInvNext, Zenon
    <3>4. Status[i] = completions[n + count].result
      BY <3>1, <3>2, StatusInv, Zenon
    <3> QED BY <1>5, <2>1, <3>2, <3>3, <3>4, Zenon
  <2>2. CASE i \in Unfinished
    <3>1. i \notin S
      BY <1>4, <2>2, StatusInv, Zenon
    <3> QED BY <1>2, <2>2, <3>1, StatusInv, StatusInvNext, Zenon
  <2>3. CASE i \notin Unfinished /\ i \notin IdsOf(completions')
    <3>1. Status'[i] = "free"
      BY <1>2, <2>3, StatusInvNext, Zenon
    <3>2. i \notin S => Status[i] = "free"
      BY <1>5, <2>3, StatusInv, Zenon
    <3> QED BY <3>1, <3>2, Zenon
  <2> QED BY <2>1, <2>2, <2>3, Zenon
<1>7. S \in SUBSET Ids
  BY <1>4, StatusInv, Zenon
<1>8. Status' = [i \in Ids |-> IF i \in S THEN "free" ELSE Status[i]]
  <2>1. Status' = [i \in Ids |-> Status'[i]]
    BY StatusInvNext, Zenon
  <2> QED BY ONLY <1>6, <2>1, Zenon
<1>9. Contract!Deliver(S)
  BY <1>4, <1>8, Zenon DEF Contract!Deliver
<1> QED BY <1>7, <1>9, Zenon DEF Contract!Next

\* A call that completes entries of the submission queue is a Complete step.
LEMMA CompleteQueuedRefines ==
  ASSUME IInv, IInv', NEW K \in SUBSET DOMAIN queue, NEW r \in Result,
         CompleteQueued(K, r), token' = token
  PROVE  Contract!Next
<1> DEFINE S == {queue[k].id : k \in K}
<1>1. S \subseteq IdsOf(queue) /\ IdsOf(queue') = IdsOf(queue) \ S /\ Completes(S)
  BY CompleteQueuedMoves, Zenon DEF IInv
<1> HIDE DEF S
<1>2. S \subseteq Unfinished /\ Unfinished' = Unfinished \ S
  BY <1>1, Zenon DEF Unfinished, kops, IInv, OperationsAccounted
<1> QED BY <1>1, <1>2, CompletingRefines, Zenon

\* Every behaviour of the io_uring backend, with the kernel free to answer in
\* any order and every submission free to fail, is one the operation contract
\* allows: submit accepts, a refused or cancelled entry and an observed CQE
\* complete, drain_completions delivers, and nothing else changes a status.
THEOREM Refinement == Spec => ImplementsContract
<1>1. Init => Contract!Init
  <2> SUFFICES ASSUME Init PROVE Contract!Init
    BY Zenon
  <2>1. IdsOf(queue) = {} /\ kops = {} /\ IdsOf(completions) = {}
    BY SMTT(30) DEF Init, IdsOf, kops
  <2>2. Status = [i \in Ids |-> "free"]
    BY <2>1, Zenon DEF Status
  <2> QED BY <2>2, Zenon DEF Contract!Init
<1>2. IInv /\ IInv' /\ [Next]_vars => [Contract!Next]_Status
  <2> SUFFICES ASSUME IInv, IInv', [Next]_vars PROVE Contract!Next \/ UNCHANGED Status
    BY Zenon
  <2>0. UNCHANGED <<queue, token, completions>> => UNCHANGED Status
    BY SMTT(30) DEF Status, kops, IdsOf
  <2> USE DEF calls, kernelOps
  <2>1. ASSUME NEW h \in Handles, RegisterHandle(h) PROVE UNCHANGED Status
    BY <2>0, <2>1, Zenon DEF RegisterHandle
  <2>2. ASSUME NEW i \in Ids, NEW t \in CurrentTokens, Submit(i, t) PROVE Contract!Next
    BY <2>2, SubmitRefines, Zenon
  <2>3. ASSUME NEW i \in Ids, NEW r \in Reasons, CancelQueued(i, r) PROVE Contract!Next
    <3>1. PICK k \in DOMAIN queue : CompleteQueued({k}, r)
      BY <2>3, Zenon DEF CancelQueued
    <3>2. r \in Result /\ {k} \in SUBSET DOMAIN queue /\ token' = token
      BY <2>3, Zenon DEF Result, CancelQueued
    <3> QED BY <3>1, <3>2, CompleteQueuedRefines, Zenon
  <2>4. ASSUME NEW i \in Ids, NEW r \in Reasons, CancelInKernel(i, r) PROVE UNCHANGED Status
    BY <2>0, <2>4, Zenon DEF CancelInKernel
  <2>5. ASSUME NEW t \in CurrentTokens, CloseHandle(t) PROVE Contract!Next
    <3> DEFINE K == {k \in DOMAIN queue : queue[k].token = t}
    <3>1. K \in SUBSET DOMAIN queue /\ "closed" \in Result /\ CompleteQueued(K, "closed") /\ token' = token
      BY <2>5, Zenon DEF Result, CloseHandle
    <3> HIDE DEF K
    <3> QED BY <3>1, CompleteQueuedRefines, Zenon
  <2>6. ASSUME NEW size \in DrainSizes, DrainCompletions(size) PROVE Contract!Next
    BY <2>6, DrainRefines, Zenon
  <2>7. ASSUME RegisterBuffers \/ UnregisterBuffers \/ UnregisterFiles \/ ShutdownFails \/ PollEnterFails
        PROVE  UNCHANGED Status
    BY <2>0, <2>7, Zenon DEF RegisterBuffers, UnregisterBuffers, UnregisterFiles, ShutdownFails, PollEnterFails
  <2>8. ASSUME NEW S \in SUBSET CurrentTokens, RegisterFiles(S) PROVE UNCHANGED Status
    BY <2>0, <2>8, Zenon DEF RegisterFiles
  <2>9. ASSUME Shutdown PROVE Contract!Next
    <3>1. "closed" \in Result /\ CompleteQueued(DOMAIN queue, "closed") /\ token' = token
      BY <2>9, Zenon DEF Result, Shutdown
    <3> QED BY <3>1, CompleteQueuedRefines, Zenon
  <2>10. ASSUME PollSubmit PROVE Contract!Next
    <3> DEFINE n == IF closed THEN 0
                    ELSE IF SubmitBatch < Len(queue) THEN SubmitBatch ELSE Len(queue)
    <3>1. PICK F : F \subseteq 1..n /\ Flush(n, F)
      BY <2>10, Zenon DEF PollSubmit
    <3>2. n \in 0..Len(queue) /\ TypeOK /\ OperationsAccounted
      BY IoUringConstants DEF IInv, TypeOK
    <3> HIDE DEF n
    <3>3. PICK ids, refused \in SUBSET Ids :
            /\ ids \cup refused \subseteq IdsOf(queue) /\ ids \cap refused = {}
            /\ IdsOf(queue') = IdsOf(queue) \ (ids \cup refused)
            /\ kops' = kops \cup ids
            /\ Completes(refused)
      BY ONLY <3>1, <3>2, FlushMoves, Zenon
    <3>4. refused \subseteq Unfinished /\ Unfinished' = Unfinished \ refused
      BY <3>2, <3>3, Zenon DEF Unfinished, OperationsAccounted
    <3> QED BY <3>3, <3>4, CompletingRefines, Zenon
  <2>11. ASSUME PollDrain PROVE Contract!Next
    <3>1. TypeOK /\ OperationsAccounted /\ queue' = queue
      BY <2>11, Zenon DEF IInv, PollDrain
    <3>2. PICK done \in SUBSET kops : kops' = kops \ done /\ Completes(done)
      BY <2>11, <3>1, PollDrainMoves, Zenon
    <3>3. done \subseteq Unfinished /\ Unfinished' = Unfinished \ done
      BY <3>1, <3>2, Zenon DEF Unfinished, OperationsAccounted
    <3> QED BY <3>2, <3>3, CompletingRefines, Zenon
  <2>12. ASSUME NEW i \in Ids, KernelFinish(i) \/ KernelAck(i) PROVE UNCHANGED Status
    BY <2>0, <2>12, Zenon DEF KernelFinish, KernelAck
  <2>13. CASE UNCHANGED vars
    BY <2>0, <2>13, Zenon DEF vars
  <2> QED
    BY <2>1, <2>2, <2>3, <2>4, <2>5, <2>6, <2>7, <2>8, <2>9, <2>10, <2>11, <2>12, <2>13, ZenonT(60) DEF Next
<1> QED BY <1>1, <1>2, Invariance, PTL DEF Spec, ImplementsContract, Contract!Spec
=============================================================================
