----------------------------- MODULE Iocp_proofs -----------------------------
(***************************************************************************)
(* For every number of handles, ids and association slots and every range  *)
(* of key generations: iocp_backend's association table loses and doubles  *)
(* no slot, the completion key of an operation never names another         *)
(* registration, the memory of an operation stays while the kernel may     *)
(* write to it, and the backend implements the operation contract.         *)
(***************************************************************************)
EXTENDS Iocp, TLAPS

------------------------------------------------------------------------------
(* The inductive invariant. *)

TableType ==
  /\ registry \in [Handles -> [generation : Nat, open : BOOLEAN]]
  /\ associations \in Seq(Association) /\ Len(associations) <= Capacity
  /\ free \in Seq(1..Capacity)
  /\ byHandle \in [Handles -> 0..Capacity]
  /\ storage \in [ops -> Storage]

\* The free stack and the handle index name slots of the table, the index
\* only open ones of the handle; a closed slot has no token.
SlotsKnown ==
  /\ \A k \in DOMAIN free : free[k] \in DOMAIN associations
  /\ \A h \in Handles : byHandle[h] # 0 =>
       /\ byHandle[h] \in DOMAIN associations
       /\ associations[byHandle[h]].open /\ associations[byHandle[h]].token.handle = h
  /\ \A a \in DOMAIN associations : associations[a].open \/ associations[a].token = NoToken

\* The entry e of the slot allows for a storage s submitted under generation g:
\* its own registration, or one whose reuse must use a later generation.
Behind(e, g, t) ==
  /\ g <= e.generation
  /\ g = e.generation => \/ e.open /\ e.token = t
                         \/ ~e.open /\ (e.reusable => e.bump)

KeysBehind ==
  \A i \in ops :
    /\ storage[i].key.id \in DOMAIN associations
    /\ Behind(associations[storage[i].key.id], storage[i].key.generation, storage[i].token)

TableInv == TableType /\ SlotsAccounted /\ SlotsKnown /\ KeysBehind

------------------------------------------------------------------------------
(* create_association takes the top of the free stack or a new slot. *)

\* Popping the last element of a stack.
LEMMA FrontFacts ==
  ASSUME NEW S, NEW s \in Seq(S), Len(s) # 0
  PROVE  /\ s[Len(s)] \in S
         /\ SubSeq(s, 1, Len(s) - 1) \in Seq(S)
         /\ DOMAIN SubSeq(s, 1, Len(s) - 1) = 1..(Len(s) - 1)
         /\ \A k \in 1..(Len(s) - 1) : SubSeq(s, 1, Len(s) - 1)[k] = s[k]
OBVIOUS

\* The fields of a table entry have their types.
LEMMA EntryFacts ==
  ASSUME TableType, NEW a \in DOMAIN associations
  PROVE  /\ associations[a] \in Association
         /\ associations[a].token \in Token /\ associations[a].generation \in 1..KeyMax
         /\ associations[a].open \in BOOLEAN /\ associations[a].reusable \in BOOLEAN
         /\ associations[a].bump \in BOOLEAN
<1>1. associations[a] \in Association
  BY DEF TableType
<1> QED BY <1>1, Zenon DEF Association

\* Every slot on the free stack can be handed out.
LEMMA FreeUsable ==
  ASSUME TableInv
  PROVE  \A k \in DOMAIN free : Usable(free[k])
<1> SUFFICES ASSUME NEW k \in DOMAIN free PROVE Usable(free[k])
  BY Zenon
<1>1. free[k] \in DOMAIN associations
  BY Zenon DEF TableInv, SlotsKnown
<1> QED BY <1>1, Zenon DEF TableInv, SlotsAccounted

\* create_association's search stops at the top of the free stack.
LEMMA PopAtTop ==
  ASSUME TableInv
  PROVE  PopAt = Len(free) /\ Len(free) \in Nat
<1>1. free \in Seq(1..Capacity) /\ Len(free) \in Nat /\ DOMAIN free = 1..Len(free)
  BY DEF TableInv, TableType
<1>2. CASE Len(free) = 0
  <2>1. ~\E k \in DOMAIN free : Usable(free[k])
    BY <1>1, <1>2
  <2> QED BY <1>1, <1>2, <2>1, Zenon DEF PopAt
<1>3. CASE Len(free) # 0
  <2> DEFINE top(k) == Usable(free[k]) /\ \A j \in (k + 1)..Len(free) : ~Usable(free[j])
  <2>1. Len(free) \in DOMAIN free /\ \A k \in DOMAIN free : Usable(free[k])
    BY <1>1, <1>3, FreeUsable
  <2>2. top(Len(free))
    BY <1>1, <2>1
  <2>3. \A k \in DOMAIN free : top(k) => k = Len(free)
    <3> SUFFICES ASSUME NEW k \in DOMAIN free, top(k), k # Len(free) PROVE FALSE
      BY Zenon
    <3>1. Len(free) \in (k + 1)..Len(free)
      BY <1>1
    <3> QED BY <2>1, <3>1, Zenon
  <2>4. PopAt = CHOOSE k \in DOMAIN free : top(k)
    BY <2>1, Zenon DEF PopAt
  <2> HIDE DEF top
  <2> QED BY <1>1, <2>1, <2>2, <2>3, <2>4, Zenon
<1> QED BY <1>2, <1>3, Zenon

\* The key handed out, and the stack that remains.
LEMMA NextKeyFacts ==
  ASSUME TableInv, ~TableFull
  PROVE  /\ NextKey \in Key
         /\ Popped \in Seq(1..Capacity)
         /\ \A j, k \in DOMAIN Popped : Popped[j] = Popped[k] => j = k
         /\ \A k \in DOMAIN Popped : Popped[k] \in DOMAIN associations /\ Popped[k] # NextKey.id
         /\ \A k \in DOMAIN Popped : \E j \in DOMAIN free : free[j] = Popped[k]
         /\ \A j \in DOMAIN free : free[j] # NextKey.id => \E k \in DOMAIN Popped : Popped[k] = free[j]
         /\ \/ /\ NextKey.id \in DOMAIN associations /\ Usable(NextKey.id)
               /\ NextKey.generation = IF associations[NextKey.id].bump
                                       THEN associations[NextKey.id].generation + 1
                                       ELSE associations[NextKey.id].generation
            \/ NextKey.id = Len(associations) + 1
<1>1. /\ free \in Seq(1..Capacity) /\ Len(free) \in Nat /\ DOMAIN free = 1..Len(free)
      /\ PopAt = Len(free) /\ Len(associations) \in Nat /\ DOMAIN associations = 1..Len(associations)
  BY PopAtTop DEF TableInv, TableType
<1>2. /\ \A k \in DOMAIN free : free[k] \in DOMAIN associations /\ Usable(free[k])
      /\ \A j, k \in DOMAIN free : free[j] = free[k] => j = k
  BY FreeUsable, Zenon DEF TableInv, SlotsKnown, SlotsAccounted
<1>3. CASE Len(free) = 0
  <2>1. NextKey = [id |-> Len(associations) + 1, generation |-> 1]
    BY <1>1, <1>3, Zenon DEF NextKey
  <2>2. NextKey \in Key /\ NextKey.id = Len(associations) + 1
    BY <1>1, <1>3, <2>1, IocpConstants DEF TableFull, Key
  <2>3. Popped = <<>> /\ DOMAIN free = {}
    BY <1>1, <1>3 DEF Popped
  <2> QED BY <2>2, <2>3
<1>4. CASE Len(free) # 0
  <2> DEFINE n == Len(free)
             e == associations[free[n]]
  <2>1. n \in DOMAIN free /\ free[n] \in DOMAIN associations /\ Usable(free[n]) /\ free[n] \in 1..Capacity
    <3>1. n \in DOMAIN free
      BY <1>1, <1>4
    <3>2. free[n] \in 1..Capacity
      BY <1>1, <1>4, FrontFacts, Zenon
    <3> QED BY <1>2, <3>1, <3>2, Zenon
  <2>2. NextKey = [id |-> free[n], generation |-> IF e.bump THEN e.generation + 1 ELSE e.generation]
    BY <1>1, <1>4, Zenon DEF NextKey
  <2>3. e.generation \in 1..KeyMax /\ (e.bump => e.generation < KeyMax)
    BY <2>1, EntryFacts, Zenon DEF TableInv, Usable
  <2>4. NextKey \in Key /\ NextKey.id = free[n]
        /\ NextKey.generation = IF e.bump THEN e.generation + 1 ELSE e.generation
    BY <2>1, <2>2, <2>3, IocpConstants DEF Key
  <2>5. /\ Popped \in Seq(1..Capacity) /\ DOMAIN Popped = 1..(n - 1)
        /\ \A k \in 1..(n - 1) : Popped[k] = free[k]
    <3>1. Popped = SubSeq(free, 1, Len(free) - 1)
      BY <1>1, <1>4, Zenon DEF Popped
    <3> QED BY <1>1, <1>4, <3>1, FrontFacts, Zenon
  <2> HIDE DEF e
  <2>6. \A k \in DOMAIN Popped : k \in DOMAIN free /\ k # n /\ Popped[k] = free[k]
    BY <1>1, <2>5
  <2>7. \A j \in DOMAIN free : j # n => j \in DOMAIN Popped /\ Popped[j] = free[j]
    BY <1>1, <2>5
  <2>8. \A j \in DOMAIN free : free[j] # NextKey.id => \E k \in DOMAIN Popped : Popped[k] = free[j]
    BY <2>4, <2>7, Zenon
  <2>9. \A k \in DOMAIN Popped : Popped[k] \in DOMAIN associations /\ Popped[k] # NextKey.id
    BY <1>2, <2>1, <2>4, <2>6, Zenon
  <2>10. \A j, k \in DOMAIN Popped : Popped[j] = Popped[k] => j = k
    BY <1>2, <2>6, Zenon
  <2> QED BY <2>1, <2>4, <2>5, <2>6, <2>8, <2>9, <2>10, Zenon DEF e
<1> QED BY <1>3, <1>4, Zenon

\* associations_ after the entry of the key was written.
LEMMA WithEntryFacts ==
  ASSUME TableInv, ~TableFull, NEW t \in Token, NEW o \in BOOLEAN, NEW u \in BOOLEAN, NEW b \in BOOLEAN
  PROVE  /\ WithEntry(NextKey, t, o, u, b) \in Seq(Association)
         /\ Len(WithEntry(NextKey, t, o, u, b)) <= Capacity
         /\ DOMAIN WithEntry(NextKey, t, o, u, b) = DOMAIN associations \cup {NextKey.id}
         /\ WithEntry(NextKey, t, o, u, b)[NextKey.id] =
              [token |-> t, generation |-> NextKey.generation, open |-> o, reusable |-> u, bump |-> b]
         /\ \A a \in DOMAIN associations :
              a # NextKey.id => WithEntry(NextKey, t, o, u, b)[a] = associations[a]
<1> DEFINE w == WithEntry(NextKey, t, o, u, b)
           e == [token |-> t, generation |-> NextKey.generation, open |-> o, reusable |-> u, bump |-> b]
<1>1. /\ associations \in Seq(Association) /\ Len(associations) \in Nat
      /\ DOMAIN associations = 1..Len(associations) /\ Len(associations) <= Capacity
  BY DEF TableInv, TableType
<1>2. NextKey \in Key /\ (NextKey.id \in DOMAIN associations \/ NextKey.id = Len(associations) + 1)
  BY NextKeyFacts, Zenon
<1>3. NextKey.id \in 1..Capacity /\ e \in Association
  BY <1>2, Zenon DEF Key, Association
<1>4. w = IF NextKey.id > Len(associations) THEN Append(associations, e)
          ELSE [associations EXCEPT ![NextKey.id] = e]
  BY Zenon DEF WithEntry
<1> HIDE DEF e, w
<1>5. /\ w \in Seq(Association) /\ Len(w) <= Capacity
      /\ DOMAIN w = DOMAIN associations \cup {NextKey.id} /\ w[NextKey.id] = e
      /\ \A a \in DOMAIN associations : a # NextKey.id => w[a] = associations[a]
  <2>1. CASE NextKey.id = Len(associations) + 1
    <3>1. NextKey.id > Len(associations)
      BY <1>1, <2>1
    <3>2. w = Append(associations, e)
      BY ONLY <1>4, <3>1, Zenon
    <3> QED BY <1>1, <1>3, <2>1, <3>2, IocpConstants
  <2>2. CASE NextKey.id \in DOMAIN associations
    <3>1. ~(NextKey.id > Len(associations))
      BY <1>1, <2>2
    <3>2. w = [associations EXCEPT ![NextKey.id] = e]
      BY ONLY <1>4, <3>1, Zenon
    <3> QED BY <1>1, <1>3, <2>2, <3>2
  <2> QED BY <1>2, <2>1, <2>2, Zenon
<1> QED BY <1>5, Zenon DEF w, e

------------------------------------------------------------------------------
(* Steps that do not create or close an association. *)

\* Storages may disappear and their flags may change; token and key stay.
StoragesKept ==
  /\ storage' \in [ops' -> Storage] /\ ops' \subseteq ops
  /\ \A i \in ops' : storage'[i].key = storage[i].key /\ storage'[i].token = storage[i].token

\* Such a step keeps the invariant when it leaves the table alone.
LEMMA TableSame ==
  ASSUME TableInv, UNCHANGED <<registry, table>>, stopped => stopped', StoragesKept
  PROVE  TableInv'
<1> USE DEF table
<1>1. TableType'
  BY Zenon DEF TableInv, TableType, StoragesKept
<1>2. SlotsAccounted'
  BY DEF TableInv, SlotsAccounted, Usable, IsCurrent, CurrentTokens
<1>3. SlotsKnown'
  BY Zenon DEF TableInv, SlotsKnown
<1>4. KeysBehind'
  BY Zenon DEF TableInv, KeysBehind, StoragesKept, Behind
<1> QED BY <1>1, <1>2, <1>3, <1>4, Zenon DEF TableInv

\* The port of a stopped backend closes when the last storage is gone.
LEMMA TableCleared ==
  ASSUME TableInv, registry' = registry, stopped', associations' = <<>>, free' = <<>>,
         byHandle' = [h \in Handles |-> 0], StoragesKept, ops' = {}
  PROVE  TableInv'
<1>1. TableType'
  <2>1. associations' \in Seq(Association) /\ Len(associations') = 0
    OBVIOUS
  <2>2. byHandle' \in [Handles -> 0..Capacity] /\ free' \in Seq(1..Capacity) /\ 0 <= Capacity
    BY IocpConstants
  <2> QED BY <2>1, <2>2, Zenon DEF TableInv, TableType, StoragesKept
<1>2. DOMAIN associations' = {} /\ DOMAIN free' = {}
  OBVIOUS
<1>3. SlotsAccounted'
  BY <1>2, Zenon DEF SlotsAccounted
<1>4. SlotsKnown'
  BY <1>2, Zenon DEF SlotsKnown
<1>5. KeysBehind'
  BY Zenon DEF KeysBehind
<1> QED BY <1>1, <1>3, <1>4, <1>5, Zenon DEF TableInv

\* The fields of an operation storage have their types.
LEMMA StorageFacts ==
  ASSUME TableType, NEW i \in ops
  PROVE  /\ storage[i] \in Storage
         /\ storage[i].token \in Token /\ storage[i].key \in Key
         /\ storage[i].key.id \in 1..Capacity /\ storage[i].key.generation \in 1..KeyMax
         /\ storage[i].native \in BOOLEAN
<1>1. storage[i] \in Storage
  BY Zenon DEF TableType
<1> QED BY <1>1, Zenon DEF Storage, Key

\* Erasing storages from operations_ keeps the others.
LEMMA WithoutKeeps ==
  ASSUME TableType, NEW S, storage' = Without(S)
  PROVE  StoragesKept /\ ops' = ops \ S
BY Zenon DEF TableType, Without, StoragesKept, ops

\* close_handle and shutdown erase only storages the OS never saw.
LEMMA MarkCloseRequestedKeeps ==
  ASSUME TableType, NEW S, S \subseteq ops, MarkCloseRequested(S)
  PROVE  StoragesKept /\ ops' = ops \ {i \in S : ~storage[i].native}
<1> DEFINE plain == {i \in S : ~storage[i].native}
<1>1. PICK accepted : storage' = [i \in ops \ plain |->
        [storage[i] EXCEPT !.closeRequested = @ \/ i \in S, !.cancelRequested = @ \/ i \in accepted]]
  BY Zenon DEF MarkCloseRequested
<1> HIDE DEF plain
<1>2. ops' = ops \ plain
  BY <1>1, Zenon DEF ops
<1>3. ASSUME NEW i \in ops
      PROVE  LET e == [storage[i] EXCEPT !.closeRequested = @ \/ i \in S, !.cancelRequested = @ \/ i \in accepted]
             IN  e \in Storage /\ e.key = storage[i].key /\ e.token = storage[i].token
  BY StorageFacts, Zenon DEF Storage
<1>4. StoragesKept
  BY <1>1, <1>2, <1>3, Zenon DEF StoragesKept
<1> QED BY <1>2, <1>4, Zenon DEF plain

------------------------------------------------------------------------------
(* Steps on the table. *)

\* A current token names an open handle and is never the null token.
LEMMA TokenFacts ==
  ASSUME TableType, NEW t \in CurrentTokens
  PROVE  /\ t.handle \in Handles /\ t \in Token /\ t # NoToken /\ IsCurrent(t)
         /\ t = [handle |-> t.handle, generation |-> registry[t.handle].generation]
<1>1. PICK h \in Handles : registry[h].open /\ t = [handle |-> h, generation |-> registry[h].generation]
  BY Zenon DEF CurrentTokens
<1>2. registry[h].generation \in Nat /\ h # 0
  BY IocpConstants, Zenon DEF TableType
<1> QED BY <1>1, <1>2, Zenon DEF Token, NoToken, IsCurrent

\* A key that was behind the slot's entry stays behind the entry that is
\* written when the slot is handed out.
LEMMA BehindNext ==
  ASSUME TableInv, ~TableFull, NEW i \in ops, storage[i].key.id = NextKey.id
  PROVE  storage[i].key.generation < NextKey.generation
<1> DEFINE g == storage[i].key.generation
           e == associations[NextKey.id]
<1>1. NextKey.id \in DOMAIN associations /\ Behind(e, g, storage[i].token)
  BY Zenon DEF TableInv, KeysBehind
<1>2. /\ Usable(NextKey.id)
      /\ NextKey.generation = IF e.bump THEN e.generation + 1 ELSE e.generation
  <2>1. NextKey.id # Len(associations) + 1
    BY <1>1 DEF TableInv, TableType
  <2> QED BY <2>1, NextKeyFacts, Zenon
<1>3. g \in Nat /\ e.generation \in Nat /\ e.bump \in BOOLEAN
  BY <1>1, EntryFacts, StorageFacts, IocpConstants DEF TableInv
<1>4. ~e.open /\ e.reusable
  BY <1>2, Zenon DEF Usable
<1> HIDE DEF g, e
<1>5. g < NextKey.generation
  BY <1>1, <1>2, <1>3, <1>4 DEF Behind
<1> QED BY <1>5, Zenon DEF g

\* SlotsAccounted's condition on the slot a with entry e, for the registry R, the
\* handle index H and the free stack F.
SlotSound(a, e, R, H, F) ==
  \/ /\ e.open /\ e.token.handle \in Handles
     /\ R[e.token.handle].open /\ R[e.token.handle].generation = e.token.generation
     /\ H[e.token.handle] = a /\ \A k \in DOMAIN F : F[k] # a
  \/ ~e.open /\ e.reusable /\ (e.bump => e.generation < KeyMax) /\ \E k \in DOMAIN F : F[k] = a
  \/ ~e.open /\ e.generation = KeyMax /\ \A k \in DOMAIN F : F[k] # a

\* SlotsAccounted, slot by slot.
LEMMA SlotsSound ==
  ASSUME SlotsAccounted, NEW a \in DOMAIN associations
  PROVE  SlotSound(a, associations[a], registry, byHandle, free)
BY Zenon DEF SlotsAccounted, SlotSound, IsCurrent, Usable

\* SlotsAccounted after a step, from its slots.
LEMMA SlotsSoundNext ==
  ASSUME \A j, k \in DOMAIN free' : free'[j] = free'[k] => j = k,
         \A a \in DOMAIN associations' : SlotSound(a, associations'[a], registry', byHandle', free'),
         ~stopped' => \A t \in CurrentTokens' :
           byHandle'[t.handle] # 0 /\ associations'[byHandle'[t.handle]].token = t
  PROVE  SlotsAccounted'
<1>1. ASSUME NEW a \in DOMAIN associations'
      PROVE  \/ associations'[a].open /\ IsCurrent(associations[a].token)'
                  /\ byHandle'[associations'[a].token.handle] = a /\ \A k \in DOMAIN free' : free'[k] # a
             \/ ~associations'[a].open /\ Usable(a)' /\ \E k \in DOMAIN free' : free'[k] = a
             \/ ~associations'[a].open /\ associations'[a].generation = KeyMax
                  /\ \A k \in DOMAIN free' : free'[k] # a
  BY Zenon DEF SlotSound, IsCurrent, Usable
<1> QED BY <1>1, Zenon DEF SlotsAccounted

\* register_handle takes a free slot for the new token.
LEMMA RegisterKeeps ==
  ASSUME TableInv, NEW h \in Handles, RegisterHandle(h)
  PROVE  TableInv'
<1> DEFINE t == [handle |-> h, generation |-> registry[h].generation + 1]
           a0 == NextKey.id
<1>1. /\ ~TableFull /\ ~stopped /\ ~registry[h].open
      /\ registry' = [registry EXCEPT ![h] = [generation |-> t.generation, open |-> TRUE]]
      /\ associations' = WithEntry(NextKey, t, TRUE, FALSE, FALSE)
      /\ free' = Popped /\ byHandle' = [byHandle EXCEPT ![h] = a0]
      /\ UNCHANGED <<storage, stopped>>
  BY Zenon DEF RegisterHandle, CreateAssociation
<1>2. /\ registry \in [Handles -> [generation : Nat, open : BOOLEAN]]
      /\ byHandle \in [Handles -> 0..Capacity] /\ t \in Token /\ t.handle = h
      /\ DOMAIN associations = 1..Len(associations) /\ Len(associations) \in Nat
  BY DEF TableInv, TableType, Token
<1>3. /\ associations' \in Seq(Association) /\ Len(associations') <= Capacity
      /\ DOMAIN associations' = DOMAIN associations \cup {a0}
      /\ associations'[a0] =
           [token |-> t, generation |-> NextKey.generation, open |-> TRUE, reusable |-> FALSE, bump |-> FALSE]
      /\ \A a \in DOMAIN associations : a # a0 => associations'[a] = associations[a]
  <2> HIDE DEF t, a0
  <2>1. ~TableFull /\ t \in Token
    BY <1>1, <1>2, Zenon
  <2>2. /\ WithEntry(NextKey, t, TRUE, FALSE, FALSE) \in Seq(Association)
        /\ Len(WithEntry(NextKey, t, TRUE, FALSE, FALSE)) <= Capacity
        /\ DOMAIN WithEntry(NextKey, t, TRUE, FALSE, FALSE) = DOMAIN associations \cup {NextKey.id}
        /\ WithEntry(NextKey, t, TRUE, FALSE, FALSE)[NextKey.id] =
             [token |-> t, generation |-> NextKey.generation, open |-> TRUE, reusable |-> FALSE, bump |-> FALSE]
        /\ \A a \in DOMAIN associations :
             a # NextKey.id => WithEntry(NextKey, t, TRUE, FALSE, FALSE)[a] = associations[a]
    BY ONLY TableInv, <2>1, WithEntryFacts, Zenon
  <2> QED BY <1>1, <2>2, Zenon DEF a0
<1>4. /\ a0 \in 1..Capacity /\ free' \in Seq(1..Capacity)
      /\ \A j, k \in DOMAIN free' : free'[j] = free'[k] => j = k
      /\ \A k \in DOMAIN free' : free'[k] \in DOMAIN associations /\ free'[k] # a0
      /\ \A k \in DOMAIN free' : \E j \in DOMAIN free : free[j] = free'[k]
      /\ \A j \in DOMAIN free : free[j] # a0 => \E k \in DOMAIN free' : free'[k] = free[j]
  BY <1>1, NextKeyFacts, Zenon DEF Key
<1>5. a0 \in DOMAIN associations => ~associations[a0].open
  <2>1. a0 \in DOMAIN associations => a0 # Len(associations) + 1
    BY <1>2
  <2> QED BY <1>1, <2>1, NextKeyFacts, Zenon DEF Usable
<1>6. /\ associations'[a0].open /\ associations'[a0].token = t
      /\ associations'[a0].generation = NextKey.generation
  BY <1>3
<1>7. /\ registry'[h].open /\ registry'[h].generation = t.generation
      /\ \A g \in Handles : g # h => registry'[g] = registry[g]
      /\ byHandle'[h] = a0 /\ \A g \in Handles : g # h => byHandle'[g] = byHandle[g]
  BY <1>1, <1>2, Zenon
<1>8. registry' \in [Handles -> [generation : Nat, open : BOOLEAN]] /\ byHandle' \in [Handles -> 0..Capacity]
  BY <1>1, <1>2, <1>4
<1> HIDE DEF t, a0
<1>9. TableType'
  BY <1>1, <1>3, <1>4, <1>8, Zenon DEF TableInv, TableType, ops
<1>10. SlotsKnown'
  <2>1. \A k \in DOMAIN free' : free'[k] \in DOMAIN associations'
    BY <1>3, <1>4, Zenon
  <2>2. ASSUME NEW g \in Handles, byHandle'[g] # 0
        PROVE  /\ byHandle'[g] \in DOMAIN associations'
               /\ associations'[byHandle'[g]].open /\ associations'[byHandle'[g]].token.handle = g
    <3>1. CASE g = h
      BY <1>2, <1>3, <1>6, <1>7, <3>1, Zenon
    <3>2. CASE g # h
      <4>1. /\ byHandle[g] \in DOMAIN associations /\ byHandle'[g] = byHandle[g]
            /\ associations[byHandle[g]].open /\ associations[byHandle[g]].token.handle = g
        BY <1>7, <2>2, <3>2, Zenon DEF TableInv, SlotsKnown
      <4> QED BY <1>3, <1>5, <4>1
    <3> QED BY <3>1, <3>2, Zenon
  <2>3. \A a \in DOMAIN associations' : associations'[a].open \/ associations'[a].token = NoToken
    BY <1>3, <1>6, Zenon DEF TableInv, SlotsKnown
  <2> QED BY <2>1, <2>2, <2>3, Zenon DEF SlotsKnown
<1>11. SlotsAccounted'
  <2>1. ASSUME NEW a \in DOMAIN associations'
        PROVE  SlotSound(a, associations'[a], registry', byHandle', free')
    <3>1. CASE a = a0
      BY <1>2, <1>4, <1>6, <1>7, <3>1, Zenon DEF SlotSound
    <3>2. CASE a # a0
      <4>1. /\ a \in DOMAIN associations /\ associations'[a] = associations[a]
            /\ SlotSound(a, associations[a], registry, byHandle, free)
        BY <1>3, <3>2, SlotsSound, Zenon DEF TableInv
      <4>2. /\ (\A k \in DOMAIN free : free[k] # a) => \A k \in DOMAIN free' : free'[k] # a
            /\ (\E k \in DOMAIN free : free[k] = a) => \E k \in DOMAIN free' : free'[k] = a
        BY <1>4, <3>2, Zenon
      <4> QED BY <1>1, <1>7, <4>1, <4>2, ZenonT(30) DEF SlotSound
    <3> QED BY <3>1, <3>2, Zenon
  <2>2. ASSUME NEW u \in CurrentTokens'
        PROVE  byHandle'[u.handle] # 0 /\ associations'[byHandle'[u.handle]].token = u
    <3>1. PICK g \in Handles : registry'[g].open /\ u = [handle |-> g, generation |-> registry'[g].generation]
      BY Zenon DEF CurrentTokens
    <3>2. CASE g = h
      <4>1. u = t
        BY <1>7, <3>1, <3>2, Zenon DEF t
      <4> QED BY <1>4, <1>6, <1>7, <3>1, <3>2, <4>1
    <3>3. CASE g # h
      <4>1. u \in CurrentTokens /\ u.handle = g
        BY <1>7, <3>1, <3>3, Zenon DEF CurrentTokens
      <4>2. byHandle[g] # 0 /\ associations[byHandle[g]].token = u
        BY <1>1, <4>1, Zenon DEF TableInv, SlotsAccounted
      <4>3. byHandle[g] \in DOMAIN associations /\ associations[byHandle[g]].open
        BY <4>2, Zenon DEF TableInv, SlotsKnown
      <4> QED BY <1>3, <1>5, <1>7, <3>3, <4>1, <4>2, <4>3
    <3> QED BY <3>2, <3>3, Zenon
  <2> QED BY <1>4, <2>1, <2>2, SlotsSoundNext, Zenon
<1>12. KeysBehind'
  <2> SUFFICES ASSUME NEW i \in ops
               PROVE  /\ storage[i].key.id \in DOMAIN associations'
                      /\ Behind(associations'[storage[i].key.id], storage[i].key.generation, storage[i].token)
    BY <1>1, Zenon DEF KeysBehind, ops, Behind
  <2>1. storage[i].key.id \in DOMAIN associations
        /\ Behind(associations[storage[i].key.id], storage[i].key.generation, storage[i].token)
    BY Zenon DEF TableInv, KeysBehind
  <2>2. CASE storage[i].key.id # a0
    BY <1>3, <2>1, <2>2, Zenon
  <2>3. CASE storage[i].key.id = a0
    <3>1. storage[i].key.generation < NextKey.generation
      BY <1>1, <2>3, BehindNext, Zenon DEF a0
    <3>2. storage[i].key.generation \in Nat /\ NextKey.generation \in Nat
      BY <1>1, NextKeyFacts, StorageFacts, IocpConstants DEF TableInv, Key
    <3> QED BY <1>3, <1>6, <2>3, <3>1, <3>2 DEF Behind
  <2> QED BY <2>2, <2>3, Zenon
<1> QED BY <1>9, <1>10, <1>11, <1>12, Zenon DEF TableInv

\* A refused registration uses up a handle generation but no slot.
LEMMA RegisterFailsKeeps ==
  ASSUME TableInv, NEW h \in Handles, RegisterHandleFails(h)
  PROVE  TableInv'
<1> DEFINE a0 == NextKey.id
<1>1. /\ ~stopped /\ ~registry[h].open /\ registry' = [registry EXCEPT ![h].generation = @ + 1]
      /\ byHandle' = byHandle /\ storage' = storage /\ stopped' = stopped
  BY Zenon DEF RegisterHandleFails, RollbackAssociation
<1>2. /\ registry \in [Handles -> [generation : Nat, open : BOOLEAN]]
      /\ DOMAIN associations = 1..Len(associations) /\ Len(associations) \in Nat
      /\ free \in Seq(1..Capacity) /\ NoToken \in Token
  BY DEF TableInv, TableType, Token, NoToken
<1>3. /\ ~registry'[h].open /\ \A g \in Handles : g # h => registry'[g] = registry[g]
      /\ registry' \in [Handles -> [generation : Nat, open : BOOLEAN]]
  BY <1>1, <1>2
<1>4. CurrentTokens' \subseteq CurrentTokens
  <2> SUFFICES ASSUME NEW u \in CurrentTokens' PROVE u \in CurrentTokens
    BY Zenon
  <2>1. PICK g \in Handles : registry'[g].open /\ u = [handle |-> g, generation |-> registry'[g].generation]
    BY Zenon DEF CurrentTokens
  <2> QED BY <1>3, <2>1, Zenon DEF CurrentTokens
<1>5. CASE TableFull
  <2>1. associations' = associations /\ free' = <<>>
    BY <1>5, Zenon DEF RegisterHandleFails
  <2>2. Len(free) = 0
    BY <1>5, PopAtTop, Zenon DEF TableFull
  <2>3. free' = free
    BY <1>2, <2>1, <2>2
  <2>4. TableType'
    BY <1>1, <1>3, <2>1, <2>3, Zenon DEF TableInv, TableType, ops
  <2>5. SlotsKnown' /\ KeysBehind'
    BY <1>1, <2>1, <2>3, Zenon DEF TableInv, SlotsKnown, KeysBehind, ops
  <2>6. \A a \in DOMAIN associations' : SlotSound(a, associations'[a], registry', byHandle', free')
    <3> SUFFICES ASSUME NEW a \in DOMAIN associations
                 PROVE  SlotSound(a, associations[a], registry', byHandle, free)
      BY <1>1, <2>1, <2>3, Zenon
    <3>1. SlotSound(a, associations[a], registry, byHandle, free)
      BY SlotsSound, Zenon DEF TableInv
    <3> QED BY <1>1, <1>3, <3>1, Zenon DEF SlotSound
  <2>7. SlotsAccounted'
    BY <1>1, <1>4, <2>1, <2>3, <2>6, SlotsSoundNext, Zenon DEF TableInv, SlotsAccounted
  <2> QED BY <2>4, <2>5, <2>7, Zenon DEF TableInv
<1>6. CASE ~TableFull
  <2>1. associations' = WithEntry(NextKey, NoToken, FALSE, TRUE, FALSE) /\ free' = Append(Popped, a0)
    BY <1>6, Zenon DEF RegisterHandleFails, RollbackAssociation
  <2> HIDE DEF a0
  <2>2. /\ WithEntry(NextKey, NoToken, FALSE, TRUE, FALSE) \in Seq(Association)
        /\ Len(WithEntry(NextKey, NoToken, FALSE, TRUE, FALSE)) <= Capacity
        /\ DOMAIN WithEntry(NextKey, NoToken, FALSE, TRUE, FALSE) = DOMAIN associations \cup {NextKey.id}
        /\ WithEntry(NextKey, NoToken, FALSE, TRUE, FALSE)[NextKey.id] =
             [token |-> NoToken, generation |-> NextKey.generation, open |-> FALSE, reusable |-> TRUE, bump |-> FALSE]
        /\ \A a \in DOMAIN associations :
             a # NextKey.id => WithEntry(NextKey, NoToken, FALSE, TRUE, FALSE)[a] = associations[a]
    BY ONLY TableInv, <1>2, <1>6, WithEntryFacts, Zenon
  <2>3. /\ associations' \in Seq(Association) /\ Len(associations') <= Capacity
        /\ DOMAIN associations' = DOMAIN associations \cup {a0}
        /\ associations'[a0].token = NoToken /\ associations'[a0].generation = NextKey.generation
        /\ ~associations'[a0].open /\ associations'[a0].reusable /\ ~associations'[a0].bump
        /\ \A a \in DOMAIN associations : a # a0 => associations'[a] = associations[a]
    <3>1. /\ associations' \in Seq(Association) /\ Len(associations') <= Capacity
          /\ DOMAIN associations' = DOMAIN associations \cup {a0}
          /\ associations'[a0] =
               [token |-> NoToken, generation |-> NextKey.generation, open |-> FALSE, reusable |-> TRUE, bump |-> FALSE]
          /\ \A a \in DOMAIN associations : a # a0 => associations'[a] = associations[a]
      BY <2>1, <2>2, Zenon DEF a0
    <3> QED BY <3>1
  <2>4. /\ NextKey \in Key /\ Popped \in Seq(1..Capacity)
        /\ \A j, k \in DOMAIN Popped : Popped[j] = Popped[k] => j = k
        /\ \A k \in DOMAIN Popped : Popped[k] \in DOMAIN associations /\ Popped[k] # a0
        /\ \A k \in DOMAIN Popped : \E j \in DOMAIN free : free[j] = Popped[k]
        /\ \A j \in DOMAIN free : free[j] # a0 => \E k \in DOMAIN Popped : Popped[k] = free[j]
    BY <1>6, NextKeyFacts, Zenon DEF a0
  <2>5. a0 \in 1..Capacity /\ NextKey.generation \in 1..KeyMax
    BY <2>4, Zenon DEF Key, a0
  <2>6. a0 \in DOMAIN associations => ~associations[a0].open
    <3>1. a0 \in DOMAIN associations => a0 # Len(associations) + 1
      BY <1>2
    <3> QED BY <1>6, <3>1, NextKeyFacts, Zenon DEF Usable, a0
  <2> DEFINE n == Len(Popped) + 1
  <2>7. /\ free' \in Seq(1..Capacity) /\ DOMAIN free' = DOMAIN Popped \cup {n} /\ n \notin DOMAIN Popped
        /\ free'[n] = a0 /\ \A k \in DOMAIN Popped : free'[k] = Popped[k]
    <3>1. \A S : \A s \in Seq(S), x \in S :
            /\ Append(s, x) \in Seq(S) /\ DOMAIN Append(s, x) = DOMAIN s \cup {Len(s) + 1}
            /\ Len(s) + 1 \notin DOMAIN s
            /\ Append(s, x)[Len(s) + 1] = x /\ \A k \in DOMAIN s : Append(s, x)[k] = s[k]
      OBVIOUS
    <3> QED BY <2>1, <2>4, <2>5, <3>1
  <2> HIDE DEF n
  <2>8. TableType'
    BY <1>1, <1>3, <2>3, <2>7, Zenon DEF TableInv, TableType, ops
  <2>9. SlotsKnown'
    <3>1. \A k \in DOMAIN free' : free'[k] \in DOMAIN associations'
      BY <2>3, <2>4, <2>7, Zenon
    <3>2. \A g \in Handles : byHandle[g] # 0 =>
            /\ byHandle[g] \in DOMAIN associations'
            /\ associations'[byHandle[g]].open /\ associations'[byHandle[g]].token.handle = g
      BY <2>3, <2>6, Zenon DEF TableInv, SlotsKnown
    <3>3. \A a \in DOMAIN associations' : associations'[a].open \/ associations'[a].token = NoToken
      BY <2>3, Zenon DEF TableInv, SlotsKnown
    <3> QED BY <1>1, <3>1, <3>2, <3>3, Zenon DEF SlotsKnown
  <2>10. \A a \in DOMAIN associations' : SlotSound(a, associations'[a], registry', byHandle', free')
    <3> SUFFICES ASSUME NEW a \in DOMAIN associations'
                 PROVE  SlotSound(a, associations'[a], registry', byHandle', free')
      BY Zenon
    <3>1. CASE a = a0
      BY <2>3, <2>7, <3>1, Zenon DEF SlotSound
    <3>2. CASE a # a0
      <4>1. /\ a \in DOMAIN associations /\ associations'[a] = associations[a]
            /\ SlotSound(a, associations[a], registry, byHandle, free)
        BY <2>3, <3>2, SlotsSound, Zenon DEF TableInv
      <4>2. /\ (\A k \in DOMAIN free : free[k] # a) => \A k \in DOMAIN free' : free'[k] # a
            /\ (\E k \in DOMAIN free : free[k] = a) => \E k \in DOMAIN free' : free'[k] = a
        BY <2>4, <2>7, <3>2
      <4> QED BY <1>1, <1>3, <4>1, <4>2, Zenon DEF SlotSound
    <3> QED BY <3>1, <3>2, Zenon
  <2>11. SlotsAccounted'
    <3>1. \A j, k \in DOMAIN free' : free'[j] = free'[k] => j = k
      BY <2>4, <2>7, Zenon
    <3>2. ASSUME NEW u \in CurrentTokens'
          PROVE  byHandle'[u.handle] # 0 /\ associations'[byHandle'[u.handle]].token = u
      <4>1. byHandle[u.handle] # 0 /\ associations[byHandle[u.handle]].token = u /\ u.handle \in Handles
        BY <1>1, <1>4, TokenFacts, Zenon DEF TableInv, SlotsAccounted
      <4>2. byHandle[u.handle] \in DOMAIN associations /\ associations[byHandle[u.handle]].open
        BY <4>1, Zenon DEF TableInv, SlotsKnown
      <4> QED BY <1>1, <2>3, <2>6, <4>1, <4>2, Zenon
    <3> QED BY <2>10, <3>1, <3>2, SlotsSoundNext, Zenon
  <2>12. KeysBehind'
    <3> SUFFICES ASSUME NEW i \in ops
                 PROVE  /\ storage[i].key.id \in DOMAIN associations'
                        /\ Behind(associations'[storage[i].key.id], storage[i].key.generation, storage[i].token)
      BY <1>1, Zenon DEF KeysBehind, ops, Behind
    <3>1. storage[i].key.id \in DOMAIN associations
          /\ Behind(associations[storage[i].key.id], storage[i].key.generation, storage[i].token)
      BY Zenon DEF TableInv, KeysBehind
    <3>2. CASE storage[i].key.id # a0
      BY <2>3, <3>1, <3>2, Zenon
    <3>3. CASE storage[i].key.id = a0
      <4>1. storage[i].key.generation < NextKey.generation
        BY <1>6, <3>3, BehindNext, Zenon DEF a0
      <4>2. storage[i].key.generation \in Nat /\ NextKey.generation \in Nat
        BY <2>5, StorageFacts, IocpConstants DEF TableInv
      <4> QED BY <2>3, <3>3, <4>1, <4>2 DEF Behind
    <3> QED BY <3>2, <3>3, Zenon
  <2> QED BY <2>8, <2>9, <2>11, <2>12, Zenon DEF TableInv
<1> QED BY <1>5, <1>6, Zenon

\* A submission records the key of the open slot of its own handle.
LEMMA SubmitKeeps ==
  ASSUME TableInv, NEW i, NEW t \in CurrentTokens, Submit(i, t)
  PROVE  TableInv'
<1> DEFINE a == byHandle[t.handle]
           s == [token |-> t, key |-> [id |-> a, generation |-> associations[a].generation],
                 reason |-> "none", cancelRequested |-> FALSE, closeRequested |-> FALSE, native |-> FALSE]
<1>1. /\ a # 0 /\ associations[a].open /\ associations[a].token = t
      /\ storage' = [j \in ops \cup {i} |-> IF j = i THEN s ELSE storage[j]]
      /\ registry' = registry /\ associations' = associations /\ free' = free
      /\ byHandle' = byHandle /\ stopped' = stopped
  BY Zenon DEF Submit, table
<1>2. t \in Token /\ t.handle \in Handles
  BY TokenFacts, Zenon DEF TableInv
<1>3. a \in DOMAIN associations
  BY <1>1, <1>2, Zenon DEF TableInv, SlotsKnown
<1>4. associations[a].generation \in 1..KeyMax /\ a \in 1..Capacity
  BY <1>1, <1>2, <1>3, EntryFacts DEF TableInv, TableType
<1>5. s \in Storage /\ s.token = t /\ s.key.id = a /\ s.key.generation = associations[a].generation
  BY <1>2, <1>4, Zenon DEF Storage, Key
<1> HIDE DEF s, a
<1>6. ops' = ops \cup {i} /\ storage'[i] = s /\ \A j \in ops : j # i => storage'[j] = storage[j]
  BY <1>1, Zenon DEF ops
<1>7. storage' \in [ops' -> Storage]
  <2>1. \A j \in ops : storage[j] \in Storage
    BY Zenon DEF TableInv, TableType
  <2> QED BY <1>1, <1>5, <1>6, <2>1, Zenon
<1>8. TableType'
  BY <1>1, <1>7, Zenon DEF TableInv, TableType
<1>9. SlotsAccounted'
  BY <1>1, SMTT(30) DEF TableInv, SlotsAccounted, Usable, IsCurrent, CurrentTokens
<1>10. SlotsKnown'
  BY <1>1, Zenon DEF TableInv, SlotsKnown
<1>11. KeysBehind'
  <2> SUFFICES ASSUME NEW j \in ops'
               PROVE  /\ storage'[j].key.id \in DOMAIN associations
                      /\ Behind(associations[storage'[j].key.id], storage'[j].key.generation, storage'[j].token)
    BY <1>1, Zenon DEF KeysBehind, Behind
  <2>1. CASE j = i
    <3>1. associations[a].generation <= associations[a].generation
      BY <1>4, IocpConstants
    <3> QED BY <1>1, <1>3, <1>5, <1>6, <2>1, <3>1, Zenon DEF Behind
  <2>2. CASE j # i
    BY <1>6, <2>2, Zenon DEF TableInv, KeysBehind
  <2> QED BY <2>1, <2>2, Zenon
<1> QED BY <1>8, <1>9, <1>10, <1>11, Zenon DEF TableInv

\* Closing a handle closes its slot and no other, and puts it on the free stack
\* unless its generations are used up.
LEMMA CloseKeeps ==
  ASSUME TableInv, NEW t \in CurrentTokens, CloseHandle(t)
  PROVE  TableInv'
<1> DEFINE h == t.handle
           b == byHandle[h]
           again == associations[b].generation < KeyMax
<1>1. /\ ~stopped /\ stopped' = stopped /\ CloseAssociation(t)
      /\ registry' = [registry EXCEPT ![h].open = FALSE]
      /\ MarkCloseRequested({i \in ops : storage[i].token = t})
  BY Zenon DEF CloseHandle
<1>2. h \in Handles /\ t \in Token /\ t # NoToken /\ t = [handle |-> h, generation |-> registry[h].generation]
  BY TokenFacts, Zenon DEF TableInv
<1>3. b # 0 /\ associations[b].token = t
  BY <1>1, Zenon DEF TableInv, SlotsAccounted
<1>4. b \in DOMAIN associations /\ associations[b].open /\ b \in 1..Capacity
  BY <1>2, <1>3 DEF TableInv, SlotsKnown, TableType
<1>5. /\ associations' = [associations EXCEPT ![b] =
           [@ EXCEPT !.token = NoToken, !.open = FALSE, !.reusable = again, !.bump = again]]
      /\ free' = IF again THEN Append(free, b) ELSE free
      /\ byHandle' = [byHandle EXCEPT ![h] = 0]
  BY <1>1, <1>3, Zenon DEF CloseAssociation
<1>6. StoragesKept
  BY <1>1, MarkCloseRequestedKeeps, Zenon DEF TableInv
<1>7. /\ registry \in [Handles -> [generation : Nat, open : BOOLEAN]]
      /\ associations \in Seq(Association) /\ Len(associations) <= Capacity
      /\ byHandle \in [Handles -> 0..Capacity] /\ free \in Seq(1..Capacity)
  BY Zenon DEF TableInv, TableType
<1>8. /\ registry' \in [Handles -> [generation : Nat, open : BOOLEAN]]
      /\ ~registry'[h].open /\ \A g \in Handles : g # h => registry'[g] = registry[g]
      /\ byHandle' \in [Handles -> 0..Capacity]
      /\ byHandle'[h] = 0 /\ \A g \in Handles : g # h => byHandle'[g] = byHandle[g]
  <2>1. 0 \in 0..Capacity
    BY IocpConstants
  <2> HIDE DEF h
  <2>2. /\ registry' \in [Handles -> [generation : Nat, open : BOOLEAN]]
        /\ ~registry'[h].open /\ \A g \in Handles : g # h => registry'[g] = registry[g]
    BY <1>1, <1>2, <1>7, Zenon
  <2> QED BY <1>2, <1>5, <1>7, <2>1, <2>2, Zenon
<1> HIDE DEF b, h
<1>9. /\ associations[b] \in Association /\ associations[b].generation \in 1..KeyMax
  BY <1>4, EntryFacts, Zenon DEF TableInv
<1> DEFINE e == [associations[b] EXCEPT !.token = NoToken, !.open = FALSE, !.reusable = again, !.bump = again]
<1>10. /\ e \in Association /\ e.token = NoToken /\ ~e.open /\ e.reusable = again /\ e.bump = again
       /\ e.generation = associations[b].generation
  <2>1. again \in BOOLEAN /\ NoToken \in Token
    BY DEF Token, NoToken
  <2> HIDE DEF again
  <2> QED BY <1>9, <2>1, Zenon DEF Association
<1>11. associations' = [associations EXCEPT ![b] = e]
  BY <1>5, Zenon
<1> HIDE DEF e
<1>12. /\ associations' \in Seq(Association) /\ Len(associations') <= Capacity
       /\ DOMAIN associations' = DOMAIN associations
       /\ associations'[b] = e /\ \A a \in DOMAIN associations : a # b => associations'[a] = associations[a]
  BY <1>4, <1>7, <1>10, <1>11
<1>13. \A k \in DOMAIN free : free[k] # b
  BY <1>4, Zenon DEF TableInv, SlotsAccounted
<1> DEFINE n == Len(free) + 1
<1>14. /\ free' \in Seq(1..Capacity)
       /\ \A k \in DOMAIN free : k \in DOMAIN free' /\ free'[k] = free[k]
       /\ again => DOMAIN free' = DOMAIN free \cup {n} /\ n \notin DOMAIN free /\ free'[n] = b
       /\ ~again => DOMAIN free' = DOMAIN free
  <2>1. \A S : \A s \in Seq(S), x \in S :
          /\ Append(s, x) \in Seq(S) /\ DOMAIN Append(s, x) = DOMAIN s \cup {Len(s) + 1}
          /\ Len(s) + 1 \notin DOMAIN s
          /\ Append(s, x)[Len(s) + 1] = x /\ \A k \in DOMAIN s : Append(s, x)[k] = s[k]
    OBVIOUS
  <2> HIDE DEF again
  <2>2. CASE again
    BY <1>4, <1>5, <1>7, <2>1, <2>2
  <2>3. CASE ~again
    BY <1>5, <1>7, <2>3, Zenon
  <2> QED BY <2>2, <2>3, Zenon
<1> HIDE DEF n
<1>15. \A g \in Handles : g # h /\ byHandle[g] # 0 => byHandle[g] # b
  BY <1>2, <1>3, ZenonT(60) DEF TableInv, SlotsKnown, h
<1>16. TableType'
  BY <1>6, <1>8, <1>12, <1>14, Zenon DEF TableType, StoragesKept
<1>17. SlotsKnown'
  <2>1. \A k \in DOMAIN free' : free'[k] \in DOMAIN associations'
    BY <1>4, <1>12, <1>14 DEF TableInv, SlotsKnown
  <2>2. \A g \in Handles : byHandle'[g] # 0 =>
          /\ byHandle'[g] \in DOMAIN associations'
          /\ associations'[byHandle'[g]].open /\ associations'[byHandle'[g]].token.handle = g
    BY <1>8, <1>12, <1>15 DEF TableInv, SlotsKnown
  <2>3. \A a \in DOMAIN associations' : associations'[a].open \/ associations'[a].token = NoToken
    BY <1>10, <1>12, Zenon DEF TableInv, SlotsKnown
  <2> QED BY <2>1, <2>2, <2>3, Zenon DEF SlotsKnown
<1>18. \A a \in DOMAIN associations' : SlotSound(a, associations'[a], registry', byHandle', free')
  <2> SUFFICES ASSUME NEW a \in DOMAIN associations
               PROVE  SlotSound(a, associations'[a], registry', byHandle', free')
    BY <1>12, Zenon
  <2>1. CASE a = b
    <3>1. CASE again
      BY <1>10, <1>12, <1>14, <2>1, <3>1, Zenon DEF SlotSound
    <3>2. CASE ~again
      <4>1. e.generation = KeyMax
        BY <1>9, <1>10, <3>2, IocpConstants
      <4> QED BY <1>10, <1>12, <1>13, <1>14, <2>1, <3>2, <4>1, Zenon DEF SlotSound
    <3> QED BY <3>1, <3>2, Zenon
  <2>2. CASE a # b
    <3>1. associations'[a] = associations[a] /\ SlotSound(a, associations[a], registry, byHandle, free)
      BY <1>12, <2>2, SlotsSound, Zenon DEF TableInv
    <3>2. /\ (\A k \in DOMAIN free : free[k] # a) => \A k \in DOMAIN free' : free'[k] # a
          /\ (\E k \in DOMAIN free : free[k] = a) => \E k \in DOMAIN free' : free'[k] = a
      BY <1>14, <2>2, Zenon
    <3>3. associations[a].token.handle = h => byHandle[associations[a].token.handle] # a
      BY <2>2, Zenon DEF b
    <3> QED BY <1>8, <3>1, <3>2, <3>3 DEF SlotSound
  <2> QED BY <2>1, <2>2, Zenon
<1>19. SlotsAccounted'
  <2>1. \A j, k \in DOMAIN free' : free'[j] = free'[k] => j = k
    BY <1>13, <1>14 DEF TableInv, SlotsAccounted
  <2>2. ASSUME NEW u \in CurrentTokens'
        PROVE  byHandle'[u.handle] # 0 /\ associations'[byHandle'[u.handle]].token = u
    <3>1. PICK g \in Handles : registry'[g].open /\ u = [handle |-> g, generation |-> registry'[g].generation]
      BY Zenon DEF CurrentTokens
    <3>2. g # h /\ u \in CurrentTokens /\ u.handle = g
      BY <1>8, <3>1, Zenon DEF CurrentTokens
    <3>3. byHandle[g] # 0 /\ associations[byHandle[g]].token = u /\ byHandle[g] \in DOMAIN associations
      BY <1>1, <3>2, Zenon DEF TableInv, SlotsAccounted, SlotsKnown
    <3> QED BY <1>8, <1>12, <1>15, <3>2, <3>3, Zenon
  <2> QED BY <1>18, <2>1, <2>2, SlotsSoundNext, Zenon
<1>20. KeysBehind'
  <2> SUFFICES ASSUME NEW i \in ops'
               PROVE  /\ storage'[i].key.id \in DOMAIN associations'
                      /\ Behind(associations'[storage'[i].key.id], storage'[i].key.generation, storage'[i].token)
    BY Zenon DEF KeysBehind, Behind
  <2>1. i \in ops /\ storage'[i].key = storage[i].key /\ storage'[i].token = storage[i].token
    BY <1>6, Zenon DEF StoragesKept
  <2>2. storage[i].key.id \in DOMAIN associations
        /\ Behind(associations[storage[i].key.id], storage[i].key.generation, storage[i].token)
    BY <2>1, Zenon DEF TableInv, KeysBehind
  <2>3. CASE storage[i].key.id = b
    BY <1>10, <1>12, <2>1, <2>2, <2>3, Zenon DEF Behind
  <2>4. CASE storage[i].key.id # b
    BY <1>12, <2>1, <2>2, <2>4, Zenon
  <2> QED BY <2>3, <2>4, Zenon
<1> QED BY <1>16, <1>17, <1>19, <1>20, Zenon DEF TableInv

------------------------------------------------------------------------------
(* The invariant. *)

\* The constructor leaves an empty table.
LEMMA InitInv ==
  Init => TableInv
<1> SUFFICES ASSUME Init PROVE TableInv
  BY Zenon
<1>1. DOMAIN associations = {} /\ DOMAIN free = {} /\ ops = {}
  BY DEF Init, ops
<1>2. TableType
  <2>1. /\ associations \in Seq(Association) /\ Len(associations) = 0 /\ free \in Seq(1..Capacity)
        /\ registry \in [Handles -> [generation : Nat, open : BOOLEAN]]
    BY DEF Init
  <2>2. byHandle \in [Handles -> 0..Capacity] /\ 0 <= Capacity
    BY IocpConstants DEF Init
  <2>3. storage \in [ops -> Storage]
    BY <1>1, Zenon DEF Init, ops
  <2> QED BY <2>1, <2>2, <2>3, Zenon DEF TableType
<1>3. SlotsAccounted
  BY <1>1, Zenon DEF Init, SlotsAccounted, CurrentTokens
<1>4. SlotsKnown /\ KeysBehind
  BY <1>1, Zenon DEF Init, SlotsKnown, KeysBehind
<1> QED BY <1>2, <1>3, <1>4, Zenon DEF TableInv

\* Either the table is untouched, or the port of a stopped backend is closed
\* after the last storage.
LEMMA ClosePortKeeps ==
  ASSUME TableInv, NEW S, MaybeClosePort(S, stopped'), registry' = registry, stopped => stopped',
         StoragesKept, ops' = ops \ S
  PROVE  TableInv'
<1>1. CASE stopped' /\ ops \subseteq S
  <2>1. associations' = <<>> /\ free' = <<>> /\ byHandle' = [h \in Handles |-> 0] /\ ops' = {}
    BY <1>1, Zenon DEF MaybeClosePort
  <2> QED BY <1>1, <2>1, TableCleared, Zenon
<1>2. CASE ~(stopped' /\ ops \subseteq S)
  <2>1. UNCHANGED <<registry, table>>
    BY <1>2, Zenon DEF MaybeClosePort
  <2> QED BY <2>1, TableSame, Zenon
<1> QED BY <1>1, <1>2, Zenon

\* Changing the flags of one storage keeps its key and token.
LEMMA FlagsKept ==
  ASSUME TableType, NEW i \in ops, NEW s, storage' = [storage EXCEPT ![i] = s],
         s \in Storage, s.key = storage[i].key, s.token = storage[i].token
  PROVE  StoragesKept
<1>1. ops' = ops /\ storage'[i] = s /\ \A j \in ops : j # i => storage'[j] = storage[j]
  BY Zenon DEF ops, TableType
<1>2. storage' \in [ops' -> Storage]
  BY <1>1, Zenon DEF TableType
<1> QED BY <1>1, <1>2, Zenon DEF StoragesKept

\* cancel erases a plain storage or changes the flags of a native one.
LEMMA CancelKeeps ==
  ASSUME TableInv, NEW i, NEW r \in Reasons, Cancel(i, r)
  PROVE  TableInv'
<1> DEFINE first == IF storage[i].reason = "none" THEN r ELSE storage[i].reason
<1>1. i \in ops /\ UNCHANGED <<registry, table>> /\ stopped' = stopped
  BY Zenon DEF Cancel
<1>2. CASE ~storage[i].native
  <2>1. storage' = Without({i})
    BY <1>2, Zenon DEF Cancel
  <2>2. StoragesKept
    BY <2>1, WithoutKeeps, Zenon DEF TableInv
  <2> QED BY <1>1, <2>2, TableSame, Zenon
<1>3. CASE storage[i].native
  <2>1. PICK accepted : storage' = [storage EXCEPT ![i] =
                        [storage[i] EXCEPT !.reason = first, !.cancelRequested = @ \/ i \in accepted]]
    BY <1>3, Zenon DEF Cancel
  <2>2. storage[i] \in Storage
    BY <1>1, StorageFacts, Zenon DEF TableInv
  <2> DEFINE s == [storage[i] EXCEPT !.reason = first, !.cancelRequested = @ \/ i \in accepted]
  <2>3. s \in Storage /\ s.key = storage[i].key /\ s.token = storage[i].token
    <3>1. first \in Reasons \cup {"none"}
      BY <2>2, Zenon DEF Storage
    <3> HIDE DEF first
    <3> QED BY <2>2, <3>1, Zenon DEF Storage
  <2>4. storage' = [storage EXCEPT ![i] = s]
    BY <2>1, Zenon
  <2> HIDE DEF s
  <2>5. StoragesKept
    BY <1>1, <2>3, <2>4, FlagsKept, Zenon DEF TableInv
  <2> QED BY <1>1, <2>5, TableSame, Zenon
<1> QED BY <1>2, <1>3, Zenon

\* mark_iocp_operation_native_submitted sets one flag.
LEMMA NativeSubmitKeeps ==
  ASSUME TableInv, NEW i, NativeSubmit(i)
  PROVE  TableInv'
<1>1. i \in ops /\ UNCHANGED <<registry, table>> /\ stopped' = stopped
      /\ storage' = [storage EXCEPT ![i].native = TRUE]
  BY Zenon DEF NativeSubmit
<1> DEFINE s == [storage[i] EXCEPT !.native = TRUE]
<1>2. s \in Storage /\ s.key = storage[i].key /\ s.token = storage[i].token
  BY <1>1, StorageFacts, Zenon DEF TableInv, Storage
<1>3. storage' = [storage EXCEPT ![i] = s]
  BY <1>1, Zenon
<1> HIDE DEF s
<1>4. StoragesKept
  BY <1>1, <1>2, <1>3, FlagsKept, Zenon DEF TableInv
<1> QED BY <1>1, <1>4, TableSame, Zenon

\* Every call of the backend and every step of the OS keeps the invariant.
LEMMA StepInv ==
  ASSUME TableInv, [Next]_vars
  PROVE  TableInv'
<1>1. ASSUME UNCHANGED <<registry, table, storage, stopped>> PROVE TableInv'
  <2>1. StoragesKept
    BY <1>1, Zenon DEF TableInv, TableType, StoragesKept, ops
  <2> QED BY <1>1, <2>1, TableSame, Zenon
<1>2. ASSUME NEW h \in Handles, RegisterHandle(h) \/ RegisterHandleFails(h) PROVE TableInv'
  BY <1>2, RegisterKeeps, RegisterFailsKeeps, Zenon
<1>3. ASSUME NEW i \in Ids, NEW t \in CurrentTokens, Submit(i, t) PROVE TableInv'
  BY <1>3, SubmitKeeps, Zenon
<1>4. ASSUME NEW i \in Ids, NativeSubmit(i) PROVE TableInv'
  BY <1>4, NativeSubmitKeeps, Zenon
<1>5. ASSUME NEW i \in Ids, NEW r \in Reasons, Cancel(i, r) PROVE TableInv'
  BY <1>5, CancelKeeps, Zenon
<1>6. ASSUME NEW t \in CurrentTokens, CloseHandle(t) PROVE TableInv'
  BY <1>6, CloseKeeps, Zenon
<1>7. ASSUME NEW size \in DrainSizes, DrainCompletions(size) PROVE TableInv'
  BY <1>1, <1>7, Zenon DEF DrainCompletions
<1>8. ASSUME Wake PROVE TableInv'
  BY <1>1, <1>8, Zenon DEF Wake
<1>9. ASSUME NEW i \in Ids, OsFinish(i) PROVE TableInv'
  BY <1>1, <1>9, Zenon DEF OsFinish
<1>10. ASSUME Shutdown PROVE TableInv'
  <2> DEFINE S == {i \in ops : ~storage[i].native}
  <2>1. MarkCloseRequested(ops) /\ stopped' = TRUE /\ MaybeClosePort(S, TRUE) /\ registry' = registry
    BY <1>10, Zenon DEF Shutdown
  <2>2. StoragesKept /\ ops' = ops \ S
    BY <2>1, MarkCloseRequestedKeeps, Zenon DEF TableInv
  <2>3. MaybeClosePort(S, stopped')
    BY <2>1, Zenon
  <2> HIDE DEF S
  <2> QED BY <2>1, <2>2, <2>3, ClosePortKeeps, Zenon
<1>11. ASSUME Poll PROVE TableInv'
  <2>1. PICK done : /\ storage' = Without(done)
                    /\ IF done # {} THEN MaybeClosePort(done, stopped) ELSE UNCHANGED <<table, portOpen>>
    BY <1>11, Zenon DEF Poll
  <2>2. registry' = registry /\ stopped' = stopped
    BY <1>11, Zenon DEF Poll
  <2>3. StoragesKept /\ ops' = ops \ done
    BY <2>1, WithoutKeeps, Zenon DEF TableInv
  <2>4. CASE done # {}
    <3>1. MaybeClosePort(done, stopped')
      BY <2>1, <2>2, <2>4, Zenon
    <3> QED BY <2>2, <2>3, <3>1, ClosePortKeeps, Zenon
  <2>5. CASE done = {}
    <3>1. UNCHANGED <<registry, table>>
      BY <2>1, <2>2, <2>5, Zenon
    <3> QED BY <2>2, <2>3, <3>1, TableSame, Zenon
  <2> QED BY <2>4, <2>5, Zenon
<1>12. ASSUME UNCHANGED vars PROVE TableInv'
  BY <1>1, <1>12, Zenon DEF vars
<1> QED BY <1>2, <1>3, <1>4, <1>5, <1>6, <1>7, <1>8, <1>9, <1>10, <1>11, <1>12, Zenon DEF Next

\* The table, its free stack and its handle index agree in every state of
\* iocp_backend, and the key of every storage is behind its slot's entry.
THEOREM Invariance ==
  Spec => []TableInv
<1> QED BY InitInv, StepInv, PTL DEF Spec

\* create_association, rollback_association and close_association lose and
\* double no slot, and current_handle_for, asked with the key of an operation,
\* never answers with another registration.
THEOREM SlotsNeverShared ==
  Spec => []AssociationsAccounted
<1>1. TableInv => AssociationsAccounted
  <2> SUFFICES ASSUME TableInv, NEW i \in ops
               PROVE  CurrentHandleFor(storage[i].key) \in {NoToken, storage[i].token}
    BY Zenon DEF AssociationsAccounted, TableInv
  <2>1. Behind(associations[storage[i].key.id], storage[i].key.generation, storage[i].token)
    BY Zenon DEF TableInv, KeysBehind
  <2> QED BY <2>1, Zenon DEF CurrentHandleFor, Behind
<1> QED BY <1>1, Invariance, PTL

------------------------------------------------------------------------------
(* Sequences of which some elements are taken out. *)

\* r lists the elements of s at the positions P, the n-th from position f[n].
Listing(f, s, P, r) ==
  /\ f \in [DOMAIN r -> P]
  /\ \A n \in DOMAIN r : r[n] = s[f[n]]
  /\ \A p \in P : \E n \in DOMAIN r : f[n] = p
  /\ \A i, j \in DOMAIN r : f[i] = f[j] => i = j

\* What is kept of a sequence comes from the kept positions, once from each.
LEMMA KeptFrom ==
  ASSUME NEW X, NEW s \in Seq(X), NEW P \in SUBSET DOMAIN s, NEW r \in Kept(s, P)
  PROVE  /\ r \in Seq(X)
         /\ \E f : Listing(f, s, P, r)
<1>0. PICK f \in UNION {[1..n -> P] : n \in 0..Len(s)} :
         /\ r = [n \in DOMAIN f |-> s[f[n]]]
         /\ \A i, j \in DOMAIN f : i < j => f[i] < f[j]
         /\ \A p \in P : \E i \in DOMAIN f : f[i] = p
  BY Zenon DEF Kept
<1>1. PICK m \in 0..Len(s) : f \in [1..m -> P]
  BY <1>0, Zenon
<1>2. m \in Nat /\ \A n \in 1..m : f[n] \in P /\ f[n] \in DOMAIN s /\ s[f[n]] \in X /\ f[n] \in Int
  <2>1. Len(s) \in Nat /\ DOMAIN s = 1..Len(s)
    OBVIOUS
  <2> QED BY <1>1, <2>1
<1>3. DOMAIN f = 1..m /\ DOMAIN r = 1..m /\ \A n \in 1..m : r[n] = s[f[n]]
  BY <1>0, <1>1, Zenon
<1>4. r \in Seq(X)
  <2>1. r = [n \in 1..m |-> s[f[n]]]
    BY <1>0, <1>3, Zenon
  <2>2. r \in [1..m -> X]
    BY <1>2, <2>1, Zenon
  <2>3. m \in Nat
    BY <1>2, Zenon
  <2> QED BY ONLY <2>2, <2>3
<1>5. ASSUME NEW i \in 1..m, NEW j \in 1..m, f[i] = f[j] PROVE i = j
  <2>1. i \in Int /\ j \in Int /\ f[i] \in Int /\ f[j] \in Int
    BY <1>2
  <2>2. (i < j => f[i] < f[j]) /\ (j < i => f[j] < f[i])
    BY <1>0, <1>3, Zenon
  <2> QED BY ONLY <1>5, <2>1, <2>2
<1>6. f \in [DOMAIN r -> P]
  BY <1>1, <1>3, Zenon
<1>7. \A p \in P : \E n \in DOMAIN r : f[n] = p
  BY <1>0, <1>3, Zenon
<1>8. Listing(f, s, P, r)
  BY <1>3, <1>5, <1>6, <1>7, Zenon DEF Listing
<1> QED BY <1>4, <1>8, Zenon

\* The elements that are kept of a sequence of different elements.
LEMMA KeptFacts ==
  ASSUME NEW X, NEW s \in Seq(X), NEW P \in SUBSET DOMAIN s, NEW r \in Kept(s, P),
         \A j, k \in DOMAIN s : s[j] = s[k] => j = k
  PROVE  /\ r \in Seq(X)
         /\ \A n \in DOMAIN r : \E p \in P : r[n] = s[p]
         /\ \A p \in P : \E n \in DOMAIN r : r[n] = s[p]
         /\ \A j, k \in DOMAIN r : r[j] = r[k] => j = k
<1>1. PICK f : Listing(f, s, P, r)
  BY KeptFrom, Zenon
<1>2. r \in Seq(X)
  BY KeptFrom, Zenon
<1>3. \A n \in DOMAIN r : f[n] \in P /\ f[n] \in DOMAIN s /\ r[n] = s[f[n]]
  BY <1>1, Zenon DEF Listing
<1>4. \A p \in P : \E n \in DOMAIN r : r[n] = s[p]
  <2> SUFFICES ASSUME NEW p \in P PROVE \E n \in DOMAIN r : r[n] = s[p]
    BY Zenon
  <2>1. PICK n \in DOMAIN r : f[n] = p
    BY <1>1, Zenon DEF Listing
  <2> QED BY <1>3, <2>1, Zenon
<1>5. ASSUME NEW j \in DOMAIN r, NEW k \in DOMAIN r, r[j] = r[k] PROVE j = k
  <2>1. f[j] = f[k]
    <3>1. s[f[j]] = s[f[k]] /\ f[j] \in DOMAIN s /\ f[k] \in DOMAIN s
      BY <1>3, <1>5, Zenon
    <3> QED BY <3>1, Zenon
  <2> QED BY <1>1, <2>1, Zenon DEF Listing
<1> QED BY <1>2, <1>3, <1>4, <1>5, Zenon

\* Concatenation unites the ids.
LEMMA ConcatFacts ==
  ASSUME NEW T, NEW s \in Seq(T), NEW t \in Seq(T)
  PROVE  /\ s \o t \in Seq(T)
         /\ IdsOf(s \o t) = IdsOf(s) \cup IdsOf(t)
         /\ \A n \in DOMAIN s : n \in DOMAIN (s \o t) /\ (s \o t)[n] = s[n]
         /\ Distinct(s) /\ Distinct(t) /\ IdsOf(s) \cap IdsOf(t) = {} => Distinct(s \o t)
<1> DEFINE u == s \o t
<1>1. /\ u \in Seq(T) /\ Len(s) \in Nat /\ Len(t) \in Nat
      /\ DOMAIN u = 1..(Len(s) + Len(t)) /\ DOMAIN s = 1..Len(s) /\ DOMAIN t = 1..Len(t)
      /\ \A n \in 1..Len(s) : u[n] = s[n]
      /\ \A n \in (Len(s) + 1)..(Len(s) + Len(t)) : u[n] = t[n - Len(s)]
  OBVIOUS
<1> HIDE DEF u
<1>2. \A n \in DOMAIN t : n + Len(s) \in DOMAIN u /\ u[n + Len(s)] = t[n]
  BY <1>1
<1>3. \A n \in DOMAIN u : n \in DOMAIN s \/ n - Len(s) \in DOMAIN t
  BY <1>1
<1>4. \A n \in DOMAIN s : n \in DOMAIN u
  BY <1>1
<1>5. \A n \in DOMAIN u : n \notin DOMAIN s => u[n] = t[n - Len(s)] /\ n \in Int
  BY <1>1
<1>6. IdsOf(u) = IdsOf(s) \cup IdsOf(t)
  <2>1. IdsOf(u) \subseteq IdsOf(s) \cup IdsOf(t)
    <3> SUFFICES ASSUME NEW n \in DOMAIN u PROVE u[n].id \in IdsOf(s) \cup IdsOf(t)
      BY Zenon DEF IdsOf
    <3>1. CASE n \in DOMAIN s
      BY <3>1, <1>1, Zenon DEF IdsOf
    <3>2. CASE n \notin DOMAIN s
      BY <3>2, <1>3, <1>5, Zenon DEF IdsOf
    <3> QED BY <3>1, <3>2, Zenon
  <2>2. IdsOf(s) \subseteq IdsOf(u)
    <3> SUFFICES ASSUME NEW n \in DOMAIN s PROVE s[n].id \in IdsOf(u)
      BY Zenon DEF IdsOf
    <3>1. n \in DOMAIN u /\ u[n] = s[n]
      BY <1>1, <1>4, Zenon
    <3> QED BY <3>1, Zenon DEF IdsOf
  <2>3. IdsOf(t) \subseteq IdsOf(u)
    <3> SUFFICES ASSUME NEW n \in DOMAIN t PROVE t[n].id \in IdsOf(u)
      BY Zenon DEF IdsOf
    <3> QED BY <1>2, Zenon DEF IdsOf
  <2> QED BY <2>1, <2>2, <2>3, Zenon
<1>7. ASSUME Distinct(s), Distinct(t), IdsOf(s) \cap IdsOf(t) = {} PROVE Distinct(u)
  <2> SUFFICES ASSUME NEW a \in DOMAIN u, NEW b \in DOMAIN u, u[a].id = u[b].id PROVE a = b
    BY Zenon DEF Distinct
  <2>1. CASE a \in DOMAIN s /\ b \in DOMAIN s
    BY <2>1, <1>1, <1>7, Zenon DEF Distinct
  <2>2. CASE a \notin DOMAIN s /\ b \notin DOMAIN s
    <3>1. a - Len(s) = b - Len(s)
      BY <2>2, <1>3, <1>5, <1>7, Zenon DEF Distinct
    <3> QED BY <3>1, <2>2, <1>1, <1>5
  <2>3. ASSUME NEW x \in DOMAIN s, NEW y \in DOMAIN u, y \notin DOMAIN s PROVE u[x].id # u[y].id
    <3>1. u[x].id \in IdsOf(s)
      BY <1>1, Zenon DEF IdsOf
    <3>2. u[y].id \in IdsOf(t)
      BY <2>3, <1>3, <1>5, Zenon DEF IdsOf
    <3> QED BY <3>1, <3>2, <1>7, Zenon
  <2> QED BY <2>1, <2>2, <2>3, Zenon
<1>8. \A n \in DOMAIN s : n \in DOMAIN u /\ u[n] = s[n]
  BY <1>1, <1>4, Zenon
<1> QED BY <1>1, <1>6, <1>7, <1>8, Zenon DEF u

\* What is left of a sequence without its first n elements.
Rest(s, n) == SubSeq(s, n + 1, Len(s))

\* What is left of a listing after its first n entries were drained.
LEMMA SuffixFacts ==
  ASSUME NEW T, NEW s \in Seq(T), NEW n \in 0..Len(s)
  PROVE  /\ Rest(s, n) \in Seq(T) /\ Len(Rest(s, n)) = Len(s) - n
         /\ DOMAIN Rest(s, n) = 1..(Len(s) - n)
         /\ \A k \in DOMAIN Rest(s, n) : k + n \in (n + 1)..Len(s) /\ Rest(s, n)[k] = s[k + n]
         /\ \A k \in (n + 1)..Len(s) : k - n \in DOMAIN Rest(s, n) /\ Rest(s, n)[k - n] = s[k]
         /\ Distinct(s) => /\ Distinct(Rest(s, n))
                           /\ IdsOf(Rest(s, n)) = IdsOf(s) \ {s[k].id : k \in 1..n}
<1> DEFINE u == Rest(s, n)
<1>1. /\ u \in Seq(T) /\ Len(u) = Len(s) - n /\ DOMAIN u = 1..(Len(s) - n)
      /\ Len(s) \in Nat /\ n \in Nat /\ DOMAIN s = 1..Len(s)
      /\ \A k \in DOMAIN u : u[k] = s[k + n]
  BY DEF Rest
<1> HIDE DEF u
<1>0. \A L, m \in Nat :
        /\ \A k \in 1..(L - m) : k + m \in (m + 1)..L /\ k + m \in 1..L /\ k \in Int
        /\ \A k \in (m + 1)..L : k - m \in 1..(L - m) /\ (k - m) + m = k /\ k \in Int
        /\ \A k \in 1..L : k \notin 1..m => k \in (m + 1)..L
  OBVIOUS
<1>2. \A k \in DOMAIN u : k + n \in (n + 1)..Len(s)
  BY <1>0, <1>1, Zenon
<1>3. \A k \in (n + 1)..Len(s) : k - n \in DOMAIN u /\ (k - n) + n = k /\ k \in Int
  <2>1. \A k \in (n + 1)..Len(s) : k - n \in 1..(Len(s) - n) /\ (k - n) + n = k /\ k \in Int
    BY ONLY <1>0, <1>1, Zenon
  <2>2. DOMAIN u = 1..(Len(s) - n)
    BY <1>1, Zenon
  <2> QED BY ONLY <2>1, <2>2, Zenon
<1>4. \A k \in (n + 1)..Len(s) : u[k - n] = s[k]
  <2> SUFFICES ASSUME NEW k \in (n + 1)..Len(s) PROVE u[k - n] = s[k]
    BY Zenon
  <2> DEFINE j == k - n
  <2>1. j \in DOMAIN u /\ j + n = k
    BY <1>3, Zenon
  <2> HIDE DEF j
  <2>2. u[j] = s[j + n]
    BY ONLY <2>1, <1>1, Zenon
  <2>3. u[j] = s[k]
    BY ONLY <2>1, <2>2, Zenon
  <2> QED BY <2>3, Zenon DEF j
<1>5. IdsOf(u) = {s[k].id : k \in (n + 1)..Len(s)}
  <2>1. IdsOf(u) \subseteq {s[k].id : k \in (n + 1)..Len(s)}
    BY <1>1, <1>2, Zenon DEF IdsOf
  <2>2. {s[k].id : k \in (n + 1)..Len(s)} \subseteq IdsOf(u)
    BY <1>3, <1>4, ZenonT(60) DEF IdsOf
  <2> QED BY <2>1, <2>2, Zenon
<1>6. ASSUME Distinct(s) PROVE Distinct(u) /\ IdsOf(u) = IdsOf(s) \ {s[k].id : k \in 1..n}
  <2>1. \A j, k \in 1..Len(s) : s[j].id = s[k].id => j = k
    BY <1>1, <1>6, Zenon DEF Distinct
  <2>2. Distinct(u)
    <3> SUFFICES ASSUME NEW a \in DOMAIN u, NEW b \in DOMAIN u, u[a].id = u[b].id PROVE a = b
      BY Zenon DEF Distinct
    <3>1. a + n \in 1..Len(s) /\ b + n \in 1..Len(s) /\ a \in Int /\ b \in Int
      BY <1>0, <1>1, Zenon
    <3>2. a + n = b + n
      BY <3>1, <1>1, <2>1, Zenon
    <3> QED BY ONLY <3>1, <3>2, n \in Nat, <1>1
  <2>3. {s[k].id : k \in (n + 1)..Len(s)} = {s[k].id : k \in 1..Len(s)} \ {s[k].id : k \in 1..n}
    <3>1. ASSUME NEW k \in (n + 1)..Len(s)
          PROVE  k \in 1..Len(s) /\ s[k].id \notin {s[j].id : j \in 1..n}
      <4>1. k \in 1..Len(s) /\ \A j \in 1..n : j \in 1..Len(s) /\ j # k
        BY ONLY Len(s) \in Nat, n \in 0..Len(s), k \in (n + 1)..Len(s)
      <4> QED BY ONLY <4>1, <2>1, Zenon
    <3>2. ASSUME NEW k \in 1..Len(s), k \notin 1..n PROVE k \in (n + 1)..Len(s)
      BY <1>0, <1>1, <3>2, Zenon
    <3> QED BY <3>1, <3>2, Zenon
  <2> QED BY <1>1, <1>5, <2>2, <2>3, Zenon DEF IdsOf
<1> QED BY <1>1, <1>2, <1>3, <1>4, <1>6, Zenon DEF u

------------------------------------------------------------------------------
(* The storages, the OS and the completions. *)

Completion == [id : Ids, result : Result]
NativeOps == {i \in ops : storage[i].native}

OpType ==
  /\ ops \subseteq Ids /\ order \in Seq(Ids) /\ completions \in Seq(Completion)
  /\ active \subseteq Ids /\ inOs \subseteq Ids /\ aborted \subseteq inOs
  /\ port \in Seq(Packet) /\ stopped \in BOOLEAN /\ portOpen \in BOOLEAN

\* The OS works on, or has a packet for, exactly the native storages.
OsAgrees ==
  /\ NativeOps = inOs \cup IdsInPort
  /\ inOs \cap IdsInPort = {} /\ \A j, k \in InPort : port[j].id = port[k].id => j = k
  /\ \A k \in InPort : port[k].key = storage[port[k].id].key

\* An active id has its storage or its completion.
IdsAgree ==
  /\ ops \cap IdsOf(completions) = {} /\ active = ops \cup IdsOf(completions)
  /\ Distinct(completions)

\* The submission order lists the storages, each once.
OrderAgrees ==
  /\ {order[k] : k \in DOMAIN order} = ops
  /\ \A j, k \in DOMAIN order : order[j] = order[k] => j = k

\* The port closes only after a shutdown and after the last storage.
PortAgrees == (ops # {} => portOpen) /\ (~stopped => portOpen)

StoreInv == OpType /\ OsAgrees /\ IdsAgree /\ OrderAgrees /\ PortAgrees

\* The invariant holds what the run checks.
LEMMA StoreInvImplies == ASSUME TableInv, StoreInv PROVE TypeOK /\ StorageOutlivesOs
<1>1. TypeOK
  BY Zenon DEF TableInv, TableType, StoreInv, OpType, TypeOK, Completion
<1>2. StorageOutlivesOs
  BY Zenon DEF StoreInv, OsAgrees, IdsAgree, OrderAgrees, PortAgrees, StorageOutlivesOs, NativeOps
<1> QED BY <1>1, <1>2, Zenon

\* The ids of S got their completions, behind the ones that were there.
Completes(S) ==
  /\ completions' \in Seq(Completion) /\ Distinct(completions')
  /\ IdsOf(completions') = IdsOf(completions) \cup S
  /\ \A n \in DOMAIN completions : n \in DOMAIN completions' /\ completions'[n] = completions[n]

\* Completions of other ids behind those that wait to be drained.
LEMMA CompletingFacts ==
  ASSUME StoreInv, NEW s \in Seq(Completion), Distinct(s), IdsOf(s) \cap IdsOf(completions) = {},
         completions' = completions \o s
  PROVE  Completes(IdsOf(s))
<1>1. completions \in Seq(Completion) /\ Distinct(completions)
  BY Zenon DEF StoreInv, OpType, IdsAgree
<1>2. /\ completions \o s \in Seq(Completion)
      /\ IdsOf(completions \o s) = IdsOf(completions) \cup IdsOf(s)
      /\ \A n \in DOMAIN completions : n \in DOMAIN (completions \o s) /\ (completions \o s)[n] = completions[n]
      /\ Distinct(completions) /\ Distinct(s) /\ IdsOf(completions) \cap IdsOf(s) = {}
           => Distinct(completions \o s)
  BY <1>1, ConcatFacts, Zenon
<1> QED BY <1>1, <1>2, Zenon DEF Completes

\* Storages that are erased leave the submission order, and their ids stay
\* active with a completion.
LEMMA ErasedFacts ==
  ASSUME StoreInv, NEW P \in SUBSET ops, ops' = ops \ P, order' \in OrderWithout(P), Completes(P),
         active' = active
  PROVE  /\ ops' \subseteq Ids /\ order' \in Seq(Ids) /\ completions' \in Seq(Completion)
         /\ active' \subseteq Ids /\ IdsAgree' /\ OrderAgrees'
<1> DEFINE K == {k \in DOMAIN order : order[k] \notin P}
<1>1. /\ order \in Seq(Ids) /\ order' \in Kept(order, K) /\ K \in SUBSET DOMAIN order
      /\ ops \subseteq Ids /\ active \subseteq Ids
  BY Zenon DEF StoreInv, OpType, OrderWithout
<1>2. \A k : k \in K <=> k \in DOMAIN order /\ order[k] \notin P
  BY Zenon
<1> HIDE DEF K
<1>3. \A j, k \in DOMAIN order : order[j] = order[k] => j = k
  BY Zenon DEF StoreInv, OrderAgrees
<1>4. /\ order' \in Seq(Ids)
      /\ \A n \in DOMAIN order' : \E k \in K : order'[n] = order[k]
      /\ \A k \in K : \E n \in DOMAIN order' : order'[n] = order[k]
      /\ \A j, k \in DOMAIN order' : order'[j] = order'[k] => j = k
  BY ONLY <1>1, <1>3, KeptFacts, Zenon
<1>5. \A x : x \in {order[k] : k \in DOMAIN order} <=> x \in ops
  BY Zenon DEF StoreInv, OrderAgrees
<1>6. {order'[k] : k \in DOMAIN order'} = ops'
  <2>1. ASSUME NEW n \in DOMAIN order' PROVE order'[n] \in ops'
    <3>1. PICK k \in K : order'[n] = order[k]
      BY <1>4, <2>1, Zenon
    <3> QED BY <1>2, <1>5, <3>1, Zenon
  <2>2. ASSUME NEW x \in ops' PROVE \E n \in DOMAIN order' : order'[n] = x
    <3>1. PICK k \in DOMAIN order : order[k] = x
      BY <1>5, <2>2, Zenon
    <3>2. k \in K
      BY <1>2, <2>2, <3>1, Zenon
    <3> QED BY <1>4, <3>1, <3>2, Zenon
  <2> QED BY <2>1, <2>2, Zenon
<1>7. OrderAgrees'
  BY <1>4, <1>6, Zenon DEF OrderAgrees
<1>8. IdsAgree'
  BY Zenon DEF StoreInv, IdsAgree, Completes
<1> QED BY <1>1, <1>4, <1>7, <1>8, Zenon DEF Completes

\* The OS's part, when the native storages and their keys stay.
LEMMA OsSame ==
  ASSUME OsAgrees, UNCHANGED <<inOs, port>>, NativeOps' = NativeOps,
         \A i \in NativeOps : storage'[i].key = storage[i].key
  PROVE  OsAgrees'
<1>1. InPort' = InPort /\ IdsInPort' = IdsInPort
  BY Zenon DEF InPort, IdsInPort
<1>2. \A k \in InPort : port[k].id \in NativeOps
  BY Zenon DEF OsAgrees, IdsInPort
<1> QED BY <1>1, <1>2, Zenon DEF OsAgrees

\* The backend's containers, when a step does not touch them.
LEMMA StoreSame ==
  ASSUME StoreInv, UNCHANGED <<storage, order, completions, active, stopped, portOpen, os>>
  PROVE  StoreInv'
<1>1. ops' = ops /\ NativeOps' = NativeOps /\ IdsOf(completions)' = IdsOf(completions)
  BY Zenon DEF ops, NativeOps, IdsOf
<1>2. OsAgrees'
  BY <1>1, OsSame, Zenon DEF StoreInv, os
<1>3. Distinct(completions)' = Distinct(completions)
  BY Zenon DEF Distinct
<1>4. OpType' /\ IdsAgree' /\ PortAgrees'
  BY <1>1, <1>3, Zenon DEF StoreInv, OpType, IdsAgree, PortAgrees, os
<1>5. OrderAgrees'
  BY <1>1, Zenon DEF StoreInv, OrderAgrees
<1> QED BY <1>2, <1>4, <1>5, Zenon DEF StoreInv

\* submit adds a storage the OS does not know yet.
LEMMA SubmitStores ==
  ASSUME TableInv, StoreInv, NEW i \in Ids, NEW t \in CurrentTokens, Submit(i, t)
  PROVE  /\ StoreInv' /\ ops' = ops \cup {i} /\ i \notin ops /\ i \notin IdsOf(completions)
         /\ completions' = completions
<1>1. /\ i \notin active /\ ~stopped /\ order' = Append(order, i) /\ active' = active \cup {i}
      /\ UNCHANGED <<completions, stopped, portOpen, inOs, aborted, port>>
  BY Zenon DEF Submit, os
<1>2. i \notin ops /\ i \notin IdsOf(completions)
  BY <1>1, Zenon DEF StoreInv, IdsAgree
<1>3. /\ ops' = ops \cup {i} /\ storage'[i].native = FALSE
      /\ \A j \in ops : storage'[j] = storage[j]
  <2> DEFINE a == byHandle[t.handle]
             e == [token |-> t, key |-> [id |-> a, generation |-> associations[a].generation],
                   reason |-> "none", cancelRequested |-> FALSE, closeRequested |-> FALSE, native |-> FALSE]
  <2>1. storage' = [j \in ops \cup {i} |-> IF j = i THEN e ELSE storage[j]]
    BY Zenon DEF Submit
  <2>2. e.native = FALSE
    BY Zenon
  <2> HIDE DEF e
  <2> QED BY <1>2, <2>1, <2>2, Zenon DEF ops
<1>4. NativeOps' = NativeOps /\ \A j \in NativeOps : storage'[j].key = storage[j].key
  BY <1>2, <1>3, Zenon DEF NativeOps
<1>5. OsAgrees'
  BY <1>1, <1>4, OsSame, Zenon DEF StoreInv
<1>6. order \in Seq(Ids) /\ {order[k] : k \in DOMAIN order} = ops
      /\ \A j, k \in DOMAIN order : order[j] = order[k] => j = k
  BY Zenon DEF StoreInv, OpType, OrderAgrees
<1>7. /\ order' \in Seq(Ids) /\ DOMAIN order' = DOMAIN order \cup {Len(order) + 1}
      /\ order'[Len(order) + 1] = i /\ \A k \in DOMAIN order : order'[k] = order[k]
  BY <1>1, <1>6
<1>8. \A k \in DOMAIN order : order[k] \in ops
  BY <1>6, Zenon
<1>9. OrderAgrees'
  <2>1. {order'[k] : k \in DOMAIN order'} = ops'
    <3>1. ASSUME NEW k \in DOMAIN order' PROVE order'[k] \in ops'
      BY <1>3, <1>7, <1>8, Zenon
    <3>2. ASSUME NEW x \in ops' PROVE \E k \in DOMAIN order' : order'[k] = x
      <4>1. CASE x = i
        BY <1>7, <4>1, Zenon
      <4>2. CASE x \in ops
        <5>1. PICK k \in DOMAIN order : order[k] = x
          BY <1>6, <4>2, Zenon
        <5> QED BY <1>7, <5>1, Zenon
      <4> QED BY <1>3, <4>1, <4>2, Zenon
    <3> QED BY <3>1, <3>2, Zenon
  <2>2. \A j, k \in DOMAIN order' : order'[j] = order'[k] => j = k
    BY <1>2, <1>6, <1>7, <1>8, Zenon
  <2> QED BY <2>1, <2>2, Zenon DEF OrderAgrees
<1>10. IdsOf(completions)' = IdsOf(completions) /\ Distinct(completions)' = Distinct(completions)
  BY <1>1, Zenon DEF IdsOf, Distinct
<1>11. IdsAgree'
  BY <1>1, <1>2, <1>3, <1>10, Zenon DEF StoreInv, IdsAgree
<1>12. OpType' /\ PortAgrees'
  BY <1>1, <1>3, <1>7, Zenon DEF StoreInv, OpType, PortAgrees
<1> QED BY <1>1, <1>2, <1>3, <1>5, <1>9, <1>11, <1>12, Zenon DEF StoreInv

\* The flags of the storages change, nothing else.
LEMMA FlagsStore ==
  ASSUME StoreInv, ops' = ops, NativeOps' = NativeOps,
         \A i \in NativeOps : storage'[i].key = storage[i].key,
         aborted' \subseteq inOs,
         UNCHANGED <<order, completions, active, stopped, portOpen, inOs, port>>
  PROVE  StoreInv'
<1>1. OsAgrees'
  BY OsSame, Zenon DEF StoreInv
<1>2. IdsOf(completions)' = IdsOf(completions) /\ Distinct(completions)' = Distinct(completions)
  BY Zenon DEF IdsOf, Distinct
<1>3. IdsAgree' /\ OpType' /\ PortAgrees'
  BY <1>2, Zenon DEF StoreInv, IdsAgree, OpType, PortAgrees
<1>4. OrderAgrees'
  BY Zenon DEF StoreInv, OrderAgrees
<1> QED BY <1>1, <1>3, <1>4, Zenon DEF StoreInv

\* From here on the OS may name the storage in a packet.
LEMMA NativeSubmitStores ==
  ASSUME TableInv, StoreInv, NEW i \in Ids, NativeSubmit(i)
  PROVE  StoreInv' /\ ops' = ops /\ completions' = completions
<1>1. /\ i \in ops /\ ~storage[i].native /\ storage' = [storage EXCEPT ![i].native = TRUE]
      /\ inOs' = inOs \cup {i}
      /\ UNCHANGED <<order, completions, active, stopped, portOpen, aborted, port>>
  BY Zenon DEF NativeSubmit
<1>2. storage \in [ops -> Storage] /\ storage[i] \in Storage
  BY <1>1, StorageFacts, Zenon DEF TableInv, TableType
<1>3. /\ ops' = ops /\ storage'[i].native = TRUE /\ storage'[i].key = storage[i].key
      /\ \A j \in ops : j # i => storage'[j] = storage[j]
  BY <1>1, <1>2, Zenon DEF ops, Storage
<1>4. NativeOps' = NativeOps \cup {i} /\ i \notin NativeOps
  BY <1>1, <1>3, Zenon DEF NativeOps
<1>5. InPort' = InPort /\ IdsInPort' = IdsInPort
  BY <1>1, Zenon DEF InPort, IdsInPort
<1>6. \A k \in InPort : port[k].id \in NativeOps /\ port[k].id \in ops /\ port[k].id # i
  <2>1. \A k \in InPort : port[k].id \in IdsInPort
    BY Zenon DEF IdsInPort
  <2>2. IdsInPort \subseteq NativeOps /\ NativeOps \subseteq ops
    BY Zenon DEF StoreInv, OsAgrees, NativeOps
  <2> QED BY <1>4, <2>1, <2>2, Zenon
<1>7. \A k \in InPort : port[k].key = storage'[port[k].id].key
  BY <1>3, <1>6, Zenon DEF StoreInv, OsAgrees
<1>8. inOs' \cap IdsInPort = {}
  BY <1>1, <1>4, Zenon DEF StoreInv, OsAgrees
<1>9. OsAgrees'
  BY <1>1, <1>4, <1>5, <1>7, <1>8, Zenon DEF StoreInv, OsAgrees
<1>10. IdsOf(completions)' = IdsOf(completions) /\ Distinct(completions)' = Distinct(completions)
  BY <1>1, Zenon DEF IdsOf, Distinct
<1>11. IdsAgree' /\ OpType' /\ PortAgrees'
  BY <1>1, <1>3, <1>10, Zenon DEF StoreInv, IdsAgree, OpType, PortAgrees
<1>12. OrderAgrees'
  BY <1>1, <1>3, ZenonT(60) DEF StoreInv, OrderAgrees
<1> QED BY <1>1, <1>3, <1>9, <1>11, <1>12, Zenon DEF StoreInv

\* cancel completes a storage the OS never saw, with a reason of a caller.
LEMMA CancelPlainStores ==
  ASSUME TableInv, StoreInv, NEW i \in Ids, NEW r \in Reasons, Cancel(i, r), ~storage[i].native
  PROVE  StoreInv' /\ i \in ops /\ ops' = ops \ {i} /\ Completes({i})
<1> DEFINE first == IF storage[i].reason = "none" THEN r ELSE storage[i].reason
           s == <<[id |-> i, result |-> first]>>
<1>1. /\ i \in ops /\ completions' = Append(completions, [id |-> i, result |-> first])
      /\ storage' = Without({i}) /\ order' \in OrderWithout({i}) /\ aborted' = aborted
      /\ UNCHANGED <<active, stopped, portOpen, inOs, port>>
  BY Zenon DEF Cancel
<1>2. first \in Reasons
  <2>1. storage[i].reason \in Reasons \cup {"none"}
    BY <1>1, StorageFacts, Zenon DEF TableInv, Storage
  <2> QED BY <2>1, Zenon
<1> HIDE DEF first
<1>3. [id |-> i, result |-> first] \in Completion
  BY <1>2, Zenon DEF Completion, Result
<1>4. s \in Seq(Completion) /\ DOMAIN s = {1} /\ s[1].id = i
  BY <1>3
<1>5. completions' = completions \o s
  BY <1>1, <1>3 DEF StoreInv, OpType
<1> HIDE DEF s
<1>6. Distinct(s) /\ IdsOf(s) = {i}
  BY <1>4, Zenon DEF Distinct, IdsOf
<1>7. IdsOf(s) \cap IdsOf(completions) = {}
  BY <1>1, <1>6, Zenon DEF StoreInv, IdsAgree
<1>8. Completes({i})
  <2>1. Completes(IdsOf(s))
    BY <1>4, <1>5, <1>6, <1>7, CompletingFacts, Zenon
  <2> QED BY <1>6, <2>1, Zenon
<1>9. ops' = ops \ {i} /\ \A j \in ops' : storage'[j] = storage[j]
  BY <1>1, Zenon DEF Without, ops
<1>10. NativeOps' = NativeOps /\ \A j \in NativeOps : storage'[j].key = storage[j].key
  BY <1>9, Zenon DEF NativeOps
<1>11. OsAgrees'
  BY <1>1, <1>10, OsSame, Zenon DEF StoreInv
<1>12. /\ ops' \subseteq Ids /\ order' \in Seq(Ids) /\ completions' \in Seq(Completion)
       /\ active' \subseteq Ids /\ IdsAgree' /\ OrderAgrees'
  BY <1>1, <1>8, <1>9, ErasedFacts, Zenon
<1>13. OpType' /\ PortAgrees'
  BY <1>1, <1>9, <1>12, Zenon DEF StoreInv, OpType, PortAgrees
<1> QED BY <1>1, <1>8, <1>9, <1>11, <1>12, <1>13, Zenon DEF StoreInv

\* cancel marks a storage the OS has.
LEMMA CancelNativeStores ==
  ASSUME TableInv, StoreInv, NEW i \in Ids, NEW r \in Reasons, Cancel(i, r), storage[i].native
  PROVE  StoreInv' /\ ops' = ops /\ completions' = completions
<1> DEFINE first == IF storage[i].reason = "none" THEN r ELSE storage[i].reason
<1>1. i \in ops /\ UNCHANGED <<completions, order, active, stopped, portOpen, inOs, port>>
  BY Zenon DEF Cancel
<1>2. PICK accepted : /\ CancelIoEx(accepted)
                      /\ storage' = [storage EXCEPT ![i] =
                           [storage[i] EXCEPT !.reason = first, !.cancelRequested = @ \/ i \in accepted]]
  BY Zenon DEF Cancel
<1>3. aborted' \subseteq inOs
  BY <1>2, Zenon DEF CancelIoEx, StoreInv, OpType
<1>4. storage \in [ops -> Storage] /\ storage[i] \in Storage
  BY <1>1, StorageFacts, Zenon DEF TableInv, TableType
<1> DEFINE e == [storage[i] EXCEPT !.reason = first, !.cancelRequested = @ \/ i \in accepted]
<1> HIDE DEF first
<1>5. e.native = storage[i].native /\ e.key = storage[i].key
  BY <1>4, Zenon DEF Storage
<1>6. storage' = [storage EXCEPT ![i] = e]
  BY <1>2, Zenon
<1> HIDE DEF e
<1>7. ops' = ops /\ storage'[i] = e /\ \A j \in ops : j # i => storage'[j] = storage[j]
  BY <1>1, <1>4, <1>6, Zenon DEF ops
<1>8. \A j \in ops : storage'[j].native = storage[j].native /\ storage'[j].key = storage[j].key
  BY <1>5, <1>7, Zenon
<1>9. NativeOps' = NativeOps /\ \A j \in NativeOps : storage'[j].key = storage[j].key
  BY <1>7, <1>8, Zenon DEF NativeOps
<1>10. StoreInv'
  BY <1>1, <1>3, <1>7, <1>9, FlagsStore, Zenon
<1> QED BY <1>1, <1>7, <1>10, Zenon

\* close_handle and shutdown complete the storages of S the OS never saw, and
\* leave the others to the OS.
LEMMA MarkCloseRequestedStores ==
  ASSUME TableInv, StoreInv, NEW S \in SUBSET ops, MarkCloseRequested(S), active' = active
  PROVE  LET plain == {i \in S : ~storage[i].native} IN
         /\ ops' = ops \ plain /\ Completes(plain) /\ aborted' \subseteq inOs
         /\ NativeOps' = NativeOps /\ \A j \in NativeOps : storage'[j].key = storage[j].key
         /\ order' \in Seq(Ids) /\ active' \subseteq Ids /\ IdsAgree' /\ OrderAgrees'
<1> DEFINE plain == {i \in S : ~storage[i].native}
           K == {k \in DOMAIN order : order[k] \in plain}
<1>1. PICK accepted \in SUBSET {i \in S \ plain : ~storage[i].cancelRequested}, done \in Kept(order, K) :
        /\ CancelIoEx(accepted)
        /\ completions' = completions \o [n \in DOMAIN done |-> [id |-> done[n], result |-> "closed"]]
        /\ storage' = [i \in ops \ plain |->
             [storage[i] EXCEPT !.closeRequested = @ \/ i \in S, !.cancelRequested = @ \/ i \in accepted]]
        /\ order' \in OrderWithout(plain)
  BY Zenon DEF MarkCloseRequested
<1>2. plain \in SUBSET ops /\ plain \cap NativeOps = {} /\ \A i \in ops : i \notin plain /\ i \in S => storage[i].native
  BY Zenon DEF NativeOps
<1>3. aborted' \subseteq inOs
  BY <1>1, Zenon DEF CancelIoEx, StoreInv, OpType
<1>4. ops' = ops \ plain
  BY <1>1, Zenon DEF ops
<1>5. \A j \in ops \ plain : storage'[j].native = storage[j].native /\ storage'[j].key = storage[j].key
  <2> SUFFICES ASSUME NEW j \in ops \ plain
               PROVE  storage'[j].native = storage[j].native /\ storage'[j].key = storage[j].key
    BY Zenon
  <2>1. storage[j] \in Storage
    BY StorageFacts, Zenon DEF TableInv
  <2>2. storage'[j] = [storage[j] EXCEPT !.closeRequested = @ \/ j \in S, !.cancelRequested = @ \/ j \in accepted]
    BY <1>1, Zenon
  <2> QED BY <2>1, <2>2, Zenon DEF Storage
<1>6. K \in SUBSET DOMAIN order /\ \A k : k \in K <=> k \in DOMAIN order /\ order[k] \in plain
  BY Zenon
<1>7. NativeOps' = NativeOps /\ \A j \in NativeOps : storage'[j].key = storage[j].key
  BY <1>2, <1>4, <1>5, Zenon DEF NativeOps
<1>8. /\ order \in Seq(Ids) /\ \A x : x \in {order[k] : k \in DOMAIN order} <=> x \in ops
      /\ \A j, k \in DOMAIN order : order[j] = order[k] => j = k
  BY Zenon DEF StoreInv, OpType, OrderAgrees
<1> HIDE DEF plain, K
<1>9. /\ done \in Seq(Ids)
      /\ \A n \in DOMAIN done : \E k \in K : done[n] = order[k]
      /\ \A k \in K : \E n \in DOMAIN done : done[n] = order[k]
      /\ \A j, k \in DOMAIN done : done[j] = done[k] => j = k
  <2>1. done \in Kept(order, K)
    BY <1>1, Zenon
  <2> QED BY ONLY <1>6, <1>8, <2>1, KeptFacts, ZenonT(60)
<1> DEFINE s == [n \in DOMAIN done |-> [id |-> done[n], result |-> "closed"]]
<1>10. /\ s \in Seq(Completion) /\ DOMAIN s = DOMAIN done /\ \A n \in DOMAIN done : s[n].id = done[n]
  <2>1. \A n \in DOMAIN done : [id |-> done[n], result |-> "closed"] \in Completion
    BY <1>9 DEF Completion, Result
  <2>2. \A n \in DOMAIN done : s[n].id = done[n]
    BY Zenon
  <2>3. DOMAIN done = 1..Len(done) /\ Len(done) \in Nat
    BY <1>9
  <2>4. s \in [1..Len(done) -> Completion]
    BY <2>1, <2>3, Zenon
  <2> HIDE DEF s
  <2>5. s \in Seq(Completion)
    BY <2>3, <2>4
  <2> QED BY <2>2, <2>3, <2>4, <2>5, Zenon
<1>11. completions' = completions \o s
  BY <1>1, Zenon
<1> HIDE DEF s
<1>12. Distinct(s)
  BY <1>9, <1>10, Zenon DEF Distinct
<1>13. IdsOf(s) = plain
  <2>1. ASSUME NEW n \in DOMAIN s PROVE s[n].id \in plain
    <3>1. n \in DOMAIN done /\ s[n].id = done[n]
      BY <1>10, Zenon
    <3>2. PICK k \in K : done[n] = order[k]
      BY <1>9, <3>1, Zenon
    <3> QED BY <1>6, <3>1, <3>2, Zenon
  <2>2. ASSUME NEW x \in plain PROVE \E n \in DOMAIN s : s[n].id = x
    <3>1. PICK k \in DOMAIN order : order[k] = x
      BY <1>2, <1>8, <2>2, Zenon
    <3>2. k \in K
      BY <1>6, <2>2, <3>1, Zenon
    <3>3. PICK n \in DOMAIN done : done[n] = order[k]
      BY <1>9, <3>2, Zenon
    <3> QED BY <1>10, <3>1, <3>3, Zenon
  <2>3. IdsOf(s) \subseteq plain
    BY <2>1, Zenon DEF IdsOf
  <2>4. plain \subseteq IdsOf(s)
    BY <2>2, Zenon DEF IdsOf
  <2> QED BY <2>3, <2>4, Zenon
<1>14. IdsOf(s) \cap IdsOf(completions) = {}
  BY <1>2, <1>13, Zenon DEF StoreInv, IdsAgree
<1>15. Completes(plain)
  <2>1. Completes(IdsOf(s))
    BY <1>10, <1>11, <1>12, <1>14, CompletingFacts, Zenon
  <2> QED BY <1>13, <2>1, Zenon
<1>16. /\ ops' \subseteq Ids /\ order' \in Seq(Ids) /\ completions' \in Seq(Completion)
       /\ active' \subseteq Ids /\ IdsAgree' /\ OrderAgrees'
  BY <1>1, <1>2, <1>4, <1>15, ErasedFacts, Zenon
<1> QED BY <1>3, <1>4, <1>7, <1>15, <1>16, Zenon DEF plain

\* drain_completions hands out a prefix of the completion queue.
LEMMA DrainMoves ==
  ASSUME StoreInv, NEW size \in DrainSizes, DrainCompletions(size)
  PROVE  \E count \in 0..Len(completions) :
           /\ completions' \in Seq(Completion) /\ Distinct(completions')
           /\ \A k \in DOMAIN completions' :
                k + count \in DOMAIN completions /\ completions'[k] = completions[k + count]
           /\ IdsOf(completions') = IdsOf(completions) \ {completions[k].id : k \in 1..count}
           /\ active' = active \ {completions[k].id : k \in 1..count}
<1> DEFINE count == IF size < Len(completions) THEN size ELSE Len(completions)
<1>1. completions \in Seq(Completion) /\ Distinct(completions)
  BY Zenon DEF StoreInv, OpType, IdsAgree
<1>2. count \in 0..Len(completions) /\ Len(completions) \in Nat
  BY <1>1, IocpConstants
<1>3. /\ completions' = Rest(completions, count)
      /\ active' = active \ {completions[k].id : k \in 1..count}
  BY Zenon DEF DrainCompletions, Rest
<1> HIDE DEF count
<1>4. /\ Rest(completions, count) \in Seq(Completion)
      /\ \A k \in DOMAIN Rest(completions, count) :
           k + count \in (count + 1)..Len(completions) /\ Rest(completions, count)[k] = completions[k + count]
      /\ Distinct(completions) =>
           /\ Distinct(Rest(completions, count))
           /\ IdsOf(Rest(completions, count)) = IdsOf(completions) \ {completions[k].id : k \in 1..count}
  BY <1>1, <1>2, SuffixFacts
<1>5. (count + 1)..Len(completions) \subseteq DOMAIN completions
  BY <1>1, <1>2
<1> QED BY <1>1, <1>2, <1>3, <1>4, <1>5, Zenon

\* drain_completions frees the ids it hands out.
LEMMA DrainStores ==
  ASSUME TableInv, StoreInv, NEW size \in DrainSizes, DrainCompletions(size)
  PROVE  StoreInv'
<1>1. PICK count \in 0..Len(completions) :
         /\ completions' \in Seq(Completion) /\ Distinct(completions')
         /\ IdsOf(completions') = IdsOf(completions) \ {completions[k].id : k \in 1..count}
         /\ active' = active \ {completions[k].id : k \in 1..count}
  BY DrainMoves, Zenon
<1> DEFINE S == {completions[k].id : k \in 1..count}
<1>2. S \subseteq IdsOf(completions)
  <2>1. 1..count \subseteq DOMAIN completions
    BY DEF StoreInv, OpType
  <2> QED BY <2>1, Zenon DEF IdsOf
<1>3. IdsOf(completions') = IdsOf(completions) \ S /\ active' = active \ S
  BY <1>1, Zenon
<1> HIDE DEF S
<1>4. UNCHANGED <<storage, order, stopped, portOpen, inOs, aborted, port>>
  BY Zenon DEF DrainCompletions, os
<1>5. ops' = ops /\ NativeOps' = NativeOps
  BY <1>4, Zenon DEF ops, NativeOps
<1>6. OsAgrees'
  BY <1>4, <1>5, OsSame, Zenon DEF StoreInv
<1>7. IdsAgree'
  BY <1>1, <1>2, <1>3, <1>5, Zenon DEF StoreInv, IdsAgree
<1>8. OpType' /\ PortAgrees'
  BY <1>1, <1>3, <1>4, <1>5, Zenon DEF StoreInv, OpType, PortAgrees
<1>9. OrderAgrees'
  BY <1>4, <1>5, Zenon DEF StoreInv, OrderAgrees
<1> QED BY <1>6, <1>7, <1>8, <1>9, Zenon DEF StoreInv

\* close_handle
LEMMA CloseStores ==
  ASSUME TableInv, StoreInv, NEW t \in CurrentTokens, CloseHandle(t)
  PROVE  StoreInv' /\ \E P \in SUBSET ops : ops' = ops \ P /\ Completes(P)
<1> DEFINE S == {i \in ops : storage[i].token = t}
           P == {i \in S : ~storage[i].native}
<1>1. MarkCloseRequested(S) /\ UNCHANGED <<active, stopped, portOpen, inOs, port>>
  BY Zenon DEF CloseHandle
<1>2. S \in SUBSET ops /\ P \in SUBSET ops
  BY Zenon
<1> HIDE DEF S
<1>3. /\ ops' = ops \ P /\ Completes(P) /\ aborted' \subseteq inOs
      /\ NativeOps' = NativeOps /\ \A j \in NativeOps : storage'[j].key = storage[j].key
      /\ order' \in Seq(Ids) /\ active' \subseteq Ids /\ IdsAgree' /\ OrderAgrees'
  BY <1>1, <1>2, MarkCloseRequestedStores, Zenon
<1> HIDE DEF P
<1>4. OsAgrees'
  BY <1>1, <1>3, OsSame, Zenon DEF StoreInv
<1>5. completions' \in Seq(Completion)
  BY <1>3, Zenon DEF Completes
<1>6. OpType' /\ PortAgrees'
  BY <1>1, <1>3, <1>5, Zenon DEF StoreInv, OpType, PortAgrees
<1> QED BY <1>2, <1>3, <1>4, <1>6, Zenon DEF StoreInv

\* An empty port agrees with an OS that has nothing.
LEMMA OsEmpty ==
  ASSUME NativeOps' = {}, inOs' = {}, port' = <<>>
  PROVE  OsAgrees'
<1>1. DOMAIN port' = {}
  OBVIOUS
<1>2. InPort' = {} /\ IdsInPort' = {}
  BY <1>1, Zenon DEF InPort, IdsInPort
<1> QED BY <1>2, Zenon DEF OsAgrees

\* shutdown closes the port only when the OS has no storage.
LEMMA ShutdownStores ==
  ASSUME TableInv, StoreInv, Shutdown
  PROVE  StoreInv' /\ \E P \in SUBSET ops : ops' = ops \ P /\ Completes(P)
<1> DEFINE P == {i \in ops : ~storage[i].native}
<1>1. /\ MarkCloseRequested(ops) /\ ~stopped /\ stopped' = TRUE /\ active' = active /\ inOs' = inOs
      /\ MaybeClosePort(P, TRUE) /\ port' = IF portOpen' THEN port ELSE <<>>
  BY Zenon DEF Shutdown
<1>2. ops \in SUBSET ops /\ P \in SUBSET ops /\ (ops \subseteq P => NativeOps = {})
  BY Zenon DEF NativeOps
<1>3. /\ ops' = ops \ P /\ Completes(P) /\ aborted' \subseteq inOs
      /\ NativeOps' = NativeOps /\ \A j \in NativeOps : storage'[j].key = storage[j].key
      /\ order' \in Seq(Ids) /\ active' \subseteq Ids /\ IdsAgree' /\ OrderAgrees'
  BY <1>1, <1>2, MarkCloseRequestedStores, Zenon
<1> HIDE DEF P
<1>4. completions' \in Seq(Completion)
  BY <1>3, Zenon DEF Completes
<1>5. portOpen /\ portOpen \in BOOLEAN
  BY <1>1, Zenon DEF StoreInv, PortAgrees, OpType
<1>6. CASE ops \subseteq P
  <2>1. portOpen' = FALSE /\ port' = <<>> /\ NativeOps' = {} /\ ops' = {}
    BY <1>1, <1>2, <1>3, <1>6, Zenon DEF MaybeClosePort
  <2>2. inOs' = {}
    BY <1>1, <1>3, <2>1, Zenon DEF StoreInv, OsAgrees
  <2>3. OsAgrees'
    BY <2>1, <2>2, OsEmpty, Zenon
  <2>4. port' \in Seq(Packet)
    BY <2>1
  <2>5. OpType' /\ PortAgrees'
    BY <1>1, <1>3, <1>4, <2>1, <2>2, <2>4, Zenon DEF StoreInv, OpType, PortAgrees
  <2> QED BY <1>2, <1>3, <2>3, <2>5, Zenon DEF StoreInv
<1>7. CASE ~(ops \subseteq P)
  <2>1. portOpen' = portOpen /\ port' = port
    BY <1>1, <1>5, <1>7, Zenon DEF MaybeClosePort
  <2>2. OsAgrees'
    BY <1>1, <1>3, <2>1, OsSame, Zenon DEF StoreInv
  <2>3. OpType' /\ PortAgrees'
    BY <1>1, <1>3, <1>4, <1>5, <2>1, Zenon DEF StoreInv, OpType, PortAgrees
  <2> QED BY <1>2, <1>3, <2>2, <2>3, Zenon DEF StoreInv
<1> QED BY <1>6, <1>7, Zenon

\* A packet appended to the port.
LEMMA PostFacts ==
  ASSUME OpType, NEW p \in Packet, port' = Append(port, p)
  PROVE  /\ port' \in Seq(Packet) /\ Len(port) + 1 \notin DOMAIN port
         /\ \A k \in InPort : k \in DOMAIN port /\ port'[k] = port[k]
         /\ p.kind = "operation" => InPort' = InPort \cup {Len(port) + 1} /\ port'[Len(port) + 1] = p
         /\ p.kind # "operation" => InPort' = InPort
<1>1. port \in Seq(Packet) /\ Len(port) \in Nat /\ DOMAIN port = 1..Len(port)
  BY DEF OpType
<1>2. /\ port' \in Seq(Packet) /\ DOMAIN port' = 1..(Len(port) + 1)
      /\ port'[Len(port) + 1] = p /\ \A k \in 1..Len(port) : port'[k] = port[k]
  BY <1>1
<1>3. DOMAIN port' = DOMAIN port \cup {Len(port) + 1} /\ Len(port) + 1 \notin DOMAIN port
  BY <1>1, <1>2
<1>4. InPort' = {k \in DOMAIN port' : port'[k].kind = "operation"}
  BY Zenon DEF InPort
<1>5. \A k \in InPort : k \in DOMAIN port /\ port'[k] = port[k]
  BY <1>1, <1>2, Zenon DEF InPort
<1>6. ASSUME p.kind = "operation" PROVE InPort' = InPort \cup {Len(port) + 1}
  BY <1>1, <1>2, <1>3, <1>4, <1>6, Zenon DEF InPort
<1>7. ASSUME p.kind # "operation" PROVE InPort' = InPort
  BY <1>1, <1>2, <1>3, <1>4, <1>7, Zenon DEF InPort
<1> QED BY <1>2, <1>3, <1>5, <1>6, <1>7, Zenon

\* wake queues a packet that names no storage.
LEMMA WakeStores ==
  ASSUME TableInv, StoreInv, Wake
  PROVE  StoreInv' /\ ops' = ops
<1> DEFINE p == [kind |-> "wake"]
<1>1. /\ port' = Append(port, p)
      /\ UNCHANGED <<storage, order, completions, active, stopped, portOpen, inOs, aborted>>
  BY Zenon DEF Wake
<1>2. p \in Packet /\ p.kind # "operation"
  BY Zenon DEF Packet
<1> HIDE DEF p
<1>3. OpType
  BY Zenon DEF StoreInv
<1>4. /\ port' \in Seq(Packet) /\ InPort' = InPort
      /\ \A k \in InPort : k \in DOMAIN port /\ port'[k] = port[k]
  BY <1>1, <1>2, <1>3, PostFacts, Zenon
<1>5. IdsInPort' = {port'[k].id : k \in InPort'} /\ IdsInPort = {port[k].id : k \in InPort}
  BY Zenon DEF IdsInPort
<1>6. IdsInPort' = IdsInPort
  BY <1>4, <1>5, Zenon
<1>7. ops' = ops /\ NativeOps' = NativeOps /\ IdsOf(completions)' = IdsOf(completions)
      /\ Distinct(completions)' = Distinct(completions)
  BY <1>1, Zenon DEF ops, NativeOps, IdsOf, Distinct
<1>8. OsAgrees'
  BY <1>1, <1>4, <1>6, <1>7 DEF StoreInv, OsAgrees
<1>9. OpType' /\ IdsAgree' /\ PortAgrees'
  BY <1>1, <1>4, <1>7, Zenon DEF StoreInv, OpType, IdsAgree, PortAgrees
<1>10. OrderAgrees'
  BY <1>1, <1>7, Zenon DEF StoreInv, OrderAgrees
<1> QED BY <1>7, <1>8, <1>9, <1>10, Zenon DEF StoreInv

\* The OS ends an operation: its id moves from the OS's work to a packet.
LEMMA OsFinishStores ==
  ASSUME TableInv, StoreInv, NEW i \in Ids, OsFinish(i)
  PROVE  StoreInv' /\ ops' = ops
<1>1. PICK status \in {"ok", "error", "aborted"} :
        port' = Append(port, [kind |-> "operation", id |-> i, key |-> storage[i].key, status |-> status])
  BY Zenon DEF OsFinish
<1>2. /\ i \in inOs /\ inOs' = inOs \ {i} /\ aborted' = aborted \ {i}
      /\ UNCHANGED <<storage, order, completions, active, stopped, portOpen>>
  BY Zenon DEF OsFinish
<1> DEFINE p == [kind |-> "operation", id |-> i, key |-> storage[i].key, status |-> status]
           n == Len(port) + 1
<1>3. i \in NativeOps /\ i \in ops /\ i \notin IdsInPort
  BY <1>2, Zenon DEF StoreInv, OsAgrees, NativeOps
<1>4. storage[i].key \in Key
  BY <1>3, StorageFacts, Zenon DEF TableInv
<1>5. p \in Packet /\ p.kind = "operation" /\ p.id = i /\ p.key = storage[i].key
  BY <1>1, <1>4, Zenon DEF Packet
<1>6. port' = Append(port, p)
  BY <1>1, Zenon
<1> HIDE DEF p
<1>7. OpType
  BY Zenon DEF StoreInv
<1>8. /\ port' \in Seq(Packet) /\ InPort' = InPort \cup {n} /\ port'[n] = p /\ n \notin DOMAIN port
      /\ \A k \in InPort : k \in DOMAIN port /\ port'[k] = port[k]
  BY <1>5, <1>6, <1>7, PostFacts, Zenon
<1> HIDE DEF n
<1>9. IdsInPort' = {port'[k].id : k \in InPort'} /\ IdsInPort = {port[k].id : k \in InPort}
  BY Zenon DEF IdsInPort
<1>10. IdsInPort' = IdsInPort \cup {i}
  <2>1. ASSUME NEW k \in InPort' PROVE port'[k].id \in IdsInPort \cup {i}
    BY <1>5, <1>8, <1>9, Zenon
  <2>2. i \in IdsInPort'
    BY <1>5, <1>8, <1>9, Zenon
  <2>3. ASSUME NEW k \in InPort PROVE port[k].id \in IdsInPort'
    BY <1>8, <1>9, Zenon
  <2> QED BY <1>9, <2>1, <2>2, <2>3, Zenon
<1>11. ops' = ops /\ NativeOps' = NativeOps /\ IdsOf(completions)' = IdsOf(completions)
       /\ Distinct(completions)' = Distinct(completions)
  BY <1>2, Zenon DEF ops, NativeOps, IdsOf, Distinct
<1>12. \A k \in InPort : port[k].id # i /\ port'[k].id = port[k].id
  BY <1>3, <1>8, <1>9, Zenon
<1>13. OsAgrees'
  <2>1. NativeOps' = inOs' \cup IdsInPort' /\ inOs' \cap IdsInPort' = {}
    BY <1>2, <1>10, <1>11, Zenon DEF StoreInv, OsAgrees
  <2>2. \A j, k \in InPort' : port'[j].id = port'[k].id => j = k
    <3> SUFFICES ASSUME NEW j \in InPort', NEW k \in InPort', port'[j].id = port'[k].id PROVE j = k
      BY Zenon
    <3>1. CASE j \in InPort /\ k \in InPort
      BY <1>12, <3>1, Zenon DEF StoreInv, OsAgrees
    <3>2. CASE j = n /\ k \in InPort
      BY <1>5, <1>8, <1>12, <3>2, Zenon
    <3>3. CASE j \in InPort /\ k = n
      BY <1>5, <1>8, <1>12, <3>3, Zenon
    <3> QED BY <1>8, <3>1, <3>2, <3>3, Zenon
  <2>3. \A k \in InPort' : port'[k].key = storage'[port'[k].id].key
    BY <1>2, <1>5, <1>8, Zenon DEF StoreInv, OsAgrees
  <2> QED BY <2>1, <2>2, <2>3, Zenon DEF OsAgrees
<1>14. OpType' /\ IdsAgree' /\ PortAgrees'
  BY <1>2, <1>8, <1>11, Zenon DEF StoreInv, OpType, IdsAgree, PortAgrees
<1>15. OrderAgrees'
  BY <1>2, <1>11, Zenon DEF StoreInv, OrderAgrees
<1> QED BY <1>11, <1>13, <1>14, <1>15, Zenon DEF StoreInv

\* poll's packets of operations all find their storages.
LEMMA PacketsMatch ==
  ASSUME StoreInv, NEW k \in DOMAIN port
  PROVE  Matches(port[k]) <=> k \in InPort
<1>1. k \in InPort => port[k].id \in ops /\ port[k].key = storage[port[k].id].key
  BY Zenon DEF StoreInv, OsAgrees, NativeOps, IdsInPort
<1> QED BY <1>1, Zenon DEF Matches, InPort

\* complete_native_operation gives a terminal result.
LEMMA NativeResultFacts ==
  ASSUME TableInv, NEW i \in ops, NEW status \in {"ok", "error", "aborted"}
  PROVE  NativeResult(i, status) \in Result
<1>1. storage[i].reason \in Reasons \cup {"none"}
  BY StorageFacts, Zenon DEF TableInv, Storage
<1>2. CASE status = "aborted" /\ storage[i].reason # "none"
  BY <1>1, <1>2, Zenon DEF NativeResult, Result
<1>3. CASE ~(status = "aborted" /\ storage[i].reason # "none")
           /\ (storage[i].closeRequested \/ stopped \/ ~IsCurrent(storage[i].token))
  BY <1>3, Zenon DEF NativeResult, Result
<1>4. CASE ~(status = "aborted" /\ storage[i].reason # "none")
           /\ ~(storage[i].closeRequested \/ stopped \/ ~IsCurrent(storage[i].token))
  <2>1. NativeResult(i, status) = IF status = "aborted" THEN "backend_abort" ELSE status
    BY <1>4, Zenon DEF NativeResult
  <2> QED BY <2>1, Zenon DEF Result
<1> QED BY <1>2, <1>3, <1>4, Zenon

\* A packet of an operation has its fields.
LEMMA PacketFacts ==
  ASSUME OpType, NEW k \in InPort
  PROVE  k \in DOMAIN port /\ port[k].id \in Ids /\ port[k].status \in {"ok", "error", "aborted"}
<1>1. k \in DOMAIN port /\ port[k].kind = "operation"
  BY Zenon DEF InPort
<1>2. port[k] \in Packet
  BY <1>1 DEF OpType
<1> QED BY <1>1, <1>2, Zenon DEF Packet

\* poll completes the storages its packets name, and those only.
LEMMA PollMoves ==
  ASSUME TableInv, StoreInv, Poll
  PROVE  \E m \in 1..Len(port) :
           LET done == {port[k].id : k \in {j \in 1..m : j \in InPort}} IN
           /\ Completes(done) /\ storage' = Without(done) /\ order' \in OrderWithout(done)
           /\ IF done # {} THEN MaybeClosePort(done, stopped) ELSE UNCHANGED <<table, portOpen>>
           /\ port' = IF portOpen' THEN Rest(port, m) ELSE <<>>
           /\ portOpen /\ UNCHANGED <<active, stopped, inOs, aborted>>
<1> DEFINE m == IF BatchLimit < Len(port) THEN BatchLimit ELSE Len(port)
           found == {k \in 1..m : Matches(port[k])}
           F == {k \in 1..m : k \in InPort}
           done == {port[k].id : k \in F}
<1>0. OpType /\ port \in Seq(Packet) /\ Len(port) \in Nat /\ DOMAIN port = 1..Len(port)
  BY DEF StoreInv, OpType
<1>1. m > 0 /\ completions = <<>> /\ portOpen
  BY Zenon DEF Poll
<1>2. m \in 1..Len(port)
  BY <1>0, <1>1, IocpConstants
<1>3. PICK batch \in Kept(port, found) :
        completions' = [n \in DOMAIN batch |->
          [id |-> batch[n].id, result |-> NativeResult(batch[n].id, batch[n].status)]]
  BY Zenon DEF Poll
<1>4. /\ storage' = Without({port[k].id : k \in found}) /\ order' \in OrderWithout({port[k].id : k \in found})
      /\ IF {port[k].id : k \in found} # {} THEN MaybeClosePort({port[k].id : k \in found}, stopped)
                                            ELSE UNCHANGED <<table, portOpen>>
      /\ port' = IF portOpen' THEN Rest(port, m) ELSE <<>>
      /\ UNCHANGED <<active, stopped, inOs, aborted>>
  BY Zenon DEF Poll, Rest
<1> HIDE DEF m
<1>5. 1..m \subseteq DOMAIN port
  BY <1>0, <1>2
<1>6. found = F /\ F \in SUBSET DOMAIN port /\ F \subseteq InPort
  BY <1>5, PacketsMatch, Zenon
<1> HIDE DEF found, F
<1>7. batch \in Seq(Packet) /\ \E f : Listing(f, port, F, batch)
  <2>1. batch \in Kept(port, F)
    BY <1>3, <1>6, Zenon
  <2> QED BY ONLY <1>0, <1>6, <2>1, KeptFrom, Zenon
<1>8. PICK f : Listing(f, port, F, batch)
  BY <1>7, Zenon
<1>9. \A k \in F : /\ port[k].id \in ops /\ port[k].id \in Ids
                   /\ port[k].status \in {"ok", "error", "aborted"}
  <2> SUFFICES ASSUME NEW k \in F
               PROVE  port[k].id \in ops /\ port[k].id \in Ids /\ port[k].status \in {"ok", "error", "aborted"}
    BY Zenon
  <2>1. k \in InPort /\ port[k].id \in NativeOps
    BY <1>6, Zenon DEF StoreInv, OsAgrees, IdsInPort
  <2> QED BY <1>0, <2>1, PacketFacts, Zenon DEF NativeOps
<1> DEFINE s == [n \in DOMAIN batch |->
                   [id |-> batch[n].id, result |-> NativeResult(batch[n].id, batch[n].status)]]
<1>10. \A n \in DOMAIN batch : f[n] \in F /\ batch[n].id = port[f[n]].id /\ batch[n].status = port[f[n]].status
  BY <1>8, Zenon DEF Listing
<1>11. \A n \in DOMAIN batch : [id |-> batch[n].id, result |-> NativeResult(batch[n].id, batch[n].status)] \in Completion
  <2> SUFFICES ASSUME NEW n \in DOMAIN batch
               PROVE  [id |-> batch[n].id, result |-> NativeResult(batch[n].id, batch[n].status)] \in Completion
    BY Zenon
  <2>1. batch[n].id \in ops /\ batch[n].id \in Ids /\ batch[n].status \in {"ok", "error", "aborted"}
    BY <1>9, <1>10, Zenon
  <2>2. NativeResult(batch[n].id, batch[n].status) \in Result
    BY <2>1, NativeResultFacts, Zenon
  <2> QED BY <2>1, <2>2, Zenon DEF Completion
<1>12. DOMAIN s = DOMAIN batch /\ \A n \in DOMAIN batch : s[n].id = batch[n].id /\ s[n] \in Completion
  BY <1>11, Zenon
<1>13. s \in Seq(Completion)
  <2>1. Len(batch) \in Nat /\ DOMAIN batch = 1..Len(batch)
    BY <1>7
  <2>2. s \in [1..Len(batch) -> Completion]
    BY <1>11, <2>1, Zenon
  <2> HIDE DEF s
  <2> QED BY <2>1, <2>2
<1>14. completions' = s
  BY <1>3, Zenon
<1> HIDE DEF s
<1>15. completions' = completions \o s
  BY <1>1, <1>13, <1>14
<1>16. Distinct(s)
  <2> SUFFICES ASSUME NEW a \in DOMAIN batch, NEW b \in DOMAIN batch, s[a].id = s[b].id PROVE a = b
    BY <1>12, Zenon DEF Distinct
  <2>1. f[a] \in InPort /\ f[b] \in InPort /\ port[f[a]].id = port[f[b]].id
    BY <1>6, <1>10, <1>12, Zenon
  <2>2. f[a] = f[b]
    BY <2>1, Zenon DEF StoreInv, OsAgrees
  <2> QED BY <1>8, <2>2, Zenon DEF Listing
<1>17. IdsOf(s) = done
  <2>1. ASSUME NEW n \in DOMAIN s PROVE s[n].id \in done
    <3>1. f[n] \in F /\ s[n].id = port[f[n]].id
      BY <1>10, <1>12, Zenon
    <3> QED BY <3>1, Zenon
  <2>2. ASSUME NEW k \in F PROVE port[k].id \in IdsOf(s)
    <3>1. PICK n \in DOMAIN batch : f[n] = k
      BY <1>8, Zenon DEF Listing
    <3> QED BY <1>10, <1>12, <3>1, ZenonT(60) DEF IdsOf
  <2> QED BY <2>1, <2>2, Zenon DEF IdsOf
<1>18. IdsOf(completions) = {}
  <2>1. DOMAIN completions = {}
    BY <1>1
  <2> QED BY <2>1, Zenon DEF IdsOf
<1>19. Completes(done)
  <2>1. Completes(IdsOf(s))
    BY <1>13, <1>15, <1>16, <1>18, CompletingFacts, Zenon
  <2> QED BY <1>17, <2>1, Zenon
<1>20. done = {port[k].id : k \in found}
  BY <1>6, Zenon
<1> HIDE DEF done
<1>21. /\ storage' = Without(done) /\ order' \in OrderWithout(done)
       /\ IF done # {} THEN MaybeClosePort(done, stopped) ELSE UNCHANGED <<table, portOpen>>
       /\ port' = IF portOpen' THEN Rest(port, m) ELSE <<>>
       /\ UNCHANGED <<active, stopped, inOs, aborted>>
  BY <1>4, <1>20, Zenon
<1> QED BY <1>1, <1>2, <1>19, <1>21, Zenon DEF done, F

\* The packets behind the first m.
LEMMA RestInPort ==
  ASSUME OsAgrees, port \in Seq(Packet), NEW m \in 1..Len(port), port' = Rest(port, m)
  PROVE  /\ \A k \in InPort' : k + m \in InPort /\ k \in Int /\ port'[k] = port[k + m]
         /\ IdsInPort' = IdsInPort \ {port[k].id : k \in {j \in 1..m : j \in InPort}}
<1> DEFINE gone == {port[k].id : k \in {j \in 1..m : j \in InPort}}
<1>1. /\ DOMAIN port = 1..Len(port) /\ Len(port) \in Nat /\ m \in Nat /\ m \in 0..Len(port)
  OBVIOUS
<1>2. /\ DOMAIN port' = 1..(Len(port) - m)
      /\ \A k \in DOMAIN port' : k + m \in (m + 1)..Len(port) /\ port'[k] = port[k + m]
      /\ \A k \in (m + 1)..Len(port) : k - m \in DOMAIN port' /\ port'[k - m] = port[k]
  <2> DEFINE u == Rest(port, m)
  <2>1. /\ DOMAIN u = 1..(Len(port) - m)
        /\ \A k \in DOMAIN u : k + m \in (m + 1)..Len(port) /\ u[k] = port[k + m]
        /\ \A k \in (m + 1)..Len(port) : k - m \in DOMAIN u /\ u[k - m] = port[k]
    BY <1>1, SuffixFacts, ZenonT(60)
  <2>2. port' = u
    BY Zenon
  <2> HIDE DEF u
  <2> QED BY ONLY <2>1, <2>2, Zenon
<1>3. InPort' = {k \in DOMAIN port' : port'[k].kind = "operation"}
      /\ InPort = {k \in DOMAIN port : port[k].kind = "operation"}
  BY Zenon DEF InPort
<1>4. (m + 1)..Len(port) \subseteq DOMAIN port /\ \A k \in 1..m : k \notin (m + 1)..Len(port)
  BY <1>1
<1>5. \A k \in DOMAIN port : k \in 1..m \/ k \in (m + 1)..Len(port)
  BY <1>1
<1>6. \A k \in InPort' : k + m \in InPort /\ k \in Int /\ k + m \in (m + 1)..Len(port) /\ port'[k] = port[k + m]
  <2>1. \A k \in DOMAIN port' : k \in Int
    BY <1>1, <1>2
  <2> QED BY <1>2, <1>3, <1>4, <2>1, Zenon
<1>7. IdsInPort' = {port'[k].id : k \in InPort'} /\ IdsInPort = {port[k].id : k \in InPort}
  BY Zenon DEF IdsInPort
<1>8. ASSUME NEW k \in InPort' PROVE port'[k].id \in IdsInPort \ gone
  <2>1. port'[k].id = port[k + m].id /\ k + m \in InPort /\ k + m \notin 1..m
    BY <1>4, <1>6, Zenon
  <2>2. port[k + m].id \notin gone
    <3> SUFFICES ASSUME NEW j \in 1..m, j \in InPort, port[j].id = port[k + m].id PROVE FALSE
      BY Zenon
    <3>1. j = k + m
      BY <2>1, Zenon DEF OsAgrees
    <3> QED BY <2>1, <3>1, Zenon
  <2> QED BY <1>7, <2>1, <2>2, Zenon
<1>9. ASSUME NEW k \in InPort, port[k].id \notin gone PROVE port[k].id \in IdsInPort'
  <2>1. k \in (m + 1)..Len(port)
    BY <1>3, <1>5, <1>9, Zenon
  <2>2. k - m \in InPort' /\ port'[k - m] = port[k]
    BY <1>2, <1>3, <2>1, Zenon
  <2> QED BY <1>7, <2>2, Zenon
<1> HIDE DEF gone
<1>10. IdsInPort' = IdsInPort \ gone
  BY <1>7, <1>8, <1>9, Zenon
<1> QED BY <1>6, <1>10, Zenon DEF gone

\* poll erases exactly the storages whose packets it took.
LEMMA PollStores ==
  ASSUME TableInv, StoreInv, Poll
  PROVE  StoreInv' /\ \E P \in SUBSET ops : ops' = ops \ P /\ Completes(P)
<1>1. PICK m \in 1..Len(port) :
        LET done == {port[k].id : k \in {j \in 1..m : j \in InPort}} IN
        /\ Completes(done) /\ storage' = Without(done) /\ order' \in OrderWithout(done)
        /\ IF done # {} THEN MaybeClosePort(done, stopped) ELSE UNCHANGED <<table, portOpen>>
        /\ port' = IF portOpen' THEN Rest(port, m) ELSE <<>>
        /\ portOpen /\ UNCHANGED <<active, stopped, inOs, aborted>>
  BY PollMoves, Zenon
<1> DEFINE done == {port[k].id : k \in {j \in 1..m : j \in InPort}}
<1>2. done \subseteq IdsInPort
  BY Zenon DEF IdsInPort
<1>3. /\ Completes(done) /\ storage' = Without(done) /\ order' \in OrderWithout(done)
      /\ IF done # {} THEN MaybeClosePort(done, stopped) ELSE UNCHANGED <<table, portOpen>>
      /\ port' = IF portOpen' THEN Rest(port, m) ELSE <<>>
      /\ portOpen /\ UNCHANGED <<active, stopped, inOs, aborted>>
  BY <1>1, Zenon
<1>4. port \in Seq(Packet) /\ OsAgrees /\ portOpen \in BOOLEAN
  BY Zenon DEF StoreInv, OpType
<1>5. port' = Rest(port, m) =>
        /\ \A k \in InPort' : k + m \in InPort /\ k \in Int /\ port'[k] = port[k + m]
        /\ IdsInPort' = IdsInPort \ done
  BY <1>4, RestInPort, Zenon
<1> HIDE DEF done
<1>6. done \in SUBSET ops /\ done \cap inOs = {}
  BY <1>2, <1>4, Zenon DEF OsAgrees, NativeOps
<1>7. ops' = ops \ done /\ \A j \in ops' : storage'[j] = storage[j]
  BY <1>3, Zenon DEF Without, ops
<1>8. NativeOps' = NativeOps \ done
  BY <1>7, Zenon DEF NativeOps
<1>9. /\ order' \in Seq(Ids) /\ completions' \in Seq(Completion)
      /\ active' \subseteq Ids /\ IdsAgree' /\ OrderAgrees'
  BY <1>3, <1>6, <1>7, ErasedFacts, Zenon
<1>10. CASE done # {} /\ stopped /\ ops \subseteq done
  <2>1. portOpen' = FALSE /\ port' = <<>> /\ ops' = {} /\ NativeOps' = {}
    BY <1>3, <1>7, <1>8, <1>10, Zenon DEF MaybeClosePort, NativeOps
  <2>2. inOs' = {}
    BY <1>3, <1>4, <1>6, <1>10, Zenon DEF OsAgrees, NativeOps
  <2>3. OsAgrees'
    BY <2>1, <2>2, OsEmpty, Zenon
  <2>4. port' \in Seq(Packet)
    BY <2>1
  <2>5. OpType' /\ PortAgrees'
    BY <1>3, <1>9, <1>10, <2>1, <2>2, <2>4, ZenonT(60) DEF StoreInv, OpType, PortAgrees
  <2> QED BY <1>3, <1>6, <1>7, <1>9, <2>3, <2>5, Zenon DEF StoreInv
<1>11. CASE ~(done # {} /\ stopped /\ ops \subseteq done)
  <2>1. portOpen' = portOpen
    BY <1>3, <1>11, Zenon DEF MaybeClosePort
  <2>2. port' = Rest(port, m)
    BY <1>3, <2>1, Zenon
  <2>3. port' \in Seq(Packet)
    <3>1. m \in 0..Len(port)
      BY <1>4
    <3> QED BY <1>4, <2>2, <3>1, SuffixFacts, Zenon
  <2>4. NativeOps' = inOs' \cup IdsInPort' /\ inOs' \cap IdsInPort' = {}
    BY <1>3, <1>4, <1>5, <1>6, <1>8, <2>2, Zenon DEF OsAgrees
  <2>5. ASSUME NEW j \in InPort', NEW k \in InPort', port'[j].id = port'[k].id PROVE j = k
    <3>1. j + m = k + m
      <4>1. j + m \in InPort /\ k + m \in InPort /\ port[j + m].id = port[k + m].id
        BY <1>5, <2>2, <2>5, Zenon
      <4> QED BY <1>4, <4>1, Zenon DEF OsAgrees
    <3>2. j \in Int /\ k \in Int /\ m \in Int
      BY <1>5, <2>2
    <3> QED BY ONLY <3>1, <3>2
  <2>6. ASSUME NEW k \in InPort' PROVE port'[k].key = storage'[port'[k].id].key
    <3>1. k + m \in InPort /\ port'[k] = port[k + m]
      BY <1>5, <2>2, Zenon
    <3>2. port[k + m].key = storage[port[k + m].id].key
      BY <1>4, <3>1, Zenon DEF OsAgrees
    <3>3. port'[k].id \in IdsInPort'
      BY Zenon DEF IdsInPort
    <3>4. port'[k].id \in ops'
      BY <2>4, <3>3, Zenon DEF NativeOps
    <3> QED BY <1>7, <3>1, <3>2, <3>4, Zenon
  <2>7. OsAgrees'
    BY <2>4, <2>5, <2>6, Zenon DEF OsAgrees
  <2>8. OpType' /\ PortAgrees'
    BY <1>3, <1>7, <1>9, <2>1, <2>3, Zenon DEF StoreInv, OpType, PortAgrees
  <2> QED BY <1>3, <1>6, <1>7, <1>9, <2>7, <2>8, Zenon DEF StoreInv
<1> QED BY <1>10, <1>11, Zenon

\* Nothing is outstanding at first.
LEMMA StoreInit == Init => StoreInv
<1> SUFFICES ASSUME Init PROVE StoreInv
  BY Zenon
<1>1. ops = {} /\ DOMAIN order = {} /\ DOMAIN completions = {} /\ DOMAIN port = {}
  BY DEF Init, ops
<1>2. NativeOps = {} /\ IdsOf(completions) = {} /\ InPort = {} /\ IdsInPort = {}
  BY <1>1, Zenon DEF NativeOps, IdsOf, InPort, IdsInPort
<1>3. OpType
  <2>1. order \in Seq(Ids) /\ completions \in Seq(Completion) /\ port \in Seq(Packet)
    BY DEF Init
  <2> QED BY <1>1, <2>1, Zenon DEF Init, OpType
<1>4. OsAgrees /\ IdsAgree /\ OrderAgrees /\ PortAgrees
  BY <1>1, <1>2, Zenon DEF Init, OsAgrees, IdsAgree, OrderAgrees, PortAgrees, Distinct
<1> QED BY <1>3, <1>4, Zenon DEF StoreInv

\* What one step does to the storages: it keeps the invariant, and it is a
\* submission, a drain, a completion of some storages, or leaves both the
\* storages and the completions alone.
LEMMA StoreStep ==
  ASSUME TableInv, StoreInv, [Next]_vars
  PROVE  /\ StoreInv'
         /\ \/ ops' = ops /\ completions' = completions
            \/ \E i \in Ids, t \in CurrentTokens : Submit(i, t)
            \/ \E size \in DrainSizes : DrainCompletions(size)
            \/ \E P \in SUBSET ops : ops' = ops \ P /\ Completes(P)
<1>1. ASSUME NEW h \in Handles, RegisterHandle(h) \/ RegisterHandleFails(h)
      PROVE  StoreInv' /\ ops' = ops /\ completions' = completions
  <2>1. UNCHANGED <<storage, order, completions, active, stopped, portOpen, os>>
    BY <1>1, Zenon DEF RegisterHandle, RegisterHandleFails
  <2> QED BY <2>1, StoreSame, Zenon DEF ops
<1>2. ASSUME NEW i \in Ids, NEW r \in Reasons, Cancel(i, r)
      PROVE  StoreInv' /\ \/ ops' = ops /\ completions' = completions
                          \/ \E P \in SUBSET ops : ops' = ops \ P /\ Completes(P)
  <2>1. CASE storage[i].native
    BY <1>2, <2>1, CancelNativeStores, Zenon
  <2>2. CASE ~storage[i].native
    <3>1. StoreInv' /\ i \in ops /\ ops' = ops \ {i} /\ Completes({i})
      BY <1>2, <2>2, CancelPlainStores, Zenon
    <3> QED BY <3>1, Zenon
  <2> QED BY <2>1, <2>2, Zenon
<1>3. ASSUME Wake PROVE StoreInv' /\ ops' = ops /\ completions' = completions
  BY <1>3, WakeStores, Zenon DEF Wake
<1>4. ASSUME NEW i \in Ids, OsFinish(i) PROVE StoreInv' /\ ops' = ops /\ completions' = completions
  BY <1>4, OsFinishStores, Zenon DEF OsFinish
<1>5. ASSUME UNCHANGED vars PROVE StoreInv' /\ ops' = ops /\ completions' = completions
  BY <1>5, StoreSame, Zenon DEF vars, ops
<1> QED
  BY <1>1, <1>2, <1>3, <1>4, <1>5, SubmitStores, NativeSubmitStores, CloseStores, DrainStores,
     ShutdownStores, PollStores, Zenon DEF Next

\* The inductive invariant of table and storages.
LEMMA StoreInvariance == Spec => [](TableInv /\ StoreInv)
<1>1. Init => TableInv /\ StoreInv
  BY InitInv, StoreInit, Zenon
<1>2. TableInv /\ StoreInv /\ [Next]_vars => TableInv' /\ StoreInv'
  BY StepInv, StoreStep, Zenon
<1> QED BY <1>1, <1>2, PTL DEF Spec

\* Every variable keeps its type, whatever the callers, the OS and the port do.
THEOREM TypeCorrect == Spec => []TypeOK
<1>1. TableInv /\ StoreInv => TypeOK
  BY StoreInvImplies, Zenon
<1> QED BY <1>1, StoreInvariance, PTL

\* For every number of handles, ids and slots and every batch limit: the native
\* storages are exactly the operations the OS works on or has a packet for, an
\* active id has its storage or its completion and never both, and the port is
\* open as long as a storage exists.
THEOREM StoragesOutliveOs == Spec => []StorageOutlivesOs
<1>1. TableInv /\ StoreInv => StorageOutlivesOs
  BY StoreInvImplies, Zenon
<1> QED BY <1>1, StoreInvariance, PTL

------------------------------------------------------------------------------
(* Refinement. *)

\* Status as a function of the outstanding ids and the completion queue.
StatusAt(U, c, i) ==
  IF i \in U THEN "active"
  ELSE IF i \in IdsOf(c) THEN c[CHOOSE k \in DOMAIN c : c[k].id = i].result
  ELSE "free"

StatusOf(U, c) == [i \in Ids |-> StatusAt(U, c, i)]

\* The contract's view of an id, from where its operation is.
LEMMA StatusFacts ==
  ASSUME NEW U \in SUBSET Ids, NEW c \in Seq(Completion), Distinct(c), U \cap IdsOf(c) = {}
  PROVE  /\ IdsOf(c) \subseteq Ids
         /\ \A i \in U : StatusOf(U, c)[i] = "active"
         /\ \A k \in DOMAIN c : StatusOf(U, c)[c[k].id] = c[k].result /\ c[k].result \in Result
         /\ \A i \in Ids : i \notin U /\ i \notin IdsOf(c) => StatusOf(U, c)[i] = "free"
<1>1. \A k \in DOMAIN c : c[k].id \in Ids /\ c[k].result \in Result
  <2>1. \A k \in DOMAIN c : c[k] \in Completion
    OBVIOUS
  <2> QED BY <2>1, Zenon DEF Completion
<1>2. IdsOf(c) \subseteq Ids
  BY <1>1, Zenon DEF IdsOf
<1>3. ASSUME NEW k \in DOMAIN c PROVE StatusOf(U, c)[c[k].id] = c[k].result
  <2> DEFINE ch == CHOOSE j \in DOMAIN c : c[j].id = c[k].id
  <2>1. ch \in DOMAIN c /\ c[ch].id = c[k].id
    BY Zenon
  <2>2. ch = k
    BY <2>1, Zenon DEF Distinct
  <2>3. c[k].id \in IdsOf(c) /\ c[k].id \notin U /\ c[k].id \in Ids
    BY <1>1, Zenon DEF IdsOf
  <2>4. StatusOf(U, c)[c[k].id] = c[ch].result
    BY <2>3, Zenon DEF StatusOf, StatusAt
  <2> QED BY <2>2, <2>4, Zenon
<1>4. \A i \in U : StatusOf(U, c)[i] = "active"
  BY Zenon DEF StatusOf, StatusAt
<1>5. \A i \in Ids : i \notin U /\ i \notin IdsOf(c) => StatusOf(U, c)[i] = "free"
  BY Zenon DEF StatusOf, StatusAt
<1> QED BY <1>1, <1>2, <1>3, <1>4, <1>5, Zenon

\* What the contract sees of the containers, in a state of the invariant.
LEMMA StatusInv ==
  ASSUME StoreInv
  PROVE  /\ ops \subseteq Ids /\ IdsOf(completions) \subseteq Ids
         /\ ops \cap IdsOf(completions) = {}
         /\ Status = [i \in Ids |-> Status[i]]
         /\ \A i \in ops : Status[i] = "active"
         /\ \A k \in DOMAIN completions :
              Status[completions[k].id] = completions[k].result /\ completions[k].result \in Result
         /\ \A i \in Ids : i \notin ops /\ i \notin IdsOf(completions) => Status[i] = "free"
<1>1. /\ ops \in SUBSET Ids /\ completions \in Seq(Completion)
      /\ Distinct(completions) /\ ops \cap IdsOf(completions) = {}
  BY Zenon DEF StoreInv, OpType, IdsAgree
<1>2. Status = StatusOf(ops, completions)
  BY Zenon DEF Status, StatusOf, StatusAt
<1>3. StatusOf(ops, completions) = [i \in Ids |-> StatusOf(ops, completions)[i]]
  BY ONLY Zenon DEF StatusOf
<1>4. /\ IdsOf(completions) \subseteq Ids
      /\ \A i \in ops : StatusOf(ops, completions)[i] = "active"
      /\ \A k \in DOMAIN completions :
           /\ StatusOf(ops, completions)[completions[k].id] = completions[k].result
           /\ completions[k].result \in Result
      /\ \A i \in Ids : i \notin ops /\ i \notin IdsOf(completions)
           => StatusOf(ops, completions)[i] = "free"
  BY ONLY <1>1, StatusFacts, Zenon
<1> QED BY ONLY <1>1, <1>2, <1>3, <1>4, Zenon

\* The same view after a step.
LEMMA StatusInvNext ==
  ASSUME StoreInv'
  PROVE  /\ Status' = [i \in Ids |-> Status'[i]]
         /\ \A i \in ops' : Status'[i] = "active"
         /\ \A k \in DOMAIN completions' :
              /\ Status'[completions'[k].id] = completions'[k].result
              /\ completions'[k].result \in Result
         /\ \A i \in Ids : i \notin ops' /\ i \notin IdsOf(completions') => Status'[i] = "free"
<1>1. /\ ops' \in SUBSET Ids /\ completions' \in Seq(Completion)
      /\ Distinct(completions') /\ ops' \cap IdsOf(completions') = {}
  BY Zenon DEF StoreInv, OpType, IdsAgree
<1>2. Status' = StatusOf(ops', completions')
  BY Zenon DEF Status, StatusOf, StatusAt
<1>3. StatusOf(ops', completions') = [i \in Ids |-> StatusOf(ops', completions')[i]]
  BY ONLY Zenon DEF StatusOf
<1>4. /\ IdsOf(completions') \subseteq Ids
      /\ \A i \in ops' : StatusOf(ops', completions')[i] = "active"
      /\ \A k \in DOMAIN completions' :
           /\ StatusOf(ops', completions')[completions'[k].id] = completions'[k].result
           /\ completions'[k].result \in Result
      /\ \A i \in Ids : i \notin ops' /\ i \notin IdsOf(completions')
           => StatusOf(ops', completions')[i] = "free"
  BY ONLY <1>1, StatusFacts, Zenon
<1> QED BY ONLY <1>1, <1>2, <1>3, <1>4, Zenon

\* A step that moves the ids of S to the completion queue is a Complete step.
LEMMA CompletingRefines ==
  ASSUME StoreInv, StoreInv', NEW S, S \subseteq ops, ops' = ops \ S, Completes(S)
  PROVE  Contract!Next
<1> DEFINE f == [i \in S |-> Status'[i]]
<1>1. S \in SUBSET Ids /\ \A i \in S : Status[i] = "active"
  BY StatusInv, Zenon
<1>2. IdsOf(completions') = IdsOf(completions) \cup S
  BY Zenon DEF Completes
<1>3. ASSUME NEW i \in S PROVE Status'[i] \in Result
  <2>1. PICK k \in DOMAIN completions' : completions'[k].id = i
    BY <1>2, Zenon DEF IdsOf
  <2> QED BY <2>1, StatusInvNext, Zenon
<1>4. ASSUME NEW i \in Ids, i \notin S PROVE Status'[i] = Status[i]
  <2>1. CASE i \in ops
    BY <1>4, <2>1, StatusInv, StatusInvNext, Zenon
  <2>2. CASE i \in IdsOf(completions)
    <3>1. PICK k \in DOMAIN completions : completions[k].id = i
      BY <2>2, Zenon DEF IdsOf
    <3>2. k \in DOMAIN completions' /\ completions'[k] = completions[k]
      BY Zenon DEF Completes
    <3>3. Status[i] = completions[k].result
      BY <3>1, StatusInv, Zenon
    <3>4. Status'[i] = completions'[k].result
      BY <3>1, <3>2, StatusInvNext, Zenon
    <3> QED BY <3>2, <3>3, <3>4, Zenon
  <2>3. CASE i \notin ops /\ i \notin IdsOf(completions)
    BY <1>2, <1>4, <2>3, StatusInv, StatusInvNext, Zenon
  <2> QED BY <2>1, <2>2, <2>3, Zenon
<1>5. Status' = [i \in Ids |-> Status'[i]]
  BY StatusInvNext, Zenon
<1>6. f \in [S -> Result] /\ Status' = [i \in Ids |-> IF i \in S THEN f[i] ELSE Status[i]]
  BY <1>3, <1>4, <1>5, Zenon
<1> HIDE DEF f
<1>7. Contract!Complete(S)
  BY <1>1, <1>6, Zenon DEF Contract!Complete
<1> QED BY <1>1, <1>7, Zenon DEF Contract!Next

\* drain_completions is a Deliver step.
LEMMA DrainRefines ==
  ASSUME StoreInv, StoreInv', NEW size \in DrainSizes, DrainCompletions(size)
  PROVE  Contract!Next
<1>1. PICK count \in 0..Len(completions) :
         /\ \A k \in DOMAIN completions' :
              k + count \in DOMAIN completions /\ completions'[k] = completions[k + count]
         /\ IdsOf(completions') = IdsOf(completions) \ {completions[k].id : k \in 1..count}
  BY DrainMoves, Zenon
<1>2. ops' = ops
  BY Zenon DEF DrainCompletions, ops
<1> DEFINE S == {completions[k].id : k \in 1..count}
<1>3. 1..count \subseteq DOMAIN completions
  BY DEF StoreInv, OpType
<1>4. S \subseteq IdsOf(completions) /\ \A i \in S : Status[i] \in Result
  BY <1>3, StatusInv, ZenonT(60) DEF IdsOf
<1>5. IdsOf(completions') = IdsOf(completions) \ S
  BY <1>1, Zenon
<1> HIDE DEF S
<1>6. ASSUME NEW i \in Ids PROVE Status'[i] = IF i \in S THEN "free" ELSE Status[i]
  <2>1. CASE i \in IdsOf(completions')
    <3>1. PICK n \in DOMAIN completions' : completions'[n].id = i
      BY <2>1, Zenon DEF IdsOf
    <3>2. n + count \in DOMAIN completions /\ completions'[n] = completions[n + count]
      BY <1>1, Zenon
    <3>3. Status'[i] = completions'[n].result
      BY <3>1, StatusInvNext, Zenon
    <3>4. Status[i] = completions[n + count].result
      BY <3>1, <3>2, StatusInv, Zenon
    <3> QED BY <1>5, <2>1, <3>2, <3>3, <3>4, Zenon
  <2>2. CASE i \in ops
    <3>1. i \notin S
      BY <1>4, <2>2, StatusInv, Zenon
    <3> QED BY <1>2, <2>2, <3>1, StatusInv, StatusInvNext, Zenon
  <2>3. CASE i \notin ops /\ i \notin IdsOf(completions')
    <3>1. Status'[i] = "free"
      BY <1>2, <2>3, StatusInvNext, Zenon
    <3>2. i \notin S => Status[i] = "free"
      BY <1>5, <2>3, StatusInv, Zenon
    <3> QED BY <3>1, <3>2, Zenon
  <2> QED BY <2>1, <2>2, <2>3, Zenon
<1>7. S \in SUBSET Ids
  BY <1>4, StatusInv, Zenon
<1>8. Status' = [i \in Ids |-> IF i \in S THEN "free" ELSE Status[i]]
  <2>1. Status' = [i \in Ids |-> Status'[i]]
    BY StatusInvNext, Zenon
  <2> QED BY ONLY <1>6, <2>1, Zenon
<1>9. Contract!Deliver(S)
  BY <1>4, <1>8, Zenon DEF Contract!Deliver
<1> QED BY <1>7, <1>9, Zenon DEF Contract!Next

\* submit is an Accept step.
LEMMA SubmitRefines ==
  ASSUME TableInv, StoreInv, StoreInv', NEW i \in Ids, NEW t \in CurrentTokens, Submit(i, t)
  PROVE  Contract!Next
<1>1. ops' = ops \cup {i} /\ i \notin ops /\ i \notin IdsOf(completions) /\ completions' = completions
  BY SubmitStores, Zenon
<1>2. Status[i] = "free" /\ Status = [j \in Ids |-> Status[j]] /\ Status' = [j \in Ids |-> Status'[j]]
  BY <1>1, StatusInv, StatusInvNext, Zenon
<1>3. ASSUME NEW j \in Ids PROVE Status'[j] = IF j = i THEN "active" ELSE Status[j]
  <2>1. CASE j \in ops'
    BY <1>1, <2>1, StatusInv, StatusInvNext, Zenon
  <2>2. CASE j \in IdsOf(completions)
    <3>1. PICK n \in DOMAIN completions : completions[n].id = j
      BY <2>2, Zenon DEF IdsOf
    <3>2. i # j
      BY <1>1, <2>2, Zenon
    <3> QED BY <1>1, <3>1, <3>2, StatusInv, StatusInvNext, Zenon
  <2>3. CASE j \notin ops' /\ j \notin IdsOf(completions)
    BY <1>1, <2>3, StatusInv, StatusInvNext, Zenon
  <2> QED BY <2>1, <2>2, <2>3, Zenon
<1>4. Status' = [Status EXCEPT ![i] = "active"]
  BY ONLY <1>2, <1>3, Zenon
<1>5. Contract!Accept(i)
  BY <1>2, <1>4, Zenon DEF Contract!Accept
<1> QED BY <1>5, Zenon DEF Contract!Next

\* Every behaviour of the IOCP backend, with the OS free to answer in any order
\* and every CancelIoEx free to come too late, is one the operation contract
\* allows: submit accepts; cancel, close_handle, shutdown and poll complete;
\* drain_completions delivers; and nothing else changes a status.
THEOREM Refinement == Spec => ImplementsContract
<1>1. Init => Contract!Init
  <2> SUFFICES ASSUME Init PROVE Contract!Init
    BY Zenon
  <2>1. ops = {} /\ DOMAIN completions = {}
    BY DEF Init, ops
  <2>2. Status = [i \in Ids |-> "free"]
    BY <2>1, Zenon DEF Status, IdsOf
  <2> QED BY <2>2, Zenon DEF Contract!Init
<1>2. TableInv /\ StoreInv /\ TableInv' /\ StoreInv' /\ [Next]_vars => [Contract!Next]_Status
  <2> SUFFICES ASSUME TableInv, StoreInv, StoreInv', [Next]_vars PROVE Contract!Next \/ UNCHANGED Status
    BY Zenon
  <2>1. ops' = ops /\ completions' = completions => UNCHANGED Status
    BY DEF Status, IdsOf
  <2>2. ASSUME NEW P \in SUBSET ops, ops' = ops \ P, Completes(P) PROVE Contract!Next
    BY <2>2, CompletingRefines, Zenon
  <2> QED BY <2>1, <2>2, StoreStep, SubmitRefines, DrainRefines, Zenon
<1> QED BY <1>1, <1>2, StoreInvariance, PTL DEF Spec, ImplementsContract, Contract!Spec
==============================================================================
