------------------------------ MODULE TimerHeap ------------------------------
(***************************************************************************)
(* timer_heap (src/src/timer.cpp): a binary heap of deadlines with an      *)
(* index from timer ids to positions, and moves between heap objects.      *)
(* Positions are counted from 1 here and from 0 in the code.               *)
(***************************************************************************)
EXTENDS Integers, Sequences, FiniteSets

CONSTANTS
  Heaps,      \* timer_heap objects
  Times,      \* time points, integers
  Budgets,    \* remaining_timers() of a loop budget slice
  MaxTimers,  \* bound: timers added
  MaxOwners   \* bound: owner ids allocated

VARIABLES
  ownerId, nextId,    \* owner_id_, next_id_
  entries,            \* entries_: [deadline, id]
  indices,            \* indices_: id -> position
  nextOwnerId,        \* next_owner_id of allocate_owner_id
  handles,            \* <<owner, id>> of the timer_handles given out
  call                \* the last call, its arguments and its answer; no step reads it

vars == <<ownerId, nextId, entries, indices, nextOwnerId, handles, call>>

TypeOK ==
  /\ ownerId \in [Heaps -> 1..MaxOwners] /\ nextId \in [Heaps -> 1..(MaxTimers + 1)]
  /\ \A h, g \in Heaps : h # g => ownerId[h] # ownerId[g]
  /\ entries \in [Heaps -> Seq([deadline : Times, id : 1..MaxTimers])]
  /\ \A h \in Heaps : DOMAIN indices[h] \subseteq 1..(nextId[h] - 1)
  /\ nextOwnerId \in 1..(MaxOwners + 1)
  /\ handles \subseteq (1..MaxOwners) \X (1..MaxTimers)

Init ==
  /\ ownerId \in {f \in [Heaps -> 1..Cardinality(Heaps)] : \A h, g \in Heaps : f[h] = f[g] => h = g}
  /\ nextId = [h \in Heaps |-> 1]
  /\ entries = [h \in Heaps |-> <<>>]
  /\ indices = [h \in Heaps |-> <<>>]
  /\ nextOwnerId = Cardinality(Heaps) + 1
  /\ handles = {} /\ call = [op |-> "none"]

------------------------------------------------------------------------------
(* The heap, as a record [e, x] of its entries and indices. *)

\* Mutant: timers with the same deadline are not ordered.
EntryLess_NoTie(a, b) == a.deadline < b.deadline

EntryLess(a, b) == a.deadline < b.deadline \/ (a.deadline = b.deadline /\ a.id < b.id)

\* Mutant: only the entry that moves towards i keeps its index.
SwapEntries_OneIndex(s, i, j) ==
  LET e == [s.e EXCEPT ![i] = s.e[j], ![j] = s.e[i]]
  IN  IF i = j THEN s ELSE [e |-> e, x |-> [s.x EXCEPT ![e[i].id] = i]]

SwapEntries(s, i, j) ==
  LET e == [s.e EXCEPT ![i] = s.e[j], ![j] = s.e[i]]
  IN  IF i = j THEN s ELSE [e |-> e, x |-> [s.x EXCEPT ![e[i].id] = i, ![e[j].id] = j]]

\* A loop, by the n rounds it can take at most; a round after its end changes
\* nothing.
Rounds(Round(_), state, n) ==
  LET after[k \in 0..n] == IF k = 0 THEN state ELSE Round(after[k - 1])
  IN  after[n]

SiftUp(s, i) ==
  LET Rise(t) ==
        LET parent == t.at \div 2
        IN  IF t.at = 1 \/ ~EntryLess(t.heap.e[t.at], t.heap.e[parent]) THEN t
            ELSE [heap |-> SwapEntries(t.heap, t.at, parent), at |-> parent]
  IN  Rounds(Rise, [heap |-> s, at |-> i], Len(s.e)).heap

SiftDown(s, i) ==
  LET Sink(t) ==
        LET e == t.heap.e
            left == 2 * t.at
            right == left + 1
            smallest == IF right <= Len(e) /\ EntryLess(e[right], e[left]) THEN right ELSE left
        IN  IF left > Len(e) \/ ~EntryLess(e[smallest], e[t.at]) THEN t
            ELSE [heap |-> SwapEntries(t.heap, t.at, smallest), at |-> smallest]
  IN  Rounds(Sink, [heap |-> s, at |-> i], Len(s.e)).heap

RepairAt(s, i) ==
  IF i > Len(s.e) THEN s
  ELSE IF i > 1 /\ EntryLess(s.e[i], s.e[i \div 2]) THEN SiftUp(s, i) ELSE SiftDown(s, i)

EraseAt(s, i) ==
  LET last == Len(s.e)
      t == SwapEntries(s, i, last)
  IN  RepairAt([e |-> SubSeq(t.e, 1, last - 1),
                x |-> [n \in DOMAIN t.x \ {s.e[i].id} |-> t.x[n]]], i)

\* pop_deadline_batch: the heap without the front entries of that deadline,
\* and these entries after those in ready.
PopDeadlineBatch(s, deadline, ready) ==
  LET PopFront(b) ==
        IF b.heap.e = <<>> \/ b.heap.e[1].deadline # deadline THEN b
        ELSE [heap |-> EraseAt(b.heap, 1), ready |-> Append(b.ready, b.heap.e[1])]
  IN  Rounds(PopFront, [heap |-> s, ready |-> ready], Len(s.e))

\* plan_ready_batches: how many deadlines to pop, from that of the front on.
PlanReadyBatches(s, now, max) ==
  LET front == s.e[1].deadline
      due == {s.e[n].deadline : n \in DOMAIN s.e} \cap {t \in Times : front <= t /\ t <= now}
  IN  IF s.e = <<>> \/ now < front THEN 0
      ELSE IF Cardinality(due) < max THEN Cardinality(due) ELSE max

PopBatches(s, n) ==
  LET PopBatch(b) == PopDeadlineBatch(b.heap, b.heap.e[1].deadline, b.ready)
  IN  Rounds(PopBatch, [heap |-> s, ready |-> <<>>], n)

------------------------------------------------------------------------------
(* The operations. *)

\* A default-constructed timer_handle.
NoHandle == <<0, 0>>

Heap(h) == [e |-> entries[h], x |-> indices[h]]

SetHeap(h, s) ==
  entries' = [entries EXCEPT ![h] = s.e] /\ indices' = [indices EXCEPT ![h] = s.x]

Add(h, deadline) ==
  /\ Cardinality(handles) < MaxTimers
  /\ LET i == nextId[h]
         n == Len(entries[h]) + 1
         handle == <<ownerId[h], i>>
     IN  /\ SetHeap(h, SiftUp([e |-> Append(entries[h], [deadline |-> deadline, id |-> i]),
                               x |-> [k \in DOMAIN indices[h] \cup {i} |->
                                        IF k = i THEN n ELSE indices[h][k]]], n))
         /\ handles' = handles \cup {handle}
         /\ nextId' = [nextId EXCEPT ![h] = i + 1]
         /\ call' = [op |-> "add", owner |-> ownerId[h], deadline |-> deadline, handle |-> handle]
  /\ UNCHANGED <<ownerId, nextOwnerId>>

\* Mutant: a handle is looked up by its id alone.
Cancel_AnyOwner(h, handle) ==
  LET found == handle # NoHandle /\ handle[2] \in DOMAIN indices[h]
  IN  /\ IF found THEN SetHeap(h, EraseAt(Heap(h), indices[h][handle[2]]))
                  ELSE UNCHANGED <<entries, indices>>
      /\ call' = [op |-> "cancel", owner |-> ownerId[h], handle |-> handle, cancelled |-> found]
      /\ UNCHANGED <<ownerId, nextId, nextOwnerId, handles>>

\* Handles of other heaps, of popped and of cancelled timers cancel nothing.
Cancel(h, handle) ==
  LET found == handle # NoHandle /\ handle[1] = ownerId[h] /\ handle[2] \in DOMAIN indices[h]
  IN  /\ IF found THEN SetHeap(h, EraseAt(Heap(h), indices[h][handle[2]]))
                  ELSE UNCHANGED <<entries, indices>>
      /\ call' = [op |-> "cancel", owner |-> ownerId[h], handle |-> handle, cancelled |-> found]
      /\ UNCHANGED <<ownerId, nextId, nextOwnerId, handles>>

\* Both forms of pop_ready; without a budget every due deadline is popped, as
\* by the largest of Budgets.
PopReady(h, now, max) ==
  LET r == PopBatches(Heap(h), PlanReadyBatches(Heap(h), now, max))
  IN  /\ SetHeap(h, r.heap)
      /\ call' = [op |-> "pop", owner |-> ownerId[h], now |-> now, max |-> max,
                  fired |-> [n \in DOMAIN r.ready |->
                    [owner |-> ownerId[h], id |-> r.ready[n].id, deadline |-> r.ready[n].deadline]]]
      /\ UNCHANGED <<ownerId, nextId, nextOwnerId, handles>>

\* Move assignment; the timers of the heap assigned to are gone.
MoveAssign(to, from) ==
  /\ to # from /\ nextOwnerId <= MaxOwners
  /\ ownerId' = [ownerId EXCEPT ![to] = ownerId[from], ![from] = nextOwnerId]
  /\ nextOwnerId' = nextOwnerId + 1
  /\ nextId' = [nextId EXCEPT ![to] = nextId[from], ![from] = 1]
  /\ entries' = [entries EXCEPT ![to] = entries[from], ![from] = <<>>]
  /\ indices' = [indices EXCEPT ![to] = indices[from], ![from] = <<>>]
  /\ call' = [op |-> "move", over |-> ownerId[to]]
  /\ UNCHANGED handles

Next ==
  \/ \E h \in Heaps, d \in Times : Add(h, d)
  \/ \E h \in Heaps, handle \in handles \cup {NoHandle} : Cancel(h, handle)
  \/ \E h \in Heaps, now \in Times, max \in Budgets : PopReady(h, now, max)
  \/ \E to, from \in Heaps : MoveAssign(to, from)

Spec == Init /\ [][Next]_vars

------------------------------------------------------------------------------
(* Properties. *)

Live ==
  UNION {{[owner |-> ownerId[h], id |-> entries[h][n].id, deadline |-> entries[h][n].deadline] :
            n \in DOMAIN entries[h]} : h \in Heaps}

Service == INSTANCE TimerService WITH live <- Live, issued <- handles

\* The heap implements the timer service, call by call: every pop returns
\* exactly the due timers in order and leaves deadlines whole; a cancel removes
\* the timer of the handle it was given, if that lives in the heap it was
\* called on, and no other, and answers so; and a move keeps timers and handles
\* together.
ImplementsService == Service!Spec
==============================================================================
