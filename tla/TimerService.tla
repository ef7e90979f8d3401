---------------------------- MODULE TimerService ----------------------------
(***************************************************************************)
(* What timer heaps promise, without a heap: there is a set of live timers *)
(* and every call is answered from it alone.  Popping takes the due timers *)
(* of one owner in the order of their deadlines and, for equal deadlines,  *)
(* of their creation, and never splits a deadline.  A handle cancels the   *)
(* timer it was given out for, on the heap that owns it, or nothing.       *)
(***************************************************************************)
EXTENDS Integers, Sequences, FiniteSets

VARIABLES
  live,      \* live timers: [owner, id, deadline]
  issued,    \* handles <<owner, id>> given out
  call       \* the last call: its operation, its arguments and its answer

vars == <<live, issued, call>>

Init == live = {} /\ issued = {} /\ call = [op |-> "none"]

\* A new timer, with a handle that was never given out.
Add(c) ==
  /\ c.op = "add"
  /\ c.handle \notin issued /\ c.handle[1] = c.owner
  /\ issued' = issued \cup {c.handle}
  /\ live' = live \cup {[owner |-> c.owner, id |-> c.handle[2], deadline |-> c.deadline]}

\* The timer of the handle goes, if it lives and the heap called owns it; no
\* other timer goes; and the answer says which it was.
Cancel(c) ==
  LET own == {t \in live : t.owner = c.owner /\ <<t.owner, t.id>> = c.handle}
  IN  /\ c.op = "cancel"
      /\ live' = live \ own
      /\ c.cancelled = (own # {})
      /\ UNCHANGED issued

\* The timers of o with the n earliest deadlines that are due.
Due(o, now, n) ==
  {t \in live :
     /\ t.owner = o /\ t.deadline <= now
     /\ Cardinality({u.deadline : u \in {v \in live : v.owner = o /\ v.deadline < t.deadline}}) < n}

Before(t, u) == t.deadline < u.deadline \/ (t.deadline = u.deadline /\ t.id <= u.id)

\* Exactly the due timers are popped, in order.
Pop(c) ==
  LET due == Due(c.owner, c.now, c.max)
  IN  /\ c.op = "pop"
      /\ live' = live \ due
      /\ Len(c.fired) = Cardinality(due) /\ {c.fired[k] : k \in DOMAIN c.fired} = due
      /\ \A j, k \in DOMAIN c.fired : j < k => Before(c.fired[j], c.fired[k])
      /\ UNCHANGED issued

\* A heap is moved onto another: the timers of the one overwritten go, and
\* those of the one moved stay, with their handles.
Move(c) ==
  /\ c.op = "move"
  /\ live' = {t \in live : t.owner # c.over}
  /\ UNCHANGED issued

Next == Add(call') \/ Cancel(call') \/ Pop(call') \/ Move(call')

Spec == Init /\ [][Next]_vars
==============================================================================
