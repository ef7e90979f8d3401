----------------------------- MODULE AsyncScope -----------------------------
(***************************************************************************)
(* async_scope (src/src/async_scope.cpp): children are handed over with    *)
(* spawn and collected by join, which does not wait.  Tasks are eager; a   *)
(* child finishes on its own, before or after it is spawned.               *)
(***************************************************************************)
EXTENDS Integers, Sequences, FiniteSets, Positions

CONSTANT Tasks    \* tasks that can become children

VARIABLES
  task,        \* state of each task
  children,    \* children_
  errors,      \* errors_: the tasks whose error it holds
  sink,        \* background_error_sink::errors_
  stopping,    \* stop_source_ was cancelled
  spawned,     \* history: tasks moved into spawn and accepted
  rejected,    \* history: tasks moved into spawn and refused
  joined       \* the answer of join, if it was the last call

vars == <<task, children, errors, sink, stopping, spawned, rejected, joined>>

TypeOK ==
  /\ task \in [Tasks -> {"running", "ok", "failed"}]
  /\ children \in Seq(spawned)
  /\ \A j, k \in DOMAIN children : children[j] = children[k] => j = k
  /\ errors \in Seq(Tasks) /\ sink \in Seq(Tasks)
  /\ stopping \in BOOLEAN
  /\ spawned \subseteq Tasks /\ rejected \subseteq Tasks
  /\ joined \in {"none", "pending", "failed", "ok"}

Init ==
  /\ task = [c \in Tasks |-> "running"]
  /\ children = <<>> /\ errors = <<>> /\ sink = <<>>
  /\ stopping = FALSE /\ spawned = {} /\ rejected = {} /\ joined = "none"

\* A child runs until its task_child is destroyed.
Completes(c, how) ==
  /\ task[c] = "running" /\ c \notin rejected
  /\ task' = [task EXCEPT ![c] = how]
  /\ joined' = "none"
  /\ UNCHANGED <<children, errors, sink, stopping, spawned, rejected>>

\* request_stop; what the children make of the token is their own affair.
RequestStop ==
  /\ ~stopping
  /\ stopping' = TRUE
  /\ joined' = "none"
  /\ UNCHANGED <<task, children, errors, sink, spawned, rejected>>

\* observe_child_result and record_error for finished children, of which those
\* in failed brought an error.
Record(failed) ==
  /\ errors' = errors \o failed
  /\ sink' = sink \o failed

\* A stopping scope destroys the task; a finished one is observed at once.
Spawn(c) ==
  /\ c \notin spawned \cup rejected
  /\ IF stopping
     THEN rejected' = rejected \cup {c} /\ UNCHANGED <<children, errors, sink, spawned>>
     ELSE /\ spawned' = spawned \cup {c} /\ UNCHANGED rejected
          /\ IF task[c] = "running"
             THEN children' = Append(children, c) /\ UNCHANGED <<errors, sink>>
             ELSE Record(IF task[c] = "failed" THEN <<c>> ELSE <<>>) /\ UNCHANGED children
  /\ joined' = "none"
  /\ UNCHANGED <<task, stopping>>

Positioned(how) == {k \in DOMAIN children : task[children[k]] = how}

\* Mutant: pending children are not looked at when there is an error.
Join_ErrorFirst ==
  /\ children' \in Kept(children, Positioned("running"))
  /\ \E failed \in Kept(children, Positioned("failed")) : Record(failed)
  /\ joined' = IF errors' # <<>> THEN "failed"
               ELSE IF children' # <<>> THEN "pending" ELSE "ok"
  /\ UNCHANGED <<task, stopping, spawned, rejected>>

\* Finished children are observed in the order they were spawned and erased.
Join ==
  /\ children' \in Kept(children, Positioned("running"))
  /\ \E failed \in Kept(children, Positioned("failed")) : Record(failed)
  /\ joined' = IF children' # <<>> THEN "pending"
               ELSE IF errors' # <<>> THEN "failed" ELSE "ok"
  /\ UNCHANGED <<task, stopping, spawned, rejected>>

Next ==
  \/ \E c \in Tasks, how \in {"ok", "failed"} : Completes(c, how)
  \/ \E c \in Tasks : Spawn(c)
  \/ RequestStop \/ Join

Spec == Init /\ [][Next]_vars

------------------------------------------------------------------------------
(* Properties. *)

\* Structured concurrency: when join reports an end, no accepted child is still
\* running, and the end is a success exactly if none of them ever failed, no
\* matter whether spawn or an earlier join observed it.
JoinAccountsForAll ==
  /\ joined \in {"ok", "failed"} => \A c \in spawned : task[c] # "running"
  /\ joined = "ok" => \A c \in spawned : task[c] = "ok"
  /\ joined = "failed" => \E c \in spawned : task[c] = "failed"

==============================================================================
