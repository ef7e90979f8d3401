--------------------------- MODULE Blocking_proofs ---------------------------
(***************************************************************************)
(* The blocking executor and awaited file operations on it, for any        *)
(* threads, works, operations and limits.  Of BlockingExecutor: type       *)
(* correctness, the conservation of work and what shutdown guarantees when *)
(* it returns.  Of File: a coroutine gets what its work did, and once.  Of *)
(* FileRuntime, their composition with a shard's bounded lane: when the    *)
(* process may be ended, and that a shutdown leaves no operation behind.   *)
(***************************************************************************)
EXTENDS FileRuntime, FiniteSetTheorems, TLAPS

USE BlockingConstants

\* A worker leaves only when a shutdown was requested and the queue is empty;
\* both stay so, because submit refuses work from then on.
ExitedAfterDrain == \A w \in Workers : worker[w] = "exited" => shuttingDown /\ queue = <<>>

\* A worker holds a piece of work exactly while it runs it.
HoldsWhileRunning ==
  \A w \in Workers : IF worker[w] = "running" THEN current[w] \in Works ELSE current[w] = NoWork

\* The join is complete only when every worker has left.
JoinedAllExited == joinComplete => \A w \in Workers : worker[w] = "exited"

\* shutdown returns to a caller only after a complete join.
ReturnedAfterJoin == \A t \in Callers : call[t] = "returned" => joinComplete

Inv ==
  /\ TypeOK
  /\ WorkConserved
  /\ ExitedAfterDrain
  /\ HoldsWhileRunning
  /\ JoinedAllExited
  /\ ReturnedAfterJoin

------------------------------------------------------------------------------
\* The constructor's state has the types.
LEMMA TypeInit == Init => TypeOK
<1> SUFFICES ASSUME Init PROVE TypeOK
  BY Zenon
<1>1. <<>> \in Seq(Works) /\ Len(<<>>) = 0 /\ 0 <= QueueLimit
  OBVIOUS
<1>2. queue \in Seq(Works) /\ Len(queue) <= QueueLimit
  BY <1>1, Zenon DEF Init
<1> QED
  BY <1>2, Zenon DEF Init, TypeOK

\* Each critical section of submit, shutdown and worker_loop keeps the types.
LEMMA TypeNext == TypeOK /\ HoldsWhileRunning /\ [Next]_vars => TypeOK'
<1> SUFFICES ASSUME TypeOK, HoldsWhileRunning, [Next]_vars PROVE TypeOK'
  BY Zenon
<1> USE DEF TypeOK
<1>1. ASSUME NEW t \in Threads, NEW x \in Works, Submit(t, x) PROVE TypeOK'
  BY <1>1 DEF Submit
<1>2. ASSUME NEW t \in Threads, RequestShutdown(t) PROVE TypeOK'
  BY <1>2, Zenon DEF RequestShutdown
<1>3. ASSUME NEW t \in Threads, NotifyOne(t) PROVE TypeOK'
  BY <1>3, Zenon DEF NotifyOne
<1>4. ASSUME NEW t \in Threads, NotifyAll(t) PROVE TypeOK'
  BY <1>4, Zenon DEF NotifyAll
<1>5. ASSUME NEW t \in Threads, JoinWorkers(t) PROVE TypeOK'
  BY <1>5, Zenon DEF JoinWorkers
<1>6. ASSUME NEW t \in Threads, JoinCompletes(t) PROVE TypeOK'
  BY <1>6, Zenon DEF JoinCompletes
<1>7. ASSUME NEW t \in Threads, JoinObserved(t) PROVE TypeOK'
  BY <1>7, Zenon DEF JoinObserved
<1>8. ASSUME NEW w \in Workers, Take(w) PROVE TypeOK'
  <2>1. CASE queue # <<>>
    <3>1. Head(queue) \in Works /\ Tail(queue) \in Seq(Works) /\ Len(Tail(queue)) <= QueueLimit
      BY <2>1
    <3> QED
      BY <1>8, <2>1, <3>1, ZenonT(60) DEF Take
  <2>2. CASE queue = <<>>
    BY <1>8, <2>2, Zenon DEF Take
  <2> QED
    BY <2>1, <2>2, Zenon
<1>9. ASSUME NEW w \in Workers, SpuriousWakeup(w) PROVE TypeOK'
  BY <1>9, Zenon DEF SpuriousWakeup
<1>10. ASSUME NEW w \in Workers, Finish(w) PROVE TypeOK'
  BY <1>10, Zenon DEF Finish, HoldsWhileRunning
<1>11. ASSUME UNCHANGED vars PROVE TypeOK'
  BY <1>11, Zenon DEF vars
<1> QED
  BY <1>1, <1>2, <1>3, <1>4, <1>5, <1>6, <1>7, <1>8, <1>9, <1>10, <1>11, Zenon DEF Next, CallStep

------------------------------------------------------------------------------
\* Nothing is running, exited or joined at first.
LEMMA InvInit == Init => Inv
<1> SUFFICES ASSUME Init PROVE Inv
  BY Zenon
<1>1. TypeOK
  BY TypeInit, Zenon
<1>2. WorkConserved
  BY Zenon DEF Init, WorkConserved
<1>3. ExitedAfterDrain /\ HoldsWhileRunning /\ JoinedAllExited
  BY Zenon DEF Init, ExitedAfterDrain, HoldsWhileRunning, JoinedAllExited
<1>4. ReturnedAfterJoin
  BY Zenon DEF Init, ReturnedAfterJoin, Threads
<1> QED
  BY <1>1, <1>2, <1>3, <1>4, Zenon DEF Inv

\* Only Take and Finish change what a worker holds.
LEMMA HoldsNext == TypeOK /\ HoldsWhileRunning /\ [Next]_vars => HoldsWhileRunning'
<1> SUFFICES ASSUME TypeOK, HoldsWhileRunning, [Next]_vars PROVE HoldsWhileRunning'
  BY Zenon
<1> USE DEF HoldsWhileRunning, TypeOK
<1>1. ASSUME NEW t \in Threads, NEW x \in Works, Submit(t, x) PROVE HoldsWhileRunning'
  BY <1>1, Zenon DEF Submit
<1>2. ASSUME NEW t \in Threads, RequestShutdown(t) PROVE HoldsWhileRunning'
  BY <1>2, Zenon DEF RequestShutdown
<1>3. ASSUME NEW t \in Threads, NotifyOne(t) PROVE HoldsWhileRunning'
  BY <1>3, Zenon DEF NotifyOne
<1>4. ASSUME NEW t \in Threads, NotifyAll(t) PROVE HoldsWhileRunning'
  BY <1>4, Zenon DEF NotifyAll
<1>5. ASSUME NEW t \in Threads, JoinWorkers(t) PROVE HoldsWhileRunning'
  BY <1>5, Zenon DEF JoinWorkers
<1>6. ASSUME NEW t \in Threads, JoinCompletes(t) PROVE HoldsWhileRunning'
  BY <1>6, Zenon DEF JoinCompletes
<1>7. ASSUME NEW t \in Threads, JoinObserved(t) PROVE HoldsWhileRunning'
  BY <1>7, Zenon DEF JoinObserved
<1>8. ASSUME NEW w \in Workers, Take(w) PROVE HoldsWhileRunning'
  <2>1. CASE queue # <<>>
    <3>1. Head(queue) \in Works
      BY <2>1
    <3> QED
      BY <1>8, <2>1, <3>1, Zenon DEF Take
  <2>2. CASE queue = <<>>
    BY <1>8, <2>2, Zenon DEF Take
  <2> QED
    BY <2>1, <2>2, Zenon
<1>9. ASSUME NEW w \in Workers, SpuriousWakeup(w) PROVE HoldsWhileRunning'
  BY <1>9, Zenon DEF SpuriousWakeup
<1>10. ASSUME NEW w \in Workers, Finish(w) PROVE HoldsWhileRunning'
  BY <1>10, Zenon DEF Finish
<1>11. ASSUME UNCHANGED vars PROVE HoldsWhileRunning'
  BY <1>11, Zenon DEF vars
<1> QED
  BY <1>1, <1>2, <1>3, <1>4, <1>5, <1>6, <1>7, <1>8, <1>9, <1>10, <1>11, Zenon DEF Next, CallStep

\* Append adds its element to what is queued and keeps the rest.
LEMMA QueuedAppend ==
  ASSUME NEW s \in Seq(Works), NEW x \in Works
  PROVE  {Append(s, x)[n] : n \in DOMAIN Append(s, x)} = {s[n] : n \in DOMAIN s} \cup {x}
<1>1. DOMAIN Append(s, x) = 1..(Len(s) + 1) /\ DOMAIN s = 1..Len(s) /\ Len(s) \in Nat
  OBVIOUS
<1>2. \A n \in 1..Len(s) : Append(s, x)[n] = s[n]
  OBVIOUS
<1>3. Append(s, x)[Len(s) + 1] = x
  OBVIOUS
<1> QED
  BY <1>1, <1>2, <1>3

\* Taking the front leaves everything else in the queue.
LEMMA QueuedTail ==
  ASSUME NEW s \in Seq(Works), s # <<>>
  PROVE  {s[n] : n \in DOMAIN s} \subseteq {Tail(s)[n] : n \in DOMAIN Tail(s)} \cup {Head(s)}
<1>1. DOMAIN s = 1..Len(s) /\ DOMAIN Tail(s) = 1..(Len(s) - 1) /\ Len(s) \in Nat
  OBVIOUS
<1>2. s[1] = Head(s) /\ \A n \in 1..(Len(s) - 1) : Tail(s)[n] = s[n + 1]
  OBVIOUS
<1>3. ASSUME NEW n \in DOMAIN s PROVE s[n] \in {Tail(s)[k] : k \in DOMAIN Tail(s)} \cup {Head(s)}
  <2>1. CASE n = 1
    BY <1>2, <2>1, Zenon
  <2>2. CASE n # 1
    <3>1. n - 1 \in 1..(Len(s) - 1) /\ (n - 1) + 1 = n
      BY <1>1, <1>3, <2>2
    <3>2. Tail(s)[n - 1] = s[n]
      BY <1>2, <3>1, Zenon
    <3> QED
      BY <1>1, <3>1, <3>2, Zenon
  <2> QED
    BY <2>1, <2>2, Zenon
<1> QED
  BY <1>3, Zenon

\* Work moves from submit to the queue, to a worker, to the done, and nowhere
\* else.
LEMMA ConservedNext ==
  TypeOK /\ HoldsWhileRunning /\ WorkConserved /\ [Next]_vars => WorkConserved'
<1> SUFFICES ASSUME TypeOK, HoldsWhileRunning, WorkConserved, [Next]_vars PROVE WorkConserved'
  BY Zenon
<1> USE DEF WorkConserved, Queued
<1>1. ASSUME NEW t \in Threads, NEW x \in Works, Submit(t, x) PROVE WorkConserved'
  <2>1. queue' = Append(queue, x) /\ accepted' = accepted \cup {x} /\ UNCHANGED <<current, ran>>
    BY <1>1, Zenon DEF Submit
  <2>2. Queued' = Queued \cup {x}
    <3>1. queue \in Seq(Works)
      BY Zenon DEF TypeOK
    <3>2. {Append(queue, x)[n] : n \in DOMAIN Append(queue, x)} = {queue[n] : n \in DOMAIN queue} \cup {x}
      BY ONLY <3>1, x \in Works, QueuedAppend, Zenon
    <3> QED BY ONLY <2>1, <3>2 DEF Queued
  <2> QED
    BY <2>1, <2>2, Zenon
<1>2. ASSUME NEW t \in Threads, RequestShutdown(t) PROVE WorkConserved'
  BY <1>2, Zenon DEF RequestShutdown
<1>3. ASSUME NEW t \in Threads, NotifyOne(t) PROVE WorkConserved'
  BY <1>3, Zenon DEF NotifyOne
<1>4. ASSUME NEW t \in Threads, NotifyAll(t) PROVE WorkConserved'
  BY <1>4, Zenon DEF NotifyAll
<1>5. ASSUME NEW t \in Threads, JoinWorkers(t) PROVE WorkConserved'
  BY <1>5, Zenon DEF JoinWorkers
<1>6. ASSUME NEW t \in Threads, JoinCompletes(t) PROVE WorkConserved'
  BY <1>6, Zenon DEF JoinCompletes
<1>7. ASSUME NEW t \in Threads, JoinObserved(t) PROVE WorkConserved'
  BY <1>7, Zenon DEF JoinObserved
<1>8. ASSUME NEW w \in Workers, Take(w) PROVE WorkConserved'
  <2>1. CASE queue # <<>>
    <3>1. queue' = Tail(queue) /\ current' = [current EXCEPT ![w] = Head(queue)]
          /\ worker[w] = "checking" /\ UNCHANGED <<accepted, ran>>
      BY <1>8, <2>1, Zenon DEF Take
    <3>2. Queued \subseteq Queued' \cup {Head(queue)}
      BY <2>1, <3>1, QueuedTail, Zenon DEF TypeOK
    <3>3. current'[w] = Head(queue) /\ \A v \in Workers \ {w} : current'[v] = current[v]
      BY <3>1, Zenon DEF TypeOK
    <3>4. current[w] = NoWork
      BY <3>1, Zenon DEF HoldsWhileRunning
    <3>5. ASSUME NEW x \in accepted PROVE x \in Queued' \cup {current'[v] : v \in Workers} \cup ran
      <4>1. x # NoWork
        BY Zenon DEF TypeOK
      <4>2. x \in Queued \/ (\E v \in Workers : x = current[v]) \/ x \in ran
        BY Zenon
      <4> QED
        BY <3>2, <3>3, <3>4, <4>1, <4>2, Zenon
    <3> QED
      BY <3>1, <3>5, Zenon
  <2>2. CASE queue = <<>>
    BY <1>8, <2>2, ZenonT(60) DEF Take
  <2> QED
    BY <2>1, <2>2, Zenon
<1>9. ASSUME NEW w \in Workers, SpuriousWakeup(w) PROVE WorkConserved'
  BY <1>9, Zenon DEF SpuriousWakeup
<1>10. ASSUME NEW w \in Workers, Finish(w) PROVE WorkConserved'
  <2>1. current' = [current EXCEPT ![w] = NoWork] /\ ran' = ran \cup {current[w]}
        /\ UNCHANGED <<accepted, queue>>
    BY <1>10, Zenon DEF Finish
  <2>2. \A v \in Workers \ {w} : current'[v] = current[v]
    BY <2>1, Zenon DEF TypeOK
  <2> QED
    BY <2>1, <2>2, Zenon
<1>11. ASSUME UNCHANGED vars PROVE WorkConserved'
  BY <1>11, Zenon DEF vars
<1> QED
  BY <1>1, <1>2, <1>3, <1>4, <1>5, <1>6, <1>7, <1>8, <1>9, <1>10, <1>11, Zenon DEF Next, CallStep

\* A worker that left stays gone, and the queue it left empty stays empty.
LEMMA ExitedNext == TypeOK /\ ExitedAfterDrain /\ [Next]_vars => ExitedAfterDrain'
<1> SUFFICES ASSUME TypeOK, ExitedAfterDrain, [Next]_vars PROVE ExitedAfterDrain'
  BY Zenon
<1> USE DEF ExitedAfterDrain, TypeOK
<1>1. ASSUME NEW t \in Threads, NEW x \in Works, Submit(t, x) PROVE ExitedAfterDrain'
  BY <1>1, Zenon DEF Submit
<1>2. ASSUME NEW t \in Threads, RequestShutdown(t) PROVE ExitedAfterDrain'
  BY <1>2, Zenon DEF RequestShutdown
<1>3. ASSUME NEW t \in Threads, NotifyOne(t) PROVE ExitedAfterDrain'
  BY <1>3, Zenon DEF NotifyOne
<1>4. ASSUME NEW t \in Threads, NotifyAll(t) PROVE ExitedAfterDrain'
  BY <1>4, Zenon DEF NotifyAll
<1>5. ASSUME NEW t \in Threads, JoinWorkers(t) PROVE ExitedAfterDrain'
  BY <1>5, Zenon DEF JoinWorkers
<1>6. ASSUME NEW t \in Threads, JoinCompletes(t) PROVE ExitedAfterDrain'
  BY <1>6, Zenon DEF JoinCompletes
<1>7. ASSUME NEW t \in Threads, JoinObserved(t) PROVE ExitedAfterDrain'
  BY <1>7, Zenon DEF JoinObserved
<1>8. ASSUME NEW w \in Workers, Take(w) PROVE ExitedAfterDrain'
  BY <1>8, Zenon DEF Take
<1>9. ASSUME NEW w \in Workers, SpuriousWakeup(w) PROVE ExitedAfterDrain'
  BY <1>9, Zenon DEF SpuriousWakeup
<1>10. ASSUME NEW w \in Workers, Finish(w) PROVE ExitedAfterDrain'
  BY <1>10, Zenon DEF Finish
<1>11. ASSUME UNCHANGED vars PROVE ExitedAfterDrain'
  BY <1>11, Zenon DEF vars
<1> QED
  BY <1>1, <1>2, <1>3, <1>4, <1>5, <1>6, <1>7, <1>8, <1>9, <1>10, <1>11, Zenon DEF Next, CallStep

\* joinComplete is set when all workers have left, and they do not come back.
LEMMA JoinedNext == TypeOK /\ JoinedAllExited /\ [Next]_vars => JoinedAllExited'
<1> SUFFICES ASSUME TypeOK, JoinedAllExited, [Next]_vars PROVE JoinedAllExited'
  BY Zenon
<1> USE DEF JoinedAllExited, TypeOK
<1>1. ASSUME NEW t \in Threads, NEW x \in Works, Submit(t, x) PROVE JoinedAllExited'
  BY <1>1, Zenon DEF Submit
<1>2. ASSUME NEW t \in Threads, RequestShutdown(t) PROVE JoinedAllExited'
  BY <1>2, Zenon DEF RequestShutdown
<1>3. ASSUME NEW t \in Threads, NotifyOne(t) PROVE JoinedAllExited'
  BY <1>3, Zenon DEF NotifyOne
<1>4. ASSUME NEW t \in Threads, NotifyAll(t) PROVE JoinedAllExited'
  BY <1>4, Zenon DEF NotifyAll
<1>5. ASSUME NEW t \in Threads, JoinWorkers(t) PROVE JoinedAllExited'
  BY <1>5, Zenon DEF JoinWorkers
<1>6. ASSUME NEW t \in Threads, JoinCompletes(t) PROVE JoinedAllExited'
  BY <1>6, Zenon DEF JoinCompletes
<1>7. ASSUME NEW t \in Threads, JoinObserved(t) PROVE JoinedAllExited'
  BY <1>7, Zenon DEF JoinObserved
<1>8. ASSUME NEW w \in Workers, Take(w) PROVE JoinedAllExited'
  BY <1>8, Zenon DEF Take
<1>9. ASSUME NEW w \in Workers, SpuriousWakeup(w) PROVE JoinedAllExited'
  BY <1>9, Zenon DEF SpuriousWakeup
<1>10. ASSUME NEW w \in Workers, Finish(w) PROVE JoinedAllExited'
  BY <1>10, Zenon DEF Finish
<1>11. ASSUME UNCHANGED vars PROVE JoinedAllExited'
  BY <1>11, Zenon DEF vars
<1> QED
  BY <1>1, <1>2, <1>3, <1>4, <1>5, <1>6, <1>7, <1>8, <1>9, <1>10, <1>11, Zenon DEF Next, CallStep

\* Each of the three ways out of join_workers finds the join complete.
LEMMA ReturnedNext == TypeOK /\ ReturnedAfterJoin /\ [Next]_vars => ReturnedAfterJoin'
<1> SUFFICES ASSUME TypeOK, ReturnedAfterJoin, [Next]_vars PROVE ReturnedAfterJoin'
  BY Zenon
<1> USE DEF ReturnedAfterJoin, TypeOK, Threads
<1>1. ASSUME NEW t \in Threads, NEW x \in Works, Submit(t, x) PROVE ReturnedAfterJoin'
  BY <1>1, Zenon DEF Submit
<1>2. ASSUME NEW t \in Threads, RequestShutdown(t) PROVE ReturnedAfterJoin'
  BY <1>2, Zenon DEF RequestShutdown
<1>3. ASSUME NEW t \in Threads, NotifyOne(t) PROVE ReturnedAfterJoin'
  BY <1>3, Zenon DEF NotifyOne
<1>4. ASSUME NEW t \in Threads, NotifyAll(t) PROVE ReturnedAfterJoin'
  BY <1>4, Zenon DEF NotifyAll
<1>5. ASSUME NEW t \in Threads, JoinWorkers(t) PROVE ReturnedAfterJoin'
  BY <1>5, Zenon DEF JoinWorkers
<1>6. ASSUME NEW t \in Threads, JoinCompletes(t) PROVE ReturnedAfterJoin'
  BY <1>6, Zenon DEF JoinCompletes
<1>7. ASSUME NEW t \in Threads, JoinObserved(t) PROVE ReturnedAfterJoin'
  BY <1>7, Zenon DEF JoinObserved
<1>8. ASSUME NEW w \in Workers, Take(w) PROVE ReturnedAfterJoin'
  BY <1>8, Zenon DEF Take
<1>9. ASSUME NEW w \in Workers, SpuriousWakeup(w) PROVE ReturnedAfterJoin'
  BY <1>9, Zenon DEF SpuriousWakeup
<1>10. ASSUME NEW w \in Workers, Finish(w) PROVE ReturnedAfterJoin'
  BY <1>10, Zenon DEF Finish
<1>11. ASSUME UNCHANGED vars PROVE ReturnedAfterJoin'
  BY <1>11, Zenon DEF vars
<1> QED
  BY <1>1, <1>2, <1>3, <1>4, <1>5, <1>6, <1>7, <1>8, <1>9, <1>10, <1>11, ZenonT(60) DEF Next, CallStep

------------------------------------------------------------------------------
\* The invariant holds in every reachable state.
LEMMA Invariance == Spec => []Inv
<1>1. Inv /\ [Next]_vars => Inv'
  BY TypeNext, HoldsNext, ConservedNext, ExitedNext, JoinedNext, ReturnedNext, Zenon DEF Inv
<1> QED
  BY InvInit, <1>1, PTL DEF Spec

\* The queue stays within queue_limit and every thread where the code can be.
THEOREM TypeCorrect == Spec => []TypeOK
<1>1. Inv => TypeOK
  BY Zenon DEF Inv
<1> QED
  BY Invariance, <1>1, PTL

\* No accepted work is lost between submit, the queue and the workers.
THEOREM Conserved == Spec => []WorkConserved
<1>1. Inv => WorkConserved
  BY Zenon DEF Inv
<1> QED
  BY Invariance, <1>1, PTL

\* When shutdown has returned the queue is empty and no worker holds work.
LEMMA DrainedWhenReturned == Inv => ShutdownDrains
<1> SUFFICES ASSUME Inv, NEW t \in Callers, call[t] = "returned"
             PROVE  accepted \subseteq ran /\ \A w \in Workers : worker[w] = "exited"
  BY Zenon DEF ShutdownDrains
<1>1. \A w \in Workers : worker[w] = "exited"
  BY Zenon DEF Inv, ReturnedAfterJoin, JoinedAllExited
<1>2. \A w \in Workers : current[w] = NoWork /\ queue = <<>>
  BY <1>1, Zenon DEF Inv, HoldsWhileRunning, ExitedAfterDrain
<1>3. Queued = {}
  BY <1>2 DEF Queued
<1> QED
  BY <1>1, <1>2, <1>3, Zenon DEF Inv, WorkConserved, TypeOK

\* shutdown returns to a caller only when all accepted work has run and every
\* worker thread has left.
THEOREM Drained == Spec => []ShutdownDrains
BY Invariance, DrainedWhenReturned, PTL

------------------------------------------------------------------------------
(* blocking_file_operation: File. *)

\* The result is there once the work published it, or once the executor refused
\* the work; done records the same, already when the work has run.
ResultsOK ==
  \A o \in Ops :
    /\ o \notin submitted => work[o] = "none" /\ result[o] = "refused"
    /\ result[o] # "none" => result[o] = done[o] /\ (o \in submitted => work[o] = "published")
    /\ work[o] = "published" => result[o] # "none"
    /\ work[o] = "ran" => done[o] # "none"
    /\ work[o] \in {"none", "queued"} /\ o \in submitted => done[o] = "none"

\* continuation and detached follow the coroutine; a coroutine that was not
\* started has submitted nothing.
CoroutinesOK ==
  \A o \in Ops :
    /\ coroutine[o] = "unstarted" => work[o] = "none" /\ o \in submitted
    /\ o \in continuation <=> coroutine[o] = "suspended"
    /\ o \in detached <=> coroutine[o] \in {"resumed", "destroyed"}

\* A resumption is called for by one side only, after the coroutine is suspended
\* and the result is there: the later of await_suspend and publish sees both.
ResumptionOK(o) ==
  LET asked == <<o, "coroutine">> \in scheduling \/ <<o, "worker">> \in scheduling
  IN  /\ asked => schedules[o] = 0
      /\ ~(<<o, "coroutine">> \in scheduling /\ <<o, "worker">> \in scheduling)
      /\ o \in queued => schedules[o] = 1
      /\ asked \/ schedules[o] # 0 =>
           result[o] # "none" /\ coroutine[o] \in {"suspended", "resumed", "destroyed"}
      /\ <<o, "worker">> \in scheduling => work[o] = "published"

OneResumption == \A o \in Ops : ResumptionOK(o)

FileInv == F!TypeOK /\ ResultsOK /\ CoroutinesOK /\ OneResumption /\ F!TrueOutcome

\* Operations are unstarted at first.
LEMMA FileInit == F!Init => FileInv
<1> SUFFICES ASSUME F!Init PROVE FileInv
  BY Zenon
<1>1. F!TypeOK
  BY DEF F!Init, F!TypeOK, F!Kinds, F!Results, F!Sides
<1>2. ResultsOK /\ CoroutinesOK
  BY Zenon DEF F!Init, ResultsOK, CoroutinesOK
<1>3. OneResumption /\ F!TrueOutcome
  BY DEF F!Init, OneResumption, ResumptionOK, F!TrueOutcome
<1> QED
  BY <1>1, <1>2, <1>3, Zenon DEF FileInv

\* Each section keeps the types; a resumption is scheduled only while none was.
LEMMA FileTypeNext == FileInv /\ [F!Next]_(F!vars) => F!TypeOK'
<1> SUFFICES ASSUME FileInv, [F!Next]_(F!vars) PROVE F!TypeOK'
  BY Zenon
<1> USE FileConstants DEF FileInv, F!TypeOK, F!Results, F!Sides, F!Kinds, F!fileVars, F!Longest,
        OneResumption, ResumptionOK
<1>1. ASSUME NEW o \in Ops, NEW k \in F!Kinds, F!Start(o, k) PROVE F!TypeOK'
  BY <1>1, Zenon DEF F!Start
<1>2. ASSUME NEW o \in Ops, F!StartRefused(o) PROVE F!TypeOK'
  BY <1>2, Zenon DEF F!StartRefused
<1>3. ASSUME NEW o \in Ops, F!AwaitReady(o) PROVE F!TypeOK'
  BY <1>3 DEF F!AwaitReady, F!TakeResult
<1>4. ASSUME NEW o \in Ops, F!Install(o) PROVE F!TypeOK'
  BY <1>4 DEF F!Install
<1>5. ASSUME NEW o \in Ops, F!ResumeIfClaimed(o) PROVE F!TypeOK'
  BY <1>5 DEF F!ResumeIfClaimed, F!TakeResult
<1>6. ASSUME NEW o \in Ops, F!Destroy(o) PROVE F!TypeOK'
  BY <1>6, ZenonT(60) DEF F!Destroy
<1>7. ASSUME NEW o \in Ops, F!Run(o) PROVE F!TypeOK'
  BY <1>7 DEF F!Run
<1>8. ASSUME NEW o \in Ops, F!Publish(o) PROVE F!TypeOK'
  BY <1>8 DEF F!Publish
<1>9. ASSUME NEW o \in Ops, NEW side \in F!Sides, F!ScheduleResume(o, side) PROVE F!TypeOK'
  <2>1. schedules[o] = 0
    BY <1>9, Zenon DEF F!ScheduleResume
  <2>2. schedules' = [schedules EXCEPT ![o] = 1]
    BY <1>9, <2>1 DEF F!ScheduleResume
  <2>3. schedules' \in [Ops -> 0..1]
    BY <2>2
  <2> QED
    BY <1>9, <2>3, ZenonT(60) DEF F!ScheduleResume
<1>10. ASSUME F!Direct PROVE F!TypeOK'
  <2>1. UNCHANGED F!opVars
    BY <1>10, Zenon DEF F!Direct, F!AllocateSize, F!Truncate, F!AllocateTruncate, F!Flush, F!Close
  <2>2. size' \in Nat /\ dirty' \in Nat /\ allocating' \in Sizes \cup {0}
    BY <1>10 DEF F!Direct, F!AllocateSize, F!Truncate, F!AllocateTruncate, F!Flush, F!Close
  <2>3. open' \in BOOLEAN
    BY <1>10, Zenon DEF F!Direct, F!AllocateSize, F!Truncate, F!AllocateTruncate, F!Flush, F!Close
  <2> QED
    BY <2>1, <2>2, <2>3, Zenon DEF F!opVars
<1>11. ASSUME UNCHANGED F!vars PROVE F!TypeOK'
  BY <1>11, Zenon DEF F!vars, F!opVars
<1> HIDE DEF FileInv, F!TypeOK, F!Results, F!Sides, F!Kinds, F!fileVars, F!Longest,
        OneResumption, ResumptionOK
<1> QED
  BY <1>1, <1>2, <1>3, <1>4, <1>5, <1>6, <1>7, <1>8, <1>9, <1>10, <1>11, ZenonT(60) DEF F!Next, F!Coroutine

\* Results are set once, by publish or by the refusal.
LEMMA ResultsNext == FileInv /\ [F!Next]_(F!vars) => ResultsOK'
<1> SUFFICES ASSUME FileInv, [F!Next]_(F!vars) PROVE ResultsOK'
  BY Zenon
<1> USE FileConstants DEF FileInv, ResultsOK, CoroutinesOK, F!TypeOK
<1>1. ASSUME NEW o \in Ops, NEW k \in F!Kinds, F!Start(o, k) PROVE ResultsOK'
  BY <1>1, Zenon DEF F!Start
<1>2. ASSUME NEW o \in Ops, F!StartRefused(o) PROVE ResultsOK'
  BY <1>2, Zenon DEF F!StartRefused
<1>3. ASSUME NEW o \in Ops, F!AwaitReady(o) PROVE ResultsOK'
  BY <1>3, Zenon DEF F!AwaitReady, F!TakeResult
<1>4. ASSUME NEW o \in Ops, F!Install(o) PROVE ResultsOK'
  BY <1>4, Zenon DEF F!Install
<1>5. ASSUME NEW o \in Ops, F!ResumeIfClaimed(o) PROVE ResultsOK'
  BY <1>5, Zenon DEF F!ResumeIfClaimed, F!TakeResult
<1>6. ASSUME NEW o \in Ops, F!Destroy(o) PROVE ResultsOK'
  BY <1>6, Zenon DEF F!Destroy
<1>7. ASSUME NEW o \in Ops, F!Run(o) PROVE ResultsOK'
  BY <1>7, ZenonT(60) DEF F!Run
<1>8. ASSUME NEW o \in Ops, F!Publish(o) PROVE ResultsOK'
  BY <1>8 DEF F!Publish
<1>9. ASSUME NEW o \in Ops, NEW side \in F!Sides, F!ScheduleResume(o, side) PROVE ResultsOK'
  BY <1>9, Zenon DEF F!ScheduleResume
<1>10. ASSUME F!Direct PROVE ResultsOK'
  BY <1>10, ZenonT(60) DEF F!Direct, F!AllocateSize, F!Truncate, F!AllocateTruncate, F!Flush, F!Close, F!opVars
<1>11. ASSUME UNCHANGED F!vars PROVE ResultsOK'
  BY <1>11, Zenon DEF F!vars, F!opVars
<1> HIDE DEF FileInv, ResultsOK, CoroutinesOK, F!TypeOK
<1> QED
  BY <1>1, <1>2, <1>3, <1>4, <1>5, <1>6, <1>7, <1>8, <1>9, <1>10, <1>11, Zenon DEF F!Next, F!Coroutine

\* The awaiter moves continuation and detached with the coroutine.
LEMMA CoroutinesNext == FileInv /\ [F!Next]_(F!vars) => CoroutinesOK'
<1> SUFFICES ASSUME FileInv, [F!Next]_(F!vars) PROVE CoroutinesOK'
  BY Zenon
<1> USE FileConstants DEF FileInv, CoroutinesOK, F!TypeOK
<1>1. ASSUME NEW o \in Ops, NEW k \in F!Kinds, F!Start(o, k) PROVE CoroutinesOK'
  BY <1>1, Zenon DEF F!Start
<1>2. ASSUME NEW o \in Ops, F!StartRefused(o) PROVE CoroutinesOK'
  BY <1>2, Zenon DEF F!StartRefused
<1>3. ASSUME NEW o \in Ops, F!AwaitReady(o) PROVE CoroutinesOK'
  BY <1>3 DEF F!AwaitReady, F!TakeResult
<1>4. ASSUME NEW o \in Ops, F!Install(o) PROVE CoroutinesOK'
  BY <1>4, Zenon DEF F!Install
<1>5. ASSUME NEW o \in Ops, F!ResumeIfClaimed(o) PROVE CoroutinesOK'
  BY <1>5 DEF F!ResumeIfClaimed, F!TakeResult
<1>6. ASSUME NEW o \in Ops, F!Destroy(o) PROVE CoroutinesOK'
  BY <1>6, Zenon DEF F!Destroy
<1>7. ASSUME NEW o \in Ops, F!Run(o) PROVE CoroutinesOK'
  BY <1>7, Zenon DEF F!Run
<1>8. ASSUME NEW o \in Ops, F!Publish(o) PROVE CoroutinesOK'
  BY <1>8, Zenon DEF F!Publish
<1>9. ASSUME NEW o \in Ops, NEW side \in F!Sides, F!ScheduleResume(o, side) PROVE CoroutinesOK'
  BY <1>9, Zenon DEF F!ScheduleResume
<1>10. ASSUME F!Direct PROVE CoroutinesOK'
  BY <1>10, Zenon DEF F!Direct, F!AllocateSize, F!Truncate, F!AllocateTruncate, F!Flush, F!Close, F!opVars
<1>11. ASSUME UNCHANGED F!vars PROVE CoroutinesOK'
  BY <1>11, ZenonT(60) DEF F!vars, F!opVars
<1> HIDE DEF FileInv, CoroutinesOK, F!TypeOK
<1> QED
  BY <1>1, <1>2, <1>3, <1>4, <1>5, <1>6, <1>7, <1>8, <1>9, <1>10, <1>11, Zenon DEF F!Next, F!Coroutine

\* await_suspend and publish look at each other under the lock of the state.
LEMMA OneResumptionNext == FileInv /\ [F!Next]_(F!vars) => OneResumption'
<1> SUFFICES ASSUME FileInv, [F!Next]_(F!vars) PROVE OneResumption'
  BY Zenon
<1> USE FileConstants DEF FileInv, OneResumption, ResumptionOK, ResultsOK, CoroutinesOK, F!TypeOK, F!Sides
<1>1. ASSUME NEW o \in Ops, NEW k \in F!Kinds, F!Start(o, k) PROVE OneResumption'
  BY <1>1, ZenonT(60) DEF F!Start
<1>2. ASSUME NEW o \in Ops, F!StartRefused(o) PROVE OneResumption'
  BY <1>2, ZenonT(60) DEF F!StartRefused
<1>3. ASSUME NEW o \in Ops, F!AwaitReady(o) PROVE OneResumption'
  BY <1>3, ZenonT(60) DEF F!AwaitReady, F!TakeResult
<1>4. ASSUME NEW o \in Ops, F!Install(o) PROVE OneResumption'
  BY <1>4, ZenonT(60) DEF F!Install
<1>5. ASSUME NEW o \in Ops, F!ResumeIfClaimed(o) PROVE OneResumption'
  BY <1>5, ZenonT(60) DEF F!ResumeIfClaimed, F!TakeResult
<1>6. ASSUME NEW o \in Ops, F!Destroy(o) PROVE OneResumption'
  BY <1>6, Zenon DEF F!Destroy
<1>7. ASSUME NEW o \in Ops, F!Run(o) PROVE OneResumption'
  BY <1>7, Zenon DEF F!Run
<1>8. ASSUME NEW o \in Ops, F!Publish(o) PROVE OneResumption'
  <2>1. result[o] = "none" /\ work'[o] = "published" /\ result'[o] # "none"
    BY <1>8 DEF F!Publish, F!Results
  <2>2. \A p \in Ops \ {o} : work'[p] = work[p] /\ result'[p] = result[p]
    BY <1>8, ZenonT(60) DEF F!Publish
  <2>3. /\ \A p \in Ops \ {o}, side \in F!Sides : <<p, side>> \in scheduling' <=> <<p, side>> \in scheduling
        /\ <<o, "coroutine">> \notin scheduling' /\ schedules[o] = 0 /\ o \notin queued
        /\ <<o, "worker">> \in scheduling' => coroutine[o] = "suspended"
    BY <1>8, <2>1 DEF F!Publish
  <2>4. UNCHANGED <<schedules, queued, coroutine>>
    BY <1>8, Zenon DEF F!Publish
  <2>5. ResumptionOK(o)'
    BY <2>1, <2>3, <2>4, Zenon
  <2>6. ASSUME NEW p \in Ops \ {o} PROVE ResumptionOK(p)'
    BY <2>2, <2>3, <2>4, ZenonT(60)
  <2> HIDE DEF ResumptionOK
  <2> QED
    BY <2>5, <2>6, Zenon
<1>9. ASSUME NEW o \in Ops, NEW side \in F!Sides, F!ScheduleResume(o, side) PROVE OneResumption'
  <2>1. schedules[o] = 0 /\ result[o] # "none" /\ coroutine[o] \in {"suspended", "resumed", "destroyed"}
    BY <1>9, Zenon DEF F!ScheduleResume
  <2>2. schedules'[o] = 1 /\ \A p \in Ops \ {o} : schedules'[p] = schedules[p]
    BY <1>9, <2>1 DEF F!ScheduleResume
  <2>3. /\ \A p \in Ops \ {o}, s \in F!Sides : <<p, s>> \in scheduling' <=> <<p, s>> \in scheduling
        /\ <<o, "coroutine">> \notin scheduling' /\ <<o, "worker">> \notin scheduling'
    BY <1>9, Zenon DEF F!ScheduleResume
  <2>4. queued' = queued \cup {o} /\ UNCHANGED <<work, result, coroutine>>
    BY <1>9, Zenon DEF F!ScheduleResume
  <2>5. ResumptionOK(o)'
    BY <2>1, <2>2, <2>3, <2>4, Zenon
  <2>6. ASSUME NEW p \in Ops \ {o} PROVE ResumptionOK(p)'
    BY <2>2, <2>3, <2>4, Zenon
  <2> HIDE DEF ResumptionOK
  <2> QED
    BY <2>5, <2>6, Zenon
<1>10. ASSUME F!Direct PROVE OneResumption'
  BY <1>10, ZenonT(60) DEF F!Direct, F!AllocateSize, F!Truncate, F!AllocateTruncate, F!Flush, F!Close, F!opVars
<1>11. ASSUME UNCHANGED F!vars PROVE OneResumption'
  BY <1>11, Zenon DEF F!vars, F!opVars
<1> HIDE DEF FileInv, OneResumption, ResumptionOK, ResultsOK, CoroutinesOK, F!TypeOK, F!Sides
<1> QED
  BY <1>1, <1>2, <1>3, <1>4, <1>5, <1>6, <1>7, <1>8, <1>9, <1>10, <1>11, Zenon DEF F!Next, F!Coroutine

\* take_result is reached only when the result is there.
LEMMA OutcomeNext == FileInv /\ [F!Next]_(F!vars) => F!TrueOutcome'
<1> SUFFICES ASSUME FileInv, [F!Next]_(F!vars) PROVE F!TrueOutcome'
  BY Zenon
<1> USE FileConstants DEF FileInv, F!TrueOutcome, OneResumption, ResumptionOK, ResultsOK,
                          CoroutinesOK, F!TypeOK, F!Results
<1>1. ASSUME NEW o \in Ops, NEW k \in F!Kinds, F!Start(o, k) PROVE F!TrueOutcome'
  BY <1>1, Zenon DEF F!Start
<1>2. ASSUME NEW o \in Ops, F!StartRefused(o) PROVE F!TrueOutcome'
  BY <1>2, ZenonT(60) DEF F!StartRefused
<1>3. ASSUME NEW o \in Ops, F!AwaitReady(o) PROVE F!TrueOutcome'
  BY <1>3 DEF F!AwaitReady, F!TakeResult
<1>4. ASSUME NEW o \in Ops, F!Install(o) PROVE F!TrueOutcome'
  BY <1>4, Zenon DEF F!Install
<1>5. ASSUME NEW o \in Ops, F!ResumeIfClaimed(o) PROVE F!TrueOutcome'
  <2>1. result[o] # "none"
    <3>1. o \in queued
      BY <1>5, Zenon DEF F!ResumeIfClaimed
    <3>2. ResumptionOK(o)
      BY Zenon
    <3> QED
      BY ONLY <3>1, <3>2
  <2>4. result[o] = done[o] /\ done[o] # "none"
    BY <2>1, Zenon
  <2>2. outcome' = outcome \/ outcome' = [outcome EXCEPT ![o] = result[o]]
    BY <1>5, Zenon DEF F!ResumeIfClaimed, F!TakeResult
  <2>3. UNCHANGED <<done, schedules>>
    BY <1>5, Zenon DEF F!ResumeIfClaimed
  <2> QED
    BY <2>2, <2>3, <2>4
<1>6. ASSUME NEW o \in Ops, F!Destroy(o) PROVE F!TrueOutcome'
  BY <1>6, Zenon DEF F!Destroy
<1>7. ASSUME NEW o \in Ops, F!Run(o) PROVE F!TrueOutcome'
  BY <1>7 DEF F!Run
<1>8. ASSUME NEW o \in Ops, F!Publish(o) PROVE F!TrueOutcome'
  BY <1>8, Zenon DEF F!Publish
<1>9. ASSUME NEW o \in Ops, NEW side \in F!Sides, F!ScheduleResume(o, side) PROVE F!TrueOutcome'
  <2>1. UNCHANGED <<outcome, done>>
    BY <1>9, Zenon DEF F!ScheduleResume
  <2>2. schedules' \in [Ops -> 0..1]
    BY <1>9, FileTypeNext, Zenon DEF F!Next
  <2> QED
    BY <2>1, <2>2
<1>10. ASSUME F!Direct PROVE F!TrueOutcome'
  BY <1>10, ZenonT(60) DEF F!Direct, F!AllocateSize, F!Truncate, F!AllocateTruncate, F!Flush, F!Close, F!opVars
<1>11. ASSUME UNCHANGED F!vars PROVE F!TrueOutcome'
  BY <1>11, Zenon DEF F!vars, F!opVars
<1> HIDE DEF FileInv, F!TrueOutcome, OneResumption, ResumptionOK, ResultsOK, CoroutinesOK,
             F!TypeOK, F!Results
<1> QED
  BY <1>1, <1>2, <1>3, <1>4, <1>5, <1>6, <1>7, <1>8, <1>9, <1>10, <1>11, Zenon DEF F!Next, F!Coroutine

\* The invariant is inductive.
LEMMA FileNext == FileInv /\ [F!Next]_(F!vars) => FileInv'
BY FileTypeNext, ResultsNext, CoroutinesNext, OneResumptionNext, OutcomeNext, Zenon DEF FileInv

\* What a coroutine gets from a file operation is what its work did to the file,
\* or the refusal, and its resumption is scheduled once, whatever the order of
\* await_suspend, publish, destruction and resumption.
THEOREM Unmasked == F!Spec => []F!TrueOutcome
<1>1. FileInv => F!TrueOutcome
  BY Zenon DEF FileInv
<1> QED
  BY FileInit, FileNext, <1>1, PTL DEF F!Spec

------------------------------------------------------------------------------
(* FileRuntime. *)

\* What the two components know of each other: work that was started was
\* accepted by the executor, and a worker is done with it only when the result
\* is published and the resumption scheduled.
Linked ==
  \A o \in Ops :
    /\ work[o] # "none" => o \in accepted
    /\ o \in ran => work[o] = "published" /\ <<o, "worker">> \notin scheduling

\* The process ends for a resumption the lane has no place for.
LaneExceeded == terminated => stopped \/ Cardinality(Outstanding) > LaneLimit

RuntimeInv == Inv /\ FileInv /\ Linked /\ LaneExceeded

\* A step of the composition is a step, or no step, of each component.
LEMMA Components == RuntimeNext => [Next]_vars /\ [F!Next]_(F!vars)
<1> SUFFICES ASSUME RuntimeNext PROVE [Next]_vars /\ [F!Next]_(F!vars)
  BY Zenon
<1>f. UNCHANGED fileVars => UNCHANGED F!vars
  BY Zenon DEF fileVars, F!vars, F!opVars, F!fileVars
<1>1. ASSUME NEW o \in Ops, NEW side \in F!Sides, ScheduleResume(o, side)
      PROVE  [Next]_vars /\ [F!Next]_(F!vars)
  BY <1>1, <1>f, Zenon DEF ScheduleResume, F!Next
<1>2. ASSUME NEW o \in Ops, StartOp(o) PROVE [Next]_vars /\ [F!Next]_(F!vars)
  BY <1>2, FileConstants, Zenon DEF StartOp, F!Next, Next, Threads
<1>3. ASSUME NEW o \in Ops, CoroutineStep(o) PROVE [Next]_vars /\ [F!Next]_(F!vars)
  BY <1>1, <1>3, Zenon DEF CoroutineStep, F!Next, F!Sides
<1>4. ASSUME NEW o \in Ops, DestroyOp(o) PROVE [Next]_vars /\ [F!Next]_(F!vars)
  BY <1>4, Zenon DEF DestroyOp, F!Next
<1>5. ASSUME NEW w \in Workers, TakeOp(w) \/ FinishOp(w) PROVE [Next]_vars /\ [F!Next]_(F!vars)
  BY <1>5, <1>f, Zenon DEF TakeOp, FinishOp, Next
<1>6. ASSUME NEW w \in Workers, WorkerStep(w) PROVE [Next]_vars /\ [F!Next]_(F!vars)
  BY <1>1, <1>6, Zenon DEF WorkerStep, F!Next, F!Sides
<1>7. ASSUME NEW t \in Callers, CallerStep(t) \/ ShutdownCall(t)
      PROVE  [Next]_vars /\ [F!Next]_(F!vars)
  BY <1>7, <1>f, Zenon DEF CallerStep, ShutdownCall, Next, Threads
<1>8. ASSUME StopShard PROVE [Next]_vars /\ [F!Next]_(F!vars)
  BY <1>8, <1>f, Zenon DEF StopShard
<1> QED
  BY <1>2, <1>3, <1>4, <1>5, <1>6, <1>7, <1>8, Zenon DEF RuntimeNext

\* A worker's steps on an operation, and the only step that marks it as run.
LEMMA LinkedNext == RuntimeInv /\ RuntimeNext => Linked'
<1> SUFFICES ASSUME RuntimeInv, RuntimeNext PROVE Linked'
  BY Zenon
<1> USE FileConstants DEF RuntimeInv, Linked
<1>t. F!TypeOK /\ ResultsOK
  BY Zenon DEF FileInv
<1>k. UNCHANGED fileVars => UNCHANGED <<work, scheduling>>
  BY Zenon DEF fileVars
<1>v. UNCHANGED vars => UNCHANGED <<accepted, ran>>
  BY Zenon DEF vars
<1>1. ASSUME NEW o \in Ops, NEW side \in F!Sides, ScheduleResume(o, side) PROVE Linked'
  <2>1. UNCHANGED <<work, accepted, ran>> /\ scheduling' \subseteq scheduling
    BY <1>1, <1>k, <1>v, Zenon DEF ScheduleResume, F!ScheduleResume
  <2> QED
    BY <2>1, Zenon
<1>2. ASSUME NEW o \in Ops, StartOp(o) PROVE Linked'
  <2>1. CASE \E k \in F!Kinds : F!Start(o, k) /\ Submit(ShardThread, o)
    <3>1. work' = [work EXCEPT ![o] = "queued"] /\ accepted' = accepted \cup {o}
          /\ UNCHANGED <<ran, scheduling>> /\ work[o] = "none"
      BY <2>1, <1>t, Zenon DEF F!Start, Submit, FileInv, CoroutinesOK
    <3>2. o \notin ran
      BY <3>1, Zenon
    <3> QED
      BY <3>1, <3>2, <1>t, Zenon DEF F!TypeOK
  <2>2. CASE F!StartRefused(o) /\ UNCHANGED vars
    BY <2>2, <1>v, Zenon DEF F!StartRefused
  <2> QED
    BY <1>2, <2>1, <2>2, Zenon DEF StartOp
<1>3. ASSUME NEW o \in Ops, CoroutineStep(o) PROVE Linked'
  <2>1. CASE F!Coroutine(o) /\ UNCHANGED vars
    <3>1. /\ UNCHANGED <<work, accepted, ran>>
          /\ \A p \in Ops : <<p, "worker">> \in scheduling' => <<p, "worker">> \in scheduling
      BY <2>1, <1>v, Zenon DEF F!Coroutine, F!AwaitReady, F!Install, F!ResumeIfClaimed
    <3> QED
      BY <3>1, Zenon
  <2> QED
    BY <1>1, <1>3, <2>1, Zenon DEF CoroutineStep, F!Sides
<1>4. ASSUME NEW o \in Ops, DestroyOp(o) PROVE Linked'
  BY <1>4, <1>v, Zenon DEF DestroyOp, F!Destroy
<1>5. ASSUME NEW w \in Workers, TakeOp(w) PROVE Linked'
  BY <1>5, <1>k, Zenon DEF TakeOp, Take
<1>6. ASSUME NEW w \in Workers, FinishOp(w) PROVE Linked'
  <2>1. UNCHANGED <<work, scheduling, accepted>> /\ ran' = ran \cup {current[w]}
    BY <1>6, <1>k, Zenon DEF FinishOp, Finish
  <2>2. work[current[w]] = "published" /\ <<current[w], "worker">> \notin scheduling
    BY <1>6, Zenon DEF FinishOp
  <2> QED
    BY <2>1, <2>2, Zenon
<1>7. ASSUME NEW w \in Workers, WorkerStep(w) PROVE Linked'
  <2> DEFINE o == current[w]
  <2>0. o \in Ops
    BY <1>7, Zenon DEF WorkerStep
  <2>1. CASE F!Run(o) /\ UNCHANGED vars
    <3>1. /\ work' = [work EXCEPT ![o] = "ran"] /\ work[o] = "queued"
          /\ UNCHANGED <<accepted, ran, scheduling>>
      BY <2>1, <1>v, Zenon DEF F!Run
    <3> QED
      BY <2>0, <3>1, <1>t, Zenon DEF F!TypeOK
  <2>2. CASE F!Publish(o) /\ UNCHANGED vars
    <3>1. work' = [work EXCEPT ![o] = "published"] /\ work[o] = "ran" /\ UNCHANGED <<accepted, ran>>
      BY <2>2, <1>v, Zenon DEF F!Publish
    <3>2. \A p \in Ops \ {o} : <<p, "worker">> \in scheduling' => <<p, "worker">> \in scheduling
      BY <2>2 DEF F!Publish
    <3> QED
      BY <2>0, <3>1, <3>2, <1>t, ZenonT(60) DEF F!TypeOK
  <2> QED
    BY <1>1, <1>7, <2>0, <2>1, <2>2, Zenon DEF WorkerStep, F!Sides
<1>8. ASSUME NEW t \in Callers, CallerStep(t) \/ ShutdownCall(t) PROVE Linked'
  <2>1. UNCHANGED <<work, scheduling, accepted, ran>>
    BY <1>8, <1>k, Zenon DEF CallerStep, ShutdownCall, RequestShutdown, CallStep, NotifyOne, NotifyAll,
                      JoinWorkers, JoinCompletes, JoinObserved
  <2> QED
    BY <2>1, Zenon
<1>9. ASSUME StopShard PROVE Linked'
  BY <1>9, <1>k, <1>v, Zenon DEF StopShard
<1> HIDE DEF RuntimeInv, Linked
<1> QED
  BY <1>2, <1>3, <1>4, <1>5, <1>6, <1>7, <1>8, <1>9, Zenon DEF RuntimeNext

\* With the operation that finds no place, more are outstanding than fit.
LEMMA LaneFull ==
  ASSUME FileInv, NEW o \in Ops, NEW side \in F!Sides, <<o, side>> \in scheduling,
         Cardinality(queued) >= LaneLimit
  PROVE  Cardinality(Outstanding) > LaneLimit
<1>1. o \notin queued
  <2>1. ResumptionOK(o)
    BY Zenon DEF FileInv, OneResumption
  <2> QED
    BY ONLY <2>1, <<o, side>> \in scheduling, side \in F!Sides DEF ResumptionOK, F!Sides
<1>2. o \in Outstanding /\ queued \subseteq Outstanding /\ Outstanding \subseteq Ops
  BY Zenon DEF Outstanding, FileInv, F!TypeOK
<1>3. IsFiniteSet(Outstanding)
  BY <1>2, FileConstants, FS_Subset, Zenon
<1>4. IsFiniteSet(queued)
  BY <1>2, <1>3, FS_Subset, Zenon
<1>5. queued # Outstanding
  BY <1>1, <1>2, Zenon
<1>6. /\ Cardinality(queued) <= Cardinality(Outstanding)
      /\ Cardinality(Outstanding) # Cardinality(queued)
  BY <1>2, <1>3, <1>5, FS_Subset, Zenon
<1>7. Cardinality(queued) \in Nat /\ Cardinality(Outstanding) \in Nat
  BY <1>3, <1>4, FS_CardinalityType, Zenon
<1> QED
  BY <1>6, <1>7, FileConstants

\* The process is ended by a refused resumption only, and nothing happens after.
LEMMA LaneNext == RuntimeInv /\ RuntimeNext => LaneExceeded'
<1> SUFFICES ASSUME RuntimeInv, RuntimeNext, terminated' PROVE stopped' \/ Cardinality(Outstanding') > LaneLimit
  BY Zenon DEF LaneExceeded
<1>0. ~terminated
  BY Zenon DEF RuntimeNext
<1>1. ASSUME NEW o \in Ops, NEW side \in F!Sides, ScheduleResume(o, side)
      PROVE  stopped' \/ Cardinality(Outstanding') > LaneLimit
  <2>1. ~LaneAccepts /\ UNCHANGED <<fileVars, stopped>> /\ <<o, side>> \in scheduling
    BY <1>0, <1>1, Zenon DEF ScheduleResume
  <2>2. Outstanding' = Outstanding
    BY <2>1, Zenon DEF Outstanding, fileVars
  <2>3. CASE stopped
    BY <2>1, <2>3, Zenon
  <2>4. CASE ~(Cardinality(queued) < LaneLimit)
    <3>1. IsFiniteSet(queued)
      BY FileConstants, FS_Subset, Zenon DEF RuntimeInv, FileInv, F!TypeOK
    <3>2. Cardinality(queued) \in Nat
      BY <3>1, FS_CardinalityType, Zenon
    <3>3. Cardinality(queued) >= LaneLimit
      BY <3>2, <2>4, FileConstants
    <3>4. Cardinality(Outstanding) > LaneLimit
      BY <3>3, <2>1, LaneFull, Zenon DEF RuntimeInv
    <3> QED
      BY <3>4, <2>2, Zenon
  <2> QED
    BY <2>1, <2>3, <2>4, Zenon DEF LaneAccepts
<1>2. \/ \E o \in Ops, side \in F!Sides : ScheduleResume(o, side)
      \/ UNCHANGED terminated
  <2>1. ASSUME NEW o \in Ops, StartOp(o) \/ CoroutineStep(o) \/ DestroyOp(o)
        PROVE  (\E side \in F!Sides : ScheduleResume(o, side)) \/ UNCHANGED terminated
    BY <2>1, Zenon DEF StartOp, CoroutineStep, DestroyOp, F!Sides
  <2>2. ASSUME NEW w \in Workers, TakeOp(w) \/ WorkerStep(w) \/ FinishOp(w)
        PROVE  \/ current[w] \in Ops /\ \E side \in F!Sides : ScheduleResume(current[w], side)
               \/ UNCHANGED terminated
    BY <2>2, Zenon DEF TakeOp, WorkerStep, FinishOp, F!Sides
  <2>3. ASSUME NEW t \in Callers, CallerStep(t) \/ ShutdownCall(t) PROVE UNCHANGED terminated
    BY <2>3, Zenon DEF CallerStep, ShutdownCall
  <2>4. StopShard => UNCHANGED terminated
    BY Zenon DEF StopShard
  <2> QED
    BY <2>1, <2>2, <2>3, <2>4, Zenon DEF RuntimeNext
<1> QED
  BY <1>0, <1>1, <1>2, Zenon

\* The invariant of the composition holds in every reachable state.
LEMMA RuntimeInvariance == RuntimeSpec => []RuntimeInv
<1>1. RuntimeInit => RuntimeInv
  BY InvInit, FileInit, Zenon DEF RuntimeInit, RuntimeInv, Linked, LaneExceeded, Init, F!Init
<1>2. ASSUME RuntimeInv, [RuntimeNext]_runtimeVars PROVE RuntimeInv'
  <2>1. CASE RuntimeNext
    <3>1. [Next]_vars /\ [F!Next]_(F!vars)
      BY <2>1, Components, Zenon
    <3>2. Inv'
      BY <1>2, <3>1, TypeNext, HoldsNext, ConservedNext, ExitedNext, JoinedNext, ReturnedNext, Zenon
         DEF RuntimeInv, Inv
    <3>3. FileInv'
      BY <1>2, <3>1, FileNext, Zenon DEF RuntimeInv
    <3> QED
      BY <1>2, <2>1, <3>2, <3>3, LinkedNext, LaneNext, Zenon DEF RuntimeInv
  <2>2. CASE UNCHANGED runtimeVars
    <3>1. [Next]_vars /\ [F!Next]_(F!vars)
      BY <2>2, ZenonT(60) DEF runtimeVars, fileVars, F!vars, F!opVars, F!fileVars
    <3>2. Inv'
      BY <1>2, <3>1, TypeNext, HoldsNext, ConservedNext, ExitedNext, JoinedNext, ReturnedNext, Zenon
         DEF RuntimeInv, Inv
    <3>3. FileInv'
      BY <1>2, <3>1, FileNext, Zenon DEF RuntimeInv
    <3>4. Linked' /\ LaneExceeded'
      BY <1>2, <2>2, Zenon DEF RuntimeInv, Linked, LaneExceeded, Outstanding, runtimeVars, fileVars, vars
    <3> QED
      BY <3>2, <3>3, <3>4, Zenon DEF RuntimeInv
  <2> QED
    BY <1>2, <2>1, <2>2, Zenon
<1> QED
  BY <1>1, <1>2, PTL DEF RuntimeSpec

\* On the bounded executor and the bounded lane a coroutine gets what its work
\* did; the process ends only when the shard was stopped or has more operations
\* outstanding than its lane holds; and a shutdown that returned leaves no
\* operation without its result and no resumption in a worker's hands.
THEOREM Honoured == RuntimeSpec => []CompletionsHonoured
<1>1. RuntimeInv => CompletionsHonoured
  <2> SUFFICES ASSUME RuntimeInv PROVE CompletionsHonoured
    BY Zenon
  <2>1. F!TrueOutcome
    BY Zenon DEF RuntimeInv, FileInv
  <2>2. ASSUME NEW t \in Callers, call[t] = "returned", NEW o \in Ops
        PROVE  work[o] \in {"none", "published"} /\ <<o, "worker">> \notin scheduling
    <3>1. accepted \subseteq ran
      BY <2>2, DrainedWhenReturned, Zenon DEF RuntimeInv, ShutdownDrains
    <3>2. <<o, "worker">> \in scheduling => work[o] = "published"
      BY Zenon DEF RuntimeInv, FileInv, OneResumption, ResumptionOK
    <3> QED
      BY <3>1, <3>2, Zenon DEF RuntimeInv, Linked
  <2> QED
    BY <2>1, <2>2, Zenon DEF CompletionsHonoured, RuntimeInv, LaneExceeded
<1> QED
  BY RuntimeInvariance, <1>1, PTL
==============================================================================
