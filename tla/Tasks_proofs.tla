---------------------------- MODULE Tasks_proofs ----------------------------
(***************************************************************************)
(* What coroutines are composed of, for every number of tasks, children,   *)
(* threads and callbacks: the continuations of a chain of tasks, the first *)
(* result of when_any, the account async_scope::join gives, and the single *)
(* call of a cancellation callback.                                        *)
(***************************************************************************)
EXTENDS MCTasks, Sequences, TLAPS

USE TaskConstants

------------------------------------------------------------------------------
(* A chain of tasks: the inductive invariant. *)

\* The frame a continuation names is suspended on the task that stores it.
Stored ==
  \A t \in Tasks :
    cont[t] # NoTask => /\ t # 1 /\ cont[t] = t - 1
                        /\ phase[t - 1] = "suspended"
                        /\ t \in held \cap awaited

\* Between await_ready and await_suspend the awaiter owns the awaited frame.
Owned == \A t \in Tasks : t # 1 /\ phase[t - 1] = "awaiting" => t \in held \cap awaited

\* A resumption detaches the state it came through.
ResumedOnce == \A t \in Tasks : resumes[t] <= 1 /\ (resumes[t] = 1 => t \in detached)

IInv == TypeOK /\ Stored /\ Owned /\ ResumedOnce

------------------------------------------------------------------------------
(* Frames that go together. *)

\* Subtree(t) is t and the unbroken chain of frames held below it.
LEMMA SubtreeFacts ==
  ASSUME NEW t \in Tasks
  PROVE  /\ t \in Subtree(t) /\ Subtree(t) \subseteq Tasks
         /\ \A u \in Subtree(t) : u >= t
         /\ \A u \in Subtree(t) : u # t => u - 1 \in Subtree(t)
         /\ \A u \in Tasks : u # 1 /\ u \in held /\ u - 1 \in Subtree(t) => u \in Subtree(t)
BY DEF Subtree, Tasks

\* A step that destroys the frames of a set keeps the invariant, if the set is
\* closed under ownership and whoever awaits a member goes with it or moves on.
LEMMA FramesGo ==
  ASSUME IInv, NEW gone \in SUBSET Tasks, NEW also \in SUBSET Tasks,
         \A u \in Tasks : u # 1 /\ u \in held /\ u - 1 \in gone => u \in gone,
         phase' \in [Tasks -> Phases],
         \A u \in Tasks : phase'[u] = phase[u] \/ phase'[u] \notin {"suspended", "awaiting"},
         \A u \in Tasks : phase'[u] # phase[u] =>
            u \in gone \/ phase[u] \notin {"suspended", "awaiting"}
              \/ (u + 1 \in also \/ u + 1 \notin Tasks),
         \A u \in gone : u # 1 /\ phase[u - 1] = "awaiting" => phase'[u - 1] # "awaiting",
         held' = held \ gone, awaited \subseteq awaited', awaited' \subseteq Tasks,
         detached' = detached \cup (gone \cap awaited') \cup also,
         cont' = [u \in Tasks |-> IF u \in (gone \cap awaited') \cup also THEN NoTask
                                  ELSE cont[u]]
  PROVE  /\ held' \in SUBSET Tasks /\ awaited' \in SUBSET Tasks /\ detached' \in SUBSET Tasks
         /\ cont' \in [Tasks -> Tasks \cup {NoTask}]
         /\ Stored' /\ Owned'
<1>1. /\ held' \in SUBSET Tasks /\ awaited' \in SUBSET Tasks /\ detached' \in SUBSET Tasks
      /\ cont' \in [Tasks -> Tasks \cup {NoTask}]
  BY Zenon DEF IInv, TypeOK
<1>2. Stored'
  <2> SUFFICES ASSUME NEW t \in Tasks, cont'[t] # NoTask
               PROVE  /\ t # 1 /\ cont'[t] = t - 1
                      /\ phase'[t - 1] = "suspended"
                      /\ t \in held' \cap awaited'
    BY Zenon DEF Stored
  <2>1. /\ t \notin gone \cap awaited' /\ t \notin also /\ cont'[t] = cont[t]
    BY Zenon
  <2>2. /\ t # 1 /\ cont[t] = t - 1 /\ phase[t - 1] = "suspended"
        /\ t \in held \cap awaited
    BY <2>1, Zenon DEF IInv, Stored
  <2>3. t \notin gone /\ t - 1 \in Tasks /\ t - 1 \notin gone /\ (t - 1) + 1 = t
    BY <2>1, <2>2 DEF Tasks
  <2>4. phase'[t - 1] = "suspended"
    BY <2>1, <2>2, <2>3, Zenon
  <2> QED BY <2>1, <2>2, <2>3, <2>4, Zenon
<1>3. Owned'
  <2> SUFFICES ASSUME NEW t \in Tasks, t # 1, phase'[t - 1] = "awaiting"
               PROVE  t \in held' \cap awaited'
    BY Zenon DEF Owned
  <2>1. t - 1 \in Tasks
    BY DEF Tasks
  <2>2. phase[t - 1] = "awaiting"
    BY <2>1, Zenon
  <2>3. t \in held \cap awaited
    BY <2>2, Zenon DEF IInv, Owned
  <2> QED BY <2>2, <2>3, Zenon
<1> QED BY <1>1, <1>2, <1>3, Zenon
\* await_resume: the awaited frame goes with what it owns, its state is
\* detached and the awaiting body runs on.
LEMMA ResumeFacts ==
  ASSUME IInv, NEW c \in Tasks, c # 1, phase[c - 1] # "destroyed",
         NEW done, NEW r \in {"none", "value", "invalid_state"},
         AwaitResume(c, done, r), awaited' = awaited \/ awaited' = awaited \cup {c}
  PROVE  /\ phase' \in [Tasks -> Phases] /\ held' \in SUBSET Tasks /\ awaited' \in SUBSET Tasks
         /\ detached' \in SUBSET Tasks /\ cont' \in [Tasks -> Tasks \cup {NoTask}]
         /\ outcome' \in [Tasks -> {"unread", "value", "invalid_state", "not_completed"}]
         /\ Stored' /\ Owned' /\ c \in detached' /\ detached \subseteq detached'
         /\ \A u \in Tasks : phase[u] = "destroyed" => phase'[u] = "destroyed"
<1> DEFINE gone == Subtree(c)
<1>0. /\ c \in gone /\ gone \subseteq Tasks /\ c - 1 \in Tasks /\ c - 1 \notin gone
      /\ \A u \in gone : u # c => u - 1 \in gone
      /\ \A u \in Tasks : u # 1 /\ u \in held /\ u - 1 \in gone => u \in gone
  BY SubtreeFacts DEF Tasks
<1> HIDE DEF gone
<1>1. /\ \A u \in Tasks : phase'[u] = IF u \in gone THEN "destroyed"
                                      ELSE IF u = c - 1 THEN "running" ELSE phase[u]
      /\ phase' \in [Tasks -> Phases]
  BY Zenon DEF AwaitResume, gone, IInv, TypeOK, Phases
<1>2. /\ held' = held \ gone
      /\ detached' = detached \cup (gone \cap awaited') \cup {c}
      /\ cont' = [u \in Tasks |-> IF u \in (gone \cap awaited') \cup {c} THEN NoTask
                                  ELSE cont[u]]
  <2>1. (gone \cap awaited) \cup {c} = (gone \cap awaited') \cup {c}
    BY <1>0, Zenon
  <2> QED BY <2>1, Zenon DEF AwaitResume, gone
<1>3. outcome' \in [Tasks -> {"unread", "value", "invalid_state", "not_completed"}]
  BY Zenon DEF AwaitResume, TakenFrom, IInv, TypeOK
<1>4. \A u \in Tasks : phase'[u] # phase[u] => u \in gone \/ u = c - 1
  BY <1>1, Zenon
<1>5. \A u \in Tasks : u = c - 1 => u + 1 \in {c}
  BY DEF Tasks
<1>6. \A u \in gone : u # 1 => phase'[u - 1] # "awaiting"
  BY <1>0, <1>1, Zenon
<1>7. \A u \in Tasks : phase'[u] = phase[u] \/ phase'[u] \notin {"suspended", "awaiting"}
  BY <1>1, Zenon
<1>8. /\ awaited \subseteq awaited' /\ awaited' \subseteq Tasks
  BY Zenon DEF IInv, TypeOK
<1>a. /\ gone \in SUBSET Tasks /\ {c} \in SUBSET Tasks
      /\ \A u \in Tasks : phase'[u] # phase[u] =>
            u \in gone \/ phase[u] \notin {"suspended", "awaiting"}
              \/ (u + 1 \in {c} \/ u + 1 \notin Tasks)
      /\ \A u \in gone : u # 1 /\ phase[u - 1] = "awaiting" => phase'[u - 1] # "awaiting"
  BY <1>0, <1>4, <1>5, <1>6, Zenon
<1>9. /\ held' \in SUBSET Tasks /\ awaited' \in SUBSET Tasks /\ detached' \in SUBSET Tasks
      /\ cont' \in [Tasks -> Tasks \cup {NoTask}]
      /\ Stored' /\ Owned'
  BY ONLY IInv, <1>0, <1>1, <1>2, <1>7, <1>8, <1>a, FramesGo, Zenon
<1>10. \A u \in Tasks : phase[u] = "destroyed" => phase'[u] = "destroyed"
  BY <1>1, Zenon
<1> QED BY <1>1, <1>2, <1>3, <1>9, <1>10, Zenon

\* ~task and take_result: the frame goes with what it owns.
LEMMA DestroyFacts ==
  ASSUME IInv, NEW c \in Tasks, c \notin awaited, Destroy(c), awaited' = awaited
  PROVE  /\ phase' \in [Tasks -> Phases] /\ held' \in SUBSET Tasks
         /\ detached' \in SUBSET Tasks /\ cont' \in [Tasks -> Tasks \cup {NoTask}]
         /\ Stored' /\ Owned' /\ detached \subseteq detached'
         /\ \A u \in Tasks : phase[u] = "destroyed" => phase'[u] = "destroyed"
<1> DEFINE gone == Subtree(c)
<1>0. /\ c \in gone /\ gone \subseteq Tasks
      /\ \A u \in gone : u # c => u - 1 \in gone
      /\ \A u \in Tasks : u # 1 /\ u \in held /\ u - 1 \in gone => u \in gone
  BY SubtreeFacts, Zenon DEF Tasks
<1> HIDE DEF gone
<1>1. /\ \A u \in Tasks : phase'[u] = IF u \in gone THEN "destroyed" ELSE phase[u]
      /\ phase' \in [Tasks -> Phases]
  BY Zenon DEF Destroy, gone, IInv, TypeOK, Phases
<1>2. /\ held' = held \ gone
      /\ detached' = detached \cup (gone \cap awaited') \cup {}
      /\ cont' = [u \in Tasks |-> IF u \in (gone \cap awaited') \cup {} THEN NoTask ELSE cont[u]]
  BY Zenon DEF Destroy, gone
<1>3. \A u \in gone : u # 1 /\ phase[u - 1] = "awaiting" => phase'[u - 1] # "awaiting"
  <2> TAKE u \in gone
  <2>1. CASE u = c
    BY <2>1, <1>0, Zenon DEF IInv, Owned
  <2>2. CASE u # c
    BY <2>2, <1>0, <1>1, Zenon
  <2> QED BY <2>1, <2>2, Zenon
<1>4. \A u \in Tasks : phase'[u] # phase[u] => u \in gone
  BY <1>1, Zenon
<1>5. \A u \in Tasks : phase'[u] = phase[u] \/ phase'[u] \notin {"suspended", "awaiting"}
  BY <1>1, Zenon
<1>6. awaited \subseteq awaited' /\ awaited' \subseteq Tasks
  BY Zenon DEF IInv, TypeOK
<1>a. /\ gone \in SUBSET Tasks /\ {} \in SUBSET Tasks
      /\ \A u \in Tasks : phase'[u] # phase[u] =>
            u \in gone \/ phase[u] \notin {"suspended", "awaiting"}
              \/ (u + 1 \in {} \/ u + 1 \notin Tasks)
  BY <1>0, <1>4, Zenon
<1>7. /\ held' \in SUBSET Tasks /\ detached' \in SUBSET Tasks
      /\ cont' \in [Tasks -> Tasks \cup {NoTask}]
      /\ Stored' /\ Owned'
  BY ONLY IInv, <1>0, <1>1, <1>2, <1>3, <1>5, <1>6, <1>a, FramesGo, Zenon
<1> QED BY <1>1, <1>2, <1>7, Zenon
------------------------------------------------------------------------------
(* The steps. *)

\* A new chain satisfies the invariant.
LEMMA Initially == Init => IInv
<1> SUFFICES ASSUME Init PROVE IInv
  BY Zenon
<1>1. TypeOK
  BY Zenon DEF Init, TypeOK, Phases
<1>2. \A t \in Tasks : t # 1 => t - 1 \in Tasks
  BY DEF Tasks
<1>3. Stored /\ Owned /\ ResumedOnce
  BY <1>2 DEF Init, Stored, Owned, ResumedOnce
<1> QED BY <1>1, <1>3, Zenon DEF IInv

\* No frame comes back.
StaysDestroyed == \A u \in Tasks : phase[u] = "destroyed" => phase'[u] = "destroyed"

\* Every step of a chain preserves the invariant and revives no frame.
LEMMA Inductive ==
  ASSUME IInv, NEW t \in Tasks,
         \/ \E scheduler \in BOOLEAN : Create(t, scheduler)
         \/ External(t) \/ AwaitReady(t) \/ AwaitSuspend(t) \/ AwaitSuspendUnscheduled(t)
         \/ TakeResult(t) \/ Drop(t)
         \/ \E r \in {"value", "invalid_state"} : Finish(t, r)
         \/ PublishCompleted(t) \/ ScheduleSystem(t) \/ ResumeTaskContinuation(t)
  PROVE  IInv' /\ StaysDestroyed
<1>0. t # 1 => t - 1 \in Tasks /\ t - 1 # t
  BY DEF Tasks
<1>1. ASSUME NEW scheduler \in BOOLEAN, Create(t, scheduler) PROVE IInv' /\ StaysDestroyed
  <2>1. TypeOK'
    BY <1>1, ZenonT(60) DEF Create, IInv, TypeOK, Phases
  <2>2. /\ \A u \in Tasks : u # t => phase'[u] = phase[u]
        /\ phase[t] = "uncreated" /\ phase'[t] \in {"running", "unstarted"}
        /\ held \subseteq held' /\ UNCHANGED <<awaited, cont, detached, resumes>>
    BY <1>1, Zenon DEF Create, IInv, TypeOK
  <2>3. \A u \in Tasks : u # 1 => u - 1 \in Tasks
    BY DEF Tasks
  <2>4. Stored' /\ Owned' /\ ResumedOnce'
    BY <2>2, <2>3, Zenon DEF IInv, Stored, Owned, ResumedOnce
  <2> QED BY <2>1, <2>2, <2>4, Zenon DEF IInv, StaysDestroyed
<1>2. CASE External(t)
  <2>1. TypeOK'
    BY <1>2, Zenon DEF External, IInv, TypeOK, Phases
  <2>2. /\ \A u \in Tasks : u # t => phase'[u] = phase[u]
        /\ {phase[t], phase'[t]} \cap {"suspended", "awaiting", "destroyed"} = {}
        /\ UNCHANGED <<held, awaited, cont, detached, resumes>>
    BY <1>2, Zenon DEF External, IInv, TypeOK
  <2>3. \A u \in Tasks : u # 1 => u - 1 \in Tasks
    BY DEF Tasks
  <2>4. Stored' /\ Owned' /\ ResumedOnce'
    BY <2>2, <2>3, Zenon DEF IInv, Stored, Owned, ResumedOnce
  <2> QED BY <2>1, <2>2, <2>4, Zenon DEF IInv, StaysDestroyed
<1>3. CASE AwaitReady(t)
  <2>1. CASE t \in completed
    <3>1. /\ AwaitResume(t, TRUE, result[t]) /\ t # 1 /\ phase[t - 1] # "destroyed"
          /\ awaited' = awaited \cup {t} /\ UNCHANGED <<completed, result, scheduling, queue, resumes>>
      BY <1>3, <2>1, Zenon DEF AwaitReady
    <3>2. result[t] \in {"none", "value", "invalid_state"}
      BY Zenon DEF IInv, TypeOK
    <3>3. /\ phase' \in [Tasks -> Phases] /\ held' \in SUBSET Tasks /\ awaited' \in SUBSET Tasks
          /\ detached' \in SUBSET Tasks /\ cont' \in [Tasks -> Tasks \cup {NoTask}]
          /\ outcome' \in [Tasks -> {"unread", "value", "invalid_state", "not_completed"}]
          /\ Stored' /\ Owned' /\ detached \subseteq detached' /\ StaysDestroyed
      BY <3>1, <3>2, ResumeFacts, Zenon DEF StaysDestroyed
    <3>4. TypeOK' /\ ResumedOnce'
      BY <3>1, <3>3, Zenon DEF IInv, TypeOK, ResumedOnce
    <3> QED BY <3>3, <3>4, Zenon DEF IInv
  <2>2. CASE t \notin completed
    <3>1. TypeOK'
      BY <1>0, <1>3, <2>2, Zenon DEF AwaitReady, IInv, TypeOK, Phases
    <3>2. /\ t # 1 /\ phase[t - 1] = "running" /\ t \in held
          /\ awaited' = awaited \cup {t}
          /\ phase' = [phase EXCEPT ![t - 1] = "awaiting"]
          /\ UNCHANGED <<held, cont, detached, resumes>>
      BY <1>3, <2>2, Zenon DEF AwaitReady
    <3>3. \A u \in Tasks : u # 1 => u - 1 \in Tasks /\ (u - 1 = t - 1 => u = t)
      BY DEF Tasks
    <3>4. Stored' /\ ResumedOnce'
      BY <1>0, <3>2, <3>3, Zenon DEF IInv, TypeOK, Stored, ResumedOnce
    <3>5. Owned'
      BY <1>0, <3>2, <3>3, Zenon DEF IInv, TypeOK, Owned
    <3> QED BY <1>0, <3>1, <3>2, <3>4, <3>5, Zenon DEF IInv, TypeOK, StaysDestroyed
  <2> QED BY <2>1, <2>2, Zenon
<1>4. CASE AwaitSuspend(t)
  <2>1. CASE t \in completed \cup detached
    <3>1. /\ AwaitResume(t, t \in completed, result[t]) /\ t # 1 /\ phase[t - 1] # "destroyed"
          /\ UNCHANGED <<awaited, completed, result, scheduling, queue, resumes>>
      BY <1>4, <2>1, Zenon DEF AwaitSuspend
    <3>2. result[t] \in {"none", "value", "invalid_state"}
      BY Zenon DEF IInv, TypeOK
    <3>3. /\ phase' \in [Tasks -> Phases] /\ held' \in SUBSET Tasks /\ awaited' \in SUBSET Tasks
          /\ detached' \in SUBSET Tasks /\ cont' \in [Tasks -> Tasks \cup {NoTask}]
          /\ outcome' \in [Tasks -> {"unread", "value", "invalid_state", "not_completed"}]
          /\ Stored' /\ Owned' /\ detached \subseteq detached' /\ StaysDestroyed
      BY <3>1, <3>2, ResumeFacts, Zenon DEF StaysDestroyed
    <3>4. TypeOK' /\ ResumedOnce'
      BY <3>1, <3>3, Zenon DEF IInv, TypeOK, ResumedOnce
    <3> QED BY <3>3, <3>4, Zenon DEF IInv
  <2>2. CASE t \notin completed \cup detached
    <3>1. TypeOK'
      BY <1>0, <1>4, <2>2 DEF AwaitSuspend, IInv, TypeOK, Phases
    <3>2. /\ t # 1 /\ phase[t - 1] = "awaiting" /\ t \in held \cap awaited
          /\ phase' = [phase EXCEPT ![t - 1] = "suspended"]
          /\ cont' = [cont EXCEPT ![t] = t - 1]
          /\ UNCHANGED <<held, awaited, detached, resumes>>
      BY <1>4, <2>2, Zenon DEF AwaitSuspend, IInv, Owned
    <3>3. \A u \in Tasks : u # 1 => u - 1 \in Tasks /\ (u - 1 = t - 1 => u = t)
      BY DEF Tasks
    <3>4. Stored'
      BY <1>0, <3>2, <3>3, ZenonT(60) DEF IInv, TypeOK, Stored
    <3>5. Owned' /\ ResumedOnce'
      BY <1>0, <3>2, <3>3, Zenon DEF IInv, TypeOK, Owned, ResumedOnce
    <3> QED BY <1>0, <3>1, <3>2, <3>4, <3>5, Zenon DEF IInv, TypeOK, StaysDestroyed
  <2> QED BY <2>1, <2>2, Zenon
<1>5. CASE AwaitSuspendUnscheduled(t)
  <2>0. result[t] \in {"none", "value", "invalid_state"}
    BY Zenon DEF IInv, TypeOK
  <2>1. \/ AwaitResume(t, TRUE, "invalid_state")
        \/ AwaitResume(t, t \in completed, result[t])
    BY <1>5, Zenon DEF AwaitSuspendUnscheduled
  <2>2. /\ t # 1 /\ phase[t - 1] # "destroyed"
        /\ UNCHANGED <<awaited, scheduling, queue, resumes>>
        /\ result' \in [Tasks -> {"none", "value", "invalid_state"}]
        /\ completed' \in SUBSET Tasks
    BY <1>5, Zenon DEF AwaitSuspendUnscheduled, IInv, TypeOK
  <2>3. /\ phase' \in [Tasks -> Phases] /\ held' \in SUBSET Tasks /\ awaited' \in SUBSET Tasks
        /\ detached' \in SUBSET Tasks /\ cont' \in [Tasks -> Tasks \cup {NoTask}]
        /\ outcome' \in [Tasks -> {"unread", "value", "invalid_state", "not_completed"}]
        /\ Stored' /\ Owned' /\ detached \subseteq detached' /\ StaysDestroyed
    <3>1. CASE AwaitResume(t, TRUE, "invalid_state")
      BY <3>1, <2>2, ResumeFacts, Zenon DEF StaysDestroyed
    <3>2. CASE AwaitResume(t, t \in completed, result[t])
      BY <3>2, <2>0, <2>2, ResumeFacts, Zenon DEF StaysDestroyed
    <3> QED BY <2>1, <3>1, <3>2, Zenon
  <2>4. TypeOK' /\ ResumedOnce'
    BY <2>2, <2>3, Zenon DEF IInv, TypeOK, ResumedOnce
  <2> QED BY <2>3, <2>4, Zenon DEF IInv
<1>6. CASE TakeResult(t) \/ Drop(t)
  <2>1. /\ Destroy(t) /\ t \notin awaited
        /\ UNCHANGED <<awaited, completed, result, scheduling, queue, resumes>>
    BY <1>6, Zenon DEF TakeResult, Drop
  <2>2. outcome' \in [Tasks -> {"unread", "value", "invalid_state", "not_completed"}]
    BY <1>6, Zenon DEF TakeResult, Drop, TakenFrom, IInv, TypeOK
  <2>3. /\ phase' \in [Tasks -> Phases] /\ held' \in SUBSET Tasks
        /\ detached' \in SUBSET Tasks /\ cont' \in [Tasks -> Tasks \cup {NoTask}]
        /\ Stored' /\ Owned' /\ detached \subseteq detached' /\ StaysDestroyed
    BY <2>1, DestroyFacts, Zenon DEF StaysDestroyed
  <2>4. TypeOK' /\ ResumedOnce'
    BY <2>1, <2>2, <2>3, Zenon DEF IInv, TypeOK, ResumedOnce
  <2> QED BY <2>3, <2>4, Zenon DEF IInv
<1>7. ASSUME NEW r \in {"value", "invalid_state"}, Finish(t, r) PROVE IInv' /\ StaysDestroyed
  <2> DEFINE gone == Subtree(t) \ {t}
  <2>0. /\ gone \in SUBSET Tasks /\ t \notin gone /\ {} \in SUBSET Tasks
        /\ \A u \in gone : u # t + 1 => u - 1 \in gone
        /\ \A u \in Tasks : u # 1 /\ u \in held /\ u - 1 \in gone => u \in gone
    BY SubtreeFacts DEF Tasks
  <2> HIDE DEF gone
  <2>1. /\ \A u \in Tasks : phase'[u] = IF u = t THEN "finishing"
                                        ELSE IF u \in gone THEN "destroyed" ELSE phase[u]
        /\ phase' \in [Tasks -> Phases] /\ phase[t] = "running"
    BY <1>7, Zenon DEF Finish, gone, IInv, TypeOK, Phases
  <2>2. /\ held' = held \ gone
        /\ detached' = detached \cup (gone \cap awaited') \cup {}
        /\ cont' = [u \in Tasks |-> IF u \in (gone \cap awaited') \cup {} THEN NoTask ELSE cont[u]]
        /\ UNCHANGED <<awaited, completed, scheduling, queue, resumes, outcome>>
    BY <1>7, Zenon DEF Finish, gone
  <2>3. \A u \in gone : u # 1 /\ phase[u - 1] = "awaiting" => phase'[u - 1] # "awaiting"
    <3> TAKE u \in gone
    <3>1. CASE u = t + 1
      BY <3>1, <2>1 DEF Tasks
    <3>2. CASE u # t + 1
      BY <3>2, <2>0, <2>1, Zenon
    <3> QED BY <3>1, <3>2, Zenon
  <2>4. /\ \A u \in Tasks : phase'[u] = phase[u] \/ phase'[u] \notin {"suspended", "awaiting"}
        /\ \A u \in Tasks : phase'[u] # phase[u] =>
              u \in gone \/ phase[u] \notin {"suspended", "awaiting"}
                \/ (u + 1 \in {} \/ u + 1 \notin Tasks)
    BY <2>1, Zenon
  <2>5. awaited \subseteq awaited' /\ awaited' \subseteq Tasks
    BY <2>2, Zenon DEF IInv, TypeOK
  <2>6. /\ held' \in SUBSET Tasks /\ awaited' \in SUBSET Tasks /\ detached' \in SUBSET Tasks
        /\ cont' \in [Tasks -> Tasks \cup {NoTask}]
        /\ Stored' /\ Owned'
    BY ONLY IInv, <2>0, <2>1, <2>2, <2>3, <2>4, <2>5, FramesGo, Zenon
  <2>7. result' \in [Tasks -> {"none", "value", "invalid_state"}]
    BY <1>7, Zenon DEF Finish, IInv, TypeOK
  <2>8. TypeOK' /\ ResumedOnce'
    BY <2>1, <2>2, <2>6, <2>7, Zenon DEF IInv, TypeOK, ResumedOnce
  <2> QED BY <2>1, <2>6, <2>8, Zenon DEF IInv, StaysDestroyed
<1>8. CASE PublishCompleted(t)
  <2>1. TypeOK'
    BY <1>8, Zenon DEF PublishCompleted, IInv, TypeOK, Phases
  <2>2. /\ \A u \in Tasks : u # t => phase'[u] = phase[u]
        /\ {phase[t], phase'[t]} \cap {"suspended", "awaiting", "destroyed"} = {}
        /\ UNCHANGED <<held, awaited, cont, detached, resumes>>
    BY <1>8, Zenon DEF PublishCompleted, IInv, TypeOK
  <2>3. \A u \in Tasks : u # 1 => u - 1 \in Tasks
    BY DEF Tasks
  <2>4. Stored' /\ Owned' /\ ResumedOnce'
    BY <2>2, <2>3, Zenon DEF IInv, Stored, Owned, ResumedOnce
  <2> QED BY <2>1, <2>2, <2>4, Zenon DEF IInv, StaysDestroyed
<1>9. CASE ScheduleSystem(t)
  BY <1>9, Zenon DEF ScheduleSystem, IInv, TypeOK, Stored, Owned, ResumedOnce, StaysDestroyed
<1>10. CASE ResumeTaskContinuation(t)
  <2>1. CASE t \in detached \/ cont[t] = NoTask
    BY <1>10, <2>1 DEF ResumeTaskContinuation, IInv, TypeOK, Stored, Owned, ResumedOnce, StaysDestroyed
  <2>2. CASE t \notin detached /\ cont[t] # NoTask
    <3>1. /\ AwaitResume(t, t \in completed, result[t])
          /\ resumes' = [resumes EXCEPT ![t] = @ + 1]
          /\ queue' = queue \ {t} /\ UNCHANGED <<awaited, completed, result, scheduling>>
      BY <1>10, <2>2, Zenon DEF ResumeTaskContinuation
    <3>2. /\ t # 1 /\ phase[t - 1] # "destroyed" /\ resumes[t] = 0
          /\ result[t] \in {"none", "value", "invalid_state"}
      BY <2>2 DEF IInv, TypeOK, Stored, ResumedOnce
    <3>3. /\ phase' \in [Tasks -> Phases] /\ held' \in SUBSET Tasks /\ awaited' \in SUBSET Tasks
          /\ detached' \in SUBSET Tasks /\ cont' \in [Tasks -> Tasks \cup {NoTask}]
          /\ outcome' \in [Tasks -> {"unread", "value", "invalid_state", "not_completed"}]
          /\ Stored' /\ Owned' /\ t \in detached' /\ detached \subseteq detached' /\ StaysDestroyed
      BY <3>1, <3>2, ResumeFacts, Zenon DEF StaysDestroyed
    <3>4. TypeOK'
      <4>1. resumes' \in [Tasks -> Nat] /\ queue' \in SUBSET Tasks
        BY <3>1 DEF IInv, TypeOK
      <4> QED BY <3>1, <3>3, <4>1, Zenon DEF IInv, TypeOK
    <3>5. ResumedOnce'
      BY <3>1, <3>2, <3>3 DEF IInv, TypeOK, ResumedOnce
    <3> QED BY <3>3, <3>4, <3>5, Zenon DEF IInv
  <2> QED BY <2>1, <2>2, Zenon
<1> QED BY <1>1, <1>2, <1>3, <1>4, <1>5, <1>6, <1>7, <1>8, <1>9, <1>10, Zenon

\* The invariant holds throughout, and the steps revive nothing.
LEMMA Invariance == Spec => [](IInv) /\ [][StaysDestroyed]_vars
<1>1. IInv /\ [Next]_vars => IInv' /\ [StaysDestroyed]_vars
  <2>1. IInv /\ Next => IInv' /\ StaysDestroyed
    BY Inductive, Zenon DEF Next
  <2>2. IInv /\ UNCHANGED vars => IInv'
    BY ZenonT(60) DEF vars, IInv, TypeOK, Stored, Owned, ResumedOnce
  <2> QED BY <2>1, <2>2, Zenon
<1> QED BY <1>1, Initially, PTL DEF Spec

------------------------------------------------------------------------------
(* A chain of tasks: theorems. *)

\* The state of a chain keeps its type.
THEOREM TypeCorrect == Spec => []TypeOK
BY Invariance, PTL DEF IInv

\* Whoever finishes, drops, awaits or reads whichever task in whatever order, a
\* queued resume_task_continuation finds a live frame that awaits this task, or
\* a detached state, and goes through once.
THEOREM ContinuationsLive == Spec => []ContinuationLive
<1>1. IInv => ContinuationLive
  BY Zenon DEF IInv, Stored, ResumedOnce, ContinuationLive
<1> QED BY <1>1, Invariance, PTL

\* No resumption and no await_resume runs a coroutine whose frame was destroyed.
THEOREM NothingRevived == Spec => [][StaysDestroyed]_vars
BY Invariance, PTL

HIDE TaskConstants

------------------------------------------------------------------------------
(* when_any: the inductive invariant and the theorem. *)

\* Only the winner's observer cancels and schedules, and it schedules once.
OneNotifier ==
  \A i \in W!Children : observer[i] \in {"cancel", "schedule"} => winner = i /\ parentQueue = 0

\* Before there is a winner nothing was published, queued or taken.
NothingYet ==
  winner = NoWinner => /\ published = <<>> /\ parentQueue = 0 /\ taken = NoWinner
                       /\ parent \in {"starting", "checked", "suspended", "destroyed"}

\* The winner was published first, unless it is the error of the parent.
WinnerFirst ==
  /\ winner \in W!Children => published # <<>> /\ Head(published) = winner
  /\ parent = "invalid" => winner = W!Invalid
  /\ taken # NoWinner => taken = winner
  /\ installed => parent = "suspended"
  /\ parentDetached => parent \in {"joining", "done", "destroyed"}

\* Whoever won goes on to cancel the losers.
LosersTold ==
  /\ winner \in W!Children => cancelled \/ observer[winner] = "cancel"
  /\ winner = W!Invalid => cancelled \/ parent = "invalid"

\* What was joined stays done, and the parent ends after the last one.
JoinedDone ==
  /\ parent # "destroyed" => \A i \in 1..joined : observer[i] = "done"
  /\ parent = "done" => joined = K

AnyInv == W!TypeOK /\ OneNotifier /\ NothingYet /\ WinnerFirst /\ LosersTold /\ JoinedDone

\* when_any starts with nothing published.
LEMMA AnyInit == W!Init => AnyInv
<1> SUFFICES ASSUME W!Init PROVE AnyInv
  BY Zenon
<1> USE WhenAnyConstants DEF W!Init
<1>1. W!TypeOK
  <2>1. observer \in [W!Children -> W!ObserverPhases] /\ parent \in W!ParentPhases
    BY Zenon DEF W!ObserverPhases, W!ParentPhases
  <2>2. /\ parentQueue \in 0..1 /\ joined \in 0..K /\ published \in Seq(W!Children) /\ notify \in SUBSET W!Children
    OBVIOUS
  <2> QED BY <2>1, <2>2, Zenon DEF W!TypeOK
<1>2. OneNotifier /\ NothingYet /\ WinnerFirst
  BY DEF OneNotifier, NothingYet, WinnerFirst, W!Children
<1>3. LosersTold /\ JoinedDone
  BY DEF LosersTold, JoinedDone, W!Children, W!Invalid
<1> QED BY <1>1, <1>2, <1>3, Zenon DEF AnyInv

\* The observers, the parent and the destruction of the parent keep it.
LEMMA AnyStep == AnyInv /\ [W!Next]_(W!vars) => AnyInv'
<1> SUFFICES ASSUME AnyInv, [W!Next]_(W!vars) PROVE AnyInv'
  BY Zenon
<1> USE WhenAnyConstants DEF AnyInv
<1>1. ASSUME NEW i \in W!Children, W!StartObserver(i) \/ W!ChildFinishes(i) PROVE AnyInv'
  <2> USE <1>1 DEF W!StartObserver, W!ChildFinishes
  <2>1. W!TypeOK'
    BY Zenon DEF W!TypeOK, W!ObserverPhases
  <2>2. OneNotifier' /\ NothingYet' /\ WinnerFirst'
    BY DEF OneNotifier, NothingYet, WinnerFirst, W!TypeOK
  <2>3. LosersTold' /\ JoinedDone'
    BY DEF LosersTold, JoinedDone, W!TypeOK, W!Children
  <2> QED BY <2>1, <2>2, <2>3, Zenon
<1>2. ASSUME NEW i \in W!Children, W!Publish(i) PROVE AnyInv'
  <2>1. W!TypeOK'
    BY <1>2 DEF W!Publish, W!TypeOK, W!ObserverPhases
  <2>2. CASE winner # NoWinner
    <3>1. /\ observer[i] = "publish" /\ observer' = [observer EXCEPT ![i] = "done"]
          /\ published' = Append(published, i)
          /\ UNCHANGED <<winner, installed, parentDetached, cancelled, parentQueue, parent, joined, taken>>
      BY <1>2, <2>2, Zenon DEF W!Publish
    <3>2. OneNotifier' /\ NothingYet' /\ WinnerFirst'
      BY <2>2, <3>1 DEF OneNotifier, NothingYet, WinnerFirst, W!TypeOK
    <3>3. LosersTold' /\ JoinedDone'
      BY <3>1 DEF LosersTold, JoinedDone, W!TypeOK, W!Children
    <3> QED BY <2>1, <3>2, <3>3, Zenon
  <2>3. CASE winner = NoWinner
    <3>1. /\ observer[i] = "publish" /\ observer' = [observer EXCEPT ![i] = "cancel"]
          /\ published' = Append(published, i) /\ winner' = i
          /\ UNCHANGED <<installed, parentDetached, cancelled, parentQueue, parent, joined, taken>>
      BY <1>2, <2>3, Zenon DEF W!Publish
    <3>2. i # NoWinner /\ i # W!Invalid /\ i \in Int
      BY DEF W!Children, W!Invalid
    <3>3. OneNotifier' /\ NothingYet' /\ WinnerFirst'
      BY <2>3, <3>1, <3>2 DEF OneNotifier, NothingYet, WinnerFirst, W!TypeOK
    <3>4. LosersTold' /\ JoinedDone'
      BY <3>1, <3>2 DEF LosersTold, JoinedDone, W!TypeOK, W!Children
    <3> QED BY <2>1, <3>3, <3>4, Zenon
  <2> QED BY <2>2, <2>3, Zenon
<1>3. ASSUME NEW i \in W!Children, W!RequestCancellation(i) PROVE AnyInv'
  <2> USE <1>3 DEF W!RequestCancellation
  <2>1. W!TypeOK'
    BY Zenon DEF W!TypeOK, W!ObserverPhases
  <2>2. OneNotifier' /\ NothingYet' /\ WinnerFirst'
    BY Zenon DEF OneNotifier, NothingYet, WinnerFirst, W!TypeOK
  <2>3. LosersTold' /\ JoinedDone'
    BY DEF LosersTold, JoinedDone, W!TypeOK, W!Children
  <2> QED BY <2>1, <2>2, <2>3, Zenon
<1>4. ASSUME NEW i \in W!Children, W!ScheduleParent(i) PROVE AnyInv'
  <2> USE <1>4 DEF W!ScheduleParent
  <2>1. winner = i /\ parentQueue = 0 /\ i # NoWinner
    BY DEF OneNotifier, W!Children
  <2>2. W!TypeOK'
    BY <2>1 DEF W!TypeOK, W!ObserverPhases
  <2>3. OneNotifier' /\ NothingYet' /\ WinnerFirst'
    BY <2>1, Zenon DEF OneNotifier, NothingYet, WinnerFirst, W!TypeOK
  <2>4. LosersTold' /\ JoinedDone'
    BY DEF LosersTold, JoinedDone, W!TypeOK, W!Children
  <2> QED BY <2>2, <2>3, <2>4, Zenon
<1>5. CASE W!AwaitReady
  <2> USE <1>5 DEF W!AwaitReady, W!TakeWinner
  <2>1. W!TypeOK'
    BY Zenon DEF W!TypeOK, W!ParentPhases
  <2>2. OneNotifier' /\ NothingYet'
    BY Zenon DEF OneNotifier, NothingYet, WinnerFirst, W!TypeOK, W!Invalid, W!Children
  <2>3. WinnerFirst'
    BY Zenon DEF NothingYet, WinnerFirst, W!TypeOK, W!Invalid, W!Children
  <2>4. LosersTold' /\ JoinedDone'
    BY Zenon DEF LosersTold, JoinedDone, NothingYet, WinnerFirst, W!Invalid, W!Children
  <2> QED BY <2>1, <2>2, <2>3, <2>4, Zenon
<1>6. CASE W!AwaitSuspend
  <2> USE <1>6 DEF W!AwaitSuspend, W!TakeWinner
  <2>1. W!TypeOK'
    BY Zenon DEF W!TypeOK, W!ParentPhases
  <2>2. OneNotifier' /\ NothingYet'
    BY Zenon DEF OneNotifier, NothingYet, WinnerFirst, W!TypeOK, W!Invalid, W!Children
  <2>3. WinnerFirst'
    BY Zenon DEF NothingYet, WinnerFirst, W!TypeOK, W!Invalid, W!Children
  <2>4. LosersTold' /\ JoinedDone'
    BY Zenon DEF LosersTold, JoinedDone, NothingYet, WinnerFirst, W!Invalid, W!Children
  <2> QED BY <2>1, <2>2, <2>3, <2>4, Zenon
<1>7. CASE W!PublishInvalid
  <2> USE <1>7 DEF W!PublishInvalid, W!TakeWinner
  <2>1. W!TypeOK'
    BY Zenon DEF W!TypeOK, W!ParentPhases
  <2>2. OneNotifier' /\ NothingYet'
    BY DEF OneNotifier, NothingYet, WinnerFirst, W!TypeOK, W!Invalid, W!Children
  <2>3. WinnerFirst'
    BY DEF NothingYet, WinnerFirst, W!TypeOK, W!Invalid, W!Children
  <2>4. LosersTold' /\ JoinedDone'
    BY DEF LosersTold, JoinedDone, NothingYet, WinnerFirst, W!Invalid, W!Children
  <2> QED BY <2>1, <2>2, <2>3, <2>4, Zenon
<1>8. CASE W!CancelInvalid
  <2> USE <1>8 DEF W!CancelInvalid, W!TakeWinner
  <2>1. W!TypeOK'
    BY Zenon DEF W!TypeOK, W!ParentPhases
  <2>2. OneNotifier' /\ NothingYet'
    BY Zenon DEF OneNotifier, NothingYet, WinnerFirst, W!TypeOK, W!Invalid, W!Children
  <2>3. WinnerFirst'
    BY Zenon DEF NothingYet, WinnerFirst, W!TypeOK, W!Invalid, W!Children
  <2>4. LosersTold' /\ JoinedDone'
    BY Zenon DEF LosersTold, JoinedDone, NothingYet, WinnerFirst, W!Invalid, W!Children
  <2> QED BY <2>1, <2>2, <2>3, <2>4, Zenon
<1>9. CASE W!ResumeParent
  <2> USE <1>9 DEF W!ResumeParent, W!TakeWinner
  <2>0. parentQueue' \in 0..1
    BY DEF W!TypeOK
  <2>1. W!TypeOK'
    BY <2>0, Zenon DEF W!TypeOK, W!ParentPhases
  <2>2. OneNotifier' /\ NothingYet'
    BY DEF OneNotifier, NothingYet, WinnerFirst, W!TypeOK, W!Invalid, W!Children
  <2>3. WinnerFirst'
    BY Zenon DEF NothingYet, WinnerFirst, W!TypeOK, W!Invalid, W!Children
  <2>4. LosersTold' /\ JoinedDone'
    BY Zenon DEF LosersTold, JoinedDone, NothingYet, WinnerFirst, W!Invalid, W!Children
  <2> QED BY <2>1, <2>2, <2>3, <2>4, Zenon
<1>10. CASE W!JoinObserver
  <2> USE <1>10 DEF W!JoinObserver
  <2>1. W!TypeOK'
    BY DEF W!TypeOK, W!ParentPhases
  <2>2. OneNotifier' /\ NothingYet' /\ WinnerFirst'
    BY Zenon DEF OneNotifier, NothingYet, WinnerFirst, W!TypeOK
  <2>3. LosersTold' /\ JoinedDone'
    BY DEF LosersTold, JoinedDone, W!TypeOK, W!Children
  <2> QED BY <2>1, <2>2, <2>3, Zenon
<1>11. CASE W!Destroy
  <2> USE <1>11 DEF W!Destroy
  <2>1. W!TypeOK'
    BY Zenon DEF W!TypeOK, W!ParentPhases, W!ObserverPhases
  <2>2. OneNotifier' /\ NothingYet' /\ WinnerFirst'
    BY Zenon DEF OneNotifier, NothingYet, WinnerFirst, W!TypeOK
  <2>3. LosersTold' /\ JoinedDone'
    BY Zenon DEF LosersTold, JoinedDone, W!TypeOK, W!Children, WinnerFirst
  <2> QED BY <2>1, <2>2, <2>3, Zenon
<1>12. CASE UNCHANGED W!vars
  BY <1>12, Zenon DEF W!vars, W!TypeOK, OneNotifier, NothingYet, WinnerFirst, LosersTold, JoinedDone
<1> QED BY <1>1, <1>2, <1>3, <1>4, <1>5, <1>6, <1>7, <1>8, <1>9, <1>10, <1>11, <1>12, Zenon DEF W!Next

\* For any number of children: the result when_any takes is that of the child
\* whose publish_result came first, the losers are cancelled, and it returns only
\* when every observer is done, however publication, suspension, resumption and
\* destruction interleave.
THEOREM FirstWins == W!Spec => []FirstWinsRestJoined
<1>1. AnyInv => FirstWinsRestJoined
  BY WhenAnyConstants, Zenon DEF AnyInv, FirstWinsRestJoined, W!FirstWinsRestJoined, WinnerFirst, NothingYet, LosersTold,
         JoinedDone, W!TypeOK, W!Children, W!Invalid
<1> QED BY <1>1, AnyInit, AnyStep, PTL DEF W!Spec

------------------------------------------------------------------------------
(* Positions of a sequence. *)

\* What is kept of a sequence: the elements at those positions, each once.
LEMMA KeptFacts ==
  ASSUME NEW X, NEW s \in Seq(X), NEW P \in SUBSET DOMAIN s, NEW r \in A!Kept(s, P)
  PROVE  /\ r \in Seq(X)
         /\ \A n \in DOMAIN r : \E p \in P : r[n] = s[p]
         /\ \A p \in P : \E n \in DOMAIN r : r[n] = s[p]
         /\ (\A j, k \in DOMAIN s : s[j] = s[k] => j = k)
              => \A j, k \in DOMAIN r : r[j] = r[k] => j = k
<1>0. PICK f \in UNION {[1..n -> P] : n \in 0..Len(s)} :
         /\ r = [n \in DOMAIN f |-> s[f[n]]]
         /\ \A i, j \in DOMAIN f : i < j => f[i] < f[j]
         /\ \A p \in P : \E i \in DOMAIN f : f[i] = p
  BY Zenon DEF A!Kept
<1>1. PICK m \in 0..Len(s) : f \in [1..m -> P]
  BY <1>0, Zenon
<1>2. m \in Nat /\ \A n \in 1..m : f[n] \in P /\ f[n] \in DOMAIN s /\ s[f[n]] \in X /\ f[n] \in Int
  <2>1. Len(s) \in Nat /\ DOMAIN s = 1..Len(s)
    OBVIOUS
  <2> QED BY <1>1, <2>1
<1>3. DOMAIN f = 1..m /\ DOMAIN r = 1..m /\ \A n \in 1..m : r[n] = s[f[n]]
  BY <1>0, <1>1, Zenon
<1>4. r \in Seq(X)
  <2>1. r = [n \in 1..m |-> s[f[n]]]
    BY <1>0, <1>3, Zenon
  <2>2. r \in [1..m -> X]
    BY <1>2, <2>1, Zenon
  <2>3. m \in Nat
    BY <1>2, Zenon
  <2> QED BY ONLY <2>2, <2>3
<1>5. ASSUME NEW i \in 1..m, NEW j \in 1..m, f[i] = f[j] PROVE i = j
  <2>1. i \in Int /\ j \in Int /\ f[i] \in Int /\ f[j] \in Int
    BY <1>2
  <2>2. (i < j => f[i] < f[j]) /\ (j < i => f[j] < f[i])
    BY <1>0, <1>3, Zenon
  <2> QED BY ONLY <1>5, <2>1, <2>2
<1>6. \A p \in P : \E n \in DOMAIN r : r[n] = s[p]
  BY <1>0, <1>3, Zenon
<1>7. \A n \in DOMAIN r : \E p \in P : r[n] = s[p]
  BY <1>2, <1>3, Zenon
<1>8. ASSUME \A j, k \in DOMAIN s : s[j] = s[k] => j = k, NEW j \in DOMAIN r, NEW k \in DOMAIN r, r[j] = r[k]
      PROVE  j = k
  <2>1. s[f[j]] = s[f[k]] /\ j \in 1..m /\ k \in 1..m
    BY <1>3, <1>8, Zenon
  <2>2. f[j] = f[k]
    BY <1>2, <1>8, <2>1, Zenon
  <2> QED BY <1>5, <2>1, <2>2, Zenon
<1> QED BY <1>4, <1>6, <1>7, <1>8, Zenon

\* Cancellation keeps positions as the scope does.
LEMMA SameKept == ASSUME NEW s, NEW P PROVE C!Kept(s, P) = A!Kept(s, P)
BY Zenon DEF A!Kept, C!Kept

------------------------------------------------------------------------------
(* async_scope: the inductive invariant and the theorem. *)

\* What join relies on: a running child is among the children, the errors are
\* those of failed children, and a failed child is still to be observed or has
\* left an error.
Collected ==
  /\ \A c \in spawned : task[c] = "running" => \E k \in DOMAIN children : children[k] = c
  /\ \A k \in DOMAIN errors : errors[k] \in spawned /\ task[errors[k]] = "failed"
  /\ \A c \in spawned :
       task[c] = "failed" => errors # <<>> \/ \E k \in DOMAIN children : children[k] = c

ScopeInv == A!TypeOK /\ Collected /\ JoinAccountsForAll

\* A new scope has no children and no errors.
LEMMA ScopeInit == A!Init => ScopeInv
<1> SUFFICES ASSUME A!Init PROVE ScopeInv
  BY Zenon
<1> USE DEF A!Init
<1>1. A!TypeOK
  <2>1. children \in Seq(spawned) /\ errors \in Seq(ScopeTasks) /\ sink \in Seq(ScopeTasks)
    OBVIOUS
  <2>2. task \in [ScopeTasks -> {"running", "ok", "failed"}]
    BY Zenon
  <2>3. DOMAIN children = {}
    OBVIOUS
  <2> QED BY <2>1, <2>2, <2>3, Zenon DEF A!TypeOK
<1>2. Collected
  BY DEF Collected
<1>3. JoinAccountsForAll
  BY Zenon DEF JoinAccountsForAll, A!JoinAccountsForAll
<1> QED BY <1>1, <1>2, <1>3, Zenon DEF ScopeInv

\* Children that finish, spawn, request_stop and join keep it.
LEMMA ScopeStep == ScopeInv /\ [A!Next]_(A!vars) => ScopeInv'
<1> SUFFICES ASSUME ScopeInv, [A!Next]_(A!vars)
             PROVE  ScopeInv'
  BY Zenon
<1> USE DEF ScopeInv, Collected, JoinAccountsForAll, A!JoinAccountsForAll
<1>1. CASE \E c \in ScopeTasks, how \in {"ok", "failed"} : A!Completes(c, how)
  <2> PICK c \in ScopeTasks, how \in {"ok", "failed"} : A!Completes(c, how)
    BY <1>1, Zenon
  <2>1. /\ task[c] = "running" /\ task' = [task EXCEPT ![c] = how]
        /\ joinResult' = "none"
        /\ UNCHANGED <<children, errors, sink, stopping, spawned, rejected>>
    BY Zenon DEF A!Completes
  <2>2. A!TypeOK'
    BY <2>1, Zenon DEF A!TypeOK
  <2>3. \A d \in ScopeTasks : task'[d] = IF d = c THEN how ELSE task[d]
    BY <2>1, Zenon DEF A!TypeOK
  <2>4. Collected'
    BY <2>1, <2>3, ZenonT(60) DEF A!TypeOK
  <2> QED BY <2>1, <2>2, <2>4, Zenon
<1>2. CASE \E c \in ScopeTasks : A!Spawn(c)
  <2> PICK c \in ScopeTasks : A!Spawn(c)
    BY <1>2, Zenon
  <2>1. joinResult' = "none" /\ UNCHANGED <<task, stopping>> /\ c \notin spawned
    BY Zenon DEF A!Spawn
  <2>2. CASE stopping
    <3>1. rejected' = rejected \cup {c} /\ UNCHANGED <<children, errors, sink, spawned>>
      BY <2>2, Zenon DEF A!Spawn
    <3>2. A!TypeOK'
      BY <2>1, <3>1, Zenon DEF A!TypeOK
    <3> QED BY <2>1, <3>1, <3>2, Zenon
  <2>3. CASE ~stopping /\ task[c] = "running"
    <3>1. /\ spawned' = spawned \cup {c} /\ children' = Append(children, c)
          /\ UNCHANGED <<errors, sink, rejected>>
      BY <2>3, Zenon DEF A!Spawn
    <3>2. children \in Seq(spawned) /\ children \in Seq(spawned') /\ c \in spawned'
      BY <3>1 DEF A!TypeOK
    <3>3. /\ DOMAIN children' = 1..(Len(children) + 1)
          /\ DOMAIN children = 1..Len(children) /\ Len(children) \in Nat
          /\ children'[Len(children) + 1] = c
          /\ \A k \in DOMAIN children : children'[k] = children[k] /\ children[k] \in spawned
      BY <3>1, <3>2
    <3>4. children' \in Seq(spawned')
      BY <3>1, <3>2
    <3>5. \A j, k \in DOMAIN children' : children'[j] = children'[k] => j = k
      BY <2>1, <3>3 DEF A!TypeOK
    <3>6. A!TypeOK'
      BY <2>1, <3>1, <3>4, <3>5, Zenon DEF A!TypeOK
    <3>7. Collected'
      BY <2>1, <3>1, <3>3
    <3> QED BY <2>1, <3>6, <3>7, Zenon
  <2>4. CASE ~stopping /\ task[c] # "running"
    <3> DEFINE e == IF task[c] = "failed" THEN <<c>> ELSE <<>>
    <3>1. /\ spawned' = spawned \cup {c}
          /\ errors' = errors \o e /\ sink' = sink \o e
          /\ UNCHANGED <<children, rejected>>
      BY <2>4, Zenon DEF A!Spawn, A!Record
    <3>2. e \in Seq(ScopeTasks) /\ errors \in Seq(ScopeTasks) /\ sink \in Seq(ScopeTasks)
      BY DEF A!TypeOK
    <3>3. errors' \in Seq(ScopeTasks) /\ sink' \in Seq(ScopeTasks)
      BY <3>1, <3>2
    <3>4. children' \in Seq(spawned')
      BY <3>1 DEF A!TypeOK
    <3>5. A!TypeOK'
      BY <2>1, <3>1, <3>3, <3>4, ZenonT(60) DEF A!TypeOK
    <3>6. CASE task[c] = "failed"
      <4>1. errors' = Append(errors, c)
        BY <3>1, <3>2, <3>6
      <4>2. /\ DOMAIN errors' = 1..(Len(errors) + 1)
            /\ errors'[Len(errors) + 1] = c
            /\ \A k \in DOMAIN errors : errors'[k] = errors[k]
            /\ DOMAIN errors = 1..Len(errors) /\ Len(errors) \in Nat
            /\ errors' # <<>>
        BY <3>2, <4>1
      <4>3. Collected'
        BY <2>1, <3>1, <3>6, <4>2
      <4> QED BY <2>1, <3>5, <4>3, Zenon
    <3>7. CASE task[c] # "failed"
      <4>1. errors' = errors
        BY <3>1, <3>2, <3>7
      <4>2. Collected'
        BY <2>1, <2>4, <3>1, <3>7, <4>1, Zenon
      <4> QED BY <2>1, <3>5, <4>2, Zenon
    <3> QED BY <3>6, <3>7, Zenon
  <2> QED BY <2>2, <2>3, <2>4, Zenon
<1>3. CASE A!RequestStop
  BY <1>3, Zenon DEF A!RequestStop, A!TypeOK
<1>4. CASE A!Join
  <2> DEFINE at(how) == A!Positioned(how)
  <2>0. /\ \A how : at(how) \in SUBSET DOMAIN children
        /\ \A how, p : p \in at(how) <=> p \in DOMAIN children /\ task[children[p]] = how
    BY Zenon DEF A!Positioned
  <2> HIDE DEF at
  <2>1. children \in Seq(spawned) /\ spawned \subseteq ScopeTasks
    BY Zenon DEF A!TypeOK
  <2>2. UNCHANGED <<task, stopping, spawned, rejected>>
    BY <1>4, Zenon DEF A!Join
  <2>3. children' \in A!Kept(children, at("running"))
    BY <1>4, Zenon DEF A!Join, at
  <2>4. PICK bad \in A!Kept(children, at("failed")) : A!Record(bad)
    BY <1>4, Zenon DEF A!Join, at
  <2>5. /\ children' \in Seq(spawned)
        /\ \A n \in DOMAIN children' : \E p \in at("running") : children'[n] = children[p]
        /\ \A p \in at("running") : \E n \in DOMAIN children' : children'[n] = children[p]
        /\ \A j, k \in DOMAIN children' : children'[j] = children'[k] => j = k
    <3>1. \A j, k \in DOMAIN children : children[j] = children[k] => j = k
      BY Zenon DEF A!TypeOK
    <3> QED BY ONLY <2>0, <2>1, <2>3, <3>1, KeptFacts
  <2>6. /\ bad \in Seq(spawned)
        /\ \A n \in DOMAIN bad : \E p \in at("failed") : bad[n] = children[p]
        /\ \A p \in at("failed") : \E n \in DOMAIN bad : bad[n] = children[p]
    BY ONLY <2>0, <2>1, <2>4, KeptFacts
  <2>7. errors' = errors \o bad /\ sink' = sink \o bad
    BY <2>4, Zenon DEF A!Record
  <2>8. bad \in Seq(ScopeTasks) /\ errors \in Seq(ScopeTasks) /\ sink \in Seq(ScopeTasks)
    BY <2>1, <2>6 DEF A!TypeOK
  <2>9. errors' \in Seq(ScopeTasks) /\ sink' \in Seq(ScopeTasks)
    BY <2>7, <2>8
  <2>10. joinResult' = IF children' # <<>> THEN "pending"
                       ELSE IF errors' # <<>> THEN "failed" ELSE "ok"
    BY <1>4, Zenon DEF A!Join
  <2>11. A!TypeOK'
    BY <2>2, <2>5, <2>9, <2>10, Zenon DEF A!TypeOK
  <2>12. /\ Len(errors) \in Nat /\ Len(bad) \in Nat
         /\ DOMAIN errors = 1..Len(errors) /\ DOMAIN bad = 1..Len(bad)
         /\ DOMAIN errors' = 1..(Len(errors) + Len(bad))
         /\ \A k \in DOMAIN errors : errors'[k] = errors[k]
         /\ \A k \in DOMAIN bad : errors'[Len(errors) + k] = bad[k]
    BY <2>7, <2>8
  <2>13. \A k \in DOMAIN errors' :
           (\E j \in DOMAIN errors : errors'[k] = errors[j]) \/ (\E j \in DOMAIN bad : errors'[k] = bad[j])
    <3> TAKE k \in DOMAIN errors'
    <3>1. CASE k \in DOMAIN errors
      BY <2>12, <3>1, Zenon
    <3>2. CASE k \notin DOMAIN errors
      <4>1. k - Len(errors) \in DOMAIN bad /\ k = Len(errors) + (k - Len(errors))
        BY <2>12, <3>2
      <4> QED BY <2>12, <4>1, ZenonT(60)
    <3> QED BY <3>1, <3>2, Zenon
  <2>14. \A n \in DOMAIN bad : bad[n] \in spawned /\ task[bad[n]] = "failed"
    BY <2>0, <2>1, <2>6
  <2>15. \A k \in DOMAIN errors' : errors'[k] \in spawned /\ task[errors'[k]] = "failed"
    BY <2>13, <2>14
  <2>16. \A c \in spawned : task[c] = "running" => \E k \in DOMAIN children' : children'[k] = c
    BY <2>0, <2>5
  <2>17. \A c \in spawned : task[c] = "failed" => errors' # <<>>
    <3> SUFFICES ASSUME NEW c \in spawned, task[c] = "failed"
                 PROVE  errors' # <<>>
      BY Zenon
    <3>1. CASE errors # <<>>
      BY <2>8, <2>12, <2>9, <3>1
    <3>2. CASE \E k \in DOMAIN children : children[k] = c
      <4>1. Len(bad) > 0
        BY <2>0, <2>6, <2>12, <3>2
      <4> QED BY <2>9, <2>12, <4>1
    <3> QED BY <3>1, <3>2, Zenon
  <2>18. Collected'
    BY <2>2, <2>15, <2>16, <2>17, Zenon
  <2>19. JoinAccountsForAll'
    <3>1. \A c \in spawned : task[c] \in {"running", "ok", "failed"}
      BY <2>1, Zenon DEF A!TypeOK
    <3>2. CASE children' # <<>>
      BY <2>10, <3>2, Zenon
    <3>3. CASE children' = <<>>
      <4>1. \A c \in spawned : task[c] # "running"
        BY <2>16, <3>3
      <4>2. CASE errors' # <<>>
        <5>1. 1 \in DOMAIN errors'
          BY <2>9, <4>2
        <5> QED BY <2>2, <2>10, <2>15, <3>3, <4>1, <4>2, <5>1, Zenon
      <4>3. CASE errors' = <<>>
        BY <2>2, <2>10, <2>17, <3>1, <3>3, <4>1, <4>3, Zenon
      <4> QED BY <4>2, <4>3, Zenon
    <3> QED BY <3>2, <3>3, Zenon
  <2> QED BY <2>11, <2>18, <2>19, Zenon
<1>5. CASE UNCHANGED A!vars
  BY <1>5, Zenon DEF A!vars, A!TypeOK
<1> QED BY <1>1, <1>2, <1>3, <1>4, <1>5, Zenon DEF A!Next

\* For any set of tasks: join reports an end only when no accepted child is
\* running, and success exactly if none of them failed, whether spawn, an earlier
\* join or this one observed the failure.
THEOREM JoinAccounts == A!Spec => []JoinAccountsForAll
<1>1. ScopeInv => JoinAccountsForAll
  BY Zenon DEF ScopeInv
<1> QED BY <1>1, ScopeInit, ScopeStep, PTL DEF A!Spec

------------------------------------------------------------------------------
(* cancellation: the inductive invariant and the theorem. *)

\* What is not called any more: revoked in time, or selected behind a callback
\* that threw.
Gone == revoked \cup abandoned

\* Before the request nothing is selected or called; after it the list stays
\* empty.  So a callback waits in one place only.
TwoPhases ==
  /\ ~requested => (\A t \in Threads : stack[t] = <<>>) /\ (\A c \in Slots : calls[c] = <<>>)
  /\ requested => callbacks = <<>> /\ reason \in Reasons

\* The list holds the registered callbacks, each once; what is gone is not
\* among them, and every callback that is anywhere was registered.
Listed ==
  /\ \A c \in Slots : c \in registered <=> \E k \in DOMAIN callbacks : callbacks[k] = c
  /\ \A j, k \in DOMAIN callbacks : callbacks[j] = callbacks[k] => j = k
  /\ registered \cup Gone \subseteq C!RangeOf(order)
  /\ registered \cap Gone = {}
  /\ \A c \in Slots : calls[c] # <<>> => c \in C!RangeOf(order)

\* What a frame has left to call: known callbacks that are not gone and not yet
\* called, but for the one that is running.
Honest(f, why, known, gone, made) ==
  /\ f.reason = why
  /\ f.running => f.rest # <<>>
  /\ \A k \in DOMAIN f.rest :
       /\ f.rest[k] \in known /\ f.rest[k] \notin gone
       /\ made[f.rest[k]] = IF f.running /\ k = 1 THEN <<why>> ELSE <<>>

HonestFrames ==
  \A t \in Threads : \A i \in DOMAIN stack[t] :
    Honest(stack[t][i], reason, C!RangeOf(order), Gone, calls)

\* No callback is in two frames, nor twice in one.
OnePlace ==
  \A t, u \in Threads : \A i \in DOMAIN stack[t], j \in DOMAIN stack[u] :
    \A k \in DOMAIN stack[t][i].rest, l \in DOMAIN stack[u][j].rest :
      stack[t][i].rest[k] = stack[u][j].rest[l] => t = u /\ i = j /\ k = l

\* A call is made once, for the reason of the request.
CalledOnce == \A c \in Slots : calls[c] = <<>> \/ (requested /\ calls[c] = <<reason>>)

\* Nothing that was revoked or left behind is called.
RevokedQuiet == \A c \in Gone : calls[c] = <<>>

CancelInv == C!TypeOK /\ TwoPhases /\ Listed /\ HonestFrames /\ OnePlace /\ CalledOnce /\ RevokedQuiet

\* A new source has no callbacks and no calls.
LEMMA CancelInit == C!Init => CancelInv
<1> SUFFICES ASSUME C!Init PROVE CancelInv
  BY Zenon
<1> USE DEF C!Init
<1>1. C!TypeOK
  <2>1. callbacks \in Seq(Slots) /\ order \in Seq(Slots)
    OBVIOUS
  <2>2. stack \in [Threads -> Seq(C!Frame)]
    OBVIOUS
  <2>3. calls \in [Slots -> Seq(Reasons)]
    OBVIOUS
  <2> QED BY <2>1, <2>2, <2>3, Zenon DEF C!TypeOK
<1>2. \A t \in Threads : stack[t] = <<>> /\ DOMAIN stack[t] = {}
  OBVIOUS
<1>3. \A c \in Slots : calls[c] = <<>>
  BY Zenon
<1>4. TwoPhases
  BY <1>2, <1>3, Zenon DEF TwoPhases
<1>5. DOMAIN callbacks = {}
  OBVIOUS
<1>6. Listed
  BY <1>3, <1>5, Zenon DEF Listed, Gone
<1>7. HonestFrames /\ OnePlace
  BY <1>2, ZenonT(60) DEF HonestFrames, OnePlace
<1>8. CalledOnce /\ RevokedQuiet
  BY <1>3, Zenon DEF CalledOnce, RevokedQuiet, Gone
<1> QED BY <1>1, <1>4, <1>6, <1>7, <1>8, Zenon DEF CancelInv

\* A call puts one new frame on top of the stack of its thread.
LEMMA PushFacts ==
  ASSUME C!TypeOK, NEW t \in Threads, NEW rest \in Seq(Slots), NEW r \in Reasons,
         C!Push(t, rest, r)
  PROVE  /\ stack' \in [Threads -> Seq(C!Frame)]
         /\ \A u \in Threads : \A i \in DOMAIN stack'[u] :
              \/ i \in DOMAIN stack[u] /\ stack'[u][i] = stack[u][i]
              \/ /\ u = t /\ i = Len(stack[t]) + 1
                 /\ stack'[u][i] = [rest |-> rest, running |-> FALSE, reason |-> r]
<1> DEFINE new == [rest |-> rest, running |-> FALSE, reason |-> r]
<1>1. new \in C!Frame
  BY Zenon DEF C!Frame
<1>2. stack \in [Threads -> Seq(C!Frame)]
  BY Zenon DEF C!TypeOK
<1>3. stack' = [stack EXCEPT ![t] = Append(stack[t], new)]
  BY Zenon DEF C!Push
<1> HIDE DEF new
<1>4. stack[t] \in Seq(C!Frame) /\ Append(stack[t], new) \in Seq(C!Frame)
  BY <1>1, <1>2
<1>5. stack' \in [Threads -> Seq(C!Frame)]
  BY <1>2, <1>3, <1>4, Zenon
<1>6. ASSUME NEW u \in Threads, u # t PROVE stack'[u] = stack[u]
  BY <1>2, <1>3, <1>6, Zenon
<1>7. stack'[t] = Append(stack[t], new)
  BY <1>2, <1>3, Zenon
<1>8. ASSUME NEW i \in DOMAIN stack'[t]
      PROVE  \/ i \in DOMAIN stack[t] /\ stack'[t][i] = stack[t][i]
             \/ i = Len(stack[t]) + 1 /\ stack'[t][i] = new
  BY <1>1, <1>4, <1>7, <1>8
<1> QED BY <1>5, <1>6, <1>8, Zenon DEF new

\* Calling the next callback, or returning from one, changes the top frame.
LEMMA SetTopFacts ==
  ASSUME C!TypeOK, NEW t \in Threads, stack[t] # <<>>, NEW frame \in C!Frame, C!SetTop(t, frame)
  PROVE  /\ stack' \in [Threads -> Seq(C!Frame)]
         /\ Len(stack[t]) \in DOMAIN stack[t]
         /\ \A u \in Threads : DOMAIN stack'[u] = DOMAIN stack[u]
         /\ stack'[t][Len(stack[t])] = frame
         /\ \A u \in Threads : \A i \in DOMAIN stack[u] :
              u # t \/ i # Len(stack[t]) => stack'[u][i] = stack[u][i]
<1> DEFINE n == Len(stack[t])
<1>1. stack \in [Threads -> Seq(C!Frame)] /\ stack[t] \in Seq(C!Frame)
  BY Zenon DEF C!TypeOK
<1>2. stack' = [stack EXCEPT ![t] = [stack[t] EXCEPT ![n] = frame]]
  BY Zenon DEF C!SetTop
<1>3. n \in DOMAIN stack[t] /\ n \in Nat
  BY <1>1
<1> HIDE DEF n
<1>4. [stack[t] EXCEPT ![n] = frame] \in Seq(C!Frame)
  BY <1>1, <1>3
<1>5. stack' \in [Threads -> Seq(C!Frame)]
  BY <1>1, <1>2, <1>4, Zenon
<1>6. stack'[t] = [stack[t] EXCEPT ![n] = frame] /\ \A u \in Threads : u # t => stack'[u] = stack[u]
  BY <1>1, <1>2, Zenon
<1>7. /\ DOMAIN stack'[t] = DOMAIN stack[t] /\ stack'[t][n] = frame
      /\ \A i \in DOMAIN stack[t] : i # n => stack'[t][i] = stack[t][i]
  BY <1>1, <1>3, <1>6, Zenon
<1> QED BY <1>3, <1>5, <1>6, <1>7, Zenon DEF n

\* A frame is made of callbacks.
LEMMA FrameFacts ==
  ASSUME C!TypeOK, NEW t \in Threads, NEW i \in DOMAIN stack[t]
  PROVE  /\ stack[t][i] \in C!Frame
         /\ stack[t][i].rest \in Seq(Slots)
         /\ stack[t][i].running \in BOOLEAN
         /\ stack[t][i].reason \in Reasons
         /\ \A k \in DOMAIN stack[t][i].rest : stack[t][i].rest[k] \in Slots
<1>1. stack[t] \in Seq(C!Frame)
  BY Zenon DEF C!TypeOK
<1>2. stack[t][i] \in C!Frame
  BY <1>1
<1>3. stack[t][i].rest \in Seq(Slots) /\ stack[t][i].running \in BOOLEAN /\ stack[t][i].reason \in Reasons
  BY <1>2, Zenon DEF C!Frame
<1> QED BY <1>2, <1>3

\* Registering appends to the order, in which nothing is lost.
LEMMA OrderGrows ==
  ASSUME C!TypeOK, NEW c \in Slots, order' = Append(order, c)
  PROVE  /\ order' \in Seq(Slots)
         /\ C!RangeOf(order)' = C!RangeOf(order) \cup {c}
<1>1. order \in Seq(Slots)
  BY Zenon DEF C!TypeOK
<1>2. /\ DOMAIN order' = 1..(Len(order) + 1) /\ DOMAIN order = 1..Len(order) /\ Len(order) \in Nat
      /\ order'[Len(order) + 1] = c /\ \A k \in DOMAIN order : order'[k] = order[k]
      /\ order' \in Seq(Slots)
  BY <1>1
<1>3. \A d : d \in C!RangeOf(order)' <=> d \in C!RangeOf(order) \cup {c}
  BY <1>2 DEF C!RangeOf
<1> QED BY <1>2, <1>3, Zenon

\* A callback is registered before the request.
LEMMA RegisterKeeps ==
  ASSUME CancelInv, NEW t \in Threads, NEW c \in Slots, C!Register(t, c)
  PROVE  CancelInv'
<1> USE DEF CancelInv
<1>1. /\ c \notin C!RangeOf(order) /\ ~requested
      /\ callbacks' = Append(callbacks, c) /\ registered' = registered \cup {c}
      /\ handles' = handles \cup {c} /\ order' = Append(order, c)
      /\ UNCHANGED <<requested, reason, stack, calls, revoked, abandoned, Gone>>
  BY Zenon DEF C!Register, Gone
<1>2. order' \in Seq(Slots) /\ C!RangeOf(order)' = C!RangeOf(order) \cup {c}
  BY <1>1, OrderGrows, Zenon
<1>3. callbacks \in Seq(Slots)
  BY Zenon DEF C!TypeOK
<1>4. /\ callbacks' \in Seq(Slots)
      /\ DOMAIN callbacks' = 1..(Len(callbacks) + 1)
      /\ DOMAIN callbacks = 1..Len(callbacks) /\ Len(callbacks) \in Nat
      /\ callbacks'[Len(callbacks) + 1] = c
      /\ \A k \in DOMAIN callbacks : callbacks'[k] = callbacks[k] /\ callbacks[k] \in Slots
  BY <1>1, <1>3
<1>5. C!TypeOK'
  BY <1>1, <1>2, <1>4, Zenon DEF C!TypeOK
<1>6. c \notin registered /\ c \notin Gone /\ ~\E k \in DOMAIN callbacks : callbacks[k] = c
  BY <1>1, Zenon DEF Listed
<1>7. Listed'
  <2>1. \A d \in Slots : d \in registered' <=> \E k \in DOMAIN callbacks' : callbacks'[k] = d
    BY <1>1, <1>4 DEF Listed
  <2>2. \A j, k \in DOMAIN callbacks' : callbacks'[j] = callbacks'[k] => j = k
    BY <1>4, <1>6 DEF Listed
  <2>3. registered' \cup Gone' \subseteq C!RangeOf(order)' /\ registered' \cap Gone' = {}
    BY <1>1, <1>2, <1>6 DEF Listed
  <2>4. \A d \in Slots : calls'[d] # <<>> => d \in C!RangeOf(order)'
    BY <1>1, <1>2, ZenonT(60) DEF Listed
  <2> QED BY <2>1, <2>2, <2>3, <2>4, Zenon DEF Listed
<1>8. TwoPhases' /\ HonestFrames' /\ OnePlace' /\ CalledOnce' /\ RevokedQuiet'
  BY <1>1, <1>2, FrameFacts DEF TwoPhases, HonestFrames, Honest, OnePlace, CalledOnce, RevokedQuiet
<1> QED BY <1>5, <1>7, <1>8, Zenon

\* A callback is registered after it, and called at once.
LEMMA RegisterLateKeeps ==
  ASSUME CancelInv, NEW t \in Threads, NEW c \in Slots, C!RegisterLate(t, c)
  PROVE  CancelInv'
<1> USE DEF CancelInv
<1>1. /\ c \notin C!RangeOf(order) /\ requested /\ C!Push(t, <<c>>, reason)
      /\ order' = Append(order, c)
      /\ UNCHANGED <<requested, reason, callbacks, registered, handles, calls, revoked, abandoned, Gone>>
  BY Zenon DEF C!RegisterLate, Gone
<1>2. order' \in Seq(Slots) /\ C!RangeOf(order)' = C!RangeOf(order) \cup {c}
  BY <1>1, OrderGrows, ZenonT(60)
<1>3. reason \in Reasons /\ <<c>> \in Seq(Slots)
  BY <1>1 DEF TwoPhases
<1> DEFINE one == <<c>>
           new == [rest |-> one, running |-> FALSE, reason |-> reason]
<1>4. C!Push(t, one, reason) /\ one \in Seq(Slots)
  BY <1>1, <1>3, ZenonT(60)
<1> HIDE DEF one
<1>5. /\ stack' \in [Threads -> Seq(C!Frame)]
      /\ \A u \in Threads : \A i \in DOMAIN stack'[u] :
           \/ i \in DOMAIN stack[u] /\ stack'[u][i] = stack[u][i]
           \/ u = t /\ i = Len(stack[t]) + 1 /\ stack'[u][i] = new
  <2>1. C!TypeOK /\ t \in Threads
    BY Zenon
  <2>2. /\ stack' \in [Threads -> Seq(C!Frame)]
        /\ \A u \in Threads : \A i \in DOMAIN stack'[u] :
             \/ i \in DOMAIN stack[u] /\ stack'[u][i] = stack[u][i]
             \/ /\ u = t /\ i = Len(stack[t]) + 1
                /\ stack'[u][i] = [rest |-> one, running |-> FALSE, reason |-> reason]
    BY ONLY <1>3, <1>4, <2>1, PushFacts
  <2> QED BY ONLY <2>2, Zenon
<1>6. new.rest = <<c>> /\ new.running = FALSE /\ new.reason = reason /\ DOMAIN new.rest = {1} /\ new.rest[1] = c
  BY DEF one
<1> HIDE DEF new
<1>7. C!TypeOK'
  BY <1>1, <1>2, <1>5, Zenon DEF C!TypeOK
<1>8. TwoPhases' /\ Listed' /\ CalledOnce' /\ RevokedQuiet'
  BY <1>1, <1>2, Zenon DEF TwoPhases, Listed, CalledOnce, RevokedQuiet
<1>9. c \notin Gone /\ calls[c] = <<>>
  BY <1>1, Zenon DEF Listed
<1>10. HonestFrames'
  <2>1. ASSUME NEW u \in Threads, NEW i \in DOMAIN stack'[u] PROVE Honest(stack[u][i], reason, C!RangeOf(order), Gone, calls)'
    <3>1. CASE i \in DOMAIN stack[u] /\ stack'[u][i] = stack[u][i]
      <4>1. Honest(stack[u][i], reason, C!RangeOf(order), Gone, calls)
        BY <3>1, Zenon DEF HonestFrames
      <4>2. Honest(stack[u][i], reason, C!RangeOf(order)', Gone, calls)
        BY ONLY <1>2, <4>1, Zenon DEF Honest
      <4> QED BY <1>1, <3>1, <4>2, Zenon
    <3>2. CASE stack'[u][i] = new
      <4>1. Honest(new, reason, C!RangeOf(order)', Gone, calls)
        BY ONLY <1>2, <1>6, <1>9, Zenon DEF Honest
      <4> QED BY <1>1, <3>2, <4>1, Zenon
    <3> QED BY <1>5, <2>1, <3>1, <3>2, Zenon
  <2> QED BY <2>1, Zenon DEF HonestFrames
<1>11. OnePlace'
  <2>1. \A u \in Threads : \A i \in DOMAIN stack[u] : \A k \in DOMAIN stack[u][i].rest : stack[u][i].rest[k] # c
    BY <1>1, Zenon DEF HonestFrames, Honest
  <2>2. \A k \in DOMAIN new.rest : k = 1 /\ new.rest[k] = c
    BY ONLY <1>6, Zenon
  <2>3. OnePlace
    BY Zenon
  <2> SUFFICES ASSUME NEW u \in Threads, NEW v \in Threads,
                      NEW i \in DOMAIN stack'[u], NEW j \in DOMAIN stack'[v],
                      NEW k \in DOMAIN stack'[u][i].rest, NEW l \in DOMAIN stack'[v][j].rest,
                      stack'[u][i].rest[k] = stack'[v][j].rest[l]
               PROVE  u = v /\ i = j /\ k = l
    BY Zenon DEF OnePlace
  <2>4. \/ i \in DOMAIN stack[u] /\ stack'[u][i] = stack[u][i]
        \/ u = t /\ i = Len(stack[t]) + 1 /\ stack'[u][i] = new
    BY <1>5, Zenon
  <2>5. \/ j \in DOMAIN stack[v] /\ stack'[v][j] = stack[v][j]
        \/ v = t /\ j = Len(stack[t]) + 1 /\ stack'[v][j] = new
    BY <1>5, Zenon
  <2>6. CASE /\ u = t /\ i = Len(stack[t]) + 1 /\ stack'[u][i] = new
             /\ v = t /\ j = Len(stack[t]) + 1 /\ stack'[v][j] = new
    <3>1. k \in DOMAIN new.rest /\ l \in DOMAIN new.rest
      BY <2>6
    <3>2. k = 1 /\ l = 1
      BY <2>2, <3>1, Zenon
    <3> QED BY ONLY <2>6, <3>2, ZenonT(60)
  <2>7. CASE stack'[u][i] = new /\ j \in DOMAIN stack[v] /\ stack'[v][j] = stack[v][j]
    BY <2>1, <2>2, <2>7, ZenonT(60)
  <2>8. CASE stack'[v][j] = new /\ i \in DOMAIN stack[u] /\ stack'[u][i] = stack[u][i]
    BY <2>1, <2>2, <2>8, Zenon
  <2>9. CASE /\ i \in DOMAIN stack[u] /\ stack'[u][i] = stack[u][i]
             /\ j \in DOMAIN stack[v] /\ stack'[v][j] = stack[v][j]
    <3>1. /\ k \in DOMAIN stack[u][i].rest /\ l \in DOMAIN stack[v][j].rest
          /\ stack[u][i].rest[k] = stack[v][j].rest[l]
      BY <2>9, Zenon
    <3> QED BY ONLY <2>3, <2>9, <3>1 DEF OnePlace
  <2> QED BY <2>4, <2>5, <2>6, <2>7, <2>8, <2>9, Zenon
<1> QED BY <1>7, <1>8, <1>10, <1>11, Zenon

\* A registration is given up.
LEMMA UnregisterKeeps ==
  ASSUME CancelInv, NEW t \in Threads, NEW c \in Slots, C!Unregister(t, c)
  PROVE  CancelInv'
<1> USE DEF CancelInv
<1>0. /\ handles' = handles \ {c} /\ revoked' = revoked \cup (registered \cap {c})
      /\ UNCHANGED <<requested, reason, stack, calls, abandoned, order>>
  BY Zenon DEF C!Unregister
<1>1. /\ handles' = handles \ {c} /\ Gone' = Gone \cup (registered \cap {c})
      /\ revoked' \in SUBSET Slots /\ UNCHANGED <<requested, reason, stack, calls, abandoned, order>>
  BY <1>0 DEF Gone, C!TypeOK
<1>2. CASE c \notin registered
  <2>1. UNCHANGED <<registered, callbacks>> /\ Gone' = Gone
    BY <1>1, <1>2, Zenon DEF C!Unregister
  <2>2. C!TypeOK'
    BY <1>1, <2>1, Zenon DEF C!TypeOK
  <2>3. TwoPhases' /\ Listed' /\ CalledOnce' /\ RevokedQuiet'
    BY <1>1, <2>1 DEF TwoPhases, Listed, CalledOnce, RevokedQuiet, C!RangeOf
  <2>4. HonestFrames' /\ OnePlace'
    <3>1. C!RangeOf(order)' = C!RangeOf(order)
      BY <1>1 DEF C!RangeOf
    <3>2. HonestFrames'
      BY <1>1, <2>1, <3>1, ZenonT(60) DEF HonestFrames
    <3>3. OnePlace'
      BY <1>1 DEF OnePlace
    <3> QED BY <3>2, <3>3, Zenon
  <2> QED BY <2>2, <2>3, <2>4, Zenon
<1>3. CASE c \in registered
  <2> DEFINE P == {k \in DOMAIN callbacks : callbacks[k] # c}
  <2>1. registered' = registered \ {c} /\ Gone' = Gone \cup {c}
    BY <1>1, <1>3, Zenon DEF C!Unregister
  <2>2. callbacks' \in C!Kept(callbacks, P)
    BY <1>3, Zenon DEF C!Unregister
  <2>3. callbacks \in Seq(Slots) /\ P \in SUBSET DOMAIN callbacks
    BY Zenon DEF C!TypeOK
  <2>4. callbacks' \in A!Kept(callbacks, P)
    BY <2>2, SameKept, Zenon
  <2>5. \A k : k \in P <=> k \in DOMAIN callbacks /\ callbacks[k] # c
    BY Zenon
  <2> HIDE DEF P
  <2>6. /\ callbacks' \in Seq(Slots)
        /\ \A n \in DOMAIN callbacks' : \E p \in P : callbacks'[n] = callbacks[p]
        /\ \A p \in P : \E n \in DOMAIN callbacks' : callbacks'[n] = callbacks[p]
        /\ \A j, k \in DOMAIN callbacks' : callbacks'[j] = callbacks'[k] => j = k
    <3>1. \A j, k \in DOMAIN callbacks : callbacks[j] = callbacks[k] => j = k
      BY Zenon DEF Listed
    <3> QED BY ONLY <2>3, <2>4, <3>1, KeptFacts
  <2>7. ~requested
    BY <1>3 DEF TwoPhases, Listed, C!TypeOK
  <2>8. C!TypeOK'
    BY <1>1, <2>1, <2>6, Zenon DEF C!TypeOK
  <2>9. \A d \in Slots : d \in registered' <=> \E k \in DOMAIN callbacks' : callbacks'[k] = d
    <3>1. \A d \in Slots : d \in registered <=> \E k \in DOMAIN callbacks : callbacks[k] = d
      BY Zenon DEF Listed
    <3>2. ASSUME NEW d \in registered' PROVE \E k \in DOMAIN callbacks' : callbacks'[k] = d
      <4>1. d \in Slots /\ d \in registered /\ d # c
        BY <2>1, <2>8, Zenon DEF C!TypeOK
      <4>2. PICK k \in DOMAIN callbacks : callbacks[k] = d
        BY <3>1, <4>1, Zenon
      <4> QED BY <2>5, <2>6, <4>1, <4>2, Zenon
    <3>3. ASSUME NEW k \in DOMAIN callbacks' PROVE callbacks'[k] \in registered'
      <4>1. PICK j \in P : callbacks'[k] = callbacks[j]
        BY <2>6, Zenon
      <4>2. j \in DOMAIN callbacks /\ callbacks[j] # c
        BY <2>5, <4>1, Zenon
      <4>3. callbacks[j] \in Slots
        BY ONLY <2>3, <4>2
      <4> QED BY <2>1, <3>1, <4>1, <4>2, <4>3, Zenon
    <3> QED BY <3>2, <3>3, Zenon
  <2>10. Listed'
    BY <1>1, <1>3, <2>1, <2>6, <2>9 DEF Listed, C!RangeOf
  <2>11. TwoPhases' /\ CalledOnce' /\ RevokedQuiet'
    BY <1>1, <2>1, <2>7, Zenon DEF TwoPhases, CalledOnce, RevokedQuiet
  <2>12. \A u \in Threads : stack'[u] = <<>> /\ DOMAIN stack'[u] = {}
    BY <1>1, <2>7 DEF TwoPhases
  <2>13. HonestFrames' /\ OnePlace'
    BY <2>12, Zenon DEF HonestFrames, OnePlace
  <2> QED BY <2>8, <2>10, <2>11, <2>13, Zenon
<1> QED BY <1>2, <1>3, Zenon

\* The first request selects the registered callbacks.
LEMMA RequestKeeps ==
  ASSUME CancelInv, NEW t \in Threads, NEW r \in Reasons, C!RequestCancellation(t, r)
  PROVE  CancelInv'
<1> USE DEF CancelInv
<1> DEFINE P == {k \in DOMAIN callbacks : callbacks[k] \in registered}
<1>1. /\ ~requested /\ requested' = TRUE /\ reason' = r
      /\ registered' = registered \ C!RangeOf(callbacks) /\ callbacks' = <<>>
      /\ UNCHANGED <<handles, calls, revoked, abandoned, Gone, order>>
  BY Zenon DEF C!RequestCancellation, Gone
<1>2. PICK rest \in C!Kept(callbacks, P) : C!Push(t, rest, r)
  BY Zenon DEF C!RequestCancellation
<1>3. callbacks \in Seq(Slots) /\ P \in SUBSET DOMAIN callbacks
  BY Zenon DEF C!TypeOK
<1>4. rest \in A!Kept(callbacks, P)
  BY <1>2, SameKept, Zenon
<1>5. \A k : k \in P <=> k \in DOMAIN callbacks /\ callbacks[k] \in registered
  BY Zenon
<1> HIDE DEF P
<1>6. /\ rest \in Seq(Slots)
      /\ \A n \in DOMAIN rest : \E p \in P : rest[n] = callbacks[p]
      /\ \A j, k \in DOMAIN rest : rest[j] = rest[k] => j = k
  <2>1. \A j, k \in DOMAIN callbacks : callbacks[j] = callbacks[k] => j = k
    BY Zenon DEF Listed
  <2> QED BY ONLY <1>3, <1>4, <2>1, KeptFacts
<1> DEFINE new == [rest |-> rest, running |-> FALSE, reason |-> r]
<1>7. C!Push(t, rest, r)
  BY <1>2, ZenonT(60)
<1>8. /\ stack' \in [Threads -> Seq(C!Frame)]
      /\ \A u \in Threads : \A i \in DOMAIN stack'[u] :
           \/ i \in DOMAIN stack[u] /\ stack'[u][i] = stack[u][i]
           \/ u = t /\ i = Len(stack[t]) + 1 /\ stack'[u][i] = new
  BY <1>6, <1>7, PushFacts
<1>9. new.rest = rest /\ new.running = FALSE /\ new.reason = r
  BY Zenon
<1> HIDE DEF new
<1>10. \A u \in Threads : DOMAIN stack[u] = {}
  BY <1>1 DEF TwoPhases
<1>11. \A u \in Threads : \A i \in DOMAIN stack'[u] :
         u = t /\ i = Len(stack[t]) + 1 /\ stack'[u][i] = new
  BY <1>8, <1>10, Zenon
<1>12. \A k \in DOMAIN rest : rest[k] \in Slots /\ rest[k] \in registered
  BY <1>5, <1>6
<1>13. callbacks' \in Seq(Slots) /\ DOMAIN callbacks' = {}
  <2>1. callbacks' = <<>>
    BY <1>1, Zenon
  <2> QED BY ONLY <2>1
<1>14. registered' = {}
  BY <1>1 DEF Listed, C!TypeOK, C!RangeOf
<1>15. C!TypeOK'
  BY <1>1, <1>8, <1>13, <1>14, Zenon DEF C!TypeOK
<1>16. TwoPhases' /\ CalledOnce' /\ RevokedQuiet'
  BY <1>1, Zenon DEF TwoPhases, CalledOnce, RevokedQuiet
<1>17. Listed'
  BY <1>1, <1>13, <1>14 DEF Listed, C!RangeOf
<1>18. HonestFrames'
  <2>1. \A k \in DOMAIN rest : rest[k] \in C!RangeOf(order)' /\ rest[k] \notin Gone' /\ calls'[rest[k]] = <<>>
    BY <1>1, <1>12 DEF Listed, TwoPhases, C!RangeOf
  <2>2. Honest(new, reason', C!RangeOf(order)', Gone', calls')
    BY <1>1, <1>9, <2>1, ZenonT(60) DEF Honest
  <2> QED BY <1>11, <2>2, ZenonT(60) DEF HonestFrames
<1>19. OnePlace'
  BY <1>6, <1>9, <1>11 DEF OnePlace
<1> QED BY <1>15, <1>16, <1>17, <1>18, <1>19, Zenon

\* A loop calls its next callback.
LEMMA InvokeKeeps ==
  ASSUME CancelInv, NEW t \in Threads, C!Invoke(t)
  PROVE  CancelInv'
<1> USE DEF CancelInv
<1> DEFINE n == Len(stack[t])
           top == stack[t][n]
           c == Head(top.rest)
           frame == [top EXCEPT !.running = TRUE]
<1>1. /\ stack[t] # <<>> /\ ~top.running /\ top.rest # <<>> /\ C!SetTop(t, frame)
      /\ calls' = [calls EXCEPT ![c] = Append(calls[c], top.reason)]
      /\ UNCHANGED <<requested, reason, callbacks, registered, handles, revoked, abandoned, Gone, order>>
  BY ZenonT(60) DEF C!Invoke, C!Top, Gone
<1>2. n \in DOMAIN stack[t]
  BY <1>1 DEF C!TypeOK
<1>3. top \in C!Frame /\ top.rest \in Seq(Slots) /\ top.reason \in Reasons
  BY <1>2, FrameFacts, Zenon
<1>4. frame \in C!Frame /\ frame.rest = top.rest /\ frame.running = TRUE /\ frame.reason = top.reason
  BY <1>3, ZenonT(60) DEF C!Frame
<1>5. 1 \in DOMAIN top.rest /\ c = top.rest[1] /\ c \in Slots
  BY <1>1, <1>3
<1> HIDE DEF frame, c
<1>6. /\ stack' \in [Threads -> Seq(C!Frame)]
      /\ \A u \in Threads : DOMAIN stack'[u] = DOMAIN stack[u]
      /\ stack'[t][n] = frame
      /\ \A u \in Threads : \A i \in DOMAIN stack[u] : u # t \/ i # n => stack'[u][i] = stack[u][i]
  BY <1>1, <1>4, SetTopFacts, Zenon
<1>7. calls[c] = <<>> /\ top.reason = reason /\ c \in C!RangeOf(order) /\ c \notin Gone
  BY <1>1, <1>2, <1>5, ZenonT(60) DEF HonestFrames, Honest
<1>8. calls'[c] = <<reason>> /\ \A d \in Slots : d # c => calls'[d] = calls[d]
  <2>1. Append(calls[c], top.reason) = <<reason>>
    BY ONLY <1>7
  <2>2. calls = [d \in Slots |-> calls[d]]
    BY Zenon DEF C!TypeOK
  <2> QED BY <1>1, <1>5, <2>1, <2>2, Zenon
<1>9. calls' \in [Slots -> Seq(Reasons)]
  BY <1>1, <1>3, <1>5 DEF C!TypeOK
<1>10. requested
  BY <1>1, Zenon DEF TwoPhases
<1>11. C!TypeOK'
  BY <1>1, <1>6, <1>9, Zenon DEF C!TypeOK
<1>12. TwoPhases'
  BY <1>1, <1>10, ZenonT(60) DEF TwoPhases
<1>13. Listed'
  BY <1>1, <1>5, <1>7, <1>8 DEF Listed, C!RangeOf
<1>14. CalledOnce' /\ RevokedQuiet'
  BY <1>1, <1>7, <1>8, <1>10, Zenon DEF CalledOnce, RevokedQuiet, Gone, C!TypeOK
<1>15. \A u \in Threads : \A i \in DOMAIN stack[u] :
         stack'[u][i].rest = stack[u][i].rest /\ stack'[u][i].reason = stack[u][i].reason
  BY <1>4, <1>6, ZenonT(60)
<1>16. OnePlace'
  <2>1. \A u \in Threads : DOMAIN stack'[u] = DOMAIN stack[u]
    BY <1>6, Zenon
  <2> SUFFICES ASSUME NEW v \in Threads, NEW u \in Threads, NEW i \in DOMAIN stack'[v], NEW j \in DOMAIN stack'[u],
                      NEW k \in DOMAIN stack'[v][i].rest, NEW l \in DOMAIN stack'[u][j].rest,
                      stack'[v][i].rest[k] = stack'[u][j].rest[l]
               PROVE  v = u /\ i = j /\ k = l
    BY Zenon DEF OnePlace
  <2>2. i \in DOMAIN stack[v] /\ j \in DOMAIN stack[u]
    BY <2>1, Zenon
  <2>3. stack'[v][i].rest = stack[v][i].rest /\ stack'[u][j].rest = stack[u][j].rest
    BY <1>15, <2>2, Zenon
  <2>4. k \in DOMAIN stack[v][i].rest /\ l \in DOMAIN stack[u][j].rest
        /\ stack[v][i].rest[k] = stack[u][j].rest[l]
    BY <2>3, Zenon
  <2>5. OnePlace /\ v \in Threads /\ u \in Threads
    BY Zenon
  <2> QED BY ONLY <2>2, <2>4, <2>5 DEF OnePlace
<1>17. HonestFrames'
  <2> SUFFICES ASSUME NEW u \in Threads, NEW i \in DOMAIN stack[u]
               PROVE  Honest(stack[u][i], reason, C!RangeOf(order), Gone, calls)'
    BY <1>6, Zenon DEF HonestFrames
  <2>1. CASE u = t /\ i = n
    <3>1. \A k \in DOMAIN top.rest : k # 1 => top.rest[k] # c /\ top.rest[k] \in Slots
      BY <1>2, <1>3, <1>5 DEF OnePlace
    <3>2. \A k \in DOMAIN top.rest :
            /\ top.rest[k] \in C!RangeOf(order) /\ top.rest[k] \notin Gone
            /\ calls[top.rest[k]] = <<>>
      BY <1>1, <1>2, ZenonT(60) DEF HonestFrames, Honest
    <3>3. \A k \in DOMAIN top.rest : calls'[top.rest[k]] = IF k = 1 THEN <<reason>> ELSE <<>>
      BY <1>5, <1>8, <3>1, <3>2, Zenon
    <3>4. stack'[u][i] = frame
      BY <1>6, <2>1, Zenon
    <3> HIDE DEF top, n
    <3>5. Honest(frame, reason, C!RangeOf(order), Gone, calls')
      BY ONLY <1>1, <1>4, <1>7, <3>2, <3>3, Zenon DEF Honest
    <3>9. order' = order /\ reason' = reason /\ Gone' = Gone
      BY <1>1, Zenon
    <3>10. C!RangeOf(order)' = C!RangeOf(order)
      BY ONLY <3>9 DEF C!RangeOf
    <3> QED BY ONLY <3>4, <3>5, <3>9, <3>10, Zenon
  <2>2. CASE u # t \/ i # n
    <3>1. \A k \in DOMAIN stack[u][i].rest : stack[u][i].rest[k] # c /\ stack[u][i].rest[k] \in Slots
      BY <1>2, <1>5, <2>2, FrameFacts DEF OnePlace
    <3>2. stack'[u][i] = stack[u][i]
      BY <1>6, <2>2, Zenon
    <3>3. Honest(stack[u][i], reason, C!RangeOf(order), Gone, calls)
      BY Zenon DEF HonestFrames
    <3>4. Honest(stack[u][i], reason, C!RangeOf(order), Gone, calls')
      BY ONLY <1>8, <3>1, <3>3, Zenon DEF Honest
    <3>9. order' = order /\ reason' = reason /\ Gone' = Gone
      BY <1>1, Zenon
    <3>10. C!RangeOf(order)' = C!RangeOf(order)
      BY ONLY <3>9 DEF C!RangeOf
    <3> QED BY ONLY <3>2, <3>4, <3>9, <3>10, Zenon
  <2> QED BY <2>1, <2>2, Zenon
<1> QED BY <1>11, <1>12, <1>13, <1>14, <1>16, <1>17, Zenon

\* A callback returns to its loop.
LEMMA CallbackReturnsKeeps ==
  ASSUME CancelInv, NEW t \in Threads, C!CallbackReturns(t)
  PROVE  CancelInv'
<1> USE DEF CancelInv
<1> DEFINE n == Len(stack[t])
           top == stack[t][n]
           frame == [top EXCEPT !.running = FALSE, !.rest = Tail(top.rest)]
<1>1. /\ stack[t] # <<>> /\ top.running /\ C!SetTop(t, frame)
      /\ UNCHANGED <<requested, reason, callbacks, registered, handles, calls, revoked, abandoned, Gone, order>>
  BY Zenon DEF C!CallbackReturns, C!Top, Gone
<1>2. n \in DOMAIN stack[t]
  BY <1>1 DEF C!TypeOK
<1>3. top \in C!Frame /\ top.rest \in Seq(Slots) /\ top.reason \in Reasons
  BY <1>2, FrameFacts, Zenon
<1>4. top.rest # <<>> /\ Tail(top.rest) \in Seq(Slots)
  BY <1>1, <1>2, <1>3 DEF HonestFrames, Honest
<1>5. frame \in C!Frame /\ frame.rest = Tail(top.rest) /\ frame.running = FALSE /\ frame.reason = top.reason
  BY <1>3, <1>4, Zenon DEF C!Frame
<1>6. \A k \in DOMAIN frame.rest : k + 1 \in DOMAIN top.rest /\ k + 1 # 1 /\ k \in Nat /\ frame.rest[k] = top.rest[k + 1]
  BY <1>3, <1>4, <1>5
<1> HIDE DEF frame
<1>7. /\ stack' \in [Threads -> Seq(C!Frame)]
      /\ \A u \in Threads : DOMAIN stack'[u] = DOMAIN stack[u]
      /\ stack'[t][n] = frame
      /\ \A u \in Threads : \A i \in DOMAIN stack[u] : u # t \/ i # n => stack'[u][i] = stack[u][i]
  BY <1>1, <1>5, SetTopFacts, Zenon
<1>8. C!TypeOK'
  BY <1>1, <1>7, Zenon DEF C!TypeOK
<1>9. requested
  BY <1>1, ZenonT(60) DEF TwoPhases
<1>10. TwoPhases' /\ Listed' /\ CalledOnce' /\ RevokedQuiet'
  <2>1. C!RangeOf(order)' = C!RangeOf(order)
    BY <1>1 DEF C!RangeOf
  <2>2. TwoPhases' /\ CalledOnce' /\ RevokedQuiet'
    BY <1>1, <1>9, Zenon DEF TwoPhases, CalledOnce, RevokedQuiet
  <2>3. Listed'
    BY <1>1, <2>1, Zenon DEF Listed
  <2> QED BY <2>2, <2>3, Zenon
<1>11. HonestFrames'
  <2> SUFFICES ASSUME NEW u \in Threads, NEW i \in DOMAIN stack[u]
               PROVE  Honest(stack[u][i], reason, C!RangeOf(order), Gone, calls)'
    BY <1>7, Zenon DEF HonestFrames
  <2>1. CASE u = t /\ i = n
    <3>1. \A k \in DOMAIN top.rest :
            /\ top.rest[k] \in C!RangeOf(order) /\ top.rest[k] \notin Gone
            /\ k # 1 => calls[top.rest[k]] = <<>>
      BY <1>2 DEF HonestFrames, Honest
    <3>2. top.reason = reason
      BY <1>2, Zenon DEF HonestFrames, Honest
    <3>3. stack'[u][i] = frame
      BY <1>7, <2>1, Zenon
    <3> HIDE DEF top, n
    <3>4. Honest(frame, reason, C!RangeOf(order), Gone, calls)
      BY ONLY <1>5, <1>6, <3>1, <3>2, ZenonT(60) DEF Honest
    <3>9. order' = order /\ reason' = reason /\ Gone' = Gone
      BY <1>1, Zenon
    <3>10. C!RangeOf(order)' = C!RangeOf(order)
      BY ONLY <3>9 DEF C!RangeOf
    <3> QED BY ONLY <3>3, <3>4, <1>1, <3>9, <3>10, Zenon
  <2>2. CASE u # t \/ i # n
    <3>1. Honest(stack[u][i], reason, C!RangeOf(order), Gone, calls) /\ stack'[u][i] = stack[u][i]
      BY <1>7, <2>2, ZenonT(60) DEF HonestFrames
    <3> QED BY ONLY <1>1, <3>1 DEF C!RangeOf
  <2> QED BY <2>1, <2>2, Zenon
<1>12. OnePlace'
  <2>1. \A u \in Threads : \A i \in DOMAIN stack'[u] : \A k \in DOMAIN stack'[u][i].rest :
          IF u = t /\ i = n THEN /\ k + 1 \in DOMAIN stack[u][i].rest /\ k \in Nat
                                 /\ stack'[u][i].rest[k] = stack[u][i].rest[k + 1]
                            ELSE k \in DOMAIN stack[u][i].rest /\ stack'[u][i].rest[k] = stack[u][i].rest[k]
    BY <1>5, <1>6, <1>7, ZenonT(60)
  <2> SUFFICES ASSUME NEW u \in Threads, NEW v \in Threads,
                      NEW i \in DOMAIN stack'[u], NEW j \in DOMAIN stack'[v],
                      NEW k \in DOMAIN stack'[u][i].rest, NEW l \in DOMAIN stack'[v][j].rest,
                      stack'[u][i].rest[k] = stack'[v][j].rest[l]
               PROVE  u = v /\ i = j /\ k = l
    BY Zenon DEF OnePlace
  <2> DEFINE at(w, h, m) == IF w = t /\ h = n THEN m + 1 ELSE m
  <2>2. /\ at(u, i, k) \in DOMAIN stack[u][i].rest
        /\ stack'[u][i].rest[k] = stack[u][i].rest[at(u, i, k)]
        /\ u = t /\ i = n => k \in Nat
    BY <2>1, Zenon
  <2>3. /\ at(v, j, l) \in DOMAIN stack[v][j].rest
        /\ stack'[v][j].rest[l] = stack[v][j].rest[at(v, j, l)]
        /\ v = t /\ j = n => l \in Nat
    BY <2>1, ZenonT(60)
  <2> HIDE DEF at
  <2>4. u = v /\ i = j /\ at(u, i, k) = at(v, j, l)
    <3>1. i \in DOMAIN stack[u] /\ j \in DOMAIN stack[v]
      BY <1>7, Zenon
    <3>2. stack[u][i].rest[at(u, i, k)] = stack[v][j].rest[at(v, j, l)]
      BY <2>2, <2>3, Zenon
    <3>3. OnePlace
      BY Zenon
    <3> HIDE DEF n
    <3> QED BY ONLY <2>2, <2>3, <3>1, <3>2, <3>3 DEF OnePlace
  <2> HIDE DEF n
  <2> QED BY ONLY <2>2, <2>3, <2>4 DEF at
<1> QED BY <1>8, <1>10, <1>11, <1>12, Zenon

\* A call is left.  The callbacks D it still had to invoke are in no other
\* frame and were not called.
LEMMA FrameLeft ==
  ASSUME CancelInv, NEW t \in Threads, stack[t] # <<>>, NEW D \in SUBSET Slots,
         stack' = [stack EXCEPT ![t] = SubSeq(stack[t], 1, Len(stack[t]) - 1)],
         abandoned' = abandoned \cup D,
         UNCHANGED <<requested, reason, callbacks, registered, handles, calls, revoked, order>>,
         \A d \in D : calls[d] = <<>> /\ d \in C!RangeOf(order),
         \A u \in Threads : \A i \in DOMAIN stack[u] : \A k \in DOMAIN stack[u][i].rest :
           stack[u][i].rest[k] \in D => u = t /\ i = Len(stack[t])
  PROVE  CancelInv'
<1> USE DEF CancelInv
<1>1. /\ stack[t] # <<>>
      /\ stack' = [stack EXCEPT ![t] = SubSeq(stack[t], 1, Len(stack[t]) - 1)]
      /\ UNCHANGED <<requested, reason, callbacks, registered, handles, calls, revoked, order>>
      /\ abandoned' \in SUBSET Slots /\ Gone' = Gone \cup D
  BY DEF Gone, C!TypeOK
<1> DEFINE low == SubSeq(stack[t], 1, Len(stack[t]) - 1)
<1>2. stack \in [Threads -> Seq(C!Frame)] /\ stack[t] \in Seq(C!Frame)
  BY ZenonT(60) DEF C!TypeOK
<1>3. low \in Seq(C!Frame) /\ \A i \in DOMAIN low : i \in DOMAIN stack[t] /\ low[i] = stack[t][i] /\ i # Len(stack[t])
  BY <1>1, <1>2
<1> HIDE DEF low
<1>4. stack' = [stack EXCEPT ![t] = low]
  BY <1>1, Zenon DEF low
<1>5. /\ stack' \in [Threads -> Seq(C!Frame)]
      /\ \A u \in Threads : \A i \in DOMAIN stack'[u] :
           i \in DOMAIN stack[u] /\ stack'[u][i] = stack[u][i] /\ (u # t \/ i # Len(stack[t]))
  BY <1>2, <1>3, <1>4, Zenon
<1>6. requested
  BY <1>1, Zenon DEF TwoPhases
<1>7. C!TypeOK'
  BY <1>1, <1>5, ZenonT(60) DEF C!TypeOK
<1>8. TwoPhases' /\ Listed' /\ CalledOnce' /\ RevokedQuiet'
  <2>1. C!RangeOf(order)' = C!RangeOf(order)
    BY <1>1 DEF C!RangeOf
  <2>2. TwoPhases' /\ CalledOnce' /\ RevokedQuiet'
    BY <1>1, <1>6, Zenon DEF TwoPhases, CalledOnce, RevokedQuiet
  <2>3. registered' = {}
    BY <1>1, <1>6 DEF TwoPhases, Listed, C!TypeOK
  <2>4. Listed'
    BY <1>1, <2>1, <2>3, Zenon DEF Listed
  <2> QED BY <2>2, <2>4, Zenon
<1>9. HonestFrames'
  <2> SUFFICES ASSUME NEW u \in Threads, NEW i \in DOMAIN stack'[u]
               PROVE  Honest(stack[u][i], reason, C!RangeOf(order), Gone, calls)'
    BY Zenon DEF HonestFrames
  <2>1. i \in DOMAIN stack[u] /\ stack'[u][i] = stack[u][i] /\ (u # t \/ i # Len(stack[t]))
    BY <1>5, Zenon
  <2>2. Honest(stack[u][i], reason, C!RangeOf(order), Gone, calls)
    BY <2>1, ZenonT(60) DEF HonestFrames
  <2>3. \A k \in DOMAIN stack[u][i].rest : stack[u][i].rest[k] \notin D
    BY <2>1, Zenon
  <2>4. Honest(stack[u][i], reason, C!RangeOf(order), Gone', calls)
    BY ONLY <1>1, <2>2, <2>3, ZenonT(60) DEF Honest
  <2> QED BY ONLY <1>1, <2>1, <2>4 DEF C!RangeOf
<1>10. OnePlace'
  BY <1>5 DEF OnePlace
<1> QED BY <1>7, <1>8, <1>9, <1>10, Zenon

\* A loop is done.
LEMMA CallReturnsKeeps ==
  ASSUME CancelInv, NEW t \in Threads, C!CallReturns(t)
  PROVE  CancelInv'
<1>1. /\ stack[t] # <<>>
      /\ stack' = [stack EXCEPT ![t] = SubSeq(stack[t], 1, Len(stack[t]) - 1)]
      /\ UNCHANGED <<requested, reason, callbacks, registered, handles, calls, revoked, order>>
      /\ abandoned' = abandoned \cup {} /\ {} \in SUBSET Slots
  BY DEF C!CallReturns
<1> QED BY <1>1, FrameLeft, Zenon

\* A callback throws, and its loop is left.
LEMMA CallbackThrowsKeeps ==
  ASSUME CancelInv, NEW t \in Threads, C!CallbackThrows(t)
  PROVE  CancelInv'
<1> USE DEF CancelInv
<1> DEFINE n == Len(stack[t])
           top == stack[t][n]
           D == C!RangeOf(Tail(top.rest))
<1>1. /\ stack[t] # <<>> /\ top.running
      /\ stack' = [stack EXCEPT ![t] = SubSeq(stack[t], 1, Len(stack[t]) - 1)]
      /\ abandoned' = abandoned \cup D
      /\ UNCHANGED <<requested, reason, callbacks, registered, handles, calls, revoked, order>>
  BY Zenon DEF C!CallbackThrows, C!Top
<1>2. n \in DOMAIN stack[t]
  BY <1>1 DEF C!TypeOK
<1>3. top.rest \in Seq(Slots)
  BY <1>2, FrameFacts, Zenon
<1>4. top.rest # <<>>
  BY <1>1, <1>2, <1>3 DEF HonestFrames, Honest
<1>5. \A d \in D : \E k \in DOMAIN top.rest : k # 1 /\ d = top.rest[k]
  BY <1>3, <1>4 DEF C!RangeOf
<1> HIDE DEF D
<1>6. \A k \in DOMAIN top.rest : top.rest[k] \in Slots
  BY <1>3
<1>7. D \in SUBSET Slots
  BY <1>5, <1>6, Zenon
<1>8. \A k \in DOMAIN top.rest :
        top.rest[k] \in C!RangeOf(order) /\ (k # 1 => calls[top.rest[k]] = <<>>)
  BY <1>2 DEF HonestFrames, Honest
<1>9. \A d \in D : calls[d] = <<>> /\ d \in C!RangeOf(order)
  <2> TAKE d \in D
  <2>1. PICK k \in DOMAIN top.rest : k # 1 /\ d = top.rest[k]
    BY <1>5, Zenon
  <2>2. top.rest[k] \in C!RangeOf(order) /\ calls[top.rest[k]] = <<>>
    BY ONLY <1>8, <2>1, Zenon
  <2> QED BY ONLY <2>1, <2>2
<1>10. \A u \in Threads : \A i \in DOMAIN stack[u] : \A k \in DOMAIN stack[u][i].rest :
         stack[u][i].rest[k] \in D => u = t /\ i = Len(stack[t])
  <2> SUFFICES ASSUME NEW u \in Threads, NEW i \in DOMAIN stack[u], NEW k \in DOMAIN stack[u][i].rest,
                      stack[u][i].rest[k] \in D
               PROVE  u = t /\ i = Len(stack[t])
    BY Zenon
  <2>1. PICK l \in DOMAIN top.rest : stack[u][i].rest[k] = top.rest[l]
    BY <1>5, Zenon
  <2>2. OnePlace
    BY Zenon
  <2> QED BY ONLY <1>2, <2>1, <2>2, t \in Threads, u \in Threads, i \in DOMAIN stack[u],
                  k \in DOMAIN stack[u][i].rest
          DEF OnePlace
<1> QED BY <1>1, <1>7, <1>9, <1>10, FrameLeft, Zenon

\* Registering early or late, unregistering, requesting and the loops that call
\* the callbacks keep it, from whatever thread and however deeply nested.
LEMMA CancelStep == CancelInv /\ [C!Next]_(C!vars) => CancelInv'
<1> SUFFICES ASSUME CancelInv, [C!Next]_(C!vars) PROVE CancelInv'
  BY Zenon
<1> USE DEF CancelInv
<1>1. ASSUME NEW t \in Threads, NEW c \in Slots, C!Register(t, c) PROVE CancelInv'
  BY <1>1, RegisterKeeps, Zenon
<1>2. ASSUME NEW t \in Threads, NEW c \in Slots, C!RegisterLate(t, c) PROVE CancelInv'
  BY <1>2, RegisterLateKeeps, Zenon
<1>3. ASSUME NEW t \in Threads, NEW c \in Slots, C!Unregister(t, c) PROVE CancelInv'
  BY <1>3, UnregisterKeeps, Zenon
<1>4. ASSUME NEW t \in Threads, NEW r \in Reasons, C!RequestCancellation(t, r) PROVE CancelInv'
  BY <1>4, RequestKeeps, Zenon
<1>5. ASSUME NEW t \in Threads, C!Invoke(t) PROVE CancelInv'
  BY <1>5, InvokeKeeps, Zenon
<1>6. ASSUME NEW t \in Threads, C!CallbackReturns(t) PROVE CancelInv'
  BY <1>6, CallbackReturnsKeeps, Zenon
<1>7. ASSUME NEW t \in Threads, C!CallReturns(t) PROVE CancelInv'
  BY <1>7, CallReturnsKeeps, Zenon
<1>8. ASSUME NEW t \in Threads, C!CallbackThrows(t) PROVE CancelInv'
  BY <1>8, CallbackThrowsKeeps, Zenon
<1>9. CASE UNCHANGED C!vars
  <2>1. UNCHANGED <<requested, reason, callbacks, registered, handles, stack, calls, revoked, abandoned, Gone, order>>
    BY <1>9, ZenonT(60) DEF C!vars, Gone
  <2>2. C!TypeOK' /\ TwoPhases' /\ Listed' /\ CalledOnce' /\ RevokedQuiet'
    BY <2>1 DEF C!TypeOK, TwoPhases, Listed, CalledOnce, RevokedQuiet, C!RangeOf
  <2>3. HonestFrames' /\ OnePlace'
    <3>1. C!RangeOf(order)' = C!RangeOf(order)
      BY <2>1 DEF C!RangeOf
    <3>2. HonestFrames'
      BY <2>1, <3>1 DEF HonestFrames
    <3>3. OnePlace'
      BY <2>1 DEF OnePlace
    <3> QED BY <3>2, <3>3, Zenon
  <2> QED BY <2>2, <2>3
<1> QED BY <1>1, <1>2, <1>3, <1>4, <1>5, <1>6, <1>7, <1>8, <1>9, Zenon DEF C!Next, C!Step

\* For any number of threads, callbacks and nested calls: a callback is called at
\* most once and with the first reason; one whose unregister took the mutex before
\* the selection, or that an exception left behind, is neither called nor waiting
\* to be called.
THEOREM InvokedOnce == C!Spec => []InvokedOnceUnlessRevoked
<1>1. CancelInv => InvokedOnceUnlessRevoked
  <2> SUFFICES ASSUME CancelInv PROVE InvokedOnceUnlessRevoked
    BY Zenon
  <2>1. \A c \in Gone : c \notin C!Selected
    <3> SUFFICES ASSUME NEW c \in Gone, c \in C!Selected PROVE FALSE
      BY Zenon
    <3>1. PICK t \in Threads : \E i \in DOMAIN stack[t] : c \in C!RangeOf(stack[t][i].rest)
      BY DEF C!Selected, C!RangeOf
    <3>2. PICK i \in DOMAIN stack[t] : c \in C!RangeOf(stack[t][i].rest)
      BY <3>1, Zenon
    <3> QED BY <3>2, ZenonT(60) DEF CancelInv, HonestFrames, Honest, C!RangeOf
  <2> QED BY <2>1, Zenon DEF CancelInv, CalledOnce, RevokedQuiet, Gone, InvokedOnceUnlessRevoked, C!InvokedOnceUnlessRevoked
<1> QED BY <1>1, CancelInit, CancelStep, PTL DEF C!Spec
==============================================================================
