------------------------------- MODULE Epoll -------------------------------
(***************************************************************************)
(* epoll_backend (src/src/backends_epoll_backend.cpp): one registration    *)
(* per descriptor covers reading and writing.                              *)
(***************************************************************************)
EXTENDS Readiness

\* Mutant: EPOLLOUT is not asked for.
RegisterHandle_ReadOnly(h) ==
  /\ Idle /\ V!RegisterHandle(h)
  /\ filters' = filters \cup {[token |-> NewToken(h), kind |-> "read"]}
  /\ UNCHANGED <<ready, woken, lost, events>>

RegisterHandle(h) ==
  /\ Idle /\ V!RegisterHandle(h)
  /\ filters' = filters \cup Both(NewToken(h))
  /\ UNCHANGED <<ready, woken, lost, events>>

\* EPOLL_CTL_DEL no longer finds a descriptor that was closed natively; any
\* other error ends the call before it changed anything.
CloseHandle(t) ==
  /\ Idle /\ V!CloseHandle(t)
  /\ filters' = IF Both(t) \subseteq lost THEN filters ELSE filters \ Both(t)
  /\ UNCHANGED <<ready, woken, lost, events>>

\* One event per registration, with everything that is ready.
Reports ==
  {e \in [token : {f.token : f \in filters}, kinds : SUBSET Kinds \ {{}}] :
     e.kinds = {k \in Kinds : IsReady([token |-> e.token, kind |-> k])}}

PollFetches == PollFetch(Reports) /\ UNCHANGED woken

\* eventfd_read fails.
WakeReadFails == ~Idle /\ Head(events).kinds = {"wake"} /\ PollAborts

Next ==
  \/ \E h \in Handles : RegisterHandle(h) \/ RegisterFails(h, filters)
  \/ \E i \in Ids, shape \in UsedShapes, t \in V!IssuedTokens : Submit(i, shape, t)
  \/ \E i \in Ids : Cancel(i)
  \/ \E t \in V!IssuedTokens : CloseHandle(t)
  \/ \E t \in V!IssuedTokens, kept \in BOOLEAN : NativeClose(t, kept)
  \/ \E size \in DrainSizes : DrainCompletions(size)
  \/ Wake \/ Shutdown
  \/ PollFetches \/ PollEvent \/ WakeReadFails
  \/ \E h \in Handles, k \in Kinds : ReadinessChanges(h, k)

Spec == Init /\ [][Next]_vars

\* The batch fetched has the event of descriptor h.
Fetched(h) ==
  \E n \in DOMAIN events' : events'[n].kinds # {"wake"} /\ events'[n].token = CurrentToken(h)

\* The owner keeps polling, epoll_wait hands out every ready registration in
\* turn, and reading the wake descriptor does not fail for ever.
Fairness ==
  /\ WF_vars(PollEvent)
  /\ \A h \in Handles : SF_vars(PollFetches /\ Fetched(h))
  /\ <>[][~WakeReadFails]_vars

FairSpec == Spec /\ Fairness
==============================================================================
