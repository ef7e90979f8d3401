------------------------------- MODULE Kqueue -------------------------------
(***************************************************************************)
(* kqueue_backend (src/src/backends_kqueue_backend.cpp): a descriptor has  *)
(* a read and a write filter that are added and deleted one after the      *)
(* other, so a call may fail between the two.                              *)
(***************************************************************************)
EXTENDS Readiness

\* EV_ADD on a filter that is still there replaces its cookie.
Replacing(t, ks) ==
  {f \in filters : f.token.handle # t.handle \/ f.kind \notin ks}
    \cup {[token |-> t, kind |-> k] : k \in ks}
Deleting(h, ks) == {f \in filters : f.token.handle # h \/ f.kind \notin ks}

RegisterHandle(h) ==
  /\ Idle /\ V!RegisterHandle(h)
  /\ filters' = Replacing(NewToken(h), Kinds)
  /\ UNCHANGED <<ready, woken, lost, events>>

\* The read filter was added but the write filter was not; deleting the read
\* filter again is attempted and its result ignored.
RegisterHalf(h) ==
  \E left \in {Deleting(h, {"read"}), Replacing(NewToken(h), {"read"})} : RegisterFails(h, left)

CloseHandle(t) ==
  /\ Idle /\ V!CloseHandle(t)
  /\ filters' = Deleting(t.handle, Kinds)
  /\ UNCHANGED <<ready, woken, lost, events>>

\* close_handle deleted the read filter and failed on the write filter: the
\* handle stays registered and close_handle may be called again.
CloseHandleHalf(t) ==
  /\ Idle /\ ~stopped /\ V!IsCurrent(t)
  /\ filters' = Deleting(t.handle, {"read"})
  /\ lost' = lost \cup {[token |-> t, kind |-> "read"]}
  /\ UNCHANGED <<fallback, ready, woken, events>>

\* One event per filter.
Reports == {[token |-> f.token, kinds |-> {f.kind}] : f \in {g \in filters : IsReady(g)}}

\* The wake event is registered with EV_CLEAR: kevent resets it when it hands
\* it out.
PollFetches ==
  /\ PollFetch(Reports)
  /\ woken' = (woken /\ \A n \in DOMAIN events' : events'[n].kinds # {"wake"})

\* An event reports EV_ERROR.
EventFails == ~Idle /\ Head(events).kinds # {"wake"} /\ PollAborts

Next ==
  \/ \E h \in Handles : RegisterHandle(h) \/ RegisterFails(h, filters) \/ RegisterHalf(h)
  \/ \E i \in Ids, shape \in UsedShapes, t \in V!IssuedTokens : Submit(i, shape, t)
  \/ \E i \in Ids : Cancel(i)
  \/ \E t \in V!IssuedTokens : CloseHandle(t) \/ CloseHandleHalf(t) \/ NativeClose(t, FALSE)
  \/ \E size \in DrainSizes : DrainCompletions(size)
  \/ Wake \/ Shutdown
  \/ PollFetches \/ PollEvent \/ EventFails
  \/ \E h \in Handles, k \in Kinds : ReadinessChanges(h, k)

Spec == Init /\ [][Next]_vars

==============================================================================
