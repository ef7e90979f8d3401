------------------------------ MODULE MCTasks ------------------------------
(***************************************************************************)
(* What coroutines are composed of: a chain of tasks, when_any over four   *)
(* children, a scope of four children, or a cancellation source shared by  *)
(* two threads whose callbacks nest three deep.  One of them runs, as      *)
(* scenario says, and the others stay in their initial states.             *)
(***************************************************************************)
EXTENDS Task

CONSTANTS K, NoWinner, ScopeTasks, Threads, Slots, Reasons, MaxDepth

\* NoWinner stands for an empty winner, which no child and no error has.
ASSUME WhenAnyConstants == K \in Nat /\ NoWinner \notin 0..K

VARIABLES
  scenario,
  winner, installed, parentDetached, cancelled, observer, notify, parentQueue, parent, joined,
  taken, published,                                                                 \* WhenAny
  task, children, errors, sink, stopping, spawned, rejected, joinResult,             \* AsyncScope
  requested, reason, callbacks, registered, handles, stack, calls, revoked, abandoned,
  order                                                                              \* Cancellation

whenAnyVars == <<winner, installed, parentDetached, cancelled, observer, notify, parentQueue,
                 parent, joined, taken, published>>
scopeVars == <<task, children, errors, sink, stopping, spawned, rejected, joinResult>>
cancelVars == <<requested, reason, callbacks, registered, handles, stack, calls, revoked,
                abandoned, order>>

W == INSTANCE WhenAny WITH detached <- parentDetached, queue <- parentQueue
A == INSTANCE AsyncScope WITH Tasks <- ScopeTasks, joined <- joinResult
C == INSTANCE Cancellation

MCInit ==
  /\ scenario \in {"task", "when_any", "async_scope", "cancellation"}
  /\ Init /\ W!Init /\ A!Init /\ C!Init

MCNext ==
  /\ UNCHANGED scenario
  /\ \/ scenario = "task" /\ Next /\ UNCHANGED <<whenAnyVars, scopeVars, cancelVars>>
     \/ scenario = "when_any" /\ W!Next /\ UNCHANGED <<vars, scopeVars, cancelVars>>
     \/ scenario = "async_scope" /\ A!Next /\ UNCHANGED <<vars, whenAnyVars, cancelVars>>
     \/ scenario = "cancellation" /\ C!Next /\ UNCHANGED <<vars, whenAnyVars, scopeVars>>

MCSpec ==
  /\ MCInit /\ [][MCNext]_<<scenario, vars, whenAnyVars, scopeVars, cancelVars>>
  /\ Fairness
  /\ scenario = "when_any" => W!Fairness
  /\ C!Fairness

\* when_any takes the result of the child that published first and returns
\* only after every observer is done (WhenAny).
FirstWinsRestJoined == W!FirstWinsRestJoined

\* Once a child has finished, when_any returns or is destroyed (WhenAny).
EventuallyReturns == W!EventuallyReturns

\* async_scope::join reports an end only when no child runs, and success
\* exactly if none failed (AsyncScope).
JoinAccountsForAll == A!JoinAccountsForAll

\* A callback is called at most once, with the reason of the first request,
\* and never after it was unregistered in time (Cancellation).
InvokedOnceUnlessRevoked == C!InvokedOnceUnlessRevoked

\* After a request every callback that was not revoked or left behind by an
\* exception is called
\* (Cancellation).
CancelledEventuallyInvoked == C!CancelledEventuallyInvoked
==============================================================================
