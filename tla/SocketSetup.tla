------------------------------ MODULE SocketSetup ------------------------------
(***************************************************************************)
(* start_connect, finish_connect and accept_one (src/src/socket.cpp), with *)
(* the kernel's connections, its listen backlog and the process's          *)
(* descriptor table (external).                                            *)
(*                                                                         *)
(* The system calls of accept_one are separate steps: other threads open   *)
(* and close descriptors in between, and several may accept at a time.  A  *)
(* client follows the protocol of the calls: it starts, waits until the    *)
(* socket is writable if it has to, and then finishes once.                *)
(***************************************************************************)
EXTENDS Integers, Sequences, FiniteSets

CONSTANTS
  Clients,    \* connecting sockets, each used once
  Acceptors,  \* threads that call accept_one on the listener
  MaxFd,      \* the largest descriptor the process may have
  Free,       \* an unused entry of the descriptor table
  Other       \* a descriptor of code outside this library

Fds == 0..MaxFd

VARIABLES
  link,      \* kernel: the connection of each client
  soError,   \* kernel: clients whose SO_ERROR is set
  client,    \* what each client knows
  backlog,   \* kernel: established connections nobody accepted
  fds,       \* the process's descriptor table
  pc,        \* accept_one per thread: between accept4, F_DUPFD_CLOEXEC and close
  duplicate, \* the descriptor fcntl returned
  owned      \* descriptors accept_one returned and the caller has not closed

connects == <<link, soError, client>>
accepts == <<pc, duplicate, owned>>
vars == <<connects, backlog, fds, accepts>>

TypeOK ==
  /\ link \in [Clients -> {"none", "pending", "up", "down"}]
  /\ soError \subseteq Clients
  /\ client \in [Clients -> {"idle", "waiting", "connected", "failed"}]
  /\ backlog \in Seq(Clients)
  /\ fds \in [Fds -> Clients \cup {Free, Other}]
  /\ pc \in [Acceptors -> {"idle", "zero", "duplicated"}]
  /\ duplicate \in [Acceptors -> Fds]
  /\ owned \subseteq Fds

Init ==
  /\ link = [c \in Clients |-> "none"] /\ soError = {}
  /\ client = [c \in Clients |-> "idle"]
  /\ backlog = <<>>
  /\ fds = [d \in Fds |-> Free]
  /\ pc = [a \in Acceptors |-> "idle"] /\ duplicate = [a \in Acceptors |-> 0] /\ owned = {}

------------------------------------------------------------------------------
(* Connecting. *)

\* connect(2) answers at once: success, a refusal, or one of the codes that
\* classify_socket_connect_errno calls operation_in_progress.  Of these EAGAIN
\* means that the kernel did not start anything.
StartConnect(c, answer) ==
  /\ client[c] = "idle"
  /\ link' = [link EXCEPT ![c] = CASE answer = "ok" -> "up"
                                   [] answer = "in_progress" -> "pending"
                                   [] answer = "again" -> "none"
                                   [] answer = "refused" -> "down"]
  /\ client' = [client EXCEPT ![c] = CASE answer = "ok" -> "connected"
                                       [] answer = "refused" -> "failed"
                                       [] OTHER -> "waiting"]
  /\ backlog' = IF answer = "ok" THEN Append(backlog, c) ELSE backlog
  /\ UNCHANGED <<soError, fds, accepts>>

\* kernel: the handshake ends.
Handshake(c, ok) ==
  /\ link[c] = "pending"
  /\ link' = [link EXCEPT ![c] = IF ok THEN "up" ELSE "down"]
  /\ soError' = IF ok THEN soError ELSE soError \cup {c}
  /\ backlog' = IF ok THEN Append(backlog, c) ELSE backlog
  /\ UNCHANGED <<client, fds, accepts>>

\* poll(2) reports the socket writable: no handshake is under way.
Writable(c) == client[c] = "waiting" /\ link[c] # "pending"

\* getsockopt(SO_ERROR) reads the error and clears it; no error is success,
\* also for a connection that was never started.  The outcome of a handshake is
\* never one of the codes that mean operation_in_progress, so that answer does
\* not occur.
FinishConnect(c) ==
  /\ Writable(c)
  /\ client' = [client EXCEPT ![c] = IF c \in soError THEN "failed" ELSE "connected"]
  /\ soError' = soError \ {c}
  /\ UNCHANGED <<link, backlog, fds, accepts>>

------------------------------------------------------------------------------
(* Accepting. *)

FreeFrom(low) == {d \in Fds : d >= low /\ fds[d] = Free}
Lowest(S) == CHOOSE d \in S : \A e \in S : d <= e

\* accept4 takes the oldest connection and the lowest free descriptor, which
\* is returned unless it is 0.
Accept4(a) ==
  /\ pc[a] = "idle"
  /\ backlog # <<>> /\ FreeFrom(0) # {}
  /\ backlog' = Tail(backlog)
  /\ LET accepted == Lowest(FreeFrom(0))
     IN  /\ fds' = [fds EXCEPT ![accepted] = Head(backlog)]
         /\ IF accepted # 0
            THEN owned' = owned \cup {accepted} /\ UNCHANGED pc
            ELSE pc' = [pc EXCEPT ![a] = "zero"] /\ UNCHANGED owned
  /\ UNCHANGED <<connects, duplicate>>

\* accept4 reports a pending network error of a connection that broke in the
\* backlog; accept_one tries again.
AcceptBroken ==
  /\ backlog # <<>>
  /\ backlog' = Tail(backlog)
  /\ UNCHANGED <<connects, fds, accepts>>

\* fcntl(accepted, F_DUPFD_CLOEXEC, 1).
DuplicateFd(a) ==
  /\ pc[a] = "zero"
  /\ FreeFrom(1) # {}
  /\ LET d == Lowest(FreeFrom(1))
     IN  /\ fds' = [fds EXCEPT ![d] = fds[0]]
         /\ duplicate' = [duplicate EXCEPT ![a] = d]
  /\ pc' = [pc EXCEPT ![a] = "duplicated"]
  /\ UNCHANGED <<connects, backlog, owned>>

\* Mutant: descriptor 0 is not closed when it cannot be duplicated.
DuplicateFails_Leaks(a) ==
  /\ pc[a] = "zero"
  /\ FreeFrom(1) = {}
  /\ pc' = [pc EXCEPT ![a] = "idle"]
  /\ UNCHANGED <<connects, backlog, fds, duplicate, owned>>

\* No descriptor is left: the connection is closed and the error returned.
DuplicateFails(a) ==
  /\ pc[a] = "zero"
  /\ FreeFrom(1) = {}
  /\ fds' = [fds EXCEPT ![0] = Free]
  /\ pc' = [pc EXCEPT ![a] = "idle"]
  /\ UNCHANGED <<connects, backlog, duplicate, owned>>

\* close(accepted), and the duplicate is returned.
CloseAccepted(a) ==
  /\ pc[a] = "duplicated"
  /\ fds' = [fds EXCEPT ![0] = Free]
  /\ owned' = owned \cup {duplicate[a]}
  /\ pc' = [pc EXCEPT ![a] = "idle"]
  /\ UNCHANGED <<connects, backlog, duplicate>>

\* The caller closes a handle it got, and other code opens and closes its own.
CloseOwned(d) ==
  /\ d \in owned
  /\ owned' = owned \ {d}
  /\ fds' = [fds EXCEPT ![d] = Free]
  /\ UNCHANGED <<connects, backlog, pc, duplicate>>

OpenOther ==
  /\ FreeFrom(0) # {}
  /\ fds' = [fds EXCEPT ![Lowest(FreeFrom(0))] = Other]
  /\ UNCHANGED <<connects, backlog, accepts>>

CloseOther(d) ==
  /\ fds[d] = Other
  /\ fds' = [fds EXCEPT ![d] = Free]
  /\ UNCHANGED <<connects, backlog, accepts>>

Next ==
  \/ \E c \in Clients, answer \in {"ok", "in_progress", "again", "refused"} : StartConnect(c, answer)
  \/ \E c \in Clients, ok \in BOOLEAN : Handshake(c, ok)
  \/ \E c \in Clients : FinishConnect(c)
  \/ \E a \in Acceptors : Accept4(a) \/ DuplicateFd(a) \/ DuplicateFails(a) \/ CloseAccepted(a)
  \/ AcceptBroken
  \/ \E d \in Fds : CloseOwned(d) \/ CloseOther(d)
  \/ OpenOther

Spec == Init /\ [][Next]_vars

------------------------------------------------------------------------------
(* Properties. *)

\* Every descriptor of an accepted connection is either with the caller, and
\* then it is not 0 and the only one of its connection, or in the hands of one
\* accept_one that has not returned; and a client is told it is connected only
\* if it is, or (link "none") if its connect answered EAGAIN and did nothing.
HandlesAccounted ==
  LET ours == {d \in Fds : fds[d] \in Clients}
      inHand(a) == CASE pc[a] = "idle" -> {} [] pc[a] = "zero" -> {0}
                     [] pc[a] = "duplicated" -> {0, duplicate[a]}
  IN  /\ ours = owned \cup UNION {inHand(a) : a \in Acceptors}
      /\ 0 \notin owned
      /\ \A d, e \in owned : fds[d] = fds[e] => d = e
      /\ \A a, b \in Acceptors : a # b => inHand(a) \cap inHand(b) = {}
      /\ \A a \in Acceptors : pc[a] = "duplicated" => fds[duplicate[a]] = fds[0]
      /\ \A c \in Clients : client[c] = "connected" => link[c] \in {"up", "none"}
==============================================================================
