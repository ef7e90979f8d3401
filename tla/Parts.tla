------------------------------- MODULE Parts -------------------------------
(***************************************************************************)
(* Parts that have no thread of their own, each a system by itself over    *)
(* variables of its own: compute_executor's accounting (ComputeExecutor),  *)
(* a channel (B), the trampoline and its schedulers (T), byte transfer (S) *)
(* and the setup of connections (C).                                       *)
(***************************************************************************)
EXTENDS ComputeExecutor

CONSTANTS
  MaxSends, MaxWaits,
  Items, Wrapped, Scoped, Plain, Inline, NoScheduler,
  Chains, QueueLimit, IovecLimit, RequestLimit, PipeSize, MaxOps,
  Clients, Acceptors, MaxFd, Free, Other

ASSUME TrampolineConstants == Wrapped \subseteq Items

\* Both limits of a request allow a byte.
ASSUME StreamConstants ==
  Chains \subseteq Seq(Nat) /\ IovecLimit \in Nat \ {0} /\ RequestLimit \in Nat \ {0}

\* Descriptors that are not ours are told from connections.
ASSUME SetupConstants == MaxFd \in Nat /\ Free # Other /\ {Free, Other} \cap Clients = {}

VARIABLES
  buffer, rendezvous, closed, waitingSenders, waitingReceivers, sent, received,
  unused, ready, draining, deferred, stack, current, escaped, reached, begun,
  operations, chain, ops, written, pipe, bytes,
  link, soError, client, backlog, fds, pc, duplicate, owned

B == INSTANCE Channel
T == INSTANCE Trampoline
S == INSTANCE SocketStream WITH queue <- operations, received <- bytes
C == INSTANCE SocketSetup

\* A channel that buffers delivers all it accepted, in order (Channel).
Fifo == B!Fifo

\* Trampolined bodies do not nest, begin in order and see the scheduler they
\* were entered under (Trampoline).
DrainedInOrder == T!DrainedInOrder

\* The reader finds the bytes the writer was told are written (SocketStream).
StreamInOrder == S!StreamInOrder

\* Accepted descriptors have one owner, a connected client is (SocketSetup).
HandlesAccounted == C!HandlesAccounted
==============================================================================
