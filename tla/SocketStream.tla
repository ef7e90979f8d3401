----------------------------- MODULE SocketStream -----------------------------
(***************************************************************************)
(* Byte transfer over a socket (src/src/socket.cpp): the bounded queue of  *)
(* operations per direction, the planning of scatter/gather requests, and  *)
(* read_some and write_some against a kernel that moves as much as it      *)
(* likes (external).                                                       *)
(*                                                                         *)
(* The caller works off its queued operations in order and calls again     *)
(* with the rest of a chain until all of it is moved.  The n-th byte       *)
(* written is the number n.  EINTR repeats the system call inside          *)
(* read_some and write_some and EAGAIN is answered operation_in_progress:  *)
(* neither changes anything.  A single buffer is a chain of one.           *)
(***************************************************************************)
EXTENDS Integers, Sequences

CONSTANTS
  Chains,        \* the segment lengths of the buffer chains callers use
  QueueLimit,    \* limit_ of socket_operation_queue
  IovecLimit,    \* platform_iovec_limit()
  RequestLimit,  \* max_safe_socket_io_size()
  PipeSize,      \* bound: bytes the kernel buffers
  MaxOps         \* bound: operations enqueued per direction

Directions == {"read", "write"}

VARIABLES
  queue,     \* reads_, writes_: the chains of the operations waiting
  chain,     \* the rest of the chain being moved, per direction
  ops,       \* operations enqueued so far, per direction
  written,   \* bytes write_some reported as written
  pipe,      \* bytes the kernel holds
  received   \* history: what the reading caller found in its buffers

vars == <<queue, chain, ops, written, pipe, received>>

\* The bytes in the first segments of a chain, and in all of them.
Offsets(lens) ==
  LET sum[j \in 0..Len(lens)] == IF j = 0 THEN 0 ELSE sum[j - 1] + lens[j]
  IN  sum

Total(lens) == Offsets(lens)[Len(lens)]

TypeOK ==
  /\ queue \in [Directions -> Seq(Chains)] /\ \A d \in Directions : Len(queue[d]) <= QueueLimit
  /\ \A d \in Directions : \A k \in DOMAIN chain[d] : chain[d][k] \in Nat
  /\ ops \in [Directions -> 0..MaxOps]
  /\ written \in Nat
  /\ Len(pipe) <= PipeSize

Init ==
  /\ queue = [d \in Directions |-> <<>>]
  /\ chain = [d \in Directions |-> <<>>]
  /\ ops = [d \in Directions |-> 0]
  /\ written = 0 /\ pipe = <<>> /\ received = <<>>

------------------------------------------------------------------------------
(* build_iovec_chain.  A plan lists the positions of the concatenated *)
(* buffers that the request covers, and counts its entries.           *)

\* socket_iovec_plan_full
PlanFull(plan) == plan.count >= IovecLimit \/ Len(plan.positions) >= RequestLimit

\* Mutant: a segment is capped by the limit of the whole request.
AppendSegment_OwnCap(plan, start, length) ==
  LET accepted == IF length < RequestLimit THEN length ELSE RequestLimit
  IN  [count |-> plan.count + 1,
       positions |-> plan.positions \o [k \in 1..accepted |-> start + k]]

\* append_socket_iovec_segment
AppendSegment(plan, start, length) ==
  LET remaining == RequestLimit - Len(plan.positions)
      accepted == IF length < remaining THEN length ELSE remaining
  IN  [count |-> plan.count + 1,
       positions |-> plan.positions \o [k \in 1..accepted |-> start + k]]

\* The loop over the buffers: empty ones are skipped, a full plan ends it.
BuildIovecChain(lens) ==
  LET build[j \in 0..Len(lens)] ==
        IF j = 0 THEN [count |-> 0, positions |-> <<>>]
        ELSE IF lens[j] = 0 \/ PlanFull(build[j - 1]) THEN build[j - 1]
        ELSE AppendSegment(build[j - 1], Offsets(lens)[j - 1], lens[j])
  IN  build[Len(lens)].positions

\* The chain that is left when the first n bytes are done.
Advance(lens, n) ==
  LET before(j) == Offsets(lens)[j - 1]
      cut(j) == IF n <= before(j) THEN lens[j]
                ELSE IF n >= before(j) + lens[j] THEN 0 ELSE before(j) + lens[j] - n
  IN  [j \in DOMAIN lens |-> cut(j)]

------------------------------------------------------------------------------
(* Operations. *)

\* socket_operation_queue::enqueue; a full queue answers resource_exhausted.
Enqueue(d, lens) ==
  /\ ops[d] < MaxOps
  /\ Len(queue[d]) < QueueLimit
  /\ queue' = [queue EXCEPT ![d] = Append(@, lens)]
  /\ ops' = [ops EXCEPT ![d] = @ + 1]
  /\ UNCHANGED <<chain, written, pipe, received>>

\* socket_operation_queue::pop, when the operation before is done.
Pop(d) ==
  /\ Total(chain[d]) = 0
  /\ queue[d] # <<>>
  /\ chain' = [chain EXCEPT ![d] = Head(queue[d])]
  /\ queue' = [queue EXCEPT ![d] = Tail(@)]
  /\ UNCHANGED <<ops, written, pipe, received>>

\* write_some: the kernel takes the first n bytes the plan covers.  The byte
\* at position p of the chain is number written + p.
WriteSome(n) ==
  LET plan == BuildIovecChain(chain["write"])
  IN  /\ n \in 1..Len(plan)
      /\ Len(pipe) + n <= PipeSize
      /\ pipe' = pipe \o [k \in 1..n |-> written + plan[k]]
      /\ written' = written + n
      /\ chain' = [chain EXCEPT !["write"] = Advance(@, n)]
      /\ UNCHANGED <<queue, ops, received>>

\* read_some: the kernel fills the first n positions the plan covers, and the
\* caller reads the first n of its buffers; -1 is a byte nobody wrote there.
ReadSome(n) ==
  LET plan == BuildIovecChain(chain["read"])
      filled(p) == {k \in 1..n : plan[k] = p}
  IN  /\ n \in 1..Len(plan)
      /\ n <= Len(pipe)
      /\ received' = received \o [p \in 1..n |-> IF filled(p) = {} THEN -1
                                                 ELSE pipe[CHOOSE k \in filled(p) : TRUE]]
      /\ pipe' = SubSeq(pipe, n + 1, Len(pipe))
      /\ chain' = [chain EXCEPT !["read"] = Advance(@, n)]
      /\ UNCHANGED <<queue, ops, written>>

Next ==
  \/ \E d \in Directions, lens \in Chains : Enqueue(d, lens)
  \/ \E d \in Directions : Pop(d)
  \/ \E n \in 1..RequestLimit : WriteSome(n) \/ ReadSome(n)

Spec == Init /\ [][Next]_vars

------------------------------------------------------------------------------
(* Properties. *)

\* Over empty segments, requests cut in the middle of one, full iovec arrays
\* and short counts on both sides, the reader finds exactly the bytes the
\* writer was told are written, in order; and a request is empty only when
\* nothing is left to move, so a caller that goes on gets somewhere.
StreamInOrder ==
  /\ received \o pipe = [n \in 1..written |-> n]
  /\ \A d \in Directions :
       LET request == Len(BuildIovecChain(chain[d]))
       IN  request <= RequestLimit /\ (request = 0 <=> Total(chain[d]) = 0)
==============================================================================
