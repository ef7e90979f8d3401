------------------------------ MODULE Channel ------------------------------
(***************************************************************************)
(* channel<T> (src/include/voris/io/channel.hpp).                          *)
(*                                                                         *)
(* send and receive never block: a caller that would have to wait is       *)
(* counted and tries again later.  A call whose cancellation token or      *)
(* deadline keeps it from waiting is answered with an error and changes    *)
(* nothing.  Values are numbered in the order send accepts them.           *)
(***************************************************************************)
EXTENDS Integers, Sequences

CONSTANTS
  Capacity,    \* capacity_, 0 for a rendezvous channel
  MaxSends,    \* bound: values accepted
  MaxWaits     \* bound: either count of waiting callers

VARIABLES
  buffer,            \* buffer_
  rendezvous,        \* rendezvous_value_, a sequence of at most one value
  closed,            \* closed_
  waitingSenders, waitingReceivers,
  sent,              \* history: number of values send accepted
  received           \* history: values receive returned, in order

vars == <<buffer, rendezvous, closed, waitingSenders, waitingReceivers, sent, received>>

TypeOK ==
  /\ buffer \in Seq(1..MaxSends) /\ Len(buffer) <= Capacity
  /\ rendezvous \in Seq(1..MaxSends) /\ Len(rendezvous) <= 1
  /\ closed \in BOOLEAN
  /\ waitingSenders \in 0..MaxWaits /\ waitingReceivers \in 0..MaxWaits
  /\ sent \in 0..MaxSends
  /\ received \in Seq(1..MaxSends)

Init ==
  /\ buffer = <<>> /\ rendezvous = <<>> /\ closed = FALSE
  /\ waitingSenders = 0 /\ waitingReceivers = 0
  /\ sent = 0 /\ received = <<>>

SenderWaits ==
  /\ waitingSenders < MaxWaits
  /\ waitingSenders' = waitingSenders + 1
  /\ UNCHANGED <<buffer, rendezvous, waitingReceivers, sent>>

\* send_impl
Send ==
  /\ ~closed /\ sent < MaxSends
  /\ IF Capacity = 0
     THEN IF waitingReceivers = 0 THEN SenderWaits
          ELSE /\ waitingReceivers' = waitingReceivers - 1
               /\ rendezvous' = <<sent + 1>> /\ sent' = sent + 1
               /\ UNCHANGED <<buffer, waitingSenders>>
     ELSE IF Len(buffer) >= Capacity THEN SenderWaits
          ELSE /\ buffer' = Append(buffer, sent + 1) /\ sent' = sent + 1
               /\ UNCHANGED <<rendezvous, waitingSenders, waitingReceivers>>
  /\ UNCHANGED <<closed, received>>

\* Mutant: the newest buffered value is returned.
Receive_Newest ==
  /\ IF buffer # <<>>
     THEN /\ received' = Append(received, buffer[Len(buffer)])
          /\ buffer' = SubSeq(buffer, 1, Len(buffer) - 1)
          /\ waitingSenders' = IF waitingSenders # 0 THEN waitingSenders - 1 ELSE 0
          /\ UNCHANGED waitingReceivers
     ELSE /\ ~closed /\ waitingReceivers < MaxWaits
          /\ waitingReceivers' = waitingReceivers + 1
          /\ UNCHANGED <<buffer, waitingSenders, received>>
  /\ UNCHANGED <<rendezvous, closed, sent>>

\* receive_impl
Receive ==
  /\ IF rendezvous # <<>>
     THEN /\ received' = Append(received, Head(rendezvous)) /\ rendezvous' = <<>>
          /\ UNCHANGED <<buffer, waitingSenders, waitingReceivers>>
     ELSE IF buffer # <<>>
     THEN /\ received' = Append(received, Head(buffer)) /\ buffer' = Tail(buffer)
          /\ waitingSenders' = IF waitingSenders # 0 THEN waitingSenders - 1 ELSE 0
          /\ UNCHANGED <<rendezvous, waitingReceivers>>
     ELSE /\ ~closed /\ waitingReceivers < MaxWaits
          /\ waitingReceivers' = waitingReceivers + 1
          /\ UNCHANGED <<buffer, rendezvous, waitingSenders, received>>
  /\ UNCHANGED <<closed, sent>>

Close ==
  /\ ~closed
  /\ closed' = TRUE
  /\ UNCHANGED <<buffer, rendezvous, waitingSenders, waitingReceivers, sent, received>>

Next == Send \/ Receive \/ Close

Spec == Init /\ [][Next]_vars

\* Somebody keeps receiving.
FairSpec == Spec /\ WF_vars(Receive)

------------------------------------------------------------------------------
(* Properties. *)

\* What was received, followed by what the channel holds, is everything that
\* was accepted, in order: nothing is lost, repeated or overtaken.
Fifo == received \o rendezvous \o buffer = [n \in 1..sent |-> n]

==============================================================================
