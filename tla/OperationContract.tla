-------------------------- MODULE OperationContract --------------------------
(***************************************************************************)
(* What every backend promises about an operation id, whatever provider    *)
(* it drives: an accepted submission gets exactly one terminal result, the *)
(* result never changes once it is chosen, and the id can be accepted      *)
(* again only after that result has been handed to the caller.             *)
(*                                                                         *)
(* The backends are shown to implement this specification.                 *)
(***************************************************************************)
EXTENDS Naturals

CONSTANTS
  Ids,      \* operation ids callers use
  Results   \* terminal results, none of them "free" or "active"

VARIABLE status   \* per id: "free", "active", or the terminal result chosen

ContractType == status \in [Ids -> {"free", "active"} \cup Results]

Init == status = [i \in Ids |-> "free"]

\* A submission is accepted.
Accept(i) ==
  /\ status[i] = "free"
  /\ status' = [status EXCEPT ![i] = "active"]

\* A set of active operations reaches a terminal result in one call.
Complete(S) ==
  /\ \A i \in S : status[i] = "active"
  /\ \E r \in [S -> Results] :
       status' = [i \in Ids |-> IF i \in S THEN r[i] ELSE status[i]]

\* A set of terminal results is handed to the caller.
Deliver(S) ==
  /\ \A i \in S : status[i] \in Results
  /\ status' = [i \in Ids |-> IF i \in S THEN "free" ELSE status[i]]

Next ==
  \/ \E i \in Ids : Accept(i)
  \/ \E S \in SUBSET Ids : Complete(S) \/ Deliver(S)

Spec == Init /\ [][Next]_status
==============================================================================
