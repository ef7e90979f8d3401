----------------------------- MODULE Positions -----------------------------
(***************************************************************************)
(* Taking some elements out of a queue and keeping the order of both the   *)
(* taken and the remaining ones, as the erase loops of the backends do.    *)
(***************************************************************************)
EXTENDS Integers, Sequences, FiniteSets

\* The listing of the positions K front to back (there is exactly one).
InOrder(K) ==
  {f \in [1..Cardinality(K) -> K] :
     /\ \A i, j \in 1..Cardinality(K) : i < j => f[i] < f[j]
     /\ \A k \in K : \E i \in 1..Cardinality(K) : f[i] = k}

\* What is left of s when only the positions K are kept (there is exactly one).
Kept(s, K) ==
  {[n \in DOMAIN f |-> s[f[n]]] :
     f \in {g \in UNION {[1..n -> K] : n \in 0..Len(s)} :
              /\ \A i, j \in DOMAIN g : i < j => g[i] < g[j]
              /\ \A k \in K : \E i \in DOMAIN g : g[i] = k}}
==============================================================================
