----------------------------- MODULE Selection ------------------------------
(* The entries of a list that a loop over the list picks, in its order.    *)
EXTENDS Naturals, FiniteSets

\* The numbers in S, a finite set, from the least to the greatest.  (Of the k in S there
\* is one with i numbers of S up to it.)
InOrder(S) ==
  [i \in 1..Cardinality(S) |-> CHOOSE k \in S : Cardinality({j \in S : j <= k}) = i]
=============================================================================
