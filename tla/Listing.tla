------------------------------- MODULE Listing -------------------------------
(* The elements of a finite set in order, as Array.sort leaves them.         *)
EXTENDS Integers, FiniteSets

\* each of them once, and none after one that it should precede
ListedBy(S, Before(_, _)) ==
  CHOOSE s \in [1..Cardinality(S) -> S] :
    \A i, j \in 1..Cardinality(S) : i < j => s[i] # s[j] /\ ~Before(s[j], s[i])
=============================================================================
