-------------------------------- MODULE Arrays --------------------------------
(* Arrays in order. Sorting and filtering by a recursion cannot be reasoned  *)
(* about in general, so they are defined by where each entry ends up.        *)
EXTENDS Integers, FiniteSets

(* The members of S, each behind those of ahead[c].                          *)
InOrder(S, ahead) ==
  [k \in 1..Cardinality(S) |-> CHOOSE c \in S : Cardinality(ahead[c]) = k - 1]

(* Places in an array, the first one first.                                  *)
Ascending(I) == InOrder(I, [i \in I |-> {j \in I : j < i}])

(* The entries of s at some places, in the order given and in that of s.     *)
Entries(s, places) == [k \in DOMAIN places |-> s[places[k]]]
Selected(s, I) == Entries(s, Ascending(I))
=============================================================================
