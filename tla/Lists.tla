-------------------------------- MODULE Lists --------------------------------
(***************************************************************************)
(* Python's filtering list comprehension, in a form that can be reasoned   *)
(* about: a place that is kept moves to its rank among the places kept.    *)
(***************************************************************************)
EXTENDS Naturals, Sequences, FiniteSets

Rank(i, Keep) == Cardinality({j \in Keep : j <= i})

\* What a list holds at the places in Keep, in their order.
Filtered(s, Keep) ==
  [n \in 1 .. Cardinality(Keep) |-> s[CHOOSE i \in Keep : Rank(i, Keep) = n]]

\* [x for x in s if Test(x)]
Where(s, Test(_)) == Filtered(s, {i \in DOMAIN s : Test(s[i])})
=============================================================================
