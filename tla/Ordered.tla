-------------------------------- MODULE Ordered --------------------------------
(* Finite sets of numbers, enumerated in their order, and what a sequence  *)
(* holds at such a set of places.                                          *)
EXTENDS Integers, FiniteSets

Increasing(q) == \A i, j \in DOMAIN q : i < j => q[i] < q[j]

(* The elements of S, each once and in order.                              *)
InOrder(S) == CHOOSE q \in [1..Cardinality(S) -> S] : Increasing(q)

(* The elements of s at these places.                                      *)
Selected(s, places) ==
  LET place == InOrder(places)
  IN  [k \in 1..Cardinality(places) |-> s[place[k]]]

=============================================================================
