------------------------------ MODULE Filters ------------------------------
(***************************************************************************)
(* What a filter of a list keeps, as a function and not as a loop, so that *)
(* it can be reasoned about; MCRevisionStream compares it with the loop.   *)
(***************************************************************************)
EXTENDS Naturals, Sequences, FiniteSets

(* filter, retain: keeps the elements at the positions AT, in their order. *)
Filtered(events, at) ==
  [n \in 1..Cardinality(at) |-> events[CHOOSE i \in at : Cardinality({j \in at : j <= i}) = n]]
=============================================================================
