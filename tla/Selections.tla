------------------------------ MODULE Selections ------------------------------
(* SelectSeq for a test that is membership, without an operator argument: the  *)
(* provers see into it, which they do not into SelectSeq.                      *)
EXTENDS Integers, Sequences, FiniteSets

\* The elements of s that are in T, in their order.
OnlyIn(s, T) ==
  LET kept == {i \in DOMAIN s : s[i] \in T}
      nth(n) == CHOOSE i \in kept : Cardinality({j \in kept : j <= i}) = n
  IN  [n \in 1..Cardinality(kept) |-> s[nth(n)]]
===============================================================================
