------------------------------ MODULE Filter ------------------------------
(***************************************************************************)
(* What is left of a sequence when the items at some positions go          *)
(* (Array.prototype.filter, a Map that is deleted from as it is walked).   *)
(* It is defined by position and not by recursion, as SelectSeq is, so     *)
(* that it can be reasoned about.                                          *)
(***************************************************************************)
EXTENDS Integers, Sequences, FiniteSets

UpTo(kept, i) == {k \in kept : k <= i}
Rank(kept, i) == Cardinality(UpTo(kept, i))

\* The j-th position kept is the one with j positions kept up to it.
Position(kept, j) == CHOOSE i \in kept : Rank(kept, i) = j

\* The items of s at the positions kept, in their order.
Filter(s, kept) == [j \in 1..Cardinality(kept) |-> s[Position(kept, j)]]
===========================================================================
