------------------------------ MODULE Selections ------------------------------
(* What it means that a sequence keeps some elements of another, in order. *)
EXTENDS Integers, Sequences, FiniteSets

(* s holds the elements of t at the positions J and no others, in their order. *)
IsSelection(s, t, J) ==
  /\ Len(s) = Cardinality(J)
  /\ \A j \in J : s[Cardinality({i \in J : i <= j})] = t[j]

(* q is the end of t, and this many elements are in front of it. *)
Ahead(t, q) == Len(t) - Len(q)
IsEnd(q, t) == Len(q) <= Len(t) /\ \A i \in DOMAIN q : q[i] = t[Ahead(t, q) + i]
=============================================================================
