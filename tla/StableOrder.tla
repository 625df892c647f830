----------------------------- MODULE StableOrder -----------------------------
(* What two lists of module2/pract4 promise: entries in the order of their  *)
(* ranks, equal ones in the order in which they came.                       *)
EXTENDS Integers, Sequences, FiniteSets, SequencesExt

CONSTANTS Entries, Ranks

VARIABLES seq,    \* the entries in order
          rank    \* of each entry

Init == seq = <<>> /\ rank \in [Entries -> Ranks]

(* s with e behind all entries of its rank or less, under the ranks rk. *)
Placed(s, rk, e) ==
  InsertAt(s, 1 + Cardinality({i \in DOMAIN s : rk[s[i]] <= rk[e]}), e)

Insert(e, r) ==
  /\ e \notin ToSet(seq)
  /\ rank' = [rank EXCEPT ![e] = r]
  /\ seq' = Placed(seq, rank', e)

Move(i, r) ==
  /\ rank' = [rank EXCEPT ![seq[i]] = r]
  /\ seq' = Placed(RemoveAt(seq, i), rank', seq[i])

Delete(i) == seq' = RemoveAt(seq, i) /\ UNCHANGED rank

Next ==
  \/ \E e \in Entries, r \in Ranks : Insert(e, r)
  \/ \E i \in DOMAIN seq : Delete(i) \/ \E r \in Ranks : Move(i, r)

Spec == Init /\ [][Next]_<<seq, rank>>
=============================================================================
