--------------------------- MODULE MCSharedBlocks ---------------------------
(* Instances of SharedBlocks for TLC.                                      *)
EXTENDS SharedBlocks, TLC

CONSTANTS p1, p2, c1, c2

TwoProducers == {p1, p2}
OneProducer == {p1}
TwoConsumers == {c1, c2}

(* Processes of one kind are interchangeable.                              *)
Symmetry == Permutations(Producers) \cup Permutations(Consumers)
=============================================================================
