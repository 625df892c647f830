------------------------------ MODULE MCPubSub ------------------------------
(* Small instances of PubSub. *)
EXTENDS PubSub, TLC

CONSTANTS b1, b2, p1, p2, s1, s2, t1, t2

MCTopicOf == [p \in Providers |-> IF p = p1 THEN t1 ELSE t2]
MCTopicsOf == [s \in Subscribers |-> IF s = s1 THEN <<t1, t2>> ELSE <<t1>>]
=============================================================================
