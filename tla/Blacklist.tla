----------------------------- MODULE Blacklist -----------------------------
(***************************************************************************)
(* What ipblock promises its callers, whatever they do at the same time:   *)
(* a multiset of addresses that inserts, removals and clears change in one *)
(* step, and a verdict per packet that is the answer of that multiset at   *)
(* one instant of the call.                                                *)
(***************************************************************************)
EXTENDS Integers

CONSTANTS Addrs, Cpus

VARIABLES count,     \* how often each address is listed
          packet     \* per cpu: the packet's destination, then its verdict

Verdict(a) == IF count[a] > 0 THEN "drop" ELSE "accept"

Init == count = [a \in Addrs |-> 0] /\ packet = [c \in Cpus |-> "accept"]

Insert(a) == count' = [count EXCEPT ![a] = @ + 1] /\ UNCHANGED packet
Remove(a) == count[a] > 0 /\ count' = [count EXCEPT ![a] = @ - 1]
             /\ UNCHANGED packet
Clear == count' = [a \in Addrs |-> 0] /\ UNCHANGED packet
Arrive(c, a) == packet' = [packet EXCEPT ![c] = a] /\ UNCHANGED count
Decide(c) == /\ packet[c] \in Addrs
             /\ packet' = [packet EXCEPT ![c] = Verdict(packet[c])]
             /\ UNCHANGED count

Next == \/ Clear
        \/ \E a \in Addrs : Insert(a) \/ Remove(a)
        \/ \E c \in Cpus : Decide(c)
        \/ \E c \in Cpus, a \in Addrs : Arrive(c, a)

Spec == Init /\ [][Next]_<<count, packet>>
=============================================================================
