------------------------------- MODULE Counters -------------------------------
(* What module3/cross1/server.c promises to the clients it has room for: a  *)
(* number per address that goes up by one with each message, is told to its *)
(* sender, and falls back to zero on close.                                 *)
EXTENDS Integers

CONSTANT Clients

VARIABLES count,    \* messages of each address since its last close
          answer    \* whom the server last served, and its number

Init == count = [c \in Clients |-> 0] /\ answer = <<>>

Message(c) ==
  /\ count' = [count EXCEPT ![c] = @ + 1]
  /\ answer' = <<c, count'[c]>>

Close(c) == count' = [count EXCEPT ![c] = 0] /\ answer' = <<c, 0>>

(* The server is started anew. *)
Restart == count' = [c \in Clients |-> 0] /\ UNCHANGED answer

Next == (\E c \in Clients : Message(c) \/ Close(c)) \/ Restart

Spec == Init /\ [][Next]_<<count, answer>>
=============================================================================
