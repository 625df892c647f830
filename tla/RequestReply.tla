---------------------------- MODULE RequestReply ----------------------------
(***************************************************************************)
(* What the dispatcher of module3/cross2 promises about each of its        *)
(* drivers: at most one request is outstanding on a channel, every answer  *)
(* belongs to the request that is outstanding, and an answer is consumed   *)
(* exactly once.  TaxiPark refines this module; nothing here mentions      *)
(* FIFOs, select or the console.                                           *)
(***************************************************************************)

CONSTANTS
    Channels,     \* one channel for every driver slot
    Kinds,        \* the kinds of request a client can make
    Answers       \* Answers[k] : the answers that belong to a request of kind k

VARIABLES
    phase,        \* [Channels -> {"idle", "asked", "answered"}]
    request,      \* [Channels -> Kinds \cup {"none"}] : the outstanding request
    answer        \* [Channels -> answers \cup {"none"}] : the unread answer

vars == <<phase, request, answer>>

Init ==
    /\ phase = [c \in Channels |-> "idle"]
    /\ request = [c \in Channels |-> "none"]
    /\ answer = [c \in Channels |-> "none"]

(* The client puts one request of kind k on every channel of S.            *)
Ask(S, k) ==
    /\ \A c \in S : phase[c] = "idle"
    /\ phase' = [c \in Channels |-> IF c \in S THEN "asked" ELSE phase[c]]
    /\ request' = [c \in Channels |-> IF c \in S THEN k ELSE request[c]]
    /\ UNCHANGED answer

(* The server answers the request that is outstanding.                     *)
Answer(c, a) ==
    /\ phase[c] = "asked"
    /\ a \in Answers[request[c]]
    /\ phase' = [phase EXCEPT ![c] = "answered"]
    /\ answer' = [answer EXCEPT ![c] = a]
    /\ UNCHANGED request

(* The client reads the answer; the channel is idle again.                 *)
Take(c) ==
    /\ phase[c] = "answered"
    /\ phase' = [phase EXCEPT ![c] = "idle"]
    /\ request' = [request EXCEPT ![c] = "none"]
    /\ answer' = [answer EXCEPT ![c] = "none"]

Next ==
    \/ \E S \in SUBSET Channels, k \in Kinds : Ask(S, k)
    \/ \E c \in Channels : \E a \in UNION {Answers[k] : k \in Kinds} : Answer(c, a)
    \/ \E c \in Channels : Take(c)

Spec == Init /\ [][Next]_vars

=============================================================================
