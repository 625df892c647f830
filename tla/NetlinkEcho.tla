------------------------------ MODULE NetlinkEcho ------------------------------
(***************************************************************************)
(* module5/practice5: a kernel socket that answers each message in its     *)
(* sender's own call (practice5.c), and clients that wait for the answer   *)
(* without a limit (client.c). Messages may come before nl_sk is assigned. *)
(***************************************************************************)
CONSTANT Clients

VARIABLES
  registered,   \* the kernel socket is there
  nl_sk,        \* the module's pointer to it is set
  pc,           \* of each client: off, open, handled, waits, done or killed
  queue,        \* clients with an answer in their socket
  unanswered    \* history: clients the kernel had no memory to answer

vars == <<registered, nl_sk, pc, queue, unanswered>>
Goto(c, l) == pc' = [pc EXCEPT ![c] = l]

Init ==
  /\ registered = FALSE /\ nl_sk = FALSE /\ pc = [c \in Clients |-> "off"]
  /\ queue = {} /\ unanswered = {}

(* An open socket holds the module, a killed client's call for ever.       *)
(* Slip: the configuration names no module to hold. *)
HoldsNever(c) == FALSE
Holds(c) == pc[c] \in {"open", "handled", "waits", "killed"}

netlink_kernel_create ==
  /\ ~registered /\ ~nl_sk /\ registered' = TRUE
  /\ UNCHANGED <<nl_sk, pc, queue, unanswered>>
netlink_test_init ==
  /\ registered /\ ~nl_sk /\ nl_sk' = TRUE
  /\ UNCHANGED <<registered, pc, queue, unanswered>>
netlink_test_exit ==
  /\ nl_sk /\ ~(\E c \in Clients : Holds(c))
  /\ registered' = FALSE /\ nl_sk' = FALSE /\ UNCHANGED <<pc, queue, unanswered>>

Socket(c) ==
  /\ pc[c] \in {"off", "done"} /\ registered /\ Goto(c, "open")
  /\ UNCHANGED <<registered, nl_sk, queue, unanswered>>
(* sendmsg() calls nl_recv_msg; in it, an allocation may fail.             *)
Send(c) ==
  /\ pc[c] = "open" /\ Goto(c, "handled")
  /\ UNCHANGED <<registered, nl_sk, queue, unanswered>>
nlmsg_new_fails(c) ==
  /\ pc[c] = "handled" /\ Goto(c, "waits") /\ unanswered' = unanswered \cup {c}
  /\ UNCHANGED <<registered, nl_sk, queue>>

(* Slip: the port is read from the header of the answer. *)
PortOfAnswer(c) == {}
Port(c) == {c}
nl_recv_msg(c) ==
  /\ pc[c] = "handled"
  /\ IF nl_sk THEN queue' = queue \cup Port(c) /\ Goto(c, "waits")
              ELSE Goto(c, "killed") /\ UNCHANGED queue
  /\ UNCHANGED <<registered, nl_sk, unanswered>>

Receive(c) ==
  /\ pc[c] = "waits" /\ c \in queue /\ queue' = queue \ {c} /\ Goto(c, "done")
  /\ UNCHANGED <<registered, nl_sk, unanswered>>
(* The user ends a client that waits. *)
Interrupt(c) ==
  /\ pc[c] = "waits" /\ Goto(c, "done") /\ queue' = queue \ {c} /\ unanswered' = unanswered \ {c}
  /\ UNCHANGED <<registered, nl_sk>>

Next ==
  \/ netlink_kernel_create \/ netlink_test_init \/ netlink_test_exit
  \/ \E c \in Clients : \/ Socket(c) \/ Send(c) \/ nlmsg_new_fails(c) \/ nl_recv_msg(c)
                        \/ Receive(c) \/ Interrupt(c)

Spec == Init /\ [][Next]_vars

-----------------------------------------------------------------------------
(* A client that waits has its answer in its socket, unless the kernel had  *)
(* no memory for one: then it waits until its user ends it. An answer is    *)
(* for a client that waits for it, and the module stays while one does.     *)
AnswersFind ==
  /\ \A c \in Clients : pc[c] = "waits" <=> c \in queue \cup unanswered
  /\ (\E c \in Clients : pc[c] \in {"open", "handled", "waits"}) => registered
===============================================================================
