---------------------------- MODULE BroadcastChat ----------------------------
(***************************************************************************)
(* module3/practice6/practice6.c: every peer broadcasts what its user types *)
(* and shows what it receives, except what begins with its own nickname.   *)
(* select() looks at the descriptors, fgets() reads through stdio: lines of *)
(* a pipe wait in stdio's buffer where select() does not see them.         *)
(***************************************************************************)
EXTENDS Integers, Sequences, Selections

CONSTANTS
  Peers,
  Begins,      \* <<p, q>>: the nickname of p begins that of q
  Capacity,    \* datagrams a socket holds
  MaxLines     \* bound: lines each user types

VARIABLES
  pc, g_stop,
  ready,           \* what is left of the set select() returned
  socket,          \* datagrams not yet received
  tty, buf,        \* lines in the kernel, and in stdio's buffer
  typed, closed,   \* lines so far, end of the input
  heard,           \* what each peer showed
  air, since,      \* history: all that was broadcast; where each peer's bind was
  lost             \* history: peers whose socket was full once

input == <<tty, buf, typed, closed>>
history == <<air, since, lost>>
vars == <<pc, g_stop, ready, socket, input, heard, history>>

Goto(p, l) == pc' = [pc EXCEPT ![p] = l]
(* Bound: one peer comes to its end. *)
Ending(p) == \A q \in Peers \ {p} : ~g_stop[q] /\ ~closed[q]
Live == {p \in Peers : pc[p] \notin {"off", "done"}}

Init ==
  /\ pc = [p \in Peers |-> "off"] /\ g_stop = [p \in Peers |-> FALSE]
  /\ ready = [p \in Peers |-> {}] /\ socket = [p \in Peers |-> <<>>]
  /\ tty = [p \in Peers |-> <<>>] /\ buf = [p \in Peers |-> <<>>]
  /\ typed = [p \in Peers |-> 0] /\ closed = [p \in Peers |-> FALSE]
  /\ heard = [p \in Peers |-> <<>>] /\ air = <<>>
  /\ since = [p \in Peers |-> 0] /\ lost = {}

(* A broadcast reaches every socket, the sender's too, unless it is full. *)
send_message(p, text) ==
  LET m == [from |-> p, text |-> text]
      full == {q \in Live : Len(socket[q]) = Capacity}
  IN /\ air' = Append(air, m) /\ lost' = lost \cup full
     /\ socket' = [q \in Peers |-> IF q \notin Live' THEN <<>>
                                 ELSE IF q \in full THEN socket[q] ELSE Append(socket[q], m)]
     /\ UNCHANGED since

create_socket(p) ==
  /\ pc[p] = "off" /\ Goto(p, "join")
  /\ since' = [since EXCEPT ![p] = Len(air)]
  /\ UNCHANGED <<g_stop, ready, socket, input, heard, air, lost>>

(* The test of the loop. *)
(* Slip: it loops without one. *)
UntestedStop(p) == "enter"
Tested(p) == IF g_stop[p] THEN "leave" ELSE "enter"

Join(p) ==
  /\ pc[p] = "join" /\ Goto(p, Tested(p)) /\ send_message(p, "joined")
  /\ UNCHANGED <<g_stop, ready, input, heard>>

Ready(p) == (IF socket[p] # <<>> THEN {"socket"} ELSE {})
            \cup (IF tty[p] # <<>> \/ closed[p] THEN {"stdin"} ELSE {})

(* A signal between the test and select() does not end the wait. *)
Enter(p) ==
  /\ pc[p] = "enter" /\ Goto(p, "blocked")
  /\ UNCHANGED <<g_stop, ready, socket, input, heard, history>>
Wake(p) ==
  /\ pc[p] = "blocked" /\ Ready(p) # {}
  /\ ready' = [ready EXCEPT ![p] = Ready(p)] /\ Goto(p, "round")
  /\ UNCHANGED <<g_stop, socket, input, heard, history>>

handle_stop_signal(p) ==
  /\ p \in Live /\ ~g_stop[p] /\ Ending(p)
  /\ g_stop' = [g_stop EXCEPT ![p] = TRUE]
  /\ IF pc[p] = "blocked" /\ Ready(p) = {} THEN Goto(p, "leave") ELSE UNCHANGED pc
  /\ UNCHANGED <<ready, socket, input, heard, history>>

(* The round goes on with what is left, or ends. *)
Handled(p, what) ==
  /\ ready' = [ready EXCEPT ![p] = @ \ {what}]
  /\ Goto(p, IF ready'[p] = {} THEN Tested(p) ELSE "round")

(* Slip: a nickname is compared to the end of the shorter one. *)
ShownUnlike(p, m) == <<p, m.from>> \notin Begins /\ <<m.from, p>> \notin Begins
Shown(p, m) == <<p, m.from>> \notin Begins

Hear(p) ==
  /\ pc[p] = "round" /\ "socket" \in ready[p] /\ Handled(p, "socket")
  /\ socket' = [socket EXCEPT ![p] = Tail(@)]
  /\ heard' = [heard EXCEPT ![p] = IF Shown(p, Head(socket[p])) THEN Append(@, Head(socket[p])) ELSE @]
  /\ UNCHANGED <<g_stop, input, history>>

(* fgets: where stdio has no line it reads n, of a terminal one, of a pipe   *)
(* what there is.                                                          *)
Fetches(p) == IF buf[p] # <<>> \/ tty[p] = <<>> THEN {0} ELSE 1 .. Len(tty[p])

(* Slip: the end of the input is taken from the kernel, not from fgets. *)
AtEndOfKernel(p) == tty[p] = <<>> /\ closed[p]
AtEnd(p) == buf[p] = <<>> /\ tty[p] = <<>>

Say(p) ==
  /\ pc[p] = "round" /\ ready[p] = {"stdin"} /\ ~AtEnd(p) /\ Handled(p, "stdin")
  /\ \E n \in Fetches(p) :
       LET lines == buf[p] \o SubSeq(tty[p], 1, n) IN
       /\ send_message(p, Head(lines)) /\ buf' = [buf EXCEPT ![p] = Tail(lines)]
       /\ tty' = [tty EXCEPT ![p] = SubSeq(@, n + 1, Len(@))]
  /\ UNCHANGED <<g_stop, typed, closed, heard>>

InputEnds(p) ==
  /\ pc[p] = "round" /\ ready[p] = {"stdin"} /\ AtEnd(p)
  /\ ready' = [ready EXCEPT ![p] = {}] /\ Goto(p, "leave")
  /\ UNCHANGED <<g_stop, socket, input, heard, history>>

Leave(p) ==
  /\ pc[p] = "leave" /\ Goto(p, "done") /\ send_message(p, "left")
  /\ UNCHANGED <<g_stop, ready, input, heard>>

Type(p) ==
  /\ p \in Live /\ ~closed[p] /\ typed[p] < MaxLines[p]
  /\ typed' = [typed EXCEPT ![p] = @ + 1] /\ tty' = [tty EXCEPT ![p] = Append(@, typed[p] + 1)]
  /\ UNCHANGED <<pc, g_stop, ready, socket, buf, closed, heard, history>>
Close(p) ==
  /\ p \in Live /\ ~closed[p] /\ Ending(p) /\ closed' = [closed EXCEPT ![p] = TRUE]
  /\ UNCHANGED <<pc, g_stop, ready, socket, tty, buf, typed, heard, history>>

Run(p) ==
  \/ create_socket(p) \/ Join(p) \/ Enter(p) \/ Wake(p)
  \/ Hear(p) \/ Say(p) \/ InputEnds(p) \/ Leave(p)
Next == \E p \in Peers : Run(p) \/ handle_stop_signal(p) \/ Type(p) \/ Close(p)

Spec == Init /\ [][Next]_vars

-----------------------------------------------------------------------------
(* A peer that lost nothing shows what was broadcast since its bind, all in *)
(* one order, except what begins with its nickname; the rest is in its      *)
(* socket. What a peer broadcasts is its joining, its lines as typed, its   *)
(* leaving; and one that its input ended, by a pipe or not, left no line    *)
(* unsaid.                                                                  *)
Heard(p) == Ahead(air, socket[p])
Others(p) == {j \in since[p] + 1 .. Heard(p) : <<p, air[j].from>> \notin Begins}
Unsaid(p) == buf[p] \o tty[p]
Said(p) == [i \in 1 .. typed[p] - Len(Unsaid(p)) |-> i]
Own(p) == {j \in DOMAIN air : air[j].from = p}
Script(p) ==
  IF pc[p] \in {"off", "join"} THEN <<>>
  ELSE <<"joined">> \o Said(p) \o (IF pc[p] = "done" THEN <<"left">> ELSE <<>>)
HeardInOrder ==
  \A p \in Peers :
    /\ p \in Live \ lost => /\ IsEnd(socket[p], air) /\ since[p] <= Heard(p)
                            /\ IsSelection(heard[p], air, Others(p))
    /\ IsSelection(Script(p), [j \in DOMAIN air |-> air[j].text], Own(p))
    /\ Said(p) \o Unsaid(p) = [i \in 1 .. typed[p] |-> i]
    /\ pc[p] = "leave" /\ ~g_stop[p] => Unsaid(p) = <<>>

(* The end of the input ends a peer, and so does a signal, which can only   *)
(* wait for one more datagram or line: when it came before select().        *)
StopEnds ==
  \A p \in Peers :
    /\ closed[p] ~> pc[p] = "done"
    /\ g_stop[p] /\ (pc[p] \notin {"enter", "blocked"} \/ Ready(p) # {}) ~> pc[p] = "done"
===============================================================================
