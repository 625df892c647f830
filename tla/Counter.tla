------------------------------- MODULE Counter -------------------------------
(***************************************************************************)
(* module3/cross1: a server that appends to each line the number of lines  *)
(* its sender sent, and clients that send a line and wait for the answer,  *)
(* over raw UDP sockets. Datagrams are lost, duplicated and reordered;     *)
(* nobody retries. Clients are identified by address and port, are stopped *)
(* by signals, killed and started again; the server is killed and started  *)
(* again with an empty table.                                              *)
(***************************************************************************)
EXTENDS Integers, Sequences, SequencesExt, Functions

CONSTANTS
  Clients,          \* address and port of each client, all different
  MAX_CLIENTS,      \* slots of the server's table
  MaxLines,         \* bound: lines typed per run of a client
  MaxRuns,          \* bound: runs of all clients together
  MaxMishaps        \* bound: losses, duplicates, signals, kills, restarts

ASSUME Bounds ==
  {MAX_CLIENTS, MaxLines, MaxRuns, MaxMishaps} \subseteq Nat

VARIABLES
  clients,    \* the server's table, clients[0 .. nclients - 1]
  net,        \* datagrams on their way
  pc, g_stop, \* each client's place in main(), and its flag
  run, line,  \* runs begun, lines sent in this one
  printed,    \* history: answers printed in this run
  mishaps,    \* history: what befell the client since its run began
  answer,     \* history: whom the server last served, and its number
  used        \* number of mishaps so far

server == <<clients, answer>>
client == <<pc, g_stop, run, line, printed>>
vars == <<server, net, client, mishaps, used>>

Entry(c, n) == [addr |-> c, counter |-> n]
M(c) == [type |-> "M", addr |-> c, run |-> run[c], line |-> line[c] + 1, copy |-> 1]
C(c) == [type |-> "C", addr |-> c, run |-> run[c], copy |-> 1]
Reply(m, n) == [type |-> "R", addr |-> m.addr, run |-> m.run, line |-> m.line,
                counter |-> n, copy |-> 1]
InFlight(c, types) == {p \in net : p.addr = c /\ p.type \in types}
Known(c) == \E i \in DOMAIN clients : clients[i].addr = c

Mishap == used < MaxMishaps /\ used' = used + 1
Befalls(c, what) == mishaps' = [mishaps EXCEPT ![c] = @ \cup {what}]

Init ==
  /\ clients = <<>> /\ net = {}
  /\ pc = [c \in Clients |-> "off"] /\ g_stop = [c \in Clients |-> FALSE]
  /\ run = [c \in Clients |-> 0] /\ line = [c \in Clients |-> 0]
  /\ printed = [c \in Clients |-> <<>>]
  /\ mishaps = [c \in Clients |-> {}]
  /\ answer = <<>>
  /\ used = 0

-----------------------------------------------------------------------------
(* The server: one pass of its loop per datagram.                          *)
(* Index of the client's entry. *)
find_client(c) == CHOOSE i \in DOMAIN clients : clients[i].addr = c

(* Slip: the last entry is dropped without being moved. *)
RemoveClientLast(i) == Front(clients)
(* Slip: nclients is not decremented. *)
RemoveClientKeeps(i) == [clients EXCEPT ![i] = Last(clients)]
remove_client(i) == Front([clients EXCEPT ![i] = Last(clients)])

CloseReceived(p) ==
  /\ p.type = "C"
  /\ net' = net \ {p}
  /\ clients' = IF Known(p.addr) THEN remove_client(find_client(p.addr)) ELSE clients
  /\ IF InFlight(p.addr, {"M"}) # {} THEN Befalls(p.addr, "overtaken")
                                    ELSE UNCHANGED mishaps
  /\ answer' = IF Known(p.addr) THEN <<p.addr, 0>> ELSE answer
  /\ UNCHANGED <<client, used>>

(* Slip: nclients > MAX_CLIENTS. *)
FullTooLate == Len(clients) > MAX_CLIENTS
Full == Len(clients) >= MAX_CLIENTS

Refuse(p) ==
  /\ p.type = "M" /\ ~Known(p.addr) /\ Full
  /\ net' = net \ {p}
  /\ Befalls(p.addr, "refused")
  /\ UNCHANGED <<server, client, used>>

(* The table once the message is counted. *)
Count(c) ==
  IF Known(c) THEN [clients EXCEPT ![find_client(c)].counter = @ + 1]
              ELSE Append(clients, Entry(c, 1))

(* Slip: only a new client is answered. *)
AnswerNew(p, n) == IF n = 1 THEN {Reply(p, n)} ELSE {}
Answer(p, n) == {Reply(p, n)}

MessageReceived(p) ==
  /\ p.type = "M" /\ (Known(p.addr) \/ ~Full)
  /\ clients' = Count(p.addr)
  /\ LET n == IF Known(p.addr) THEN clients'[find_client(p.addr)].counter ELSE 1
     IN /\ net' = (net \ {p}) \cup Answer(p, n)
        /\ answer' = <<p.addr, n>>
  /\ UNCHANGED <<client, mishaps, used>>

ServerRestart ==
  /\ Mishap
  /\ clients' = <<>>
  /\ mishaps' = [c \in Clients |-> mishaps[c] \cup {"restarted"}]
  /\ UNCHANGED <<answer, net, client>>

-----------------------------------------------------------------------------
(* What leaves a client's entry in the table when the client has gone. *)
Unreturned(c) ==
  mishaps[c] \cap {"unclosed", "duplicated", "overtaken", "leftover"} # {}

(* The client. Its socket sees only what arrives while it is open; what an *)
(* earlier run left on the way or in the table may still meet the new one. *)
MayStart == FoldFunction(+, 0, run) < MaxRuns

Start(c) ==
  /\ pc[c] = "off" /\ MayStart
  /\ pc' = [pc EXCEPT ![c] = "fgets"]
  /\ g_stop' = [g_stop EXCEPT ![c] = FALSE]
  /\ run' = [run EXCEPT ![c] = @ + 1] /\ line' = [line EXCEPT ![c] = 0]
  /\ printed' = [printed EXCEPT ![c] = <<>>]
  /\ mishaps' = [mishaps EXCEPT ![c] =
       IF InFlight(c, {"M", "C", "R"}) # {} \/ (Known(c) /\ Unreturned(c))
       THEN {"leftover"} ELSE {}]
  /\ UNCHANGED <<server, net, used>>

Goto(c, l) == pc' = [pc EXCEPT ![c] = l]
(* The test of g_stop after a call. *)
UnlessStopped(c, l) == Goto(c, IF g_stop[c] THEN "close" ELSE l)

(* fgets returns a line that is not empty. *)
SendLine(c) ==
  /\ pc[c] = "fgets" /\ line[c] < MaxLines
  /\ net' = net \cup {M(c)}
  /\ line' = [line EXCEPT ![c] = @ + 1]
  /\ UnlessStopped(c, "recvfrom")
  /\ UNCHANGED <<server, g_stop, run, printed, mishaps, used>>

EndOfInput(c) ==
  /\ pc[c] = "fgets"
  /\ Goto(c, "close")
  /\ UNCHANGED <<server, net, g_stop, run, line, printed, mishaps, used>>

ReceiveAnswer(c) ==
  /\ pc[c] = "recvfrom"
  /\ \E p \in InFlight(c, {"R"}) :
       /\ net' = net \ {p}
       /\ printed' = [printed EXCEPT ![c] =
                        Append(@, [run |-> p.run, line |-> p.line, counter |-> p.counter])]
  /\ UnlessStopped(c, "fgets")
  /\ UNCHANGED <<server, g_stop, run, line, mishaps, used>>

SendClose(c) ==
  /\ pc[c] = "close"
  /\ net' = net \cup {C(c)}
  /\ Goto(c, "off")
  /\ UNCHANGED <<server, g_stop, run, line, printed, mishaps, used>>

(* Slip: the client returns at once. *)
InterruptedLeaves(c) == Goto(c, "off")
Interrupted(c) == Goto(c, "close")

(* handle_stop_signal: fgets and recvfrom return at once, unless the signal *)
(* came between the test of g_stop and the call.                            *)
Signal(c) ==
  /\ pc[c] # "off" /\ Mishap
  /\ g_stop' = [g_stop EXCEPT ![c] = TRUE]
  /\ UNCHANGED pc \/ Interrupted(c)
  /\ UNCHANGED <<server, net, run, line, printed, mishaps>>

(* SIGKILL: nothing is sent. *)
Kill(c) ==
  /\ pc[c] # "off" /\ Mishap
  /\ Goto(c, "off") /\ Befalls(c, "unclosed")
  /\ UNCHANGED <<server, net, g_stop, run, line, printed>>

-----------------------------------------------------------------------------
(* The network.                                                            *)
Lose(p) ==
  /\ Mishap
  /\ net' = net \ {p}
  /\ Befalls(p.addr, IF p.type = "C" THEN "unclosed" ELSE "lost")
  /\ UNCHANGED <<server, client>>

Duplicate(p) ==
  /\ p.copy = 1 /\ Mishap
  /\ net' = net \cup {[p EXCEPT !.copy = 2]}
  /\ Befalls(p.addr, "duplicated")
  /\ UNCHANGED <<server, client>>

(* An answer that finds no client there. *)
Unheard(p) ==
  /\ p.type = "R" /\ pc[p.addr] = "off"
  /\ net' = net \ {p}
  /\ UNCHANGED <<server, client, mishaps, used>>

ServerStep == \E p \in net : CloseReceived(p) \/ Refuse(p) \/ MessageReceived(p)
Next ==
  \/ ServerStep \/ ServerRestart
  \/ \E c \in Clients :
       \/ Start(c) \/ SendLine(c) \/ EndOfInput(c) \/ ReceiveAnswer(c)
       \/ SendClose(c) \/ Signal(c) \/ Kill(c)
  \/ \E p \in net : Lose(p) \/ Duplicate(p) \/ Unheard(p)

Spec == Init /\ [][Next]_vars

-----------------------------------------------------------------------------
(* Every variable holds values of its type, and the table one entry per     *)
(* address and MAX_CLIENTS of them.                                         *)
Packet ==
  [type : {"M"}, addr : Clients, run : Nat, line : 1 .. MaxLines, copy : {1, 2}]
  \cup [type : {"C"}, addr : Clients, run : Nat, copy : {1, 2}]
  \cup [type : {"R"}, addr : Clients, run : Nat, line : 1 .. MaxLines,
        counter : Nat \ {0}, copy : {1, 2}]

TypeOK ==
  /\ clients \in Seq([addr : Clients, counter : Nat \ {0}])
  /\ Len(clients) <= MAX_CLIENTS
  /\ \A i, j \in DOMAIN clients : clients[i].addr = clients[j].addr => i = j
  /\ net \subseteq Packet
  /\ pc \in [Clients -> {"off", "fgets", "recvfrom", "close"}]
  /\ g_stop \in [Clients -> BOOLEAN]
  /\ run \in [Clients -> Nat] /\ line \in [Clients -> 0 .. MaxLines]
  /\ printed \in [Clients -> Seq([run : Nat, line : Nat, counter : Nat])]
  /\ mishaps \in [Clients -> SUBSET {"unclosed", "lost", "duplicated", "overtaken",
                                    "leftover", "refused", "restarted"}]

(* In a run that began with nothing left over, with no duplicate and no     *)
(* restart of the server, the i-th answer printed is the server's to the    *)
(* i-th line and says i: the client does not match answers to lines, it     *)
(* takes the next datagram from the server's address.                       *)
AnswersMatch ==
  \A c \in Clients :
    mishaps[c] \cap {"leftover", "duplicated", "restarted"} = {} =>
      \A i \in DOMAIN printed[c] :
        printed[c][i] = [run |-> run[c], line |-> i, counter |-> i]

(* A client that has left has no entry once its datagrams have arrived,     *)
(* unless its close was lost or never sent, a message came again or after   *)
(* the close: nothing else takes one of the MAX_CLIENTS slots for good.     *)
SlotsReturned ==
  TypeOK /\ \A c \in Clients :
    (pc[c] = "off" /\ InFlight(c, {"M", "C"}) = {} /\ Known(c)) =>
      Unreturned(c)

(* Whoever waits for an answer has a line or an answer on its way, unless a *)
(* datagram was lost or the table was full: nobody times out, so a line the *)
(* server drops for any other reason would be waited for without end.       *)
AnswerUnderWay ==
  \A c \in Clients :
    pc[c] = "recvfrom" =>
      InFlight(c, {"M", "R"}) # {} \/ mishaps[c] \cap {"lost", "refused"} # {}

(* The table and the answers implement a number per address, whatever moves *)
(* in the table and however the clients' datagrams interleave.              *)
CountOf(c) == IF Known(c) THEN clients[find_client(c)].counter ELSE 0
Service == INSTANCE Counters WITH count <- [c \in Clients |-> CountOf(c)]
CountersSpec == Service!Spec
=============================================================================
