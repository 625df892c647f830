-------------------------------- MODULE Chat --------------------------------
(***************************************************************************)
(* module3/practice7: the chat server (server.c), one thread around poll() *)
(* that reads a frame from every ready client and writes it to all others, *)
(* and its clients (client.c), one thread around select() on the socket    *)
(* and the terminal. Every read and write of a frame blocks; a socket      *)
(* holds Buffer frames each way.                                           *)
(***************************************************************************)
EXTENDS Integers, Sequences, FiniteSets, SequencesExt, Functions

CONSTANTS Clients,        \* numbered in the order in which they connect
          Buffer,
          Sizes,          \* of the server's table, to run with
          MaxLines        \* bound: lines typed by all clients together
ASSUME Bounds == Clients \subseteq Nat \ {0} /\ Sizes \subseteq Nat /\ Buffer \in Nat \ {0} /\ MaxLines \in Nat

VARIABLES
  MAX_CLIENTS,  \* size of the table in this run
  spc,          \* the server: poll, accept, hello, scan, send, dead
  clients,      \* clients[0 .. nclients - 1]
  revents,      \* slots poll() reported, as scanned later
  knock,        \* pfds[0].revents
  slot,         \* the loop index i, 1 for the first client
  accepted,     \* cfd while its first frame is awaited
  todo, frame,  \* the broadcast under way: slots it has still to reach, what it says
  backlog,      \* connections not yet accepted
  cpc,          \* each client: off, nick, loop, write, closed
  line,         \* the frame a client is writing
  up, down,     \* frames in each socket, to and from the server
  hungUp,       \* clients whose connection the server has closed
  typed,        \* lines each client has sent
  log, joined,  \* history: frames broadcast; length of log at each join
  got           \* history: frames each client has read

server == <<spc, clients, revents, knock, slot, accepted, todo, frame>>
sockets == <<backlog, up, down, hungUp>>
client == <<cpc, line, typed, got>>
rest == <<MAX_CLIENTS, log, joined>>
vars == <<server, sockets, client, rest>>

NoClient == 0
NoFrame == [kind |-> "none", from |-> NoClient, n |-> 0]
Kinds == {"nick", "text", "joined", "left"}
Frame == [kind : Kinds, from : Clients, n : Nat]
F(kind, c, n) == [kind |-> kind, from |-> c, n |-> n]

Init ==
  /\ MAX_CLIENTS \in Sizes
  /\ spc = "poll" /\ clients = <<>> /\ revents = {} /\ knock = FALSE
  /\ slot = 1 /\ accepted = NoClient /\ todo = {} /\ frame = NoFrame
  /\ backlog = <<>>
  /\ cpc = [c \in Clients |-> "off"] /\ line = [c \in Clients |-> NoFrame]
  /\ up = [c \in Clients |-> <<>>] /\ down = [c \in Clients |-> <<>>]
  /\ hungUp = {}
  /\ typed = [c \in Clients |-> 0] /\ got = [c \in Clients |-> <<>>]
  /\ log = <<>> /\ joined = [c \in Clients |-> 0]

Closed(c) == cpc[c] = "closed"
Members == ToSet(clients)
nclients == Len(clients)

-----------------------------------------------------------------------------
(* poll(): which descriptors are readable now, a closed one included.      *)
Readable(c) == up[c] # <<>> \/ Closed(c)
ReadySlots == {i \in 1 .. nclients : Readable(clients[i])}

Poll ==
  /\ spc = "poll" /\ (backlog # <<>> \/ ReadySlots # {})
  /\ knock' = (backlog # <<>>) /\ revents' = ReadySlots
  /\ spc' = "accept"
  /\ UNCHANGED <<clients, slot, accepted, todo, frame, sockets, client, rest>>

StartScan == spc' = "scan" /\ slot' = 1 /\ knock' = FALSE

NoKnock ==
  /\ spc = "accept" /\ ~knock /\ StartScan
  /\ UNCHANGED <<clients, revents, accepted, todo, frame, sockets, client, rest>>

HangUp(c) == hungUp' = hungUp \cup {c}

(* accept(): a client too many is closed at once, another one is waited    *)
(* for until its nickname has come.                                        *)
(* Slip: <= instead of <. *)
RoomForOneMore == nclients <= MAX_CLIENTS
Room == nclients < MAX_CLIENTS
Accept ==
  /\ spc = "accept" /\ knock
  /\ backlog' = Tail(backlog)
  /\ IF Room
     THEN /\ accepted' = Head(backlog) /\ spc' = "hello"
          /\ UNCHANGED <<knock, slot, hungUp>>
     ELSE StartScan /\ HangUp(Head(backlog)) /\ UNCHANGED accepted
  /\ UNCHANGED <<clients, revents, todo, frame, up, down, client, rest>>

(* broadcast(): everyone in the table but one, in table order. *)
Others(table, c) == {i \in DOMAIN table : table[i] # c}
Broadcast(f, table, except) ==
  /\ frame' = f /\ todo' = Others(table, except)
  /\ log' = Append(log, f)

(* The new client's slot was not filled by poll(): revents there is what   *)
(* the stack held.                                                         *)
Join ==
  /\ spc = "hello" /\ up[accepted] # <<>>
  /\ up' = [up EXCEPT ![accepted] = Tail(@)]
  /\ clients' = Append(clients, accepted)
  /\ \E stale \in BOOLEAN :
       revents' = IF stale THEN revents \cup {nclients + 1} ELSE revents
  /\ Broadcast(F("joined", accepted, 0), clients', accepted)
  /\ joined' = [joined EXCEPT ![accepted] = Len(log')]
  /\ accepted' = NoClient /\ knock' = FALSE /\ slot' = 0 /\ spc' = "send"
  /\ UNCHANGED <<backlog, down, hungUp, client, MAX_CLIENTS>>

HelloFails ==
  /\ spc = "hello" /\ up[accepted] = <<>> /\ Closed(accepted)
  /\ HangUp(accepted) /\ accepted' = NoClient /\ StartScan
  /\ UNCHANGED <<clients, revents, todo, frame, backlog, up, down, client, rest>>

-----------------------------------------------------------------------------
(* The loop over the slots. *)
(* Slip: the first slot is left out. *)
PendingButFirst == {i \in revents : slot < i /\ i <= nclients}
Pending == {i \in revents : slot <= i /\ i <= nclients}
Current == CHOOSE i \in Pending : \A j \in Pending : i <= j
Speaker == clients[Current]

EndScan ==
  /\ spc = "scan" /\ Pending = {}
  /\ spc' = "poll" /\ slot' = 1 /\ revents' = {}
  /\ UNCHANGED <<clients, knock, accepted, todo, frame, sockets, client, rest>>

(* Slip: the frame goes back to its sender as well. *)
ExceptNobody(c) == NoClient
Except(c) == c

Relay ==
  /\ spc = "scan" /\ Pending # {} /\ up[Speaker] # <<>>
  /\ up' = [up EXCEPT ![Speaker] = Tail(@)]
  /\ Broadcast(Head(up[Speaker]), clients, Except(Speaker))
  /\ slot' = Current /\ spc' = "send"
  /\ UNCHANGED <<clients, revents, knock, accepted, backlog, down, hungUp,
                 client, joined, MAX_CLIENTS>>

(* remove_client(): the last entry takes the place of the removed one, and *)
(* the loop goes on behind it.                                             *)
(* Slip: the last entry is not moved. *)
RemoveClientTruncates(i) == Front(clients)
remove_client(i) ==
  IF i = nclients THEN Front(clients) ELSE Front([clients EXCEPT ![i] = Last(clients)])

Leave ==
  /\ spc = "scan" /\ Pending # {}
  /\ up[Speaker] = <<>> /\ Closed(Speaker)
  /\ HangUp(Speaker)
  /\ clients' = remove_client(Current)
  /\ Broadcast(F("left", Speaker, 0), clients', NoClient)
  /\ slot' = Current /\ spc' = "send"
  /\ UNCHANGED <<revents, knock, accepted, backlog, up, down, client, joined, MAX_CLIENTS>>

(* send_frame() to the next recipient: waits for room. A recipient that    *)
(* has left does not stop the broadcast, or its reset ends the server      *)
(* with SIGPIPE, which nothing ignores.                                    *)
NextSlot == CHOOSE i \in todo : \A j \in todo : i <= j
Recipient == clients[NextSlot]

SendFrame ==
  /\ spc = "send" /\ todo # {}
  /\ ~Closed(Recipient) /\ Len(down[Recipient]) < Buffer
  /\ down' = [down EXCEPT ![Recipient] = Append(@, frame)]
  /\ todo' = todo \ {NextSlot}
  /\ UNCHANGED <<spc, clients, revents, knock, slot, accepted, frame,
                 backlog, up, hungUp, client, rest>>

SendToLeaver ==
  /\ spc = "send" /\ todo # {} /\ Closed(Recipient)
  /\ \/ /\ todo' = todo \ {NextSlot} /\ UNCHANGED <<spc, hungUp>>
     \/ spc' = "dead" /\ hungUp' = Clients /\ UNCHANGED todo
  /\ UNCHANGED <<clients, revents, knock, slot, accepted, frame,
                 backlog, up, down, client, rest>>

SendDone ==
  /\ spc = "send" /\ todo = {}
  /\ spc' = "scan" /\ slot' = slot + 1 /\ frame' = NoFrame
  /\ UNCHANGED <<clients, revents, knock, accepted, todo, sockets, client, rest>>

-----------------------------------------------------------------------------
(* A client connects and sends its nickname. *)
Connect(c) ==
  /\ cpc[c] = "off" /\ spc # "dead" /\ \A d \in Clients : d < c => cpc[d] # "off"
  /\ cpc' = [cpc EXCEPT ![c] = "write"]
  /\ line' = [line EXCEPT ![c] = F("nick", c, 0)]
  /\ backlog' = Append(backlog, c)
  /\ UNCHANGED <<server, up, down, hungUp, typed, got, rest>>

(* A line is typed; while it is written the client reads nothing. *)
MayType == FoldFunction(+, 0, typed) < MaxLines
Type(c) ==
  /\ cpc[c] = "loop" /\ MayType
  /\ typed' = [typed EXCEPT ![c] = @ + 1]
  /\ line' = [line EXCEPT ![c] = F("text", c, typed'[c])]
  /\ cpc' = [cpc EXCEPT ![c] = "write"]
  /\ UNCHANGED <<server, sockets, got, rest>>

Write(c) ==
  /\ cpc[c] = "write" /\ (c \in hungUp \/ Len(up[c]) < Buffer)
  /\ up' = IF c \in hungUp THEN up ELSE [up EXCEPT ![c] = Append(@, line[c])]
  /\ line' = [line EXCEPT ![c] = NoFrame]
  /\ \/ cpc' = [cpc EXCEPT ![c] = "loop"]
     \/ c \in hungUp /\ cpc' = [cpc EXCEPT ![c] = "closed"]
  /\ UNCHANGED <<server, backlog, down, hungUp, typed, got, rest>>

Read(c) ==
  /\ cpc[c] = "loop" /\ down[c] # <<>>
  /\ got' = [got EXCEPT ![c] = Append(@, Head(down[c]))]
  /\ down' = [down EXCEPT ![c] = Tail(@)]
  /\ UNCHANGED <<server, backlog, up, hungUp, cpc, line, typed, rest>>

(* Slip: the end of the connection is not an error of recv_frame. *)
ServerGoneMissed(c) == FALSE
ServerGone(c) == c \in hungUp /\ down[c] = <<>>
Hangup(c) ==
  /\ cpc[c] = "loop" /\ ServerGone(c)
  /\ cpc' = [cpc EXCEPT ![c] = "closed"]
  /\ UNCHANGED <<server, sockets, line, typed, got, rest>>

(* End of input, a stop signal, or the process is killed: also in the      *)
(* middle of a write, whose frame then never gets complete.                *)
Quit(c) ==
  /\ cpc[c] \in {"loop", "write"}
  /\ cpc' = [cpc EXCEPT ![c] = "closed"]
  /\ line' = [line EXCEPT ![c] = NoFrame]
  /\ UNCHANGED <<server, sockets, typed, got, rest>>

ServerStep ==
  \/ Poll \/ NoKnock \/ Accept \/ Join \/ HelloFails \/ EndScan
  \/ Relay \/ Leave \/ SendFrame \/ SendToLeaver \/ SendDone
ClientStep(c) == Write(c) \/ Read(c) \/ Hangup(c)

Next == \/ ServerStep
        \/ \E c \in Clients : ClientStep(c) \/ Connect(c) \/ Type(c) \/ Quit(c)

Spec == Init /\ [][Next]_vars

(* The server and the clients get the processor; nobody has to type, to    *)
(* connect or to leave.                                                    *)
FairSpec == /\ Spec /\ WF_vars(ServerStep)
            /\ \A c \in Clients : WF_vars(ClientStep(c))

-----------------------------------------------------------------------------
(* Every variable holds values of its type; no table or socket overflows.  *)
TypeOK ==
  /\ spc \in {"poll", "accept", "hello", "scan", "send", "dead"}
  /\ clients \in Seq(Clients) /\ nclients <= MAX_CLIENTS
  /\ revents \subseteq 1 .. MAX_CLIENTS /\ knock \in BOOLEAN /\ slot \in 0 .. MAX_CLIENTS + 1
  /\ accepted \in Clients \cup {NoClient}
  /\ todo \subseteq 1 .. MAX_CLIENTS /\ frame \in Frame \cup {NoFrame}
  /\ backlog \in Seq(Clients)
  /\ cpc \in [Clients -> {"off", "loop", "write", "closed"}]
  /\ line \in [Clients -> Frame \cup {NoFrame}]
  /\ up \in [Clients -> Seq(Frame)] /\ down \in [Clients -> Seq(Frame)]
  /\ \A c \in Clients : Len(up[c]) <= Buffer /\ Len(down[c]) <= Buffer
  /\ hungUp \subseteq Clients /\ typed \in [Clients -> Nat]
  /\ log \in Seq(Frame) /\ joined \in [Clients -> Nat] /\ got \in [Clients -> Seq(Frame)]

(* A connected client is in one place: waiting, being greeted, in the table *)
(* once, or closed by the server: the swap of remove_client loses no one.   *)
Connected(c) == cpc[c] # "off"
EachInOnePlace ==
  TypeOK /\ (spc # "dead" =>
    \A c \in Clients : Connected(c) =>
      1 = Cardinality({i \in DOMAIN backlog : backlog[i] = c})
          + Cardinality({i \in DOMAIN clients : clients[i] = c})
          + Cardinality({c} \cap {accepted}) + Cardinality({c} \cap hungUp))

(* All members see the conversation in one order: what was sent to a member *)
(* is what was broadcast since it joined, without its own frames.           *)
Foreign(c) == {j \in joined[c] + 1 .. Len(log) : log[j].from # c}
IsView(s, c) ==
  /\ Len(s) = Cardinality(Foreign(c))
  /\ \A j \in Foreign(c) : s[Cardinality({h \in Foreign(c) : h <= j})] = log[j]
Sent(c) == got[c] \o down[c]
Awaited(c) == \E i \in todo : clients[i] = c
CommonOrder ==
  spc # "dead" =>
    \A c \in Members : ~Closed(c) =>
      IsView(IF Awaited(c) THEN Append(Sent(c), frame) ELSE Sent(c), c)

(* A member's frames are taken, one after the other, unless the server is  *)
(* dead or waits for ever on another client: to read from one whose stale  *)
(* revents it believed, or to write to one that itself waits to write.     *)
AwaitsReader == spc = "scan" /\ Pending # {} /\ up[Speaker] = <<>> /\ ~Closed(Speaker)
AwaitsWriter == /\ spc = "send" /\ todo # {}
                /\ cpc[Recipient] = "write" /\ Len(down[Recipient]) = Buffer
FramesTaken ==
  \A c \in Clients : \A n \in 1 .. MaxLines :
    (c \in Members /\ up[c] # <<>> /\ Head(up[c]).n = n)
      ~> (up[c] = <<>> \/ Head(up[c]).n # n \/ spc = "dead" \/ AwaitsReader \/ AwaitsWriter)

(* The clients the server has closed end, whatever they were doing. *)
Stranded == {c \in hungUp : Connected(c) /\ ~Closed(c)}
HangupEndsClient == (Stranded # {}) ~> (Stranded = {})

(* A client is served, or ends. *)
ClientsServed == FramesTaken /\ HangupEndsClient
=============================================================================
