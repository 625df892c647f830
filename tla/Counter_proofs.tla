---------------------------- MODULE Counter_proofs ----------------------------
(***************************************************************************)
(* Proofs about Counter for every set of clients, every table size and     *)
(* every number of mishaps.                                                *)
(***************************************************************************)
EXTENDS Counter, SequenceTheorems, TLAPS

-----------------------------------------------------------------------------
(* The table as a function from addresses to numbers.  These lemmas are    *)
(* about any table t, so that they serve the table before and after a step.*)

TableEntry == [addr : Clients, counter : Nat \ {0}]

Table(t) ==
  /\ t \in Seq(TableEntry)
  /\ Len(t) <= MAX_CLIENTS
  /\ \A i, j \in DOMAIN t : t[i].addr = t[j].addr => i = j

Has(t, c) == \E i \in DOMAIN t : t[i].addr = c
IndexIn(t, c) == CHOOSE i \in DOMAIN t : t[i].addr = c
NumberIn(t, c) == IF Has(t, c) THEN t[IndexIn(t, c)].counter ELSE 0

LEMMA EntryCounts ==
  ASSUME NEW t, Table(t), NEW i \in DOMAIN t
  PROVE  t[i].counter \in Nat \ {0}
<1>1. t[i] \in TableEntry
  BY DEF Table
<1> QED
  BY <1>1 DEF TableEntry

(* The number of an address is the one beside it, wherever it stands.      *)
LEMMA NumberIsThere ==
  ASSUME NEW t, Table(t), NEW i \in DOMAIN t
  PROVE  /\ IndexIn(t, t[i].addr) = i
         /\ NumberIn(t, t[i].addr) = t[i].counter
<1>1. IndexIn(t, t[i].addr) = i
  BY DEF Table, IndexIn
<1> QED
  BY <1>1 DEF NumberIn, Has

(* An address is in the table exactly when its number is not zero.         *)
LEMMA KnownIsCounted ==
  ASSUME NEW t, Table(t), NEW c
  PROVE  /\ NumberIn(t, c) \in Nat
         /\ Has(t, c) <=> NumberIn(t, c) # 0
<1>1. CASE Has(t, c)
  <2>1. PICK i \in DOMAIN t : t[i].addr = c
    BY <1>1 DEF Has
  <2>2. t[i].counter \in Nat \ {0}
    BY EntryCounts
  <2> QED
    BY <1>1, <2>1, <2>2, NumberIsThere
<1>2. CASE ~Has(t, c)
  BY <1>2 DEF NumberIn
<1> QED
  BY <1>1, <1>2

(* remove_client: the entry is gone and no other number moved, although    *)
(* the last entry may have changed its place.                              *)
LEMMA RemoveTakesOne ==
  ASSUME TypeOK, NEW k \in DOMAIN clients
  PROVE  /\ Table(remove_client(k))
         /\ \A d \in Clients :
              NumberIn(remove_client(k), d) =
                IF d = clients[k].addr THEN 0 ELSE NumberIn(clients, d)
<1> DEFINE n == Len(clients)
           r == remove_client(k)
<1>1. /\ clients \in Seq(TableEntry) /\ n \in Nat /\ DOMAIN clients = 1 .. n
      /\ k \in 1 .. n /\ n >= 1 /\ Table(clients)
  BY DEF TypeOK, TableEntry, Table
<1>2. /\ r \in Seq(TableEntry) /\ Len(r) = n - 1 /\ DOMAIN r = 1 .. n - 1
      /\ \A i \in 1 .. n - 1 : r[i] = IF i = k THEN clients[n] ELSE clients[i]
  <2> DEFINE s == [clients EXCEPT ![k] = clients[n]]
  <2>1. s \in Seq(TableEntry) /\ Len(s) = n /\ \A i \in 1 .. n : s[i] \in TableEntry
    BY <1>1
  <2>2. \A i \in 1 .. n : s[i] = IF i = k THEN clients[n] ELSE clients[i]
    BY <1>1
  <2>3. r = SubSeq(s, 1, n - 1)
    BY <2>1 DEF remove_client, Front, Last
  <2> HIDE DEF s, r
  <2>4. /\ r \in Seq(TableEntry)
        /\ Len(r) = n - 1
        /\ \A i \in 1 .. n - 1 : r[i] = s[1 + i - 1]
    BY <1>1, <2>1, <2>3, SubSeqProperties
  <2>5. \A i \in 1 .. n - 1 : 1 + i - 1 = i /\ i \in 1 .. n
    BY <1>1
  <2> QED
    BY <2>2, <2>4, <2>5
<1> HIDE DEF n, r
<1>3. Table(r)
  <2>1. \A i, j \in DOMAIN r : r[i].addr = r[j].addr => i = j
    <3> SUFFICES ASSUME NEW i \in 1 .. n - 1, NEW j \in 1 .. n - 1, r[i].addr = r[j].addr
                 PROVE  i = j
      BY <1>2
    <3>1. i \in 1 .. n /\ j \in 1 .. n /\ n \in 1 .. n /\ i # n /\ j # n
      BY <1>1
    <3>2. \A u, v \in 1 .. n : clients[u].addr = clients[v].addr => u = v
      BY <1>1 DEF Table
    <3>3. /\ r[i] = IF i = k THEN clients[n] ELSE clients[i]
          /\ r[j] = IF j = k THEN clients[n] ELSE clients[j]
      BY <1>2
    <3> QED
      BY <3>1, <3>2, <3>3
  <2>2. Len(r) <= MAX_CLIENTS
    BY <1>1, <1>2, Bounds DEF Table, Bounds, n
  <2> QED
    BY <1>2, <2>1, <2>2 DEF Table
<1>4. ASSUME NEW d \in Clients, d = clients[k].addr
      PROVE  NumberIn(r, d) = 0
  <2>1. ASSUME NEW i \in 1 .. n - 1, r[i].addr = d
        PROVE  FALSE
    <3>1. i \in 1 .. n /\ n \in 1 .. n /\ i # n
      BY <1>1
    <3>2. \A u, v \in 1 .. n : clients[u].addr = clients[v].addr => u = v
      BY <1>1 DEF Table
    <3> QED
      BY <1>1, <1>2, <1>4, <2>1, <3>1, <3>2
  <2> QED
    BY <1>2, <2>1 DEF NumberIn, Has
<1>5. ASSUME NEW d \in Clients, d # clients[k].addr
      PROVE  NumberIn(r, d) = NumberIn(clients, d)
  <2>1. ASSUME NEW i \in 1 .. n, clients[i].addr = d
        PROVE  \E j \in 1 .. n - 1 : r[j] = clients[i]
    <3>1. CASE i = n
      <4>1. k \in 1 .. n - 1 /\ r[k] = clients[n]
        BY <1>1, <1>2, <1>5, <2>1, <3>1
      <4> QED
        BY <3>1, <4>1
    <3>2. CASE i # n
      <4>1. i \in 1 .. n - 1 /\ r[i] = clients[i]
        BY <1>1, <1>2, <1>5, <2>1, <3>2
      <4> QED
        BY <4>1
    <3> QED
      BY <3>1, <3>2
  <2>2. ASSUME NEW j \in 1 .. n - 1, r[j].addr = d
        PROVE  \E i \in 1 .. n : r[j] = clients[i]
    <3>1. j \in 1 .. n /\ n \in 1 .. n
      BY <1>1
    <3> QED
      BY <1>2, <3>1
  <2>3. CASE Has(clients, d)
    <3>1. PICK i \in 1 .. n : clients[i].addr = d
      BY <1>1, <2>3 DEF Has
    <3>2. PICK j \in 1 .. n - 1 : r[j] = clients[i]
      BY <2>1, <3>1
    <3>3. NumberIn(clients, d) = clients[i].counter
      BY <1>1, <3>1, NumberIsThere
    <3>4. NumberIn(r, d) = r[j].counter
      BY <1>2, <1>3, <3>1, <3>2, NumberIsThere
    <3> QED
      BY <3>2, <3>3, <3>4
  <2>4. CASE ~Has(clients, d)
    BY <1>1, <1>2, <2>2, <2>4 DEF NumberIn, Has
  <2> QED
    BY <2>3, <2>4
<1> QED
  BY <1>3, <1>4, <1>5 DEF r

(* A counted message raises the number of its sender and no other.         *)
LEMMA CountAddsOne ==
  ASSUME TypeOK, NEW c \in Clients, Known(c) \/ ~Full
  PROVE  /\ Table(Count(c))
         /\ \A d \in Clients :
              NumberIn(Count(c), d) = NumberIn(clients, d) + (IF d = c THEN 1 ELSE 0)
<1> DEFINE n == Len(clients)
           r == Count(c)
<1>1. /\ clients \in Seq(TableEntry) /\ n \in Nat /\ DOMAIN clients = 1 .. n
      /\ Table(clients)
      /\ MAX_CLIENTS \in Nat
  BY Bounds DEF TypeOK, TableEntry, Table, Bounds
<1>2. CASE Known(c)
  <2>1. PICK k \in 1 .. n : clients[k].addr = c
    BY <1>1, <1>2 DEF Known
  <2>2. find_client(c) = k
    BY <1>1, <2>1, NumberIsThere DEF find_client, IndexIn
  <2>3. r = [clients EXCEPT ![k] = [clients[k] EXCEPT !.counter = @ + 1]]
    BY <1>2, <2>2 DEF Count
  <2>4. clients[k] \in TableEntry
    BY <1>1
  <2>5. /\ [clients[k] EXCEPT !.counter = @ + 1] \in TableEntry
        /\ [clients[k] EXCEPT !.counter = @ + 1].addr = c
        /\ [clients[k] EXCEPT !.counter = @ + 1].counter = clients[k].counter + 1
    BY <2>1, <2>4 DEF TableEntry
  <2>6. /\ r \in Seq(TableEntry) /\ Len(r) = n /\ DOMAIN r = 1 .. n
        /\ r[k].addr = c /\ r[k].counter = clients[k].counter + 1
        /\ \A i \in 1 .. n : i # k => r[i] = clients[i]
    BY <1>1, <2>3, <2>5
  <2> HIDE DEF n, r
  <2>7. \A i \in 1 .. n : r[i].addr = clients[i].addr
    BY <2>1, <2>6
  <2>8. Table(r)
    BY <1>1, <2>6, <2>7 DEF Table, n
  <2>9. ASSUME NEW d \in Clients
        PROVE  NumberIn(r, d) = NumberIn(clients, d) + (IF d = c THEN 1 ELSE 0)
    <3>1. CASE \E i \in 1 .. n : clients[i].addr = d
      <4>1. PICK i \in 1 .. n : clients[i].addr = d
        BY <3>1
      <4>2. NumberIn(clients, d) = clients[i].counter /\ clients[i].counter \in Nat
        BY <1>1, <4>1, NumberIsThere, EntryCounts
      <4>3. NumberIn(r, d) = r[i].counter
        BY <2>6, <2>7, <2>8, <4>1, NumberIsThere
      <4>4. i = k <=> d = c
        BY <1>1, <2>1, <4>1 DEF Table
      <4> QED
        BY <2>6, <4>2, <4>3, <4>4
    <3>2. CASE ~\E i \in 1 .. n : clients[i].addr = d
      <4>1. d # c /\ NumberIn(clients, d) = 0 /\ NumberIn(r, d) = 0
        BY <1>1, <2>1, <2>6, <2>7, <3>2 DEF NumberIn, Has
      <4> QED
        BY <4>1
    <3> QED
      BY <3>1, <3>2
  <2> QED
    BY <2>8, <2>9 DEF r
<1>3. CASE ~Known(c)
  <2>1. r = Append(clients, Entry(c, 1)) /\ n + 1 <= MAX_CLIENTS
    BY <1>1, <1>3 DEF Count, Full
  <2>2. Entry(c, 1) \in TableEntry /\ Entry(c, 1).addr = c /\ Entry(c, 1).counter = 1
    BY DEF Entry, TableEntry
  <2>3. /\ r \in Seq(TableEntry) /\ Len(r) = n + 1 /\ DOMAIN r = 1 .. n + 1
        /\ r[n + 1] = Entry(c, 1)
        /\ \A i \in 1 .. n : r[i] = clients[i]
    BY <1>1, <2>1, <2>2, AppendProperties
  <2>4. \A i \in 1 .. n : clients[i].addr # c
    BY <1>1, <1>3 DEF Known
  <2>5. \A i \in 1 .. n + 1 : i \in 1 .. n \/ i = n + 1
    BY <1>1
  <2>6. n + 1 \in 1 .. n + 1 /\ \A i \in 1 .. n : i \in 1 .. n + 1
    BY <1>1
  <2> HIDE DEF n, r
  <2>7. Table(r)
    <3>1. \A i, j \in DOMAIN r : r[i].addr = r[j].addr => i = j
      BY <1>1, <2>2, <2>3, <2>4, <2>5 DEF Table
    <3> QED
      BY <2>1, <2>3, <3>1 DEF Table
  <2>8. ASSUME NEW d \in Clients
        PROVE  NumberIn(r, d) = NumberIn(clients, d) + (IF d = c THEN 1 ELSE 0)
    <3>1. CASE d = c
      <4>1. NumberIn(r, c) = 1
        BY <2>2, <2>3, <2>6, <2>7, NumberIsThere
      <4>2. NumberIn(clients, c) = 0
        BY <1>1, <2>4 DEF NumberIn, Has
      <4> QED
        BY <3>1, <4>1, <4>2
    <3>2. CASE d # c /\ \E i \in 1 .. n : clients[i].addr = d
      <4>1. PICK i \in 1 .. n : clients[i].addr = d
        BY <3>2
      <4>2. NumberIn(clients, d) = clients[i].counter /\ clients[i].counter \in Nat
        BY <1>1, <4>1, NumberIsThere, EntryCounts
      <4>3. NumberIn(r, d) = r[i].counter
        BY <2>3, <2>6, <2>7, <4>1, NumberIsThere
      <4> QED
        BY <2>3, <3>2, <4>2, <4>3
    <3>3. CASE d # c /\ ~\E i \in 1 .. n : clients[i].addr = d
      <4>1. NumberIn(clients, d) = 0 /\ NumberIn(r, d) = 0
        BY <1>1, <2>2, <2>3, <2>5, <3>3 DEF NumberIn, Has
      <4> QED
        BY <3>3, <4>1
    <3> QED
      BY <3>1, <3>2, <3>3
  <2> QED
    BY <2>7, <2>8 DEF r
<1> QED
  BY <1>2, <1>3
-----------------------------------------------------------------------------
(* What the steps of the server do to the numbers.                         *)

LEMMA NowIn ==
  ASSUME TypeOK, NEW c \in Clients
  PROVE  /\ Table(clients)
         /\ CountOf(c) = NumberIn(clients, c) /\ CountOf(c) \in Nat
         /\ Known(c) <=> CountOf(c) # 0
<1>1. Table(clients)
  BY DEF TypeOK, Table, TableEntry
<1>2. CountOf(c) = NumberIn(clients, c) /\ (Known(c) <=> Has(clients, c))
  BY DEF CountOf, Known, find_client, NumberIn, Has, IndexIn
<1> QED
  BY <1>1, <1>2, KnownIsCounted

LEMMA NextIn ==
  ASSUME NEW c \in Clients, Table(clients')
  PROVE  /\ CountOf(c)' = NumberIn(clients', c)
         /\ Known(c)' <=> CountOf(c)' # 0
<1>1. CountOf(c)' = NumberIn(clients', c) /\ (Known(c)' <=> Has(clients', c))
  BY DEF CountOf, Known, find_client, NumberIn, Has, IndexIn
<1> QED
  BY <1>1, KnownIsCounted

LEMMA PacketFields ==
  ASSUME TypeOK, NEW p \in net
  PROVE  /\ p \in Packet /\ p.addr \in Clients /\ p.type \in {"M", "C", "R"} /\ p.run \in Nat
         /\ p.type \in {"M", "R"} => p.line \in 1 .. MaxLines
         /\ p.type = "R" => p.counter \in Nat \ {0}
<1>1. p \in Packet
  BY DEF TypeOK
<1> QED
  BY <1>1 DEF Packet

LEMMA CloseCounts ==
  ASSUME TypeOK, NEW p \in net, CloseReceived(p)
  PROVE  /\ Table(clients')
         /\ \A d \in Clients : CountOf(d)' = IF d = p.addr THEN 0 ELSE CountOf(d)
<1>1. p.addr \in Clients
  BY PacketFields
<1>2. CASE ~Known(p.addr)
  <2>1. clients' = clients
    BY <1>2 DEF CloseReceived
  <2>2. Table(clients')
    BY <1>1, <2>1, NowIn
  <2>3. CountOf(p.addr) = 0
    BY <1>1, <1>2, NowIn
  <2> QED
    BY <2>1, <2>2, <2>3, NowIn, NextIn
<1>3. CASE Known(p.addr)
  <2>1. PICK k \in DOMAIN clients : clients[k].addr = p.addr
    BY <1>3 DEF Known
  <2>2. find_client(p.addr) = k
    BY <1>1, <2>1, NowIn, NumberIsThere DEF find_client, IndexIn
  <2>3. clients' = remove_client(k)
    BY <1>3, <2>2 DEF CloseReceived
  <2>4. Table(clients')
    BY <2>3, RemoveTakesOne
  <2> QED
    BY <2>1, <2>3, <2>4, NowIn, NextIn, RemoveTakesOne
<1> QED
  BY <1>2, <1>3

LEMMA MessageCounts ==
  ASSUME TypeOK, NEW p \in net, MessageReceived(p)
  PROVE  LET n == CountOf(p.addr) + 1 IN
         /\ Table(clients')
         /\ \A d \in Clients : CountOf(d)' = IF d = p.addr THEN n ELSE CountOf(d)
         /\ net' = (net \ {p}) \cup {Reply(p, n)}
         /\ answer' = <<p.addr, n>>
<1> DEFINE c == p.addr
<1>1. c \in Clients /\ (Known(c) \/ ~Full) /\ clients' = Count(c)
  BY PacketFields DEF MessageReceived
<1>2. Table(clients')
  BY <1>1, CountAddsOne
<1>3. \A d \in Clients : CountOf(d)' = IF d = c THEN CountOf(c) + 1 ELSE CountOf(d)
  <2>1. \A d \in Clients : CountOf(d)' = CountOf(d) + (IF d = c THEN 1 ELSE 0)
    BY <1>1, <1>2, CountAddsOne, NowIn, NextIn
  <2>2. \A d \in Clients : CountOf(d) \in Nat
    BY NowIn
  <2> QED
    BY <2>1, <2>2
<1>4. (IF Known(c) THEN clients'[find_client(c)].counter ELSE 1) = CountOf(c) + 1
  <2>1. CASE ~Known(c)
    BY <1>1, <2>1, NowIn
  <2>2. CASE Known(c)
    <3>1. PICK k \in DOMAIN clients : clients[k].addr = c
      BY <2>2 DEF Known
    <3>2. find_client(c) = k /\ CountOf(c) = clients[k].counter
      BY <1>1, <2>2, <3>1, NowIn, NumberIsThere DEF find_client, IndexIn
    <3>3. clients[k] \in TableEntry /\ clients \in Seq(TableEntry)
      BY <1>1, NowIn DEF Table
    <3>4. clients' = [clients EXCEPT ![k] = [clients[k] EXCEPT !.counter = @ + 1]]
      BY <1>1, <2>2, <3>2 DEF Count
    <3>5. clients'[k].counter = clients[k].counter + 1
      BY <3>3, <3>4 DEF TableEntry
    <3> QED
      BY <2>2, <3>2, <3>5
  <2> QED
    BY <2>1, <2>2
<1> QED
  BY <1>1, <1>2, <1>3, <1>4 DEF MessageReceived, Answer

-----------------------------------------------------------------------------
(* Type correctness, with one entry per address and no more entries than   *)
(* the table has slots.                                                    *)

Mishaps == {"unclosed", "lost", "duplicated", "overtaken", "leftover", "refused", "restarted"}
PrintedLine == [run : Nat, line : Nat, counter : Nat]

ClientTypes ==
  /\ pc \in [Clients -> {"off", "fgets", "recvfrom", "close"}]
  /\ g_stop \in [Clients -> BOOLEAN]
  /\ run \in [Clients -> Nat] /\ line \in [Clients -> 0 .. MaxLines]
  /\ printed \in [Clients -> Seq(PrintedLine)]

LEMMA TypeParts ==
  TypeOK <=> /\ Table(clients) /\ net \subseteq Packet /\ ClientTypes
             /\ mishaps \in [Clients -> SUBSET Mishaps]
BY DEF TypeOK, Table, TableEntry, ClientTypes, Mishaps, PrintedLine

LEMMA BefallsTypes ==
  ASSUME TypeOK, NEW c \in Clients, NEW what \in Mishaps, Befalls(c, what)
  PROVE  mishaps' \in [Clients -> SUBSET Mishaps]
<1>1. mishaps \in [Clients -> SUBSET Mishaps]
  BY TypeParts
<1> QED
  BY <1>1 DEF Befalls

LEMMA InitTypeOK == Init => TypeOK
<1> SUFFICES ASSUME Init PROVE TypeOK
  OBVIOUS
<1>1. Table(clients)
  BY Bounds DEF Init, Table, Bounds
<1>2. ClientTypes
  <2>1. 0 \in 0 .. MaxLines
    BY Bounds DEF Bounds
  <2>2. <<>> \in Seq(PrintedLine)
    OBVIOUS
  <2> QED
    BY <2>1, <2>2 DEF Init, ClientTypes
<1>3. net \subseteq Packet /\ mishaps \in [Clients -> SUBSET Mishaps]
  BY DEF Init
<1> QED
  BY <1>1, <1>2, <1>3, TypeParts

LEMMA TypesStep == ASSUME TypeOK, [Next]_vars PROVE TypeOK'
<1> DEFINE Types(cl, ne, mi) ==
             Table(cl) /\ ne \subseteq Packet /\ mi \in [Clients -> SUBSET Mishaps]
<1>a. Types(clients, net, mishaps) /\ ClientTypes
  BY TypeParts
<1>b. ASSUME Types(clients', net', mishaps'), ClientTypes'
      PROVE  TypeOK'
  BY <1>b DEF TypeOK, Table, TableEntry, ClientTypes, Mishaps, PrintedLine
<1>c. UNCHANGED client => ClientTypes'
  BY <1>a DEF client, ClientTypes
<1> USE DEF server
<1>1. ASSUME NEW p \in net, CloseReceived(p)
      PROVE  TypeOK'
  <2>1. Table(clients')
    BY <1>1, CloseCounts
  <2>2. net' \subseteq Packet
    BY <1>1, <1>a DEF CloseReceived
  <2>3. mishaps' \in [Clients -> SUBSET Mishaps]
    BY <1>1, <1>a, PacketFields, BefallsTypes DEF CloseReceived, Mishaps
  <2> QED
    BY <1>1, <1>b, <1>c, <2>1, <2>2, <2>3 DEF CloseReceived
<1>2. ASSUME NEW p \in net, Refuse(p)
      PROVE  TypeOK'
  <2>1. mishaps' \in [Clients -> SUBSET Mishaps]
    BY <1>2, PacketFields, BefallsTypes DEF Refuse, Mishaps
  <2> QED
    BY <1>2, <1>a, <1>b, <1>c, <2>1 DEF Refuse
<1>3. ASSUME NEW p \in net, MessageReceived(p)
      PROVE  TypeOK'
  <2>1. Table(clients') /\ net' = (net \ {p}) \cup {Reply(p, CountOf(p.addr) + 1)}
    BY <1>3, MessageCounts
  <2>2. Reply(p, CountOf(p.addr) + 1) \in Packet
    <3>1. p.addr \in Clients /\ p.run \in Nat /\ p.line \in 1 .. MaxLines
      BY <1>3, PacketFields DEF MessageReceived
    <3>2. CountOf(p.addr) + 1 \in Nat \ {0}
      BY <3>1, NowIn
    <3> QED
      BY <3>1, <3>2 DEF Reply, Packet
  <2>3. net' \subseteq Packet /\ UNCHANGED <<client, mishaps>>
    BY <1>3, <1>a, <2>1, <2>2 DEF MessageReceived
  <2> QED
    BY <1>a, <1>b, <1>c, <2>1, <2>3
<1>4. CASE ServerRestart
  <2>1. Table(clients')
    BY <1>4, Bounds DEF ServerRestart, Table, Bounds
  <2>2. mishaps' \in [Clients -> SUBSET Mishaps]
    BY <1>4, <1>a DEF ServerRestart, Mishaps
  <2> QED
    BY <1>4, <1>a, <1>b, <1>c, <2>1, <2>2 DEF ServerRestart
<1>5. ASSUME NEW c \in Clients, Start(c)
      PROVE  TypeOK'
  <2>1. run[c] \in Nat /\ 0 \in 0 .. MaxLines /\ <<>> \in Seq(PrintedLine)
    BY <1>a, Bounds DEF ClientTypes, Bounds
  <2>2. ClientTypes'
    BY <1>5, <1>a, <2>1 DEF Start, ClientTypes
  <2>3. mishaps' \in [Clients -> SUBSET Mishaps]
    BY <1>5, <1>a DEF Start, Mishaps
  <2> QED
    BY <1>5, <1>a, <1>b, <2>2, <2>3 DEF Start
<1>6. ASSUME NEW c \in Clients, SendLine(c)
      PROVE  TypeOK'
  <2>1. line[c] + 1 \in 1 .. MaxLines /\ line[c] + 1 \in 0 .. MaxLines /\ run[c] \in Nat
    BY <1>6, <1>a, Bounds DEF ClientTypes, SendLine, Bounds
  <2>2. M(c) \in Packet
    BY <2>1 DEF M, Packet
  <2>3. ClientTypes'
    BY <1>6, <1>a, <2>1 DEF SendLine, ClientTypes, UnlessStopped, Goto
  <2> QED
    BY <1>6, <1>a, <1>b, <2>2, <2>3 DEF SendLine
<1>7. ASSUME NEW c \in Clients, EndOfInput(c)
      PROVE  TypeOK'
  BY <1>7, <1>a, <1>b DEF EndOfInput, Goto, ClientTypes
<1>8. ASSUME NEW c \in Clients, ReceiveAnswer(c)
      PROVE  TypeOK'
  <2>1. PICK p \in InFlight(c, {"R"}) :
          /\ net' = net \ {p}
          /\ printed' = [printed EXCEPT ![c] =
               Append(@, [run |-> p.run, line |-> p.line, counter |-> p.counter])]
    BY <1>8 DEF ReceiveAnswer
  <2>2. p.run \in Nat /\ p.line \in Nat /\ p.counter \in Nat
    BY <2>1, PacketFields, Bounds DEF InFlight, Bounds
  <2>3. Append(printed[c], [run |-> p.run, line |-> p.line, counter |-> p.counter])
          \in Seq(PrintedLine)
    BY <1>a, <2>2, AppendProperties DEF PrintedLine, ClientTypes
  <2>4. ClientTypes'
    BY <1>8, <1>a, <2>1, <2>3 DEF ReceiveAnswer, ClientTypes, UnlessStopped, Goto
  <2> QED
    BY <1>8, <1>a, <1>b, <2>1, <2>4 DEF ReceiveAnswer
<1>9. ASSUME NEW c \in Clients, SendClose(c)
      PROVE  TypeOK'
  <2>1. C(c) \in Packet
    BY <1>a DEF C, Packet, ClientTypes
  <2> QED
    BY <1>9, <1>a, <1>b, <2>1 DEF SendClose, Goto, ClientTypes
<1>10. ASSUME NEW c \in Clients, Signal(c)
       PROVE  TypeOK'
  <2>1. ClientTypes'
    BY <1>10, <1>a DEF Signal, Interrupted, Goto, ClientTypes
  <2> QED
    BY <1>10, <1>a, <1>b, <2>1 DEF Signal
<1>11. ASSUME NEW c \in Clients, Kill(c)
       PROVE  TypeOK'
  <2>1. mishaps' \in [Clients -> SUBSET Mishaps]
    BY <1>11, BefallsTypes DEF Kill, Mishaps
  <2>2. ClientTypes'
    BY <1>11, <1>a DEF Kill, Goto, ClientTypes
  <2> QED
    BY <1>11, <1>a, <1>b, <2>1, <2>2 DEF Kill
<1>12. ASSUME NEW p \in net, Lose(p)
       PROVE  TypeOK'
  <2>1. mishaps' \in [Clients -> SUBSET Mishaps]
    BY <1>12, PacketFields, BefallsTypes DEF Lose, Mishaps
  <2> QED
    BY <1>12, <1>a, <1>b, <1>c, <2>1 DEF Lose
<1>13. ASSUME NEW p \in net, Duplicate(p)
       PROVE  TypeOK'
  <2>1. mishaps' \in [Clients -> SUBSET Mishaps]
    BY <1>13, PacketFields, BefallsTypes DEF Duplicate, Mishaps
  <2>2. [p EXCEPT !.copy = 2] \in Packet
    BY <1>a DEF Packet
  <2> QED
    BY <1>13, <1>a, <1>b, <1>c, <2>1, <2>2 DEF Duplicate
<1>14. ASSUME NEW p \in net, Unheard(p)
       PROVE  TypeOK'
  BY <1>14, <1>a, <1>b, <1>c DEF Unheard
<1>15. CASE UNCHANGED vars
  BY <1>15, <1>a, <1>b, <1>c DEF vars
<1> QED
  BY <1>1, <1>2, <1>3, <1>4, <1>5, <1>6, <1>7, <1>8, <1>9, <1>10, <1>11, <1>12, <1>13, <1>14,
     <1>15
  DEF Next, ServerStep

LEMMA TypesStay == Spec => []TypeOK
BY InitTypeOK, TypesStep, PTL DEF Spec

-----------------------------------------------------------------------------
(* The server implements Counters: each step of it changes the number of   *)
(* one address, as the abstract service does, or none at all.              *)
LEMMA RefinementStep ==
  ASSUME TypeOK, [Next]_vars
  PROVE  Service!Next \/ UNCHANGED <<[c \in Clients |-> CountOf(c)], answer>>
<1> DEFINE count == [c \in Clients |-> CountOf(c)]
<1>0. count' = [c \in Clients |-> CountOf(c)']
  OBVIOUS
<1>1. UNCHANGED clients => count' = count
  BY DEF CountOf, Known, find_client
<1>2. ASSUME NEW p \in net, CloseReceived(p)
      PROVE  Service!Next \/ UNCHANGED <<count, answer>>
  <2>1. p.addr \in Clients
    BY PacketFields
  <2>2. CASE ~Known(p.addr)
    BY <1>1, <1>2, <2>2 DEF CloseReceived
  <2>3. CASE Known(p.addr)
    <3>1. count' = [count EXCEPT ![p.addr] = 0]
      BY <1>0, <1>2, <2>1, CloseCounts
    <3>2. Service!Close(p.addr)
      BY <1>2, <2>3, <3>1 DEF CloseReceived, Service!Close
    <3> QED
      BY <2>1, <3>2 DEF Service!Next
  <2> QED
    BY <2>2, <2>3
<1>3. ASSUME NEW p \in net, MessageReceived(p)
      PROVE  Service!Next
  <2>1. p.addr \in Clients
    BY PacketFields
  <2>2. /\ \A d \in Clients : CountOf(d)' = IF d = p.addr THEN CountOf(p.addr) + 1 ELSE CountOf(d)
        /\ answer' = <<p.addr, CountOf(p.addr) + 1>>
    BY <1>3, MessageCounts
  <2>3. count' = [count EXCEPT ![p.addr] = @ + 1] /\ answer' = <<p.addr, count'[p.addr]>>
    BY <1>0, <2>1, <2>2
  <2>4. Service!Message(p.addr)
    BY <2>3 DEF Service!Message
  <2> QED
    BY <2>1, <2>4 DEF Service!Next
<1>4. CASE ServerRestart
  <2>1. \A c \in Clients : CountOf(c)' = 0
    BY <1>4 DEF ServerRestart, CountOf, Known
  <2>2. Service!Restart
    BY <1>0, <1>4, <2>1 DEF ServerRestart, Service!Restart
  <2> QED
    BY <2>2 DEF Service!Next
<1>5. CASE UNCHANGED <<clients, answer>>
  BY <1>1, <1>5
<1> QED
  BY <1>2, <1>3, <1>4, <1>5
  DEF Next, ServerStep, Refuse, Start, SendLine, EndOfInput, ReceiveAnswer, SendClose, Signal,
      Kill, Lose, Duplicate, Unheard, vars, server

(* remove_client moves the last entry, the loops interleave the datagrams  *)
(* of all clients: still each address has a number of its own that each of *)
(* its messages raises by one and its close resets.                        *)
THEOREM ServerImplementsCounters == Spec => CountersSpec
<1>1. Init => Service!Init
  BY DEF Init, Service!Init, CountOf, Known
<1>2. TypeOK /\ [Next]_vars => [Service!Next]_<<[c \in Clients |-> CountOf(c)], answer>>
  BY RefinementStep
<1> QED
  BY <1>1, <1>2, TypesStay, PTL DEF Spec, CountersSpec, Service!Spec
-----------------------------------------------------------------------------
(* The clients' side.  Everything is said of one client at a time: a step  *)
(* concerns the client whose address its datagram bears, and the others    *)
(* keep their datagrams, their number and their place in main().           *)

(* SlotsReturned, strengthened: a message under way would make the client  *)
(* known again, a close under way has not been acted upon yet.             *)
Closed(c) ==
  pc[c] = "off" /\ InFlight(c, {"C"}) = {} /\ (Known(c) \/ InFlight(c, {"M"}) # {})
    => Unreturned(c)

Answered(c) ==
  pc[c] = "recvfrom" =>
    InFlight(c, {"M", "R"}) # {} \/ mishaps[c] \cap {"lost", "refused"} # {}

Clean(c) == mishaps[c] \cap {"leftover", "duplicated", "restarted"} = {}

Matched(c) ==
  Clean(c) => \A i \in DOMAIN printed[c] :
                printed[c][i] = [run |-> run[c], line |-> i, counter |-> i]

(* The line the client sent last, and the answer it is due. *)
Sent(c) == [type |-> "M", addr |-> c, run |-> run[c], line |-> line[c], copy |-> 1]
Due(c) == Reply(Sent(c), line[c])
All == {"M", "C", "R"}

(* AnswersMatch, strengthened: between two lines nothing is under way and  *)
(* the server has counted what was sent; behind a line there is the line,  *)
(* its answer, or nothing any more, and then nothing is ever sent again.   *)
InStep(c) ==
  /\ pc[c] = "fgets" =>
       InFlight(c, All) = {} /\ CountOf(c) = line[c] /\ Len(printed[c]) = line[c]
  /\ pc[c] = "recvfrom" =>
       /\ Len(printed[c]) + 1 = line[c]
       /\ \/ InFlight(c, All) = {}
          \/ InFlight(c, All) = {Sent(c)} /\ CountOf(c) + 1 = line[c]
          \/ InFlight(c, All) = {Due(c)} /\ CountOf(c) = line[c]

Kept(c) == Closed(c) /\ Answered(c) /\ Matched(c) /\ (Clean(c) => InStep(c))

IInv == TypeOK /\ \A c \in Clients : Kept(c)

(* What Kept(c) looks at.                                                  *)
Flight(c) == {p \in net : p.addr = c}
ClientStill(c) ==
  /\ pc'[c] = pc[c] /\ run'[c] = run[c] /\ line'[c] = line[c] /\ printed'[c] = printed[c]

LEMMA FlightStill ==
  ASSUME NEW c, Flight(c)' = Flight(c)
  PROVE  \A T : InFlight(c, T)' = InFlight(c, T)
<1>1. \A T : InFlight(c, T) = {p \in Flight(c) : p.type \in T}
  BY DEF InFlight, Flight
<1>2. \A T : InFlight(c, T)' = {p \in Flight(c)' : p.type \in T}
  BY DEF InFlight, Flight
<1> QED
  BY <1>1, <1>2

(* A step that touches neither the client nor what bears its address.      *)
LEMMA KeptStill ==
  ASSUME NEW c \in Clients, Kept(c), ClientStill(c), Flight(c)' = Flight(c),
         mishaps'[c] = mishaps[c], CountOf(c)' = CountOf(c), Known(c)' <=> Known(c)
  PROVE  Kept(c)'
<1>1. \A T : InFlight(c, T)' = InFlight(c, T)
  BY FlightStill
<1>2. Closed(c)' /\ Answered(c)' /\ Matched(c)'
  BY <1>1 DEF Kept, Closed, Answered, Matched, Clean, ClientStill, Unreturned
<1>3. Clean(c)' => InStep(c)'
  BY <1>1 DEF Kept, InStep, Clean, ClientStill, Sent, Due, Reply
<1> QED
  BY <1>2, <1>3 DEF Kept

(* A client's own mishaps only grow while it stays where it is.            *)
LEMMA MatchedStill ==
  ASSUME NEW c \in Clients, Kept(c), ClientStill(c), mishaps[c] \subseteq mishaps'[c]
  PROVE  Matched(c)' /\ (Clean(c)' => Clean(c))
BY DEF Kept, Matched, Clean, ClientStill

(* The server and the network: the client itself does not move.            *)
LEMMA CloseKeeps ==
  ASSUME IInv, NEW p \in net, CloseReceived(p), NEW c \in Clients
  PROVE  Kept(c)'
<1> USE DEF IInv
<1>1. /\ p.addr \in Clients /\ p.type = "C" /\ net' = net \ {p}
      /\ UNCHANGED <<pc, run, line, printed>>
      /\ mishaps \in [Clients -> SUBSET Mishaps]
  BY PacketFields, TypeParts DEF CloseReceived, client
<1>2. /\ CountOf(c)' = IF c = p.addr THEN 0 ELSE CountOf(c)
      /\ Known(c)' <=> CountOf(c)' # 0
      /\ Known(c) <=> CountOf(c) # 0
  BY CloseCounts, NowIn, NextIn
<1>3. /\ ClientStill(c)
      /\ mishaps' = mishaps \/ mishaps' = [mishaps EXCEPT ![p.addr] = @ \cup {"overtaken"}]
  BY <1>1 DEF ClientStill, CloseReceived, Befalls
<1>4. CASE c # p.addr
  <2>1. Flight(c)' = Flight(c) /\ mishaps'[c] = mishaps[c]
    BY <1>1, <1>3, <1>4 DEF Flight
  <2> QED
    BY <1>2, <1>3, <1>4, <2>1, KeptStill
<1>5. CASE c = p.addr
  <2>1. /\ InFlight(c, {"M"})' = InFlight(c, {"M"})
        /\ InFlight(c, {"M", "R"})' = InFlight(c, {"M", "R"})
        /\ p \in InFlight(c, All)
    BY <1>1, <1>5 DEF InFlight, All
  <2>2. mishaps[c] \subseteq mishaps'[c]
    BY <1>1, <1>3, <1>5
  <2>3. Closed(c)'
    <3>1. ~Known(c)'
      BY <1>2, <1>5
    <3>2. InFlight(c, {"M"}) # {} => "overtaken" \in mishaps'[c]
      BY <1>1, <1>5 DEF CloseReceived, Befalls
    <3> QED
      BY <2>1, <3>1, <3>2 DEF Closed, Unreturned
  <2>4. Answered(c)'
    BY <1>3, <2>1, <2>2 DEF Kept, Answered, ClientStill
  <2>5. ASSUME Clean(c)'
        PROVE  InStep(c)'
    <3>1. InStep(c)
      BY <1>3, <2>2, <2>5, MatchedStill DEF Kept
    <3>2. pc[c] \notin {"fgets", "recvfrom"}
      BY <1>1, <2>1, <3>1 DEF InStep, Sent, Due, Reply
    <3> QED
      BY <1>3, <3>2 DEF InStep, ClientStill
  <2> QED
    BY <1>3, <2>2, <2>3, <2>4, <2>5, MatchedStill DEF Kept
<1> QED
  BY <1>4, <1>5

LEMMA RefuseKeeps ==
  ASSUME IInv, NEW p \in net, Refuse(p), NEW c \in Clients
  PROVE  Kept(c)'
<1> USE DEF IInv
<1>1. /\ p.addr \in Clients /\ p.type = "M" /\ net' = net \ {p}
      /\ UNCHANGED <<pc, run, line, printed, clients>>
      /\ mishaps \in [Clients -> SUBSET Mishaps]
      /\ mishaps' = [mishaps EXCEPT ![p.addr] = @ \cup {"refused"}]
  BY PacketFields, TypeParts DEF Refuse, Befalls, client, server
<1>2. ClientStill(c) /\ CountOf(c)' = CountOf(c) /\ (Known(c)' <=> Known(c))
  BY <1>1 DEF ClientStill, CountOf, Known, find_client
<1>3. CASE c # p.addr
  <2>1. Flight(c)' = Flight(c) /\ mishaps'[c] = mishaps[c]
    BY <1>1, <1>3 DEF Flight
  <2> QED
    BY <1>2, <2>1, KeptStill
<1>4. CASE c = p.addr
  <2>1. /\ InFlight(c, {"C"})' = InFlight(c, {"C"})
        /\ InFlight(c, {"M"})' \subseteq InFlight(c, {"M"})
        /\ p \in InFlight(c, All)
        /\ InFlight(c, All)' = InFlight(c, All) \ {p}
    BY <1>1, <1>4 DEF InFlight, All
  <2>2. mishaps[c] \subseteq mishaps'[c] /\ "refused" \in mishaps'[c]
    BY <1>1, <1>4
  <2>3. Closed(c)' /\ Answered(c)'
    BY <1>2, <2>1, <2>2 DEF Kept, Closed, Answered, Unreturned, ClientStill
  <2>4. ASSUME Clean(c)'
        PROVE  InStep(c)'
    <3>1. InStep(c)
      BY <1>2, <2>2, <2>4, MatchedStill DEF Kept
    <3> QED
      BY <1>2, <2>1, <3>1 DEF InStep, ClientStill
  <2> QED
    BY <1>2, <2>2, <2>3, <2>4, MatchedStill DEF Kept
<1> QED
  BY <1>3, <1>4

LEMMA MessageKeeps ==
  ASSUME IInv, NEW p \in net, MessageReceived(p), NEW c \in Clients
  PROVE  Kept(c)'
<1> USE DEF IInv
<1> DEFINE n == CountOf(p.addr) + 1
           r == Reply(p, n)
<1>1. /\ p.addr \in Clients /\ p.type = "M" /\ p \in Packet
      /\ UNCHANGED <<pc, run, line, printed, mishaps>>
      /\ net' = (net \ {p}) \cup {r}
      /\ r.addr = p.addr /\ r.type = "R"
  BY PacketFields, MessageCounts DEF MessageReceived, client, Reply
<1>2. /\ CountOf(c)' = IF c = p.addr THEN n ELSE CountOf(c)
      /\ CountOf(c) \in Nat
      /\ Known(c)' <=> CountOf(c)' # 0
      /\ Known(c) <=> CountOf(c) # 0
  BY MessageCounts, NowIn, NextIn
<1>3. ClientStill(c) /\ mishaps'[c] = mishaps[c]
  BY <1>1 DEF ClientStill
<1>4. CASE c # p.addr
  <2>1. Flight(c)' = Flight(c)
    BY <1>1, <1>4 DEF Flight
  <2> QED
    BY <1>2, <1>3, <1>4, <2>1, KeptStill
<1>5. CASE c = p.addr
  <2> HIDE DEF r
  <2>1. /\ InFlight(c, {"C"})' = InFlight(c, {"C"})
        /\ p \in InFlight(c, {"M"}) /\ p \in InFlight(c, All)
        /\ r \in InFlight(c, {"M", "R"})'
        /\ InFlight(c, All)' = (InFlight(c, All) \ {p}) \cup {r}
    BY <1>1, <1>5 DEF InFlight, All
  <2>2. Closed(c)' /\ Answered(c)'
    BY <1>3, <2>1 DEF Kept, Closed, Answered, Unreturned, ClientStill
  <2>3. ASSUME Clean(c)'
        PROVE  InStep(c)'
    <3>1. InStep(c)
      BY <1>3, <2>3, MatchedStill DEF Kept
    <3>2. CASE pc[c] = "recvfrom"
      <4>1. Due(c).type = "R" /\ Due(c)' = Due(c)
        BY <1>3 DEF Due, Sent, Reply, ClientStill
      <4>2. InFlight(c, All) = {Sent(c)} /\ CountOf(c) + 1 = line[c]
        BY <1>1, <2>1, <3>1, <3>2, <4>1 DEF InStep
      <4>3. p = Sent(c) /\ n = line[c]
        BY <1>5, <2>1, <4>2
      <4>4. r = Due(c)
        BY <4>3 DEF r, Due
      <4>5. InFlight(c, All)' = {Due(c)'}
        BY <2>1, <4>1, <4>2, <4>3, <4>4
      <4>6. CountOf(c)' = line'[c]
        BY <1>2, <1>3, <1>5, <4>3 DEF ClientStill
      <4> QED
        BY <1>3, <3>1, <3>2, <4>5, <4>6 DEF InStep, ClientStill
    <3>3. CASE pc[c] # "recvfrom"
      BY <1>3, <2>1, <3>1, <3>3 DEF InStep, ClientStill
    <3> QED
      BY <3>2, <3>3
  <2> QED
    BY <1>3, <2>2, <2>3, MatchedStill DEF Kept
<1> QED
  BY <1>4, <1>5

LEMMA RestartKeeps ==
  ASSUME IInv, ServerRestart, NEW c \in Clients
  PROVE  Kept(c)'
<1> USE DEF IInv
<1>1. /\ UNCHANGED <<net, pc, run, line, printed>> /\ clients' = <<>>
      /\ mishaps'[c] = mishaps[c] \cup {"restarted"}
  BY DEF ServerRestart, client
<1>2. ClientStill(c) /\ Flight(c)' = Flight(c) /\ ~Known(c)' /\ ~Clean(c)'
  BY <1>1 DEF ClientStill, Flight, Known, Clean
<1>3. \A T : InFlight(c, T)' = InFlight(c, T)
  BY <1>2, FlightStill
<1> QED
  BY <1>1, <1>2, <1>3 DEF Kept, Closed, Answered, Matched, Unreturned, ClientStill

LEMMA LoseKeeps ==
  ASSUME IInv, NEW p \in net, Lose(p), NEW c \in Clients
  PROVE  Kept(c)'
<1> USE DEF IInv
<1> DEFINE what == IF p.type = "C" THEN "unclosed" ELSE "lost"
<1>1. /\ p.addr \in Clients /\ net' = net \ {p} /\ p.type \in {"M", "C", "R"}
      /\ UNCHANGED <<pc, run, line, printed, clients>>
      /\ mishaps \in [Clients -> SUBSET Mishaps]
      /\ mishaps' = [mishaps EXCEPT ![p.addr] = @ \cup {what}]
  BY PacketFields, TypeParts DEF Lose, Befalls, client, server
<1>2. ClientStill(c) /\ CountOf(c)' = CountOf(c) /\ (Known(c)' <=> Known(c))
  BY <1>1 DEF ClientStill, CountOf, Known, find_client
<1>3. CASE c # p.addr
  <2>1. Flight(c)' = Flight(c) /\ mishaps'[c] = mishaps[c]
    BY <1>1, <1>3 DEF Flight
  <2> QED
    BY <1>2, <2>1, KeptStill
<1>4. CASE c = p.addr
  <2>1. /\ p.type # "C" => InFlight(c, {"C"})' = InFlight(c, {"C"})
        /\ p.type = "C" => InFlight(c, {"M", "R"})' = InFlight(c, {"M", "R"})
        /\ InFlight(c, {"M"})' \subseteq InFlight(c, {"M"})
        /\ p \in InFlight(c, All)
        /\ InFlight(c, All)' = InFlight(c, All) \ {p}
    BY <1>1, <1>4 DEF InFlight, All
  <2>2. /\ mishaps[c] \subseteq mishaps'[c]
        /\ IF p.type = "C" THEN "unclosed" \in mishaps'[c] ELSE "lost" \in mishaps'[c]
    BY <1>1, <1>4
  <2>3. Closed(c)'
    BY <1>2, <2>1, <2>2 DEF Kept, Closed, Unreturned, ClientStill
  <2>4. Answered(c)'
    BY <1>2, <2>1, <2>2 DEF Kept, Answered, ClientStill
  <2>5. ASSUME Clean(c)'
        PROVE  InStep(c)'
    <3>1. InStep(c)
      BY <1>2, <2>2, <2>5, MatchedStill DEF Kept
    <3> QED
      BY <1>2, <2>1, <3>1 DEF InStep, ClientStill
  <2> QED
    BY <1>2, <2>2, <2>3, <2>4, <2>5, MatchedStill DEF Kept
<1> QED
  BY <1>3, <1>4

LEMMA DuplicateKeeps ==
  ASSUME IInv, NEW p \in net, Duplicate(p), NEW c \in Clients
  PROVE  Kept(c)'
<1> USE DEF IInv
<1> DEFINE q == [p EXCEPT !.copy = 2]
<1>1. /\ p.addr \in Clients /\ q.addr = p.addr /\ net' = net \cup {q}
      /\ UNCHANGED <<pc, run, line, printed, clients>>
      /\ mishaps \in [Clients -> SUBSET Mishaps]
      /\ mishaps' = [mishaps EXCEPT ![p.addr] = @ \cup {"duplicated"}]
  BY PacketFields, TypeParts DEF Duplicate, Befalls, client, server, Packet
<1> HIDE DEF q
<1>2. ClientStill(c) /\ CountOf(c)' = CountOf(c) /\ (Known(c)' <=> Known(c))
  BY <1>1 DEF ClientStill, CountOf, Known, find_client
<1>3. CASE c # p.addr
  <2>1. Flight(c)' = Flight(c) /\ mishaps'[c] = mishaps[c]
    BY <1>1, <1>3 DEF Flight
  <2> QED
    BY <1>2, <2>1, KeptStill
<1>4. CASE c = p.addr
  <2>1. /\ mishaps[c] \subseteq mishaps'[c] /\ "duplicated" \in mishaps'[c]
        /\ InFlight(c, {"M", "R"}) \subseteq InFlight(c, {"M", "R"})'
    BY <1>1, <1>4 DEF InFlight
  <2> QED
    BY <1>2, <2>1 DEF Kept, Closed, Answered, Matched, Clean, Unreturned, ClientStill
<1> QED
  BY <1>3, <1>4

LEMMA UnheardKeeps ==
  ASSUME IInv, NEW p \in net, Unheard(p), NEW c \in Clients
  PROVE  Kept(c)'
<1> USE DEF IInv
<1>1. /\ p.type = "R" /\ pc[p.addr] = "off" /\ net' = net \ {p}
      /\ UNCHANGED <<pc, run, line, printed, clients, mishaps>>
  BY DEF Unheard, client, server
<1>2. /\ ClientStill(c) /\ CountOf(c)' = CountOf(c) /\ (Known(c)' <=> Known(c))
      /\ mishaps'[c] = mishaps[c]
  BY <1>1 DEF ClientStill, CountOf, Known, find_client
<1>3. CASE c # p.addr
  <2>1. Flight(c)' = Flight(c)
    BY <1>1, <1>3 DEF Flight
  <2> QED
    BY <1>2, <2>1, KeptStill
<1>4. CASE c = p.addr
  <2>1. InFlight(c, {"C"})' = InFlight(c, {"C"}) /\ InFlight(c, {"M"})' = InFlight(c, {"M"})
    BY <1>1 DEF InFlight
  <2>2. Closed(c)' /\ Answered(c)'
    BY <1>1, <1>2, <1>4, <2>1 DEF Kept, Closed, Answered, Unreturned, ClientStill
  <2>3. InStep(c)'
    BY <1>1, <1>2, <1>4 DEF InStep, ClientStill
  <2> QED
    BY <1>2, <2>2, <2>3, MatchedStill DEF Kept
<1> QED
  BY <1>3, <1>4
(* The steps of client e.  Those of the other clients see nothing of it.   *)
LEMMA OthersKept ==
  ASSUME IInv, NEW e \in Clients, NEW c \in Clients \ {e},
         UNCHANGED clients, Flight(c)' = Flight(c), mishaps'[c] = mishaps[c], ClientStill(c)
  PROVE  Kept(c)'
<1>1. CountOf(c)' = CountOf(c) /\ (Known(c)' <=> Known(c))
  BY DEF CountOf, Known, find_client
<1> QED
  BY <1>1, KeptStill DEF IInv

(* A run that begins clean finds no entry and no datagram of an old one.   *)
LEMMA StartKeeps ==
  ASSUME IInv, NEW e \in Clients, Start(e), NEW c \in Clients
  PROVE  Kept(c)'
<1>1. /\ pc[e] = "off" /\ pc' = [pc EXCEPT ![e] = "fgets"]
      /\ run' = [run EXCEPT ![e] = @ + 1] /\ line' = [line EXCEPT ![e] = 0]
      /\ printed' = [printed EXCEPT ![e] = <<>>]
      /\ mishaps' = [mishaps EXCEPT ![e] =
           IF InFlight(e, All) # {} \/ (Known(e) /\ Unreturned(e)) THEN {"leftover"} ELSE {}]
      /\ UNCHANGED <<clients, net>>
  BY DEF Start, server, All
<1>2. ClientTypes /\ mishaps \in [Clients -> SUBSET Mishaps]
  BY TypeParts DEF IInv
<1>3. Flight(c)' = Flight(c)
  BY <1>1 DEF Flight
<1>4. CASE c # e
  BY <1>1, <1>2, <1>3, <1>4, OthersKept DEF ClientStill, ClientTypes
<1>5. CASE c = e
  <2>1. /\ pc'[c] = "fgets" /\ line'[c] = 0 /\ printed'[c] = <<>>
        /\ mishaps'[c] = IF InFlight(e, All) # {} \/ (Known(e) /\ Unreturned(e))
                         THEN {"leftover"} ELSE {}
    BY <1>1, <1>2, <1>5 DEF ClientTypes
  <2>2. DOMAIN printed'[c] = {} /\ Len(printed'[c]) = 0
    BY <2>1
  <2>3. Closed(c)' /\ Answered(c)' /\ Matched(c)'
    BY <2>1, <2>2 DEF Closed, Answered, Matched
  <2>4. ASSUME Clean(c)'
        PROVE  InStep(c)'
    <3>1. InFlight(c, All) = {} /\ ~(Known(c) /\ Unreturned(c))
      BY <1>5, <2>1, <2>4 DEF Clean
    <3>2. InFlight(c, {"C"}) = {}
      BY <3>1 DEF InFlight, All
    <3>3. ~Known(c)
      BY <1>1, <1>5, <3>1, <3>2 DEF IInv, Kept, Closed
    <3>4. CountOf(c)' = 0
      BY <1>1, <3>3 DEF CountOf, Known
    <3>5. InFlight(c, All)' = {}
      BY <1>3, <3>1, FlightStill
    <3> QED
      BY <2>1, <2>2, <3>4, <3>5 DEF InStep
  <2> QED
    BY <2>3, <2>4 DEF Kept
<1> QED
  BY <1>4, <1>5

LEMMA SendLineKeeps ==
  ASSUME IInv, NEW e \in Clients, SendLine(e), NEW c \in Clients
  PROVE  Kept(c)'
<1>1. /\ pc[e] = "fgets" /\ net' = net \cup {M(e)}
      /\ line' = [line EXCEPT ![e] = @ + 1]
      /\ \/ pc' = [pc EXCEPT ![e] = "recvfrom"]
         \/ pc' = [pc EXCEPT ![e] = "close"]
      /\ UNCHANGED <<clients, run, printed, mishaps>>
  BY DEF SendLine, server, UnlessStopped, Goto
<1>2. ClientTypes
  BY TypeParts DEF IInv
<1>3. CASE c # e
  <2>1. Flight(c)' = Flight(c)
    BY <1>1, <1>3 DEF Flight, M
  <2> QED
    BY <1>1, <1>2, <1>3, <2>1, OthersKept DEF ClientStill, ClientTypes
<1>4. CASE c = e
  <2>1. /\ pc'[c] \in {"recvfrom", "close"} /\ line'[c] = line[c] + 1
        /\ line[c] \in Nat /\ Len(printed[c]) \in Nat
    BY <1>1, <1>2, <1>4, Bounds DEF ClientTypes, Bounds
  <2>2. M(c) = Sent(c)'
    BY <1>1, <2>1 DEF M, Sent
  <2>3. /\ M(c) \in InFlight(c, {"M", "R"})'
        /\ InFlight(c, All)' = InFlight(c, All) \cup {M(c)}
    BY <1>1, <1>4 DEF InFlight, All, M
  <2>4. Closed(c)' /\ Answered(c)' /\ Matched(c)'
    BY <1>1, <2>1, <2>3 DEF IInv, Kept, Closed, Answered, Matched, Clean
  <2>5. ASSUME Clean(c)'
        PROVE  InStep(c)'
    <3>1. InStep(c)
      BY <1>1, <2>5 DEF IInv, Kept, Clean
    <3>2. InFlight(c, All) = {} /\ CountOf(c) = line[c] /\ Len(printed[c]) = line[c]
      BY <1>1, <1>4, <3>1 DEF InStep
    <3>3. CountOf(c)' = CountOf(c)
      BY <1>1 DEF CountOf, Known, find_client
    <3>4. InFlight(c, All)' = {Sent(c)'}
      BY <2>2, <2>3, <3>2
    <3> QED
      BY <1>1, <2>1, <3>2, <3>3, <3>4 DEF InStep
  <2> QED
    BY <2>4, <2>5 DEF Kept
<1> QED
  BY <1>3, <1>4

(* The answer taken is the one due: nothing else was under way.            *)
LEMMA ReceiveKeeps ==
  ASSUME IInv, NEW e \in Clients, ReceiveAnswer(e), NEW c \in Clients
  PROVE  Kept(c)'
<1>1. PICK p \in InFlight(e, {"R"}) :
        /\ net' = net \ {p}
        /\ printed' = [printed EXCEPT ![e] =
             Append(@, [run |-> p.run, line |-> p.line, counter |-> p.counter])]
  BY DEF ReceiveAnswer
<1>2. /\ pc[e] = "recvfrom"
      /\ pc' = [pc EXCEPT ![e] = "fgets"] \/ pc' = [pc EXCEPT ![e] = "close"]
      /\ UNCHANGED <<clients, run, line, mishaps>>
  BY DEF ReceiveAnswer, server, UnlessStopped, Goto
<1>3. ClientTypes
  BY TypeParts DEF IInv
<1>4. CASE c # e
  <2>1. Flight(c)' = Flight(c)
    BY <1>1, <1>4 DEF Flight, InFlight
  <2> QED
    BY <1>1, <1>2, <1>3, <1>4, <2>1, OthersKept DEF ClientStill, ClientTypes
<1>5. CASE c = e
  <2> DEFINE told == [run |-> p.run, line |-> p.line, counter |-> p.counter]
  <2>1. /\ pc'[c] \in {"fgets", "close"} /\ printed'[c] = Append(printed[c], told)
        /\ printed[c] \in Seq(PrintedLine)
    BY <1>1, <1>2, <1>3, <1>5 DEF ClientTypes
  <2>2. Closed(c)' /\ Answered(c)'
    BY <2>1 DEF Closed, Answered
  <2>3. ASSUME Clean(c)
        PROVE  /\ InFlight(c, All) = {p} /\ CountOf(c) = line[c]
               /\ Len(printed[c]) + 1 = line[c]
               /\ told = [run |-> run[c], line |-> line[c], counter |-> line[c]]
    <3>1. InStep(c) /\ p \in InFlight(c, All) /\ p.type = "R"
      BY <1>1, <1>5, <2>3 DEF IInv, Kept, InFlight, All
    <3>2. /\ InFlight(c, All) = {Due(c)} /\ CountOf(c) = line[c]
          /\ Len(printed[c]) + 1 = line[c]
      BY <1>2, <1>5, <3>1 DEF InStep, Sent
    <3>3. p = Due(c)
      BY <3>1, <3>2
    <3> QED
      BY <3>2, <3>3 DEF Due, Sent, Reply
  <2> HIDE DEF told
  <2>4. Matched(c)'
    <3> SUFFICES ASSUME Clean(c), NEW i \in DOMAIN printed'[c]
                 PROVE  printed'[c][i] = [run |-> run[c], line |-> i, counter |-> i]
      BY <1>2 DEF Matched, Clean
    <3>1. Len(printed[c]) \in Nat /\ DOMAIN printed'[c] = 1 .. Len(printed[c]) + 1
      BY <2>1
    <3>2. CASE i = Len(printed[c]) + 1
      <4>1. printed'[c][i] = told
        BY <2>1, <3>2
      <4> QED
        BY <2>3, <3>2, <4>1
    <3>3. CASE i # Len(printed[c]) + 1
      <4>1. i \in DOMAIN printed[c] /\ printed'[c][i] = printed[c][i]
        BY <2>1, <3>1, <3>3
      <4> QED
        BY <4>1 DEF IInv, Kept, Matched
    <3> QED
      BY <3>2, <3>3
  <2>5. ASSUME Clean(c)'
        PROVE  InStep(c)'
    <3>1. Clean(c)
      BY <1>2, <2>5 DEF Clean
    <3>2. InFlight(c, All)' = {}
      <4>1. InFlight(c, All)' = InFlight(c, All) \ {p}
        BY <1>1 DEF InFlight
      <4> QED
        BY <2>3, <3>1, <4>1
    <3>3. CountOf(c)' = CountOf(c)
      BY <1>2 DEF CountOf, Known, find_client
    <3>4. Len(printed'[c]) = Len(printed[c]) + 1
      BY <2>1
    <3> QED
      BY <1>2, <2>1, <2>3, <3>1, <3>2, <3>3, <3>4 DEF InStep
  <2> QED
    BY <2>2, <2>4, <2>5 DEF Kept
<1> QED
  BY <1>4, <1>5

(* The steps that take a client to its end, or leave it where it is.       *)
LEMMA LeavingKeeps ==
  ASSUME IInv, NEW e \in Clients, EndOfInput(e) \/ SendClose(e) \/ Signal(e) \/ Kill(e),
         NEW c \in Clients
  PROVE  Kept(c)'
<1>1. /\ UNCHANGED <<clients, run, line, printed>>
      /\ net' = net \/ net' = net \cup {C(e)}
      /\ mishaps' = mishaps \/ mishaps' = [mishaps EXCEPT ![e] = @ \cup {"unclosed"}]
      /\ \/ pc' = pc /\ UNCHANGED <<net, mishaps>>
         \/ pc' = [pc EXCEPT ![e] = "close"] /\ UNCHANGED <<net, mishaps>>
         \/ pc' = [pc EXCEPT ![e] = "off"] /\ net' = net \cup {C(e)}
         \/ pc' = [pc EXCEPT ![e] = "off"] /\ mishaps' = [mishaps EXCEPT ![e] = @ \cup {"unclosed"}]
  BY DEF EndOfInput, SendClose, Signal, Kill, Goto, Interrupted, Befalls, server
<1>2. ClientTypes /\ mishaps \in [Clients -> SUBSET Mishaps] /\ Kept(c)
  BY TypeParts DEF IInv
<1>3. CASE c # e
  <2>1. Flight(c)' = Flight(c)
    BY <1>1, <1>3 DEF Flight, C
  <2>2. pc'[c] = pc[c] /\ mishaps'[c] = mishaps[c]
    BY <1>1, <1>2, <1>3 DEF ClientTypes
  <2> QED
    BY <1>1, <1>3, <2>1, <2>2, OthersKept DEF ClientStill
<1>4. CASE c = e
  <2>1. mishaps[c] \subseteq mishaps'[c]
    BY <1>1, <1>2, <1>4
  <2>2. Matched(c)'
    BY <1>1, <1>2, <2>1 DEF Kept, Matched, Clean
  <2>3. CASE pc' = pc /\ UNCHANGED <<net, mishaps>>
    <3>1. CountOf(c)' = CountOf(c) /\ (Known(c)' <=> Known(c))
      BY <1>1 DEF CountOf, Known, find_client
    <3> QED
      BY <1>1, <1>2, <2>3, <3>1, KeptStill DEF ClientStill, Flight
  <2>4. CASE pc'[c] \in {"close", "off"}
    <3>1. Answered(c)' /\ InStep(c)'
      BY <2>4 DEF Answered, InStep
    <3>2. Closed(c)'
      <4>1. CASE pc'[c] = "close"
        BY <4>1 DEF Closed
      <4>2. CASE net' = net \cup {C(e)}
        <5>1. C(e) \in InFlight(c, {"C"})'
          BY <1>4, <4>2 DEF InFlight, C
        <5> QED
          BY <5>1 DEF Closed
      <4>3. CASE mishaps' = [mishaps EXCEPT ![e] = @ \cup {"unclosed"}]
        <5>1. "unclosed" \in mishaps'[c]
          BY <1>2, <1>4, <4>3
        <5> QED
          BY <5>1 DEF Closed, Unreturned
      <4>4. pc' = [pc EXCEPT ![e] = "close"] => pc'[c] = "close"
        BY <1>2, <1>4 DEF ClientTypes
      <4> QED
        BY <1>1, <2>3, <4>1, <4>2, <4>3, <4>4 DEF Kept
    <3> QED
      BY <2>2, <3>1, <3>2 DEF Kept
  <2> QED
    BY <1>1, <1>2, <1>4, <2>3, <2>4 DEF ClientTypes
<1> QED
  BY <1>3, <1>4

LEMMA IInvInit == Init => IInv
<1> SUFFICES ASSUME Init PROVE IInv
  OBVIOUS
<1>1. ASSUME NEW c \in Clients
      PROVE  Kept(c)
  <2>1. pc[c] = "off" /\ printed[c] = <<>> /\ InFlight(c, {"M"}) = {} /\ ~Known(c)
    BY DEF Init, InFlight, Known
  <2>2. DOMAIN printed[c] = {}
    BY <2>1
  <2> QED
    BY <2>1, <2>2 DEF Kept, Closed, Answered, Matched, InStep
<1> QED
  BY <1>1, InitTypeOK DEF IInv

LEMMA IInvStep == ASSUME IInv, [Next]_vars PROVE IInv'
<1>1. TypeOK'
  BY TypesStep DEF IInv
<1>2. ASSUME NEW c \in Clients
      PROVE  Kept(c)'
  <2>1. CASE UNCHANGED vars
    <3>1. UNCHANGED <<clients, net, pc, run, line, printed, mishaps>>
      BY <2>1 DEF vars, server, client
    <3>2. /\ CountOf(c)' = CountOf(c) /\ (Known(c)' <=> Known(c)) /\ Flight(c)' = Flight(c)
          /\ ClientStill(c) /\ mishaps'[c] = mishaps[c]
      BY <3>1 DEF CountOf, Known, find_client, Flight, ClientStill
    <3> QED
      BY <3>2, KeptStill DEF IInv
  <2> QED
    BY <1>2, <2>1, CloseKeeps, RefuseKeeps, MessageKeeps, RestartKeeps, LoseKeeps, DuplicateKeeps,
       UnheardKeeps, StartKeeps, SendLineKeeps, ReceiveKeeps, LeavingKeeps
    DEF Next, ServerStep
<1> QED
  BY <1>1, <1>2 DEF IInv

LEMMA IInvStays == Spec => []IInv
BY IInvInit, IInvStep, PTL DEF Spec

(* The i-th answer a client prints is the one to its i-th line, in a run   *)
(* no leftover, duplicate or restart got into.                             *)
THEOREM AnswersMatchLines == Spec => []AnswersMatch
<1>1. IInv => AnswersMatch
  BY DEF IInv, Kept, Matched, Clean, AnswersMatch
<1> QED
  BY <1>1, IInvStays, PTL

(* The table has one entry per address and MAX_CLIENTS at most, and a slot *)
(* comes back unless the close was lost, never sent, or overtaken.         *)
THEOREM SlotsComeBack == Spec => []SlotsReturned
<1>1. IInv => SlotsReturned
  <2> SUFFICES ASSUME IInv, NEW c \in Clients, pc[c] = "off",
                      InFlight(c, {"M", "C"}) = {}, Known(c)
               PROVE  Unreturned(c)
    BY DEF IInv, SlotsReturned
  <2>1. InFlight(c, {"C"}) = {}
    BY DEF InFlight
  <2> QED
    BY <2>1 DEF IInv, Kept, Closed
<1> QED
  BY <1>1, IInvStays, PTL

(* Whoever waits for an answer has its line or the answer under way, unless*)
(* a datagram was lost or the table was full.                              *)
THEOREM AnswersAreUnderWay == Spec => []AnswerUnderWay
<1>1. IInv => AnswerUnderWay
  BY DEF IInv, Kept, Answered, AnswerUnderWay
<1> QED
  BY <1>1, IInvStays, PTL
=============================================================================
