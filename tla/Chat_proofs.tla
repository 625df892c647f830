------------------------------ MODULE Chat_proofs ------------------------------
(***************************************************************************)
(* Proofs about Chat for every set of clients, every size of the table and *)
(* of the sockets, and every number of lines typed. The invariant says     *)
(* where the server is in its loop (ServerAt), that frames are signed by   *)
(* their writers (Signed: the relay leaves out the author, and the view    *)
(* too), that a client has one place (Places) and what a member has got    *)
(* and is about to get (Views).                                            *)
(***************************************************************************)
EXTENDS Chat, SequenceTheorems, FiniteSetTheorems, TLAPS

-----------------------------------------------------------------------------
(* What a client must have got, for any log l and join after n frames.     *)

ForeignIn(l, n, c) == {j \in n + 1 .. Len(l) : l[j].from # c}
Seen(s, l, n, c) ==
  /\ Len(s) = Cardinality(ForeignIn(l, n, c))
  /\ \A j \in ForeignIn(l, n, c) : s[Cardinality({h \in ForeignIn(l, n, c) : h <= j})] = l[j]

LEMMA ViewIsSeen == ASSUME NEW s, NEW c PROVE IsView(s, c) <=> Seen(s, log, joined[c], c)
BY DEF IsView, Foreign, Seen, ForeignIn

LEMMA IndicesFinite ==
  ASSUME NEW n \in Nat, NEW m \in Nat, NEW S \in SUBSET (n .. m)
  PROVE  IsFiniteSet(S) /\ Cardinality(S) \in Nat
<1>1. IsFiniteSet(n .. m)
  BY FS_Interval
<1> QED
  BY <1>1, FS_Subset, FS_CardinalityType

(* Who has just joined has seen everything since. *)
LEMMA SeenNothing ==
  ASSUME NEW l \in Seq(Frame), NEW c
  PROVE  Seen(<<>>, l, Len(l), c)
<1>1. ForeignIn(l, Len(l), c) = {}
  BY DEF ForeignIn
<1> QED
  BY <1>1, FS_EmptySet DEF Seen

(* One more broadcast is one more frame for everybody but its author.      *)
LEMMA SeenMore ==
  ASSUME NEW l \in Seq(Frame), NEW n \in 0 .. Len(l), NEW c, NEW s \in Seq(Frame), NEW f \in Frame,
         Seen(s, l, n, c)
  PROVE  /\ f.from = c => Seen(s, Append(l, f), n, c)
         /\ f.from # c => Seen(Append(s, f), Append(l, f), n, c)
<1> DEFINE m == Append(l, f)
           z == Len(l) + 1
           A == ForeignIn(l, n, c)
           B == ForeignIn(m, n, c)
           Upto(S, j) == {h \in S : h <= j}
<1>1. /\ Len(l) \in Nat /\ Len(m) = z /\ m[z] = f /\ z \in Nat
      /\ \A j \in 1 .. Len(l) : m[j] = l[j]
  BY AppendProperties
<1> HIDE DEF m
<1>2. A \subseteq n + 1 .. Len(l) /\ n + 1 \in Nat
  BY DEF ForeignIn
<1>3. B = IF f.from = c THEN A ELSE A \cup {z}
  <2>1. \A j \in n + 1 .. Len(l) : m[j] = l[j]
    BY <1>1
  <2>2. n + 1 .. z = (n + 1 .. Len(l)) \cup {z}
    BY <1>1
  <2> QED
    BY <1>1, <2>1, <2>2 DEF ForeignIn
<1>4. \A j \in A : Upto(A, j) = Upto(B, j) /\ j < z
  BY <1>1, <1>2, <1>3
<1>9. \A j \in B : j <= z
  BY <1>1, <1>2, <1>3
<1> HIDE DEF z
<1>5. IsFiniteSet(A) /\ Cardinality(A) \in Nat
  BY <1>1, <1>2, IndicesFinite
<1>6. Len(s) = Cardinality(A) /\ \A j \in A : s[Cardinality(Upto(A, j))] = l[j]
  BY DEF Seen
<1> HIDE DEF A, B
<1>7. CASE f.from = c
  <2>1. \A j \in A : s[Cardinality(Upto(B, j))] = m[j]
    BY <1>1, <1>2, <1>4, <1>6
  <2> QED
    BY <1>3, <1>6, <1>7, <2>1 DEF Seen, B, m
<1>8. CASE f.from # c
  <2> DEFINE t == Append(s, f)
  <2>1. /\ Len(t) = Len(s) + 1 /\ t[Len(s) + 1] = f
        /\ \A i \in 1 .. Len(s) : t[i] = s[i]
    BY AppendProperties
  <2> HIDE DEF t
  <2>2. z \notin A
    BY <1>1, <1>2, <1>4
  <2>3. Cardinality(B) = Cardinality(A) + 1
    BY <1>3, <1>5, <1>8, <2>2, FS_AddElement
  <2>4. ASSUME NEW j \in A
        PROVE  t[Cardinality(Upto(B, j))] = m[j]
    <3>1. Upto(A, j) \subseteq A /\ j \in Upto(A, j)
      BY <1>2
    <3>2. IsFiniteSet(Upto(A, j)) /\ Cardinality(Upto(A, j)) \in Nat
      BY <1>5, <3>1, FS_Subset, FS_CardinalityType
    <3>3. Cardinality(Upto(A, j)) <= Cardinality(A) /\ Cardinality(Upto(A, j)) # 0
      BY <1>5, <3>1, <3>2, FS_Subset, FS_EmptySet
    <3>4. Cardinality(Upto(A, j)) \in 1 .. Len(s)
      BY <1>5, <1>6, <3>2, <3>3
    <3>5. j \in 1 .. Len(l)
      BY <1>1, <1>2
    <3> QED
      BY <1>1, <1>4, <1>6, <2>1, <3>4, <3>5
  <2>5. t[Cardinality(Upto(B, z))] = m[z]
    <3>1. Upto(B, z) = B
      BY <1>9
    <3> QED
      BY <1>1, <1>6, <2>1, <2>3, <3>1
  <2>6. \A j \in B : t[Cardinality(Upto(B, j))] = m[j]
    BY <1>3, <1>8, <2>4, <2>5
  <2>7. Len(t) = Cardinality(B)
    BY <1>6, <2>1, <2>3
  <2> QED
    BY <1>8, <2>6, <2>7 DEF Seen, B, t, m
<1> QED
  BY <1>7, <1>8

(* Reading a frame moves it, sending one appends it. *)
LEMMA SentMoves ==
  ASSUME NEW g \in Seq(Frame), NEW d \in Seq(Frame)
  PROVE  /\ g \o d \in Seq(Frame)
         /\ d # <<>> => Append(g, Head(d)) \o Tail(d) = g \o d
         /\ \A f \in Frame : g \o Append(d, f) = Append(g \o d, f)
<1>1. g \o d \in Seq(Frame)
  BY ConcatProperties
<1>2. ASSUME d # <<>>
      PROVE  Append(g, Head(d)) \o Tail(d) = g \o d
  <2>1. /\ Head(d) \in Frame /\ Tail(d) \in Seq(Frame) /\ Len(Tail(d)) = Len(d) - 1
        /\ Head(d) = d[1] /\ Len(d) \in Nat \ {0} /\ Len(g) \in Nat
        /\ \A i \in 1 .. Len(d) - 1 : Tail(d)[i] = d[i + 1]
    BY <1>2, HeadTailProperties
  <2> DEFINE h == Append(g, Head(d))
             e == Tail(d)
  <2>2. /\ h \in Seq(Frame) /\ Len(h) = Len(g) + 1 /\ h[Len(g) + 1] = d[1]
        /\ \A i \in 1 .. Len(g) : h[i] = g[i]
    BY <2>1, AppendProperties
  <2> HIDE DEF h
  <2>3. /\ h \o e \in Seq(Frame) /\ Len(h \o e) = Len(h) + Len(e)
        /\ \A i \in 1 .. Len(h) + Len(e) : (h \o e)[i] = IF i <= Len(h) THEN h[i] ELSE e[i - Len(h)]
    BY <2>1, <2>2, ConcatProperties
  <2>4. /\ Len(g \o d) = Len(g) + Len(d)
        /\ \A i \in 1 .. Len(g) + Len(d) : (g \o d)[i] = IF i <= Len(g) THEN g[i] ELSE d[i - Len(g)]
    BY ConcatProperties
  <2> HIDE DEF e
  <2>5. /\ Len(e) = Len(d) - 1 /\ \A i \in 1 .. Len(d) - 1 : e[i] = d[i + 1]
    BY <2>1 DEF e
  <2>6. Len(h \o e) = Len(g \o d)
    BY <2>1, <2>2, <2>3, <2>4, <2>5
  <2>7. ASSUME NEW i \in 1 .. Len(g) + Len(d)
        PROVE  (h \o e)[i] = (g \o d)[i]
    <3>1. CASE i <= Len(g)
      BY <2>1, <2>2, <2>3, <2>4, <2>5, <3>1
    <3>2. CASE i = Len(g) + 1
      BY <2>1, <2>2, <2>3, <2>4, <2>5, <3>2
    <3>3. CASE i > Len(g) + 1
      <4>1. (h \o e)[i] = e[i - (Len(g) + 1)]
        BY <2>1, <2>2, <2>3, <2>5, <3>3
      <4>2. i - (Len(g) + 1) \in 1 .. Len(d) - 1 /\ (i - (Len(g) + 1)) + 1 = i - Len(g)
        BY <2>1, <3>3
      <4>3. (g \o d)[i] = d[i - Len(g)]
        BY <2>1, <2>4, <3>3
      <4> QED
        BY <2>5, <4>1, <4>2, <4>3
    <3>4. i \in Int /\ Len(g) \in Int
      BY <2>1
    <3>5. i <= Len(g) \/ i = Len(g) + 1 \/ i > Len(g) + 1
      BY <3>4
    <3> QED
      BY <3>1, <3>2, <3>3, <3>5
  <2>8. Len(h \o e) = Len(g) + Len(d)
    BY <2>4, <2>6
  <2> QED
    BY <1>1, <2>3, <2>6, <2>7, <2>8, SeqEqual DEF h, e
<1>3. ASSUME NEW f \in Frame
      PROVE  g \o Append(d, f) = Append(g \o d, f)
  <2> DEFINE e == Append(d, f)
             b == Append(g \o d, f)
  <2>1. /\ e \in Seq(Frame) /\ Len(e) = Len(d) + 1 /\ e[Len(d) + 1] = f
        /\ Len(d) \in Nat /\ Len(g) \in Nat
        /\ \A i \in 1 .. Len(d) : e[i] = d[i]
    BY AppendProperties
  <2>2. /\ b \in Seq(Frame) /\ Len(b) = Len(g \o d) + 1 /\ b[Len(g \o d) + 1] = f
        /\ \A i \in 1 .. Len(g \o d) : b[i] = (g \o d)[i]
    BY <1>1, AppendProperties
  <2> HIDE DEF e, b
  <2>3. /\ g \o e \in Seq(Frame) /\ Len(g \o e) = Len(g) + Len(e)
        /\ \A i \in 1 .. Len(g) + Len(e) : (g \o e)[i] = IF i <= Len(g) THEN g[i] ELSE e[i - Len(g)]
    BY <2>1, ConcatProperties
  <2>4. /\ Len(g \o d) = Len(g) + Len(d)
        /\ \A i \in 1 .. Len(g) + Len(d) : (g \o d)[i] = IF i <= Len(g) THEN g[i] ELSE d[i - Len(g)]
    BY ConcatProperties
  <2>5. Len(g \o e) = Len(b) /\ Len(b) = Len(g) + Len(d) + 1
    BY <2>1, <2>2, <2>3, <2>4
  <2>6. ASSUME NEW i \in 1 .. Len(g) + Len(d) + 1
        PROVE  (g \o e)[i] = b[i]
    <3>1. CASE i <= Len(g)
      BY <2>1, <2>2, <2>3, <2>4, <3>1
    <3>2. CASE i > Len(g) /\ i <= Len(g) + Len(d)
      <4>1. i - Len(g) \in 1 .. Len(d)
        BY <2>1, <3>2
      <4>2. (g \o e)[i] = e[i - Len(g)] /\ (g \o d)[i] = d[i - Len(g)]
        BY <2>1, <2>3, <2>4, <3>2
      <4>3. b[i] = (g \o d)[i]
        BY <2>1, <2>2, <2>4, <3>2
      <4> QED
        BY <2>1, <4>1, <4>2, <4>3
    <3>3. CASE i = Len(g) + Len(d) + 1
      <4>1. i - Len(g) = Len(d) + 1 /\ ~(i <= Len(g))
        BY <2>1, <3>3
      <4> QED
        BY <2>1, <2>2, <2>3, <2>4, <3>3, <4>1
    <3> QED
      BY SMTT(30), <2>1, <3>1, <3>2, <3>3
  <2> QED
    BY <2>2, <2>3, <2>5, <2>6, SeqEqual DEF e, b
<1> QED
  BY <1>1, <1>2, <1>3

-----------------------------------------------------------------------------
(* The inductive invariant. *)

(* What the server's place in its loop says of its other variables. *)
ServerAt ==
  /\ MAX_CLIENTS \in Sizes
  /\ accepted # NoClient <=> spc = "hello"
  /\ spc = "hello" => nclients < MAX_CLIENTS
  /\ spc = "accept" /\ knock => backlog # <<>>
  /\ spc = "send" => slot <= MAX_CLIENTS /\ frame \in Frame
  /\ spc \notin {"send", "dead"} => todo = {}
  /\ todo \subseteq DOMAIN clients

(* What a client writes, and what is on its way to the server, is its own. *)
Signed ==
  \A c \in Clients : /\ cpc[c] = "write" => line[c] \in Frame /\ line[c].from = c
                     /\ \A i \in DOMAIN up[c] : up[c][i].from = c

(* The places a client may be in: as sets, and each place once. *)
Once(s) == \A i, j \in DOMAIN s : s[i] = s[j] => i = j
Waiting == ToSet(backlog)
Greeted == {accepted} \ {NoClient}
Places ==
  /\ Once(backlog) /\ Once(clients)
  /\ Waiting \cap (Greeted \cup Members \cup hungUp) = {}
  /\ Greeted \cap (Members \cup hungUp) = {}
  /\ Members \cap hungUp = {}
  /\ {c \in Clients : Connected(c)} = Waiting \cup Greeted \cup Members \cup hungUp

(* The view of a member who still reads, and of who is not yet one. *)
Due(c) == IF Awaited(c) THEN Append(Sent(c), frame) ELSE Sent(c)
Views ==
  \A c \in Clients :
    /\ joined[c] <= Len(log)
    /\ c \notin Members \cup hungUp => down[c] = <<>> /\ got[c] = <<>>
    /\ c \in Members /\ ~Closed(c) => Seen(Due(c), log, joined[c], c)

IInv == TypeOK /\ ServerAt /\ Signed /\ (spc # "dead" => Places /\ Views)

-----------------------------------------------------------------------------
(* The lists of clients. *)

(* A set of numbers has a least one: the loops have a next slot. *)
LEMMA LeastExists ==
  ASSUME NEW m \in Nat, NEW S \in SUBSET (1 .. m), S # {}
  PROVE  \E i \in S : \A j \in S : i <= j
<1> DEFINE Below(i) == {j \in S : j < i}
           T == {Below(i) : i \in S}
<1>0. IsFiniteSet(S) /\ \A k \in S : k \in Int
  <2>1. IsFiniteSet(S)
    BY IndicesFinite, 1 \in Nat
  <2>2. \A k \in S : k \in 1 .. m
    OBVIOUS
  <2> QED
    BY <2>1, <2>2
<1>1. T \subseteq FiniteSubsetsOf(S) /\ T # {}
  <2>1. \A k \in S : Below(k) \in SUBSET S /\ IsFiniteSet(Below(k))
    BY <1>0, FS_Subset
  <2> QED
    BY <2>1 DEF FiniteSubsetsOf
<1>2. PICK x \in T : \A y \in T : ~ (<<y, x>> \in StrictSubsetOrdering(S))
  BY <1>1, FS_StrictSubsetOrderingWellFounded, WFMin
<1>3. PICK i \in S : x = Below(i)
  BY <1>2
<1>4. ASSUME NEW j \in S, j < i
      PROVE  FALSE
  <2>1. Below(j) \subseteq Below(i) /\ j \in Below(i) /\ j \notin Below(j)
    <3>1. i \in Int /\ j \in Int /\ j < i
      BY <1>0, <1>4
    <3>2. \A k \in S : k < j => k < i
      BY <1>0, <3>1
    <3>3. Below(j) \subseteq Below(i)
      BY <3>2
    <3>4. j \in Below(i)
      BY <3>1
    <3>5. j \notin Below(j)
      BY <3>1
    <3> QED
      BY <3>3, <3>4, <3>5
  <2>2. <<Below(j), x>> \in StrictSubsetOrdering(S)
    BY <1>3, <2>1 DEF StrictSubsetOrdering
  <2> QED
    BY <1>2, <2>2
<1> QED
  BY <1>4

LEMMA AppendOnce ==
  ASSUME NEW s \in Seq(Clients), Once(s), NEW c \in Clients \ ToSet(s)
  PROVE  /\ Append(s, c) \in Seq(Clients) /\ Len(Append(s, c)) = Len(s) + 1
         /\ Once(Append(s, c)) /\ ToSet(Append(s, c)) = ToSet(s) \cup {c}
<1> DEFINE t == Append(s, c)
<1>1. /\ t \in Seq(Clients) /\ Len(t) = Len(s) + 1 /\ t[Len(s) + 1] = c
      /\ \A i \in 1 .. Len(s) : t[i] = s[i]
  BY AppendProperties
<1> HIDE DEF t
<1>2. DOMAIN s = 1 .. Len(s) /\ DOMAIN t = (1 .. Len(s)) \cup {Len(s) + 1} /\ Len(s) \in Nat
  BY <1>1
<1>3. Once(t)
  BY <1>1, <1>2 DEF Once, ToSet
<1>4. ToSet(t) = ToSet(s) \cup {c}
  BY <1>1, <1>2 DEF ToSet
<1> QED
  BY <1>1, <1>3, <1>4 DEF t

LEMMA TailOnce ==
  ASSUME NEW s \in Seq(Clients), Once(s), s # <<>>
  PROVE  /\ Head(s) \in ToSet(s) /\ Head(s) \in Clients
         /\ Tail(s) \in Seq(Clients) /\ Once(Tail(s)) /\ ToSet(Tail(s)) = ToSet(s) \ {Head(s)}
<1> DEFINE t == Tail(s)
<1>1. /\ t \in Seq(Clients) /\ Len(t) = Len(s) - 1 /\ Len(s) \in Nat \ {0}
      /\ Head(s) = s[1] /\ Head(s) \in Clients
      /\ \A i \in 1 .. Len(t) : t[i] = s[i + 1]
  BY HeadTailProperties
<1> HIDE DEF t
<1>2. DOMAIN s = 1 .. Len(s) /\ DOMAIN t = 1 .. Len(s) - 1
  BY <1>1
<1>3. Once(t)
  BY SMTT(30), <1>1, <1>2 DEF Once
<1>4. ToSet(t) \subseteq ToSet(s) \ {Head(s)}
  BY SMTT(30), <1>1, <1>2 DEF ToSet, Once
<1>5. ASSUME NEW i \in DOMAIN s, i # 1
      PROVE  s[i] = t[i - 1] /\ i - 1 \in DOMAIN t
  BY <1>1, <1>2, <1>5
<1>6. ToSet(s) \ {Head(s)} \subseteq ToSet(t)
  BY <1>1, <1>2, <1>5 DEF ToSet
<1>7. Head(s) \in ToSet(s)
  BY <1>1, <1>2 DEF ToSet
<1> QED
  BY <1>1, <1>3, <1>4, <1>6, <1>7 DEF t

(* remove_client() takes out one entry and keeps all others once.          *)
LEMMA RemoveOnce ==
  ASSUME clients \in Seq(Clients), Once(clients), NEW i \in DOMAIN clients
  PROVE  /\ remove_client(i) \in Seq(Clients) /\ Len(remove_client(i)) = nclients - 1
         /\ Once(remove_client(i)) /\ ToSet(remove_client(i)) = Members \ {clients[i]}
<1> DEFINE n == Len(clients)
           s == [clients EXCEPT ![i] = Last(clients)]
           t == remove_client(i)
<1>1. n \in Nat \ {0} /\ DOMAIN clients = 1 .. n /\ i \in 1 .. n /\ clients[n] \in Clients
  OBVIOUS
<1>2. /\ s \in Seq(Clients) /\ Len(s) = n
      /\ \A j \in 1 .. n : s[j] = IF j = i THEN clients[n] ELSE clients[j]
  BY <1>1, ExceptSeq DEF Last
<1> HIDE DEF s
<1>3. /\ t \in Seq(Clients) /\ Len(t) = n - 1
      /\ \A j \in 1 .. n - 1 : t[j] = IF j = i THEN clients[n] ELSE clients[j]
  <2>1. CASE i = n
    <3>1. t = SubSeq(clients, 1, n - 1)
      BY <2>1 DEF remove_client, nclients, Front
    <3>2. t \in Seq(Clients) /\ Len(t) = n - 1 /\ \A j \in 1 .. n - 1 : t[j] = clients[j]
      BY <1>1, <3>1
    <3> QED
      BY <1>1, <2>1, <3>2
  <2>2. CASE i # n
    <3>1. t = SubSeq(s, 1, n - 1)
      BY <1>2, <2>2 DEF remove_client, nclients, Front, s
    <3> QED
      BY <1>1, <1>2, <3>1
  <2> QED
    BY <2>1, <2>2
<1> HIDE DEF t
<1>4. DOMAIN t = 1 .. n - 1
  BY <1>1, <1>3
<1> HIDE DEF n
<1>5. Once(t)
  BY <1>1, <1>3, <1>4 DEF Once
<1>6. ToSet(t) \subseteq Members \ {clients[i]}
  BY <1>1, <1>3, <1>4 DEF ToSet, Once, Members
<1>7. ASSUME NEW j \in 1 .. n, j # i
      PROVE  \E k \in 1 .. n - 1 : t[k] = clients[j]
  <2>1. CASE j = n
    BY <1>1, <1>3, <1>7, <2>1
  <2>2. CASE j # n
    BY <1>1, <1>3, <1>7, <2>2
  <2> QED
    BY <2>1, <2>2
<1>8. Members \ {clients[i]} \subseteq ToSet(t)
  BY <1>1, <1>4, <1>7 DEF ToSet, Members
<1> QED
  BY <1>3, <1>5, <1>6, <1>8 DEF t, n, nclients

(* The types, in two parts: the server with its history, the rest. *)
ServerTypes ==
  /\ spc \in {"poll", "accept", "hello", "scan", "send", "dead"}
  /\ clients \in Seq(Clients) /\ nclients <= MAX_CLIENTS
  /\ revents \subseteq 1 .. MAX_CLIENTS /\ knock \in BOOLEAN /\ slot \in 0 .. MAX_CLIENTS + 1
  /\ accepted \in Clients \cup {NoClient}
  /\ todo \subseteq 1 .. MAX_CLIENTS /\ frame \in Frame \cup {NoFrame}
SocketTypes ==
  /\ up \in [Clients -> Seq(Frame)] /\ down \in [Clients -> Seq(Frame)]
  /\ \A c \in Clients : Len(up[c]) <= Buffer /\ Len(down[c]) <= Buffer
ClientTypes ==
  /\ cpc \in [Clients -> {"off", "loop", "write", "closed"}]
  /\ line \in [Clients -> Frame \cup {NoFrame}]
  /\ typed \in [Clients -> Nat] /\ got \in [Clients -> Seq(Frame)]
HistoryTypes == log \in Seq(Frame) /\ joined \in [Clients -> Nat]
OtherTypes == backlog \in Seq(Clients) /\ hungUp \subseteq Clients

LEMMA TypeParts ==
  /\ TypeOK <=> ServerTypes /\ SocketTypes /\ ClientTypes /\ HistoryTypes /\ OtherTypes
  /\ TypeOK' <=> ServerTypes' /\ SocketTypes' /\ ClientTypes' /\ HistoryTypes' /\ OtherTypes'
BY DEF TypeOK, ServerTypes, SocketTypes, ClientTypes, HistoryTypes, OtherTypes

LEMMA Sizing ==
  ASSUME TypeOK, ServerAt
  PROVE  /\ MAX_CLIENTS \in Nat /\ Buffer \in Nat /\ NoClient \notin Clients
         /\ DOMAIN clients = 1 .. nclients /\ nclients \in Nat /\ nclients <= MAX_CLIENTS
         /\ DOMAIN clients \subseteq 1 .. MAX_CLIENTS
         /\ 1 \in 0 .. MAX_CLIENTS + 1 /\ 0 \in 0 .. MAX_CLIENTS + 1
         /\ \A i \in 1 .. MAX_CLIENTS : i \in 0 .. MAX_CLIENTS + 1 /\ i <= MAX_CLIENTS
<1>1. MAX_CLIENTS \in Nat /\ Buffer \in Nat /\ NoClient \notin Clients
  BY Bounds DEF ServerAt, NoClient
<1>2. clients \in Seq(Clients) /\ nclients <= MAX_CLIENTS
  BY DEF TypeOK
<1>3. DOMAIN clients = 1 .. nclients /\ nclients \in Nat
  BY <1>2 DEF nclients
<1>4. DOMAIN clients \subseteq 1 .. MAX_CLIENTS
  BY <1>1, <1>2, <1>3
<1>5. /\ 1 \in 0 .. MAX_CLIENTS + 1 /\ 0 \in 0 .. MAX_CLIENTS + 1
      /\ \A i \in 1 .. MAX_CLIENTS : i \in 0 .. MAX_CLIENTS + 1 /\ i <= MAX_CLIENTS
  BY <1>1
<1> QED
  BY <1>1, <1>2, <1>3, <1>4, <1>5

(* What the loops have chosen is there. *)
LEMMA NextIsThere ==
  ASSUME TypeOK, ServerAt
  PROVE  /\ Pending # {} => /\ Current \in Pending /\ Current \in DOMAIN clients
                            /\ Current \in 1 .. MAX_CLIENTS
                            /\ Speaker \in Clients /\ Speaker \in Members
         /\ todo # {} => /\ NextSlot \in todo /\ NextSlot \in DOMAIN clients
                         /\ Recipient \in Clients /\ Recipient \in Members
<1>1. \A i \in DOMAIN clients : clients[i] \in Clients /\ clients[i] \in Members
  <2>1. clients \in Seq(Clients)
    BY DEF TypeOK
  <2> QED
    BY <2>1 DEF Members, ToSet
<1>2. ASSUME Pending # {}
      PROVE  /\ Current \in Pending /\ Current \in DOMAIN clients
             /\ Current \in 1 .. MAX_CLIENTS
             /\ Speaker \in Clients /\ Speaker \in Members
  <2>1. Pending \subseteq 1 .. nclients
    <3>1. revents \subseteq 1 .. MAX_CLIENTS
      BY DEF TypeOK
    <3>2. \A i \in 1 .. MAX_CLIENTS : i <= nclients => i \in 1 .. nclients
      BY Sizing
    <3> QED
      BY <3>1, <3>2 DEF Pending
  <2>2. Current \in Pending
    BY Sizing, <1>2, <2>1, LeastExists DEF Current
  <2>3. Current \in DOMAIN clients /\ Current \in 1 .. MAX_CLIENTS
    BY Sizing, <2>1, <2>2
  <2>4. Speaker \in Clients /\ Speaker \in Members
    BY <1>1, <2>3 DEF Speaker
  <2> QED
    BY <1>2, <2>2, <2>3, <2>4
<1>3. ASSUME todo # {}
      PROVE  /\ NextSlot \in todo /\ NextSlot \in DOMAIN clients
             /\ Recipient \in Clients /\ Recipient \in Members
  <2>1. todo \subseteq 1 .. nclients
    BY Sizing DEF ServerAt
  <2>2. NextSlot \in todo
    BY Sizing, <1>3, <2>1, LeastExists DEF NextSlot
  <2>3. NextSlot \in DOMAIN clients
    BY Sizing, <2>1, <2>2
  <2>4. Recipient \in Clients /\ Recipient \in Members
    BY <1>1, <2>3 DEF Recipient
  <2> QED
    BY <1>3, <2>2, <2>3, <2>4
<1> QED
  BY <1>2, <1>3

LEMMA FrameMade ==
  ASSUME NEW k \in Kinds, NEW c \in Clients, NEW n \in Nat
  PROVE  F(k, c, n) \in Frame /\ F(k, c, n).from = c
BY DEF F, Frame, Kinds

(* Taking a frame out of a socket keeps the types. *)
LEMMA TakeKeeps ==
  ASSUME NEW x, x \in [Clients -> Seq(Frame)], \A c \in Clients : Len(x[c]) <= Buffer,
         NEW d \in Clients, x[d] # <<>>
  PROVE  /\ [x EXCEPT ![d] = Tail(@)] \in [Clients -> Seq(Frame)]
         /\ \A c \in Clients : Len([x EXCEPT ![d] = Tail(@)][c]) <= Buffer
         /\ Head(x[d]) \in Frame /\ Head(x[d]) = x[d][1]
<1>1. x[d] \in Seq(Frame) /\ Len(x[d]) <= Buffer /\ Buffer \in Nat
  BY Bounds
<1>2. /\ Tail(x[d]) \in Seq(Frame) /\ Len(Tail(x[d])) <= Buffer
      /\ Head(x[d]) \in Frame /\ Head(x[d]) = x[d][1]
  BY <1>1, HeadTailProperties
<1> QED
  BY <1>1, <1>2

(* So does adding one where there is room. *)
LEMMA PutKeeps ==
  ASSUME NEW x, x \in [Clients -> Seq(Frame)], \A c \in Clients : Len(x[c]) <= Buffer,
         NEW d \in Clients, Len(x[d]) < Buffer, NEW f \in Frame
  PROVE  /\ [x EXCEPT ![d] = Append(@, f)] \in [Clients -> Seq(Frame)]
         /\ \A c \in Clients : Len([x EXCEPT ![d] = Append(@, f)][c]) <= Buffer
<1>1. x[d] \in Seq(Frame) /\ Len(x[d]) < Buffer /\ Buffer \in Nat
  BY Bounds
<1>2. /\ Append(x[d], f) \in Seq(Frame) /\ Len(Append(x[d], f)) <= Buffer
  BY <1>1, AppendProperties
<1> QED
  BY <1>1, <1>2
(* Every step of the server keeps the types and its loop in order. *)
LEMMA ServerKeepsTypes ==
  ASSUME IInv, ServerStep
  PROVE  TypeOK' /\ ServerAt'
<1>1. TypeOK /\ ServerAt /\ (spc # "dead" => Places)
  BY DEF IInv
<1>2. ServerTypes /\ SocketTypes /\ ClientTypes /\ HistoryTypes /\ OtherTypes
  BY <1>1, TypeParts
<1>3. SUFFICES ServerTypes' /\ SocketTypes' /\ HistoryTypes' /\ OtherTypes' /\ ServerAt'
  <2>1. UNCHANGED client
    BY DEF ServerStep, Poll, NoKnock, Accept, Join, HelloFails, EndScan, Relay, Leave,
           SendFrame, SendToLeaver, SendDone
  <2>2. ClientTypes'
    BY <1>2, <2>1 DEF ClientTypes, client
  <2> QED
    BY <1>3, <2>2, TypeParts
<1>4. CASE Poll
  <2>1. ServerTypes' /\ ServerAt'
    BY <1>1, <1>2, <1>4, Sizing DEF Poll, ReadySlots, ServerTypes, ServerAt, rest, sockets, nclients
  <2> QED
    BY <1>2, <1>4, <2>1 DEF Poll, SocketTypes, HistoryTypes, OtherTypes, rest, sockets
<1>5. CASE NoKnock
  <2>1. ServerTypes' /\ ServerAt'
    BY <1>1, <1>2, <1>5, Sizing
    DEF NoKnock, StartScan, ServerTypes, ServerAt, rest, sockets, nclients
  <2> QED
    BY <1>2, <1>5, <2>1 DEF NoKnock, SocketTypes, HistoryTypes, OtherTypes, rest, sockets
<1>6. CASE Accept
  <2>1. backlog # <<>> /\ backlog \in Seq(Clients) /\ Once(backlog)
    BY <1>1, <1>2, <1>6 DEF Accept, Places, ServerAt, OtherTypes
  <2>2. Head(backlog) \in Clients /\ Tail(backlog) \in Seq(Clients)
    BY <2>1, TailOnce
  <2>3. Head(backlog) # NoClient
    BY <1>1, <2>2, Sizing
  <2>4. ServerTypes'
    BY <1>1, <1>2, <1>6, <2>2, Sizing DEF Accept, StartScan, ServerTypes, rest, nclients
  <2>5. ServerAt'
    BY <1>1, <1>6, <2>3 DEF Accept, Room, StartScan, ServerAt, rest, nclients
  <2>6. OtherTypes'
    BY <1>2, <1>6, <2>2 DEF Accept, HangUp, OtherTypes
  <2> QED
    BY <1>2, <1>6, <2>4, <2>5, <2>6 DEF Accept, SocketTypes, HistoryTypes, rest
<1>7. CASE Join
  <2>1. accepted \in Clients /\ nclients < MAX_CLIENTS /\ clients \in Seq(Clients)
    BY <1>1, <1>2, <1>7 DEF Join, ServerAt, ServerTypes
  <2>2. /\ clients' = Append(clients, accepted) /\ clients' \in Seq(Clients)
        /\ Len(clients') = nclients + 1
    BY <1>7, <2>1, AppendProperties DEF Join, nclients
  <2>3. /\ frame' = F("joined", accepted, 0) /\ log' = Append(log, frame')
        /\ todo' = Others(clients', accepted)
    BY <1>7 DEF Join, Broadcast
  <2>4. frame' \in Frame
    BY <2>1, <2>3, FrameMade DEF Kinds
  <2>5. log' \in Seq(Frame) /\ Len(log') \in Nat
    BY <1>2, <2>3, <2>4, AppendProperties DEF HistoryTypes
  <2>6. todo' \subseteq DOMAIN clients' /\ DOMAIN clients' = 1 .. nclients + 1
    BY <1>1, <2>2, <2>3, Sizing DEF Others
  <2>7. nclients + 1 \in 1 .. MAX_CLIENTS /\ 1 .. nclients + 1 \subseteq 1 .. MAX_CLIENTS
    BY <1>1, <2>1, Sizing
  <2>8. revents' \subseteq 1 .. MAX_CLIENTS
    BY <1>2, <1>7, <2>7 DEF Join, ServerTypes
  <2>9. SocketTypes'
    BY <1>2, <1>7, <2>1, TakeKeeps DEF Join, SocketTypes
  <2>10. HistoryTypes'
    BY <1>2, <1>7, <2>5 DEF Join, HistoryTypes
  <2>11. MAX_CLIENTS' = MAX_CLIENTS /\ spc' = "send" /\ knock' = FALSE /\ slot' = 0
         /\ accepted' = NoClient
    BY <1>7 DEF Join
  <2>12. ServerTypes'
    BY <1>1, <2>1, <2>2, <2>4, <2>6, <2>7, <2>8, <2>11, Sizing DEF ServerTypes, nclients
  <2>13. ServerAt'
    BY <1>1, <2>4, <2>6, <2>11, Sizing DEF ServerAt
  <2> QED
    BY <1>2, <1>7, <2>9, <2>10, <2>12, <2>13 DEF Join, OtherTypes
<1>8. CASE HelloFails
  <2>1. accepted \in Clients
    BY <1>1, <1>2, <1>8 DEF HelloFails, ServerAt, ServerTypes
  <2>2. ServerTypes' /\ ServerAt'
    BY <1>1, <1>2, <1>8, Sizing DEF HelloFails, StartScan, ServerTypes, ServerAt, rest, nclients
  <2> QED
    BY <1>2, <1>8, <2>1, <2>2
    DEF HelloFails, HangUp, SocketTypes, HistoryTypes, OtherTypes, rest
<1>9. CASE EndScan
  <2>1. ServerTypes' /\ ServerAt'
    BY <1>1, <1>2, <1>9, Sizing DEF EndScan, ServerTypes, ServerAt, rest, nclients
  <2> QED
    BY <1>2, <1>9, <2>1 DEF EndScan, SocketTypes, HistoryTypes, OtherTypes, rest, sockets
<1>10. CASE Relay
  <2>1. /\ Current \in 1 .. MAX_CLIENTS /\ Speaker \in Clients /\ up[Speaker] # <<>>
    BY <1>1, <1>10, NextIsThere DEF Relay
  <2>2. SocketTypes' /\ Head(up[Speaker]) \in Frame
    BY <1>2, <1>10, <2>1, TakeKeeps DEF Relay, SocketTypes
  <2>3. /\ frame' = Head(up[Speaker]) /\ log' = Append(log, frame')
        /\ todo' = Others(clients, Speaker)
    BY <1>10 DEF Relay, Broadcast, Except
  <2>4. log' \in Seq(Frame)
    BY <1>2, <2>2, <2>3, AppendProperties DEF HistoryTypes
  <2>5. todo' \subseteq DOMAIN clients /\ todo' \subseteq 1 .. MAX_CLIENTS
    BY <1>1, <2>3, Sizing DEF Others
  <2>6. /\ MAX_CLIENTS' = MAX_CLIENTS /\ spc' = "send" /\ slot' = Current
        /\ UNCHANGED <<clients, revents, knock, accepted>>
    BY <1>10 DEF Relay
  <2>7. ServerTypes'
    BY <1>1, <1>2, <2>1, <2>2, <2>3, <2>5, <2>6, Sizing DEF ServerTypes, nclients
  <2>8. ServerAt'
    BY <1>1, <1>10, <2>1, <2>2, <2>3, <2>5, <2>6, Sizing DEF ServerAt, Relay
  <2> QED
    BY <1>2, <1>10, <2>2, <2>4, <2>7, <2>8 DEF Relay, OtherTypes, HistoryTypes
<1>11. CASE Leave
  <2>1. /\ Current \in 1 .. MAX_CLIENTS /\ Current \in DOMAIN clients /\ Speaker \in Clients
    BY <1>1, <1>11, NextIsThere DEF Leave
  <2>2. /\ clients' \in Seq(Clients) /\ Len(clients') = nclients - 1
    BY <1>1, <1>2, <1>11, <2>1, RemoveOnce DEF Leave, ServerTypes, Places
  <2>3. /\ frame' = F("left", Speaker, 0) /\ log' = Append(log, frame')
        /\ todo' = Others(clients', NoClient)
    BY <1>11 DEF Leave, Broadcast
  <2>4. frame' \in Frame
    BY <2>1, <2>3, FrameMade DEF Kinds
  <2>5. log' \in Seq(Frame)
    BY <1>2, <2>3, <2>4, AppendProperties DEF HistoryTypes
  <2>6. DOMAIN clients' = 1 .. nclients - 1
    BY <2>2
  <2>7. 1 .. nclients - 1 \subseteq 1 .. MAX_CLIENTS /\ nclients - 1 <= MAX_CLIENTS
    BY <1>1, Sizing
  <2>8. todo' \subseteq DOMAIN clients' /\ todo' \subseteq 1 .. MAX_CLIENTS
    BY <2>3, <2>6, <2>7 DEF Others
  <2>9. /\ MAX_CLIENTS' = MAX_CLIENTS /\ spc' = "send" /\ slot' = Current
        /\ UNCHANGED <<revents, knock, accepted>>
    BY <1>11 DEF Leave
  <2>10. ServerTypes'
    BY <1>1, <1>2, <2>1, <2>2, <2>4, <2>7, <2>8, <2>9, Sizing DEF ServerTypes, nclients
  <2>11. ServerAt'
    BY <1>1, <1>11, <2>1, <2>4, <2>8, <2>9, Sizing DEF ServerAt, Leave
  <2> QED
    BY <1>2, <1>11, <2>1, <2>5, <2>10, <2>11
    DEF Leave, HangUp, OtherTypes, HistoryTypes, SocketTypes
<1>12. CASE SendFrame
  <2>1. Recipient \in Clients /\ frame \in Frame /\ Len(down[Recipient]) < Buffer
    BY <1>1, <1>12, NextIsThere DEF SendFrame, ServerAt
  <2>2. SocketTypes'
    BY <1>2, <1>12, <2>1, PutKeeps DEF SendFrame, SocketTypes
  <2>3. ServerTypes' /\ ServerAt'
    BY <1>1, <1>2, <1>12 DEF SendFrame, ServerTypes, ServerAt, rest, nclients
  <2> QED
    BY <1>2, <1>12, <2>2, <2>3 DEF SendFrame, HistoryTypes, OtherTypes, rest
<1>13. CASE SendToLeaver
  <2>1. ServerTypes' /\ ServerAt'
    BY <1>1, <1>2, <1>13 DEF SendToLeaver, ServerTypes, ServerAt, rest, nclients
  <2> QED
    BY <1>2, <1>13, <2>1 DEF SendToLeaver, SocketTypes, HistoryTypes, OtherTypes, rest
<1>14. CASE SendDone
  <2>1. ServerTypes' /\ ServerAt'
    BY <1>1, <1>2, <1>14, Sizing DEF SendDone, ServerTypes, ServerAt, rest, nclients
  <2> QED
    BY <1>2, <1>14, <2>1 DEF SendDone, SocketTypes, HistoryTypes, OtherTypes, rest, sockets
<1> QED
  BY <1>4, <1>5, <1>6, <1>7, <1>8, <1>9, <1>10, <1>11, <1>12, <1>13, <1>14 DEF ServerStep

(* The server takes frames out of the sockets and adds none. *)
LEMMA ServerKeepsSigned ==
  ASSUME IInv, ServerStep
  PROVE  Signed'
<1>1. TypeOK /\ ServerAt /\ Signed /\ SocketTypes
  BY TypeParts DEF IInv
<1>2. \/ up' = up
      \/ \E d \in Clients : up[d] # <<>> /\ up' = [up EXCEPT ![d] = Tail(@)]
  <2>1. CASE Join
    <3>1. accepted \in Clients
      BY <1>1, <2>1 DEF Join, ServerAt, TypeOK
    <3> QED
      BY <2>1, <3>1 DEF Join
  <2>2. CASE Relay
    BY <1>1, <2>2, NextIsThere DEF Relay
  <2>3. CASE ~Join /\ ~Relay
    BY <2>3 DEF ServerStep, Poll, NoKnock, Accept, HelloFails, EndScan, Leave,
                SendFrame, SendToLeaver, SendDone, sockets
  <2> QED
    BY <2>1, <2>2, <2>3
<1>3. cpc' = cpc /\ line' = line
  BY DEF ServerStep, Poll, NoKnock, Accept, Join, HelloFails, EndScan, Relay, Leave,
         SendFrame, SendToLeaver, SendDone, client
<1>4. ASSUME NEW c \in Clients
      PROVE  \A i \in DOMAIN up'[c] : up'[c][i].from = c
  <2>1. up[c] \in Seq(Frame) /\ up \in [Clients -> Seq(Frame)]
    BY <1>1 DEF SocketTypes
  <2>2. \A i \in DOMAIN up[c] : up[c][i].from = c
    BY <1>1 DEF Signed
  <2>3. CASE up'[c] = up[c]
    BY <2>2, <2>3
  <2>4. CASE up[c] # <<>> /\ up'[c] = Tail(up[c])
    <3>1. /\ Len(Tail(up[c])) = Len(up[c]) - 1 /\ Tail(up[c]) \in Seq(Frame)
          /\ \A i \in 1 .. Len(Tail(up[c])) : Tail(up[c])[i] = up[c][i + 1]
      BY <2>1, <2>4, HeadTailProperties
    <3>2. \A i \in DOMAIN Tail(up[c]) : i + 1 \in DOMAIN up[c] /\ Tail(up[c])[i] = up[c][i + 1]
      BY <2>1, <3>1
    <3> QED
      BY <2>2, <2>4, <3>2
  <2> QED
    BY <1>2, <2>1, <2>3, <2>4
<1>5. \A c \in Clients : cpc'[c] = "write" => line'[c] \in Frame /\ line'[c].from = c
  BY <1>1, <1>3 DEF Signed
<1> QED
  BY <1>4, <1>5 DEF Signed

(* Every step of a client keeps the types, and signs what it sends. *)
LEMMA ClientKeepsTypes ==
  ASSUME IInv, NEW c \in Clients, ClientStep(c) \/ Connect(c) \/ Type(c) \/ Quit(c)
  PROVE  TypeOK' /\ ServerAt' /\ Signed'
<1>1. TypeOK /\ ServerAt /\ Signed
  BY DEF IInv
<1>2. ServerTypes /\ SocketTypes /\ ClientTypes /\ HistoryTypes /\ OtherTypes
  BY <1>1, TypeParts
<1>3. UNCHANGED <<server, rest>>
  BY DEF ClientStep, Connect, Type, Quit, Write, Read, Hangup
<1>4. ServerTypes' /\ HistoryTypes'
  BY <1>2, <1>3 DEF ServerTypes, HistoryTypes, server, rest, nclients
<1>5. ServerAt' <=> (spc = "accept" /\ knock => backlog' # <<>>)
  BY <1>1, <1>3 DEF ServerAt, server, rest, nclients
<1>6. SUFFICES SocketTypes' /\ ClientTypes' /\ OtherTypes' /\ Signed'
               /\ (backlog' = backlog \/ backlog' # <<>>)
  <2>1. ServerAt'
    BY <1>1, <1>5, <1>6 DEF ServerAt
  <2> QED
    BY <1>4, <1>6, <2>1, TypeParts
<1>7. CASE Connect(c)
  <2>1. backlog' = Append(backlog, c) /\ backlog' \in Seq(Clients) /\ backlog' # <<>>
    BY <1>2, <1>7, AppendProperties DEF Connect, OtherTypes
  <2>2. F("nick", c, 0) \in Frame /\ F("nick", c, 0).from = c
    BY FrameMade DEF Kinds
  <2>3. ClientTypes' /\ Signed'
    BY <1>1, <1>2, <1>7, <2>2 DEF Connect, ClientTypes, Signed
  <2> QED
    BY <1>2, <1>7, <2>1, <2>3 DEF Connect, SocketTypes, OtherTypes
<1>8. CASE Type(c)
  <2>1. typed' \in [Clients -> Nat]
    BY <1>2, <1>8 DEF Type, ClientTypes
  <2>2. typed'[c] \in Nat
    BY <2>1
  <2>3. F("text", c, typed'[c]) \in Frame /\ F("text", c, typed'[c]).from = c
    BY <2>2, FrameMade DEF Kinds
  <2>4. /\ line' = [line EXCEPT ![c] = F("text", c, typed'[c])]
        /\ cpc' = [cpc EXCEPT ![c] = "write"] /\ UNCHANGED <<sockets, got>>
    BY <1>8 DEF Type
  <2>5. ClientTypes' /\ Signed'
    BY <1>1, <1>2, <2>1, <2>3, <2>4 DEF ClientTypes, Signed, sockets
  <2> QED
    BY <1>2, <2>4, <2>5 DEF SocketTypes, OtherTypes, sockets
<1>9. CASE Write(c)
  <2>1. line[c] \in Frame /\ line[c].from = c /\ up[c] \in Seq(Frame)
    BY <1>1, <1>2, <1>9 DEF Write, Signed, SocketTypes
  <2>2. /\ line' = [line EXCEPT ![c] = NoFrame]
        /\ cpc' \in {[cpc EXCEPT ![c] = "loop"], [cpc EXCEPT ![c] = "closed"]}
        /\ UNCHANGED <<backlog, down, hungUp, typed, got>>
    BY <1>9 DEF Write
  <2>3. ClientTypes'
    BY <1>2, <2>2 DEF ClientTypes
  <2>4. CASE up' = up
    <3>1. Signed'
      BY <1>1, <1>2, <2>2, <2>4 DEF Signed, ClientTypes
    <3> QED
      BY <1>2, <2>2, <2>3, <2>4, <3>1 DEF SocketTypes, OtherTypes
  <2>5. CASE Len(up[c]) < Buffer /\ up' = [up EXCEPT ![c] = Append(@, line[c])]
    <3>1. SocketTypes'
      BY <1>2, <2>1, <2>2, <2>5, PutKeeps DEF SocketTypes
    <3>2. \A i \in DOMAIN up'[c] : up'[c][i].from = c
      <4>1. up'[c] = Append(up[c], line[c])
        BY <1>2, <2>5 DEF SocketTypes
      <4>2. /\ DOMAIN up'[c] = 1 .. Len(up[c]) + 1 /\ up'[c][Len(up[c]) + 1] = line[c]
            /\ DOMAIN up[c] = 1 .. Len(up[c]) /\ Len(up[c]) \in Nat
            /\ \A i \in 1 .. Len(up[c]) : up'[c][i] = up[c][i]
        BY <2>1, <4>1, AppendProperties
      <4>3. \A i \in 1 .. Len(up[c]) + 1 : i \in 1 .. Len(up[c]) \/ i = Len(up[c]) + 1
        BY <4>2
      <4> QED
        BY <1>1, <2>1, <4>2, <4>3 DEF Signed
    <3>3. \A d \in Clients : d # c => up'[d] = up[d]
      BY <1>2, <2>5 DEF SocketTypes
    <3>4. \A d \in Clients : cpc'[d] = "write" => d # c /\ cpc[d] = "write" /\ line'[d] = line[d]
      BY <1>2, <2>2 DEF ClientTypes
    <3>5. Signed'
      BY <1>1, <3>2, <3>3, <3>4 DEF Signed
    <3> QED
      BY <1>2, <2>2, <2>3, <3>1, <3>5 DEF OtherTypes
  <2> QED
    BY <1>9, <2>4, <2>5 DEF Write
<1>10. CASE Read(c)
  <2>1. down[c] # <<>> /\ Head(down[c]) \in Frame /\ SocketTypes'
    BY <1>2, <1>10, TakeKeeps DEF Read, SocketTypes
  <2>2. got' \in [Clients -> Seq(Frame)]
    <3>1. got[c] \in Seq(Frame)
      BY <1>2 DEF ClientTypes
    <3>2. Append(got[c], Head(down[c])) \in Seq(Frame)
      BY <2>1, <3>1, AppendProperties
    <3> QED
      BY <1>2, <1>10, <3>2 DEF Read, ClientTypes
  <2> QED
    BY <1>1, <1>2, <1>10, <2>1, <2>2 DEF Read, ClientTypes, OtherTypes, Signed
<1>11. CASE Hangup(c)
  <2>1. UNCHANGED <<sockets, line, typed, got>> /\ cpc' = [cpc EXCEPT ![c] = "closed"]
    BY <1>11 DEF Hangup
  <2>2. ClientTypes' /\ Signed'
    BY <1>1, <1>2, <2>1 DEF ClientTypes, Signed, sockets
  <2> QED
    BY <1>2, <2>1, <2>2 DEF sockets, SocketTypes, OtherTypes
<1>12. CASE Quit(c)
  <2>1. /\ UNCHANGED <<sockets, typed, got>> /\ cpc' = [cpc EXCEPT ![c] = "closed"]
        /\ line' = [line EXCEPT ![c] = NoFrame]
    BY <1>12 DEF Quit
  <2>2. ClientTypes' /\ Signed'
    BY <1>1, <1>2, <2>1 DEF ClientTypes, Signed, sockets
  <2> QED
    BY <1>2, <2>1, <2>2 DEF sockets, SocketTypes, OtherTypes
<1> QED
  BY <1>7, <1>8, <1>9, <1>10, <1>11, <1>12 DEF ClientStep

-----------------------------------------------------------------------------
(* Each client goes from one place to the next. *)

Here == {c \in Clients : Connected(c)}

LEMMA PlacesStay ==
  ASSUME Places, UNCHANGED <<backlog, clients, accepted, hungUp>>, Here' = Here
  PROVE  Places'
BY DEF Places, Waiting, Greeted, Members, Here

LEMMA ServerKeepsPlaces ==
  ASSUME IInv, ServerStep, spc' # "dead"
  PROVE  Places'
<1>1. TypeOK /\ ServerAt /\ Places /\ OtherTypes
  <2>1. spc # "dead"
    BY DEF ServerStep, Poll, NoKnock, Accept, Join, HelloFails, EndScan, Relay, Leave,
           SendFrame, SendToLeaver, SendDone
  <2> QED
    BY <2>1, TypeParts DEF IInv
<1>2. Here' = Here
  <2>1. cpc' = cpc
    BY DEF ServerStep, Poll, NoKnock, Accept, Join, HelloFails, EndScan, Relay, Leave,
           SendFrame, SendToLeaver, SendDone, client
  <2> QED
    BY <2>1 DEF Here, Connected
<1>3. /\ Once(backlog) /\ Once(clients)
      /\ Waiting \cap (Greeted \cup Members \cup hungUp) = {}
      /\ Greeted \cap (Members \cup hungUp) = {}
      /\ Members \cap hungUp = {}
      /\ Here = Waiting \cup Greeted \cup Members \cup hungUp
  BY <1>1 DEF Places, Here
<1>4. SUFFICES /\ Once(backlog') /\ Once(clients')
               /\ Waiting' \cap (Greeted' \cup Members' \cup hungUp') = {}
               /\ Greeted' \cap (Members' \cup hungUp') = {}
               /\ Members' \cap hungUp' = {}
               /\ Here = Waiting' \cup Greeted' \cup Members' \cup hungUp'
  BY <1>2, <1>4 DEF Places, Here, Once
<1>5. CASE Accept
  <2>1. backlog # <<>> /\ backlog \in Seq(Clients) /\ accepted = NoClient
    BY <1>1, <1>5 DEF Accept, ServerAt, OtherTypes
  <2> DEFINE h == Head(backlog)
  <2>2. /\ h \in Waiting /\ h \in Clients /\ h # NoClient
        /\ Once(Tail(backlog)) /\ ToSet(Tail(backlog)) = Waiting \ {h}
    BY <1>1, <1>3, <2>1, TailOnce, Sizing DEF Waiting
  <2> HIDE DEF h
  <2>3. Once(backlog') /\ Waiting' = Waiting \ {h} /\ clients' = clients /\ Members' = Members
    BY <1>5, <2>2 DEF Accept, Waiting, Members
  <2>4. Greeted = {}
    BY <2>1 DEF Greeted
  <2>5. CASE Room
    <3>1. Greeted' = {h} /\ hungUp' = hungUp
      BY <1>5, <2>2, <2>5 DEF Accept, Greeted, h
    <3> QED
      BY <1>3, <2>2, <2>3, <2>4, <3>1
  <2>6. CASE ~Room
    <3>1. Greeted' = {} /\ hungUp' = hungUp \cup {h}
      BY <1>5, <2>1, <2>6 DEF Accept, Greeted, HangUp, h
    <3> QED
      BY <1>3, <2>2, <2>3, <2>4, <3>1
  <2> QED
    BY <2>5, <2>6
<1>6. CASE Join
  <2>1. accepted \in Clients /\ accepted # NoClient /\ clients \in Seq(Clients)
    BY <1>1, <1>6 DEF Join, ServerAt, TypeOK
  <2>2. Greeted = {accepted} /\ accepted \notin ToSet(clients)
    BY <1>3, <2>1 DEF Greeted, Members
  <2>3. Once(clients') /\ Members' = Members \cup {accepted}
    BY <1>3, <1>6, <2>1, <2>2, AppendOnce DEF Join, Members
  <2>4. Greeted' = {} /\ backlog' = backlog /\ Waiting' = Waiting /\ hungUp' = hungUp
    BY <1>6 DEF Join, Greeted, Waiting
  <2> QED
    BY <1>3, <2>2, <2>3, <2>4
<1>7. CASE HelloFails
  <2>1. accepted # NoClient
    BY <1>1, <1>7 DEF HelloFails, ServerAt
  <2>2. Greeted = {accepted}
    BY <2>1 DEF Greeted
  <2>3. /\ Greeted' = {} /\ backlog' = backlog /\ Waiting' = Waiting
        /\ clients' = clients /\ Members' = Members /\ hungUp' = hungUp \cup {accepted}
    BY <1>7 DEF HelloFails, HangUp, Greeted, Waiting, Members
  <2> QED
    BY <1>3, <2>2, <2>3
<1>8. CASE Leave
  <2>1. Current \in DOMAIN clients /\ Speaker \in Members /\ clients \in Seq(Clients)
    BY <1>1, <1>8, NextIsThere DEF Leave, TypeOK
  <2>2. Once(clients') /\ Members' = Members \ {Speaker}
    BY <1>3, <1>8, <2>1, RemoveOnce DEF Leave, Members, Speaker
  <2>3. /\ Greeted' = Greeted /\ backlog' = backlog /\ Waiting' = Waiting
        /\ hungUp' = hungUp \cup {Speaker}
    BY <1>8 DEF Leave, HangUp, Greeted, Waiting
  <2> QED
    BY <1>3, <2>1, <2>2, <2>3
<1>9. CASE ~(Accept \/ Join \/ HelloFails \/ Leave)
  <2>1. UNCHANGED <<backlog, clients, accepted, hungUp>>
    BY <1>9 DEF ServerStep, Poll, NoKnock, EndScan, Relay, SendFrame, SendToLeaver, SendDone,
                sockets
  <2> QED
    BY <1>3, <2>1 DEF Waiting, Greeted, Members
<1> QED
  BY <1>5, <1>6, <1>7, <1>8, <1>9

LEMMA ClientKeepsPlaces ==
  ASSUME IInv, spc # "dead",
         NEW c \in Clients, ClientStep(c) \/ Connect(c) \/ Type(c) \/ Quit(c)
  PROVE  Places'
<1>1. TypeOK /\ Places /\ ClientTypes /\ OtherTypes
  BY TypeParts DEF IInv
<1>2. UNCHANGED <<clients, accepted, hungUp>>
  BY DEF ClientStep, Connect, Type, Quit, Write, Read, Hangup, server, sockets
<1>3. CASE Connect(c)
  <2>1. /\ Once(backlog) /\ Once(clients)
        /\ Waiting \cap (Greeted \cup Members \cup hungUp) = {}
        /\ Greeted \cap (Members \cup hungUp) = {}
        /\ Members \cap hungUp = {}
        /\ Here = Waiting \cup Greeted \cup Members \cup hungUp
    BY <1>1 DEF Places, Here
  <2>2. c \notin Here /\ Here' = Here \cup {c}
    BY <1>1, <1>3 DEF Connect, Here, Connected, ClientTypes
  <2>3. Once(backlog') /\ Waiting' = Waiting \cup {c}
    BY <1>1, <1>3, <2>1, <2>2, AppendOnce DEF Connect, Waiting, OtherTypes
  <2>4. Greeted' = Greeted /\ Members' = Members /\ Once(clients') /\ hungUp' = hungUp
    BY <1>2, <2>1 DEF Greeted, Members
  <2>5. /\ Waiting' \cap (Greeted' \cup Members' \cup hungUp') = {}
        /\ Greeted' \cap (Members' \cup hungUp') = {}
        /\ Members' \cap hungUp' = {}
        /\ Here' = Waiting' \cup Greeted' \cup Members' \cup hungUp'
    BY <2>1, <2>2, <2>3, <2>4
  <2> QED
    BY <2>3, <2>4, <2>5 DEF Places, Here, Once
<1>4. CASE ~Connect(c)
  <2>1. backlog' = backlog
    BY <1>4 DEF ClientStep, Type, Quit, Write, Read, Hangup, sockets
  <2>2. cpc[c] # "off" /\ cpc'[c] # "off" /\ \A d \in Clients : d # c => cpc'[d] = cpc[d]
    BY <1>1, <1>4 DEF ClientStep, Type, Quit, Write, Read, Hangup, ClientTypes
  <2>3. Here' = Here
    BY <2>2 DEF Here, Connected
  <2> QED
    BY <1>1, <1>2, <2>1, <2>3, PlacesStay
<1> QED
  BY <1>3, <1>4

-----------------------------------------------------------------------------
(* Each member's view follows the log. *)

(* A broadcast begins: the others are to get it, its author is not.        *)
LEMMA OneMore ==
  ASSUME TypeOK, todo = {}, NEW c \in Clients, joined[c] <= Len(log),
         Seen(Due(c), log, joined[c], c),
         NEW f \in Frame, frame' = f, log' = Append(log, f),
         UNCHANGED <<got, down>>, joined'[c] = joined[c], Awaited(c)' <=> f.from # c
  PROVE  Seen(Due(c)', log', joined'[c], c)
<1>1. Due(c) = Sent(c)
  BY DEF Due, Awaited
<1>2. Sent(c)' = Sent(c) /\ Sent(c) \in Seq(Frame)
  <2>1. got[c] \in Seq(Frame) /\ down[c] \in Seq(Frame)
    BY DEF TypeOK
  <2> QED
    BY <2>1, SentMoves DEF Sent
<1>3. log \in Seq(Frame) /\ joined[c] \in 0 .. Len(log)
  BY DEF TypeOK
<1>4. /\ f.from = c => Seen(Sent(c), log', joined[c], c)
      /\ f.from # c => Seen(Append(Sent(c), f), log', joined[c], c)
  BY <1>1, <1>2, <1>3, SeenMore
<1>5. Due(c)' = IF f.from # c THEN Append(Sent(c), f) ELSE Sent(c)
  BY <1>2 DEF Due
<1> QED
  BY <1>4, <1>5

LEMMA AwaitedAre ==
  ASSUME NEW x, todo' = Others(clients', x), NEW c, c \in Members'
  PROVE  Awaited(c)' <=> c # x
BY DEF Awaited, Others, Members, ToSet

(* A step that adds nothing and sends nothing. *)
LEMMA ViewsStay ==
  ASSUME Views, UNCHANGED <<log, joined, got, down, clients>>,
         hungUp \subseteq hungUp',
         \A c \in Clients : Closed(c) => Closed(c)',
         \A c \in Clients : ~Closed(c)' => (Awaited(c)' <=> Awaited(c)),
         \A c \in Clients : Awaited(c) => frame' = frame
  PROVE  Views'
<1>1. Members' = Members /\ \A c \in Clients : Sent(c)' = Sent(c)
  BY DEF Members, Sent
<1>2. ASSUME NEW c \in Clients, ~Closed(c)'
      PROVE  Due(c)' = Due(c)
  BY <1>1, <1>2 DEF Due
<1>3. ASSUME NEW c \in Clients
      PROVE  /\ joined'[c] <= Len(log')
             /\ c \notin Members' \cup hungUp' => down'[c] = <<>> /\ got'[c] = <<>>
             /\ c \in Members' /\ ~Closed(c)' => Seen(Due(c)', log', joined'[c], c)
  <2>1. /\ joined'[c] <= Len(log')
        /\ c \notin Members' \cup hungUp' => down'[c] = <<>> /\ got'[c] = <<>>
    BY <1>1 DEF Views
  <2>2. ASSUME c \in Members', ~Closed(c)'
        PROVE  Seen(Due(c)', log', joined'[c], c)
    <3>1. Seen(Due(c), log, joined[c], c)
      BY <1>1, <2>2 DEF Views
    <3> QED
      BY <1>2, <2>2, <3>1
  <2> QED
    BY <2>1, <2>2
<1> QED
  BY <1>3 DEF Views

LEMMA ServerKeepsViews ==
  ASSUME IInv, ServerStep, spc' # "dead"
  PROVE  Views'
<1>1. TypeOK /\ ServerAt /\ Signed /\ Places /\ Views /\ HistoryTypes
  <2>1. spc # "dead"
    BY DEF ServerStep, Poll, NoKnock, Accept, Join, HelloFails, EndScan, Relay, Leave,
           SendFrame, SendToLeaver, SendDone
  <2> QED
    BY <2>1, TypeParts DEF IInv
<1>2. cpc' = cpc /\ got' = got /\ \A c \in Clients : Closed(c)' = Closed(c)
  <2>1. UNCHANGED client
    BY DEF ServerStep, Poll, NoKnock, Accept, Join, HelloFails, EndScan, Relay, Leave,
           SendFrame, SendToLeaver, SendDone
  <2> QED
    BY <2>1 DEF client, Closed
<1>3. log \in Seq(Frame) /\ Len(log) \in Nat /\ joined \in [Clients -> Nat]
  BY <1>1 DEF HistoryTypes
<1>4. ASSUME NEW f \in Frame, log' = Append(log, f)
      PROVE  Len(log') = Len(log) + 1 /\ log' \in Seq(Frame)
  BY <1>3, <1>4, AppendProperties
<1>5. CASE Poll \/ NoKnock \/ Accept \/ HelloFails \/ EndScan
  <2>1. todo = {}
    BY <1>1, <1>5 DEF Poll, NoKnock, Accept, HelloFails, EndScan, ServerAt
  <2>2. /\ UNCHANGED <<log, joined, got, down, clients, todo, frame>>
        /\ hungUp \subseteq hungUp'
    BY <1>5 DEF Poll, NoKnock, Accept, HelloFails, EndScan, HangUp, StartScan, rest, client, sockets
  <2>3. \A c \in Clients : Awaited(c)' = Awaited(c)
    BY <2>2 DEF Awaited
  <2> QED
    BY <1>1, <1>2, <2>2, <2>3, ViewsStay
<1>6. CASE Join
  <2>1. accepted \in Clients /\ accepted # NoClient /\ clients \in Seq(Clients) /\ todo = {}
    BY <1>1, <1>6 DEF Join, ServerAt, TypeOK
  <2>2. accepted \notin Members /\ accepted \notin hungUp
    BY <1>1, <2>1 DEF Places, Greeted
  <2>3. Members' = Members \cup {accepted}
    BY <1>1, <1>6, <2>1, <2>2, AppendOnce DEF Join, Members, Places
  <2> DEFINE f == F("joined", accepted, 0)
  <2>4. f \in Frame /\ f.from = accepted
    BY <2>1, FrameMade DEF Kinds
  <2>5. /\ frame' = f /\ log' = Append(log, f) /\ todo' = Others(clients', accepted)
        /\ joined' = [joined EXCEPT ![accepted] = Len(log')]
        /\ UNCHANGED <<down, hungUp, got>>
    BY <1>6 DEF Join, Broadcast, client
  <2> HIDE DEF f
  <2>6. Len(log') = Len(log) + 1 /\ log' \in Seq(Frame)
    BY <1>4, <2>4, <2>5
  <2>7. ASSUME NEW c \in Clients
        PROVE  joined'[c] <= Len(log')
    BY <1>1, <1>3, <2>5, <2>6 DEF Views
  <2>8. ASSUME NEW c \in Clients, c \notin Members' \cup hungUp'
        PROVE  down'[c] = <<>> /\ got'[c] = <<>>
    BY <1>1, <2>3, <2>5, <2>8 DEF Views
  <2>9. ASSUME NEW c \in Clients, c \in Members', ~Closed(c)'
        PROVE  Seen(Due(c)', log', joined'[c], c)
    <3>1. Awaited(c)' <=> c # accepted
      BY <2>5, <2>9, AwaitedAre
    <3>2. CASE c = accepted
      <4>1. got[c] = <<>> /\ down[c] = <<>>
        BY <1>1, <2>2, <3>2 DEF Views
      <4>2. Due(c)' = <<>>
        BY <2>5, <3>1, <3>2, <4>1 DEF Due, Sent
      <4>3. joined'[c] = Len(log')
        BY <1>3, <2>5, <3>2
      <4> QED
        BY <2>6, <4>2, <4>3, SeenNothing
    <3>3. CASE c # accepted
      <4>1. joined[c] <= Len(log) /\ Seen(Due(c), log, joined[c], c)
        BY <1>1, <1>2, <2>3, <2>9, <3>3 DEF Views
      <4>2. joined'[c] = joined[c]
        BY <1>3, <2>5, <3>3
      <4> QED
        BY <1>1, <2>1, <2>4, <2>5, <3>1, <3>3, <4>1, <4>2, OneMore
    <3> QED
      BY <3>2, <3>3
  <2> QED
    BY <2>7, <2>8, <2>9 DEF Views
<1>7. CASE Relay
  <2>1. Speaker \in Clients /\ up[Speaker] # <<>> /\ todo = {}
    BY <1>1, <1>7, NextIsThere DEF Relay, ServerAt
  <2> DEFINE f == Head(up[Speaker])
  <2>2. f \in Frame /\ f.from = Speaker
    <3>1. up[Speaker] \in Seq(Frame) /\ \A i \in DOMAIN up[Speaker] : up[Speaker][i].from = Speaker
      BY <1>1, <2>1 DEF TypeOK, Signed
    <3> QED
      BY <2>1, <3>1, HeadTailProperties
  <2>3. /\ frame' = f /\ log' = Append(log, f) /\ todo' = Others(clients', Speaker)
        /\ UNCHANGED <<down, hungUp, got, joined, clients>>
    BY <1>7 DEF Relay, Broadcast, Except, client
  <2> HIDE DEF f
  <2>4. Len(log') = Len(log) + 1 /\ log' \in Seq(Frame) /\ Members' = Members
    BY <1>4, <2>2, <2>3 DEF Members
  <2>5. ASSUME NEW c \in Clients
        PROVE  joined'[c] <= Len(log')
    BY <1>1, <1>3, <2>3, <2>4 DEF Views
  <2>6. ASSUME NEW c \in Clients, c \notin Members' \cup hungUp'
        PROVE  down'[c] = <<>> /\ got'[c] = <<>>
    BY <1>1, <2>3, <2>4, <2>6 DEF Views
  <2>7. ASSUME NEW c \in Clients, c \in Members', ~Closed(c)'
        PROVE  Seen(Due(c)', log', joined'[c], c)
    <3>1. Awaited(c)' <=> c # Speaker
      BY <2>3, <2>7, AwaitedAre
    <3>2. joined[c] <= Len(log) /\ Seen(Due(c), log, joined[c], c)
      BY <1>1, <1>2, <2>4, <2>7 DEF Views
    <3> QED
      BY <1>1, <2>1, <2>2, <2>3, <3>1, <3>2, OneMore
  <2> QED
    BY <2>5, <2>6, <2>7 DEF Views
<1>8. CASE Leave
  <2>1. /\ Speaker \in Clients /\ Current \in DOMAIN clients /\ todo = {}
        /\ clients \in Seq(Clients)
    BY <1>1, <1>8, NextIsThere DEF Leave, ServerAt, TypeOK
  <2>2. Members' = Members \ {Speaker} /\ Closed(Speaker)
    BY <1>1, <1>8, <2>1, RemoveOnce DEF Leave, Members, Speaker, Places
  <2> DEFINE f == F("left", Speaker, 0)
  <2>3. f \in Frame /\ f.from = Speaker
    BY <2>1, FrameMade DEF Kinds
  <2>4. /\ frame' = f /\ log' = Append(log, f) /\ todo' = Others(clients', NoClient)
        /\ hungUp' = hungUp \cup {Speaker} /\ UNCHANGED <<down, got, joined>>
    BY <1>8 DEF Leave, Broadcast, HangUp, client
  <2> HIDE DEF f
  <2>5. Len(log') = Len(log) + 1 /\ log' \in Seq(Frame)
    BY <1>4, <2>3, <2>4
  <2>6. ASSUME NEW c \in Clients
        PROVE  joined'[c] <= Len(log')
    BY <1>1, <1>3, <2>4, <2>5 DEF Views
  <2>7. ASSUME NEW c \in Clients, c \notin Members' \cup hungUp'
        PROVE  down'[c] = <<>> /\ got'[c] = <<>>
    BY <1>1, <2>2, <2>4, <2>7 DEF Views
  <2>8. ASSUME NEW c \in Clients, c \in Members', ~Closed(c)'
        PROVE  Seen(Due(c)', log', joined'[c], c)
    <3>1. c # Speaker /\ c # NoClient
      BY <1>1, <2>2, <2>8, Sizing
    <3>2. Awaited(c)' <=> c # NoClient
      BY <2>4, <2>8, AwaitedAre
    <3>3. joined[c] <= Len(log) /\ Seen(Due(c), log, joined[c], c)
      BY <1>1, <1>2, <2>2, <2>8 DEF Views
    <3> QED
      BY <1>1, <2>1, <2>3, <2>4, <3>1, <3>2, <3>3, OneMore
  <2> QED
    BY <2>6, <2>7, <2>8 DEF Views
<1>9. CASE SendFrame
  <2>1. /\ Recipient \in Clients /\ Recipient \in Members /\ NextSlot \in todo
        /\ clients[NextSlot] = Recipient /\ frame \in Frame
        /\ todo \subseteq DOMAIN clients /\ Once(clients)
    BY <1>1, <1>9, NextIsThere DEF SendFrame, ServerAt, Recipient, Places
  <2>2. /\ down' = [down EXCEPT ![Recipient] = Append(@, frame)] /\ todo' = todo \ {NextSlot}
        /\ UNCHANGED <<hungUp, got, joined, log, clients, frame>>
    BY <1>9 DEF SendFrame, client, rest
  <2>3. Members' = Members /\ down \in [Clients -> Seq(Frame)] /\ got \in [Clients -> Seq(Frame)]
    BY <1>1, <2>2 DEF Members, TypeOK
  <2>4. ASSUME NEW c \in Clients, c \notin Members' \cup hungUp'
        PROVE  down'[c] = <<>> /\ got'[c] = <<>>
    BY <1>1, <2>1, <2>2, <2>3, <2>4 DEF Views
  <2>5. ASSUME NEW c \in Clients
        PROVE  Due(c)' = Due(c)
    <3>1. CASE c = Recipient
      <4>1. Awaited(c) /\ ~Awaited(c)'
        BY <2>1, <2>2, <3>1 DEF Awaited, Once
      <4>2. Sent(c)' = Append(Sent(c), frame)
        BY <2>1, <2>2, <2>3, <3>1, SentMoves DEF Sent
      <4> QED
        BY <4>1, <4>2 DEF Due
    <3>2. CASE c # Recipient
      <4>1. Awaited(c)' = Awaited(c)
        BY <2>1, <2>2, <3>2 DEF Awaited
      <4>2. Sent(c)' = Sent(c)
        BY <2>2, <2>3, <3>2 DEF Sent
      <4> QED
        BY <2>2, <4>1, <4>2 DEF Due
    <3> QED
      BY <3>1, <3>2
  <2> QED
    BY <1>1, <1>2, <2>2, <2>3, <2>4, <2>5 DEF Views
<1>10. CASE SendToLeaver
  <2>1. /\ todo' = todo \ {NextSlot} /\ Closed(Recipient) /\ clients[NextSlot] = Recipient
        /\ UNCHANGED <<down, hungUp, got, joined, log, clients, frame>>
    BY <1>10 DEF SendToLeaver, client, rest, Recipient
  <2>2. \A c \in Clients : ~Closed(c)' => (Awaited(c)' <=> Awaited(c))
    BY <1>2, <2>1 DEF Awaited
  <2> QED
    BY <1>1, <1>2, <2>1, <2>2, ViewsStay
<1>11. CASE SendDone
  <2>1. todo = {} /\ UNCHANGED <<todo, down, hungUp, got, joined, log, clients>>
    BY <1>11 DEF SendDone, client, rest, sockets
  <2>2. \A c \in Clients : ~Awaited(c) /\ ~Awaited(c)'
    BY <2>1 DEF Awaited
  <2> QED
    BY <1>1, <1>2, <2>1, <2>2, ViewsStay
<1> QED
  BY <1>5, <1>6, <1>7, <1>8, <1>9, <1>10, <1>11 DEF ServerStep

LEMMA ClientKeepsViews ==
  ASSUME IInv, spc # "dead",
         NEW c \in Clients, ClientStep(c) \/ Connect(c) \/ Type(c) \/ Quit(c)
  PROVE  Views'
<1>1. TypeOK /\ Views
  BY DEF IInv
<1>2. UNCHANGED <<clients, todo, frame, hungUp, joined, log>>
  BY DEF ClientStep, Connect, Type, Quit, Write, Read, Hangup, server, sockets, rest
<1>3. \A d \in Clients : Closed(d) => Closed(d)'
  BY <1>1 DEF ClientStep, Connect, Type, Quit, Write, Read, Hangup, Closed, TypeOK
<1>4. \A d \in Clients : Awaited(d)' = Awaited(d)
  BY <1>2 DEF Awaited
<1>5. CASE Read(c)
  <2>1. /\ down[c] # <<>> /\ got' = [got EXCEPT ![c] = Append(@, Head(down[c]))]
        /\ down' = [down EXCEPT ![c] = Tail(@)]
    BY <1>5 DEF Read
  <2>2. got \in [Clients -> Seq(Frame)] /\ down \in [Clients -> Seq(Frame)] /\ Members' = Members
    BY <1>1, <1>2 DEF TypeOK, Members
  <2>3. c \in Members \cup hungUp
    BY <1>1, <2>1 DEF Views
  <2>4. ASSUME NEW d \in Clients
        PROVE  Sent(d)' = Sent(d)
    <3>1. got[c] \in Seq(Frame) /\ down[c] \in Seq(Frame)
      BY <2>2
    <3>2. Append(got[c], Head(down[c])) \o Tail(down[c]) = got[c] \o down[c]
      BY <2>1, <3>1, SentMoves
    <3> QED
      BY <2>1, <2>2, <3>2 DEF Sent
  <2>5. \A d \in Clients : Due(d)' = Due(d)
    BY <1>2, <1>4, <2>4 DEF Due
  <2>6. ASSUME NEW d \in Clients, d \notin Members' \cup hungUp'
        PROVE  down'[d] = <<>> /\ got'[d] = <<>>
    BY <1>1, <1>2, <2>1, <2>2, <2>3, <2>6 DEF Views
  <2> QED
    BY <1>1, <1>2, <1>3, <2>2, <2>5, <2>6 DEF Views
<1>6. CASE ~Read(c)
  <2>1. UNCHANGED <<got, down>>
    BY <1>6 DEF ClientStep, Connect, Type, Quit, Write, Hangup, sockets
  <2> QED
    BY <1>1, <1>2, <1>3, <1>4, <2>1, ViewsStay
<1> QED
  BY <1>5, <1>6

-----------------------------------------------------------------------------
(* The theorems. *)

LEMMA Started == Init => IInv
<1> SUFFICES ASSUME Init
             PROVE  IInv
  OBVIOUS
<1>1. MAX_CLIENTS \in Nat /\ Buffer \in Nat
  BY Bounds DEF Init
<1>2. TypeOK
  <2>1. ServerTypes
    <3>1. 1 \in 0 .. MAX_CLIENTS + 1 /\ 0 <= MAX_CLIENTS
      BY <1>1
    <3>2. clients \in Seq(Clients) /\ nclients = 0
      BY DEF Init, nclients
    <3> QED
      BY <3>1, <3>2 DEF Init, ServerTypes
  <2>2. SocketTypes /\ ClientTypes /\ HistoryTypes /\ OtherTypes
    BY <1>1 DEF Init, SocketTypes, ClientTypes, HistoryTypes, OtherTypes
  <2> QED
    BY <2>1, <2>2, TypeParts
<1>3. ServerAt /\ Signed
  BY DEF Init, ServerAt, Signed
<1>4. Places
  BY DEF Init, Places, Once, Waiting, Greeted, Members, ToSet, Connected
<1>5. Views
  BY Bounds DEF Init, Views, Members, ToSet
<1> QED
  BY <1>2, <1>3, <1>4, <1>5 DEF IInv

LEMMA Kept == IInv /\ [Next]_vars => IInv'
<1> SUFFICES ASSUME IInv, [Next]_vars
             PROVE  IInv'
  OBVIOUS
<1>1. CASE ServerStep
  BY <1>1, ServerKeepsTypes, ServerKeepsSigned, ServerKeepsPlaces, ServerKeepsViews DEF IInv
<1>2. ASSUME NEW c \in Clients, ClientStep(c) \/ Connect(c) \/ Type(c) \/ Quit(c)
      PROVE  IInv'
  <2>1. spc' = spc
    BY <1>2 DEF ClientStep, Connect, Type, Quit, Write, Read, Hangup, server
  <2> QED
    BY <1>2, <2>1, ClientKeepsTypes, ClientKeepsPlaces, ClientKeepsViews DEF IInv
<1>3. CASE UNCHANGED vars
  <2>1. UNCHANGED <<MAX_CLIENTS, spc, clients, revents, knock, slot, accepted, todo, frame>>
    BY <1>3 DEF vars, server, rest
  <2>2. UNCHANGED <<backlog, up, down, hungUp, cpc, line, typed, got, log, joined>>
    BY <1>3 DEF vars, sockets, client, rest
  <2>3. TypeOK' /\ ServerAt' /\ Signed'
    BY <2>1, <2>2 DEF IInv, TypeOK, ServerAt, Signed, nclients
  <2>4. spc # "dead" => Places'
    BY <2>1, <2>2 DEF IInv, Places, Waiting, Greeted, Members, Connected
  <2>5. spc # "dead" => Views'
    <3>1. \A c \in Clients : Closed(c)' = Closed(c) /\ Awaited(c)' = Awaited(c)
      BY <2>1, <2>2 DEF Closed, Awaited
    <3> QED
      BY <2>1, <2>2, <3>1, ViewsStay DEF IInv
  <2> QED
    BY <2>1, <2>3, <2>4, <2>5 DEF IInv
<1> QED
  BY <1>1, <1>2, <1>3 DEF Next

LEMMA OnceCounted ==
  ASSUME NEW s, Once(s), NEW c
  PROVE  Cardinality({i \in DOMAIN s : s[i] = c}) = IF c \in ToSet(s) THEN 1 ELSE 0
<1>1. CASE c \in ToSet(s)
  <2>1. PICK i \in DOMAIN s : s[i] = c
    BY <1>1 DEF ToSet
  <2>2. {j \in DOMAIN s : s[j] = c} = {i}
    BY <2>1 DEF Once
  <2> QED
    BY <1>1, <2>2, FS_Singleton
<1>2. CASE c \notin ToSet(s)
  <2>1. {j \in DOMAIN s : s[j] = c} = {}
    BY <1>2 DEF ToSet
  <2> QED
    BY <1>2, <2>1, FS_EmptySet
<1> QED
  BY <1>1, <1>2

(* However accepting, greeting, closing and the swap of remove_client      *)
(* interleave with clients that come and go, every connected client is in  *)
(* one place of the server, once.                                          *)
THEOREM NobodyMisplaced == Spec => []EachInOnePlace
<1>1. IInv => EachInOnePlace
  <2> SUFFICES ASSUME TypeOK, Places, NEW c \in Clients, Connected(c)
               PROVE  1 = Cardinality({i \in DOMAIN backlog : backlog[i] = c})
                          + Cardinality({i \in DOMAIN clients : clients[i] = c})
                          + Cardinality({c} \cap {accepted}) + Cardinality({c} \cap hungUp)
    BY DEF IInv, EachInOnePlace
  <2> DEFINE a == Cardinality({i \in DOMAIN backlog : backlog[i] = c})
             b == Cardinality({i \in DOMAIN clients : clients[i] = c})
             d == Cardinality({c} \cap {accepted})
             e == Cardinality({c} \cap hungUp)
  <2>1. a = IF c \in Waiting THEN 1 ELSE 0
    BY OnceCounted DEF Places, Waiting
  <2>2. b = IF c \in Members THEN 1 ELSE 0
    BY OnceCounted DEF Places, Members
  <2>3. d = IF c \in Greeted THEN 1 ELSE 0
    <3>1. c # NoClient
      BY Bounds DEF NoClient
    <3>2. {c} \cap {accepted} = IF c \in Greeted THEN {c} ELSE {}
      BY <3>1 DEF Greeted
    <3> QED
      BY <3>2, FS_Singleton, FS_EmptySet
  <2>4. e = IF c \in hungUp THEN 1 ELSE 0
    <3>1. {c} \cap hungUp = IF c \in hungUp THEN {c} ELSE {}
      OBVIOUS
    <3> QED
      BY <3>1, FS_Singleton, FS_EmptySet
  <2> HIDE DEF a, b, d, e
  <2>5. \/ c \in Waiting /\ c \notin Greeted /\ c \notin Members /\ c \notin hungUp
        \/ c \notin Waiting /\ c \in Greeted /\ c \notin Members /\ c \notin hungUp
        \/ c \notin Waiting /\ c \notin Greeted /\ c \in Members /\ c \notin hungUp
        \/ c \notin Waiting /\ c \notin Greeted /\ c \notin Members /\ c \in hungUp
    BY DEF Places
  <2>6. 1 = a + b + d + e
    BY <2>1, <2>2, <2>3, <2>4, <2>5
  <2> QED
    BY <2>6 DEF a, b, d, e
<1> QED
  BY <1>1, Started, Kept, PTL DEF Spec

(* What the loop of broadcast() has sent to a member, and what it is about *)
(* to send, is what was broadcast since it joined, in that order, without  *)
(* the member's own frames, whoever leaves meanwhile.                      *)
THEOREM OneConversation == Spec => []CommonOrder
<1>1. IInv => CommonOrder
  <2> SUFFICES ASSUME IInv, spc # "dead", NEW c \in Members, ~Closed(c)
               PROVE  IsView(Due(c), c)
    BY DEF CommonOrder, Due
  <2>1. c \in Clients
    BY DEF IInv, TypeOK, Members, ToSet
  <2> QED
    BY <2>1, ViewIsSeen DEF IInv, Views
<1> QED
  BY <1>1, Started, Kept, PTL DEF Spec
=============================================================================
