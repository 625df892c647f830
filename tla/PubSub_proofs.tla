---------------------------- MODULE PubSub_proofs ----------------------------
(***************************************************************************)
(* Proofs about PubSub for every set of processes, topics and arguments    *)
(* and every capacity of the queue.                                        *)
(***************************************************************************)
EXTENDS PubSub, SequenceTheorems, FiniteSetTheorems, TLAPS

-----------------------------------------------------------------------------
(* The inductive invariant. *)

Data(m) == m.action = "SEND"
Delivery(m, s) == m.mtype = s /\ Data(m)
Request(m) == m.mtype = ToBroker /\ Data(m)
From(m, s, action) == m.action = action /\ m.pid = s

(* What kinds of messages there are. *)
Proper(m) ==
  /\ Data(m) => m.payload \in Providers \X (1 .. MaxSent)
  /\ ~Data(m) => m.mtype = ToBroker /\ m.pid \in Subscribers
                 /\ m.topic \in ToSet(TopicsOf[m.pid])
  /\ m.mtype # ToBroker => Data(m) /\ m.topic \in ToSet(TopicsOf[m.mtype])
Messages ==
  /\ \A k \in DOMAIN queue : Proper(queue[k])
  /\ \A s \in Subscribers : \A k \in DOMAIN got[s] :
       got[s][k].mtype = s /\ Data(got[s][k]) /\ Proper(got[s][k])

(* Where each process may be, and the one broker with its loop. *)
Processes ==
  /\ \A b \in Brokers : pc[b] \in {"off", "receive", "fan", "remove"} \cup Ended
  /\ \A p \in Providers : pc[p] \in {"off", "send"} \cup Ended /\ next[p] >= 1
  /\ \A s \in Subscribers : pc[s] \in {"off", "subscribe", "receive", "unsubscribe"} \cup Ended
  /\ \A s \in Subscribers : pc[s] \in {"off", "receive", "done"} => next[s] = 1
  /\ \A a, b \in Brokers : Running(a) /\ Running(b) => a = b
  /\ \A i \in DOMAIN subs : subs[i].topic \in ToSet(TopicsOf[subs[i].pid])
  /\ to # {} => /\ \E b \in Brokers : pc[b] = "fan"
                /\ msg \in Message /\ Request(msg) /\ Proper(msg)
                /\ \A i \in to : subs[i].topic = msg.topic

(* A message is younger than all of its provider's that are further on. *)
Before(m, n) == m.payload[1] = n.payload[1] => m.payload[2] < n.payload[2]
Numbered(m) == m.payload[2] < next[m.payload[1]]
Numbers ==
  /\ \A k \in DOMAIN queue : Data(queue[k]) => Numbered(queue[k])
  /\ \A s \in Subscribers : \A k \in DOMAIN got[s] : Numbered(got[s][k])
  /\ to # {} => Numbered(msg)
Requests ==
  /\ \A j, k \in DOMAIN queue :
       j < k /\ Request(queue[j]) /\ Request(queue[k]) => Before(queue[j], queue[k])
  /\ to # {} => \A k \in DOMAIN queue : Request(queue[k]) => Before(msg, queue[k])
Deliveries(s) ==
  /\ \A i, j \in DOMAIN got[s] : i < j => Before(got[s][i], got[s][j])
  /\ \A i \in DOMAIN got[s] : \A k \in DOMAIN queue :
       Delivery(queue[k], s) \/ Request(queue[k]) => Before(got[s][i], queue[k])
  /\ \A j, k \in DOMAIN queue :
       Delivery(queue[j], s) /\ (Request(queue[k]) \/ (Delivery(queue[k], s) /\ j < k))
         => Before(queue[j], queue[k])
ToSendTo(s) == \E i \in to : subs[i].pid = s
SendingTo(s) ==
  ToSendTo(s) => /\ \A i \in DOMAIN got[s] : Before(got[s][i], msg)
                 /\ \A k \in DOMAIN queue : Delivery(queue[k], s) => Before(queue[k], msg)
Distinct == {s \in Subscribers : IsInjective(TopicsOf[s])}
Order == Requests /\ \A s \in Distinct : Deliveries(s) /\ SendingTo(s)

(* How often a subscriber has asked for a topic and taken that back, and   *)
(* where those requests are: executed, in the queue, or lost.              *)
Hits(q, S) == {k \in DOMAIN q : q[k] \in S}
Count(q, S) == Cardinality(Hits(q, S))
Entry(s, t) == {[pid |-> s, topic |-> t]}
Asking(s, t, action) == {m \in Message : From(m, s, action) /\ m.topic = t}
Places(s, t) == {i \in DOMAIN TopicsOf[s] : TopicsOf[s][i] = t}
Passed(s, t, n) == {i \in Places(s, t) : i < n}
Ahead(s, t, n) == {i \in Places(s, t) : i >= n}
Asked(s, t) ==
  IF pc[s] = "off" THEN 0
  ELSE Cardinality(IF pc[s] = "subscribe" THEN Passed(s, t, next[s]) ELSE Places(s, t))
Due(s, t) ==
  IF pc[s] \in {"off", "done"} THEN 0
  ELSE Cardinality(IF pc[s] = "subscribe" THEN Passed(s, t, next[s])
                   ELSE IF pc[s] = "receive" THEN Places(s, t) ELSE Ahead(s, t, next[s]))
InForce(s, t) == Count(subs, Entry(s, t)) + Count(queue, Asking(s, t, "SUBSCRIBE"))
Revoked(s, t) == Count(queue, Asking(s, t, "UNSUBSCRIBE"))
AskedEnough == \A s \in Subscribers, t \in Topics : InForce(s, t) <= Asked(s, t)
Balance ==
  \A s \in Subscribers \ lost, t \in Topics :
    pc[s] # "killed" /\ InForce(s, t) = Revoked(s, t) + Due(s, t)
Precedence ==
  \A s \in Subscribers :
    /\ pc[s] \in {"off", "subscribe"} => \A k \in DOMAIN queue : ~From(queue[k], s, "UNSUBSCRIBE")
    /\ \A j, k \in DOMAIN queue :
         From(queue[j], s, "SUBSCRIBE") /\ From(queue[k], s, "UNSUBSCRIBE") => j < k

IInv == /\ TypeOK /\ Messages /\ Processes
        /\ Numbers /\ Order
        /\ AskedEnough /\ Balance /\ Precedence

-----------------------------------------------------------------------------
(* Sequences: what is taken out, what is counted.                          *)

LEMMA NumbersFinite ==
  ASSUME NEW n \in Nat, NEW m \in Nat, NEW S \in SUBSET (n .. m)
  PROVE  IsFiniteSet(S) /\ Cardinality(S) \in Nat
<1>1. IsFiniteSet(n .. m)
  BY FS_Interval
<1> QED
  BY <1>1, FS_Subset, FS_CardinalityType

(* A set of numbers has a least one: the loops have a next entry.          *)
LEMMA LeastExists ==
  ASSUME NEW m \in Nat, NEW S \in SUBSET (1 .. m), S # {}
  PROVE  \E i \in S : \A j \in S : i <= j
<1> DEFINE Below(i) == {j \in S : j < i}
           T == {Below(i) : i \in S}
<1>1. \A k \in S : k \in Int
  OBVIOUS
<1>2. IsFiniteSet(S)
  BY NumbersFinite, 1 \in Nat
<1>3. \A k \in S : Below(k) \in SUBSET S /\ IsFiniteSet(Below(k))
  BY <1>2, FS_Subset
<1>4. T \subseteq FiniteSubsetsOf(S) /\ T # {}
  BY <1>3 DEF FiniteSubsetsOf
<1>5. PICK x \in T : \A y \in T : ~ (<<y, x>> \in StrictSubsetOrdering(S))
  BY <1>4, FS_StrictSubsetOrderingWellFounded, WFMin
<1>6. PICK i \in S : x = Below(i)
  BY <1>5
<1>7. ASSUME NEW j \in S, j < i
      PROVE  FALSE
  <2>1. i \in Int /\ j \in Int
    BY <1>1
  <2>2. \A k \in S : k < j => k < i
    BY <1>1, <1>7, <2>1
  <2>3. Below(j) \subseteq Below(i)
    BY <2>2
  <2>4. j \in Below(i)
    BY <1>7
  <2>5. j \notin Below(j)
    BY <2>1
  <2>6. <<Below(j), x>> \in StrictSubsetOrdering(S)
    BY <1>6, <2>3, <2>4, <2>5 DEF StrictSubsetOrdering
  <2> QED
    BY <1>5, <2>6
<1> QED
  BY <1>1, <1>7

(* Where the entries behind position k were before it was taken out.       *)
Up(k, j) == IF j < k THEN j ELSE j + 1

LEMMA UpIs ==
  ASSUME NEW n \in Nat, NEW k \in 1 .. n
  PROVE  /\ \A j \in 1 .. n - 1 : Up(k, j) \in 1 .. n /\ Up(k, j) # k
         /\ \A i, j \in 1 .. n - 1 : i < j <=> Up(k, i) < Up(k, j)
         /\ \A i, j \in 1 .. n - 1 : Up(k, i) = Up(k, j) => i = j
         /\ \A u \in 1 .. n : u # k => \E j \in 1 .. n - 1 : u = Up(k, j)
<1>1. \A j \in 1 .. n - 1 : Up(k, j) \in 1 .. n /\ Up(k, j) # k
  BY DEF Up
<1>2. \A i, j \in 1 .. n - 1 : i < j <=> Up(k, i) < Up(k, j)
  BY DEF Up
<1>3. \A i, j \in 1 .. n - 1 : Up(k, i) = Up(k, j) => i = j
  BY DEF Up
<1>4. ASSUME NEW u \in 1 .. n, u # k
      PROVE  \E j \in 1 .. n - 1 : u = Up(k, j)
  <2>1. CASE u < k
    BY <2>1 DEF Up
  <2>2. CASE u > k
    <3>1. u - 1 \in 1 .. n - 1 /\ Up(k, u - 1) = u
      BY <2>2 DEF Up
    <3> QED
      BY <3>1
  <2> QED
    BY <1>4, <2>1, <2>2
<1> QED
  BY <1>1, <1>2, <1>3, <1>4

LEMMA RemoveAtIs ==
  ASSUME NEW S, NEW q \in Seq(S), NEW k \in 1 .. Len(q)
  PROVE  /\ RemoveAt(q, k) \in Seq(S)
         /\ Len(RemoveAt(q, k)) = Len(q) - 1 /\ DOMAIN RemoveAt(q, k) = 1 .. Len(q) - 1
         /\ \A j \in 1 .. Len(q) - 1 : RemoveAt(q, k)[j] = q[Up(k, j)]
<1> DEFINE a == SubSeq(q, 1, k - 1)
           b == SubSeq(q, k + 1, Len(q))
<1>1. /\ a \in Seq(S) /\ Len(a) = k - 1
      /\ \A j \in 1 .. k - 1 : a[j] = q[j]
  BY SubSeqProperties
<1>2. /\ b \in Seq(S) /\ Len(b) = Len(q) - k
      /\ \A j \in 1 .. Len(q) - k : b[j] = q[k + j]
  BY SubSeqProperties
<1> HIDE DEF a, b
<1>3. /\ a \o b \in Seq(S) /\ Len(a \o b) = Len(q) - 1
      /\ \A j \in 1 .. Len(q) - 1 : (a \o b)[j] = IF j <= k - 1 THEN a[j] ELSE b[j - (k - 1)]
  BY <1>1, <1>2, ConcatProperties
<1>4. ASSUME NEW j \in 1 .. Len(q) - 1
      PROVE  (a \o b)[j] = q[Up(k, j)]
  <2>1. CASE j < k
    BY <1>1, <1>3, <2>1 DEF Up
  <2>2. CASE ~(j < k)
    <3>1. j - (k - 1) \in 1 .. Len(q) - k /\ k + (j - (k - 1)) = j + 1
      BY <2>2
    <3>2. b[j - (k - 1)] = q[j + 1]
      BY <1>2, <3>1
    <3> QED
      BY <1>3, <2>2, <3>2 DEF Up
  <2> QED
    BY <2>1, <2>2
<1>5. DOMAIN (a \o b) = 1 .. Len(q) - 1
  BY <1>3
<1> QED
  BY <1>3, <1>4, <1>5 DEF RemoveAt, a, b

LEMMA CountIs ==
  ASSUME NEW S, NEW q \in Seq(S), NEW T
  PROVE  /\ IsFiniteSet(Hits(q, T)) /\ Count(q, T) \in Nat
         /\ Count(q, T) = 0 <=> \A k \in DOMAIN q : q[k] \notin T
<1>1. Hits(q, T) \in SUBSET (1 .. Len(q)) /\ Len(q) \in Nat
  BY DEF Hits
<1>2. IsFiniteSet(Hits(q, T)) /\ Count(q, T) \in Nat
  BY <1>1, NumbersFinite, 1 \in Nat DEF Count
<1>3. Count(q, T) = 0 <=> Hits(q, T) = {}
  BY <1>2, FS_EmptySet DEF Count
<1> QED
  BY <1>2, <1>3 DEF Hits

LEMMA CountAppend ==
  ASSUME NEW S, NEW q \in Seq(S), NEW m \in S, NEW T
  PROVE  Count(Append(q, m), T) = Count(q, T) + (IF m \in T THEN 1 ELSE 0)
<1> DEFINE r == Append(q, m)
           n == Len(q)
<1>1. /\ r \in Seq(S) /\ DOMAIN r = (1 .. n) \cup {n + 1} /\ r[n + 1] = m /\ n \in Nat
      /\ \A j \in 1 .. n : r[j] = q[j]
  BY AppendProperties
<1>2. DOMAIN q = 1 .. n /\ n + 1 \notin 1 .. n
  BY <1>1
<1> HIDE DEF r, n
<1>3. Hits(r, T) = IF m \in T THEN Hits(q, T) \cup {n + 1} ELSE Hits(q, T)
  BY <1>1, <1>2 DEF Hits
<1>4. n + 1 \notin Hits(q, T)
  BY <1>2 DEF Hits
<1>5. IsFiniteSet(Hits(q, T)) /\ Count(q, T) \in Nat
  BY CountIs
<1>6. Cardinality(Hits(q, T) \cup {n + 1}) = Count(q, T) + 1
  BY <1>4, <1>5, FS_AddElement DEF Count
<1> QED
  BY <1>3, <1>5, <1>6 DEF Count, r

LEMMA CountRemove ==
  ASSUME NEW S, NEW q \in Seq(S), NEW k \in 1 .. Len(q), NEW T
  PROVE  Count(RemoveAt(q, k), T) = Count(q, T) - (IF q[k] \in T THEN 1 ELSE 0)
<1> DEFINE r == RemoveAt(q, k)
           n == Len(q)
           H == Hits(r, T)
           G == Hits(q, T) \ {k}
           up == [j \in H |-> Up(k, j)]
<1>1. /\ r \in Seq(S) /\ DOMAIN r = 1 .. n - 1 /\ DOMAIN q = 1 .. n /\ n \in Nat
      /\ \A j \in 1 .. n - 1 : r[j] = q[Up(k, j)]
  BY RemoveAtIs
<1> HIDE DEF r
<1>2. /\ \A j \in 1 .. n - 1 : Up(k, j) \in 1 .. n /\ Up(k, j) # k
      /\ \A i, j \in 1 .. n - 1 : Up(k, i) = Up(k, j) => i = j
      /\ \A u \in 1 .. n : u # k => \E j \in 1 .. n - 1 : u = Up(k, j)
  BY <1>1, UpIs
<1> HIDE DEF n
<1>3. H \subseteq 1 .. n - 1 /\ G \subseteq 1 .. n
  BY <1>1 DEF Hits
<1>4. \A j \in H : Up(k, j) \in G
  BY <1>1, <1>2 DEF Hits
<1>5. \A u \in G : \E j \in H : u = Up(k, j)
  BY <1>1, <1>2 DEF Hits
<1>6. \A i, j \in H : Up(k, i) = Up(k, j) => i = j
  BY <1>2, <1>3
<1> HIDE DEF H, G
<1>7. up \in Bijection(H, G)
  <2>1. up \in [H -> G]
    BY <1>4
  <2>2. up \in Injection(H, G)
    BY <1>6, <2>1 DEF Injection, IsInjective
  <2>3. up \in Surjection(H, G)
    BY <1>5, <2>1 DEF Surjection
  <2> QED
    BY <2>2, <2>3 DEF Bijection
<1>8. IsFiniteSet(H) /\ Cardinality(H) = Count(r, T)
  BY <1>1, CountIs DEF H, Count
<1>9. Cardinality(G) = Count(r, T)
  BY <1>7, <1>8, FS_Bijection DEF ExistsBijection
<1>10. IsFiniteSet(Hits(q, T)) /\ Count(q, T) \in Nat
  BY CountIs
<1>11. Cardinality(G) = Count(q, T) - (IF k \in Hits(q, T) THEN 1 ELSE 0)
  <2>1. Cardinality(G) = IF k \in Hits(q, T) THEN Cardinality(Hits(q, T)) - 1
                         ELSE Cardinality(Hits(q, T))
    BY <1>10, FS_RemoveElement DEF G
  <2> QED
    BY <1>10, <2>1 DEF Count
<1>12. k \in Hits(q, T) <=> q[k] \in T
  BY <1>1 DEF Hits, n
<1> QED
  BY <1>9, <1>11, <1>12 DEF r

-----------------------------------------------------------------------------
(* Types. *)

LEMMA Kinds ==
  /\ ToBroker \notin Subscribers
  /\ Brokers \subseteq Proc /\ Providers \subseteq Proc /\ Subscribers \subseteq Proc
  /\ Brokers \cap Providers = {} /\ Brokers \cap Subscribers = {} /\ Providers \cap Subscribers = {}
  /\ \A p \in Proc : p \in Brokers \/ p \in Providers \/ p \in Subscribers
  /\ Capacity \in Nat /\ MaxQueues \in Nat /\ MaxSent \in Nat
  /\ MaxSignals \in Nat /\ MaxKills \in Nat
BY Roles, Bounds DEF Proc

LEMMA TopicsAre ==
  ASSUME NEW s \in Subscribers
  PROVE  /\ TopicsOf[s] \in Seq(Topics) /\ Len(TopicsOf[s]) \in Nat \ {0}
         /\ DOMAIN TopicsOf[s] = 1 .. Len(TopicsOf[s])
         /\ \A i \in DOMAIN TopicsOf[s] : /\ TopicsOf[s][i] \in Topics
                                          /\ TopicsOf[s][i] \in ToSet(TopicsOf[s])
<1>1. TopicsOf[s] \in Seq(Topics) /\ TopicsOf[s] # <<>>
  BY Arguments
<1> QED
  BY <1>1 DEF ToSet

(* What msgsnd makes is a message. *)
LEMMA Created ==
  ASSUME NEW t \in Subscribers \cup {ToBroker}, NEW a \in {"SUBSCRIBE", "UNSUBSCRIBE", "SEND"},
         NEW p \in Proc, NEW topic \in Topics, NEW x \in Payload
  PROVE  LET m == create_message(t, a, p, topic, x) IN
         /\ m \in Message
         /\ m.mtype = t /\ m.action = a /\ m.pid = p /\ m.topic = topic /\ m.payload = x
BY DEF create_message, Message

(* What msgrcv takes is the first message of its type. *)
LEMMA FirstIs ==
  ASSUME queue \in Seq(Message), NEW t, HasType(t)
  PROVE  /\ First(t) \in 1 .. Len(queue) /\ First(t) \in DOMAIN queue
         /\ queue[First(t)].mtype = t /\ queue[First(t)] \in Message
         /\ \A j \in DOMAIN queue : queue[j].mtype = t => First(t) <= j
<1> DEFINE S == {k \in DOMAIN queue : queue[k].mtype = t}
<1>1. DOMAIN queue = 1 .. Len(queue) /\ Len(queue) \in Nat
  OBVIOUS
<1>2. S # {} /\ S \in SUBSET (1 .. Len(queue))
  BY <1>1 DEF HasType
<1>3. PICK k \in S : \A j \in S : k <= j
  BY <1>1, <1>2, LeastExists
<1>4. k \in DOMAIN queue /\ queue[k].mtype = t /\ \A j \in 1 .. k - 1 : queue[j].mtype # t
  <2>1. ASSUME NEW j \in 1 .. k - 1, queue[j].mtype = t
        PROVE  FALSE
    <3>1. j \in DOMAIN queue /\ j < k
      BY <1>1, <1>3
    <3>2. k <= j
      BY <1>3, <2>1, <3>1
    <3> QED
      BY <1>1, <1>3, <3>1, <3>2
  <2> QED
    BY <1>3, <2>1
<1> HIDE DEF S
<1>5. /\ First(t) \in DOMAIN queue /\ queue[First(t)].mtype = t
      /\ \A j \in 1 .. First(t) - 1 : queue[j].mtype # t
  BY <1>4 DEF First
<1>6. ASSUME NEW j \in DOMAIN queue, queue[j].mtype = t
      PROVE  First(t) <= j
  <2>1. j \in Int /\ First(t) \in Int /\ 1 <= j
    BY <1>1, <1>5
  <2>2. CASE j < First(t)
    <3>1. j \in 1 .. First(t) - 1
      BY <2>1, <2>2
    <3> QED
      BY <1>5, <1>6, <3>1
  <2> QED
    BY <2>1, <2>2
<1> QED
  BY <1>1, <1>5, <1>6

(* Receiving takes out one message and keeps the order of the others.      *)
LEMMA ReceiveIs ==
  ASSUME TypeOK, NEW p, NEW t, Msgrcv(p, t)
  PROVE  /\ First(t) \in 1 .. Len(queue) /\ Received(t) \in Message /\ Received(t).mtype = t
         /\ \A j \in DOMAIN queue : queue[j].mtype = t => First(t) <= j
         /\ queue' = RemoveAt(queue, First(t)) /\ queue' \in Seq(Message)
         /\ DOMAIN queue = 1 .. Len(queue) /\ DOMAIN queue' = 1 .. Len(queue) - 1
         /\ Len(queue') <= Capacity /\ Len(queue) \in Nat
         /\ \A j \in DOMAIN queue' : queue'[j] = queue[Up(First(t), j)]
<1>1. queue \in Seq(Message) /\ HasType(t) /\ queue' = RemoveAt(queue, First(t))
      /\ Len(queue) <= Capacity
  BY DEF TypeOK, Msgrcv
<1>2. /\ First(t) \in 1 .. Len(queue) /\ First(t) \in DOMAIN queue
      /\ queue[First(t)].mtype = t /\ queue[First(t)] \in Message
      /\ \A j \in DOMAIN queue : queue[j].mtype = t => First(t) <= j
  BY <1>1, FirstIs
<1>3. /\ queue' \in Seq(Message)
      /\ Len(queue') = Len(queue) - 1 /\ DOMAIN queue' = 1 .. Len(queue) - 1
      /\ \A j \in 1 .. Len(queue) - 1 : queue'[j] = queue[Up(First(t), j)]
  BY <1>1, <1>2, RemoveAtIs
<1>4. Len(queue) \in Nat /\ DOMAIN queue = 1 .. Len(queue) /\ Capacity \in Nat
  BY <1>1, Kinds
<1>5. Len(queue') <= Capacity
  BY <1>1, <1>3, <1>4
<1> QED
  BY <1>1, <1>2, <1>3, <1>4, <1>5 DEF Received

(* Sending puts one message behind the others. *)
LEMMA SendIs ==
  ASSUME TypeOK, NEW p, NEW m \in Message, Msgsnd(p, m)
  PROVE  /\ queue' = Append(queue, m) /\ queue' \in Seq(Message) /\ Len(queue) \in Nat
         /\ Len(queue') <= Capacity
         /\ DOMAIN queue = 1 .. Len(queue)
         /\ DOMAIN queue' = (1 .. Len(queue)) \cup {Len(queue) + 1}
         /\ queue'[Len(queue) + 1] = m
         /\ \A j \in DOMAIN queue : queue'[j] = queue[j]
<1>1. queue \in Seq(Message) /\ queue' = Append(queue, m) /\ Len(queue) < Capacity
      /\ Len(queue) \in Nat /\ Capacity \in Nat
  BY Kinds DEF TypeOK, Msgsnd, HasRoom
<1>2. /\ queue' \in Seq(Message) /\ Len(queue') = Len(queue) + 1
      /\ queue'[Len(queue) + 1] = m
      /\ \A j \in 1 .. Len(queue) : queue'[j] = queue[j]
  BY <1>1, AppendProperties
<1>3. DOMAIN queue = 1 .. Len(queue) /\ DOMAIN queue' = (1 .. Len(queue)) \cup {Len(queue) + 1}
  BY <1>1, <1>2
<1>4. Len(queue') <= Capacity
  BY <1>1, <1>2
<1> QED
  BY <1>1, <1>2, <1>3, <1>4

(* The types, in parts. *)
QueueTypes == queue \in Seq(Message) /\ Len(queue) <= Capacity
IdTypes == /\ live \in 0 .. MaxQueues /\ created \in 0 .. MaxQueues /\ live \in {0, created}
           /\ msqid \in [Proc -> 0 .. MaxQueues]
Labels == {"off", "receive", "fan", "remove", "send", "subscribe", "unsubscribe"} \cup Ended
PcTypes == pc \in [Proc -> Labels] /\ stop \in [Proc -> BOOLEAN]
NextTypes == next \in [Proc -> Nat] /\ \A s \in Subscribers : next[s] \in DOMAIN TopicsOf[s]
TableTypes == subs \in Seq(Subscription) /\ to \subseteq DOMAIN subs /\ msg \in Message \cup {NoMsg}
OtherTypes == /\ signals \in 0 .. MaxSignals /\ kills \in 0 .. MaxKills
              /\ got \in [Subscribers -> Seq(Message)] /\ lost \subseteq Subscribers

LEMMA TypeParts ==
  /\ TypeOK <=> /\ QueueTypes /\ IdTypes /\ PcTypes
                /\ NextTypes /\ TableTypes /\ OtherTypes
  /\ TypeOK' <=> /\ QueueTypes' /\ IdTypes' /\ PcTypes'
                 /\ NextTypes' /\ TableTypes' /\ OtherTypes'
BY DEF TypeOK, QueueTypes, IdTypes, PcTypes, NextTypes, TableTypes, OtherTypes, Labels

LEMMA GotoKeeps ==
  ASSUME PcTypes, NEW p \in Proc, NEW l \in Labels, Goto(p, l), stop' = stop
  PROVE  /\ PcTypes'
         /\ pc'[p] = l /\ \A q \in Proc \ {p} : pc'[q] = pc[q]
BY DEF PcTypes, Goto

(* The next entry of the table to send to. *)
LEMMA NextReceiverIs ==
  ASSUME TableTypes, to # {}
  PROVE  /\ NextReceiver \in to /\ NextReceiver \in DOMAIN subs
         /\ subs[NextReceiver] \in Subscription /\ subs[NextReceiver].pid \in Subscribers
<1>1. /\ DOMAIN subs = 1 .. Len(subs) /\ Len(subs) \in Nat
      /\ \A i \in DOMAIN subs : subs[i] \in Subscription
  BY DEF TableTypes
<1>2. to \in SUBSET (1 .. Len(subs))
  BY <1>1 DEF TableTypes
<1>3. NextReceiver \in to
  BY <1>1, <1>2, LeastExists DEF NextReceiver
<1> QED
  BY <1>1, <1>2, <1>3 DEF Subscription

(* remove_subscription() takes out one entry, if there is one.             *)
LEMMA RemoveIs ==
  ASSUME subs \in Seq(Subscription), NEW s, NEW t
  PROVE  \/ /\ \A i \in DOMAIN subs : subs[i] \notin Entry(s, t)
            /\ remove_subscription(s, t) = subs
         \/ \E k \in 1 .. Len(subs) : /\ subs[k] \in Entry(s, t)
                                      /\ remove_subscription(s, t) = RemoveAt(subs, k)
<1> DEFINE entry == [pid |-> s, topic |-> t]
           found == {i \in DOMAIN subs : subs[i] = entry}
           k == CHOOSE i \in found : \A j \in found : i <= j
<1>1. remove_subscription(s, t) = IF found = {} THEN subs ELSE RemoveAt(subs, k)
  BY DEF remove_subscription
<1>2. found \in SUBSET (1 .. Len(subs)) /\ Len(subs) \in Nat
  OBVIOUS
<1>3. CASE found = {}
  BY <1>1, <1>3 DEF Entry
<1>4. CASE found # {}
  <2>1. k \in found
    BY <1>2, <1>4, LeastExists
  <2>2. k \in 1 .. Len(subs) /\ subs[k] \in Entry(s, t)
    BY <1>2, <2>1 DEF Entry
  <2> HIDE DEF k
  <2> QED
    BY <1>1, <1>4, <2>2
<1> QED
  BY <1>3, <1>4

LEMMA RemoveKeeps ==
  ASSUME subs \in Seq(Subscription), NEW s, NEW t
  PROVE  /\ remove_subscription(s, t) \in Seq(Subscription)
         /\ \A i \in DOMAIN remove_subscription(s, t) :
              \E j \in DOMAIN subs : remove_subscription(s, t)[i] = subs[j]
<1>1. CASE remove_subscription(s, t) = subs
  BY <1>1
<1>2. ASSUME NEW k \in 1 .. Len(subs), remove_subscription(s, t) = RemoveAt(subs, k)
      PROVE  /\ remove_subscription(s, t) \in Seq(Subscription)
             /\ \A i \in DOMAIN remove_subscription(s, t) :
                  \E j \in DOMAIN subs : remove_subscription(s, t)[i] = subs[j]
  <2>1. /\ RemoveAt(subs, k) \in Seq(Subscription) /\ DOMAIN RemoveAt(subs, k) = 1 .. Len(subs) - 1
        /\ \A j \in 1 .. Len(subs) - 1 : RemoveAt(subs, k)[j] = subs[Up(k, j)]
    BY RemoveAtIs
  <2>2. \A j \in 1 .. Len(subs) - 1 : Up(k, j) \in 1 .. Len(subs)
    <3>1. Len(subs) \in Nat
      OBVIOUS
    <3> QED
      BY <3>1, UpIs
  <2>3. DOMAIN subs = 1 .. Len(subs)
    OBVIOUS
  <2> QED
    BY <1>2, <2>1, <2>2, <2>3
<1> QED
  BY <1>1, <1>2, RemoveIs

(* A subscriber's loops over its topics. *)
LEMMA NextTopicIs ==
  ASSUME PcTypes, NextTypes, NEW s \in Subscribers, pc[s] \in {"subscribe", "unsubscribe"},
         NextTopic(s)
  PROVE  /\ NextTypes' /\ \A q \in Proc \ {s} : next'[q] = next[q]
         /\ pc' \in [Proc -> Labels] /\ \A q \in Proc \ {s} : pc'[q] = pc[q]
         /\ \/ /\ next[s] < Len(TopicsOf[s]) /\ next'[s] = next[s] + 1 /\ pc'[s] = pc[s]
            \/ /\ next[s] = Len(TopicsOf[s]) /\ next'[s] = 1
               /\ pc[s] = "subscribe" => pc'[s] \in {"receive", "unsubscribe"}
               /\ pc[s] = "unsubscribe" => pc'[s] = "done"
<1>1. /\ s \in Proc /\ next[s] \in 1 .. Len(TopicsOf[s]) /\ Len(TopicsOf[s]) \in Nat \ {0}
      /\ DOMAIN TopicsOf[s] = 1 .. Len(TopicsOf[s]) /\ next \in [Proc -> Nat]
      /\ pc \in [Proc -> Labels]
  BY TopicsAre, Kinds DEF NextTypes, PcTypes
<1>2. CASE next[s] >= Len(TopicsOf[s])
  <2>1. /\ next' = [next EXCEPT ![s] = 1]
        /\ IF pc[s] = "subscribe" THEN SubscriberLoop(s) ELSE Goto(s, "done")
    BY <1>2 DEF NextTopic
  <2>2. \E l \in Labels : /\ pc' = [pc EXCEPT ![s] = l]
                          /\ pc[s] = "subscribe" => l \in {"receive", "unsubscribe"}
                          /\ pc[s] = "unsubscribe" => l = "done"
    BY <2>1 DEF SubscriberLoop, Goto, Labels, Ended
  <2>3. next[s] = Len(TopicsOf[s]) /\ 1 \in DOMAIN TopicsOf[s]
    BY <1>1, <1>2
  <2>4. NextTypes' /\ next'[s] = 1 /\ \A q \in Proc \ {s} : next'[q] = next[q]
    BY <1>1, <2>1, <2>3 DEF NextTypes
  <2> QED
    BY <1>1, <2>2, <2>3, <2>4
<1>3. CASE ~(next[s] >= Len(TopicsOf[s]))
  <2>1. next' = [next EXCEPT ![s] = next[s] + 1] /\ pc' = pc
    BY <1>3 DEF NextTopic
  <2>2. next[s] < Len(TopicsOf[s]) /\ next[s] + 1 \in DOMAIN TopicsOf[s] /\ next[s] + 1 \in Nat
    BY <1>1, <1>3
  <2>3. NextTypes' /\ next'[s] = next[s] + 1 /\ \A q \in Proc \ {s} : next'[q] = next[q]
    BY <1>1, <2>1, <2>2 DEF NextTypes
  <2> QED
    BY <1>1, <2>1, <2>2, <2>3
<1> QED
  BY <1>2, <1>3

-----------------------------------------------------------------------------
(* The order of the data: steps that add none.                             *)

(* Every message that carries data in the new queue was in the old one, in *)
(* the same order.                                                         *)
DataSlots(q) == {k \in DOMAIN q : Data(q[k])}
DataFrom(f) ==
  /\ f \in [DataSlots(queue') -> DataSlots(queue)]
  /\ \A j \in DataSlots(queue') : queue'[j] = queue[f[j]]
  /\ \A i, j \in DataSlots(queue') : i < j => f[i] < f[j]

LEMMA QueueKeptData ==
  ASSUME queue' = queue
  PROVE  \E f : DataFrom(f)
<1> DEFINE f == [k \in DataSlots(queue') |-> k]
<1>1. DataFrom(f)
  BY DEF DataFrom, DataSlots
<1> QED
  BY <1>1

LEMMA QueueEmptyData ==
  ASSUME queue' = <<>>
  PROVE  \E f : DataFrom(f)
<1> DEFINE f == [k \in DataSlots(queue') |-> k]
<1>1. DataSlots(queue') = {}
  BY DEF DataSlots
<1>2. DataFrom(f)
  BY <1>1 DEF DataFrom
<1> QED
  BY <1>2

LEMMA ReceiveData ==
  ASSUME TypeOK, NEW p, NEW t, Msgrcv(p, t)
  PROVE  \E f : DataFrom(f)
<1> DEFINE k == First(t)
           n == Len(queue)
           f == [j \in DataSlots(queue') |-> Up(k, j)]
<1>1. /\ k \in 1 .. n /\ DOMAIN queue = 1 .. n /\ DOMAIN queue' = 1 .. n - 1 /\ n \in Nat
      /\ \A j \in DOMAIN queue' : queue'[j] = queue[Up(k, j)]
  BY ReceiveIs
<1> HIDE DEF k, n
<1>2. /\ \A j \in 1 .. n - 1 : Up(k, j) \in 1 .. n
      /\ \A i, j \in 1 .. n - 1 : i < j <=> Up(k, i) < Up(k, j)
  BY <1>1, UpIs
<1>3. \A j \in DataSlots(queue') : Up(k, j) \in DataSlots(queue)
  BY <1>1, <1>2 DEF DataSlots
<1>4. DataFrom(f)
  BY <1>1, <1>2, <1>3 DEF DataFrom, DataSlots
<1> QED
  BY <1>4

LEMMA RequestData ==
  ASSUME TypeOK, NEW p, NEW m \in Message, Msgsnd(p, m), ~Data(m)
  PROVE  \E f : DataFrom(f)
<1> DEFINE n == Len(queue)
           f == [j \in DataSlots(queue') |-> j]
<1>1. /\ DOMAIN queue = 1 .. n /\ DOMAIN queue' = (1 .. n) \cup {n + 1}
      /\ queue'[n + 1] = m
      /\ \A j \in DOMAIN queue : queue'[j] = queue[j]
  BY SendIs
<1>2. DataSlots(queue') \subseteq DataSlots(queue)
  BY <1>1 DEF DataSlots
<1>3. DataFrom(f)
  BY <1>1, <1>2 DEF DataFrom, DataSlots
<1> QED
  BY <1>3

(* The rest of such a step: nobody has printed anything, the SEND loop is  *)
(* not ahead of where it was, the providers' counters have not gone back.  *)
LoopBehind == /\ to' \subseteq to
              /\ to' # {} => msg' = msg
              /\ \A i \in to' : subs'[i] = subs[i]
CountersGrow == \A p \in Providers : next'[p] \in Nat /\ next'[p] >= next[p]

LEMMA NumbersKept ==
  ASSUME TypeOK, Messages, Processes, Numbers, CountersGrow, LoopBehind, got' = got,
         NEW f, DataFrom(f)
  PROVE  Numbers'
<1>1. ASSUME NEW m, Data(m), Proper(m), Numbered(m)
      PROVE  m.payload[2] < next'[m.payload[1]]
  <2>1. m.payload[1] \in Providers /\ m.payload[2] \in Nat
    BY <1>1 DEF Proper
  <2>2. next[m.payload[1]] \in Nat
    BY <2>1, Kinds DEF TypeOK
  <2> QED
    BY <1>1, <2>1, <2>2 DEF Numbered, CountersGrow
<1>2. ASSUME NEW k \in DOMAIN queue', Data(queue'[k])
      PROVE  queue'[k].payload[2] < next'[queue'[k].payload[1]]
  <2>1. f[k] \in DOMAIN queue /\ queue'[k] = queue[f[k]]
    BY <1>2 DEF DataFrom, DataSlots
  <2>2. Proper(queue[f[k]]) /\ Numbered(queue[f[k]])
    BY <1>2, <2>1 DEF Messages, Numbers
  <2> QED
    BY <1>1, <1>2, <2>1, <2>2
<1>3. ASSUME NEW s \in Subscribers, NEW k \in DOMAIN got'[s]
      PROVE  got'[s][k].payload[2] < next'[got'[s][k].payload[1]]
  <2>1. k \in DOMAIN got[s] /\ got'[s][k] = got[s][k]
    BY <1>3
  <2>2. Data(got[s][k]) /\ Proper(got[s][k]) /\ Numbered(got[s][k])
    BY <2>1 DEF Messages, Numbers
  <2> QED
    BY <1>1, <2>1, <2>2
<1>4. ASSUME to' # {}
      PROVE  msg'.payload[2] < next'[msg'.payload[1]]
  <2>1. to # {} /\ msg' = msg
    BY <1>4 DEF LoopBehind
  <2>2. Data(msg) /\ Proper(msg) /\ Numbered(msg)
    BY <2>1 DEF Processes, Numbers, Request
  <2> QED
    BY <1>1, <2>1, <2>2
<1> QED
  BY <1>2, <1>3, <1>4 DEF Numbers, Numbered

LEMMA OrderKept ==
  ASSUME Order, LoopBehind, got' = got, NEW f, DataFrom(f)
  PROVE  Order'
<1>1. /\ \A k \in DOMAIN queue' : Data(queue'[k]) => f[k] \in DOMAIN queue /\ queue'[k] = queue[f[k]]
      /\ \A j, k \in DOMAIN queue' : Data(queue'[j]) /\ Data(queue'[k]) /\ j < k => f[j] < f[k]
  BY DEF DataFrom, DataSlots
<1>2. Requests'
  <2>1. ASSUME NEW j \in DOMAIN queue', NEW k \in DOMAIN queue', j < k,
               Request(queue'[j]), Request(queue'[k])
        PROVE  Before(queue'[j], queue'[k])
    <3>1. f[j] \in DOMAIN queue /\ f[k] \in DOMAIN queue /\ f[j] < f[k]
          /\ queue'[j] = queue[f[j]] /\ queue'[k] = queue[f[k]]
      BY <1>1, <2>1 DEF Request
    <3> QED
      BY <2>1, <3>1 DEF Order, Requests
  <2>2. ASSUME to' # {}, NEW k \in DOMAIN queue', Request(queue'[k])
        PROVE  Before(msg', queue'[k])
    <3>1. f[k] \in DOMAIN queue /\ queue'[k] = queue[f[k]] /\ to # {} /\ msg' = msg
      BY <1>1, <2>2 DEF Request, LoopBehind
    <3> QED
      BY <2>2, <3>1 DEF Order, Requests
  <2> QED
    BY <2>1, <2>2 DEF Requests, Request, Before, Data
<1>3. ASSUME NEW s \in Distinct
      PROVE  Deliveries(s)'
  <2>1. \A i, j \in DOMAIN got'[s] : i < j => Before(got'[s][i], got'[s][j])
    BY <1>3 DEF Order, Deliveries
  <2>2. ASSUME NEW i \in DOMAIN got'[s], NEW k \in DOMAIN queue',
               Delivery(queue'[k], s) \/ Request(queue'[k])
        PROVE  Before(got'[s][i], queue'[k])
    <3>1. f[k] \in DOMAIN queue /\ queue'[k] = queue[f[k]]
      BY <1>1, <2>2 DEF Request, Delivery
    <3> QED
      BY <1>3, <2>2, <3>1 DEF Order, Deliveries
  <2>3. ASSUME NEW j \in DOMAIN queue', NEW k \in DOMAIN queue',
               Delivery(queue'[j], s), Request(queue'[k]) \/ (Delivery(queue'[k], s) /\ j < k)
        PROVE  Before(queue'[j], queue'[k])
    <3>1. /\ f[j] \in DOMAIN queue /\ f[k] \in DOMAIN queue
          /\ queue'[j] = queue[f[j]] /\ queue'[k] = queue[f[k]]
          /\ j < k => f[j] < f[k]
      BY <1>1, <2>3 DEF Request, Delivery
    <3> QED
      BY <1>3, <2>3, <3>1 DEF Order, Deliveries
  <2> QED
    BY <2>1, <2>2, <2>3 DEF Deliveries, Request, Delivery, Before, Data
<1>4. ASSUME NEW s \in Distinct
      PROVE  SendingTo(s)'
  <2>1. ASSUME NEW i \in to', subs'[i].pid = s
        PROVE  ToSendTo(s) /\ msg' = msg
    BY <2>1 DEF LoopBehind, ToSendTo
  <2>2. ASSUME ToSendTo(s), msg' = msg, NEW i \in DOMAIN got'[s]
        PROVE  Before(got'[s][i], msg')
    BY <1>4, <2>2 DEF Order, SendingTo
  <2>3. ASSUME ToSendTo(s), msg' = msg, NEW k \in DOMAIN queue', Delivery(queue'[k], s)
        PROVE  Before(queue'[k], msg')
    <3>1. f[k] \in DOMAIN queue /\ queue'[k] = queue[f[k]]
      BY <1>1, <2>3 DEF Delivery
    <3> QED
      BY <1>4, <2>3, <3>1 DEF Order, SendingTo
  <2> QED
    BY <2>1, <2>2, <2>3 DEF SendingTo, ToSendTo, Delivery, Before, Data
<1>5. Distinct' = Distinct
  BY DEF Distinct
<1> QED
  BY <1>2, <1>3, <1>4, <1>5 DEF Order

-----------------------------------------------------------------------------
(* The order of the data: steps that add some.                             *)

(* A message that is sent is younger than all of its provider's so far.    *)
LEMMA PublishIs ==
  ASSUME TypeOK, Processes, NEW p \in Providers, Publish(p)
  PROVE  \E m \in Message :
           /\ Msgsnd(p, m) /\ Request(m) /\ Proper(m) /\ m.payload = <<p, next[p]>>
           /\ next[p] \in Nat /\ next' = [next EXCEPT ![p] = next[p] + 1]
<1> DEFINE m == create_message(ToBroker, "SEND", p, TopicOf[p], <<p, next[p]>>)
<1>1. p \in Proc /\ next \in [Proc -> Nat] /\ next[p] >= 1 /\ next[p] <= MaxSent /\ MaxSent \in Nat
  BY Kinds DEF TypeOK, Publish, Processes
<1>2. <<p, next[p]>> \in Providers \X (1 .. MaxSent)
  BY <1>1
<1>3. TopicOf[p] \in Topics
  BY Arguments
<1>4. /\ m \in Message /\ m.mtype = ToBroker /\ m.action = "SEND" /\ m.payload = <<p, next[p]>>
  <2>1. <<p, next[p]>> \in Payload
    BY <1>2 DEF Payload
  <2> QED
    BY <1>1, <1>3, <2>1 DEF create_message, Message
<1>5. Msgsnd(p, m) /\ next' = [next EXCEPT ![p] = next[p] + 1]
  BY DEF Publish
<1> HIDE DEF m
<1>6. Request(m) /\ Proper(m)
  BY <1>2, <1>4 DEF Request, Proper, Data
<1> QED
  BY <1>1, <1>4, <1>5, <1>6

LEMMA PublishOrder ==
  ASSUME TypeOK, Messages, Processes, Numbers, Order, NEW p \in Providers, Publish(p)
  PROVE  Numbers' /\ Order'
<1>1. PICK m \in Message : /\ Msgsnd(p, m) /\ Request(m) /\ Proper(m) /\ m.payload = <<p, next[p]>>
                           /\ next[p] \in Nat /\ next' = [next EXCEPT ![p] = next[p] + 1]
  BY PublishIs
<1>2. /\ next \in [Proc -> Nat] /\ p \in Proc /\ \A x \in Providers : x \in Proc
      /\ got' = got /\ to' = to /\ msg' = msg /\ subs' = subs
  BY Kinds DEF TypeOK, Publish, table, history
<1> DEFINE n == Len(queue)
<1>3. /\ DOMAIN queue = 1 .. n /\ DOMAIN queue' = (1 .. n) \cup {n + 1} /\ n \in Nat
      /\ queue'[n + 1] = m
      /\ \A j \in 1 .. n : queue'[j] = queue[j]
  BY <1>1, SendIs
<1> HIDE DEF n
<1>4. ASSUME NEW x, Data(x), Proper(x), Numbered(x)
      PROVE  Before(x, m) /\ x.payload[2] < next'[x.payload[1]]
  <2>1. x.payload[1] \in Proc /\ x.payload[2] \in Nat
    BY <1>2, <1>4 DEF Proper
  <2>2. next[x.payload[1]] \in Nat
    BY <1>2, <2>1
  <2>3. Before(x, m)
    BY <1>1, <1>4 DEF Before, Numbered
  <2>4. x.payload[2] < next'[x.payload[1]]
    BY <1>1, <1>2, <1>4, <2>1, <2>2 DEF Numbered
  <2> QED
    BY <2>3, <2>4
<1>5. m.payload[2] < next'[m.payload[1]]
  BY <1>1, <1>2
<1>6. ~ \E s \in Subscribers : Delivery(m, s)
  BY <1>1, Kinds DEF Delivery, Request
<1>7. \A j \in 1 .. n : Data(queue[j]) => Before(queue[j], m) /\ queue[j].payload[2] < next'[queue[j].payload[1]]
  BY <1>3, <1>4 DEF Messages, Numbers
<1>8. \A s \in Subscribers : \A k \in DOMAIN got[s] :
        Before(got[s][k], m) /\ got[s][k].payload[2] < next'[got[s][k].payload[1]]
  BY <1>4 DEF Messages, Numbers
<1>9. to # {} => Before(msg, m) /\ msg.payload[2] < next'[msg.payload[1]]
  BY <1>4 DEF Processes, Numbers, Request
<1>10. Numbers'
  <2>1. \A k \in DOMAIN queue' : Data(queue'[k]) => queue'[k].payload[2] < next'[queue'[k].payload[1]]
    BY <1>3, <1>5, <1>7
  <2> QED
    BY <1>2, <1>8, <1>9, <2>1 DEF Numbers, Numbered, Data
<1>11. Requests'
  <2>1. ASSUME NEW j \in DOMAIN queue', NEW k \in DOMAIN queue', j < k,
               Request(queue'[j]), Request(queue'[k])
        PROVE  Before(queue'[j], queue'[k])
    <3>1. j \in 1 .. n /\ queue'[j] = queue[j]
      BY <1>3, <2>1
    <3>2. CASE k \in 1 .. n
      BY <1>3, <2>1, <3>1, <3>2 DEF Order, Requests
    <3>3. CASE k = n + 1
      BY <1>3, <1>7, <2>1, <3>1, <3>3 DEF Request
    <3> QED
      BY <1>3, <3>2, <3>3
  <2>2. to # {} => \A k \in DOMAIN queue' : Request(queue'[k]) => Before(msg, queue'[k])
    BY <1>3, <1>9 DEF Order, Requests
  <2> QED
    BY <1>2, <2>1, <2>2 DEF Requests, Request, Before, Data
<1>12. ASSUME NEW s \in Distinct
       PROVE  Deliveries(s)'
  <2>0. s \in Subscribers
    BY DEF Distinct
  <2>1. \A i \in DOMAIN got[s] : \A k \in DOMAIN queue' :
          Delivery(queue'[k], s) \/ Request(queue'[k]) => Before(got[s][i], queue'[k])
    BY <1>3, <1>8, <2>0 DEF Order, Deliveries
  <2>2. ASSUME NEW j \in DOMAIN queue', NEW k \in DOMAIN queue',
               Delivery(queue'[j], s), Request(queue'[k]) \/ (Delivery(queue'[k], s) /\ j < k)
        PROVE  Before(queue'[j], queue'[k])
    <3>1. j \in 1 .. n /\ queue'[j] = queue[j]
      BY <1>3, <1>6, <2>0, <2>2
    <3>2. CASE k \in 1 .. n
      BY <1>3, <2>2, <3>1, <3>2 DEF Order, Deliveries
    <3>3. CASE k = n + 1
      BY <1>3, <1>7, <2>2, <3>1, <3>3 DEF Delivery
    <3> QED
      BY <1>3, <3>2, <3>3
  <2> QED
    BY <1>2, <2>1, <2>2 DEF Order, Deliveries, Request, Delivery, Before, Data
<1>13. ASSUME NEW s \in Distinct
       PROVE  SendingTo(s)'
  <2>0. s \in Subscribers
    BY DEF Distinct
  <2>1. ToSendTo(s) => \A k \in DOMAIN queue' : Delivery(queue'[k], s) => Before(queue'[k], msg)
    BY <1>3, <1>6, <2>0 DEF Order, SendingTo
  <2> QED
    BY <1>2, <2>1 DEF Order, SendingTo, ToSendTo, Delivery, Before, Data
<1> QED
  BY <1>10, <1>11, <1>12, <1>13 DEF Order, Distinct

(* The broker takes a message to forward: it is older than all requests    *)
(* behind it, and younger than all that has been forwarded.                *)
LEMMA TakeOrder ==
  ASSUME TypeOK, Messages, Numbers, Order, NEW b, Msgrcv(b, ToBroker),
         Request(Received(ToBroker)), msg' = Received(ToBroker), got' = got, next' = next
  PROVE  Numbers' /\ Order'
<1> DEFINE k0 == First(ToBroker)
           n == Len(queue)
<1>1. /\ k0 \in 1 .. n /\ DOMAIN queue = 1 .. n /\ DOMAIN queue' = 1 .. n - 1 /\ n \in Nat
      /\ \A j \in DOMAIN queue' : queue'[j] = queue[Up(k0, j)]
      /\ \A j \in DOMAIN queue : queue[j].mtype = ToBroker => k0 <= j
      /\ msg' = queue[k0] /\ Request(queue[k0])
  BY ReceiveIs DEF Received
<1> HIDE DEF k0, n
<1>2. /\ \A j \in 1 .. n - 1 : Up(k0, j) \in 1 .. n /\ Up(k0, j) # k0
      /\ \A i, j \in 1 .. n - 1 : i < j <=> Up(k0, i) < Up(k0, j)
  BY <1>1, UpIs
<1>3. Numbers'
  <2>1. \A k \in DOMAIN queue' : Data(queue'[k]) => Numbered(queue'[k])
    BY <1>1, <1>2 DEF Numbers
  <2>2. Numbered(msg')
    BY <1>1 DEF Numbers, Request
  <2> QED
    BY <2>1, <2>2 DEF Numbers, Numbered, Data
<1>4. \A k \in DOMAIN queue' : Request(queue'[k]) => k0 < Up(k0, k)
  <2>1. ASSUME NEW k \in DOMAIN queue', Request(queue'[k])
        PROVE  k0 < Up(k0, k)
    <3>1. Up(k0, k) \in 1 .. n /\ Up(k0, k) # k0 /\ k0 <= Up(k0, k) /\ k0 \in Int
      BY <1>1, <1>2, <2>1 DEF Request
    <3> QED
      BY <3>1
  <2> QED
    BY <2>1
<1>5. Requests'
  <2>1. ASSUME NEW j \in DOMAIN queue', NEW k \in DOMAIN queue', j < k,
               Request(queue'[j]), Request(queue'[k])
        PROVE  Before(queue'[j], queue'[k])
    <3>1. Up(k0, j) < Up(k0, k) /\ Up(k0, j) \in DOMAIN queue /\ Up(k0, k) \in DOMAIN queue
      BY <1>1, <1>2, <2>1
    <3> QED
      BY <1>1, <2>1, <3>1 DEF Order, Requests
  <2>2. ASSUME NEW k \in DOMAIN queue', Request(queue'[k])
        PROVE  Before(msg', queue'[k])
    <3>1. k0 < Up(k0, k) /\ Up(k0, k) \in DOMAIN queue /\ k0 \in DOMAIN queue
      BY <1>1, <1>2, <1>4, <2>2
    <3> QED
      BY <1>1, <2>2, <3>1 DEF Order, Requests
  <2> QED
    BY <2>1, <2>2 DEF Requests, Request, Before, Data
<1>6. ASSUME NEW s \in Distinct
      PROVE  Deliveries(s)'
  <2>1. ASSUME NEW i \in DOMAIN got[s], NEW k \in DOMAIN queue',
               Delivery(queue'[k], s) \/ Request(queue'[k])
        PROVE  Before(got[s][i], queue'[k])
    BY <1>1, <1>2, <1>6, <2>1 DEF Order, Deliveries
  <2>2. ASSUME NEW j \in DOMAIN queue', NEW k \in DOMAIN queue',
               Delivery(queue'[j], s), Request(queue'[k]) \/ (Delivery(queue'[k], s) /\ j < k)
        PROVE  Before(queue'[j], queue'[k])
    <3>1. /\ Up(k0, j) \in DOMAIN queue /\ Up(k0, k) \in DOMAIN queue
          /\ j < k => Up(k0, j) < Up(k0, k)
      BY <1>1, <1>2, <2>2
    <3> QED
      BY <1>1, <1>6, <2>2, <3>1 DEF Order, Deliveries
  <2> QED
    BY <1>6, <2>1, <2>2 DEF Order, Deliveries, Request, Delivery, Before, Data
<1>7. ASSUME NEW s \in Distinct
      PROVE  SendingTo(s)'
  <2>1. \A i \in DOMAIN got[s] : Before(got[s][i], msg')
    BY <1>1, <1>7 DEF Order, Deliveries
  <2>2. ASSUME NEW k \in DOMAIN queue', Delivery(queue'[k], s)
        PROVE  Before(queue'[k], msg')
    BY <1>1, <1>2, <1>7, <2>2 DEF Order, Deliveries
  <2> QED
    BY <2>1, <2>2 DEF SendingTo, Delivery, Before, Data
<1> QED
  BY <1>3, <1>5, <1>6, <1>7 DEF Order, Distinct

(* A subscriber takes the first of its deliveries.                         *)
LEMMA DeliverOrder ==
  ASSUME TypeOK, Messages, Numbers, Order, NEW s0 \in Subscribers, Deliver(s0)
  PROVE  Numbers' /\ Order' /\ Delivery(Received(s0), s0) /\ Proper(Received(s0))
<1> DEFINE k0 == First(s0)
           n == Len(queue)
           m == queue[k0]
           L == Len(got[s0])
<1>1. /\ k0 \in 1 .. n /\ DOMAIN queue = 1 .. n /\ DOMAIN queue' = 1 .. n - 1 /\ n \in Nat
      /\ \A j \in DOMAIN queue' : queue'[j] = queue[Up(k0, j)]
      /\ \A j \in DOMAIN queue : queue[j].mtype = s0 => k0 <= j
      /\ Received(s0) = m /\ m \in Message /\ m.mtype = s0
  BY ReceiveIs DEF Received, Deliver, OwnType
<1>2. /\ got' = [got EXCEPT ![s0] = Append(got[s0], m)] /\ got \in [Subscribers -> Seq(Message)]
      /\ next' = next /\ to' = to /\ msg' = msg /\ subs' = subs
  BY <1>1 DEF Deliver, OwnType, TypeOK, table
<1> HIDE DEF k0, m
<1>3. /\ got'[s0] = Append(got[s0], m) /\ \A s \in Subscribers \ {s0} : got'[s] = got[s]
      /\ DOMAIN got[s0] = 1 .. L /\ L \in Nat /\ DOMAIN got'[s0] = (1 .. L) \cup {L + 1}
      /\ \A i \in 1 .. L : got'[s0][i] = got[s0][i]
      /\ got'[s0][L + 1] = m
  BY <1>1, <1>2, AppendProperties
<1> HIDE DEF n, L
<1>4. Delivery(m, s0) /\ Proper(m) /\ Numbered(m)
  BY <1>1, Kinds DEF m, Messages, Proper, Delivery, Numbers
<1>5. /\ \A j \in 1 .. n - 1 : Up(k0, j) \in 1 .. n /\ Up(k0, j) # k0
      /\ \A i, j \in 1 .. n - 1 : i < j <=> Up(k0, i) < Up(k0, j)
  BY <1>1, UpIs
<1>6. Numbers'
  <2>1. \A k \in DOMAIN queue' : Data(queue'[k]) => Numbered(queue'[k])
    BY <1>1, <1>5 DEF Numbers
  <2>2. \A s \in Subscribers : \A k \in DOMAIN got'[s] : Numbered(got'[s][k])
    BY <1>2, <1>3, <1>4 DEF Numbers
  <2> QED
    BY <1>2, <2>1, <2>2 DEF Numbers, Numbered, Data
<1>7. Requests'
  <2>1. ASSUME NEW j \in DOMAIN queue', NEW k \in DOMAIN queue', j < k,
               Request(queue'[j]), Request(queue'[k])
        PROVE  Before(queue'[j], queue'[k])
    <3>1. Up(k0, j) < Up(k0, k) /\ Up(k0, j) \in DOMAIN queue /\ Up(k0, k) \in DOMAIN queue
      BY <1>1, <1>5, <2>1
    <3> QED
      BY <1>1, <2>1, <3>1 DEF Order, Requests
  <2>2. to # {} => \A k \in DOMAIN queue' : Request(queue'[k]) => Before(msg, queue'[k])
    BY <1>1, <1>5 DEF Order, Requests
  <2> QED
    BY <1>2, <2>1, <2>2 DEF Requests, Request, Before, Data
<1>8. \A k \in DOMAIN queue' : Delivery(queue'[k], s0) => k0 < Up(k0, k)
  <2>1. ASSUME NEW k \in DOMAIN queue', Delivery(queue'[k], s0)
        PROVE  k0 < Up(k0, k)
    <3>1. Up(k0, k) \in 1 .. n /\ Up(k0, k) # k0 /\ k0 <= Up(k0, k) /\ k0 \in Int
      BY <1>1, <1>5, <2>1 DEF Delivery
    <3> QED
      BY <3>1
  <2> QED
    BY <2>1
<1>9. ASSUME s0 \in Distinct, NEW k \in DOMAIN queue', Delivery(queue'[k], s0) \/ Request(queue'[k])
      PROVE  Before(m, queue'[k])
  <2>1. /\ Up(k0, k) \in DOMAIN queue /\ k0 \in DOMAIN queue
        /\ Delivery(queue'[k], s0) => k0 < Up(k0, k)
    BY <1>1, <1>5, <1>8
  <2> QED
    BY <1>1, <1>4, <1>9, <2>1 DEF Order, Deliveries, m
<1>10. ASSUME s0 \in Distinct, NEW i \in 1 .. L
       PROVE  Before(got[s0][i], m)
  BY <1>1, <1>3, <1>4, <1>10 DEF Order, Deliveries, m
<1>11. ASSUME NEW s \in Distinct
       PROVE  Deliveries(s)'
  <2>0. s \in Subscribers
    BY DEF Distinct
  <2>1. ASSUME NEW i \in DOMAIN got'[s], NEW j \in DOMAIN got'[s], i < j
        PROVE  Before(got'[s][i], got'[s][j])
    <3>1. CASE s # s0
      BY <1>3, <1>11, <2>0, <2>1, <3>1 DEF Order, Deliveries
    <3>2. CASE s = s0
      <4>1. i \in 1 .. L /\ got'[s][i] = got[s][i]
        BY <1>3, <2>1, <3>2
      <4>2. CASE j \in 1 .. L
        BY <1>3, <1>11, <2>1, <3>2, <4>1, <4>2 DEF Order, Deliveries
      <4>3. CASE j = L + 1
        BY <1>3, <1>10, <1>11, <3>2, <4>1, <4>3
      <4> QED
        BY <1>3, <3>2, <4>2, <4>3
    <3> QED
      BY <3>1, <3>2
  <2>2. ASSUME NEW i \in DOMAIN got'[s], NEW k \in DOMAIN queue',
               Delivery(queue'[k], s) \/ Request(queue'[k])
        PROVE  Before(got'[s][i], queue'[k])
    <3>1. Up(k0, k) \in DOMAIN queue /\ queue'[k] = queue[Up(k0, k)]
      BY <1>1, <1>5
    <3>2. CASE i \in DOMAIN got[s] /\ got'[s][i] = got[s][i]
      BY <1>11, <2>2, <3>1, <3>2 DEF Order, Deliveries
    <3>3. CASE s = s0 /\ i = L + 1
      BY <1>3, <1>9, <1>11, <2>2, <3>3
    <3> QED
      BY <1>3, <2>0, <3>2, <3>3
  <2>3. ASSUME NEW j \in DOMAIN queue', NEW k \in DOMAIN queue',
               Delivery(queue'[j], s), Request(queue'[k]) \/ (Delivery(queue'[k], s) /\ j < k)
        PROVE  Before(queue'[j], queue'[k])
    <3>1. /\ Up(k0, j) \in DOMAIN queue /\ Up(k0, k) \in DOMAIN queue
          /\ j < k => Up(k0, j) < Up(k0, k)
      BY <1>1, <1>5, <2>3
    <3> QED
      BY <1>1, <1>11, <2>3, <3>1 DEF Order, Deliveries
  <2> QED
    BY <2>1, <2>2, <2>3 DEF Deliveries, Request, Delivery, Before, Data
<1>12. ASSUME NEW s \in Distinct
       PROVE  SendingTo(s)'
  <2>0. s \in Subscribers
    BY DEF Distinct
  <2>1. ASSUME ToSendTo(s), NEW i \in DOMAIN got'[s]
        PROVE  Before(got'[s][i], msg)
    <3>1. CASE i \in DOMAIN got[s] /\ got'[s][i] = got[s][i]
      BY <1>12, <2>1, <3>1 DEF Order, SendingTo
    <3>2. CASE s = s0 /\ i = L + 1
      BY <1>1, <1>3, <1>4, <1>12, <2>1, <3>2 DEF Order, SendingTo, m
    <3> QED
      BY <1>3, <2>0, <3>1, <3>2
  <2>2. ASSUME ToSendTo(s), NEW k \in DOMAIN queue', Delivery(queue'[k], s)
        PROVE  Before(queue'[k], msg)
    BY <1>1, <1>5, <1>12, <2>2 DEF Order, SendingTo
  <2> QED
    BY <1>2, <2>1, <2>2 DEF SendingTo, ToSendTo, Delivery, Before, Data
<1> QED
  BY <1>1, <1>4, <1>6, <1>7, <1>11, <1>12 DEF Order, Distinct

(* A subscriber that named distinct topics has one entry per topic.        *)
LEMMA EntriesUnique ==
  ASSUME TypeOK, AskedEnough, NEW s \in Distinct, NEW t \in Topics,
         NEW i \in DOMAIN subs, NEW j \in DOMAIN subs,
         subs[i] = [pid |-> s, topic |-> t], subs[j] = [pid |-> s, topic |-> t]
  PROVE  i = j
<1>1. s \in Subscribers /\ IsInjective(TopicsOf[s]) /\ s \in Proc
  BY Kinds DEF Distinct
<1> DEFINE P == Places(s, t)
           A == Passed(s, t, next[s])
           H == Hits(subs, Entry(s, t))
<1>2. P \in SUBSET (1 .. Len(TopicsOf[s])) /\ Len(TopicsOf[s]) \in Nat /\ A \in SUBSET P
      /\ \A x, y \in P : x = y
  BY <1>1, TopicsAre DEF Places, Passed, IsInjective
<1>3. IsFiniteSet(P) /\ Cardinality(P) \in Nat /\ IsFiniteSet(A)
  BY <1>2, NumbersFinite, FS_Subset, 1 \in Nat
<1>4. Cardinality(P) <= 1
  <2>1. CASE P = {}
    BY <2>1, FS_EmptySet
  <2>2. CASE P # {}
    <3>1. PICK x \in P : P = {x}
      BY <1>2, <2>2
    <3>2. Cardinality({x}) = 1
      BY FS_Singleton
    <3> HIDE DEF P
    <3> QED
      BY <3>1, <3>2
  <2> QED
    BY <2>1, <2>2
<1>5. Cardinality(A) <= Cardinality(P) /\ Cardinality(A) \in Nat
  BY <1>2, <1>3, FS_Subset, FS_CardinalityType
<1>6. Asked(s, t) \in Nat /\ Asked(s, t) <= 1
  BY <1>3, <1>4, <1>5 DEF Asked
<1>7. /\ subs \in Seq(Subscription) /\ queue \in Seq(Message)
  BY DEF TypeOK
<1>8. /\ IsFiniteSet(H) /\ Count(subs, Entry(s, t)) \in Nat
      /\ Count(queue, Asking(s, t, "SUBSCRIBE")) \in Nat
  BY <1>7, CountIs
<1>9. Cardinality(H) <= 1 /\ Cardinality(H) \in Nat
  <2>1. Cardinality(H) = Count(subs, Entry(s, t))
    BY DEF Count
  <2>2. Count(subs, Entry(s, t)) + Count(queue, Asking(s, t, "SUBSCRIBE")) <= Asked(s, t)
    BY <1>1 DEF AskedEnough, InForce
  <2> HIDE DEF H
  <2> QED
    BY <1>6, <1>8, <2>1, <2>2
<1>10. i \in H /\ j \in H
  BY DEF Hits, Entry
<1>11. ASSUME i # j
       PROVE  FALSE
  <2>0. IsFiniteSet({i}) /\ Cardinality({i}) = 1
    BY FS_Singleton
  <2>3. Cardinality({i} \cup {j}) = 2
    <3>1. j \notin {i}
      BY <1>11
    <3>2. Cardinality({i} \cup {j}) = Cardinality({i}) + 1
      BY <2>0, <3>1, FS_AddElement
    <3> QED
      BY <2>0, <3>2
  <2>1. {i} \cup {j} \in SUBSET H /\ Cardinality({i} \cup {j}) = 2
    BY <1>10, <2>3
  <2>2. Cardinality({i} \cup {j}) <= Cardinality(H)
    BY <1>8, <2>1, FS_Subset
  <2> QED
    BY <1>9, <2>1, <2>2
<1> QED
  BY <1>11

(* What the SEND loop sends next. *)
LEMMA ForwardIs ==
  ASSUME TypeOK, Messages, Processes, NEW b \in Brokers, Forward(b)
  PROVE  \E m \in Message :
           /\ Msgsnd(b, m) /\ Proper(m) /\ m.payload = msg.payload
           /\ subs[NextReceiver].pid \in Subscribers /\ NextReceiver \in to
           /\ Delivery(m, subs[NextReceiver].pid)
<1> DEFINE r == NextReceiver
           s == subs[r].pid
           m == create_message(s, "SEND", b, msg.topic, msg.payload)
<1>1. TableTypes /\ to # {} /\ to \subseteq DOMAIN subs
  BY DEF TypeOK, TableTypes, Forward
<1>2. r \in to /\ s \in Subscribers /\ r \in DOMAIN subs
  BY <1>1, NextReceiverIs
<1>3. /\ msg \in Message /\ Data(msg) /\ Proper(msg) /\ subs[r].topic = msg.topic
      /\ subs[r].topic \in ToSet(TopicsOf[s])
  BY <1>1, <1>2 DEF Processes, Request
<1>4. msg.topic \in Topics /\ msg.payload \in Payload /\ b \in Proc
  BY <1>3, Kinds DEF Message
<1>5. Msgsnd(b, m)
  BY DEF Forward
<1>6. /\ m \in Message /\ m.mtype = s /\ m.action = "SEND"
      /\ m.topic = msg.topic /\ m.payload = msg.payload
  BY <1>2, <1>4 DEF create_message, Message
<1> HIDE DEF m
<1>7. Proper(m) /\ Delivery(m, s)
  BY <1>3, <1>6 DEF Proper, Delivery, Data
<1> QED
  BY <1>2, <1>5, <1>6, <1>7

LEMMA ForwardOrder ==
  ASSUME TypeOK, Messages, Processes, Numbers, Order, AskedEnough, NEW b \in Brokers, Forward(b)
  PROVE  Numbers' /\ Order'
<1> DEFINE r == NextReceiver
           s0 == subs[r].pid
           n == Len(queue)
<1>1. PICK m \in Message : /\ Msgsnd(b, m) /\ Proper(m) /\ m.payload = msg.payload
                           /\ s0 \in Subscribers /\ r \in to /\ Delivery(m, s0)
  BY ForwardIs
<1>2. /\ got' = got /\ to' = to \ {r} /\ msg' = msg /\ subs' = subs /\ next' = next
  BY DEF Forward, history
<1>3. /\ DOMAIN queue = 1 .. n /\ DOMAIN queue' = (1 .. n) \cup {n + 1} /\ n \in Nat
      /\ queue'[n + 1] = m
      /\ \A j \in 1 .. n : queue'[j] = queue[j]
  BY <1>1, SendIs
<1>4. ~Request(m) /\ \A s \in Subscribers : Delivery(m, s) => s = s0
  BY <1>1, Kinds DEF Request, Delivery
<1>5. ASSUME s0 \in Distinct
      PROVE  \A i \in to : subs[i].pid = s0 => i = r
  <2>1. to \subseteq DOMAIN subs /\ subs \in Seq(Subscription)
    BY DEF TypeOK
  <2>2. msg.topic \in Topics /\ \A i \in to : subs[i].topic = msg.topic
    BY <1>1 DEF Processes, Message
  <2>3. \A i \in to : subs[i].pid = s0 => i \in DOMAIN subs /\ subs[i] = [pid |-> s0, topic |-> msg.topic]
    <3>1. \A i \in to : i \in DOMAIN subs /\ subs[i] \in Subscription
      BY <2>1
    <3> QED
      BY <2>2, <3>1 DEF Subscription
  <2>4. r \in DOMAIN subs /\ subs[r] = [pid |-> s0, topic |-> msg.topic]
    BY <1>1, <2>3
  <2> QED
    BY <1>5, <2>2, <2>3, <2>4, EntriesUnique
<1> HIDE DEF n, s0, r
<1>6. \A x : (Before(m, x) <=> Before(msg, x)) /\ (Before(x, m) <=> Before(x, msg))
  BY <1>1 DEF Before
<1>7. Numbers'
  <2>1. \A k \in DOMAIN queue' : Data(queue'[k]) => Numbered(queue'[k])
    BY <1>1, <1>3 DEF Numbers, Numbered
  <2>2. to' # {} => Numbered(msg)
    BY <1>2 DEF Numbers
  <2> QED
    BY <1>2, <2>1, <2>2 DEF Numbers, Numbered, Data
<1>8. Requests'
  <2>1. ASSUME NEW j \in DOMAIN queue', NEW k \in DOMAIN queue', j < k,
               Request(queue'[j]), Request(queue'[k])
        PROVE  Before(queue'[j], queue'[k])
    <3>1. /\ j \in 1 .. n /\ queue'[j] = queue[j]
          /\ k \in 1 .. n /\ queue'[k] = queue[k]
      BY <1>3, <1>4, <2>1
    <3> QED
      BY <1>3, <2>1, <3>1 DEF Order, Requests
  <2>2. to # {} => \A k \in DOMAIN queue' : Request(queue'[k]) => Before(msg, queue'[k])
    BY <1>3, <1>4 DEF Order, Requests
  <2> QED
    BY <1>2, <2>1, <2>2 DEF Requests, Request, Before, Data
<1>9. s0 \in Distinct => ToSendTo(s0)
  BY <1>1 DEF ToSendTo, s0
<1>10. ASSUME NEW s \in Distinct
       PROVE  Deliveries(s)'
  <2>0. s \in Subscribers
    BY DEF Distinct
  <2>1. ASSUME NEW i \in DOMAIN got[s], NEW k \in DOMAIN queue',
               Delivery(queue'[k], s) \/ Request(queue'[k])
        PROVE  Before(got[s][i], queue'[k])
    <3>1. CASE k \in 1 .. n
      BY <1>3, <1>10, <2>1, <3>1 DEF Order, Deliveries
    <3>2. CASE k = n + 1
      <4>1. s = s0 /\ queue'[k] = m
        BY <1>3, <1>4, <2>0, <2>1, <3>2
      <4> QED
        BY <1>6, <1>9, <1>10, <2>1, <4>1 DEF Order, SendingTo
    <3> QED
      BY <1>3, <3>1, <3>2
  <2>2. ASSUME NEW j \in DOMAIN queue', NEW k \in DOMAIN queue',
               Delivery(queue'[j], s), Request(queue'[k]) \/ (Delivery(queue'[k], s) /\ j < k)
        PROVE  Before(queue'[j], queue'[k])
    <3>1. CASE j \in 1 .. n /\ k \in 1 .. n
      BY <1>3, <1>10, <2>2, <3>1 DEF Order, Deliveries
    <3>2. CASE j \in 1 .. n /\ k = n + 1
      <4>1. s = s0 /\ queue'[k] = m /\ queue'[j] = queue[j]
        BY <1>3, <1>4, <2>0, <2>2, <3>2
      <4> QED
        BY <1>3, <1>6, <1>9, <1>10, <2>2, <3>2, <4>1 DEF Order, SendingTo
    <3>3. CASE j = n + 1 /\ k \in 1 .. n
      <4>1. queue'[j] = m /\ Request(queue[k]) /\ queue'[k] = queue[k]
        BY <1>3, <2>2, <3>3
      <4> QED
        BY <1>1, <1>3, <1>6, <3>3, <4>1 DEF Order, Requests
    <3>4. CASE j = n + 1 /\ k = n + 1
      BY <1>3, <1>4, <2>2, <3>4
    <3> QED
      BY <1>3, <3>1, <3>2, <3>3, <3>4
  <2> QED
    BY <1>2, <1>10, <2>1, <2>2 DEF Order, Deliveries, Request, Delivery, Before, Data
<1>11. ASSUME NEW s \in Distinct
       PROVE  SendingTo(s)'
  <2>0. s \in Subscribers
    BY DEF Distinct
  <2>1. ASSUME NEW i \in to', subs[i].pid = s
        PROVE  s # s0 /\ ToSendTo(s)
    BY <1>2, <1>5, <1>11, <2>1 DEF ToSendTo
  <2>2. s # s0 /\ ToSendTo(s) => \A k \in DOMAIN queue' : Delivery(queue'[k], s) => Before(queue'[k], msg)
    BY <1>3, <1>4, <1>11, <2>0 DEF Order, SendingTo
  <2>3. ToSendTo(s) => \A i \in DOMAIN got[s] : Before(got[s][i], msg)
    BY <1>11 DEF Order, SendingTo
  <2> QED
    BY <1>2, <2>1, <2>2, <2>3 DEF SendingTo, ToSendTo, Delivery, Before, Data
<1> QED
  BY <1>7, <1>8, <1>10, <1>11 DEF Order, Distinct

-----------------------------------------------------------------------------
(* How many requests there are, and how many there should be.              *)

LEMMA ReceiveCounts ==
  ASSUME TypeOK, NEW p, NEW t, Msgrcv(p, t), NEW T
  PROVE  Count(queue', T) = Count(queue, T) - (IF Received(t) \in T THEN 1 ELSE 0)
<1>1. First(t) \in 1 .. Len(queue) /\ queue' = RemoveAt(queue, First(t)) /\ queue \in Seq(Message)
  BY ReceiveIs DEF TypeOK
<1> QED
  BY <1>1, CountRemove DEF Received

LEMMA SendCounts ==
  ASSUME TypeOK, NEW p, NEW m \in Message, Msgsnd(p, m), NEW T
  PROVE  Count(queue', T) = Count(queue, T) + (IF m \in T THEN 1 ELSE 0)
<1>1. queue' = Append(queue, m) /\ queue \in Seq(Message)
  BY SendIs DEF TypeOK
<1> QED
  BY <1>1, CountAppend

(* One step of a loop over the topics counts its topic once. *)
LEMMA PlacesAre ==
  ASSUME NEW s \in Subscribers, NEW t, NEW n \in Nat
  PROVE  /\ IsFiniteSet(Places(s, t)) /\ Cardinality(Places(s, t)) \in Nat
         /\ IsFiniteSet(Passed(s, t, n)) /\ Cardinality(Passed(s, t, n)) \in Nat
         /\ IsFiniteSet(Ahead(s, t, n)) /\ Cardinality(Ahead(s, t, n)) \in Nat
         /\ Cardinality(Passed(s, t, n)) <= Cardinality(Places(s, t))
         /\ Cardinality(Passed(s, t, 1)) = 0 /\ Ahead(s, t, 1) = Places(s, t)
         /\ Passed(s, t, Len(TopicsOf[s]) + 1) = Places(s, t)
         /\ Cardinality(Ahead(s, t, Len(TopicsOf[s]) + 1)) = 0
<1>1. Places(s, t) \in SUBSET (1 .. Len(TopicsOf[s])) /\ Len(TopicsOf[s]) \in Nat
  BY TopicsAre DEF Places
<1>2. IsFiniteSet(Places(s, t)) /\ Cardinality(Places(s, t)) \in Nat
  BY <1>1, NumbersFinite, 1 \in Nat
<1>3. Passed(s, t, n) \subseteq Places(s, t) /\ Ahead(s, t, n) \subseteq Places(s, t)
  BY DEF Passed, Ahead
<1>4. /\ IsFiniteSet(Passed(s, t, n)) /\ Cardinality(Passed(s, t, n)) \in Nat
      /\ IsFiniteSet(Ahead(s, t, n)) /\ Cardinality(Ahead(s, t, n)) \in Nat
      /\ Cardinality(Passed(s, t, n)) <= Cardinality(Places(s, t))
  BY <1>2, <1>3, FS_Subset, FS_CardinalityType
<1>5. /\ Passed(s, t, 1) = {} /\ Ahead(s, t, 1) = Places(s, t)
      /\ Passed(s, t, Len(TopicsOf[s]) + 1) = Places(s, t)
      /\ Ahead(s, t, Len(TopicsOf[s]) + 1) = {}
  BY <1>1 DEF Passed, Ahead
<1> QED
  BY <1>2, <1>4, <1>5, FS_EmptySet

LEMMA PlacesStep ==
  ASSUME NEW s \in Subscribers, NEW t, NEW n \in DOMAIN TopicsOf[s]
  PROVE  LET d == IF TopicsOf[s][n] = t THEN 1 ELSE 0 IN
         /\ Cardinality(Passed(s, t, n + 1)) = Cardinality(Passed(s, t, n)) + d
         /\ Cardinality(Ahead(s, t, n)) = Cardinality(Ahead(s, t, n + 1)) + d
<1>1. /\ Places(s, t) \subseteq 1 .. Len(TopicsOf[s]) /\ Len(TopicsOf[s]) \in Nat
      /\ n \in 1 .. Len(TopicsOf[s]) /\ n \in Nat /\ n + 1 \in Nat
      /\ n \in Places(s, t) <=> TopicsOf[s][n] = t
  BY TopicsAre DEF Places
<1>2. /\ Passed(s, t, n + 1) = IF TopicsOf[s][n] = t THEN Passed(s, t, n) \cup {n} ELSE Passed(s, t, n)
      /\ n \notin Passed(s, t, n)
  BY <1>1 DEF Passed
<1>3. /\ Ahead(s, t, n) = IF TopicsOf[s][n] = t THEN Ahead(s, t, n + 1) \cup {n} ELSE Ahead(s, t, n + 1)
      /\ n \notin Ahead(s, t, n + 1)
  BY <1>1 DEF Ahead
<1>4. /\ IsFiniteSet(Passed(s, t, n)) /\ Cardinality(Passed(s, t, n)) \in Nat
      /\ IsFiniteSet(Ahead(s, t, n + 1)) /\ Cardinality(Ahead(s, t, n + 1)) \in Nat
  BY <1>1, PlacesAre
<1>5. /\ Cardinality(Passed(s, t, n) \cup {n}) = Cardinality(Passed(s, t, n)) + 1
      /\ Cardinality(Ahead(s, t, n + 1) \cup {n}) = Cardinality(Ahead(s, t, n + 1)) + 1
  BY <1>2, <1>3, <1>4, FS_AddElement
<1> QED
  BY <1>2, <1>3, <1>4, <1>5

LEMMA CountsAre ==
  ASSUME subs \in Seq(Subscription), queue \in Seq(Message), NEW s, NEW t
  PROVE  /\ Count(subs, Entry(s, t)) \in Nat
         /\ Count(queue, Asking(s, t, "SUBSCRIBE")) \in Nat
         /\ InForce(s, t) \in Nat /\ Revoked(s, t) \in Nat
<1>1. /\ Count(subs, Entry(s, t)) \in Nat
      /\ Count(queue, Asking(s, t, "SUBSCRIBE")) \in Nat
      /\ Count(queue, Asking(s, t, "UNSUBSCRIBE")) \in Nat
  BY CountIs
<1> QED
  BY <1>1 DEF InForce, Revoked

(* Steps that move no subscriber and change no sum. *)
StandStill == /\ \A s \in Subscribers : pc'[s] = pc[s] /\ next'[s] = next[s]
              /\ lost' = lost
LEMMA SumsKept ==
  ASSUME AskedEnough, Balance, StandStill,
         \A s \in Subscribers, t \in Topics :
           InForce(s, t)' = InForce(s, t) /\ Revoked(s, t)' = Revoked(s, t)
  PROVE  AskedEnough' /\ Balance'
<1>1. ASSUME NEW s \in Subscribers, NEW t \in Topics
      PROVE  Asked(s, t)' = Asked(s, t) /\ Due(s, t)' = Due(s, t)
  BY <1>1 DEF Asked, Due, StandStill
<1>2. AskedEnough'
  BY <1>1 DEF AskedEnough
<1>3. Balance'
  BY <1>1 DEF Balance, StandStill
<1> QED
  BY <1>2, <1>3

(* Messages that carry data are in no sum. *)
LEMMA DataSums ==
  ASSUME TypeOK, subs' = subs, NEW m \in Message, Data(m), NEW p, NEW t,
         (Msgrcv(p, t) /\ Received(t) = m) \/ Msgsnd(p, m) \/ queue' = queue,
         NEW s \in Subscribers, NEW topic \in Topics
  PROVE  InForce(s, topic)' = InForce(s, topic) /\ Revoked(s, topic)' = Revoked(s, topic)
<1> DEFINE A == Asking(s, topic, "SUBSCRIBE")
           R == Asking(s, topic, "UNSUBSCRIBE")
<1>1. m \notin A /\ m \notin R
  BY DEF Asking, From, Data
<1>2. queue \in Seq(Message)
  BY DEF TypeOK
<1>3. Count(queue, A) \in Nat /\ Count(queue, R) \in Nat
  BY <1>2, CountIs
<1>4. Count(queue', A) = Count(queue, A) /\ Count(queue', R) = Count(queue, R)
  <2> HIDE DEF A, R
  <2>1. CASE Msgrcv(p, t) /\ Received(t) = m
    BY <1>1, <1>3, <2>1, ReceiveCounts
  <2>2. CASE Msgsnd(p, m)
    BY <1>1, <1>3, <2>2, SendCounts
  <2>3. CASE queue' = queue
    BY <2>3
  <2> QED
    BY <2>1, <2>2, <2>3
<1> QED
  BY <1>4 DEF InForce, Revoked

(* The broker executes SUBSCRIBE: the request becomes the entry. *)
LEMMA SubscribeSums ==
  ASSUME TypeOK, NEW b, Msgrcv(b, ToBroker), NEW m, m = Received(ToBroker),
         m.action = "SUBSCRIBE", m.pid \in Subscribers, m.topic \in Topics,
         subs' = add_subscription(m.pid, m.topic),
         NEW s \in Subscribers, NEW t \in Topics
  PROVE  InForce(s, t)' = InForce(s, t) /\ Revoked(s, t)' = Revoked(s, t)
<1> DEFINE A == Asking(s, t, "SUBSCRIBE")
           R == Asking(s, t, "UNSUBSCRIBE")
           E == Entry(s, t)
           e == [pid |-> m.pid, topic |-> m.topic]
<1>1. m \in Message /\ subs' = Append(subs, e) /\ e \in Subscription
  BY ReceiveIs DEF add_subscription, Subscription
<1>2. /\ m \in A <=> (m.pid = s /\ m.topic = t)
      /\ e \in E <=> (m.pid = s /\ m.topic = t)
      /\ m \notin R
  BY <1>1 DEF Asking, From, Entry
<1>3. queue \in Seq(Message) /\ subs \in Seq(Subscription)
  BY DEF TypeOK
<1>4. Count(queue, A) \in Nat /\ Count(queue, R) \in Nat /\ Count(subs, E) \in Nat
  BY <1>3, CountIs
<1> HIDE DEF A, R, E, e
<1>5. /\ Count(queue', A) = Count(queue, A) - (IF m \in A THEN 1 ELSE 0)
      /\ Count(queue', R) = Count(queue, R) - (IF m \in R THEN 1 ELSE 0)
  BY ReceiveCounts
<1>6. Count(subs', E) = Count(subs, E) + (IF e \in E THEN 1 ELSE 0)
  BY <1>1, <1>3, CountAppend
<1>7. /\ Count(subs', E) + Count(queue', A) = Count(subs, E) + Count(queue, A)
      /\ Count(queue', R) = Count(queue, R)
  BY <1>2, <1>4, <1>5, <1>6
<1> QED
  BY <1>7 DEF InForce, Revoked, A, R, E

(* The broker executes UNSUBSCRIBE. No SUBSCRIBE of its sender is behind   *)
(* it, so that one it asked for enough is in the table.                    *)
LEMMA UnsubscribeSums ==
  ASSUME TypeOK, Messages, AskedEnough, Balance, Precedence, StandStill,
         NEW b, Msgrcv(b, ToBroker), NEW m, m = Received(ToBroker),
         m.action = "UNSUBSCRIBE", m.pid \in Subscribers, m.topic \in Topics,
         subs' = remove_subscription(m.pid, m.topic)
  PROVE  AskedEnough' /\ Balance'
<1> DEFINE k0 == First(ToBroker)
<1>1. /\ k0 \in DOMAIN queue /\ m = queue[k0] /\ m \in Message
      /\ \A j \in DOMAIN queue : queue[j].mtype = ToBroker => k0 <= j
      /\ DOMAIN queue = 1 .. Len(queue)
      /\ queue \in Seq(Message) /\ subs \in Seq(Subscription)
  BY ReceiveIs DEF Received, TypeOK
<1> HIDE DEF k0
<1>2. \A t \in Topics : Count(queue, Asking(m.pid, t, "SUBSCRIBE")) = 0
  <2>1. ASSUME NEW t \in Topics, NEW k \in DOMAIN queue, queue[k] \in Asking(m.pid, t, "SUBSCRIBE")
        PROVE  FALSE
    <3>1. From(queue[k], m.pid, "SUBSCRIBE") /\ From(queue[k0], m.pid, "UNSUBSCRIBE")
      BY <1>1, <2>1 DEF Asking, From
    <3>2. k < k0
      BY <1>1, <3>1 DEF Precedence
    <3>3. queue[k].mtype = ToBroker
      BY <2>1, <3>1 DEF Messages, Proper, From, Data
    <3>4. k0 <= k /\ k \in Int /\ k0 \in Int
      BY <1>1, <3>3
    <3> QED
      BY <3>2, <3>4
  <2> QED
    BY <1>1, <2>1, CountIs
<1>3. ASSUME NEW s \in Subscribers, NEW t \in Topics
      PROVE  LET hit == IF m.pid = s /\ m.topic = t THEN 1 ELSE 0 IN
             /\ Revoked(s, t)' = Revoked(s, t) - hit
             /\ InForce(s, t)' = InForce(s, t) - (IF InForce(s, t) = 0 \/ Count(subs, Entry(s, t)) = 0 THEN 0 ELSE hit)
  <2> DEFINE A == Asking(s, t, "SUBSCRIBE")
             R == Asking(s, t, "UNSUBSCRIBE")
             E == Entry(s, t)
  <2>1. m \notin A /\ (m \in R <=> (m.pid = s /\ m.topic = t))
    BY <1>1 DEF Asking, From
  <2>2. Count(queue, A) \in Nat /\ Count(queue, R) \in Nat /\ Count(subs, E) \in Nat
    BY <1>1, CountIs
  <2>3. /\ Count(queue', A) = Count(queue, A)
        /\ Count(queue', R) = Count(queue, R) - (IF m \in R THEN 1 ELSE 0)
    <3> HIDE DEF A, R
    <3> QED
      BY <2>1, <2>2, ReceiveCounts
  <2>4. Count(subs', E) = Count(subs, E) - (IF m.pid = s /\ m.topic = t /\ Count(subs, E) # 0 THEN 1 ELSE 0)
    <3>1. CASE subs' = subs /\ \A i \in DOMAIN subs : subs[i] \notin Entry(m.pid, m.topic)
      <4>1. m.pid = s /\ m.topic = t => Count(subs, E) = 0
        BY <1>1, <3>1, CountIs
      <4> QED
        BY <2>2, <3>1, <4>1
    <3>2. ASSUME NEW k \in 1 .. Len(subs), subs[k] \in Entry(m.pid, m.topic), subs' = RemoveAt(subs, k)
          PROVE  Count(subs', E) = Count(subs, E) - (IF m.pid = s /\ m.topic = t /\ Count(subs, E) # 0 THEN 1 ELSE 0)
      <4>1. subs[k] \in E <=> (m.pid = s /\ m.topic = t)
        BY <3>2 DEF Entry
      <4>2. k \in DOMAIN subs
        BY <1>1
      <4>3. subs[k] \in E => Count(subs, E) # 0
        BY <1>1, <4>2, CountIs
      <4> HIDE DEF E
      <4>4. Count(subs', E) = Count(subs, E) - (IF subs[k] \in E THEN 1 ELSE 0)
        BY <1>1, <3>2, CountRemove
      <4> QED
        BY <2>2, <4>1, <4>3, <4>4
    <3> QED
      BY <1>1, <3>1, <3>2, RemoveIs
  <2> HIDE DEF A, R, E
  <2>5. Count(subs', E) + Count(queue', A)
          = Count(subs, E) + Count(queue, A) - (IF m.pid = s /\ m.topic = t /\ Count(subs, E) # 0 THEN 1 ELSE 0)
    BY <2>2, <2>3, <2>4
  <2>6. /\ Revoked(s, t)' = Count(queue', R) /\ Revoked(s, t) = Count(queue, R)
        /\ InForce(s, t)' = Count(subs', E) + Count(queue', A)
        /\ InForce(s, t) = Count(subs, E) + Count(queue, A)
    BY DEF InForce, Revoked, A, R, E
  <2>7. Count(subs, E) # 0 => InForce(s, t) # 0
    BY <2>2, <2>6
  <2> QED
    BY <2>1, <2>2, <2>3, <2>5, <2>6, <2>7 DEF E
<1>4. ASSUME NEW s \in Subscribers, NEW t \in Topics
      PROVE  /\ Asked(s, t)' = Asked(s, t) /\ Due(s, t)' = Due(s, t)
             /\ InForce(s, t) \in Nat /\ Revoked(s, t) \in Nat /\ Due(s, t) \in Nat /\ Asked(s, t) \in Nat
  <2>1. next[s] \in Nat
    BY <1>4, Kinds DEF TypeOK
  <2>2. Due(s, t) \in Nat /\ Asked(s, t) \in Nat
    BY <2>1, PlacesAre DEF Due, Asked
  <2>3. Asked(s, t)' = Asked(s, t) /\ Due(s, t)' = Due(s, t)
    BY <1>4 DEF Asked, Due, StandStill
  <2> QED
    BY <1>1, <2>2, <2>3, CountsAre
<1>5. AskedEnough'
  <2>1. ASSUME NEW s \in Subscribers, NEW t \in Topics
        PROVE  InForce(s, t)' <= Asked(s, t)'
    <3>1. InForce(s, t) <= Asked(s, t)
      BY <2>1 DEF AskedEnough
    <3>2. InForce(s, t)' <= InForce(s, t)
      BY <1>3, <1>4, <2>1
    <3> QED
      BY <1>3, <1>4, <2>1, <3>1, <3>2
  <2> QED
    BY <2>1 DEF AskedEnough
<1>6. Balance'
  <2>1. ASSUME NEW s \in Subscribers \ lost, NEW t \in Topics
        PROVE  InForce(s, t)' = Revoked(s, t)' + Due(s, t)'
    <3>1. InForce(s, t) = Revoked(s, t) + Due(s, t)
      BY <2>1 DEF Balance
    <3>2. CASE m.pid = s /\ m.topic = t
      <4>1. Count(queue, Asking(s, t, "SUBSCRIBE")) = 0
        BY <1>2, <3>2
      <4>2. Revoked(s, t) # 0
        <5>1. m \in Asking(s, t, "UNSUBSCRIBE")
          BY <1>1, <3>2 DEF Asking, From
        <5> QED
          BY <1>1, <5>1, CountIs DEF Revoked
      <4>3. InForce(s, t) # 0
        BY <1>4, <2>1, <3>1, <4>2
      <4>4. Count(subs, Entry(s, t)) # 0
        BY <1>1, <4>1, <4>3, CountsAre DEF InForce
      <4> QED
        BY <1>3, <1>4, <2>1, <3>1, <3>2, <4>3, <4>4
    <3>3. CASE ~(m.pid = s /\ m.topic = t)
      BY <1>3, <1>4, <2>1, <3>1, <3>3
    <3> QED
      BY <3>2, <3>3
  <2>2. lost' = lost /\ \A s \in Subscribers \ lost, t \in Topics : pc'[s] # "killed"
    BY DEF Balance, StandStill
  <2> QED
    BY <2>1, <2>2 DEF Balance
<1> QED
  BY <1>5, <1>6

(* One more request is due, or one less. *)
LEMMA LoopSums ==
  ASSUME PcTypes, NextTypes, NEW s \in Subscribers, pc[s] \in {"subscribe", "unsubscribe"},
         NextTopic(s), NEW t
  PROVE  LET d == IF TopicsOf[s][next[s]] = t THEN 1 ELSE 0 IN
         /\ Asked(s, t) \in Nat /\ Due(s, t) \in Nat
         /\ Asked(s, t)' = Asked(s, t) + (IF pc[s] = "subscribe" THEN d ELSE 0)
         /\ Due(s, t)' = Due(s, t) + (IF pc[s] = "subscribe" THEN d ELSE -d)
<1> DEFINE n == next[s]
           L == Len(TopicsOf[s])
           d == IF TopicsOf[s][n] = t THEN 1 ELSE 0
           All == Cardinality(Places(s, t))
           P(x) == Cardinality(Passed(s, t, x))
           A(x) == Cardinality(Ahead(s, t, x))
<1>1. /\ n \in DOMAIN TopicsOf[s] /\ n \in Nat /\ n + 1 \in Nat /\ L \in Nat
  BY TopicsAre DEF NextTypes
<1>2. /\ All \in Nat /\ P(n) \in Nat /\ A(n) \in Nat /\ A(n + 1) \in Nat
      /\ P(1) = 0 /\ A(1) = All /\ P(L + 1) = All /\ A(L + 1) = 0
      /\ P(n + 1) = P(n) + d /\ A(n) = A(n + 1) + d /\ d \in {0, 1}
  BY <1>1, PlacesAre, PlacesStep, 1 \in Nat
<1>3. \/ /\ n < L /\ next'[s] = n + 1 /\ pc'[s] = pc[s]
      \/ /\ n = L /\ next'[s] = 1
         /\ pc[s] = "subscribe" => pc'[s] \in {"receive", "unsubscribe"}
         /\ pc[s] = "unsubscribe" => pc'[s] = "done"
  BY NextTopicIs
<1>4. /\ Asked(s, t) = IF pc[s] = "subscribe" THEN P(n) ELSE All
      /\ Due(s, t) = IF pc[s] = "subscribe" THEN P(n) ELSE A(n)
  BY DEF Asked, Due
<1>5. /\ Asked(s, t)' = IF pc'[s] = "off" THEN 0 ELSE IF pc'[s] = "subscribe" THEN P(next'[s]) ELSE All
      /\ Due(s, t)' = IF pc'[s] \in {"off", "done"} THEN 0
                      ELSE IF pc'[s] = "subscribe" THEN P(next'[s])
                      ELSE IF pc'[s] = "receive" THEN All ELSE A(next'[s])
  BY DEF Asked, Due
<1> HIDE DEF n, L, d, All, P, A
<1>6. CASE n < L /\ next'[s] = n + 1 /\ pc'[s] = pc[s] /\ pc[s] = "subscribe"
  BY <1>2, <1>4, <1>5, <1>6 DEF n, d
<1>7. CASE n < L /\ next'[s] = n + 1 /\ pc'[s] = pc[s] /\ pc[s] = "unsubscribe"
  <2>1. Asked(s, t)' = Asked(s, t) /\ Due(s, t)' = Due(s, t) - d
    BY <1>2, <1>4, <1>5, <1>7
  <2> QED
    BY <1>2, <1>4, <1>7, <2>1 DEF n, d
<1>8. CASE n = L /\ next'[s] = 1 /\ pc[s] = "subscribe" /\ pc'[s] \in {"receive", "unsubscribe"}
  BY <1>2, <1>4, <1>5, <1>8 DEF n, d
<1>9. CASE n = L /\ next'[s] = 1 /\ pc[s] = "unsubscribe" /\ pc'[s] = "done"
  <2>1. Asked(s, t)' = Asked(s, t) /\ Due(s, t)' = Due(s, t) - d
    BY <1>2, <1>4, <1>5, <1>9
  <2> QED
    BY <1>2, <1>4, <1>9, <2>1 DEF n, d
<1> QED
  BY <1>3, <1>6, <1>7, <1>8, <1>9

LEMMA AskIs ==
  ASSUME TypeOK, NEW s \in Subscribers, Ask(s)
  PROVE  \E m \in Message :
           /\ Msgsnd(s, m) /\ Proper(m) /\ ~Data(m) /\ m.pid = s
           /\ m.topic = TopicsOf[s][next[s]]
           /\ m.action = IF pc[s] = "subscribe" THEN "SUBSCRIBE" ELSE "UNSUBSCRIBE"
<1> DEFINE action == IF pc[s] = "subscribe" THEN "SUBSCRIBE" ELSE "UNSUBSCRIBE"
           m == create_message(ToBroker, action, s, TopicsOf[s][next[s]], <<>>)
<1>1. s \in Proc /\ TopicsOf[s][next[s]] \in Topics /\ TopicsOf[s][next[s]] \in ToSet(TopicsOf[s])
  BY TopicsAre, Kinds DEF TypeOK
<1>2. <<>> \in Payload
  BY DEF Payload
<1>3. /\ m \in Message /\ m.mtype = ToBroker /\ m.action = action /\ m.pid = s
      /\ m.topic = TopicsOf[s][next[s]]
  BY <1>1, <1>2 DEF create_message, Message
<1>4. Msgsnd(s, m)
  BY DEF Ask
<1> HIDE DEF m
<1>5. Proper(m) /\ ~Data(m)
  BY <1>1, <1>3 DEF Proper, Data
<1> QED
  BY <1>3, <1>4, <1>5

(* The subscribers that do not move. *)
LEMMA OthersKept ==
  ASSUME AskedEnough, Balance, NEW s0, lost \subseteq lost',
         NEW s \in Subscribers \ {s0}, NEW t \in Topics, pc'[s] = pc[s], next'[s] = next[s],
         InForce(s, t)' = InForce(s, t), Revoked(s, t)' = Revoked(s, t)
  PROVE  /\ InForce(s, t)' <= Asked(s, t)'
         /\ s \notin lost' => pc'[s] # "killed" /\ InForce(s, t)' = Revoked(s, t)' + Due(s, t)'
<1>1. Asked(s, t)' = Asked(s, t) /\ Due(s, t)' = Due(s, t)
  BY DEF Asked, Due
<1>2. InForce(s, t) <= Asked(s, t)
  BY DEF AskedEnough
<1>3. s \notin lost' => pc[s] # "killed" /\ InForce(s, t) = Revoked(s, t) + Due(s, t)
  BY DEF Balance
<1> QED
  BY <1>1, <1>2, <1>3

LEMMA AskSums ==
  ASSUME TypeOK, AskedEnough, Balance, NEW s0 \in Subscribers, Ask(s0)
  PROVE  AskedEnough' /\ Balance'
<1>1. PICK m \in Message :
        /\ Msgsnd(s0, m) /\ ~Data(m) /\ m.pid = s0 /\ m.topic = TopicsOf[s0][next[s0]]
        /\ m.action = IF pc[s0] = "subscribe" THEN "SUBSCRIBE" ELSE "UNSUBSCRIBE"
  BY AskIs
<1>2. /\ subs' = subs /\ lost' = lost /\ NextTopic(s0) /\ pc[s0] \in {"subscribe", "unsubscribe"}
      /\ subs \in Seq(Subscription) /\ queue \in Seq(Message)
  BY DEF Ask, table, history, TypeOK
<1>3. PcTypes /\ NextTypes
  BY TypeParts
<1>4. /\ \A s \in Subscribers \ {s0} : pc'[s] = pc[s] /\ next'[s] = next[s]
      /\ pc'[s0] # "killed"
  BY <1>2, <1>3, NextTopicIs, Kinds
<1>5. ASSUME NEW s \in Subscribers, NEW t \in Topics
      PROVE  LET d == IF s = s0 /\ TopicsOf[s0][next[s0]] = t THEN 1 ELSE 0 IN
             /\ InForce(s, t) \in Nat /\ Revoked(s, t) \in Nat
             /\ InForce(s, t)' = InForce(s, t) + (IF pc[s0] = "subscribe" THEN d ELSE 0)
             /\ Revoked(s, t)' = Revoked(s, t) + (IF pc[s0] = "subscribe" THEN 0 ELSE d)
  <2> DEFINE A == Asking(s, t, "SUBSCRIBE")
             R == Asking(s, t, "UNSUBSCRIBE")
             d == IF s = s0 /\ TopicsOf[s0][next[s0]] = t THEN 1 ELSE 0
  <2>1. /\ m \in A <=> (d = 1 /\ pc[s0] = "subscribe")
        /\ m \in R <=> (d = 1 /\ pc[s0] # "subscribe")
    BY <1>1 DEF Asking, From
  <2>2. /\ Count(subs, Entry(s, t)) \in Nat /\ Count(queue, A) \in Nat
        /\ InForce(s, t) \in Nat /\ Revoked(s, t) \in Nat
    BY <1>2, CountsAre
  <2>3. d \in {0, 1}
    OBVIOUS
  <2> HIDE DEF A, R, d
  <2>4. /\ Count(queue', A) = Count(queue, A) + (IF m \in A THEN 1 ELSE 0)
        /\ Count(queue', R) = Count(queue, R) + (IF m \in R THEN 1 ELSE 0)
    BY <1>1, SendCounts
  <2>5. /\ InForce(s, t)' = Count(subs, Entry(s, t)) + Count(queue', A)
        /\ InForce(s, t) = Count(subs, Entry(s, t)) + Count(queue, A)
        /\ Revoked(s, t)' = Count(queue', R) /\ Revoked(s, t) = Count(queue, R)
    BY <1>2 DEF InForce, Revoked, A, R
  <2>6. /\ InForce(s, t)' = InForce(s, t) + (IF pc[s0] = "subscribe" THEN d ELSE 0)
        /\ Revoked(s, t)' = Revoked(s, t) + (IF pc[s0] = "subscribe" THEN 0 ELSE d)
    BY <2>1, <2>2, <2>3, <2>4, <2>5
  <2> QED
    BY <2>2, <2>6 DEF d
<1>6. ASSUME NEW s \in Subscribers, NEW t \in Topics
      PROVE  /\ InForce(s, t)' <= Asked(s, t)'
             /\ s \notin lost' => pc'[s] # "killed" /\ InForce(s, t)' = Revoked(s, t)' + Due(s, t)'
  <2>1. CASE s # s0
    <3>1. InForce(s, t)' = InForce(s, t) /\ Revoked(s, t)' = Revoked(s, t)
      BY <1>5, <1>6, <2>1
    <3>2. lost \subseteq lost' /\ pc'[s] = pc[s] /\ next'[s] = next[s]
      BY <1>2, <1>4, <1>6, <2>1
    <3> QED
      BY <1>6, <2>1, <3>1, <3>2, OthersKept
  <2>2. CASE s = s0
    <3> DEFINE d == IF TopicsOf[s0][next[s0]] = t THEN 1 ELSE 0
    <3>1. /\ Asked(s, t) \in Nat /\ Due(s, t) \in Nat
          /\ Asked(s, t)' = Asked(s, t) + (IF pc[s] = "subscribe" THEN d ELSE 0)
          /\ Due(s, t)' = Due(s, t) + (IF pc[s] = "subscribe" THEN d ELSE -d)
      BY <1>2, <1>3, <2>2, LoopSums
    <3>2. /\ InForce(s, t) \in Nat /\ Revoked(s, t) \in Nat
          /\ InForce(s, t)' = InForce(s, t) + (IF pc[s] = "subscribe" THEN d ELSE 0)
          /\ Revoked(s, t)' = Revoked(s, t) + (IF pc[s] = "subscribe" THEN 0 ELSE d)
      BY <1>5, <1>6, <2>2
    <3>3. d \in {0, 1}
      OBVIOUS
    <3>4. /\ InForce(s, t) <= Asked(s, t)
          /\ s \notin lost' => InForce(s, t) = Revoked(s, t) + Due(s, t)
      BY <1>2, <1>6 DEF AskedEnough, Balance
    <3> HIDE DEF d
    <3>5. InForce(s, t)' <= Asked(s, t)'
      BY <3>1, <3>2, <3>3, <3>4
    <3>6. s \notin lost' => InForce(s, t)' = Revoked(s, t)' + Due(s, t)'
      BY <3>1, <3>2, <3>3, <3>4
    <3> QED
      BY <1>4, <2>2, <3>5, <3>6
  <2> QED
    BY <2>1, <2>2
<1> QED
  BY <1>6 DEF AskedEnough, Balance

(* A request that fails is lost; the queue and the table stay. *)
LEMMA FailSums ==
  ASSUME TypeOK, AskedEnough, Balance, queue' = queue, subs' = subs,
         NEW s0 \in Subscribers, pc[s0] \in {"subscribe", "unsubscribe"}, NextTopic(s0),
         lost' = lost \cup {s0}
  PROVE  AskedEnough' /\ Balance'
<1>1. /\ PcTypes /\ NextTypes /\ subs \in Seq(Subscription) /\ queue \in Seq(Message)
  BY TypeParts DEF TypeOK
<1>2. \A s \in Subscribers, t \in Topics :
        /\ InForce(s, t) \in Nat /\ Revoked(s, t) \in Nat
        /\ InForce(s, t)' = InForce(s, t) /\ Revoked(s, t)' = Revoked(s, t)
  BY <1>1, CountsAre DEF InForce, Revoked
<1>3. \A s \in Subscribers \ {s0} : pc'[s] = pc[s] /\ next'[s] = next[s]
  BY <1>1, NextTopicIs, Kinds
<1>4. ASSUME NEW s \in Subscribers, NEW t \in Topics
      PROVE  /\ InForce(s, t)' <= Asked(s, t)'
             /\ s \notin lost' => pc'[s] # "killed" /\ InForce(s, t)' = Revoked(s, t)' + Due(s, t)'
  <2>1. CASE s # s0
    <3>1. lost \subseteq lost'
      OBVIOUS
    <3> QED
      BY <1>2, <1>3, <1>4, <2>1, <3>1, OthersKept
  <2>2. CASE s = s0
    <3>1. /\ Asked(s, t) \in Nat
          /\ Asked(s, t)' = Asked(s, t) + (IF pc[s] = "subscribe"
                                           THEN IF TopicsOf[s][next[s]] = t THEN 1 ELSE 0 ELSE 0)
      BY <1>1, <2>2, LoopSums
    <3>2. InForce(s, t) <= Asked(s, t)
      BY <1>4 DEF AskedEnough
    <3>3. InForce(s, t) <= Asked(s, t)'
      BY <1>2, <1>4, <3>1, <3>2
    <3> QED
      BY <1>2, <2>2, <3>3
  <2> QED
    BY <2>1, <2>2
<1> QED
  BY <1>4 DEF AskedEnough, Balance

(* With the table go the requests of everyone who has started; the others  *)
(* have sent nothing.                                                      *)
LEMMA TableLostSums ==
  ASSUME TypeOK, AskedEnough, Balance, Precedence, subs' = <<>>,
         queue' = queue \/ queue' = <<>>, lost' = Forgotten,
         \A s \in Subscribers : pc'[s] = pc[s] /\ next'[s] = next[s]
  PROVE  AskedEnough' /\ Balance'
<1>1. /\ subs \in Seq(Subscription) /\ queue \in Seq(Message) /\ <<>> \in Seq(Subscription)
      /\ <<>> \in Seq(Message)
  BY DEF TypeOK
<1>2. \A T : Count(<<>>, T) = 0
  <2>1. \A T : \A k \in DOMAIN <<>> : <<>>[k] \notin T
    OBVIOUS
  <2> QED
    BY <1>1, <2>1, CountIs
<1>3. ASSUME NEW s \in Subscribers, NEW t \in Topics
      PROVE  /\ InForce(s, t)' <= InForce(s, t) /\ InForce(s, t) \in Nat /\ InForce(s, t)' \in Nat
             /\ Revoked(s, t)' <= Revoked(s, t) /\ Revoked(s, t) \in Nat /\ Revoked(s, t)' \in Nat
  <2> DEFINE A == Asking(s, t, "SUBSCRIBE")
             R == Asking(s, t, "UNSUBSCRIBE")
             E == Entry(s, t)
  <2>1. /\ Count(subs, E) \in Nat /\ Count(queue, A) \in Nat /\ Count(queue, R) \in Nat
    BY <1>1, CountIs
  <2> HIDE DEF A, R, E
  <2>2. /\ Count(subs', E) = 0 /\ Count(queue', A) \in {0, Count(queue, A)}
        /\ Count(queue', R) \in {0, Count(queue, R)}
    BY <1>2
  <2>3. /\ InForce(s, t)' = Count(subs', E) + Count(queue', A)
        /\ InForce(s, t) = Count(subs, E) + Count(queue, A)
        /\ Revoked(s, t)' = Count(queue', R) /\ Revoked(s, t) = Count(queue, R)
    BY DEF InForce, Revoked, A, R, E
  <2> QED
    BY <2>1, <2>2, <2>3
<1>4. AskedEnough'
  <2>1. ASSUME NEW s \in Subscribers, NEW t \in Topics
        PROVE  InForce(s, t)' <= Asked(s, t)'
    <3>1. Asked(s, t)' = Asked(s, t) /\ InForce(s, t) <= Asked(s, t)
      BY <2>1 DEF Asked, AskedEnough
    <3>2. next[s] \in Nat
      BY <2>1, Kinds DEF TypeOK
    <3>3. Asked(s, t) \in Nat
      BY <2>1, <3>2, PlacesAre DEF Asked
    <3> QED
      BY <1>3, <2>1, <3>1, <3>3
  <2> QED
    BY <2>1 DEF AskedEnough
<1>5. Balance'
  <2>1. ASSUME NEW s \in Subscribers \ lost', NEW t \in Topics
        PROVE  pc'[s] # "killed" /\ InForce(s, t)' = Revoked(s, t)' + Due(s, t)'
    <3>1. s \notin lost /\ pc[s] = "off" /\ pc'[s] = "off"
      BY <2>1 DEF Forgotten
    <3>2. Due(s, t) = 0 /\ Due(s, t)' = 0
      BY <3>1 DEF Due
    <3>3. Revoked(s, t) = 0
      <4>1. \A k \in DOMAIN queue : queue[k] \notin Asking(s, t, "UNSUBSCRIBE")
        BY <2>1, <3>1 DEF Precedence, Asking
      <4> QED
        BY <1>1, <4>1, CountIs DEF Revoked
    <3>4. InForce(s, t) = Revoked(s, t) + Due(s, t)
      BY <2>1, <3>1 DEF Balance
    <3>5. InForce(s, t)' = 0 /\ Revoked(s, t)' = 0
      BY <1>3, <2>1, <3>2, <3>3, <3>4
    <3> QED
      BY <3>1, <3>2, <3>5
  <2> QED
    BY <2>1 DEF Balance
<1> QED
  BY <1>4, <1>5

(* A subscriber starts, with nothing asked for yet, or is killed. *)
LEMMA ComesOrGoesSums ==
  ASSUME TypeOK, Processes, AskedEnough, Balance, queue' = queue, subs' = subs, next' = next,
         NEW s0 \in Subscribers,
         \/ pc[s0] = "off" /\ Goto(s0, "subscribe") /\ lost' = lost
         \/ Goto(s0, "killed") /\ lost' = lost \cup {s0} /\ Running(s0)
  PROVE  AskedEnough' /\ Balance'
<1>1. /\ pc \in [Proc -> Labels] /\ s0 \in Proc /\ next[s0] \in Nat
      /\ subs \in Seq(Subscription) /\ queue \in Seq(Message)
      /\ \A s \in Subscribers : s \in Proc
  BY Kinds DEF TypeOK, Labels
<1>2. \A s \in Subscribers, t \in Topics :
        /\ InForce(s, t) \in Nat /\ Revoked(s, t) \in Nat
        /\ InForce(s, t)' = InForce(s, t) /\ Revoked(s, t)' = Revoked(s, t)
  BY <1>1, CountsAre DEF InForce, Revoked
<1>3. \A s \in Subscribers \ {s0} : pc'[s] = pc[s] /\ next'[s] = next[s]
  BY <1>1 DEF Goto
<1>4. ASSUME NEW s \in Subscribers, NEW t \in Topics
      PROVE  /\ InForce(s, t)' <= Asked(s, t)'
             /\ s \notin lost' => pc'[s] # "killed" /\ InForce(s, t)' = Revoked(s, t)' + Due(s, t)'
  <2>1. CASE s # s0
    <3>1. lost \subseteq lost' /\ pc'[s] = pc[s] /\ next'[s] = next[s]
      BY <1>3, <1>4, <2>1
    <3> QED
      BY <1>2, <1>4, <2>1, <3>1, OthersKept
  <2>2. CASE s = s0
    <3>0. /\ InForce(s, t) <= Asked(s, t)
          /\ s \notin lost => InForce(s, t) = Revoked(s, t) + Due(s, t)
      BY <1>4 DEF AskedEnough, Balance
    <3>1. CASE pc[s0] = "off" /\ Goto(s0, "subscribe") /\ lost' = lost
      <4>1. pc'[s] = "subscribe" /\ next[s] = 1 /\ next'[s] = 1
        BY <1>1, <2>2, <3>1 DEF Goto, Processes
      <4>2. Cardinality(Passed(s, t, 1)) = 0
        BY <1>4, PlacesAre, 1 \in Nat
      <4>3. Asked(s, t) = 0 /\ Asked(s, t)' = 0 /\ Due(s, t) = 0 /\ Due(s, t)' = 0
        BY <2>2, <3>1, <4>1, <4>2 DEF Asked, Due
      <4> QED
        BY <1>2, <1>4, <3>0, <3>1, <4>1, <4>3
    <3>2. CASE Goto(s0, "killed") /\ lost' = lost \cup {s0} /\ Running(s0)
      <4>1. pc'[s] = "killed" /\ pc[s] # "off"
        BY <1>1, <2>2, <3>2 DEF Goto, Running
      <4>2. /\ Asked(s, t)' = Cardinality(Places(s, t))
            /\ Asked(s, t) = Cardinality(IF pc[s] = "subscribe" THEN Passed(s, t, next[s]) ELSE Places(s, t))
        BY <4>1 DEF Asked
      <4>3. /\ Cardinality(Passed(s, t, next[s])) <= Cardinality(Places(s, t))
            /\ Cardinality(Passed(s, t, next[s])) \in Nat /\ Cardinality(Places(s, t)) \in Nat
        BY <1>1, <1>4, <2>2, PlacesAre
      <4>4. InForce(s, t) <= Asked(s, t)'
        BY <1>2, <1>4, <3>0, <4>2, <4>3
      <4> QED
        BY <1>2, <1>4, <2>2, <3>2, <4>4
    <3> QED
      BY <3>1, <3>2
  <2> QED
    BY <2>1, <2>2
<1> QED
  BY <1>4 DEF AskedEnough, Balance

-----------------------------------------------------------------------------
(* Requests stay behind the requests they undo. *)

NoneGoesBack == \A s \in Subscribers :
  pc'[s] \in {"off", "subscribe"} => pc[s] \in {"off", "subscribe"}

LEMMA PrecedenceKept ==
  ASSUME Precedence, NoneGoesBack, queue' = queue \/ queue' = <<>>
  PROVE  Precedence'
<1>1. CASE queue' = queue
  BY <1>1 DEF Precedence, NoneGoesBack, From
<1>2. CASE queue' = <<>>
  BY <1>2 DEF Precedence
<1> QED
  BY <1>1, <1>2

LEMMA ReceivePrecedence ==
  ASSUME TypeOK, Precedence, NoneGoesBack, NEW p, NEW t, Msgrcv(p, t)
  PROVE  Precedence'
<1> DEFINE k0 == First(t)
           n == Len(queue)
<1>1. /\ k0 \in 1 .. n /\ DOMAIN queue = 1 .. n /\ DOMAIN queue' = 1 .. n - 1 /\ n \in Nat
      /\ \A j \in DOMAIN queue' : queue'[j] = queue[Up(k0, j)]
  BY ReceiveIs
<1> HIDE DEF k0, n
<1>2. /\ \A j \in 1 .. n - 1 : Up(k0, j) \in 1 .. n
      /\ \A i, j \in 1 .. n - 1 : i < j <=> Up(k0, i) < Up(k0, j)
  BY <1>1, UpIs
<1>3. ASSUME NEW s \in Subscribers, pc'[s] \in {"off", "subscribe"}, NEW k \in DOMAIN queue'
      PROVE  ~From(queue'[k], s, "UNSUBSCRIBE")
  BY <1>1, <1>2, <1>3 DEF Precedence, NoneGoesBack
<1>4. ASSUME NEW s \in Subscribers, NEW j \in DOMAIN queue', NEW k \in DOMAIN queue',
             From(queue'[j], s, "SUBSCRIBE"), From(queue'[k], s, "UNSUBSCRIBE")
      PROVE  j < k
  <2>1. Up(k0, j) \in DOMAIN queue /\ Up(k0, k) \in DOMAIN queue
        /\ queue'[j] = queue[Up(k0, j)] /\ queue'[k] = queue[Up(k0, k)]
    BY <1>1, <1>2, <1>4
  <2>2. Up(k0, j) < Up(k0, k)
    BY <1>4, <2>1 DEF Precedence
  <2> QED
    BY <1>1, <1>2, <1>4, <2>2
<1> QED
  BY <1>3, <1>4 DEF Precedence, From

LEMMA SendPrecedence ==
  ASSUME TypeOK, Precedence, NoneGoesBack, NEW p, NEW m \in Message, Msgsnd(p, m),
         \A s \in Subscribers :
           /\ From(m, s, "SUBSCRIBE") => pc[s] \in {"off", "subscribe"}
           /\ From(m, s, "UNSUBSCRIBE") => pc'[s] \notin {"off", "subscribe"}
  PROVE  Precedence'
<1> DEFINE n == Len(queue)
<1>1. /\ DOMAIN queue = 1 .. n /\ DOMAIN queue' = (1 .. n) \cup {n + 1} /\ n \in Nat
      /\ queue'[n + 1] = m
      /\ \A j \in 1 .. n : queue'[j] = queue[j]
  BY SendIs
<1> HIDE DEF n
<1>2. ASSUME NEW s \in Subscribers, pc'[s] \in {"off", "subscribe"}, NEW k \in DOMAIN queue'
      PROVE  ~From(queue'[k], s, "UNSUBSCRIBE")
  <2>1. CASE k \in 1 .. n
    BY <1>1, <1>2, <2>1 DEF Precedence, NoneGoesBack
  <2>2. CASE k = n + 1
    BY <1>1, <1>2, <2>2
  <2> QED
    BY <1>1, <2>1, <2>2
<1>3. ASSUME NEW s \in Subscribers, NEW j \in DOMAIN queue', NEW k \in DOMAIN queue',
             From(queue'[j], s, "SUBSCRIBE"), From(queue'[k], s, "UNSUBSCRIBE")
      PROVE  j < k
  <2>1. CASE j \in 1 .. n /\ k \in 1 .. n
    BY <1>1, <1>3, <2>1 DEF Precedence
  <2>2. CASE j \in 1 .. n /\ k = n + 1
    BY <1>1, <2>2
  <2>3. CASE j = n + 1 /\ k \in 1 .. n
    <3>1. pc[s] \in {"off", "subscribe"} /\ From(queue[k], s, "UNSUBSCRIBE")
      BY <1>1, <1>3, <2>3
    <3> QED
      BY <1>1, <2>3, <3>1 DEF Precedence
  <2>4. CASE j = n + 1 /\ k = n + 1
    BY <1>1, <1>3, <2>4 DEF From
  <2> QED
    BY <1>1, <2>1, <2>2, <2>3, <2>4
<1> QED
  BY <1>2, <1>3 DEF Precedence, From

-----------------------------------------------------------------------------
(* Messages are of their kinds. *)

LEMMA MessagesKept ==
  ASSUME TypeOK, Messages, got' = got, NEW p, NEW t,
         queue' = queue \/ queue' = <<>> \/ Msgrcv(p, t)
         \/ \E m \in Message : Msgsnd(p, m) /\ Proper(m)
  PROVE  Messages'
<1>1. \A k \in DOMAIN queue' : Proper(queue'[k])
  <2>1. CASE queue' = queue
    BY <2>1 DEF Messages
  <2>2. CASE queue' = <<>>
    BY <2>2
  <2>3. CASE Msgrcv(p, t)
    <3> DEFINE k0 == First(t)
               n == Len(queue)
    <3>1. /\ k0 \in 1 .. n /\ DOMAIN queue = 1 .. n /\ DOMAIN queue' = 1 .. n - 1 /\ n \in Nat
          /\ \A j \in DOMAIN queue' : queue'[j] = queue[Up(k0, j)]
      BY <2>3, ReceiveIs
    <3> HIDE DEF k0, n
    <3>2. \A j \in 1 .. n - 1 : Up(k0, j) \in 1 .. n
      BY <3>1, UpIs
    <3> QED
      BY <3>1, <3>2 DEF Messages
  <2>4. ASSUME NEW m \in Message, Msgsnd(p, m), Proper(m)
        PROVE  \A k \in DOMAIN queue' : Proper(queue'[k])
    <3> DEFINE n == Len(queue)
    <3>1. /\ DOMAIN queue = 1 .. n /\ DOMAIN queue' = (1 .. n) \cup {n + 1}
          /\ queue'[n + 1] = m
          /\ \A j \in 1 .. n : queue'[j] = queue[j]
      BY <2>4, SendIs
    <3> QED
      BY <2>4, <3>1 DEF Messages
  <2> QED
    BY <2>1, <2>2, <2>3, <2>4
<1> QED
  BY <1>1 DEF Messages, Proper, Data

LEMMA DeliverMessages ==
  ASSUME TypeOK, Messages, NEW s0 \in Subscribers, Deliver(s0),
         Delivery(Received(s0), s0), Proper(Received(s0))
  PROVE  Messages'
<1> DEFINE m == Received(s0)
           k0 == First(s0)
           n == Len(queue)
           L == Len(got[s0])
<1>1. /\ k0 \in 1 .. n /\ DOMAIN queue = 1 .. n /\ DOMAIN queue' = 1 .. n - 1 /\ n \in Nat
      /\ \A j \in DOMAIN queue' : queue'[j] = queue[Up(k0, j)]
      /\ m \in Message
  BY ReceiveIs DEF Deliver, OwnType
<1>2. got' = [got EXCEPT ![s0] = Append(got[s0], m)] /\ got \in [Subscribers -> Seq(Message)]
  BY DEF Deliver, OwnType, TypeOK
<1> HIDE DEF k0, n, m
<1>3. /\ \A s \in Subscribers \ {s0} : got'[s] = got[s]
      /\ DOMAIN got[s0] = 1 .. L /\ DOMAIN got'[s0] = (1 .. L) \cup {L + 1}
      /\ \A i \in 1 .. L : got'[s0][i] = got[s0][i]
      /\ got'[s0][L + 1] = m
  BY <1>1, <1>2, AppendProperties
<1> HIDE DEF L
<1>4. \A j \in 1 .. n - 1 : Up(k0, j) \in 1 .. n
  BY <1>1, UpIs
<1>5. \A k \in DOMAIN queue' : Proper(queue'[k])
  BY <1>1, <1>4 DEF Messages
<1>6. m.mtype = s0 /\ Data(m) /\ Proper(m)
  BY DEF m, Delivery
<1>7. ASSUME NEW s \in Subscribers, NEW k \in DOMAIN got'[s]
      PROVE  got'[s][k].mtype = s /\ Data(got'[s][k]) /\ Proper(got'[s][k])
  <2>1. CASE s # s0
    BY <1>3, <2>1 DEF Messages
  <2>2. CASE s = s0
    <3>1. CASE k \in 1 .. L
      BY <1>3, <2>2, <3>1 DEF Messages
    <3>2. CASE k = L + 1
      BY <1>3, <1>6, <2>2, <3>2
    <3> QED
      BY <1>3, <2>2, <3>1, <3>2
  <2> QED
    BY <2>1, <2>2
<1> QED
  BY <1>5, <1>7 DEF Messages, Proper, Data

-----------------------------------------------------------------------------
(* Where the processes are. *)

(* One process moves, to a place of its kind; the table keeps its entries  *)
(* or loses some, and the loop does not get ahead.                         *)
Kind(p, l) ==
  /\ p \in Brokers => l \in {"off", "receive", "fan", "remove"} \cup Ended
  /\ p \in Providers => l \in {"off", "send"} \cup Ended
  /\ p \in Subscribers => l \in {"off", "subscribe", "receive", "unsubscribe"} \cup Ended

LEMMA ProcessesKept ==
  ASSUME TypeOK, Processes, NEW p \in Proc,
         pc' \in [Proc -> Labels], \A q \in Proc \ {p} : pc'[q] = pc[q] /\ next'[q] = next[q],
         Kind(p, pc'[p]),
         p \in Providers => next'[p] >= 1,
         p \in Subscribers /\ pc'[p] \in {"off", "receive", "done"} => next'[p] = 1,
         p \in Brokers /\ pc'[p] \notin Ended \cup {"off"}
           => \A b \in Brokers \ {p} : ~Running(b),
         \A i \in DOMAIN subs' : subs'[i].topic \in ToSet(TopicsOf[subs'[i].pid]),
         to' # {} => /\ pc[p] = "fan" => pc'[p] = "fan"
                     /\ LoopBehind
  PROVE  Processes'
<1>0. /\ \A b \in Brokers : b \in Proc /\ b \notin Providers /\ b \notin Subscribers
      /\ \A b \in Providers : b \in Proc
      /\ \A b \in Subscribers : b \in Proc
  BY Kinds
<1>1. \A b \in Brokers : pc'[b] \in {"off", "receive", "fan", "remove"} \cup Ended
  BY <1>0 DEF Processes, Kind
<1>2. \A q \in Providers : pc'[q] \in {"off", "send"} \cup Ended /\ next'[q] >= 1
  BY <1>0 DEF Processes, Kind
<1>3. \A s \in Subscribers : pc'[s] \in {"off", "subscribe", "receive", "unsubscribe"} \cup Ended
  BY <1>0 DEF Processes, Kind
<1>4. \A s \in Subscribers : pc'[s] \in {"off", "receive", "done"} => next'[s] = 1
  BY <1>0 DEF Processes
<1>5. \A a, b \in Brokers : pc'[a] \notin Ended \cup {"off"} /\ pc'[b] \notin Ended \cup {"off"} => a = b
  BY <1>0 DEF Processes, Running
<1>6. ASSUME to' # {}
      PROVE  /\ \E b \in Brokers : pc'[b] = "fan"
             /\ msg' \in Message /\ Request(msg') /\ Proper(msg')
             /\ \A i \in to' : subs'[i].topic = msg'.topic
  <2>1. to # {} /\ to' \subseteq to /\ msg' = msg /\ \A i \in to' : subs'[i] = subs[i]
    BY <1>6 DEF LoopBehind
  <2>2. PICK b \in Brokers : pc[b] = "fan"
    BY <2>1 DEF Processes
  <2>3. pc'[b] = "fan"
    BY <1>0, <1>6, <2>2
  <2> QED
    BY <2>1, <2>3 DEF Processes
<1> QED
  BY <1>1, <1>2, <1>3, <1>4, <1>5, <1>6 DEF Processes, Running, Request, Proper, Data

LEMMA IdleLoop ==
  ASSUME Processes, NEW b \in Brokers, pc[b] \in {"receive", "remove"}
  PROVE  to = {}
<1>1. Running(b) /\ \A a \in Brokers : pc[a] = "fan" => Running(a)
  BY DEF Running, Ended
<1>2. \A a \in Brokers : pc[a] # "fan"
  BY <1>1 DEF Processes
<1> QED
  BY <1>2 DEF Processes

-----------------------------------------------------------------------------
(* The steps. *)

LEMMA BrokerLoopIs ==
  ASSUME PcTypes, NEW b \in Proc, stop' = stop, BrokerLoop(b)
  PROVE  PcTypes' /\ pc'[b] \in {"receive", "remove"} /\ \A q \in Proc \ {b} : pc'[q] = pc[q]
<1>1. PICK l \in {"receive", "remove"} : Goto(b, l)
  BY DEF BrokerLoop
<1>2. l \in Labels
  BY DEF Labels
<1> QED
  BY <1>1, <1>2, GotoKeeps

LEMMA BrokerReceiveStep ==
  ASSUME IInv, NEW b \in Brokers, BrokerReceive(b)
  PROVE  IInv'
<1> DEFINE m == Received(ToBroker)
<1>1. /\ TypeOK /\ Messages /\ Processes /\ Numbers /\ Order
      /\ AskedEnough /\ Balance /\ Precedence
      /\ QueueTypes /\ IdTypes /\ PcTypes /\ NextTypes /\ TableTypes /\ OtherTypes
      /\ subs \in Seq(Subscription)
  BY TypeParts DEF IInv, TypeOK
<1>2. /\ b \in Proc /\ pc[b] = "receive" /\ Msgrcv(b, ToBroker)
      /\ live' = live /\ created' = created /\ msqid' = msqid /\ stop' = stop /\ next' = next
      /\ signals' = signals /\ kills' = kills /\ got' = got /\ lost' = lost
  BY Kinds DEF BrokerReceive, bounds, history
<1>3. \/ /\ m.action = "SUBSCRIBE" /\ subs' = add_subscription(m.pid, m.topic)
         /\ BrokerLoop(b) /\ to' = to /\ msg' = msg
      \/ /\ m.action = "UNSUBSCRIBE" /\ subs' = remove_subscription(m.pid, m.topic)
         /\ BrokerLoop(b) /\ to' = to /\ msg' = msg
      \/ /\ m.action = "SEND" /\ to' = Receivers(m.topic) /\ msg' = m
         /\ Goto(b, "fan") /\ subs' = subs
  BY DEF BrokerReceive
<1>4. /\ m \in Message /\ m.mtype = ToBroker
      /\ queue' \in Seq(Message) /\ Len(queue') <= Capacity
  BY <1>1, <1>2, ReceiveIs
<1>5. Proper(m)
  <2>1. First(ToBroker) \in DOMAIN queue
    BY <1>1, <1>2, ReceiveIs
  <2> QED
    BY <1>1, <2>1 DEF Received, Messages
<1> HIDE DEF m
<1>6. to = {}
  BY <1>1, <1>2, IdleLoop
<1>7. /\ PcTypes' /\ \A q \in Proc \ {b} : pc'[q] = pc[q]
      /\ pc'[b] \in {"receive", "remove", "fan"}
  BY <1>1, <1>2, <1>3, BrokerLoopIs, GotoKeeps DEF Labels
<1>8. StandStill /\ NoneGoesBack
  BY <1>2, <1>7, Kinds DEF StandStill, NoneGoesBack
<1>9. Precedence' /\ Messages'
  BY <1>1, <1>2, <1>8, ReceivePrecedence, MessagesKept
<1>10. QueueTypes' /\ IdTypes' /\ NextTypes' /\ OtherTypes'
  BY <1>1, <1>2, <1>4 DEF QueueTypes, IdTypes, NextTypes, OtherTypes
<1>11. \A a \in Brokers \ {b} : ~Running(a)
  <2>1. Running(b)
    BY <1>2 DEF Running, Ended
  <2> QED
    BY <1>1, <2>1 DEF Processes
<1>12. /\ Kind(b, pc'[b]) /\ b \notin Providers /\ b \notin Subscribers
       /\ pc' \in [Proc -> Labels]
  BY <1>7, Kinds DEF Kind, PcTypes
<1>13. ASSUME to' = {}, NEW f, DataFrom(f)
       PROVE  Numbers' /\ Order'
  <2>1. LoopBehind /\ CountersGrow
    BY <1>1, <1>2, <1>6, <1>13, Kinds DEF LoopBehind, CountersGrow, TypeOK
  <2> QED
    BY <1>1, <1>2, <1>13, <2>1, NumbersKept, OrderKept
<1>14. ASSUME m.action \in {"SUBSCRIBE", "UNSUBSCRIBE"}, to' = to
       PROVE  Numbers' /\ Order'
  BY <1>1, <1>2, <1>6, <1>13, <1>14, ReceiveData
<1>15. ASSUME to' = {}, \A i \in DOMAIN subs' : subs'[i].topic \in ToSet(TopicsOf[subs'[i].pid])
       PROVE  Processes'
  BY <1>1, <1>2, <1>7, <1>11, <1>12, <1>15, ProcessesKept
<1>16. \A i \in DOMAIN subs : subs[i].topic \in ToSet(TopicsOf[subs[i].pid])
  BY <1>1 DEF Processes
<1>17. m.topic \in Topics
  BY <1>4 DEF Message
<1>18. ASSUME m.action \in {"SUBSCRIBE", "UNSUBSCRIBE"}
       PROVE  m.pid \in Subscribers /\ m.topic \in ToSet(TopicsOf[m.pid])
  BY <1>5, <1>18 DEF Proper, Data
<1>19. CASE m.action = "SUBSCRIBE" /\ subs' = add_subscription(m.pid, m.topic)
            /\ BrokerLoop(b) /\ to' = to /\ msg' = msg
  <2> DEFINE e == [pid |-> m.pid, topic |-> m.topic]
  <2>1. e \in Subscription /\ subs' = Append(subs, e)
    BY <1>17, <1>18, <1>19 DEF Subscription, add_subscription
  <2>2. /\ subs' \in Seq(Subscription) /\ DOMAIN subs' = DOMAIN subs \cup {Len(subs) + 1}
        /\ subs'[Len(subs) + 1] = e /\ \A i \in DOMAIN subs : subs'[i] = subs[i]
    BY <1>1, <2>1, AppendProperties
  <2>3. TableTypes'
    BY <1>1, <1>6, <1>19, <2>2 DEF TableTypes
  <2>4. \A i \in DOMAIN subs' : subs'[i].topic \in ToSet(TopicsOf[subs'[i].pid])
    BY <1>16, <1>18, <1>19, <2>2
  <2>5. Processes' /\ Numbers' /\ Order'
    BY <1>6, <1>14, <1>15, <1>19, <2>4
  <2>6. AskedEnough' /\ Balance'
    <3>1. \A s \in Subscribers, t \in Topics :
            InForce(s, t)' = InForce(s, t) /\ Revoked(s, t)' = Revoked(s, t)
      BY <1>1, <1>2, <1>17, <1>18, <1>19, SubscribeSums DEF m
    <3> QED
      BY <1>1, <1>8, <3>1, SumsKept
  <2> QED
    BY <1>7, <1>9, <1>10, <2>3, <2>5, <2>6, TypeParts DEF IInv
<1>20. CASE m.action = "UNSUBSCRIBE" /\ subs' = remove_subscription(m.pid, m.topic)
            /\ BrokerLoop(b) /\ to' = to /\ msg' = msg
  <2>1. /\ subs' \in Seq(Subscription)
        /\ \A i \in DOMAIN subs' : \E j \in DOMAIN subs : subs'[i] = subs[j]
    BY <1>1, <1>20, RemoveKeeps
  <2>2. TableTypes'
    BY <1>1, <1>6, <1>20, <2>1 DEF TableTypes
  <2>3. \A i \in DOMAIN subs' : subs'[i].topic \in ToSet(TopicsOf[subs'[i].pid])
    BY <1>16, <2>1
  <2>4. Processes' /\ Numbers' /\ Order'
    BY <1>6, <1>14, <1>15, <1>20, <2>3
  <2>5. AskedEnough' /\ Balance'
    BY <1>1, <1>2, <1>8, <1>17, <1>18, <1>20, UnsubscribeSums DEF m
  <2> QED
    BY <1>7, <1>9, <1>10, <2>2, <2>4, <2>5, TypeParts DEF IInv
<1>21. CASE m.action = "SEND" /\ to' = Receivers(m.topic) /\ msg' = m
            /\ Goto(b, "fan") /\ subs' = subs
  <2>1. TableTypes'
    BY <1>1, <1>4, <1>21 DEF TableTypes, Receivers
  <2>2. Data(m) /\ Request(m)
    BY <1>4, <1>21 DEF Data, Request
  <2>3. Numbers' /\ Order'
    BY <1>1, <1>2, <1>21, <2>2, TakeOrder DEF m
  <2>4. AskedEnough' /\ Balance'
    <3>1. \A s \in Subscribers, t \in Topics :
            InForce(s, t)' = InForce(s, t) /\ Revoked(s, t)' = Revoked(s, t)
      BY <1>1, <1>2, <1>4, <1>21, <2>2, DataSums DEF m
    <3> QED
      BY <1>1, <1>8, <3>1, SumsKept
  <2>5. Processes'
    <3>1. pc'[b] = "fan"
      BY <1>1, <1>2, <1>21, GotoKeeps DEF Labels
    <3>2. \A i \in to' : subs'[i].topic = msg'.topic
      BY <1>21 DEF Receivers
    <3>3. /\ \A a \in Brokers : pc'[a] \in {"off", "receive", "fan", "remove"} \cup Ended
          /\ \A p \in Providers : pc'[p] \in {"off", "send"} \cup Ended /\ next'[p] >= 1
          /\ \A s \in Subscribers : /\ pc'[s] \in {"off", "subscribe", "receive", "unsubscribe"} \cup Ended
                                    /\ pc'[s] \in {"off", "receive", "done"} => next'[s] = 1
      BY <1>1, <1>2, <1>7, <3>1, Kinds DEF Processes
    <3>4. \A a, c \in Brokers : pc'[a] \notin Ended \cup {"off"} /\ pc'[c] \notin Ended \cup {"off"} => a = c
      BY <1>7, <1>11, Kinds DEF Running
    <3>5. \A i \in DOMAIN subs' : subs'[i].topic \in ToSet(TopicsOf[subs'[i].pid])
      BY <1>16, <1>21
    <3>6. /\ \E a \in Brokers : pc'[a] = "fan"
          /\ msg' \in Message /\ Request(msg') /\ Proper(msg')
      BY <1>4, <1>5, <1>21, <2>2, <3>1
    <3> QED
      BY <3>2, <3>3, <3>4, <3>5, <3>6 DEF Processes, Running, Request, Proper, Data
  <2> QED
    BY <1>7, <1>9, <1>10, <2>1, <2>3, <2>4, <2>5, TypeParts DEF IInv
<1> QED
  BY <1>3, <1>19, <1>20, <1>21

LEMMA ForwardStep ==
  ASSUME IInv, NEW b \in Brokers, Forward(b)
  PROVE  IInv'
<1>1. /\ TypeOK /\ Messages /\ Processes /\ Numbers /\ Order
      /\ AskedEnough /\ Balance /\ Precedence
      /\ QueueTypes /\ IdTypes /\ PcTypes /\ NextTypes /\ TableTypes /\ OtherTypes
  BY TypeParts DEF IInv
<1>2. /\ b \in Proc /\ pc[b] = "fan" /\ to # {} /\ to' = to \ {NextReceiver}
      /\ live' = live /\ created' = created /\ msqid' = msqid /\ pc' = pc /\ stop' = stop
      /\ next' = next /\ subs' = subs /\ msg' = msg
      /\ signals' = signals /\ kills' = kills /\ got' = got /\ lost' = lost
  BY Kinds DEF Forward, bounds, history
<1>3. PICK m \in Message : Msgsnd(b, m) /\ Proper(m) /\ Data(m)
  BY <1>1, ForwardIs DEF Delivery
<1>4. queue' \in Seq(Message) /\ Len(queue') <= Capacity
  BY <1>1, <1>3, SendIs
<1>5. QueueTypes' /\ IdTypes' /\ PcTypes' /\ NextTypes' /\ TableTypes' /\ OtherTypes'
  <2>1. QueueTypes' /\ IdTypes' /\ PcTypes' /\ NextTypes' /\ OtherTypes'
    BY <1>1, <1>2, <1>4 DEF QueueTypes, IdTypes, PcTypes, NextTypes, OtherTypes
  <2>2. TableTypes'
    BY <1>1, <1>2 DEF TableTypes
  <2> QED
    BY <2>1, <2>2
<1>6. StandStill /\ NoneGoesBack
  BY <1>2 DEF StandStill, NoneGoesBack
<1>7. Precedence' /\ Messages'
  <2>1. \A s \in Subscribers : ~From(m, s, "SUBSCRIBE") /\ ~From(m, s, "UNSUBSCRIBE")
    BY <1>3 DEF From, Data
  <2> QED
    BY <1>1, <1>2, <1>3, <1>6, <2>1, SendPrecedence, MessagesKept
<1>8. Numbers' /\ Order'
  BY <1>1, ForwardOrder
<1>9. AskedEnough' /\ Balance'
  <2>1. \A s \in Subscribers, t \in Topics :
          InForce(s, t)' = InForce(s, t) /\ Revoked(s, t)' = Revoked(s, t)
    BY <1>1, <1>2, <1>3, DataSums
  <2> QED
    BY <1>1, <1>6, <2>1, SumsKept
<1>10. Processes'
  BY <1>1, <1>2 DEF Processes, Running, Request, Proper, Data
<1> QED
  BY <1>5, <1>7, <1>8, <1>9, <1>10, TypeParts DEF IInv

LEMMA ForwardedStep ==
  ASSUME IInv, NEW b \in Brokers, Forwarded(b)
  PROVE  IInv'
<1>1. /\ TypeOK /\ Messages /\ Processes /\ Numbers /\ Order
      /\ AskedEnough /\ Balance /\ Precedence
      /\ QueueTypes /\ IdTypes /\ PcTypes /\ NextTypes /\ TableTypes /\ OtherTypes
  BY TypeParts DEF IInv
<1>2. /\ b \in Proc /\ pc[b] = "fan" /\ to = {} /\ to' = to /\ BrokerLoop(b) /\ msg' = NoMsg
      /\ queue' = queue /\ live' = live /\ created' = created /\ msqid' = msqid /\ stop' = stop
      /\ next' = next /\ subs' = subs
      /\ signals' = signals /\ kills' = kills /\ got' = got /\ lost' = lost
  BY Kinds DEF Forwarded, kernel, bounds, history
<1>3. PcTypes' /\ pc'[b] \in {"receive", "remove"} /\ \A q \in Proc \ {b} : pc'[q] = pc[q]
  BY <1>1, <1>2, BrokerLoopIs
<1>4. QueueTypes' /\ IdTypes' /\ NextTypes' /\ TableTypes' /\ OtherTypes'
  BY <1>1, <1>2 DEF QueueTypes, IdTypes, NextTypes, TableTypes, OtherTypes
<1>5. StandStill /\ NoneGoesBack /\ LoopBehind /\ CountersGrow
  <2>1. StandStill /\ NoneGoesBack
    BY <1>2, <1>3, Kinds DEF StandStill, NoneGoesBack
  <2>2. LoopBehind /\ CountersGrow
    BY <1>1, <1>2, Kinds DEF LoopBehind, CountersGrow, NextTypes
  <2> QED
    BY <2>1, <2>2
<1>6. Precedence' /\ Messages'
  BY <1>1, <1>2, <1>5, PrecedenceKept, MessagesKept
<1>7. Numbers' /\ Order'
  BY <1>1, <1>2, <1>5, QueueKeptData, NumbersKept, OrderKept
<1>8. AskedEnough' /\ Balance'
  <2>1. \A s \in Subscribers, t \in Topics :
          InForce(s, t)' = InForce(s, t) /\ Revoked(s, t)' = Revoked(s, t)
    BY <1>2 DEF InForce, Revoked
  <2> QED
    BY <1>1, <1>5, <2>1, SumsKept
<1>9. Processes'
  <2>1. \A a \in Brokers \ {b} : ~Running(a)
    <3>1. Running(b)
      BY <1>2 DEF Running, Ended
    <3> QED
      BY <1>1, <3>1 DEF Processes
  <2>2. Kind(b, pc'[b]) /\ b \notin Providers /\ b \notin Subscribers /\ pc' \in [Proc -> Labels]
    BY <1>3, Kinds DEF Kind, PcTypes
  <2>3. \A i \in DOMAIN subs' : subs'[i].topic \in ToSet(TopicsOf[subs'[i].pid])
    BY <1>1, <1>2 DEF Processes
  <2> QED
    BY <1>1, <1>2, <1>3, <2>1, <2>2, <2>3, ProcessesKept
<1> QED
  BY <1>3, <1>4, <1>6, <1>7, <1>8, <1>9, TypeParts DEF IInv

(* The table goes: the broker removes the queue, or is killed. *)
LEMMA BrokerGoneStep ==
  ASSUME IInv, NEW b \in Brokers, NEW l \in Ended, Goto(b, l), stop' = stop, next' = next,
         subs' = <<>>, to' = {}, msg' = NoMsg, lost' = Forgotten, got' = got,
         queue' = queue \/ queue' = <<>>, live' \in {0, live},
         created' = created, msqid' = msqid,
         signals' = signals, kills' \in 0 .. MaxKills
  PROVE  IInv'
<1>1. /\ TypeOK /\ Messages /\ Processes /\ Numbers /\ Order
      /\ AskedEnough /\ Balance /\ Precedence
      /\ QueueTypes /\ IdTypes /\ PcTypes /\ NextTypes /\ TableTypes /\ OtherTypes
  BY TypeParts DEF IInv
<1>2. PcTypes' /\ pc'[b] = l /\ \A q \in Proc \ {b} : pc'[q] = pc[q]
  BY <1>1, Kinds, GotoKeeps DEF Labels
<1>3. QueueTypes' /\ IdTypes' /\ NextTypes' /\ TableTypes' /\ OtherTypes'
  <2>1. QueueTypes'
    <3>1. <<>> \in Seq(Message) /\ Len(<<>>) = 0 /\ Capacity \in Nat
      BY Kinds
    <3>2. CASE queue' = <<>>
      BY <3>1, <3>2 DEF QueueTypes
    <3>3. CASE queue' = queue
      BY <1>1, <3>3 DEF QueueTypes
    <3> QED
      BY <3>2, <3>3
  <2>2. IdTypes' /\ NextTypes'
    BY <1>1, Kinds DEF IdTypes, NextTypes
  <2>3. TableTypes'
    BY DEF TableTypes
  <2>4. OtherTypes'
    BY <1>1 DEF OtherTypes, Forgotten
  <2> QED
    BY <2>1, <2>2, <2>3, <2>4
<1>4. \A s \in Subscribers : pc'[s] = pc[s] /\ next'[s] = next[s]
  BY <1>2, Kinds
<1>5. NoneGoesBack /\ LoopBehind /\ CountersGrow
  BY <1>1, <1>4, Kinds DEF NoneGoesBack, LoopBehind, CountersGrow, NextTypes
<1>6. Precedence' /\ Messages'
  BY <1>1, <1>5, PrecedenceKept, MessagesKept
<1>7. Numbers' /\ Order'
  BY <1>1, <1>5, QueueKeptData, QueueEmptyData, NumbersKept, OrderKept
<1>8. AskedEnough' /\ Balance'
  BY <1>1, <1>4, TableLostSums
<1>9. Processes'
  <2>1. Kind(b, pc'[b]) /\ b \in Proc /\ b \notin Providers /\ b \notin Subscribers /\ pc' \in [Proc -> Labels]
    BY <1>2, Kinds DEF Kind, PcTypes
  <2>2. \A i \in DOMAIN subs' : subs'[i].topic \in ToSet(TopicsOf[subs'[i].pid])
    OBVIOUS
  <2> QED
    BY <1>1, <1>2, <2>1, <2>2, ProcessesKept
<1> QED
  BY <1>2, <1>3, <1>6, <1>7, <1>8, <1>9, TypeParts DEF IInv

LEMMA PublishStep ==
  ASSUME IInv, NEW p \in Providers, Publish(p)
  PROVE  IInv'
<1>1. /\ TypeOK /\ Messages /\ Processes /\ Numbers /\ Order
      /\ AskedEnough /\ Balance /\ Precedence
      /\ QueueTypes /\ IdTypes /\ PcTypes /\ NextTypes /\ TableTypes /\ OtherTypes
  BY TypeParts DEF IInv
<1>2. /\ p \in Proc /\ pc[p] = "send" /\ Goto(p, IF stop[p] THEN "done" ELSE "send")
      /\ live' = live /\ created' = created /\ msqid' = msqid /\ stop' = stop
      /\ subs' = subs /\ to' = to /\ msg' = msg
      /\ signals' = signals /\ kills' = kills /\ got' = got /\ lost' = lost
      /\ p \notin Brokers /\ p \notin Subscribers
  BY Kinds DEF Publish, table, bounds, history
<1>3. PICK m \in Message : /\ Msgsnd(p, m) /\ Request(m) /\ Proper(m)
                           /\ next[p] \in Nat /\ next' = [next EXCEPT ![p] = next[p] + 1]
  BY <1>1, PublishIs
<1>4. queue' \in Seq(Message) /\ Len(queue') <= Capacity
  BY <1>1, <1>3, SendIs
<1>5. PcTypes' /\ pc'[p] \in {"done", "send"} /\ \A q \in Proc \ {p} : pc'[q] = pc[q]
  <2>1. PICK l \in {"done", "send"} : Goto(p, l)
    BY <1>2
  <2>2. l \in Labels
    BY DEF Labels, Ended
  <2> QED
    BY <1>1, <1>2, <2>1, <2>2, GotoKeeps
<1>6. next' \in [Proc -> Nat] /\ next'[p] = next[p] + 1 /\ \A q \in Proc \ {p} : next'[q] = next[q]
  BY <1>1, <1>2, <1>3 DEF NextTypes
<1>7. QueueTypes' /\ IdTypes' /\ NextTypes' /\ TableTypes' /\ OtherTypes'
  <2>1. NextTypes'
    BY <1>1, <1>2, <1>6, Kinds DEF NextTypes
  <2> QED
    BY <1>1, <1>2, <1>4, <2>1 DEF QueueTypes, IdTypes, TableTypes, OtherTypes
<1>8. StandStill /\ NoneGoesBack
  BY <1>2, <1>5, <1>6, Kinds DEF StandStill, NoneGoesBack
<1>9. Precedence' /\ Messages'
  <2>1. \A s \in Subscribers : ~From(m, s, "SUBSCRIBE") /\ ~From(m, s, "UNSUBSCRIBE")
    BY <1>3 DEF From, Request, Data
  <2> QED
    BY <1>1, <1>2, <1>3, <1>8, <2>1, SendPrecedence, MessagesKept
<1>10. Numbers' /\ Order'
  BY <1>1, PublishOrder
<1>11. AskedEnough' /\ Balance'
  <2>1. \A s \in Subscribers, t \in Topics :
          InForce(s, t)' = InForce(s, t) /\ Revoked(s, t)' = Revoked(s, t)
    BY <1>1, <1>2, <1>3, DataSums DEF Request
  <2> QED
    BY <1>1, <1>8, <2>1, SumsKept
<1>12. Processes'
  <2>1. Kind(p, pc'[p]) /\ pc' \in [Proc -> Labels] /\ next'[p] >= 1
    BY <1>2, <1>3, <1>5, <1>6, Kinds DEF Kind, PcTypes, Ended
  <2>2. \A i \in DOMAIN subs' : subs'[i].topic \in ToSet(TopicsOf[subs'[i].pid])
    BY <1>1, <1>2 DEF Processes
  <2>3. LoopBehind
    BY <1>2 DEF LoopBehind
  <2> QED
    BY <1>1, <1>2, <1>5, <1>6, <2>1, <2>2, <2>3, ProcessesKept
<1> QED
  BY <1>5, <1>7, <1>9, <1>10, <1>11, <1>12, TypeParts DEF IInv

LEMMA AskStep ==
  ASSUME IInv, NEW s \in Subscribers, Ask(s)
  PROVE  IInv'
<1>1. /\ TypeOK /\ Messages /\ Processes /\ Numbers /\ Order
      /\ AskedEnough /\ Balance /\ Precedence
      /\ QueueTypes /\ IdTypes /\ PcTypes /\ NextTypes /\ TableTypes /\ OtherTypes
  BY TypeParts DEF IInv
<1>2. /\ s \in Proc /\ pc[s] \in {"subscribe", "unsubscribe"} /\ NextTopic(s)
      /\ live' = live /\ created' = created /\ msqid' = msqid /\ stop' = stop
      /\ subs' = subs /\ to' = to /\ msg' = msg
      /\ signals' = signals /\ kills' = kills /\ got' = got /\ lost' = lost
      /\ s \notin Brokers /\ s \notin Providers
  BY Kinds DEF Ask, table, bounds, history
<1>3. PICK m \in Message : /\ Msgsnd(s, m) /\ Proper(m) /\ ~Data(m) /\ m.pid = s
                           /\ m.action = IF pc[s] = "subscribe" THEN "SUBSCRIBE" ELSE "UNSUBSCRIBE"
  BY <1>1, AskIs
<1>4. queue' \in Seq(Message) /\ Len(queue') <= Capacity
  BY <1>1, <1>3, SendIs
<1>5. /\ NextTypes' /\ \A q \in Proc \ {s} : next'[q] = next[q] /\ pc'[q] = pc[q]
      /\ pc' \in [Proc -> Labels]
      /\ \/ pc'[s] = pc[s]
         \/ /\ next'[s] = 1
            /\ pc[s] = "subscribe" => pc'[s] \in {"receive", "unsubscribe"}
            /\ pc[s] = "unsubscribe" => pc'[s] = "done"
  BY <1>1, <1>2, NextTopicIs
<1>6. QueueTypes' /\ IdTypes' /\ PcTypes' /\ TableTypes' /\ OtherTypes'
  BY <1>1, <1>2, <1>4, <1>5 DEF QueueTypes, IdTypes, PcTypes, TableTypes, OtherTypes
<1>7. NoneGoesBack /\ LoopBehind /\ CountersGrow
  <2>1. NoneGoesBack
    BY <1>2, <1>5, Kinds DEF NoneGoesBack
  <2>2. LoopBehind
    BY <1>2 DEF LoopBehind
  <2>3. CountersGrow
    BY <1>1, <1>2, <1>5, Kinds DEF CountersGrow, NextTypes
  <2> QED
    BY <2>1, <2>2, <2>3
<1>8. Precedence' /\ Messages'
  <2>1. \A x \in Subscribers :
          /\ From(m, x, "SUBSCRIBE") => pc[x] \in {"off", "subscribe"}
          /\ From(m, x, "UNSUBSCRIBE") => pc'[x] \notin {"off", "subscribe"}
    BY <1>2, <1>3, <1>5 DEF From
  <2> QED
    BY <1>1, <1>2, <1>3, <1>7, <2>1, SendPrecedence, MessagesKept
<1>9. Numbers' /\ Order'
  BY <1>1, <1>2, <1>3, <1>7, RequestData, NumbersKept, OrderKept
<1>10. AskedEnough' /\ Balance'
  BY <1>1, AskSums
<1>11. Processes'
  <2>1. Kind(s, pc'[s])
    BY <1>2, <1>5 DEF Kind, Ended
  <2>2. \A i \in DOMAIN subs' : subs'[i].topic \in ToSet(TopicsOf[subs'[i].pid])
    BY <1>1, <1>2 DEF Processes
  <2>3. pc'[s] \in {"off", "receive", "done"} => next'[s] = 1
    BY <1>2, <1>5
  <2> QED
    BY <1>1, <1>2, <1>5, <1>7, <2>1, <2>2, <2>3, ProcessesKept
<1> QED
  BY <1>5, <1>6, <1>8, <1>9, <1>10, <1>11, TypeParts DEF IInv

(* A subscriber that receives has asked for all of its topics, one that    *)
(* leaves the loop has all of them to take back.                           *)
LEMMA LeaveSums ==
  ASSUME TypeOK, Processes, AskedEnough, Balance, NEW s0 \in Subscribers, pc[s0] = "receive",
         pc'[s0] \in {"receive", "unsubscribe"}, next' = next, lost' = lost,
         \A s \in Subscribers \ {s0} : pc'[s] = pc[s],
         \A s \in Subscribers, t \in Topics :
           InForce(s, t)' = InForce(s, t) /\ Revoked(s, t)' = Revoked(s, t)
  PROVE  AskedEnough' /\ Balance'
<1>1. ASSUME NEW s \in Subscribers, NEW t \in Topics
      PROVE  Asked(s, t)' = Asked(s, t) /\ Due(s, t)' = Due(s, t)
  <2>1. CASE s # s0
    BY <1>1, <2>1 DEF Asked, Due
  <2>2. CASE s = s0
    <3>1. next[s] = 1 /\ next'[s] = 1
      BY <1>1, <2>2 DEF Processes
    <3>2. Ahead(s, t, 1) = Places(s, t)
      BY <1>1, PlacesAre, 1 \in Nat
    <3> QED
      BY <2>2, <3>1, <3>2 DEF Asked, Due
  <2> QED
    BY <2>1, <2>2
<1>2. AskedEnough'
  BY <1>1 DEF AskedEnough
<1>3. Balance'
  <2>1. \A s \in Subscribers : pc[s] # "killed" => pc'[s] # "killed"
    OBVIOUS
  <2> QED
    BY <1>1, <2>1 DEF Balance
<1> QED
  BY <1>2, <1>3

LEMMA DeliverStep ==
  ASSUME IInv, NEW s \in Subscribers, Deliver(s)
  PROVE  IInv'
<1> DEFINE m == Received(s)
<1>1. /\ TypeOK /\ Messages /\ Processes /\ Numbers /\ Order
      /\ AskedEnough /\ Balance /\ Precedence
      /\ QueueTypes /\ IdTypes /\ PcTypes /\ NextTypes /\ TableTypes /\ OtherTypes
  BY TypeParts DEF IInv
<1>2. /\ s \in Proc /\ pc[s] = "receive" /\ Msgrcv(s, s) /\ SubscriberLoop(s)
      /\ live' = live /\ created' = created /\ msqid' = msqid /\ stop' = stop /\ next' = next
      /\ subs' = subs /\ to' = to /\ msg' = msg
      /\ signals' = signals /\ kills' = kills /\ lost' = lost
      /\ got' = [got EXCEPT ![s] = Append(got[s], m)]
      /\ s \notin Brokers /\ s \notin Providers
  BY Kinds DEF Deliver, OwnType, table, bounds
<1>3. m \in Message /\ queue' \in Seq(Message) /\ Len(queue') <= Capacity
  BY <1>1, <1>2, ReceiveIs
<1>4. Numbers' /\ Order' /\ Delivery(m, s) /\ Proper(m)
  BY <1>1, DeliverOrder
<1>5. Messages'
  BY <1>1, <1>4, DeliverMessages
<1> HIDE DEF m
<1>6. PcTypes' /\ pc'[s] \in {"receive", "unsubscribe"} /\ \A q \in Proc \ {s} : pc'[q] = pc[q]
  <2>1. PICK l \in {"receive", "unsubscribe"} : Goto(s, l)
    BY <1>2 DEF SubscriberLoop
  <2>2. l \in Labels
    BY DEF Labels
  <2> QED
    BY <1>1, <1>2, <2>1, <2>2, GotoKeeps
<1>7. QueueTypes' /\ IdTypes' /\ NextTypes' /\ TableTypes' /\ OtherTypes'
  <2>1. got' \in [Subscribers -> Seq(Message)]
    BY <1>1, <1>2, <1>3 DEF OtherTypes
  <2> QED
    BY <1>1, <1>2, <1>3, <2>1 DEF QueueTypes, IdTypes, NextTypes, TableTypes, OtherTypes
<1>8. NoneGoesBack
  BY <1>2, <1>6, Kinds DEF NoneGoesBack
<1>9. Precedence'
  BY <1>1, <1>2, <1>8, ReceivePrecedence
<1>10. AskedEnough' /\ Balance'
  <2>1. \A x \in Subscribers, t \in Topics :
          InForce(x, t)' = InForce(x, t) /\ Revoked(x, t)' = Revoked(x, t)
    BY <1>1, <1>2, <1>3, <1>4, DataSums DEF Delivery, m
  <2>2. \A x \in Subscribers \ {s} : pc'[x] = pc[x]
    BY <1>6, Kinds
  <2> QED
    BY <1>1, <1>2, <1>6, <2>1, <2>2, LeaveSums
<1>11. Processes'
  <2>1. Kind(s, pc'[s]) /\ pc' \in [Proc -> Labels]
    BY <1>2, <1>6 DEF Kind, PcTypes
  <2>2. \A i \in DOMAIN subs' : subs'[i].topic \in ToSet(TopicsOf[subs'[i].pid])
    BY <1>1, <1>2 DEF Processes
  <2>3. LoopBehind /\ next'[s] = 1
    BY <1>1, <1>2 DEF LoopBehind, Processes
  <2> QED
    BY <1>1, <1>2, <1>6, <2>1, <2>2, <2>3, ProcessesKept
<1> QED
  BY <1>4, <1>5, <1>6, <1>7, <1>9, <1>10, <1>11, TypeParts DEF IInv

(* Steps that touch neither the queue nor the table. *)
LEMMA QuietStep ==
  ASSUME IInv, NEW p \in Proc, queue' = queue, subs' = subs, msg' = msg, got' = got,
         to' \subseteq to, IdTypes', NextTypes', lost' \subseteq Subscribers,
         signals' \in 0 .. MaxSignals, kills' \in 0 .. MaxKills, stop' \in [Proc -> BOOLEAN],
         pc' \in [Proc -> Labels], \A q \in Proc \ {p} : pc'[q] = pc[q] /\ next'[q] = next[q],
         Kind(p, pc'[p]), pc'[p] \in {"off", "subscribe"} => pc[p] \in {"off", "subscribe"},
         pc[p] = "fan" => pc'[p] = "fan",
         p \in Providers => next'[p] = next[p],
         p \in Subscribers /\ pc'[p] \in {"off", "receive", "done"} => next'[p] = 1,
         p \in Brokers /\ pc'[p] \notin Ended \cup {"off"}
           => \A b \in Brokers \ {p} : ~Running(b),
         AskedEnough' /\ Balance'
  PROVE  IInv'
<1>1. /\ TypeOK /\ Messages /\ Processes /\ Numbers /\ Order /\ Precedence
      /\ QueueTypes /\ PcTypes /\ NextTypes /\ TableTypes /\ OtherTypes
  BY TypeParts DEF IInv
<1>2. QueueTypes' /\ PcTypes' /\ TableTypes' /\ OtherTypes'
  BY <1>1 DEF QueueTypes, PcTypes, TableTypes, OtherTypes
<1>3. NoneGoesBack /\ LoopBehind /\ CountersGrow
  <2>1. NoneGoesBack
    BY Kinds DEF NoneGoesBack
  <2>2. LoopBehind
    BY DEF LoopBehind
  <2>3. CountersGrow
    BY <1>1, Kinds DEF CountersGrow, NextTypes
  <2> QED
    BY <2>1, <2>2, <2>3
<1>4. Precedence' /\ Messages'
  BY <1>1, <1>3, PrecedenceKept, MessagesKept
<1>5. Numbers' /\ Order'
  BY <1>1, <1>3, QueueKeptData, NumbersKept, OrderKept
<1>6. Processes'
  <2>1. \A i \in DOMAIN subs' : subs'[i].topic \in ToSet(TopicsOf[subs'[i].pid])
    BY <1>1 DEF Processes
  <2>2. p \in Providers => next'[p] >= 1
    BY <1>1 DEF Processes
  <2> QED
    BY <1>1, <1>3, <2>1, <2>2, ProcessesKept
<1> QED
  BY <1>2, <1>4, <1>5, <1>6, TypeParts DEF IInv

LEMMA QuietSums ==
  ASSUME TypeOK, AskedEnough, Balance, queue' = queue, subs' = subs, StandStill
  PROVE  AskedEnough' /\ Balance'
<1>1. \A s \in Subscribers, t \in Topics :
        InForce(s, t)' = InForce(s, t) /\ Revoked(s, t)' = Revoked(s, t)
  BY DEF InForce, Revoked
<1> QED
  BY <1>1, SumsKept

(* A call that fails: the queue is gone, or a signal came. *)
LEMMA CallFailsStep ==
  ASSUME IInv, NEW p \in Proc, CallFails(p), queue' = queue, subs' = subs, msg' = msg,
         got' = got, live' = live, created' = created, msqid' = msqid,
         signals' \in 0 .. MaxSignals, kills' = kills, stop' \in [Proc -> BOOLEAN]
  PROVE  IInv'
<1>1. /\ TypeOK /\ Processes /\ AskedEnough /\ Balance
      /\ IdTypes /\ PcTypes /\ NextTypes /\ OtherTypes
      /\ pc \in [Proc -> Labels] /\ lost \subseteq Subscribers
  BY TypeParts DEF IInv, PcTypes, OtherTypes
<1>2. IdTypes' /\ kills' \in 0 .. MaxKills
  BY <1>1 DEF IdTypes, OtherTypes
<1>3. CASE p \in Brokers /\ pc[p] = "receive" /\ Goto(p, "remove")
           /\ next' = next /\ to' = to /\ lost' = lost
  <2>1. /\ pc' \in [Proc -> Labels] /\ pc'[p] = "remove" /\ \A q \in Proc \ {p} : pc'[q] = pc[q]
    BY <1>1, <1>3 DEF Goto, Labels
  <2>2. StandStill /\ p \notin Providers /\ p \notin Subscribers /\ Kind(p, pc'[p])
    BY <1>3, <2>1, Kinds DEF StandStill, Kind
  <2>3. \A b \in Brokers \ {p} : ~Running(b)
    <3>1. Running(p)
      BY <1>3 DEF Running, Ended
    <3> QED
      BY <1>1, <1>3, <3>1 DEF Processes
  <2>4. AskedEnough' /\ Balance'
    BY <1>1, <2>2, QuietSums
  <2>5. NextTypes'
    BY <1>1, <1>3 DEF NextTypes
  <2> QED
    BY <1>1, <1>2, <1>3, <2>1, <2>2, <2>3, <2>4, <2>5, QuietStep
<1>4. CASE p \in Brokers /\ pc[p] = "fan" /\ to # {} /\ to' = to \ {NextReceiver}
           /\ pc' = pc /\ next' = next /\ lost' = lost
  <2>1. StandStill /\ p \notin Providers /\ p \notin Subscribers /\ Kind(p, pc'[p])
    BY <1>4, Kinds DEF StandStill, Kind
  <2>2. \A b \in Brokers \ {p} : ~Running(b)
    <3>1. Running(p)
      BY <1>4 DEF Running, Ended
    <3> QED
      BY <1>1, <1>4, <3>1 DEF Processes
  <2>3. AskedEnough' /\ Balance'
    BY <1>1, <2>1, QuietSums
  <2>4. NextTypes'
    BY <1>1, <1>4 DEF NextTypes
  <2> QED
    BY <1>1, <1>2, <1>4, <2>1, <2>2, <2>3, <2>4, QuietStep
<1>5. CASE p \in Providers /\ pc[p] = "send" /\ Goto(p, "done")
           /\ next' = next /\ to' = to /\ lost' = lost
  <2>1. /\ pc' \in [Proc -> Labels] /\ pc'[p] = "done" /\ \A q \in Proc \ {p} : pc'[q] = pc[q]
    BY <1>1, <1>5 DEF Goto, Labels, Ended
  <2>2. StandStill /\ p \notin Brokers /\ p \notin Subscribers /\ Kind(p, pc'[p])
    BY <1>5, <2>1, Kinds DEF StandStill, Kind, Ended
  <2>3. AskedEnough' /\ Balance'
    BY <1>1, <2>2, QuietSums
  <2>4. NextTypes'
    BY <1>1, <1>5 DEF NextTypes
  <2> QED
    BY <1>1, <1>2, <1>5, <2>1, <2>2, <2>3, <2>4, QuietStep
<1>6. CASE p \in Subscribers /\ pc[p] = "receive" /\ Goto(p, "unsubscribe")
           /\ next' = next /\ lost' = lost /\ to' = to
  <2>1. /\ pc' \in [Proc -> Labels] /\ pc'[p] = "unsubscribe" /\ \A q \in Proc \ {p} : pc'[q] = pc[q]
    BY <1>1, <1>6 DEF Goto, Labels
  <2>2. p \notin Brokers /\ p \notin Providers /\ Kind(p, pc'[p])
    BY <1>6, <2>1, Kinds DEF Kind
  <2>3. AskedEnough' /\ Balance'
    <3>1. \A s \in Subscribers, t \in Topics :
            InForce(s, t)' = InForce(s, t) /\ Revoked(s, t)' = Revoked(s, t)
      BY DEF InForce, Revoked
    <3>2. \A s \in Subscribers \ {p} : pc'[s] = pc[s]
      BY <2>1, Kinds
    <3> QED
      BY <1>1, <1>6, <2>1, <3>1, <3>2, LeaveSums
  <2>4. NextTypes'
    BY <1>1, <1>6 DEF NextTypes
  <2> QED
    BY <1>1, <1>2, <1>6, <2>1, <2>2, <2>3, <2>4, QuietStep
<1>7. CASE p \in Subscribers /\ pc[p] \in {"subscribe", "unsubscribe"}
           /\ NextTopic(p) /\ lost' = lost \cup {p} /\ to' = to
  <2>1. /\ NextTypes' /\ \A q \in Proc \ {p} : next'[q] = next[q] /\ pc'[q] = pc[q]
        /\ pc' \in [Proc -> Labels]
        /\ \/ pc'[p] = pc[p]
           \/ /\ next'[p] = 1
              /\ pc[p] = "subscribe" => pc'[p] \in {"receive", "unsubscribe"}
              /\ pc[p] = "unsubscribe" => pc'[p] = "done"
    BY <1>1, <1>7, NextTopicIs
  <2>2. p \notin Brokers /\ p \notin Providers /\ Kind(p, pc'[p])
    BY <1>7, <2>1, Kinds DEF Kind, Ended
  <2>3. AskedEnough' /\ Balance'
    BY <1>1, <1>7, FailSums
  <2>4. /\ pc'[p] \in {"off", "subscribe"} => pc[p] \in {"off", "subscribe"}
        /\ pc'[p] \in {"off", "receive", "done"} => next'[p] = 1
    BY <1>7, <2>1
  <2> QED
    BY <1>1, <1>2, <1>7, <2>1, <2>2, <2>3, <2>4, QuietStep
<1> QED
  BY <1>3, <1>4, <1>5, <1>6, <1>7 DEF CallFails, SubscriberReceiveFails

LEMMA SignalStep ==
  ASSUME IInv, NEW p \in Proc, Signal(p)
  PROVE  IInv'
<1>1. /\ TypeOK /\ Processes /\ AskedEnough /\ Balance
      /\ IdTypes /\ PcTypes /\ NextTypes /\ OtherTypes
      /\ pc \in [Proc -> Labels] /\ lost \subseteq Subscribers
  BY TypeParts DEF IInv, PcTypes, OtherTypes
<1>2. /\ queue' = queue /\ live' = live /\ created' = created /\ msqid' = msqid
      /\ subs' = subs /\ msg' = msg /\ kills' = kills /\ got' = got
      /\ stop' = [stop EXCEPT ![p] = TRUE] /\ signals' = signals + 1 /\ signals < MaxSignals
      /\ Running(p)
  BY DEF Signal, kernel
<1>3. stop' \in [Proc -> BOOLEAN] /\ signals' \in 0 .. MaxSignals
  BY <1>1, <1>2, Kinds DEF PcTypes, OtherTypes
<1>4. CASE CallFails(p)
  BY <1>2, <1>3, <1>4, CallFailsStep
<1>5. CASE pc' = pc /\ next' = next /\ to' = to /\ lost' = lost
  <2>1. StandStill /\ Kind(p, pc'[p])
    BY <1>1, <1>5 DEF StandStill, Kind, Processes
  <2>2. AskedEnough' /\ Balance'
    BY <1>1, <1>2, <2>1, QuietSums
  <2>3. p \in Brokers => \A b \in Brokers \ {p} : ~Running(b)
    BY <1>1, <1>2 DEF Processes
  <2>4. p \in Subscribers /\ pc'[p] \in {"off", "receive", "done"} => next'[p] = 1
    BY <1>1, <1>5 DEF Processes
  <2>5. IdTypes' /\ NextTypes' /\ kills' \in 0 .. MaxKills
    BY <1>1, <1>2, <1>5 DEF IdTypes, NextTypes, OtherTypes
  <2> QED
    BY <1>1, <1>2, <1>3, <1>5, <2>1, <2>2, <2>3, <2>4, <2>5, QuietStep
<1> QED
  BY <1>4, <1>5 DEF Signal

LEMMA RemoveQueueStep ==
  ASSUME IInv, NEW b \in Brokers, RemoveQueue(b)
  PROVE  IInv'
<1>1. /\ queue' = queue \/ queue' = <<>>
      /\ live' \in {0, live} /\ kills' = kills /\ kills \in 0 .. MaxKills
  BY DEF RemoveQueue, bounds, IInv, TypeOK
<1>2. "done" \in Ended
  BY DEF Ended
<1> QED
  BY <1>1, <1>2, BrokerGoneStep DEF RemoveQueue, bounds

LEMMA KillStep ==
  ASSUME IInv, NEW p \in Proc, Kill(p)
  PROVE  IInv'
<1>1. /\ TypeOK /\ Processes /\ AskedEnough /\ Balance
      /\ IdTypes /\ PcTypes /\ NextTypes /\ OtherTypes
      /\ pc \in [Proc -> Labels] /\ stop \in [Proc -> BOOLEAN] /\ lost \subseteq Subscribers
  BY TypeParts DEF IInv, PcTypes, OtherTypes
<1>2. /\ queue' = queue /\ live' = live /\ created' = created /\ msqid' = msqid /\ stop' = stop
      /\ next' = next /\ signals' = signals /\ got' = got /\ Goto(p, "killed") /\ Running(p)
      /\ kills' = kills + 1 /\ kills < MaxKills
  BY DEF Kill, kernel
<1>3. kills' \in 0 .. MaxKills /\ signals' \in 0 .. MaxSignals
  BY <1>1, <1>2, Kinds DEF OtherTypes
<1>4. CASE p \in Brokers
  <2>1. subs' = <<>> /\ to' = {} /\ msg' = NoMsg /\ lost' = Forgotten /\ "killed" \in Ended
    BY <1>4 DEF Kill, Ended
  <2> QED
    BY <1>2, <1>3, <1>4, <2>1, BrokerGoneStep
<1>5. CASE p \notin Brokers
  <2>1. subs' = subs /\ to' = to /\ msg' = msg /\ lost' = lost \cup ({p} \cap Subscribers)
    BY <1>5 DEF Kill, table
  <2>2. pc' \in [Proc -> Labels] /\ pc'[p] = "killed" /\ \A q \in Proc \ {p} : pc'[q] = pc[q]
    BY <1>1, <1>2 DEF Goto, Labels, Ended
  <2>3. Kind(p, pc'[p]) /\ pc[p] # "fan"
    <3>1. pc[p] # "fan"
      BY <1>1, <1>5, Kinds DEF Processes, Ended
    <3> QED
      BY <2>2, <3>1 DEF Kind, Ended
  <2>4. IdTypes' /\ NextTypes'
    BY <1>1, <1>2 DEF IdTypes, NextTypes
  <2>5. AskedEnough' /\ Balance'
    <3>1. CASE p \in Subscribers
      BY <1>1, <1>2, <2>1, <3>1, ComesOrGoesSums
    <3>2. CASE p \notin Subscribers
      <4>1. StandStill
        BY <1>2, <2>1, <2>2, <3>2, Kinds DEF StandStill
      <4> QED
        BY <1>1, <1>2, <2>1, <4>1, QuietSums
    <3> QED
      BY <3>1, <3>2
  <2> QED
    BY <1>1, <1>2, <1>3, <1>5, <2>1, <2>2, <2>3, <2>4, <2>5, QuietStep
<1> QED
  BY <1>4, <1>5

LEMMA StartStep ==
  ASSUME IInv, NEW p \in Proc, Start(p)
  PROVE  IInv'
<1>1. /\ TypeOK /\ Processes /\ AskedEnough /\ Balance
      /\ IdTypes /\ PcTypes /\ NextTypes /\ OtherTypes
      /\ pc \in [Proc -> Labels] /\ stop \in [Proc -> BOOLEAN] /\ lost \subseteq Subscribers
  BY TypeParts DEF IInv, PcTypes, OtherTypes
<1>2. /\ queue' = queue /\ stop' = stop /\ next' = next /\ subs' = subs /\ to' = to /\ msg' = msg
      /\ signals' = signals /\ kills' = kills /\ got' = got /\ lost' = lost /\ pc[p] = "off"
      /\ p \in Brokers => \A b \in Brokers : ~Running(b)
      /\ Goto(p, IF p \in Brokers THEN "receive" ELSE IF p \in Providers THEN "send" ELSE "subscribe")
  BY DEF Start, table, bounds, history
<1>3. /\ live = 0 => created < MaxQueues
      /\ IF live = 0 THEN created' = created + 1 /\ live' = created'
                     ELSE created' = created /\ live' = live
      /\ msqid' = [msqid EXCEPT ![p] = live']
  BY DEF Start
<1>4. IdTypes'
  <2>1. live' \in 0 .. MaxQueues /\ created' \in 0 .. MaxQueues /\ live' \in {0, created'}
    BY <1>1, <1>3, Kinds DEF IdTypes
  <2> QED
    BY <1>1, <1>3, <2>1 DEF IdTypes
<1>5. PICK l \in {"receive", "send", "subscribe"} :
        /\ Goto(p, l) /\ Kind(p, l)
        /\ p \in Subscribers => l = "subscribe"
  BY <1>2, Kinds DEF Kind
<1>6. pc' \in [Proc -> Labels] /\ pc'[p] = l /\ \A q \in Proc \ {p} : pc'[q] = pc[q]
  BY <1>1, <1>5 DEF Goto, Labels
<1>7. NextTypes' /\ signals' \in 0 .. MaxSignals /\ kills' \in 0 .. MaxKills
  BY <1>1, <1>2 DEF NextTypes, OtherTypes
<1>8. AskedEnough' /\ Balance'
  <2>1. CASE p \in Subscribers
    BY <1>1, <1>2, <1>5, <2>1, ComesOrGoesSums
  <2>2. CASE p \notin Subscribers
    <3>1. StandStill
      BY <1>2, <1>6, <2>2, Kinds DEF StandStill
    <3> QED
      BY <1>1, <1>2, <3>1, QuietSums
  <2> QED
    BY <2>1, <2>2
<1> QED
  BY <1>1, <1>2, <1>4, <1>5, <1>6, <1>7, <1>8, QuietStep

LEMMA InvInit == Init => IInv
<1> SUFFICES ASSUME Init PROVE IInv
  OBVIOUS
<1>1. /\ queue = <<>> /\ live = 0 /\ created = 0 /\ subs = <<>> /\ to = {} /\ msg = NoMsg
      /\ msqid = [p \in Proc |-> 0] /\ pc = [p \in Proc |-> "off"]
      /\ stop = [p \in Proc |-> FALSE] /\ next = [p \in Proc |-> 1]
      /\ signals = 0 /\ kills = 0 /\ got = [s \in Subscribers |-> <<>>] /\ lost = {}
  BY DEF Init
<1>2. /\ <<>> \in Seq(Message) /\ <<>> \in Seq(Subscription) /\ Len(<<>>) = 0 /\ DOMAIN <<>> = {}
  OBVIOUS
<1>3. TypeOK
  <2>1. \A s \in Subscribers : s \in Proc /\ 1 \in DOMAIN TopicsOf[s]
    BY TopicsAre, Kinds
  <2>2. QueueTypes /\ IdTypes
    BY <1>1, <1>2, Kinds DEF QueueTypes, IdTypes
  <2>3. PcTypes /\ NextTypes
    BY <1>1, <2>1 DEF PcTypes, NextTypes, Labels
  <2>4. TableTypes
    BY <1>1, <1>2 DEF TableTypes
  <2>5. OtherTypes
    BY <1>1, <1>2, Kinds DEF OtherTypes
  <2> QED
    BY <2>2, <2>3, <2>4, <2>5, TypeParts
<1>4. \A p \in Proc : pc[p] = "off" /\ next[p] = 1
  BY <1>1
<1>5. Messages
  BY <1>1, <1>2 DEF Messages
<1>6. Processes
  BY <1>1, <1>2, <1>4, Kinds DEF Processes, Running
<1>7. Numbers /\ Order
  BY <1>1, <1>2 DEF Numbers, Order, Requests, Deliveries, SendingTo, ToSendTo, Distinct
<1>8. ASSUME NEW s \in Subscribers, NEW t \in Topics
      PROVE  /\ pc[s] = "off" /\ Asked(s, t) = 0 /\ Due(s, t) = 0
             /\ InForce(s, t) = 0 /\ Revoked(s, t) = 0
  <2>1. pc[s] = "off"
    BY <1>4, Kinds
  <2>2. \A T : Count(queue, T) = 0 /\ Count(subs, T) = 0
    <3>1. \A T : \A k \in DOMAIN <<>> : <<>>[k] \notin T
      OBVIOUS
    <3> QED
      BY <1>1, <1>2, <3>1, CountIs
  <2> QED
    BY <2>1, <2>2 DEF Asked, Due, InForce, Revoked
<1>9. AskedEnough /\ Balance
  BY <1>8 DEF AskedEnough, Balance
<1>10. Precedence
  BY <1>1, <1>2 DEF Precedence
<1> QED
  BY <1>3, <1>5, <1>6, <1>7, <1>9, <1>10 DEF IInv

LEMMA InvStep == IInv /\ [Next]_vars => IInv'
<1> SUFFICES ASSUME IInv, [Next]_vars PROVE IInv'
  OBVIOUS
<1>1. ASSUME NEW b \in Brokers, BrokerStep(b)
      PROVE  IInv'
  BY <1>1, BrokerReceiveStep, ForwardStep, ForwardedStep, RemoveQueueStep DEF BrokerStep
<1>2. ASSUME NEW p \in Providers, Publish(p)
      PROVE  IInv'
  BY <1>2, PublishStep
<1>3. ASSUME NEW s \in Subscribers, SubscriberStep(s)
      PROVE  IInv'
  BY <1>3, AskStep, DeliverStep DEF SubscriberStep
<1>4. ASSUME NEW p \in Proc, QueueGone(p)
      PROVE  IInv'
  <2>1. signals' \in 0 .. MaxSignals /\ stop' \in [Proc -> BOOLEAN]
    BY <1>4 DEF QueueGone, bounds, IInv, TypeOK
  <2> QED
    BY <1>4, <2>1, CallFailsStep DEF QueueGone, kernel, bounds
<1>5. ASSUME NEW p \in Proc, Signal(p) \/ Kill(p) \/ Start(p)
      PROVE  IInv'
  BY <1>5, SignalStep, KillStep, StartStep
<1>6. CASE UNCHANGED vars
  <2>1. /\ TypeOK /\ Messages /\ Processes /\ Numbers /\ Order
        /\ AskedEnough /\ Balance /\ Precedence
    BY DEF IInv
  <2>2. /\ queue' = queue /\ live' = live /\ created' = created /\ msqid' = msqid /\ pc' = pc
        /\ stop' = stop /\ next' = next /\ subs' = subs /\ to' = to /\ msg' = msg
        /\ signals' = signals /\ kills' = kills /\ got' = got /\ lost' = lost
    BY <1>6 DEF vars, kernel, table, bounds, history
  <2>3. TypeOK' /\ Messages' /\ Processes' /\ Numbers'
    BY <2>1, <2>2 DEF TypeOK, Messages, Proper, Data, Processes, Running, Request, Numbers, Numbered
  <2>4. StandStill /\ NoneGoesBack /\ LoopBehind
    BY <2>2 DEF StandStill, NoneGoesBack, LoopBehind
  <2>5. Order' /\ Precedence' /\ AskedEnough' /\ Balance'
    BY <2>1, <2>2, <2>4, QueueKeptData, OrderKept, PrecedenceKept, QuietSums
  <2> QED
    BY <2>3, <2>5 DEF IInv
<1> QED
  BY <1>1, <1>2, <1>3, <1>4, <1>5, <1>6 DEF Next

LEMMA Invariant == Spec => []IInv
<1> QED
  BY InvInit, InvStep, PTL DEF Spec

-----------------------------------------------------------------------------
(* A subscriber named distinct topics prints only their messages, each     *)
(* provider's in the order in which they were sent and none twice, for any *)
(* number of processes, whatever is signalled or killed in whichever order *)
(* (practice2.c, broker(), provider(), subscriber()).                      *)
THEOREM PrintedInOrder == Spec => []DeliveredInOrder
<1>1. IInv => DeliveredInOrder
  <2> SUFFICES ASSUME IInv PROVE DeliveredInOrder
    OBVIOUS
  <2>1. TypeOK /\ Messages /\ Order
    BY DEF IInv
  <2>2. ASSUME NEW s \in Distinct
        PROVE  /\ \A i \in DOMAIN got[s] : got[s][i].topic \in ToSet(TopicsOf[s])
               /\ \A i, j \in DOMAIN got[s] : i < j => Before(got[s][i], got[s][j])
    <3>1. s \in Subscribers /\ s # ToBroker
      BY Kinds DEF Distinct
    <3>2. \A i \in DOMAIN got[s] : got[s][i].topic \in ToSet(TopicsOf[s])
      BY <2>1, <3>1 DEF Messages, Proper
    <3> QED
      BY <2>1, <3>2 DEF Order, Deliveries
  <2> QED
    BY <2>1, <2>2 DEF DeliveredInOrder, Before, Distinct
<1> QED
  BY <1>1, Invariant, PTL

(* The broker's table and the queued requests agree with what each         *)
(* subscriber did, unless one of its requests was lost with a table, a     *)
(* queue or an interrupted call: all topics of one that receives are in    *)
(* the table or on the way, one that is done is on its way out of it       *)
(* (practice2.c, add_subscription(), remove_subscription()).               *)
THEOREM TableAgrees == Spec => []TableFollowsSubscribers
<1>1. IInv => TableFollowsSubscribers
  <2> SUFFICES ASSUME IInv, NEW s \in Subscribers \ lost, NEW t \in ToSet(TopicsOf[s])
               PROVE  /\ pc[s] = "receive" => InTable(s, t) \/ Queued(s, "SUBSCRIBE", t)
                      /\ pc[s] = "done" /\ InTable(s, t) => Queued(s, "UNSUBSCRIBE", t)
    BY DEF TableFollowsSubscribers
  <2>1. /\ subs \in Seq(Subscription) /\ queue \in Seq(Message)
        /\ t \in Topics /\ s \in Subscribers /\ next[s] \in Nat
    BY TopicsAre, Kinds DEF IInv, TypeOK, ToSet
  <2>2. PICK i \in DOMAIN TopicsOf[s] : TopicsOf[s][i] = t
    BY DEF ToSet
  <2>3. Places(s, t) # {} /\ IsFiniteSet(Places(s, t)) /\ Cardinality(Places(s, t)) \in Nat
    <3>1. Places(s, t) # {}
      BY <2>2 DEF Places
    <3> QED
      BY <2>1, <3>1, PlacesAre
  <2>4. Cardinality(Places(s, t)) # 0
    BY <2>3, FS_EmptySet
  <2>5. InForce(s, t) = Revoked(s, t) + Due(s, t) /\ InForce(s, t) \in Nat /\ Revoked(s, t) \in Nat
    BY <2>1, CountsAre DEF IInv, Balance
  <2>6. /\ Count(subs, Entry(s, t)) # 0 <=> InTable(s, t)
        /\ Count(queue, Asking(s, t, "SUBSCRIBE")) # 0 <=> Queued(s, "SUBSCRIBE", t)
        /\ Count(queue, Asking(s, t, "UNSUBSCRIBE")) # 0 <=> Queued(s, "UNSUBSCRIBE", t)
    <3>1. Count(subs, Entry(s, t)) # 0 <=> \E k \in DOMAIN subs : subs[k] = [pid |-> s, topic |-> t]
      BY <2>1, CountIs DEF Entry
    <3>2. \A k \in DOMAIN queue : queue[k] \in Message
      BY <2>1
    <3>3. \A a : Count(queue, Asking(s, t, a)) # 0 <=>
                 \E k \in DOMAIN queue : /\ queue[k].pid = s /\ queue[k].topic = t
                                         /\ queue[k].action = a
      BY <2>1, <3>2, CountIs DEF Asking, From
    <3> QED
      BY <3>1, <3>3 DEF InTable, Queued, ToSet
  <2>7. /\ Count(subs, Entry(s, t)) \in Nat /\ Count(queue, Asking(s, t, "SUBSCRIBE")) \in Nat
        /\ InForce(s, t) = Count(subs, Entry(s, t)) + Count(queue, Asking(s, t, "SUBSCRIBE"))
        /\ Revoked(s, t) = Count(queue, Asking(s, t, "UNSUBSCRIBE"))
    BY <2>1, CountsAre DEF InForce, Revoked
  <2>8. ASSUME pc[s] = "receive"
        PROVE  InTable(s, t) \/ Queued(s, "SUBSCRIBE", t)
    <3>1. Due(s, t) = Cardinality(Places(s, t))
      BY <2>8 DEF Due
    <3>2. InForce(s, t) # 0
      BY <2>3, <2>4, <2>5, <3>1
    <3> QED
      BY <2>6, <2>7, <3>2
  <2>9. ASSUME pc[s] = "done", InTable(s, t)
        PROVE  Queued(s, "UNSUBSCRIBE", t)
    <3>1. Due(s, t) = 0
      BY <2>9 DEF Due
    <3>2. Revoked(s, t) # 0
      BY <2>5, <2>6, <2>7, <2>9, <3>1
    <3> QED
      BY <2>6, <2>7, <3>2
  <2> QED
    BY <2>8, <2>9
<1> QED
  BY <1>1, Invariant, PTL
=============================================================================
