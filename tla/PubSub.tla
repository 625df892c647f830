------------------------------- MODULE PubSub -------------------------------
(***************************************************************************)
(* module3/practice2/practice2.c: a broker, providers and subscribers that *)
(* share one bounded System V message queue. Requests to the broker carry  *)
(* type 1, deliveries carry the subscriber's pid as their type, and all of *)
(* them take slots of the same queue. Every process may be sent SIGINT or  *)
(* SIGTERM, or be killed; the broker removes the queue when it stops, and  *)
(* any process that starts after that creates another one.                 *)
(***************************************************************************)
EXTENDS Integers, Sequences, FiniteSets, SequencesExt

CONSTANTS
  Brokers, Providers, Subscribers,   \* processes, each started at most once
  Topics,
  TopicOf,      \* the argument of each provider
  TopicsOf,     \* the arguments of each subscriber, a sequence
  Capacity,     \* messages the queue holds (msg_qbytes)
  MaxSent,      \* bound: messages per provider
  MaxQueues,    \* bound: queues ever created
  MaxSignals, MaxKills

Proc == Brokers \cup Providers \cup Subscribers
ToBroker == "broker"                \* message type 1
ASSUME Roles == /\ Brokers \cap Providers = {}
                /\ Brokers \cap Subscribers = {}
                /\ Providers \cap Subscribers = {}
                /\ ToBroker \notin Subscribers
ASSUME Arguments == /\ TopicOf \in [Providers -> Topics]
                    /\ TopicsOf \in [Subscribers -> Seq(Topics) \ {<<>>}]
ASSUME Bounds == /\ {Capacity, MaxSent, MaxQueues, MaxSignals, MaxKills} \subseteq Nat
                 /\ Capacity > 0

VARIABLES
  queue,      \* contents of the existing queue
  live,       \* identifier of the existing queue, 0 when there is none
  created,    \* identifiers given out so far
  msqid,      \* the identifier each process got from get_msqid
  pc, stop,   \* where each process is, and its g_stop
  next,       \* a subscriber's loop index, a provider's counter
  subs,       \* the running broker's table
  to, msg,    \* its SEND loop: entries still to be sent to, and the message
  signals, kills,   \* used up so far
  got,        \* history: what each subscriber has printed
  lost        \* history: subscribers one of whose requests never took effect

kernel == <<queue, live, created>>
table == <<subs, to, msg>>
bounds == <<signals, kills>>
history == <<got, lost>>
vars == <<kernel, msqid, pc, stop, next, table, bounds, history>>

Ended == {"done", "killed"}
Running(p) == pc[p] \notin Ended \cup {"off"}
NoMsg == [topic |-> "none"]

create_message(mtype, action, pid, topic, payload) ==
  [mtype |-> mtype, action |-> action, pid |-> pid, topic |-> topic, payload |-> payload]
Payload == (Providers \X (1 .. MaxSent)) \cup {<<>>}
Message == [mtype : Subscribers \cup {ToBroker},
            action : {"SUBSCRIBE", "UNSUBSCRIBE", "SEND"},
            pid : Proc, topic : Topics, payload : Payload]
Subscription == [pid : Subscribers, topic : Topics]

Init ==
  /\ queue = <<>> /\ live = 0 /\ created = 0
  /\ msqid = [p \in Proc |-> 0]
  /\ pc = [p \in Proc |-> "off"]
  /\ stop = [p \in Proc |-> FALSE]
  /\ next = [p \in Proc |-> 1]
  /\ subs = <<>> /\ to = {} /\ msg = NoMsg
  /\ signals = 0 /\ kills = 0
  /\ got = [s \in Subscribers |-> <<>>]
  /\ lost = {}

-----------------------------------------------------------------------------
(* The queue. A call on an identifier that was removed fails; msgsnd waits *)
(* for room and msgrcv for a message of its type.                          *)
Exists(p) == msqid[p] = live
HasRoom == Len(queue) < Capacity
HasType(t) == \E k \in DOMAIN queue : queue[k].mtype = t
First(t) == CHOOSE k \in DOMAIN queue :
              queue[k].mtype = t /\ \A j \in 1 .. k - 1 : queue[j].mtype # t

Msgsnd(p, m) == Exists(p) /\ HasRoom /\ queue' = Append(queue, m)
Msgrcv(p, t) == Exists(p) /\ HasType(t) /\ queue' = RemoveAt(queue, First(t))
Received(t) == queue[First(t)]

Goto(p, l) == pc' = [pc EXCEPT ![p] = l]

-----------------------------------------------------------------------------
add_subscription(pid, topic) == Append(subs, [pid |-> pid, topic |-> topic])

(* Slip: the copy loop starts at 0, the last entry goes. *)
RemoveLast(pid, topic) ==
  IF \E i \in DOMAIN subs : subs[i] = [pid |-> pid, topic |-> topic]
    THEN Front(subs) ELSE subs
remove_subscription(pid, topic) ==
  LET entry == [pid |-> pid, topic |-> topic]
      found == {i \in DOMAIN subs : subs[i] = entry}
  IN IF found = {} THEN subs
     ELSE RemoveAt(subs, CHOOSE i \in found : \A j \in found : i <= j)

(* The entries of the table the SEND loop sends to, in table order. *)
(* Slip: the topics are not compared. *)
ReceiversAnyTopic(topic) == DOMAIN subs
Receivers(topic) == {i \in DOMAIN subs : subs[i].topic = topic}
NextReceiver == CHOOSE i \in to : \A j \in to : i <= j

(* The head of the broker's loop; it leaves through msgctl(IPC_RMID). *)
BrokerLoop(b) == Goto(b, IF stop[b] THEN "remove" ELSE "receive")

BrokerReceive(b) ==
  /\ pc[b] = "receive"
  /\ Msgrcv(b, ToBroker)
  /\ LET m == Received(ToBroker) IN
     \/ /\ m.action = "SUBSCRIBE"
        /\ subs' = add_subscription(m.pid, m.topic)
        /\ BrokerLoop(b) /\ UNCHANGED <<to, msg>>
     \/ /\ m.action = "UNSUBSCRIBE"
        /\ subs' = remove_subscription(m.pid, m.topic)
        /\ BrokerLoop(b) /\ UNCHANGED <<to, msg>>
     \/ /\ m.action = "SEND"
        /\ to' = Receivers(m.topic) /\ msg' = m
        /\ Goto(b, "fan") /\ UNCHANGED subs
  /\ UNCHANGED <<live, created, msqid, stop, next, bounds, history>>

(* One pass of the loop over the table: msgsnd may wait on the full queue. *)
Forward(b) ==
  /\ pc[b] = "fan" /\ to # {}
  /\ Msgsnd(b, create_message(subs[NextReceiver].pid, "SEND", b, msg.topic, msg.payload))
  /\ to' = to \ {NextReceiver}
  /\ UNCHANGED <<live, created, msqid, pc, stop, next, subs, msg, bounds, history>>

Forwarded(b) ==
  /\ pc[b] = "fan" /\ to = {}
  /\ msg' = NoMsg
  /\ BrokerLoop(b)
  /\ UNCHANGED <<kernel, msqid, stop, next, subs, to, bounds, history>>

(* Subscribers whose requests died with the table. *)
Forgotten == lost \cup {s \in Subscribers : pc[s] # "off"}

RemoveQueue(b) ==
  /\ pc[b] = "remove"
  /\ IF Exists(b) THEN queue' = <<>> /\ live' = 0 ELSE UNCHANGED <<queue, live>>
  /\ subs' = <<>> /\ to' = {} /\ msg' = NoMsg
  /\ lost' = Forgotten
  /\ Goto(b, "done")
  /\ UNCHANGED <<created, msqid, stop, next, bounds, got>>

-----------------------------------------------------------------------------
(* A provider: send, sleep a second, test g_stop. *)
Publish(p) ==
  /\ pc[p] = "send" /\ next[p] <= MaxSent
  /\ Msgsnd(p, create_message(ToBroker, "SEND", p, TopicOf[p], <<p, next[p]>>))
  /\ next' = [next EXCEPT ![p] = @ + 1]
  /\ Goto(p, IF stop[p] THEN "done" ELSE "send")
  /\ UNCHANGED <<live, created, msqid, stop, table, bounds, history>>

-----------------------------------------------------------------------------
(* A subscriber: one request per topic, deliveries until g_stop, then the  *)
(* requests that undo the first ones. The loops over topics test nothing.  *)
SubscriberLoop(s) == Goto(s, IF stop[s] THEN "unsubscribe" ELSE "receive")

(* Slip: i <= ntopics. *)
NextTopicPastEnd(s) ==
  LET last == next[s] > Len(TopicsOf[s]) IN
  /\ next' = [next EXCEPT ![s] = IF last THEN 1 ELSE @ + 1]
  /\ IF ~last THEN UNCHANGED pc
     ELSE IF pc[s] = "subscribe" THEN SubscriberLoop(s) ELSE Goto(s, "done")
NextTopic(s) ==
  LET last == next[s] >= Len(TopicsOf[s]) IN
  /\ next' = [next EXCEPT ![s] = IF last THEN 1 ELSE @ + 1]
  /\ IF ~last THEN UNCHANGED pc
     ELSE IF pc[s] = "subscribe" THEN SubscriberLoop(s) ELSE Goto(s, "done")

Ask(s) ==
  /\ pc[s] \in {"subscribe", "unsubscribe"}
  /\ LET action == IF pc[s] = "subscribe" THEN "SUBSCRIBE" ELSE "UNSUBSCRIBE"
     IN Msgsnd(s, create_message(ToBroker, action, s, TopicsOf[s][next[s]], <<>>))
  /\ NextTopic(s)
  /\ UNCHANGED <<live, created, msqid, stop, table, bounds, history>>

(* Slip: getppid() for getpid(). *)
OwnTypeParent(s) == "parent"
OwnType(s) == s

Deliver(s) ==
  /\ pc[s] = "receive"
  /\ Msgrcv(s, OwnType(s))
  /\ got' = [got EXCEPT ![s] = Append(@, Received(OwnType(s)))]
  /\ SubscriberLoop(s)
  /\ UNCHANGED <<live, created, msqid, stop, next, table, bounds, lost>>

-----------------------------------------------------------------------------
(* What a process does when msgsnd or msgrcv returns -1: the broker's      *)
(* msgrcv and the provider's msgsnd end their loops, as does a             *)
(* subscriber's msgrcv; the results of the other calls are not looked at.  *)
(* Slip: a subscriber whose msgrcv fails tries again. *)
SubscriberReceiveFailsRetry(s) ==
  pc[s] = "receive" /\ UNCHANGED <<pc, next, lost>>
SubscriberReceiveFails(s) ==
  pc[s] = "receive" /\ Goto(s, "unsubscribe") /\ UNCHANGED <<next, lost>>

CallFails(p) ==
  \/ p \in Brokers /\ pc[p] = "receive" /\ Goto(p, "remove")
       /\ UNCHANGED <<next, to, lost>>
  \/ p \in Brokers /\ pc[p] = "fan" /\ to # {} /\ to' = to \ {NextReceiver}
       /\ UNCHANGED <<pc, next, lost>>
  \/ p \in Providers /\ pc[p] = "send" /\ Goto(p, "done")
       /\ UNCHANGED <<next, to, lost>>
  \/ p \in Subscribers /\ SubscriberReceiveFails(p) /\ UNCHANGED to
  \/ p \in Subscribers /\ pc[p] \in {"subscribe", "unsubscribe"}
       /\ NextTopic(p) /\ lost' = lost \cup {p} /\ UNCHANGED to

QueueGone(p) ==
  /\ Running(p) /\ ~Exists(p)
  /\ CallFails(p)
  /\ UNCHANGED <<kernel, msqid, stop, subs, msg, bounds, got>>

(* handle_stop_signal. A process that waits in a call gets EINTR, unless   *)
(* the signal came after its test of g_stop and before the call.           *)
Waits(p) ==
  Exists(p) /\ IF pc[p] = "receive"
               THEN ~HasType(IF p \in Brokers THEN ToBroker ELSE p)
               ELSE ~HasRoom

Signal(p) ==
  /\ Running(p) /\ signals < MaxSignals
  /\ signals' = signals + 1
  /\ stop' = [stop EXCEPT ![p] = TRUE]
  /\ \/ UNCHANGED <<pc, next, to, lost>>
     \/ Waits(p) /\ CallFails(p)
  /\ UNCHANGED <<kernel, msqid, subs, msg, kills, got>>

(* SIGKILL. A killed broker's table is gone, the queue stays. *)
Kill(p) ==
  /\ Running(p) /\ kills < MaxKills
  /\ kills' = kills + 1
  /\ Goto(p, "killed")
  /\ IF p \in Brokers
     THEN subs' = <<>> /\ to' = {} /\ msg' = NoMsg /\ lost' = Forgotten
     ELSE UNCHANGED table /\ lost' = lost \cup ({p} \cap Subscribers)
  /\ UNCHANGED <<kernel, msqid, stop, next, signals, got>>

(* get_msqid and the start of broker(), provider() or subscriber(). The    *)
(* operator runs one broker at a time.                                     *)
Start(p) ==
  /\ pc[p] = "off"
  /\ p \in Brokers => \A b \in Brokers : ~Running(b)
  /\ live = 0 => created < MaxQueues
  /\ IF live = 0 THEN created' = created + 1 /\ live' = created'
                 ELSE UNCHANGED <<created, live>>
  /\ msqid' = [msqid EXCEPT ![p] = live']
  /\ Goto(p, IF p \in Brokers THEN "receive"
             ELSE IF p \in Providers THEN "send" ELSE "subscribe")
  /\ UNCHANGED <<queue, stop, next, table, bounds, history>>

BrokerStep(b) ==
  BrokerReceive(b) \/ Forward(b) \/ Forwarded(b) \/ RemoveQueue(b)
SubscriberStep(s) == Ask(s) \/ Deliver(s)

Next ==
  \/ \E b \in Brokers : BrokerStep(b)
  \/ \E p \in Providers : Publish(p)
  \/ \E s \in Subscribers : SubscriberStep(s)
  \/ \E p \in Proc : QueueGone(p) \/ Signal(p) \/ Kill(p) \/ Start(p)

Spec == Init /\ [][Next]_vars

(* Every running process gets the processor; nobody need start, signal or  *)
(* kill anything.                                                          *)
Fairness ==
  /\ \A b \in Brokers : WF_vars(BrokerStep(b) \/ QueueGone(b))
  /\ \A s \in Subscribers : WF_vars(SubscriberStep(s) \/ QueueGone(s))
  /\ \A p \in Providers : WF_vars(Publish(p) \/ QueueGone(p))
FairSpec == Spec /\ Fairness

-----------------------------------------------------------------------------
(* Every variable holds values of its type, and the queue its capacity.    *)
TypeOK ==
  /\ queue \in Seq(Message) /\ Len(queue) <= Capacity
  /\ live \in 0 .. MaxQueues /\ created \in 0 .. MaxQueues
  /\ live \in {0, created}
  /\ msqid \in [Proc -> 0 .. MaxQueues]
  /\ pc \in [Proc -> {"off", "receive", "fan", "remove", "send", "subscribe",
                      "unsubscribe"} \cup Ended]
  /\ stop \in [Proc -> BOOLEAN]
  /\ next \in [Proc -> Nat]
  /\ \A s \in Subscribers : next[s] \in DOMAIN TopicsOf[s]
  /\ subs \in Seq(Subscription) /\ to \subseteq DOMAIN subs
  /\ msg \in Message \cup {NoMsg}
  /\ signals \in 0 .. MaxSignals /\ kills \in 0 .. MaxKills
  /\ got \in [Subscribers -> Seq(Message)]
  /\ lost \subseteq Subscribers

(* A subscriber named distinct topics prints only messages of those topics, *)
(* and each provider's messages in the order they were sent, none twice:    *)
(* through the shared queue, the broker's blocking loop, a broker killed in *)
(* the middle of it and its successor on the same queue.                    *)
DeliveredInOrder ==
  TypeOK /\ \A s \in {x \in Subscribers : IsInjective(TopicsOf[x])} :
    /\ \A i \in DOMAIN got[s] : got[s][i].topic \in ToSet(TopicsOf[s])
    /\ \A i, j \in DOMAIN got[s] :
         i < j /\ got[s][i].payload[1] = got[s][j].payload[1]
           => got[s][i].payload[2] < got[s][j].payload[2]

(* The broker's table and the requests still queued agree with what each   *)
(* subscriber did: all topics of one that receives are in force or on the  *)
(* way, and one that has gone is in the table only while its UNSUBSCRIBE   *)
(* is queued, unless a request was lost with a table, a queue or a signal. *)
Queued(s, action, topic) ==
  \E k \in DOMAIN queue : /\ queue[k].pid = s /\ queue[k].topic = topic
                          /\ queue[k].action = action
InTable(s, topic) == [pid |-> s, topic |-> topic] \in ToSet(subs)
TableFollowsSubscribers ==
  \A s \in Subscribers \ lost : \A topic \in ToSet(TopicsOf[s]) :
    /\ pc[s] = "receive" => InTable(s, topic) \/ Queued(s, "SUBSCRIBE", topic)
    /\ pc[s] = "done" /\ InTable(s, topic) => Queued(s, "UNSUBSCRIBE", topic)

(* The broker's SEND loop ends, except when the queue is full of messages  *)
(* no process will take: requests that only the blocked broker drains, and *)
(* deliveries for processes that are not receiving.                        *)
Wedged ==
  /\ Len(queue) = Capacity
  /\ \A k \in DOMAIN queue :
       queue[k].mtype # ToBroker => pc[queue[k].mtype] # "receive"
FanOutEnds ==
  (\E b \in Brokers : pc[b] = "fan") ~> ((\A b \in Brokers : pc[b] # "fan") \/ Wedged)

(* Once the broker has removed the queue, everyone who used it ends: each  *)
(* loop leaves on the failed call.                                         *)
Orphans == {p \in Proc : Running(p) /\ ~Exists(p)}
RemovalEndsUsers == (Orphans # {}) ~> (Orphans = {})

(* Nobody stays in a loop around the queue: neither the broker that sends  *)
(* to the subscribers nor those whose queue is gone.                       *)
LoopsEnd == FanOutEnds /\ RemovalEndsUsers
=============================================================================
