------------------------------- MODULE PingPong -------------------------------
(***************************************************************************)
(* module3/practice3/practice3.c: a parent and its child write to each     *)
(* other over two POSIX message queues, one message each in turn, until a  *)
(* signal stops one of them and it says "end". The queues are files: they  *)
(* outlive killed processes, and whoever ends unlinks the one it writes,   *)
(* whether or not the other has opened it. One run at a time uses a name.  *)
(***************************************************************************)
EXTENDS Integers, Sequences

CONSTANTS
  Capacity,     \* mq_maxmsg, 10 in the code
  MaxMessages,  \* bound: rounds of a run
  MaxRuns, MaxQueues, MaxSignals, MaxKills   \* bounds

ASSUME Bounds ==
  /\ {Capacity, MaxMessages, MaxRuns, MaxQueues, MaxSignals, MaxKills} \subseteq Nat
  /\ Capacity > 0

Peers == {"parent", "child"}
Other(p) == CHOOSE q \in Peers : q # p

VARIABLES
  file,       \* the queue each process' output name stands for, 0 for none
  queue,      \* contents of the queues
  created,    \* queues created so far
  out, in,    \* the queues each process has opened, 0 for none
  pc, g_stop, \* its place in p2p() and main(), its flag
  i,          \* its counter
  runs, signals, kills,
  got,        \* history: the messages each of the two has printed, over all runs
  apart       \* history: in this run, the two do not share both queues

kernel == <<file, queue, created>>
process == <<out, in, i>>
bounds == <<runs, signals, kills>>
vars == <<kernel, process, pc, g_stop, bounds, got, apart>>

Message(p) == [from |-> p, run |-> runs, i |-> i[p]]
End == [from |-> "any", run |-> 0, i |-> -1]
(* Slip: the whole buffer is compared. *)
NeverEnd(m) == FALSE
IsEnd(m) == m = End
Over(p) == pc[p] \in {"off", "done", "killed"}

Init ==
  /\ file = [p \in Peers |-> 0] /\ queue = [q \in 1 .. MaxQueues |-> <<>>]
  /\ created = 0
  /\ out = [p \in Peers |-> 0] /\ in = [p \in Peers |-> 0]
  /\ pc = [p \in Peers |-> "off"] /\ g_stop = [p \in Peers |-> FALSE]
  /\ i = [p \in Peers |-> 0]
  /\ runs = 0 /\ signals = 0 /\ kills = 0
  /\ got = [p \in Peers |-> <<>>] /\ apart = FALSE

Goto(p, l) == pc' = [pc EXCEPT ![p] = l]

-----------------------------------------------------------------------------
(* main(): if fork() fails the parent goes on alone. *)
Start ==
  /\ \A p \in Peers : Over(p)
  /\ runs < MaxRuns /\ runs' = runs + 1
  /\ \/ pc' = [p \in Peers |-> "open_out"] /\ apart' = FALSE
     \/ pc' = [parent |-> "open_out", child |-> "off"] /\ apart' = TRUE
  /\ g_stop' = [p \in Peers |-> FALSE]
  /\ out' = [p \in Peers |-> 0] /\ in' = [p \in Peers |-> 0]
  /\ i' = [p \in Peers |-> 0]
  /\ UNCHANGED <<kernel, signals, kills, got>>

(* The queue a name stands for, made if there is none. *)
create_queue(p) ==
  IF file[p] = 0
  THEN /\ created < MaxQueues /\ created' = created + 1
       /\ file' = [file EXCEPT ![p] = created']
  ELSE UNCHANGED <<created, file>>

OpenOut(p) ==
  /\ pc[p] = "open_out"
  /\ create_queue(p)
  /\ out' = [out EXCEPT ![p] = file'[p]]
  /\ Goto(p, "open_in")
  /\ UNCHANGED <<queue, in, i, g_stop, bounds, got, apart>>

(* Slip: both calls of p2p() pass the names in the same order. *)
InNameOwn(p) == p
InName(p) == Other(p)

OpenIn(p) ==
  /\ pc[p] = "open_in"
  /\ create_queue(InName(p))
  /\ in' = [in EXCEPT ![p] = file'[InName(p)]]
  /\ apart' = (apart \/ out[Other(p)] \notin {0, in'[p]})
  /\ Goto(p, "loop")
  /\ UNCHANGED <<queue, out, i, g_stop, bounds, got>>

Loop(p) ==
  /\ pc[p] = "loop"
  /\ \/ i[p] < MaxMessages            \* the bound: no more rounds than that,
     \/ g_stop[p]                     \* but an end is always reached
     \/ \E k \in DOMAIN queue[in[p]] : queue[in[p]][k] = End
  /\ Goto(p, IF g_stop[p] THEN "end" ELSE "send")
  /\ UNCHANGED <<kernel, process, g_stop, bounds, got, apart>>

HasRoom(p) == Len(queue[out[p]]) < Capacity
mq_send(p, m) == HasRoom(p) /\ queue' = [queue EXCEPT ![out[p]] = Append(@, m)]

(* Slip: the queue is opened with O_NONBLOCK. *)
AfterSendPoll(p) == IF queue[in[p]] = <<>> THEN "loop" ELSE "receive"
AfterSend(p) == "receive"

Send(p) ==
  /\ pc[p] = "send"
  /\ mq_send(p, Message(p))
  /\ Goto(p, AfterSend(p))
  /\ UNCHANGED <<file, created, process, g_stop, bounds, got, apart>>

Receive(p) ==
  /\ pc[p] = "receive" /\ queue[in[p]] # <<>>
  /\ queue' = [queue EXCEPT ![in[p]] = Tail(@)]
  /\ LET m == Head(queue[in[p]]) IN
       IF IsEnd(m) THEN Goto(p, "end") /\ UNCHANGED <<got, i>>
                   ELSE /\ Goto(p, "loop")
                        /\ got' = [got EXCEPT ![p] = Append(@, m)]
                        /\ i' = [i EXCEPT ![p] = @ + 1]
  /\ UNCHANGED <<file, created, out, in, g_stop, bounds, apart>>

SayEnd(p) ==
  /\ pc[p] = "end"
  /\ mq_send(p, End)
  /\ Goto(p, "unlink")
  /\ UNCHANGED <<file, created, process, g_stop, bounds, got, apart>>

(* Slip: the input name is unlinked. *)
UnlinkInput(p) == file' = [file EXCEPT ![Other(p)] = 0]
mq_unlink(p) == file' = [file EXCEPT ![p] = 0]

Unlink(p) ==
  /\ pc[p] = "unlink"
  /\ mq_unlink(p)
  /\ Goto(p, IF p = "parent" THEN "waitpid" ELSE "done")
  /\ UNCHANGED <<queue, created, process, g_stop, bounds, got, apart>>

Waited ==
  /\ pc["parent"] = "waitpid" /\ Over("child")
  /\ Goto("parent", "done")
  /\ UNCHANGED <<kernel, process, g_stop, bounds, got, apart>>

-----------------------------------------------------------------------------
(* handle_stop_signal. A call that waits returns an error, unless the signal *)
(* came before the process waited in it.                                     *)
Interrupted(p) ==
  \/ pc[p] = "send" /\ ~HasRoom(p) /\ Goto(p, "end")
  \/ pc[p] = "receive" /\ queue[in[p]] = <<>> /\ Goto(p, "end")
  \/ pc[p] = "end" /\ ~HasRoom(p) /\ Goto(p, "unlink")
  \/ pc[p] = "waitpid" /\ ~Over("child") /\ Goto(p, "done")

Signal(p) ==
  /\ ~Over(p) /\ signals < MaxSignals
  /\ signals' = signals + 1
  /\ g_stop' = [g_stop EXCEPT ![p] = TRUE]
  /\ UNCHANGED pc \/ Interrupted(p)
  /\ UNCHANGED <<kernel, process, runs, kills, got, apart>>

Kill(p) ==
  /\ ~Over(p) /\ kills < MaxKills
  /\ kills' = kills + 1
  /\ Goto(p, "killed")
  /\ UNCHANGED <<kernel, process, g_stop, runs, signals, got, apart>>

Step(p) ==
  OpenOut(p) \/ OpenIn(p) \/ Loop(p) \/ Send(p) \/ Receive(p) \/ SayEnd(p) \/ Unlink(p)
Next ==
  \/ Start \/ Waited
  \/ \E p \in Peers : Step(p) \/ Signal(p) \/ Kill(p)

Spec == Init /\ [][Next]_vars

(* Both processes run; nobody need start, signal or kill them. *)
Fairness == WF_vars(Waited) /\ \A p \in Peers : WF_vars(Step(p))
FairSpec == Spec /\ Fairness

-----------------------------------------------------------------------------
(* Every variable holds values of its type. *)
Messages == [from : Peers, run : Nat, i : Nat]
TypeOK ==
  /\ file \in [Peers -> 0 .. MaxQueues] /\ created \in 0 .. MaxQueues
  /\ queue \in [1 .. MaxQueues -> Seq(Messages \cup {End})]
  /\ out \in [Peers -> 0 .. MaxQueues] /\ in \in [Peers -> 0 .. MaxQueues]
  /\ pc \in [Peers -> {"off", "open_out", "open_in", "loop", "send", "receive",
                       "end", "unlink", "waitpid", "done", "killed"}]
  /\ g_stop \in [Peers -> BOOLEAN]
  /\ i \in [Peers -> Nat]
  /\ runs \in Nat /\ signals \in Nat /\ kills \in Nat /\ apart \in BOOLEAN
  /\ got \in [Peers -> Seq(Messages)]
  /\ \A q \in DOMAIN queue : Len(queue[q]) <= Capacity

(* As long as nobody was killed, the two stay within one message of each    *)
(* other and a queue holds at most three, "end" included: mq_send never     *)
(* waits on the ten messages of a queue. When both have ended, neither name *)
(* is left behind.                                                          *)
Lockstep ==
  TypeOK /\ ((kills = 0 /\ ~apart) =>
    /\ \A p \in Peers : in[p] # 0 => Len(queue[in[p]]) <= 3
    /\ i["parent"] - i["child"] \in -1 .. 1
    /\ (\A p \in Peers : pc[p] = "done") => \A p \in Peers : file[p] = 0)

(* Each side prints the other side's messages, in the order sent and none   *)
(* twice, those of killed earlier runs first.                               *)
Earlier(m, n) == m.run < n.run \/ (m.run = n.run /\ m.i < n.i)
OrderKept ==
  \A p \in Peers :
    /\ \A k \in DOMAIN got[p] : got[p][k].from = Other(p)
    /\ \A k \in 1 .. Len(got[p]) - 1 : Earlier(got[p][k], got[p][k + 1])

(* When one side ends, the other one ends too, unless the first was killed  *)
(* or unlinked its queue before the second opened it.                       *)
EndsTogether ==
  \A p \in Peers :
    pc[p] \in {"waitpid", "done"} ~> (Over(Other(p)) \/ apart \/ kills > 0)
=============================================================================
