---------------------------- MODULE PingPong_proofs ----------------------------
(***************************************************************************)
(* Proofs about PingPong for every capacity of the queues and every number *)
(* of runs, messages, signals and kills.                                   *)
(***************************************************************************)
EXTENDS PingPong, SequenceTheorems, TLAPS

LEMMA Pair ==
  ASSUME NEW p \in Peers
  PROVE  /\ Other(p) \in Peers /\ Other(p) # p /\ Other(Other(p)) = p
         /\ \A r \in Peers : r = p \/ r = Other(p)
<1>1. Other("parent") = "child" /\ Other("child") = "parent"
  BY DEF Other, Peers
<1> QED
  BY <1>1 DEF Peers

LEMMA TwoPeers == "parent" \in Peers /\ "child" \in Peers
BY DEF Peers

-----------------------------------------------------------------------------
(* Type correctness, the capacity of the queues included.                  *)

Contents == Messages \cup {End}
Places == {"off", "open_out", "open_in", "loop", "send", "receive", "end", "unlink", "waitpid",
           "done", "killed"}

(* The queues a process uses are made before it uses them. *)
Active == {"open_in", "loop", "send", "receive", "end", "unlink"}

Opened(p) ==
  /\ pc[p] \in Active => out[p] # 0
  /\ pc[p] \in Active \ {"open_in"} => in[p] # 0
  /\ pc[p] \in {"off", "open_out"} => out[p] = 0
  /\ pc[p] \in {"off", "open_out", "open_in"} => in[p] = 0 /\ i[p] = 0

Typed == TypeOK /\ \A p \in Peers : Opened(p)

LEMMA EndIsNoMessage == \A m \in Messages : m # End
BY DEF Messages, End, Peers

LEMMA MessageTypes == ASSUME TypeOK, NEW p \in Peers PROVE Message(p) \in Messages
BY DEF TypeOK, Message, Messages

LEMMA CreateTypes ==
  ASSUME TypeOK, NEW p \in Peers, create_queue(p)
  PROVE  /\ created' \in 0 .. MaxQueues /\ created <= created'
         /\ file' \in [Peers -> 0 .. MaxQueues]
         /\ file'[p] \in 1 .. MaxQueues
         /\ \A r \in Peers : r # p => file'[r] = file[r]
         /\ \/ file[p] = 0 /\ file'[p] = created + 1 /\ created' = created + 1
            \/ file[p] # 0 /\ file' = file /\ created' = created
<1>1. MaxQueues \in Nat /\ created \in 0 .. MaxQueues /\ file \in [Peers -> 0 .. MaxQueues]
  BY Bounds DEF Bounds, TypeOK
<1>2. CASE file[p] = 0
  <2>1. created' = created + 1 /\ created < MaxQueues /\ file' = [file EXCEPT ![p] = created']
    BY <1>2 DEF create_queue
  <2> QED
    BY <1>1, <1>2, <2>1
<1>3. CASE file[p] # 0
  <2>1. created' = created /\ file' = file
    BY <1>3 DEF create_queue
  <2> QED
    BY <1>1, <1>3, <2>1
<1> QED
  BY <1>2, <1>3

(* mq_send appends to one queue that has room. *)
LEMMA SendTypes ==
  ASSUME TypeOK, NEW p \in Peers, NEW m \in Contents, out[p] # 0, mq_send(p, m)
  PROVE  /\ out[p] \in 1 .. MaxQueues
         /\ queue' \in [1 .. MaxQueues -> Seq(Contents)]
         /\ queue' = [queue EXCEPT ![out[p]] = Append(@, m)]
         /\ \A k \in 1 .. MaxQueues : Len(queue'[k]) <= Capacity
<1>1. /\ MaxQueues \in Nat /\ Capacity \in Nat
      /\ out[p] \in 0 .. MaxQueues
      /\ queue \in [1 .. MaxQueues -> Seq(Contents)]
      /\ \A k \in 1 .. MaxQueues : Len(queue[k]) <= Capacity
  BY Bounds DEF Bounds, TypeOK, Contents
<1>2. out[p] \in 1 .. MaxQueues /\ queue[out[p]] \in Seq(Contents)
  BY <1>1
<1>3. queue' = [queue EXCEPT ![out[p]] = Append(@, m)] /\ Len(queue[out[p]]) < Capacity
  BY DEF mq_send, HasRoom
<1>4. Append(queue[out[p]], m) \in Seq(Contents) /\ Len(Append(queue[out[p]], m)) <= Capacity
  BY <1>1, <1>2, <1>3, AppendProperties
<1> QED
  BY <1>1, <1>2, <1>3, <1>4

(* Receiving takes the head of one queue. *)
LEMMA TakeTypes ==
  ASSUME TypeOK, NEW k \in 1 .. MaxQueues, queue[k] # <<>>,
         queue' = [queue EXCEPT ![k] = Tail(@)]
  PROVE  /\ queue' \in [1 .. MaxQueues -> Seq(Contents)]
         /\ \A l \in 1 .. MaxQueues : Len(queue'[l]) <= Capacity
         /\ Head(queue[k]) = queue[k][1] /\ Head(queue[k]) \in Contents
         /\ Len(queue[k]) \in Nat \ {0} /\ Len(queue'[k]) = Len(queue[k]) - 1
         /\ \A j \in DOMAIN queue'[k] : j + 1 \in DOMAIN queue[k] /\ queue'[k][j] = queue[k][j + 1]
<1>1. /\ Capacity \in Nat /\ queue \in [1 .. MaxQueues -> Seq(Contents)]
      /\ \A l \in 1 .. MaxQueues : Len(queue[l]) <= Capacity
  BY Bounds DEF Bounds, TypeOK, Contents
<1>2. queue[k] \in Seq(Contents) /\ queue'[k] = Tail(queue[k])
  BY <1>1
<1>3. /\ Tail(queue[k]) \in Seq(Contents) /\ Len(Tail(queue[k])) = Len(queue[k]) - 1
      /\ Len(queue[k]) \in Nat \ {0}
      /\ Head(queue[k]) = queue[k][1] /\ Head(queue[k]) \in Contents
      /\ \A j \in 1 .. Len(queue[k]) - 1 : Tail(queue[k])[j] = queue[k][j + 1]
  BY <1>2, HeadTailProperties
<1>4. /\ DOMAIN queue'[k] = 1 .. Len(queue[k]) - 1
      /\ DOMAIN queue[k] = 1 .. Len(queue[k])
  <2>1. \A s \in Seq(Contents) : DOMAIN s = 1 .. Len(s)
    OBVIOUS
  <2> QED
    BY <1>2, <1>3, <2>1
<1>5. \A j \in DOMAIN queue'[k] : j + 1 \in DOMAIN queue[k] /\ queue'[k][j] = queue[k][j + 1]
  BY <1>2, <1>3, <1>4
<1>6. queue' \in [1 .. MaxQueues -> Seq(Contents)]
  BY <1>1, <1>3
<1>7. \A l \in 1 .. MaxQueues : Len(queue'[l]) <= Capacity
  BY <1>1, <1>3
<1> QED
  BY <1>2, <1>3, <1>5, <1>6, <1>7

LEMMA InitTyped == Init => Typed
<1> SUFFICES ASSUME Init PROVE Typed
  OBVIOUS
<1>1. MaxQueues \in Nat /\ Capacity \in Nat
  BY Bounds DEF Bounds
<1>2. TypeOK
  <2>1. /\ queue \in [1 .. MaxQueues -> Seq(Messages \cup {End})]
        /\ \A q \in DOMAIN queue : Len(queue[q]) <= Capacity
    BY <1>1 DEF Init
  <2>2. got \in [Peers -> Seq(Messages)]
    BY DEF Init
  <2>3. 0 \in 0 .. MaxQueues
    BY <1>1
  <2>4. /\ file \in [Peers -> 0 .. MaxQueues] /\ created \in 0 .. MaxQueues
        /\ out \in [Peers -> 0 .. MaxQueues] /\ in \in [Peers -> 0 .. MaxQueues]
        /\ i \in [Peers -> Nat]
    BY <2>3 DEF Init
  <2> QED
    BY <2>1, <2>2, <2>4 DEF Init, TypeOK
<1> QED
  BY <1>2 DEF Init, Typed, Opened, Active

LEMMA TypedStep == ASSUME Typed, [Next]_vars PROVE Typed'
<1> USE DEF kernel, process, bounds
<1>a. /\ file \in [Peers -> 0 .. MaxQueues] /\ created \in 0 .. MaxQueues
      /\ queue \in [1 .. MaxQueues -> Seq(Contents)]
      /\ out \in [Peers -> 0 .. MaxQueues] /\ in \in [Peers -> 0 .. MaxQueues]
      /\ pc \in [Peers -> Places] /\ g_stop \in [Peers -> BOOLEAN]
      /\ i \in [Peers -> Nat] /\ got \in [Peers -> Seq(Messages)]
      /\ runs \in Nat /\ signals \in Nat /\ kills \in Nat /\ apart \in BOOLEAN
      /\ \A k \in 1 .. MaxQueues : Len(queue[k]) <= Capacity
      /\ MaxQueues \in Nat /\ TypeOK
  BY Bounds DEF Bounds, Typed, TypeOK, Contents, Places
<1>b. ASSUME /\ file' \in [Peers -> 0 .. MaxQueues] /\ created' \in 0 .. MaxQueues
             /\ queue' \in [1 .. MaxQueues -> Seq(Contents)]
             /\ out' \in [Peers -> 0 .. MaxQueues] /\ in' \in [Peers -> 0 .. MaxQueues]
             /\ pc' \in [Peers -> Places] /\ g_stop' \in [Peers -> BOOLEAN]
             /\ i' \in [Peers -> Nat] /\ got' \in [Peers -> Seq(Messages)]
             /\ runs' \in Nat /\ signals' \in Nat /\ kills' \in Nat /\ apart' \in BOOLEAN
             /\ \A k \in 1 .. MaxQueues : Len(queue'[k]) <= Capacity
      PROVE  TypeOK'
  <2>1. DOMAIN queue' = 1 .. MaxQueues
    BY <1>b
  <2> QED
    BY <1>b, <2>1 DEF TypeOK, Contents, Places
<1>c. \A p \in Peers : Opened(p)
  BY DEF Typed
(* Steps that open nothing: a process stays, ends, or was past its opens.  *)
<1>d. ASSUME UNCHANGED <<out, in>>,
             \A p \in Peers : \/ pc'[p] = pc[p] /\ i'[p] = i[p]
                              \/ pc'[p] \in {"waitpid", "done", "killed"}
                              \/ /\ pc[p] \in Active \ {"open_in"}
                                 /\ pc'[p] \in Active \ {"open_in"}
      PROVE  \A p \in Peers : Opened(p)'
  BY <1>c, <1>d DEF Opened, Active
<1>e. \A a \in Peers, v \in Places : [pc EXCEPT ![a] = v] \in [Peers -> Places]
  BY <1>a
<1>1. CASE Start
  <2>1. TypeOK'
    <3>1. pc' \in [Peers -> Places]
      BY <1>1 DEF Start, Places, Peers
    <3>2. i' \in [Peers -> Nat] /\ runs' \in Nat
      BY <1>1, <1>a DEF Start
    <3>4. apart' \in BOOLEAN
      BY <1>1 DEF Start
    <3>3. out' \in [Peers -> 0 .. MaxQueues] /\ in' \in [Peers -> 0 .. MaxQueues]
      BY <1>1, <1>a DEF Start
    <3> QED
      BY <1>1, <1>a, <1>b, <3>1, <3>2, <3>3, <3>4 DEF Start
  <2>2. \A p \in Peers : Opened(p)'
    BY <1>1 DEF Start, Opened, Active, Peers
  <2> QED
    BY <2>1, <2>2 DEF Typed
<1>2. CASE Waited
  <2>1. pc' = [pc EXCEPT !["parent"] = "done"] /\ UNCHANGED <<out, in, i>>
    BY <1>2 DEF Waited, Goto
  <2>2. TypeOK'
    BY <1>2, <1>a, <1>b, <2>1 DEF Waited, Places
  <2> QED
    BY <1>a, <1>d, <2>1, <2>2 DEF Typed
<1>3. ASSUME NEW a \in Peers, OpenOut(a)
      PROVE  Typed'
  <2>1. /\ created' \in 0 .. MaxQueues /\ file' \in [Peers -> 0 .. MaxQueues]
        /\ file'[a] \in 1 .. MaxQueues
    BY <1>3, <1>a, CreateTypes DEF OpenOut
  <2>2. pc' = [pc EXCEPT ![a] = "open_in"] /\ out' = [out EXCEPT ![a] = file'[a]]
    BY <1>3 DEF OpenOut, Goto
  <2>3. TypeOK'
    BY <1>3, <1>a, <1>b, <2>1, <2>2 DEF OpenOut, Places
  <2>4. \A p \in Peers : Opened(p)'
    BY <1>3, <1>a, <1>c, <2>1, <2>2 DEF OpenOut, Opened, Active
  <2> QED
    BY <2>3, <2>4 DEF Typed
<1>4. ASSUME NEW a \in Peers, OpenIn(a)
      PROVE  Typed'
  <2>1. /\ created' \in 0 .. MaxQueues /\ file' \in [Peers -> 0 .. MaxQueues]
        /\ file'[Other(a)] \in 1 .. MaxQueues
    BY <1>4, <1>a, Pair, CreateTypes DEF OpenIn, InName
  <2>2. pc' = [pc EXCEPT ![a] = "loop"] /\ in' = [in EXCEPT ![a] = file'[Other(a)]]
    BY <1>4 DEF OpenIn, InName, Goto
  <2>5. pc[a] = "open_in" /\ UNCHANGED <<queue, out, i, g_stop, bounds, got>>
    BY <1>4 DEF OpenIn
  <2>6. apart' \in BOOLEAN
    BY <1>4, <1>a DEF OpenIn
  <2>7. in' \in [Peers -> 0 .. MaxQueues] /\ pc' \in [Peers -> Places] /\ in'[a] # 0
    BY SMTT(30), <1>a, <2>1, <2>2 DEF Places
  <2>3. TypeOK'
    BY <1>a, <1>b, <2>1, <2>5, <2>6, <2>7
  <2>4. \A p \in Peers : Opened(p)'
    BY <1>a, <1>c, <2>2, <2>5, <2>7 DEF Opened, Active
  <2> QED
    BY <2>3, <2>4 DEF Typed
<1>5. ASSUME NEW a \in Peers, Loop(a)
      PROVE  Typed'
  <2>1. pc[a] = "loop" /\ (pc' = [pc EXCEPT ![a] = "end"] \/ pc' = [pc EXCEPT ![a] = "send"])
    BY <1>5 DEF Loop, Goto
  <2>2. TypeOK'
    BY <1>5, <1>a, <1>b, <2>1 DEF Loop, Places
  <2>3. \A p \in Peers : Opened(p)'
    BY <1>5, <1>a, <1>d, <2>1 DEF Loop, Active
  <2> QED
    BY <2>2, <2>3 DEF Typed
<1>6. ASSUME NEW a \in Peers, Send(a)
      PROVE  Typed'
  <2>1. pc[a] = "send" /\ pc' = [pc EXCEPT ![a] = "receive"]
    BY <1>6 DEF Send, AfterSend, Goto
  <2>2. /\ queue' \in [1 .. MaxQueues -> Seq(Contents)]
        /\ \A k \in 1 .. MaxQueues : Len(queue'[k]) <= Capacity
    BY <1>6, <1>a, <1>c, <2>1, SendTypes, MessageTypes DEF Send, Opened, Active, Contents
  <2>3. TypeOK'
    BY <1>6, <1>a, <1>b, <2>1, <2>2 DEF Send, Places
  <2>4. \A p \in Peers : Opened(p)'
    BY <1>6, <1>a, <1>d, <2>1 DEF Send, Active
  <2> QED
    BY <2>3, <2>4 DEF Typed
<1>7. ASSUME NEW a \in Peers, Receive(a)
      PROVE  Typed'
  <2>1. /\ pc[a] = "receive" /\ in[a] \in 1 .. MaxQueues
        /\ queue[in[a]] # <<>> /\ queue' = [queue EXCEPT ![in[a]] = Tail(@)]
    BY <1>7, <1>a, <1>c DEF Receive, Opened, Active
  <2>2. /\ queue' \in [1 .. MaxQueues -> Seq(Contents)]
        /\ \A k \in 1 .. MaxQueues : Len(queue'[k]) <= Capacity
        /\ Head(queue[in[a]]) \in Contents
    BY <1>a, <2>1, TakeTypes
  <2>3. CASE Head(queue[in[a]]) = End
    <3>1. pc' = [pc EXCEPT ![a] = "end"] /\ UNCHANGED <<got, i>>
      BY <1>7, <2>3 DEF Receive, IsEnd, Goto
    <3>2. TypeOK'
      BY <1>7, <1>a, <1>b, <2>2, <3>1 DEF Receive, Places
    <3>3. \A p \in Peers : Opened(p)'
      BY <1>7, <1>a, <1>d, <2>1, <3>1 DEF Receive, Active
    <3> QED
      BY <3>2, <3>3 DEF Typed
  <2>4. CASE Head(queue[in[a]]) # End
    <3>1. /\ pc' = [pc EXCEPT ![a] = "loop"]
          /\ got' = [got EXCEPT ![a] = Append(@, Head(queue[in[a]]))]
          /\ i' = [i EXCEPT ![a] = @ + 1]
      BY <1>7, <2>4 DEF Receive, IsEnd, Goto
    <3>2. Head(queue[in[a]]) \in Messages
      BY <2>2, <2>4 DEF Contents
    <3>3. got' \in [Peers -> Seq(Messages)]
      BY <1>a, <3>1, <3>2, AppendProperties
    <3>4. TypeOK'
      BY SMTT(30), <1>7, <1>a, <1>b, <2>2, <3>1, <3>3 DEF Receive, Places
    <3>5. \A p \in Peers : Opened(p)'
      BY <1>7, <1>a, <1>d, <2>1, <3>1 DEF Receive, Active
    <3> QED
      BY <3>4, <3>5 DEF Typed
  <2> QED
    BY <2>3, <2>4
<1>8. ASSUME NEW a \in Peers, SayEnd(a)
      PROVE  Typed'
  <2>1. pc[a] = "end" /\ pc' = [pc EXCEPT ![a] = "unlink"]
    BY <1>8 DEF SayEnd, Goto
  <2>2. /\ queue' \in [1 .. MaxQueues -> Seq(Contents)]
        /\ \A k \in 1 .. MaxQueues : Len(queue'[k]) <= Capacity
    BY <1>8, <1>a, <1>c, <2>1, SendTypes DEF SayEnd, Opened, Active, Contents
  <2>3. TypeOK'
    BY <1>8, <1>a, <1>b, <2>1, <2>2 DEF SayEnd, Places
  <2>4. \A p \in Peers : Opened(p)'
    BY <1>8, <1>a, <1>d, <2>1 DEF SayEnd, Active
  <2> QED
    BY <2>3, <2>4 DEF Typed
<1>9. ASSUME NEW a \in Peers, Unlink(a)
      PROVE  Typed'
  <2>1. /\ pc' = [pc EXCEPT ![a] = "waitpid"] \/ pc' = [pc EXCEPT ![a] = "done"]
        /\ file' = [file EXCEPT ![a] = 0]
    BY <1>9 DEF Unlink, Goto, mq_unlink
  <2>4. pc' \in [Peers -> Places] /\ file' \in [Peers -> 0 .. MaxQueues]
    <3>1. 0 \in 0 .. MaxQueues
      BY <1>a
    <3> QED
      BY <1>a, <1>e, <2>1, <3>1 DEF Places
  <2>2. TypeOK'
    BY <1>9, <1>a, <1>b, <2>4 DEF Unlink
  <2>3. \A p \in Peers : Opened(p)'
    BY <1>9, <1>a, <1>d, <2>1 DEF Unlink
  <2> QED
    BY <2>2, <2>3 DEF Typed
<1>10. ASSUME NEW a \in Peers, Signal(a)
       PROVE  Typed'
  <2>1. \/ pc' = pc
        \/ /\ pc[a] \in {"send", "receive", "end"}
           /\ pc' = [pc EXCEPT ![a] = "end"] \/ pc' = [pc EXCEPT ![a] = "unlink"]
        \/ pc' = [pc EXCEPT ![a] = "done"]
    BY <1>10 DEF Signal, Interrupted, Goto
  <2>4. pc' \in [Peers -> Places] /\ g_stop' \in [Peers -> BOOLEAN] /\ signals' \in Nat
    <3>1. pc' \in [Peers -> Places]
      BY <1>a, <1>e, <2>1 DEF Places
    <3>2. g_stop' = [g_stop EXCEPT ![a] = TRUE] /\ signals' = signals + 1
      BY <1>10 DEF Signal
    <3> QED
      BY <1>a, <3>1, <3>2
  <2>2. TypeOK'
    BY <1>10, <1>a, <1>b, <2>4 DEF Signal
  <2>3. \A p \in Peers : Opened(p)'
    BY <1>10, <1>a, <1>d, <2>1 DEF Signal, Active
  <2> QED
    BY <2>2, <2>3 DEF Typed
<1>11. ASSUME NEW a \in Peers, Kill(a)
       PROVE  Typed'
  <2>1. pc' = [pc EXCEPT ![a] = "killed"]
    BY <1>11 DEF Kill, Goto
  <2>2. TypeOK'
    BY <1>11, <1>a, <1>b, <2>1 DEF Kill, Places
  <2>3. \A p \in Peers : Opened(p)'
    BY <1>11, <1>a, <1>d, <2>1 DEF Kill
  <2> QED
    BY <2>2, <2>3 DEF Typed
<1>12. CASE UNCHANGED vars
  BY <1>12, <1>a, <1>b, <1>d DEF vars, Typed
<1> QED
  BY <1>1, <1>2, <1>3, <1>4, <1>5, <1>6, <1>7, <1>8, <1>9, <1>10, <1>11, <1>12 DEF Next, Step
LEMMA TypedStays == Spec => []Typed
BY InitTyped, TypedStep, PTL DEF Spec

-----------------------------------------------------------------------------
(* Which queue a name stands for and who has it open.  A process unlinks   *)
(* the name it writes under and no other, so the queue its reader has open *)
(* is the one it writes to, as long as it writes.                          *)

Names(p) ==
  LET q == Other(p) IN
  /\ {file[p], out[p], in[p]} \subseteq 0 .. created
  /\ pc[p] \in Active => file[p] = out[p]
  /\ out[p] # 0 => out[p] \notin {file[q], in[p], out[q]}
  /\ in[p] # 0 => in[p] \notin {file[p], in[q]}
  /\ file[p] # 0 => file[p] # file[q]
  /\ in[p] # 0 => file[q] \in {0, in[p]}
  /\ in[p] # 0 /\ pc[q] \in Active \cup {"open_out"} => file[q] = in[p]

Unmade == \A k \in 1 .. MaxQueues : k > created => queue[k] = <<>>

Structure == Unmade /\ \A p \in Peers : Names(p)

(* No process comes to use or open a queue. *)
Settles ==
  \A p \in Peers : /\ pc'[p] \in Active => pc[p] \in Active
                   /\ pc'[p] = "open_out" => pc[p] = "open_out"

LEMMA NamesStill ==
  ASSUME Structure, Settles, UNCHANGED <<file, out, in, created>>, NEW p \in Peers
  PROVE  Names(p)'
BY Pair DEF Structure, Names, Settles

(* What the steps of process a that open nothing do to pc. *)
LEMMA SettlesStep ==
  ASSUME Typed, Waited \/ \E a \in Peers : \/ Loop(a) \/ Send(a) \/ Receive(a) \/ SayEnd(a)
                                           \/ Signal(a) \/ Kill(a)
  PROVE  Settles /\ UNCHANGED <<file, out, in, created, runs>>
<1> USE DEF kernel, process, bounds
<1>1. pc \in [Peers -> Places]
  BY DEF Typed, TypeOK, Places
<1>2. /\ UNCHANGED <<file, out, in, created, runs>>
      /\ \/ pc' = pc
         \/ \E a \in Peers : /\ pc[a] \in {"loop", "send", "receive", "end"}
                             /\ \E l \in Active \ {"open_in"} : pc' = [pc EXCEPT ![a] = l]
         \/ \E a \in Peers : \E l \in {"done", "killed"} : pc' = [pc EXCEPT ![a] = l]
  <2>1. CASE Waited
    BY <2>1, TwoPeers DEF Waited, Goto
  <2>2. ASSUME NEW a \in Peers, Loop(a) \/ Send(a) \/ SayEnd(a)
        PROVE  <1>2
    BY <2>2 DEF Loop, Send, SayEnd, AfterSend, Goto, Active
  <2>3. ASSUME NEW a \in Peers, Receive(a)
        PROVE  <1>2
    BY <2>3 DEF Receive, Goto, Active
  <2>4. ASSUME NEW a \in Peers, Signal(a) \/ Kill(a)
        PROVE  <1>2
    BY <2>4 DEF Signal, Interrupted, Kill, Goto, Active
  <2> QED
    BY <2>1, <2>2, <2>3, <2>4
<1>3. Settles
  BY <1>1, <1>2 DEF Settles, Active
<1> QED
  BY <1>2, <1>3

LEMMA NamesAfterOpenOut ==
  ASSUME Typed, Structure, NEW a \in Peers, OpenOut(a), NEW p \in Peers
  PROVE  Names(p)'
<1> DEFINE b == Other(a)
<1>1. /\ file \in [Peers -> 0 .. MaxQueues] /\ out \in [Peers -> 0 .. MaxQueues]
      /\ in \in [Peers -> 0 .. MaxQueues] /\ pc \in [Peers -> Places]
      /\ created \in Nat /\ MaxQueues \in Nat
  BY SMTT(30), Bounds DEF Bounds, Typed, TypeOK, Places
<1>2. /\ pc[a] = "open_out" /\ pc' = [pc EXCEPT ![a] = "open_in"]
      /\ out' = [out EXCEPT ![a] = file'[a]]
      /\ UNCHANGED in /\ in[a] = 0 /\ out[a] = 0
  BY DEF OpenOut, Goto, process, Typed, Opened
<1>3. /\ b \in Peers /\ b # a /\ Other(b) = a /\ (p = a \/ p = b)
  BY Pair
<1>4. /\ file'[b] = file[b] /\ file'[a] # 0 /\ created <= created' /\ created' \in Nat
      /\ \/ file[a] = 0 /\ file'[a] = created + 1 /\ created' = created + 1
         \/ file[a] # 0 /\ file'[a] = file[a] /\ created' = created
  BY <1>1, <1>3, CreateTypes DEF OpenOut, Typed
<1>5. Names(a) /\ Names(b)
  BY <1>3 DEF Structure
<1> HIDE DEF b
<1>6. /\ {file[a], out[a], in[a], file[b], out[b], in[b]} \subseteq 0 .. created
      /\ created + 1 \notin {file[a], out[a], in[a], file[b], out[b], in[b]}
  <2>1. {file[a], out[a], in[a], file[b], out[b], in[b]} \subseteq 0 .. created
    BY <1>5 DEF Names
  <2> QED
    BY <1>1, <2>1
<1>7. file'[a] # 0 /\ file'[a] \notin {file[b], out[b]} /\ file'[a] \in 0 .. created'
  BY <1>1, <1>3, <1>4, <1>5, <1>6 DEF Names, b
<1>8. in[b] # 0 => in[b] = file'[a]
  BY <1>2, <1>3, <1>4, <1>5 DEF Names
<1>9. \A x \in 0 .. created : x \in 0 .. created'
  BY <1>1, <1>4
<1>10. CASE p = a
  BY <1>1, <1>2, <1>3, <1>4, <1>5, <1>6, <1>7, <1>8, <1>9, <1>10 DEF Names, b
<1>11. CASE p = b
  BY <1>1, <1>2, <1>3, <1>4, <1>5, <1>6, <1>7, <1>8, <1>9, <1>11 DEF Names
<1> QED
  BY <1>3, <1>10, <1>11

LEMMA NamesAfterOpenIn ==
  ASSUME Typed, Structure, NEW a \in Peers, OpenIn(a), NEW p \in Peers
  PROVE  Names(p)'
<1> DEFINE b == Other(a)
<1>1. /\ file \in [Peers -> 0 .. MaxQueues] /\ out \in [Peers -> 0 .. MaxQueues]
      /\ in \in [Peers -> 0 .. MaxQueues] /\ pc \in [Peers -> Places]
      /\ created \in Nat /\ MaxQueues \in Nat
  BY SMTT(30), Bounds DEF Bounds, Typed, TypeOK, Places
<1>2. /\ pc[a] = "open_in" /\ pc' = [pc EXCEPT ![a] = "loop"]
      /\ in' = [in EXCEPT ![a] = file'[b]]
      /\ UNCHANGED out /\ in[a] = 0 /\ out[a] # 0
  BY DEF OpenIn, InName, Goto, Typed, Opened, Active
<1>3. /\ b \in Peers /\ b # a /\ Other(b) = a /\ (p = a \/ p = b)
  BY Pair
<1>4. /\ file'[a] = file[a] /\ file'[b] # 0 /\ created <= created' /\ created' \in Nat
      /\ \/ file[b] = 0 /\ file'[b] = created + 1 /\ created' = created + 1
         \/ file[b] # 0 /\ file'[b] = file[b] /\ created' = created
  BY <1>1, <1>3, CreateTypes DEF OpenIn, InName, Typed
<1>5. Names(a) /\ Names(b)
  BY <1>3 DEF Structure
<1> HIDE DEF b
<1>6. /\ {file[a], out[a], in[a], file[b], out[b], in[b]} \subseteq 0 .. created
      /\ created + 1 \notin {file[a], out[a], in[a], file[b], out[b], in[b]}
  <2>1. {file[a], out[a], in[a], file[b], out[b], in[b]} \subseteq 0 .. created
    BY <1>5 DEF Names
  <2> QED
    BY <1>1, <2>1
<1>7. file'[b] # 0 /\ file'[b] \notin {file[a], out[a], in[b]} /\ file'[b] \in 0 .. created'
  BY <1>1, <1>3, <1>4, <1>5, <1>6 DEF Names, b
<1>8. pc[b] \in Active => file'[b] = out[b]
  BY <1>3, <1>4, <1>5 DEF Names, Typed, Opened
<1>9. \A x \in 0 .. created : x \in 0 .. created'
  BY <1>1, <1>4
<1>10. CASE p = a
  BY <1>1, <1>2, <1>3, <1>4, <1>5, <1>6, <1>7, <1>8, <1>9, <1>10 DEF Names, b, Active
<1>11. CASE p = b
  BY <1>1, <1>2, <1>3, <1>4, <1>5, <1>6, <1>7, <1>8, <1>9, <1>11 DEF Names, Active
<1> QED
  BY <1>3, <1>10, <1>11

LEMMA UnmadeStep == ASSUME Typed, Structure, [Next]_vars PROVE Unmade'
<1> USE DEF kernel, process, bounds
<1>1. /\ created \in Nat /\ created <= created' /\ created' \in Nat
      /\ UNCHANGED queue
      => Unmade'
  BY DEF Structure, Unmade
<1>2. created \in Nat /\ queue \in [1 .. MaxQueues -> Seq(Contents)] /\ TypeOK
  BY Bounds DEF Bounds, Typed, TypeOK, Contents
<1>3. ASSUME NEW a \in Peers, OpenOut(a) \/ OpenIn(a)
      PROVE  Unmade'
  <2>1. created <= created' /\ created' \in Nat
    BY <1>2, <1>3, Pair, CreateTypes, Bounds DEF OpenOut, OpenIn, InName, Bounds
  <2> QED
    BY <1>1, <1>2, <1>3, <2>1 DEF OpenOut, OpenIn
<1>4. ASSUME NEW a \in Peers, Send(a) \/ SayEnd(a)
      PROVE  Unmade'
  <2>1. /\ UNCHANGED created
        /\ \E m : queue' = [queue EXCEPT ![out[a]] = Append(@, m)]
    BY <1>4 DEF Send, SayEnd, mq_send
  <2>2. out[a] \in 0 .. created
    BY DEF Structure, Names
  <2> QED
    BY <1>2, <2>1, <2>2 DEF Structure, Unmade
<1>5. ASSUME NEW a \in Peers, Receive(a)
      PROVE  Unmade'
  <2>1. UNCHANGED created /\ queue' = [queue EXCEPT ![in[a]] = Tail(@)]
    BY <1>5 DEF Receive
  <2>2. in[a] \in 0 .. created
    BY DEF Structure, Names
  <2> QED
    BY <1>2, <2>1, <2>2 DEF Structure, Unmade
<1>6. CASE UNCHANGED <<queue, created>>
  BY <1>1, <1>2, <1>6
<1> QED
  BY <1>3, <1>4, <1>5, <1>6
  DEF Next, Step, Start, Waited, Loop, Unlink, Signal, Kill, vars

LEMMA StructureStep == ASSUME Typed, Structure, [Next]_vars PROVE Structure'
<1> USE DEF kernel, process, bounds
<1> SUFFICES ASSUME NEW p \in Peers PROVE Names(p)'
  BY UnmadeStep DEF Structure
<1>1. CASE Start
  <2>1. /\ UNCHANGED <<file, created>> /\ created \in Nat
        /\ out' = [r \in Peers |-> 0] /\ in' = [r \in Peers |-> 0]
        /\ \A r \in Peers : pc'[r] \in {"open_out", "off"}
    BY SMTT(30), <1>1, Bounds DEF Start, Typed, TypeOK, Bounds, Peers
  <2> QED
    BY <2>1, Pair DEF Structure, Names, Active
<1>2. ASSUME NEW a \in Peers, OpenOut(a) \/ OpenIn(a)
      PROVE  Names(p)'
  BY <1>2, NamesAfterOpenOut, NamesAfterOpenIn
<1>3. ASSUME NEW a \in Peers, Unlink(a)
      PROVE  Names(p)'
  <2>1. /\ file' = [file EXCEPT ![a] = 0] /\ UNCHANGED <<created, out, in>>
        /\ pc' = [pc EXCEPT ![a] = "waitpid"] \/ pc' = [pc EXCEPT ![a] = "done"]
    BY <1>3 DEF Unlink, mq_unlink, Goto
  <2>3. /\ file \in [Peers -> 0 .. MaxQueues] /\ pc \in [Peers -> Places] /\ created \in Nat
    BY SMTT(30), Bounds DEF Typed, TypeOK, Bounds, Places
  <2>2. Names(a) /\ Names(Other(a)) /\ (p = a \/ p = Other(a))
    BY Pair DEF Structure
  <2> QED
    BY <2>1, <2>2, <2>3, Pair DEF Names, Active
<1>4. CASE Waited \/ \E a \in Peers : \/ Loop(a) \/ Send(a) \/ Receive(a) \/ SayEnd(a)
                                      \/ Signal(a) \/ Kill(a)
  BY <1>4, SettlesStep, NamesStill
<1>5. CASE UNCHANGED vars
  BY <1>5, NamesStill DEF vars, Settles
<1> QED
  BY <1>1, <1>2, <1>3, <1>4, <1>5 DEF Next, Step

LEMMA StructureInit == Init => Structure
BY Bounds DEF Bounds, Init, Structure, Unmade, Names, Active

-----------------------------------------------------------------------------
(* What a process has printed and what it will read next, in the order the *)
(* other one wrote it, over all the runs.                                  *)

(* Message m of process q is written: of an earlier run or round, or of    *)
(* this round with mq_send behind q.                                       *)
Past(m, q) ==
  \/ m.run < runs
  \/ m.run = runs /\ m.i < i[q]
  \/ m.run = runs /\ m.i = i[q] /\ pc[q] \notin {"open_out", "open_in", "loop", "send"}

Reading(p) == IF in[p] # 0 THEN in[p] ELSE file[Other(p)]
Unread(p) == IF Reading(p) # 0 THEN queue[Reading(p)] ELSE <<>>

(* The messages among what is printed and what is yet to read, and their    *)
(* order.                                                                   *)
Held(g, w) == {g[k] : k \in DOMAIN g} \cup ({w[j] : j \in DOMAIN w} \ {End})
InOrder(g, w) ==
  /\ \A k, l \in DOMAIN g : k < l => Earlier(g[k], g[l])
  /\ \A k \in DOMAIN g, j \in DOMAIN w : w[j] # End => Earlier(g[k], w[j])
  /\ \A j, l \in DOMAIN w : j < l /\ w[j] # End /\ w[l] # End => Earlier(w[j], w[l])

Ordered(p) ==
  /\ InOrder(got[p], Unread(p))
  /\ \A m \in Held(got[p], Unread(p)) : m.from = Other(p) /\ Past(m, Other(p))

(* The order survives the loss of what is to read, ...                     *)
LEMMA LostInOrder ==
  ASSUME NEW g, NEW w, InOrder(g, w)
  PROVE  InOrder(g, <<>>) /\ Held(g, <<>>) \subseteq Held(g, w)
BY DEF InOrder, Held

(* ... a message written, ...                                              *)
LEMMA AppendInOrder ==
  ASSUME NEW g, NEW w \in Seq(Contents), NEW m \in Contents, InOrder(g, w),
         m # End => \A n \in Held(g, w) : Earlier(n, m)
  PROVE  /\ InOrder(g, Append(w, m))
         /\ \A n \in Held(g, Append(w, m)) : n \in Held(g, w) \/ (n = m /\ m # End)
<1> DEFINE v == Append(w, m)
<1>1. /\ DOMAIN v = 1 .. Len(w) + 1 /\ DOMAIN w = 1 .. Len(w) /\ Len(w) \in Nat
      /\ \A j \in 1 .. Len(w) : v[j] = w[j]
      /\ v[Len(w) + 1] = m
  BY AppendProperties
<1> HIDE DEF v
<1>2. \A k \in DOMAIN g, j \in DOMAIN v : v[j] # End => Earlier(g[k], v[j])
  BY <1>1 DEF InOrder, Held
<1>3. \A j, l \in DOMAIN v : j < l /\ v[j] # End /\ v[l] # End => Earlier(v[j], v[l])
  BY <1>1 DEF InOrder, Held
<1>4. \A n \in Held(g, v) : n \in Held(g, w) \/ (n = m /\ m # End)
  BY <1>1 DEF Held
<1> QED
  BY <1>2, <1>3, <1>4 DEF InOrder, v

(* ... an end read ...                                                     *)
LEMMA TailInOrder ==
  ASSUME NEW g, NEW w \in Seq(Contents), w # <<>>, InOrder(g, w)
  PROVE  InOrder(g, Tail(w)) /\ Held(g, Tail(w)) \subseteq Held(g, w)
<1> DEFINE v == Tail(w)
<1>1. /\ DOMAIN v = 1 .. Len(w) - 1 /\ DOMAIN w = 1 .. Len(w) /\ Len(w) \in Nat
      /\ \A j \in 1 .. Len(w) - 1 : v[j] = w[j + 1]
  BY HeadTailProperties
<1> HIDE DEF v
<1>2. \A j \in DOMAIN v : j + 1 \in DOMAIN w /\ v[j] = w[j + 1]
  BY <1>1
<1>3. \A j, l \in DOMAIN v : j < l => j + 1 < l + 1
  BY <1>1
<1>4. InOrder(g, v)
  BY <1>2, <1>3 DEF InOrder
<1>5. Held(g, v) \subseteq Held(g, w)
  BY <1>2 DEF Held
<1> QED
  BY <1>4, <1>5 DEF v

(* ... and a message read and printed.                                     *)
LEMMA MoveInOrder ==
  ASSUME NEW g \in Seq(Messages), NEW w \in Seq(Contents), w # <<>>, Head(w) # End, InOrder(g, w)
  PROVE  /\ InOrder(Append(g, Head(w)), Tail(w))
         /\ Held(Append(g, Head(w)), Tail(w)) \subseteq Held(g, w)
<1> DEFINE m == Head(w)
           v == Tail(w)
           h == Append(g, m)
<1>1. /\ DOMAIN v = 1 .. Len(w) - 1 /\ DOMAIN w = 1 .. Len(w) /\ Len(w) \in Nat /\ 1 \in DOMAIN w
      /\ \A j \in 1 .. Len(w) - 1 : v[j] = w[j + 1]
      /\ m = w[1] /\ m \in Contents
  BY HeadTailProperties
<1>2. m \in Messages /\ Earlier(m, m) \in BOOLEAN
  BY <1>1 DEF Contents, Earlier
<1> HIDE DEF m, v
<1>3. /\ DOMAIN h = 1 .. Len(g) + 1 /\ DOMAIN g = 1 .. Len(g) /\ Len(g) \in Nat
      /\ \A k \in 1 .. Len(g) : h[k] = g[k]
      /\ h[Len(g) + 1] = m
  BY <1>2, AppendProperties
<1> HIDE DEF h
<1>4. \A j \in DOMAIN v : j + 1 \in DOMAIN w /\ v[j] = w[j + 1] /\ 1 < j + 1
  BY <1>1
<1>5. \A j, l \in DOMAIN v : j < l => j + 1 < l + 1
  BY <1>1
<1>6. \A k \in DOMAIN g : Earlier(g[k], m)
  BY <1>1 DEF InOrder, m
<1>7. \A j \in DOMAIN v : v[j] # End => Earlier(m, v[j])
  BY <1>1, <1>4 DEF InOrder, m
<1>8. \A k, l \in DOMAIN h : k < l => Earlier(h[k], h[l])
  BY <1>3, <1>6 DEF InOrder
<1>9. \A k \in DOMAIN h, j \in DOMAIN v : v[j] # End => Earlier(h[k], v[j])
  BY <1>3, <1>4, <1>7 DEF InOrder
<1>10. \A j, l \in DOMAIN v : j < l /\ v[j] # End /\ v[l] # End => Earlier(v[j], v[l])
  BY <1>4, <1>5 DEF InOrder
<1>11. Held(h, v) \subseteq Held(g, w)
  <2>1. ASSUME NEW n \in Held(h, v)
        PROVE  n \in Held(g, w)
    <3>1. CASE \E k \in DOMAIN h : n = h[k]
      BY <1>1, <1>3, <3>1 DEF Held, m
    <3>2. CASE n # End /\ \E j \in DOMAIN v : n = v[j]
      BY <1>4, <3>2 DEF Held
    <3> QED
      BY <2>1, <3>1, <3>2 DEF Held
  <2> QED
    BY <2>1
<1> QED
  BY <1>8, <1>9, <1>10, <1>11 DEF InOrder, h, m, v

(* What is written stays written. *)
LEMMA PastGrows ==
  ASSUME Typed, [Next]_vars, NEW q \in Peers, NEW m \in Messages, Past(m, q)
  PROVE  Past(m, q)'
<1> USE DEF kernel, process, bounds
<1>1. /\ runs \in Nat /\ i \in [Peers -> Nat] /\ pc \in [Peers -> Places]
      /\ m.run \in Nat /\ m.i \in Nat
  BY DEF Typed, TypeOK, Places, Messages
<1>2. CASE Start
  BY <1>1, <1>2 DEF Start, Past
<1>3. CASE /\ UNCHANGED <<runs, i>>
           /\ pc'[q] \in {"open_out", "open_in", "loop", "send"}
              => pc[q] \in {"open_out", "open_in", "loop", "send"}
  BY <1>3 DEF Past
<1>4. ASSUME NEW a \in Peers, Receive(a)
      PROVE  Past(m, q)'
  <2>1. CASE Head(queue[in[a]]) = End
    <3>1. pc' = [pc EXCEPT ![a] = "end"] /\ UNCHANGED <<runs, i>>
      BY <1>4, <2>1 DEF Receive, IsEnd, Goto
    <3> QED
      BY <1>1, <1>3, <3>1
  <2>2. CASE Head(queue[in[a]]) # End
    <3>1. /\ pc' = [pc EXCEPT ![a] = "loop"] /\ UNCHANGED runs
          /\ i' = [i EXCEPT ![a] = @ + 1]
      BY <1>4, <2>2 DEF Receive, IsEnd, Goto
    <3> QED
      BY <1>1, <3>1 DEF Past
  <2> QED
    BY <2>1, <2>2
<1>5. ASSUME NEW a \in Peers,
             OpenOut(a) \/ OpenIn(a) \/ Loop(a) \/ Send(a) \/ SayEnd(a) \/ Unlink(a)
      PROVE  Past(m, q)'
  <2>1. UNCHANGED <<runs, i>>
    BY <1>5 DEF OpenOut, OpenIn, Loop, Send, SayEnd, Unlink
  <2>2. \/ /\ pc[a] \in {"open_out", "open_in", "loop", "send"}
           /\ \E l \in Places : pc' = [pc EXCEPT ![a] = l]
        \/ \E l \in {"unlink", "waitpid", "done"} : pc' = [pc EXCEPT ![a] = l]
    BY <1>5 DEF OpenOut, OpenIn, Loop, Send, AfterSend, SayEnd, Unlink, Goto, Places
  <2> QED
    BY <1>1, <1>3, <2>1, <2>2
<1>6. ASSUME NEW a \in Peers, Signal(a) \/ Kill(a)
      PROVE  Past(m, q)'
  <2>1. UNCHANGED <<runs, i>>
    BY <1>6 DEF Signal, Kill
  <2>2. pc' = pc \/ \E l \in {"end", "unlink", "done", "killed"} : pc' = [pc EXCEPT ![a] = l]
    BY <1>6 DEF Signal, Interrupted, Kill, Goto
  <2> QED
    BY <1>1, <1>3, <2>1, <2>2
<1>7. CASE Waited
  BY <1>1, <1>3, <1>7 DEF Waited, Goto
<1>8. CASE UNCHANGED vars
  BY <1>3, <1>8 DEF vars
<1> QED
  BY <1>2, <1>4, <1>5, <1>6, <1>7, <1>8 DEF Next, Step

(* The types of what a process has to read. *)
LEMMA UnreadTypes ==
  ASSUME Typed, NEW p \in Peers
  PROVE  /\ got[p] \in Seq(Messages) /\ Unread(p) \in Seq(Contents)
         /\ Reading(p) \in 0 .. MaxQueues
         /\ Reading(p) # 0 => Reading(p) \in 1 .. MaxQueues /\ Unread(p) = queue[Reading(p)]
<1>1. /\ in[p] \in 0 .. MaxQueues /\ file[Other(p)] \in 0 .. MaxQueues /\ MaxQueues \in Nat
      /\ queue \in [1 .. MaxQueues -> Seq(Contents)] /\ got[p] \in Seq(Messages)
  BY Pair, Bounds DEF Bounds, Typed, TypeOK, Contents
<1>2. Reading(p) \in 0 .. MaxQueues /\ (Reading(p) # 0 => Reading(p) \in 1 .. MaxQueues)
  BY <1>1 DEF Reading
<1>3. <<>> \in Seq(Contents)
  OBVIOUS
<1> QED
  BY <1>1, <1>2, <1>3 DEF Unread

(* A process that writes appends to what the other one is to read.  *)
LEMMA WritesToReader ==
  ASSUME Typed, Structure, NEW p \in Peers, pc[Other(p)] \in Active
  PROVE  Reading(p) = out[Other(p)] /\ Reading(p) # 0
<1> DEFINE q == Other(p)
<1>1. q \in Peers /\ Other(q) = p /\ Other(p) = q
  BY Pair
<1>2. Names(p) /\ Names(q) /\ Opened(q)
  BY <1>1 DEF Structure, Typed
<1> HIDE DEF q
<1> QED
  BY <1>1, <1>2 DEF Names, Opened, Reading, Active

(* The steps that neither read nor write a process' input leave it alone,  *)
(* or the process has another, empty, queue to read.                       *)
LEMMA UnreadStill ==
  ASSUME Typed, Structure, [Next]_vars, NEW p \in Peers,
         ~Send(Other(p)), ~SayEnd(Other(p)), ~Receive(p)
  PROVE  Unread(p)' \in {Unread(p), <<>>}
<1> USE DEF kernel, process, bounds
<1> DEFINE q == Other(p)
<1>1. /\ q \in Peers /\ Other(q) = p /\ Other(p) = q /\ q # p
      /\ \A r \in Peers : r = p \/ r = q
  BY Pair
<1>2. Names(p) /\ Names(q) /\ Opened(p) /\ Opened(q)
  BY <1>1 DEF Structure, Typed
<1> HIDE DEF q
<1>3. /\ file \in [Peers -> 0 .. MaxQueues] /\ in \in [Peers -> 0 .. MaxQueues]
      /\ created \in 0 .. MaxQueues /\ MaxQueues \in Nat
      /\ queue \in [1 .. MaxQueues -> Seq(Contents)] /\ TypeOK
  BY Bounds DEF Bounds, Typed, TypeOK, Contents
<1>4. Unread(p) = (IF in[p] # 0 THEN queue[in[p]] ELSE IF file[q] # 0 THEN queue[file[q]] ELSE <<>>)
  BY <1>1 DEF Unread, Reading
<1>5. Unread(p)' = (IF in'[p] # 0 THEN queue'[in'[p]]
                    ELSE IF file'[q] # 0 THEN queue'[file'[q]] ELSE <<>>)
  BY <1>1 DEF Unread, Reading
<1>6. CASE Start
  <2>1. in'[p] = 0 /\ UNCHANGED <<file, queue>>
    BY <1>6 DEF Start
  <2>2. in[p] # 0 => file[q] \in {0, in[p]}
    BY <1>1, <1>2 DEF Names
  <2> QED
    BY <1>4, <1>5, <2>1, <2>2
<1>7. CASE UNCHANGED <<file, in, queue>>
  BY <1>4, <1>5, <1>7
<1>8. ASSUME file'[q] # file[q], file[q] = 0, file'[q] = created + 1, created + 1 <= MaxQueues
      PROVE  queue[file'[q]] = <<>>
  BY <1>3, <1>8 DEF Structure, Unmade
<1>9. ASSUME NEW a \in Peers, OpenOut(a)
      PROVE  Unread(p)' \in {Unread(p), <<>>}
  <2>1. UNCHANGED <<in, queue>> /\ create_queue(a) /\ MaxQueues \in Nat
    BY <1>3, <1>9 DEF OpenOut
  <2>2. CASE a = p
    <3>1. file'[q] = file[q]
      BY <1>1, <1>3, <2>1, <2>2, CreateTypes
    <3> QED
      BY <1>4, <1>5, <2>1, <3>1
  <2>3. CASE a = q
    <3>1. \/ file[q] = 0 /\ file'[q] = created + 1 /\ created + 1 <= MaxQueues
          \/ file[q] # 0 /\ file' = file
      <4>1. /\ created' \in 0 .. MaxQueues
            /\ \/ file[q] = 0 /\ file'[q] = created + 1 /\ created' = created + 1
               \/ file[q] # 0 /\ file' = file /\ created' = created
        BY <1>1, <1>3, <2>1, <2>3, CreateTypes
      <4> QED
        BY <1>3, <4>1
    <3> QED
      BY <1>3, <1>4, <1>5, <1>8, <2>1, <3>1
  <2> QED
    BY <1>1, <2>2, <2>3
<1>10. ASSUME NEW a \in Peers, OpenIn(a)
       PROVE  Unread(p)' \in {Unread(p), <<>>}
  <2>1. /\ UNCHANGED queue /\ create_queue(Other(a)) /\ pc[a] = "open_in"
        /\ in' = [in EXCEPT ![a] = file'[Other(a)]]
    BY <1>10 DEF OpenIn, InName
  <2>2. CASE a = q
    <3>1. file'[q] = file[q] /\ in'[p] = in[p]
      BY <1>1, <1>3, <2>1, <2>2, CreateTypes
    <3> QED
      BY <1>4, <1>5, <2>1, <3>1
  <2>3. CASE a = p
    <3>1. /\ created' \in 0 .. MaxQueues /\ file'[q] \in 1 .. MaxQueues
          /\ \/ file[q] = 0 /\ file'[q] = created + 1 /\ created' = created + 1
             \/ file[q] # 0 /\ file' = file /\ created' = created
      BY <1>1, <1>3, <2>1, <2>3, CreateTypes
    <3>2. in[p] = 0 /\ in'[p] = file'[q] /\ file'[q] # 0
      BY <1>1, <1>2, <1>3, <2>1, <2>3, <3>1 DEF Opened
    <3>3. \/ file[q] = 0 /\ file'[q] = created + 1 /\ created + 1 <= MaxQueues
          \/ file[q] # 0 /\ file'[q] = file[q]
      BY <1>3, <3>1
    <3> QED
      BY <1>3, <1>4, <1>5, <1>8, <2>1, <3>2, <3>3
  <2> QED
    BY <1>1, <2>2, <2>3
<1>11. ASSUME NEW a \in Peers, Unlink(a)
       PROVE  Unread(p)' \in {Unread(p), <<>>}
  <2>1. file' = [file EXCEPT ![a] = 0] /\ UNCHANGED <<in, queue>>
    BY <1>11 DEF Unlink, mq_unlink
  <2> QED
    BY <1>1, <1>3, <1>4, <1>5, <2>1
<1>12. CASE Send(p) \/ SayEnd(p)
  <2>1. /\ UNCHANGED <<file, in>> /\ \A k \in 1 .. MaxQueues : k # out[p] => queue'[k] = queue[k]
    BY <1>3, <1>12 DEF Send, SayEnd, mq_send
  <2>2. out[p] \notin {file[q], in[p]}
    BY <1>1, <1>2, <1>12 DEF Names, Opened, Active, Send, SayEnd
  <2>3. in[p] \in 0 .. MaxQueues /\ file[q] \in 0 .. MaxQueues
    BY <1>1, <1>3
  <2> QED
    BY <1>3, <1>4, <1>5, <2>1, <2>2, <2>3
<1>13. CASE Receive(q)
  <2>1. /\ UNCHANGED <<file, in>> /\ \A k \in 1 .. MaxQueues : k # in[q] => queue'[k] = queue[k]
    BY <1>3, <1>13 DEF Receive
  <2>2. in[q] # 0 /\ in[q] # file[q] /\ (in[p] # 0 => in[p] # in[q])
    BY <1>1, <1>2, <1>13 DEF Names, Opened, Active, Receive
  <2>3. in[p] \in 0 .. MaxQueues /\ file[q] \in 0 .. MaxQueues
    BY <1>1, <1>3
  <2> QED
    BY <1>3, <1>4, <1>5, <2>1, <2>2, <2>3
<1>14. CASE Waited \/ \E a \in Peers : Loop(a) \/ Signal(a) \/ Kill(a)
  BY <1>7, <1>14 DEF Waited, Loop, Signal, Kill
<1>15. CASE UNCHANGED vars
  BY <1>7, <1>15 DEF vars
<1>16. ~Send(q) /\ ~SayEnd(q)
  BY <1>1
<1> QED
  BY <1>1, <1>6, <1>9, <1>10, <1>11, <1>12, <1>13, <1>14, <1>15, <1>16 DEF Next, Step

LEMMA HeldMessages ==
  ASSUME NEW g \in Seq(Messages), NEW w \in Seq(Contents)
  PROVE  Held(g, w) \subseteq Messages
BY DEF Held, Contents

(* What was there to read or printed before a step is still written after. *)
LEMMA StillPast ==
  ASSUME Typed, [Next]_vars, NEW p \in Peers, Ordered(p), NEW m \in Held(got[p], Unread(p))
  PROVE  m.from = Other(p) /\ Past(m, Other(p))'
<1>1. m \in Messages /\ Other(p) \in Peers
  BY UnreadTypes, HeldMessages, Pair
<1> QED
  BY <1>1, PastGrows DEF Ordered

LEMMA OrderWritten ==
  ASSUME Typed, Structure, [Next]_vars, NEW p \in Peers, Ordered(p),
         Send(Other(p)) \/ SayEnd(Other(p))
  PROVE  Ordered(p)'
<1> DEFINE q == Other(p)
<1>1. q \in Peers /\ Other(q) = p /\ p # q
  BY Pair
<1>2. /\ queue \in [1 .. MaxQueues -> Seq(Contents)] /\ Unread(p) \in Seq(Contents)
      /\ got[p] \in Seq(Messages) /\ pc \in [Peers -> Places]
  BY UnreadTypes DEF Typed, TypeOK, Contents, Places
<1>3. /\ Reading(p) = out[q] /\ Reading(p) # 0 /\ Reading(p) \in 1 .. MaxQueues
      /\ Unread(p) = queue[out[q]]
  BY UnreadTypes, WritesToReader DEF Send, SayEnd, Active
<1>4. UNCHANGED <<file, in, got, i, runs>>
  BY DEF Send, SayEnd, process, bounds
<1>5. PICK m \in {Message(q), End} :
         /\ queue' = [queue EXCEPT ![out[q]] = Append(@, m)]
         /\ m # End => pc[q] = "send" /\ pc' = [pc EXCEPT ![q] = "receive"]
  BY DEF Send, SayEnd, mq_send, AfterSend, Goto
<1>6. Unread(p)' = Append(Unread(p), m)
  <2>1. Reading(p)' = Reading(p) /\ Unread(p)' = queue'[Reading(p)]
    BY <1>3, <1>4 DEF Unread, Reading
  <2> QED
    BY <1>2, <1>3, <1>5, <2>1
<1>7. m \in Contents /\ Message(q) \in Messages /\ runs \in Nat /\ i[q] \in Nat
  BY <1>1, <1>5, MessageTypes DEF Contents, Typed, TypeOK
<1>8. m # End => m = Message(q)
  BY <1>5
<1> HIDE DEF q
(* Everything written before is of an earlier round. *)
<1>9. ASSUME NEW n \in Held(got[p], Unread(p)), m # End
      PROVE  Earlier(n, m)
  <2>1. pc[q] = "send" /\ m = Message(q)
    BY <1>5, <1>8, <1>9
  <2>2. Past(n, q)
    BY <1>9 DEF Ordered, q
  <2> QED
    BY <2>1, <2>2 DEF Past, Earlier, Message
<1>10. /\ InOrder(got[p], Append(Unread(p), m))
       /\ \A n \in Held(got[p], Append(Unread(p), m)) :
            n \in Held(got[p], Unread(p)) \/ (n = m /\ m # End)
  BY <1>2, <1>7, <1>9, AppendInOrder DEF Ordered
<1>11. m # End => m.from = q /\ Past(m, q)'
  <2>1. m # End => pc'[q] = "receive"
    BY <1>1, <1>2, <1>5
  <2> QED
    BY <1>4, <1>8, <2>1 DEF Past, Message
<1>12. \A n \in Held(got[p], Append(Unread(p), m)) : n.from = Other(p) /\ Past(n, Other(p))'
  BY <1>10, <1>11, StillPast DEF q
<1> QED
  BY <1>4, <1>6, <1>10, <1>12 DEF Ordered

LEMMA OrderRead ==
  ASSUME Typed, Structure, [Next]_vars, NEW p \in Peers, Ordered(p), Receive(p)
  PROVE  Ordered(p)'
<1>1. /\ queue \in [1 .. MaxQueues -> Seq(Contents)] /\ Unread(p) \in Seq(Contents)
      /\ got \in [Peers -> Seq(Messages)] /\ got[p] \in Seq(Messages)
  BY UnreadTypes DEF Typed, TypeOK, Contents
<1>2. in[p] # 0
  BY DEF Typed, Opened, Active, Receive
<1>3. Reading(p) = in[p] /\ in[p] \in 1 .. MaxQueues /\ Unread(p) = queue[in[p]]
  BY <1>2, UnreadTypes DEF Reading
<1>4. /\ Unread(p) # <<>> /\ queue' = [queue EXCEPT ![in[p]] = Tail(@)]
      /\ UNCHANGED <<file, in>>
  BY <1>3 DEF Receive
<1>5. Unread(p)' = Tail(Unread(p))
  BY <1>1, <1>2, <1>3, <1>4 DEF Unread, Reading
<1>6. CASE Head(Unread(p)) = End
  <2>1. got' = got
    BY <1>3, <1>6 DEF Receive, IsEnd
  <2>2. /\ InOrder(got[p], Tail(Unread(p)))
        /\ Held(got[p], Tail(Unread(p))) \subseteq Held(got[p], Unread(p))
    BY <1>1, <1>4, TailInOrder DEF Ordered
  <2> QED
    BY <1>5, <2>1, <2>2, StillPast DEF Ordered
<1>7. CASE Head(Unread(p)) # End
  <2>1. got'[p] = Append(got[p], Head(Unread(p)))
    BY <1>1, <1>3, <1>7 DEF Receive, IsEnd
  <2>2. /\ InOrder(got'[p], Tail(Unread(p)))
        /\ Held(got'[p], Tail(Unread(p))) \subseteq Held(got[p], Unread(p))
    BY <1>1, <1>4, <1>7, <2>1, MoveInOrder DEF Ordered
  <2> QED
    BY <1>5, <2>2, StillPast DEF Ordered
<1> QED
  BY <1>6, <1>7

LEMMA OrderedStep ==
  ASSUME Typed, Structure, [Next]_vars, NEW p \in Peers, Ordered(p)
  PROVE  Ordered(p)'
<1>1. CASE Send(Other(p)) \/ SayEnd(Other(p))
  BY <1>1, OrderWritten
<1>2. CASE Receive(p)
  BY <1>2, OrderRead
<1>3. CASE ~Send(Other(p)) /\ ~SayEnd(Other(p)) /\ ~Receive(p)
  <2>1. Unread(p)' \in {Unread(p), <<>>}
    BY <1>3, UnreadStill
  <2>2. got'[p] = got[p]
    <3>1. ASSUME NEW a \in Peers, Receive(a)
          PROVE  got'[p] = got[p]
      BY <1>3, <3>1 DEF Receive, Typed, TypeOK
    <3> QED
      BY <3>1 DEF Next, Step, Start, Waited, OpenOut, OpenIn, Loop, Send, SayEnd, Unlink, Signal,
                  Kill, vars
  <2>3. /\ InOrder(got[p], Unread(p)')
        /\ Held(got[p], Unread(p)') \subseteq Held(got[p], Unread(p))
    BY <2>1, LostInOrder DEF Ordered
  <2> QED
    BY <2>2, <2>3, StillPast DEF Ordered
<1> QED
  BY <1>1, <1>2, <1>3

LEMMA OrderedInit == ASSUME Init, NEW p \in Peers PROVE Ordered(p)
<1>1. got[p] = <<>> /\ Unread(p) = <<>>
  BY Pair DEF Init, Unread, Reading
<1> QED
  BY <1>1 DEF Ordered, InOrder, Held

-----------------------------------------------------------------------------
(* Each side prints the other side's messages in the order they were       *)
(* written, none twice, over all the runs and whatever is killed.          *)
THEOREM MessagesInOrder == Spec => []OrderKept
<1> DEFINE Inv == Typed /\ Structure /\ \A p \in Peers : Ordered(p)
<1>1. Init => Inv
  BY InitTyped, StructureInit, OrderedInit
<1>2. Inv /\ [Next]_vars => Inv'
  BY TypedStep, StructureStep, OrderedStep
<1>3. Inv => OrderKept
  <2> SUFFICES ASSUME Inv, NEW p \in Peers
               PROVE  /\ \A k \in DOMAIN got[p] : got[p][k].from = Other(p)
                      /\ \A k \in 1 .. Len(got[p]) - 1 : Earlier(got[p][k], got[p][k + 1])
    BY DEF OrderKept
  <2>1. got[p] \in Seq(Messages) /\ Ordered(p)
    BY DEF Typed, TypeOK
  <2>2. \A k \in 1 .. Len(got[p]) - 1 : k \in DOMAIN got[p] /\ k + 1 \in DOMAIN got[p] /\ k < k + 1
    BY <2>1
  <2> QED
    BY <2>1, <2>2 DEF Ordered, InOrder, Held
<1> QED
  BY <1>1, <1>2, <1>3, PTL DEF Spec

-----------------------------------------------------------------------------
(* One message of each side at a time.  While nobody was killed a queue    *)
(* holds the messages its writer has sent and its reader has not counted,  *)
(* and perhaps an end behind them; what earlier runs left is empty.        *)

(* Sequence w is r messages, then an end if e = 1. *)
Line(w, r, e) ==
  /\ r \in Nat /\ Len(w) = r + e
  /\ \A k \in 1 .. r : w[k] # End
  /\ e = 1 => w[r + 1] = End

(* Process p has sent s messages and e ends. *)
Sent(p, s, e) ==
  /\ pc[p] \in {"open_in", "loop", "send"} => s = i[p]
  /\ pc[p] = "receive" => s = i[p] + 1
  /\ pc[p] \in {"open_in", "loop", "send", "receive", "end"} => e = 0

Flow(p) ==
  \E s \in {i[p], i[p] + 1}, e \in {0, 1} :
    Sent(p, s, e) /\ Line(queue[out[p]], s - i[Other(p)], e)

Meeting(p) ==
  /\ in[p] # 0 => in[p] = (IF out[Other(p)] # 0 THEN out[Other(p)] ELSE file[Other(p)])
  /\ pc[p] \in {"waitpid", "done"} => out[p] # 0 /\ file[p] = 0
Flowing(p) == IF out[p] # 0 THEN Flow(p) ELSE i[p] = 0 /\ i[Other(p)] = 0

LeftEmpty(p) ==
  pc[p] # "killed" /\ (pc[p] \notin Active /\ file[p] # 0 => queue[file[p]] = <<>>)

Paired ==
  kills = 0 => /\ \A p \in Peers : LeftEmpty(p)
               /\ ~apart => \A p \in Peers : Meeting(p) /\ Flowing(p)

LEMMA LineSent ==
  ASSUME NEW w \in Seq(Contents), NEW r, Line(w, r, 0), NEW m \in Contents
  PROVE  /\ m # End => Line(Append(w, m), r + 1, 0)
         /\ m = End => Line(Append(w, m), r, 1)
<1>1. /\ Len(Append(w, m)) = Len(w) + 1 /\ Append(w, m)[Len(w) + 1] = m
      /\ \A k \in 1 .. Len(w) : Append(w, m)[k] = w[k]
  BY AppendProperties
<1>2. r \in Nat /\ Len(w) = r /\ \A k \in 1 .. r : w[k] # End
  BY DEF Line
<1> DEFINE v == Append(w, m)
<1> HIDE DEF v
<1>3. Len(v) = r + 1 /\ v[r + 1] = m /\ \A k \in 1 .. r : v[k] # End
  BY <1>1, <1>2 DEF v
<1>4. m # End => Line(v, r + 1, 0)
  BY <1>2, <1>3 DEF Line
<1>5. m = End => Line(v, r, 1)
  BY <1>2, <1>3 DEF Line
<1> QED
  BY <1>4, <1>5 DEF v

LEMMA LineTaken ==
  ASSUME NEW w \in Seq(Contents), NEW r, NEW e \in {0, 1}, Line(w, r, e), w # <<>>
  PROVE  /\ Head(w) # End => Line(Tail(w), r - 1, e)
         /\ Head(w) = End => r = 0 /\ Line(Tail(w), 0, 0)
<1>1. /\ Len(Tail(w)) = Len(w) - 1 /\ Len(w) \in Nat \ {0} /\ Head(w) = w[1]
      /\ \A k \in 1 .. Len(w) - 1 : Tail(w)[k] = w[k + 1]
  BY HeadTailProperties
<1>2. /\ r \in Nat /\ Len(w) = r + e /\ (e = 1 => w[r + 1] = End)
      /\ \A k \in 1 .. r : w[k] # End
  BY DEF Line
<1> DEFINE v == Tail(w)
           h == Head(w)
<1> HIDE DEF v, h
<1>3. /\ Len(v) = r + e - 1 /\ h = w[1] /\ r + e > 0
      /\ \A k \in 1 .. r + e - 1 : v[k] = w[k + 1]
  BY <1>1, <1>2 DEF v, h
<1>4. ASSUME h # End
      PROVE  Line(v, r - 1, e)
  <2>1. r > 0
    BY <1>2, <1>3, <1>4
  <2>2. r - 1 \in Nat /\ Len(v) = (r - 1) + e
    BY <1>2, <1>3, <2>1
  <2>3. \A k \in 1 .. r - 1 : v[k] # End
    BY <1>2, <1>3
  <2>4. e = 1 => v[(r - 1) + 1] = End
    BY <1>2, <1>3, <2>1
  <2> QED
    BY <2>2, <2>3, <2>4 DEF Line
<1>5. ASSUME h = End
      PROVE  r = 0 /\ Line(v, 0, 0)
  <2>1. r = 0
    <3>1. r # 0 => 1 \in 1 .. r
      BY <1>2
    <3> QED
      BY <1>2, <1>3, <1>5, <3>1
  <2>2. Len(v) = 0 + 0
    BY <1>3, <2>1
  <2> QED
    BY <2>1, <2>2 DEF Line
<1> QED
  BY <1>4, <1>5 DEF v, h

(* Only a kill leaves messages behind. *)
LEMMA LeftEmptyStep ==
  ASSUME Typed, Structure, [Next]_vars, kills' = 0, \A p \in Peers : LeftEmpty(p), NEW p \in Peers
  PROVE  LeftEmpty(p)'
<1> USE DEF kernel, process, bounds
<1> DEFINE q == Other(p)
<1>1. /\ q \in Peers /\ Other(q) = p /\ Other(p) = q /\ q # p
      /\ \A r \in Peers : r = p \/ r = q
  BY Pair
<1>2. Names(p) /\ Names(q) /\ Opened(p) /\ Opened(q) /\ LeftEmpty(p)
  BY <1>1 DEF Structure, Typed
<1> HIDE DEF q
<1>3. /\ file \in [Peers -> 0 .. MaxQueues] /\ pc \in [Peers -> Places] /\ kills \in Nat
      /\ created \in 0 .. MaxQueues /\ MaxQueues \in Nat
      /\ queue \in [1 .. MaxQueues -> Seq(Contents)] /\ TypeOK
  BY Bounds DEF Bounds, Typed, TypeOK, Contents, Places
<1>4. file[p] \in 0 .. MaxQueues
  BY <1>3
<1>5. ASSUME UNCHANGED <<file, queue>>, pc'[p] # "killed", pc'[p] \notin Active => pc[p] \notin Active
      PROVE  LeftEmpty(p)'
  BY <1>2, <1>5 DEF LeftEmpty
<1>6. CASE Start
  BY <1>1, <1>5, <1>6 DEF Start, Over, Active, Peers
<1>7. ASSUME NEW a \in Peers, OpenOut(a)
      PROVE  LeftEmpty(p)'
  <2>1. create_queue(a) /\ pc' = [pc EXCEPT ![a] = "open_in"] /\ UNCHANGED queue
    BY <1>7 DEF OpenOut, Goto
  <2>2. CASE a = p
    BY <1>3, <2>1, <2>2 DEF LeftEmpty, Active
  <2>3. CASE a = q
    <3>1. file'[p] = file[p]
      BY <1>1, <1>3, <2>1, <2>3, CreateTypes
    <3> QED
      BY <1>1, <1>2, <1>3, <2>1, <2>3, <3>1 DEF LeftEmpty
  <2> QED
    BY <1>1, <2>2, <2>3
<1>8. ASSUME NEW a \in Peers, OpenIn(a)
      PROVE  LeftEmpty(p)'
  <2>1. create_queue(Other(a)) /\ pc' = [pc EXCEPT ![a] = "loop"] /\ UNCHANGED queue
    BY <1>8 DEF OpenIn, Goto, InName
  <2>2. CASE a = p
    BY <1>3, <2>1, <2>2 DEF LeftEmpty, Active
  <2>3. CASE a = q
    <3>1. /\ created' \in 0 .. MaxQueues /\ file'[p] \in 1 .. MaxQueues
          /\ \/ file[p] = 0 /\ file'[p] = created + 1
             \/ file[p] # 0 /\ file' = file
      BY <1>1, <1>3, <2>1, <2>3, CreateTypes
    <3>2. file[p] = 0 => queue[file'[p]] = <<>>
      BY <1>3, <3>1 DEF Structure, Unmade
    <3>3. pc'[p] = pc[p] /\ UNCHANGED queue
      BY <1>1, <1>3, <2>1, <2>3
    <3> QED
      BY <1>2, <3>1, <3>2, <3>3 DEF LeftEmpty
  <2> QED
    BY <1>1, <2>2, <2>3
<1>9. ASSUME NEW a \in Peers, Loop(a)
      PROVE  LeftEmpty(p)'
  <2>1. pc[a] = "loop" /\ \E l \in {"end", "send"} : pc' = [pc EXCEPT ![a] = l]
    BY <1>9 DEF Loop, Goto
  <2> QED
    BY <1>2, <1>3, <1>5, <1>9, <2>1 DEF Loop, Active, LeftEmpty
<1>10. ASSUME NEW a \in Peers, Send(a) \/ SayEnd(a)
       PROVE  LeftEmpty(p)'
  <2>1. /\ UNCHANGED file /\ pc[a] \in {"send", "end"}
        /\ \E l \in {"receive", "unlink"} : pc' = [pc EXCEPT ![a] = l]
        /\ \E m : queue' = [queue EXCEPT ![out[a]] = Append(@, m)]
    BY <1>10 DEF Send, SayEnd, AfterSend, Goto, mq_send
  <2>2. CASE a = p
    BY <1>3, <2>1, <2>2 DEF LeftEmpty, Active
  <2>3. CASE a = q
    <3>1. out[a] # file[p]
      BY <1>1, <1>2, <2>1, <2>3 DEF Names, Opened, Active
    <3>2. pc'[p] = pc[p] /\ (file[p] # 0 => queue'[file[p]] = queue[file[p]])
      BY <1>1, <1>3, <1>4, <2>1, <2>3, <3>1
    <3> QED
      BY <1>2, <2>1, <3>2 DEF LeftEmpty
  <2> QED
    BY <1>1, <2>2, <2>3
<1>11. ASSUME NEW a \in Peers, Receive(a)
       PROVE  LeftEmpty(p)'
  <2>1. /\ UNCHANGED file /\ pc[a] = "receive" /\ queue[in[a]] # <<>>
        /\ \E l \in {"end", "loop"} : pc' = [pc EXCEPT ![a] = l]
        /\ queue' = [queue EXCEPT ![in[a]] = Tail(@)]
    BY <1>11 DEF Receive, Goto
  <2>2. CASE a = p
    BY <1>3, <2>1, <2>2 DEF LeftEmpty, Active
  <2>3. CASE a = q
    <3>1. pc'[p] = pc[p]
      BY <1>1, <1>3, <2>1, <2>3
    <3>2. file[p] # 0 /\ queue[file[p]] = <<>> => queue'[file[p]] = <<>>
      BY SMTT(30), <1>3, <1>4, <2>1
    <3> QED
      BY <1>2, <2>1, <3>1, <3>2 DEF LeftEmpty
  <2> QED
    BY <1>1, <2>2, <2>3
<1>12. ASSUME NEW a \in Peers, Unlink(a)
       PROVE  LeftEmpty(p)'
  <2>1. /\ pc[a] = "unlink" /\ file' = [file EXCEPT ![a] = 0] /\ UNCHANGED queue
        /\ \E l \in {"waitpid", "done"} : pc' = [pc EXCEPT ![a] = l]
    BY <1>12 DEF Unlink, mq_unlink, Goto
  <2> QED
    BY <1>1, <1>2, <1>3, <2>1 DEF LeftEmpty
<1>13. ASSUME NEW a \in Peers, Signal(a)
       PROVE  LeftEmpty(p)'
  <2>1. \/ pc' = pc
        \/ /\ pc[a] \in {"send", "receive", "end"}
           /\ \E l \in {"end", "unlink"} : pc' = [pc EXCEPT ![a] = l]
        \/ pc[a] = "waitpid" /\ pc' = [pc EXCEPT ![a] = "done"]
    BY <1>13 DEF Signal, Interrupted, Goto
  <2> QED
    BY <1>2, <1>3, <1>5, <1>13, <2>1 DEF Signal, Active, LeftEmpty
<1>14. ASSUME NEW a \in Peers, Kill(a)
       PROVE  LeftEmpty(p)'
  BY <1>3, <1>14 DEF Kill
<1>15. CASE Waited
  BY <1>2, <1>3, <1>5, <1>15 DEF Waited, Goto, Active, LeftEmpty
<1>16. CASE UNCHANGED vars
  BY <1>2, <1>5, <1>16 DEF vars, LeftEmpty
<1> QED
  BY <1>6, <1>7, <1>8, <1>9, <1>10, <1>11, <1>12, <1>13, <1>14, <1>15, <1>16 DEF Next, Step

LEMMA MeetingStep ==
  ASSUME Typed, Structure, [Next]_vars, ~Start, ~apart', \A p \in Peers : Meeting(p), NEW p \in Peers
  PROVE  Meeting(p)'
<1> USE DEF kernel, process, bounds
<1> DEFINE q == Other(p)
<1>1. /\ q \in Peers /\ Other(q) = p /\ Other(p) = q /\ q # p
      /\ \A r \in Peers : r = p \/ r = q
  BY Pair
<1>2. Names(p) /\ Opened(p) /\ Opened(q) /\ Meeting(p)
  BY <1>1 DEF Structure, Typed
<1> HIDE DEF q
<1>3. /\ file \in [Peers -> 0 .. MaxQueues] /\ pc \in [Peers -> Places]
      /\ out \in [Peers -> 0 .. MaxQueues] /\ in \in [Peers -> 0 .. MaxQueues]
      /\ created \in Nat /\ MaxQueues \in Nat /\ TypeOK /\ out[p] \in 0 .. created
  BY SMTT(30), Bounds, <1>2 DEF Bounds, Typed, TypeOK, Places, Names
<1>4. ASSUME UNCHANGED <<file, out, in>>,
             pc'[p] \in {"waitpid", "done"} => pc[p] \in {"waitpid", "done"}
      PROVE  Meeting(p)'
  BY <1>2, <1>4 DEF Meeting
<1>5. ASSUME NEW a \in Peers, OpenOut(a)
      PROVE  Meeting(p)'
  <2>1. /\ create_queue(a) /\ pc[a] = "open_out" /\ pc' = [pc EXCEPT ![a] = "open_in"]
        /\ out' = [out EXCEPT ![a] = file'[a]] /\ UNCHANGED in
    BY <1>5 DEF OpenOut, Goto
  <2>2. CASE a = p
    BY <1>2, <1>3, <2>1, <2>2 DEF Meeting, Opened
  <2>3. CASE a = q
    <3>1. file'[p] = file[p] /\ (file[q] # 0 => file'[q] = file[q])
      BY <1>1, <1>3, <2>1, <2>3, CreateTypes
    <3>2. out[q] = 0 /\ pc'[p] = pc[p] /\ out'[p] = out[p] /\ out'[q] = file'[q] /\ in'[p] = in[p]
      BY <1>1, <1>2, <1>3, <2>1, <2>3 DEF Opened
    <3> QED
      BY <1>1, <1>2, <3>1, <3>2 DEF Meeting
  <2> QED
    BY <1>1, <2>2, <2>3
<1>6. ASSUME NEW a \in Peers, OpenIn(a)
      PROVE  Meeting(p)'
  <2>1. /\ create_queue(Other(a)) /\ pc[a] = "open_in" /\ pc' = [pc EXCEPT ![a] = "loop"]
        /\ in' = [in EXCEPT ![a] = file'[Other(a)]] /\ UNCHANGED out
        /\ out[Other(a)] \in {0, in'[a]}
    BY <1>6 DEF OpenIn, InName, Goto
  <2>2. CASE a = p
    BY <1>1, <1>3, <2>1, <2>2 DEF Meeting
  <2>3. CASE a = q
    <3>1. \/ file[p] = 0 /\ file'[p] = created + 1
          \/ file[p] # 0 /\ file' = file
      BY <1>1, <1>3, <2>1, <2>3, CreateTypes
    <3>2. pc'[p] = pc[p] /\ in'[p] = in[p] /\ in'[q] = file'[p] /\ out[p] \in {0, file'[p]} /\ out[q] # 0
      BY <1>1, <1>2, <1>3, <2>1, <2>3 DEF Opened, Active
    <3>3. pc[p] \notin {"waitpid", "done"}
      BY <1>2, <1>3, <3>1, <3>2 DEF Meeting
    <3> QED
      BY <1>1, <1>2, <2>1, <3>2, <3>3 DEF Meeting
  <2> QED
    BY <1>1, <2>2, <2>3
<1>7. ASSUME NEW a \in Peers, Unlink(a)
      PROVE  Meeting(p)'
  <2>1. /\ pc[a] = "unlink" /\ file' = [file EXCEPT ![a] = 0] /\ UNCHANGED <<out, in>>
        /\ \E l \in {"waitpid", "done"} : pc' = [pc EXCEPT ![a] = l]
    BY <1>7 DEF Unlink, mq_unlink, Goto
  <2>2. CASE a = p
    BY <1>1, <1>2, <1>3, <2>1, <2>2 DEF Meeting, Opened, Active
  <2>3. CASE a = q
    BY <1>1, <1>2, <1>3, <2>1, <2>3 DEF Meeting, Opened, Active
  <2> QED
    BY <1>1, <2>2, <2>3
<1>8. ASSUME NEW a \in Peers, Loop(a) \/ Send(a) \/ Receive(a) \/ SayEnd(a) \/ Kill(a)
      PROVE  Meeting(p)'
  <2>1. /\ UNCHANGED <<file, out, in>>
        /\ \E l \in {"end", "send", "receive", "loop", "unlink", "killed"} : pc' = [pc EXCEPT ![a] = l]
    BY <1>8 DEF Loop, Send, Receive, SayEnd, Kill, AfterSend, Goto
  <2> QED
    BY <1>3, <1>4, <2>1
<1>9. ASSUME NEW a \in Peers, Signal(a)
      PROVE  Meeting(p)'
  <2>1. /\ UNCHANGED <<file, out, in>>
        /\ \/ pc' = pc
           \/ \E l \in {"end", "unlink"} : pc' = [pc EXCEPT ![a] = l]
           \/ pc[a] = "waitpid" /\ pc' = [pc EXCEPT ![a] = "done"]
    BY <1>9 DEF Signal, Interrupted, Goto
  <2> QED
    BY <1>3, <1>4, <2>1
<1>10. CASE Waited
  BY <1>3, <1>4, <1>10 DEF Waited, Goto
<1>11. CASE UNCHANGED vars
  BY <1>4, <1>11 DEF vars
<1> QED
  BY <1>5, <1>6, <1>7, <1>8, <1>9, <1>10, <1>11 DEF Next, Step

(* A process keeps count of what it sent when nothing it counts changes.   *)
LEMMA SentStill ==
  ASSUME Typed, NEW p \in Peers, UNCHANGED i, NEW s, NEW e, Sent(p, s, e),
         \/ pc'[p] \in {pc[p], "unlink", "waitpid", "done"}
         \/ pc[p] \in {"send", "receive", "loop", "end"} /\ pc'[p] = "end"
         \/ pc[p] = "loop" /\ pc'[p] = "send"
         \/ pc[p] = "open_in" /\ pc'[p] = "loop"
  PROVE  Sent(p, s, e)'
BY DEF Sent

(* What process p sends and the other one takes away keeps the two in step. *)
LEMMA FlowingStep ==
  ASSUME Typed, Structure, [Next]_vars, ~Start, kills' = 0,
         \A r \in Peers : LeftEmpty(r) /\ Meeting(r) /\ Flowing(r), NEW p \in Peers
  PROVE  Flowing(p)'
<1> USE DEF kernel, process, bounds
<1> DEFINE q == Other(p)
<1>1. /\ q \in Peers /\ Other(q) = p /\ Other(p) = q /\ q # p
      /\ \A r \in Peers : r = p \/ r = q
  BY Pair
<1>2. Names(p) /\ Names(q) /\ Opened(p) /\ Opened(q) /\ Flowing(p) /\ Meeting(q) /\ LeftEmpty(p)
  BY <1>1 DEF Structure, Typed
<1>3. /\ file \in [Peers -> 0 .. MaxQueues] /\ pc \in [Peers -> Places] /\ i \in [Peers -> Nat]
      /\ out \in [Peers -> 0 .. MaxQueues] /\ in \in [Peers -> 0 .. MaxQueues]
      /\ created \in 0 .. MaxQueues /\ MaxQueues \in Nat /\ kills \in Nat
      /\ queue \in [1 .. MaxQueues -> Seq(Contents)] /\ TypeOK
  BY Bounds DEF Bounds, Typed, TypeOK, Contents, Places
<1>4. /\ i[p] \in Nat /\ i[q] \in Nat /\ out[p] \in 0 .. MaxQueues
      /\ out[p] # 0 => out[p] \in 1 .. MaxQueues /\ queue[out[p]] \in Seq(Contents)
  BY <1>1, <1>3
<1> HIDE DEF q
(* The count and what it says of the queue, when p has a queue to write to. *)
<1>5. ASSUME out[p] # 0
      PROVE  \E s \in {i[p], i[p] + 1}, e \in {0, 1} :
               Sent(p, s, e) /\ Line(queue[out[p]], s - i[q], e)
  BY <1>1, <1>2, <1>5 DEF Flowing, Flow
<1>6. ASSUME out'[p] # 0, NEW s \in {i'[p], i'[p] + 1}, NEW e \in {0, 1},
             Sent(p, s, e)', Line(queue'[out'[p]], s - i'[q], e)
      PROVE  Flowing(p)'
  BY <1>1, <1>6 DEF Flowing, Flow
<1>7. ASSUME UNCHANGED <<out, i>>, out[p] # 0 => queue'[out[p]] = queue[out[p]],
             \/ pc'[p] \in {pc[p], "unlink", "waitpid", "done"}
             \/ pc[p] \in {"send", "receive", "loop", "end"} /\ pc'[p] = "end"
             \/ pc[p] = "loop" /\ pc'[p] = "send"
             \/ pc[p] = "open_in" /\ pc'[p] = "loop"
      PROVE  Flowing(p)'
  <2>1. CASE out[p] = 0
    BY <1>2, <1>7, <2>1 DEF Flowing
  <2>2. CASE out[p] # 0
    <3>1. PICK s \in {i[p], i[p] + 1}, e \in {0, 1} :
                 Sent(p, s, e) /\ Line(queue[out[p]], s - i[q], e)
      BY <1>5, <2>2
    <3>2. Sent(p, s, e)'
      BY <1>7, <3>1, SentStill
    <3> QED
      BY <1>6, <1>7, <2>2, <3>1, <3>2
  <2> QED
    BY <2>1, <2>2
<1>8. CASE OpenOut(p)
  <2>1. /\ create_queue(p) /\ pc[p] = "open_out" /\ pc' = [pc EXCEPT ![p] = "open_in"]
        /\ out' = [out EXCEPT ![p] = file'[p]] /\ UNCHANGED <<queue, i>>
    BY <1>8 DEF OpenOut, Goto
  <2>2. /\ created' \in 0 .. MaxQueues /\ file'[p] \in 1 .. MaxQueues
        /\ \/ file[p] = 0 /\ file'[p] = created + 1
           \/ file[p] # 0 /\ file' = file
    BY <1>3, <2>1, CreateTypes
  <2>3. queue[file'[p]] = <<>>
    BY <1>2, <1>3, <2>1, <2>2 DEF LeftEmpty, Active, Structure, Unmade
  <2>4. out'[p] = file'[p] /\ out'[p] # 0 /\ pc'[p] = "open_in"
    BY <1>3, <2>1, <2>2
  <2>5. i'[p] = 0 /\ i'[q] = 0
    BY <1>1, <1>2, <2>1 DEF Flowing, Opened
  <2>6. Line(queue'[out'[p]], 0 - i'[q], 0)
    BY <2>1, <2>3, <2>4, <2>5 DEF Line
  <2>7. Sent(p, 0, 0)'
    BY <2>4, <2>5 DEF Sent
  <2> QED
    BY <1>6, <2>4, <2>5, <2>6, <2>7
<1>9. CASE OpenOut(q)
  <2>1. /\ out'[p] = out[p] /\ pc'[p] = pc[p] /\ UNCHANGED <<queue, i>>
    BY <1>1, <1>3, <1>9 DEF OpenOut, Goto
  <2> QED
    BY <1>1, <1>2, <2>1 DEF Flowing, Flow, Sent
<1>10. ASSUME NEW a \in Peers, OpenIn(a) \/ Loop(a)
       PROVE  Flowing(p)'
  <2>1. /\ UNCHANGED <<out, i, queue>>
        /\ \/ pc[a] = "open_in" /\ pc' = [pc EXCEPT ![a] = "loop"]
           \/ pc[a] = "loop" /\ \E l \in {"end", "send"} : pc' = [pc EXCEPT ![a] = l]
    BY <1>10 DEF OpenIn, Loop, Goto
  <2> QED
    BY <1>3, <1>7, <2>1
<1>11. CASE Send(p) \/ SayEnd(p)
  <2>1. PICK m \in {Message(p), End} :
          /\ queue' = [queue EXCEPT ![out[p]] = Append(@, m)]
          /\ m # End => pc[p] = "send" /\ pc' = [pc EXCEPT ![p] = "receive"]
          /\ m = End => pc[p] = "end" /\ pc' = [pc EXCEPT ![p] = "unlink"]
    <3>1. Message(p) # End
      BY <1>3, MessageTypes, EndIsNoMessage
    <3>2. CASE Send(p)
      BY <3>1, <3>2 DEF Send, mq_send, AfterSend, Goto
    <3>3. CASE SayEnd(p)
      BY <3>3 DEF SayEnd, mq_send, Goto
    <3> QED
      BY <1>11, <3>2, <3>3
  <2>2. UNCHANGED <<out, i>> /\ out[p] # 0 /\ pc[p] \in {"send", "end"}
    BY <1>2, <1>11, <2>1 DEF Send, SayEnd, Opened, Active
  <2>3. m \in Contents
    BY <1>3, <2>1, MessageTypes DEF Contents
  <2>4. PICK s \in {i[p], i[p] + 1}, e \in {0, 1} :
               Sent(p, s, e) /\ Line(queue[out[p]], s - i[q], e)
    BY <1>5, <2>2
  <2>5. e = 0 /\ (m # End => s = i[p])
    BY <2>1, <2>2, <2>4 DEF Sent
  <2>6. queue'[out[p]] = Append(queue[out[p]], m)
    BY <1>3, <1>4, <2>1, <2>2
  <2>7. /\ m # End => Line(queue'[out[p]], (s - i[q]) + 1, 0)
        /\ m = End => Line(queue'[out[p]], s - i[q], 1)
    BY <1>4, <2>2, <2>3, <2>4, <2>5, <2>6, LineSent
  <2>8. CASE m # End
    <3>1. Sent(p, s + 1, 0)'
      BY <1>3, <1>4, <2>1, <2>2, <2>5, <2>8 DEF Sent
    <3>2. (s + 1) - i[q] = (s - i[q]) + 1
      BY <1>4
    <3>3. s + 1 \in {i'[p], i'[p] + 1}
      BY <1>4, <2>2, <2>5, <2>8
    <3> QED
      BY <1>6, <2>2, <2>7, <2>8, <3>1, <3>2, <3>3
  <2>9. CASE m = End
    <3>1. Sent(p, s, 1)'
      BY <1>3, <2>1, <2>9 DEF Sent
    <3> QED
      BY <1>6, <2>2, <2>7, <2>9, <3>1
  <2> QED
    BY <2>8, <2>9
<1>12. CASE Send(q) \/ SayEnd(q)
  <2>1. /\ UNCHANGED <<out, i>>
        /\ \E m : queue' = [queue EXCEPT ![out[q]] = Append(@, m)]
        /\ \E l \in Places : pc' = [pc EXCEPT ![q] = l]
    BY <1>12 DEF Send, SayEnd, mq_send, AfterSend, Goto, Places
  <2>2. out[p] # 0 => out[p] # out[q]
    BY <1>1, <1>2 DEF Names
  <2>3. pc'[p] = pc[p] /\ (out[p] # 0 => queue'[out[p]] = queue[out[p]])
    BY <1>1, <1>3, <1>4, <2>1, <2>2
  <2> QED
    BY <1>7, <2>1, <2>3
<1>13. CASE Receive(p)
  <2>1. UNCHANGED out /\ pc[p] = "receive" /\ queue' = [queue EXCEPT ![in[p]] = Tail(@)]
    BY <1>13 DEF Receive
  <2>2. out[p] # 0 /\ out[p] # in[p]
    BY <1>2, <2>1 DEF Names, Opened, Active
  <2>3. queue'[out[p]] = queue[out[p]]
    BY <1>3, <1>4, <2>1, <2>2
  <2>4. CASE Head(queue[in[p]]) = End
    <3>1. UNCHANGED i /\ pc' = [pc EXCEPT ![p] = "end"]
      BY <1>13, <2>4 DEF Receive, IsEnd, Goto
    <3> QED
      BY <1>3, <1>7, <2>1, <2>3, <3>1
  <2>5. CASE Head(queue[in[p]]) # End
    <3>1. i' = [i EXCEPT ![p] = @ + 1] /\ pc' = [pc EXCEPT ![p] = "loop"]
      BY <1>13, <2>5 DEF Receive, IsEnd, Goto
    <3>2. PICK s \in {i[p], i[p] + 1}, e \in {0, 1} :
                 Sent(p, s, e) /\ Line(queue[out[p]], s - i[q], e)
      BY <1>5, <2>2
    <3>3. s = i[p] + 1 /\ e = 0
      BY <2>1, <3>2 DEF Sent
    <3>4. i'[p] = i[p] + 1 /\ i'[q] = i[q] /\ pc'[p] = "loop"
      BY <1>1, <1>3, <3>1
    <3>5. Sent(p, s, e)'
      BY <3>3, <3>4 DEF Sent
    <3> QED
      BY <1>6, <2>1, <2>2, <2>3, <3>2, <3>3, <3>4, <3>5
  <2> QED
    BY <2>4, <2>5
<1>14. CASE Receive(q)
  <2>1. /\ UNCHANGED out /\ pc[q] = "receive" /\ queue[in[q]] # <<>>
        /\ queue' = [queue EXCEPT ![in[q]] = Tail(@)]
    BY <1>14 DEF Receive
  <2>2. out[p] # 0 /\ in[q] = out[p]
    <3>1. in[q] # 0 /\ in[q] = (IF out[p] # 0 THEN out[p] ELSE file[p])
      BY <1>1, <1>2, <2>1 DEF Opened, Meeting, Active
    <3>2. out[p] # 0
      BY <1>2, <2>1, <3>1 DEF Opened, LeftEmpty
    <3> QED
      BY <3>1, <3>2
  <2>3. PICK s \in {i[p], i[p] + 1}, e \in {0, 1} :
               Sent(p, s, e) /\ Line(queue[out[p]], s - i[q], e)
    BY <1>5, <2>2
  <2>4. queue'[out[p]] = Tail(queue[out[p]])
    BY <1>3, <1>4, <2>1, <2>2
  <2>5. /\ Head(queue[out[p]]) # End => Line(queue'[out[p]], (s - i[q]) - 1, e)
        /\ Head(queue[out[p]]) = End => s - i[q] = 0 /\ Line(queue'[out[p]], 0, 0)
    BY <1>4, <2>1, <2>2, <2>3, <2>4, LineTaken
  <2>6. CASE Head(queue[in[q]]) = End
    <3>1. UNCHANGED i /\ pc' = [pc EXCEPT ![q] = "end"]
      BY <1>14, <2>6 DEF Receive, IsEnd, Goto
    <3>2. pc'[p] = pc[p]
      BY <1>1, <1>3, <3>1
    <3>3. Sent(p, s, 0)'
      BY <2>3, <3>1, <3>2 DEF Sent
    <3> QED
      BY <1>6, <2>1, <2>2, <2>5, <2>6, <3>1, <3>3
  <2>7. CASE Head(queue[in[q]]) # End
    <3>1. i' = [i EXCEPT ![q] = @ + 1] /\ pc' = [pc EXCEPT ![q] = "loop"]
      BY <1>14, <2>7 DEF Receive, IsEnd, Goto
    <3>2. i'[p] = i[p] /\ i'[q] = i[q] + 1 /\ pc'[p] = pc[p]
      BY <1>1, <1>3, <3>1
    <3>3. Sent(p, s, e)'
      BY <2>3, <3>2 DEF Sent
    <3>4. s - i'[q] = (s - i[q]) - 1
      BY <1>4, <3>2
    <3> QED
      BY <1>6, <2>1, <2>2, <2>5, <2>7, <3>2, <3>3, <3>4
  <2> QED
    BY <2>6, <2>7
<1>15. ASSUME NEW a \in Peers, Unlink(a)
       PROVE  Flowing(p)'
  <2>1. /\ UNCHANGED <<out, i, queue>>
        /\ \E l \in {"waitpid", "done"} : pc' = [pc EXCEPT ![a] = l]
    BY <1>15 DEF Unlink, Goto
  <2> QED
    BY <1>3, <1>7, <2>1
<1>16. ASSUME NEW a \in Peers, Signal(a)
       PROVE  Flowing(p)'
  <2>1. /\ UNCHANGED <<out, i, queue>>
        /\ \/ pc' = pc
           \/ pc[a] \in {"send", "receive"} /\ pc' = [pc EXCEPT ![a] = "end"]
           \/ \E l \in {"unlink", "done"} : pc' = [pc EXCEPT ![a] = l]
    BY <1>16 DEF Signal, Interrupted, Goto
  <2> QED
    BY <1>3, <1>7, <2>1
<1>17. ASSUME NEW a \in Peers, Kill(a)
       PROVE  Flowing(p)'
  BY <1>3, <1>17 DEF Kill
<1>18. CASE Waited
  BY <1>3, <1>7, <1>18 DEF Waited, Goto
<1>19. CASE UNCHANGED vars
  BY <1>7, <1>19 DEF vars
<1>20. ASSUME NEW a \in Peers
       PROVE  a = p \/ a = q
  BY <1>1
<1> QED
  BY <1>8, <1>9, <1>10, <1>11, <1>12, <1>13, <1>14, <1>15, <1>16, <1>17, <1>18, <1>19, <1>20
  DEF Next, Step

LEMMA PairedInit == Init => Paired
<1> SUFFICES ASSUME Init, NEW p \in Peers
             PROVE  LeftEmpty(p) /\ Meeting(p) /\ Flowing(p)
  BY DEF Paired
<1>1. Other(p) \in Peers
  BY Pair
<1> QED
  BY <1>1 DEF Init, LeftEmpty, Meeting, Flowing

LEMMA PairedStep == ASSUME Typed, Structure, [Next]_vars, Paired PROVE Paired'
<1> SUFFICES ASSUME kills' = 0
             PROVE  /\ \A p \in Peers : LeftEmpty(p)'
                    /\ ~apart' => \A p \in Peers : Meeting(p)' /\ Flowing(p)'
  BY DEF Paired
<1>1. kills = 0 /\ kills \in Nat
  BY DEF Typed, TypeOK, Next, Step, Start, Waited, OpenOut, OpenIn, Loop, Send, Receive, SayEnd,
         Unlink, Signal, Kill, bounds, vars
<1>2. \A p \in Peers : LeftEmpty(p)'
  BY <1>1, LeftEmptyStep DEF Paired
<1>3. ASSUME Start, NEW p \in Peers
      PROVE  Meeting(p)' /\ Flowing(p)'
  <2>1. /\ out' = [r \in Peers |-> 0] /\ in' = [r \in Peers |-> 0] /\ i' = [r \in Peers |-> 0]
        /\ pc'[p] \in {"open_out", "off"} /\ Other(p) \in Peers
    BY <1>3, Pair DEF Start, Peers
  <2> QED
    BY <2>1 DEF Meeting, Flowing
<1>4. ASSUME ~Start, ~apart', NEW p \in Peers
      PROVE  Meeting(p)' /\ Flowing(p)'
  <2>1. ~apart
    <3>1. ASSUME NEW a \in Peers, OpenIn(a)
          PROVE  ~apart
      BY <1>4, <3>1 DEF OpenIn
    <3> QED
      BY <1>4, <3>1 DEF Next, Step, Waited, OpenOut, Loop, Send, Receive, SayEnd, Unlink, Signal,
                        Kill, vars
  <2>2. \A r \in Peers : LeftEmpty(r) /\ Meeting(r) /\ Flowing(r)
    BY <1>1, <2>1 DEF Paired
  <2> QED
    BY <1>4, <2>2, MeetingStep, FlowingStep
<1> QED
  BY <1>2, <1>3, <1>4

(* Of two processes in step neither is more than a round ahead. *)
LEMMA InStep ==
  ASSUME Typed, NEW p \in Peers, \A r \in Peers : Flowing(r)
  PROVE  i[Other(p)] <= i[p] + 1
<1>1. i[p] \in Nat /\ i[Other(p)] \in Nat
  BY Pair DEF Typed, TypeOK
<1>2. CASE out[p] = 0
  BY <1>1, <1>2 DEF Flowing
<1>3. CASE out[p] # 0
  <2>1. PICK s \in {i[p], i[p] + 1} : s - i[Other(p)] \in Nat
    BY <1>3 DEF Flowing, Flow, Line
  <2> QED
    BY <1>1, <2>1
<1> QED
  BY <1>2, <1>3

LEMMA QueuesShort ==
  ASSUME Typed, NEW p \in Peers, in[p] # 0,
         \A r \in Peers : LeftEmpty(r) /\ Meeting(r) /\ Flowing(r)
  PROVE  Len(queue[in[p]]) <= 3
<1> DEFINE q == Other(p)
<1>1. q \in Peers /\ Other(q) = p
  BY Pair
<1>2. i[p] \in Nat /\ i[q] \in Nat
  BY <1>1 DEF Typed, TypeOK
<1>3. i[q] <= i[p] + 1
  BY InStep
<1>4. in[p] = (IF out[q] # 0 THEN out[q] ELSE file[q])
  BY DEF Meeting
<1> HIDE DEF q
<1>5. CASE out[q] = 0
  <2>1. pc[q] \notin Active /\ file[q] # 0 /\ queue[in[p]] = queue[file[q]]
    BY <1>1, <1>4, <1>5 DEF Typed, Opened
  <2>2. queue[in[p]] = <<>>
    BY <1>1, <2>1 DEF LeftEmpty
  <2> QED
    BY <2>2
<1>6. CASE out[q] # 0
  <2>1. PICK s \in {i[q], i[q] + 1}, e \in {0, 1} : Line(queue[out[q]], s - i[p], e)
    BY <1>1, <1>6 DEF Flowing, Flow
  <2>2. Len(queue[in[p]]) = (s - i[p]) + e
    BY <1>4, <1>6, <2>1 DEF Line
  <2> QED
    BY <1>2, <1>3, <2>1, <2>2
<1> QED
  BY <1>5, <1>6

(* As long as nobody was killed, the two processes stay within a message   *)
(* of each other, no queue holds more than three, whatever its capacity,   *)
(* and no name is left when both have ended.                               *)
THEOREM PeersInLockstep == Spec => []Lockstep
<1> DEFINE Inv == Typed /\ Structure /\ Paired
<1>1. Init => Inv
  BY InitTyped, StructureInit, PairedInit
<1>2. Inv /\ [Next]_vars => Inv'
  BY TypedStep, StructureStep, PairedStep
<1>3. Inv => Lockstep
  <2> SUFFICES ASSUME Inv, kills = 0, ~apart
               PROVE  /\ \A p \in Peers : in[p] # 0 => Len(queue[in[p]]) <= 3
                      /\ i["parent"] - i["child"] \in -1 .. 1
                      /\ (\A p \in Peers : pc[p] = "done") => \A p \in Peers : file[p] = 0
    BY DEF Lockstep, Typed
  <2>1. \A p \in Peers : LeftEmpty(p) /\ Meeting(p) /\ Flowing(p)
    BY DEF Paired
  <2>2. \A p \in Peers : in[p] # 0 => Len(queue[in[p]]) <= 3
    BY <2>1, QueuesShort
  <2>3. i["parent"] - i["child"] \in -1 .. 1
    <3>1. Other("parent") = "child" /\ Other("child") = "parent"
      BY DEF Other, Peers
    <3>2. i["child"] <= i["parent"] + 1 /\ i["parent"] <= i["child"] + 1
      BY <2>1, <3>1, TwoPeers, InStep
    <3>3. i["child"] \in Nat /\ i["parent"] \in Nat
      BY TwoPeers DEF Typed, TypeOK
    <3> QED
      BY <3>2, <3>3
  <2>4. (\A p \in Peers : pc[p] = "done") => \A p \in Peers : file[p] = 0
    BY <2>1 DEF Meeting
  <2> QED
    BY <2>2, <2>3, <2>4
<1> QED
  BY <1>1, <1>2, <1>3, PTL DEF Spec
=============================================================================
