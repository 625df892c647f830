------------------------------- MODULE Sniffer -------------------------------
(***************************************************************************)
(* module3/practice8/practice8.c: UDP packets of one interface that pass a *)
(* port filter are written to a file. The packet socket receives from all  *)
(* interfaces between socket() and bind(). signal() lets an interrupted    *)
(* recv() start again, so the stop flag is looked at after a packet only.  *)
(***************************************************************************)
EXTENDS Integers, Sequences, Selections

CONSTANTS
  Kinds,       \* of packets: the two filtered ports, other UDP, not UDP
  Capacity,    \* packets the socket holds
  MaxPackets   \* bound

VARIABLES
  pc, filter_mode,
  queue,       \* packets in the socket
  file,        \* what was written
  stop_flag,
  offered      \* history: packets the socket took, in order

vars == <<pc, filter_mode, queue, file, stop_flag, offered>>

Init ==
  /\ pc = "start" /\ filter_mode = "none" /\ stop_flag = FALSE
  /\ queue = <<>> /\ file = <<>> /\ offered = <<>>

(* Of other interfaces only before bind(); what finds the socket full is lost. *)
(* Slip: the socket is not bound. *)
HearsAll(own) == TRUE
Hears(own) == own \/ pc = "unbound"
Arrive(kind, own) ==
  /\ pc \notin {"start", "done"} /\ Hears(own)
  /\ Len(queue) < Capacity /\ Len(offered) < MaxPackets
  /\ LET p == [kind |-> kind, own |-> own, bound |-> pc # "unbound", n |-> Len(offered) + 1] IN
       queue' = Append(queue, p) /\ offered' = Append(offered, p)
  /\ UNCHANGED <<pc, filter_mode, file, stop_flag>>

Open == pc = "start" /\ pc' = "unbound" /\ UNCHANGED <<filter_mode, queue, file, stop_flag, offered>>
Bind == pc = "unbound" /\ pc' = "asks" /\ UNCHANGED <<filter_mode, queue, file, stop_flag, offered>>

(* 0, 1, 2, or something else: also what an answer that is no number leaves. *)
Choose(m) ==
  /\ pc = "asks" /\ filter_mode' = m
  /\ pc' = IF stop_flag THEN "done" ELSE "receives"
  /\ UNCHANGED <<queue, file, stop_flag, offered>>

(* Slip: mode 0 is taken for a mode without packets. *)
MatchNone(m, kind) == m = kind /\ kind \in {"chat", "dns"}
match_filter(m, kind) == m = "all" \/ (m = kind /\ kind \in {"chat", "dns"})
Written(m, p) == p.kind # "not UDP" /\ match_filter(m, p.kind)

(* Slip: a packet that is left out skips the test of the flag as well. *)
StoppedUnlessSkipped == stop_flag /\ Written(filter_mode, Head(queue))
Stopped == stop_flag
Receive ==
  /\ pc = "receives" /\ queue # <<>>
  /\ queue' = Tail(queue)
  /\ file' = IF Written(filter_mode, Head(queue)) THEN Append(file, Head(queue)) ELSE file
  /\ pc' = IF Stopped THEN "done" ELSE "receives"
  /\ UNCHANGED <<filter_mode, stop_flag, offered>>

Signal ==
  /\ pc # "done" /\ ~stop_flag /\ stop_flag' = TRUE
  /\ UNCHANGED <<pc, filter_mode, queue, file, offered>>

Run == Open \/ Bind \/ Receive
Next ==
  \/ Run \/ Signal
  \/ \E m \in {"all", "chat", "dns", "other"} : Choose(m)
  \/ \E kind \in Kinds, own \in BOOLEAN : Arrive(kind, own)

Spec == Init /\ [][Next]_vars

-----------------------------------------------------------------------------
(* The socket holds the last of what it took, the file what passes the     *)
(* filter of the packets before, in order of arrival; of other interfaces   *)
(* only what came before bind(), and that is written as if it were of this  *)
(* one.                                                                     *)
Wanted(p) == p.kind # "not UDP" /\ filter_mode \in {"all", p.kind}
Received == 1 .. Ahead(offered, queue)
CaptureFaithful ==
  /\ IsEnd(queue, offered)
  /\ IsSelection(file, offered, {j \in Received : Wanted(offered[j])})
  /\ \A i \in DOMAIN file : file[i].own \/ ~file[i].bound

(* A stop is noticed with the next packet, whether that is written or not.  *)
StopNoticed == (pc = "receives" /\ stop_flag /\ queue # <<>>) ~> pc = "done"
===============================================================================
