------------------------------- MODULE ProcFile -------------------------------
(***************************************************************************)
(* module5/practice2/practice2.c: a text in /proc, written at once and read *)
(* until a read returns nothing. How much is left to read, temp, belongs to *)
(* the module and not to the open file, and nothing is locked: calls of    *)
(* several processes interleave, and the compiler may read temp again.     *)
(***************************************************************************)
EXTENDS Integers, Sequences

CONSTANTS
  Processes,
  Texts,     \* not longer than the ten bytes of msg
  MaxGot     \* bound: what cat holds when it reads on

VARIABLES
  module, msg, len, temp,   \* msg is <<>> while it is not allocated
  pc, count, loaded, got,   \* of each process: count and temp of its read, what it got
  text,      \* history: the last text written
  spoilt     \* history: calls overlapped or a reader stopped early since a write

memory == <<module, msg, len, temp>>
process == <<pc, count, loaded, got>>
vars == <<memory, process, text, spoilt>>

Goto(p, l) == pc' = [pc EXCEPT ![p] = l]
(* A process keeps nothing of its last session. *)
Leaves(p) ==
  /\ Goto(p, "idle") /\ got' = [got EXCEPT ![p] = <<>>]
  /\ count' = [count EXCEPT ![p] = 0] /\ loaded' = [loaded EXCEPT ![p] = 0]
Alone(p) == \A q \in Processes \ {p} : pc[q] = "idle"

Init ==
  /\ module = "absent" /\ msg = <<>> /\ len = 0 /\ temp = 0
  /\ pc = [p \in Processes |-> "idle"] /\ count = [p \in Processes |-> 0]
  /\ loaded = [p \in Processes |-> 0] /\ got = [p \in Processes |-> <<>>]
  /\ text = <<>> /\ spoilt = FALSE

proc_create ==
  /\ module = "absent" /\ module' = "coming" /\ len' = 0 /\ temp' = 0
  /\ text' = <<>> /\ spoilt' = FALSE /\ UNCHANGED <<msg, process>>
proc_init ==
  /\ module = "coming" /\ module' = "live" /\ msg' = <<"?">>
  /\ UNCHANGED <<len, temp, process, text, spoilt>>

(* remove_proc_entry() waits for the calls in progress, later ones fail.   *)
(* Slip: the entry is forgotten while a call may be in progress. *)
QuietAlways == TRUE
Quiet == \A p \in Processes : pc[p] \in {"idle", "open"}
proc_cleanup ==
  /\ module = "live" /\ Quiet
  /\ module' = "absent" /\ msg' = <<>> /\ got' = [p \in Processes |-> <<>>]
  /\ pc' = [p \in Processes |-> IF pc[p] = "open" THEN "idle" ELSE pc[p]]
  /\ UNCHANGED <<len, temp, count, loaded, text, spoilt>>

(* Before msg is allocated the copy to NULL ends the process, no more.     *)
write_proc(p, t) ==
  /\ module = "live" /\ pc[p] = "idle" /\ Goto(p, "writes") /\ spoilt' = ~Alone(p)
  /\ msg' = t \o SubSeq(msg, Len(t) + 1, Len(msg)) /\ count' = [count EXCEPT ![p] = Len(t)]
  /\ UNCHANGED <<module, len, temp, loaded, got, text>>
Written(p) ==
  /\ pc[p] = "writes" /\ Leaves(p)
  /\ len' = count[p] /\ temp' = count[p] /\ text' = SubSeq(msg, 1, count[p])
  /\ UNCHANGED <<module, msg, spoilt>>

(* cat opens the file and asks for more than there ever is; temp is an int  *)
(* that races may make negative: what a read then returns is not modelled.  *)
Open(p) ==
  /\ module # "absent" /\ pc[p] = "idle" /\ Goto(p, "open")
  /\ spoilt' = (spoilt \/ ~Alone(p))
  /\ UNCHANGED <<memory, count, loaded, got, text>>
read_proc(p) ==
  /\ module # "absent" /\ pc[p] = "open" /\ temp >= 0 /\ Len(got[p]) <= MaxGot
  /\ Goto(p, "reads")
  /\ count' = [count EXCEPT ![p] = temp] /\ loaded' = [loaded EXCEPT ![p] = temp]
  /\ UNCHANGED <<memory, got, text, spoilt>>

(* Slip: temp is not set to len again at the end. *)
RewindNever(n) == FALSE
Rewind(n) == n = 0
Read(p) ==
  /\ pc[p] = "reads"
  /\ IF count[p] = 0 THEN Leaves(p)
     ELSE /\ Goto(p, "open") /\ got' = [got EXCEPT ![p] = @ \o SubSeq(msg, 1, count[p])]
          /\ UNCHANGED <<count, loaded>>
  /\ \E t \in {temp, loaded[p]} : temp' = IF Rewind(count[p]) THEN len ELSE t - count[p]
  /\ UNCHANGED <<module, msg, len, text, spoilt>>
(* head stops before the end. *)
Close(p) ==
  /\ pc[p] = "open" /\ Leaves(p) /\ spoilt' = (spoilt \/ got[p] # <<>>)
  /\ UNCHANGED <<memory, text>>

Call(p) ==
  \/ (\E t \in Texts : write_proc(p, t)) \/ Written(p)
  \/ Open(p) \/ read_proc(p) \/ Read(p) \/ Close(p)
Next == proc_create \/ proc_init \/ proc_cleanup \/ \E p \in Processes : Call(p)

Spec == Init /\ [][Next]_vars

-----------------------------------------------------------------------------
(* cat gets the text last written, each time: what one reader leaves in     *)
(* temp is right for the next. A reader that stops early and calls that     *)
(* overlap spoil it, until a write that no other process overlaps.          *)
CatsGetText ==
  [][\A p \in Processes : pc[p] = "reads" /\ pc'[p] = "idle" /\ ~spoilt => got[p] = text]_vars

(* No call uses msg when it is gone. *)
MsgHeld == (\E p \in Processes : count[p] > 0 /\ pc[p] \in {"reads", "writes"}) => msg # <<>>
===============================================================================
