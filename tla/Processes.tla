------------------------------ MODULE Processes ------------------------------
(***************************************************************************)
(* Four small programs that share nothing, side by side: program says which *)
(* one runs, the variables of the others keep the values they start with.  *)
(***************************************************************************)
EXTENDS FileCopy, Selections

CONSTANTS
  Tasks,                            \* Cuckoo
  Peers, Begins, Datagrams, MaxLines,    \* BroadcastChat
  Kinds, Packets, MaxPackets        \* Sniffer

VARIABLES
  program,
  fifo, line, cpc, asker, wasted,                               \* Cuckoo
  bpc, g_stop, ready, socket, tty, buf, typed, closed,          \* BroadcastChat
  heard, air, since, lost,
  spc, filter_mode, queue, file, stop_flag, offered             \* Sniffer

Cuckoos == INSTANCE Cuckoo WITH pc <- cpc
Broadcast == INSTANCE BroadcastChat WITH Capacity <- Datagrams, pc <- bpc
Sniff == INSTANCE Sniffer WITH Capacity <- Packets, pc <- spc

ASSUME TasksAssumption ==
  IsFiniteSet(Tasks) /\ Tasks \cap {Cuckoos!Cuckoo, Cuckoos!Nobody} = {}
ASSUME DatagramsAssumption ==
  {Datagrams, Packets, MaxPackets} \subseteq Nat /\ MaxLines \in [Peers -> Nat]
ASSUME KindsAssumption == {"all", "other"} \cap Kinds = {}   \* a mode is not a kind of packet

cuckooVars == <<fifo, line, cpc, asker, wasted>>
broadcastVars == <<bpc, g_stop, ready, socket, tty, buf, typed, closed, heard, air, since, lost>>
snifferVars == <<spc, filter_mode, queue, file, stop_flag, offered>>
all == <<program, vars, cuckooVars, broadcastVars, snifferVars>>

AllInit ==
  /\ program \in {"copy", "cuckoo", "broadcast", "sniffer"}
  /\ Init /\ Cuckoos!Init /\ Broadcast!Init /\ Sniff!Init

In(p, Step, others) == program = p /\ Step /\ UNCHANGED <<program, others>>
Copying(Step) == In("copy", Step, <<cuckooVars, broadcastVars, snifferVars>>)
Telling(Step) == In("cuckoo", Step, <<vars, broadcastVars, snifferVars>>)
Chatting(Step) == In("broadcast", Step, <<vars, cuckooVars, snifferVars>>)
Sniffing(Step) == In("sniffer", Step, <<vars, cuckooVars, broadcastVars>>)

AllNext ==
  \/ Copying(Next) \/ Telling(Cuckoos!Next)
  \/ Chatting(Broadcast!Next) \/ Sniffing(Sniff!Next)

AllSpec == AllInit /\ [][AllNext]_all

-----------------------------------------------------------------------------
(* The copies are what was sent, as CopiesFaithful of FileCopy; questions,  *)
(* answers and the waiting tasks agree, as in Cuckoo.                       *)
LinesAccounted == Cuckoos!LinesAccounted

(* Peers that lose nothing show one order of all that was said, and the    *)
(* sniffer's file holds all that passes its filter, in order.              *)
DatagramsKept == Broadcast!HeardInOrder /\ Sniff!CaptureFaithful
=============================================================================
