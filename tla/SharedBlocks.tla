---------------------------- MODULE SharedBlocks ----------------------------
(***************************************************************************)
(* module3/practice4/practice4.c and module3/practice5/practice5.c: one    *)
(* program over System V and over POSIX shared memory and semaphores.  A   *)
(* producer fills a memory of Total integers with a chain of blocks and    *)
(* polls until all are taken; consumers take the blocks one at a time.     *)
(*                                                                         *)
(*   mem[0]       1 once a chain is published, 0 before                    *)
(*   mem[o]       number of values of the block at o, 0 once it is taken   *)
(*   mem[o + 1]   offset of the next block, 0 at the end                   *)
(*   mem[o + 2].. the values                                               *)
(*                                                                         *)
(* Everything but sleeping happens under one semaphore.  The memory and    *)
(* the semaphore are never removed: they outlive the processes, and any    *)
(* number of producers and consumers may be started and killed on them.    *)
(***************************************************************************)
EXTENDS Integers, FiniteSets

CONSTANTS
    Producers,   \* processes run with -p
    Consumers,   \* processes run with -c
    Total,       \* TOTAL_INTS
    MaxLen,      \* MAX_BLOCK_LEN
    Values,      \* what a producer stores, rand() % 100 in the code
    SysV,        \* TRUE: practice4, FALSE: practice5
    MaxKills,    \* bound: processes killed
    NoProducer   \* nobody has filled the memory yet

ASSUME BlocksAssumption ==
    /\ Producers \cap Consumers = {}
    /\ NoProducer \notin Producers
    /\ Total \in Nat /\ Total >= 4
    /\ MaxLen \in Nat \ {0}
    /\ Values \subseteq 0 .. 99
    /\ SysV \in BOOLEAN
    /\ MaxKills \in Nat

Processes == Producers \cup Consumers
Offsets == 0 .. Total - 1

VARIABLES
    sem,        \* value of the semaphore
    mem,        \* the shared memory
    pc,         \* pc[p]: where process p is
    offset,     \* offset[p]: local variable offset of the walk, or pos of the fill
    prev,       \* prev[p]: local variable prev of the fill, -1 before the first block
    again,      \* again[p]: the last walk found a block, so p goes round again
    killed,     \* processes killed
    clobbered,  \* history: SETVAL hit the semaphore while a process was inside
    current,    \* history: the producer whose blocks are in the memory
    made,       \* history: made[p], offsets of the blocks p made
    taken       \* history: taken[p][o], times p's block at o was taken

procVars == <<offset, prev, again>>
histVars == <<clobbered, current, made, taken>>
vars == <<sem, mem, pc, offset, prev, again, killed, clobbered, current, made, taken>>

Init ==
    /\ sem = IF SysV THEN 0 ELSE 1
    /\ mem = [o \in Offsets |-> 0]
    /\ pc = [p \in Processes |-> "idle"]
    /\ offset = [p \in Processes |-> 0]
    /\ prev = [p \in Processes |-> -1]
    /\ again = [p \in Processes |-> TRUE]
    /\ killed = {}
    /\ clobbered = FALSE
    /\ current = NoProducer
    /\ made = [p \in Producers |-> {}]
    /\ taken = [p \in Producers |-> [o \in Offsets |-> 0]]

(* Reading the memory.  Only a corrupted chain leads past its end, and the *)
(* page it lies in is zero there.                                          *)
At(o) == IF o \in Offsets THEN mem[o] ELSE 0

Goto(p, there) == pc' = [pc EXCEPT ![p] = there]

(* The critical sections, and a process that is in one.                    *)
InFill(p) == pc[p] \in {"fill", "leaveFill"}
InWalk(p) == pc[p] \in {"walk", "leaveWalk"}
Inside == {p \in Processes : InFill(p) \/ InWalk(p)}

-----------------------------------------------------------------------------
(* get_shmid, get_semid, shmat; shm_open, mmap, sem_open.                  *)
Start(p) ==
    /\ pc[p] = "idle"
    /\ Goto(p, IF p \notin Producers THEN "wantWalk"
               ELSE IF SysV THEN "setval" ELSE "wantFill")
    /\ UNCHANGED <<sem, mem, procVars, killed, histVars>>

(* The System V producer gives the semaphore its first value, also when    *)
(* the semaphore is not new.                                               *)
SetVal(p) ==
    /\ pc[p] = "setval"
    /\ sem' = 1
    /\ clobbered' = (clobbered \/ Inside # {})
    /\ Goto(p, "wantFill")
    /\ UNCHANGED <<mem, procVars, killed, current, made, taken>>

(* Slip: the lock does not wait.                                           *)
LockNoWait(p, from, to) ==
    /\ pc[p] = from
    /\ sem' = sem - 1
    /\ Goto(p, to)

Lock(p, from, to) ==
    /\ pc[p] = from
    /\ sem > 0
    /\ sem' = sem - 1
    /\ Goto(p, to)

LockFill(p) ==
    /\ Lock(p, "wantFill", "fill")
    /\ offset' = [offset EXCEPT ![p] = 1]
    /\ prev' = [prev EXCEPT ![p] = -1]
    /\ UNCHANGED <<mem, again, killed, histVars>>

(* Slip: one cell of the header is forgotten.                              *)
RoomTooLarge(pos) == Total - pos - 1

Room(pos) == Total - pos - 2

(* One turn of the fill loop: write a block and link it to the last one.   *)
Fill(p) ==
    LET pos == offset[p] IN
    /\ pc[p] = "fill"
    /\ pos + 2 < Total
    /\ \E count \in 1 .. (IF Room(pos) < MaxLen THEN Room(pos) ELSE MaxLen) :
          /\ \E data \in [pos + 2 .. pos + 1 + count -> Values] :
                mem' = [o \in Offsets |->
                          IF o = pos THEN count
                          ELSE IF o = pos + 1 THEN 0
                          ELSE IF o \in pos + 2 .. pos + 1 + count THEN data[o]
                          ELSE IF prev[p] # -1 /\ o = prev[p] + 1 THEN pos
                          ELSE mem[o]]
          /\ offset' = [offset EXCEPT ![p] = pos + 2 + count]
    /\ prev' = [prev EXCEPT ![p] = pos]
    /\ made' = [made EXCEPT ![p] = @ \cup {pos}]
    /\ current' = p
    /\ UNCHANGED <<sem, pc, again, killed, clobbered, taken>>

Publish(p) ==
    /\ pc[p] = "fill"
    /\ offset[p] + 2 >= Total
    /\ mem' = [mem EXCEPT ![0] = IF prev[p] # -1 THEN 1 ELSE 0]
    /\ Goto(p, "leaveFill")
    /\ UNCHANGED <<sem, procVars, killed, histVars>>

UnlockFill(p) ==
    /\ pc[p] = "leaveFill"
    /\ sem' = sem + 1
    /\ Goto(p, "wantWalk")
    /\ UNCHANGED <<mem, procVars, killed, histVars>>

(* Slip: the walk begins without the lock.                                 *)
LockWalkForgotten(p) ==
    /\ pc[p] = "wantWalk"
    /\ Goto(p, "walk")
    /\ offset' = [offset EXCEPT ![p] = mem[0]]
    /\ UNCHANGED <<sem, mem, prev, again, killed, histVars>>

(* The walk along the chain, the same in the producer's poll loop and in   *)
(* the consumer.                                                           *)
LockWalk(p) ==
    /\ Lock(p, "wantWalk", "walk")
    /\ offset' = [offset EXCEPT ![p] = mem[0]]
    /\ UNCHANGED <<mem, prev, again, killed, histVars>>

(* Slip: the walk follows the count instead of the offset.                 *)
HopWrongField(p) ==
    /\ pc[p] = "walk"
    /\ offset[p] # 0
    /\ At(offset[p]) = 0
    /\ offset' = [offset EXCEPT ![p] = At(@)]
    /\ UNCHANGED <<sem, mem, pc, prev, again, killed, histVars>>

Hop(p) ==
    /\ pc[p] = "walk"
    /\ offset[p] # 0
    /\ At(offset[p]) = 0
    /\ offset' = [offset EXCEPT ![p] = At(@ + 1)]
    /\ UNCHANGED <<sem, mem, pc, prev, again, killed, histVars>>

EndOfChain(p) ==
    /\ pc[p] = "walk"
    /\ offset[p] = 0
    /\ again' = [again EXCEPT ![p] = FALSE]
    /\ Goto(p, "leaveWalk")
    /\ UNCHANGED <<sem, mem, offset, prev, killed, histVars>>

(* Slip: done keeps its initial value.                                     *)
NotDoneForgotten(p) ==
    /\ p \in Producers
    /\ pc[p] = "walk"
    /\ offset[p] # 0
    /\ At(offset[p]) # 0
    /\ again' = [again EXCEPT ![p] = FALSE]
    /\ Goto(p, "leaveWalk")
    /\ UNCHANGED <<sem, mem, offset, prev, killed, histVars>>

(* A block that is not taken yet: the producer knows it is not done.       *)
NotDone(p) ==
    /\ p \in Producers
    /\ pc[p] = "walk"
    /\ offset[p] # 0
    /\ At(offset[p]) # 0
    /\ Goto(p, "leaveWalk")
    /\ UNCHANGED <<sem, mem, procVars, killed, histVars>>

(* Slip: the block is not marked.                                          *)
TakeUnmarked(c) ==
    /\ c \in Consumers
    /\ pc[c] = "walk"
    /\ offset[c] # 0
    /\ At(offset[c]) # 0
    /\ taken' = IF current \in Producers
                THEN [taken EXCEPT ![current][offset[c]] = @ + 1]
                ELSE taken
    /\ Goto(c, "leaveWalk")
    /\ UNCHANGED <<sem, mem, procVars, killed, clobbered, current, made>>

(* The consumer reads the values and marks the block as taken.             *)
Take(c) ==
    /\ c \in Consumers
    /\ pc[c] = "walk"
    /\ offset[c] # 0
    /\ At(offset[c]) # 0
    /\ mem' = [mem EXCEPT ![offset[c]] = 0]
    /\ taken' = IF current \in Producers
                THEN [taken EXCEPT ![current][offset[c]] = @ + 1]
                ELSE taken
    /\ Goto(c, "leaveWalk")
    /\ UNCHANGED <<sem, procVars, killed, clobbered, current, made>>

(* Slip: leaving the loop leaves the semaphore taken.                      *)
UnlockUnlessDone(p) ==
    /\ pc[p] = "leaveWalk"
    /\ sem' = IF again[p] THEN sem + 1 ELSE sem
    /\ Goto(p, IF again[p] THEN "sleep" ELSE "exit")
    /\ UNCHANGED <<mem, procVars, killed, histVars>>

UnlockWalk(p) ==
    /\ pc[p] = "leaveWalk"
    /\ sem' = sem + 1
    /\ Goto(p, IF again[p] THEN "sleep" ELSE "exit")
    /\ UNCHANGED <<mem, procVars, killed, histVars>>

Wake(p) ==
    /\ pc[p] = "sleep"
    /\ Goto(p, "wantWalk")
    /\ UNCHANGED <<sem, mem, procVars, killed, histVars>>

(* SIGINT or SIGKILL: nothing is undone, a lock that is held stays held.   *)
Kill(p) ==
    /\ pc[p] \notin {"idle", "exit", "killed"}
    /\ Cardinality(killed) < MaxKills
    /\ killed' = killed \cup {p}
    /\ Goto(p, "killed")
    /\ UNCHANGED <<sem, mem, procVars, histVars>>

Step(p) ==
    \/ SetVal(p)
    \/ LockFill(p)
    \/ Fill(p)
    \/ Publish(p)
    \/ UnlockFill(p)
    \/ LockWalk(p)
    \/ Hop(p)
    \/ EndOfChain(p)
    \/ NotDone(p)
    \/ Take(p)
    \/ UnlockWalk(p)
    \/ Wake(p)

Next == \E p \in Processes : Start(p) \/ Step(p) \/ Kill(p)

Spec == Init /\ [][Next]_vars

(* A process that can run is scheduled, and a semaphore does not starve    *)
(* one waiter for ever: the others sleep between two rounds.  Nobody has   *)
(* to start a process.                                                     *)
FairSpec == Spec /\ \A p \in Processes : WF_vars(Step(p)) /\ SF_vars(LockFill(p) \/ LockWalk(p))
-----------------------------------------------------------------------------
(* Properties.  All of them speak of behaviours in which no System V       *)
(* producer was started while another process was inside: there SETVAL     *)
(* lets a second process in, and the code promises nothing.                *)

PCs == {"idle", "setval", "wantFill", "fill", "leaveFill", "wantWalk", "walk",
        "leaveWalk", "sleep", "exit", "killed"}

TypeOK ==
    /\ sem \in Nat
    /\ mem \in [Offsets -> Nat]
    /\ pc \in [Processes -> PCs]
    /\ \A c \in Consumers : pc[c] \notin {"setval", "wantFill", "fill", "leaveFill"}
    /\ offset \in [Processes -> Nat]
    /\ prev \in [Processes -> Offsets \cup {-1}]
    /\ again \in [Processes -> BOOLEAN]
    /\ killed \subseteq Processes
    /\ clobbered \in BOOLEAN
    /\ current \in Producers \cup {NoProducer}
    /\ made \in [Producers -> SUBSET Offsets]
    /\ taken \in [Producers -> [Offsets -> Nat]]

(* At most one process touches the memory, the semaphore is free only when *)
(* none does, and it is lost only to a process that was killed inside (or, *)
(* with System V, before the first producer has given it a value).         *)
LockAccounted ==
    ~clobbered =>
        /\ \A p, q \in Inside : p = q
        /\ sem > 0 => Inside = {} /\ sem = 1
        /\ sem = 0 /\ Inside = {} =>
              \/ killed # {}
              \/ SysV /\ \A p \in Producers : pc[p] \in {"idle", "setval"}

(* The chain consists of the blocks of one producer, all of them, in order:*)
(* every walk from mem[0] stays inside the memory, only goes forward, so   *)
(* that it ends, and no block runs into the next.  This holds while a      *)
(* chain is being built over an older one, and also when its producer is   *)
(* killed half way.                                                        *)
ChainWellFormed ==
    ~clobbered =>
        /\ mem[0] \in {0, 1}
        /\ current = NoProducer => mem[0] = 0
        /\ current # NoProducer =>
              LET blocks == made[current] IN
              /\ 1 \in blocks
              /\ \A o \in blocks :
                    /\ 1 <= o /\ o + 2 < Total
                    /\ o + 2 + mem[o] <= Total
                    /\ mem[o + 1] = 0 => \A q \in blocks : q <= o
                    /\ mem[o + 1] # 0 => mem[o + 1] \in blocks /\ mem[o + 1] > o
              /\ \A o, q \in blocks :
                    o < q => /\ o + 2 + mem[o] <= q /\ o + 2 < q
                             /\ mem[o + 1] <= q

(* No block is taken twice, and nothing but blocks is ever taken.          *)
TakenOnce ==
    ~clobbered =>
        \A p \in Producers, o \in Offsets :
            taken[p][o] <= (IF o \in made[p] THEN 1 ELSE 0)

(* Producer and consumers say "all sets processed" only when every block   *)
(* of a published chain is taken, whoever took them and whenever they came.*)
NobodyLeavesEarly ==
    ~clobbered =>
        \A p \in Processes :
            pc[p] = "leaveWalk" /\ ~again[p] /\ mem[0] # 0 /\ current \in Producers
            => \A o \in made[current] : taken[current][o] = 1

(* A producer that has finished lost nothing: its blocks are all taken,    *)
(* unless another producer has written over them since.                    *)
FinishedMeansTaken ==
    ~clobbered =>
        \A p \in Producers :
            pc[p] = "exit" /\ current = p => \A o \in made[p] : taken[p][o] = 1

(* Blocks are taken exactly once: never twice, and none of them is left    *)
(* when its producer says that it has finished.                            *)
TakenExactlyOnce == TakenOnce /\ FinishedMeansTaken

(* One consumer that has found work is enough for the producer to finish,  *)
(* as long as nothing is killed and no other producer interferes.          *)
ProducerFinishes ==
    \A p \in Producers :
        (current = p /\ \E c \in Consumers : pc[c] = "sleep") ~>
            (pc[p] = "exit" \/ current # p \/ killed # {} \/ clobbered)
=============================================================================
