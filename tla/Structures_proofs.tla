------------------------- MODULE Structures_proofs -------------------------
(***************************************************************************)
(* Proofs about the structures the programs build. First SharedBlocks, for *)
(* any number of processes, any size of the memory and of the blocks, and  *)
(* for both the System V and the POSIX program: the chain of blocks in the *)
(* memory. Then Exercises, for all values of its constants: the linked     *)
(* list and the queue are those of a sequence of entries, each block of    *)
(* the array's heap has one owner, and masks change as chmod would.        *)
(***************************************************************************)
EXTENDS SharedBlocks, Exercises, FiniteSetTheorems, SequenceTheorems,
        WellFoundedInduction, SequencesExt, TLAPS

LEMMA TypeInit == Init => TypeOK
<1> SUFFICES ASSUME Init PROVE TypeOK
    OBVIOUS
<1>1. /\ sem \in Nat /\ mem \in [Offsets -> Nat] /\ offset \in [Processes -> Nat]
    BY DEF Init
<1>2. /\ pc \in [Processes -> PCs] /\ again \in [Processes -> BOOLEAN]
    BY DEF Init, PCs
<1>3. /\ made \in [Producers -> SUBSET Offsets]
      /\ taken \in [Producers -> [Offsets -> Nat]]
    BY DEF Init
<1>4. prev \in [Processes -> Offsets \cup {-1}]
    BY DEF Init
<1> QED
    BY <1>1, <1>2, <1>3, <1>4 DEF Init, TypeOK, Processes

LEMMA FillTypes == ASSUME TypeOK, NEW p \in Processes, Fill(p) PROVE TypeOK'
<1>1. /\ Total \in Nat /\ MaxLen \in Nat \ {0} /\ Values \subseteq 0 .. 99
    BY BlocksAssumption DEF BlocksAssumption
<1> DEFINE pos == offset[p]
<1>2. pos \in Nat /\ pos + 2 < Total /\ pos \in Offsets
    BY <1>1 DEF Fill, TypeOK, Offsets
<1>3. PICK count \in 1 .. (IF Room(pos) < MaxLen THEN Room(pos) ELSE MaxLen) :
       \E values \in [pos + 2 .. pos + 1 + count -> Values] :
          /\ mem' = [o \in Offsets |->
                       IF o = pos THEN count
                       ELSE IF o = pos + 1 THEN 0
                       ELSE IF o \in pos + 2 .. pos + 1 + count THEN values[o]
                       ELSE IF prev[p] # -1 /\ o = prev[p] + 1 THEN pos
                       ELSE mem[o]]
          /\ offset' = [offset EXCEPT ![p] = pos + 2 + count]
    BY DEF Fill
<1>4. count \in Nat
    BY <1>1, <1>2 DEF Room
<1>5. \A values \in [pos + 2 .. pos + 1 + count -> Values] :
          \A o \in pos + 2 .. pos + 1 + count : values[o] \in Nat
    <2>1. Values \subseteq Nat
        BY <1>1
    <2> QED
        BY <2>1
<1>6. mem' \in [Offsets -> Nat]
    <2>1. PICK values \in [pos + 2 .. pos + 1 + count -> Values] :
              mem' = [o \in Offsets |->
                       IF o = pos THEN count
                       ELSE IF o = pos + 1 THEN 0
                       ELSE IF o \in pos + 2 .. pos + 1 + count THEN values[o]
                       ELSE IF prev[p] # -1 /\ o = prev[p] + 1 THEN pos
                       ELSE mem[o]]
        BY <1>3
    <2>2. \A o \in Offsets : mem'[o] \in Nat
        BY <1>2, <1>4, <1>5, <2>1 DEF TypeOK
    <2> QED
        BY <2>1, <2>2
<1>7. offset' \in [Processes -> Nat]
    BY <1>2, <1>3, <1>4 DEF TypeOK
<1>8. /\ prev' \in [Processes -> Offsets \cup {-1}]
      /\ made' \in [Producers -> SUBSET Offsets]
      /\ current' \in Producers \cup {NoProducer}
    BY <1>2 DEF Fill, TypeOK, Processes
<1> QED
    BY <1>6, <1>7, <1>8 DEF Fill, TypeOK

LEMMA StepTypes ==
    ASSUME TypeOK, NEW p \in Processes, Start(p) \/ Step(p) \/ Kill(p)
    PROVE  TypeOK'
<1> USE DEF procVars, histVars, Goto, PCs, Lock
<1>1. 1 \in Nat /\ 0 \in Offsets /\ \A o : At(o) \in Nat
    BY BlocksAssumption DEF BlocksAssumption, At, Offsets, TypeOK
<1>2. ASSUME NEW there \in PCs, Goto(p, there),
             p \in Producers \/ there \notin {"setval", "wantFill", "fill", "leaveFill"}
      PROVE  /\ pc' \in [Processes -> PCs]
             /\ \A c \in Consumers : pc'[c] \notin {"setval", "wantFill", "fill", "leaveFill"}
    BY <1>2, BlocksAssumption DEF BlocksAssumption, TypeOK
<1>3. pc[p] \in {"setval", "wantFill", "fill", "leaveFill"} => p \in Producers
    BY DEF TypeOK, Processes
<1>4. CASE Start(p)
    BY <1>2, <1>4 DEF Start, TypeOK
<1>5. CASE SetVal(p)
    BY <1>1, <1>2, <1>3, <1>5 DEF SetVal, TypeOK
<1>6. CASE LockFill(p)
    BY <1>1, <1>2, <1>3, <1>6 DEF LockFill, TypeOK
<1>7. CASE Fill(p)
    BY <1>7, FillTypes
<1>8. CASE Publish(p)
    <2>1. mem' \in [Offsets -> Nat]
        BY <1>1, <1>8 DEF Publish, TypeOK
    <2> QED
        BY <1>2, <1>3, <1>8, <2>1 DEF Publish, TypeOK
<1>9. CASE UnlockFill(p)
    BY <1>2, <1>9 DEF UnlockFill, TypeOK
<1>10. CASE LockWalk(p)
    BY <1>1, <1>2, <1>10 DEF LockWalk, TypeOK
<1>11. CASE Hop(p)
    BY <1>1, <1>11 DEF Hop, TypeOK
<1>12. CASE EndOfChain(p)
    BY <1>2, <1>12 DEF EndOfChain, TypeOK
<1>13. CASE NotDone(p)
    BY <1>2, <1>13 DEF NotDone, TypeOK
<1>14. CASE Take(p)
    <2>1. mem' \in [Offsets -> Nat] /\ offset[p] \in Offsets
        BY <1>14 DEF Take, At, TypeOK
    <2>2. taken' \in [Producers -> [Offsets -> Nat]]
        BY <1>14, <2>1 DEF Take, TypeOK
    <2> QED
        BY <1>2, <1>14, <2>1, <2>2 DEF Take, TypeOK
<1>15. CASE UnlockWalk(p)
    BY <1>2, <1>15 DEF UnlockWalk, TypeOK
<1>16. CASE Wake(p)
    BY <1>2, <1>16 DEF Wake, TypeOK
<1>17. CASE Kill(p)
    BY <1>2, <1>17 DEF Kill, TypeOK
<1> QED
    BY <1>4, <1>5, <1>6, <1>7, <1>8, <1>9, <1>10, <1>11, <1>12, <1>13, <1>14, <1>15, <1>16, <1>17
    DEF Step

(* The variables hold values of their types; in particular no walk ever    *)
(* reads through a negative offset.                                        *)
THEOREM TypeCorrect == Spec => []TypeOK
<1>1. TypeOK /\ [Next]_vars => TypeOK'
    <2> SUFFICES ASSUME TypeOK, [Next]_vars PROVE TypeOK'
        OBVIOUS
    <2>1. CASE UNCHANGED vars
        BY <2>1 DEF vars, TypeOK
    <2> QED
        BY <2>1, StepTypes DEF Next
<1> QED
    BY <1>1, TypeInit, PTL DEF Spec

-----------------------------------------------------------------------------
(* Mutual exclusion.  LockAccounted is inductive as it stands.             *)

LEMMA LockStep ==
    ASSUME TypeOK, TypeOK', LockAccounted, NEW p \in Processes, Start(p) \/ Step(p) \/ Kill(p)
    PROVE  LockAccounted'
<1> SUFFICES ASSUME ~clobbered' PROVE LockAccounted'
    BY DEF LockAccounted
<1> USE DEF procVars, histVars, Goto
<1>1. ~clobbered
    BY DEF Start, Step, SetVal, LockFill, Fill, Publish, UnlockFill, LockWalk, Hop, EndOfChain,
           NotDone, Take, UnlockWalk, Wake, Kill
<1>2. ASSUME Lock(p, "wantFill", "fill") \/ Lock(p, "wantWalk", "walk")
      PROVE  LockAccounted'
    <2>1. sem = 1 /\ Inside = {} /\ sem' = 0
        BY <1>1, <1>2 DEF Lock, LockAccounted, TypeOK
    <2>2. Inside' = {p}
        BY <1>2, <2>1 DEF Lock, Inside, InFill, InWalk, TypeOK
    <2> QED
        BY <2>1, <2>2 DEF LockAccounted
<1>3. ASSUME p \in Inside, sem' = sem + 1, NEW there \in PCs, Goto(p, there),
             there \notin {"fill", "leaveFill", "walk", "leaveWalk"}
      PROVE  LockAccounted'
    <2>1. sem = 0 /\ Inside = {p}
        BY <1>1, <1>3 DEF LockAccounted, TypeOK
    <2>2. sem' = 1 /\ Inside' = {}
        BY <1>3, <2>1 DEF Inside, InFill, InWalk, TypeOK
    <2> QED
        BY <2>2 DEF LockAccounted
<1>4. ASSUME UNCHANGED <<sem, killed>>, Inside' = Inside,
             SysV => \A q \in Producers : pc[q] \in {"idle", "setval"} => pc'[q] \in {"idle", "setval"}
      PROVE  LockAccounted'
    BY <1>1, <1>4 DEF LockAccounted
<1>5. ASSUME UNCHANGED <<sem, killed>>, NEW there \in PCs, Goto(p, there),
             (p \in Inside) <=> there \in {"fill", "leaveFill", "walk", "leaveWalk"},
             SysV /\ pc[p] \in {"idle", "setval"} /\ p \in Producers => there \in {"idle", "setval"}
      PROVE  LockAccounted'
    <2>1. Inside' = Inside
        BY <1>5 DEF Inside, InFill, InWalk, TypeOK
    <2>2. SysV => \A q \in Producers : pc[q] \in {"idle", "setval"} => pc'[q] \in {"idle", "setval"}
        BY <1>5 DEF TypeOK, Processes
    <2> QED
        BY <1>4, <1>5, <2>1, <2>2
<1>6. pc[p] \in {"fill", "leaveFill", "walk", "leaveWalk"} <=> p \in Inside
    BY DEF Inside, InFill, InWalk
<1> USE DEF PCs
<1>7. CASE Start(p)
    <2>1. PICK there \in {"setval", "wantFill", "wantWalk"} :
              Goto(p, there) /\ (SysV /\ p \in Producers => there = "setval")
        BY <1>7 DEF Start
    <2> QED
        BY <1>5, <1>6, <1>7, <2>1 DEF Start
<1>8. CASE SetVal(p)
    <2>1. Inside = {} /\ Inside' = Inside
        BY <1>8 DEF SetVal, Inside, InFill, InWalk, TypeOK
    <2> QED
        BY <1>8, <2>1 DEF SetVal, LockAccounted
<1>9. CASE LockFill(p) \/ LockWalk(p)
    BY <1>2, <1>9 DEF LockFill, LockWalk
<1>10. CASE Fill(p) \/ Hop(p)
    <2>1. UNCHANGED <<sem, killed, pc>>
        BY <1>10 DEF Fill, Hop
    <2> QED
        BY <1>4, <2>1 DEF Inside, InFill, InWalk
<1>11. CASE Publish(p)
    BY <1>5, <1>6, <1>11 DEF Publish
<1>12. CASE UnlockFill(p)
    BY <1>3, <1>6, <1>12 DEF UnlockFill
<1>13. CASE EndOfChain(p)
    BY <1>5, <1>6, <1>13 DEF EndOfChain
<1>14. CASE NotDone(p)
    BY <1>5, <1>6, <1>14 DEF NotDone
<1>15. CASE Take(p)
    BY <1>5, <1>6, <1>15 DEF Take
<1>16. CASE UnlockWalk(p)
    BY <1>3, <1>6, <1>16 DEF UnlockWalk
<1>17. CASE Wake(p)
    BY <1>5, <1>6, <1>17 DEF Wake
<1>18. CASE Kill(p)
    <2>1. sem' = sem /\ killed' # {} /\ Inside' \subseteq Inside
        BY <1>18 DEF Kill, Inside, InFill, InWalk, TypeOK
    <2> QED
        BY <1>1, <2>1 DEF LockAccounted
<1> QED
    BY <1>7, <1>8, <1>9, <1>10, <1>11, <1>12, <1>13, <1>14, <1>15, <1>16, <1>17, <1>18 DEF Step

(* Mutual exclusion, and the semaphore is lost only with a process killed  *)
(* inside, for any number of producers and consumers.                      *)
THEOREM MutualExclusion == Spec => []LockAccounted
<1>1. Init => LockAccounted
    <2> SUFFICES ASSUME Init PROVE LockAccounted
        OBVIOUS
    <2>1. Inside = {} /\ \A p \in Producers : pc[p] \in {"idle", "setval"}
        BY DEF Init, Inside, InFill, InWalk, Processes
    <2>2. sem = IF SysV THEN 0 ELSE 1
        BY DEF Init
    <2> QED
        BY <2>1, <2>2 DEF LockAccounted
<1>2. TypeOK /\ TypeOK' /\ LockAccounted /\ [Next]_vars => LockAccounted'
    <2> SUFFICES ASSUME TypeOK, TypeOK', LockAccounted, [Next]_vars PROVE LockAccounted'
        OBVIOUS
    <2>1. CASE UNCHANGED vars
        BY <2>1 DEF vars, LockAccounted, Inside, InFill, InWalk
    <2> QED
        BY <2>1, LockStep DEF Next
<1> QED
    BY <1>1, <1>2, TypeCorrect, PTL DEF Spec

-----------------------------------------------------------------------------
(* The chain.  What the fill loop, the walks and the marks know about it,  *)
(* as long as nobody was let in by SETVAL.                                 *)

(* A producer has made nothing before its fill, and while it fills, its    *)
(* last block is the end of the chain and offset is the cell behind it.    *)
NotMadeYet ==
    \A p \in Producers : pc[p] \in {"idle", "setval", "wantFill"} => made[p] = {}
Filling ==
    \A p \in Producers : pc[p] = "fill" =>
        IF prev[p] = -1
        THEN offset[p] = 1 /\ made[p] = {}
        ELSE /\ current = p
             /\ prev[p] \in made[p]
             /\ \A o \in made[p] : o <= prev[p]
             /\ mem[prev[p]] > 0 /\ mem[prev[p] + 1] = 0
             /\ offset[p] = prev[p] + 2 + mem[prev[p]]

(* Once published, a chain or a later one stays published.                 *)
Published ==
    \A p \in Producers :
        pc[p] \in {"leaveFill", "wantWalk", "walk", "leaveWalk", "sleep", "exit"}
        => mem[0] = 1

(* A walk stands on a block, and every block before it is taken.           *)
Walking ==
    \A p \in Processes :
        InWalk(p) =>
            /\ offset[p] # 0 => current \in Producers /\ offset[p] \in made[current]
            /\ pc[p] = "walk" /\ mem[0] # 0 /\ current \in Producers =>
                  \A o \in made[current] :
                      offset[p] = 0 \/ o < offset[p] => mem[o] = 0
            /\ pc[p] = "leaveWalk" /\ ~again[p] /\ mem[0] # 0 /\ current \in Producers =>
                  \A o \in made[current] : mem[o] = 0

(* again is cleared at the end of the chain only, on the way out.          *)
AgainUntilDone ==
    \A p \in Processes : ~again[p] => pc[p] \in {"leaveWalk", "exit", "killed"}

(* A block's count is cleared when it is taken and not before.             *)
MarkedWhenTaken ==
    current \in Producers =>
        \A o \in made[current] : mem[o] = 0 <=> taken[current][o] = 1

ChainInv == /\ NotMadeYet /\ Filling /\ Published /\ Walking /\ AgainUntilDone
            /\ MarkedWhenTaken

IInv == /\ TypeOK /\ LockAccounted /\ ChainWellFormed /\ TakenExactlyOnce
        /\ ~clobbered => ChainInv

(* A chain of blocks in memory m: one block per element, from 1, linked in *)
(* order and disjoint.                                                     *)
Chain(blocks, m) ==
    /\ 1 \in blocks
    /\ \A o \in blocks :
          /\ 1 <= o /\ o + 2 < Total
          /\ o + 2 + m[o] <= Total
          /\ m[o + 1] = 0 => \A q \in blocks : q <= o
          /\ m[o + 1] # 0 => m[o + 1] \in blocks /\ m[o + 1] > o
    /\ \A o, q \in blocks :
          o < q => /\ o + 2 + m[o] <= q /\ o + 2 < q
                   /\ m[o + 1] <= q

LEMMA ChainIs ==
    ASSUME TypeOK
    PROVE  ChainWellFormed <=>
             (~clobbered => /\ mem[0] \in {0, 1}
                            /\ current = NoProducer => mem[0] = 0
                            /\ current \in Producers => Chain(made[current], mem))
BY BlocksAssumption DEF BlocksAssumption, ChainWellFormed, Chain, TypeOK

(* What one turn of the fill loop writes: a block with at least one value  *)
(* that ends inside the memory, and the link to it.                        *)
LEMMA FillWrites ==
    ASSUME TypeOK, NEW p \in Producers, Fill(p)
    PROVE  /\ offset[p] + 2 < Total /\ offset[p] \in Offsets
           /\ \E count \in Nat \ {0} :
                 /\ offset'[p] = offset[p] + 2 + count
                 /\ offset[p] + 2 + count <= Total
                 /\ mem'[offset[p]] = count
           /\ mem'[offset[p] + 1] = 0
           /\ \A o \in Offsets :
                 o < offset[p] =>
                     mem'[o] = IF prev[p] # -1 /\ o = prev[p] + 1 THEN offset[p] ELSE mem[o]
           /\ \A q \in Processes : q # p => offset'[q] = offset[q]
<1>1. /\ Total \in Nat /\ MaxLen \in Nat \ {0}
    BY BlocksAssumption DEF BlocksAssumption
<1> DEFINE pos == offset[p]
<1>2. pos \in Nat /\ pos + 2 < Total /\ pos \in Offsets /\ p \in Processes
    BY <1>1 DEF Fill, TypeOK, Offsets, Processes
<1> DEFINE after(count, values) ==
              [o \in Offsets |-> IF o = pos THEN count
                                ELSE IF o = pos + 1 THEN 0
                                ELSE IF o \in pos + 2 .. pos + 1 + count THEN values[o]
                                ELSE IF prev[p] # -1 /\ o = prev[p] + 1 THEN pos
                                ELSE mem[o]]
<1>0. PICK count \in 1 .. (IF Room(pos) < MaxLen THEN Room(pos) ELSE MaxLen) :
          /\ \E values \in [pos + 2 .. pos + 1 + count -> Values] : mem' = after(count, values)
          /\ offset' = [offset EXCEPT ![p] = pos + 2 + count]
    BY DEF Fill
<1>3. PICK values \in [pos + 2 .. pos + 1 + count -> Values] : mem' = after(count, values)
    BY <1>0
<1>4. count \in Nat \ {0} /\ pos + 2 + count <= Total
    BY <1>1, <1>2 DEF Room
<1>5. mem'[pos] = count /\ pos + 1 \in Offsets /\ mem'[pos + 1] = 0
    BY <1>1, <1>2, <1>3 DEF Offsets
<1>6. \A o \in Offsets :
        o < pos => mem'[o] = IF prev[p] # -1 /\ o = prev[p] + 1 THEN pos ELSE mem[o]
    <2> SUFFICES ASSUME NEW o \in Offsets, o < pos
                 PROVE  mem'[o] = IF prev[p] # -1 /\ o = prev[p] + 1 THEN pos ELSE mem[o]
        OBVIOUS
    <2>1. o # pos /\ o # pos + 1 /\ o \notin pos + 2 .. pos + 1 + count
        BY <1>1, <1>2, <1>4 DEF Offsets
    <2> QED
        BY <1>3, <2>1
<1>7. offset'[p] = pos + 2 + count /\ \A q \in Processes : q # p => offset'[q] = offset[q]
    BY <1>0, <1>2 DEF TypeOK
<1> QED
    BY <1>2, <1>4, <1>5, <1>6, <1>7

LEMMA FillKeepsChain ==
    ASSUME IInv, TypeOK', LockAccounted', NEW p \in Processes, Fill(p), ~clobbered
    PROVE  ChainWellFormed' /\ TakenOnce' /\ FinishedMeansTaken' /\ ChainInv'
<1> DEFINE pos == offset[p]
           old == made[p]
<1>1. p \in Producers /\ pc[p] = "fill" /\ Total \in Nat /\ Total >= 4 /\ ChainInv /\ TypeOK
    BY BlocksAssumption DEF IInv, TypeOK, Fill, Processes, BlocksAssumption
<1>2. /\ clobbered' = clobbered /\ current' = p /\ taken' = taken /\ pc' = pc
      /\ again' = again
      /\ made'[p] = old \cup {pos} /\ prev'[p] = pos
      /\ \A q \in Producers : q # p => made'[q] = made[q] /\ prev'[q] = prev[q]
    BY <1>1 DEF Fill, TypeOK, Processes
<1>3. /\ pos + 2 < Total /\ pos \in Offsets
      /\ mem'[pos + 1] = 0
      /\ \A o \in Offsets :
           o < pos => mem'[o] = IF prev[p] # -1 /\ o = prev[p] + 1 THEN pos ELSE mem[o]
    BY <1>1, FillWrites
<1>4. PICK count \in Nat \ {0} :
          /\ offset'[p] = pos + 2 + count /\ pos + 2 + count <= Total /\ mem'[pos] = count
    BY <1>1, FillWrites
<1>5. \A q \in Processes : InFill(q) \/ InWalk(q) => q = p
    BY <1>1 DEF IInv, LockAccounted, Inside, InFill, InWalk
<1>6. /\ \A o \in old : o \in Nat /\ 1 <= o /\ o + 2 < Total /\ o + 2 + mem[o] <= pos /\ o + 2 < pos
      /\ \A o \in old : o # prev[p] => mem[o + 1] # 0 /\ mem[o + 1] \in old /\ mem[o + 1] > o
      /\ \A o, q \in old : o < q => o + 2 + mem[o] <= q /\ o + 2 < q /\ mem[o + 1] <= q
      /\ pos >= 1
    <2>1. CASE prev[p] = -1
        BY <1>1, <2>1 DEF ChainInv, Filling
    <2>2. CASE prev[p] # -1
        <3>1. current = p /\ prev[p] \in old /\ (\A o \in old : o <= prev[p])
              /\ pos = prev[p] + 2 + mem[prev[p]] /\ mem[prev[p]] > 0
            BY <1>1, <2>2 DEF ChainInv, Filling
        <3>2. Chain(old, mem)
            BY <1>1, <3>1, ChainIs DEF IInv
        <3>3. \A o \in old : o \in Nat /\ mem[o] \in Nat
            BY <1>1 DEF TypeOK, Offsets
        <3>4. \A o \in old : o # prev[p] => o < prev[p]
            BY <3>1, <3>3
        <3> DEFINE linked(o) == mem[o + 1]
        <3>5. \A o \in old : 1 <= o /\ o + 2 < Total
            BY <3>2 DEF Chain
        <3>10. \A o \in old : linked(o) = 0 => \A q \in old : q <= o
            BY <3>2 DEF Chain
        <3>11. \A o \in old : linked(o) # 0 => linked(o) \in old /\ linked(o) > o
            BY <3>2 DEF Chain
        <3>6. \A o, q \in old : o < q => o + 2 + mem[o] <= q /\ o + 2 < q /\ linked(o) <= q
            BY <3>2 DEF Chain
        <3> HIDE DEF linked, old, pos
        <3>7. \A o \in old : o + 2 + mem[o] <= pos /\ o + 2 < pos
            <4> SUFFICES ASSUME NEW o \in old PROVE o + 2 + mem[o] <= pos /\ o + 2 < pos
                OBVIOUS
            <4>1. prev[p] \in Nat /\ mem[prev[p]] \in Nat /\ o \in Nat /\ mem[o] \in Nat
                BY <3>1, <3>3
            <4>2. CASE o = prev[p]
                BY <3>1, <4>1, <4>2
            <4>3. CASE o # prev[p]
                <5>1. o < prev[p] /\ o + 2 + mem[o] <= prev[p] /\ o + 2 < prev[p]
                    BY <3>1, <3>4, <3>6, <4>3
                <5> QED
                    BY <3>1, <4>1, <5>1
            <4> QED
                BY <4>2, <4>3
        <3>8. \A o \in old : o # prev[p] => linked(o) # 0 /\ linked(o) \in old /\ linked(o) > o
            <4>1. prev[p] \in Nat
                BY <3>1, <3>3
            <4> QED
                BY <3>1, <3>3, <3>4, <3>10, <3>11, <4>1
        <3>9. pos >= 1 /\ \A o \in old : o \in Nat /\ 1 <= o /\ o + 2 < Total
            BY <3>1, <3>3, <3>5
        <3> QED
            BY <3>6, <3>7, <3>8, <3>9 DEF linked
    <2> QED
        BY <2>1, <2>2
<1>7. /\ \A o \in old : mem'[o] = mem[o]
      /\ \A o \in old : mem'[o + 1] = IF o = prev[p] THEN pos ELSE mem[o + 1]
      /\ mem'[0] = mem[0]
    <2> SUFFICES ASSUME NEW o \in old
                 PROVE  mem'[o] = mem[o] /\ mem'[o + 1] = IF o = prev[p] THEN pos ELSE mem[o + 1]
        <3>1. 0 \in Offsets /\ 0 < pos /\ (prev[p] # -1 => prev[p] + 1 # 0)
            <4>1. 0 \in Offsets /\ pos \in Nat /\ prev[p] \in Offsets \cup {-1}
                BY <1>1, <1>3 DEF Offsets, TypeOK, Processes
            <4> QED
                BY <1>6, <4>1 DEF Offsets
        <3> QED
            BY <1>3, <3>1
    <2>1. o \in Nat /\ o \in Offsets /\ o + 1 \in Offsets /\ o < pos /\ o + 1 < pos
        <3>1. o \in Nat /\ o + 2 < Total /\ o + 2 < pos /\ pos \in Nat
            BY <1>3, <1>6 DEF Offsets
        <3> HIDE DEF pos
        <3> QED
            BY <1>1, <3>1 DEF Offsets
    <2>2. prev[p] # -1 => prev[p] \in old /\ prev[p] \in Nat
        BY <1>1 DEF ChainInv, Filling, TypeOK, Offsets
    <2>3. prev[p] # -1 => o # prev[p] + 1
        <3> SUFFICES ASSUME prev[p] # -1, o = prev[p] + 1 PROVE FALSE
            OBVIOUS
        <3>1. prev[p] < o
            BY <2>2
        <3>2. prev[p] + 2 < o
            BY <1>6, <2>2, <3>1
        <3> QED
            BY <2>2, <3>2
    <2>4. mem'[o] = mem[o]
        BY <1>3, <2>1, <2>3
    <2>5. mem'[o + 1] = IF o = prev[p] THEN pos ELSE mem[o + 1]
        BY <1>3, <2>1, <2>2
    <2> QED
        BY <2>4, <2>5
<1> DEFINE new == made'[p]
           linked(o) == mem[o + 1]
           link2(o) == mem'[o + 1]
<1>8. Chain(new, mem')
    <2>1. /\ \A o \in old : o \in Nat /\ 1 <= o /\ o + 2 < Total /\ o + 2 + mem[o] <= pos /\ o + 2 < pos
          /\ \A o \in old : o # prev[p] => linked(o) # 0 /\ linked(o) \in old /\ linked(o) > o
          /\ \A o, q \in old : o < q => o + 2 + mem[o] <= q /\ o + 2 < q /\ linked(o) <= q
          /\ pos \in Nat /\ pos >= 1 /\ pos + 2 < Total
        BY <1>3, <1>6 DEF Offsets
    <2>2. /\ \A o \in old : mem'[o] = mem[o] /\ link2(o) = IF o = prev[p] THEN pos ELSE linked(o)
          /\ link2(pos) = 0 /\ mem'[pos] = count /\ pos + 2 + count <= Total
        BY <1>3, <1>4, <1>7
    <2>3. \A o \in old : o # prev[p] => o < prev[p] /\ prev[p] \in old
        <3>1. \A o \in old : o \in Nat
            BY <1>6
        <3>2. old # {} => prev[p] \in old /\ \A o \in old : o <= prev[p]
            BY <1>1 DEF ChainInv, Filling
        <3> QED
            BY <3>1, <3>2
    <2>4. 1 \in new
        <3>1. CASE prev[p] = -1
            BY <1>1, <1>2, <3>1 DEF ChainInv, Filling
        <3>2. CASE prev[p] # -1
            BY <1>1, <1>2, <3>2, ChainIs DEF IInv, ChainInv, Filling, Chain
        <3> QED
            BY <3>1, <3>2
    <2>5. \A o \in new : o \in old \/ o = pos
        BY <1>2
    <2>6. \A o \in old : o \in new
        BY <1>2
    <2>7. pos \in new
        BY <1>2
    <2>8. \A o \in old : mem[o] \in Nat
        BY <1>1 DEF TypeOK
    <2> HIDE DEF new, old, pos, linked, link2
    <2>9. \A o \in new : 1 <= o /\ o + 2 < Total /\ o + 2 + mem'[o] <= Total
        <3> SUFFICES ASSUME NEW o \in new
                     PROVE  1 <= o /\ o + 2 < Total /\ o + 2 + mem'[o] <= Total
            OBVIOUS
        <3>1. CASE o = pos
            BY <2>1, <2>2, <3>1
        <3>2. CASE o \in old
            BY <1>1, <2>1, <2>2, <2>8, <3>2
        <3> QED
            BY <2>5, <3>1, <3>2
    <2>10. \A o \in new : link2(o) = 0 => o = pos
        BY <2>1, <2>2, <2>5
    <2>11. \A o \in new : o <= pos
        BY <2>1, <2>5
    <2>12. \A o \in new : link2(o) # 0 => link2(o) \in new /\ link2(o) > o
        BY <2>1, <2>2, <2>5, <2>6, <2>7
    <2>13. \A o, q \in new : o < q => o + 2 + mem'[o] <= q /\ o + 2 < q
        <3> SUFFICES ASSUME NEW o \in new, NEW q \in new, o < q
                     PROVE  o + 2 + mem'[o] <= q /\ o + 2 < q
            OBVIOUS
        <3>1. o \in old
            BY <2>1, <2>5
        <3>2. CASE q \in old
            BY <2>1, <2>2, <3>1, <3>2
        <3>3. CASE q = pos
            BY <2>1, <2>2, <3>1, <3>3
        <3> QED
            BY <2>5, <3>2, <3>3
    <2>14. \A o, q \in new : o < q => link2(o) <= q
        <3> SUFFICES ASSUME NEW o \in new, NEW q \in new, o < q
                     PROVE  link2(o) <= q
            OBVIOUS
        <3>1. o \in old
            BY <2>1, <2>5
        <3>2. CASE q \in old
            BY <2>1, <2>2, <2>3, <3>1, <3>2
        <3>3. CASE q = pos
            <4>1. CASE o = prev[p]
                BY <2>1, <2>2, <3>1, <3>3, <4>1
            <4>2. CASE o # prev[p]
                <5>1. link2(o) = linked(o) /\ linked(o) \in old
                    BY <2>1, <2>2, <3>1, <4>2
                <5>2. linked(o) \in Nat /\ linked(o) + 2 < pos
                    BY <2>1, <5>1
                <5> QED
                    BY <2>1, <3>3, <5>1, <5>2
            <4> QED
                BY <4>1, <4>2
        <3> QED
            BY <2>5, <3>2, <3>3
    <2> QED
        BY <2>4, <2>9, <2>10, <2>11, <2>12, <2>13, <2>14 DEF Chain, link2
<1> HIDE DEF new, linked, link2
<1>9. ChainWellFormed'
    <2>1. mem'[0] = mem[0] /\ mem[0] \in {0, 1} /\ current' # NoProducer
        BY <1>1, <1>2, <1>7, BlocksAssumption DEF IInv, ChainWellFormed, BlocksAssumption
    <2> QED
        BY <1>2, <1>8, <2>1 DEF ChainWellFormed, Chain, new
<1>13. \A o \in old : o \in Nat /\ o < pos
    BY <1>3, <1>6 DEF Offsets
<1>14. \A o \in old : taken[p][o] \in Nat /\ (mem[o] = 0 <=> taken[p][o] = 1)
    <2>1. old # {} => current = p
        BY <1>1 DEF ChainInv, Filling
    <2> QED
        BY <1>1, <2>1 DEF ChainInv, MarkedWhenTaken, TypeOK
<1>15. pos \notin old /\ taken[p][pos] = 0
    <2>1. pos \notin old
        BY <1>3, <1>13 DEF Offsets
    <2> QED
        BY <1>1, <1>3, <2>1 DEF IInv, TakenExactlyOnce, TakenOnce, TypeOK
<1>10. MarkedWhenTaken' /\ TakenOnce' /\ FinishedMeansTaken'
    <2>1. MarkedWhenTaken'
        BY <1>2, <1>4, <1>7, <1>14, <1>15 DEF MarkedWhenTaken
    <2>2. TakenOnce'
        BY <1>1, <1>2 DEF IInv, TakenExactlyOnce, TakenOnce, TypeOK
    <2>3. FinishedMeansTaken'
        BY <1>1, <1>2 DEF FinishedMeansTaken
    <2> QED
        BY <2>1, <2>2, <2>3
<1>11. NotMadeYet' /\ Filling' /\ Published'
    <2>1. NotMadeYet' /\ Published'
        BY <1>1, <1>2, <1>7 DEF ChainInv, NotMadeYet, Published
    <2>2. Filling'
        <3>1. \A q \in Producers : pc[q] = "fill" => q = p
            BY <1>5 DEF InFill, Processes
        <3> QED
            BY <1>2, <1>3, <1>4, <1>13, <3>1 DEF Filling, Offsets
    <2> QED
        BY <2>1, <2>2
<1>12. Walking' /\ AgainUntilDone'
    <2>1. \A q \in Processes : ~InWalk(q)'
        BY <1>1, <1>2, <1>5 DEF InWalk, InFill
    <2> QED
        BY <1>1, <1>2, <2>1 DEF ChainInv, Walking, AgainUntilDone
<1> QED
    BY <1>9, <1>10, <1>11, <1>12 DEF ChainInv

(* Publishing.  The memory has room for a block, so that there is one.     *)
LEMMA PublishKeepsChain ==
    ASSUME IInv, TypeOK', LockAccounted', NEW p \in Processes, Publish(p), ~clobbered
    PROVE  ChainWellFormed' /\ TakenOnce' /\ FinishedMeansTaken' /\ ChainInv'
<1> USE DEF procVars, histVars, Goto
<1>1. p \in Producers /\ pc[p] = "fill" /\ Total \in Nat /\ Total >= 4 /\ ChainInv /\ TypeOK
    BY BlocksAssumption DEF IInv, TypeOK, Publish, Processes, BlocksAssumption
<1>2. prev[p] # -1 /\ current = p
    BY <1>1 DEF ChainInv, Filling, Publish
<1>3. \A q \in Processes : InFill(q) \/ InWalk(q) => q = p
    BY <1>1 DEF IInv, LockAccounted, Inside, InFill, InWalk
<1>4. mem' = [mem EXCEPT ![0] = 1] /\ 0 \in Offsets
    BY <1>1, <1>2 DEF Publish, Offsets
<1>5. pc'[p] = "leaveFill" /\ \A q \in Processes : q # p => pc'[q] = pc[q]
    BY <1>1 DEF Publish, TypeOK
<1>6. Chain(made[p], mem)
    BY <1>1, <1>2, ChainIs DEF IInv
<1>7. \A o \in made[p] : mem'[o] = mem[o] /\ mem'[o + 1] = mem[o + 1]
    <2>2. \A o \in made[p] : o \in Nat
        BY <1>1 DEF TypeOK, Offsets
    <2>3. \A o \in made[p] : 1 <= o
        BY <1>6 DEF Chain
    <2>1. \A o \in made[p] : o # 0 /\ o + 1 # 0
        BY <2>2, <2>3
    <2> QED
        BY <1>1, <1>4, <2>1 DEF TypeOK
<1>8. Chain(made[p], mem')
    BY <1>6, <1>7 DEF Chain
<1>9. mem'[0] = 1
    BY <1>1, <1>4 DEF TypeOK
<1>10. ChainWellFormed'
    BY <1>1, <1>2, <1>8, <1>9, BlocksAssumption
    DEF ChainWellFormed, Chain, Publish, BlocksAssumption
<1>11. TakenOnce' /\ FinishedMeansTaken'
    BY <1>2, <1>5 DEF IInv, TakenExactlyOnce, TakenOnce, FinishedMeansTaken, Publish, Processes
<1>12. MarkedWhenTaken'
    BY <1>1, <1>2, <1>7 DEF ChainInv, MarkedWhenTaken, Publish
<1>13. NotMadeYet' /\ Published'
    BY <1>1, <1>5, <1>9 DEF ChainInv, NotMadeYet, Published, Publish, Processes
<1>14. Filling' /\ Walking'
    BY <1>3, <1>5 DEF Filling, Walking, InFill, InWalk, Processes
<1>15. AgainUntilDone'
    BY <1>1, <1>5 DEF ChainInv, AgainUntilDone, Publish
<1> QED
    BY <1>10, <1>11, <1>12, <1>13, <1>14, <1>15 DEF ChainInv

(* Taking.  The count of one block is cleared, and the links are not.      *)
LEMMA TakeKeepsChain ==
    ASSUME IInv, TypeOK', LockAccounted', NEW p \in Processes, Take(p), ~clobbered
    PROVE  ChainWellFormed' /\ TakenOnce' /\ FinishedMeansTaken' /\ ChainInv'
<1> USE DEF procVars, histVars, Goto
<1> DEFINE here == offset[p]
<1>1. p \in Consumers /\ pc[p] = "walk" /\ Total \in Nat /\ ChainInv /\ TypeOK /\ p \notin Producers
    BY BlocksAssumption DEF IInv, Take, BlocksAssumption
<1>2. here # 0 /\ current \in Producers /\ here \in made[current] /\ here \in Offsets
    BY <1>1 DEF ChainInv, Walking, InWalk, Take, TypeOK
<1>3. \A q \in Processes : InFill(q) \/ InWalk(q) => q = p
    BY <1>1 DEF IInv, LockAccounted, Inside, InFill, InWalk
<1>4. /\ mem[here] # 0 /\ mem' = [mem EXCEPT ![here] = 0]
      /\ taken' = [taken EXCEPT ![current][here] = @ + 1]
    BY <1>2 DEF Take, At
<1>5. pc'[p] = "leaveWalk" /\ \A q \in Processes : q # p => pc'[q] = pc[q]
    BY <1>1 DEF Take, TypeOK
<1>6. Chain(made[current], mem)
    BY <1>2, ChainIs, <1>1 DEF IInv
<1>7. /\ \A o \in made[current] : mem'[o] = IF o = here THEN 0 ELSE mem[o]
      /\ \A o \in made[current] : mem'[o + 1] = mem[o + 1]
      /\ mem'[0] = mem[0]
    <2>1. \A o \in made[current] : o \in Offsets /\ o \in Nat /\ o + 2 < Total
        BY <1>1, <1>2, <1>6 DEF Chain, TypeOK, Offsets
    <2>2. \A o \in made[current] : o + 1 # here
        <3> SUFFICES ASSUME NEW o \in made[current], o + 1 = here PROVE FALSE
            OBVIOUS
        <3>1. o < here /\ here \in Nat /\ o \in Nat
            BY <1>2, <2>1
        <3>2. o + 2 < here
            BY <1>2, <1>6, <3>1 DEF Chain
        <3> QED
            BY <3>1, <3>2
    <2>3. \A o \in made[current] : o + 1 \in Offsets
        BY <1>1, <2>1 DEF Offsets
    <2>4. 0 \in Offsets /\ \A o \in Offsets : mem'[o] = IF o = here THEN 0 ELSE mem[o]
        BY <1>1, <1>2, <1>4 DEF TypeOK, Offsets
    <2> HIDE DEF here
    <2> QED
        BY <1>2, <2>1, <2>2, <2>3, <2>4
<1>8. Chain(made[current], mem')
    <2>1. \A o \in made[current] : o \in Nat /\ mem[o] \in Nat
        BY <1>1, <1>2 DEF TypeOK, Offsets
    <2>2. \A o \in made[current] : o + 2 + mem'[o] <= Total
        BY <1>1, <1>6, <1>7, <2>1 DEF Chain
    <2>3. \A o, q \in made[current] : o < q => o + 2 + mem'[o] <= q
        <3> SUFFICES ASSUME NEW o \in made[current], NEW q \in made[current], o < q
                     PROVE  o + 2 + mem'[o] <= q
            OBVIOUS
        <3>1. o + 2 + mem[o] <= q /\ o + 2 < q
            BY <1>6 DEF Chain
        <3> QED
            BY <1>7, <2>1, <3>1
    <2> QED
        BY <1>6, <1>7, <2>2, <2>3 DEF Chain
<1>9. ChainWellFormed'
    BY <1>1, <1>2, <1>7, <1>8, BlocksAssumption
    DEF IInv, ChainWellFormed, Chain, Take, BlocksAssumption
<1>10. taken[current][here] = 0
    <2>1. taken[current][here] \in Nat /\ taken[current][here] <= 1
        BY <1>1, <1>2 DEF IInv, TakenExactlyOnce, TakenOnce, TypeOK
    <2>2. taken[current][here] # 1
        BY <1>1, <1>2, <1>4 DEF ChainInv, MarkedWhenTaken
    <2> QED
        BY <2>1, <2>2
<1>11. \A q \in Producers, o \in Offsets :
         taken'[q][o] = IF q = current /\ o = here THEN 1 ELSE taken[q][o]
    BY <1>1, <1>2, <1>4, <1>10 DEF TypeOK
<1>12. TakenOnce'
    BY <1>1, <1>2, <1>11 DEF IInv, TakenExactlyOnce, TakenOnce, Take
<1>13. FinishedMeansTaken'
    <2>1. pc[current] # "exit"
        BY <1>1, <1>2, <1>10 DEF IInv, TakenExactlyOnce, FinishedMeansTaken
    <2> QED
        BY <1>1, <1>5, <2>1 DEF FinishedMeansTaken, Take, Processes
<1>14. MarkedWhenTaken'
    <2>1. \A o \in made[current] : o \in Offsets
        BY <1>1, <1>2 DEF TypeOK
    <2> QED
        BY <1>1, <1>2, <1>7, <1>11, <2>1 DEF ChainInv, MarkedWhenTaken, Take
<1>15. NotMadeYet' /\ Published' /\ Filling'
    BY <1>1, <1>3, <1>5, <1>7
    DEF ChainInv, NotMadeYet, Published, Filling, InFill, Take, Processes
<1>16. again[p]
    BY <1>1 DEF ChainInv, AgainUntilDone, TypeOK
<1>17. Walking' /\ AgainUntilDone'
    BY <1>1, <1>2, <1>3, <1>5, <1>16
    DEF ChainInv, Walking, AgainUntilDone, InFill, InWalk, Take
<1> QED
    BY <1>9, <1>12, <1>13, <1>14, <1>15, <1>17 DEF ChainInv

(* The other steps leave the chain alone: what matters is where they leave *)
(* the process that takes them.                                            *)
LEMMA QuietKeepsChain ==
    ASSUME IInv, TypeOK', LockAccounted', NEW p \in Processes, ~clobbered', ~clobbered,
           \/ Start(p) \/ SetVal(p) \/ LockFill(p) \/ UnlockFill(p) \/ LockWalk(p) \/ Hop(p)
           \/ EndOfChain(p) \/ NotDone(p) \/ UnlockWalk(p) \/ Wake(p) \/ Kill(p)
    PROVE  ChainWellFormed' /\ TakenOnce' /\ FinishedMeansTaken' /\ ChainInv'
<1> USE DEF procVars, histVars, Goto, Lock
<1>1. TypeOK /\ ChainInv /\ Total \in Nat /\ Total >= 4
    BY BlocksAssumption DEF IInv, BlocksAssumption
<1>2. UNCHANGED <<mem, current, made, taken>>
    BY DEF Start, SetVal, LockFill, UnlockFill, LockWalk, Hop, EndOfChain, NotDone, UnlockWalk,
           Wake, Kill
<1>3. ChainWellFormed' /\ TakenOnce' /\ MarkedWhenTaken'
    BY <1>1, <1>2
    DEF IInv, ChainWellFormed, TakenExactlyOnce, TakenOnce, ChainInv, MarkedWhenTaken
<1>4. \A q \in Processes : q # p => /\ pc'[q] = pc[q] /\ offset'[q] = offset[q]
                                   /\ prev'[q] = prev[q] /\ again'[q] = again[q]
    BY <1>1
    DEF Start, SetVal, LockFill, UnlockFill, LockWalk, Hop, EndOfChain, NotDone, UnlockWalk,
        Wake, Kill, TypeOK
<1>5. ASSUME p \in Producers =>
               /\ pc'[p] \in {"idle", "setval", "wantFill"} => pc[p] \in {"idle", "setval", "wantFill"}
               /\ pc'[p] = "fill" => /\ pc[p] = "wantFill" /\ prev'[p] = -1 /\ offset'[p] = 1
               /\ pc'[p] \in {"leaveFill", "wantWalk", "walk", "leaveWalk", "sleep", "exit"} =>
                    pc[p] \in {"leaveFill", "wantWalk", "walk", "leaveWalk", "sleep", "exit"}
      PROVE  NotMadeYet' /\ Filling' /\ Published'
    BY <1>1, <1>2, <1>4, <1>5 DEF ChainInv, NotMadeYet, Filling, Published, Processes
<1>6. ASSUME pc'[p] \notin {"walk", "leaveWalk"}, again' = again, pc[p] # "exit",
             pc'[p] \in {"exit", "killed"} \/ pc[p] \notin {"leaveWalk", "exit", "killed"}
                                            \/ again[p],
             pc'[p] = "exit" => pc[p] = "leaveWalk" /\ ~again[p]
      PROVE  Walking' /\ AgainUntilDone' /\ FinishedMeansTaken'
    <2>1. Walking'
        BY <1>1, <1>2, <1>4, <1>6 DEF ChainInv, Walking, InWalk
    <2>2. AgainUntilDone'
        BY <1>1, <1>4, <1>6 DEF ChainInv, AgainUntilDone
    <2>3. ASSUME p \in Producers, pc'[p] = "exit", current = p
          PROVE  \A o \in made[p] : taken[p][o] = 1
        <3>1. mem[0] = 1
            BY <1>1, <1>6, <2>3 DEF ChainInv, Published
        <3>2. \A o \in made[p] : mem[o] = 0
            BY <1>1, <1>6, <2>3, <3>1 DEF ChainInv, Walking, InWalk, Processes
        <3> QED
            BY <1>1, <2>3, <3>2 DEF ChainInv, MarkedWhenTaken
    <2>4. FinishedMeansTaken'
        BY <1>2, <1>4, <2>3 DEF IInv, TakenExactlyOnce, FinishedMeansTaken, Processes
    <2> QED
        BY <2>1, <2>2, <2>4
<1>7. CASE Start(p)
    <2>1. pc'[p] \in {"setval", "wantFill", "wantWalk"} /\ (p \in Producers => pc'[p] # "wantWalk")
        BY <1>1, <1>7 DEF Start, TypeOK
    <2> QED
        BY <1>3, <1>5, <1>6, <1>7, <2>1 DEF Start, ChainInv
<1>8. CASE SetVal(p)
    <2>1. pc'[p] = "wantFill"
        BY <1>1, <1>8 DEF SetVal, TypeOK
    <2> QED
        BY <1>3, <1>5, <1>6, <1>8, <2>1 DEF SetVal, ChainInv
<1>9. CASE LockFill(p)
    <2>1. pc'[p] = "fill" /\ prev'[p] = -1 /\ offset'[p] = 1
        BY <1>1, <1>9 DEF LockFill, TypeOK
    <2> QED
        BY <1>3, <1>5, <1>6, <1>9, <2>1 DEF LockFill, ChainInv
<1>10. CASE UnlockFill(p)
    <2>1. pc'[p] = "wantWalk"
        BY <1>1, <1>10 DEF UnlockFill, TypeOK
    <2> QED
        BY <1>3, <1>5, <1>6, <1>10, <2>1 DEF UnlockFill, ChainInv
<1>11. CASE UnlockWalk(p)
    <2>1. pc'[p] = IF again[p] THEN "sleep" ELSE "exit"
        BY <1>1, <1>11 DEF UnlockWalk, TypeOK
    <2> QED
        BY <1>3, <1>5, <1>6, <1>11, <2>1 DEF UnlockWalk, ChainInv
<1>12. CASE Wake(p)
    <2>1. pc'[p] = "wantWalk"
        BY <1>1, <1>12 DEF Wake, TypeOK
    <2> QED
        BY <1>3, <1>5, <1>6, <1>12, <2>1 DEF Wake, ChainInv
<1>13. CASE Kill(p)
    <2>1. pc'[p] = "killed"
        BY <1>1, <1>13 DEF Kill, TypeOK
    <2> QED
        BY <1>3, <1>5, <1>6, <1>13, <2>1 DEF Kill, ChainInv
<1>14. CASE LockWalk(p)
    <2>1. pc'[p] = "walk" /\ offset'[p] = mem[0] /\ again' = again /\ pc[p] = "wantWalk"
        BY <1>1, <1>14 DEF LockWalk, TypeOK
    <2>2. /\ mem[0] \in {0, 1} /\ (current = NoProducer => mem[0] = 0)
          /\ current \in Producers => Chain(made[current], mem)
        BY <1>1, ChainIs DEF IInv
    <2>3. current \in Producers => 1 \in made[current] /\ \A o \in made[current] : ~(o < 1) /\ 1 # 0
        BY <1>1, <2>2 DEF Chain, TypeOK, Offsets
    <2>4. Walking'
        BY <1>1, <1>2, <1>4, <2>1, <2>2, <2>3 DEF ChainInv, Walking, InWalk, TypeOK
    <2>5. AgainUntilDone' /\ FinishedMeansTaken'
        BY <1>1, <1>2, <1>4, <2>1
        DEF ChainInv, AgainUntilDone, IInv, TakenExactlyOnce, FinishedMeansTaken, Processes
    <2> QED
        BY <1>3, <1>5, <2>1, <2>4, <2>5 DEF ChainInv
<1>15. CASE Hop(p)
    <2>1. /\ pc' = pc /\ pc[p] = "walk" /\ again' = again /\ prev' = prev
          /\ offset[p] # 0 /\ At(offset[p]) = 0 /\ offset'[p] = At(offset[p] + 1)
        BY <1>1, <1>15 DEF Hop, TypeOK
    <2>2. current \in Producers /\ offset[p] \in made[current]
        BY <1>1, <2>1 DEF ChainInv, Walking, InWalk
    <2>3. Chain(made[current], mem)
        BY <1>1, <2>2, ChainIs DEF IInv
    <2> DEFINE here == offset[p]
               next == offset'[p]
    <2>4. here \in Offsets /\ here + 2 < Total /\ here + 1 \in Offsets
        <3>1. here \in Offsets
            BY <1>1, <2>2 DEF TypeOK
        <3>2. here + 2 < Total
            BY <2>2, <2>3 DEF Chain
        <3> HIDE DEF here
        <3> QED
            BY <1>1, <3>1, <3>2 DEF Offsets
    <2>5. mem[here] = 0 /\ next = mem[here + 1]
        BY <2>1, <2>4 DEF At
    <2>6. next # 0 => next \in made[current]
        BY <2>2, <2>3, <2>5 DEF Chain
    <2>7. ASSUME mem[0] # 0
          PROVE  \A o \in made[current] : next = 0 \/ o < next => mem[o] = 0
        <3>1. \A o \in made[current] : o < here => mem[o] = 0
            BY <1>1, <2>1, <2>2, <2>7 DEF ChainInv, Walking, InWalk
        <3>2. \A o \in made[current] : o \in Nat /\ here \in Nat /\ next \in Nat
            BY <1>1, <2>2, <2>4, <2>5 DEF TypeOK, Offsets
        <3>3. next = 0 => \A o \in made[current] : o <= here
            BY <2>2, <2>3, <2>5 DEF Chain
        <3>4. \A o \in made[current] : here < o => next <= o
            BY <2>2, <2>3, <2>5 DEF Chain
        <3> HIDE DEF here, next
        <3> SUFFICES ASSUME NEW o \in made[current], next = 0 \/ o < next PROVE mem[o] = 0
            OBVIOUS
        <3>5. o <= here
            BY <3>2, <3>3, <3>4
        <3> QED
            BY <2>5, <3>1, <3>2, <3>5
    <2>8. Walking'
        BY <1>1, <1>2, <1>4, <2>1, <2>2, <2>6, <2>7 DEF ChainInv, Walking, InWalk
    <2>9. AgainUntilDone' /\ FinishedMeansTaken'
        BY <1>1, <1>2, <2>1 DEF ChainInv, AgainUntilDone, IInv, TakenExactlyOnce, FinishedMeansTaken
    <2> QED
        BY <1>3, <1>5, <2>1, <2>8, <2>9 DEF ChainInv
<1>16. CASE EndOfChain(p)
    <2>1. /\ pc'[p] = "leaveWalk" /\ pc[p] = "walk" /\ offset' = offset /\ offset[p] = 0
          /\ prev' = prev
        BY <1>1, <1>16 DEF EndOfChain, TypeOK
    <2>2. Walking'
        BY <1>1, <1>2, <1>4, <2>1 DEF ChainInv, Walking, InWalk
    <2>3. AgainUntilDone' /\ FinishedMeansTaken'
        BY <1>1, <1>2, <1>4, <2>1
        DEF ChainInv, AgainUntilDone, IInv, TakenExactlyOnce, FinishedMeansTaken, Processes
    <2> QED
        BY <1>3, <1>5, <2>1, <2>2, <2>3 DEF ChainInv
<1>17. CASE NotDone(p)
    <2>1. /\ pc'[p] = "leaveWalk" /\ pc[p] = "walk" /\ offset' = offset /\ again' = again
          /\ prev' = prev
        BY <1>1, <1>17 DEF NotDone, TypeOK
    <2>2. again[p]
        BY <1>1, <2>1 DEF ChainInv, AgainUntilDone
    <2>3. Walking'
        BY <1>1, <1>2, <1>4, <2>1, <2>2 DEF ChainInv, Walking, InWalk
    <2>4. AgainUntilDone' /\ FinishedMeansTaken'
        BY <1>1, <1>2, <1>4, <2>1, <2>2
        DEF ChainInv, AgainUntilDone, IInv, TakenExactlyOnce, FinishedMeansTaken, Processes
    <2> QED
        BY <1>3, <1>5, <2>1, <2>3, <2>4 DEF ChainInv
<1> QED
    BY <1>7, <1>8, <1>9, <1>10, <1>11, <1>12, <1>13, <1>14, <1>15, <1>16, <1>17

LEMMA ChainInductive == Spec => []IInv
<1>1. Init => IInv
    <2> SUFFICES ASSUME Init PROVE IInv
        OBVIOUS
    <2>1. TypeOK /\ LockAccounted
        <3>1. Inside = {} /\ \A p \in Producers : pc[p] \in {"idle", "setval"}
            BY DEF Init, Inside, InFill, InWalk, Processes
        <3>2. sem = IF SysV THEN 0 ELSE 1
            BY DEF Init
        <3> QED
            BY TypeInit, <3>1, <3>2 DEF LockAccounted
    <2>2. ChainWellFormed
        BY BlocksAssumption DEF Init, ChainWellFormed, BlocksAssumption, Offsets
    <2>3. TakenExactlyOnce
        BY DEF Init, TakenExactlyOnce, TakenOnce, FinishedMeansTaken, Processes
    <2>4. ChainInv
        BY BlocksAssumption
        DEF Init, ChainInv, NotMadeYet, Filling, Published, Walking, InWalk, AgainUntilDone,
            MarkedWhenTaken, Processes, BlocksAssumption
    <2> QED
        BY <2>1, <2>2, <2>3, <2>4 DEF IInv
<1>2. IInv /\ TypeOK' /\ LockAccounted' /\ [Next]_vars => IInv'
    <2> SUFFICES ASSUME IInv, TypeOK', LockAccounted', [Next]_vars PROVE IInv'
        OBVIOUS
    <2>1. CASE UNCHANGED vars
        BY <2>1
        DEF vars, IInv, ChainWellFormed, TakenExactlyOnce, TakenOnce, FinishedMeansTaken, ChainInv,
            NotMadeYet, Filling, Published, Walking, InWalk, AgainUntilDone, MarkedWhenTaken
    <2>2. CASE clobbered'
        BY <2>2 DEF IInv, ChainWellFormed, TakenExactlyOnce, TakenOnce, FinishedMeansTaken
    <2>3. ASSUME ~clobbered', NEW p \in Processes, Start(p) \/ Step(p) \/ Kill(p)
          PROVE  IInv'
        <3>1. ~clobbered
            BY <2>3
            DEF Start, Step, SetVal, LockFill, Fill, Publish, UnlockFill, LockWalk, Hop,
                EndOfChain, NotDone, Take, UnlockWalk, Wake, Kill, histVars
        <3>2. ChainWellFormed' /\ TakenOnce' /\ FinishedMeansTaken' /\ ChainInv'
            BY <2>3, <3>1, FillKeepsChain, PublishKeepsChain, TakeKeepsChain, QuietKeepsChain
            DEF Step
        <3> QED
            BY <3>2 DEF IInv, TakenExactlyOnce
    <2> QED
        BY <2>1, <2>2, <2>3 DEF Next
<1> QED
    BY <1>1, <1>2, TypeCorrect, MutualExclusion, PTL DEF Spec

(* Every walk stays inside the memory and goes forward, for any memory and *)
(* block size, also over a chain that is half built or whose producer was  *)
(* killed.                                                                 *)
THEOREM ChainsWellFormed == Spec => []ChainWellFormed
<1>1. IInv => ChainWellFormed
    BY DEF IInv
<1> QED
    BY <1>1, ChainInductive, PTL

(* No block is taken twice by any number of consumers, and a producer that *)
(* has finished lost none.                                                 *)
THEOREM EachBlockTakenOnce == Spec => []TakenExactlyOnce
<1>1. IInv => TakenExactlyOnce
    BY DEF IInv
<1> QED
    BY <1>1, ChainInductive, PTL

(* Who leaves because all is processed is right: the walk has seen every   *)
(* block of the chain taken.                                               *)
THEOREM LeavingIsRight == Spec => []NobodyLeavesEarly
<1>1. IInv => NobodyLeavesEarly
    BY DEF IInv, NobodyLeavesEarly, ChainInv, Walking, InWalk, MarkedWhenTaken
<1> QED
    BY <1>1, ChainInductive, PTL

-----------------------------------------------------------------------------
(* Facts the exercises need. *)

(* The least element of a set of numbers: the prover's induction. *)
LEMMA Least ==
  ASSUME NEW T, T \subseteq Nat, T # {}
  PROVE  \E x \in T : \A y \in T : x <= y
<1> DEFINE R == {ss \in Nat \X Nat : ss[1] < ss[2]}
<1>1. R = OpToRel(<, Nat)
  BY DEF OpToRel
<1>2. IsWellFoundedOn(R, Nat)
  BY <1>1, NatLessThanWellFounded
<1> HIDE DEF R
<1>3. PICK x \in T : \A y \in T : ~ (<<y, x>> \in R)
  BY <1>2, WFMin
<1>4. ASSUME NEW y \in T PROVE x <= y
  <2>1. x \in Nat /\ y \in Nat /\ <<y, x>> \notin R
    BY <1>3
  <2>2. ~(y < x)
    BY <2>1 DEF R
  <2> QED
    BY <2>1, <2>2
<1> QED
  BY <1>4

(* Taking one position out of a sequence closes the gap and disturbs       *)
(* nothing else: list_del as the code does it.                             *)
IsRemoved(t, s, i) ==
  /\ Len(t) = Len(s) - 1
  /\ \A j \in 1 .. Len(s) - 1 : t[j] = IF j < i THEN s[j] ELSE s[j + 1]

LEMMA RemovedIs ==
  ASSUME NEW S, NEW s \in Seq(S), NEW i \in 1 .. Len(s)
  PROVE  RemoveAt(s, i) \in Seq(S) /\ IsRemoved(RemoveAt(s, i), s, i)
<1> DEFINE front == SubSeq(s, 1, i - 1)
           back == SubSeq(s, i + 1, Len(s))
<1>1. /\ front \in Seq(S) /\ Len(front) = i - 1
      /\ \A j \in 1..(i - 1) : front[j] = s[j]
  BY SubSeqProperties
<1>2. /\ back \in Seq(S) /\ Len(back) = Len(s) - i
      /\ \A j \in 1..(Len(s) - i) : back[j] = s[i + j]
  BY SubSeqProperties
<1> HIDE DEF front, back
<1>3. /\ front \o back \in Seq(S) /\ Len(front \o back) = Len(s) - 1
      /\ \A j \in 1..(Len(s) - 1) :
           (front \o back)[j] = IF j <= i - 1 THEN front[j] ELSE back[j - (i - 1)]
  BY <1>1, <1>2, ConcatProperties
<1>4. \A j \in 1..(Len(s) - 1) :
        (front \o back)[j] = IF j < i THEN s[j] ELSE s[j + 1]
  <2> SUFFICES ASSUME NEW j \in 1..(Len(s) - 1)
               PROVE  (front \o back)[j] = IF j < i THEN s[j] ELSE s[j + 1]
    OBVIOUS
  <2>1. CASE j < i
    BY <2>1, <1>1, <1>3
  <2>2. CASE ~(j < i)
    <3>1. j - (i - 1) \in 1..(Len(s) - i) /\ i + (j - (i - 1)) = j + 1
      BY <2>2
    <3>2. back[j - (i - 1)] = s[j + 1]
      BY <3>1, <1>2
    <3> QED BY <2>2, <3>2, <1>3
  <2> QED BY <2>1, <2>2
<1>5. RemoveAt(s, i) = front \o back
  BY DEF RemoveAt, front, back
<1> DEFINE t == front \o back
<1> HIDE DEF t
<1>6. t \in Seq(S) /\ IsRemoved(t, s, i)
  BY ONLY <1>3, <1>4 DEF IsRemoved, t
<1> QED
  BY <1>5, <1>6 DEF t

IsInserted(t, s, i, e) ==
  /\ Len(t) = Len(s) + 1
  /\ \A j \in 1 .. Len(s) + 1 : t[j] = IF j < i THEN s[j] ELSE IF j = i THEN e ELSE s[j - 1]

LEMMA InsertedIs ==
  ASSUME NEW S, NEW s \in Seq(S), NEW i \in 1 .. Len(s) + 1, NEW e \in S
  PROVE  InsertAt(s, i, e) \in Seq(S) /\ IsInserted(InsertAt(s, i, e), s, i, e)
<1> DEFINE a == SubSeq(s, 1, i - 1)
           b == SubSeq(s, i, Len(s))
           c == <<e>>
<1>1. a \in Seq(S) /\ Len(a) = i - 1 /\ \A j \in 1 .. i - 1 : a[j] = s[j]
  <2>1. \A j \in 1 .. i - 1 : s[j] \in S
    OBVIOUS
  <2> QED
    BY <2>1, SubSeqProperties
<1>2. b \in Seq(S) /\ Len(b) = Len(s) - i + 1 /\ \A j \in 1 .. Len(s) - i + 1 : b[j] = s[i + j - 1]
  <2>1. \A j \in i .. Len(s) : s[j] \in S
    OBVIOUS
  <2> QED
    BY <2>1, SubSeqProperties
<1>c. c \in Seq(S) /\ Len(c) = 1 /\ c[1] = e
  OBVIOUS
<1>3. InsertAt(s, i, e) = (a \o c) \o b
  BY DEF InsertAt
<1> HIDE DEF a, b, c
<1>4. /\ a \o c \in Seq(S) /\ Len(a \o c) = i
      /\ \A j \in 1 .. i : (a \o c)[j] = IF j <= i - 1 THEN a[j] ELSE c[j - (i - 1)]
  <2>1. /\ a \o c \in Seq(S) /\ Len(a \o c) = Len(a) + Len(c)
        /\ \A j \in 1 .. Len(a) + Len(c) : (a \o c)[j] = IF j <= Len(a) THEN a[j] ELSE c[j - Len(a)]
    BY <1>1, <1>c, ConcatProperties
  <2>2. Len(a) = i - 1 /\ Len(a) + Len(c) = i
    BY <1>1, <1>c
  <2> QED
    BY <2>1, <2>2
<1> DEFINE d == a \o c
<1> HIDE DEF d
<1>5. /\ d \o b \in Seq(S) /\ Len(d \o b) = Len(s) + 1
      /\ \A j \in 1 .. Len(s) + 1 : (d \o b)[j] = IF j <= i THEN d[j] ELSE b[j - i]
  <2>1. d \in Seq(S) /\ Len(d) = i
    BY <1>4 DEF d
  <2>2. Len(d) + Len(b) = Len(s) + 1
    BY <1>2, <2>1
  <2> QED
    BY <1>2, <2>1, <2>2, ConcatProperties
<1>6. ASSUME NEW j \in 1 .. Len(s) + 1
      PROVE  InsertAt(s, i, e)[j] = IF j < i THEN s[j] ELSE IF j = i THEN e ELSE s[j - 1]
  <2>0. InsertAt(s, i, e)[j] = IF j <= i THEN (a \o c)[j] ELSE b[j - i]
    BY <1>3, <1>5 DEF d
  <2>1. CASE j < i
    BY <1>1, <1>4, <2>0, <2>1
  <2>2. CASE j = i
    <3>0. i \in 1 .. i /\ ~(i <= i - 1) /\ i - (i - 1) = 1
      OBVIOUS
    <3>1. (a \o c)[i] = c[1]
      BY <1>4, <3>0
    <3> QED
      BY <1>c, <2>0, <2>2, <3>1
  <2>3. CASE j > i
    BY <1>2, <2>0, <2>3
  <2> QED
    BY <2>1, <2>2, <2>3
<1>7. InsertAt(s, i, e) \in Seq(S) /\ Len(InsertAt(s, i, e)) = Len(s) + 1
  BY <1>3, <1>5 DEF d
<1> QED
  BY ONLY <1>6, <1>7 DEF IsInserted

(* Sequences are equal that are of one length and equal everywhere. *)
LEMMA SameSequence ==
  ASSUME NEW S, NEW s \in Seq(S), NEW T, NEW t \in Seq(T), Len(s) = Len(t),
         \A j \in 1 .. Len(s) : s[j] = t[j]
  PROVE  s = t
OBVIOUS

-----------------------------------------------------------------------------
(* The phone book in a linked list: its links are those of a sequence of    *)
(* entries, without repetition and in descending order of names.            *)
AnyEntry == ListEntries \cup {Nothing}
LinkedList ==
  [head : AnyEntry, tail : AnyEntry \cup {Uninitialised}, count : Nat,
   prev : [ListEntries -> AnyEntry], next : [ListEntries -> AnyEntry]]
ItemAt(s, i) == IF i \in 1 .. Len(s) THEN s[i] ELSE Nothing
OnceEach(s) == \A i, j \in 1 .. Len(s) : s[i] = s[j] => i = j
ChainOf(l, s) ==
  /\ l \in LinkedList /\ s \in Seq(ListEntries) /\ OnceEach(s)
  /\ l.count = Len(s) /\ l.head = ItemAt(s, 1) /\ (s # <<>> => l.tail = s[Len(s)])
  /\ \A i \in 1 .. Len(s) : l.prev[s[i]] = ItemAt(s, i - 1) /\ l.next[s[i]] = ItemAt(s, i + 1)
Descending(s, nm) == \A i, j \in 1 .. Len(s) : i < j => nm[s[i]] >= nm[s[j]]
ListIs(s) ==
  /\ ChainOf(List!List, s) /\ Descending(s, listName)
  /\ listName \in [ListEntries -> Names]
  /\ editing \in {s[i] : i \in 1 .. Len(s)} \cup {Nothing}
ListInv == \E s : ListIs(s)

LEMMA OnceRemoved ==
  ASSUME NEW S, NEW s \in Seq(S), OnceEach(s), NEW i \in 1 .. Len(s)
  PROVE  OnceEach(RemoveAt(s, i))
<1> DEFINE t == RemoveAt(s, i)
<1>1. /\ Len(s) \in Nat /\ Len(t) = Len(s) - 1
      /\ \A j \in 1 .. Len(s) - 1 : t[j] = IF j < i THEN s[j] ELSE s[j + 1]
  <2>1. Len(s) \in Nat /\ IsRemoved(t, s, i)
    BY RemovedIs
  <2> HIDE DEF t
  <2> QED
    BY ONLY <2>1 DEF IsRemoved
<1> HIDE DEF t
<1>2. SUFFICES ASSUME NEW j \in 1 .. Len(s) - 1, NEW m \in 1 .. Len(s) - 1, t[j] = t[m], j # m
               PROVE  FALSE
  BY <1>1 DEF OnceEach, t
<1> DEFINE x == IF j < i THEN j ELSE j + 1
           y == IF m < i THEN m ELSE m + 1
<1>3. s[x] = s[y]
  BY <1>1, <1>2
<1>4. x \in 1 .. Len(s) /\ y \in 1 .. Len(s) /\ x # y
  <2>1. Len(s) \in Nat /\ i \in 1 .. Len(s) /\ j # m
    BY <1>1, <1>2
  <2> QED
    BY ONLY <2>1
<1> QED
  BY <1>3, <1>4 DEF OnceEach

LEMMA OnceInserted ==
  ASSUME NEW S, NEW s \in Seq(S), OnceEach(s), NEW i \in 1 .. Len(s) + 1,
         NEW e \in S, \A j \in 1 .. Len(s) : s[j] # e
  PROVE  OnceEach(InsertAt(s, i, e))
<1> DEFINE t == InsertAt(s, i, e)
<1>1. /\ Len(s) \in Nat /\ Len(t) = Len(s) + 1
      /\ \A j \in 1 .. Len(s) + 1 : t[j] = IF j < i THEN s[j] ELSE IF j = i THEN e ELSE s[j - 1]
  <2>1. Len(s) \in Nat /\ IsInserted(t, s, i, e)
    BY InsertedIs
  <2> HIDE DEF t
  <2> QED
    BY ONLY <2>1 DEF IsInserted
<1> HIDE DEF t
<1>2. SUFFICES ASSUME NEW j \in 1 .. Len(s) + 1, NEW m \in 1 .. Len(s) + 1, t[j] = t[m], j # m
               PROVE  FALSE
  BY <1>1 DEF OnceEach, t
<1> DEFINE x == IF j < i THEN j ELSE j - 1
           y == IF m < i THEN m ELSE m - 1
<1>3. CASE j # i /\ m # i
  <2>1. s[x] = s[y]
    BY <1>1, <1>2, <1>3
  <2>2. x \in 1 .. Len(s) /\ y \in 1 .. Len(s) /\ x # y
    BY <1>1, <1>2, <1>3
  <2> QED
    BY <2>1, <2>2 DEF OnceEach
<1>4. CASE j = i
  <2>1. t[m] = s[y] /\ t[j] = e
    BY <1>1, <1>2, <1>4
  <2>2. y \in 1 .. Len(s)
    BY <1>1, <1>2, <1>4
  <2> QED
    BY <1>2, <2>1, <2>2
<1>5. CASE m = i
  <2>1. t[j] = s[x] /\ t[m] = e
    BY <1>1, <1>2, <1>5
  <2>2. x \in 1 .. Len(s)
    BY <1>1, <1>2, <1>5
  <2> QED
    BY <1>2, <2>1, <2>2
<1> QED
  BY <1>3, <1>4, <1>5

(* Walking from the head one meets the sequence, and then NULL. *)
LEMMA AtIs ==
  ASSUME NEW l, NEW s, ChainOf(l, s), NEW i \in 0 .. Len(s)
  PROVE  List!At(l, i) = ItemAt(s, i + 1)
<1> DEFINE Walks(f) == f = [m \in 0 .. i |-> IF m = 0 THEN l.head ELSE l.next[f[m - 1]]]
           w == [m \in 0 .. i |-> ItemAt(s, m + 1)]
           f == CHOOSE g : Walks(g)
           T == {m \in 0 .. i : f[m] # ItemAt(s, m + 1)}
<1>0. /\ s \in Seq(ListEntries) /\ Len(s) \in Nat /\ l.head = ItemAt(s, 1)
      /\ \A m \in 1 .. Len(s) : l.next[ItemAt(s, m)] = ItemAt(s, m + 1)
  BY DEF ChainOf, ItemAt
<1>1. Walks(w)
  <2>1. \A m \in 0 .. i : w[m] = IF m = 0 THEN l.head ELSE l.next[w[m - 1]]
    <3> SUFFICES ASSUME NEW m \in 0 .. i PROVE w[m] = IF m = 0 THEN l.head ELSE l.next[w[m - 1]]
      OBVIOUS
    <3>1. CASE m = 0
      BY <1>0, <3>1
    <3>2. CASE m # 0
      <4>1. m \in 1 .. Len(s) /\ m - 1 \in 0 .. i /\ (m - 1) + 1 = m
        BY <1>0, <3>2
      <4> QED
        BY <1>0, <3>2, <4>1
    <3> QED
      BY <3>1, <3>2
  <2> QED
    BY <2>1
<1>2. Walks(f)
  <2> HIDE DEF Walks, w
  <2> QED
    BY <1>1
<1>3. List!At(l, i) = f[i]
  BY DEF List!At
<1> HIDE DEF f, w
<1>4. ASSUME T # {} PROVE FALSE
  <2>1. PICK m \in T : \A n \in T : m <= n
    <3>1. T \subseteq Nat
      BY <1>0
    <3> QED
      BY <1>4, <3>1, Least
  <2>2. m \in 0 .. i /\ f[m] # ItemAt(s, m + 1) /\ m \in Int
    BY <2>1
  <2>3. CASE m = 0
    BY <1>0, <1>2, <2>2, <2>3
  <2>4. CASE m # 0
    <3>1. m - 1 \in 0 .. i /\ m \in 1 .. Len(s) /\ (m - 1) + 1 = m
      BY <1>0, <2>2, <2>4
    <3>2. m - 1 \notin T
      BY <2>1, <2>2, <3>1
    <3>3. f[m - 1] = ItemAt(s, m)
      BY <3>1, <3>2
    <3>4. f[m] = l.next[f[m - 1]]
      BY <1>2, <2>2, <2>4
    <3> QED
      BY <1>0, <2>2, <3>1, <3>3, <3>4
  <2> QED
    BY <2>3, <2>4
<1> QED
  BY <1>3, <1>4

(* popEntry takes its entry out of the sequence. *)
LEMMA PopEntry ==
  ASSUME NEW l, NEW s, ChainOf(l, s), NEW i \in 1 .. Len(s)
  PROVE  ChainOf(List!popEntry(l, s[i]), RemoveAt(s, i))
<1> DEFINE c == s[i]
           t == RemoveAt(s, i)
           r == List!popEntry(l, c)
<1>0. /\ l \in LinkedList /\ s \in Seq(ListEntries) /\ OnceEach(s) /\ Len(s) \in Nat
      /\ l.count = Len(s) /\ l.head = ItemAt(s, 1) /\ l.tail = s[Len(s)]
      /\ \A j \in 1 .. Len(s) : l.prev[s[j]] = ItemAt(s, j - 1) /\ l.next[s[j]] = ItemAt(s, j + 1)
      /\ \A j \in 1 .. Len(s) : s[j] \in ListEntries /\ s[j] # Nothing
  BY EntriesAssumption DEF ChainOf
<1>1. /\ t \in Seq(ListEntries) /\ Len(t) = Len(s) - 1
      /\ \A j \in 1 .. Len(s) - 1 : t[j] = IF j < i THEN s[j] ELSE s[j + 1]
  <2>1. t \in Seq(ListEntries) /\ IsRemoved(t, s, i)
    BY <1>0, RemovedIs
  <2> HIDE DEF t
  <2> QED
    BY ONLY <2>1 DEF IsRemoved
<1>2. l.prev[c] = ItemAt(s, i - 1) /\ l.next[c] = ItemAt(s, i + 1)
  BY <1>0
<1>3. /\ r.count = Len(s) - 1
      /\ r.head = IF ItemAt(s, i - 1) = Nothing THEN ItemAt(s, i + 1) ELSE l.head
      /\ r.tail = IF ItemAt(s, i + 1) = Nothing THEN ItemAt(s, i - 1) ELSE l.tail
      /\ r.next = [e \in ListEntries |-> IF e = ItemAt(s, i - 1) THEN ItemAt(s, i + 1) ELSE l.next[e]]
      /\ r.prev = [e \in ListEntries |-> IF e = ItemAt(s, i + 1) THEN ItemAt(s, i - 1) ELSE l.prev[e]]
  BY <1>0, <1>2 DEF List!popEntry, LinkedList
<1>4. \A j \in Int : ItemAt(s, j) \in AnyEntry
  BY <1>0 DEF ItemAt, AnyEntry
<1>5. r \in LinkedList
  <2>1. /\ r.count \in Nat /\ r.head \in AnyEntry /\ r.tail \in AnyEntry \cup {Uninitialised}
        /\ r.next \in [ListEntries -> AnyEntry] /\ r.prev \in [ListEntries -> AnyEntry]
    BY <1>0, <1>3, <1>4 DEF LinkedList
  <2>2. r = [l EXCEPT !.count = r.count, !.head = r.head, !.tail = r.tail, !.next = r.next, !.prev = r.prev]
    <3>1. \A a, b, d, e, g :
            LET q == [l EXCEPT !.count = a, !.head = b, !.tail = d, !.next = e, !.prev = g]
            IN q = [l EXCEPT !.count = q.count, !.head = q.head, !.tail = q.tail, !.next = q.next, !.prev = q.prev]
      BY <1>0 DEF LinkedList
    <3> QED
      BY <3>1 DEF List!popEntry
  <2> HIDE DEF r
  <2> QED
    BY <1>0, <2>1, <2>2 DEF LinkedList
<1> HIDE DEF r, t, c
<1>6. OnceEach(t)
  BY <1>0, OnceRemoved DEF t
<1>7. \A j \in 0 .. Len(s) : ItemAt(t, j) = IF j < i THEN ItemAt(s, j) ELSE ItemAt(s, j + 1)
  BY <1>0, <1>1 DEF ItemAt
<1>8. r.head = ItemAt(t, 1)
  <2>1. CASE i = 1
    BY <1>0, <1>3, <1>7, <2>1 DEF ItemAt
  <2>2. CASE i > 1
    BY <1>0, <1>3, <1>7, <2>2 DEF ItemAt
  <2> QED
    BY <2>1, <2>2
<1>9. ASSUME t # <<>> PROVE r.tail = t[Len(t)]
  <2>0. Len(t) >= 1 /\ Len(s) >= 2
    BY <1>0, <1>1, <1>9
  <2>1. CASE i = Len(s)
    BY <1>0, <1>1, <1>3, <2>0, <2>1 DEF ItemAt
  <2>2. CASE i < Len(s)
    BY <1>0, <1>1, <1>3, <2>0, <2>2 DEF ItemAt
  <2> QED
    BY <2>1, <2>2
<1>10. ASSUME NEW j \in 1 .. Len(t)
       PROVE  r.prev[t[j]] = ItemAt(t, j - 1) /\ r.next[t[j]] = ItemAt(t, j + 1)
  <2> DEFINE x == IF j < i THEN j ELSE j + 1
  <2>0. x \in 1 .. Len(s) /\ t[j] = s[x] /\ s[x] \in ListEntries /\ j \in Int /\ x # i
    <3>1. /\ Len(s) \in Nat /\ Len(t) = Len(s) - 1 /\ i \in 1 .. Len(s)
          /\ \A k \in 1 .. Len(s) - 1 : t[k] = IF k < i THEN s[k] ELSE s[k + 1]
      BY <1>0, <1>1
    <3>2. j \in Int /\ x \in 1 .. Len(s) /\ x # i /\ t[j] = s[x]
      BY ONLY <3>1, j \in 1 .. Len(t)
    <3> QED
      BY <1>0, <3>2
  <2>1. s[x] = ItemAt(s, i - 1) <=> x = i - 1
    BY <1>0, <2>0 DEF ItemAt, OnceEach
  <2>2. s[x] = ItemAt(s, i + 1) <=> x = i + 1
    BY <1>0, <2>0 DEF ItemAt, OnceEach
  <2>3. r.next[t[j]] = ItemAt(t, j + 1)
    <3>0. l.next[s[x]] = ItemAt(s, x + 1)
      BY <1>0, <2>0
    <3>1. r.next[t[j]] = IF x = i - 1 THEN ItemAt(s, i + 1) ELSE ItemAt(s, x + 1)
      BY <1>3, <2>0, <2>1, <3>0
    <3>2. ItemAt(t, j + 1) = IF j + 1 < i THEN ItemAt(s, j + 1) ELSE ItemAt(s, j + 2)
      BY <1>0, <1>1, <1>7
    <3> QED
      BY <3>1, <3>2
  <2>4. r.prev[t[j]] = ItemAt(t, j - 1)
    <3>0. l.prev[s[x]] = ItemAt(s, x - 1)
      BY <1>0, <2>0
    <3>1. r.prev[t[j]] = IF x = i + 1 THEN ItemAt(s, i - 1) ELSE ItemAt(s, x - 1)
      BY <1>3, <2>0, <2>2, <3>0
    <3>2. ItemAt(t, j - 1) = IF j - 1 < i THEN ItemAt(s, j - 1) ELSE ItemAt(s, j)
      BY <1>0, <1>1, <1>7
    <3> QED
      BY <3>1, <3>2
  <2> QED
    BY <2>3, <2>4
<1> QED
  BY <1>1, <1>0, <1>3, <1>5, <1>6, <1>8, <1>9, <1>10 DEF ChainOf, r, t, c

(* insertEntry finds its place behind the names that are not smaller, ... *)
LEMMA PassedIs ==
  ASSUME NEW l, NEW s, ChainOf(l, s), NEW nm \in [ListEntries -> Names], NEW e \in ListEntries
  PROVE  LET P == List!Passed(l, nm, e) IN
         /\ P \in 0 .. Len(s) /\ \A j \in 1 .. P : nm[s[j]] >= nm[e]
         /\ P < Len(s) => nm[s[P + 1]] < nm[e]
<1> DEFINE stops == {i \in 0 .. l.count - 1 : nm[List!At(l, i)] < nm[e]}
           P == List!Passed(l, nm, e)
<1>0. /\ s \in Seq(ListEntries) /\ Len(s) \in Nat /\ l.count = Len(s)
      /\ \A j \in 1 .. Len(s) : s[j] \in ListEntries /\ nm[s[j]] \in Int
      /\ nm[e] \in Int
  <2>1. s \in Seq(ListEntries) /\ l.count = Len(s)
    BY DEF ChainOf
  <2>2. \A x \in ListEntries : nm[x] \in Int
    BY RanksAssumption
  <2> QED
    BY <2>1, <2>2
<1>1. stops = {i \in 0 .. Len(s) - 1 : nm[s[i + 1]] < nm[e]}
  <2>1. ASSUME NEW i \in 0 .. Len(s) - 1 PROVE List!At(l, i) = s[i + 1]
    <3>1. i \in 0 .. Len(s) /\ i + 1 \in 1 .. Len(s)
      BY <1>0
    <3> QED
      BY <3>1, AtIs DEF ItemAt
  <2> QED
    BY <1>0, <2>1
<1>2. P = IF stops = {} THEN l.count ELSE CHOOSE i \in stops : \A j \in stops : i <= j
  BY DEF List!Passed
<1> HIDE DEF P, stops
<1>3. CASE stops = {}
  <2>1. P = Len(s)
    BY <1>0, <1>2, <1>3
  <2>2. ASSUME NEW j \in 1 .. Len(s) PROVE nm[s[j]] >= nm[e]
    <3>1. j - 1 \in 0 .. Len(s) - 1 /\ (j - 1) + 1 = j
      BY <1>0
    <3>2. j - 1 \notin stops
      BY <1>3
    <3>3. ~(nm[s[j]] < nm[e])
      BY <1>1, <3>1, <3>2
    <3> QED
      BY <1>0, <3>3
  <2> QED
    BY <1>0, <2>1, <2>2 DEF P
<1>4. CASE stops # {}
  <2>1. \E i \in stops : \A j \in stops : i <= j
    <3>1. stops \subseteq Nat
      BY <1>0, <1>1
    <3> QED
      BY <1>4, <3>1, Least
  <2>2. P \in stops /\ \A j \in stops : P <= j
    BY <1>2, <1>4, <2>1
  <2>3. P \in 0 .. Len(s) - 1 /\ nm[s[P + 1]] < nm[e]
    BY <1>1, <2>2
  <2>4. ASSUME NEW j \in 1 .. P PROVE nm[s[j]] >= nm[e]
    <3>1. j - 1 \in 0 .. Len(s) - 1 /\ (j - 1) + 1 = j /\ ~(P <= j - 1) /\ j \in 1 .. Len(s)
      BY <1>0, <2>3
    <3>2. j - 1 \notin stops
      BY <2>2, <3>1
    <3>3. ~(nm[s[j]] < nm[e])
      BY <1>1, <3>1, <3>2
    <3> QED
      BY <1>0, <3>1, <3>3
  <2> QED
    BY <1>0, <2>3, <2>4 DEF P
<1> QED
  BY <1>3, <1>4

(* What insertEntry makes of l: e between a and b. *)
Between(l, e, a, b) ==
  IF l.count = 0
  THEN [l EXCEPT !.head = e, !.tail = e, !.count = l.count + 1, !.prev[e] = Nothing, !.next[e] = Nothing]
  ELSE IF b = l.head
  THEN [l EXCEPT !.head = e, !.count = l.count + 1, !.next[e] = b, !.prev[e] = Nothing, !.prev[b] = e]
  ELSE IF a = l.tail
  THEN [l EXCEPT !.tail = e, !.count = l.count + 1, !.next[a] = e, !.next[e] = Nothing, !.prev[e] = a]
  ELSE [l EXCEPT !.count = l.count + 1, !.prev[e] = a, !.next[e] = b, !.next[a] = e, !.prev[b] = e]

(* ... and links it there. *)
LEMMA InsertEntry ==
  ASSUME NEW l, NEW s, ChainOf(l, s), NEW nm \in [ListEntries -> Names],
         NEW e \in ListEntries, \A j \in 1 .. Len(s) : s[j] # e
  PROVE  ChainOf(List!insertEntry(l, nm, e), InsertAt(s, List!Passed(l, nm, e) + 1, e))
<1> DEFINE P == List!Passed(l, nm, e)
           t == InsertAt(s, P + 1, e)
           r == List!insertEntry(l, nm, e)
<1>0. /\ l \in LinkedList /\ s \in Seq(ListEntries) /\ OnceEach(s) /\ Len(s) \in Nat
      /\ l.count = Len(s) /\ l.head = ItemAt(s, 1) /\ (s # <<>> => l.tail = s[Len(s)])
      /\ \A j \in 1 .. Len(s) : l.prev[s[j]] = ItemAt(s, j - 1) /\ l.next[s[j]] = ItemAt(s, j + 1)
      /\ \A j \in 1 .. Len(s) : s[j] \in ListEntries /\ s[j] # Nothing
  BY EntriesAssumption DEF ChainOf
<1>1. P \in 0 .. Len(s)
  BY PassedIs
<1>2. List!At(l, P) = ItemAt(s, P + 1)
  BY <1>1, AtIs
<1>3. ASSUME P # 0 PROVE List!At(l, P - 1) = ItemAt(s, P)
  <2>1. P - 1 \in 0 .. Len(s) /\ (P - 1) + 1 = P
    BY <1>0, <1>1, <1>3
  <2> QED
    BY <2>1, AtIs
<1>4. /\ t \in Seq(ListEntries) /\ Len(t) = Len(s) + 1
      /\ \A j \in 1 .. Len(s) + 1 : t[j] = IF j < P + 1 THEN s[j] ELSE IF j = P + 1 THEN e ELSE s[j - 1]
  <2> HIDE DEF P
  <2>1. P + 1 \in 1 .. Len(s) + 1
    BY <1>0, <1>1
  <2>2. t \in Seq(ListEntries) /\ IsInserted(t, s, P + 1, e)
    BY <1>0, <2>1, InsertedIs
  <2> HIDE DEF t
  <2> QED
    BY ONLY <2>2 DEF IsInserted
<1> HIDE DEF P, t, r
<1>5. /\ r.count = Len(s) + 1
      /\ r.head = IF P = 0 THEN e ELSE l.head
      /\ r.tail = IF P = Len(s) THEN e ELSE l.tail
      /\ r.next = [x \in ListEntries |-> IF x = e THEN ItemAt(s, P + 1)
                                       ELSE IF x = ItemAt(s, P) THEN e ELSE l.next[x]]
      /\ r.prev = [x \in ListEntries |-> IF x = e THEN ItemAt(s, P)
                                       ELSE IF x = ItemAt(s, P + 1) THEN e ELSE l.prev[x]]
      /\ r \in LinkedList
  <2>0. r = Between(l, e, ItemAt(s, P), ItemAt(s, P + 1))
    <3>1. (IF P = 0 THEN Nothing ELSE List!At(l, P - 1)) = ItemAt(s, P)
      BY <1>0, <1>1, <1>3 DEF ItemAt
    <3>2. r = Between(l, e, IF P = 0 THEN Nothing ELSE List!At(l, P - 1), List!At(l, P))
      BY ONLY DEF List!insertEntry, r, P, Between
    <3> QED
      BY ONLY <1>2, <3>1, <3>2
  <2> DEFINE a == ItemAt(s, P)
             b == ItemAt(s, P + 1)
  <2>1. /\ a \in AnyEntry /\ b \in AnyEntry /\ a # e /\ b # e
        /\ Nothing \in AnyEntry /\ e \in AnyEntry /\ e # Nothing
        /\ a = Nothing <=> P = 0
        /\ b = Nothing <=> P = Len(s)
        /\ Nothing \notin ListEntries /\ e \in ListEntries
        /\ a \in ListEntries \cup {Nothing} /\ b \in ListEntries \cup {Nothing}
    BY <1>0, <1>1, EntriesAssumption DEF ItemAt, AnyEntry
  <2>p. P \in Nat /\ P <= Len(s) /\ Len(s) \in Nat /\ l.count = Len(s)
    BY <1>0, <1>1
  <2>2. /\ l.count = 0 <=> Len(s) = 0
        /\ Len(s) # 0 => (b = l.head <=> P = 0) /\ (a = l.tail <=> P = Len(s))
    <3>1. Len(s) # 0 => l.tail = s[Len(s)] /\ l.head = s[1]
      BY <1>0 DEF ItemAt
    <3> QED
      BY <1>0, <1>1, <3>1 DEF ItemAt, OnceEach
  <2>3. /\ l.next \in [ListEntries -> AnyEntry] /\ l.prev \in [ListEntries -> AnyEntry]
        /\ l.head \in AnyEntry /\ l.tail \in AnyEntry \cup {Uninitialised}
        /\ l = [head |-> l.head, tail |-> l.tail, count |-> l.count, prev |-> l.prev, next |-> l.next]
    BY <1>0 DEF LinkedList
  <2> HIDE DEF a, b
  <2> DEFINE Linked ==
        /\ r.count = Len(s) + 1
        /\ r.head = IF P = 0 THEN e ELSE l.head
        /\ r.tail = IF P = Len(s) THEN e ELSE l.tail
        /\ r.next = [x \in ListEntries |-> IF x = e THEN b ELSE IF x = a THEN e ELSE l.next[x]]
        /\ r.prev = [x \in ListEntries |-> IF x = e THEN a ELSE IF x = b THEN e ELSE l.prev[x]]
  <2>4. ASSUME Len(s) = 0 PROVE Linked /\ r \in LinkedList
    <3>1. r = [head |-> e, tail |-> e, count |-> l.count + 1, prev |-> [l.prev EXCEPT ![e] = Nothing],
               next |-> [l.next EXCEPT ![e] = Nothing]]
      BY <2>0, <2>2, <2>3, <2>4 DEF a, b, Between
    <3>2. Linked
      BY <2>1, <2>3, <2>4, <2>p, <3>1
    <3>3. r \in LinkedList
      BY <2>1, <2>3, <2>4, <2>p, <3>1 DEF LinkedList
    <3> QED
      BY <3>2, <3>3
  <2>5. ASSUME Len(s) # 0 /\ P = 0 PROVE Linked /\ r \in LinkedList
    <3>1. r = [head |-> e, tail |-> l.tail, count |-> l.count + 1,
               prev |-> [l.prev EXCEPT ![e] = Nothing, ![b] = e],
               next |-> [l.next EXCEPT ![e] = b]]
      BY <2>0, <2>2, <2>3, <2>5 DEF a, b, Between
    <3>2. Linked
      BY <2>1, <2>3, <2>5, <2>p, <3>1
    <3>3. r \in LinkedList
      BY <2>1, <2>3, <2>5, <2>p, <3>1 DEF LinkedList
    <3> QED
      BY <3>2, <3>3
  <2>6. ASSUME Len(s) # 0 /\ P # 0 /\ P = Len(s) PROVE Linked /\ r \in LinkedList
    <3>1. r = [head |-> l.head, tail |-> e, count |-> l.count + 1,
               prev |-> [l.prev EXCEPT ![e] = a],
               next |-> [l.next EXCEPT ![a] = e, ![e] = Nothing]]
      BY <2>0, <2>2, <2>3, <2>6 DEF a, b, Between
    <3>2. Linked
      BY <2>1, <2>3, <2>6, <2>p, <3>1
    <3>3. r \in LinkedList
      BY <2>1, <2>3, <2>6, <2>p, <3>1 DEF LinkedList
    <3> QED
      BY <3>2, <3>3
  <2>7. ASSUME Len(s) # 0 /\ P # 0 /\ P # Len(s) PROVE Linked /\ r \in LinkedList
    <3>1. r = [head |-> l.head, tail |-> l.tail, count |-> l.count + 1,
               prev |-> [l.prev EXCEPT ![e] = a, ![b] = e],
               next |-> [l.next EXCEPT ![e] = b, ![a] = e]]
      BY <2>0, <2>2, <2>3, <2>7 DEF a, b, Between
    <3>2. Linked
      BY <2>1, <2>3, <2>7, <2>p, <3>1
    <3>3. r \in LinkedList
      BY <2>1, <2>3, <2>7, <2>p, <3>1 DEF LinkedList
    <3> QED
      BY <3>2, <3>3
  <2> QED
    BY <2>4, <2>5, <2>6, <2>7 DEF a, b
<1>6. OnceEach(t)
  <2>1. P + 1 \in 1 .. Len(s) + 1
    BY <1>0, <1>1
  <2> QED
    BY <1>0, <2>1, OnceInserted DEF t
<1>7. \A j \in 0 .. Len(s) + 2 :
        ItemAt(t, j) = IF j < P + 1 THEN ItemAt(s, j) ELSE IF j = P + 1 THEN e ELSE ItemAt(s, j - 1)
  BY <1>0, <1>1, <1>4 DEF ItemAt
<1>8. r.head = ItemAt(t, 1)
  BY <1>0, <1>1, <1>5, <1>7
<1>9. r.tail = t[Len(t)]
  BY <1>0, <1>1, <1>4, <1>5
<1>10. ASSUME NEW j \in 1 .. Len(t)
       PROVE  r.prev[t[j]] = ItemAt(t, j - 1) /\ r.next[t[j]] = ItemAt(t, j + 1)
  <2>0. j \in 1 .. Len(s) + 1 /\ j - 1 \in 0 .. Len(s) + 2 /\ j + 1 \in 0 .. Len(s) + 2
    BY <1>0, <1>4
  <2>1. CASE j = P + 1
    <3>1. t[j] = e
      BY <1>4, <2>0, <2>1
    <3>2. r.prev[e] = ItemAt(s, P) /\ r.next[e] = ItemAt(s, P + 1)
      BY <1>5
    <3>3. ItemAt(t, j - 1) = ItemAt(s, P) /\ ItemAt(t, j + 1) = ItemAt(s, P + 1)
      BY <1>1, <1>7, <2>0, <2>1
    <3> QED
      BY <3>1, <3>2, <3>3
  <2>2. CASE j # P + 1
    <3> DEFINE x == IF j < P + 1 THEN j ELSE j - 1
    <3>0. x \in 1 .. Len(s) /\ t[j] = s[x] /\ s[x] \in ListEntries /\ s[x] # e
      BY <1>0, <1>1, <1>4, <2>0, <2>2
    <3>1. s[x] = ItemAt(s, P) <=> x = P
      BY <1>0, <1>1, <3>0 DEF ItemAt, OnceEach
    <3>2. s[x] = ItemAt(s, P + 1) <=> x = P + 1
      BY <1>0, <1>1, <3>0 DEF ItemAt, OnceEach
    <3>3. l.prev[s[x]] = ItemAt(s, x - 1) /\ l.next[s[x]] = ItemAt(s, x + 1)
      BY <1>0, <3>0
    <3>4. r.prev[t[j]] = ItemAt(t, j - 1)
      <4>1. r.prev[t[j]] = IF x = P + 1 THEN e ELSE ItemAt(s, x - 1)
        BY <1>5, <3>0, <3>2, <3>3
      <4>2. ItemAt(t, j - 1) = IF j - 1 < P + 1 THEN ItemAt(s, j - 1)
                               ELSE IF j - 1 = P + 1 THEN e ELSE ItemAt(s, j - 2)
        BY <1>0, <1>7, <2>0
      <4> QED
        BY <1>1, <2>0, <2>2, <4>1, <4>2
    <3>5. r.next[t[j]] = ItemAt(t, j + 1)
      <4>1. r.next[t[j]] = IF x = P THEN e ELSE ItemAt(s, x + 1)
        BY <1>5, <3>0, <3>1, <3>3
      <4>2. ItemAt(t, j + 1) = IF j + 1 < P + 1 THEN ItemAt(s, j + 1)
                               ELSE IF j + 1 = P + 1 THEN e ELSE ItemAt(s, j)
        BY <1>0, <1>7, <2>0
      <4> QED
        BY <1>1, <2>0, <2>2, <4>1, <4>2
    <3> QED
      BY <3>4, <3>5
  <2> QED
    BY <2>1, <2>2
<1> QED
  BY <1>4, <1>5, <1>6, <1>8, <1>9, <1>10 DEF ChainOf, r, t, P

(* Ranks, and what a step does to the sequence. *)
RankOf(nm) == [e \in ListEntries |-> -nm[e]]
ListStep(s, t) ==
  \/ t = s /\ listName' = listName
  \/ \E i \in DOMAIN s : t = RemoveAt(s, i) /\ listName' = listName
  \/ \E e \in ListEntries, n \in Names :
       /\ e \notin ToSet(s) /\ RankOf(listName') = [RankOf(listName) EXCEPT ![e] = -n]
       /\ t = List!Order!Placed(s, RankOf(listName'), e)
  \/ \E i \in DOMAIN s, n \in Names :
       /\ RankOf(listName') = [RankOf(listName) EXCEPT ![s[i]] = -n]
       /\ t = List!Order!Placed(RemoveAt(s, i), RankOf(listName'), s[i])

LEMMA EntryPlaced ==
  ASSUME NEW l, NEW s, ChainOf(l, s), NEW nm \in [ListEntries -> Names], Descending(s, nm),
         NEW e \in ListEntries, \A j \in 1 .. Len(s) : s[j] # e
  PROVE  \E t : /\ ChainOf(List!insertEntry(l, nm, e), t) /\ Descending(t, nm)
                /\ t = List!Order!Placed(s, RankOf(nm), e) /\ \E j \in 1 .. Len(t) : t[j] = e
<1> DEFINE P == List!Passed(l, nm, e)
           t == InsertAt(s, P + 1, e)
<1>1. ChainOf(List!insertEntry(l, nm, e), t)
  BY InsertEntry
<1>2. P \in 0 .. Len(s) /\ (\A j \in 1 .. P : nm[s[j]] >= nm[e]) /\ (P < Len(s) => nm[s[P + 1]] < nm[e])
  BY PassedIs
<1> HIDE DEF P
<1>3. s \in Seq(ListEntries) /\ Len(s) \in Nat /\ P + 1 \in 1 .. Len(s) + 1
  BY <1>2 DEF ChainOf
<1>4. /\ Len(t) = Len(s) + 1
      /\ \A j \in 1 .. Len(s) + 1 : t[j] = IF j < P + 1 THEN s[j] ELSE IF j = P + 1 THEN e ELSE s[j - 1]
  <2>1. IsInserted(t, s, P + 1, e)
    BY <1>3, InsertedIs
  <2> HIDE DEF t
  <2> QED
    BY ONLY <2>1 DEF IsInserted
<1> HIDE DEF t
<1>5. \A x \in ListEntries : nm[x] \in Int
  BY RanksAssumption
<1>6. ASSUME NEW j \in P + 1 .. Len(s) PROVE nm[s[j]] < nm[e]
  <2>1. nm[s[P + 1]] < nm[e] /\ P + 1 \in 1 .. Len(s) /\ j \in 1 .. Len(s)
    BY <1>2, <1>3
  <2>2. nm[s[P + 1]] >= nm[s[j]]
    <3>1. CASE j = P + 1
      BY <1>3, <1>5, <2>1, <3>1
    <3>2. CASE j > P + 1
      BY <2>1, <3>2 DEF Descending
    <3> QED
      BY <1>3, <3>1, <3>2
  <2>3. s[P + 1] \in ListEntries /\ s[j] \in ListEntries
    BY <1>3, <2>1
  <2> QED
    BY <1>5, <2>1, <2>2, <2>3
<1>7. {i \in DOMAIN s : RankOf(nm)[s[i]] <= RankOf(nm)[e]} = 1 .. P
  <2>1. ASSUME NEW i \in DOMAIN s PROVE RankOf(nm)[s[i]] <= RankOf(nm)[e] <=> i <= P
    <3>1. i \in 1 .. Len(s) /\ s[i] \in ListEntries /\ nm[s[i]] \in Int /\ nm[e] \in Int
      BY <1>3, <1>5
    <3>2. RankOf(nm)[s[i]] <= RankOf(nm)[e] <=> nm[s[i]] >= nm[e]
      BY <3>1 DEF RankOf
    <3>3. i <= P => nm[s[i]] >= nm[e]
      BY <1>2, <3>1
    <3>4. ~(i <= P) => nm[s[i]] < nm[e]
      BY <1>2, <1>6, <3>1
    <3> QED
      BY <3>1, <3>2, <3>3, <3>4
  <2>2. DOMAIN s = 1 .. Len(s) /\ P \in Nat /\ P <= Len(s)
    BY <1>2, <1>3
  <2> QED
    BY <2>1, <2>2
<1>8. t = List!Order!Placed(s, RankOf(nm), e)
  <2>1. P \in Nat /\ Cardinality(1 .. P) = P /\ 1 + P = P + 1
    BY <1>2, FS_Interval
  <2>2. List!Order!Placed(s, RankOf(nm), e)
          = InsertAt(s, 1 + Cardinality({i \in DOMAIN s : RankOf(nm)[s[i]] <= RankOf(nm)[e]}), e)
    BY DEF List!Order!Placed, List!Order!InsertAt, InsertAt, List!Order!Cardinality, Cardinality
  <2> QED
    BY <1>7, <2>1, <2>2 DEF t
<1>9. Descending(t, nm)
  <2> SUFFICES ASSUME NEW i \in 1 .. Len(s) + 1, NEW j \in 1 .. Len(s) + 1, i < j
               PROVE  nm[t[i]] >= nm[t[j]]
    BY <1>4 DEF Descending
  <2>0. P \in Nat /\ \A x \in 1 .. Len(s) : s[x] \in ListEntries /\ nm[s[x]] \in Int
    BY <1>2, <1>3, <1>5
  <2>1. CASE i = P + 1
    <3>1. j - 1 \in P + 1 .. Len(s) /\ t[i] = e /\ t[j] = s[j - 1]
      BY <1>3, <1>4, <2>0, <2>1
    <3> QED
      BY <1>5, <1>6, <2>0, <3>1
  <2>2. CASE j = P + 1
    <3>1. i \in 1 .. P /\ t[i] = s[i] /\ t[j] = e
      BY <1>3, <1>4, <2>0, <2>2
    <3> QED
      BY <1>2, <3>1
  <2>3. CASE i # P + 1 /\ j # P + 1
    <3> DEFINE x == IF i < P + 1 THEN i ELSE i - 1
               y == IF j < P + 1 THEN j ELSE j - 1
    <3>1. t[i] = s[x] /\ t[j] = s[y]
      BY <1>4, <2>3
    <3>2. x \in 1 .. Len(s) /\ y \in 1 .. Len(s) /\ x < y
      BY <1>3, <2>0, <2>3
    <3> QED
      BY <3>1, <3>2 DEF Descending
  <2> QED
    BY <2>1, <2>2, <2>3
<1>10. P + 1 \in 1 .. Len(t) /\ t[P + 1] = e
  BY <1>3, <1>4
<1> QED
  BY <1>1, <1>8, <1>9, <1>10

Lacks(t, e) == \A j \in 1 .. Len(t) : t[j] # e

LEMMA RestDescending ==
  ASSUME NEW s \in Seq(ListEntries), NEW i \in 1 .. Len(s), NEW nm, Descending(s, nm), OnceEach(s),
         NEW nn, \A x \in ListEntries : x # s[i] => nn[x] = nm[x]
  PROVE  /\ Descending(RemoveAt(s, i), nn) /\ Lacks(RemoveAt(s, i), s[i])
         /\ \A j \in 1 .. Len(s) : j # i => \E m \in 1 .. Len(RemoveAt(s, i)) : RemoveAt(s, i)[m] = s[j]
<1> DEFINE t == RemoveAt(s, i)
<1>1. /\ Len(s) \in Nat /\ Len(t) = Len(s) - 1
      /\ \A j \in 1 .. Len(s) - 1 : t[j] = IF j < i THEN s[j] ELSE s[j + 1]
  <2>1. Len(s) \in Nat /\ IsRemoved(t, s, i)
    BY RemovedIs
  <2> HIDE DEF t
  <2> QED
    BY ONLY <2>1 DEF IsRemoved
<1> HIDE DEF t
<1>2. ASSUME NEW j \in 1 .. Len(t)
      PROVE  LET x == IF j < i THEN j ELSE j + 1 IN
             t[j] = s[x] /\ x \in 1 .. Len(s) /\ s[x] # s[i] /\ nn[s[x]] = nm[s[x]]
  <2> DEFINE x == IF j < i THEN j ELSE j + 1
  <2>1. t[j] = s[x]
    BY <1>1
  <2>2. x \in 1 .. Len(s) /\ x # i
    BY <1>1
  <2>3. s[x] # s[i] /\ s[x] \in ListEntries
    BY <2>2 DEF OnceEach
  <2> QED
    BY <2>1, <2>2, <2>3
<1>3. Descending(t, nn)
  <2> SUFFICES ASSUME NEW j \in 1 .. Len(t), NEW m \in 1 .. Len(t), j < m
               PROVE  nn[t[j]] >= nn[t[m]]
    BY DEF Descending
  <2> DEFINE x == IF j < i THEN j ELSE j + 1
             y == IF m < i THEN m ELSE m + 1
  <2>1. /\ t[j] = s[x] /\ x \in 1 .. Len(s) /\ nn[s[x]] = nm[s[x]]
        /\ t[m] = s[y] /\ y \in 1 .. Len(s) /\ nn[s[y]] = nm[s[y]]
    BY <1>2
  <2>2. x < y
    BY <1>1
  <2> HIDE DEF x, y
  <2>3. nm[s[x]] >= nm[s[y]]
    BY <2>1, <2>2 DEF Descending
  <2> QED
    BY <2>1, <2>3
<1>4. ASSUME NEW j \in 1 .. Len(s), j # i PROVE \E m \in 1 .. Len(t) : t[m] = s[j]
  <2>1. CASE j < i
    BY <1>1, <1>4, <2>1
  <2>2. CASE j > i
    <3>1. j - 1 \in 1 .. Len(t) /\ t[j - 1] = s[j]
      BY <1>1, <1>4, <2>2
    <3> QED
      BY <3>1
  <2> QED
    BY <1>4, <2>1, <2>2
<1>5. Lacks(t, s[i])
  BY <1>2 DEF Lacks
<1> QED
  BY <1>3, <1>4, <1>5 DEF t

LEMMA HeldIs ==
  ASSUME NEW s, ListIs(s)
  PROVE  /\ List!Held = {s[i] : i \in 1 .. Len(s)} /\ listCount = Len(s) /\ Len(s) \in Nat
         /\ s \in Seq(ListEntries) /\ OnceEach(s)
         /\ \A i \in 0 .. Len(s) - 1 : i + 1 \in 1 .. Len(s) /\ List!getContactEntryByIndex(i) = s[i + 1]
<1>1. s \in Seq(ListEntries) /\ Len(s) \in Nat /\ listCount = Len(s) /\ OnceEach(s)
  BY DEF ListIs, ChainOf, List!List
<1>2. ASSUME NEW i \in 0 .. Len(s) - 1
      PROVE  i + 1 \in 1 .. Len(s) /\ List!At(List!List, i) = s[i + 1]
  <2>1. i \in 0 .. Len(s) /\ i + 1 \in 1 .. Len(s)
    BY <1>1
  <2>2. List!At(List!List, i) = ItemAt(s, i + 1)
    BY <2>1, AtIs DEF ListIs
  <2> QED
    BY <2>1, <2>2 DEF ItemAt
<1>3. List!Held = {s[i] : i \in 1 .. Len(s)}
  <2>1. List!Held = {List!At(List!List, i) : i \in 0 .. Len(s) - 1}
    BY <1>1 DEF List!Held
  <2>2. ASSUME NEW i \in 1 .. Len(s) PROVE s[i] \in List!Held
    <3>1. i - 1 \in 0 .. Len(s) - 1 /\ (i - 1) + 1 = i
      BY <1>1
    <3>2. List!At(List!List, i - 1) = s[i]
      BY <1>2, <3>1
    <3> QED
      BY <2>1, <3>1, <3>2
  <2> QED
    BY <1>2, <2>1, <2>2
<1> QED
  BY <1>1, <1>2, <1>3 DEF List!getContactEntryByIndex

LEMMA BecomesIs ==
  ASSUME NEW l \in LinkedList, List!Becomes(l)
  PROVE  List!List' = l
<1>1. l = [head |-> l.head, tail |-> l.tail, count |-> l.count, prev |-> l.prev, next |-> l.next]
  BY DEF LinkedList
<1> QED
  BY <1>1 DEF List!Becomes, List!List

LEMMA ListStarts == List!Init => ListIs(<<>>)
<1> SUFFICES ASSUME List!Init PROVE ListIs(<<>>)
  OBVIOUS
<1>1. List!List \in LinkedList /\ List!List.count = 0 /\ List!List.head = Nothing
  BY DEF List!Init, List!List, LinkedList, AnyEntry
<1>2. listName \in [ListEntries -> Names] /\ editing = Nothing
  <2>1. (CHOOSE n \in Names : TRUE) \in Names
    BY RanksAssumption
  <2> QED
    BY <2>1 DEF List!Init
<1>3. <<>> \in Seq(ListEntries) /\ Len(<<>>) = 0 /\ ItemAt(<<>>, 1) = Nothing
  BY DEF ItemAt
<1> QED
  BY <1>1, <1>2, <1>3 DEF ListIs, ChainOf, OnceEach, Descending

LEMMA ListSteps ==
  ASSUME NEW s, ListIs(s), List!Next
  PROVE  \E t : ListIs(t)' /\ ListStep(s, t)
<1>0. /\ ChainOf(List!List, s) /\ Descending(s, listName) /\ listName \in [ListEntries -> Names]
      /\ editing \in {s[i] : i \in 1 .. Len(s)} \cup {Nothing}
      /\ s \in Seq(ListEntries) /\ OnceEach(s) /\ Len(s) \in Nat /\ listCount = Len(s)
      /\ List!Held = {s[i] : i \in 1 .. Len(s)} /\ DOMAIN s = 1 .. Len(s)
      /\ \A n \in Names : n \in Int
  BY HeldIs, RanksAssumption DEF ListIs
<1>1. ASSUME NEW e \in ListEntries \ List!Held, NEW n \in Names, List!add_contact_flow(e, n)
      PROVE  \E t : ListIs(t)' /\ ListStep(s, t)
  <2>1. /\ listName' = [listName EXCEPT ![e] = n] /\ editing' = Nothing
        /\ List!Becomes(List!insertEntry(List!List, listName', e)) /\ e \in ListEntries
    BY <1>1 DEF List!add_contact_flow
  <2>2. listName' \in [ListEntries -> Names] /\ \A j \in 1 .. Len(s) : s[j] # e /\ s[j] \in ListEntries
    BY <1>0, <1>1, <2>1
  <2>3. Descending(s, listName')
    <3>1. \A j \in 1 .. Len(s) : listName'[s[j]] = listName[s[j]]
      BY <1>0, <2>1, <2>2
    <3> QED
      BY <1>0, <3>1 DEF Descending
  <2>4. PICK t : /\ ChainOf(List!insertEntry(List!List, listName', e), t) /\ Descending(t, listName')
                 /\ t = List!Order!Placed(s, RankOf(listName'), e)
    <3> DEFINE nm == listName'
    <3>1. /\ ChainOf(List!List, s) /\ nm \in [ListEntries -> Names] /\ Descending(s, nm)
          /\ e \in ListEntries
      BY <1>0, <2>1, <2>2, <2>3
    <3>2. \A j \in 1 .. Len(s) : s[j] # e
      BY <2>2
    <3> HIDE DEF nm
    <3>3. \E t : /\ ChainOf(List!insertEntry(List!List, nm, e), t) /\ Descending(t, nm)
                 /\ t = List!Order!Placed(s, RankOf(nm), e) /\ \E j \in 1 .. Len(t) : t[j] = e
      BY <3>1, <3>2, EntryPlaced
    <3> QED
      BY <3>3 DEF nm
  <2>5. List!List' = List!insertEntry(List!List, listName', e)
    <3>1. List!insertEntry(List!List, listName', e) \in LinkedList
      BY <2>4 DEF ChainOf
    <3> QED
      BY <2>1, <3>1, BecomesIs
  <2>6. ListIs(t)'
    BY <2>1, <2>2, <2>4, <2>5 DEF ListIs
  <2>7. ListStep(s, t)
    <3>1. e \notin ToSet(s)
      BY <1>0, <2>2 DEF ToSet
    <3>2. RankOf(listName') = [RankOf(listName) EXCEPT ![e] = -n]
      BY <1>0, <2>1 DEF RankOf
    <3> QED
      BY <1>0, <2>1, <2>4, <3>1, <3>2 DEF ListStep
  <2> QED
    BY <2>6, <2>7
<1>2. ASSUME NEW i \in 0 .. listCount - 1, List!delete_contact_flow(i)
      PROVE  \E t : ListIs(t)' /\ ListStep(s, t)
  <2>1. /\ i + 1 \in 1 .. Len(s) /\ List!getContactEntryByIndex(i) = s[i + 1]
    BY <1>0, HeldIs
  <2>2. /\ List!Becomes(List!popEntry(List!List, s[i + 1])) /\ listName' = listName
        /\ editing = Nothing /\ editing' = editing
    BY <1>2, <2>1 DEF List!delete_contact_flow
  <2> DEFINE t == RemoveAt(s, i + 1)
  <2>3. ChainOf(List!popEntry(List!List, s[i + 1]), t)
    BY <1>0, <2>1, PopEntry
  <2>4. List!List' = List!popEntry(List!List, s[i + 1])
    <3>1. List!popEntry(List!List, s[i + 1]) \in LinkedList
      BY <2>3 DEF ChainOf
    <3> QED
      BY <2>2, <3>1, BecomesIs
  <2>5. Descending(t, listName)
    BY <1>0, <2>1, RestDescending
  <2> HIDE DEF t
  <2>6. ListIs(t)'
    BY <1>0, <2>2, <2>3, <2>4, <2>5 DEF ListIs
  <2>7. ListStep(s, t)
    BY <1>0, <2>1, <2>2 DEF ListStep, t
  <2> QED
    BY <2>6, <2>7
<1>3. ASSUME NEW n \in Names, List!Choice(n)
      PROVE  \E t : ListIs(t)' /\ ListStep(s, t)
  <2>1. PICK i \in 1 .. Len(s) : editing = s[i]
    BY <1>0, <1>3 DEF List!Choice
  <2> DEFINE e == s[i]
             u == RemoveAt(s, i)
             l == List!popEntry(List!List, e)
  <2>2. /\ listName' = [listName EXCEPT ![e] = n] /\ editing' = e /\ e \in ListEntries
        /\ List!Becomes(List!insertEntry(l, listName', e))
    BY <1>0, <1>3, <2>1 DEF List!Choice, List!moveToRightPlace
  <2>3. ChainOf(l, u)
    BY <1>0, <2>1, PopEntry
  <2>4. Descending(u, listName') /\ \A j \in 1 .. Len(u) : u[j] # e
    <3>1. \A x \in ListEntries : x # s[i] => listName'[x] = listName[x]
      BY <1>0, <2>2
    <3> DEFINE nn == listName'
    <3> HIDE DEF nn
    <3>2. \A x \in ListEntries : x # s[i] => nn[x] = listName[x]
      BY <3>1 DEF nn
    <3>3. s \in Seq(ListEntries) /\ i \in 1 .. Len(s) /\ Descending(s, listName) /\ OnceEach(s)
      BY <1>0, <2>1
    <3>4. Descending(RemoveAt(s, i), nn) /\ Lacks(RemoveAt(s, i), s[i])
      BY ONLY <3>2, <3>3, RestDescending
    <3> QED
      BY <3>4 DEF nn, Lacks
  <2>5. listName' \in [ListEntries -> Names]
    BY <1>0, <2>2
  <2> HIDE DEF e, u, l
  <2>6. PICK t : /\ ChainOf(List!insertEntry(l, listName', e), t) /\ Descending(t, listName')
                 /\ t = List!Order!Placed(u, RankOf(listName'), e) /\ \E j \in 1 .. Len(t) : t[j] = e
    <3> DEFINE nm == listName'
    <3>1. ChainOf(l, u) /\ nm \in [ListEntries -> Names] /\ Descending(u, nm) /\ e \in ListEntries
      BY <2>2, <2>3, <2>4, <2>5
    <3>2. \A j \in 1 .. Len(u) : u[j] # e
      BY <2>4
    <3> HIDE DEF nm
    <3>3. \E t : /\ ChainOf(List!insertEntry(l, nm, e), t) /\ Descending(t, nm)
                 /\ t = List!Order!Placed(u, RankOf(nm), e) /\ \E j \in 1 .. Len(t) : t[j] = e
      BY <3>1, <3>2, EntryPlaced
    <3> QED
      BY <3>3 DEF nm
  <2>7. List!List' = List!insertEntry(l, listName', e)
    <3>1. List!insertEntry(l, listName', e) \in LinkedList
      BY <2>6 DEF ChainOf
    <3> QED
      BY <2>2, <3>1, BecomesIs
  <2>8. ListIs(t)'
    BY <2>2, <2>5, <2>6, <2>7 DEF ListIs
  <2>9. ListStep(s, t)
    <3>1. RankOf(listName') = [RankOf(listName) EXCEPT ![e] = -n]
      BY <1>0, <2>2 DEF RankOf
    <3> QED
      BY <1>0, <2>1, <2>6, <3>1 DEF ListStep, e, u
  <2> QED
    BY <2>8, <2>9
<1>4. ASSUME \/ List!DoneEditing \/ \E i \in 0 .. listCount - 1 : List!edit_contact_flow(i)
      PROVE  \E t : ListIs(t)' /\ ListStep(s, t)
  <2>1. List!List' = List!List /\ listName' = listName
    BY <1>4 DEF List!DoneEditing, List!edit_contact_flow, List!List, List!list
  <2>2. editing' \in {s[i] : i \in 1 .. Len(s)} \cup {Nothing}
    <3>1. CASE List!DoneEditing
      BY <3>1 DEF List!DoneEditing
    <3>2. ASSUME NEW i \in 0 .. listCount - 1, List!edit_contact_flow(i)
          PROVE  editing' \in {s[j] : j \in 1 .. Len(s)}
      <4>1. i + 1 \in 1 .. Len(s) /\ List!getContactEntryByIndex(i) = s[i + 1]
        BY <1>0, HeldIs
      <4>2. editing' = s[i + 1]
        BY <3>2, <4>1 DEF List!edit_contact_flow
      <4> QED
        BY <4>1, <4>2
    <3> QED
      BY <1>4, <3>1, <3>2
  <2>3. ListIs(s)'
    BY <1>0, <2>1, <2>2 DEF ListIs
  <2> QED
    BY <2>1, <2>3 DEF ListStep
<1> QED
  BY <1>1, <1>2, <1>3, <1>4 DEF List!Next

LEMMA CountedOnce ==
  ASSUME NEW S, IsFiniteSet(S), NEW s \in Seq(S), OnceEach(s)
  PROVE  /\ Cardinality({s[i] : i \in 1 .. Len(s)}) = Len(s) /\ {s[i] : i \in 1 .. Len(s)} \subseteq S
         /\ Len(s) \in 0 .. Cardinality(S)
<1> DEFINE T == {s[i] : i \in 1 .. Len(s)}
           f == [i \in 1 .. Len(s) |-> s[i]]
<1>1. Len(s) \in Nat /\ T \subseteq S
  OBVIOUS
<1>2. f \in Bijection(1 .. Len(s), T)
  <2>1. f \in [1 .. Len(s) -> T] /\ \A i, j \in 1 .. Len(s) : f[i] = f[j] => i = j
    BY DEF OnceEach
  <2>2. \A x \in T : \E i \in 1 .. Len(s) : f[i] = x
    OBVIOUS
  <2> QED
    BY <2>1, <2>2 DEF Bijection, Injection, Surjection, IsInjective
<1>3. ExistsBijection(1 .. Len(s), T)
  BY <1>2 DEF ExistsBijection
<1> HIDE DEF T
<1>4. Cardinality(T) = Len(s)
  BY <1>1, <1>3, FS_CountingElements
<1>5. Cardinality(T) <= Cardinality(S) /\ Cardinality(S) \in Nat
  BY <1>1, FS_Subset, FS_CardinalityType
<1>6. Len(s) \in 0 .. Cardinality(S)
  BY <1>1, <1>4, <1>5
<1>7. Cardinality(T) = Len(s) /\ T \subseteq S
  BY <1>1, <1>4
<1> QED
  BY <1>6, <1>7, Zenon DEF T

LEMMA ListSound == ListInv => List!TypeOK /\ List!LinksAgree
<1> SUFFICES ASSUME NEW s, ListIs(s) PROVE List!TypeOK /\ List!LinksAgree
  BY DEF ListInv
<1>0. /\ List!Held = {s[i] : i \in 1 .. Len(s)} /\ listCount = Len(s) /\ Len(s) \in Nat
      /\ s \in Seq(ListEntries) /\ OnceEach(s)
  BY HeldIs
<1>1. /\ head \in AnyEntry /\ tail \in AnyEntry \cup {Uninitialised}
      /\ listPrev \in [ListEntries -> AnyEntry] /\ listNext \in [ListEntries -> AnyEntry]
      /\ head = ItemAt(s, 1) /\ (s # <<>> => tail = s[Len(s)])
      /\ \A i \in 1 .. Len(s) : listPrev[s[i]] = ItemAt(s, i - 1) /\ listNext[s[i]] = ItemAt(s, i + 1)
      /\ listName \in [ListEntries -> Names] /\ editing \in List!Held \cup {Nothing}
  BY <1>0 DEF ListIs, ChainOf, List!List, LinkedList
<1>2. List!TypeOK
  <2>1. \A S : List!Cardinality(S) = Cardinality(S)
    BY DEF List!Cardinality, Cardinality
  <2>2. /\ Cardinality(List!Held) = listCount /\ List!Held \subseteq ListEntries
        /\ listCount \in 0 .. Cardinality(ListEntries)
    BY <1>0, CountedOnce, EntriesAssumption
  <2> QED
    BY <1>1, <2>1, <2>2 DEF List!TypeOK, AnyEntry
<1>3. \A i \in 0 .. Len(s) - 1 : List!At(List!List, i) = s[i + 1]
  BY HeldIs DEF List!getContactEntryByIndex
<1>4. CASE Len(s) = 0
  BY <1>0, <1>1, <1>2, <1>4 DEF List!LinksAgree, ItemAt
<1>5. CASE Len(s) # 0
  <2>1. head = s[1] /\ tail = s[Len(s)] /\ s # <<>>
    BY <1>0, <1>1, <1>5 DEF ItemAt
  <2>2. listPrev[s[1]] = Nothing /\ listNext[s[Len(s)]] = Nothing
    BY <1>0, <1>1, <1>5 DEF ItemAt
  <2>3. List!At(List!List, Len(s) - 1) = s[Len(s)]
    BY <1>0, <1>3, <1>5
  <2>4. ASSUME NEW i \in 0 .. Len(s) - 2
        PROVE  listPrev[List!At(List!List, i + 1)] = List!At(List!List, i)
    <3>1. List!At(List!List, i + 1) = s[i + 2] /\ List!At(List!List, i) = s[i + 1]
      <4>1. i \in 0 .. Len(s) - 1 /\ i + 1 \in 0 .. Len(s) - 1 /\ (i + 1) + 1 = i + 2
        BY <1>0
      <4> QED
        BY <1>3, <4>1
    <3>2. i + 2 \in 1 .. Len(s) /\ (i + 2) - 1 = i + 1 /\ i + 1 \in 1 .. Len(s)
      BY <1>0
    <3> QED
      BY <1>1, <3>1, <3>2 DEF ItemAt
  <2> QED
    BY <1>0, <1>2, <1>5, <2>1, <2>2, <2>3, <2>4 DEF List!LinksAgree
<1> QED
  BY <1>4, <1>5, <1>0

LEMMA ListKept ==
  ASSUME ListInv, [List!Next]_listVars
  PROVE  ListInv'
<1>1. PICK s : ListIs(s)
  BY DEF ListInv
<1>2. CASE List!Next
  BY <1>1, <1>2, ListSteps DEF ListInv
<1>3. CASE UNCHANGED listVars
  <2>1. ListIs(s)'
    BY <1>1, <1>3 DEF listVars, ListIs, List!List
  <2> QED
    BY <2>1 DEF ListInv
<1> QED
  BY <1>2, <1>3

(* The sequence is the one of StableOrder. *)
OrderOf(l) == [i \in 1 .. l.count |-> List!At(l, i - 1)]
EntryOrder == [i \in 1 .. listCount |-> List!At(List!List, i - 1)]
LEMMA OrderOfIs ==
  ASSUME NEW l, NEW s, ChainOf(l, s)
  PROVE  OrderOf(l) = s
<1>1. s \in Seq(ListEntries) /\ l.count = Len(s) /\ Len(s) \in Nat
  BY DEF ChainOf
<1>2. ASSUME NEW i \in 1 .. Len(s) PROVE List!At(l, i - 1) = s[i]
  <2>1. i - 1 \in 0 .. Len(s) - 1 /\ (i - 1) + 1 = i
    BY <1>1
  <2>2. List!At(l, i - 1) = ItemAt(s, i)
    <3>1. i - 1 \in 0 .. Len(s)
      BY <1>1
    <3>2. List!At(l, i - 1) = ItemAt(s, (i - 1) + 1)
      BY <3>1, AtIs
    <3> QED
      BY <3>2, <2>1
  <2> QED
    BY <2>2, <1>1 DEF ItemAt
<1> QED
  BY <1>1, <1>2 DEF OrderOf

LEMMA EntryOrderIs == \A s : (ListIs(s) => EntryOrder = s) /\ (ListIs(s)' => EntryOrder' = s)
<1>0. EntryOrder = OrderOf(List!List)
  BY DEF EntryOrder, OrderOf, List!List
<1>1. \A s : ListIs(s) => EntryOrder = s
  BY <1>0, OrderOfIs DEF ListIs
<1>2. ASSUME NEW s, ListIs(s)' PROVE EntryOrder' = s
  <2>1. ChainOf(List!List', s)
    BY <1>2 DEF ListIs
  <2>2. OrderOf(List!List') = s
    BY <2>1, OrderOfIs
  <2>3. EntryOrder' = OrderOf(List!List')
    BY DEF EntryOrder, OrderOf, List!List
  <2> QED
    BY <2>2, <2>3
<1> QED
  BY <1>1, <1>2

LEMMA OrderStarts == List!Init => List!Order!Init
<1> SUFFICES ASSUME List!Init PROVE List!Order!Init
  OBVIOUS
<1>1. EntryOrder = <<>>
  BY ListStarts, EntryOrderIs
<1>2. RankOf(listName) \in [ListEntries -> {-n : n \in Names}]
  BY ListStarts DEF ListIs, RankOf
<1> QED
  BY <1>1, <1>2 DEF List!Order!Init, EntryOrder, RankOf

LEMMA OrderSteps ==
  ASSUME ListInv, [List!Next]_listVars
  PROVE  [List!Order!Next]_<<EntryOrder, RankOf(listName)>>
<1>1. PICK s : ListIs(s)
  BY DEF ListInv
<1>2. EntryOrder = s
  BY <1>1, EntryOrderIs
<1>3. CASE List!Next
  <2>1. PICK t : ListIs(t)' /\ ListStep(s, t)
    BY <1>1, <1>3, ListSteps
  <2>2. EntryOrder' = t
    BY <2>1, EntryOrderIs
  <2>3. /\ \A q, i : List!Order!RemoveAt(q, i) = RemoveAt(q, i)
        /\ \A q : List!Order!ToSet(q) = ToSet(q)
    BY DEF List!Order!RemoveAt, RemoveAt, List!Order!ToSet, ToSet
  <2>4. CASE t = s /\ listName' = listName
    BY <1>2, <2>2, <2>4 DEF RankOf
  <2>5. ASSUME NEW i \in DOMAIN s, t = RemoveAt(s, i), listName' = listName
        PROVE  List!Order!Next
    <3>1. List!Order!Delete(i)
      BY <1>2, <2>2, <2>3, <2>5 DEF List!Order!Delete, EntryOrder, RankOf
    <3> QED
      BY <1>2, <3>1 DEF List!Order!Next, EntryOrder
  <2>6. ASSUME NEW e \in ListEntries, NEW n \in Names, e \notin ToSet(s),
               RankOf(listName') = [RankOf(listName) EXCEPT ![e] = -n],
               t = List!Order!Placed(s, RankOf(listName'), e)
        PROVE  List!Order!Next
    <3>1. List!Order!Insert(e, -n)
      BY <1>2, <2>2, <2>3, <2>6 DEF List!Order!Insert, EntryOrder, RankOf
    <3> QED
      BY <3>1 DEF List!Order!Next
  <2>7. ASSUME NEW i \in DOMAIN s, NEW n \in Names,
               RankOf(listName') = [RankOf(listName) EXCEPT ![s[i]] = -n],
               t = List!Order!Placed(RemoveAt(s, i), RankOf(listName'), s[i])
        PROVE  List!Order!Next
    <3>1. List!Order!Move(i, -n)
      BY <1>2, <2>2, <2>3, <2>7 DEF List!Order!Move, EntryOrder, RankOf
    <3> QED
      BY <1>2, <3>1 DEF List!Order!Next, EntryOrder
  <2> QED
    BY <2>1, <2>4, <2>5, <2>6, <2>7 DEF ListStep
<1>4. CASE UNCHANGED listVars
  BY <1>4 DEF listVars, EntryOrder, List!List, List!At, RankOf
<1> QED
  BY <1>3, <1>4

-----------------------------------------------------------------------------
(* The priority queue: FIRST and the entries of a sequence lead to its      *)
(* entries in turn, and the last to NULL.                                   *)
AnyItem == QueueEntries \cup {Nothing}
LinkOf(s, k) == IF k = 0 THEN FIRST ELSE s[k]
LinkedAs(lk, s) ==
  /\ lk \in [Queue!Links -> AnyItem] /\ s \in Seq(QueueEntries) /\ OnceEach(s)
  /\ \A k \in 0 .. Len(s) : lk[LinkOf(s, k)] = ItemAt(s, k + 1)
Ascending(s, pr) == \A i, j \in 1 .. Len(s) : i < j => pr[s[i]] <= pr[s[j]]
QueueIs(s) ==
  /\ LinkedAs(link, s) /\ size = Len(s) /\ Ascending(s, priority)
  /\ priority \in [QueueEntries -> Priorities] /\ data \in [QueueEntries -> Data]
  /\ call \in [priority : Priorities, data : Data \cup {Nothing}, found : AnyItem]
QueueInv == \E s : QueueIs(s)

LinkIn(lk, k) == LET at[i \in 0 .. k] == IF i = 0 THEN FIRST ELSE lk[at[i - 1]] IN at[k]
LEMMA LinkInIs ==
  ASSUME NEW lk, NEW s, LinkedAs(lk, s), NEW k \in 0 .. Len(s)
  PROVE  LinkIn(lk, k) = LinkOf(s, k)
<1> DEFINE Walks(f) == f = [m \in 0 .. k |-> IF m = 0 THEN FIRST ELSE lk[f[m - 1]]]
           w == [m \in 0 .. k |-> LinkOf(s, m)]
           f == CHOOSE g : Walks(g)
           T == {m \in 0 .. k : f[m] # LinkOf(s, m)}
<1>0. /\ s \in Seq(QueueEntries) /\ Len(s) \in Nat
      /\ \A m \in 1 .. Len(s) : lk[LinkOf(s, m - 1)] = LinkOf(s, m)
  <2>1. s \in Seq(QueueEntries) /\ Len(s) \in Nat
    BY DEF LinkedAs
  <2>2. ASSUME NEW m \in 1 .. Len(s) PROVE lk[LinkOf(s, m - 1)] = LinkOf(s, m)
    <3>1. m - 1 \in 0 .. Len(s) /\ (m - 1) + 1 = m /\ m # 0
      BY <2>1
    <3>2. lk[LinkOf(s, m - 1)] = ItemAt(s, m)
      BY <3>1 DEF LinkedAs
    <3> QED
      BY <3>1, <3>2 DEF ItemAt, LinkOf
  <2> QED
    BY <2>1, <2>2
<1>1. Walks(w)
  <2>1. \A m \in 0 .. k : w[m] = IF m = 0 THEN FIRST ELSE lk[w[m - 1]]
    <3> SUFFICES ASSUME NEW m \in 0 .. k PROVE w[m] = IF m = 0 THEN FIRST ELSE lk[w[m - 1]]
      OBVIOUS
    <3>1. CASE m = 0
      BY <3>1 DEF LinkOf
    <3>2. CASE m # 0
      <4>1. m \in 1 .. Len(s) /\ m - 1 \in 0 .. k
        BY <1>0, <3>2
      <4> QED
        BY <1>0, <3>2, <4>1
    <3> QED
      BY <3>1, <3>2
  <2> QED
    BY <2>1
<1>2. Walks(f)
  <2> HIDE DEF Walks, w
  <2> QED
    BY <1>1
<1>3. LinkIn(lk, k) = f[k]
  BY DEF LinkIn
<1> HIDE DEF f, w
<1>4. ASSUME T # {} PROVE FALSE
  <2>1. PICK m \in T : \A n \in T : m <= n
    <3>1. T \subseteq Nat
      BY <1>0
    <3> QED
      BY <1>4, <3>1, Least
  <2>2. m \in 0 .. k /\ f[m] # LinkOf(s, m) /\ m \in Int
    BY <2>1
  <2>3. CASE m = 0
    BY <1>2, <2>2, <2>3 DEF LinkOf
  <2>4. CASE m # 0
    <3>1. m - 1 \in 0 .. k /\ m \in 1 .. Len(s) /\ ~(m <= m - 1)
      BY <1>0, <2>2, <2>4
    <3>2. m - 1 \notin T
      BY <2>1, <2>2, <3>1
    <3>3. f[m - 1] = LinkOf(s, m - 1)
      BY <3>1, <3>2
    <3>4. f[m] = lk[f[m - 1]]
      BY <1>2, <2>2, <2>4
    <3> QED
      BY <1>0, <2>2, <3>1, <3>3, <3>4
  <2> QED
    BY <2>3, <2>4
<1> QED
  BY <1>3, <1>4

LEMMA LinkAtIs ==
  ASSUME NEW s, LinkedAs(link, s), NEW k \in 0 .. Len(s)
  PROVE  Queue!LinkAt(k) = LinkOf(s, k)
BY LinkInIs DEF Queue!LinkAt, LinkIn

(* What the queue holds, and its sequence. *)
LEMMA QueueHeld ==
  ASSUME NEW s, QueueIs(s)
  PROVE  /\ s \in Seq(QueueEntries) /\ Len(s) \in 0 .. Cardinality(QueueEntries) /\ OnceEach(s)
         /\ Queue!Held = {s[i] : i \in 1 .. Len(s)} /\ Cardinality(Queue!Held) = Len(s)
         /\ Queue!Held \subseteq QueueEntries
         /\ \A k \in 1 .. Len(s) : Queue!LinkAt(k) = s[k] /\ s[k] \in QueueEntries
<1>1. s \in Seq(QueueEntries) /\ OnceEach(s) /\ Len(s) \in Nat /\ size = Len(s)
  BY DEF QueueIs, LinkedAs
<1>2. ASSUME NEW k \in 1 .. Len(s) PROVE Queue!LinkAt(k) = s[k] /\ s[k] \in QueueEntries
  <2>1. k \in 0 .. Len(s) /\ k # 0
    BY <1>1
  <2> QED
    BY <1>1, <2>1, LinkAtIs DEF QueueIs, LinkOf
<1>3. Queue!Held = {s[i] : i \in 1 .. Len(s)}
  BY <1>1, <1>2 DEF Queue!Held
<1>4. /\ Cardinality({s[i] : i \in 1 .. Len(s)}) = Len(s) /\ {s[i] : i \in 1 .. Len(s)} \subseteq QueueEntries
      /\ Len(s) \in 0 .. Cardinality(QueueEntries)
  BY <1>1, CountedOnce, EntriesAssumption
<1> QED
  BY <1>1, <1>2, <1>3, <1>4

(* A walk passes the entries that are not to stop it. *)
LEMMA StepsAre ==
  ASSUME NEW s, QueueIs(s), NEW stop
  PROVE  LET K == Queue!Steps(stop) IN
         /\ K \in 0 .. Len(s) /\ (\A j \in 1 .. K : s[j] \notin stop)
         /\ K < Len(s) => s[K + 1] \in stop
         /\ Queue!Walk(stop) = LinkOf(s, K) /\ link[Queue!Walk(stop)] = ItemAt(s, K + 1)
<1> DEFINE K == Queue!Steps(stop)
           T == {k \in 0 .. Cardinality(QueueEntries) : Queue!Stops(k, stop)}
<1>1. /\ s \in Seq(QueueEntries) /\ Len(s) \in Nat /\ Len(s) \in 0 .. Cardinality(QueueEntries)
      /\ Cardinality(QueueEntries) \in Nat /\ \A k \in 1 .. Len(s) : s[k] \in QueueEntries /\ s[k] # Nothing
  BY QueueHeld, EntriesAssumption, FS_CardinalityType
<1>2. ASSUME NEW k \in 0 .. Len(s)
      PROVE  /\ Queue!LinkAt(k) = LinkOf(s, k) /\ link[LinkOf(s, k)] = ItemAt(s, k + 1)
             /\ Queue!Stops(k, stop) <=> (ItemAt(s, k + 1) = Nothing \/ ItemAt(s, k + 1) \in stop)
  <2>1. Queue!LinkAt(k) = LinkOf(s, k) /\ link[LinkOf(s, k)] = ItemAt(s, k + 1)
    BY LinkAtIs DEF QueueIs, LinkedAs
  <2> QED
    BY <2>1 DEF Queue!Stops
<1>3. Len(s) \in T
  <2>1. Len(s) \in 0 .. Len(s) /\ ItemAt(s, Len(s) + 1) = Nothing
    BY <1>1 DEF ItemAt
  <2> QED
    BY <1>1, <1>2, <2>1
<1>4. PICK x \in T : \A y \in T : x <= y
  <2>1. T \subseteq Nat /\ T # {}
    BY <1>1, <1>3
  <2> QED
    BY <2>1, Least
<1>5. /\ K \in 0 .. Cardinality(QueueEntries) /\ Queue!Stops(K, stop)
      /\ \A j \in 0 .. K - 1 : ~Queue!Stops(j, stop)
  <2>1. /\ x \in 0 .. Cardinality(QueueEntries) /\ Queue!Stops(x, stop)
        /\ \A j \in 0 .. x - 1 : ~Queue!Stops(j, stop)
    <3>1. x \in 0 .. Cardinality(QueueEntries) /\ Queue!Stops(x, stop)
      BY <1>4
    <3>2. ASSUME NEW j \in 0 .. x - 1, Queue!Stops(j, stop) PROVE FALSE
      <4>1. j \in 0 .. Cardinality(QueueEntries) /\ ~(x <= j)
        BY <1>1, <3>1
      <4> QED
        BY <1>4, <3>2, <4>1
    <3> QED
      BY <3>1, <3>2
  <2>2. \A S : Queue!Cardinality(S) = Cardinality(S)
    BY DEF Queue!Cardinality, Cardinality
  <2> QED
    BY <2>1, <2>2 DEF Queue!Steps
<1> HIDE DEF K, T
<1>6. K \in 0 .. Len(s)
  <2>1. ASSUME K > Len(s) PROVE FALSE
    <3>1. Len(s) \in 0 .. K - 1
      BY <1>1, <1>5, <2>1
    <3> QED
      BY <1>3, <1>5, <3>1 DEF T
  <2> QED
    BY <1>1, <1>5, <2>1
<1>7. ASSUME NEW j \in 1 .. K PROVE s[j] \notin stop
  <2>1. j - 1 \in 0 .. K - 1 /\ j - 1 \in 0 .. Len(s) /\ (j - 1) + 1 = j /\ j \in 1 .. Len(s)
    BY <1>1, <1>6
  <2>2. ItemAt(s, j) \notin stop
    BY <1>2, <1>5, <2>1
  <2> QED
    BY <2>1, <2>2 DEF ItemAt
<1>8. ASSUME K < Len(s) PROVE s[K + 1] \in stop
  <2>1. K + 1 \in 1 .. Len(s)
    BY <1>1, <1>6, <1>8
  <2>2. ItemAt(s, K + 1) = s[K + 1] /\ s[K + 1] # Nothing
    BY <1>1, <2>1 DEF ItemAt
  <2> QED
    BY <1>2, <1>5, <1>6, <2>2
<1>9. Queue!Walk(stop) = LinkOf(s, K) /\ link[Queue!Walk(stop)] = ItemAt(s, K + 1)
  BY <1>2, <1>6 DEF Queue!Walk, K
<1> QED
  BY <1>6, <1>7, <1>8, <1>9 DEF K

LEMMA QueueStarts == Queue!createPriorityQueue => QueueIs(<<>>)
<1> SUFFICES ASSUME Queue!createPriorityQueue PROVE QueueIs(<<>>)
  OBVIOUS
<1>1. (CHOOSE p \in Priorities : TRUE) \in Priorities /\ (CHOOSE d \in Data : TRUE) \in Data
  BY RanksAssumption
<1>2. LinkedAs(link, <<>>)
  <2>1. /\ link \in [Queue!Links -> AnyItem] /\ FIRST \in Queue!Links /\ link[FIRST] = Nothing
    BY DEF Queue!createPriorityQueue, Queue!Links, AnyItem
  <2> QED
    BY <2>1 DEF LinkedAs, OnceEach, LinkOf, ItemAt
<1>3. /\ priority \in [QueueEntries -> Priorities] /\ data \in [QueueEntries -> Data]
      /\ call \in [priority : Priorities, data : Data \cup {Nothing}, found : AnyItem] /\ size = 0
  BY <1>1 DEF Queue!createPriorityQueue, Queue!NoCall, AnyItem
<1> QED
  BY <1>2, <1>3 DEF QueueIs, Ascending

(* insert links its entry behind K others. *)
LEMMA LinkedIn ==
  ASSUME NEW lk, NEW s, LinkedAs(lk, s), NEW K \in 0 .. Len(s),
         NEW e \in QueueEntries, \A j \in 1 .. Len(s) : s[j] # e
  PROVE  LinkedAs([lk EXCEPT ![e] = lk[LinkOf(s, K)], ![LinkOf(s, K)] = e], InsertAt(s, K + 1, e))
<1> DEFINE t == InsertAt(s, K + 1, e)
           a == LinkOf(s, K)
           r == [lk EXCEPT ![e] = lk[a], ![a] = e]
<1>0. /\ s \in Seq(QueueEntries) /\ Len(s) \in Nat /\ OnceEach(s)
      /\ \A j \in 1 .. Len(s) : s[j] \in QueueEntries /\ s[j] # FIRST
      /\ \A j \in 0 .. Len(s) : lk[LinkOf(s, j)] = ItemAt(s, j + 1)
      /\ lk \in [Queue!Links -> AnyItem] /\ e \in Queue!Links /\ e # FIRST /\ K + 1 \in 1 .. Len(s) + 1
  BY EntriesAssumption DEF LinkedAs, Queue!Links
<1>1. /\ t \in Seq(QueueEntries) /\ Len(t) = Len(s) + 1
      /\ \A j \in 1 .. Len(s) + 1 : t[j] = IF j < K + 1 THEN s[j] ELSE IF j = K + 1 THEN e ELSE s[j - 1]
  <2>1. t \in Seq(QueueEntries) /\ IsInserted(t, s, K + 1, e)
    BY <1>0, InsertedIs
  <2> HIDE DEF t
  <2> QED
    BY ONLY <2>1 DEF IsInserted
<1>2. OnceEach(t)
  BY <1>0, OnceInserted
<1>3. a \in Queue!Links /\ a # e
  BY <1>0 DEF LinkOf, Queue!Links
<1>4. \A x \in Queue!Links : r[x] = IF x = a THEN e ELSE IF x = e THEN ItemAt(s, K + 1) ELSE lk[x]
  BY <1>0, <1>3
<1>5. r \in [Queue!Links -> AnyItem]
  <2>1. lk[a] \in AnyItem /\ e \in AnyItem
    BY <1>0, <1>3 DEF AnyItem
  <2> QED
    BY <1>0, <2>1
<1> HIDE DEF r, t
<1>6. \A j \in 1 .. Len(s) + 2 :
        ItemAt(t, j) = IF j < K + 1 THEN ItemAt(s, j) ELSE IF j = K + 1 THEN e ELSE ItemAt(s, j - 1)
  BY <1>0, <1>1 DEF ItemAt
<1>7. ASSUME NEW k \in 0 .. Len(s) + 1 PROVE r[LinkOf(t, k)] = ItemAt(t, k + 1)
  <2>0. k \in Int /\ k + 1 \in 1 .. Len(s) + 2 /\ K \in Int
    BY <1>0
  <2>1. CASE k = K + 1
    <3>1. LinkOf(t, k) = e
      BY <1>0, <1>1, <2>0, <2>1 DEF LinkOf
    <3>2. r[e] = ItemAt(s, K + 1)
      BY <1>0, <1>3, <1>4
    <3>3. ItemAt(t, k + 1) = ItemAt(s, (k + 1) - 1) /\ (k + 1) - 1 = K + 1
      BY <1>6, <2>0, <2>1
    <3> QED
      BY <3>1, <3>2, <3>3
  <2>2. CASE k # K + 1
    <3> DEFINE x == IF k < K + 1 THEN k ELSE k - 1
    <3>1. LinkOf(t, k) = LinkOf(s, x)
      BY <1>0, <1>1, <2>0, <2>2 DEF LinkOf
    <3>2. x \in 0 .. Len(s)
      BY <1>0, <2>0, <2>2
    <3>3. LinkOf(s, x) = a <=> x = K
      BY <1>0, <2>0, <3>2 DEF LinkOf, OnceEach
    <3>4. LinkOf(s, x) \in Queue!Links /\ LinkOf(s, x) # e
      BY <1>0, <3>2 DEF LinkOf, Queue!Links
    <3>5. r[LinkOf(s, x)] = IF x = K THEN e ELSE ItemAt(s, x + 1)
      BY <1>0, <1>4, <3>2, <3>3, <3>4
    <3>6. ItemAt(t, k + 1) = IF k + 1 < K + 1 THEN ItemAt(s, k + 1)
                             ELSE IF k + 1 = K + 1 THEN e ELSE ItemAt(s, (k + 1) - 1)
      BY <1>6, <2>0
    <3> HIDE DEF a
    <3>7. CASE k < K
      BY <2>0, <3>1, <3>5, <3>6, <3>7
    <3>8. CASE k = K
      BY <2>0, <3>1, <3>5, <3>6, <3>8
    <3>9. CASE k > K + 1
      <4>1. x = k - 1 /\ x + 1 = (k + 1) - 1 /\ x # K
        BY <2>0, <3>9
      <4> QED
        BY <2>0, <3>1, <3>5, <3>6, <3>9, <4>1
    <3> QED
      BY <2>0, <2>2, <3>7, <3>8, <3>9
  <2> QED
    BY <2>1, <2>2
<1> QED
  BY <1>1, <1>2, <1>5, <1>7 DEF LinkedAs, r, t

(* Unlink takes out the entry behind K others. *)
LEMMA LinkedOut ==
  ASSUME NEW lk, NEW s, LinkedAs(lk, s), NEW K \in 0 .. Len(s) - 1
  PROVE  LinkedAs([lk EXCEPT ![LinkOf(s, K)] = lk[lk[LinkOf(s, K)]]], RemoveAt(s, K + 1))
<1> DEFINE t == RemoveAt(s, K + 1)
           a == LinkOf(s, K)
           r == [lk EXCEPT ![a] = lk[lk[a]]]
<1>0. /\ s \in Seq(QueueEntries) /\ Len(s) \in Nat /\ OnceEach(s)
      /\ \A j \in 1 .. Len(s) : s[j] \in QueueEntries /\ s[j] # FIRST
      /\ \A j \in 0 .. Len(s) : lk[LinkOf(s, j)] = ItemAt(s, j + 1)
      /\ lk \in [Queue!Links -> AnyItem] /\ K + 1 \in 1 .. Len(s) /\ K \in 0 .. Len(s)
  BY EntriesAssumption DEF LinkedAs, Queue!Links
<1>1. /\ t \in Seq(QueueEntries) /\ Len(t) = Len(s) - 1
      /\ \A j \in 1 .. Len(s) - 1 : t[j] = IF j < K + 1 THEN s[j] ELSE s[j + 1]
  <2>1. t \in Seq(QueueEntries) /\ IsRemoved(t, s, K + 1)
    BY <1>0, RemovedIs
  <2> HIDE DEF t
  <2> QED
    BY ONLY <2>1 DEF IsRemoved
<1>2. OnceEach(t)
  BY <1>0, OnceRemoved
<1>3. a \in Queue!Links
  BY <1>0 DEF LinkOf, Queue!Links
<1>4. lk[lk[a]] = ItemAt(s, K + 2)
  <2>1. lk[a] = s[K + 1]
    BY <1>0 DEF ItemAt
  <2>2. K + 1 \in 0 .. Len(s) /\ LinkOf(s, K + 1) = s[K + 1] /\ (K + 1) + 1 = K + 2
    BY <1>0 DEF LinkOf
  <2>3. lk[LinkOf(s, K + 1)] = ItemAt(s, (K + 1) + 1)
    BY <1>0, <2>2
  <2> QED
    BY <2>1, <2>2, <2>3
<1>5. \A x \in Queue!Links : r[x] = IF x = a THEN ItemAt(s, K + 2) ELSE lk[x]
  BY <1>0, <1>3, <1>4
<1>6. r \in [Queue!Links -> AnyItem]
  <2>1. ItemAt(s, K + 2) \in AnyItem
    BY <1>0 DEF AnyItem, ItemAt
  <2> QED
    BY <1>0, <1>4, <2>1
<1> HIDE DEF r, t
<1>7. \A j \in 1 .. Len(s) : ItemAt(t, j) = IF j < K + 1 THEN ItemAt(s, j) ELSE ItemAt(s, j + 1)
  BY <1>0, <1>1 DEF ItemAt
<1>8. ASSUME NEW k \in 0 .. Len(s) - 1 PROVE r[LinkOf(t, k)] = ItemAt(t, k + 1)
  <2> DEFINE x == IF k < K + 1 THEN k ELSE k + 1
  <2>0. k \in Int /\ k + 1 \in 1 .. Len(s) /\ x \in 0 .. Len(s)
    BY <1>0
  <2>1. LinkOf(t, k) = LinkOf(s, x)
    BY <1>0, <1>1, <2>0 DEF LinkOf
  <2>2. LinkOf(s, x) = a <=> x = K
    BY <1>0, <2>0 DEF LinkOf, OnceEach
  <2>3. LinkOf(s, x) \in Queue!Links
    BY <1>0, <2>0 DEF LinkOf, Queue!Links
  <2>4. lk[LinkOf(s, x)] = ItemAt(s, x + 1)
    BY <1>0, <2>0
  <2>5. r[LinkOf(s, x)] = IF x = K THEN ItemAt(s, K + 2) ELSE ItemAt(s, x + 1)
    BY <1>5, <2>2, <2>3, <2>4
  <2>6. ItemAt(t, k + 1) = IF k + 1 < K + 1 THEN ItemAt(s, k + 1) ELSE ItemAt(s, k + 2)
    <3>1. (k + 1) + 1 = k + 2
      BY <2>0
    <3> QED
      BY <1>7, <2>0, <3>1
  <2>7. K \in Int
    OBVIOUS
  <2> HIDE DEF a
  <2>8. CASE k < K
    BY <2>0, <2>1, <2>5, <2>6, <2>7, <2>8
  <2>9. CASE k = K
    BY <2>0, <2>1, <2>5, <2>6, <2>7, <2>9
  <2>10. CASE k > K
    <3>1. x = k + 1 /\ x + 1 = k + 2
      BY <2>0, <2>7, <2>10
    <3> QED
      BY <2>0, <2>1, <2>5, <2>6, <2>7, <2>10, <3>1
  <2> QED
    BY <2>0, <2>7, <2>8, <2>9, <2>10
<1> QED
  BY <1>0, <1>1, <1>2, <1>6, <1>8 DEF LinkedAs, r, t

(* What a step does to the sequence. *)
QueueStep(s, t) ==
  \/ t = s /\ UNCHANGED <<priority, data>>
  \/ \E i \in DOMAIN s : t = RemoveAt(s, i) /\ UNCHANGED <<priority, data>>
  \/ \E e \in QueueEntries, p \in Priorities :
       /\ e \notin ToSet(s) /\ priority' = [priority EXCEPT ![e] = p]
       /\ t = Queue!Order!Placed(s, priority', e)

(* A removal takes the first of what was wanted for. *)
Took(s) ==
  \/ call' = call
  \/ /\ call'.found = Nothing /\ \A k \in 1 .. Len(s) : ~Queue!Asked(s[k])
  \/ \E k \in 1 .. Len(s) :
       /\ call'.found = s[k] /\ Queue!Asked(s[k])
       /\ \A j \in 1 .. k - 1 : ~Queue!Asked(s[j])

LEMMA QueuePops ==
  ASSUME NEW s, QueueIs(s), NEW p \in Priorities, NEW d \in Data \cup {Nothing}, Queue!popEntry(p, d)
  PROVE  \E t : QueueIs(t)' /\ QueueStep(s, t) /\ Took(s)
<1>k. PICK K : K = Queue!Steps(Queue!Matching(p, d))
  OBVIOUS
<1> DEFINE a == LinkOf(s, K)
<1>0. /\ s \in Seq(QueueEntries) /\ Len(s) \in Nat /\ OnceEach(s) /\ size = Len(s)
      /\ \A k \in 1 .. Len(s) : s[k] \in QueueEntries /\ s[k] # Nothing
      /\ LinkedAs(link, s) /\ Ascending(s, priority)
      /\ priority \in [QueueEntries -> Priorities] /\ data \in [QueueEntries -> Data]
  BY EntriesAssumption, QueueHeld DEF QueueIs
<1>1. /\ K \in 0 .. Len(s) /\ (\A j \in 1 .. K : s[j] \notin Queue!Matching(p, d))
      /\ K < Len(s) => s[K + 1] \in Queue!Matching(p, d)
      /\ Queue!Walk(Queue!Matching(p, d)) = LinkOf(s, K)
      /\ link[Queue!Walk(Queue!Matching(p, d))] = ItemAt(s, K + 1)
  BY <1>k, StepsAre
<1>2. /\ call' = [priority |-> p, data |-> d, found |-> ItemAt(s, K + 1)]
      /\ IF ItemAt(s, K + 1) = Nothing THEN UNCHANGED <<link, size>> ELSE Queue!Unlink(a)
      /\ UNCHANGED <<priority, data>> /\ link[a] = ItemAt(s, K + 1)
  BY <1>1 DEF Queue!popEntry
<1> HIDE DEF a
<1>3. call' \in [priority : Priorities, data : Data \cup {Nothing}, found : AnyItem]
  <2>1. ItemAt(s, K + 1) \in AnyItem
    BY <1>0, <1>1 DEF ItemAt, AnyItem
  <2> QED
    BY <1>2, <2>1
<1>4. \A x \in QueueEntries : Queue!Asked(x) <=> x \in Queue!Matching(p, d)
  BY <1>2 DEF Queue!Asked, Queue!Matching
<1>5. CASE K = Len(s)
  <2>1. ItemAt(s, K + 1) = Nothing
    BY <1>0, <1>5 DEF ItemAt
  <2>2. UNCHANGED <<link, size, priority, data>> /\ call'.found = Nothing
    BY <1>2, <2>1
  <2>3. QueueIs(s)'
    BY <1>3, <2>2 DEF QueueIs
  <2>4. \A k \in 1 .. Len(s) : ~Queue!Asked(s[k])
    BY <1>0, <1>1, <1>4, <1>5
  <2>5. QueueStep(s, s) /\ Took(s)
    BY <2>2, <2>4 DEF QueueStep, Took
  <2> QED
    BY <2>3, <2>5
<1>6. CASE K < Len(s)
  <2> DEFINE t == RemoveAt(s, K + 1)
  <2>1. K + 1 \in 1 .. Len(s) /\ K \in 0 .. Len(s) - 1 /\ ItemAt(s, K + 1) = s[K + 1]
    BY <1>0, <1>1, <1>6 DEF ItemAt
  <2>2. /\ link' = [link EXCEPT ![LinkOf(s, K)] = link[link[LinkOf(s, K)]]]
        /\ size' = Len(s) - 1 /\ UNCHANGED <<priority, data>>
    BY <1>0, <1>2, <2>1 DEF Queue!Unlink, a
  <2>3. LinkedAs(link', t)
    BY <1>0, <2>1, <2>2, LinkedOut
  <2>4. /\ t \in Seq(QueueEntries) /\ Len(t) = Len(s) - 1
        /\ \A j \in 1 .. Len(s) - 1 : t[j] = IF j < K + 1 THEN s[j] ELSE s[j + 1]
    <3>1. t \in Seq(QueueEntries) /\ IsRemoved(t, s, K + 1)
      BY <1>0, <2>1, RemovedIs
    <3> HIDE DEF t
    <3> QED
      BY ONLY <3>1 DEF IsRemoved
  <2> HIDE DEF t
  <2>5. Ascending(t, priority)
    <3> SUFFICES ASSUME NEW i \in 1 .. Len(s) - 1, NEW j \in 1 .. Len(s) - 1, i < j
                 PROVE  priority[t[i]] <= priority[t[j]]
      BY <1>0, <2>4 DEF Ascending
    <3> DEFINE x == IF i < K + 1 THEN i ELSE i + 1
               y == IF j < K + 1 THEN j ELSE j + 1
    <3>1. t[i] = s[x] /\ t[j] = s[y]
      BY <2>4
    <3>2. x \in 1 .. Len(s) /\ y \in 1 .. Len(s) /\ x < y
      BY <1>0, <2>1
    <3> QED
      BY <1>0, <3>1, <3>2 DEF Ascending
  <2>6. QueueIs(t)'
    BY <1>0, <1>3, <2>2, <2>3, <2>4, <2>5 DEF QueueIs
  <2>7. QueueStep(s, t)
    BY <1>0, <2>1, <2>2 DEF QueueStep, t
  <2>8. Took(s)
    <3>1. s[K + 1] \in QueueEntries /\ Queue!Asked(s[K + 1]) /\ call'.found = s[K + 1]
      BY <1>0, <1>1, <1>2, <1>4, <1>6, <2>1
    <3>2. \A j \in 1 .. (K + 1) - 1 : ~Queue!Asked(s[j])
      BY <1>0, <1>1, <1>4, <1>6
    <3> QED
      BY <2>1, <3>1, <3>2 DEF Took
  <2> QED
    BY <2>6, <2>7, <2>8
<1> QED
  BY <1>0, <1>1, <1>5, <1>6

LEMMA QueueInserts ==
  ASSUME NEW s, QueueIs(s), NEW e \in QueueEntries \ Queue!Held, NEW p \in Priorities, NEW d \in Data,
         Queue!insert(e, p, d)
  PROVE  \E t : QueueIs(t)' /\ QueueStep(s, t)
<1>k. PICK K : K = Queue!Steps(Queue!Behind(p))
  OBVIOUS
<1> DEFINE t == InsertAt(s, K + 1, e)
           nn == [priority EXCEPT ![e] = p]
<1>0. /\ s \in Seq(QueueEntries) /\ Len(s) \in Nat /\ OnceEach(s) /\ size = Len(s)
      /\ \A k \in 1 .. Len(s) : s[k] \in QueueEntries /\ s[k] # e
      /\ LinkedAs(link, s) /\ Ascending(s, priority)
      /\ priority \in [QueueEntries -> Priorities] /\ data \in [QueueEntries -> Data]
      /\ call \in [priority : Priorities, data : Data \cup {Nothing}, found : AnyItem]
  <2>1. /\ s \in Seq(QueueEntries) /\ Len(s) \in Nat /\ OnceEach(s)
        /\ \A k \in 1 .. Len(s) : s[k] \in QueueEntries /\ s[k] \in Queue!Held
    BY QueueHeld
  <2> QED
    BY <2>1 DEF QueueIs
<1>1. /\ K \in 0 .. Len(s) /\ (\A j \in 1 .. K : s[j] \notin Queue!Behind(p))
      /\ K < Len(s) => s[K + 1] \in Queue!Behind(p)
      /\ Queue!Walk(Queue!Behind(p)) = LinkOf(s, K)
      /\ link[Queue!Walk(Queue!Behind(p))] = ItemAt(s, K + 1)
  BY <1>k, StepsAre
<1>2. /\ priority' = nn /\ data' = [data EXCEPT ![e] = d] /\ call' = call /\ size' = Len(s) + 1
      /\ link' = [link EXCEPT ![e] = link[LinkOf(s, K)], ![LinkOf(s, K)] = e]
  <2>1. Queue!LinkAt(K) = LinkOf(s, K) /\ K \in 0 .. size
    BY <1>0, <1>1, LinkAtIs
  <2> QED
    BY <1>0, <1>1, <2>1 DEF Queue!insert
<1>3. LinkedAs(link', t)
  BY <1>0, <1>1, <1>2, LinkedIn
<1>4. /\ t \in Seq(QueueEntries) /\ Len(t) = Len(s) + 1
      /\ \A j \in 1 .. Len(s) + 1 : t[j] = IF j < K + 1 THEN s[j] ELSE IF j = K + 1 THEN e ELSE s[j - 1]
  <2>1. K + 1 \in 1 .. Len(s) + 1
    BY <1>0, <1>1
  <2> HIDE DEF t
  <2>2. t = InsertAt(s, K + 1, e)
    BY DEF t
  <2>3. s \in Seq(QueueEntries) /\ e \in QueueEntries
    BY <1>0
  <2> QED
    <3>1. InsertAt(s, K + 1, e) \in Seq(QueueEntries) /\ IsInserted(InsertAt(s, K + 1, e), s, K + 1, e)
      BY ONLY <2>1, <2>3, InsertedIs
    <3> QED
      BY ONLY <2>2, <3>1 DEF IsInserted
<1> HIDE DEF t, nn
<1>5. /\ nn \in [QueueEntries -> Priorities] /\ nn[e] = p
      /\ \A x \in QueueEntries : x # e => nn[x] = priority[x]
      /\ \A x \in QueueEntries : nn[x] \in Int
  BY <1>0, RanksAssumption DEF nn
<1>6. ASSUME NEW j \in 1 .. Len(s)
      PROVE  nn[s[j]] <= p <=> j <= K
  <2>0. nn[s[j]] = priority[s[j]] /\ nn[s[j]] \in Int /\ p \in Int /\ K \in Int
    BY <1>0, <1>1, <1>5
  <2>1. ASSUME j <= K PROVE nn[s[j]] <= p
    <3>1. s[j] \notin Queue!Behind(p)
      BY <1>1, <2>1
    <3> QED
      BY <1>0, <2>0, <3>1 DEF Queue!Behind
  <2>2. ASSUME ~(j <= K) PROVE ~(nn[s[j]] <= p)
    <3>1. K + 1 \in 1 .. Len(s) /\ K < Len(s) /\ K + 1 <= j
      BY <1>0, <1>1, <2>2
    <3>2. priority[s[K + 1]] > p /\ priority[s[K + 1]] \in Int
      BY <1>0, <1>1, <3>1, RanksAssumption DEF Queue!Behind
    <3>3. priority[s[K + 1]] <= priority[s[j]]
      <4>1. CASE K + 1 = j
        BY <2>0, <4>1
      <4>2. CASE K + 1 < j
        BY <1>0, <3>1, <4>2 DEF Ascending
      <4> QED
        BY <3>1, <4>1, <4>2, <2>0
    <3> QED
      BY <2>0, <3>2, <3>3
  <2> QED
    BY <2>1, <2>2
<1>7. Ascending(t, nn)
  <2> SUFFICES ASSUME NEW i \in 1 .. Len(s) + 1, NEW j \in 1 .. Len(s) + 1, i < j
               PROVE  nn[t[i]] <= nn[t[j]]
    BY <1>4 DEF Ascending
  <2>0. K \in Int /\ p \in Int
    BY <1>1, <1>5
  <2>1. CASE i = K + 1
    <3>1. j - 1 \in 1 .. Len(s) /\ ~(j - 1 <= K) /\ t[i] = e /\ t[j] = s[j - 1]
      BY <1>0, <1>1, <1>4, <2>1
    <3>2. ~(nn[s[j - 1]] <= p) /\ nn[s[j - 1]] \in Int
      BY <1>0, <1>5, <1>6, <3>1
    <3> QED
      BY <1>5, <2>0, <3>1, <3>2
  <2>2. CASE j = K + 1
    <3>1. i \in 1 .. Len(s) /\ i <= K /\ t[j] = e /\ t[i] = s[i]
      BY <1>0, <1>1, <1>4, <2>2
    <3> QED
      BY <1>5, <1>6, <3>1
  <2>3. CASE i # K + 1 /\ j # K + 1
    <3> DEFINE x == IF i < K + 1 THEN i ELSE i - 1
               y == IF j < K + 1 THEN j ELSE j - 1
    <3>1. t[i] = s[x] /\ t[j] = s[y]
      BY <1>4, <2>0, <2>3
    <3>2. x \in 1 .. Len(s) /\ y \in 1 .. Len(s) /\ x < y
      BY <1>0, <1>1, <2>3
    <3>3. priority[s[x]] <= priority[s[y]]
      BY <1>0, <3>2 DEF Ascending
    <3> QED
      BY <1>0, <1>5, <3>1, <3>2, <3>3
  <2> QED
    BY <2>1, <2>2, <2>3
<1>8. QueueIs(t)'
  <2>1. data' \in [QueueEntries -> Data] /\ priority' = nn /\ size' = Len(t)
    BY <1>0, <1>2, <1>4
  <2> QED
    BY <1>0, <1>2, <1>3, <1>5, <1>7, <2>1 DEF QueueIs
<1>9. t = Queue!Order!Placed(s, nn, e)
  <2>1. {i \in DOMAIN s : nn[s[i]] <= nn[e]} = 1 .. K
    <3>1. DOMAIN s = 1 .. Len(s) /\ K \in Nat /\ K <= Len(s) /\ nn[e] = p
      BY <1>0, <1>1, <1>5
    <3> QED
      BY <1>6, <3>1
  <2>2. K \in Nat /\ Cardinality(1 .. K) = K /\ 1 + K = K + 1
    BY <1>1, FS_Interval
  <2>3. Queue!Order!Placed(s, nn, e) = InsertAt(s, 1 + Cardinality({i \in DOMAIN s : nn[s[i]] <= nn[e]}), e)
    BY DEF Queue!Order!Placed, Queue!Order!InsertAt, InsertAt, Queue!Order!Cardinality, Cardinality
  <2> QED
    BY <2>1, <2>2, <2>3 DEF t
<1>10. QueueStep(s, t)
  <2>1. e \notin ToSet(s)
    BY <1>0 DEF ToSet
  <2> QED
    BY <1>2, <1>9, <2>1 DEF QueueStep, nn
<1> QED
  BY <1>8, <1>10

LEMMA QueueSteps ==
  ASSUME NEW s, QueueIs(s), Queue!Next
  PROVE  \E t : QueueIs(t)' /\ QueueStep(s, t) /\ Took(s)
<1>1. ASSUME NEW e \in QueueEntries \ Queue!Held, NEW p \in Priorities, NEW d \in Data, Queue!insert(e, p, d)
      PROVE  \E t : QueueIs(t)' /\ QueueStep(s, t) /\ Took(s)
  <2>1. PICK t : QueueIs(t)' /\ QueueStep(s, t)
    BY <1>1, QueueInserts
  <2>2. Took(s)
    BY <1>1 DEF Queue!insert, Took
  <2> QED
    BY <2>1, <2>2
<1>2. ASSUME NEW p \in Priorities, NEW d \in Data \cup {Nothing}, Queue!popEntry(p, d)
      PROVE  \E t : QueueIs(t)' /\ QueueStep(s, t) /\ Took(s)
  BY <1>2, QueuePops
<1> QED
  BY <1>1, <1>2 DEF Queue!Next

LEMMA QueueKept ==
  ASSUME QueueInv, [Queue!Next]_queueVars
  PROVE  QueueInv'
<1>1. PICK s : QueueIs(s)
  BY DEF QueueInv
<1>2. CASE Queue!Next
  BY <1>1, <1>2, QueueSteps DEF QueueInv
<1>3. CASE UNCHANGED queueVars
  <2>1. QueueIs(s)'
    BY <1>1, <1>3 DEF queueVars, QueueIs
  <2> QED
    BY <2>1 DEF QueueInv
<1> QED
  BY <1>2, <1>3

LEMMA QueueSound == QueueInv => Queue!TypeOK /\ Queue!GettersFindNearest
<1> SUFFICES ASSUME NEW s, QueueIs(s) PROVE Queue!TypeOK /\ Queue!GettersFindNearest
  BY DEF QueueInv
<1>h. /\ Len(s) \in 0 .. Cardinality(QueueEntries)
      /\ Queue!Held = {s[i] : i \in 1 .. Len(s)} /\ Cardinality(Queue!Held) = Len(s)
      /\ Queue!Held \subseteq QueueEntries
  BY QueueHeld
<1>0. /\ s \in Seq(QueueEntries) /\ Len(s) \in Nat
      /\ \A k \in 1 .. Len(s) : Queue!LinkAt(k) = s[k] /\ s[k] \in QueueEntries /\ s[k] # Nothing
      /\ \A k \in 1 .. Len(s) : s[k] \in Queue!Held
      /\ \A e \in Queue!Held : \E k \in 1 .. Len(s) : e = s[k]
  <2>1. /\ s \in Seq(QueueEntries) /\ Len(s) \in Nat
        /\ \A k \in 1 .. Len(s) : Queue!LinkAt(k) = s[k] /\ s[k] \in QueueEntries /\ s[k] # Nothing
    BY QueueHeld, EntriesAssumption
  <2>2. /\ \A k \in 1 .. Len(s) : s[k] \in Queue!Held
        /\ \A e \in Queue!Held : \E k \in 1 .. Len(s) : e = s[k]
    BY <1>h
  <2> QED
    BY <2>1, <2>2
<1>1. /\ link \in [Queue!Links -> AnyItem] /\ size = Len(s) /\ Ascending(s, priority)
      /\ priority \in [QueueEntries -> Priorities] /\ data \in [QueueEntries -> Data]
      /\ call \in [priority : Priorities, data : Data \cup {Nothing}, found : AnyItem]
  BY DEF QueueIs, LinkedAs
<1>2. Queue!TypeOK
  <2>1. \A S : Queue!Cardinality(S) = Cardinality(S)
    BY DEF Queue!Cardinality, Cardinality
  <2>2. link[Queue!LinkAt(size)] = Nothing
    <3>1. Len(s) \in 0 .. Len(s) /\ ItemAt(s, Len(s) + 1) = Nothing
      BY <1>0 DEF ItemAt
    <3>2. LinkedAs(link, s)
      BY DEF QueueIs
    <3>3. link[LinkOf(s, Len(s))] = Nothing
      BY <3>1, <3>2 DEF LinkedAs
    <3>4. Queue!LinkAt(Len(s)) = LinkOf(s, Len(s))
      BY ONLY <3>1, <3>2, LinkAtIs
    <3> QED
      BY <1>1, <3>3, <3>4
  <2>3. /\ Queue!Held \subseteq QueueEntries /\ Cardinality(Queue!Held) = size
        /\ size \in 0 .. Cardinality(QueueEntries)
    BY <1>h, <1>1
  <2> QED
    BY <1>1, <2>1, <2>2, <2>3 DEF Queue!TypeOK, AnyItem
<1>3. ASSUME NEW p \in Priorities
      PROVE  LET near == {e \in Queue!Held : priority[e] >= p}
                 found == Queue!getWithPriorityAtLeast(p)
             IN /\ found = Nothing <=> near = {}
                /\ near # {} => /\ found \in near
                                /\ \A e \in near : priority[found] <= priority[e]
                                /\ Queue!getWithPriority(priority[found]) = found
                                /\ priority[Queue!getFirst] <= priority[found]
  <2> DEFINE near == {e \in Queue!Held : priority[e] >= p}
             found == Queue!getWithPriorityAtLeast(p)
             stop == {e \in QueueEntries : priority[e] >= p}
             K == Queue!Steps(stop)
  <2>1. /\ K \in 0 .. Len(s) /\ (\A j \in 1 .. K : s[j] \notin stop)
        /\ K < Len(s) => s[K + 1] \in stop
        /\ link[Queue!Walk(stop)] = ItemAt(s, K + 1)
    BY StepsAre
  <2>2. found = ItemAt(s, K + 1)
    BY <2>1 DEF Queue!getWithPriorityAtLeast
  <2> HIDE DEF found, K
  <2>3. \A x \in QueueEntries : priority[x] \in Int
    BY <1>1, RanksAssumption
  <2>4. CASE K = Len(s)
    <3>1. found = Nothing
      BY <1>0, <2>2, <2>4 DEF ItemAt
    <3>2. near = {}
      BY <1>0, <2>1, <2>4
    <3> QED
      BY <3>1, <3>2 DEF found
  <2>5. CASE K < Len(s)
    <3>1. K + 1 \in 1 .. Len(s) /\ found = s[K + 1] /\ found \in near /\ found # Nothing
      BY <1>0, <2>1, <2>2, <2>5 DEF ItemAt
    <3>2. ASSUME NEW e \in near PROVE priority[found] <= priority[e]
      <4>1. PICK j \in 1 .. Len(s) : e = s[j]
        BY <1>0
      <4>2. ~(j <= K)
        BY <1>0, <2>1, <4>1
      <4>3. CASE j = K + 1
        BY <2>3, <1>0, <3>1, <4>1, <4>3
      <4>4. CASE j > K + 1
        BY <1>1, <3>1, <4>1, <4>4 DEF Ascending
      <4> QED
        BY <2>1, <4>2, <4>3, <4>4
    <3>3. Queue!getWithPriority(priority[found]) = found
      <4> DEFINE exact == {e \in QueueEntries : priority[e] = priority[found]}
                 M == Queue!Steps(exact)
      <4>1. /\ M \in 0 .. Len(s) /\ (\A j \in 1 .. M : s[j] \notin exact)
            /\ M < Len(s) => s[M + 1] \in exact
            /\ link[Queue!Walk(exact)] = ItemAt(s, M + 1)
        BY StepsAre
      <4> HIDE DEF M
      <4>2. s[K + 1] \in exact
        BY <1>0, <3>1
      <4>3. M <= K
        BY <2>1, <3>1, <4>1, <4>2
      <4>4. ASSUME M < K PROVE FALSE
        <5>1. M + 1 \in 1 .. K /\ M < Len(s)
          BY <2>1, <3>1, <4>1, <4>4
        <5>2. priority[s[M + 1]] = priority[found] /\ s[M + 1] \in QueueEntries
          BY <4>1, <5>1
        <5>3. priority[found] >= p
          BY <3>1
        <5> QED
          BY <2>1, <5>1, <5>2, <5>3
      <4>5. M = K
        BY <2>1, <4>1, <4>3, <4>4
      <4> QED
        BY <2>2, <4>1, <4>5 DEF Queue!getWithPriority
    <3>4. priority[Queue!getFirst] <= priority[found]
      <4>1. link[FIRST] = s[1] /\ 1 \in 1 .. Len(s)
        <5>1. 0 \in 0 .. Len(s) /\ LinkOf(s, 0) = FIRST /\ 0 + 1 = 1 /\ 1 \in 1 .. Len(s)
          BY <1>0, <3>1 DEF LinkOf
        <5>2. link[FIRST] = ItemAt(s, 1)
          BY <5>1 DEF QueueIs, LinkedAs
        <5> QED
          BY <5>1, <5>2 DEF ItemAt
      <4>2. CASE K = 0
        BY <1>0, <2>3, <3>1, <4>1, <4>2 DEF Queue!getFirst
      <4>3. CASE K # 0
        <5>1. 1 < K + 1
          BY <2>1, <4>3
        <5> QED
          BY <1>1, <3>1, <4>1, <5>1 DEF Ascending, Queue!getFirst
      <4> QED
        BY <4>2, <4>3
    <3> QED
      BY <3>1, <3>2, <3>3, <3>4 DEF found
  <2> QED
    BY <1>0, <2>1, <2>4, <2>5 DEF found
<1> QED
  BY <1>2, <1>3 DEF Queue!GettersFindNearest

(* The sequence is the one of StableOrder. *)
ItemsOf(lk, n) == [k \in 1 .. n |-> LinkIn(lk, k)]
LEMMA ItemsOfIs ==
  ASSUME NEW lk, NEW s, LinkedAs(lk, s)
  PROVE  ItemsOf(lk, Len(s)) = s
<1>1. s \in Seq(QueueEntries) /\ Len(s) \in Nat
  BY DEF LinkedAs
<1>2. ASSUME NEW k \in 1 .. Len(s) PROVE LinkIn(lk, k) = s[k]
  <2>1. k \in 0 .. Len(s) /\ k # 0
    BY <1>1
  <2> QED
    BY <2>1, LinkInIs DEF LinkOf
<1> QED
  BY <1>1, <1>2 DEF ItemsOf

LEMMA ItemOrderIs ==
  ASSUME NEW s
  PROVE  (QueueIs(s) => Queue!Queue = s) /\ (QueueIs(s)' => Queue!Queue' = s)
<1>1. Queue!Queue = ItemsOf(link, size) /\ Queue!Queue' = ItemsOf(link', size')
  BY DEF Queue!Queue, ItemsOf, Queue!LinkAt, LinkIn
<1>2. ASSUME QueueIs(s) PROVE Queue!Queue = s
  BY <1>1, <1>2, ItemsOfIs DEF QueueIs
<1>3. ASSUME QueueIs(s)' PROVE Queue!Queue' = s
  <2>1. LinkedAs(link', s) /\ size' = Len(s)
    BY <1>3 DEF QueueIs
  <2> QED
    BY <1>1, <2>1, ItemsOfIs
<1> QED
  BY <1>2, <1>3

LEMMA ItemStarts == Queue!createPriorityQueue => Queue!Order!Init
<1> SUFFICES ASSUME Queue!createPriorityQueue PROVE Queue!Order!Init
  OBVIOUS
<1>1. Queue!Queue = <<>> /\ priority \in [QueueEntries -> Priorities]
  BY QueueStarts, ItemOrderIs DEF QueueIs
<1> QED
  BY <1>1 DEF Queue!Order!Init, Queue!Queue

LEMMA ItemSteps ==
  ASSUME QueueInv, [Queue!Next]_queueVars
  PROVE  [Queue!Order!Next]_<<Queue!Queue, priority>> /\ (call' # call => \E s : QueueIs(s) /\ Took(s))
<1>1. PICK s : QueueIs(s)
  BY DEF QueueInv
<1>2. Queue!Queue = s
  BY <1>1, ItemOrderIs
<1>3. CASE Queue!Next
  <2>1. PICK t : QueueIs(t)' /\ QueueStep(s, t) /\ Took(s)
    BY <1>1, <1>3, QueueSteps
  <2>2. Queue!Queue' = t
    BY <2>1, ItemOrderIs
  <2>3. /\ \A q, i : Queue!Order!RemoveAt(q, i) = RemoveAt(q, i)
        /\ \A q : Queue!Order!ToSet(q) = ToSet(q)
    BY DEF Queue!Order!RemoveAt, RemoveAt, Queue!Order!ToSet, ToSet
  <2>4. ASSUME t = s /\ priority' = priority
        PROVE  [Queue!Order!Next]_<<Queue!Queue, priority>>
    BY <1>2, <2>2, <2>4
  <2>5. ASSUME NEW i \in DOMAIN s, t = RemoveAt(s, i), priority' = priority
        PROVE  Queue!Order!Next
    <3>1. Queue!Order!Delete(i)
      BY <1>2, <2>2, <2>3, <2>5 DEF Queue!Order!Delete, Queue!Queue
    <3> QED
      BY <1>2, <3>1 DEF Queue!Order!Next, Queue!Queue
  <2>6. ASSUME NEW e \in QueueEntries, NEW p \in Priorities, e \notin ToSet(s),
               priority' = [priority EXCEPT ![e] = p], t = Queue!Order!Placed(s, priority', e)
        PROVE  Queue!Order!Next
    <3>1. Queue!Order!Insert(e, p)
      BY <1>2, <2>2, <2>3, <2>6 DEF Queue!Order!Insert, Queue!Queue
    <3> QED
      BY <3>1 DEF Queue!Order!Next
  <2> QED
    BY <1>1, <2>1, <2>4, <2>5, <2>6 DEF QueueStep
<1>4. CASE UNCHANGED queueVars
  BY <1>4 DEF queueVars, Queue!Queue, Queue!LinkAt
<1> QED
  BY <1>3, <1>4

LEMMA OldestTaken ==
  ASSUME QueueInv, [Queue!Next]_queueVars, call' # call
  PROVE  LET wanted == {k \in DOMAIN Queue!Queue : Queue!Asked(Queue!Queue[k])}
         IN IF wanted = {} THEN call'.found = Nothing
            ELSE \E k \in wanted : call'.found = Queue!Queue[k] /\ \A j \in wanted : k <= j
<1>1. PICK s : QueueIs(s) /\ Took(s)
  BY ItemSteps
<1>2. Queue!Queue = s /\ s \in Seq(QueueEntries) /\ Len(s) \in Nat /\ DOMAIN s = 1 .. Len(s)
  BY <1>1, ItemOrderIs, QueueHeld
<1> DEFINE wanted == {k \in 1 .. Len(s) : Queue!Asked(s[k])}
<1>3. wanted = {k \in DOMAIN Queue!Queue : Queue!Asked(Queue!Queue[k])}
  BY <1>2
<1>4. CASE call'.found = Nothing /\ \A k \in 1 .. Len(s) : ~Queue!Asked(s[k])
  BY <1>3, <1>4
<1>5. ASSUME NEW k \in 1 .. Len(s), call'.found = s[k], Queue!Asked(s[k]),
             \A j \in 1 .. k - 1 : ~Queue!Asked(s[j])
      PROVE  \E m \in wanted : call'.found = s[m] /\ \A j \in wanted : m <= j
  <2>1. ASSUME NEW j \in wanted PROVE k <= j
    <3>1. j \notin 1 .. k - 1 /\ j \in 1 .. Len(s)
      BY <1>5
    <3> QED
      BY <3>1
  <2> QED
    BY <1>5, <2>1
<1> QED
  BY <1>1, <1>2, <1>3, <1>4, <1>5 DEF Took

-----------------------------------------------------------------------------
(* The phone book in an array: the blocks of a list are its array and the   *)
(* strings the array points to, and no list has a block of another.         *)
AnyBlock == Blocks \cup {0}
Contents == [Blocks -> Seq(AnyBlock)]
ListRecord == [items : AnyBlock, count : Nat, capacity : Nat]
BlocksOf(ar, l) == IF l.items = 0 THEN {} ELSE {ar[l.items][j] : j \in 1 .. l.count} \cup {l.items}
StringsSound(ar, l) ==
  /\ l \in ListRecord
  /\ l.items = 0 => l.count = 0 /\ l.capacity = 0
  /\ l.items # 0 =>
       /\ Len(ar[l.items]) = l.capacity /\ l.count <= l.capacity
       /\ \A j \in 1 .. l.count : ar[l.items][j] \in Blocks \ {l.items}
       /\ \A j, m \in 1 .. l.count : ar[l.items][j] = ar[l.items][m] => j = m
Shows(ar, tx, l) ==
  [j \in 1 .. l.count |-> IF j \in DOMAIN ar[l.items] THEN tx[ar[l.items][j]] ELSE 0]
ListsApart(it, n, ar) ==
  \A i, j \in 1 .. n, f, g \in Fields :
    i # j \/ f # g => BlocksOf(ar, it[i][f]) \cap BlocksOf(ar, it[j][g]) = {}
AllBlocks(it, n, ar) == UNION {BlocksOf(ar, it[i][f]) : i \in 1 .. n, f \in Fields}
HeapSound(it, n, us, ar) ==
  /\ it \in Seq([Fields -> ListRecord]) /\ n \in 0 .. Len(it)
  /\ us \subseteq Blocks /\ ar \in Contents
  /\ \A i \in 1 .. n, f \in Fields : StringsSound(ar, it[i][f])
  /\ us = AllBlocks(it, n, ar)
  /\ ListsApart(it, n, ar)
ArrayInv ==
  HeapSound(items, arrayCount, used, array) /\ text \in [Blocks -> Texts \cup {0}] /\ ~fault

LEMMA BlocksNotNull == 0 \notin Blocks /\ Blocks \subseteq Nat /\ IsFiniteSet(Blocks)
BY HeapAssumption

(* What a list shows depends on its own blocks. *)
LEMMA Untouched ==
  ASSUME NEW ar \in Contents, NEW ar2 \in Contents, NEW l, StringsSound(ar, l),
         NEW tx, NEW tx2,
         \A b \in BlocksOf(ar, l) : ar2[b] = ar[b] /\ tx2[b] = tx[b]
  PROVE  /\ StringsSound(ar2, l) /\ BlocksOf(ar2, l) = BlocksOf(ar, l)
         /\ Shows(ar2, tx2, l) = Shows(ar, tx, l)
<1>1. CASE l.items = 0
  BY <1>1 DEF StringsSound, BlocksOf, Shows, ListRecord
<1>2. CASE l.items # 0
  <2>1. /\ l \in ListRecord /\ ar2[l.items] = ar[l.items]
        /\ \A j \in 1 .. l.count : tx2[ar[l.items][j]] = tx[ar[l.items][j]]
    BY <1>2 DEF StringsSound, BlocksOf
  <2> QED
    BY <1>2, <2>1 DEF StringsSound, BlocksOf, Shows
<1> QED
  BY <1>1, <1>2

(* Sequences are functions. *)
LEMMA AsSequence ==
  ASSUME NEW S, NEW n \in Nat, NEW w \in [1 .. n -> S]
  PROVE  w \in Seq(S) /\ Len(w) = n
<1>1. w \in Seq(S)
  OBVIOUS
<1>2. DOMAIN w = 1 .. n
  OBVIOUS
<1> QED
  BY <1>1, <1>2

LEMMA AsFunction ==
  ASSUME NEW S, NEW w \in Seq(S)
  PROVE  w = [j \in 1 .. Len(w) |-> w[j]]
<1>1. w \in [1 .. Len(w) -> S]
  OBVIOUS
<1> QED
  BY <1>1

(* The arrays of string lists, grown and closed up. *)
LEMMA GrownIs ==
  ASSUME NEW S, 0 \in S, NEW a \in Seq(S), NEW n \in Nat
  PROVE  /\ Array!Grown(a, n) \in [1 .. n -> S]
         /\ \A j \in 1 .. n : j \in DOMAIN a => Array!Grown(a, n)[j] = a[j]
BY DEF Array!Grown, Array!NULL

LEMMA ClosedUpIs ==
  ASSUME NEW S, NEW a \in Seq(S), NEW n \in 0 .. Len(a), NEW index \in 1 .. n
  PROVE  LET b == Array!ClosedUp(a, index, n) IN
         /\ b \in Seq(S) /\ Len(b) = Len(a)
         /\ \A j \in 1 .. n - 1 : b[j] = IF j < index THEN a[j] ELSE a[j + 1]
<1> DEFINE b == Array!ClosedUp(a, index, n)
<1>1. /\ Len(a) \in Nat /\ \A j \in 1 .. Len(a) : a[j] \in S
      /\ b = [j \in 1 .. Len(a) |-> IF index <= j /\ j < n THEN a[j + 1] ELSE a[j]]
  BY DEF Array!ClosedUp
<1> HIDE DEF b
<1>2. b \in [1 .. Len(a) -> S]
  <2>1. ASSUME NEW j \in 1 .. Len(a) PROVE (IF index <= j /\ j < n THEN a[j + 1] ELSE a[j]) \in S
    BY <1>1
  <2> QED
    BY <1>1, <2>1
<1>3. b \in Seq(S) /\ Len(b) = Len(a)
  <2>1. b \in Seq(S) /\ DOMAIN b = 1 .. Len(a)
    BY <1>1, <1>2
  <2> QED
    BY <1>1, <2>1
<1>4. \A j \in 1 .. n - 1 : b[j] = IF j < index THEN a[j] ELSE a[j + 1]
  BY <1>1
<1> QED
  BY <1>3, <1>4 DEF b

(* What the operations put in place of an array, a list, a text. *)
Capacity(l) == IF l.count < l.capacity THEN l.capacity
               ELSE IF l.capacity = 0 THEN 1 ELSE 2 * l.capacity
Stored(ar, at, l, string) ==
  [ar EXCEPT ![at] = [Array!Grown(@, Capacity(l)) EXCEPT ![l.count + 1] = string]]
Longer(l, at) == [items |-> at, count |-> l.count + 1, capacity |-> Capacity(l)]
Typed(tx, string, value) == [tx EXCEPT ![string] = value]
Closed(ar, l, index) == [ar EXCEPT ![l.items] = Array!ClosedUp(@, index, l.count)]
Shorter(l) == [l EXCEPT !.count = @ - 1]
Dropped(ar, l, index) == {ar[l.items][index]}
Left(us, bs) == us \ bs
Emptied(ar, bs) == [b \in Blocks |-> IF b \in bs THEN <<>> ELSE ar[b]]
Erased(tx, bs) == [b \in Blocks |-> IF b \in bs THEN 0 ELSE tx[b]]
Swapped(us, own, own2) == (us \ own) \cup own2
Relisted(it, i, f, l2) == [it EXCEPT ![i] = [@ EXCEPT ![f] = l2]]

(* stringlist_add, on the list it changes. *)
LEMMA StringAdded ==
  ASSUME NEW ar \in Contents, NEW l, StringsSound(ar, l), NEW tx \in [Blocks -> Texts \cup {0}],
         NEW at \in Blocks, NEW string \in Blocks \ BlocksOf(ar, l), string # at, NEW value \in Texts,
         IF l.items = 0 THEN TRUE ELSE at = l.items,
         NEW ar2, ar2 = Stored(ar, at, l, string), NEW l2, l2 = Longer(l, at),
         NEW tx2, tx2 = Typed(tx, string, value)
  PROVE  /\ ar2 \in Contents /\ StringsSound(ar2, l2)
         /\ BlocksOf(ar2, l2) = BlocksOf(ar, l) \cup {at, string}
         /\ Shows(ar2, tx2, l2) = Append(Shows(ar, tx, l), value)
         /\ \A b \in Blocks : b # at => ar2[b] = ar[b]
<1> DEFINE capacity == Capacity(l)
           c == l.count
           a == ar[at]
           b == ar2[at]
<1>0. /\ l \in ListRecord /\ c \in Nat /\ l.capacity \in Nat /\ c <= l.capacity
      /\ l.items # 0 => at = l.items /\ Len(a) = l.capacity
      /\ l.items = 0 => c = 0 /\ l.capacity = 0
      /\ a \in Seq(AnyBlock) /\ at # 0 /\ Len(a) \in Nat /\ DOMAIN a = 1 .. Len(a)
  BY BlocksNotNull DEF StringsSound, ListRecord, Contents
<1>1. capacity \in Nat /\ c + 1 \in 1 .. capacity
  BY <1>0 DEF Capacity
<1> HIDE DEF capacity
<1>2. /\ b \in Seq(AnyBlock) /\ Len(b) = capacity /\ b[c + 1] = string
      /\ \A j \in 1 .. capacity : j # c + 1 /\ j \in DOMAIN a => b[j] = a[j]
  <2> DEFINE g == Array!Grown(a, capacity)
  <2>1. b = [g EXCEPT ![c + 1] = string]
    BY DEF Contents, Stored, capacity
  <2> HIDE DEF a, b, c
  <2>2. /\ g \in [1 .. capacity -> AnyBlock]
        /\ \A j \in 1 .. capacity : j \in DOMAIN a => g[j] = a[j]
    <3>1. 0 \in AnyBlock
      BY DEF AnyBlock
    <3> QED
      BY ONLY <1>0, <1>1, <3>1, GrownIs
  <2> HIDE DEF g
  <2>3. /\ b \in [1 .. capacity -> AnyBlock] /\ b[c + 1] = string
        /\ \A j \in 1 .. capacity : j # c + 1 => b[j] = g[j]
    BY <1>1, <2>1, <2>2 DEF AnyBlock
  <2> QED
    BY ONLY <1>1, <2>2, <2>3, AsSequence
<1>3. ar2 \in Contents /\ \A x \in Blocks : x # at => ar2[x] = ar[x]
  BY <1>2 DEF Contents, Stored
<1>4. l2.items = at /\ l2.count = c + 1 /\ l2.capacity = capacity /\ l2 \in ListRecord /\ l2.items # 0
  BY <1>0, <1>1 DEF ListRecord, AnyBlock, Longer, capacity
<1>5. ASSUME NEW j \in 1 .. c
      PROVE  /\ at = l.items /\ j \in DOMAIN a /\ j \in 1 .. capacity /\ j \in 1 .. c + 1
             /\ b[j] = a[j] /\ a[j] \in Blocks \ {at} /\ a[j] # string /\ j \in DOMAIN b
  <2>1. at = l.items /\ Len(a) = l.capacity /\ l.items # 0
    BY <1>0
  <2>2. j \in DOMAIN a /\ j \in 1 .. capacity /\ j # c + 1 /\ j \in 1 .. c + 1
    BY <1>0, <1>1, <2>1
  <2>3. a[j] \in Blocks \ {at} /\ a[j] \in BlocksOf(ar, l)
    BY <2>1 DEF StringsSound, BlocksOf
  <2> QED
    BY <1>2, <2>1, <2>2, <2>3
<1> HIDE DEF b
<1>6. StringsSound(ar2, l2)
  <2>1. \A j \in 1 .. c + 1 : b[j] \in Blocks \ {at}
    BY <1>0, <1>2, <1>5
  <2>2. \A j, m \in 1 .. c : a[j] = a[m] => j = m
    BY <1>5 DEF StringsSound
  <2>3. ASSUME NEW j \in 1 .. c + 1, NEW m \in 1 .. c + 1, b[j] = b[m] PROVE j = m
    <3>0. b[c + 1] = string /\ \A x \in 1 .. c : b[x] = a[x] /\ a[x] # string
      BY <1>2, <1>5
    <3>1. CASE j = c + 1 /\ m \in 1 .. c
      BY <2>3, <3>0, <3>1
    <3>2. CASE m = c + 1 /\ j \in 1 .. c
      BY <2>3, <3>0, <3>2
    <3>3. CASE j \in 1 .. c /\ m \in 1 .. c
      BY <2>2, <2>3, <3>0, <3>3
    <3> QED
      BY <1>0, <3>1, <3>2, <3>3
  <2> QED
    BY <1>1, <1>2, <1>4, <2>1, <2>3 DEF StringsSound, b
<1>7. BlocksOf(ar2, l2) = BlocksOf(ar, l) \cup {at, string}
  <2>1. BlocksOf(ar2, l2) = {b[j] : j \in 1 .. c + 1} \cup {at}
    BY <1>4 DEF BlocksOf, b
  <2>2. BlocksOf(ar, l) \cup {at} = {a[j] : j \in 1 .. c} \cup {at}
    <3>1. CASE l.items = 0
      BY <1>0, <3>1 DEF BlocksOf
    <3>2. CASE l.items # 0
      BY <1>0, <3>2 DEF BlocksOf
    <3> QED
      BY <3>1, <3>2
  <2>3. {b[j] : j \in 1 .. c + 1} = {a[j] : j \in 1 .. c} \cup {string}
    <3>1. ASSUME NEW j \in 1 .. c + 1 PROVE b[j] \in {a[m] : m \in 1 .. c} \cup {string}
      <4>1. CASE j = c + 1
        BY <1>2, <4>1
      <4>2. CASE j \in 1 .. c
        BY <1>5, <4>2
      <4> QED
        BY <1>0, <4>1, <4>2
    <3>2. ASSUME NEW j \in 1 .. c PROVE a[j] \in {b[m] : m \in 1 .. c + 1}
      BY <1>5
    <3>3. string \in {b[m] : m \in 1 .. c + 1}
      BY <1>0, <1>2
    <3> QED
      BY <3>1, <3>2, <3>3
  <2> QED
    BY <2>1, <2>2, <2>3
<1>8. Shows(ar2, tx2, l2) = Append(Shows(ar, tx, l), value)
  <2> DEFINE p == Shows(ar, tx, l)
             q == Shows(ar2, tx2, l2)
  <2>1. p \in Seq(Texts \cup {0}) /\ Len(p) = c /\ \A j \in 1 .. c : p[j] = tx[a[j]]
    <3>1. ASSUME NEW j \in 1 .. c
          PROVE  (IF j \in DOMAIN ar[l.items] THEN tx[ar[l.items][j]] ELSE 0) = tx[a[j]]
                 /\ tx[a[j]] \in Texts \cup {0}
      BY <1>5
    <3>2. p = [j \in 1 .. c |-> tx[a[j]]]
      BY <3>1 DEF Shows
    <3> HIDE DEF p
    <3>3. p \in [1 .. c -> Texts \cup {0}]
      BY <3>1, <3>2
    <3>4. p \in Seq(Texts \cup {0}) /\ DOMAIN p = 1 .. c
      BY <1>0, <3>3
    <3>5. Len(p) = c
      BY <1>0, <3>4
    <3> QED
      BY <3>2, <3>4, <3>5
  <2>2. /\ q = [j \in 1 .. c + 1 |-> tx2[b[j]]]
        /\ \A j \in 1 .. c : tx2[b[j]] = tx[a[j]]
        /\ tx2[b[c + 1]] = value
    <3>1. \A j \in 1 .. c + 1 : j \in DOMAIN b
      BY <1>0, <1>1, <1>2
    <3>2. q = [j \in 1 .. c + 1 |-> tx2[b[j]]]
      BY <1>4, <3>1 DEF Shows, b
    <3> QED
      BY <1>2, <1>5, <3>2 DEF Typed
  <2> HIDE DEF p, q
  <2>3. q = Append(p, value)
    <3> DEFINE w == Append(p, value)
    <3>1. /\ w \in Seq(Texts \cup {0}) /\ Len(w) = c + 1
          /\ \A j \in 1 .. c : w[j] = p[j]
          /\ w[c + 1] = value
      BY <2>1, AppendProperties
    <3> HIDE DEF w
    <3>2. ASSUME NEW j \in 1 .. c + 1 PROVE q[j] = w[j]
      <4>1. CASE j = c + 1
        BY <2>2, <3>1, <4>1
      <4>2. CASE j \in 1 .. c
        BY <2>1, <2>2, <3>1, <4>2
      <4>3. c \in Nat
        BY <1>0
      <4> HIDE DEF c
      <4> QED
        BY <4>1, <4>2, <4>3
    <3>3. w = [j \in 1 .. c + 1 |-> w[j]]
      BY <3>1, AsFunction
    <3> QED
      BY <2>2, <3>2, <3>3 DEF w
  <2> QED
    BY <2>3 DEF p, q
<1> QED
  BY <1>3, <1>6, <1>7, <1>8

(* stringlist_remove, on the list it changes. *)
LEMMA StringRemoved ==
  ASSUME NEW ar \in Contents, NEW l, StringsSound(ar, l), NEW tx \in [Blocks -> Texts \cup {0}],
         NEW index \in 1 .. l.count, NEW ar2, NEW l2, NEW tx2,
         ar2 = Closed(ar, l, index), l2 = Shorter(l), tx2 = Erased(tx, Dropped(ar, l, index))
  PROVE  /\ ar2 \in Contents /\ StringsSound(ar2, l2)
         /\ Dropped(ar, l, index) \subseteq BlocksOf(ar, l)
         /\ BlocksOf(ar2, l2) = BlocksOf(ar, l) \ Dropped(ar, l, index)
         /\ Shows(ar2, tx2, l2) = RemoveAt(Shows(ar, tx, l), index)
         /\ \A b \in Blocks : b # l.items => ar2[b] = ar[b]
<1> DEFINE c == l.count
           at == l.items
           a == ar[at]
           b == ar2[at]
           x == a[index]
<1>0. /\ l \in ListRecord /\ c \in Nat /\ c >= 1 /\ index \in 1 .. c
      /\ at \in Blocks /\ at # 0 /\ a \in Seq(AnyBlock) /\ c \in 0 .. Len(a) /\ Len(a) \in Nat
      /\ Len(a) = l.capacity
      /\ \A j \in 1 .. c : a[j] \in Blocks \ {at} /\ j \in DOMAIN a
      /\ \A j, m \in 1 .. c : a[j] = a[m] => j = m
  BY DEF StringsSound, ListRecord, Contents, AnyBlock
<1>1. /\ b = Array!ClosedUp(a, index, c) /\ \A y \in Blocks : y # at => ar2[y] = ar[y]
      /\ ar2 = [ar EXCEPT ![at] = b]
  BY <1>0 DEF Contents, Closed
<1>2. /\ l2.items = at /\ l2.count = c - 1 /\ l2.capacity = l.capacity /\ l2 \in ListRecord
  BY <1>0 DEF ListRecord, Shorter
<1>t. \A y \in Blocks : tx2[y] = IF y = x THEN 0 ELSE tx[y]
  BY DEF Erased, Dropped
<1> HIDE DEF a, b, c, at, x
<1>3. /\ b \in Seq(AnyBlock) /\ Len(b) = Len(a)
      /\ \A j \in 1 .. c - 1 : b[j] = IF j < index THEN a[j] ELSE a[j + 1]
  BY ONLY <1>0, <1>1, ClosedUpIs
<1>4. ar2 \in Contents
  BY ONLY <1>0, <1>1, <1>3, ar \in Contents DEF Contents
<1>5. /\ BlocksOf(ar, l) = {a[j] : j \in 1 .. c} \cup {at}
      /\ BlocksOf(ar2, l2) = {b[j] : j \in 1 .. c - 1} \cup {at}
      /\ x = a[index]
  BY ONLY <1>0, <1>2 DEF BlocksOf, a, b, c, at, x
<1>6. /\ \A j \in 1 .. c - 1 : b[j] # x /\ b[j] \in {a[m] : m \in 1 .. c} /\ b[j] \in Blocks \ {at}
      /\ \A j \in 1 .. c : a[j] # x => a[j] \in {b[m] : m \in 1 .. c - 1}
      /\ \A j, m \in 1 .. c - 1 : b[j] = b[m] => j = m
  <2>1. ASSUME NEW j \in 1 .. c - 1
        PROVE  /\ b[j] # x /\ b[j] \in {a[m] : m \in 1 .. c} /\ b[j] \in Blocks \ {at}
               /\ \A m \in 1 .. c - 1 : b[j] = b[m] => j = m
    <3> DEFINE z == IF j < index THEN j ELSE j + 1
    <3>1. z \in 1 .. c /\ z # index /\ b[j] = a[z]
      BY ONLY <1>0, <1>3, j \in 1 .. c - 1
    <3>2. ASSUME NEW m \in 1 .. c - 1, b[j] = b[m] PROVE j = m
      <4> DEFINE y == IF m < index THEN m ELSE m + 1
      <4>1. y \in 1 .. c /\ b[m] = a[y]
        BY ONLY <1>0, <1>3, m \in 1 .. c - 1
      <4>2. z = y
        BY ONLY <1>0, <3>1, <3>2, <4>1
      <4>3. j \in Int /\ m \in Int /\ index \in Int
        BY ONLY <1>0, j \in 1 .. c - 1, m \in 1 .. c - 1
      <4> QED
        BY ONLY <4>2, <4>3
    <3> HIDE DEF z
    <3> QED
      BY ONLY <1>0, <1>5, <3>1, <3>2
  <2>2. ASSUME NEW j \in 1 .. c, a[j] # x PROVE a[j] \in {b[m] : m \in 1 .. c - 1}
    <3>1. CASE j < index
      <4>1. j \in 1 .. c - 1 /\ b[j] = a[j]
        BY ONLY <1>0, <1>3, <3>1, j \in 1 .. c
      <4> QED
        BY ONLY <4>1
    <3>2. CASE j > index
      <4>1. j - 1 \in 1 .. c - 1 /\ b[j - 1] = a[j]
        BY ONLY <1>0, <1>3, <3>2, j \in 1 .. c
      <4> QED
        BY ONLY <4>1
    <3> QED
      BY ONLY <1>0, <1>5, <2>2, <3>1, <3>2, j \in 1 .. c
  <2> QED
    BY ONLY <2>1, <2>2
<1>7. StringsSound(ar2, l2)
  <2>1. Len(ar2[l2.items]) = l2.capacity /\ l2.count <= l2.capacity
    BY ONLY <1>0, <1>2, <1>3 DEF b
  <2>2. /\ \A j \in 1 .. l2.count : ar2[l2.items][j] \in Blocks \ {l2.items}
        /\ \A j, m \in 1 .. l2.count : ar2[l2.items][j] = ar2[l2.items][m] => j = m
    BY ONLY <1>2, <1>6 DEF b
  <2> QED
    BY ONLY <1>0, <1>2, <2>1, <2>2 DEF StringsSound
<1>8. BlocksOf(ar2, l2) = BlocksOf(ar, l) \ {x} /\ x \in BlocksOf(ar, l)
  BY ONLY <1>0, <1>5, <1>6
<1>9. Shows(ar2, tx2, l2) = RemoveAt(Shows(ar, tx, l), index)
  <2> DEFINE p == Shows(ar, tx, l)
             q == Shows(ar2, tx2, l2)
             w == RemoveAt(p, index)
  <2>1. p = [j \in 1 .. c |-> tx[a[j]]]
    BY ONLY <1>0 DEF Shows, a, at, c
  <2>2. q = [j \in 1 .. c - 1 |-> tx2[b[j]]]
    <3>1. \A j \in 1 .. c - 1 : j \in DOMAIN b
      BY ONLY <1>0, <1>3
    <3> QED
      BY ONLY <1>2, <3>1 DEF Shows, b
  <2> HIDE DEF p, q
  <2>3. p \in Seq(Texts \cup {0}) /\ Len(p) = c
    <3>1. p \in [1 .. c -> Texts \cup {0}]
      BY ONLY <1>0, <2>1, tx \in [Blocks -> Texts \cup {0}]
    <3> DEFINE V == Texts \cup {0}
    <3> HIDE DEF V
    <3>2. p \in [1 .. c -> V]
      BY ONLY <3>1 DEF V
    <3>3. p \in Seq(V) /\ Len(p) = c
      BY ONLY <1>0, <3>2, AsSequence
    <3> QED
      BY ONLY <3>3 DEF V
  <2>4. /\ w \in Seq(Texts \cup {0}) /\ Len(w) = c - 1
        /\ \A j \in 1 .. c - 1 : w[j] = IF j < index THEN p[j] ELSE p[j + 1]
    <3> DEFINE V == Texts \cup {0}
    <3>1. p \in Seq(V) /\ index \in 1 .. Len(p) /\ Len(p) = c
      BY ONLY <1>0, <2>3
    <3> HIDE DEF V, w
    <3>2. w = RemoveAt(p, index)
      BY DEF w
    <3>3. w \in Seq(V) /\ Len(w) = c - 1 /\ \A j \in 1 .. c - 1 : w[j] = IF j < index THEN p[j] ELSE p[j + 1]
      <4>1. w \in Seq(V) /\ IsRemoved(w, p, index)
        BY ONLY <3>1, <3>2, RemovedIs
      <4> QED
        BY ONLY <3>1, <4>1 DEF IsRemoved
    <3> QED
      BY ONLY <3>3 DEF V
  <2> HIDE DEF w
  <2>5. ASSUME NEW j \in 1 .. c - 1 PROVE q[j] = w[j]
    <3> DEFINE z == IF j < index THEN j ELSE j + 1
    <3>0. z \in 1 .. c
      BY ONLY <1>0, j \in 1 .. c - 1
    <3>b. b[j] = a[z] /\ w[j] = p[z]
      BY ONLY <1>3, <2>4, j \in 1 .. c - 1
    <3> HIDE DEF z
    <3>1. z \in 1 .. c /\ b[j] = a[z] /\ w[j] = p[z] /\ a[z] # x
      BY ONLY <1>6, <3>0, <3>b, j \in 1 .. c - 1
    <3>2. q[j] = tx[a[z]] /\ p[z] = tx[a[z]]
      BY ONLY <1>0, <1>t, <2>1, <2>2, <3>1, j \in 1 .. c - 1
    <3> QED
      BY ONLY <3>1, <3>2
  <2>6. w = [j \in 1 .. c - 1 |-> w[j]]
    <3> DEFINE V == Texts \cup {0}
    <3> HIDE DEF V
    <3>1. w \in Seq(V)
      BY ONLY <2>4 DEF V
    <3>2. w = [j \in 1 .. Len(w) |-> w[j]]
      BY ONLY <3>1, AsFunction
    <3> QED
      BY ONLY <2>4, <3>2
  <2>7. q = w
    BY ONLY <2>2, <2>5, <2>6
  <2> QED
    BY ONLY <2>7 DEF p, q, w
<1> QED
  BY <1>1, <1>4, <1>7, <1>8, <1>9 DEF a, at, x, Dropped

(* What is shown of the first n contacts. *)
AllShown(it, n, ar, tx) == [i \in 1 .. n |-> [f \in Fields |-> Shows(ar, tx, it[i][f])]]

(* A change to one list leaves the others as they are. *)
LEMMA ListChanged ==
  ASSUME NEW it, NEW n, NEW us, NEW ar, HeapSound(it, n, us, ar),
         NEW i \in 1 .. n, NEW f \in Fields, NEW l2, NEW ar2 \in Contents, StringsSound(ar2, l2),
         NEW us2, us2 = Swapped(us, BlocksOf(ar, it[i][f]), BlocksOf(ar2, l2)),
         NEW tx, NEW tx2,
         \A b \in BlocksOf(ar2, l2) : b \in Blocks /\ (b \in us => b \in BlocksOf(ar, it[i][f])),
         \A b \in us \ BlocksOf(ar, it[i][f]) : ar2[b] = ar[b] /\ tx2[b] = tx[b],
         NEW it2, it2 = Relisted(it, i, f, l2)
  PROVE  /\ HeapSound(it2, n, us2, ar2)
         /\ AllShown(it2, n, ar2, tx2)
              = Relisted(AllShown(it, n, ar, tx), i, f, Shows(ar2, tx2, l2))
<1> DEFINE own == BlocksOf(ar, it[i][f])
           own2 == BlocksOf(ar2, l2)
<1>0. /\ it \in Seq([Fields -> ListRecord]) /\ n \in 0 .. Len(it) /\ Len(it) \in Nat
      /\ us \subseteq Blocks /\ ar \in Contents
      /\ \A j \in 1 .. n, g \in Fields : StringsSound(ar, it[j][g])
      /\ us = AllBlocks(it, n, ar)
      /\ ListsApart(it, n, ar)
  BY DEF HeapSound
<1>1. /\ it2 \in Seq([Fields -> ListRecord]) /\ Len(it2) = Len(it) /\ it2[i][f] = l2
      /\ \A j \in 1 .. n, g \in Fields : (j # i \/ g # f) => it2[j][g] = it[j][g]
  <2>1. /\ i \in 1 .. Len(it) /\ l2 \in ListRecord /\ it[i] \in [Fields -> ListRecord]
        /\ \A j \in 1 .. n : j \in 1 .. Len(it) /\ it[j] \in [Fields -> ListRecord]
    BY <1>0 DEF StringsSound
  <2> DEFINE c == [it[i] EXCEPT ![f] = l2]
  <2>2. c \in [Fields -> ListRecord] /\ c[f] = l2 /\ \A g \in Fields : g # f => c[g] = it[i][g]
    BY <2>1
  <2> HIDE DEF c
  <2>3. it2 = [it EXCEPT ![i] = c]
    BY DEF c, Relisted
  <2>4. /\ it2 \in Seq([Fields -> ListRecord]) /\ Len(it2) = Len(it)
        /\ \A j \in 1 .. Len(it) : it2[j] = IF j = i THEN c ELSE it[j]
    BY ONLY <1>0, <2>1, <2>2, <2>3, ExceptSeq
  <2> QED
    BY ONLY <2>1, <2>2, <2>4, i \in 1 .. n, f \in Fields
<1>2. ASSUME NEW j \in 1 .. n, NEW g \in Fields, (j # i \/ g # f)
      PROVE  /\ it2[j][g] = it[j][g] /\ StringsSound(ar2, it[j][g])
             /\ BlocksOf(ar2, it[j][g]) = BlocksOf(ar, it[j][g])
             /\ BlocksOf(ar, it[j][g]) \subseteq us \ own
             /\ Shows(ar2, tx2, it[j][g]) = Shows(ar, tx, it[j][g])
  <2>1. BlocksOf(ar, it[j][g]) \subseteq us \ own
    <3>1. BlocksOf(ar, it[j][g]) \subseteq us
      BY ONLY <1>0, j \in 1 .. n, g \in Fields DEF AllBlocks
    <3>2. BlocksOf(ar, it[j][g]) \cap own = {}
      BY <1>0, <1>2 DEF ListsApart
    <3> QED
      BY <3>1, <3>2
  <2>2. StringsSound(ar, it[j][g]) /\ \A b \in BlocksOf(ar, it[j][g]) : ar2[b] = ar[b] /\ tx2[b] = tx[b]
    BY <1>0, <2>1
  <2>3. it2[j][g] = it[j][g]
    BY <1>1, <1>2
  <2> QED
    BY <1>0, <2>1, <2>2, <2>3, Untouched
<1>3. \A j \in 1 .. n, g \in Fields : StringsSound(ar2, it2[j][g])
  BY <1>1, <1>2
<1>4. own2 \cap (us \ own) = {} /\ us2 = (us \ own) \cup own2
  BY DEF Swapped
<1>5. us2 = AllBlocks(it2, n, ar2)
  <2>1. ASSUME NEW b \in us2 PROVE \E j \in 1 .. n, g \in Fields : b \in BlocksOf(ar2, it2[j][g])
    <3>1. CASE b \in own2
      BY <1>1, <3>1
    <3>2. CASE b \in us \ own
      <4>1. PICK j \in 1 .. n, g \in Fields : b \in BlocksOf(ar, it[j][g])
        BY ONLY <1>0, <3>2 DEF AllBlocks
      <4>2. (j # i \/ g # f)
        BY <3>2, <4>1
      <4> QED
        BY <1>2, <4>1, <4>2
    <3> QED
      BY <1>4, <2>1, <3>1, <3>2
  <2>2. ASSUME NEW j \in 1 .. n, NEW g \in Fields, NEW b \in BlocksOf(ar2, it2[j][g]) PROVE b \in us2
    <3>1. CASE j = i /\ g = f
      BY <1>1, <1>4, <2>2, <3>1
    <3>2. CASE (j # i \/ g # f)
      BY <1>2, <1>4, <2>2, <3>2
    <3> QED
      BY <3>1, <3>2
  <2> HIDE DEF own, own2
  <2> QED
    BY ONLY <2>1, <2>2 DEF AllBlocks
<1>6. ASSUME NEW j \in 1 .. n, NEW k \in 1 .. n, NEW g \in Fields, NEW h \in Fields, j # k \/ g # h
      PROVE  BlocksOf(ar2, it2[j][g]) \cap BlocksOf(ar2, it2[k][h]) = {}
  <2>1. CASE j = i /\ g = f
    <3>1. (k # i \/ h # f) /\ it2[j][g] = l2
      BY <1>1, <1>6, <2>1
    <3>2. BlocksOf(ar2, it2[k][h]) \subseteq us \ own
      BY <1>2, <3>1
    <3> QED
      BY <1>4, <3>1, <3>2
  <2>2. CASE k = i /\ h = f
    <3>1. (j # i \/ g # f) /\ it2[k][h] = l2
      BY <1>1, <1>6, <2>2
    <3>2. BlocksOf(ar2, it2[j][g]) \subseteq us \ own
      BY <1>2, <3>1
    <3> QED
      BY <1>4, <3>1, <3>2
  <2>3. CASE (j # i \/ g # f) /\ (k # i \/ h # f)
    <3>1. /\ BlocksOf(ar2, it2[j][g]) = BlocksOf(ar, it[j][g])
          /\ BlocksOf(ar2, it2[k][h]) = BlocksOf(ar, it[k][h])
      BY <1>2, <2>3
    <3>2. BlocksOf(ar, it[j][g]) \cap BlocksOf(ar, it[k][h]) = {}
      BY <1>0, <1>6 DEF ListsApart
    <3> QED
      BY <3>1, <3>2
  <2> QED
    BY <2>1, <2>2, <2>3
<1>7. HeapSound(it2, n, us2, ar2)
  <2>1. us2 \subseteq Blocks
    BY <1>0, <1>4
  <2>2. ListsApart(it2, n, ar2)
    BY ONLY <1>6 DEF ListsApart
  <2> QED
    BY ONLY <1>0, <1>1, <1>3, <1>5, <2>1, <2>2, ar2 \in Contents DEF HeapSound
<1>8. AllShown(it2, n, ar2, tx2)
        = Relisted(AllShown(it, n, ar, tx), i, f, Shows(ar2, tx2, l2))
  <2>1. ASSUME NEW j \in 1 .. n, NEW g \in Fields
        PROVE  Shows(ar2, tx2, it2[j][g])
                 = IF j = i /\ g = f THEN Shows(ar2, tx2, l2) ELSE Shows(ar, tx, it[j][g])
    BY <1>1, <1>2
  <2>2. \A j \in 1 .. n : [g \in Fields |-> Shows(ar2, tx2, it2[j][g])]
          = IF j = i THEN [[g \in Fields |-> Shows(ar, tx, it[i][g])] EXCEPT ![f] = Shows(ar2, tx2, l2)]
            ELSE [g \in Fields |-> Shows(ar, tx, it[j][g])]
    BY ONLY <2>1, i \in 1 .. n, f \in Fields
  <2> QED
    BY ONLY <2>2, i \in 1 .. n DEF AllShown, Relisted
<1> QED
  BY <1>7, <1>8

(* A new contact has empty lists; the slot it takes is emptied. *)
Blank == [f \in Fields |-> <<>>]
AddedTo(it, n) == IF n < Len(it) THEN [it EXCEPT ![n + 1] = Array!contact_init]
                  ELSE Append(it, Array!contact_init)
LEMMA ContactAdded ==
  ASSUME NEW it, NEW n, NEW us, NEW ar, HeapSound(it, n, us, ar), NEW tx
  PROVE  /\ HeapSound(AddedTo(it, n), n + 1, us, ar)
         /\ AllShown(AddedTo(it, n), n + 1, ar, tx) = Append(AllShown(it, n, ar, tx), Blank)
<1> DEFINE it2 == AddedTo(it, n)
           init == Array!contact_init
           l0 == Array!stringlist_init
<1>0. /\ it \in Seq([Fields -> ListRecord]) /\ n \in 0 .. Len(it) /\ Len(it) \in Nat
      /\ us \subseteq Blocks /\ ar \in Contents
      /\ \A j \in 1 .. n, g \in Fields : StringsSound(ar, it[j][g])
      /\ us = AllBlocks(it, n, ar)
      /\ ListsApart(it, n, ar)
  BY DEF HeapSound
<1>1. /\ l0 = [items |-> 0, count |-> 0, capacity |-> 0] /\ l0 \in ListRecord
      /\ StringsSound(ar, l0) /\ BlocksOf(ar, l0) = {} /\ Shows(ar, tx, l0) = <<>>
  BY DEF Array!stringlist_init, Array!NULL, ListRecord, AnyBlock, StringsSound, BlocksOf, Shows
<1>2. init \in [Fields -> ListRecord] /\ \A g \in Fields : init[g] = l0
  BY <1>1 DEF Array!contact_init
<1> HIDE DEF init, l0, it2
<1>3. /\ it2 \in Seq([Fields -> ListRecord]) /\ n + 1 \in 0 .. Len(it2)
      /\ it2[n + 1] = init /\ \A j \in 1 .. n : it2[j] = it[j]
  <2>1. CASE n < Len(it)
    <3>1. it2 = [it EXCEPT ![n + 1] = init] /\ n + 1 \in 1 .. Len(it)
      BY <1>0, <2>1 DEF init, AddedTo, it2
    <3>2. /\ it2 \in Seq([Fields -> ListRecord]) /\ Len(it2) = Len(it)
          /\ \A j \in 1 .. Len(it) : it2[j] = IF j = n + 1 THEN init ELSE it[j]
      BY ONLY <1>0, <1>2, <3>1, ExceptSeq
    <3> QED
      BY ONLY <1>0, <3>1, <3>2
  <2>2. CASE ~(n < Len(it))
    <3>1. it2 = Append(it, init) /\ n = Len(it)
      BY <1>0, <2>2 DEF init, AddedTo, it2
    <3>2. /\ it2 \in Seq([Fields -> ListRecord]) /\ Len(it2) = Len(it) + 1
          /\ (\A j \in 1 .. Len(it) : it2[j] = it[j]) /\ it2[Len(it) + 1] = init
      BY ONLY <1>0, <1>2, <3>1, AppendProperties
    <3> QED
      BY ONLY <1>0, <3>1, <3>2
  <2> QED
    BY <2>1, <2>2
<1>4. \A j \in 1 .. n + 1 : j \in 1 .. n \/ j = n + 1
  BY ONLY <1>0
<1>5. \A j \in 1 .. n + 1, g \in Fields :
        /\ j \in 1 .. n => it2[j][g] = it[j][g]
        /\ j \notin 1 .. n => it2[j][g] = l0
  BY ONLY <1>2, <1>3, <1>4
<1>6. HeapSound(it2, n + 1, us, ar)
  <2>1. \A j \in 1 .. n + 1, g \in Fields : StringsSound(ar, it2[j][g])
    BY ONLY <1>0, <1>1, <1>5
  <2>2. us = AllBlocks(it2, n + 1, ar)
    <3>1. \A b \in us : \E j \in 1 .. n + 1, g \in Fields : b \in BlocksOf(ar, it2[j][g])
      <4>1. \A b \in us : \E j \in 1 .. n, g \in Fields : b \in BlocksOf(ar, it[j][g])
        BY ONLY <1>0 DEF AllBlocks
      <4>2. \A j \in 1 .. n : j \in 1 .. n + 1
        BY ONLY <1>0
      <4> QED
        BY ONLY <1>5, <4>1, <4>2
    <3>2. \A j \in 1 .. n + 1, g \in Fields : BlocksOf(ar, it2[j][g]) \subseteq us
      <4>1. \A j \in 1 .. n, g \in Fields : BlocksOf(ar, it[j][g]) \subseteq us
        BY ONLY <1>0 DEF AllBlocks
      <4> QED
        BY ONLY <1>1, <1>5, <4>1
    <3> QED
      BY ONLY <3>1, <3>2 DEF AllBlocks
  <2>3. ListsApart(it2, n + 1, ar)
    <3>1. ASSUME NEW j \in 1 .. n + 1, NEW k \in 1 .. n + 1, NEW g \in Fields, NEW h \in Fields,
                 j # k \/ g # h
          PROVE  BlocksOf(ar, it2[j][g]) \cap BlocksOf(ar, it2[k][h]) = {}
      <4>1. CASE j \in 1 .. n /\ k \in 1 .. n
        <5>1. BlocksOf(ar, it[j][g]) \cap BlocksOf(ar, it[k][h]) = {}
          BY ONLY <1>0, <3>1, <4>1, g \in Fields, h \in Fields DEF ListsApart
        <5> QED
          BY <1>5, <4>1, <5>1
      <4>2. CASE j \notin 1 .. n
        BY <1>1, <1>5, <4>2
      <4>3. CASE k \notin 1 .. n
        BY <1>1, <1>5, <4>3
      <4> QED
        BY <4>1, <4>2, <4>3
    <3> QED
      BY ONLY <3>1 DEF ListsApart
  <2> QED
    BY ONLY <1>0, <1>3, <2>1, <2>2, <2>3 DEF HeapSound
<1>7. AllShown(it2, n + 1, ar, tx) = Append(AllShown(it, n, ar, tx), Blank)
  <2> DEFINE p == AllShown(it, n, ar, tx)
             q == AllShown(it2, n + 1, ar, tx)
             e == Blank
             V == {p[j] : j \in 1 .. n} \cup {e}
             w == Append(p, e)
  <2>1. n \in Nat /\ p = [j \in 1 .. n |-> p[j]] /\ q = [j \in 1 .. n + 1 |-> q[j]]
    BY ONLY <1>0 DEF AllShown
  <2>2. q[n + 1] = e /\ \A j \in 1 .. n : q[j] = p[j]
    <3>1. \A j \in 1 .. n + 1 : q[j] = [g \in Fields |-> Shows(ar, tx, it2[j][g])]
      BY ONLY <1>0 DEF AllShown
    <3>2. \A j \in 1 .. n : j \in 1 .. n + 1 /\ p[j] = [g \in Fields |-> Shows(ar, tx, it[j][g])]
      BY ONLY <1>0 DEF AllShown
    <3>3. n + 1 \in 1 .. n + 1 /\ n + 1 \notin 1 .. n
      BY ONLY <1>0
    <3> HIDE DEF p, q
    <3>4. q[n + 1] = e
      <4>1. \A g \in Fields : Shows(ar, tx, it2[n + 1][g]) = <<>>
        BY ONLY <1>1, <1>5, <3>3
      <4>2. [g \in Fields |-> Shows(ar, tx, it2[n + 1][g])] = [g \in Fields |-> <<>>]
        BY ONLY <4>1
      <4>3. q[n + 1] = [g \in Fields |-> Shows(ar, tx, it2[n + 1][g])]
        BY ONLY <3>1, <3>3
      <4> QED
        BY ONLY <4>2, <4>3 DEF e, Blank
    <3>5. ASSUME NEW j \in 1 .. n PROVE q[j] = p[j]
      <4>1. j \in 1 .. n + 1 /\ \A g \in Fields : it2[j][g] = it[j][g]
        BY ONLY <1>5, <3>2, j \in 1 .. n
      <4>2. \A g \in Fields : Shows(ar, tx, it2[j][g]) = Shows(ar, tx, it[j][g])
        BY ONLY <4>1
      <4>3. [g \in Fields |-> Shows(ar, tx, it2[j][g])] = [g \in Fields |-> Shows(ar, tx, it[j][g])]
        BY ONLY <4>2
      <4>4. q[j] = [g \in Fields |-> Shows(ar, tx, it2[j][g])]
        BY ONLY <3>1, <4>1
      <4>5. p[j] = [g \in Fields |-> Shows(ar, tx, it[j][g])]
        BY ONLY <3>2, j \in 1 .. n
      <4> QED
        BY ONLY <4>3, <4>4, <4>5
    <3> QED
      BY ONLY <3>4, <3>5
  <2> HIDE DEF p, q, e
  <2>3. p \in [1 .. n -> V] /\ e \in V
    BY ONLY <2>1
  <2> HIDE DEF V, w
  <2>4. p \in Seq(V) /\ Len(p) = n
    BY ONLY <2>1, <2>3, AsSequence
  <2>5. w = Append(p, e)
    BY DEF w
  <2>6. w \in Seq(V) /\ Len(w) = n + 1 /\ (\A j \in 1 .. n : w[j] = p[j]) /\ w[n + 1] = e
    BY ONLY <2>3, <2>4, <2>5, AppendProperties
  <2>7. w = [j \in 1 .. n + 1 |-> w[j]]
    BY ONLY <2>6, AsFunction
  <2>8. \A j \in 1 .. n + 1 : w[j] = q[j]
    BY ONLY <1>4, <2>2, <2>6
  <2>9. q = w
    BY ONLY <2>1, <2>7, <2>8
  <2> QED
    BY ONLY <2>5, <2>9 DEF p, q, e
<1> QED
  BY <1>6, <1>7 DEF it2

(* A removed contact takes its blocks along, and the rest moves up. *)
ClosedAt(it, n, i, it2) ==
  /\ it2 \in Seq([Fields -> ListRecord]) /\ Len(it2) = Len(it)
  /\ \A j \in 1 .. n - 1 : it2[j] = IF j < i THEN it[j] ELSE it[j + 1]
Gone(ar, c) == UNION {BlocksOf(ar, c[f]) : f \in Fields}
LEMMA ContactRemoved ==
  ASSUME NEW it, NEW n, NEW us, NEW ar, HeapSound(it, n, us, ar), NEW i \in 1 .. n,
         NEW tx, NEW it2, ClosedAt(it, n, i, it2)
  PROVE  LET gone == Gone(ar, it[i]) IN
         /\ gone \subseteq us /\ HeapSound(it2, n - 1, Left(us, gone), Emptied(ar, gone))
         /\ AllShown(it2, n - 1, Emptied(ar, gone), Erased(tx, gone)) = RemoveAt(AllShown(it, n, ar, tx), i)
<1> DEFINE gone == Gone(ar, it[i])
           ar2 == Emptied(ar, gone)
           tx2 == Erased(tx, gone)
<1>g. gone = UNION {BlocksOf(ar, it[i][f]) : f \in Fields}
  BY DEF Gone
<1>a. ar2 = [b \in Blocks |-> IF b \in gone THEN <<>> ELSE ar[b]]
  BY DEF Emptied
<1>b. tx2 = [b \in Blocks |-> IF b \in gone THEN 0 ELSE tx[b]]
  BY DEF Erased
<1> HIDE DEF gone, ar2, tx2
<1>0. /\ it \in Seq([Fields -> ListRecord]) /\ n \in 0 .. Len(it) /\ Len(it) \in Nat
      /\ us \subseteq Blocks /\ ar \in Contents
      /\ \A j \in 1 .. n, g \in Fields : StringsSound(ar, it[j][g])
      /\ us = AllBlocks(it, n, ar) /\ ListsApart(it, n, ar)
  BY DEF HeapSound
<1> DEFINE from(j) == IF j < i THEN j ELSE j + 1
<1>1. ASSUME NEW j \in 1 .. n - 1
      PROVE  from(j) \in 1 .. n /\ from(j) # i /\ it2[j] = it[from(j)]
  BY <1>0 DEF ClosedAt
<1>2. \A j, k \in 1 .. n - 1 : j # k => from(j) # from(k)
  BY <1>0
<1>3. ASSUME NEW j \in 1 .. n, j # i PROVE \E k \in 1 .. n - 1 : from(k) = j
  <2>1. CASE j < i
    <3>1. j \in 1 .. n - 1 /\ from(j) = j
      BY <1>0, <2>1
    <3> QED
      BY <3>1
  <2>2. CASE j > i
    <3>1. j - 1 \in 1 .. n - 1 /\ from(j - 1) = j
      BY <1>0, <2>2
    <3> QED
      BY <3>1
  <2> QED
    BY <1>0, <1>3, <2>1, <2>2
<1> HIDE DEF from
<1>4. ar2 \in Contents
  <2>1. <<>> \in Seq(AnyBlock)
    OBVIOUS
  <2> QED
    BY <1>0, <1>a, <2>1 DEF Contents
<1>5. gone \subseteq us
  BY <1>0, <1>g DEF AllBlocks
<1>6. ASSUME NEW j \in 1 .. n, j # i, NEW g \in Fields
      PROVE  /\ StringsSound(ar2, it[j][g]) /\ BlocksOf(ar2, it[j][g]) = BlocksOf(ar, it[j][g])
             /\ BlocksOf(ar, it[j][g]) \subseteq us \ gone
             /\ Shows(ar2, tx2, it[j][g]) = Shows(ar, tx, it[j][g])
  <2>1. BlocksOf(ar, it[j][g]) \subseteq us
    BY <1>0 DEF AllBlocks
  <2>2. \A f \in Fields : BlocksOf(ar, it[j][g]) \cap BlocksOf(ar, it[i][f]) = {}
    BY ONLY <1>0, <1>6, i \in 1 .. n, g \in Fields DEF ListsApart
  <2>3. BlocksOf(ar, it[j][g]) \subseteq us \ gone
    BY <1>g, <2>1, <2>2
  <2>4. \A b \in BlocksOf(ar, it[j][g]) : ar2[b] = ar[b] /\ tx2[b] = tx[b]
    BY <1>0, <1>a, <1>b, <2>3
  <2>5. StringsSound(ar, it[j][g])
    BY <1>0
  <2> QED
    BY ONLY <1>0, <1>4, <2>3, <2>4, <2>5, Untouched
<1>7. ASSUME NEW j \in 1 .. n - 1, NEW g \in Fields
      PROVE  /\ StringsSound(ar2, it2[j][g]) /\ BlocksOf(ar2, it2[j][g]) = BlocksOf(ar, it[from(j)][g])
             /\ BlocksOf(ar2, it2[j][g]) \subseteq us \ gone
             /\ Shows(ar2, tx2, it2[j][g]) = Shows(ar, tx, it[from(j)][g])
  BY ONLY <1>1, <1>6, j \in 1 .. n - 1, g \in Fields
<1>8. us \ gone = AllBlocks(it2, n - 1, ar2)
  <2>1. ASSUME NEW b \in us \ gone PROVE \E j \in 1 .. n - 1, g \in Fields : b \in BlocksOf(ar2, it2[j][g])
    <3>1. PICK k \in 1 .. n, g \in Fields : b \in BlocksOf(ar, it[k][g])
      BY ONLY <1>0, <2>1 DEF AllBlocks
    <3>2. k # i
      BY <1>g, <2>1, <3>1
    <3>3. PICK j \in 1 .. n - 1 : from(j) = k
      BY <1>3, <3>2
    <3> QED
      BY <1>7, <3>1, <3>3
  <2> QED
    BY ONLY <1>7, <2>1 DEF AllBlocks
<1>9. ListsApart(it2, n - 1, ar2)
  <2>1. ASSUME NEW j \in 1 .. n - 1, NEW k \in 1 .. n - 1, NEW g \in Fields, NEW h \in Fields,
               j # k \/ g # h
        PROVE  BlocksOf(ar2, it2[j][g]) \cap BlocksOf(ar2, it2[k][h]) = {}
    <3>1. from(j) \in 1 .. n /\ from(k) \in 1 .. n /\ (from(j) # from(k) \/ g # h)
      BY ONLY <1>1, <1>2, <2>1, j \in 1 .. n - 1, k \in 1 .. n - 1
    <3>2. BlocksOf(ar, it[from(j)][g]) \cap BlocksOf(ar, it[from(k)][h]) = {}
      BY ONLY <1>0, <3>1, g \in Fields, h \in Fields DEF ListsApart
    <3>3. /\ BlocksOf(ar2, it2[j][g]) = BlocksOf(ar, it[from(j)][g])
          /\ BlocksOf(ar2, it2[k][h]) = BlocksOf(ar, it[from(k)][h])
      BY ONLY <1>7, j \in 1 .. n - 1, k \in 1 .. n - 1, g \in Fields, h \in Fields
    <3> QED
      BY ONLY <3>2, <3>3
  <2> QED
    BY ONLY <2>1 DEF ListsApart
<1>10. HeapSound(it2, n - 1, us \ gone, ar2)
  <2>1. n - 1 \in 0 .. Len(it2) /\ us \ gone \subseteq Blocks
    BY <1>0 DEF ClosedAt
  <2>2. \A j \in 1 .. n - 1, g \in Fields : StringsSound(ar2, it2[j][g])
    BY ONLY <1>7
  <2> QED
    BY ONLY <1>4, <1>8, <1>9, <2>1, <2>2, ClosedAt(it, n, i, it2) DEF HeapSound, ClosedAt
<1>11. AllShown(it2, n - 1, ar2, tx2) = RemoveAt(AllShown(it, n, ar, tx), i)
  <2> DEFINE p == AllShown(it, n, ar, tx)
             q == AllShown(it2, n - 1, ar2, tx2)
             V == {p[j] : j \in 1 .. n}
             w == RemoveAt(p, i)
  <2>1. n \in Nat /\ p = [j \in 1 .. n |-> p[j]] /\ q = [j \in 1 .. n - 1 |-> q[j]]
    BY ONLY <1>0 DEF AllShown
  <2>2. ASSUME NEW j \in 1 .. n - 1 PROVE q[j] = p[from(j)]
    <3>1. q[j] = [g \in Fields |-> Shows(ar2, tx2, it2[j][g])]
      BY ONLY j \in 1 .. n - 1 DEF AllShown
    <3>2. p[from(j)] = [g \in Fields |-> Shows(ar, tx, it[from(j)][g])]
      <4>1. from(j) \in 1 .. n
        BY <1>1
      <4> QED
        BY ONLY <4>1 DEF AllShown
    <3>3. [g \in Fields |-> Shows(ar2, tx2, it2[j][g])] = [g \in Fields |-> Shows(ar, tx, it[from(j)][g])]
      <4>1. \A g \in Fields : Shows(ar2, tx2, it2[j][g]) = Shows(ar, tx, it[from(j)][g])
        BY ONLY <1>7, j \in 1 .. n - 1
      <4> QED
        BY ONLY <4>1
    <3> HIDE DEF p, q
    <3> QED
      BY ONLY <3>1, <3>2, <3>3
  <2> HIDE DEF p, q
  <2>3. p \in [1 .. n -> V]
    BY ONLY <2>1
  <2> HIDE DEF V, w
  <2>4. p \in Seq(V) /\ Len(p) = n
    BY ONLY <2>1, <2>3, AsSequence
  <2>5. w = RemoveAt(p, i)
    BY DEF w
  <2>6. w \in Seq(V) /\ Len(w) = n - 1 /\ \A j \in 1 .. n - 1 : w[j] = IF j < i THEN p[j] ELSE p[j + 1]
    <3>1. w \in Seq(V) /\ IsRemoved(w, p, i)
      BY ONLY <2>4, <2>5, RemovedIs, i \in 1 .. n
    <3> QED
      BY ONLY <2>4, <3>1 DEF IsRemoved
  <2>7. w = [j \in 1 .. n - 1 |-> w[j]]
    BY ONLY <2>6, AsFunction
  <2>8. \A j \in 1 .. n - 1 : w[j] = q[j]
    BY ONLY <2>2, <2>6 DEF from
  <2>9. q = w
    BY ONLY <2>1, <2>7, <2>8
  <2> QED
    BY ONLY <2>5, <2>9 DEF p, q
<1> QED
  BY <1>5, <1>10, <1>11 DEF gone, ar2, tx2, Left

(* What a step shows. *)
ArrayShown == AllShown(items, arrayCount, array, text)
ArrayStep ==
  \/ Array!OneMore(ArrayShown, ArrayShown', {[f \in Fields |-> <<>>]})
  \/ Array!OneLess(ArrayShown, ArrayShown')
  \/ \E i \in 1 .. arrayCount, f \in Fields :
       /\ arrayCount' = arrayCount
       /\ \/ Array!OneMore(ArrayShown[i][f], ArrayShown'[i][f], Texts)
          \/ Array!OneLess(ArrayShown[i][f], ArrayShown'[i][f])
       /\ ArrayShown' = [ArrayShown EXCEPT ![i][f] = ArrayShown'[i][f]]

LEMMA ShownIs == Array!Shown = ArrayShown /\ Array!Shown' = ArrayShown'
BY DEF Array!Shown, Array!Printed, ArrayShown, AllShown, Shows, Array!NULL

LEMMA ArrayStarts == Array!Init => ArrayInv
<1> SUFFICES ASSUME Array!Init PROVE ArrayInv
  OBVIOUS
<1>1. /\ items = <<>> /\ arrayCount = 0 /\ used = {} /\ ~fault
      /\ array = [b \in Blocks |-> <<>>] /\ text = [b \in Blocks |-> 0]
  BY DEF Array!Init, Array!NULL
<1>2. /\ items \in Seq([Fields -> ListRecord]) /\ Len(items) = 0
      /\ <<>> \in Seq(AnyBlock)
  BY <1>1
<1>3. used = AllBlocks(items, arrayCount, array) /\ ListsApart(items, arrayCount, array)
  BY <1>1 DEF AllBlocks, ListsApart
<1> QED
  BY <1>1, <1>2, <1>3 DEF ArrayInv, HeapSound, Contents

LEMMA ContactAdds ==
  ASSUME ArrayInv, Array!contactlist_add
  PROVE  ArrayInv' /\ ArrayStep
<1>1. /\ arrayCount' = arrayCount + 1 /\ UNCHANGED <<used, array, text, fault>>
      /\ items' = AddedTo(items, arrayCount)
  BY DEF Array!contactlist_add, Array!heap, Array!Starts, AddedTo
<1>2. HeapSound(items, arrayCount, used, array)
  BY DEF ArrayInv
<1>3. /\ HeapSound(items', arrayCount + 1, used, array)
      /\ AllShown(items', arrayCount + 1, array, text)
           = Append(AllShown(items, arrayCount, array, text), Blank)
  <2>1. /\ HeapSound(AddedTo(items, arrayCount), arrayCount + 1, used, array)
        /\ AllShown(AddedTo(items, arrayCount), arrayCount + 1, array, text)
             = Append(AllShown(items, arrayCount, array, text), Blank)
    BY ONLY <1>2, ContactAdded
  <2> QED
    BY ONLY <1>1, <2>1
<1>4. ArrayInv'
  BY <1>1, <1>3 DEF ArrayInv
<1>5. Array!OneMore(ArrayShown, ArrayShown', {[f \in Fields |-> <<>>]})
  BY <1>1, <1>3 DEF ArrayShown, Array!OneMore, Blank
<1> QED
  BY <1>4, <1>5 DEF ArrayStep

LEMMA ContactGoes ==
  ASSUME ArrayInv, NEW i \in 1 .. arrayCount, Array!contactlist_remove(i)
  PROVE  ArrayInv' /\ ArrayStep
<1> DEFINE gone == Array!contact_free(items[i])
<1>0. /\ HeapSound(items, arrayCount, used, array) /\ text \in [Blocks -> Texts \cup {0}] /\ ~fault
      /\ items \in Seq([Fields -> ListRecord]) /\ arrayCount \in 0 .. Len(items) /\ Len(items) \in Nat
      /\ \A j \in 1 .. arrayCount, f \in Fields : StringsSound(array, items[j][f])
  BY DEF ArrayInv, HeapSound
<1>1. gone = Gone(array, items[i])
  <2>1. ASSUME NEW l, StringsSound(array, l)
        PROVE  BlocksOf(array, l) = (Array!Strings(l) \cup {l.items}) \ {0}
    <3>1. CASE l.items = 0
      <4>1. l.count = 0 /\ Array!Strings(l) = {}
        BY <2>1, <3>1 DEF StringsSound, Array!Strings
      <4> QED
        BY <3>1, <4>1 DEF BlocksOf
    <3>2. CASE l.items # 0
      <4>1. \A j \in 1 .. l.count : array[l.items][j] # 0
        BY <2>1, <3>2, BlocksNotNull DEF StringsSound
      <4>2. 0 \notin Array!Strings(l)
        BY <4>1 DEF Array!Strings
      <4>3. BlocksOf(array, l) = Array!Strings(l) \cup {l.items}
        BY <3>2 DEF BlocksOf, Array!Strings
      <4> QED
        BY <3>2, <4>2, <4>3
    <3> QED
      BY <3>1, <3>2
  <2>2. \A f \in Fields : BlocksOf(array, items[i][f])
                         = (Array!Strings(items[i][f]) \cup {items[i][f].items}) \ {0}
    BY <1>0, <2>1
  <2>3. ASSUME NEW b
        PROVE  b \in gone <=> \E f \in Fields : b \in BlocksOf(array, items[i][f])
    <3> DEFINE own(f) == Array!Strings(items[i][f]) \cup {items[i][f].items}
    <3>1. gone = (UNION {own(f) : f \in Fields}) \ {0}
      BY DEF Array!contact_free, Array!NULL
    <3>2. \A f \in Fields : BlocksOf(array, items[i][f]) = own(f) \ {0}
      BY <2>2
    <3> HIDE DEF own, gone
    <3> QED
      BY ONLY <3>1, <3>2
  <2> HIDE DEF gone
  <2> QED
    BY <2>3 DEF Gone
<1>2. /\ arrayCount' = arrayCount - 1
      /\ items' = Array!ClosedUp([items EXCEPT ![i] = Array!contact_init], i, arrayCount)
      /\ array' = Emptied(array, gone) /\ text' = Erased(text, gone)
      /\ used' = used \ gone /\ fault' = (fault \/ ~(gone \subseteq used))
  BY DEF Array!contactlist_remove, Array!free, Array!NULL, Emptied, Erased
<1> HIDE DEF gone
<1>3. /\ items' \in Seq([Fields -> ListRecord]) /\ Len(items') = Len(items)
      /\ \A j \in 1 .. arrayCount - 1 : items'[j] = IF j < i THEN items[j] ELSE items[j + 1]
  <2> DEFINE S == [Fields -> ListRecord]
             q == [items EXCEPT ![i] = Array!contact_init]
  <2>0. Array!contact_init \in S
    BY DEF Array!contact_init, Array!stringlist_init, Array!NULL, ListRecord, AnyBlock
  <2> HIDE DEF S
  <2>1. items \in Seq(S) /\ i \in 1 .. Len(items) /\ Len(items) \in Nat
    BY <1>0 DEF S
  <2>2. q \in Seq(S) /\ Len(q) = Len(items)
        /\ \A j \in 1 .. Len(items) : q[j] = IF j = i THEN Array!contact_init ELSE items[j]
    BY ONLY <2>0, <2>1, ExceptSeq
  <2> HIDE DEF q
  <2>3. items' = Array!ClosedUp(q, i, arrayCount) /\ arrayCount \in 0 .. Len(q) /\ i \in 1 .. arrayCount
    BY <1>0, <1>2, <2>2 DEF q
  <2>4. /\ items' \in Seq(S) /\ Len(items') = Len(q)
        /\ \A j \in 1 .. arrayCount - 1 : items'[j] = IF j < i THEN q[j] ELSE q[j + 1]
    BY ONLY <2>2, <2>3, ClosedUpIs
  <2>5. \A j \in 1 .. arrayCount - 1 : items'[j] = IF j < i THEN items[j] ELSE items[j + 1]
    BY ONLY <1>0, <2>1, <2>2, <2>3, <2>4
  <2> QED
    BY <2>2, <2>4, <2>5 DEF S
<1>4. /\ gone \subseteq used /\ HeapSound(items', arrayCount - 1, used \ gone, array')
      /\ AllShown(items', arrayCount - 1, array', text') = RemoveAt(AllShown(items, arrayCount, array, text), i)
  <2> DEFINE g == Gone(array, items[i])
  <2>1. /\ g \subseteq used /\ HeapSound(items', arrayCount - 1, Left(used, g), Emptied(array, g))
        /\ AllShown(items', arrayCount - 1, Emptied(array, g), Erased(text, g))
             = RemoveAt(AllShown(items, arrayCount, array, text), i)
    <3>1. ClosedAt(items, arrayCount, i, items')
      BY <1>3 DEF ClosedAt
    <3> QED
      BY ONLY <1>0, <3>1, i \in 1 .. arrayCount, ContactRemoved
  <2> HIDE DEF g
  <2>2. gone = g
    BY <1>1 DEF g
  <2> QED
    BY ONLY <1>2, <2>1, <2>2 DEF Left
<1>5. ArrayInv'
  <2>1. text' \in [Blocks -> Texts \cup {0}]
    BY <1>0, <1>2 DEF Erased
  <2> QED
    BY <1>0, <1>2, <1>4, <2>1 DEF ArrayInv
<1>6. Array!OneLess(ArrayShown, ArrayShown')
  <2>1. i \in DOMAIN ArrayShown
    BY DEF ArrayShown, AllShown
  <2>2. ArrayShown' = RemoveAt(ArrayShown, i)
    BY <1>2, <1>4 DEF ArrayShown
  <2>3. \A s, j : Array!RemoveAt(s, j) = RemoveAt(s, j)
    BY DEF Array!RemoveAt, RemoveAt
  <2> QED
    BY <2>1, <2>2, <2>3 DEF Array!OneLess
<1> QED
  BY <1>5, <1>6 DEF ArrayStep

(* malloc() takes the lowest block that is free. *)
LEMMA LowestFree ==
  ASSUME NEW S, S \subseteq Blocks, S # {}
  PROVE  Array!Min(S) \in S
<1>1. PICK x \in S : \A y \in S : x <= y
  BY BlocksNotNull, Least
<1> QED
  BY <1>1 DEF Array!Min

LEMMA TwoFree ==
  ASSUME NEW us, Array!Cardinality(Blocks \ us) >= 2, NEW at
  PROVE  Blocks \ us # {} /\ Blocks \ (us \cup {at}) # {}
<1> DEFINE S == Blocks \ us
<1>1. IsFiniteSet(S) /\ Cardinality(S) \in Nat
  <2>1. IsFiniteSet(S)
    BY BlocksNotNull, FS_Subset
  <2> QED
    BY <2>1, FS_CardinalityType
<1>2. Cardinality(S) >= 2
  BY DEF Array!Cardinality, Cardinality
<1>3. Cardinality({}) = 0
  BY FS_EmptySet
<1>4. S # {}
  BY <1>1, <1>2, <1>3
<1>5. S \ {at} # {}
  <2>1. CASE at \in S
    <3>1. Cardinality(S \ {at}) = Cardinality(S) - 1
      BY <1>1, <2>1, FS_RemoveElement
    <3>2. Cardinality(S \ {at}) # 0
      BY <1>1, <1>2, <3>1
    <3> QED
      BY <1>3, <3>2
  <2>2. CASE at \notin S
    BY <1>4, <2>2
  <2> QED
    BY <2>1, <2>2
<1> QED
  BY <1>4, <1>5

(* A list of the first n contacts shows what it is given. *)
LEMMA RelistedIs ==
  ASSUME NEW it, NEW n, NEW ar, NEW tx, NEW i \in 1 .. n, NEW f \in Fields, NEW x
  PROVE  LET p == AllShown(it, n, ar, tx) IN
         /\ p[i][f] = Shows(ar, tx, it[i][f]) /\ Relisted(p, i, f, x)[i][f] = x
         /\ Relisted(p, i, f, x) = [p EXCEPT ![i][f] = x]
BY DEF AllShown, Relisted

(* A step that changes one list. *)
LEMMA OneListStep ==
  ASSUME ArrayInv, NEW i \in 1 .. arrayCount, NEW f \in Fields, arrayCount' = arrayCount, ~fault',
         NEW l2, items' = Relisted(items, i, f, l2), array' \in Contents, StringsSound(array', l2),
         text' \in [Blocks -> Texts \cup {0}],
         used' = Swapped(used, BlocksOf(array, items[i][f]), BlocksOf(array', l2)),
         \A b \in BlocksOf(array', l2) : b \in Blocks /\ (b \in used => b \in BlocksOf(array, items[i][f])),
         \A b \in used \ BlocksOf(array, items[i][f]) : array'[b] = array[b] /\ text'[b] = text[b],
         \/ Array!OneMore(Shows(array, text, items[i][f]), Shows(array', text', l2), Texts)
         \/ Array!OneLess(Shows(array, text, items[i][f]), Shows(array', text', l2))
  PROVE  ArrayInv' /\ ArrayStep
<1> DEFINE it2 == items'
           ar2 == array'
           tx2 == text'
           us2 == used'
           p == AllShown(items, arrayCount, array, text)
           x == Shows(ar2, tx2, l2)
<1>1. /\ HeapSound(items, arrayCount, used, array)
      /\ it2 = Relisted(items, i, f, l2) /\ ar2 \in Contents /\ StringsSound(ar2, l2)
      /\ us2 = Swapped(used, BlocksOf(array, items[i][f]), BlocksOf(ar2, l2))
      /\ \A b \in BlocksOf(ar2, l2) : b \in Blocks /\ (b \in used => b \in BlocksOf(array, items[i][f]))
      /\ \A b \in used \ BlocksOf(array, items[i][f]) : ar2[b] = array[b] /\ tx2[b] = text[b]
  BY DEF ArrayInv
<1> HIDE DEF it2, ar2, tx2, us2, p, x
<1>2. /\ HeapSound(it2, arrayCount, us2, ar2)
      /\ AllShown(it2, arrayCount, ar2, tx2) = Relisted(p, i, f, x)
  BY ONLY <1>1, i \in 1 .. arrayCount, f \in Fields, ListChanged DEF p, x
<1>3. /\ p[i][f] = Shows(array, text, items[i][f]) /\ Relisted(p, i, f, x)[i][f] = x
      /\ Relisted(p, i, f, x) = [p EXCEPT ![i][f] = x]
  BY ONLY RelistedIs, i \in 1 .. arrayCount, f \in Fields DEF p
<1>4. ArrayInv'
  BY <1>2 DEF ArrayInv, it2, ar2, us2
<1>5. ArrayShown = p /\ ArrayShown' = Relisted(p, i, f, x)
  BY <1>2 DEF ArrayShown, p, it2, ar2, tx2
<1>6. ArrayShown'[i][f] = x /\ ArrayShown[i][f] = Shows(array, text, items[i][f])
  BY ONLY <1>3, <1>5
<1>7. ArrayShown' = [ArrayShown EXCEPT ![i][f] = ArrayShown'[i][f]]
  BY ONLY <1>3, <1>5, <1>6
<1>8. \/ Array!OneMore(ArrayShown[i][f], ArrayShown'[i][f], Texts)
      \/ Array!OneLess(ArrayShown[i][f], ArrayShown'[i][f])
  BY <1>6 DEF x, ar2, tx2
<1> QED
  BY <1>4, <1>7, <1>8 DEF ArrayStep

LEMMA StringAdds ==
  ASSUME ArrayInv, Array!Room, NEW i \in 1 .. arrayCount, NEW f \in Fields, NEW value \in Texts,
         Array!stringlist_add(i, f, value)
  PROVE  ArrayInv' /\ ArrayStep
<1>l. PICK l : l = items[i][f]
  OBVIOUS
<1>a. PICK at : at = IF l.items = 0 THEN Array!Min(Blocks \ used) ELSE l.items
  OBVIOUS
<1>s. PICK string : string = Array!Min(Blocks \ (used \cup {at}))
  OBVIOUS
<1>0. /\ HeapSound(items, arrayCount, used, array) /\ text \in [Blocks -> Texts \cup {0}] /\ ~fault
      /\ StringsSound(array, l) /\ array \in Contents /\ l \in ListRecord
      /\ used \subseteq Blocks /\ BlocksOf(array, l) \subseteq used
  <2>1. BlocksOf(array, items[i][f]) \subseteq used
    BY DEF ArrayInv, HeapSound, AllBlocks
  <2> QED
    BY <1>l, <2>1 DEF ArrayInv, HeapSound, StringsSound
<1>1. /\ used' = used \cup {at, string} /\ text' = Typed(text, string, value)
      /\ array' = Stored(array, at, l, string) /\ items' = Relisted(items, i, f, Longer(l, at))
      /\ arrayCount' = arrayCount /\ fault' = fault
  BY <1>l, <1>a, <1>s
     DEF Array!stringlist_add, Array!NULL, Typed, Stored, Relisted, Longer, Capacity
<1>2. Blocks \ used # {} /\ Blocks \ (used \cup {at}) # {}
  BY TwoFree DEF Array!Room
<1>3. /\ at \in Blocks /\ (l.items = 0 => at \notin used) /\ (l.items # 0 => at = l.items /\ at \in BlocksOf(array, l))
  <2>1. CASE l.items = 0
    <3>1. Array!Min(Blocks \ used) \in Blocks \ used
      BY <1>2, LowestFree
    <3> QED
      BY <1>a, <2>1, <3>1
  <2>2. CASE l.items # 0
    BY <1>0, <1>a, <2>2 DEF BlocksOf
  <2> QED
    BY <2>1, <2>2
<1>4. string \in Blocks /\ string \notin used /\ string # at
  <2>1. Array!Min(Blocks \ (used \cup {at})) \in Blocks \ (used \cup {at})
    BY <1>2, LowestFree
  <2> QED
    BY <1>s, <2>1
<1> DEFINE ar2 == Stored(array, at, l, string)
           tx2 == Typed(text, string, value)
           l2 == Longer(l, at)
<1>5. /\ ar2 \in Contents /\ StringsSound(ar2, l2)
      /\ BlocksOf(ar2, l2) = BlocksOf(array, l) \cup {at, string}
      /\ Shows(ar2, tx2, l2) = Append(Shows(array, text, l), value)
      /\ \A b \in Blocks : b # at => ar2[b] = array[b]
  <2>1. string \in Blocks \ BlocksOf(array, l) /\ string # at /\ at \in Blocks
    BY <1>0, <1>3, <1>4
  <2>2. IF l.items = 0 THEN TRUE ELSE at = l.items
    BY <1>3
  <2> QED
    BY ONLY <1>0, <2>1, <2>2, value \in Texts, StringAdded
<1>6. \A b \in used \ BlocksOf(array, l) : ar2[b] = array[b] /\ tx2[b] = text[b]
  BY <1>0, <1>3, <1>4, <1>5 DEF Typed
<1>7. used' = Swapped(used, BlocksOf(array, l), BlocksOf(ar2, l2))
  BY <1>0, <1>1, <1>5 DEF Swapped
<1>8. tx2 \in [Blocks -> Texts \cup {0}]
  BY <1>0 DEF Typed
<1>9. \A b \in BlocksOf(ar2, l2) : b \in Blocks /\ (b \in used => b \in BlocksOf(array, l))
  BY <1>0, <1>3, <1>4, <1>5
<1>10. Array!OneMore(Shows(array, text, l), Shows(ar2, tx2, l2), Texts)
  BY <1>5 DEF Array!OneMore
<1> HIDE DEF ar2, tx2, l2
<1>11. array' = ar2 /\ text' = tx2 /\ items' = Relisted(items, i, f, l2) /\ ~fault'
  BY <1>0, <1>1 DEF ar2, tx2, l2
<1>12. /\ arrayCount' = arrayCount /\ ~fault' /\ items' = Relisted(items, i, f, l2)
       /\ array' \in Contents /\ StringsSound(array', l2) /\ text' \in [Blocks -> Texts \cup {0}]
       /\ used' = Swapped(used, BlocksOf(array, items[i][f]), BlocksOf(array', l2))
  BY ONLY <1>l, <1>1, <1>5, <1>7, <1>8, <1>11
<1>13. /\ \A b \in BlocksOf(array', l2) : b \in Blocks /\ (b \in used => b \in BlocksOf(array, items[i][f]))
       /\ \A b \in used \ BlocksOf(array, items[i][f]) : array'[b] = array[b] /\ text'[b] = text[b]
  BY ONLY <1>l, <1>6, <1>9, <1>11
<1>14. Array!OneMore(Shows(array, text, items[i][f]), Shows(array', text', l2), Texts)
  BY ONLY <1>l, <1>10, <1>11
<1> QED
  BY ONLY ArrayInv, i \in 1 .. arrayCount, f \in Fields, <1>12, <1>13, <1>14, OneListStep

LEMMA StringGoes ==
  ASSUME ArrayInv, NEW i \in 1 .. arrayCount, NEW f \in Fields, NEW index \in 1 .. items[i][f].count,
         Array!stringlist_remove(i, f, index)
  PROVE  ArrayInv' /\ ArrayStep
<1>l. PICK l : l = items[i][f]
  OBVIOUS
<1>0. /\ HeapSound(items, arrayCount, used, array) /\ text \in [Blocks -> Texts \cup {0}] /\ ~fault
      /\ StringsSound(array, l) /\ array \in Contents /\ l \in ListRecord /\ index \in 1 .. l.count
      /\ used \subseteq Blocks /\ BlocksOf(array, l) \subseteq used /\ l.items # 0
      /\ items \in Seq([Fields -> ListRecord]) /\ arrayCount \in 0 .. Len(items)
  <2>1. BlocksOf(array, items[i][f]) \subseteq used
    BY DEF ArrayInv, HeapSound, AllBlocks
  <2>2. StringsSound(array, l) /\ index \in 1 .. l.count
    BY <1>l DEF ArrayInv, HeapSound
  <2>3. l.items # 0
    BY <2>2 DEF StringsSound
  <2> QED
    BY <1>l, <2>1, <2>2, <2>3 DEF ArrayInv, HeapSound, StringsSound
<1> DEFINE x == Dropped(array, l, index)
           ar2 == Closed(array, l, index)
           tx2 == Erased(text, x)
           l2 == Shorter(l)
<1>1. /\ used' = used \ x /\ text' = tx2 /\ array' = ar2
      /\ arrayCount' = arrayCount /\ fault' = (fault \/ ~(x \subseteq used))
  BY <1>l DEF Array!stringlist_remove, Array!free, Array!NULL, Erased, Dropped, Closed
<1>2. items' = Relisted(items, i, f, l2)
  <2>1. items' = [items EXCEPT ![i][f].count = @ - 1]
    BY DEF Array!stringlist_remove
  <2> QED
    BY <1>l, <2>1 DEF Relisted, Shorter
<1>3. /\ ar2 \in Contents /\ StringsSound(ar2, l2) /\ x \subseteq BlocksOf(array, l)
      /\ BlocksOf(ar2, l2) = BlocksOf(array, l) \ x
      /\ Shows(ar2, tx2, l2) = RemoveAt(Shows(array, text, l), index)
      /\ \A b \in Blocks : b # l.items => ar2[b] = array[b]
  BY ONLY <1>0, StringRemoved
<1>4. \A b \in used \ BlocksOf(array, l) : ar2[b] = array[b] /\ tx2[b] = text[b]
  <2>1. l.items \in BlocksOf(array, l)
    BY <1>0 DEF BlocksOf
  <2> HIDE DEF x
  <2> QED
    BY <1>0, <1>3, <2>1 DEF Erased
<1>5. tx2 \in [Blocks -> Texts \cup {0}]
  BY <1>0 DEF Erased
<1>6. Array!OneLess(Shows(array, text, l), Shows(ar2, tx2, l2))
  <2>1. index \in DOMAIN Shows(array, text, l)
    BY <1>0 DEF Shows
  <2>2. \A s, j : Array!RemoveAt(s, j) = RemoveAt(s, j)
    BY DEF Array!RemoveAt, RemoveAt
  <2> QED
    BY <1>3, <2>1, <2>2 DEF Array!OneLess
<1> HIDE DEF x, ar2, tx2, l2
<1>7. used' = Swapped(used, BlocksOf(array, l), BlocksOf(ar2, l2)) /\ ~fault'
  BY <1>0, <1>1, <1>3 DEF Swapped
<1>8. \A b \in BlocksOf(ar2, l2) : b \in Blocks /\ (b \in used => b \in BlocksOf(array, l))
  BY <1>0, <1>3
<1> QED
  BY <1>l, <1>1, <1>2, <1>3, <1>4, <1>5, <1>6, <1>7, <1>8, OneListStep

LEMMA ArraySteps ==
  ASSUME ArrayInv, [Array!Next]_arrayVars
  PROVE  ArrayInv' /\ (ArrayStep \/ UNCHANGED arrayVars)
<1>1. ASSUME NEW i \in 1 .. arrayCount, NEW f \in Fields, Array!edit_stringlist_menu(i, f)
      PROVE  ArrayInv' /\ ArrayStep
  BY <1>1, StringAdds, StringGoes DEF Array!edit_stringlist_menu
<1>2. CASE Array!Next
  BY <1>1, <1>2, ContactAdds, ContactGoes
     DEF Array!Next, Array!edit_contact_flow, Array!delete_contact_flow
<1>3. CASE UNCHANGED arrayVars
  BY <1>3 DEF arrayVars, ArrayInv
<1> QED
  BY <1>2, <1>3

LEMMA ArraySound == ArrayInv => Array!HeapOwned
<1> SUFFICES ASSUME ArrayInv PROVE Array!HeapOwned
  OBVIOUS
<1>0. /\ \A i \in 1 .. arrayCount, f \in Fields : StringsSound(array, items[i][f])
      /\ used = AllBlocks(items, arrayCount, array) /\ ListsApart(items, arrayCount, array) /\ ~fault
  BY DEF ArrayInv, HeapSound
<1>1. \A i, f : Array!Owned(i, f) = BlocksOf(array, items[i][f])
  BY DEF Array!Owned, Array!Strings, Array!NULL, BlocksOf
<1>2. ASSUME NEW l \in Array!Lists
      PROVE  l[1] \in 1 .. arrayCount /\ l[2] \in Fields /\ l = <<l[1], l[2]>>
  BY DEF Array!Lists
<1>3. ASSUME NEW i \in 1 .. arrayCount, NEW f \in Fields, items[i][f].items # 0
      PROVE  items[i][f].items \in used /\ Len(array[items[i][f].items]) = items[i][f].capacity
  <2>1. items[i][f].items \in BlocksOf(array, items[i][f])
    BY <1>3 DEF BlocksOf
  <2> QED
    BY <1>0, <1>3, <2>1 DEF StringsSound, AllBlocks
<1>4. used = UNION {Array!Owned(l[1], l[2]) : l \in Array!Lists}
  <2>1. ASSUME NEW b \in used PROVE \E l \in Array!Lists : b \in Array!Owned(l[1], l[2])
    <3>1. PICK i \in 1 .. arrayCount, f \in Fields : b \in BlocksOf(array, items[i][f])
      BY ONLY <1>0, <2>1 DEF AllBlocks
    <3>2. <<i, f>> \in Array!Lists
      BY DEF Array!Lists
    <3> QED
      BY <1>1, <3>1, <3>2
  <2>2. ASSUME NEW l \in Array!Lists, NEW b \in Array!Owned(l[1], l[2]) PROVE b \in used
    <3>1. l[1] \in 1 .. arrayCount /\ l[2] \in Fields /\ b \in BlocksOf(array, items[l[1]][l[2]])
      BY <1>1, <1>2, <2>2
    <3> QED
      BY ONLY <1>0, <3>1 DEF AllBlocks
  <2> QED
    BY ONLY <2>1, <2>2
<1>5. ASSUME NEW l \in Array!Lists, NEW q \in Array!Lists, l # q
      PROVE  Array!Owned(l[1], l[2]) \cap Array!Owned(q[1], q[2]) = {}
  <2>1. /\ l[1] \in 1 .. arrayCount /\ l[2] \in Fields /\ q[1] \in 1 .. arrayCount /\ q[2] \in Fields
        /\ l[1] # q[1] \/ l[2] # q[2]
    BY <1>2, <1>5
  <2>2. BlocksOf(array, items[l[1]][l[2]]) \cap BlocksOf(array, items[q[1]][q[2]]) = {}
    BY ONLY <1>0, <2>1 DEF ListsApart
  <2> QED
    BY <1>1, <2>2
<1>6. \A l \in Array!Lists :
        items[l[1]][l[2]].items # 0 =>
          /\ items[l[1]][l[2]].items \in used
          /\ Len(array[items[l[1]][l[2]].items]) = items[l[1]][l[2]].capacity
  BY <1>2, <1>3
<1> QED
  BY <1>0, <1>4, <1>5, <1>6 DEF Array!HeapOwned, Array!NULL

-----------------------------------------------------------------------------
(* The masks: each file has one, and the operator that stays is known.      *)
MaskInv == oper \in {"+", "-", "="} /\ masks = [f \in Files |-> masks[f]]

(* A bit of a class is in what a word stands for when the word means the    *)
(* class and the bit is one of its letters: classes are three bits apart.   *)
LEMMA WordBits ==
  ASSUME NEW who \in SUBSET Modes!Classes, NEW bits \in SUBSET (0 .. 2),
         NEW c \in Modes!Classes, NEW b \in 0 .. 2
  PROVE  b + Modes!Shift[c] \in Modes!InClasses(bits, who) <=> c \in Modes!Meant(who) /\ b \in bits
<1>1. Modes!Meant(who) \subseteq Modes!Classes
  BY DEF Modes!Meant
<1>2. \A d \in Modes!Classes, e \in 0 .. 2 : b + Modes!Shift[c] = e + Modes!Shift[d] <=> c = d /\ b = e
  BY DEF Modes!Classes, Modes!Shift
<1>3. b + Modes!Shift[c] \in Modes!InClasses(bits, who)
        <=> \E d \in Modes!Meant(who) : \E e \in bits : b + Modes!Shift[c] = e + Modes!Shift[d]
  <2>1. \A d : b + Modes!Shift[c] \in Modes!Shifted(bits, Modes!Shift[d])
                 <=> \E e \in bits : b + Modes!Shift[c] = e + Modes!Shift[d]
    BY DEF Modes!Shifted
  <2>2. b + Modes!Shift[c] \in Modes!InClasses(bits, who)
          <=> \E d \in Modes!Meant(who) : b + Modes!Shift[c] \in Modes!Shifted(bits, Modes!Shift[d])
    BY DEF Modes!InClasses
  <2> QED
    BY ONLY <2>1, <2>2
<1> QED
  BY <1>1, <1>2, <1>3

(* A word says to each class what chmod's words do. *)
LEMMA WordSays ==
  ASSUME NEW who \in SUBSET Modes!Classes, NEW perms \in SUBSET (0 .. 2), NEW c \in Modes!Classes,
         NEW mask
  PROVE  /\ Modes!Has(mask \cup Modes!readmaskfromstring(who, perms), c) = Modes!Says(mask, c, who, "+", perms)
         /\ Modes!Has(mask \ Modes!readmaskfromstring(who, perms), c) = Modes!Says(mask, c, who, "-", perms)
         /\ Modes!Has(Modes!Assigned(mask, who, perms), c) = Modes!Says(mask, c, who, "=", perms)
<1>1. \A b \in 0 .. 2 :
        /\ b + Modes!Shift[c] \in Modes!readmaskfromstring(who, perms) <=> c \in Modes!Meant(who) /\ b \in perms
        /\ b + Modes!Shift[c] \in Modes!maskequal(who) <=> c \in Modes!Meant(who)
  BY WordBits DEF Modes!readmaskfromstring, Modes!maskequal
<1>2. c \in Modes!Meant(who) <=> ~(who # {} /\ c \notin who)
  BY DEF Modes!Meant
<1>3. Modes!Has(mask \cup Modes!readmaskfromstring(who, perms), c) = Modes!Says(mask, c, who, "+", perms)
  BY <1>1, <1>2 DEF Modes!Has, Modes!Says
<1>4. Modes!Has(mask \ Modes!readmaskfromstring(who, perms), c) = Modes!Says(mask, c, who, "-", perms)
  BY <1>1, <1>2 DEF Modes!Has, Modes!Says
<1>5. Modes!Has(Modes!Assigned(mask, who, perms), c) = Modes!Says(mask, c, who, "=", perms)
  BY <1>1, <1>2 DEF Modes!Has, Modes!Says, Modes!Assigned
<1> QED
  BY <1>3, <1>4, <1>5

(* An octal digit has three bits, so that it stays in its class. *)
LEMMA OctalBits ==
  ASSUME NEW part \in 0 .. 7
  PROVE  Modes!Bits(part) \subseteq 0 .. 2
<1>1. part \div 8 = 0 /\ 0 % 2 = 0
  OBVIOUS
<1>2. Modes!Worth[4] = 8
  BY DEF Modes!Worth
<1>3. 3 \notin Modes!Bits(part)
  BY <1>1, <1>2 DEF Modes!Bits
<1> QED
  BY <1>3 DEF Modes!Bits

LEMMA NumberSays ==
  ASSUME NEW digits \in [1 .. 3 -> 0 .. 9], Modes!Octal(digits), NEW c \in Modes!Classes
  PROVE  Modes!Has(Modes!readmaskfromint(digits), c) = Modes!Bits(Modes!Digit(digits, c))
<1> DEFINE bits(i) == Modes!Bits(digits[i])
<1>1. \A i \in 1 .. 3 : bits(i) \subseteq 0 .. 2
  BY OctalBits DEF Modes!Octal
<1>2. PICK i \in 1 .. 3 : Modes!Shift[c] = 3 * (i - 1) /\ Modes!Digit(digits, c) = digits[i]
  <2>1. Modes!Digit(digits, c) = digits[Modes!Shift[c] \div 3 + 1]
    BY DEF Modes!Digit
  <2>2. CASE c = "o"
    BY <2>1, <2>2 DEF Modes!Shift
  <2>3. CASE c = "g"
    BY <2>1, <2>3 DEF Modes!Shift
  <2>4. CASE c = "u"
    BY <2>1, <2>4 DEF Modes!Shift
  <2> QED
    BY <2>2, <2>3, <2>4 DEF Modes!Classes
<1> HIDE DEF bits
<1>3. \A x : x \in Modes!readmaskfromint(digits) <=> \E j \in 1 .. 3 : \E e \in bits(j) : x = e + 3 * (j - 1)
  BY DEF Modes!readmaskfromint, Modes!Shifted, bits
<1>4. ASSUME NEW b \in 0 .. 2
      PROVE  b + 3 * (i - 1) \in Modes!readmaskfromint(digits) <=> b \in bits(i)
  BY <1>1, <1>3
<1>5. Modes!Has(Modes!readmaskfromint(digits), c) = {b \in 0 .. 2 : b + 3 * (i - 1) \in Modes!readmaskfromint(digits)}
  BY <1>2 DEF Modes!Has
<1>6. Modes!Bits(Modes!Digit(digits, c)) = bits(i)
  BY <1>2 DEF bits
<1> QED
  BY <1>1, <1>4, <1>5, <1>6

MaskStep ==
  \E f \in Files :
    /\ \A g \in Files \ {f} : masks'[g] = masks[g]
    /\ \/ \E who \in Whos, perms \in Perms : \A c \in Modes!Classes :
            Modes!Has(masks'[f], c) = Modes!Says(masks[f], c, who, oper', perms)
       \/ oper' = oper /\ \E digits \in Numbers :
            \/ \A c \in Modes!Classes : Modes!Has(masks'[f], c) = Modes!Bits(Modes!Digit(digits, c))
            \/ ~Modes!Octal(digits) /\ masks'[f] = Modes!readmaskfromint(digits)

LEMMA MasksStart == Modes!collect_masks => MaskInv
BY DEF Modes!collect_masks, MaskInv

LEMMA MaskSteps ==
  ASSUME MaskInv, [Modes!Next]_maskVars
  PROVE  MaskInv' /\ (MaskStep \/ UNCHANGED maskVars)
<1>1. ASSUME NEW chosen \in Files \cup {0}, NEW digits \in Numbers, Modes!Number(chosen, digits)
      PROVE  MaskInv' /\ MaskStep
  <2> DEFINE f == Modes!Chosen(chosen)
  <2>1. f \in Files /\ digits \in [1 .. 3 -> 0 .. 9]
    BY <1>1, LettersAssumption DEF Modes!Chosen
  <2>2. /\ oper' = oper /\ masks' = [masks EXCEPT ![f] = Modes!readmaskfromint(digits)]
    BY <1>1 DEF Modes!Number
  <2> HIDE DEF f
  <2>3. /\ MaskInv' /\ masks'[f] = Modes!readmaskfromint(digits)
        /\ \A g \in Files \ {f} : masks'[g] = masks[g]
    BY <2>1, <2>2 DEF MaskInv
  <2>4. Modes!Octal(digits) => \A c \in Modes!Classes : Modes!Has(masks'[f], c) = Modes!Bits(Modes!Digit(digits, c))
    BY <2>1, <2>3, NumberSays
  <2> QED
    BY <1>1, <2>1, <2>2, <2>3, <2>4 DEF MaskStep
<1>2. ASSUME NEW chosen \in Files \cup {0}, NEW who \in Whos, NEW sign \in {"+", "-", "=", Modes!None},
             NEW perms \in Perms, Modes!Word(chosen, who, sign, perms)
      PROVE  MaskInv' /\ MaskStep
  <2> DEFINE f == Modes!Chosen(chosen)
  <2>1. f \in Files /\ who \in SUBSET Modes!Classes /\ perms \in SUBSET (0 .. 2)
    BY <1>2, LettersAssumption DEF Modes!Chosen
  <2>2. PICK mask : mask = IF oper' = "+" THEN masks[f] \cup Modes!readmaskfromstring(who, perms)
                           ELSE IF oper' = "-" THEN masks[f] \ Modes!readmaskfromstring(who, perms)
                           ELSE Modes!Assigned(masks[f], who, perms)
    OBVIOUS
  <2>3. oper' \in {"+", "-", "="} /\ masks' = [masks EXCEPT ![f] = mask]
    BY <1>2, <2>2 DEF Modes!Word, Modes!None, MaskInv
  <2> HIDE DEF f
  <2>4. /\ MaskInv' /\ masks'[f] = mask
        /\ \A g \in Files \ {f} : masks'[g] = masks[g]
    BY <2>1, <2>3 DEF MaskInv
  <2>5. \A c \in Modes!Classes : Modes!Has(mask, c) = Modes!Says(masks[f], c, who, oper', perms)
    <3> SUFFICES ASSUME NEW c \in Modes!Classes
                 PROVE  Modes!Has(mask, c) = Modes!Says(masks[f], c, who, oper', perms)
      OBVIOUS
    <3>1. PICK old : old = masks[f]
      OBVIOUS
    <3>2. /\ Modes!Has(old \cup Modes!readmaskfromstring(who, perms), c) = Modes!Says(old, c, who, "+", perms)
          /\ Modes!Has(old \ Modes!readmaskfromstring(who, perms), c) = Modes!Says(old, c, who, "-", perms)
          /\ Modes!Has(Modes!Assigned(old, who, perms), c) = Modes!Says(old, c, who, "=", perms)
      BY ONLY <2>1, c \in Modes!Classes, WordSays
    <3>3. CASE oper' = "+"
      BY <2>2, <3>1, <3>2, <3>3
    <3>4. CASE oper' = "-"
      BY <2>2, <3>1, <3>2, <3>4
    <3>5. CASE oper' = "="
      BY <2>2, <3>1, <3>2, <3>5
    <3> QED
      BY <2>3, <3>3, <3>4, <3>5
  <2> QED
    BY <1>2, <2>1, <2>4, <2>5 DEF MaskStep
<1>3. CASE Modes!Next
  BY <1>1, <1>2, <1>3 DEF Modes!Next, Modes!Command
<1>4. CASE UNCHANGED maskVars
  BY <1>4 DEF maskVars, MaskInv
<1> QED
  BY <1>3, <1>4

-----------------------------------------------------------------------------
(* The exercises side by side. *)
BookInv == ListInv /\ QueueInv /\ ArrayInv /\ MaskInv

LEMMA BookStarts == BookInit => BookInv
<1>1. Queue!createPriorityQueue => QueueInv
  BY QueueStarts DEF QueueInv
<1>2. List!Init => ListInv
  BY ListStarts DEF ListInv
<1> QED
  BY <1>1, <1>2, ArrayStarts, MasksStart DEF BookInit, BookInv

LEMMA OneProgram ==
  ASSUME [BookStep]_bookVars
  PROVE  [List!Next]_listVars /\ [Queue!Next]_queueVars /\ [Array!Next]_arrayVars /\ [Modes!Next]_maskVars
BY DEF BookStep, In, bookVars

LEMMA BookKeeps == BookInv /\ [BookStep]_bookVars => BookInv'
<1> SUFFICES ASSUME BookInv, [BookStep]_bookVars PROVE BookInv'
  OBVIOUS
<1>1. ListInv /\ QueueInv /\ ArrayInv /\ MaskInv
  BY DEF BookInv
<1> QED
  BY <1>1, OneProgram, ListKept, QueueKept, ArraySteps, MaskSteps DEF BookInv

LEMMA BookKept == BookSpec => []BookInv
BY BookStarts, BookKeeps, PTL DEF BookSpec

(* For any entries, names, priorities, contacts, fields and heap: the       *)
(* list's head, tail and links in both directions are those of one          *)
(* sequence of entries (insertEntry and popEntry of pract4_1's              *)
(* phonebook.c), the getters of the queue find the nearest entry            *)
(* (getWithPriorityAtLeast of priorityqueue.c), and each block of the heap  *)
(* belongs to one list of one contact and is freed once (stringlist.c and   *)
(* contact_free of pract2_1's phonebook.c).                                 *)
THEOREM StructuresStayKept == BookSpec => []StructuresKept
<1>1. BookInv => StructuresKept
  BY ListSound, QueueSound, ArraySound DEF BookInv, StructuresKept
<1> QED
  BY <1>1, BookKept, PTL

(* The list and the queue implement StableOrder. *)
LEMMA ListImplements == BookSpec => List!OrderSpec
<1>1. BookInit => List!Order!Init
  BY OrderStarts DEF BookInit
<1>2. BookInv /\ [BookStep]_bookVars => [List!Order!Next]_<<EntryOrder, RankOf(listName)>>
  BY OneProgram, OrderSteps DEF BookInv
<1>3. EntryOrder = [i \in 1 .. listCount |-> List!At(List!List, i - 1)]
      /\ RankOf(listName) = [e \in ListEntries |-> -listName[e]]
  BY DEF EntryOrder, RankOf
<1> QED
  BY <1>1, <1>2, BookKept, PTL DEF BookSpec, List!OrderSpec, List!Order!Spec, EntryOrder, RankOf

LEMMA QueueImplements == BookSpec => Queue!OrderSpec
<1>1. BookInit => Queue!Order!Init
  BY ItemStarts DEF BookInit
<1>2. BookInv /\ [BookStep]_bookVars => [Queue!Order!Next]_<<Queue!Queue, priority>>
  BY OneProgram, ItemSteps DEF BookInv
<1> QED
  BY <1>1, <1>2, BookKept, PTL DEF BookSpec, Queue!OrderSpec, Queue!Order!Spec

LEMMA RemovalsTakeOldest == BookSpec => Queue!TakesOldest
<1>1. BookInv /\ [BookStep]_bookVars
        => [call' # call =>
              LET wanted == {k \in DOMAIN Queue!Queue : Queue!Asked(Queue!Queue[k])}
              IN IF wanted = {} THEN call'.found = Nothing
                 ELSE \E k \in wanted : call'.found = Queue!Queue[k] /\ \A j \in wanted : k <= j]_Queue!vars
  BY OneProgram, OldestTaken DEF BookInv
<1> QED
  BY <1>1, BookKept, PTL DEF BookSpec, Queue!TakesOldest

LEMMA ArrayShowsOneChange == BookSpec => Array!ShownSpec
<1>1. BookInv /\ [BookStep]_bookVars
        => [\/ Array!OneMore(Array!Shown, Array!Shown', {[f \in Fields |-> <<>>]}) \/ Array!OneLess(Array!Shown, Array!Shown')
            \/ \E i \in 1 .. arrayCount, f \in Fields :
                 /\ arrayCount' = arrayCount
                 /\ Array!OneMore(Array!Shown[i][f], Array!Shown'[i][f], Texts)
                      \/ Array!OneLess(Array!Shown[i][f], Array!Shown'[i][f])
                 /\ Array!Shown' = [Array!Shown EXCEPT ![i][f] = Array!Shown'[i][f]]]_Array!vars
  <2>1. UNCHANGED arrayVars => UNCHANGED Array!vars
    BY DEF arrayVars, Array!vars, Array!heap
  <2>2. BookInv /\ [BookStep]_bookVars => ArrayStep \/ UNCHANGED arrayVars
    BY OneProgram, ArraySteps DEF BookInv
  <2> QED
    BY <2>1, <2>2, ShownIs DEF ArrayStep
<1> QED
  BY <1>1, BookKept, PTL DEF BookSpec, Array!ShownSpec

LEMMA CommandsChangeOne == BookSpec => Modes!ChmodSpec
<1>1. BookInv /\ [BookStep]_bookVars
        => [\E f \in Files :
              /\ \A g \in Files \ {f} : masks'[g] = masks[g]
              /\ \/ \E who \in Whos, perms \in Perms : \A c \in Modes!Classes :
                      Modes!Has(masks'[f], c) = Modes!Says(masks[f], c, who, oper', perms)
                 \/ oper' = oper /\ \E digits \in Numbers :
                      \/ \A c \in Modes!Classes : Modes!Has(masks'[f], c) = Modes!Bits(Modes!Digit(digits, c))
                      \/ ~Modes!Octal(digits) /\ masks'[f] = Modes!readmaskfromint(digits)]_Modes!vars
  BY OneProgram, MaskSteps DEF BookInv, MaskStep, maskVars, Modes!vars
<1> QED
  BY <1>1, BookKept, PTL DEF BookSpec, Modes!ChmodSpec

(* For the same constants: the list keeps namesakes and the queue equal     *)
(* priorities in the order of arrival, as StableOrder does (insertEntry and *)
(* moveToRightPlace of pract4_1's phonebook.c, insert of priorityqueue.c);  *)
(* a removal takes the oldest entry asked for (popEntry); what the array's  *)
(* user sees changes in one place at a time (contactlist_remove,            *)
(* stringlist_add, stringlist_remove); a command to pract3_1's main.c       *)
(* changes one file's mask as chmod would (readmaskfromstring,              *)
(* readmaskfromint), unless a digit is no octal one.                        *)
THEOREM ContentsStayKept == BookSpec => ContentsKept
BY ListImplements, QueueImplements, RemovalsTakeOldest, ArrayShowsOneChange, CommandsChangeOne
   DEF ContentsKept
=============================================================================
