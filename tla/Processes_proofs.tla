--------------------------- MODULE Processes_proofs ---------------------------
(***************************************************************************)
(* Proofs about the four programs of Processes, for all values of their    *)
(* constants.                                                              *)
(*                                                                         *)
(* FileCopy, for all files, argument lists, chunk sizes and capacities of  *)
(* the pipe. The invariant says at which place of the protocol the child   *)
(* is, and that what is in the pipe and what the parent is about to write  *)
(* lead from there, write by write, to the place where the parent is. The  *)
(* writes are whole, so each of the child's reads takes the items of one   *)
(* write. The chain breaks when the parent is killed and the child has     *)
(* read all it left; from then on only what the child's variables say of   *)
(* the files counts.                                                       *)
(*                                                                         *)
(* Cuckoo, for any number of tasks: the types, and the account of lines,   *)
(* which each step moves by as much on both sides. BroadcastChat, for any  *)
(* peers, nicknames and sizes of sockets: what each peer has still to say  *)
(* are the last of its lines, what it said is a selection of the air, and  *)
(* so is what it showed, up to where its socket begins. Sniffer, for any   *)
(* kinds of packets: the same of its file and the packets it took.         *)
(***************************************************************************)
EXTENDS Processes, SequenceTheorems, FiniteSetTheorems, TLAPS

-----------------------------------------------------------------------------
(* The protocol for an argument list A: before a place s, a write of items *)
(* leads to a place t. A place names what is written next: between files,  *)
(* and inside file i of A with off cells of it sent, n of them announced.  *)

At(l, i, off, n) == [at |-> l, i |-> i, off |-> off, n |-> n]
Place == [at : {"between", "name", "open", "size", "sized", "cells", "end"},
          i : Nat \ {0}, off : Nat, n : 0 .. CHUNK_SIZE]

Separate(A) == \A i, j \in DOMAIN A : CopyOf[A[i]] # A[j]
Skipped(A, i, j) == \A h \in i .. j - 1 : A[h] \in Missing

BeginsFile(A, s, it, t) ==
  /\ s.at = "between" /\ it = Command("prepare_for_filename")
  /\ \E j \in s.i .. Len(A) : A[j] \notin Missing /\ Skipped(A, s.i, j) /\ t = At("name", j, 0, 0)
EndsAll(A, s, it, t) ==
  /\ s.at = "between" /\ it = Command("end_of_transmission")
  /\ s.i <= Len(A) + 1 /\ Skipped(A, s.i, Len(A) + 1) /\ t = At("end", Len(A) + 1, 0, 0)
Names1(A, s, it, t) == s.at = "name" /\ it = Name(A[s.i]) /\ t = At("open", s.i, 0, 0)
Asks(s, it, t) ==
  s.at = "open" /\ it = Command("prepare_for_size") /\ t = At("size", s.i, s.off, 0)
Closes(A, s, it, t) ==
  /\ s.at = "size" /\ it = Size(0) /\ t = At("between", s.i + 1, 0, 0)
  /\ Separate(A) => s.off = Len(Contents[A[s.i]])
Sizes(s, it, t) ==
  s.at = "size" /\ \E n \in 1 .. CHUNK_SIZE : it = Size(n) /\ t = At("sized", s.i, s.off, n)
Warns(s, it, t) ==
  s.at = "sized" /\ it = Command("prepare_for_message") /\ t = At("cells", s.i, s.off, s.n)
Single(A, s, it, t) ==
  \/ BeginsFile(A, s, it, t) \/ EndsAll(A, s, it, t) \/ Names1(A, s, it, t) \/ Asks(s, it, t)
  \/ Closes(A, s, it, t) \/ Sizes(s, it, t) \/ Warns(s, it, t)

(* The cells of a chunk, items lo + 1 to hi of q. *)
Chunk(A, s, q, lo, hi, t) ==
  /\ s.at = "cells" /\ s.n > 0 /\ hi = lo + s.n /\ t = At("open", s.i, s.off + s.n, 0)
  /\ \A x \in 1 .. s.n : \E v \in Values :
       q[lo + x] = Cell(v) /\ (Separate(A) => v = Contents[A[s.i]][s.off + x])
  /\ Separate(A) => s.off + s.n <= Len(Contents[A[s.i]])

Unit(A, s, q, lo, hi, t) ==
  (hi = lo + 1 /\ Single(A, s, q[hi], t)) \/ Chunk(A, s, q, lo, hi, t)

(* The items q lead from a to b, cut into writes. *)
ChainBy(A, a, q, b, m, cut, st) ==
  /\ cut[1] = 0 /\ cut[m + 1] = Len(q) /\ st[1] = a /\ st[m + 1] = b
  /\ \A i, j \in 1 .. m + 1 : i < j => cut[i] < cut[j]
  /\ \A j \in 1 .. m : Unit(A, st[j], q, cut[j], cut[j + 1], st[j + 1])
Chain(A, a, q, b) ==
  \E m \in Nat : \E cut \in [1 .. m + 1 -> 0 .. Len(q)], st \in [1 .. m + 1 -> Place] :
    ChainBy(A, a, q, b, m, cut, st)

(* The writes w lead from b to c. *)
Plan(A, b, w, c) ==
  \E st \in [1 .. Len(w) + 1 -> Place] :
    /\ st[1] = b /\ st[Len(w) + 1] = c
    /\ \A j \in DOMAIN w : Unit(A, st[j], w[j], 0, Len(w[j]), st[j + 1])

-----------------------------------------------------------------------------
(* The inductive invariant.                                                *)

InFile == {"open", "size", "sized", "cells"}
Due(f) == f \notin Missing /\ CopyOf[f] \notin Unwritable

(* The child is at place a. *)
Reads(a) ==
  LET l == pc["child"] IN
  /\ l \in {"open1", "open2", "hello", "command"} => a.at \in {"between", "open", "sized"}
  /\ l \in {"name", "size"} => a.at = l
  /\ l = "message" => a.at = "cells"
Holds(a) ==
  /\ a.at \notin {"between", "end"} => a.i \in DOMAIN args
  /\ IF a.at \in InFile
     THEN /\ current_name = args[a.i]
          /\ out_fd = (IF CopyOf[current_name] \in Unwritable THEN None ELSE CopyOf[current_name])
          /\ Separate(args) /\ out_fd # None =>
               /\ a.off <= Len(Contents[current_name])
               /\ content[out_fd] = SubSeq(Contents[current_name], 1, a.off)
     ELSE out_fd = None
  /\ a.at \in {"sized", "cells"} => chunk_size = a.n /\ a.n > 0
Finished(a) ==
  \A j \in 1 .. a.i - 1 :
    j \in DOMAIN args /\ Due(args[j]) =>
      args[j] \in copied \/ (a.at \in InFile /\ args[j] = args[a.i])
ChildAt(a) == Reads(a) /\ Holds(a) /\ Finished(a)

(* The parent has planned its writes up to place c. *)
ParentAt(c) ==
  LET l == pc["parent"] IN
  /\ l \in {"open1", "open2", "ready", "next"} =>
       c.at = "between" /\ c.i <= k /\ Skipped(args, c.i, k)
  /\ l = "read" => /\ c.at = "open" /\ c.i = k /\ c.off = pos
                   /\ Separate(args) => pos <= Len(Contents[args[k]])
  /\ l = "wait" => c.at = "end"

Synced ==
  \E a, b \in Place :
    /\ ChildAt(a) /\ Chain(args, a, p1, b)
    /\ ~ParentGone => \E c \in Place : Plan(args, b, todo, c) /\ ParentAt(c)
Adrift == pc["parent"] = "killed" /\ p1 = <<>>
Sync == Over("child") \/ Adrift \/ Synced

(* Where the two are, and what that says of their variables. *)
Commands == {"prepare_for_filename", "prepare_for_size", "prepare_for_message",
             "end_of_transmission"}
Labels == {"open1", "open2", "ready", "next", "read", "wait", "hello", "command", "name", "size",
           "message", "done", "killed"}
Control ==
  /\ pc \in [{"parent", "child"} -> Labels]
  /\ pc["parent"] \in {"open1", "open2", "ready", "next", "read", "wait", "done", "killed"}
  /\ pc["child"] \in {"open1", "open2", "hello", "command", "name", "size", "message",
                      "done", "killed"}
  /\ pc["parent"] = "done" => Over("child")
  /\ pc["parent"] = "read" => k \in DOMAIN args /\ in_fd = args[k] /\ args[k] \notin Missing
  /\ inbuf \in Commands \cup {Garbage}
  /\ \A c \in Commands : pc["child"] = Branch(c) => inbuf = c
  /\ inbuf = "end_of_transmission" => pc["child"] = "done"

(* The pipe and the writes hold items. *)
Item == {Command(c) : c \in Commands} \cup {Name(f) : f \in DOMAIN CopyOf}
        \cup {Size(n) : n \in 0 .. CHUNK_SIZE} \cup {Cell(v) : v \in Values}
Carried == p1 \in Seq(Item) /\ todo \in Seq(Seq(Item)) /\ args \in ArgLists

(* What is open is the copy of the current name, which is not reported as  *)
(* copied unless the child has opened it again at the end of file.         *)
Truncates(f) == Eof /\ inbuf = "prepare_for_filename" /\ current_name = f
Files ==
  /\ current_name \in ToSet(args) \cup {Garbage} /\ copied \subseteq ToSet(args)
  /\ out_fd \notin {None, Garbage} =>
       /\ current_name # Garbage /\ out_fd = CopyOf[current_name]
       /\ current_name \notin copied \/ Truncates(current_name)
  /\ out_fd = Garbage => Eof
  /\ Separate(args) => \A j \in DOMAIN args : content[args[j]] = Contents[args[j]]

IInv == TypeOK /\ Control /\ Carried /\ Files /\ CopiedIsComplete /\ AllCopied /\ Sync

-----------------------------------------------------------------------------
(* Writes and chains of writes.                                            *)

LEMMA UnitGrows ==
  ASSUME NEW A, NEW s \in Place, NEW q, NEW lo \in Int, NEW hi, NEW t, Unit(A, s, q, lo, hi, t)
  PROVE  hi \in Int /\ lo < hi
BY Bounds DEF Unit, Chunk, Place

(* Only the items of the write matter, not where they are. *)
LEMMA UnitMoved ==
  ASSUME NEW A, NEW s \in Place, NEW t, NEW q, NEW r, NEW lo \in Int, NEW hi \in Int, NEW d \in Int,
         Unit(A, s, q, lo, hi, t), \A i \in lo + 1 .. hi : r[i + d] = q[i]
  PROVE  Unit(A, s, r, lo + d, hi + d, t)
<1>1. CASE hi = lo + 1 /\ Single(A, s, q[hi], t)
  <2>1. r[hi + d] = q[hi] /\ hi + d = lo + d + 1
    BY <1>1
  <2> QED
    BY <1>1, <2>1 DEF Unit
<1>2. CASE Chunk(A, s, q, lo, hi, t)
  <2>1. s.n \in Nat /\ hi = lo + s.n
    BY <1>2, Bounds DEF Chunk, Place
  <2>2. \A x \in 1 .. s.n : r[lo + d + x] = q[lo + x]
    <3>1. TAKE x \in 1 .. s.n
    <3>2. lo + x \in lo + 1 .. hi /\ (lo + x) + d = lo + d + x
      BY <2>1
    <3> QED
      BY <3>2
  <2>3. hi + d = lo + d + s.n
    BY <2>1
  <2>4. Chunk(A, s, r, lo + d, hi + d, t)
    BY <1>2, <2>2, <2>3 DEF Chunk
  <2> QED
    BY <2>4 DEF Unit
<1> QED
  BY <1>1, <1>2 DEF Unit

LEMMA ChainNone ==
  ASSUME NEW A, NEW a \in Place, NEW b \in Place
  PROVE  Chain(A, a, <<>>, b) <=> a = b
<1>1. ASSUME Chain(A, a, <<>>, b) PROVE a = b
  <2>1. PICK m \in Nat : \E cut \in [1 .. m + 1 -> 0 .. Len(<<>>)], st \in [1 .. m + 1 -> Place] :
          ChainBy(A, a, <<>>, b, m, cut, st)
    BY <1>1 DEF Chain
  <2>2. PICK cut \in [1 .. m + 1 -> 0 .. Len(<<>>)], st \in [1 .. m + 1 -> Place] :
          ChainBy(A, a, <<>>, b, m, cut, st)
    BY <2>1
  <2>3. m = 0
    <3>1. SUFFICES ASSUME m # 0 PROVE FALSE
      OBVIOUS
    <3>2. cut[1] < cut[m + 1] /\ cut[1] = 0 /\ cut[m + 1] = 0
      BY <2>2, <3>1 DEF ChainBy
    <3> QED
      BY <3>2
  <2> QED
    BY <2>2, <2>3 DEF ChainBy
<1>2. ASSUME a = b PROVE Chain(A, a, <<>>, b)
  <2> DEFINE cut == [i \in 1 .. 0 + 1 |-> 0]
             st == [i \in 1 .. 0 + 1 |-> a]
  <2>1. cut \in [1 .. 0 + 1 -> 0 .. Len(<<>>)] /\ st \in [1 .. 0 + 1 -> Place]
    OBVIOUS
  <2>2. ChainBy(A, a, <<>>, b, 0, cut, st)
    BY <1>2 DEF ChainBy
  <2> QED
    BY <2>1, <2>2 DEF Chain
<1> QED
  BY <1>1, <1>2

(* The first write of a chain, and the chain r of what is behind it. *)
LEMMA ChainTake ==
  ASSUME NEW A, NEW a \in Place, NEW q \in Seq(Item), NEW b \in Place, q # <<>>, Chain(A, a, q, b)
  PROVE  \E hi \in 1 .. Len(q), t \in Place :
           /\ Unit(A, a, q, 0, hi, t)
           /\ \A r \in Seq(Item) :
                Len(r) = Len(q) - hi /\ (\A i \in 1 .. Len(r) : r[i] = q[i + hi]) => Chain(A, t, r, b)
<1>1. PICK m \in Nat : \E cut \in [1 .. m + 1 -> 0 .. Len(q)], st \in [1 .. m + 1 -> Place] :
        ChainBy(A, a, q, b, m, cut, st)
  BY DEF Chain
<1>2. PICK cut \in [1 .. m + 1 -> 0 .. Len(q)], st \in [1 .. m + 1 -> Place] :
        ChainBy(A, a, q, b, m, cut, st)
  BY <1>1
<1>3. /\ cut[1] = 0 /\ cut[m + 1] = Len(q) /\ st[1] = a /\ st[m + 1] = b
      /\ \A i, j \in 1 .. m + 1 : i < j => cut[i] < cut[j]
      /\ \A j \in 1 .. m : Unit(A, st[j], q, cut[j], cut[j + 1], st[j + 1])
  BY <1>2 DEF ChainBy
<1>4. Len(q) \in Nat /\ Len(q) > 0
  BY EmptySeq
<1>5. m >= 1
  BY <1>3, <1>4
<1>6. /\ cut[2] \in 1 .. Len(q) /\ st[2] \in Place /\ Unit(A, a, q, 0, cut[2], st[2])
      /\ \A j \in 1 .. m : cut[j + 1] \in Nat /\ cut[j + 1] >= cut[2]
  <2>1. 1 \in 1 .. m /\ 2 \in 1 .. m + 1 /\ 1 + 1 = 2
    BY <1>5
  <2>2. Unit(A, a, q, 0, cut[2], st[2])
    BY <2>1, <1>3
  <2>3. cut[2] \in 1 .. Len(q)
    BY <2>1, <1>3, <1>4
  <2>4. ASSUME NEW j \in 1 .. m PROVE cut[j + 1] \in Nat /\ cut[j + 1] >= cut[2]
    BY <2>1, <2>3, <1>3, <1>4
  <2> QED
    BY <2>1, <2>2, <2>3, <2>4
<1>7. ASSUME NEW r \in Seq(Item), Len(r) = Len(q) - cut[2],
             \A i \in 1 .. Len(r) : r[i] = q[i + cut[2]]
      PROVE  Chain(A, st[2], r, b)
  <2> DEFINE h == cut[2]
             cut2 == [j \in 1 .. (m - 1) + 1 |-> cut[j + 1] - h]
             st2 == [j \in 1 .. (m - 1) + 1 |-> st[j + 1]]
  <2>1. m - 1 \in Nat /\ (m - 1) + 1 = m
    BY <1>5
  <2>2. cut2 \in [1 .. (m - 1) + 1 -> 0 .. Len(r)]
    <3>1. ASSUME NEW j \in 1 .. m PROVE cut[j + 1] - h \in 0 .. Len(r)
      <4>1. cut[j + 1] \in 0 .. Len(q)
        OBVIOUS
      <4> QED
        BY <4>1, <1>6, <1>4, <1>7
    <3> QED
      BY <3>1, <2>1
  <2>3. st2 \in [1 .. (m - 1) + 1 -> Place]
    BY <2>1
  <2>4. cut2[1] = 0 /\ cut2[(m - 1) + 1] = Len(r) /\ st2[1] = st[2] /\ st2[(m - 1) + 1] = b
    BY <1>3, <1>5, <1>6, <1>7, <2>1
  <2>5. ASSUME NEW i \in 1 .. (m - 1) + 1, NEW j \in 1 .. (m - 1) + 1, i < j
        PROVE  cut2[i] < cut2[j]
    <3>1. cut[i + 1] < cut[j + 1] /\ cut[i + 1] \in Nat /\ cut[j + 1] \in Nat
      BY <1>3, <1>6, <2>1, <2>5
    <3> QED
      BY <3>1, <1>6
  <2>6. ASSUME NEW j \in 1 .. m - 1
        PROVE  Unit(A, st2[j], r, cut2[j], cut2[j + 1], st2[j + 1])
    <3> DEFINE lo == cut[j + 1]
               hi == cut[j + 2]
    <3>1. /\ j + 1 \in 1 .. m /\ j \in 1 .. m /\ (j + 1) + 1 = j + 2 /\ j + 2 \in 1 .. m + 1
          /\ j + 1 \in 1 .. (m - 1) + 1 /\ j \in 1 .. (m - 1) + 1
      BY <2>1
    <3>2. Unit(A, st[j + 1], q, lo, hi, st[j + 2])
      BY <1>3, <3>1
    <3>3. lo \in Nat /\ hi \in 0 .. Len(q) /\ h \in Nat /\ lo >= h
      BY <1>6, <3>1
    <3>4. \A i \in lo + 1 .. hi : r[i + (0 - h)] = q[i]
      <4>1. TAKE i \in lo + 1 .. hi
      <4>2. i + (0 - h) \in 1 .. Len(r) /\ (i + (0 - h)) + h = i
        BY <3>3, <1>4, <1>7
      <4> QED
        BY <4>2, <1>7
    <3>5. Unit(A, st[j + 1], r, lo + (0 - h), hi + (0 - h), st[j + 2])
      <4>1. st[j + 1] \in Place /\ lo \in Int /\ hi \in Int /\ 0 - h \in Int
        BY <3>1, <3>3
      <4> HIDE DEF lo, hi, h
      <4> QED
        BY <3>2, <3>4, <4>1, UnitMoved
    <3>6. /\ cut2[j] = lo + (0 - h) /\ cut2[j + 1] = hi + (0 - h)
          /\ st2[j] = st[j + 1] /\ st2[j + 1] = st[j + 2]
      BY <3>1, <3>3
    <3> QED
      BY <3>5, <3>6
  <2>7. ChainBy(A, st[2], r, b, m - 1, cut2, st2)
    <3> HIDE DEF cut2, st2
    <3> QED
      BY <2>1, <2>4, <2>5, <2>6 DEF ChainBy
  <2> HIDE DEF cut2, st2
  <2> QED
    BY <2>1, <2>2, <2>3, <2>7 DEF Chain
<1> QED
  BY <1>6, <1>7

(* A write at the end of a chain. *)
LEMMA ChainAdd ==
  ASSUME NEW A, NEW a \in Place, NEW q \in Seq(Item), NEW b \in Place, Chain(A, a, q, b),
         NEW w \in Seq(Item), NEW c \in Place, Unit(A, b, w, 0, Len(w), c)
  PROVE  Chain(A, a, q \o w, c)
<1> DEFINE r == q \o w
<1>1. PICK m \in Nat : \E cut \in [1 .. m + 1 -> 0 .. Len(q)], st \in [1 .. m + 1 -> Place] :
        ChainBy(A, a, q, b, m, cut, st)
  BY DEF Chain
<1>2. PICK cut \in [1 .. m + 1 -> 0 .. Len(q)], st \in [1 .. m + 1 -> Place] :
        ChainBy(A, a, q, b, m, cut, st)
  BY <1>1
<1>3. /\ cut[1] = 0 /\ cut[m + 1] = Len(q) /\ st[1] = a /\ st[m + 1] = b
      /\ \A i, j \in 1 .. m + 1 : i < j => cut[i] < cut[j]
      /\ \A j \in 1 .. m : Unit(A, st[j], q, cut[j], cut[j + 1], st[j + 1])
  BY <1>2 DEF ChainBy
<1>4. /\ Len(q) \in Nat /\ Len(w) \in Nat /\ Len(w) > 0 /\ Len(r) = Len(q) + Len(w)
      /\ \A i \in 1 .. Len(q) : r[i] = q[i]
      /\ \A i \in 1 .. Len(w) : r[i + Len(q)] = w[i]
  <2>1. Len(w) > 0
    BY UnitGrows
  <2> QED
    BY <2>1, ConcatProperties
<1> DEFINE cut2 == [j \in 1 .. (m + 1) + 1 |-> IF j <= m + 1 THEN cut[j] ELSE Len(r)]
           st2 == [j \in 1 .. (m + 1) + 1 |-> IF j <= m + 1 THEN st[j] ELSE c]
<1> HIDE DEF r
<1>5. cut2 \in [1 .. (m + 1) + 1 -> 0 .. Len(r)]
  <2>1. ASSUME NEW j \in 1 .. m + 1 PROVE cut[j] \in 0 .. Len(r)
    BY <1>4
  <2> QED
    BY <2>1, <1>4
<1>6. st2 \in [1 .. (m + 1) + 1 -> Place]
  OBVIOUS
<1>7. /\ cut2[1] = 0 /\ cut2[(m + 1) + 1] = Len(r) /\ st2[1] = a /\ st2[(m + 1) + 1] = c
  BY <1>3
<1>8. ASSUME NEW i \in 1 .. (m + 1) + 1, NEW j \in 1 .. (m + 1) + 1, i < j
      PROVE  cut2[i] < cut2[j]
  <2>1. CASE j <= m + 1
    <3>1. cut[i] < cut[j]
      BY <2>1, <1>3, <1>8
    <3> QED
      BY <2>1, <3>1, <1>8
  <2>2. CASE j = m + 2
    <3>1. cut[i] \in 0 .. Len(q)
      BY <2>2, <1>8
    <3> QED
      BY <2>2, <3>1, <1>4, <1>8
  <2> QED
    BY <2>1, <2>2
<1>9. ASSUME NEW j \in 1 .. m + 1
      PROVE  Unit(A, st2[j], r, cut2[j], cut2[j + 1], st2[j + 1])
  <2>1. CASE j \in 1 .. m
    <3> DEFINE lo == cut[j]
               hi == cut[j + 1]
    <3>1. Unit(A, st[j], q, lo, hi, st[j + 1]) /\ st[j] \in Place
      BY <2>1, <1>3
    <3>2. lo \in 0 .. Len(q) /\ hi \in 0 .. Len(q)
      BY <2>1
    <3>3. \A i \in lo + 1 .. hi : r[i + 0] = q[i]
      <4>1. TAKE i \in lo + 1 .. hi
      <4>2. i \in 1 .. Len(q) /\ i + 0 = i
        BY <3>2, <1>4
      <4> QED
        BY <4>2, <1>4
    <3>4. Unit(A, st[j], r, lo + 0, hi + 0, st[j + 1])
      <4>1. lo \in Int /\ hi \in Int /\ 0 \in Int
        BY <3>2
      <4> HIDE DEF lo, hi
      <4> QED
        BY <3>1, <3>3, <4>1, UnitMoved
    <3>5. /\ cut2[j] = lo + 0 /\ cut2[j + 1] = hi + 0 /\ st2[j] = st[j] /\ st2[j + 1] = st[j + 1]
      BY <2>1, <3>2
    <3> QED
      BY <3>4, <3>5
  <2>2. CASE j = m + 1
    <3>1. \A i \in 0 + 1 .. Len(w) : r[i + Len(q)] = w[i]
      BY <1>4
    <3>2. Unit(A, b, r, 0 + Len(q), Len(w) + Len(q), c)
      <4>1. Len(q) \in Int /\ Len(w) \in Int /\ 0 \in Int
        BY <1>4
      <4> QED
        BY <3>1, <4>1, UnitMoved
    <3>3. /\ cut2[j] = 0 + Len(q) /\ cut2[j + 1] = Len(w) + Len(q) /\ st2[j] = b /\ st2[j + 1] = c
      BY <2>2, <1>3, <1>4
    <3> QED
      BY <3>2, <3>3
  <2> QED
    BY <2>1, <2>2
<1>10. ChainBy(A, a, r, c, m + 1, cut2, st2)
  <2> HIDE DEF cut2, st2
  <2> QED
    BY <1>7, <1>8, <1>9 DEF ChainBy
<1> HIDE DEF cut2, st2
<1>11. Chain(A, a, r, c)
  <2>1. m + 1 \in Nat
    OBVIOUS
  <2> QED
    BY <2>1, <1>5, <1>6, <1>10 DEF Chain
<1> QED
  BY <1>11 DEF r

(* The first of the planned writes. *)
LEMMA PlanTake ==
  ASSUME NEW A, NEW b, NEW w \in Seq(Seq(Item)), NEW c, w # <<>>, Plan(A, b, w, c)
  PROVE  \E t \in Place : Unit(A, b, Head(w), 0, Len(Head(w)), t) /\ Plan(A, t, Tail(w), c)
<1>1. PICK st \in [1 .. Len(w) + 1 -> Place] :
        /\ st[1] = b /\ st[Len(w) + 1] = c
        /\ \A j \in DOMAIN w : Unit(A, st[j], w[j], 0, Len(w[j]), st[j + 1])
  BY DEF Plan
<1>2. /\ Len(w) \in Nat /\ Len(w) > 0 /\ DOMAIN w = 1 .. Len(w) /\ Head(w) = w[1]
      /\ Len(Tail(w)) = Len(w) - 1 /\ DOMAIN Tail(w) = 1 .. Len(w) - 1
      /\ \A j \in 1 .. Len(w) - 1 : Tail(w)[j] = w[j + 1]
  BY HeadTailProperties, EmptySeq
<1>3. Unit(A, b, Head(w), 0, Len(Head(w)), st[2]) /\ st[2] \in Place
  <2>1. 1 \in DOMAIN w /\ 1 + 1 = 2 /\ 2 \in 1 .. Len(w) + 1
    BY <1>2
  <2> QED
    BY <2>1, <1>1, <1>2
<1> DEFINE st2 == [j \in 1 .. Len(Tail(w)) + 1 |-> st[j + 1]]
<1>4. st2 \in [1 .. Len(Tail(w)) + 1 -> Place]
  BY <1>2
<1>5. st2[1] = st[2] /\ st2[Len(Tail(w)) + 1] = c
  BY <1>1, <1>2
<1>6. ASSUME NEW j \in DOMAIN Tail(w)
      PROVE  Unit(A, st2[j], Tail(w)[j], 0, Len(Tail(w)[j]), st2[j + 1])
  <2>1. /\ j + 1 \in DOMAIN w /\ Tail(w)[j] = w[j + 1] /\ st2[j] = st[j + 1]
        /\ st2[j + 1] = st[(j + 1) + 1]
    BY <1>2, <1>6
  <2> QED
    BY <2>1, <1>1
<1> HIDE DEF st2
<1>7. Plan(A, st[2], Tail(w), c)
  BY <1>4, <1>5, <1>6 DEF Plan
<1> QED
  BY <1>3, <1>7

LEMMA PlanNone ==
  ASSUME NEW A, NEW b \in Place, NEW c
  PROVE  Plan(A, b, <<>>, c) <=> b = c
<1>1. ASSUME Plan(A, b, <<>>, c) PROVE b = c
  BY <1>1 DEF Plan
<1>2. ASSUME b = c PROVE Plan(A, b, <<>>, c)
  <2> DEFINE st == [j \in 1 .. Len(<<>>) + 1 |-> b]
  <2>1. st \in [1 .. Len(<<>>) + 1 -> Place] /\ st[1] = b /\ st[Len(<<>>) + 1] = c
    BY <1>2
  <2>2. \A j \in DOMAIN <<>> : Unit(A, st[j], <<>>[j], 0, Len(<<>>[j]), st[j + 1])
    OBVIOUS
  <2> HIDE DEF st
  <2> QED
    BY <2>1, <2>2 DEF Plan
<1> QED
  BY <1>1, <1>2

-----------------------------------------------------------------------------
(* Types.                                                                  *)

LEMMA Constants ==
  /\ \A f \in DOMAIN CopyOf : /\ f \in Names /\ f \notin {None, Garbage}
                              /\ CopyOf[f] \in Names /\ CopyOf[f] \notin {None, Garbage}
  /\ \A f, g \in DOMAIN CopyOf : CopyOf[f] = CopyOf[g] => f = g
  /\ \A A \in ArgLists : A \in Seq(DOMAIN CopyOf) /\ A # <<>>
  /\ \A f \in Names : Contents[f] \in Seq(Values)
  /\ CHUNK_SIZE \in Nat /\ CHUNK_SIZE > 0 /\ Capacity \in Nat
<1>1. \A f \in DOMAIN CopyOf : CopyOf[f] \in Names \ {None, Garbage}
  BY FilesAssumption
<1>2. \A f, g \in DOMAIN CopyOf : CopyOf[f] = CopyOf[g] => f = g
  BY FilesAssumption DEF IsInjective
<1>3. ASSUME NEW f \in Names PROVE Contents[f] \in Seq(Values)
  <2> DEFINE V == UNION {ToSet(Contents[g]) : g \in Names}
  <2>1. Contents[f] \in Seq(V) /\ V \subseteq Values
    BY FilesAssumption DEF Values
  <2> HIDE DEF V
  <2> QED
    BY <2>1
<1> QED
  BY <1>1, <1>2, <1>3, FilesAssumption, Bounds

LEMMA ArgsTyped ==
  ASSUME args \in ArgLists
  PROVE  /\ args \in Seq(DOMAIN CopyOf) /\ Len(args) \in Nat /\ Len(args) > 0
         /\ DOMAIN args = 1 .. Len(args)
         /\ \A j \in DOMAIN args : args[j] \in DOMAIN CopyOf /\ args[j] \in ToSet(args)
         /\ ToSet(args) \subseteq DOMAIN CopyOf
<1>1. args \in Seq(DOMAIN CopyOf) /\ args # <<>>
  BY Constants
<1>2. Len(args) \in Nat /\ Len(args) > 0 /\ DOMAIN args = 1 .. Len(args)
  BY <1>1, EmptySeq, LenProperties
<1>3. \A j \in DOMAIN args : args[j] \in DOMAIN CopyOf
  BY <1>1, <1>2
<1> QED
  BY <1>1, <1>2, <1>3 DEF ToSet

LEMMA ChunkTyped ==
  ASSUME NEW C \in Seq(Values), NEW lo \in Nat, NEW hi \in Nat, lo <= hi, hi <= Len(C),
         NEW w, w = [x \in DOMAIN SubSeq(C, lo + 1, hi) |-> Cell(SubSeq(C, lo + 1, hi)[x])]
  PROVE  /\ w \in Seq(Item) /\ Len(w) = hi - lo
         /\ \A x \in 1 .. hi - lo : w[x] = Cell(C[lo + x]) /\ C[lo + x] \in Values
<1> DEFINE s == SubSeq(C, lo + 1, hi)
<1>1. /\ s \in Seq(Values) /\ Len(s) = hi - lo /\ DOMAIN s = 1 .. hi - lo
      /\ \A x \in 1 .. hi - lo : s[x] = C[lo + x] /\ s[x] \in Values
  BY SubSeqProperties
<1> HIDE DEF s
<1>2. w = [x \in 1 .. hi - lo |-> Cell(s[x])]
  BY <1>1 DEF s
<1>3. \A x \in 1 .. hi - lo : Cell(s[x]) \in Item
  BY <1>1 DEF Item
<1> HIDE DEF Cell
<1>4. hi - lo \in Nat
  OBVIOUS
<1>7. w \in [1 .. hi - lo -> Item]
  BY <1>2, <1>3
<1>5. w \in Seq(Item) /\ Len(w) = hi - lo
  BY <1>4, <1>7
<1>6. \A x \in 1 .. hi - lo : w[x] = Cell(C[lo + x]) /\ C[lo + x] \in Values
  BY <1>1, <1>2
<1> QED
  BY <1>5, <1>6

LEMMA ItemsRead ==
  ASSUME NEW it \in Item
  PROVE  /\ it.kind = "command" => it.value \in Commands
         /\ it.kind = "name" => it.value \in DOMAIN CopyOf
         /\ it.kind = "size" => it.value \in 0 .. CHUNK_SIZE
         /\ it.kind = "cell" => it.value \in Values
BY DEF Item, Command, Name, Size, Cell

LEMMA ItemsMade ==
  /\ \A c \in Commands : <<Command(c)>> \in Seq(Item)
  /\ \A f \in DOMAIN CopyOf : <<Name(f)>> \in Seq(Item)
  /\ \A n \in 0 .. CHUNK_SIZE : <<Size(n)>> \in Seq(Item)
<1>1. \A it \in Item : <<it>> \in Seq(Item)
  OBVIOUS
<1>2. ASSUME NEW c \in Commands PROVE <<Command(c)>> \in Seq(Item)
  <2>1. Command(c) \in Item
    BY DEF Item
  <2> QED
    BY <1>1, <2>1, Zenon
<1>3. ASSUME NEW f \in DOMAIN CopyOf PROVE <<Name(f)>> \in Seq(Item)
  <2>1. Name(f) \in Item
    BY DEF Item
  <2> QED
    BY <1>1, <2>1, Zenon
<1>4. ASSUME NEW n \in 0 .. CHUNK_SIZE PROVE <<Size(n)>> \in Seq(Item)
  <2>1. Size(n) \in Item
    BY DEF Item
  <2> QED
    BY <1>1, <2>1, Zenon
<1> QED
  BY <1>2, <1>3, <1>4

LEMMA TypesInit == Init => TypeOK /\ Carried
<1> SUFFICES ASSUME Init PROVE TypeOK /\ Carried
  OBVIOUS
<1>1. args \in ArgLists /\ Len(args) \in Nat
  BY ArgsTyped DEF Init
<1>2. chunk \in [1 .. CHUNK_SIZE -> Values]
  <2>1. Garbage \in Values
    BY Zenon DEF Values
  <2> QED
    BY <2>1 DEF Init
<1>3. content \in [Names -> Seq(Values)]
  <2>1. Contents \in [Names -> Seq(Values)]
    BY Constants, FilesAssumption
  <2> QED
    BY <2>1 DEF Init
<1>4. Carried
  BY <1>1 DEF Init, Carried
<1>5. chunk_size \in 0 .. CHUNK_SIZE /\ Len(p1) <= Capacity
  BY Constants, Bounds DEF Init
<1> QED
  BY <1>1, <1>2, <1>3, <1>4, <1>5 DEF Init, TypeOK

LEMMA TypesKept ==
  ASSUME TypeOK, Control, Carried, Files, [Next]_vars
  PROVE  TypeOK' /\ Carried'
<1>1. args' = args
  BY DEF Next, OpenFifo, Parent, Child, Write, ReadReady, NextFile, ReadChunk, EndTransmission,
         Waited, SayReady, ReadCommand, ReadName, ReadSize, ReadMessage, Kill, vars, setup
<1>2. p1' \in Seq(Item) /\ Len(p1') <= Capacity
  <2>0. p1 \in Seq(Item) /\ Len(p1) \in Nat /\ Len(p1) <= Capacity /\ Capacity \in Nat
    BY Constants, LenProperties DEF TypeOK, Carried
  <2>1. CASE Write
    <3>1. p1' = p1 \/ (p1' = p1 \o Head(todo) /\ Len(p1) + Len(Head(todo)) <= Capacity)
      BY <2>1 DEF Write
    <3>2. Head(todo) \in Seq(Item)
      BY <2>1, HeadTailProperties DEF Write, Carried
    <3>3. p1 \o Head(todo) \in Seq(Item) /\ Len(p1 \o Head(todo)) = Len(p1) + Len(Head(todo))
      BY <3>2, ConcatProperties DEF Carried
    <3> QED
      BY <3>1, <3>3 DEF TypeOK, Carried
  <2>2. CASE ReadCommand \/ ReadName \/ ReadSize
    <3>1. p1' = p1 \/ (p1 # <<>> /\ p1' = Tail(p1))
      BY <2>2 DEF ReadCommand, ReadName, ReadSize, Next1
    <3>2. p1 # <<>> => Tail(p1) \in Seq(Item) /\ Len(Tail(p1)) = Len(p1) - 1 /\ Len(p1) \in Nat
      BY HeadTailProperties, EmptySeq DEF Carried
    <3> QED
      BY <3>1, <3>2, <2>0
  <2>3. CASE ReadMessage
    <3> DEFINE q == SubSeq(p1, chunk_size + 1, Len(p1))
    <3>1. p1' = p1 \/ (Len(p1) >= chunk_size /\ p1' = q)
      BY <2>3 DEF ReadMessage
    <3>2. /\ Len(p1) \in Nat /\ chunk_size \in Nat
      BY Constants DEF TypeOK, Carried
    <3>3. Len(p1) >= chunk_size => q \in Seq(Item) /\ Len(q) <= Len(p1) /\ Len(q) \in Nat
      BY <3>2, SubSeqProperties DEF Carried
    <3> HIDE DEF q
    <3> QED
      BY <3>1, <3>2, <3>3, <2>0
  <2>4. CASE UNCHANGED p1
    BY <2>4 DEF TypeOK, Carried
  <2> QED
    BY <2>1, <2>2, <2>3, <2>4
    DEF Next, OpenFifo, Parent, Child, ReadReady, NextFile, ReadChunk, EndTransmission,
        Waited, SayReady, Kill, vars
<1>3. todo' \in Seq(Seq(Item)) /\ k' \in 1 .. Len(args) + 1 /\ pos' \in Nat
      /\ in_fd' \in Names \cup {None}
  <2> USE <1>1
  <2>0. /\ k \in 1 .. Len(args) + 1 /\ pos \in Nat /\ in_fd \in Names \cup {None}
        /\ todo \in Seq(Seq(Item)) /\ Len(args) \in Nat
    BY ArgsTyped DEF TypeOK, Carried
  <2>1. CASE Write
    <3>1. todo' = todo \/ todo' = Tail(todo)
      BY <2>1 DEF Write
    <3>2. Tail(todo) \in Seq(Seq(Item))
      BY <2>0, <2>1, HeadTailProperties DEF Write
    <3> QED
      BY <2>0, <2>1, <3>1, <3>2 DEF Write
  <2>2. CASE NextFile
    <3>1. k \in DOMAIN args /\ args[k] \in DOMAIN CopyOf /\ args[k] \in Names
      BY <2>2, <2>0, ArgsTyped, Constants DEF NextFile, More, Carried
    <3>2. Announce(args[k]) \in Seq(Seq(Item))
      <4>1. <<Command("prepare_for_filename")>> \in Seq(Item) /\ <<Name(args[k])>> \in Seq(Item)
        BY <3>1, ItemsMade DEF Commands
      <4> QED
        BY <4>1 DEF Announce
    <3>3. k + 1 \in 1 .. Len(args) + 1
      BY <3>1, <2>0, ArgsTyped DEF Carried
    <3>4. todo' \in Seq(Seq(Item)) /\ pos' \in Nat
      BY <2>2, <3>2 DEF NextFile
    <3>5. (k' = k + 1 /\ in_fd' = in_fd) \/ (k' = k /\ in_fd' = args[k])
      BY <2>2 DEF NextFile
    <3> QED
      BY <2>0, <3>1, <3>3, <3>4, <3>5
  <2>3. CASE ReadChunk
    <3> DEFINE size == Len(content[in_fd])
               end == ReadEnd(size)
               cells == SubSeq(content[in_fd], pos + 1, end)
               w == [x \in DOMAIN cells |-> Cell(cells[x])]
    <3>1. k \in DOMAIN args /\ in_fd = args[k] /\ args[k] \in Names /\ content[in_fd] \in Seq(Values)
      BY <2>3, ArgsTyped, Constants DEF ReadChunk, Control, Carried, TypeOK
    <3>2. size \in Nat
      BY <3>1
    <3>3. /\ pos < size => end \in Nat /\ pos <= end /\ end <= size /\ end - pos \in 0 .. CHUNK_SIZE
      BY <3>2, <2>0, Constants DEF ReadEnd
    <3>4. pos < size => w \in Seq(Item)
      <4> DEFINE C == content[in_fd]
      <4> HIDE DEF end
      <4>1. pos < size => /\ C \in Seq(Values) /\ pos \in Nat /\ end \in Nat
                          /\ pos <= end /\ end <= Len(C)
        BY <3>1, <3>3, <2>0
      <4>2. w = [x \in DOMAIN SubSeq(C, pos + 1, end) |-> Cell(SubSeq(C, pos + 1, end)[x])]
        OBVIOUS
      <4> HIDE DEF C, w
      <4> QED
        BY <4>1, <4>2, ChunkTyped
    <3>5. /\ <<Command("prepare_for_size")>> \in Seq(Item)
          /\ <<Command("prepare_for_message")>> \in Seq(Item)
          /\ <<Size(0)>> \in Seq(Item)
      BY ItemsMade, Constants DEF Commands
    <3>6. pos < size => <<Size(end - pos)>> \in Seq(Item)
      BY <3>3, ItemsMade
    <3>7. k + 1 \in 1 .. Len(args) + 1
      BY <3>1, <2>0, ArgsTyped DEF Carried
    <3>8. CASE pos < size
      <4>1. /\ todo' = << <<Command("prepare_for_size")>>, <<Size(end - pos)>>,
                           <<Command("prepare_for_message")>>, w >>
            /\ pos' = end /\ UNCHANGED <<k, in_fd>>
        BY <2>3, <3>8 DEF ReadChunk
      <4> HIDE DEF w, end, size
      <4> QED
        BY <2>0, <3>3, <3>4, <3>5, <3>6, <3>8, <4>1
    <3>9. CASE ~(pos < size)
      <4>1. /\ todo' = << <<Command("prepare_for_size")>>, <<Size(0)>> >>
            /\ k' = k + 1 /\ in_fd' = None /\ pos' = pos
        BY <2>3, <3>9 DEF ReadChunk
      <4> HIDE DEF w, end, size
      <4> QED
        BY <2>0, <3>5, <3>7, <4>1
    <3> QED
      BY <3>8, <3>9
  <2>4. CASE EndTransmission
    <3>1. <<Command("end_of_transmission")>> \in Seq(Item)
      BY ItemsMade DEF Commands
    <3> QED
      BY <3>1, <2>4, <2>0 DEF EndTransmission
  <2>5. CASE UNCHANGED parentVars
    BY <2>5, <2>0 DEF parentVars
  <2> QED
    BY <2>1, <2>2, <2>3, <2>4, <2>5
    DEF Next, OpenFifo, Parent, Child, ReadReady, Waited, SayReady, ReadCommand, ReadName,
        ReadSize, ReadMessage, Kill, vars
<1>4. /\ current_name' \in DOMAIN CopyOf \cup {Garbage} /\ out_fd' \in Names \cup {None, Garbage}
      /\ chunk_size' \in 0 .. CHUNK_SIZE /\ chunk' \in [1 .. CHUNK_SIZE -> Values]
      /\ content' \in [Names -> Seq(Values)] /\ copied' \subseteq DOMAIN CopyOf
  <2>0. /\ current_name \in DOMAIN CopyOf \cup {Garbage} /\ out_fd \in Names \cup {None, Garbage}
        /\ chunk_size \in 0 .. CHUNK_SIZE /\ chunk \in [1 .. CHUNK_SIZE -> Values]
        /\ content \in [Names -> Seq(Values)] /\ copied \subseteq DOMAIN CopyOf
        /\ p1 \in Seq(Item)
    BY DEF TypeOK, Carried
  <2>00. p1 # <<>> => Head(p1) \in Item
    BY <2>0, HeadTailProperties
  <2>1. CASE ReadName
    <3>1. current_name' \in DOMAIN CopyOf \cup {Garbage} /\ copied' \subseteq DOMAIN CopyOf
      BY <2>1, <2>0, <2>00, ItemsRead DEF ReadName, Next1
    <3>2. /\ out_fd' \in Names \cup {None, Garbage} /\ content' \in [Names -> Seq(Values)]
      <4>1. Create(current_name') /\ (current_name' # Garbage => CopyOf[current_name'] \in Names)
        BY <2>1, <3>1, Constants DEF ReadName
      <4>2. <<>> \in Seq(Values)
        OBVIOUS
      <4>3. out_fd' \in Names \cup {None, Garbage}
        BY <4>1 DEF Create
      <4>4. content' = content \/ \E f \in Names : content' = [content EXCEPT ![f] = <<>>]
        BY <4>1 DEF Create
      <4> QED
        BY <4>2, <4>3, <4>4, <2>0
    <3> QED
      BY <2>1, <2>0, <3>1, <3>2 DEF ReadName
  <2>2. CASE ReadSize
    <3>1. chunk_size' \in 0 .. CHUNK_SIZE
      BY <2>2, <2>0, <2>00, ItemsRead DEF ReadSize, Next1
    <3>2. out_fd' \in {None, out_fd}
      BY <2>2 DEF ReadSize
    <3>3. copied' \subseteq DOMAIN CopyOf
      <4>1. CASE current_name \in DOMAIN CopyOf
        BY <4>1, <2>0, <2>2 DEF ReadSize
      <4>2. CASE current_name = Garbage
        <5>1. out_fd = None \/ Eof
          BY <4>2 DEF Files
        <5> QED
          BY <5>1, <2>2, <2>0 DEF ReadSize
      <4> QED
        BY <4>1, <4>2, <2>0
    <3> QED
      BY <2>2, <2>0, <3>1, <3>2, <3>3 DEF ReadSize
  <2>3. CASE ReadMessage
    <3>1. chunk' \in [1 .. CHUNK_SIZE -> Values]
      <4>1. CASE chunk' = chunk
        BY <4>1, <2>0
      <4>2. CASE /\ Len(p1) >= chunk_size /\ \A x \in 1 .. chunk_size : p1[x].kind = "cell"
                 /\ chunk' = [x \in DOMAIN chunk |->
                                IF x <= chunk_size THEN p1[x].value ELSE chunk[x]]
        <5>1. ASSUME NEW x \in 1 .. CHUNK_SIZE, x <= chunk_size PROVE p1[x].value \in Values
          <6>1. x \in 1 .. Len(p1) /\ p1[x] \in Item /\ p1[x].kind = "cell"
            BY <4>2, <5>1, <2>0, Constants
          <6> QED
            BY <6>1, ItemsRead
        <5> QED
          BY <4>2, <5>1, <2>0
      <4> QED
        BY <2>3, <4>1, <4>2 DEF ReadMessage
    <3>2. content' \in [Names -> Seq(Values)]
      <4>1. CASE content' = content
        BY <4>1, <2>0
      <4>2. CASE out_fd \notin {None, Garbage} /\ content' = [content EXCEPT ![out_fd] = @ \o Written]
        <5>1. Written \in Seq(Values)
          <6>1. chunk' \in Seq(Values) /\ Len(chunk') = CHUNK_SIZE
            BY <3>1, Constants
          <6>2. chunk_size \in Nat /\ chunk_size <= CHUNK_SIZE /\ chunk_size' = chunk_size
            BY <2>0, <2>3, Constants DEF ReadMessage
          <6>3. \A i \in 1 .. chunk_size : i \in 1 .. Len(chunk')
            BY <6>1, <6>2, Constants
          <6> QED
            BY <6>1, <6>2, <6>3, SubSeqProperties DEF Written
        <5>2. out_fd \in Names /\ content[out_fd] \o Written \in Seq(Values)
          BY <4>2, <5>1, <2>0, ConcatProperties
        <5> QED
          BY <4>2, <5>2, <2>0
      <4> QED
        BY <2>3, <4>1, <4>2 DEF ReadMessage
    <3> QED
      BY <2>3, <2>0, <3>1, <3>2 DEF ReadMessage
  <2>4. CASE UNCHANGED <<childVars, content, copied>>
    BY <2>4, <2>0 DEF childVars
  <2>5. CASE ReadCommand
    BY <2>5, <2>0 DEF ReadCommand
  <2> QED
    BY <2>1, <2>2, <2>3, <2>4, <2>5
    DEF Next, OpenFifo, Parent, Child, Write, ReadReady, NextFile, ReadChunk, EndTransmission,
        Waited, SayReady, Kill, vars
<1>5. p2' \in {<<>>, <<"ready_for_input">>}
  BY DEF TypeOK, Next, OpenFifo, Parent, Child, Write, ReadReady, NextFile, ReadChunk,
         EndTransmission, Waited, SayReady, ReadCommand, ReadName, ReadSize, ReadMessage, Kill, vars
<1>6. args' \in ArgLists /\ Len(args') = Len(args)
  BY <1>1 DEF Carried
<1> QED
  BY <1>2, <1>3, <1>4, <1>5, <1>6, Zenon DEF TypeOK, Carried

-----------------------------------------------------------------------------
(* Where the processes are.                                                *)

USE DEF Labels

LEMMA ControlInit == Init => Control
<1> SUFFICES ASSUME Init PROVE Control
  OBVIOUS
<1>1. pc = [parent |-> IF named THEN "open1" ELSE "ready",
            child |-> IF named THEN "open1" ELSE "hello"]
  BY DEF Init
<1>2. /\ pc \in [{"parent", "child"} -> Labels]
      /\ pc["parent"] \in {"open1", "ready"} /\ pc["child"] \in {"open1", "hello"}
  BY <1>1
<1> QED
  BY <1>2 DEF Init, Control, Branch, Commands, Garbage

LEMMA Moves ==
  ASSUME Control, NEW p \in {"parent", "child"}, NEW l \in Labels, Goto(p, l)
  PROVE  /\ pc' \in [{"parent", "child"} -> Labels] /\ pc'[p] = l
         /\ \A q \in {"parent", "child"} : q # p => pc'[q] = pc[q]
BY DEF Control, Goto

(* The child has no step once it is over, the parent none that writes.     *)
LEMMA ControlKept ==
  ASSUME TypeOK, Control, Carried, [Next]_vars
  PROVE  Control'
<1> DEFINE Inbuf == /\ inbuf \in Commands \cup {Garbage}
                    /\ \A c \in Commands : pc["child"] = Branch(c) => inbuf = c
                    /\ inbuf = "end_of_transmission" => pc["child"] = "done"
           Reading == pc["parent"] = "read" =>
                        k \in DOMAIN args /\ in_fd = args[k] /\ args[k] \notin Missing
           PL == {"open1", "open2", "ready", "next", "read", "wait", "done", "killed"}
           CL == {"open1", "open2", "hello", "command", "name", "size", "message",
                  "done", "killed"}
<1>1. ASSUME pc' \in [{"parent", "child"} -> Labels], pc'["child"] = pc["child"],
             UNCHANGED inbuf, pc'["parent"] \in PL,
             pc'["parent"] = "done" => Over("child"), Reading'
      PROVE  Control'
  BY <1>1 DEF Control, Over, Branch
<1>2. ASSUME pc' \in [{"parent", "child"} -> Labels], pc'["parent"] = pc["parent"],
             UNCHANGED <<k, in_fd, args>>, pc'["child"] \in CL, ~Over("child"), Inbuf'
      PROVE  Control'
  BY <1>2 DEF Control, Over
<1>3. CASE OpenFifo
  <2>1. /\ pc' \in [{"parent", "child"} -> Labels]
        /\ pc'["parent"] \in {"open2", "ready"} /\ pc'["child"] \in {"open2", "hello"}
        /\ pc["child"] \in {"open1", "open2"} /\ UNCHANGED <<inbuf>>
    BY <1>3 DEF OpenFifo, childVars, Opening, Opens, None
  <2> QED
    BY <2>1 DEF Control, Over, Branch, Commands
<1>4. CASE Write
  <2>1. pc' \in [{"parent", "child"} -> Labels] /\ pc'["child"] = pc["child"]
        /\ (pc' = pc \/ pc'["parent"] = "killed")
    BY <1>4, Moves DEF Write, Control
  <2> QED
    BY <1>1, <1>4, <2>1 DEF Write, childVars, setup, Control
<1>5. CASE ReadReady
  <2>1. pc' \in [{"parent", "child"} -> Labels] /\ pc'["child"] = pc["child"] /\ pc'["parent"] = "next"
    BY <1>5, Moves DEF ReadReady
  <2> QED
    BY <1>1, <1>5, <2>1 DEF ReadReady, childVars
<1>6. CASE NextFile
  <2>1. CASE args[k] \in Missing
    BY <1>1, <1>6, <2>1 DEF NextFile, childVars, Control
  <2>2. CASE args[k] \notin Missing
    <3>1. pc' \in [{"parent", "child"} -> Labels] /\ pc'["child"] = pc["child"] /\ pc'["parent"] = "read"
      BY <1>6, <2>2, Moves DEF NextFile
    <3>2. k \in DOMAIN args
      BY <1>6, ArgsTyped DEF NextFile, More, TypeOK, Carried
    <3>3. UNCHANGED <<k, args, inbuf>> /\ in_fd' = args[k]
      BY <1>6, <2>2 DEF NextFile, childVars, setup
    <3> QED
      BY <1>1, <2>2, <3>1, <3>2, <3>3
  <2> QED
    BY <2>1, <2>2
<1>7. CASE ReadChunk
  <2>1. CASE pos < Len(content[in_fd])
    BY <1>1, <1>7, <2>1 DEF ReadChunk, childVars, setup, Control
  <2>2. CASE ~(pos < Len(content[in_fd]))
    <3>1. pc' \in [{"parent", "child"} -> Labels] /\ pc'["child"] = pc["child"] /\ pc'["parent"] = "next"
      BY <1>7, <2>2, Moves DEF ReadChunk
    <3> QED
      BY <1>1, <1>7, <3>1 DEF ReadChunk, childVars
  <2> QED
    BY <2>1, <2>2
<1>8. CASE EndTransmission
  <2>1. pc' \in [{"parent", "child"} -> Labels] /\ pc'["child"] = pc["child"] /\ pc'["parent"] = "wait"
    BY <1>8, Moves DEF EndTransmission
  <2> QED
    BY <1>1, <1>8, <2>1 DEF EndTransmission, childVars
<1>9. CASE Waited
  <2>1. pc' \in [{"parent", "child"} -> Labels] /\ pc'["child"] = pc["child"] /\ pc'["parent"] = "done"
    BY <1>9, Moves DEF Waited
  <2> QED
    BY <1>1, <1>9, <2>1 DEF Waited, childVars
<1>10. CASE SayReady
  <2>1. pc' \in [{"parent", "child"} -> Labels] /\ pc'["parent"] = pc["parent"]
        /\ pc'["child"] \in {"killed", "command"}
    BY <1>10, Moves DEF SayReady
  <2> QED
    BY <1>2, <1>10, <2>1
    DEF SayReady, childVars, parentVars, setup, Over, Control, Branch, Commands
<1>11. CASE ReadCommand
  <2>1. inbuf' = inbuf \/ inbuf' \in Commands
    <3>1. p1 # <<>> => Head(p1) \in Item
      BY HeadTailProperties DEF Carried
    <3> QED
      BY <1>11, <3>1, ItemsRead DEF ReadCommand, Next1
  <2>2. inbuf' \in Commands \cup {Garbage} /\ inbuf # "end_of_transmission"
    BY <1>11, <2>1 DEF Control, ReadCommand
  <2>3. pc' \in [{"parent", "child"} -> Labels] /\ pc'["parent"] = pc["parent"]
        /\ pc'["child"] = Branch(inbuf')
    <3>1. Branch(inbuf') \in Labels
      BY DEF Branch
    <3> QED
      BY <1>11, <3>1, Moves DEF ReadCommand
  <2>4. pc'["child"] \in CL /\ Inbuf'
    BY <2>2, <2>3 DEF Branch, Commands, Garbage
  <2> QED
    BY <1>2, <1>11, <2>3, <2>4 DEF ReadCommand, parentVars, setup, Over
<1>12. CASE ReadName \/ ReadSize \/ ReadMessage
  <2>1. pc' \in [{"parent", "child"} -> Labels] /\ pc'["parent"] = pc["parent"]
        /\ pc'["child"] = "command" /\ UNCHANGED <<inbuf, k, in_fd, args>>
        /\ pc["child"] \in {"name", "size", "message"}
    BY <1>12, Moves DEF ReadName, ReadSize, ReadMessage, parentVars, setup
  <2> QED
    BY <1>2, <2>1 DEF Over, Control, Branch, Commands
<1>13. CASE Kill("parent")
  <2>1. pc' \in [{"parent", "child"} -> Labels] /\ pc'["child"] = pc["child"] /\ pc'["parent"] = "killed"
    BY <1>13, Moves DEF Kill
  <2> QED
    BY <1>1, <1>13, <2>1 DEF Kill, childVars
<1>14. CASE Kill("child")
  <2>1. pc' \in [{"parent", "child"} -> Labels] /\ pc'["parent"] = pc["parent"] /\ pc'["child"] = "killed"
    BY <1>14, Moves DEF Kill
  <2> QED
    BY <1>2, <1>14, <2>1 DEF Kill, childVars, parentVars, setup, Over, Control, Branch, Commands
<1>15. CASE UNCHANGED vars
  BY <1>15 DEF vars, childVars, parentVars, setup, Control, Over, Branch
<1> QED
  BY <1>3, <1>4, <1>5, <1>6, <1>7, <1>8, <1>9, <1>10, <1>11, <1>12, <1>13, <1>14, <1>15
  DEF Next, Parent, Child

(* The end of file is never undone. *)
LEMMA EofStays ==
  ASSUME Control, Carried, [Next]_vars, Eof
  PROVE  Eof' /\ UNCHANGED <<p1, inbuf, current_name>>
<1>1. p1 = <<>> /\ ~Next1("command") /\ ~Next1("name") /\ ~Next1("size")
  BY DEF Eof, Next1
<1>2. pc["parent"] \in {"done", "killed"} \/ (pc["parent"] = "wait" /\ todo = <<>>)
  BY DEF Eof, ParentGone
<1>3. CASE Kill("parent") \/ Waited
  <2>1. pc'["parent"] \in {"done", "killed"} /\ UNCHANGED <<p1, inbuf, current_name>>
    BY <1>3, Moves DEF Kill, Waited, childVars
  <2> QED
    BY <1>1, <2>1 DEF Eof, ParentGone
<1>4. CASE Child \/ Kill("child")
  <2>1. pc'["parent"] = pc["parent"] /\ UNCHANGED todo
    <3>1. \E l \in Labels : Goto("child", l)
      BY <1>4 DEF Child, SayReady, ReadCommand, ReadName, ReadSize, ReadMessage, Kill, Branch
    <3> QED
      BY <1>4, <3>1, Moves
      DEF Child, SayReady, ReadCommand, ReadName, ReadSize, ReadMessage, Kill, parentVars
  <2>2. UNCHANGED <<p1, inbuf, current_name>>
    BY <1>1, <1>4
    DEF Child, SayReady, ReadCommand, ReadName, ReadSize, ReadMessage, Kill, childVars
  <2> QED
    BY <1>1, <1>2, <2>1, <2>2 DEF Eof, ParentGone
<1>5. ~OpenFifo /\ ~Write /\ ~ReadReady /\ ~NextFile /\ ~ReadChunk /\ ~EndTransmission
  BY <1>2 DEF OpenFifo, Opening, Opens, None, Write, Over, ReadReady, NextFile, ReadChunk,
             EndTransmission
<1>6. CASE UNCHANGED vars
  BY <1>6, <1>1, <1>2 DEF vars, childVars, parentVars, Eof, ParentGone
<1> QED
  BY <1>3, <1>4, <1>5, <1>6 DEF Next, Parent

-----------------------------------------------------------------------------
(* The parent's steps: what they write continues the chain, what they plan *)
(* continues the plan.                                                     *)

LEMMA ChildStill ==
  ASSUME NEW a, ChildAt(a), pc'["child"] = pc["child"],
         UNCHANGED <<args, current_name, out_fd, content, chunk_size, copied>>
  PROVE  ChildAt(a)'
BY DEF ChildAt, Reads, Holds, Finished, Due

LEMMA ParentStill ==
  ASSUME NEW c, ParentAt(c), pc'["parent"] = pc["parent"], UNCHANGED <<args, k, pos>>
  PROVE  ParentAt(c)'
BY DEF ParentAt

(* A parent that has written all it planned, and plans w anew. *)
LEMMA Replan ==
  ASSUME Carried, Sync, pc["parent"] \notin {"done", "killed"}, todo = <<>>, ~Over("child"),
         pc'["child"] = pc["child"], UNCHANGED <<args, p1, current_name, out_fd, content, chunk_size, copied>>,
         \A c \in Place : ParentAt(c) => \E d \in Place : Plan(args, c, todo', d) /\ ParentAt(d)'
  PROVE  Sync'
<1>1. Synced /\ ~ParentGone
  BY DEF Sync, Adrift, ParentGone
<1>2. PICK a \in Place, b \in Place : /\ ChildAt(a) /\ Chain(args, a, p1, b)
                                      /\ \E c \in Place : Plan(args, b, todo, c) /\ ParentAt(c)
  BY <1>1 DEF Synced
<1>3. PICK c \in Place : Plan(args, b, todo, c) /\ ParentAt(c)
  BY <1>2
<1>4. b = c
  BY <1>3, PlanNone
<1>5. PICK d \in Place : Plan(args, b, todo', d) /\ ParentAt(d)'
  BY <1>3, <1>4
<1>6. ChildAt(a)' /\ Chain(args', a, p1', b)
  BY <1>2, ChildStill
<1>7. Plan(args', b, todo', d)
  BY <1>5
<1>8. Synced'
  BY <1>5, <1>6, <1>7 DEF Synced
<1> QED
  BY <1>8 DEF Sync

LEMMA SyncWrite ==
  ASSUME Control, Carried, Sync, Write
  PROVE  Sync'
<1>1. CASE Over("child")
  <2>1. pc'["child"] = pc["child"]
    BY <1>1, Moves DEF Write, NoReader
  <2> QED
    BY <1>1, <2>1 DEF Sync, Over
<1>2. CASE ~Over("child")
  <2>1. /\ p1' = p1 \o Head(todo) /\ todo' = Tail(todo) /\ todo # <<>> /\ ~ParentGone
        /\ UNCHANGED <<args, pc, k, pos, current_name, out_fd, content, chunk_size, copied>>
    BY <1>2 DEF Write, NoReader, setup, childVars, ParentGone, Over
  <2>2. Synced
    BY <1>2, <2>1 DEF Sync, Adrift, ParentGone
  <2>3. PICK a \in Place, b \in Place : /\ ChildAt(a) /\ Chain(args, a, p1, b)
                                        /\ \E c \in Place : Plan(args, b, todo, c) /\ ParentAt(c)
    BY <2>1, <2>2 DEF Synced
  <2>4. PICK c \in Place : Plan(args, b, todo, c) /\ ParentAt(c)
    BY <2>3
  <2>5. PICK t \in Place : Unit(args, b, Head(todo), 0, Len(Head(todo)), t) /\ Plan(args, t, Tail(todo), c)
    BY <2>1, <2>4, PlanTake DEF Carried
  <2>6. p1 \in Seq(Item) /\ Head(todo) \in Seq(Item)
    BY <2>1, HeadTailProperties DEF Carried
  <2>7. Chain(args, a, p1 \o Head(todo), t)
    BY <2>3, <2>5, <2>6, ChainAdd
  <2>8. Chain(args', a, p1', t) /\ Plan(args', t, todo', c)
    BY <2>1, <2>5, <2>7
  <2>9. ChildAt(a)' /\ ParentAt(c)'
    BY <2>1, <2>3, <2>4, ChildStill, ParentStill
  <2>10. Synced'
    BY <2>8, <2>9 DEF Synced
  <2> QED
    BY <2>10 DEF Sync
<1> QED
  BY <1>1, <1>2

(* Plans of one write, two, and four. *)
LEMMA PlanOne ==
  ASSUME NEW A, NEW b \in Place, NEW u, NEW c \in Place, Unit(A, b, u, 0, Len(u), c)
  PROVE  Plan(A, b, <<u>>, c)
<1> DEFINE st == [j \in 1 .. Len(<<u>>) + 1 |-> IF j = 1 THEN b ELSE c]
<1>1. st \in [1 .. Len(<<u>>) + 1 -> Place] /\ st[1] = b /\ st[2] = c /\ Len(<<u>>) = 1
  OBVIOUS
<1>2. \A j \in DOMAIN <<u>> : j = 1 /\ <<u>>[j] = u
  OBVIOUS
<1>3. \A j \in DOMAIN <<u>> : Unit(A, st[j], <<u>>[j], 0, Len(<<u>>[j]), st[j + 1])
  <2>1. TAKE j \in DOMAIN <<u>>
  <2>2. st[j] = b /\ st[j + 1] = c /\ <<u>>[j] = u
    BY <1>1, <1>2
  <2> QED
    BY <2>2
<1> HIDE DEF st
<1> QED
  BY <1>1, <1>3 DEF Plan

LEMMA PlanMore ==
  ASSUME NEW A, NEW b \in Place, NEW u, NEW t \in Place, NEW c, NEW w, NEW S, w \in Seq(S), u \in S,
         Unit(A, b, u, 0, Len(u), t), Plan(A, t, w, c)
  PROVE  Plan(A, b, <<u>> \o w, c)
<1>1. PICK st \in [1 .. Len(w) + 1 -> Place] :
        /\ st[1] = t /\ st[Len(w) + 1] = c
        /\ \A j \in DOMAIN w : Unit(A, st[j], w[j], 0, Len(w[j]), st[j + 1])
  BY DEF Plan
<1> DEFINE v == <<u>> \o w
<1>2. /\ Len(w) \in Nat /\ DOMAIN w = 1 .. Len(w) /\ Len(v) = Len(w) + 1 /\ DOMAIN v = 1 .. Len(w) + 1
      /\ v[1] = u /\ \A j \in 1 .. Len(w) : v[j + 1] = w[j]
  OBVIOUS
<1> HIDE DEF v
<1> DEFINE s2 == [j \in 1 .. Len(v) + 1 |-> IF j = 1 THEN b ELSE st[j - 1]]
<1>3. /\ s2 \in [1 .. Len(v) + 1 -> Place] /\ s2[1] = b /\ s2[Len(v) + 1] = c
      /\ \A j \in 1 .. Len(v) : s2[j + 1] = st[j]
  BY <1>1, <1>2
<1>4. \A j \in DOMAIN v : Unit(A, s2[j], v[j], 0, Len(v[j]), s2[j + 1])
  <2>1. TAKE j \in DOMAIN v
  <2>2. CASE j = 1
    <3>1. s2[j] = b /\ s2[j + 1] = t /\ v[j] = u
      BY <2>2, <1>1, <1>2, <1>3
    <3> QED
      BY <3>1
  <2>3. CASE j # 1
    <3>1. j - 1 \in DOMAIN w /\ v[j] = w[j - 1] /\ (j - 1) + 1 = j
      BY <2>1, <2>3, <1>2
    <3>2. s2[j] = st[j - 1] /\ s2[j + 1] = st[(j - 1) + 1]
      BY <2>1, <3>1, <1>2, <1>3
    <3> HIDE DEF s2
    <3> QED
      BY <3>1, <3>2, <1>1
  <2> QED
    BY <2>2, <2>3
<1> HIDE DEF s2
<1>5. Plan(A, b, v, c)
  BY <1>3, <1>4 DEF Plan
<1> QED
  BY <1>5 DEF v

(* One item is a write of its own. *)
LEMMA SingleUnit ==
  ASSUME NEW A, NEW s, NEW it, NEW t, Single(A, s, it, t)
  PROVE  Unit(A, s, <<it>>, 0, Len(<<it>>), t)
<1>1. Len(<<it>>) = 0 + 1 /\ <<it>>[Len(<<it>>)] = it
  OBVIOUS
<1> QED
  BY <1>1 DEF Unit

LEMMA SyncNextFile ==
  ASSUME TypeOK, Control, Carried, Sync, NextFile, ~Over("child")
  PROVE  Sync'
<1>1. /\ k \in DOMAIN args /\ k \in Nat \ {0} /\ args[k] \in DOMAIN CopyOf /\ args[k] \in Names
      /\ k \in 1 .. Len(args) /\ Len(args) \in Nat
  BY ArgsTyped, Constants DEF NextFile, More, TypeOK, Carried
<1>2. pc["parent"] = "next" /\ todo = <<>> /\ todo' = Announce(args[k]) /\ pos' = 0
      /\ UNCHANGED <<args, p1, current_name, out_fd, content, chunk_size, copied>>
  BY DEF NextFile, setup, childVars
<1>3. CASE args[k] \in Missing
  <2>1. todo' = <<>> /\ k' = k + 1 /\ pc' = pc
    BY <1>2, <1>3 DEF NextFile, Announce
  <2>2. ASSUME NEW c \in Place, ParentAt(c)
        PROVE  \E d \in Place : Plan(args, c, todo', d) /\ ParentAt(d)'
    <3>1. c.at = "between" /\ c.i <= k /\ c.i \in Nat /\ Skipped(args, c.i, k)
      BY <1>2, <2>2 DEF ParentAt, Place
    <3>2. Skipped(args, c.i, k + 1)
      BY <1>1, <1>3, <3>1 DEF Skipped
    <3>3. c.i <= k + 1
      BY <1>1, <3>1
    <3>4. ParentAt(c)'
      BY <1>2, <2>1, <3>1, <3>2, <3>3 DEF ParentAt
    <3>5. Plan(args, c, todo', c)
      BY <2>1, PlanNone
    <3> QED
      BY <3>4, <3>5
  <2> QED
    BY <1>2, <2>1, <2>2, Replan
<1>4. CASE args[k] \notin Missing
  <2>1. /\ todo' = <<<<Command("prepare_for_filename")>>, <<Name(args[k])>>>> /\ k' = k
        /\ pc'["parent"] = "read" /\ pc'["child"] = pc["child"]
    BY <1>2, <1>4, Moves DEF NextFile, Announce
  <2>2. ASSUME NEW c \in Place, ParentAt(c)
        PROVE  \E d \in Place : Plan(args, c, todo', d) /\ ParentAt(d)'
    <3> DEFINE n == At("name", k, 0, 0)
    <3>1. c.at = "between" /\ c.i <= k /\ c.i \in Nat /\ Skipped(args, c.i, k)
      BY <1>2, <2>2 DEF ParentAt, Place
    <3>2. n \in Place /\ At("open", k, 0, 0) \in Place
      BY <1>1, Constants DEF At, Place
    <3>d. PICK d \in Place : d = At("open", k, 0, 0)
      BY <3>2
    <3>3. Single(args, c, Command("prepare_for_filename"), n)
      BY <1>1, <1>4, <3>1 DEF Single, BeginsFile
    <3>4. Single(args, n, Name(args[k]), d)
      BY <3>d DEF Single, Names1, At
    <3>5. ParentAt(d)'
      <4>1. 0 <= Len(Contents[args[k]])
        BY <1>1, Constants
      <4> QED
        BY <3>d, <4>1, <1>2, <2>1 DEF ParentAt, At
    <3>6. /\ <<Command("prepare_for_filename")>> \in Seq(Item) /\ <<Name(args[k])>> \in Seq(Item)
      BY <1>1, ItemsMade DEF Commands
    <3> HIDE DEF n
    <3>7. Plan(args, n, <<<<Name(args[k])>>>>, d)
      BY <3>2, <3>4, SingleUnit, PlanOne
    <3>8. Plan(args, c, <<<<Command("prepare_for_filename")>>>> \o <<<<Name(args[k])>>>>, d)
      <4>1. <<<<Name(args[k])>>>> \in Seq(Seq(Item))
        BY <3>6
      <4>2. Unit(args, c, <<Command("prepare_for_filename")>>, 0,
                 Len(<<Command("prepare_for_filename")>>), n)
        BY <3>3, SingleUnit
      <4> QED
        BY <3>2, <3>6, <3>7, <4>1, <4>2, PlanMore
    <3>9. todo' = <<<<Command("prepare_for_filename")>>>> \o <<<<Name(args[k])>>>>
      BY <2>1
    <3> QED
      BY <3>2, <3>5, <3>8, <3>9
  <2> QED
    BY <1>2, <2>1, <2>2, Replan
<1> QED
  BY <1>3, <1>4

LEMMA SyncEnd ==
  ASSUME TypeOK, Control, Carried, Sync, EndTransmission, ~Over("child")
  PROVE  Sync'
<1>1. /\ k = Len(args) + 1 /\ k \in Nat \ {0} /\ Len(args) \in Nat
  BY ArgsTyped DEF EndTransmission, More, TypeOK, Carried
<1>2. pc["parent"] = "next" /\ todo = <<>> /\ todo' = <<<<Command("end_of_transmission")>>>>
      /\ UNCHANGED <<args, p1, current_name, out_fd, content, chunk_size, copied>>
  BY DEF EndTransmission, setup, childVars
<1>3. pc'["parent"] = "wait" /\ pc'["child"] = pc["child"]
  BY Moves DEF EndTransmission
<1>4. ASSUME NEW c \in Place, ParentAt(c)
      PROVE  \E d \in Place : Plan(args, c, todo', d) /\ ParentAt(d)'
  <2>1. c.at = "between" /\ c.i <= k /\ c.i \in Nat /\ Skipped(args, c.i, k)
    BY <1>2, <1>4 DEF ParentAt, Place
  <2>2. At("end", Len(args) + 1, 0, 0) \in Place
    BY <1>1, Constants DEF At, Place
  <2>d. PICK d \in Place : d = At("end", Len(args) + 1, 0, 0)
    BY <2>2
  <2>3. Single(args, c, Command("end_of_transmission"), d)
    BY <1>1, <2>1, <2>d DEF Single, EndsAll
  <2>4. ParentAt(d)'
    BY <1>3, <2>d DEF ParentAt, At
  <2>5. Plan(args, c, todo', d)
    BY <1>2, <2>3, SingleUnit, PlanOne
  <2> QED
    BY <2>2, <2>4, <2>5
<1> QED
  BY <1>2, <1>3, <1>4, Replan

LEMMA SyncChunk ==
  ASSUME TypeOK, Control, Carried, Files, Sync, ReadChunk, ~Over("child")
  PROVE  Sync'
<1> DEFINE f == args[k]
           size == Len(content[in_fd])
           end == ReadEnd(size)
           cells == SubSeq(content[in_fd], pos + 1, end)
           w == [x \in DOMAIN cells |-> Cell(cells[x])]
<1>1. /\ k \in DOMAIN args /\ k \in Nat \ {0} /\ f \in DOMAIN CopyOf /\ f \in Names
      /\ in_fd = f /\ content[f] \in Seq(Values) /\ pos \in Nat /\ size \in Nat
  <2>1. k \in DOMAIN args /\ k \in Nat \ {0} /\ in_fd = f /\ pos \in Nat
    BY ArgsTyped DEF ReadChunk, Control, TypeOK, Carried
  <2>2. f \in DOMAIN CopyOf /\ f \in Names
    BY <2>1, ArgsTyped, Constants DEF Carried
  <2>3. content[f] \in Seq(Values)
    BY <2>2 DEF TypeOK
  <2> QED
    BY <2>1, <2>2, <2>3
<1>2. pc["parent"] = "read" /\ todo = <<>>
      /\ UNCHANGED <<args, p1, current_name, out_fd, content, chunk_size, copied>>
  BY DEF ReadChunk, setup, childVars
<1>3. Separate(args) => content[f] = Contents[f]
  BY <1>1 DEF Files
<1>4. <<Command("prepare_for_size")>> \in Seq(Item) /\ <<Command("prepare_for_message")>> \in Seq(Item)
  BY ItemsMade DEF Commands
<1>5. ASSUME NEW c \in Place, ParentAt(c)
      PROVE  /\ c.at = "open" /\ c.i = k /\ c.off = pos
             /\ At("size", k, pos, 0) \in Place
             /\ Single(args, c, Command("prepare_for_size"), At("size", k, pos, 0))
             /\ Separate(args) => pos <= Len(Contents[f])
  <2>1. c.at = "open" /\ c.i = k /\ c.off = pos /\ (Separate(args) => pos <= Len(Contents[f]))
    BY <1>2, <1>5 DEF ParentAt
  <2>2. At("size", k, pos, 0) \in Place
    BY <1>1, Constants DEF At, Place
  <2>3. Single(args, c, Command("prepare_for_size"), At("size", k, pos, 0))
    BY <2>1 DEF Single, Asks
  <2> QED
    BY <2>1, <2>2, <2>3
<1>6. CASE pos < size
  <2> DEFINE n == end - pos
  <2>1. /\ todo' = << <<Command("prepare_for_size")>>, <<Size(n)>>,
                      <<Command("prepare_for_message")>>, w >>
        /\ pos' = end /\ UNCHANGED <<k, pc>>
    BY <1>6 DEF ReadChunk
  <2>2. end \in Nat /\ pos <= end /\ end <= size /\ n \in 1 .. CHUNK_SIZE
    BY <1>1, <1>6, Constants DEF ReadEnd
  <2>3. /\ w \in Seq(Item) /\ Len(w) = n
        /\ \A x \in 1 .. n : w[x] = Cell(content[f][pos + x]) /\ content[f][pos + x] \in Values
    <3>1. w = [x \in DOMAIN SubSeq(content[f], pos + 1, end) |-> Cell(SubSeq(content[f], pos + 1, end)[x])]
      BY <1>1
    <3>2. content[f] \in Seq(Values) /\ pos \in Nat /\ end \in Nat /\ pos <= end /\ end <= Len(content[f])
      BY <1>1, <2>2
    <3> HIDE DEF end, w, f
    <3> QED
      BY <3>1, <3>2, ChunkTyped
  <2>4. <<Size(n)>> \in Seq(Item)
    BY <2>2, ItemsMade
  <2> HIDE DEF w, end, f
  <2>5. ASSUME NEW c \in Place, ParentAt(c)
        PROVE  \E d \in Place : Plan(args, c, todo', d) /\ ParentAt(d)'
    <3> DEFINE s == At("size", k, pos, 0)
               z == At("sized", k, pos, n)
               y == At("cells", k, pos, n)
    <3>1. s \in Place /\ Single(args, c, Command("prepare_for_size"), s)
      BY <1>5, <2>5
    <3>2. z \in Place /\ y \in Place /\ At("open", k, pos + n, 0) \in Place
      BY <1>1, <2>2, Constants DEF At, Place
    <3>d. PICK d \in Place : d = At("open", k, pos + n, 0)
      BY <3>2
    <3>3. Single(args, s, Size(n), z)
      BY <2>2 DEF Single, Sizes, At
    <3>4. Single(args, z, Command("prepare_for_message"), y)
      BY DEF Single, Warns, At
    <3>5. Chunk(args, y, w, 0, Len(w), d)
      <4>1. /\ y.at = "cells" /\ y.n = n /\ y.i = k /\ y.off = pos /\ n > 0 /\ Len(w) = 0 + n
            /\ d = At("open", y.i, y.off + y.n, 0)
        BY <2>2, <2>3, <3>d DEF At
      <4>2. ASSUME NEW x \in 1 .. n
            PROVE  \E v \in Values : w[0 + x] = Cell(v) /\ (Separate(args) => v = Contents[args[k]][pos + x])
        <5>1. 0 + x = x
          OBVIOUS
        <5>2. /\ w[x] = Cell(content[f][pos + x]) /\ content[f][pos + x] \in Values
              /\ Separate(args) => content[f][pos + x] = Contents[args[k]][pos + x]
          BY <2>3, <1>3 DEF f
        <5> QED
          BY <5>1, <5>2
      <4>3. Separate(args) => pos + n <= Len(Contents[args[k]])
        BY <1>1, <1>3, <2>2 DEF f
      <4> HIDE DEF n, y
      <4> QED
        BY <4>1, <4>2, <4>3 DEF Chunk
    <3>6. ParentAt(d)'
      <4>1. /\ d.at = "open" /\ d.i = k /\ d.off = end
        BY <1>1, <2>2, <3>d DEF At
      <4>2. Separate(args) => end <= Len(Contents[args[k]])
        BY <1>1, <1>3, <2>2 DEF f
      <4> QED
        BY <4>1, <4>2, <1>2, <2>1, <3>d DEF ParentAt
    <3> HIDE DEF s, z, y
    <3>7. Plan(args, y, <<w>>, d)
      BY <3>2, <3>5, PlanOne DEF Unit
    <3> DEFINE w3 == <<<<Command("prepare_for_message")>>>> \o <<w>>
               w2 == <<<<Size(n)>>>> \o w3
               w1 == <<<<Command("prepare_for_size")>>>> \o w2
    <3>8. <<w>> \in Seq(Seq(Item)) /\ w3 \in Seq(Seq(Item)) /\ w2 \in Seq(Seq(Item))
      BY <1>4, <2>3, <2>4
    <3>9. todo' = w1
      BY <2>1
    <3>10. Plan(args, z, w3, d)
      <4>1. Unit(args, z, <<Command("prepare_for_message")>>, 0,
                 Len(<<Command("prepare_for_message")>>), y)
        BY <3>4, SingleUnit
      <4> QED
        BY <1>4, <3>2, <3>7, <3>8, <4>1, PlanMore
    <3>11. Plan(args, s, w2, d)
      <4>1. Unit(args, s, <<Size(n)>>, 0, Len(<<Size(n)>>), z)
        BY <3>3, SingleUnit
      <4> HIDE DEF w3
      <4> QED
        BY <2>4, <3>1, <3>2, <3>8, <3>10, <4>1, PlanMore
    <3>12. Plan(args, c, w1, d)
      <4>1. Unit(args, c, <<Command("prepare_for_size")>>, 0, Len(<<Command("prepare_for_size")>>), s)
        BY <3>1, SingleUnit
      <4> HIDE DEF w2
      <4> QED
        BY <1>4, <3>1, <3>2, <3>8, <3>11, <4>1, PlanMore
    <3> QED
      BY <3>2, <3>6, <3>9, <3>12
  <2>6. pc'["child"] = pc["child"]
    BY <2>1
  <2> QED
    BY <1>2, <2>5, <2>6, Replan
<1>7. CASE ~(pos < size)
  <2>1. /\ todo' = << <<Command("prepare_for_size")>>, <<Size(0)>> >> /\ k' = k + 1
        /\ pc'["parent"] = "next" /\ pc'["child"] = pc["child"]
    BY <1>7, Moves DEF ReadChunk
  <2>2. <<Size(0)>> \in Seq(Item)
    BY Constants, ItemsMade
  <2>3. ASSUME NEW c \in Place, ParentAt(c)
        PROVE  \E d \in Place : Plan(args, c, todo', d) /\ ParentAt(d)'
    <3> DEFINE s == At("size", k, pos, 0)
    <3>1. s \in Place /\ Single(args, c, Command("prepare_for_size"), s)
      BY <1>5, <2>3
    <3>2. At("between", k + 1, 0, 0) \in Place
      BY <1>1, Constants DEF At, Place
    <3>d. PICK d \in Place : d = At("between", k + 1, 0, 0)
      BY <3>2
    <3>3. Single(args, s, Size(0), d)
      <4>1. Separate(args) => pos = Len(Contents[args[k]])
        BY <1>1, <1>3, <1>5, <1>7, <2>3
      <4> QED
        BY <4>1, <3>d DEF Single, Closes, At
    <3>4. ParentAt(d)'
      <4>1. Skipped(args, k + 1, k + 1)
        BY <1>1 DEF Skipped
      <4>2. k + 1 <= k + 1
        BY <1>1
      <4> QED
        BY <3>d, <4>1, <4>2, <1>2, <2>1 DEF ParentAt, At
    <3> HIDE DEF s
    <3>5. Plan(args, s, <<<<Size(0)>>>>, d)
      BY <3>1, <3>2, <3>3, SingleUnit, PlanOne
    <3>6. Plan(args, c, <<<<Command("prepare_for_size")>>>> \o <<<<Size(0)>>>>, d)
      <4>1. <<<<Size(0)>>>> \in Seq(Seq(Item))
        BY <2>2
      <4>2. Unit(args, c, <<Command("prepare_for_size")>>, 0, Len(<<Command("prepare_for_size")>>), s)
        BY <3>1, SingleUnit
      <4> QED
        BY <1>4, <3>1, <3>2, <3>5, <4>1, <4>2, PlanMore
    <3>7. todo' = <<<<Command("prepare_for_size")>>>> \o <<<<Size(0)>>>>
      BY <2>1
    <3> QED
      BY <3>2, <3>4, <3>6, <3>7
  <2> QED
    BY <1>2, <2>1, <2>3, Replan
<1> QED
  BY <1>6, <1>7

(* The steps that write, plan and read nothing. *)
LEMMA SyncStill ==
  ASSUME Control, Sync, UNCHANGED <<args, p1, todo, k, pos, current_name, out_fd, content,
                                    chunk_size, copied>>,
         \A a \in Place : ~Over("child") /\ Reads(a) => Over("child")' \/ Reads(a)',
         Over("child") => Over("child")',
         \A c \in Place : ParentAt(c) => ParentAt(c)',
         ParentGone => ParentGone',
         pc["parent"] = "killed" => pc'["parent"] = "killed"
  PROVE  Sync'
<1>1. CASE Over("child") \/ Over("child")'
  BY <1>1 DEF Sync
<1>2. CASE Adrift
  BY <1>2 DEF Sync, Adrift
<1>3. CASE Synced /\ ~Over("child") /\ ~Over("child")'
  <2>1. PICK a \in Place, b \in Place :
          /\ ChildAt(a) /\ Chain(args, a, p1, b)
          /\ ~ParentGone => \E c \in Place : Plan(args, b, todo, c) /\ ParentAt(c)
    BY <1>3 DEF Synced
  <2>2. ChildAt(a)'
    BY <1>3, <2>1 DEF ChildAt, Holds, Finished, Due
  <2>3. Chain(args', a, p1', b)
    BY <2>1
  <2>4. ASSUME ~ParentGone' PROVE \E c \in Place : Plan(args', b, todo', c) /\ ParentAt(c)'
    <3>1. PICK c \in Place : Plan(args, b, todo, c) /\ ParentAt(c)
      BY <2>1, <2>4
    <3>2. Plan(args', b, todo', c) /\ ParentAt(c)'
      BY <3>1
    <3> QED
      BY <3>2
  <2>5. Synced'
    BY <2>2, <2>3, <2>4 DEF Synced
  <2> QED
    BY <2>5 DEF Sync
<1> QED
  BY <1>1, <1>2, <1>3 DEF Sync

LEMMA SyncOthers ==
  ASSUME TypeOK, Control, Carried, Sync,
         OpenFifo \/ ReadReady \/ Waited \/ SayReady \/ UNCHANGED vars
         \/ \E p \in {"parent", "child"} : Kill(p)
  PROVE  Sync'
<1> USE DEF Over, ParentGone
<1>1. UNCHANGED <<args, p1, todo, k, pos, current_name, out_fd, content, chunk_size, copied>>
  BY DEF OpenFifo, ReadReady, Waited, SayReady, Kill, vars, setup, parentVars, childVars
<1>2. CASE OpenFifo
  <2>1. /\ pc'["parent"] \in {"open2", "ready"} /\ pc'["child"] \in {"open2", "hello"}
        /\ pc["child"] \in {"open1", "open2"} /\ pc["parent"] \in {"open1", "open2"}
    BY <1>2 DEF OpenFifo, Opening, Opens, None
  <2> QED
    BY <1>1, <2>1, SyncStill DEF Reads, ParentAt
<1>3. CASE ReadReady
  <2>1. pc'["parent"] = "next" /\ pc'["child"] = pc["child"] /\ pc["parent"] = "ready"
    BY <1>3, Moves DEF ReadReady
  <2> QED
    BY <1>1, <2>1, SyncStill DEF Reads, ParentAt
<1>4. CASE Waited
  <2>1. pc'["child"] = pc["child"] /\ Over("child")
    BY <1>4, Moves DEF Waited
  <2> QED
    BY <2>1 DEF Sync
<1>5. CASE SayReady
  <2>1. pc'["child"] \in {"killed", "command"} /\ pc'["parent"] = pc["parent"] /\ pc["child"] = "hello"
    BY <1>5, Moves DEF SayReady
  <2> QED
    BY <1>1, <2>1, SyncStill DEF Reads, ParentAt
<1>6. CASE Kill("parent")
  <2>1. pc'["parent"] = "killed" /\ pc'["child"] = pc["child"]
    BY <1>6, Moves DEF Kill
  <2> QED
    BY <1>1, <2>1, SyncStill DEF Reads, ParentAt
<1>7. CASE Kill("child")
  <2>1. pc'["child"] = "killed"
    BY <1>7, Moves DEF Kill
  <2> QED
    BY <2>1 DEF Sync
<1>8. CASE UNCHANGED vars
  <2>1. pc' = pc
    BY <1>8 DEF vars
  <2> QED
    BY <1>1, <2>1, SyncStill DEF Reads, ParentAt
<1> QED
  BY <1>2, <1>3, <1>4, <1>5, <1>6, <1>7, <1>8

-----------------------------------------------------------------------------
(* The child's steps.                                                      *)

(* What the child finds when it reads, ... *)
LEMMA NextRead ==
  ASSUME Carried, Sync, ~Over("child"), p1 # <<>>
  PROVE  \E a, b, t \in Place : \E hi \in 1 .. Len(p1) :
           /\ ChildAt(a) /\ Unit(args, a, p1, 0, hi, t)
           /\ \A r \in Seq(Item) :
                Len(r) = Len(p1) - hi /\ (\A i \in 1 .. Len(r) : r[i] = p1[i + hi])
                  => Chain(args, t, r, b)
           /\ ~ParentGone => \E c \in Place : Plan(args, b, todo, c) /\ ParentAt(c)
<1>1. Synced /\ p1 \in Seq(Item)
  BY DEF Sync, Adrift, Carried
<1>2. PICK a \in Place, b \in Place :
        /\ ChildAt(a) /\ Chain(args, a, p1, b)
        /\ ~ParentGone => \E c \in Place : Plan(args, b, todo, c) /\ ParentAt(c)
  BY <1>1 DEF Synced
<1>3. PICK hi \in 1 .. Len(p1), t \in Place :
        /\ Unit(args, a, p1, 0, hi, t)
        /\ \A r \in Seq(Item) :
             Len(r) = Len(p1) - hi /\ (\A i \in 1 .. Len(r) : r[i] = p1[i + hi])
               => Chain(args, t, r, b)
  BY <1>1, <1>2, ChainTake
<1> QED
  BY <1>2, <1>3

(* ... a command, name or size first, or a chunk. *)
LEMMA NextItem ==
  ASSUME Carried, Sync, pc["child"] \in {"command", "name", "size"}, p1 # <<>>
  PROVE  \E a, b, t \in Place :
           /\ ChildAt(a) /\ Single(args, a, Head(p1), t) /\ Chain(args, t, Tail(p1), b)
           /\ ~ParentGone => \E c \in Place : Plan(args, b, todo, c) /\ ParentAt(c)
<1>1. PICK a \in Place, b \in Place, t \in Place : \E hi \in 1 .. Len(p1) :
        /\ ChildAt(a) /\ Unit(args, a, p1, 0, hi, t)
        /\ \A r \in Seq(Item) :
             Len(r) = Len(p1) - hi /\ (\A i \in 1 .. Len(r) : r[i] = p1[i + hi])
               => Chain(args, t, r, b)
        /\ ~ParentGone => \E c \in Place : Plan(args, b, todo, c) /\ ParentAt(c)
  BY NextRead DEF Over
<1>2. PICK hi \in 1 .. Len(p1) :
        /\ ChildAt(a) /\ Unit(args, a, p1, 0, hi, t)
        /\ \A r \in Seq(Item) :
             Len(r) = Len(p1) - hi /\ (\A i \in 1 .. Len(r) : r[i] = p1[i + hi])
               => Chain(args, t, r, b)
        /\ ~ParentGone => \E c \in Place : Plan(args, b, todo, c) /\ ParentAt(c)
  BY <1>1
<1>3. a.at # "cells"
  BY <1>2 DEF ChildAt, Reads
<1>4. hi = 1 /\ Single(args, a, p1[1], t)
  BY <1>2, <1>3 DEF Unit, Chunk
<1>5. /\ Head(p1) = p1[1] /\ Tail(p1) \in Seq(Item) /\ Len(Tail(p1)) = Len(p1) - 1
      /\ \A i \in 1 .. Len(Tail(p1)) : Tail(p1)[i] = p1[i + 1]
  BY HeadTailProperties DEF Carried
<1>6. Chain(args, t, Tail(p1), b)
  BY <1>2, <1>4, <1>5
<1> QED
  BY <1>2, <1>4, <1>5, <1>6

LEMMA NextChunk ==
  ASSUME TypeOK, Carried, Sync, pc["child"] = "message", p1 # <<>>
  PROVE  \E a, b, t \in Place :
           /\ ChildAt(a) /\ Chunk(args, a, p1, 0, chunk_size, t)
           /\ chunk_size <= Len(p1) /\ a.n = chunk_size
           /\ Chain(args, t, SubSeq(p1, chunk_size + 1, Len(p1)), b)
           /\ ~ParentGone => \E c \in Place : Plan(args, b, todo, c) /\ ParentAt(c)
<1>1. PICK a \in Place, b \in Place, t \in Place : \E hi \in 1 .. Len(p1) :
        /\ ChildAt(a) /\ Unit(args, a, p1, 0, hi, t)
        /\ \A r \in Seq(Item) :
             Len(r) = Len(p1) - hi /\ (\A i \in 1 .. Len(r) : r[i] = p1[i + hi])
               => Chain(args, t, r, b)
        /\ ~ParentGone => \E c \in Place : Plan(args, b, todo, c) /\ ParentAt(c)
  BY NextRead DEF Over
<1>2. PICK hi \in 1 .. Len(p1) :
        /\ ChildAt(a) /\ Unit(args, a, p1, 0, hi, t)
        /\ \A r \in Seq(Item) :
             Len(r) = Len(p1) - hi /\ (\A i \in 1 .. Len(r) : r[i] = p1[i + hi])
               => Chain(args, t, r, b)
        /\ ~ParentGone => \E c \in Place : Plan(args, b, todo, c) /\ ParentAt(c)
  BY <1>1
<1>3. a.at = "cells" /\ a.n = chunk_size /\ chunk_size \in Nat
  BY <1>2, Constants DEF ChildAt, Reads, Holds, TypeOK
<1>4. Chunk(args, a, p1, 0, hi, t) /\ hi = chunk_size
  <2>1. ~Single(args, a, p1[hi], t)
    BY <1>3 DEF Single, BeginsFile, EndsAll, Names1, Asks, Closes, Sizes, Warns
  <2> QED
    BY <1>2, <1>3, <2>1 DEF Unit, Chunk
<1> DEFINE r == SubSeq(p1, chunk_size + 1, Len(p1))
<1>5. /\ r \in Seq(Item) /\ Len(r) = Len(p1) - hi /\ Len(p1) \in Nat
      /\ \A i \in 1 .. Len(r) : r[i] = p1[i + hi]
  <2>1. p1 \in Seq(Item) /\ Len(p1) \in Nat /\ chunk_size + 1 \in 1 .. Len(p1) + 1
    BY <1>3, <1>4 DEF Carried
  <2>2. /\ r \in Seq(Item) /\ Len(r) = Len(p1) - chunk_size
        /\ \A i \in 1 .. Len(p1) - chunk_size : r[i] = p1[chunk_size + i]
    BY <1>3, <2>1, <1>4, SubSeqProperties
  <2>3. \A i \in 1 .. Len(r) : chunk_size + i = i + hi
    BY <1>3, <1>4, <2>1, <2>2
  <2> HIDE DEF r
  <2> QED
    BY <1>4, <2>1, <2>2, <2>3
<1>6. Chain(args, t, r, b)
  <2> HIDE DEF r
  <2> QED
    BY <1>2, <1>5
<1>7. chunk_size <= Len(p1)
  BY <1>4, <1>5
<1> QED
  BY <1>2, <1>3, <1>4, <1>6, <1>7

(* A child that reads the end of file while its pipe is empty has lost its *)
(* parent.                                                                 *)
LEMMA EofMeansAdrift ==
  ASSUME Control, Carried, Sync, [Next]_vars, Eof,
         pc["child"] \in {"command", "name", "size", "message"}
  PROVE  Adrift /\ Sync'
<1>1. p1 = <<>> /\ ~Over("child")
  BY DEF Eof, Over
<1>2. pc["parent"] = "killed"
  <2>1. SUFFICES ASSUME pc["parent"] # "killed" PROVE FALSE
    OBVIOUS
  <2>2. pc["parent"] = "wait" /\ todo = <<>> /\ ~ParentGone
    BY <1>1, <2>1 DEF Eof, ParentGone, Control
  <2>3. PICK a \in Place, b \in Place : /\ ChildAt(a) /\ Chain(args, a, p1, b)
                                        /\ \E c \in Place : Plan(args, b, todo, c) /\ ParentAt(c)
    BY <1>1, <2>1, <2>2 DEF Sync, Adrift, Synced
  <2>4. a = b /\ ParentAt(b)
    BY <1>1, <2>2, <2>3, ChainNone, PlanNone
  <2>5. a.at = "end"
    BY <2>2, <2>4 DEF ParentAt
  <2> QED
    BY <2>3, <2>5 DEF ChildAt, Reads
<1>3. p1' = <<>>
  BY <1>1, EofStays
<1>4. pc'["parent"] = "killed"
  <2>1. CASE Kill("parent")
    BY <2>1, Moves DEF Kill
  <2>2. CASE Child \/ Kill("child")
    <3>1. \E l \in Labels : Goto("child", l)
      BY <2>2 DEF Child, SayReady, ReadCommand, ReadName, ReadSize, ReadMessage, Kill, Branch
    <3> QED
      BY <1>2, <3>1, Moves
  <2>3. CASE UNCHANGED vars
    BY <1>2, <2>3 DEF vars
  <2> QED
    BY <1>2, <2>1, <2>2, <2>3
    DEF Next, Parent, OpenFifo, Opening, Opens, None, Write, Over, ReadReady, NextFile, ReadChunk,
        EndTransmission, Waited
<1> QED
  BY <1>1, <1>2, <1>3, <1>4 DEF Adrift, Sync

(* The child goes on to place t. *)
LEMMA SyncOn ==
  ASSUME NEW t \in Place, NEW b \in Place, ChildAt(t)', Chain(args, t, p1', b), Control,
         ~ParentGone => \E c \in Place : Plan(args, b, todo, c) /\ ParentAt(c),
         NEW l \in Labels, Goto("child", l), UNCHANGED <<args, todo, k, pos>>
  PROVE  Sync'
<1>1. pc'["parent"] = pc["parent"]
  BY Moves
<1>2. Chain(args', t, p1', b)
  OBVIOUS
<1>3. ASSUME ~ParentGone' PROVE \E c \in Place : Plan(args', b, todo', c) /\ ParentAt(c)'
  <2>1. PICK c \in Place : Plan(args, b, todo, c) /\ ParentAt(c)
    BY <1>1, <1>3 DEF ParentGone
  <2>2. Plan(args', b, todo', c) /\ ParentAt(c)'
    BY <1>1, <2>1, ParentStill
  <2> QED
    BY <2>2
<1>4. Synced'
  BY <1>2, <1>3 DEF Synced
<1> QED
  BY <1>4 DEF Sync

LEMMA ReadsCommand ==
  ASSUME TypeOK, Control, Carried, Files, Sync, ReadCommand
  PROVE  Sync' /\ AllCopied'
<1>1. CASE Eof
  <2>1. Sync'
    BY <1>1, EofMeansAdrift DEF ReadCommand, Next, Child
  <2>2. inbuf' = inbuf /\ inbuf # "end_of_transmission"
    BY <1>1 DEF ReadCommand, Eof, Next1, Control
  <2>3. pc'["child"] # "done"
    <3>1. Branch(inbuf) \in Labels \ {"done"}
      BY <2>2 DEF Branch
    <3> QED
      BY <2>2, <3>1, Moves DEF ReadCommand
  <2> QED
    BY <2>1, <2>3 DEF AllCopied
<1>2. CASE ~Eof
  <2>1. p1 # <<>> /\ inbuf' = Head(p1).value /\ p1' = Tail(p1) /\ pc["child"] = "command"
        /\ Head(p1).kind = "command"
        /\ UNCHANGED <<args, todo, k, pos, current_name, chunk_size, out_fd, content, copied>>
    BY <1>2 DEF ReadCommand, Next1, setup, parentVars
  <2>2. Goto("child", Branch(inbuf')) /\ Branch(inbuf') \in Labels
        /\ pc'["child"] = Branch(inbuf')
    <3>1. Branch(inbuf') \in Labels
      BY DEF Branch
    <3> QED
      BY <3>1, Moves DEF ReadCommand
  <2>3. PICK a \in Place, b \in Place, t \in Place :
           /\ ChildAt(a) /\ Single(args, a, Head(p1), t) /\ Chain(args, t, Tail(p1), b)
           /\ ~ParentGone => \E c \in Place : Plan(args, b, todo, c) /\ ParentAt(c)
    BY <2>1, NextItem
  <2>4. a.at \in {"between", "open", "sized"} /\ a.i \in Nat \ {0} /\ a.off \in Nat
        /\ a.n \in 0 .. CHUNK_SIZE
    BY <2>1, <2>3 DEF ChildAt, Reads, Place
  <2>5. CASE EndsAll(args, a, Head(p1), t)
    <3>1. inbuf' = "end_of_transmission" /\ a.at = "between" /\ a.i <= Len(args) + 1
          /\ Skipped(args, a.i, Len(args) + 1)
      BY <2>1, <2>5 DEF EndsAll, Command
    <3>2. pc'["child"] = "done"
      BY <2>2, <3>1 DEF Branch
    <3>3. ASSUME NEW f \in ToSet(args), f \notin {g \in DOMAIN CopyOf :
                                                    g \in Missing \/ CopyOf[g] \in Unwritable}
          PROVE  f \in copied
      <4>1. PICK j \in DOMAIN args : args[j] = f
        BY <3>3 DEF ToSet
      <4>2. Due(f) /\ j \in 1 .. Len(args) /\ Len(args) \in Nat
        BY <3>3, <4>1, ArgsTyped DEF Due, Carried
      <4>3. j \notin a.i .. Len(args)
        BY <3>1, <4>1, <4>2, <2>4 DEF Skipped, Due
      <4>4. j \in 1 .. a.i - 1
        BY <2>4, <4>2, <4>3
      <4> QED
        BY <2>3, <3>1, <4>1, <4>2, <4>4 DEF ChildAt, Finished, InFile
    <3>4. AllCopied'
      BY <2>1, <3>3 DEF AllCopied
    <3> QED
      BY <3>2, <3>4 DEF Sync, Over
  <2>6. CASE ~EndsAll(args, a, Head(p1), t)
    <3>1. /\ pc'["child"] \in {"name", "size", "message"}
          /\ ChildAt(t)'
      <4>1. CASE BeginsFile(args, a, Head(p1), t)
        <5>1. PICK j \in a.i .. Len(args) : args[j] \notin Missing /\ Skipped(args, a.i, j)
                                             /\ t = At("name", j, 0, 0)
          BY <4>1 DEF BeginsFile
        <5>2. inbuf' = "prepare_for_filename" /\ a.at = "between" /\ pc'["child"] = "name"
              /\ t.at = "name" /\ t.i = j
          BY <2>1, <2>2, <4>1, <5>1 DEF BeginsFile, Branch, Command, At
        <5>3. out_fd = None /\ j \in DOMAIN args /\ j \in Nat
          BY <2>3, <2>4, <5>2, ArgsTyped DEF ChildAt, Holds, InFile, Carried
        <5>4. ASSUME NEW h \in 1 .. j - 1, h \in DOMAIN args, Due(args[h])
              PROVE  args[h] \in copied
          <6>1. h \notin a.i .. j - 1
            BY <5>1, <5>4 DEF Skipped, Due
          <6>2. h \in 1 .. a.i - 1
            BY <2>4, <5>3, <6>1
          <6> QED
            BY <2>3, <5>2, <5>4, <6>2 DEF ChildAt, Finished, InFile
        <5>5. Reads(t)' /\ Holds(t)'
          BY <2>1, <5>2, <5>3 DEF Reads, Holds, InFile
        <5>6. Finished(t)'
          BY <2>1, <5>2, <5>4 DEF Finished, Due
        <5> QED
          BY <5>2, <5>5, <5>6 DEF ChildAt
      <4>2. CASE Asks(a, Head(p1), t)
        <5>1. inbuf' = "prepare_for_size" /\ a.at = "open" /\ pc'["child"] = "size"
              /\ t.at = "size" /\ t.i = a.i /\ t.off = a.off
          BY <2>1, <2>2, <4>2 DEF Asks, Branch, Command, At
        <5> QED
          BY <2>1, <2>3, <5>1 DEF ChildAt, Reads, Holds, Finished, InFile, Due
      <4>3. CASE Warns(a, Head(p1), t)
        <5>1. inbuf' = "prepare_for_message" /\ a.at = "sized" /\ pc'["child"] = "message"
              /\ t.at = "cells" /\ t.i = a.i /\ t.off = a.off /\ t.n = a.n
          BY <2>1, <2>2, <4>3 DEF Warns, Branch, Command, At
        <5> QED
          BY <2>1, <2>3, <5>1 DEF ChildAt, Reads, Holds, Finished, InFile, Due
      <4>4. ~Names1(args, a, Head(p1), t) /\ ~Closes(args, a, Head(p1), t) /\ ~Sizes(a, Head(p1), t)
        BY <2>4 DEF Names1, Closes, Sizes
      <4> QED
        BY <2>3, <2>6, <4>1, <4>2, <4>3, <4>4 DEF Single
    <3>2. Sync'
      BY <2>1, <2>2, <2>3, <3>1, SyncOn
    <3> QED
      BY <3>1, <3>2 DEF AllCopied
  <2> QED
    BY <2>5, <2>6
<1> QED
  BY <1>1, <1>2

(* Only the copy of the current name changes, and that is no argument if   *)
(* the arguments are apart.                                                *)
LEMMA OthersKeep ==
  ASSUME TypeOK, Carried, Files, NEW g \in ToSet(args),
         args' = args, \A f \in Names : f # CopyOf[g] => content'[f] = content[f]
  PROVE  /\ Separate(args) => \A j \in DOMAIN args :
                                content'[args[j]] = content[args[j]] /\ content'[args[j]] = Contents[args[j]]
         /\ Separate(args) => \A f \in ToSet(args) : content'[f] = content[f]
         /\ \A f \in ToSet(args) : f # g => content'[CopyOf[f]] = content[CopyOf[f]]
<1>1. PICK i \in DOMAIN args : args[i] = g
  BY DEF ToSet
<1>2. ASSUME Separate(args), NEW j \in DOMAIN args
      PROVE  content'[args[j]] = content[args[j]] /\ content'[args[j]] = Contents[args[j]]
  <2>1. args[j] \in Names /\ args[j] # CopyOf[g]
    BY <1>1, <1>2, ArgsTyped, Constants DEF Separate, Carried
  <2> QED
    BY <1>2, <2>1 DEF Files
<1>3. ASSUME Separate(args), NEW f \in ToSet(args)
      PROVE  content'[f] = content[f]
  <2>1. PICK j \in DOMAIN args : args[j] = f
    BY DEF ToSet
  <2> QED
    BY <1>2, <1>3, <2>1
<1>4. ASSUME NEW f \in ToSet(args), f # g PROVE content'[CopyOf[f]] = content[CopyOf[f]]
  <2>1. f \in DOMAIN CopyOf /\ g \in DOMAIN CopyOf
    BY ArgsTyped DEF Carried
  <2>2. CopyOf[f] \in Names /\ CopyOf[f] # CopyOf[g]
    BY <1>4, <2>1, Constants
  <2> QED
    BY <2>2
<1> QED
  BY <1>2, <1>3, <1>4

LEMMA FilesNow ==
  ASSUME args' = args, current_name' \in ToSet(args) \cup {Garbage}, copied' \subseteq ToSet(args),
         out_fd' \notin {None, Garbage} =>
           /\ current_name' # Garbage /\ out_fd' = CopyOf[current_name']
           /\ current_name' \notin copied' \/ Truncates(current_name)',
         out_fd' = Garbage => Eof',
         Separate(args) => \A j \in DOMAIN args : content'[args[j]] = Contents[args[j]]
  PROVE  Files'
BY DEF Files

LEMMA ReadsName ==
  ASSUME TypeOK, Control, Carried, Files, CopiedIsComplete, Sync, ReadName
  PROVE  Sync' /\ Files' /\ CopiedIsComplete'
<1>0. /\ pc["child"] = "name" /\ inbuf = "prepare_for_filename" /\ Goto("child", "command")
      /\ UNCHANGED <<args, inbuf, chunk_size, todo, k, pos>> /\ Create(current_name')
  BY DEF ReadName, Control, Branch, Commands, setup, parentVars
<1>1. CASE Eof
  <2>1. Sync' /\ Eof' /\ current_name' = current_name /\ inbuf' = inbuf /\ copied' = copied
    BY <1>1, EofMeansAdrift, EofStays DEF ReadName, Next, Child, Eof, Next1
  <2>2. CASE current_name = Garbage
    <3>1. content' = content /\ out_fd' \in {None, Garbage}
      BY <1>0, <2>1, <2>2 DEF Create
    <3>2. Files'
      BY <1>0, <2>1, <3>1 DEF Files
    <3>3. CopiedIsComplete'
      BY <1>0, <1>1, <2>1, <3>1 DEF CopiedIsComplete, Apart
    <3> QED
      BY <2>1, <3>2, <3>3
  <2>3. CASE current_name # Garbage
    <3>1. current_name \in ToSet(args) /\ current_name \in DOMAIN CopyOf
          /\ CopyOf[current_name] \notin {None, Garbage}
      BY <2>3, Constants DEF Files, TypeOK
    <3>2. out_fd' \in {None, CopyOf[current_name]}
          /\ \A f \in Names : f # CopyOf[current_name] => content'[f] = content[f]
      BY <1>0, <2>1, <2>3 DEF Create, TypeOK
    <3>3. /\ Separate(args) => \A j \in DOMAIN args : content'[args[j]] = Contents[args[j]]
          /\ Separate(args) => \A f \in ToSet(args) : content'[f] = content[f]
          /\ \A f \in ToSet(args) : f # current_name => content'[CopyOf[f]] = content[CopyOf[f]]
      BY <1>0, <3>1, <3>2, OthersKeep
    <3>4. Truncates(current_name)'
      BY <1>0, <2>1 DEF Truncates
    <3>5. Files'
      <4>1. copied' \subseteq ToSet(args)
        BY <2>1 DEF Files
      <4> QED
        BY <1>0, <2>1, <2>3, <3>1, <3>2, <3>3, <3>4, <4>1, FilesNow
    <3>6. CopiedIsComplete'
      <4>1. ASSUME Separate(args), NEW f \in copied
            PROVE  content'[CopyOf[f]] = content'[f] \/ Truncates(f)'
        <5>1. CASE f = current_name
          BY <2>1, <3>4, <5>1 DEF Truncates
        <5>2. CASE f # current_name
          BY <3>3, <4>1, <5>2 DEF CopiedIsComplete, Apart, Separate, Files
        <5> QED
          BY <5>1, <5>2
      <4> QED
        BY <1>0, <2>1, <4>1 DEF CopiedIsComplete, Apart, Separate, Truncates
    <3> QED
      BY <2>1, <3>5, <3>6
  <2> QED
    BY <2>2, <2>3
<1>2. CASE ~Eof
  <2>1. p1 # <<>> /\ p1' = Tail(p1) /\ Head(p1).kind = "name"
        /\ current_name' = Head(p1).value /\ copied' = copied \ {current_name'}
    BY <1>2 DEF ReadName, Next1
  <2>2. PICK a \in Place, b \in Place, t \in Place :
           /\ ChildAt(a) /\ Single(args, a, Head(p1), t) /\ Chain(args, t, Tail(p1), b)
           /\ ~ParentGone => \E c \in Place : Plan(args, b, todo, c) /\ ParentAt(c)
    BY <1>0, <2>1, NextItem
  <2>3. a.at = "name" /\ a.i \in Nat \ {0} /\ a.i \in DOMAIN args
    BY <1>0, <2>2 DEF ChildAt, Reads, Holds, Place
  <2>4. Head(p1) = Name(args[a.i]) /\ t = At("open", a.i, 0, 0)
    BY <2>2, <2>3 DEF Single, BeginsFile, EndsAll, Names1, Asks, Closes, Sizes, Warns
  <2> DEFINE g == args[a.i]
  <2>5. current_name' = g /\ g \in ToSet(args) /\ g \in DOMAIN CopyOf /\ g # Garbage
        /\ CopyOf[g] \in Names /\ CopyOf[g] \notin {None, Garbage} /\ g \in Names
    BY <2>1, <2>3, <2>4, ArgsTyped, Constants DEF Name, Carried
  <2> HIDE DEF g
  <2>6. /\ out_fd' = (IF CopyOf[g] \in Unwritable THEN None ELSE CopyOf[g])
        /\ CopyOf[g] \notin Unwritable => content' = [content EXCEPT ![CopyOf[g]] = <<>>]
        /\ CopyOf[g] \in Unwritable => content' = content
    BY <1>0, <1>2, <2>5 DEF Create
  <2>7. \A f \in Names : f # CopyOf[g] => content'[f] = content[f]
    BY <2>6 DEF TypeOK
  <2>8. /\ Separate(args) => \A j \in DOMAIN args : content'[args[j]] = Contents[args[j]]
        /\ Separate(args) => \A f \in ToSet(args) : content'[f] = content[f]
        /\ \A f \in ToSet(args) : f # g => content'[CopyOf[f]] = content[CopyOf[f]]
    BY <1>0, <2>5, <2>7, OthersKeep
  <2>9. Files'
    <3>1. copied' \subseteq ToSet(args) /\ current_name' \notin copied'
      BY <2>1 DEF Files
    <3>2. out_fd' # Garbage /\ (out_fd' # None => out_fd' = CopyOf[current_name'])
      BY <2>5, <2>6 DEF None, Garbage
    <3> QED
      BY <1>0, <2>5, <2>8, <3>1, <3>2, FilesNow
  <2>10. CopiedIsComplete'
    <3>1. ASSUME Separate(args), NEW f \in copied'
          PROVE  content'[CopyOf[f]] = content'[f]
      <4>1. f \in copied /\ f # g /\ f \in ToSet(args)
        BY <2>1, <2>5, <3>1 DEF Files
      <4> QED
        BY <1>2, <2>8, <3>1, <4>1 DEF CopiedIsComplete, Apart, Separate
    <3> QED
      BY <1>0, <3>1 DEF CopiedIsComplete, Apart, Separate
  <2>11. ChildAt(t)'
    <3>1. t.at = "open" /\ t.i = a.i /\ t.off = 0
      BY <2>4 DEF At
    <3>2. pc'["child"] = "command"
      BY <1>0, Moves
    <3>3. ASSUME out_fd' # None
          PROVE  /\ 0 <= Len(Contents[g])
                 /\ content'[out_fd'] = SubSeq(Contents[g], 1, 0)
      <4>1. content'[out_fd'] = <<>>
        BY <2>5, <2>6, <3>3 DEF TypeOK
      <4>2. Contents[g] \in Seq(Values)
        BY <2>5, Constants
      <4>3. Len(Contents[g]) \in Nat /\ SubSeq(Contents[g], 1, 0) = <<>>
        BY <4>2
      <4> QED
        BY <4>1, <4>3
    <3>4. Holds(t)'
      BY <1>0, <2>3, <2>5, <2>6, <3>1, <3>3 DEF Holds, InFile, g
    <3>5. Finished(t)'
      <4>1. ASSUME NEW j \in 1 .. a.i - 1, j \in DOMAIN args, Due(args[j])
            PROVE  args[j] \in copied' \/ args[j] = args[a.i]
        <5>1. args[j] \in copied
          BY <2>2, <2>3, <4>1 DEF ChildAt, Finished, InFile
        <5> QED
          BY <2>1, <2>5, <5>1 DEF g
      <4> QED
        BY <1>0, <3>1, <4>1 DEF Finished, Due, InFile
    <3> QED
      BY <3>1, <3>2, <3>4, <3>5 DEF ChildAt, Reads
  <2>12. Sync'
    BY <1>0, <2>1, <2>2, <2>11, SyncOn
  <2> QED
    BY <2>9, <2>10, <2>12
<1> QED
  BY <1>1, <1>2

LEMMA ReadsSize ==
  ASSUME TypeOK, Control, Carried, Files, CopiedIsComplete, Sync, ReadSize
  PROVE  Sync' /\ Files' /\ CopiedIsComplete'
<1>0. /\ pc["child"] = "size" /\ Goto("child", "command")
      /\ UNCHANGED <<args, inbuf, todo, k, pos, current_name, content>>
  BY DEF ReadSize, setup, parentVars
<1>1. CASE Eof
  <2>1. Sync' /\ Eof' /\ copied' = copied /\ out_fd' \in {None, out_fd}
    BY <1>1, EofMeansAdrift, EofStays DEF ReadSize, Next, Child
  <2>2. Files'
    BY <1>0, <1>1, <2>1 DEF Files, Truncates
  <2>3. CopiedIsComplete'
    BY <1>0, <1>1, <2>1 DEF CopiedIsComplete, Apart
  <2> QED
    BY <2>1, <2>2, <2>3
<1>2. CASE ~Eof
  <2>1. p1 # <<>> /\ p1' = Tail(p1) /\ Head(p1).kind = "size" /\ chunk_size' = Head(p1).value
    BY <1>2 DEF ReadSize, Next1
  <2>2. PICK a \in Place, b \in Place, t \in Place :
           /\ ChildAt(a) /\ Single(args, a, Head(p1), t) /\ Chain(args, t, Tail(p1), b)
           /\ ~ParentGone => \E c \in Place : Plan(args, b, todo, c) /\ ParentAt(c)
    BY <1>0, <2>1, NextItem
  <2>3. a.at = "size" /\ a.i \in Nat \ {0} /\ a.i \in DOMAIN args /\ a.off \in Nat
    BY <1>0, <2>2 DEF ChildAt, Reads, Holds, Place
  <2>4. Closes(args, a, Head(p1), t) \/ Sizes(a, Head(p1), t)
    BY <2>2, <2>3 DEF Single, BeginsFile, EndsAll, Names1, Asks, Warns
  <2> DEFINE g == args[a.i]
  <2>5. /\ current_name = g /\ g \in ToSet(args) /\ g \in DOMAIN CopyOf /\ g \in Names
        /\ CopyOf[g] \notin {None, Garbage}
        /\ out_fd = (IF CopyOf[g] \in Unwritable THEN None ELSE CopyOf[g])
    BY <2>2, <2>3, ArgsTyped, Constants DEF ChildAt, Holds, InFile, Carried
  <2>6. pc'["child"] = "command"
    BY <1>0, Moves
  <2>7. CASE Closes(args, a, Head(p1), t)
    <3>1. /\ chunk_size' = 0 /\ t.at = "between" /\ t.i = a.i + 1 /\ out_fd' = None
          /\ copied' = (IF out_fd # None THEN copied \cup {g} ELSE copied)
      BY <1>2, <2>1, <2>5, <2>7 DEF Closes, Size, At, ReadSize
    <3>2. ChildAt(t)'
      <4>1. ASSUME NEW j \in 1 .. a.i, j \in DOMAIN args, Due(args[j])
            PROVE  args[j] \in copied'
        <5>1. CASE args[j] = args[a.i]
          BY <2>5, <3>1, <4>1, <5>1 DEF Due
        <5>2. CASE args[j] # args[a.i]
          <6>1. j \in 1 .. a.i - 1
            BY <2>3, <5>2
          <6>2. args[j] \in copied
            BY <2>2, <4>1, <5>2, <6>1 DEF ChildAt, Finished
          <6> QED
            BY <3>1, <6>2
        <5> QED
          BY <5>1, <5>2
      <4>2. (a.i + 1) - 1 = a.i
        BY <2>3
      <4>3. Finished(t)'
        BY <1>0, <3>1, <4>1, <4>2 DEF Finished, Due
      <4>4. Reads(t)' /\ Holds(t)'
        BY <2>6, <3>1 DEF Reads, Holds, InFile
      <4> QED
        BY <4>3, <4>4 DEF ChildAt
    <3>3. Files'
      <4>1. copied' \subseteq ToSet(args) /\ current_name' \in ToSet(args)
        BY <1>0, <2>5, <3>1 DEF Files
      <4>2. Separate(args) => \A j \in DOMAIN args : content'[args[j]] = Contents[args[j]]
        BY <1>0 DEF Files
      <4>3. out_fd' = None /\ None # Garbage
        BY <3>1 DEF None, Garbage
      <4> QED
        BY <1>0, <4>1, <4>2, <4>3, FilesNow
    <3>4. CopiedIsComplete'
      <4>1. ASSUME Separate(args), NEW f \in copied'
            PROVE  content[CopyOf[f]] = content[f]
        <5>1. CASE f \in copied
          BY <1>2, <4>1, <5>1 DEF CopiedIsComplete, Apart, Separate
        <5>2. CASE f \notin copied
          <6>1. f = g /\ out_fd # None /\ out_fd = CopyOf[g]
            BY <2>5, <3>1, <4>1, <5>2
          <6>2. content[out_fd] = SubSeq(Contents[g], 1, a.off) /\ a.off = Len(Contents[g])
            BY <2>2, <2>3, <2>5, <2>7, <4>1, <6>1 DEF ChildAt, Holds, InFile, Closes
          <6>3. Contents[g] \in Seq(Values)
            BY <2>5, Constants
          <6>4. SubSeq(Contents[g], 1, Len(Contents[g])) = Contents[g]
            BY <6>3
          <6>5. content[g] = Contents[g]
            BY <2>3, <4>1 DEF Files
          <6> QED
            BY <6>1, <6>2, <6>4, <6>5
        <5> QED
          BY <5>1, <5>2
      <4> QED
        BY <1>0, <4>1 DEF CopiedIsComplete, Apart, Separate
    <3>5. Sync'
      BY <1>0, <2>1, <2>2, <3>2, SyncOn
    <3> QED
      BY <3>3, <3>4, <3>5
  <2>8. CASE Sizes(a, Head(p1), t)
    <3>1. PICK n \in 1 .. CHUNK_SIZE : Head(p1) = Size(n) /\ t = At("sized", a.i, a.off, n)
      BY <2>8 DEF Sizes
    <3>2. /\ chunk_size' = n /\ n > 0 /\ n # 0 /\ t.at = "sized" /\ t.i = a.i /\ t.off = a.off /\ t.n = n
      BY <2>1, <3>1, Constants DEF Size, At
    <3>3. UNCHANGED <<out_fd, copied>>
      BY <3>2 DEF ReadSize
    <3>4. ChildAt(t)'
      BY <1>0, <2>2, <2>3, <2>6, <3>2, <3>3 DEF ChildAt, Reads, Holds, Finished, InFile, Due
    <3>5. Files'
      BY <1>0, <1>2, <3>3 DEF Files, Truncates
    <3>6. CopiedIsComplete'
      BY <1>0, <1>2, <3>3 DEF CopiedIsComplete, Apart
    <3>7. Sync'
      BY <1>0, <2>1, <2>2, <3>4, SyncOn
    <3> QED
      BY <3>5, <3>6, <3>7
  <2> QED
    BY <2>4, <2>7, <2>8
<1> QED
  BY <1>1, <1>2

(* A copy grows by what comes next in the file. *)
LEMMA Appended ==
  ASSUME NEW C \in Seq(Values), NEW off \in Nat, NEW n \in Nat, off + n <= Len(C),
         NEW d, d \in [1 .. CHUNK_SIZE -> Values], n <= CHUNK_SIZE,
         \A x \in 1 .. n : d[x] = C[off + x]
  PROVE  SubSeq(C, 1, off) \o SubSeq(d, 1, n) = SubSeq(C, 1, off + n)
<1> DEFINE u == SubSeq(C, 1, off)
           w == SubSeq(d, 1, n)
           v == SubSeq(C, 1, off + n)
<1>0. Len(C) \in Nat /\ off \in 0 .. Len(C) /\ off + n \in 0 .. Len(C)
  OBVIOUS
<1>1. u \in Seq(Values) /\ Len(u) = off /\ \A x \in 1 .. off : u[x] = C[x]
  BY <1>0, SubSeqProperties
<1>2. v \in Seq(Values) /\ Len(v) = off + n /\ \A x \in 1 .. off + n : v[x] = C[x]
  BY <1>0, SubSeqProperties
<1>3. w \in Seq(Values) /\ Len(w) = n /\ \A x \in 1 .. n : w[x] = d[x]
  <2>1. d \in Seq(Values) /\ Len(d) = CHUNK_SIZE
    BY Constants
  <2>2. n \in 0 .. Len(d) /\ 1 \in 1 .. n + 1
    BY <2>1, Constants
  <2> QED
    BY <2>1, <2>2, SubSeqProperties
<1> HIDE DEF u, w, v
<1>4. u \o w \in Seq(Values) /\ Len(u \o w) = off + n
      /\ \A x \in 1 .. off + n : (u \o w)[x] = IF x <= off THEN u[x] ELSE w[x - off]
  <2>1. /\ u \o w \in Seq(Values)
        /\ Len(u \o w) = Len(u) + Len(w)
        /\ \A x \in 1 .. Len(u) + Len(w) : (u \o w)[x] = IF x <= Len(u) THEN u[x] ELSE w[x - Len(u)]
    BY <1>1, <1>3, ConcatProperties, Zenon
  <2>2. Len(u) = off /\ Len(w) = n
    BY <1>1, <1>3
  <2> QED
    BY <2>1, <2>2, Zenon
<1>5. ASSUME NEW x \in 1 .. off + n PROVE (u \o w)[x] = v[x]
  <2>1. CASE x <= off
    BY <1>1, <1>2, <1>4, <2>1
  <2>2. CASE x > off
    <3>1. x - off \in 1 .. n /\ off + (x - off) = x /\ ~ (x <= off)
      BY <2>2
    <3>2. (u \o w)[x] = w[x - off]
      BY <1>4, <3>1
    <3>3. w[x - off] = d[x - off] /\ d[x - off] = C[off + (x - off)]
      BY <1>3, <3>1
    <3>4. v[x] = C[x]
      BY <1>2
    <3> QED
      BY <3>1, <3>2, <3>3, <3>4
  <2>3. x <= off \/ x > off
    OBVIOUS
  <2> QED
    BY <2>1, <2>2, <2>3
<1>6. u \o w = v
  BY <1>2, <1>4, <1>5
<1> QED
  BY <1>6 DEF u, w, v

LEMMA ReadsMessage ==
  ASSUME TypeOK, Control, Carried, Files, CopiedIsComplete, Sync, ReadMessage
  PROVE  Sync' /\ Files' /\ CopiedIsComplete'
<1>0. /\ pc["child"] = "message" /\ inbuf = "prepare_for_message" /\ Goto("child", "command")
      /\ UNCHANGED <<args, inbuf, todo, k, pos, current_name, chunk_size, out_fd, copied>>
  BY DEF ReadMessage, Control, Branch, Commands, setup, parentVars
<1>1. /\ out_fd \in {None, Garbage} => content' = content
      /\ out_fd \notin {None, Garbage} =>
           content' = [content EXCEPT ![out_fd] = @ \o SubSeq(chunk', 1, chunk_size)]
  BY DEF ReadMessage, Written
<1>2. Files' /\ CopiedIsComplete'
  <2>0. Eof => Eof'
    BY EofStays DEF Next, Child
  <2>1. CASE out_fd \in {None, Garbage}
    <3>1. Files'
      BY <1>0, <1>1, <2>0, <2>1, FilesNow DEF Files
    <3>2. CopiedIsComplete'
      BY <1>0, <1>1, <2>0, <2>1 DEF CopiedIsComplete, Apart
    <3> QED
      BY <3>1, <3>2
  <2>2. CASE out_fd \notin {None, Garbage}
    <3>1. /\ current_name \in ToSet(args) /\ out_fd = CopyOf[current_name] /\ current_name # Garbage
          /\ current_name \notin copied
      BY <1>0, <2>2 DEF Files, Truncates
    <3>2. \A f \in Names : f # CopyOf[current_name] => content'[f] = content[f]
      BY <1>1, <2>2, <3>1 DEF TypeOK
    <3>3. /\ Separate(args) => \A j \in DOMAIN args : content'[args[j]] = Contents[args[j]]
          /\ Separate(args) => \A f \in ToSet(args) : content'[f] = content[f]
          /\ \A f \in ToSet(args) : f # current_name => content'[CopyOf[f]] = content[CopyOf[f]]
      BY <1>0, <3>1, <3>2, OthersKeep
    <3>4. Files'
      BY <1>0, <2>2, <3>1, <3>3, FilesNow DEF Files
    <3>5. ASSUME Separate(args), NEW f \in copied
          PROVE  content'[CopyOf[f]] = content'[f]
      <4>1. f # current_name /\ f \in ToSet(args) /\ ~Truncates(f)
        BY <1>0, <3>1 DEF Files, Truncates
      <4>2. content[CopyOf[f]] = content[f]
        BY <3>5, <4>1 DEF CopiedIsComplete, Apart, Separate, Truncates
      <4> QED
        BY <3>3, <3>5, <4>1, <4>2
    <3>6. CopiedIsComplete'
      BY <1>0, <3>5 DEF CopiedIsComplete, Apart, Separate
    <3> QED
      BY <3>4, <3>6
  <2> QED
    BY <2>1, <2>2
<1>3. CASE Eof
  BY <1>2, <1>3, EofMeansAdrift DEF ReadMessage, Next, Child
<1>4. CASE ~Eof
  <2>1. /\ p1 # <<>> /\ p1' = SubSeq(p1, chunk_size + 1, Len(p1))
        /\ chunk' = [x \in DOMAIN chunk |-> IF x <= chunk_size THEN p1[x].value ELSE chunk[x]]
    BY <1>4 DEF ReadMessage
  <2>2. PICK a \in Place, b \in Place, t \in Place :
           /\ ChildAt(a) /\ Chunk(args, a, p1, 0, chunk_size, t)
           /\ chunk_size <= Len(p1) /\ a.n = chunk_size
           /\ Chain(args, t, SubSeq(p1, chunk_size + 1, Len(p1)), b)
           /\ ~ParentGone => \E c \in Place : Plan(args, b, todo, c) /\ ParentAt(c)
    BY <1>0, <2>1, NextChunk
  <2>3. /\ a.at = "cells" /\ a.i \in DOMAIN args /\ a.off \in Nat /\ t = At("open", a.i, a.off + a.n, 0)
        /\ a.n \in Nat /\ a.n > 0 /\ a.n <= CHUNK_SIZE
        /\ Separate(args) => a.off + a.n <= Len(Contents[args[a.i]])
    BY <2>2, Constants DEF ChildAt, Holds, Chunk, Place
  <2> DEFINE g == args[a.i]
  <2>4. /\ current_name = g /\ g \in DOMAIN CopyOf /\ g \in Names
        /\ CopyOf[g] \notin {None, Garbage} /\ CopyOf[g] \in Names
        /\ out_fd = (IF CopyOf[g] \in Unwritable THEN None ELSE CopyOf[g])
        /\ Contents[g] \in Seq(Values)
    BY <2>2, <2>3, ArgsTyped, Constants DEF ChildAt, Holds, InFile, Carried
  <2>5. /\ t.at = "open" /\ t.i = a.i /\ t.off = a.off + a.n
    BY <2>3 DEF At
  <2>6. ASSUME Separate(args), out_fd # None
        PROVE  /\ t.off <= Len(Contents[g])
               /\ content'[out_fd] = SubSeq(Contents[g], 1, t.off)
    <3>1. content[out_fd] = SubSeq(Contents[g], 1, a.off)
      BY <2>2, <2>3, <2>4, <2>6 DEF ChildAt, Holds, InFile
    <3>2. \A x \in 1 .. a.n : chunk'[x] = Contents[g][a.off + x]
      <4>1. TAKE x \in 1 .. a.n
      <4>2. x \in 1 .. CHUNK_SIZE /\ DOMAIN chunk = 1 .. CHUNK_SIZE /\ x <= chunk_size
        BY <2>2, <2>3, Constants DEF TypeOK
      <4>3. chunk'[x] = p1[x].value
        BY <2>1, <4>2
      <4>4. PICK v \in Values : p1[0 + x] = Cell(v) /\ v = Contents[g][a.off + x]
        BY <2>2, <2>6 DEF Chunk
      <4>5. 0 + x = x
        OBVIOUS
      <4> QED
        BY <4>3, <4>4, <4>5 DEF Cell
    <3>3. chunk' \in [1 .. CHUNK_SIZE -> Values]
      BY TypesKept DEF Next, Child, TypeOK
    <3>4. SubSeq(Contents[g], 1, a.off) \o SubSeq(chunk', 1, a.n) = SubSeq(Contents[g], 1, a.off + a.n)
      <4> HIDE DEF g
      <4> DEFINE C == Contents[g]
                 off == a.off
                 n == a.n
                 d == chunk'
      <4>1. off + n <= Len(C) /\ C \in Seq(Values) /\ off \in Nat /\ n \in Nat /\ n <= CHUNK_SIZE
        BY <2>3, <2>4, <2>6 DEF g
      <4>2. d \in [1 .. CHUNK_SIZE -> Values] /\ \A x \in 1 .. n : d[x] = C[off + x]
        BY <3>2, <3>3
      <4> HIDE DEF C, off, n, d
      <4>3. SubSeq(C, 1, off) \o SubSeq(d, 1, n) = SubSeq(C, 1, off + n)
        BY <4>1, <4>2, Appended
      <4> QED
        BY <4>3 DEF C, off, n, d
    <3>5. content'[out_fd] = content[out_fd] \o SubSeq(chunk', 1, chunk_size)
      BY <1>1, <2>4, <2>6 DEF TypeOK
    <3> QED
      BY <2>2, <2>3, <2>5, <2>6, <3>1, <3>4, <3>5
  <2>7. ChildAt(t)'
    <3>1. pc'["child"] = "command"
      BY <1>0, Moves
    <3>2. Holds(t)'
      BY <1>0, <2>3, <2>4, <2>5, <2>6 DEF Holds, InFile
    <3>3. Finished(t)'
      BY <1>0, <2>2, <2>3, <2>5 DEF ChildAt, Finished, InFile, Due
    <3> QED
      BY <2>5, <3>1, <3>2, <3>3 DEF ChildAt, Reads
  <2>8. Chain(args, t, p1', b)
    BY <2>1, <2>2
  <2>9. Sync'
    BY <1>0, <2>2, <2>7, <2>8, SyncOn
  <2> QED
    BY <1>2, <2>9
<1> QED
  BY <1>3, <1>4

-----------------------------------------------------------------------------
(* The invariant and what it says.                                         *)

LEMMA InvInit == Init => IInv
<1> SUFFICES ASSUME Init PROVE IInv
  OBVIOUS
<1>1. TypeOK /\ Control /\ Carried
  BY TypesInit, ControlInit
<1>2. pc["parent"] \in {"open1", "ready"} /\ pc["child"] \in {"open1", "hello"}
  BY DEF Init
<1>3. Files
  <2>1. Separate(args) => \A j \in DOMAIN args : content[args[j]] = Contents[args[j]]
    BY DEF Init
  <2>2. out_fd = None /\ None # Garbage
    BY DEF Init, None, Garbage
  <2> QED
    BY <2>1, <2>2 DEF Init, Files
<1>4. CopiedIsComplete /\ AllCopied
  BY <1>2 DEF Init, CopiedIsComplete, AllCopied
<1>5. Synced
  <2>0. At("between", 1, 0, 0) \in Place
    BY Constants DEF Place, At
  <2>1. PICK a \in Place : a = At("between", 1, 0, 0)
    BY <2>0
  <2>2. a.at = "between" /\ a.i = 1
    BY <2>1 DEF At
  <2>3. ChildAt(a)
    BY <1>2, <2>2 DEF ChildAt, Reads, Holds, Finished, InFile, Init
  <2>4. ParentAt(a)
    BY <1>2, <2>2 DEF ParentAt, Skipped, Init
  <2>5. Chain(args, a, p1, a) /\ Plan(args, a, todo, a)
    BY ChainNone, PlanNone DEF Init
  <2> QED
    BY <2>3, <2>4, <2>5 DEF Synced
<1> QED
  BY <1>1, <1>3, <1>4, <1>5 DEF IInv, Sync

(* What the parent does, and a kill, leaves the files as they are. *)
LEMMA FilesStill ==
  ASSUME Control, Carried, Files, CopiedIsComplete, [Next]_vars, Eof \/ UNCHANGED <<inbuf>>,
         UNCHANGED <<args, current_name, out_fd, content, copied>>
  PROVE  Files' /\ CopiedIsComplete'
<1>1. Eof => Eof' /\ inbuf' = inbuf
  BY EofStays
<1>2. inbuf' = inbuf
  BY <1>1
<1>3. Files'
  BY <1>1, <1>2, FilesNow DEF Files, Truncates
<1>4. CopiedIsComplete'
  BY <1>1, <1>2 DEF CopiedIsComplete, Apart
<1> QED
  BY <1>3, <1>4

LEMMA InvNext == IInv /\ [Next]_vars => IInv'
<1> SUFFICES ASSUME IInv, [Next]_vars PROVE IInv'
  OBVIOUS
<1>1. TypeOK /\ Control /\ Carried /\ Files /\ CopiedIsComplete /\ AllCopied /\ Sync
  BY DEF IInv
<1>2. TypeOK' /\ Carried' /\ Control'
  BY <1>1, TypesKept, ControlKept
<1>3. ASSUME Files', CopiedIsComplete', AllCopied', Sync' PROVE IInv'
  BY <1>2, <1>3 DEF IInv
<1>4. CASE OpenFifo \/ Parent \/ SayReady \/ UNCHANGED vars \/ \E p \in {"parent", "child"} : Kill(p)
  <2>1. UNCHANGED <<args, inbuf, current_name, out_fd, content, chunk_size, copied>>
    BY <1>4 DEF OpenFifo, Parent, Write, ReadReady, NextFile, ReadChunk, EndTransmission, Waited,
                SayReady, Kill, vars, setup, childVars
  <2>2. Files' /\ CopiedIsComplete'
    BY <1>1, <2>1, FilesStill
  <2>3. pc'["child"] = pc["child"] \/ pc'["child"] # "done"
    BY <1>1, <1>4, Moves DEF OpenFifo, Parent, Write, ReadReady, NextFile, ReadChunk,
         EndTransmission, Waited, SayReady, Kill, vars
  <2>4. AllCopied'
    BY <1>1, <2>1, <2>3 DEF AllCopied
  <2>5. Sync'
    <3>1. CASE Write \/ OpenFifo \/ ReadReady \/ Waited \/ SayReady \/ UNCHANGED vars
               \/ \E p \in {"parent", "child"} : Kill(p)
      BY <1>1, <3>1, SyncWrite, SyncOthers
    <3>2. CASE NextFile \/ ReadChunk \/ EndTransmission
      <4>1. CASE Over("child")
        <5>1. pc'["child"] = pc["child"]
          BY <1>1, <3>2, Moves DEF NextFile, ReadChunk, EndTransmission
        <5> QED
          BY <4>1, <5>1 DEF Sync, Over
      <4>2. CASE ~Over("child")
        BY <1>1, <3>2, <4>2, SyncNextFile, SyncChunk, SyncEnd
      <4> QED
        BY <4>1, <4>2
    <3> QED
      BY <1>4, <3>1, <3>2 DEF Parent
  <2> QED
    BY <1>3, <2>2, <2>4, <2>5
<1>5. CASE ReadCommand
  <2>1. Sync' /\ AllCopied'
    BY <1>1, <1>5, ReadsCommand
  <2>2. UNCHANGED <<args, current_name, out_fd, content, copied>>
    BY <1>5 DEF ReadCommand, setup
  <2>3. Files' /\ CopiedIsComplete'
    <3>1. CASE Eof
      BY <1>1, <2>2, <3>1, FilesStill
    <3>2. CASE ~Eof
      <4>1. Files'
        BY <1>1, <2>2, <3>2, FilesNow DEF Files, Truncates
      <4>2. CopiedIsComplete'
        BY <1>1, <2>2, <3>2 DEF CopiedIsComplete, Apart
      <4> QED
        BY <4>1, <4>2
    <3> QED
      BY <3>1, <3>2
  <2> QED
    BY <1>3, <2>1, <2>3
<1>6. CASE ReadName \/ ReadSize \/ ReadMessage
  <2>1. Sync' /\ Files' /\ CopiedIsComplete'
    BY <1>1, <1>6, ReadsName, ReadsSize, ReadsMessage
  <2>2. pc'["child"] = "command"
    BY <1>1, <1>6, Moves DEF ReadName, ReadSize, ReadMessage
  <2>3. AllCopied'
    BY <2>2 DEF AllCopied
  <2> QED
    BY <1>3, <2>1, <2>3
<1> QED
  BY <1>4, <1>5, <1>6 DEF Next, Child

LEMMA InvGives == IInv => CopiesFaithful
<1> SUFFICES ASSUME IInv PROVE CopiesFaithful
  OBVIOUS
<1>1. TypeOK /\ Control /\ Carried /\ Files /\ CopiedIsComplete /\ AllCopied /\ Sync
  BY DEF IInv
<1>2. InSync
  <2>1. CASE pc["child"] \in {"command", "name", "size"} /\ p1 # <<>>
    <3>1. PICK a \in Place, b \in Place, t \in Place :
             ChildAt(a) /\ Single(args, a, Head(p1), t)
      BY <1>1, <2>1, NextItem
    <3>2. Head(p1).kind = pc["child"]
      BY <2>1, <3>1 DEF ChildAt, Reads, Single, BeginsFile, EndsAll, Names1, Asks, Closes, Sizes, Warns,
                        Command, Name, Size
    <3> QED
      BY <2>1, <3>2 DEF InSync, Expected
  <2>2. CASE pc["child"] = "message" /\ p1 # <<>>
    <3>1. PICK a \in Place, t \in Place :
             Chunk(args, a, p1, 0, chunk_size, t) /\ chunk_size <= Len(p1) /\ a.n = chunk_size
      BY <1>1, <2>2, NextChunk
    <3>2. chunk_size \in Nat /\ chunk_size > 0 /\ Len(p1) \in Nat /\ Head(p1) = p1[1]
      BY <1>1, <3>1, <2>2, Constants DEF Chunk, TypeOK, Carried
    <3>3. \A x \in 1 .. chunk_size : p1[x].kind = "cell"
      <4>1. TAKE x \in 1 .. chunk_size
      <4>2. PICK v \in Values : p1[0 + x] = Cell(v)
        BY <3>1 DEF Chunk
      <4>3. 0 + x = x
        BY <3>2
      <4> QED
        BY <4>2, <4>3 DEF Cell
    <3>4. Head(p1).kind = "cell" /\ Len(p1) >= chunk_size
      BY <3>1, <3>2, <3>3
    <3> QED
      BY <2>2, <3>3, <3>4 DEF InSync, Expected
  <2> QED
    BY <2>1, <2>2 DEF InSync, Expected
<1> QED
  BY <1>1, <1>2 DEF CopiesFaithful

(* Whatever the files, the arguments, the sizes of chunk and pipe, and     *)
(* whenever a process is killed: the child finds the item it expects, a    *)
(* file reported as copied equals its source, and in the end all that      *)
(* could be copied is.                                                     *)
THEOREM CopiesAreFaithful == Spec => []CopiesFaithful
<1>1. Init => IInv
  BY InvInit
<1>2. IInv /\ [Next]_vars => IInv'
  BY InvNext
<1>3. IInv => CopiesFaithful
  BY InvGives
<1> QED
  BY <1>1, <1>2, <1>3, PTL DEF Spec

-----------------------------------------------------------------------------
(* Selections: what a step does to them is to add an element behind, or to  *)
(* make the sequence they select from longer.                              *)

LEMMA SelectionOfLonger ==
  ASSUME NEW s, NEW t, NEW u, NEW J, IsSelection(s, t, J), \A j \in J : u[j] = t[j]
  PROVE  IsSelection(s, u, J)
BY DEF IsSelection

LEMMA SelectionGrows ==
  ASSUME NEW S, NEW s \in Seq(S), NEW e \in S, NEW t, NEW n \in Nat, NEW J \in SUBSET (1 .. n),
         NEW j \in Nat, j \notin J, \A i \in J : i < j, t[j] = e, IsSelection(s, t, J)
  PROVE  IsSelection(Append(s, e), t, J \cup {j})
<1> DEFINE r == Append(s, e)
           K == J \cup {j}
<1>0. IsFiniteSet(1 .. n) /\ J \subseteq 1 .. n /\ \A i \in J : i \in Nat /\ i < j
  <2>1. IsFiniteSet(1 .. n)
    BY FS_Interval
  <2>2. J \subseteq 1 .. n
    OBVIOUS
  <2>3. \A i \in J : i \in Nat
    BY <2>2
  <2> QED
    BY <2>1, <2>2, <2>3
<1>1. IsFiniteSet(J) /\ Cardinality(J) \in Nat /\ Cardinality(J) = Len(s)
  BY <1>0, FS_Subset, FS_CardinalityType DEF IsSelection
<1>2. Len(r) = Len(s) + 1 /\ r[Len(s) + 1] = e /\ \A i \in 1 .. Len(s) : r[i] = s[i]
  BY AppendProperties
<1> HIDE DEF r
<1>3. Cardinality(K) = Len(s) + 1
  BY <1>1, FS_AddElement
<1>4. ASSUME NEW m \in K PROVE r[Cardinality({i \in K : i <= m})] = t[m]
  <2>1. CASE m = j
    <3>1. {i \in K : i <= m} = K
      <4>1. \A i \in K : i <= m
        BY <1>0, <2>1
      <4> QED
        BY <4>1
    <3> QED
      BY <3>1, <2>1, <1>2, <1>3
  <2>2. CASE m # j
    <3>1. m \in J /\ {i \in K : i <= m} = {i \in J : i <= m}
      <4>1. m \in J
        BY <2>2
      <4>2. m \in Nat /\ m < j
        BY <1>0, <4>1
      <4>3. ~(j <= m)
        BY <4>2
      <4> QED
        BY <4>1, <4>3
    <3>2. /\ IsFiniteSet({i \in J : i <= m}) /\ Cardinality({i \in J : i <= m}) \in Nat
          /\ Cardinality({i \in J : i <= m}) <= Cardinality(J)
      BY <1>1, FS_Subset, FS_CardinalityType
    <3>3. Cardinality({i \in J : i <= m}) # 0
      <4>0. m \in Nat
        BY <1>0, <3>1
      <4>1. m \in J /\ m <= m
        BY <4>0, <3>1
      <4>2. {i \in J : i <= m} # {}
        BY <4>1
      <4> QED
        BY <3>2, <4>2, FS_EmptySet
    <3>4. Cardinality({i \in J : i <= m}) \in 1 .. Len(s)
      BY <3>2, <3>3, <1>1
    <3>5. s[Cardinality({i \in J : i <= m})] = t[m]
      BY <3>1 DEF IsSelection
    <3> QED
      BY <3>1, <3>4, <3>5, <1>2
  <2> QED
    BY <2>1, <2>2
<1> HIDE DEF K
<1>5. Len(r) = Cardinality(K)
  BY <1>2, <1>3
<1> QED
  BY <1>4, <1>5 DEF IsSelection, r, K

LEMMA SelectionOfNothing == \A t : IsSelection(<<>>, t, {})
BY FS_EmptySet DEF IsSelection

(* The queue of what was taken: an arrival behind, a receipt in front.     *)
LEMMA EndGrows ==
  ASSUME NEW S, NEW q \in Seq(S), NEW t \in Seq(S), NEW e \in S, IsEnd(q, t)
  PROVE  /\ IsEnd(Append(q, e), Append(t, e))
         /\ Ahead(Append(t, e), Append(q, e)) = Ahead(t, q)
BY DEF IsEnd, Ahead

LEMMA EndTaken ==
  ASSUME NEW S, NEW q \in Seq(S), NEW t \in Seq(S), IsEnd(q, t), q # <<>>
  PROVE  /\ IsEnd(Tail(q), t) /\ Ahead(t, Tail(q)) = Ahead(t, q) + 1
         /\ Ahead(t, q) + 1 \in DOMAIN t /\ t[Ahead(t, q) + 1] = Head(q)
BY DEF IsEnd, Ahead

-----------------------------------------------------------------------------
(* The cuckoo's FIFO. As many tasks wait as lines with their newlines are   *)
(* in the FIFO or in the cuckoo's hands, less those that were wasted; a     *)
(* line is counted by the half that ends it.                               *)

Half == [of : [kind : {"question", "answer"}, task : Tasks], last : BOOLEAN]
CuckooTypes ==
  /\ fifo \in Seq(Half)
  /\ line \in [Tasks \cup {Cuckoos!Cuckoo} -> Seq(Half)]
  /\ cpc \in [Tasks \cup {Cuckoos!Cuckoo} -> {"off", "reads", "works", "done", "answers", "sleeps"}]
  /\ asker \in Tasks \cup {Cuckoos!Nobody} /\ wasted \in Nat
  /\ asker = Cuckoos!Nobody <=> cpc[Cuckoos!Cuckoo] # "answers"
CuckooInv == CuckooTypes /\ LinesAccounted

EndsOf(s) == {i \in DOMAIN s : s[i].last}

LEMMA EndsFinite ==
  ASSUME NEW s \in Seq(Half)
  PROVE  IsFiniteSet(EndsOf(s)) /\ Cardinality(EndsOf(s)) \in Nat
<1>1. IsFiniteSet(1 .. Len(s)) /\ EndsOf(s) \subseteq 1 .. Len(s)
  BY FS_Interval DEF EndsOf
<1> QED
  BY <1>1, FS_Subset, FS_CardinalityType

(* A line more at the end is one end more. *)
LEMMA LineMore ==
  ASSUME NEW s \in Seq(Half), NEW l \in [kind : {"question", "answer"}, task : Tasks]
  PROVE  /\ s \o Cuckoos!Halves(l) \in Seq(Half)
         /\ Cardinality(EndsOf(s \o Cuckoos!Halves(l))) = Cardinality(EndsOf(s)) + 1
<1> DEFINE h == Cuckoos!Halves(l)
           t == s \o h
<1>1. h \in Seq(Half) /\ Len(h) = 2 /\ ~h[1].last /\ h[2].last
  BY DEF Cuckoos!Halves, Half
<1> HIDE DEF h
<1>2. /\ t \in Seq(Half) /\ Len(t) = Len(s) + 2 /\ Len(s) \in Nat
      /\ \A i \in 1 .. Len(s) + 2 : t[i] = IF i <= Len(s) THEN s[i] ELSE h[i - Len(s)]
  <2>1. h \in Seq(Half)
    BY <1>1
  <2>2. /\ s \o h \in Seq(Half) /\ Len(s \o h) = Len(s) + Len(h)
        /\ \A i \in 1 .. Len(s) + Len(h) : (s \o h)[i] = IF i <= Len(s) THEN s[i] ELSE h[i - Len(s)]
    BY <2>1, ConcatProperties, Zenon
  <2> QED
    BY <1>1, <2>2
<1> HIDE DEF t
<1>3. EndsOf(t) = EndsOf(s) \cup {Len(s) + 2}
  <2>1. t[Len(s) + 1] = h[1] /\ t[Len(s) + 2] = h[2] /\ \A i \in 1 .. Len(s) : t[i] = s[i]
    BY <1>2
  <2>2. DOMAIN s = 1 .. Len(s) /\ DOMAIN t = (1 .. Len(s)) \cup {Len(s) + 1, Len(s) + 2}
    BY <1>2
  <2> QED
    BY <1>1, <2>1, <2>2 DEF EndsOf
<1>4. Len(s) + 2 \notin EndsOf(s)
  BY <1>2 DEF EndsOf
<1>5. Cardinality(EndsOf(t)) = Cardinality(EndsOf(s)) + 1
  BY <1>3, <1>4, EndsFinite, FS_AddElement
<1> QED
  BY <1>2, <1>5 DEF t, h

(* Taking the first half takes an end if it is one. *)
LEMMA HalfLess ==
  ASSUME NEW s \in Seq(Half), s # <<>>
  PROVE  /\ Head(s) \in Half /\ Tail(s) \in Seq(Half)
         /\ Cardinality(EndsOf(s)) = Cardinality(EndsOf(Tail(s))) + (IF Head(s).last THEN 1 ELSE 0)
<1> DEFINE t == Tail(s)
           up == [i \in EndsOf(t) |-> i + 1]
<1>1. /\ t \in Seq(Half) /\ Len(t) = Len(s) - 1 /\ Len(s) \in Nat \ {0}
      /\ Head(s) = s[1] /\ Head(s) \in Half
      /\ \A i \in 1 .. Len(t) : t[i] = s[i + 1]
  BY HeadTailProperties
<1> HIDE DEF t
<1>2. DOMAIN s = 1 .. Len(s) /\ DOMAIN t = 1 .. Len(s) - 1
  BY <1>1
<1>3. EndsOf(s) \ {1} = {i + 1 : i \in EndsOf(t)}
  <2>1. ASSUME NEW i \in EndsOf(s) \ {1} PROVE i \in {j + 1 : j \in EndsOf(t)}
    <3>1. i - 1 \in EndsOf(t) /\ (i - 1) + 1 = i
      BY <1>1, <1>2 DEF EndsOf
    <3> QED
      BY <3>1
  <2>2. ASSUME NEW j \in EndsOf(t) PROVE j + 1 \in EndsOf(s) \ {1}
    BY <1>1, <1>2 DEF EndsOf
  <2> QED
    BY <2>1, <2>2
<1>4. Cardinality(EndsOf(s) \ {1}) = Cardinality(EndsOf(t))
  <2>1. \A i \in EndsOf(t) : i \in Int
    BY <1>2 DEF EndsOf
  <2>2. up \in [EndsOf(t) -> EndsOf(s) \ {1}]
    BY <1>3
  <2>3. up \in Injection(EndsOf(t), EndsOf(s) \ {1})
    BY <2>1, <2>2 DEF Injection, IsInjective
  <2>4. up \in Surjection(EndsOf(t), EndsOf(s) \ {1})
    <3>1. ASSUME NEW x \in EndsOf(s) \ {1} PROVE \E i \in EndsOf(t) : up[i] = x
      BY <1>3
    <3> QED
      BY <2>2, <3>1 DEF Surjection
  <2> HIDE DEF up
  <2>5. ExistsBijection(EndsOf(t), EndsOf(s) \ {1})
    BY <2>3, <2>4 DEF ExistsBijection, Bijection
  <2>6. IsFiniteSet(EndsOf(t))
    BY <1>1, EndsFinite
  <2> QED
    BY <2>5, <2>6, FS_Bijection
<1>5. 1 \in EndsOf(s) <=> Head(s).last
  BY <1>1, <1>2 DEF EndsOf
<1>6. Cardinality(EndsOf(s)) \in Nat /\ IsFiniteSet(EndsOf(s)) /\ Cardinality(EndsOf(t)) \in Nat
  BY <1>1, EndsFinite
<1>7. 1 \in EndsOf(s) => Cardinality(EndsOf(s) \ {1}) = Cardinality(EndsOf(s)) - 1
  BY <1>6, FS_RemoveElement
<1>8. 1 \notin EndsOf(s) => EndsOf(s) \ {1} = EndsOf(s)
  OBVIOUS
<1>9. Cardinality(EndsOf(s)) = Cardinality(EndsOf(t)) + (IF Head(s).last THEN 1 ELSE 0)
  <2>1. CASE Head(s).last
    BY <2>1, <1>4, <1>5, <1>6, <1>7
  <2>2. CASE ~Head(s).last
    <3>1. EndsOf(s) \ {1} = EndsOf(s)
      BY <2>2, <1>5, <1>8
    <3>2. Cardinality(EndsOf(s)) = Cardinality(EndsOf(t))
      BY <3>1, <1>4
    <3> QED
      BY <3>2, <2>2, <1>6
  <2> QED
    BY <2>1, <2>2
<1> QED
  BY <1>1, <1>9 DEF t

(* The count in the terms of the lemmas. *)
Waiters == {t \in Tasks : cpc[t] = "reads"}
Held == IF asker = Cuckoos!Nobody THEN 0 ELSE 1
LEMMA Accounting ==
  LinesAccounted <=> Cardinality(Waiters) = Cardinality(EndsOf(fifo)) + Held + wasted
<1>1. Cuckoos!Waiting = Cardinality(Waiters)
  BY DEF Cuckoos!Waiting, Waiters, Cardinality, Cuckoos!Cardinality
<1>2. Cuckoos!OnTheWay = Cardinality(EndsOf(fifo)) + Held
  BY DEF Cuckoos!OnTheWay, EndsOf, Held, Cardinality, Cuckoos!Cardinality
<1> QED
  BY <1>1, <1>2 DEF LinesAccounted, Cuckoos!LinesAccounted

LEMMA AccountingThen ==
  LinesAccounted' <=> Cardinality(Waiters') = Cardinality(EndsOf(fifo')) + Held' + wasted'
<1>1. (LinesAccounted <=> Cardinality(Waiters) = Cardinality(EndsOf(fifo)) + Held + wasted)'
  BY Accounting, PTL
<1> QED
  BY <1>1

LEMMA WaitersMove ==
  ASSUME CuckooTypes, NEW t \in Tasks, NEW l, cpc' = [cpc EXCEPT ![t] = l]
  PROVE  /\ Cardinality(Waiters) \in Nat
         /\ cpc[t] = "reads" /\ l # "reads" => Cardinality(Waiters') = Cardinality(Waiters) - 1
         /\ cpc[t] # "reads" /\ l = "reads" => Cardinality(Waiters') = Cardinality(Waiters) + 1
         /\ cpc[t] # "reads" /\ l # "reads" => Waiters' = Waiters
<1>1. IsFiniteSet(Waiters) /\ Cardinality(Waiters) \in Nat
  BY TasksAssumption, FS_Subset, FS_CardinalityType DEF Waiters
<1>2. \A u \in Tasks : cpc'[u] = IF u = t THEN l ELSE cpc[u]
  BY DEF CuckooTypes
<1>3. l = "reads" => Waiters' = Waiters \cup {t}
  BY <1>2 DEF Waiters
<1>4. l # "reads" => Waiters' = Waiters \ {t}
  BY <1>2 DEF Waiters
<1>5. t \in Waiters <=> cpc[t] = "reads"
  BY DEF Waiters
<1>6. CASE l = "reads"
  BY <1>1, <1>3, <1>5, <1>6, FS_AddElement
<1>7. CASE l # "reads"
  BY <1>1, <1>4, <1>5, <1>7, FS_RemoveElement
<1> QED
  BY <1>1, <1>6, <1>7

LEMMA CuckooStarts == Cuckoos!Init => CuckooInv
<1> SUFFICES ASSUME Cuckoos!Init PROVE CuckooInv
  OBVIOUS
<1> USE TasksAssumption DEF Cuckoos!Cuckoo, Cuckoos!Nobody
<1>1. CuckooTypes
  BY DEF Cuckoos!Init, CuckooTypes
<1>2. Waiters = {} /\ EndsOf(fifo) = {} /\ Held = 0 /\ wasted = 0
  BY DEF Cuckoos!Init, Waiters, EndsOf, Held
<1>3. Cardinality({}) = 0
  BY FS_EmptySet
<1> QED
  BY <1>1, <1>2, <1>3, Accounting DEF CuckooInv

LEMMA CuckooSteps == CuckooInv /\ Cuckoos!Next => CuckooInv'
<1> SUFFICES ASSUME CuckooInv, Cuckoos!Next PROVE CuckooInv'
  OBVIOUS
<1> USE TasksAssumption DEF Cuckoos!Cuckoo, Cuckoos!Nobody
<1>0. /\ CuckooTypes /\ Cardinality(Waiters) = Cardinality(EndsOf(fifo)) + Held + wasted
      /\ Cardinality(EndsOf(fifo)) \in Nat /\ Cardinality(Waiters) \in Nat
  <2>1. IsFiniteSet(Waiters)
    BY FS_Subset DEF Waiters
  <2> QED
    BY <2>1, FS_CardinalityType, Accounting, EndsFinite DEF CuckooInv, CuckooTypes
<1>1. SUFFICES /\ CuckooTypes'
               /\ Cardinality(Waiters') = Cardinality(EndsOf(fifo')) + Held' + wasted'
  BY AccountingThen DEF CuckooInv
<1>2. ASSUME NEW t \in Tasks, Cuckoos!Ask(t)
      PROVE  CuckooTypes' /\ Cardinality(Waiters') = Cardinality(EndsOf(fifo')) + Held' + wasted'
  <2>1. Cuckoos!Question(t) \in [kind : {"question", "answer"}, task : Tasks]
    BY DEF Cuckoos!Question
  <2>2. fifo' \in Seq(Half) /\ Cardinality(EndsOf(fifo')) = Cardinality(EndsOf(fifo)) + 1
    BY <1>0, <1>2, <2>1, LineMore DEF Cuckoos!Ask, CuckooTypes
  <2>3. Cardinality(Waiters') = Cardinality(Waiters) + 1
    <3>1. cpc' = [cpc EXCEPT ![t] = "reads"] /\ cpc[t] = "off"
      BY <1>2 DEF Cuckoos!Ask, Cuckoos!Goto
    <3> QED
      BY <1>0, <3>1, WaitersMove
  <2>4. CuckooTypes'
    BY <1>0, <1>2, <2>2 DEF CuckooTypes, Cuckoos!Ask, Cuckoos!Goto
  <2>5. Held' = Held /\ wasted' = wasted /\ Held \in Nat /\ wasted \in Nat
    BY <1>0, <1>2 DEF Held, Cuckoos!Ask, CuckooTypes
  <2> QED
    BY <1>0, <2>2, <2>3, <2>4, <2>5
<1>3. ASSUME NEW r \in Tasks \cup {Cuckoos!Cuckoo}, Cuckoos!ReadOn(r)
      PROVE  CuckooTypes' /\ Cardinality(Waiters') = Cardinality(EndsOf(fifo')) + Held' + wasted'
  <2>1. /\ Head(fifo) \in Half /\ fifo' \in Seq(Half)
        /\ Cardinality(EndsOf(fifo')) = Cardinality(EndsOf(fifo))
    <3>1. fifo \in Seq(Half) /\ fifo # <<>> /\ ~Head(fifo).last /\ fifo' = Tail(fifo)
      BY <1>0, <1>3 DEF CuckooTypes, Cuckoos!ReadOn
    <3>2. Cardinality(EndsOf(Tail(fifo))) \in Nat
      BY <3>1, HalfLess, EndsFinite
    <3> QED
      BY <3>1, <3>2, HalfLess
  <2>2. CuckooTypes'
    BY <1>0, <1>3, <2>1 DEF CuckooTypes, Cuckoos!ReadOn
  <2>3. Waiters' = Waiters /\ Held' = Held /\ wasted' = wasted
    BY <1>3 DEF Waiters, Held, Cuckoos!ReadOn
  <2> QED
    BY <1>0, <2>1, <2>2, <2>3
<1>4. ASSUME NEW r \in Tasks \cup {Cuckoos!Cuckoo}, Cuckoos!Ends(r), Cuckoos!Taken(r)
      PROVE  /\ fifo' \in Seq(Half) /\ Head(fifo) \in Half
             /\ Cardinality(EndsOf(fifo')) = Cardinality(EndsOf(fifo)) - 1
             /\ line' \in [Tasks \cup {Cuckoos!Cuckoo} -> Seq(Half)]
  <2>1. fifo \in Seq(Half) /\ fifo # <<>> /\ Head(fifo).last /\ fifo' = Tail(fifo)
    BY <1>0, <1>4 DEF CuckooTypes, Cuckoos!Ends, Cuckoos!Taken
  <2>2. Cardinality(EndsOf(Tail(fifo))) \in Nat
    BY <2>1, HalfLess, EndsFinite
  <2>3. line' \in [Tasks \cup {Cuckoos!Cuckoo} -> Seq(Half)]
    BY <1>0, <1>4 DEF CuckooTypes, Cuckoos!Taken
  <2> QED
    BY <1>0, <2>1, <2>2, <2>3, HalfLess
<1>5. CASE Cuckoos!CuckooHears
  <2>1. PICK t \in Tasks : Cuckoos!Whole(Cuckoos!Cuckoo) = Cuckoos!Halves(Cuckoos!Question(t))
    BY <1>5 DEF Cuckoos!CuckooHears, Cuckoos!Recognised
  <2>2. asker' = t
    BY <1>5, <2>1 DEF Cuckoos!CuckooHears, Cuckoos!Halves, Cuckoos!Question
  <2>3. cpc["cuckoo"] = "reads" /\ cpc' = [cpc EXCEPT !["cuckoo"] = "answers"] /\ wasted' = wasted
        /\ Cuckoos!Ends(Cuckoos!Cuckoo) /\ Cuckoos!Taken(Cuckoos!Cuckoo)
    BY <1>5 DEF Cuckoos!CuckooHears, Cuckoos!Ends, Cuckoos!Goto
  <2>4. Waiters' = Waiters
    BY <1>0, <2>3 DEF Waiters, CuckooTypes
  <2>5. Held = 0 /\ Held' = 1
    BY <1>0, <2>2, <2>3 DEF Held, CuckooTypes
  <2>6. CuckooTypes'
    BY <1>0, <1>4, <2>2, <2>3 DEF CuckooTypes
  <2> QED
    BY <1>0, <1>4, <2>3, <2>4, <2>5, <2>6
<1>6. CASE Cuckoos!CuckooDiscards
  <2>1. /\ Cuckoos!Ends(Cuckoos!Cuckoo) /\ Cuckoos!Taken(Cuckoos!Cuckoo)
        /\ wasted' = wasted + 1 /\ UNCHANGED <<cpc, asker>>
    BY <1>6 DEF Cuckoos!CuckooDiscards
  <2>2. CuckooTypes'
    BY <1>0, <1>4, <2>1 DEF CuckooTypes
  <2>3. Waiters' = Waiters /\ Held' = Held /\ wasted \in Nat /\ Held \in Nat
    BY <1>0, <2>1 DEF Waiters, Held, CuckooTypes
  <2>4. Cardinality(EndsOf(fifo')) = Cardinality(EndsOf(fifo)) - 1
    BY <1>4, <2>1
  <2>5. Cardinality(Waiters') = Cardinality(Waiters)
    BY <2>3
  <2> QED
    BY <1>0, <2>1, <2>2, <2>3, <2>4, <2>5
<1>7. CASE Cuckoos!CuckooAnswers
  <2>1. /\ cpc["cuckoo"] = "answers" /\ cpc' = [cpc EXCEPT !["cuckoo"] = "sleeps"]
        /\ asker' = "nobody" /\ fifo' = fifo \o Cuckoos!Halves(Cuckoos!Answer(asker))
        /\ UNCHANGED <<line, wasted>>
    BY <1>7 DEF Cuckoos!CuckooAnswers, Cuckoos!Goto, Cuckoos!Answered
  <2>2. asker \in Tasks
    BY <1>0, <2>1 DEF CuckooTypes
  <2>3. Cuckoos!Answer(asker) \in [kind : {"question", "answer"}, task : Tasks]
    BY <2>2 DEF Cuckoos!Answer
  <2>4. fifo' \in Seq(Half) /\ Cardinality(EndsOf(fifo')) = Cardinality(EndsOf(fifo)) + 1
    BY <1>0, <2>1, <2>3, LineMore DEF CuckooTypes
  <2>5. Waiters' = Waiters /\ Held = 1 /\ Held' = 0
    BY <1>0, <2>1, <2>2 DEF Waiters, Held, CuckooTypes
  <2>6. CuckooTypes'
    BY <1>0, <2>1, <2>4 DEF CuckooTypes
  <2> QED
    BY <1>0, <2>1, <2>4, <2>5, <2>6
<1>8. CASE Cuckoos!Wake
  <2>1. /\ cpc["cuckoo"] = "sleeps" /\ cpc' = [cpc EXCEPT !["cuckoo"] = "reads"]
        /\ UNCHANGED <<fifo, line, asker, wasted>>
    BY <1>8 DEF Cuckoos!Wake, Cuckoos!Goto
  <2>2. CuckooTypes' /\ Waiters' = Waiters /\ Held' = Held
    BY <1>0, <2>1 DEF Waiters, Held, CuckooTypes
  <2> QED
    BY <1>0, <2>1, <2>2
<1>9. ASSUME NEW t \in Tasks, Cuckoos!TaskHears(t)
      PROVE  CuckooTypes' /\ Cardinality(Waiters') = Cardinality(EndsOf(fifo')) + Held' + wasted'
  <2>1. /\ Cuckoos!Ends(t) /\ Cuckoos!Taken(t) /\ cpc[t] = "reads"
        /\ cpc' = [cpc EXCEPT ![t] = "works"] /\ UNCHANGED <<asker, wasted>>
    BY <1>9 DEF Cuckoos!TaskHears, Cuckoos!Ends, Cuckoos!Goto
  <2>2. CuckooTypes' /\ Held' = Held
    BY <1>0, <1>4, <2>1 DEF CuckooTypes, Held
  <2>3. Cardinality(Waiters') = Cardinality(Waiters) - 1
    <3>1. CuckooTypes /\ cpc' = [cpc EXCEPT ![t] = "works"] /\ cpc[t] = "reads" /\ "works" # "reads"
      BY <1>0, <2>1
    <3> QED
      BY <3>1, WaitersMove
  <2>4. wasted \in Nat /\ Held \in Nat
    BY <1>0 DEF CuckooTypes, Held
  <2> QED
    BY <1>0, <1>4, <2>1, <2>2, <2>3, <2>4
<1>10. ASSUME NEW t \in Tasks, Cuckoos!TaskDiscards(t)
       PROVE  CuckooTypes' /\ Cardinality(Waiters') = Cardinality(EndsOf(fifo')) + Held' + wasted'
  <2>1. /\ Cuckoos!Ends(t) /\ Cuckoos!Taken(t) /\ cpc[t] = "reads"
        /\ cpc' = [cpc EXCEPT ![t] = "reads"] /\ wasted' = wasted + 1 /\ UNCHANGED asker
    BY <1>10 DEF Cuckoos!TaskDiscards, Cuckoos!Ends, Cuckoos!Goto, Cuckoos!AfterWrong
  <2>2. cpc' = cpc
    BY <1>0, <2>1 DEF CuckooTypes
  <2>3. Held' = Held /\ wasted \in Nat /\ Held \in Nat
    BY <1>0, <2>1 DEF CuckooTypes, Held
  <2>4. Cardinality(Waiters') = Cardinality(Waiters)
    BY <2>2 DEF Waiters
  <2>5. /\ fifo' \in Seq(Half) /\ Cardinality(EndsOf(fifo')) = Cardinality(EndsOf(fifo)) - 1
        /\ line' \in [Tasks \cup {Cuckoos!Cuckoo} -> Seq(Half)]
    BY <1>4, <2>1
  <2>6. CuckooTypes'
    BY <1>0, <2>1, <2>2, <2>5 DEF CuckooTypes
  <2> QED
    BY <1>0, <2>1, <2>3, <2>4, <2>5, <2>6
<1>11. ASSUME NEW t \in Tasks, Cuckoos!Finish(t)
       PROVE  CuckooTypes' /\ Cardinality(Waiters') = Cardinality(EndsOf(fifo')) + Held' + wasted'
  <2>1. /\ cpc[t] = "works" /\ cpc' = [cpc EXCEPT ![t] = "done"]
        /\ UNCHANGED <<fifo, line, asker, wasted>>
    BY <1>11 DEF Cuckoos!Finish, Cuckoos!Goto
  <2>2. CuckooTypes' /\ Held' = Held
    BY <1>0, <2>1 DEF CuckooTypes, Held
  <2>3. Waiters' = Waiters
    BY <1>0, <2>1 DEF Waiters, CuckooTypes
  <2> QED
    BY <1>0, <2>1, <2>2, <2>3
<1> QED
  BY <1>2, <1>3, <1>5, <1>6, <1>7, <1>8, <1>9, <1>10, <1>11
     DEF Cuckoos!Next, Cuckoos!CuckooStep, Cuckoos!TaskStep

-----------------------------------------------------------------------------
(* The sniffer.                                                            *)

Packet == {p \in [kind : Kinds, own : BOOLEAN, bound : BOOLEAN, n : Nat] : p.own \/ ~p.bound}
Taken == Ahead(offered, queue)
Passing == {j \in 1 .. Taken : Sniff!Wanted(offered[j])}
SnifferInv ==
  /\ {queue, file, offered} \subseteq Seq(Packet)
  /\ filter_mode \in {"none", "all", "chat", "dns", "other"}
  /\ spc \in {"start", "unbound", "asks"} => file = <<>> /\ Taken = 0
  /\ filter_mode = "none" => spc # "receives"
  /\ IsEnd(queue, offered) /\ IsSelection(file, offered, Passing)

LEMMA CaptureKept == SnifferInv => Sniff!CaptureFaithful
<1> SUFFICES ASSUME SnifferInv PROVE Sniff!CaptureFaithful
  OBVIOUS
<1>1. Sniff!IsEnd(queue, offered)
  BY DEF SnifferInv, IsEnd, Ahead, Sniff!IsEnd, Sniff!Ahead
<1>2. {j \in Sniff!Received : Sniff!Wanted(offered[j])} = Passing
  BY DEF Passing, Taken, Ahead, Sniff!Received, Sniff!Ahead
<1>3. Sniff!IsSelection(file, offered, Passing)
  BY DEF SnifferInv, IsSelection, Sniff!IsSelection, Cardinality, Sniff!Cardinality
<1>4. \A i \in DOMAIN file : file[i] \in Packet
  BY DEF SnifferInv
<1> QED
  BY <1>1, <1>2, <1>3, <1>4 DEF Sniff!CaptureFaithful, Packet

LEMMA SnifferStarts == Sniff!Init => SnifferInv
<1> SUFFICES ASSUME Sniff!Init PROVE SnifferInv
  OBVIOUS
<1>1. Passing = {} /\ Taken = 0
  BY DEF Sniff!Init, Passing, Taken, Ahead
<1> QED
  BY <1>1, SelectionOfNothing DEF Sniff!Init, SnifferInv, IsEnd, Taken

LEMMA SnifferSteps == SnifferInv /\ Sniff!Next => SnifferInv'
<1> SUFFICES ASSUME SnifferInv, Sniff!Next PROVE SnifferInv'
  OBVIOUS
<1>0. /\ queue \in Seq(Packet) /\ file \in Seq(Packet) /\ offered \in Seq(Packet)
      /\ IsEnd(queue, offered) /\ IsSelection(file, offered, Passing)
      /\ Taken \in Nat /\ Len(offered) \in Nat /\ Taken <= Len(offered) /\ Passing \subseteq 1 .. Taken
  BY DEF SnifferInv, IsEnd, Ahead, Taken, Passing
(* What leaves the packets alone keeps the invariant, if the mode is not used yet. *)
<1>1. ASSUME UNCHANGED <<queue, file, offered, filter_mode>>,
             spc' \in {"start", "unbound", "asks"} => spc \in {"start", "unbound", "asks"},
             spc' = "receives" => spc = "receives"
      PROVE  SnifferInv'
  <2>1. Passing' = Passing /\ Taken' = Taken
    BY <1>1 DEF Passing, Taken, Sniff!Wanted
  <2> QED
    BY <1>0, <1>1, <2>1 DEF SnifferInv
<1>2. CASE Sniff!Open \/ Sniff!Bind \/ Sniff!Signal
  BY <1>1, <1>2 DEF Sniff!Open, Sniff!Bind, Sniff!Signal
<1>3. ASSUME NEW m \in {"all", "chat", "dns", "other"}, Sniff!Choose(m) PROVE SnifferInv'
  <2>1. file = <<>> /\ Taken = 0 /\ UNCHANGED <<queue, file, offered>> /\ filter_mode' = m
        /\ spc' \in {"done", "receives"}
    BY <1>3 DEF SnifferInv, Sniff!Choose
  <2>2. Taken' = 0 /\ Passing' = {}
    BY <2>1 DEF Taken, Passing
  <2> QED
    BY <1>0, <2>1, <2>2, SelectionOfNothing DEF SnifferInv
<1>4. ASSUME NEW kind \in Kinds, NEW own \in BOOLEAN, Sniff!Arrive(kind, own) PROVE SnifferInv'
  <2> DEFINE e == [kind |-> kind, own |-> own, bound |-> spc # "unbound", n |-> Len(offered) + 1]
  <2>1. /\ e \in Packet /\ queue' = Append(queue, e) /\ offered' = Append(offered, e)
        /\ UNCHANGED <<spc, filter_mode, file>>
    BY <1>0, <1>4 DEF Sniff!Arrive, Sniff!Hears, Packet
  <2> HIDE DEF e
  <2>2. IsEnd(queue', offered') /\ Taken' = Taken
    BY <1>0, <2>1, EndGrows DEF Taken
  <2>3. queue' \in Seq(Packet) /\ offered' \in Seq(Packet)
    BY <1>0, <2>1
  <2>4. \A j \in 1 .. Taken : offered'[j] = offered[j]
    BY <1>0, <2>1
  <2>5. Passing' = Passing
    BY <2>1, <2>2, <2>4 DEF Passing, Sniff!Wanted
  <2>6. IsSelection(file', offered', Passing')
    BY <1>0, <2>1, <2>4, <2>5, SelectionOfLonger
  <2> QED
    BY <1>0, <2>1, <2>2, <2>3, <2>6 DEF SnifferInv
<1>5. CASE Sniff!Receive
  <2> DEFINE e == Head(queue)
  <2>0. filter_mode \in {"all", "chat", "dns", "other"}
    BY <1>5 DEF SnifferInv, Sniff!Receive
  <2>1. queue # <<>> /\ queue' = Tail(queue) /\ UNCHANGED <<filter_mode, offered>> /\ spc' \in {"done", "receives"}
    BY <1>5 DEF Sniff!Receive
  <2>2. e \in Packet /\ queue' \in Seq(Packet)
    BY <1>0, <2>1
  <2>3. IsEnd(queue', offered') /\ Taken' = Taken + 1 /\ Taken + 1 \in DOMAIN offered /\ offered[Taken + 1] = e
    BY <1>0, <2>1, EndTaken DEF Taken
  <2> HIDE DEF e
  <2>4. Sniff!Written(filter_mode, e) <=> Sniff!Wanted(e)
    <3>2. e.kind \in Kinds
      BY <2>2 DEF Packet
    <3> QED
      BY <2>0, <3>2, KindsAssumption DEF Sniff!Written, Sniff!match_filter, Sniff!Wanted
  <2>5. Passing' = IF Sniff!Wanted(e) THEN Passing \cup {Taken + 1} ELSE Passing
    <3>1. 1 .. Taken' = (1 .. Taken) \cup {Taken + 1}
      BY <1>0, <2>3
    <3>2. Passing' = {j \in 1 .. Taken' : Sniff!Wanted(offered[j])}
      BY <2>1 DEF Passing, Sniff!Wanted
    <3> QED
      BY <3>1, <3>2, <2>3 DEF Passing
  <2>6. CASE Sniff!Wanted(e)
    <3>1. file' = Append(file, e)
      BY <1>5, <2>4, <2>6 DEF Sniff!Receive, e
    <3>2. Taken + 1 \in Nat /\ Taken + 1 \notin Passing /\ \A i \in Passing : i < Taken + 1
      BY <1>0
    <3>3. IsSelection(file', offered, Passing \cup {Taken + 1})
      BY <1>0, <2>2, <2>3, <3>1, <3>2, SelectionGrows
    <3> QED
      BY <1>0, <2>0, <2>1, <2>2, <2>3, <2>5, <2>6, <3>1, <3>3 DEF SnifferInv
  <2>7. CASE ~Sniff!Wanted(e)
    <3>1. file' = file
      BY <1>5, <2>4, <2>7 DEF Sniff!Receive, e
    <3> QED
      BY <1>0, <2>0, <2>1, <2>2, <2>3, <2>5, <2>7, <3>1 DEF SnifferInv
  <2> QED
    BY <2>6, <2>7
<1> QED
  BY <1>2, <1>3, <1>4, <1>5 DEF Sniff!Next, Sniff!Run

-----------------------------------------------------------------------------
(* The broadcast chat.                                                     *)

Texts == {"joined", "left"} \cup Nat
Message == [from : Peers, text : Texts]
BroadcastTypes ==
  /\ bpc \in [Peers -> {"off", "join", "enter", "blocked", "round", "leave", "done"}]
  /\ g_stop \in [Peers -> BOOLEAN] /\ ready \in [Peers -> SUBSET {"socket", "stdin"}]
  /\ socket \in [Peers -> Seq(Message)] /\ heard \in [Peers -> Seq(Message)]
  /\ tty \in [Peers -> Seq(Nat)] /\ buf \in [Peers -> Seq(Nat)]
  /\ typed \in [Peers -> Nat] /\ closed \in [Peers -> BOOLEAN]
  /\ air \in Seq(Message) /\ since \in [Peers -> Nat] /\ lost \in SUBSET Peers

(* What is unsaid are the last of the lines typed. A descriptor is handled *)
(* in a round only, and what select() found there is still there.          *)
Left(p) == Len(Broadcast!Unsaid(p))
InputOf(p) ==
  /\ Left(p) <= typed[p]
  /\ \A i \in 1 .. Left(p) : Broadcast!Unsaid(p)[i] = typed[p] - Left(p) + i
  /\ bpc[p] \in {"off", "join"} => Left(p) = typed[p]
  /\ bpc[p] # "round" => ready[p] = {}
  /\ "stdin" \in ready[p] => tty[p] # <<>> \/ closed[p]
  /\ bpc[p] = "leave" /\ ~g_stop[p] => closed[p] /\ Left(p) = 0

OthersOf(p) == {j \in since[p] + 1 .. Ahead(air, socket[p]) : <<p, air[j].from>> \notin Begins}
SocketOf(p) ==
  /\ "socket" \in ready[p] => socket[p] # <<>>
  /\ bpc[p] \in {"off", "done"} => socket[p] = <<>>
  /\ bpc[p] = "off" => heard[p] = <<>>
  /\ bpc[p] \notin {"off", "done"} /\ p \notin lost =>
       /\ IsEnd(socket[p], air) /\ since[p] <= Ahead(air, socket[p])
       /\ IsSelection(heard[p], air, OthersOf(p))

Words(n) == <<"joined">> \o [i \in 1 .. n |-> i]
ScriptOf(p) ==
  CASE bpc[p] \in {"off", "join"} -> <<>>
    [] bpc[p] = "done" -> Append(Words(typed[p] - Left(p)), "left")
    [] OTHER -> Words(typed[p] - Left(p))
TextsSent == [j \in DOMAIN air |-> air[j].text]
OwnOf(p) == {j \in DOMAIN air : air[j].from = p}
SpeechOf(p) == IsSelection(ScriptOf(p), TextsSent, OwnOf(p))

BroadcastInv ==
  BroadcastTypes /\ \A p \in Peers : InputOf(p) /\ SocketOf(p) /\ SpeechOf(p)

LEMMA WordsGrow ==
  ASSUME NEW n \in Nat
  PROVE  /\ Words(n) \in Seq(Texts) /\ Append(Words(n), "left") = Words(n) \o <<"left">>
         /\ Words(n) = Words(n) \o <<>> /\ Append(Words(n), n + 1) = Words(n + 1)
         /\ Words(0) = Append(<<>>, "joined")
<1>1. ASSUME NEW m \in Nat
      PROVE  /\ Words(m) \in Seq(Texts) /\ Len(Words(m)) = m + 1
             /\ Words(m)[1] = "joined" /\ \A i \in 2 .. m + 1 : Words(m)[i] = i - 1
  <2> DEFINE l == [i \in 1 .. m |-> i]
             f == <<"joined">>
  <2>1. /\ l \in Seq(Texts) /\ f \in Seq(Texts) /\ Len(l) = m /\ Len(f) = 1 /\ f[1] = "joined"
        /\ \A i \in 1 .. m : l[i] = i
    BY DEF Texts
  <2> HIDE DEF l, f
  <2>2. /\ f \o l \in Seq(Texts) /\ Len(f \o l) = Len(f) + Len(l)
        /\ \A i \in 1 .. Len(f) + Len(l) : (f \o l)[i] = IF i <= Len(f) THEN f[i] ELSE l[i - Len(f)]
    BY <2>1, ConcatProperties, Zenon
  <2>3. (f \o l)[1] = f[1]
    BY <2>1, <2>2
  <2>4. ASSUME NEW i \in 2 .. m + 1 PROVE (f \o l)[i] = i - 1
    <3>1. i \in 1 .. Len(f) + Len(l) /\ ~(i <= Len(f)) /\ i - Len(f) \in 1 .. m /\ i - Len(f) = i - 1
      BY <2>1
    <3> QED
      BY <2>1, <2>2, <3>1
  <2>5. Words(m) = f \o l
    BY DEF Words, f, l
  <2> QED
    BY <2>1, <2>2, <2>3, <2>4, <2>5
<1>2. Append(Words(n), "left") = Words(n) \o <<"left">> /\ Words(n) = Words(n) \o <<>>
  <2>1. Words(n) \in Seq(Texts) /\ "left" \in Texts
    BY <1>1 DEF Texts
  <2> QED
    BY <2>1, AppendIsConcat, ConcatEmptySeq
<1>3. Append(Words(n), n + 1) = Words(n + 1)
  <2>1. n + 1 \in Nat /\ n + 1 \in Texts
    BY DEF Texts
  <2>2. /\ Append(Words(n), n + 1) \in Seq(Texts) /\ Len(Append(Words(n), n + 1)) = n + 2
        /\ Append(Words(n), n + 1)[n + 2] = n + 1
        /\ \A i \in 1 .. n + 1 : Append(Words(n), n + 1)[i] = Words(n)[i]
    <3>1. Words(n) \in Seq(Texts) /\ Len(Words(n)) = n + 1
      BY <1>1
    <3> QED
      BY <2>1, <3>1, AppendProperties
  <2>3. /\ Words(n + 1) \in Seq(Texts) /\ Len(Words(n + 1)) = n + 2
        /\ Words(n + 1)[1] = "joined" /\ \A i \in 2 .. n + 2 : Words(n + 1)[i] = i - 1
    BY <1>1, <2>1
  <2>4. ASSUME NEW i \in 1 .. n + 2 PROVE Append(Words(n), n + 1)[i] = Words(n + 1)[i]
    <3>1. CASE i = 1
      <4>1. Words(n)[1] = "joined"
        BY <1>1
      <4>2. 1 \in 1 .. n + 1
        OBVIOUS
      <4> QED
        BY <3>1, <2>2, <2>3, <4>1, <4>2
    <3>2. CASE i = n + 2
      <4>1. n + 2 \in 2 .. n + 2 /\ (n + 2) - 1 = n + 1
        OBVIOUS
      <4>2. Words(n + 1)[n + 2] = n + 1
        BY <2>3, <4>1
      <4> QED
        BY <3>2, <2>2, <4>2
    <3>3. CASE i \in 2 .. n + 1
      <4>1. i \in 1 .. n + 1 /\ i \in 2 .. n + 2
        BY <3>3
      <4> QED
        BY <3>3, <4>1, <2>2, <2>3, <1>1
    <3>4. i = 1 \/ i = n + 2 \/ i \in 2 .. n + 1
      OBVIOUS
    <3> QED
      BY <3>1, <3>2, <3>3, <3>4
  <2> QED
    BY <2>2, <2>3, <2>4, SeqEqual
<1>4. Words(0) = Append(<<>>, "joined")
  BY DEF Words
<1> QED
  BY <1>1, <1>2, <1>3, <1>4

LEMMA BroadcastStarts == Broadcast!Init => BroadcastInv
<1> SUFFICES ASSUME Broadcast!Init PROVE BroadcastInv
  OBVIOUS
<1>1. BroadcastTypes
  BY DEF Broadcast!Init, BroadcastTypes
<1>2. ASSUME NEW p \in Peers PROVE InputOf(p) /\ SocketOf(p) /\ SpeechOf(p)
  <2>1. Broadcast!Unsaid(p) = <<>> /\ Left(p) = 0
    BY DEF Broadcast!Init, Broadcast!Unsaid, Left
  <2>2. OwnOf(p) = {} /\ ScriptOf(p) = <<>>
    BY DEF Broadcast!Init, OwnOf, ScriptOf
  <2> QED
    BY <2>1, <2>2, SelectionOfNothing DEF Broadcast!Init, InputOf, SocketOf, SpeechOf
<1> QED
  BY <1>1, <1>2 DEF BroadcastInv

(* The sending of a message, whoever sends it and for whatever reason.      *)
LEMMA MessageSent ==
  ASSUME BroadcastTypes, NEW p \in Peers, NEW text \in Texts, Broadcast!send_message(p, text)
  PROVE  LET m == [from |-> p, text |-> text] IN
         /\ m \in Message /\ air' = Append(air, m) /\ air' \in Seq(Message)
         /\ since' = since /\ lost \subseteq lost' /\ lost' \in SUBSET Peers
         /\ socket' \in [Peers -> Seq(Message)]
         /\ \A q \in Peers : bpc'[q] \in {"off", "done"} => socket'[q] = <<>>
         /\ \A q \in Peers : bpc[q] \notin {"off", "done"} /\ bpc'[q] \notin {"off", "done"} /\ q \notin lost' =>
              socket'[q] = Append(socket[q], m)
         /\ \A q \in Peers : bpc'[q] \notin {"off", "done"} /\ socket[q] # <<>> => socket'[q] # <<>>
<1> DEFINE m == [from |-> p, text |-> text]
           full == {q \in Broadcast!Live : Len(socket[q]) = Datagrams}
<1>1. m \in Message
  BY DEF Message
<1> HIDE DEF m
<1>2. /\ air' = Append(air, m) /\ lost' = lost \cup full /\ since' = since
      /\ socket' = [q \in Peers |-> IF q \notin Broadcast!Live' THEN <<>>
                                  ELSE IF q \in full THEN socket[q] ELSE Append(socket[q], m)]
  BY DEF Broadcast!send_message, m
<1>3. /\ \A q \in Peers : q \in Broadcast!Live <=> bpc[q] \notin {"off", "done"}
      /\ \A q \in Peers : q \in Broadcast!Live' <=> bpc'[q] \notin {"off", "done"}
      /\ full \subseteq Peers
  BY DEF Broadcast!Live
<1> HIDE DEF full
<1>4. \A q \in Peers : socket[q] \in Seq(Message) /\ Append(socket[q], m) \in Seq(Message) /\ Append(socket[q], m) # <<>>
  <2>1. ASSUME NEW q \in Peers
        PROVE  socket[q] \in Seq(Message) /\ Append(socket[q], m) \in Seq(Message) /\ Append(socket[q], m) # <<>>
    <3>1. socket[q] \in Seq(Message)
      BY DEF BroadcastTypes
    <3>2. Append(socket[q], m) \in Seq(Message) /\ Len(Append(socket[q], m)) = Len(socket[q]) + 1
      BY <1>1, <3>1, AppendProperties
    <3>3. Len(socket[q]) \in Nat
      BY <3>1
    <3> QED
      BY <3>1, <3>2, <3>3
  <2> QED
    BY <2>1
<1>5. socket' \in [Peers -> Seq(Message)]
  BY <1>2, <1>4
<1>6. air' \in Seq(Message) /\ lost' \in SUBSET Peers
  BY <1>1, <1>2, <1>3 DEF BroadcastTypes
<1>7. \A q \in Peers : bpc'[q] \in {"off", "done"} => socket'[q] = <<>>
  BY <1>2, <1>3
<1>8. \A q \in Peers : bpc[q] \notin {"off", "done"} /\ bpc'[q] \notin {"off", "done"} /\ q \notin lost' =>
         socket'[q] = Append(socket[q], m)
  BY <1>2, <1>3
<1>9. \A q \in Peers : bpc'[q] \notin {"off", "done"} /\ socket[q] # <<>> => socket'[q] # <<>>
  BY <1>2, <1>3, <1>4
<1> QED
  BY <1>1, <1>2, <1>5, <1>6, <1>7, <1>8, <1>9 DEF m

(* What stdio takes of the kernel's lines stays in order.                   *)
LEMMA LinesFetched ==
  ASSUME NEW b \in Seq(Nat), NEW t \in Seq(Nat), NEW n \in 0 .. Len(t), b # <<>> \/ n > 0
  PROVE  LET l == b \o SubSeq(t, 1, n)
             r == SubSeq(t, n + 1, Len(t)) IN
         /\ l \in Seq(Nat) /\ r \in Seq(Nat) /\ l # <<>>
         /\ b \o t \in Seq(Nat) /\ b \o t # <<>>
         /\ Head(l) = Head(b \o t) /\ Tail(l) \in Seq(Nat) /\ Tail(l) \o r = Tail(b \o t)
<1> DEFINE l == b \o SubSeq(t, 1, n)
           r == SubSeq(t, n + 1, Len(t))
<1>0. n \in Nat /\ Len(b) \in Nat /\ Len(t) \in Nat /\ n <= Len(t)
  OBVIOUS
<1> DEFINE h == SubSeq(t, 1, n)
<1>h. h \in Seq(Nat) /\ Len(h) = n /\ \A i \in 1 .. n : h[i] = t[i]
  OBVIOUS
<1>r. r \in Seq(Nat) /\ Len(r) = Len(t) - n /\ \A i \in 1 .. Len(t) - n : r[i] = t[i + n]
  OBVIOUS
<1>l. l = b \o h
  OBVIOUS
<1> HIDE DEF h, l, r
<1>1. /\ l \in Seq(Nat) /\ r \in Seq(Nat) /\ Len(r) = Len(t) - n /\ Len(l) = Len(b) + n
      /\ \A i \in 1 .. Len(b) + n : l[i] = IF i <= Len(b) THEN b[i] ELSE t[i - Len(b)]
      /\ \A i \in 1 .. Len(t) - n : r[i] = t[i + n]
  <2>1. /\ l \in Seq(Nat) /\ Len(l) = Len(b) + Len(h)
        /\ \A i \in 1 .. Len(b) + Len(h) : l[i] = IF i <= Len(b) THEN b[i] ELSE h[i - Len(b)]
    <3>1. h \in Seq(Nat)
      BY <1>h
    <3> QED
      BY <3>1, <1>l, ConcatProperties
  <2>2. ASSUME NEW i \in 1 .. Len(b) + n
        PROVE  l[i] = IF i <= Len(b) THEN b[i] ELSE t[i - Len(b)]
    <3>1. CASE i <= Len(b)
      BY <1>h, <2>1, <3>1
    <3>2. CASE ~(i <= Len(b))
      <4>1. i - Len(b) \in 1 .. n
        BY <1>0, <3>2
      <4>2. l[i] = h[i - Len(b)]
        BY <1>h, <2>1, <3>2
      <4> QED
        BY <1>h, <3>2, <4>1, <4>2
    <3> QED
      BY <3>1, <3>2
  <2>3. Len(l) = Len(b) + n
    BY <1>h, <2>1
  <2> QED
    BY <1>r, <2>1, <2>2, <2>3
<1>2. /\ b \o t \in Seq(Nat) /\ Len(b \o t) = Len(b) + Len(t) /\ Len(b) \in Nat /\ Len(t) \in Nat
      /\ \A i \in 1 .. Len(b) + Len(t) : (b \o t)[i] = IF i <= Len(b) THEN b[i] ELSE t[i - Len(b)]
  BY <1>0, ConcatProperties
<1>3. Len(b) + n > 0
  BY <1>0
<1> DEFINE c == b \o t
<1>4. /\ c \in Seq(Nat) /\ Len(c) = Len(b) + Len(t) /\ Len(c) >= Len(l) /\ Len(c) = Len(l) + Len(r)
      /\ \A i \in 1 .. Len(l) : l[i] = c[i]
      /\ \A i \in 1 .. Len(r) : r[i] = c[Len(l) + i]
  <2>1. ASSUME NEW i \in 1 .. Len(l) PROVE l[i] = c[i]
    <3>1. i \in 1 .. Len(b) + n /\ i \in 1 .. Len(b) + Len(t)
      BY <1>1, <1>2
    <3> QED
      BY <1>1, <1>2, <3>1
  <2>2. ASSUME NEW i \in 1 .. Len(r) PROVE r[i] = c[Len(l) + i]
    <3>1. i \in 1 .. Len(t) - n /\ Len(l) = Len(b) + n
      BY <1>1
    <3> DEFINE x == Len(b) + n + i
    <3>2. x \in 1 .. Len(b) + Len(t) /\ ~(x <= Len(b)) /\ x - Len(b) = i + n
      <4>1. ASSUME NEW lb \in Nat, NEW lt \in Nat, NEW m \in Nat, NEW j \in 1 .. lt - m
            PROVE  lb + m + j \in 1 .. lb + lt /\ ~(lb + m + j <= lb) /\ (lb + m + j) - lb = j + m
        OBVIOUS
      <4> QED
        BY <1>0, <3>1, <4>1
    <3>4. Len(l) + i = x
      BY <3>1
    <3> HIDE DEF x
    <3>5. c[x] = t[x - Len(b)]
      BY <1>2, <3>2
    <3> QED
      BY <1>1, <3>1, <3>2, <3>4, <3>5
  <2>3. Len(c) >= Len(l) /\ Len(c) = Len(l) + Len(r)
    <3>1. Len(c) = Len(b) + Len(t) /\ Len(l) = Len(b) + n /\ Len(r) = Len(t) - n
      BY <1>1, <1>2
    <3> QED
      BY <1>0, <3>1
  <2> QED
    BY <1>2, <2>1, <2>2, <2>3
<1> HIDE DEF c
<1>5. l # <<>> /\ c # <<>> /\ Head(l) = Head(c) /\ Tail(l) \in Seq(Nat)
  <2>1. Len(l) > 0 /\ Len(c) > 0 /\ 1 \in 1 .. Len(l)
    <3>1. Len(l) = Len(b) + n /\ Len(l) \in Nat /\ Len(c) \in Nat
      BY <1>1, <1>4
    <3>2. Len(l) > 0 /\ Len(c) >= Len(l)
      BY <1>3, <1>4, <3>1
    <3> QED
      BY <3>1, <3>2
  <2>2. l # <<>> /\ c # <<>> /\ l[1] = c[1]
    BY <1>4, <2>1
  <2>3. Head(l) = l[1] /\ Head(c) = c[1] /\ Tail(l) \in Seq(Nat)
    BY <1>1, <1>4, <2>2, HeadTailProperties
  <2> QED
    BY <2>2, <2>3
<1>6. Tail(l) \o r = Tail(c)
  <2>0. r \in Seq(Nat) /\ Len(r) \in Nat /\ Len(l) \in Nat \ {0} /\ Len(c) = Len(l) + Len(r)
    BY <1>1, <1>4, <1>5
  <2>1. /\ Tail(l) \in Seq(Nat) /\ Len(Tail(l)) = Len(l) - 1 /\ \A i \in 1 .. Len(l) - 1 : Tail(l)[i] = l[i + 1]
        /\ Tail(c) \in Seq(Nat) /\ Len(Tail(c)) = Len(c) - 1 /\ \A i \in 1 .. Len(c) - 1 : Tail(c)[i] = c[i + 1]
    <3>1. l \in Seq(Nat) /\ c \in Seq(Nat) /\ l # <<>> /\ c # <<>>
      BY <1>1, <1>4, <1>5
    <3> QED
      BY <3>1, HeadTailProperties
  <2> DEFINE u == Tail(l)
             v == Tail(c)
  <2> HIDE DEF u, v
  <2>2. /\ u \o r \in Seq(Nat) /\ Len(u \o r) = Len(u) + Len(r)
        /\ \A i \in 1 .. Len(u) + Len(r) : (u \o r)[i] = IF i <= Len(u) THEN u[i] ELSE r[i - Len(u)]
    BY <2>0, <2>1, ConcatProperties DEF u
  <2>3. ASSUME NEW i \in 1 .. Len(u) + Len(r) PROVE (u \o r)[i] = v[i]
    <3>0. Len(u) = Len(l) - 1 /\ i \in 1 .. Len(c) - 1 /\ v[i] = c[i + 1]
      BY <2>0, <2>1 DEF u, v
    <3>1. CASE i <= Len(u)
      <4>1. i \in 1 .. Len(l) - 1 /\ i + 1 \in 1 .. Len(l)
        BY <2>0, <3>0, <3>1
      <4>2. u[i] = l[i + 1] /\ l[i + 1] = c[i + 1]
        BY <2>1, <1>4, <4>1 DEF u
      <4> QED
        BY <2>2, <3>0, <3>1, <4>2
    <3>2. CASE ~(i <= Len(u))
      <4>1. i - Len(u) \in 1 .. Len(r) /\ Len(l) + (i - Len(u)) = i + 1
        BY <2>0, <3>0, <3>2
      <4>2. r[i - Len(u)] = c[i + 1]
        BY <1>4, <4>1
      <4> QED
        BY <2>2, <3>0, <3>2, <4>2
    <3> QED
      BY <3>1, <3>2
  <2>4. v \in Seq(Nat) /\ Len(v) = Len(u \o r)
    BY <2>0, <2>1, <2>2 DEF u, v
  <2>5. u \o r = v
    BY <2>2, <2>3, <2>4, SeqEqual
  <2> QED
    BY <2>5 DEF u, v
<1> QED
  BY <1>1, <1>4, <1>5, <1>6 DEF l, r, c

LEMMA LineSaid ==
  ASSUME BroadcastTypes, NEW p \in Peers, Broadcast!Say(p)
  PROVE  /\ Broadcast!Unsaid(p) \in Seq(Nat) /\ Broadcast!Unsaid(p) # <<>>
         /\ Broadcast!send_message(p, Head(Broadcast!Unsaid(p)))
         /\ Broadcast!Unsaid(p)' = Tail(Broadcast!Unsaid(p))
         /\ buf' \in [Peers -> Seq(Nat)] /\ tty' \in [Peers -> Seq(Nat)]
         /\ \A q \in Peers \ {p} : buf'[q] = buf[q] /\ tty'[q] = tty[q]
<1>1. PICK n \in Broadcast!Fetches(p) :
        LET lines == buf[p] \o SubSeq(tty[p], 1, n) IN
        /\ Broadcast!send_message(p, Head(lines)) /\ buf' = [buf EXCEPT ![p] = Tail(lines)]
        /\ tty' = [tty EXCEPT ![p] = SubSeq(tty[p], n + 1, Len(tty[p]))]
  BY DEF Broadcast!Say
<1>2. /\ buf \in [Peers -> Seq(Nat)] /\ tty \in [Peers -> Seq(Nat)]
      /\ buf[p] \in Seq(Nat) /\ tty[p] \in Seq(Nat)
  BY DEF BroadcastTypes
<1>3. buf[p] # <<>> \/ tty[p] # <<>>
  BY DEF Broadcast!Say, Broadcast!AtEnd
<1>4. n \in 0 .. Len(tty[p]) /\ (buf[p] # <<>> \/ n > 0)
  BY <1>2, <1>3 DEF Broadcast!Fetches
<1> DEFINE l == buf[p] \o SubSeq(tty[p], 1, n)
           r == SubSeq(tty[p], n + 1, Len(tty[p]))
<1>5. /\ l \in Seq(Nat) /\ r \in Seq(Nat) /\ l # <<>>
      /\ buf[p] \o tty[p] \in Seq(Nat) /\ buf[p] \o tty[p] # <<>>
      /\ Head(l) = Head(buf[p] \o tty[p]) /\ Tail(l) \in Seq(Nat) /\ Tail(l) \o r = Tail(buf[p] \o tty[p])
  BY <1>2, <1>4, LinesFetched
<1>6. Broadcast!send_message(p, Head(l)) /\ buf' = [buf EXCEPT ![p] = Tail(l)] /\ tty' = [tty EXCEPT ![p] = r]
  BY <1>1
<1> HIDE DEF l, r
<1>7. Head(l) = Head(Broadcast!Unsaid(p))
  BY <1>5 DEF Broadcast!Unsaid
<1>8. Broadcast!send_message(p, Head(Broadcast!Unsaid(p)))
  BY <1>6, <1>7
<1>9. Broadcast!Unsaid(p)' = Tail(Broadcast!Unsaid(p))
  BY <1>2, <1>5, <1>6 DEF Broadcast!Unsaid
<1> QED
  BY <1>2, <1>5, <1>6, <1>8, <1>9 DEF Broadcast!Unsaid

LEMMA BroadcastTypesStep == BroadcastInv /\ Broadcast!Next => BroadcastTypes'
<1> SUFFICES ASSUME BroadcastInv, NEW p \in Peers,
                    \/ Broadcast!Run(p) \/ Broadcast!handle_stop_signal(p)
                    \/ Broadcast!Type(p) \/ Broadcast!Close(p)
             PROVE  BroadcastTypes'
  BY DEF Broadcast!Next
<1>0. BroadcastTypes /\ SocketOf(p)
  BY DEF BroadcastInv
<1>1. CASE Broadcast!create_socket(p)
  BY <1>0, <1>1 DEF BroadcastTypes, Broadcast!create_socket, Broadcast!Goto, Broadcast!input
<1>2. CASE Broadcast!Join(p)
  <2>1. "joined" \in Texts /\ Broadcast!send_message(p, "joined")
    BY <1>2 DEF Broadcast!Join, Texts
  <2>2. UNCHANGED <<since>> /\ air' \in Seq(Message) /\ lost' \in SUBSET Peers /\ socket' \in [Peers -> Seq(Message)]
    BY <1>0, <2>1, MessageSent
  <2> QED
    BY <1>0, <1>2, <2>2 DEF BroadcastTypes, Broadcast!Join, Broadcast!Goto, Broadcast!Tested, Broadcast!input
<1>3. CASE Broadcast!Enter(p)
  BY <1>0, <1>3 DEF BroadcastTypes, Broadcast!Enter, Broadcast!Goto, Broadcast!input, Broadcast!history
<1>4. CASE Broadcast!Wake(p)
  BY <1>0, <1>4 DEF BroadcastTypes, Broadcast!Wake, Broadcast!Ready, Broadcast!Goto, Broadcast!input, Broadcast!history
<1>5. CASE Broadcast!Hear(p)
  <2>1. socket[p] \in Seq(Message) /\ socket[p] # <<>>
    BY <1>0, <1>5 DEF BroadcastTypes, SocketOf, Broadcast!Hear
  <2>2. Tail(socket[p]) \in Seq(Message) /\ Head(socket[p]) \in Message
    BY <2>1
  <2>3. heard[p] \in Seq(Message) /\ Append(heard[p], Head(socket[p])) \in Seq(Message)
    BY <1>0, <2>2 DEF BroadcastTypes
  <2>4. socket' \in [Peers -> Seq(Message)] /\ heard' \in [Peers -> Seq(Message)]
    BY <1>0, <1>5, <2>2, <2>3 DEF BroadcastTypes, Broadcast!Hear
  <2>5. bpc' \in [Peers -> {"off", "join", "enter", "blocked", "round", "leave", "done"}]
        /\ ready' \in [Peers -> SUBSET {"socket", "stdin"}]
    BY <1>0, <1>5 DEF BroadcastTypes, Broadcast!Hear, Broadcast!Handled, Broadcast!Goto, Broadcast!Tested
  <2> QED
    BY <1>0, <1>5, <2>4, <2>5 DEF BroadcastTypes, Broadcast!Hear, Broadcast!input, Broadcast!history
<1>6. CASE Broadcast!Say(p)
  <2>1. /\ buf' \in [Peers -> Seq(Nat)] /\ tty' \in [Peers -> Seq(Nat)]
        /\ Head(Broadcast!Unsaid(p)) \in Texts /\ Broadcast!send_message(p, Head(Broadcast!Unsaid(p)))
    <3>1. Broadcast!Unsaid(p) \in Seq(Nat) /\ Broadcast!Unsaid(p) # <<>>
      BY <1>0, <1>6, LineSaid
    <3>2. Head(Broadcast!Unsaid(p)) \in Nat
      BY <3>1
    <3> QED
      BY <1>0, <1>6, <3>2, LineSaid DEF Texts
  <2>2. UNCHANGED <<since>> /\ air' \in Seq(Message) /\ lost' \in SUBSET Peers /\ socket' \in [Peers -> Seq(Message)]
    BY <1>0, <2>1, MessageSent
  <2>3. bpc' \in [Peers -> {"off", "join", "enter", "blocked", "round", "leave", "done"}]
        /\ ready' \in [Peers -> SUBSET {"socket", "stdin"}]
    BY <1>0, <1>6 DEF BroadcastTypes, Broadcast!Say, Broadcast!Handled, Broadcast!Goto, Broadcast!Tested
  <2>4. UNCHANGED <<g_stop, typed, closed, heard>>
    BY <1>6 DEF Broadcast!Say
  <2> QED
    BY <1>0, <2>1, <2>2, <2>3, <2>4 DEF BroadcastTypes
<1>7. CASE Broadcast!InputEnds(p)
  BY <1>0, <1>7 DEF BroadcastTypes, Broadcast!InputEnds, Broadcast!Goto, Broadcast!input, Broadcast!history
<1>8. CASE Broadcast!Leave(p)
  <2>1. "left" \in Texts /\ Broadcast!send_message(p, "left")
    BY <1>8 DEF Broadcast!Leave, Texts
  <2>2. UNCHANGED <<since>> /\ air' \in Seq(Message) /\ lost' \in SUBSET Peers /\ socket' \in [Peers -> Seq(Message)]
    BY <1>0, <2>1, MessageSent
  <2> QED
    BY <1>0, <1>8, <2>2 DEF BroadcastTypes, Broadcast!Leave, Broadcast!Goto, Broadcast!input
<1>9. CASE Broadcast!handle_stop_signal(p)
  BY <1>0, <1>9 DEF BroadcastTypes, Broadcast!handle_stop_signal, Broadcast!Goto, Broadcast!input, Broadcast!history
<1>10. CASE Broadcast!Type(p)
  <2>1. tty[p] \in Seq(Nat) /\ typed[p] + 1 \in Nat
    BY <1>0 DEF BroadcastTypes
  <2>2. Append(tty[p], typed[p] + 1) \in Seq(Nat)
    BY <2>1
  <2> QED
    BY <1>0, <1>10, <2>1, <2>2 DEF BroadcastTypes, Broadcast!Type, Broadcast!history
<1>11. CASE Broadcast!Close(p)
  BY <1>0, <1>11 DEF BroadcastTypes, Broadcast!Close, Broadcast!history
<1> QED
  BY <1>1, <1>2, <1>3, <1>4, <1>5, <1>6, <1>7, <1>8, <1>9, <1>10, <1>11 DEF Broadcast!Run

LEMMA InputSame ==
  ASSUME NEW q \in Peers, InputOf(q), buf'[q] = buf[q], tty'[q] = tty[q], typed'[q] = typed[q],
         bpc'[q] \in {"off", "join"} => bpc[q] \in {"off", "join"},
         bpc'[q] # "round" => ready'[q] = {},
         "stdin" \in ready'[q] => tty[q] # <<>> \/ closed'[q],
         bpc'[q] = "leave" /\ ~g_stop'[q] => closed'[q] /\ Left(q) = 0
  PROVE  InputOf(q)'
<1>1. Broadcast!Unsaid(q)' = Broadcast!Unsaid(q) /\ Left(q)' = Left(q)
  BY DEF Broadcast!Unsaid, Left
<1> QED
  BY <1>1 DEF InputOf

LEMMA AppendBehind ==
  ASSUME NEW S, NEW s \in Seq(S), NEW t \in Seq(S), NEW e \in S
  PROVE  s \o Append(t, e) = Append(s \o t, e)
<1>1. <<e>> \in Seq(S) /\ s \o t \in Seq(S)
  BY ConcatProperties
<1>2. Append(t, e) = t \o <<e>> /\ Append(s \o t, e) = (s \o t) \o <<e>>
  BY <1>1, AppendIsConcat
<1>3. s \o (t \o <<e>>) = (s \o t) \o <<e>>
  BY <1>1, ConcatAssociative
<1> QED
  BY <1>2, <1>3

(* Of the peers that do nothing nothing changes, but what they are sent.    *)
LEMMA OthersStill ==
  ASSUME BroadcastTypes, NEW p \in Peers, NEW q \in Peers \ {p},
         \/ Broadcast!Run(p) \/ Broadcast!handle_stop_signal(p)
         \/ Broadcast!Type(p) \/ Broadcast!Close(p)
  PROVE  /\ bpc'[q] = bpc[q] /\ g_stop'[q] = g_stop[q] /\ ready'[q] = ready[q]
         /\ buf'[q] = buf[q] /\ tty'[q] = tty[q] /\ typed'[q] = typed[q] /\ closed'[q] = closed[q]
         /\ heard'[q] = heard[q] /\ since'[q] = since[q]
<1> USE DEF BroadcastTypes, Broadcast!Goto, Broadcast!input, Broadcast!history
<1>1. CASE Broadcast!create_socket(p)
  BY <1>1 DEF Broadcast!create_socket
<1>2. CASE Broadcast!Join(p)
  BY <1>2 DEF Broadcast!Join, Broadcast!send_message
<1>3. CASE Broadcast!Enter(p) \/ Broadcast!Wake(p)
  BY <1>3 DEF Broadcast!Enter, Broadcast!Wake
<1>5. CASE Broadcast!Hear(p)
  BY <1>5 DEF Broadcast!Hear, Broadcast!Handled
<1>6. CASE Broadcast!Say(p)
  <2>1. buf'[q] = buf[q] /\ tty'[q] = tty[q]
    BY <1>6, LineSaid
  <2>2. since' = since
    BY <1>6 DEF Broadcast!Say, Broadcast!send_message
  <2> QED
    BY <1>6, <2>1, <2>2 DEF Broadcast!Say, Broadcast!Handled
<1>7. CASE Broadcast!InputEnds(p)
  BY <1>7 DEF Broadcast!InputEnds
<1>8. CASE Broadcast!Leave(p)
  BY <1>8 DEF Broadcast!Leave, Broadcast!send_message
<1>9. CASE Broadcast!handle_stop_signal(p)
  BY <1>9 DEF Broadcast!handle_stop_signal
<1>10. CASE Broadcast!Type(p) \/ Broadcast!Close(p)
  BY <1>10 DEF Broadcast!Type, Broadcast!Close
<1> QED
  BY <1>1, <1>2, <1>3, <1>5, <1>6, <1>7, <1>8, <1>9, <1>10 DEF Broadcast!Run

LEMMA InputSteps ==
  ASSUME BroadcastInv, NEW p \in Peers,
         \/ Broadcast!Run(p) \/ Broadcast!handle_stop_signal(p)
         \/ Broadcast!Type(p) \/ Broadcast!Close(p),
         NEW q \in Peers
  PROVE  InputOf(q)'
<1>0. BroadcastTypes /\ InputOf(q)
  BY DEF BroadcastInv
<1>1. CASE q # p
  <2>1. q \in Peers \ {p}
    BY <1>1
  <2> QED
    BY <1>0, <2>1, OthersStill, InputSame DEF InputOf
<1>2. CASE q = p
  <2> USE <1>2 DEF Broadcast!Goto, Broadcast!input, Broadcast!history
  <2>0. /\ bpc \in [Peers -> {"off", "join", "enter", "blocked", "round", "leave", "done"}]
        /\ g_stop \in [Peers -> BOOLEAN] /\ ready \in [Peers -> SUBSET {"socket", "stdin"}]
        /\ typed \in [Peers -> Nat] /\ closed \in [Peers -> BOOLEAN]
        /\ buf \in [Peers -> Seq(Nat)] /\ tty \in [Peers -> Seq(Nat)]
    BY <1>0 DEF BroadcastTypes
  <2>1. CASE Broadcast!create_socket(p)
    <3>1. /\ UNCHANGED <<g_stop, ready, tty, buf, typed, closed>>
          /\ bpc[q] = "off" /\ bpc'[q] = "join"
      BY <2>0, <2>1 DEF Broadcast!create_socket
    <3> QED
      BY <1>0, <3>1, InputSame DEF InputOf
  <2>2. CASE Broadcast!Join(p)
    <3>1. /\ UNCHANGED <<g_stop, ready, tty, buf, typed, closed>>
          /\ bpc[q] = "join" /\ bpc'[q] \in {"enter", "leave"} /\ (bpc'[q] = "leave" => g_stop[q])
      BY <2>0, <2>2 DEF Broadcast!Join, Broadcast!Tested
    <3> QED
      BY <1>0, <3>1, InputSame DEF InputOf
  <2>3. CASE Broadcast!Enter(p)
    <3>1. /\ UNCHANGED <<g_stop, ready, tty, buf, typed, closed>>
          /\ bpc[q] = "enter" /\ bpc'[q] = "blocked"
      BY <2>0, <2>3 DEF Broadcast!Enter
    <3> QED
      BY <1>0, <3>1, InputSame DEF InputOf
  <2>4. CASE Broadcast!Wake(p)
    <3>1. /\ UNCHANGED <<g_stop, tty, buf, typed, closed>>
          /\ bpc[q] = "blocked" /\ bpc'[q] = "round" /\ ready'[q] = Broadcast!Ready(q)
      BY <2>0, <2>4 DEF Broadcast!Wake
    <3>2. "stdin" \in Broadcast!Ready(q) => tty[q] # <<>> \/ closed[q]
      BY DEF Broadcast!Ready
    <3> QED
      BY <1>0, <3>1, <3>2, InputSame
  <2>5. CASE Broadcast!Hear(p)
    <3>1. /\ UNCHANGED <<g_stop, tty, buf, typed, closed>>
          /\ bpc[q] = "round" /\ bpc'[q] \in {"enter", "leave", "round"} /\ (bpc'[q] = "leave" => g_stop[q])
          /\ (bpc'[q] # "round" => ready'[q] = {}) /\ ready'[q] \subseteq ready[q]
      BY <2>0, <2>5 DEF Broadcast!Hear, Broadcast!Handled, Broadcast!Tested
    <3> QED
      BY <1>0, <3>1, InputSame DEF InputOf
  <2>6. CASE Broadcast!Say(p)
    <3>1. /\ UNCHANGED <<g_stop, typed, closed>>
          /\ bpc[q] = "round" /\ bpc'[q] \in {"enter", "leave", "round"} /\ (bpc'[q] = "leave" => g_stop[q])
          /\ (bpc'[q] # "round" => ready'[q] = {}) /\ "stdin" \notin ready'[q]
      BY <2>0, <2>6 DEF Broadcast!Say, Broadcast!Handled, Broadcast!Tested
    <3>2. /\ Broadcast!Unsaid(q) \in Seq(Nat) /\ Broadcast!Unsaid(q) # <<>>
          /\ Broadcast!Unsaid(q)' = Tail(Broadcast!Unsaid(q))
      BY <1>0, <2>6, LineSaid
    <3>3. /\ Left(q) \in Nat /\ Left(q)' = Left(q) - 1
          /\ \A i \in 1 .. Left(q) - 1 : Broadcast!Unsaid(q)'[i] = Broadcast!Unsaid(q)[i + 1]
      BY <3>2 DEF Left
    <3>4. typed[q] \in Nat /\ Left(q) <= typed[q] /\ \A i \in 1 .. Left(q) : Broadcast!Unsaid(q)[i] = typed[q] - Left(q) + i
      BY <1>0, <2>0 DEF InputOf
    <3>5. ASSUME NEW i \in 1 .. Left(q)' PROVE Broadcast!Unsaid(q)'[i] = typed[q] - Left(q)' + i
      <4>1. i \in 1 .. Left(q) - 1 /\ i + 1 \in 1 .. Left(q)
        BY <3>3
      <4>2. Broadcast!Unsaid(q)'[i] = Broadcast!Unsaid(q)[i + 1]
        BY <3>3, <4>1
      <4>3. Broadcast!Unsaid(q)[i + 1] = typed[q] - Left(q) + (i + 1)
        BY <3>4, <4>1
      <4> QED
        BY <3>3, <3>4, <4>2, <4>3
    <3>6. Left(q)' <= typed[q]
      BY <3>3, <3>4
    <3> QED
      BY <3>1, <3>5, <3>6 DEF InputOf
  <2>7. CASE Broadcast!InputEnds(p)
    <3>1. /\ UNCHANGED <<g_stop, tty, buf, typed, closed>>
          /\ bpc[q] = "round" /\ bpc'[q] = "leave" /\ ready'[q] = {} /\ ready[q] = {"stdin"}
          /\ buf[q] = <<>> /\ tty[q] = <<>>
      BY <2>0, <2>7 DEF Broadcast!InputEnds, Broadcast!AtEnd
    <3>2. Left(q) = 0
      BY <3>1 DEF Left, Broadcast!Unsaid
    <3> QED
      BY <1>0, <3>1, <3>2, InputSame DEF InputOf
  <2>8. CASE Broadcast!Leave(p)
    <3>1. /\ UNCHANGED <<g_stop, ready, tty, buf, typed, closed>>
          /\ bpc[q] = "leave" /\ bpc'[q] = "done"
      BY <2>0, <2>8 DEF Broadcast!Leave
    <3> QED
      BY <1>0, <3>1, InputSame DEF InputOf
  <2>9. CASE Broadcast!handle_stop_signal(p)
    <3>1. UNCHANGED <<ready, tty, buf, typed, closed>> /\ g_stop'[q]
      BY <2>0, <2>9 DEF Broadcast!handle_stop_signal
    <3>2. bpc'[q] = bpc[q] \/ (bpc[q] = "blocked" /\ bpc'[q] = "leave")
      <4>1. (bpc' = [bpc EXCEPT ![p] = "leave"] /\ bpc[p] = "blocked") \/ bpc' = bpc
        BY <2>9 DEF Broadcast!handle_stop_signal
      <4> QED
        BY <2>0, <4>1
    <3> QED
      BY <1>0, <3>1, <3>2, InputSame DEF InputOf
  <2>10. CASE Broadcast!Type(p)
    <3>1. /\ UNCHANGED <<bpc, g_stop, ready, buf, closed>> /\ ~closed[q]
          /\ typed'[q] = typed[q] + 1 /\ tty'[q] = Append(tty[q], typed[q] + 1)
      BY <2>0, <2>10 DEF Broadcast!Type
    <3>2. typed[q] \in Nat /\ tty[q] \in Seq(Nat) /\ buf[q] \in Seq(Nat) /\ buf'[q] = buf[q]
      BY <2>0, <3>1
    <3>3. /\ Left(q)' = Left(q) + 1 /\ Left(q) \in Nat /\ tty'[q] # <<>>
          /\ Broadcast!Unsaid(q)'[Left(q) + 1] = typed[q] + 1
          /\ \A i \in 1 .. Left(q) : Broadcast!Unsaid(q)'[i] = Broadcast!Unsaid(q)[i]
      <4>1. Broadcast!Unsaid(q)' = Append(Broadcast!Unsaid(q), typed[q] + 1)
        <5>1. typed[q] + 1 \in Nat
          BY <3>2
        <5>2. buf[q] \o Append(tty[q], typed[q] + 1) = Append(buf[q] \o tty[q], typed[q] + 1)
          <6> DEFINE b == buf[q]
                     t == tty[q]
                     e == typed[q] + 1
          <6>1. b \in Seq(Nat) /\ t \in Seq(Nat) /\ e \in Nat
            BY <3>2, <5>1
          <6> HIDE DEF b, t, e
          <6>2. b \o Append(t, e) = Append(b \o t, e)
            BY <6>1, AppendBehind
          <6> QED
            BY <6>2 DEF b, t, e
        <5> QED
          BY <3>1, <5>2 DEF Broadcast!Unsaid
      <4>2. Broadcast!Unsaid(q) \in Seq(Nat) /\ typed[q] + 1 \in Nat
        BY <3>2, ConcatProperties DEF Broadcast!Unsaid
      <4>3. tty'[q] # <<>>
        <5>1. Len(tty'[q]) = Len(tty[q]) + 1 /\ Len(tty[q]) \in Nat
          BY <3>1, <3>2, <4>2, AppendProperties
        <5> QED
          BY <5>1
      <4> QED
        BY <4>1, <4>2, <4>3, AppendProperties DEF Left
    <3>4. Left(q) <= typed[q] /\ \A i \in 1 .. Left(q) : Broadcast!Unsaid(q)[i] = typed[q] - Left(q) + i
      BY <1>0 DEF InputOf
    <3>5. ASSUME NEW i \in 1 .. Left(q)' PROVE Broadcast!Unsaid(q)'[i] = typed'[q] - Left(q)' + i
      <4>1. CASE i = Left(q) + 1
        BY <3>1, <3>2, <3>3, <4>1
      <4>2. CASE i # Left(q) + 1
        <5>1. i \in 1 .. Left(q)
          BY <3>3, <4>2
        <5>2. Broadcast!Unsaid(q)'[i] = typed[q] - Left(q) + i
          BY <3>3, <3>4, <5>1
        <5>3. typed'[q] - Left(q)' = typed[q] - Left(q)
          BY <3>1, <3>2, <3>3
        <5> QED
          BY <5>2, <5>3
      <4> QED
        BY <4>1, <4>2
    <3>6. Left(q)' <= typed'[q] /\ (bpc[q] \in {"off", "join"} => Left(q)' = typed'[q])
      BY <1>0, <3>1, <3>2, <3>3, <3>4 DEF InputOf
    <3> QED
      BY <1>0, <3>1, <3>3, <3>5, <3>6 DEF InputOf
  <2>11. CASE Broadcast!Close(p)
    <3>1. UNCHANGED <<bpc, g_stop, ready, buf, tty, typed>> /\ closed'[q]
      BY <2>0, <2>11 DEF Broadcast!Close
    <3> QED
      BY <1>0, <3>1, InputSame DEF InputOf
  <2> QED
    BY <2>1, <2>2, <2>3, <2>4, <2>5, <2>6, <2>7, <2>8, <2>9, <2>10, <2>11 DEF Broadcast!Run
<1> QED
  BY <1>1, <1>2

LEMMA SocketQuiet ==
  ASSUME NEW q \in Peers, SocketOf(q), air' = air, lost' = lost,
         socket'[q] = socket[q], heard'[q] = heard[q], since'[q] = since[q],
         bpc'[q] = "off" => bpc[q] = "off",
         bpc'[q] \in {"off", "done"} <=> bpc[q] \in {"off", "done"},
         "socket" \in ready'[q] => socket[q] # <<>>
  PROVE  SocketOf(q)'
<1>1. OthersOf(q)' = OthersOf(q) /\ Ahead(air, socket[q])' = Ahead(air, socket[q])
  BY DEF OthersOf, Ahead
<1>2. IsEnd(socket[q], air)' <=> IsEnd(socket[q], air)
  BY DEF IsEnd, Ahead
<1>3. IsSelection(heard[q], air, OthersOf(q))' <=> IsSelection(heard[q], air, OthersOf(q))
  BY <1>1 DEF IsSelection
<1> QED
  BY <1>1, <1>2, <1>3 DEF SocketOf

LEMMA SocketSent ==
  ASSUME BroadcastTypes, NEW p \in Peers, NEW text \in Texts, Broadcast!send_message(p, text),
         NEW q \in Peers, SocketOf(q), heard'[q] = heard[q],
         bpc[q] \in {"off", "done"} => bpc'[q] = bpc[q],
         bpc'[q] = "off" => bpc[q] = "off",
         "socket" \in ready'[q] => "socket" \in ready[q] /\ bpc'[q] \notin {"off", "done"}
  PROVE  SocketOf(q)'
<1> DEFINE m == [from |-> p, text |-> text]
<1>1. /\ m \in Message /\ air' = Append(air, m) /\ since' = since /\ lost \subseteq lost'
      /\ (bpc'[q] \in {"off", "done"} => socket'[q] = <<>>)
      /\ (bpc[q] \notin {"off", "done"} /\ bpc'[q] \notin {"off", "done"} /\ q \notin lost' =>
            socket'[q] = Append(socket[q], m))
      /\ (bpc'[q] \notin {"off", "done"} /\ socket[q] # <<>> => socket'[q] # <<>>)
  BY MessageSent
<1> HIDE DEF m
<1>2. ASSUME bpc'[q] \notin {"off", "done"}, q \notin lost'
      PROVE  /\ IsEnd(socket'[q], air') /\ since'[q] <= Ahead(air', socket'[q])
             /\ IsSelection(heard'[q], air', OthersOf(q)')
  <2>1. /\ socket[q] \in Seq(Message) /\ air \in Seq(Message) /\ since[q] \in Nat
        /\ socket'[q] = Append(socket[q], m)
        /\ IsEnd(socket[q], air) /\ since[q] <= Ahead(air, socket[q])
        /\ IsSelection(heard[q], air, OthersOf(q))
    BY <1>1, <1>2 DEF BroadcastTypes, SocketOf
  <2>2. IsEnd(socket'[q], air') /\ Ahead(air', socket'[q]) = Ahead(air, socket[q])
    BY <1>1, <2>1, EndGrows
  <2>3. Ahead(air, socket[q]) \in Nat /\ Ahead(air, socket[q]) <= Len(air) /\ Len(air) \in Nat
    BY <2>1 DEF IsEnd, Ahead
  <2>4. \A j \in since[q] + 1 .. Ahead(air, socket[q]) : air'[j] = air[j]
    BY <1>1, <2>1, <2>3
  <2>6. OthersOf(q)' = {j \in since[q] + 1 .. Ahead(air, socket[q]) : <<q, air'[j].from>> \notin Begins}
    BY <1>1, <2>2 DEF OthersOf
  <2>7. OthersOf(q)' = OthersOf(q)
    BY <2>4, <2>6 DEF OthersOf
  <2>8. \A j \in OthersOf(q) : air'[j] = air[j]
    BY <2>4 DEF OthersOf
  <2>9. IsSelection(heard[q], air', OthersOf(q))
    BY <2>1, <2>8, SelectionOfLonger
  <2> QED
    BY <1>1, <2>1, <2>2, <2>7, <2>9
<1>3. /\ "socket" \in ready'[q] => socket'[q] # <<>>
      /\ bpc'[q] \in {"off", "done"} => socket'[q] = <<>>
      /\ bpc'[q] = "off" => heard'[q] = <<>>
  BY <1>1 DEF SocketOf
<1> QED
  BY <1>2, <1>3 DEF SocketOf

LEMMA SocketSteps ==
  ASSUME BroadcastInv, NEW p \in Peers,
         \/ Broadcast!Run(p) \/ Broadcast!handle_stop_signal(p)
         \/ Broadcast!Type(p) \/ Broadcast!Close(p),
         NEW q \in Peers
  PROVE  SocketOf(q)'
<1>0. BroadcastTypes /\ SocketOf(q) /\ InputOf(q)
  BY DEF BroadcastInv
<1> USE DEF Broadcast!Goto, Broadcast!input, Broadcast!history
<1>t. /\ bpc \in [Peers -> {"off", "join", "enter", "blocked", "round", "leave", "done"}]
      /\ ready \in [Peers -> SUBSET {"socket", "stdin"}]
      /\ socket \in [Peers -> Seq(Message)] /\ heard \in [Peers -> Seq(Message)]
      /\ since \in [Peers -> Nat] /\ air \in Seq(Message)
  BY <1>0 DEF BroadcastTypes
<1>o. q # p => /\ bpc'[q] = bpc[q] /\ ready'[q] = ready[q]
               /\ heard'[q] = heard[q] /\ since'[q] = since[q]
  BY <1>0, OthersStill
<1>1. CASE Broadcast!create_socket(p)
  <2>1. /\ UNCHANGED <<ready, socket, heard, air, lost>>
        /\ (q = p => bpc[q] = "off" /\ bpc'[q] = "join" /\ since'[q] = Len(air))
    BY <1>1, <1>t DEF Broadcast!create_socket
  <2>2. CASE q # p
    BY <1>0, <1>o, <2>1, <2>2, SocketQuiet DEF SocketOf
  <2>3. CASE q = p
    <3>1. socket'[q] = <<>> /\ heard'[q] = <<>> /\ air' = air /\ Len(air) \in Nat
      BY <1>0, <1>t, <2>1, <2>3 DEF SocketOf
    <3>2. Ahead(air', socket'[q]) = Len(air) /\ IsEnd(socket'[q], air') /\ OthersOf(q)' = {}
      BY <2>1, <2>3, <3>1 DEF Ahead, IsEnd, OthersOf
    <3>3. "socket" \notin ready'[q]
      BY <1>0, <2>1, <2>3 DEF InputOf
    <3> QED
      BY <2>1, <2>3, <3>1, <3>2, <3>3, SelectionOfNothing DEF SocketOf
  <2> QED
    BY <2>2, <2>3
<1>2. CASE Broadcast!Join(p)
  <2>1. "joined" \in Texts /\ Broadcast!send_message(p, "joined") /\ UNCHANGED <<ready, heard>>
        /\ (q = p => bpc[q] = "join" /\ bpc'[q] \in {"enter", "leave"})
    BY <1>2, <1>t DEF Broadcast!Join, Broadcast!Tested, Texts
  <2>2. "socket" \in ready[q] => bpc[q] = "round"
    BY <1>0 DEF InputOf
  <2> QED
    BY <1>0, <1>o, <2>1, <2>2, SocketSent
<1>3. CASE Broadcast!Enter(p)
  <2>1. UNCHANGED <<ready, socket, heard, air, lost, since>>
        /\ (q = p => bpc[q] = "enter" /\ bpc'[q] = "blocked")
    BY <1>3, <1>t DEF Broadcast!Enter
  <2> QED
    BY <1>0, <1>o, <2>1, SocketQuiet DEF SocketOf
<1>4. CASE Broadcast!Wake(p)
  <2>1. UNCHANGED <<socket, heard, air, lost, since>>
        /\ (q = p => bpc[q] = "blocked" /\ bpc'[q] = "round" /\ ready'[q] = Broadcast!Ready(q))
    BY <1>4, <1>t DEF Broadcast!Wake
  <2>2. "socket" \in Broadcast!Ready(q) => socket[q] # <<>>
    BY DEF Broadcast!Ready
  <2>3. "socket" \in ready'[q] => socket[q] # <<>>
    BY <1>0, <1>o, <2>1, <2>2 DEF SocketOf
  <2> QED
    BY <1>0, <1>o, <2>1, <2>3, SocketQuiet
<1>5. CASE Broadcast!Hear(p)
  <2>1. /\ UNCHANGED <<air, lost, since>> /\ ready' = [ready EXCEPT ![p] = @ \ {"socket"}]
        /\ socket' = [socket EXCEPT ![p] = Tail(@)] /\ "socket" \in ready[p]
        /\ heard' = [heard EXCEPT ![p] = IF Broadcast!Shown(p, Head(socket[p])) THEN Append(@, Head(socket[p])) ELSE @]
        /\ bpc[p] = "round" /\ bpc'[p] \in {"enter", "leave", "round"}
    BY <1>5, <1>t DEF Broadcast!Hear, Broadcast!Handled, Broadcast!Tested
  <2>2. CASE q # p
    <3>1. socket'[q] = socket[q]
      BY <1>t, <2>1, <2>2
    <3> QED
      BY <1>0, <1>o, <2>1, <2>2, <3>1, SocketQuiet DEF SocketOf
  <2>3. CASE q = p
    <3> DEFINE e == Head(socket[q])
               m == Ahead(air, socket[q]) + 1
    <3>1. /\ socket[q] \in Seq(Message) /\ socket[q] # <<>> /\ socket'[q] = Tail(socket[q])
          /\ heard[q] \in Seq(Message) /\ e \in Message
          /\ heard'[q] = IF Broadcast!Shown(q, e) THEN Append(heard[q], e) ELSE heard[q]
      BY <1>0, <1>t, <2>1, <2>3 DEF SocketOf
    <3> HIDE DEF e
    <3>2. ASSUME q \notin lost
          PROVE  /\ IsEnd(socket'[q], air') /\ since'[q] <= Ahead(air', socket'[q])
                 /\ IsSelection(heard'[q], air', OthersOf(q)')
      <4>1. /\ IsEnd(socket[q], air) /\ since[q] <= Ahead(air, socket[q]) /\ since[q] \in Nat
            /\ IsSelection(heard[q], air, OthersOf(q))
        BY <1>0, <1>t, <2>1, <2>3, <3>2 DEF SocketOf
      <4>2. m \in Nat /\ m - 1 = Ahead(air, socket[q]) /\ since[q] <= m - 1
        BY <1>t, <3>1, <4>1 DEF Ahead, IsEnd
      <4>3. IsEnd(socket'[q], air) /\ Ahead(air, socket'[q]) = m /\ m \in DOMAIN air /\ air[m] = e
        BY <1>t, <3>1, <4>1, EndTaken DEF e
      <4> HIDE DEF m
      <4>4. since[q] + 1 .. m = (since[q] + 1 .. m - 1) \cup {m}
        BY <4>1, <4>2
      <4>5. OthersOf(q)' = {j \in since[q] + 1 .. m : <<q, air[j].from>> \notin Begins}
        BY <2>1, <4>3 DEF OthersOf
      <4>6. OthersOf(q) = {j \in since[q] + 1 .. m - 1 : <<q, air[j].from>> \notin Begins}
        BY <4>2 DEF OthersOf
      <4>7. CASE Broadcast!Shown(q, e)
        <5>1. OthersOf(q)' = OthersOf(q) \cup {m}
          BY <4>3, <4>4, <4>5, <4>6, <4>7 DEF Broadcast!Shown
        <5>2. m \notin OthersOf(q) /\ \A i \in OthersOf(q) : i < m
          BY <4>1, <4>2, <4>6
        <5>3. OthersOf(q) \in SUBSET (1 .. m)
          BY <4>1, <4>2, <4>6
        <5>4. IsSelection(Append(heard[q], e), air, OthersOf(q) \cup {m})
          BY <3>1, <4>1, <4>2, <4>3, <5>2, <5>3, SelectionGrows
        <5> QED
          BY <2>1, <3>1, <4>1, <4>2, <4>3, <4>7, <5>1, <5>4
      <4>8. CASE ~Broadcast!Shown(q, e)
        <5>1. OthersOf(q)' = OthersOf(q)
          BY <4>3, <4>4, <4>5, <4>6, <4>8 DEF Broadcast!Shown
        <5> QED
          BY <2>1, <3>1, <4>1, <4>2, <4>3, <4>8, <5>1
      <4> QED
        BY <4>7, <4>8
    <3>3. /\ "socket" \notin ready'[q] /\ bpc'[q] \notin {"off", "done"} /\ lost' = lost
      BY <1>t, <2>1, <2>3
    <3> QED
      BY <3>2, <3>3 DEF SocketOf
  <2> QED
    BY <2>2, <2>3
<1>6. CASE Broadcast!Say(p)
  <2>1. /\ Head(Broadcast!Unsaid(p)) \in Texts /\ Broadcast!send_message(p, Head(Broadcast!Unsaid(p)))
    <3>1. /\ Broadcast!Unsaid(p) \in Seq(Nat) /\ Broadcast!Unsaid(p) # <<>>
          /\ Broadcast!send_message(p, Head(Broadcast!Unsaid(p)))
      BY <1>0, <1>6, LineSaid
    <3> QED
      BY <3>1 DEF Texts
  <2>2. /\ (q = p => bpc[q] = "round" /\ bpc'[q] \in {"enter", "leave", "round"} /\ ready'[q] \subseteq ready[q])
        /\ UNCHANGED heard
    BY <1>6, <1>t DEF Broadcast!Say, Broadcast!Handled, Broadcast!Tested
  <2>3. "socket" \in ready[q] => bpc[q] = "round"
    BY <1>0 DEF InputOf
  <2> QED
    BY <1>0, <1>o, <2>1, <2>2, <2>3, SocketSent
<1>7. CASE Broadcast!InputEnds(p)
  <2>1. UNCHANGED <<socket, heard, air, lost, since>>
        /\ (q = p => bpc[q] = "round" /\ bpc'[q] = "leave" /\ ready'[q] = {})
    BY <1>7, <1>t DEF Broadcast!InputEnds
  <2> QED
    BY <1>0, <1>o, <2>1, SocketQuiet DEF SocketOf
<1>8. CASE Broadcast!Leave(p)
  <2>1. "left" \in Texts /\ Broadcast!send_message(p, "left") /\ UNCHANGED <<ready, heard>>
        /\ (q = p => bpc[q] = "leave" /\ bpc'[q] = "done")
    BY <1>8, <1>t DEF Broadcast!Leave, Texts
  <2>2. "socket" \in ready[q] => bpc[q] = "round"
    BY <1>0 DEF InputOf
  <2> QED
    BY <1>0, <1>o, <2>1, <2>2, SocketSent
<1>9. CASE Broadcast!handle_stop_signal(p)
  <2>1. UNCHANGED <<ready, socket, heard, air, lost, since>>
    BY <1>9 DEF Broadcast!handle_stop_signal
  <2>2. q = p => bpc'[q] = bpc[q] \/ (bpc[q] = "blocked" /\ bpc'[q] = "leave")
    <3>1. (bpc' = [bpc EXCEPT ![p] = "leave"] /\ bpc[p] = "blocked") \/ bpc' = bpc
      BY <1>9 DEF Broadcast!handle_stop_signal
    <3> QED
      BY <1>t, <3>1
  <2> QED
    BY <1>0, <1>o, <2>1, <2>2, SocketQuiet DEF SocketOf
<1>10. CASE Broadcast!Type(p) \/ Broadcast!Close(p)
  <2>1. UNCHANGED <<bpc, ready, socket, heard, air, lost, since>>
    BY <1>10 DEF Broadcast!Type, Broadcast!Close
  <2> QED
    BY <1>0, <2>1, SocketQuiet DEF SocketOf
<1> QED
  BY <1>1, <1>2, <1>3, <1>4, <1>5, <1>6, <1>7, <1>8, <1>9, <1>10 DEF Broadcast!Run

(* Of a sending the speech of the one that sends is told one word longer.   *)
LEMMA SpeechSent ==
  ASSUME BroadcastTypes, NEW p \in Peers, NEW text \in Texts, Broadcast!send_message(p, text),
         NEW q \in Peers, SpeechOf(q), ScriptOf(q) \in Seq(Texts),
         ScriptOf(q)' = IF q = p THEN Append(ScriptOf(q), text) ELSE ScriptOf(q)
  PROVE  SpeechOf(q)'
<1> DEFINE m == [from |-> p, text |-> text]
           x == Len(air) + 1
<1>1. air' = Append(air, m) /\ air \in Seq(Message) /\ m \in Message /\ m.from = p /\ m.text = text
  BY MessageSent DEF BroadcastTypes
<1> HIDE DEF m
<1>2. /\ Len(air) \in Nat /\ DOMAIN air = 1 .. Len(air) /\ DOMAIN air' = (1 .. Len(air)) \cup {x}
      /\ air'[x] = m /\ \A j \in 1 .. Len(air) : air'[j] = air[j]
  <2>1. Len(air') = Len(air) + 1 /\ Len(air) \in Nat /\ air' \in Seq(Message)
        /\ air'[x] = m /\ \A j \in 1 .. Len(air) : air'[j] = air[j]
    BY <1>1, AppendProperties
  <2>2. DOMAIN air' = 1 .. Len(air) + 1 /\ DOMAIN air = 1 .. Len(air)
    BY <1>1, <2>1
  <2> QED
    BY <2>1, <2>2
<1>3. OwnOf(q) \in SUBSET (1 .. Len(air)) /\ \A i \in OwnOf(q) : i < x
  BY <1>2 DEF OwnOf
<1>4. TextsSent'[x] = text /\ \A j \in OwnOf(q) : TextsSent'[j] = TextsSent[j]
  BY <1>1, <1>2, <1>3 DEF TextsSent
<1>5. IsSelection(ScriptOf(q), TextsSent', OwnOf(q))
  BY <1>4, SelectionOfLonger DEF SpeechOf
<1>6. CASE q = p
  <2>1. OwnOf(q)' = OwnOf(q) \cup {x}
    BY <1>1, <1>2, <1>6 DEF OwnOf
  <2>2. x \in Nat /\ x \notin OwnOf(q)
    BY <1>2, <1>3
  <2> HIDE DEF x
  <2>3. IsSelection(Append(ScriptOf(q), text), TextsSent', OwnOf(q) \cup {x})
    BY <1>2, <1>3, <1>4, <1>5, <2>2, SelectionGrows
  <2> QED
    BY <1>6, <2>1, <2>3 DEF SpeechOf
<1>7. CASE q # p
  <2>1. OwnOf(q)' = OwnOf(q)
    BY <1>1, <1>2, <1>7 DEF OwnOf
  <2> QED
    BY <1>5, <1>7, <2>1 DEF SpeechOf
<1> QED
  BY <1>6, <1>7

LEMMA SpeechQuiet ==
  ASSUME NEW q \in Peers, SpeechOf(q), air' = air, ScriptOf(q)' = ScriptOf(q)
  PROVE  SpeechOf(q)'
BY DEF SpeechOf, TextsSent, OwnOf, IsSelection

LEMMA ScriptKept ==
  ASSUME NEW q \in Peers, buf'[q] = buf[q], tty'[q] = tty[q], typed'[q] = typed[q],
         bpc'[q] \in {"off", "join"} <=> bpc[q] \in {"off", "join"}, bpc'[q] = "done" <=> bpc[q] = "done"
  PROVE  ScriptOf(q)' = ScriptOf(q)
BY DEF ScriptOf, Left, Broadcast!Unsaid

LEMMA SpeechSteps ==
  ASSUME BroadcastInv, NEW p \in Peers,
         \/ Broadcast!Run(p) \/ Broadcast!handle_stop_signal(p)
         \/ Broadcast!Type(p) \/ Broadcast!Close(p),
         NEW q \in Peers
  PROVE  SpeechOf(q)'
<1>0. BroadcastTypes /\ SpeechOf(q) /\ InputOf(q)
  BY DEF BroadcastInv
<1> USE DEF Broadcast!Goto, Broadcast!input, Broadcast!history
<1>t. /\ bpc \in [Peers -> {"off", "join", "enter", "blocked", "round", "leave", "done"}]
      /\ Left(q) \in Nat /\ typed[q] \in Nat /\ typed[q] - Left(q) \in Nat
  <2>1. Broadcast!Unsaid(q) \in Seq(Nat) /\ typed[q] \in Nat
    BY <1>0 DEF BroadcastTypes, Broadcast!Unsaid
  <2>2. Left(q) \in Nat /\ Left(q) <= typed[q]
    BY <1>0, <2>1 DEF Left, InputOf
  <2> QED
    BY <1>0, <2>1, <2>2 DEF BroadcastTypes
<1>o. q # p => ScriptOf(q)' = ScriptOf(q)
  BY <1>0, OthersStill, ScriptKept
<1>s. ScriptOf(q) \in Seq(Texts)
  <2>1. Words(typed[q] - Left(q)) \in Seq(Texts)
    BY <1>t, WordsGrow
  <2>2. Append(Words(typed[q] - Left(q)), "left") \in Seq(Texts)
    BY <2>1, AppendProperties DEF Texts
  <2> QED
    BY <2>1, <2>2 DEF ScriptOf
<1>1. CASE Broadcast!create_socket(p)
  <2>1. UNCHANGED <<air, buf, tty, typed>> /\ (q = p => bpc[q] = "off" /\ bpc'[q] = "join")
    BY <1>1, <1>t DEF Broadcast!create_socket
  <2> QED
    BY <1>0, <1>o, <2>1, ScriptKept, SpeechQuiet
<1>2. CASE Broadcast!Join(p)
  <2>1. /\ "joined" \in Texts /\ Broadcast!send_message(p, "joined") /\ UNCHANGED <<buf, tty, typed>>
        /\ (q = p => bpc[q] = "join" /\ bpc'[q] \in {"enter", "leave"})
    BY <1>2, <1>t DEF Broadcast!Join, Broadcast!Tested, Texts
  <2>2. q = p => ScriptOf(q)' = Append(ScriptOf(q), "joined")
    <3>1. q = p => ScriptOf(q) = <<>> /\ typed[q] - Left(q) = 0
      BY <1>0, <1>t, <2>1 DEF ScriptOf, InputOf
    <3>2. q = p => ScriptOf(q)' = Words(typed[q] - Left(q))
      BY <2>1 DEF ScriptOf, Left, Broadcast!Unsaid
    <3>3. Words(0) = Append(<<>>, "joined")
      BY WordsGrow
    <3> QED
      BY <3>1, <3>2, <3>3
  <2> QED
    BY <1>0, <1>o, <1>s, <2>1, <2>2, SpeechSent
<1>3. CASE Broadcast!Enter(p) \/ Broadcast!Wake(p)
  <2>1. UNCHANGED <<air, buf, tty, typed>> /\ (q = p => bpc[q] \in {"enter", "blocked"} /\ bpc'[q] \in {"blocked", "round"})
    BY <1>3, <1>t DEF Broadcast!Enter, Broadcast!Wake
  <2> QED
    BY <1>0, <1>o, <2>1, ScriptKept, SpeechQuiet
<1>5. CASE Broadcast!Hear(p)
  <2>1. UNCHANGED <<air, buf, tty, typed>> /\ (q = p => bpc[q] = "round" /\ bpc'[q] \in {"enter", "leave", "round"})
    BY <1>5, <1>t DEF Broadcast!Hear, Broadcast!Handled, Broadcast!Tested
  <2> QED
    BY <1>0, <1>o, <2>1, ScriptKept, SpeechQuiet
<1>6. CASE Broadcast!Say(p)
  <2> DEFINE w == Head(Broadcast!Unsaid(p))
  <2>1. /\ Broadcast!Unsaid(p) \in Seq(Nat) /\ Broadcast!Unsaid(p) # <<>>
        /\ Broadcast!send_message(p, w) /\ Broadcast!Unsaid(p)' = Tail(Broadcast!Unsaid(p))
    BY <1>0, <1>6, LineSaid
  <2>2. w \in Texts
    BY <2>1 DEF Texts
  <2>3. (q = p => bpc[q] = "round" /\ bpc'[q] \in {"enter", "leave", "round"}) /\ typed' = typed
    BY <1>6, <1>t DEF Broadcast!Say, Broadcast!Handled, Broadcast!Tested
  <2>4. q = p => ScriptOf(q)' = Append(ScriptOf(q), w)
    <3> SUFFICES ASSUME q = p PROVE ScriptOf(q)' = Append(ScriptOf(q), w)
      OBVIOUS
    <3> DEFINE n == typed[q] - Left(q)
    <3>1. Left(q)' = Left(q) - 1 /\ w = Broadcast!Unsaid(q)[1] /\ 1 \in 1 .. Left(q)
      BY <2>1 DEF Left
    <3>2. w = n + 1
      BY <1>0, <1>t, <3>1 DEF InputOf
    <3>3. n \in Nat /\ typed'[q] - Left(q)' = n + 1
      BY <1>t, <2>3, <3>1
    <3> HIDE DEF n, w
    <3>4. ScriptOf(q)' = Words(n + 1)
      BY <2>3, <3>3 DEF ScriptOf
    <3>5. ScriptOf(q) = Words(n)
      BY <2>3 DEF ScriptOf, n
    <3> QED
      BY <3>2, <3>3, <3>4, <3>5, WordsGrow
  <2> HIDE DEF w
  <2> QED
    BY <1>0, <1>o, <1>s, <2>1, <2>2, <2>4, SpeechSent
<1>7. CASE Broadcast!InputEnds(p)
  <2>1. UNCHANGED <<air, buf, tty, typed>> /\ (q = p => bpc[q] = "round" /\ bpc'[q] = "leave")
    BY <1>7, <1>t DEF Broadcast!InputEnds
  <2> QED
    BY <1>0, <1>o, <2>1, ScriptKept, SpeechQuiet
<1>8. CASE Broadcast!Leave(p)
  <2>1. /\ "left" \in Texts /\ Broadcast!send_message(p, "left") /\ UNCHANGED <<buf, tty, typed>>
        /\ (q = p => bpc[q] = "leave" /\ bpc'[q] = "done")
    BY <1>8, <1>t DEF Broadcast!Leave, Texts
  <2>2. q = p => ScriptOf(q)' = Append(ScriptOf(q), "left")
    BY <2>1 DEF ScriptOf, Left, Broadcast!Unsaid
  <2> QED
    BY <1>0, <1>o, <1>s, <2>1, <2>2, SpeechSent
<1>9. CASE Broadcast!handle_stop_signal(p)
  <2>1. UNCHANGED <<air, buf, tty, typed>>
    BY <1>9 DEF Broadcast!handle_stop_signal
  <2>2. q = p => bpc'[q] = bpc[q] \/ (bpc[q] = "blocked" /\ bpc'[q] = "leave")
    <3>1. (bpc' = [bpc EXCEPT ![p] = "leave"] /\ bpc[p] = "blocked") \/ bpc' = bpc
      BY <1>9 DEF Broadcast!handle_stop_signal
    <3> QED
      BY <1>t, <3>1
  <2> QED
    BY <1>0, <1>o, <2>1, <2>2, ScriptKept, SpeechQuiet
<1>10. CASE Broadcast!Type(p)
  <2>1. UNCHANGED <<bpc, air>>
    BY <1>10 DEF Broadcast!Type
  <2>2. q = p => ScriptOf(q)' = ScriptOf(q)
    <3> SUFFICES ASSUME q = p PROVE ScriptOf(q)' = ScriptOf(q)
      OBVIOUS
    <3>1. typed'[q] = typed[q] + 1 /\ Left(q)' = Left(q) + 1
      <4>1. /\ typed \in [Peers -> Nat] /\ tty \in [Peers -> Seq(Nat)] /\ buf \in [Peers -> Seq(Nat)]
            /\ typed' = [typed EXCEPT ![q] = @ + 1] /\ tty' = [tty EXCEPT ![q] = Append(@, typed[q] + 1)] /\ buf' = buf
        BY <1>0, <1>10 DEF BroadcastTypes, Broadcast!Type
      <4>2. tty[q] \in Seq(Nat) /\ buf[q] \in Seq(Nat) /\ typed[q] + 1 \in Nat
        BY <4>1
      <4>3. /\ Append(tty[q], typed[q] + 1) \in Seq(Nat)
            /\ Len(Append(tty[q], typed[q] + 1)) = Len(tty[q]) + 1
        BY <4>2, AppendProperties
      <4>4. /\ Len(buf[q] \o tty[q]) = Len(buf[q]) + Len(tty[q])
            /\ Len(buf[q] \o Append(tty[q], typed[q] + 1)) = Len(buf[q]) + Len(tty[q]) + 1
        <5> DEFINE b == buf[q]
                   t == tty[q]
                   a == Append(t, typed[q] + 1)
        <5>1. b \in Seq(Nat) /\ t \in Seq(Nat) /\ a \in Seq(Nat) /\ Len(a) = Len(t) + 1
          BY <4>2, <4>3
        <5> HIDE DEF b, t, a
        <5>2. Len(b \o t) = Len(b) + Len(t) /\ Len(b \o a) = Len(b) + Len(a) /\ Len(b) \in Nat /\ Len(t) \in Nat
          <6>1. Len(b \o t) = Len(b) + Len(t)
            BY <5>1, ConcatProperties
          <6>2. Len(b \o a) = Len(b) + Len(a)
            BY <5>1, ConcatProperties
          <6> QED
            BY <5>1, <6>1, <6>2
        <5>3. Len(b \o a) = Len(b) + Len(t) + 1
          BY <5>1, <5>2
        <5> QED
          BY <5>2, <5>3 DEF b, t, a
      <4> QED
        BY <4>1, <4>4 DEF Left, Broadcast!Unsaid
    <3>2. typed'[q] - Left(q)' = typed[q] - Left(q)
      BY <1>t, <3>1
    <3> QED
      BY <2>1, <3>2 DEF ScriptOf
  <2> QED
    BY <1>0, <1>o, <2>1, <2>2, SpeechQuiet
<1>11. CASE Broadcast!Close(p)
  <2>1. UNCHANGED <<bpc, air, buf, tty, typed>>
    BY <1>11 DEF Broadcast!Close
  <2> QED
    BY <1>0, <2>1, ScriptKept, SpeechQuiet
<1> QED
  BY <1>1, <1>2, <1>3, <1>5, <1>6, <1>7, <1>8, <1>9, <1>10, <1>11 DEF Broadcast!Run

LEMMA BroadcastSteps == BroadcastInv /\ Broadcast!Next => BroadcastInv'
<1> SUFFICES ASSUME BroadcastInv, Broadcast!Next PROVE BroadcastInv'
  OBVIOUS
<1>1. PICK p \in Peers : \/ Broadcast!Run(p) \/ Broadcast!handle_stop_signal(p)
                         \/ Broadcast!Type(p) \/ Broadcast!Close(p)
  BY DEF Broadcast!Next
<1>2. ASSUME NEW q \in Peers PROVE (InputOf(q) /\ SocketOf(q) /\ SpeechOf(q))'
  BY <1>1, InputSteps, SocketSteps, SpeechSteps
<1> QED
  BY <1>2, BroadcastTypesStep DEF BroadcastInv

LEMMA OrderKept == BroadcastInv => Broadcast!HeardInOrder
<1> SUFFICES ASSUME BroadcastInv, NEW p \in Peers
             PROVE  /\ p \in Broadcast!Live \ lost =>
                         /\ Broadcast!IsEnd(socket[p], air) /\ since[p] <= Broadcast!Heard(p)
                         /\ Broadcast!IsSelection(heard[p], air, Broadcast!Others(p))
                    /\ Broadcast!IsSelection(Broadcast!Script(p), [j \in DOMAIN air |-> air[j].text], Broadcast!Own(p))
                    /\ Broadcast!Said(p) \o Broadcast!Unsaid(p) = [i \in 1 .. typed[p] |-> i]
                    /\ bpc[p] = "leave" /\ ~g_stop[p] => Broadcast!Unsaid(p) = <<>>
  BY DEF Broadcast!HeardInOrder
<1>0. BroadcastTypes /\ InputOf(p) /\ SocketOf(p) /\ SpeechOf(p)
  BY DEF BroadcastInv
<1>s. \A s, t, J : Broadcast!IsSelection(s, t, J) <=> IsSelection(s, t, J)
  BY DEF IsSelection, Broadcast!IsSelection, Cardinality, Broadcast!Cardinality
<1>t. /\ Broadcast!Unsaid(p) \in Seq(Nat) /\ Left(p) = Len(Broadcast!Unsaid(p)) /\ Left(p) \in Nat
      /\ typed[p] \in Nat /\ typed[p] - Left(p) \in Nat
      /\ \A i \in 1 .. Left(p) : Broadcast!Unsaid(p)[i] = typed[p] - Left(p) + i
  <2>1. /\ Broadcast!Unsaid(p) \in Seq(Nat) /\ typed[p] \in Nat /\ Left(p) = Len(Broadcast!Unsaid(p))
        /\ Left(p) <= typed[p] /\ \A i \in 1 .. Left(p) : Broadcast!Unsaid(p)[i] = typed[p] - Left(p) + i
    BY <1>0 DEF BroadcastTypes, Broadcast!Unsaid, Left, InputOf
  <2>2. Left(p) \in Nat
    BY <2>1
  <2>3. typed[p] - Left(p) \in Nat
    BY <2>1, <2>2
  <2> QED
    BY <2>1, <2>2, <2>3
<1>1. ASSUME p \in Broadcast!Live \ lost
      PROVE  /\ Broadcast!IsEnd(socket[p], air) /\ since[p] <= Broadcast!Heard(p)
             /\ Broadcast!IsSelection(heard[p], air, Broadcast!Others(p))
  <2>1. /\ IsEnd(socket[p], air) /\ since[p] <= Ahead(air, socket[p])
        /\ IsSelection(heard[p], air, OthersOf(p))
    BY <1>0, <1>1 DEF SocketOf, Broadcast!Live
  <2>2. Broadcast!Others(p) = OthersOf(p) /\ Broadcast!Heard(p) = Ahead(air, socket[p])
    BY DEF Broadcast!Others, OthersOf, Broadcast!Heard, Broadcast!Ahead, Ahead
  <2>3. Broadcast!IsEnd(socket[p], air)
    BY <2>1 DEF IsEnd, Ahead, Broadcast!IsEnd, Broadcast!Ahead
  <2> QED
    BY <1>s, <2>1, <2>2, <2>3
<1>2. Broadcast!IsSelection(Broadcast!Script(p), [j \in DOMAIN air |-> air[j].text], Broadcast!Own(p))
  <2>1. Words(typed[p] - Left(p)) = <<"joined">> \o Broadcast!Said(p)
    BY DEF Words, Broadcast!Said, Left
  <2>2. Broadcast!Script(p) = ScriptOf(p)
    BY <1>t, <2>1, WordsGrow DEF Broadcast!Script, ScriptOf
  <2>3. Broadcast!Own(p) = OwnOf(p)
    BY DEF Broadcast!Own, OwnOf
  <2> QED
    BY <1>0, <1>s, <2>2, <2>3 DEF SpeechOf, TextsSent
<1>3. Broadcast!Said(p) \o Broadcast!Unsaid(p) = [i \in 1 .. typed[p] |-> i]
  <2> DEFINE n == typed[p] - Left(p)
             s == [i \in 1 .. n |-> i]
             u == Broadcast!Unsaid(p)
             a == [i \in 1 .. typed[p] |-> i]
  <2>0. Broadcast!Said(p) = s
    BY DEF Broadcast!Said, Left
  <2>1. /\ s \in Seq(Nat) /\ Len(s) = n /\ (\A i \in 1 .. n : s[i] = i) /\ n \in Nat
        /\ a \in Seq(Nat) /\ Len(a) = typed[p] /\ (\A i \in 1 .. typed[p] : a[i] = i)
    BY <1>t
  <2>2. /\ u \in Seq(Nat) /\ Len(u) = Left(p) /\ Left(p) \in Nat /\ n + Left(p) = typed[p]
        /\ (\A i \in 1 .. Left(p) : u[i] = n + i)
    BY <1>t
  <2> HIDE DEF n, s, u, a
  <2>3. /\ s \o u \in Seq(Nat) /\ Len(s \o u) = n + Left(p)
        /\ \A i \in 1 .. n + Left(p) : (s \o u)[i] = IF i <= n THEN s[i] ELSE u[i - n]
    <3>1. /\ s \o u \in Seq(Nat) /\ Len(s \o u) = Len(s) + Len(u)
          /\ \A i \in 1 .. Len(s) + Len(u) : (s \o u)[i] = IF i <= Len(s) THEN s[i] ELSE u[i - Len(s)]
      <4>1. s \in Seq(Nat) /\ u \in Seq(Nat)
        BY <2>1, <2>2
      <4> QED
        BY <4>1, ConcatProperties
    <3>2. Len(s) = n /\ Len(u) = Left(p)
      BY <2>1, <2>2
    <3> QED
      BY <3>1, <3>2
  <2>4. ASSUME NEW i \in 1 .. n + Left(p) PROVE (s \o u)[i] = a[i]
    <3>1. CASE i <= n
      BY <2>1, <2>2, <2>3, <3>1
    <3>2. CASE ~(i <= n)
      <4>1. i - n \in 1 .. Left(p) /\ n + (i - n) = i
        BY <2>1, <2>2, <3>2
      <4> QED
        BY <2>1, <2>2, <2>3, <3>2, <4>1
    <3> QED
      BY <3>1, <3>2
  <2>5. s \o u = a
    <3>1. Len(s \o u) = Len(a) /\ \A i \in 1 .. Len(s \o u) : (s \o u)[i] = a[i]
      BY <2>1, <2>2, <2>3, <2>4
    <3> QED
      BY <2>1, <2>3, <3>1, SeqEqual
  <2> QED
    BY <2>0, <2>5 DEF u, a
<1>4. ASSUME bpc[p] = "leave", ~g_stop[p] PROVE Broadcast!Unsaid(p) = <<>>
  <2>1. Len(Broadcast!Unsaid(p)) = 0
    BY <1>0, <1>4, <1>t DEF InputOf
  <2> QED
    BY <1>t, <2>1
<1> QED
  BY <1>1, <1>2, <1>3, <1>4

-----------------------------------------------------------------------------
(* The four programs side by side: a step of one leaves the others alone.  *)

(* CopiesAreFaithful beside the others, as it is checked.                   *)
COROLLARY AllCopiesAreFaithful == AllSpec => []CopiesFaithful
<1>1. AllInit => Init
  BY DEF AllInit
<1>2. [AllNext]_all => [Next]_vars
  BY DEF AllNext, all, In, Copying, Telling, Chatting, Sniffing
<1> QED
  BY <1>1, <1>2, CopiesAreFaithful, PTL DEF Spec, AllSpec

(* Of the scripts' FIFO: as many tasks wait as lines are on their way or    *)
(* were wasted, for any number of tasks and however lines are torn.         *)
THEOREM EveryLineAccounted == AllSpec => []LinesAccounted
<1>1. AllInit => CuckooInv
  BY CuckooStarts DEF AllInit
<1>2. CuckooInv /\ [AllNext]_all => CuckooInv'
  <2> SUFFICES ASSUME CuckooInv, [AllNext]_all PROVE CuckooInv'
    OBVIOUS
  <2>1. CASE Cuckoos!Next
    BY <2>1, CuckooSteps
  <2>2. CASE UNCHANGED cuckooVars
    BY <2>2 DEF cuckooVars, CuckooInv, CuckooTypes, LinesAccounted, Cuckoos!LinesAccounted,
                Cuckoos!Waiting, Cuckoos!OnTheWay
  <2> QED
    BY <2>1, <2>2 DEF AllNext, all, In, Copying, Telling, Chatting, Sniffing
<1>3. CuckooInv => LinesAccounted
  BY DEF CuckooInv
<1> QED
  BY <1>1, <1>2, <1>3, PTL DEF AllSpec

(* Of the broadcasts: whatever is lost at full sockets, whoever joins and   *)
(* leaves, and however stdio buffers the input, the peers that lose nothing *)
(* show one order of all that was said, and a peer says its lines as typed. *)
(* Of the sniffer: its file is what passes its filter, in order.           *)
THEOREM DatagramsAreKept == AllSpec => []DatagramsKept
<1>1. AllInit => BroadcastInv /\ SnifferInv
  BY BroadcastStarts, SnifferStarts DEF AllInit
<1>2. BroadcastInv /\ [AllNext]_all => BroadcastInv'
  <2> SUFFICES ASSUME BroadcastInv, [AllNext]_all PROVE BroadcastInv'
    OBVIOUS
  <2>1. CASE Broadcast!Next
    BY <2>1, BroadcastSteps
  <2>2. CASE UNCHANGED broadcastVars
    <3>1. UNCHANGED <<bpc, g_stop, ready, socket, tty, buf, typed, closed, heard, air, since, lost>>
      BY <2>2 DEF broadcastVars
    <3>2. BroadcastTypes'
      BY <3>1 DEF BroadcastInv, BroadcastTypes
    <3>3. ASSUME NEW p \in Peers PROVE (InputOf(p) /\ SocketOf(p) /\ SpeechOf(p))'
      <4>1. Left(p)' = Left(p) /\ Broadcast!Unsaid(p)' = Broadcast!Unsaid(p)
        BY <3>1 DEF Left, Broadcast!Unsaid
      <4>2. InputOf(p)'
        BY <3>1, <4>1 DEF BroadcastInv, InputOf
      <4>3. OthersOf(p)' = OthersOf(p)
        BY <3>1 DEF OthersOf, Ahead
      <4>4. SocketOf(p)'
        BY <3>1, <4>3 DEF BroadcastInv, SocketOf, IsEnd, Ahead, IsSelection
      <4>5. ScriptOf(p)' = ScriptOf(p) /\ TextsSent' = TextsSent /\ OwnOf(p)' = OwnOf(p)
        BY <3>1, <4>1 DEF ScriptOf, TextsSent, OwnOf
      <4>6. SpeechOf(p)'
        BY <4>5 DEF BroadcastInv, SpeechOf, IsSelection
      <4> QED
        BY <4>2, <4>4, <4>6
    <3> QED
      BY <3>2, <3>3 DEF BroadcastInv
  <2> QED
    BY <2>1, <2>2 DEF AllNext, all, In, Copying, Telling, Chatting, Sniffing
<1>3. SnifferInv /\ [AllNext]_all => SnifferInv'
  <2> SUFFICES ASSUME SnifferInv, [AllNext]_all PROVE SnifferInv'
    OBVIOUS
  <2>1. CASE Sniff!Next
    BY <2>1, SnifferSteps
  <2>2. CASE UNCHANGED snifferVars
    <3>1. UNCHANGED <<spc, filter_mode, queue, file, stop_flag, offered>>
      BY <2>2 DEF snifferVars
    <3>2. Taken' = Taken
      BY <3>1 DEF Taken, Ahead
    <3>3. Passing' = Passing
      BY <3>1, <3>2 DEF Passing, Sniff!Wanted
    <3>4. IsEnd(queue, offered)' /\ IsSelection(file, offered, Passing)'
      BY <3>1, <3>3 DEF SnifferInv, IsEnd, Ahead, IsSelection
    <3> QED
      BY <3>1, <3>2, <3>4 DEF SnifferInv
  <2> QED
    BY <2>1, <2>2 DEF AllNext, all, In, Copying, Telling, Chatting, Sniffing
<1>4. BroadcastInv /\ SnifferInv => DatagramsKept
  BY OrderKept, CaptureKept DEF DatagramsKept
<1> QED
  BY <1>1, <1>2, <1>3, <1>4, PTL DEF AllSpec
=============================================================================
