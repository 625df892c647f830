--------------------------- MODULE KernelModules_proofs ---------------------------
(***************************************************************************)
(* Proofs about the kernel modules. First IpBlock, for any number of users, *)
(* cpus, addresses and entries: no walk meets a freed entry, nothing leaks, *)
(* and the list under its mutex implements the multiset of Blacklist. Then  *)
(* the four modules of KernelModules, for any number of processes: readers  *)
(* see one text, and no module is unloaded under a call.                    *)
(***************************************************************************)
EXTENDS IpBlock, KernelModules, FiniteSetTheorems, SequenceTheorems, TLAPS

-----------------------------------------------------------------------------
(* The inductive invariant.                                                *)

(* Who holds the mutex is inside its loop, and the place of a thread tells *)
(* which calls it may be in and whether it has an entry in its hands.      *)
Places ==
  /\ \A t \in Threads : holder = t => pc[t] = "walk"
  /\ \A t \in Threads : pc[t] = "idle" <=> op[t] = "none"
  /\ \A t \in Threads : op[t] \in Searches => arg[t] \in Addrs
  /\ \A t \in Threads : pc[t] \in {"alloc", "insert"} => op[t] = "add"
  /\ \A t \in Threads : pc[t] \in {"idle", "lock", "alloc"} => cursor[t] = NoEntry
  /\ \A t \in Threads : pc[t] = "insert" => addrOf[cursor[t]] = arg[t]
  /\ \A u \in Users : op[u] # "packet"
  /\ \A c \in Cpus : op[c] \in {"none", "packet"}

(* Unloading waits for the writers before it frees the list.               *)
Unloading ==
  phase \in {"absent", "no_proc", "gone"} => \A u \in Users : Idle(u)

(* Every allocated entry has one owner: the list, or the add about to link *)
(* it.                                                                     *)
Inserting == {u \in Threads : pc[u] = "insert"}
Owned ==
  /\ \A e \in Allocated : e \in ToSet(blocked_list)
                          \/ \E u \in Inserting : cursor[u] = e
  /\ \A u \in Inserting : cursor[u] \in Allocated \ ToSet(blocked_list)
  /\ phase = "gone" => blocked_list = <<>>

(* What a walk knows of the entries behind it: a search has seen none with *)
(* its address, and a clear has freed them all.                            *)
PassedBy(t, i) == \A j \in 1..i : blocked_list[j] # cursor[t]
Searched ==
  \A t \in Threads : pc[t] = "walk" /\ op[t] \in Searches =>
    \A i \in DOMAIN blocked_list :
      PassedBy(t, i) => addrOf[blocked_list[i]] # arg[t]
Cleared ==
  \A t \in Threads : pc[t] = "walk" /\ op[t] = "clear" => cursor[t] = First

IInv == WalkersSafe /\ Places /\ Unloading /\ Owned /\ Searched /\ Cleared

-----------------------------------------------------------------------------
(* Facts about the list.                                                   *)

(* Taking one position out of a sequence closes the gap and disturbs       *)
(* nothing else: list_del as the code does it.                             *)
LEMMA RemoveAtKeeps ==
  ASSUME NEW S, NEW s \in Seq(S), NEW i \in 1..Len(s)
  PROVE  /\ RemoveAt(s, i) \in Seq(S)
         /\ Len(RemoveAt(s, i)) = Len(s) - 1
         /\ \A j \in 1..(Len(s) - 1) :
              RemoveAt(s, i)[j] = IF j < i THEN s[j] ELSE s[j + 1]
<1> DEFINE front == SubSeq(s, 1, i - 1)
           back == SubSeq(s, i + 1, Len(s))
<1>1. /\ front \in Seq(S) /\ Len(front) = i - 1
      /\ \A j \in 1..(i - 1) : front[j] = s[j]
  BY SubSeqProperties
<1>2. /\ back \in Seq(S) /\ Len(back) = Len(s) - i
      /\ \A j \in 1..(Len(s) - i) : back[j] = s[i + j]
  BY SubSeqProperties
<1> HIDE DEF front, back
<1>3. /\ front \o back \in Seq(S) /\ Len(front \o back) = Len(s) - 1
      /\ \A j \in 1..(Len(s) - 1) :
           (front \o back)[j] = IF j <= i - 1 THEN front[j] ELSE back[j - (i - 1)]
  BY <1>1, <1>2, ConcatProperties
<1>4. \A j \in 1..(Len(s) - 1) :
        (front \o back)[j] = IF j < i THEN s[j] ELSE s[j + 1]
  <2> SUFFICES ASSUME NEW j \in 1..(Len(s) - 1)
               PROVE  (front \o back)[j] = IF j < i THEN s[j] ELSE s[j + 1]
    OBVIOUS
  <2>1. CASE j < i
    BY <2>1, <1>1, <1>3
  <2>2. CASE ~(j < i)
    <3>1. j - (i - 1) \in 1..(Len(s) - i) /\ i + (j - (i - 1)) = j + 1
      BY <2>2
    <3>2. back[j - (i - 1)] = s[j + 1]
      BY <3>1, <1>2
    <3> QED BY <2>2, <3>2, <1>3
  <2> QED BY <2>1, <2>2
<1> QED BY <1>3, <1>4 DEF RemoveAt, front, back

(* After is the next entry, and none behind the last.                      *)
LEMMA AfterIsNext ==
  ASSUME blocked_list \in Seq(Entries), LinkedOnce,
         NEW i \in DOMAIN blocked_list
  PROVE  After(blocked_list[i]) = IF i = Len(blocked_list) THEN NoEntry
                                  ELSE blocked_list[i + 1]
<1> DEFINE later == {j \in DOMAIN blocked_list :
                      j > 1 /\ blocked_list[j - 1] = blocked_list[i]}
<1>1. DOMAIN blocked_list = 1..Len(blocked_list) /\ Len(blocked_list) \in Nat
  OBVIOUS
<1>2. later = IF i = Len(blocked_list) THEN {} ELSE {i + 1}
  <2>1. \A j \in later : j = i + 1
    BY <1>1 DEF LinkedOnce
  <2>2. i < Len(blocked_list) => i + 1 \in later
    BY <1>1
  <2> QED BY <1>1, <2>1, <2>2
<1>3. After(blocked_list[i]) =
        IF later = {} THEN NoEntry ELSE blocked_list[CHOOSE j \in later : TRUE]
  BY DEF After
<1> HIDE DEF later
<1> QED BY <1>2, <1>3

(* list_del of a linked entry takes that one entry out and keeps the order *)
(* of the others.                                                          *)
LEMMA ListDelTakesOne ==
  ASSUME blocked_list \in Seq(Entries), LinkedOnce, NEW e, ListDel(e)
  PROVE  /\ blocked_list' \in Seq(Entries)
         /\ LinkedOnce'
         /\ ToSet(blocked_list)' = ToSet(blocked_list) \ {e}
         /\ e \in ToSet(blocked_list)
<1>1. PICK i \in DOMAIN blocked_list :
        blocked_list[i] = e /\ blocked_list' = RemoveAt(blocked_list, i)
  BY DEF ListDel
<1> DEFINE n == Len(blocked_list)
<1>2. n \in Nat /\ i \in 1..n /\ DOMAIN blocked_list = 1..n
  OBVIOUS
<1>3. /\ blocked_list' \in Seq(Entries) /\ DOMAIN blocked_list' = 1..(n - 1)
      /\ \A j \in 1..(n - 1) :
           blocked_list'[j] = IF j < i THEN blocked_list[j] ELSE blocked_list[j + 1]
  <2>1. i \in 1..Len(blocked_list)
    BY <1>2
  <2>2. /\ RemoveAt(blocked_list, i) \in Seq(Entries) /\ Len(RemoveAt(blocked_list, i)) = n - 1
        /\ \A j \in 1..(n - 1) : RemoveAt(blocked_list, i)[j] =
             IF j < i THEN blocked_list[j] ELSE blocked_list[j + 1]
    BY <2>1, RemoveAtKeeps
  <2>3. DOMAIN RemoveAt(blocked_list, i) = 1..(n - 1)
    BY <2>2
  <2> QED
    BY <1>1, <2>2, <2>3, Zenon
<1> DEFINE from(j) == IF j < i THEN j ELSE j + 1
<1> HIDE DEF n
<1>0. \A j \in 1..(n - 1) :
        /\ from(j) \in 1..n /\ from(j) # i
        /\ blocked_list'[j] = blocked_list[from(j)]
        /\ \A k \in 1..(n - 1) : from(j) = from(k) => j = k
  BY <1>2, <1>3
<1> HIDE DEF from
<1>4. LinkedOnce'
  <2> SUFFICES ASSUME NEW j \in 1..(n - 1), NEW k \in 1..(n - 1),
                      blocked_list'[j] = blocked_list'[k]
               PROVE  j = k
    BY <1>3 DEF LinkedOnce
  <2>1. blocked_list[from(j)] = blocked_list[from(k)]
    BY <1>0
  <2> QED BY <1>0, <1>2, <2>1 DEF LinkedOnce
<1>5. ToSet(blocked_list)' = ToSet(blocked_list) \ {e}
  <2>1. ASSUME NEW x \in ToSet(blocked_list)' PROVE x \in ToSet(blocked_list) \ {e}
    <3>1. PICK j \in 1..(n - 1) : x = blocked_list'[j]
      BY <1>3 DEF ToSet
    <3>2. x = blocked_list[from(j)] /\ from(j) \in 1..n /\ from(j) # i
      BY <1>0, <3>1
    <3> QED BY <1>1, <1>2, <3>2 DEF ToSet, LinkedOnce
  <2>2. ASSUME NEW x \in ToSet(blocked_list), x # e PROVE x \in ToSet(blocked_list)'
    <3>1. PICK j \in 1..n : blocked_list[j] = x
      BY <1>2 DEF ToSet
    <3>2. CASE j < i
      BY <1>2, <1>3, <3>1, <3>2 DEF ToSet
    <3>3. CASE j > i
      <4>1. j - 1 \in 1..(n - 1) /\ ~(j - 1 < i) /\ (j - 1) + 1 = j
        BY <1>2, <3>3
      <4>2. blocked_list'[j - 1] = x
        BY <1>3, <3>1, <4>1
      <4> QED BY <1>3, <4>1, <4>2 DEF ToSet
    <3> QED BY <1>1, <1>2, <2>2, <3>1, <3>2, <3>3
  <2> QED BY <2>1, <2>2
<1> QED BY <1>1, <1>3, <1>4, <1>5 DEF ToSet

(* Without its first entry the list starts where a walk would go on.       *)
LEMMA ClearTakesHead ==
  ASSUME blocked_list \in Seq(Entries), LinkedOnce, blocked_list # <<>>,
         ListDel(First)
  PROVE  First' = After(First)
<1> DEFINE n == Len(blocked_list)
<1>1. n \in Nat \ {0} /\ DOMAIN blocked_list = 1..n /\ First = blocked_list[1]
  BY DEF First
<1>2. blocked_list' = RemoveAt(blocked_list, 1)
  BY <1>1 DEF ListDel, LinkedOnce
<1>3. /\ blocked_list' \in Seq(Entries) /\ Len(blocked_list') = n - 1
      /\ \A j \in 1..(n - 1) : blocked_list'[j] = blocked_list[j + 1]
  <2>1. 1 \in 1..n /\ \A j \in 1..(n - 1) : ~(j < 1)
    BY <1>1
  <2> QED BY <1>1, <1>2, <2>1, RemoveAtKeeps
<1>4. After(First) = IF 1 = n THEN NoEntry ELSE blocked_list[2]
  BY <1>1, AfterIsNext
<1> HIDE DEF n
<1>5. CASE n = 1
  BY <1>3, <1>4, <1>5 DEF First
<1>6. CASE n # 1
  <2>1. 1 \in 1..(n - 1) /\ blocked_list'[1] = blocked_list[2] /\ blocked_list' # <<>>
    BY <1>1, <1>3, <1>6
  <2> QED BY <1>4, <1>6, <2>1 DEF First
<1> QED BY <1>5, <1>6

(* list_add_tail of an entry that is not in the list.                      *)
LEMMA AppendAddsOne ==
  ASSUME blocked_list \in Seq(Entries), LinkedOnce, NEW e \in Entries,
         e \notin ToSet(blocked_list), blocked_list' = Append(blocked_list, e)
  PROVE  /\ blocked_list' \in Seq(Entries)
         /\ LinkedOnce'
         /\ ToSet(blocked_list)' = ToSet(blocked_list) \cup {e}
<1> DEFINE n == Len(blocked_list)
<1>1. n \in Nat /\ DOMAIN blocked_list = 1..n
  OBVIOUS
<1>2. /\ blocked_list' \in Seq(Entries) /\ DOMAIN blocked_list' = 1..(n + 1)
      /\ \A j \in 1..n : blocked_list'[j] = blocked_list[j]
      /\ blocked_list'[n + 1] = e
  BY AppendProperties
<1> HIDE DEF n
<1>3. LinkedOnce'
  BY <1>1, <1>2 DEF LinkedOnce, ToSet
<1>4. ToSet(blocked_list)' = ToSet(blocked_list) \cup {e}
  <2>1. n + 1 \in 1..(n + 1) /\ \A j \in 1..(n + 1) : j = n + 1 \/ j \in 1..n
    BY <1>1
  <2>2. \A j \in 1..n : j \in 1..(n + 1)
    BY <1>1
  <2> QED BY <1>1, <1>2, <2>1, <2>2 DEF ToSet
<1> QED BY <1>2, <1>3, <1>4

-----------------------------------------------------------------------------
(* The invariant, one lemma per action.                                    *)

(* A packet, a read or a command enters.                                   *)
LEMMA CallInv ==
  ASSUME IInv, NEW t \in Threads,
         NEW o \in Searches \cup {"clear", "show"}, NEW a \in Addrs \cup {NoAddr},
         Call(t, o, a), o \in Searches => a \in Addrs,
         t \in Cpus <=> o = "packet", t \in Users => ProcUsable
  PROVE  IInv'
<1> USE DEF Threads, Goto, vars, module, list, threads, Searches, Call, ProcUsable
<1>0. TypeOK /\ WalkersSafe /\ Places /\ Unloading /\ Owned /\ Searched /\ Cleared
  BY DEF IInv, WalkersSafe
<1>1. TypeOK'
  BY <1>0, Distinct DEF TypeOK, Allocated
<1>2. WalkersSafe'
  BY <1>0, Distinct, <1>1 DEF TypeOK, WalkersSafe, Walking, LinkedOnce, Allocated, ToSet
<1>3. Places'
  BY <1>0, Distinct DEF TypeOK, Places
<1>4. Unloading'
  BY <1>0, Distinct DEF TypeOK, Unloading, Places, Idle
<1>5. Owned'
  BY <1>0, Distinct DEF TypeOK, Owned, Inserting, Allocated, Places, ToSet
<1>6. Searched'
  BY <1>0, Distinct DEF TypeOK, Searched, PassedBy, Places
<1>7. Cleared'
  BY <1>0, Distinct DEF TypeOK, Cleared, First, Places
<1> QED BY <1>2, <1>3, <1>4, <1>5, <1>6, <1>7 DEF IInv

(* A call takes the mutex.                                                 *)
LEMMA LockInv ==
  ASSUME IInv, NEW t \in Threads, Lock(t)
  PROVE  IInv'
<1> USE DEF Threads, Goto, vars, module, list, threads, Searches, Lock, LockFree
<1>0. TypeOK /\ WalkersSafe /\ Places /\ Unloading /\ Owned /\ Searched /\ Cleared
  BY DEF IInv, WalkersSafe
<1>1. TypeOK'
  BY <1>0, Distinct DEF TypeOK, Allocated, First
<1>2. WalkersSafe'
  BY <1>0, Distinct, <1>1 DEF TypeOK, WalkersSafe, Walking, LinkedOnce, Allocated, ToSet, First
<1>3. Places'
  BY <1>0, Distinct DEF TypeOK, Places
<1>4. Unloading'
  BY <1>0, Distinct DEF TypeOK, Unloading, Places, Idle
<1>5. Owned'
  BY <1>0, Distinct DEF TypeOK, Owned, Inserting, Allocated, Places, ToSet
<1>6. Searched'
  BY <1>0, Distinct DEF TypeOK, Searched, PassedBy, Places, First
<1>7. Cleared'
  BY <1>0, Distinct DEF TypeOK, Cleared, First, Places
<1> QED BY <1>2, <1>3, <1>4, <1>5, <1>6, <1>7 DEF IInv

(* A walk goes on to the next entry.                                       *)
LEMMA PassByInv ==
  ASSUME IInv, NEW t \in Threads, PassBy(t)
  PROVE  IInv'
<1> USE DEF Threads, Goto, vars, module, list, threads, Searches, PassBy, Walking, Continue, Match
<1>0. TypeOK /\ WalkersSafe /\ Places /\ Unloading /\ Owned /\ Searched /\ Cleared
  BY DEF IInv, WalkersSafe
<1>8. /\ cursor[t] \in ToSet(blocked_list) /\ LinkedOnce
      /\ blocked_list \in Seq(Entries)
  BY <1>0 DEF WalkersSafe, TypeOK
<1>9. PICK i \in DOMAIN blocked_list : cursor[t] = blocked_list[i]
  BY <1>8 DEF ToSet
<1>10. After(cursor[t]) = IF i = Len(blocked_list) THEN NoEntry
                          ELSE blocked_list[i + 1]
  BY <1>8, <1>9, AfterIsNext
<1>1. TypeOK'
  BY <1>0, Distinct, <1>9, <1>10 DEF TypeOK, Allocated
<1>2. WalkersSafe'
  BY <1>0, Distinct, <1>1, <1>9, <1>10 DEF TypeOK, WalkersSafe, Walking, LinkedOnce, Allocated, ToSet
<1>3. Places'
  BY <1>0, Distinct, <1>9, <1>10 DEF TypeOK, Places
<1>4. Unloading'
  BY <1>0, Distinct, <1>9, <1>10 DEF TypeOK, Unloading, Places, Idle
<1>5. Owned'
  BY <1>0, Distinct, <1>9, <1>10 DEF TypeOK, Owned, Inserting, Allocated, Places, ToSet
<1>6. Searched'
  BY <1>0, Distinct, <1>9, <1>10, <1>8 DEF TypeOK, Searched, PassedBy, Places, LinkedOnce
<1>7. Cleared'
  BY <1>0, Distinct, <1>9, <1>10 DEF TypeOK, Cleared, First, Places
<1> QED BY <1>2, <1>3, <1>4, <1>5, <1>6, <1>7 DEF IInv

(* A search ends on a match.                                               *)
LEMMA FoundInv ==
  ASSUME IInv, NEW t \in Threads, Found(t)
  PROVE  IInv'
<1> USE DEF Threads, Goto, vars, module, list, threads, Searches, Found, Walking, Return, Unlock,
            Match
<1>0. TypeOK /\ WalkersSafe /\ Places /\ Unloading /\ Owned /\ Searched /\ Cleared
  BY DEF IInv, WalkersSafe
<1>1. TypeOK'
  BY <1>0, Distinct DEF TypeOK, Allocated
<1>2. WalkersSafe'
  BY <1>0, Distinct, <1>1 DEF TypeOK, WalkersSafe, Walking, LinkedOnce, Allocated, ToSet
<1>3. Places'
  BY <1>0, Distinct DEF TypeOK, Places
<1>4. Unloading'
  BY <1>0, Distinct DEF TypeOK, Unloading, Places, Idle
<1>5. Owned'
  BY <1>0, Distinct DEF TypeOK, Owned, Inserting, Allocated, Places, ToSet
<1>6. Searched'
  BY <1>0, Distinct DEF TypeOK, Searched, PassedBy, Places
<1>7. Cleared'
  BY <1>0, Distinct DEF TypeOK, Cleared, First, Places
<1> QED BY <1>2, <1>3, <1>4, <1>5, <1>6, <1>7 DEF IInv

(* A walk reaches the end of the list.                                     *)
LEMMA EndOfListInv ==
  ASSUME IInv, NEW t \in Threads, EndOfList(t)
  PROVE  IInv'
<1> USE DEF Threads, Goto, vars, module, list, threads, Searches, EndOfList, Return, Unlock
<1>0. TypeOK /\ WalkersSafe /\ Places /\ Unloading /\ Owned /\ Searched /\ Cleared
  BY DEF IInv, WalkersSafe
<1>1. TypeOK'
  BY <1>0, Distinct DEF TypeOK, Allocated
<1>2. WalkersSafe'
  BY <1>0, Distinct, <1>1 DEF TypeOK, WalkersSafe, Walking, LinkedOnce, Allocated, ToSet
<1>3. Places'
  BY <1>0, Distinct DEF TypeOK, Places
<1>4. Unloading'
  BY <1>0, Distinct DEF TypeOK, Unloading, Places, Idle
<1>5. Owned'
  BY <1>0, Distinct DEF TypeOK, Owned, Inserting, Allocated, Places, ToSet
<1>6. Searched'
  BY <1>0, Distinct DEF TypeOK, Searched, PassedBy, Places
<1>7. Cleared'
  BY <1>0, Distinct DEF TypeOK, Cleared, First, Places
<1> QED BY <1>2, <1>3, <1>4, <1>5, <1>6, <1>7 DEF IInv

(* An add allocates its entry, outside the mutex.                          *)
LEMMA AllocInv ==
  ASSUME IInv, NEW t \in Threads, NEW e \in Entries \ Allocated, pc[t] = "alloc",
         addrOf' = [x \in Allocated \cup {e} |->
                      IF x = e THEN arg[t] ELSE addrOf[x]],
         cursor' = [cursor EXCEPT ![t] = e], Goto(t, "insert"),
         UNCHANGED <<module, blocked_list, holder, op, arg, verdict>>
  PROVE  IInv'
<1> USE DEF Threads, Goto, vars, module, list, threads, Searches
<1>0. TypeOK /\ WalkersSafe /\ Places /\ Unloading /\ Owned /\ Searched /\ Cleared
  BY DEF IInv, WalkersSafe
<1>8. /\ Allocated' = Allocated \cup {e} /\ addrOf'[e] = arg[t]
      /\ \A x \in Allocated : addrOf'[x] = addrOf[x]
  BY DEF Allocated
<1>9. /\ ToSet(blocked_list)' = ToSet(blocked_list) /\ (LinkedOnce' <=> LinkedOnce)
      /\ \A u \in Threads : u # t => cursor'[u] = cursor[u] /\ pc'[u] = pc[u]
      /\ cursor'[t] = e /\ pc'[t] = "insert"
  BY <1>0 DEF ToSet, LinkedOnce, TypeOK
<1>1. TypeOK'
  BY <1>0, Distinct, <1>8 DEF TypeOK, Places
<1>2. WalkersSafe'
  BY <1>0, <1>1, <1>8, <1>9 DEF WalkersSafe, Walking, Owned, Inserting
<1>3. Places'
  BY <1>0, Distinct, <1>8, <1>9 DEF TypeOK, Places, Owned, Inserting
<1>4. Unloading'
  BY <1>0, Distinct, <1>8 DEF TypeOK, Unloading, Places, Idle
<1>5. Owned'
  BY <1>0, Distinct, <1>8 DEF TypeOK, WalkersSafe, Owned, Inserting, Places, ToSet
<1>6. Searched'
  BY <1>0, Distinct, <1>8 DEF TypeOK, WalkersSafe, Searched, PassedBy, Places, ToSet
<1>7. Cleared'
  BY <1>0, Distinct, <1>8 DEF TypeOK, Cleared, First, Places
<1> QED BY <1>2, <1>3, <1>4, <1>5, <1>6, <1>7 DEF IInv

(* kmalloc has nothing left and the add gives up.                          *)
LEMMA NoMemoryInv ==
  ASSUME IInv, NEW t \in Threads, pc[t] = "alloc", Return(t),
         UNCHANGED <<module, list, holder, cursor, verdict>>
  PROVE  IInv'
<1> USE DEF Threads, Goto, vars, module, list, threads, Searches, Return
<1>0. TypeOK /\ WalkersSafe /\ Places /\ Unloading /\ Owned /\ Searched /\ Cleared
  BY DEF IInv, WalkersSafe
<1>1. TypeOK'
  BY <1>0, Distinct DEF TypeOK, Allocated
<1>2. WalkersSafe'
  BY <1>0, Distinct, <1>1 DEF TypeOK, WalkersSafe, Walking, LinkedOnce, Allocated, ToSet
<1>3. Places'
  BY <1>0, Distinct DEF TypeOK, Places
<1>4. Unloading'
  BY <1>0, Distinct DEF TypeOK, Unloading, Places, Idle
<1>5. Owned'
  BY <1>0, Distinct DEF TypeOK, Owned, Inserting, Allocated, Places, ToSet
<1>6. Searched'
  BY <1>0, Distinct DEF TypeOK, Searched, PassedBy, Places
<1>7. Cleared'
  BY <1>0, Distinct DEF TypeOK, Cleared, First, Places
<1> QED BY <1>2, <1>3, <1>4, <1>5, <1>6, <1>7 DEF IInv

(* ip_del unlinks and frees the entry it stands on.                        *)
LEMMA DelInv ==
  ASSUME IInv, NEW t \in Threads, ip_del(t)
  PROVE  IInv'
<1> USE DEF Threads, Goto, vars, module, list, threads, Searches, ip_del, Unlink, Walking, Return,
            Unlock
<1>0. TypeOK /\ WalkersSafe /\ Places /\ Unloading /\ Owned /\ Searched /\ Cleared
  BY DEF IInv, WalkersSafe
<1>8. /\ blocked_list' \in Seq(Entries) /\ LinkedOnce'
      /\ ToSet(blocked_list)' = ToSet(blocked_list) \ {cursor[t]}
      /\ cursor[t] \in ToSet(blocked_list)
  BY <1>0, ListDelTakesOne DEF TypeOK, WalkersSafe
<1>9. /\ Allocated' = Allocated \ {cursor[t]}
      /\ \A x \in Allocated' : addrOf'[x] = addrOf[x]
  BY DEF Allocated
<1>10. phase # "gone"
  BY <1>0, <1>8 DEF Owned, ToSet
<1>11. \A u \in Threads : u # t => pc[u] # "walk" /\ cursor'[u] = cursor[u]
  BY <1>0 DEF TypeOK
<1>1. TypeOK'
  BY <1>0, Distinct, <1>8, <1>9, <1>11 DEF TypeOK
<1>2. WalkersSafe'
  BY <1>0, Distinct, <1>1, <1>8, <1>9, <1>11 DEF TypeOK, WalkersSafe, Owned, Inserting
<1>3. Places'
  BY <1>0, Distinct, <1>8, <1>9, <1>11 DEF TypeOK, Places, Owned, Inserting
<1>4. Unloading'
  BY <1>0, Distinct, <1>8, <1>9, <1>11 DEF TypeOK, Unloading, Places, Idle
<1>5. Owned'
  BY <1>0, Distinct, <1>8, <1>9, <1>10, <1>11
  DEF TypeOK, WalkersSafe, Owned, Inserting, Places
<1>6. Searched'
  BY <1>0, Distinct, <1>8, <1>9, <1>11 DEF TypeOK, Searched, Places
<1>7. Cleared'
  BY <1>0, Distinct, <1>8, <1>9, <1>11 DEF TypeOK, Cleared, Places
<1> QED BY <1>2, <1>3, <1>4, <1>5, <1>6, <1>7 DEF IInv

(* ip_clear_all frees the first entry and goes on to the next.             *)
LEMMA ClearInv ==
  ASSUME IInv, NEW t \in Threads, ip_clear_all(t)
  PROVE  IInv'
<1> USE DEF Threads, Goto, vars, module, list, threads, Searches, ip_clear_all, Unlink, Walking,
            Continue
<1>0. TypeOK /\ WalkersSafe /\ Places /\ Unloading /\ Owned /\ Searched /\ Cleared
  BY DEF IInv, WalkersSafe
<1>8. /\ blocked_list' \in Seq(Entries) /\ LinkedOnce'
      /\ ToSet(blocked_list)' = ToSet(blocked_list) \ {cursor[t]}
      /\ cursor[t] \in ToSet(blocked_list)
  BY <1>0, ListDelTakesOne DEF TypeOK, WalkersSafe
<1>9. /\ Allocated' = Allocated \ {cursor[t]}
      /\ \A x \in Allocated' : addrOf'[x] = addrOf[x]
  BY DEF Allocated
<1>10. phase # "gone" /\ blocked_list # <<>>
  BY <1>0, <1>8 DEF Owned, ToSet
<1>11. cursor[t] = First /\ cursor'[t] = First'
  BY <1>0, <1>10, ClearTakesHead DEF Cleared, TypeOK, WalkersSafe
<1>12. /\ First' \in ToSet(blocked_list)' \cup {NoEntry}
       /\ cursor'[t] \in Entries \cup {NoEntry}
       /\ cursor' = [cursor EXCEPT ![t] = cursor'[t]]
  <2>1. blocked_list' # <<>> => First' = blocked_list'[1] /\ 1 \in DOMAIN blocked_list'
    BY <1>8 DEF First
  <2>2. /\ First' \in ToSet(blocked_list)' \cup {NoEntry}
        /\ First' \in Entries \cup {NoEntry}
    BY <1>8, <2>1 DEF First, ToSet
  <2> QED BY <1>0, <1>11, <2>2 DEF TypeOK
<1>13. \A u \in Threads : u # t => pc[u] # "walk" /\ cursor'[u] = cursor[u]
  BY <1>0 DEF TypeOK
<1>1. TypeOK'
  BY <1>0, Distinct, <1>8, <1>9, <1>10,
     <1>11, <1>12, <1>13
  DEF TypeOK, Allocated
<1>2. WalkersSafe'
  BY <1>0, Distinct, <1>1, <1>8, <1>9, <1>10,
     <1>11, <1>12, <1>13
  DEF TypeOK, WalkersSafe, Owned, Inserting
<1>3. Places'
  BY <1>0, Distinct, <1>8, <1>9, <1>10,
     <1>11, <1>12, <1>13
  DEF TypeOK, Places, Owned, Inserting
<1>4. Unloading'
  BY <1>0, Distinct, <1>8, <1>9, <1>10,
     <1>11, <1>12, <1>13
  DEF TypeOK, Unloading, Places, Idle
<1>5. Owned'
  BY <1>0, Distinct, <1>8, <1>9, <1>10,
     <1>11, <1>12, <1>13
  DEF TypeOK, WalkersSafe, Owned, Inserting, Places
<1>6. Searched'
  BY <1>0, Distinct, <1>8, <1>9, <1>10,
     <1>11, <1>12, <1>13
  DEF TypeOK, Searched, Places
<1>7. Cleared'
  BY <1>0, Distinct, <1>8, <1>9, <1>10,
     <1>11, <1>12, <1>13
  DEF TypeOK, Cleared, Places
<1> QED BY <1>2, <1>3, <1>4, <1>5, <1>6, <1>7 DEF IInv

(* An add links the entry it allocated.                                    *)
LEMMA InsertInv ==
  ASSUME IInv, NEW t \in Threads, Insert(t)
  PROVE  IInv'
<1> USE DEF Threads, Goto, vars, module, list, threads, Searches, Insert, Return, Unlock
<1>0. TypeOK /\ WalkersSafe /\ Places /\ Unloading /\ Owned /\ Searched /\ Cleared
  BY DEF IInv, WalkersSafe
<1>8. cursor[t] \in Entries /\ cursor[t] \in Allocated /\ cursor[t] \notin ToSet(blocked_list)
  BY <1>0 DEF Owned, Inserting, TypeOK
<1>9. /\ blocked_list' \in Seq(Entries) /\ LinkedOnce'
      /\ ToSet(blocked_list)' = ToSet(blocked_list) \cup {cursor[t]}
  BY <1>0, <1>8, AppendAddsOne DEF TypeOK, WalkersSafe
<1>10. /\ \A u \in Threads : pc'[u] # "walk"
       /\ \A u \in Threads : u # t => cursor'[u] = cursor[u] /\ pc'[u] = pc[u]
       /\ pc'[t] = "idle"
  BY <1>0, Distinct DEF TypeOK
<1>11. phase # "gone"
  BY <1>0, Distinct DEF Places, Unloading, Idle, TypeOK
<1>1. TypeOK'
  BY <1>0, Distinct, <1>8, <1>9, <1>10, <1>11
  DEF TypeOK, Allocated
<1>2. WalkersSafe'
  BY <1>0, Distinct, <1>1, <1>8, <1>9, <1>10, <1>11
  DEF TypeOK, WalkersSafe, Walking, Owned, Inserting, Allocated
<1>3. Places'
  BY <1>0, Distinct, <1>8, <1>9, <1>10, <1>11
  DEF TypeOK, Places, Owned, Inserting
<1>4. Unloading'
  BY <1>0, Distinct, <1>8, <1>9, <1>10, <1>11
  DEF TypeOK, Unloading, Places, Idle
<1>5. Owned'
  BY <1>0, Distinct, <1>8, <1>9, <1>10, <1>11
  DEF TypeOK, WalkersSafe, Owned, Inserting, Places, Allocated
<1>6. Searched'
  BY <1>0, Distinct, <1>8, <1>9, <1>10, <1>11
  DEF TypeOK, Searched, Places
<1>7. Cleared'
  BY <1>0, Distinct, <1>8, <1>9, <1>10, <1>11
  DEF TypeOK, Cleared, Places
<1> QED BY <1>2, <1>3, <1>4, <1>5, <1>6, <1>7 DEF IInv

(* The module is loaded and unloaded, short of freeing the list.            *)
LEMMA LoadInv ==
  ASSUME IInv, CreateProc \/ RegisterHook \/ UnregisterHook \/ ProcRemove
  PROVE  IInv'
<1> USE DEF Threads, Goto, vars, module, list, threads, Searches, CreateProc, RegisterHook,
           UnregisterHook, ProcRemove
<1>0. TypeOK /\ WalkersSafe /\ Places /\ Unloading /\ Owned /\ Searched /\ Cleared
  BY DEF IInv, WalkersSafe
<1>1. TypeOK'
  BY <1>0, Distinct DEF TypeOK, Allocated
<1>2. WalkersSafe'
  BY <1>0, Distinct, <1>1 DEF TypeOK, WalkersSafe, Walking, LinkedOnce, Allocated, ToSet, Unloading,
                              Idle, Owned, Inserting
<1>3. Places'
  BY <1>0, Distinct DEF TypeOK, Places
<1>4. Unloading'
  BY <1>0, Distinct DEF TypeOK, Unloading, Places, Idle, CallsReturned
<1>5. Owned'
  BY <1>0, Distinct DEF TypeOK, Owned, Inserting, Allocated, Places, ToSet
<1>6. Searched'
  BY <1>0, Distinct DEF TypeOK, Searched, PassedBy, Places
<1>7. Cleared'
  BY <1>0, Distinct DEF TypeOK, Cleared, First, Places
<1> QED BY <1>2, <1>3, <1>4, <1>5, <1>6, <1>7 DEF IInv

(* ipblock_exit frees the list.                                            *)
LEMMA ClearAtExitInv ==
  ASSUME IInv, ClearAtExit
  PROVE  IInv'
<1> USE DEF Threads, Goto, vars, module, list, threads, Searches, ClearAtExit
<1>0. TypeOK /\ WalkersSafe /\ Places /\ Unloading /\ Owned /\ Searched /\ Cleared
  BY DEF IInv, WalkersSafe
<1>8. blocked_list' = <<>> /\ ToSet(blocked_list)' = {} /\ DOMAIN blocked_list' = {}
  BY DEF ToSet
<1>9. /\ Allocated' = Allocated \ ToSet(blocked_list)
      /\ \A e \in Allocated' : addrOf'[e] = addrOf[e]
  BY DEF Allocated
<1>10. \A t \in Threads : pc[t] # "walk"
  BY <1>0, Distinct DEF TypeOK
<1>11. Inserting = {}
  BY <1>0, Distinct DEF Inserting, Places, Unloading, Idle, TypeOK
<1>1. TypeOK'
  BY <1>0, Distinct, <1>8, <1>9, <1>10, <1>11
  DEF TypeOK
<1>2. WalkersSafe'
  BY <1>0, Distinct, <1>1, <1>8, <1>9, <1>10, <1>11
  DEF TypeOK, WalkersSafe, Walking, LinkedOnce, Inserting
<1>3. Places'
  BY <1>0, Distinct, <1>8, <1>9, <1>10, <1>11
  DEF TypeOK, Places, Inserting
<1>4. Unloading'
  BY <1>0, Distinct, <1>8, <1>9, <1>10, <1>11
  DEF TypeOK, Unloading, Places, Idle
<1>5. Owned'
  BY <1>0, Distinct, <1>8, <1>9, <1>10, <1>11
  DEF TypeOK, Owned, Inserting
<1>6. Searched'
  BY <1>0, Distinct, <1>8, <1>9, <1>10, <1>11
  DEF TypeOK, Searched, PassedBy, Places
<1>7. Cleared'
  BY <1>0, Distinct, <1>8, <1>9, <1>10, <1>11
  DEF TypeOK, Cleared, First, Places
<1> QED BY <1>2, <1>3, <1>4, <1>5, <1>6, <1>7 DEF IInv

-----------------------------------------------------------------------------
(* WalkersSafe and NothingLeaks.                                           *)

LEMMA InitInv == Init => IInv
<1> SUFFICES ASSUME Init PROVE IInv
  OBVIOUS
<1> USE Distinct DEF Init, Threads, Searches
<1>1. ToSet(blocked_list) = {} /\ DOMAIN blocked_list = {} /\ Allocated = {}
  BY DEF ToSet, Allocated
<1>2. TypeOK
  <2>1. blocked_list \in Seq(Entries) /\ Allocated \subseteq Entries
    BY <1>1
  <2>2. \A e \in Allocated : addrOf[e] \in Addrs
    BY <1>1
  <2> QED BY <2>1, <2>2 DEF TypeOK
<1>3. WalkersSafe
  BY <1>1, <1>2 DEF WalkersSafe, LinkedOnce, Walking
<1>4. Places /\ Unloading
  BY DEF Places, Unloading, Idle
<1>5. Owned /\ Searched /\ Cleared
  BY <1>1 DEF Owned, Inserting, Searched, Cleared
<1> QED BY <1>3, <1>4, <1>5 DEF IInv

LEMMA StepInv == IInv /\ [Next]_vars => IInv'
<1> SUFFICES ASSUME IInv, [Next]_vars PROVE IInv'
  OBVIOUS
<1>1. ASSUME NEW u \in Users, proc_show(u) PROVE IInv'
  BY <1>1, CallInv, Distinct DEF proc_show, Threads, Searches
<1>2. ASSUME NEW u \in Users, proc_write(u) PROVE IInv'
  BY <1>2, CallInv, Distinct DEF proc_write, Threads, Searches
<1>3. ASSUME NEW c \in Cpus, hook_func_out(c) PROVE IInv'
  BY <1>3, CallInv, Distinct DEF hook_func_out, Threads, Searches
<1>4. ASSUME NEW t \in Threads, ThreadStep(t) PROVE IInv'
  <2>1. CASE Alloc(t)
    <3>1. \/ \E e \in Entries \ Allocated :
               /\ addrOf' = [x \in Allocated \cup {e} |->
                               IF x = e THEN arg[t] ELSE addrOf[x]]
               /\ cursor' = [cursor EXCEPT ![t] = e]
               /\ Goto(t, "insert") /\ UNCHANGED <<op, arg>>
          \/ Return(t) /\ UNCHANGED <<addrOf, cursor>>
      BY <2>1 DEF Alloc
    <3> QED BY <2>1, <3>1, AllocInv, NoMemoryInv DEF Alloc, list
  <2> QED BY <1>4, <2>1, LockInv, PassByInv, FoundInv, DelInv, ClearInv,
             EndOfListInv, InsertInv DEF ThreadStep
<1>5. CASE LoadOrUnload
  BY <1>5, LoadInv, ClearAtExitInv DEF LoadOrUnload
<1>6. CASE UNCHANGED vars
  <2> USE <1>6 DEF vars, module, list, threads
  <2>1. TypeOK' /\ WalkersSafe' /\ Places' /\ Unloading'
    BY DEF IInv, WalkersSafe, TypeOK, LinkedOnce, Walking, ToSet, Allocated,
           Places, Unloading, Idle
  <2>2. Owned' /\ Searched' /\ Cleared'
    BY DEF IInv, Owned, Inserting, ToSet, Allocated, Searched, PassedBy,
           Cleared, First
  <2> QED BY <2>1, <2>2 DEF IInv
<1> QED BY <1>1, <1>2, <1>3, <1>4, <1>5, <1>6 DEF Next

LEMMA Inductive == Spec => []IInv
BY InitInv, StepInv, PTL DEF Spec

(* No walk of the list, in a read, a command or the packet hook, stands on *)
(* an entry that ip_del, ip_clear_all or the exit has freed or unlinked,   *)
(* and no entry is linked twice, however many threads run.                 *)
THEOREM ReadersNeverMeetFreed == Spec => []WalkersSafe
<1>1. IInv => WalkersSafe
  BY DEF IInv
<1> QED BY <1>1, Inductive, PTL

(* Every allocated entry is linked or about to be linked by the add that   *)
(* allocated it, and the unloaded module has returned them all.            *)
THEOREM EntriesAccounted == Spec => []NothingLeaks
<1>1. IInv => NothingLeaks
  <2> SUFFICES ASSUME IInv PROVE NothingLeaks
    OBVIOUS
  <2>1. Allocated = ToSet(blocked_list) \cup {cursor[t] : t \in Inserting}
    BY DEF IInv, WalkersSafe, Owned, Inserting
  <2>2. phase = "gone" => Inserting = {} /\ ToSet(blocked_list) = {}
    <3>1. phase = "gone" => ToSet(blocked_list) = {}
      BY DEF IInv, Owned, ToSet
    <3>2. phase = "gone" => Inserting = {}
      BY DEF IInv, Unloading, Places, Inserting, Idle, Threads
    <3> QED BY <3>1, <3>2
  <2> QED BY <2>1, <2>2 DEF NothingLeaks, Inserting
<1> QED BY <1>1, Inductive, PTL

-----------------------------------------------------------------------------
(* The list under its mutex implements Blacklist.                          *)

Matching(a) == {e \in ToSet(blocked_list) : addrOf[e] = a}
counts == [a \in Addrs |-> Listed(a)]
packets == [c \in Cpus |-> Packet(c)]

LEMMA MatchingFinite ==
  ASSUME IInv
  PROVE  \A a \in Addrs : /\ IsFiniteSet(Matching(a))
                          /\ Cardinality(Matching(a)) \in Nat
                          /\ Listed(a) = IF Clearing THEN 0
                                         ELSE Cardinality(Matching(a))
<1> SUFFICES ASSUME NEW a \in Addrs
             PROVE  /\ IsFiniteSet(Matching(a))
                    /\ Cardinality(Matching(a)) \in Nat
                    /\ Listed(a) = IF Clearing THEN 0
                                   ELSE Cardinality(Matching(a))
  OBVIOUS
<1>1. Matching(a) \subseteq Entries
  BY DEF IInv, WalkersSafe, TypeOK, Matching
<1>2. IsFiniteSet(Matching(a))
  BY <1>1, Distinct, FS_Subset
<1> QED BY <1>2, FS_CardinalityType DEF Listed, Matching

(* What the mutex's holder is doing decides what the others can tell.      *)
LEMMA ClearingIs ==
  ASSUME IInv
  PROVE  Clearing <=> \E t \in Threads : pc[t] = "walk" /\ op[t] = "clear"
BY Distinct DEF IInv, WalkersSafe, TypeOK, Places, Clearing

(* A step that leaves the listed entries alone, or that only the clear can *)
(* see, does not change the counts.                                        *)
LEMMA SameCounts ==
  ASSUME IInv, IInv', Clearing' <=> Clearing,
         Clearing \/ \A a \in Addrs : Matching(a)' = Matching(a)
  PROVE  counts' = counts
<1>1. \A a \in Addrs : Listed(a)' = Listed(a)
  BY DEF Listed, Matching
<1> QED BY <1>1 DEF counts

LEMMA InitRefines == Init => Abstract!Init
<1> SUFFICES ASSUME Init PROVE Abstract!Init
  OBVIOUS
<1>1. ToSet(blocked_list) = {} /\ ~Clearing
  BY DEF Init, ToSet, Clearing
<1>2. \A a \in Addrs : Listed(a) = 0
  BY <1>1, FS_EmptySet DEF Listed
<1>3. \A c \in Cpus : Packet(c) = "accept"
  BY DEF Init, Packet, Idle, Threads
<1> QED BY <1>2, <1>3 DEF Abstract!Init

(* A packet enters the hook: Arrive. Other calls are not seen.             *)
LEMMA CallRefines ==
  ASSUME IInv, IInv', NEW t \in Threads, NEW o, NEW a,
         Call(t, o, a), t \in Cpus => a \in Addrs
  PROVE  Abstract!Next \/ UNCHANGED <<counts, packets>>
<1> USE DEF Threads, Goto, Call, list, module
<1>1. counts' = counts
  <2>1. Clearing' <=> Clearing
    BY DEF IInv, WalkersSafe, TypeOK, Places, Clearing
  <2> QED BY <2>1, SameCounts DEF Matching, ToSet
<1>2. \A c \in Cpus : Packet(c)' = IF c = t THEN a ELSE Packet(c)
  BY DEF IInv, WalkersSafe, TypeOK, Packet, Idle
<1>3. CASE t \in Cpus
  <2>1. packets' = [packets EXCEPT ![t] = a]
    BY <1>2 DEF packets
  <2>2. Abstract!Arrive(t, a)
    BY <1>1, <2>1 DEF Abstract!Arrive, counts, packets
  <2> QED BY <1>3, <2>2 DEF Abstract!Next
<1>4. CASE t \notin Cpus
  BY <1>1, <1>2, <1>4 DEF packets
<1> QED BY <1>3, <1>4

(* Taking the mutex for a clear is the clear; for any other call nothing   *)
(* happens yet.                                                            *)
LEMMA LockRefines ==
  ASSUME IInv, IInv', NEW t \in Threads, Lock(t)
  PROVE  Abstract!Next \/ UNCHANGED <<counts, packets>>
<1> USE DEF Threads, Goto, Lock, LockFree, list, module
<1>1. packets' = packets
  BY DEF IInv, WalkersSafe, TypeOK, packets, Packet, Idle
<1>2. ~Clearing /\ (Clearing' <=> op[t] = "clear")
  BY Distinct DEF Clearing
<1>3. CASE op[t] = "clear"
  <2>1. counts' = [a \in Addrs |-> 0]
    BY <1>2, <1>3 DEF counts, Listed
  <2> QED BY <1>1, <2>1 DEF Abstract!Next, Abstract!Clear, counts, packets
<1>4. CASE op[t] # "clear"
  BY <1>1, <1>2, <1>4, SameCounts DEF Matching, ToSet
<1> QED BY <1>3, <1>4

LEMMA PassByRefines ==
  ASSUME IInv, IInv', NEW t \in Threads, PassBy(t)
  PROVE  UNCHANGED <<counts, packets>>
<1> USE DEF PassBy, Continue, list, module
<1>1. packets' = packets
  BY DEF packets, Packet, Idle
<1>2. Clearing' <=> Clearing
  BY DEF Clearing
<1> QED BY <1>1, <1>2, SameCounts DEF Matching, ToSet

(* A match is a blocked address: Decide for a packet, nothing for an add.  *)
LEMMA FoundRefines ==
  ASSUME IInv, IInv', NEW t \in Threads, Found(t)
  PROVE  Abstract!Next \/ UNCHANGED <<counts, packets>>
<1> USE DEF Threads, Goto, Found, Walking, Match, Return, Unlock, list, module
<1>1. ~Clearing /\ ~Clearing'
  BY ClearingIs DEF IInv, WalkersSafe, TypeOK, Clearing
<1>2. counts' = counts
  BY <1>1, SameCounts DEF Matching, ToSet
<1>3. CASE op[t] = "add"
  BY <1>2, <1>3 DEF IInv, WalkersSafe, TypeOK, Places, packets, Packet, Idle, Searches
<1>4. CASE op[t] = "packet"
  <2>1. t \in Cpus /\ arg[t] \in Addrs /\ Packet(t) = arg[t]
    BY <1>4 DEF IInv, Places, Packet, Idle, Searches
  <2>2. packets' = [packets EXCEPT ![t] = "drop"]
    BY <1>4, <2>1 DEF IInv, WalkersSafe, TypeOK, packets, Packet, Idle
  <2>3. cursor[t] \in Matching(arg[t])
    BY DEF IInv, WalkersSafe, Matching
  <2>4. counts[arg[t]] > 0
    BY <1>1, <2>1, <2>3, MatchingFinite, FS_EmptySet DEF counts
  <2>5. Abstract!Decide(t)
    BY <1>2, <2>1, <2>2, <2>4 DEF Abstract!Decide, Abstract!Verdict, counts, packets
  <2> QED BY <2>1, <2>5 DEF Abstract!Next
<1> QED BY <1>3, <1>4

(* ip_del takes one entry of its address out.                              *)
LEMMA DelRefines ==
  ASSUME IInv, IInv', NEW t \in Threads, ip_del(t)
  PROVE  Abstract!Next
<1> USE DEF Threads, Goto, ip_del, Walking, Match, Return, Unlock, module
<1>1. t \in Users /\ arg[t] \in Addrs /\ ~Clearing /\ ~Clearing'
  BY ClearingIs DEF IInv, WalkersSafe, TypeOK, Places, Clearing, Searches
<1>2. packets' = packets
  BY <1>1, Distinct DEF IInv, WalkersSafe, TypeOK, packets, Packet, Idle
<1>3. /\ ToSet(blocked_list)' = ToSet(blocked_list) \ {cursor[t]}
      /\ cursor[t] \in ToSet(blocked_list)
      /\ \A e \in Allocated \ {cursor[t]} : addrOf'[e] = addrOf[e]
      /\ ToSet(blocked_list) \subseteq Allocated
  BY ListDelTakesOne DEF IInv, WalkersSafe, TypeOK, Unlink
<1>4. \A a \in Addrs : Matching(a)' = Matching(a) \ {cursor[t]}
  BY <1>3 DEF Matching
<1>5. \A a \in Addrs : cursor[t] \in Matching(a) <=> a = arg[t]
  BY <1>3 DEF Matching
<1>6. \A a \in Addrs : Listed(a)' = IF a = arg[t] THEN Listed(a) - 1 ELSE Listed(a)
  <2> SUFFICES ASSUME NEW a \in Addrs
               PROVE  Listed(a)' = IF a = arg[t] THEN Listed(a) - 1 ELSE Listed(a)
    OBVIOUS
  <2>1. IsFiniteSet(Matching(a)) /\ Listed(a) = Cardinality(Matching(a))
    BY <1>1, MatchingFinite
  <2>2. Listed(a)' = Cardinality(Matching(a) \ {cursor[t]})
    BY <1>1, <1>4 DEF Listed, Matching
  <2>3. Cardinality(Matching(a) \ {cursor[t]}) =
          IF cursor[t] \in Matching(a) THEN Cardinality(Matching(a)) - 1
          ELSE Cardinality(Matching(a))
    BY <2>1, FS_RemoveElement
  <2> QED BY <1>5, <2>1, <2>2, <2>3
<1>7. counts[arg[t]] > 0
  BY <1>1, <1>5, MatchingFinite, FS_EmptySet DEF counts
<1>8. counts' = [counts EXCEPT ![arg[t]] = @ - 1]
  BY <1>6 DEF counts
<1>9. Abstract!Remove(arg[t])
  BY <1>2, <1>7, <1>8 DEF Abstract!Remove, counts, packets
<1> QED BY <1>1, <1>9 DEF Abstract!Next

(* A clear that holds the mutex has done its work already.                 *)
LEMMA ClearRefines ==
  ASSUME IInv, IInv', NEW t \in Threads, ip_clear_all(t)
  PROVE  UNCHANGED <<counts, packets>>
<1> USE DEF ip_clear_all, Walking, Continue, module
<1>1. packets' = packets
  BY DEF packets, Packet, Idle
<1>2. Clearing /\ Clearing'
  BY ClearingIs DEF IInv, WalkersSafe, TypeOK, Clearing
<1> QED BY <1>1, <1>2, SameCounts

(* The end of the list: a packet none of whose entries matched is let      *)
(* through, a clear has left nothing behind.                               *)
LEMMA EndOfListRefines ==
  ASSUME IInv, IInv', NEW t \in Threads, EndOfList(t)
  PROVE  Abstract!Next \/ UNCHANGED <<counts, packets>>
<1> USE DEF Threads, Goto, EndOfList, Return, Unlock, list, module
<1>1. ~Clearing'
  BY DEF Clearing
<1>2. CASE op[t] = "clear"
  <2>1. blocked_list = <<>>
    BY <1>2, Distinct DEF IInv, Cleared, First, WalkersSafe, TypeOK
  <2>2. \A a \in Addrs : Matching(a) = {} /\ Matching(a)' = {}
    BY <2>1 DEF Matching, ToSet
  <2>3. \A a \in Addrs : Listed(a) = 0 /\ Listed(a)' = 0
    BY <1>1, <2>2, FS_EmptySet DEF Listed, Matching
  <2>4. packets' = packets
    BY <1>2, Distinct DEF IInv, WalkersSafe, TypeOK, Places, packets, Packet, Idle
  <2> QED BY <2>3, <2>4 DEF counts
<1>3. CASE op[t] # "clear"
  <2>1. ~Clearing
    BY <1>3, ClearingIs DEF IInv, WalkersSafe, TypeOK, Clearing
  <2>2. counts' = counts
    BY <1>1, <2>1, SameCounts DEF Matching, ToSet
  <2>3. CASE op[t] # "packet"
    BY <1>3, <2>2, <2>3 DEF IInv, WalkersSafe, TypeOK, Places, packets, Packet, Idle
  <2>4. CASE op[t] = "packet"
    <3>1. t \in Cpus /\ arg[t] \in Addrs /\ Packet(t) = arg[t]
      BY <2>4 DEF IInv, Places, Packet, Idle, Searches
    <3>2. packets' = [packets EXCEPT ![t] = "accept"]
      <4>1. Packet(t)' = "accept"
        BY <2>4, <3>1 DEF IInv, WalkersSafe, TypeOK, Packet, Idle
      <4>2. \A c \in Cpus : c # t => Packet(c)' = Packet(c)
        BY <2>4, <3>1 DEF IInv, WalkersSafe, TypeOK, Packet, Idle
      <4> QED
        BY <3>1, <4>1, <4>2, Zenon DEF packets
    <3>3. Matching(arg[t]) = {}
      BY <2>4, Distinct
      DEF IInv, WalkersSafe, TypeOK, Searched, PassedBy, Searches, Matching, ToSet
    <3>4. ~(counts[arg[t]] > 0)
      BY <2>1, <3>1, <3>3, MatchingFinite, FS_EmptySet DEF counts
    <3>5. Abstract!Decide(t)
      BY <2>2, <3>1, <3>2, <3>4 DEF Abstract!Decide, Abstract!Verdict, counts, packets
    <3> QED BY <3>1, <3>5 DEF Abstract!Next
  <2> QED BY <2>3, <2>4
<1> QED BY <1>2, <1>3

(* Allocating touches no listed entry.                                     *)
LEMMA AllocRefines ==
  ASSUME IInv, IInv', NEW t \in Threads, Alloc(t)
  PROVE  UNCHANGED <<counts, packets>>
<1> USE DEF Threads, Goto, Alloc, Return, module
<1>1. t \in Users
  BY DEF IInv, Places
<1>0. \A u \in Threads :
        u # t => pc'[u] = pc[u] /\ op'[u] = op[u] /\ arg'[u] = arg[u]
  BY DEF IInv, WalkersSafe, TypeOK
<1>2. packets' = packets
  BY <1>0, <1>1, Distinct DEF packets, Packet, Idle
<1>3. \A e \in Allocated : addrOf'[e] = addrOf[e]
  BY DEF Allocated
<1>4. \A a \in Addrs : Matching(a)' = Matching(a)
  BY <1>3 DEF IInv, WalkersSafe, Matching, ToSet
<1>5. Clearing' <=> Clearing
  <2>1. holder' = holder /\ holder # t /\ holder \in Threads \cup {Nobody}
    BY DEF IInv, WalkersSafe, TypeOK, Places
  <2> QED BY <1>0, <2>1 DEF Clearing
<1> QED BY <1>2, <1>4, <1>5, SameCounts

(* Linking the entry is the insert.                                        *)
LEMMA InsertRefines ==
  ASSUME IInv, IInv', NEW t \in Threads, Insert(t)
  PROVE  Abstract!Next
<1> USE DEF Threads, Goto, Insert, Return, Unlock, module
<1>1. t \in Users /\ arg[t] \in Addrs /\ ~Clearing /\ ~Clearing'
  BY DEF IInv, Places, Clearing, Searches
<1>2. packets' = packets
  BY <1>1, Distinct DEF IInv, WalkersSafe, TypeOK, packets, Packet, Idle
<1>3. cursor[t] \in Entries /\ cursor[t] \notin ToSet(blocked_list)
      /\ addrOf[cursor[t]] = arg[t]
  BY DEF IInv, Owned, Inserting, WalkersSafe, TypeOK, Places
<1>4. ToSet(blocked_list)' = ToSet(blocked_list) \cup {cursor[t]}
  BY <1>3, AppendAddsOne DEF IInv, WalkersSafe, TypeOK
<1>5. \A a \in Addrs : Matching(a)' = IF a = arg[t] THEN Matching(a) \cup {cursor[t]}
                                     ELSE Matching(a)
  BY <1>3, <1>4 DEF Matching
<1>6. \A a \in Addrs : Listed(a)' = IF a = arg[t] THEN Listed(a) + 1 ELSE Listed(a)
  <2> SUFFICES ASSUME NEW a \in Addrs
               PROVE  Listed(a)' = IF a = arg[t] THEN Listed(a) + 1 ELSE Listed(a)
    OBVIOUS
  <2>1. IsFiniteSet(Matching(a)) /\ Listed(a) = Cardinality(Matching(a))
    BY <1>1, MatchingFinite
  <2>2. Listed(a)' = Cardinality(Matching(a)')
    BY <1>1 DEF Listed, Matching
  <2>3. cursor[t] \notin Matching(a)
    BY <1>3 DEF Matching
  <2>4. Cardinality(Matching(a) \cup {cursor[t]}) = Cardinality(Matching(a)) + 1
    BY <2>1, <2>3, FS_AddElement
  <2> QED BY <1>5, <2>1, <2>2, <2>4
<1>7. counts' = [counts EXCEPT ![arg[t]] = @ + 1]
  BY <1>6 DEF counts
<1>8. Abstract!Insert(arg[t])
  BY <1>2, <1>7 DEF Abstract!Insert, counts, packets
<1> QED BY <1>1, <1>8 DEF Abstract!Next

(* Loading is not seen, and the exit clears.                               *)
LEMMA LoadRefines ==
  ASSUME IInv, IInv', LoadOrUnload
  PROVE  Abstract!Next \/ UNCHANGED <<counts, packets>>
<1> USE DEF threads, list
<1>1. packets' = packets
  BY DEF LoadOrUnload, CreateProc, RegisterHook, UnregisterHook, ProcRemove,
         ClearAtExit, packets, Packet, Idle
<1>2. CASE ClearAtExit
  <2>1. ToSet(blocked_list)' = {} /\ ~Clearing'
    BY <1>2 DEF ClearAtExit, ToSet, Clearing
  <2>2. \A a \in Addrs : Listed(a)' = 0
    BY <2>1, FS_EmptySet DEF Listed
  <2> QED BY <1>1, <2>2 DEF Abstract!Next, Abstract!Clear, counts, packets
<1>3. CASE CreateProc \/ RegisterHook \/ UnregisterHook \/ ProcRemove
  <2>1. UNCHANGED <<blocked_list, addrOf, holder, op>>
    BY <1>3 DEF CreateProc, RegisterHook, UnregisterHook, ProcRemove
  <2> QED BY <1>1, <2>1, SameCounts DEF Matching, ToSet, Clearing
<1> QED BY <1>2, <1>3 DEF LoadOrUnload

LEMMA StepRefines ==
  IInv /\ IInv' /\ [Next]_vars => [Abstract!Next]_<<counts, packets>>
<1> SUFFICES ASSUME IInv, IInv', [Next]_vars
             PROVE  Abstract!Next \/ UNCHANGED <<counts, packets>>
  OBVIOUS
<1>1. ASSUME NEW u \in Users, proc_show(u) \/ proc_write(u)
      PROVE  Abstract!Next \/ UNCHANGED <<counts, packets>>
  BY <1>1, CallRefines, Distinct DEF proc_show, proc_write, Threads
<1>2. ASSUME NEW c \in Cpus, hook_func_out(c)
      PROVE  Abstract!Next \/ UNCHANGED <<counts, packets>>
  BY <1>2, CallRefines DEF hook_func_out, Threads
<1>3. ASSUME NEW t \in Threads, ThreadStep(t)
      PROVE  Abstract!Next \/ UNCHANGED <<counts, packets>>
  BY <1>3, LockRefines, PassByRefines, FoundRefines, DelRefines, ClearRefines,
     EndOfListRefines, AllocRefines, InsertRefines DEF ThreadStep
<1>4. CASE UNCHANGED vars
  BY <1>4, SameCounts
  DEF vars, list, threads, Clearing, Matching, ToSet, packets, Packet, Idle
<1> QED BY <1>1, <1>2, <1>3, <1>4, LoadRefines DEF Next

(* The module implements Blacklist: whatever the interleaving, inserts,    *)
(* removals and clears act on a multiset of addresses in one step each, and *)
(* the verdict on a packet is the answer of that multiset at one instant   *)
(* of the hook's call.                                                     *)
THEOREM ImplementsBlacklist == Spec => BlacklistSpec
<1>1. IInv /\ IInv' /\ [Next]_vars => [Abstract!Next]_<<counts, packets>>
  BY StepRefines
<1> QED BY <1>1, InitRefines, Inductive, PTL
        DEF Spec, BlacklistSpec, Abstract!Spec, counts, packets

-----------------------------------------------------------------------------
(* The character device: what is registered is a beginning of what init     *)
(* registers; until somebody opens it too early, the mutex is held exactly  *)
(* while one process has the device open; the buffer has the text stored    *)
(* last, and a reader has the beginning of it.                              *)
DevCell == CellsOf(DeviceTexts) \cup {Nothing}
DevTypes ==
  /\ locked \in BOOLEAN /\ early \in BOOLEAN
  /\ kbuf \in [1 .. BUF_SIZE -> DevCell] /\ data_size \in 0 .. BUF_SIZE - 1
  /\ devPc \in [Callers -> {"closed", "cat", "tee", "eof", "reading", "writing"}]
  /\ off \in [Callers -> 0 .. BUF_SIZE - 1]
  /\ asked \in [Callers -> 0 .. BUF_SIZE - 1] /\ copied \in [Callers -> 0 .. BUF_SIZE - 1]
  /\ rest \in [Callers -> Seq(DevCell)] /\ devGot \in [Callers -> Seq(DevCell)]
  /\ stored \in Seq(DevCell)
InBuffer ==
  \A p \in Callers :
    /\ copied[p] <= asked[p]
    /\ devPc[p] = "reading" => off[p] + asked[p] <= BUF_SIZE - 1
    /\ devPc[p] = "writing" => asked[p] <= Len(rest[p])

AllMade == {"region", "cdev", "class", "device", "kbuf"}
Beginnings ==
  {{}, {"region"}, {"region", "cdev"}, {"region", "cdev", "class"},
   {"region", "cdev", "class", "device"}, AllMade}
Registered ==
  /\ devModule \in {"absent", "coming", "live"} /\ devMade \in Beginnings
  /\ devModule = "absent" => devMade = {}
  /\ devModule = "live" => devMade = AllMade

OneAtATime ==
  ~early =>
    /\ locked <=> \E p \in Callers : devPc[p] # "closed"
    /\ \A p, q \in Callers : devPc[p] # "closed" /\ devPc[q] # "closed" => p = q
    /\ devModule # "live" => \A p \in Callers : devPc[p] = "closed"

InKbuf == Len(stored) = data_size /\ \A i \in 1 .. data_size : kbuf[i] = stored[i]
CellsRead(p) == IF devPc[p] = "reading" THEN off[p] + copied[p] ELSE off[p]
HasRead(p) ==
  /\ CellsRead(p) <= data_size
  /\ Len(devGot[p]) = CellsRead(p) /\ \A i \in 1 .. CellsRead(p) : devGot[p][i] = stored[i]
  /\ devPc[p] = "reading" => off[p] + asked[p] <= data_size
  /\ devPc[p] = "eof" => off[p] = data_size
HasWritten(p) == \A i \in 1 .. copied[p] : kbuf[i] = rest[p][i]
Unmixed ==
  ~early =>
    /\ (\A p \in Callers : devPc[p] # "writing") => InKbuf
    /\ \A p \in Callers : devPc[p] \in {"cat", "reading", "eof"} => HasRead(p)
    /\ \A p \in Callers : devPc[p] = "writing" => HasWritten(p)
DeviceInv == DevTypes /\ InBuffer /\ Registered /\ OneAtATime /\ Unmixed

LEMMA DeviceStarts == Device!Init => DeviceInv
<1> SUFFICES ASSUME Device!Init PROVE DeviceInv
  OBVIOUS
<1>1. <<>> \in Seq(DevCell) /\ Len(<<>>) = 0 /\ BUF_SIZE - 1 \in Nat
  BY BufferAssumption
<1>2. DevTypes
  <2>1. locked \in BOOLEAN /\ early \in BOOLEAN
    BY DEF Device!Init
  <2>2. kbuf \in [1 .. BUF_SIZE -> DevCell]
    BY DEF Device!Init, Device!Empty, DevCell
  <2>3. data_size \in 0 .. BUF_SIZE - 1
    BY <1>1 DEF Device!Init
  <2>4. devPc \in [Callers -> {"closed", "cat", "tee", "eof", "reading", "writing"}]
    BY DEF Device!Init
  <2>5. /\ off \in [Callers -> 0 .. BUF_SIZE - 1] /\ asked \in [Callers -> 0 .. BUF_SIZE - 1]
        /\ copied \in [Callers -> 0 .. BUF_SIZE - 1]
    BY <1>1 DEF Device!Init
  <2>6. rest \in [Callers -> Seq(DevCell)] /\ devGot \in [Callers -> Seq(DevCell)]
    BY <1>1 DEF Device!Init
  <2>7. stored \in Seq(DevCell)
    BY <1>1 DEF Device!Init
  <2> QED
    BY <2>1, <2>2, <2>3, <2>4, <2>5, <2>6, <2>7 DEF DevTypes
<1>3. \A p \in Callers : devPc[p] = "closed" /\ copied[p] = 0 /\ asked[p] = 0
  BY DEF Device!Init
<1>4. InBuffer
  BY <1>3 DEF InBuffer
<1>5. Registered
  BY DEF Device!Init, Registered, Beginnings
<1>6. OneAtATime
  BY <1>3 DEF Device!Init, OneAtATime
<1>7. Unmixed
  BY <1>1, <1>3 DEF Device!Init, Unmixed, InKbuf
<1> QED
  BY <1>2, <1>4, <1>5, <1>6, <1>7 DEF DeviceInv

-----------------------------------------------------------------------------
(* What is registered.                                                      *)
LEMMA BeginningsCounted ==
  /\ Device!Cardinality({}) = 0 /\ Device!Cardinality({"region"}) = 1
  /\ Device!Cardinality({"region", "cdev"}) = 2
  /\ Device!Cardinality({"region", "cdev", "class"}) = 3
  /\ Device!Cardinality({"region", "cdev", "class", "device"}) = 4
  /\ Device!Cardinality(AllMade) = 5
<1>0. \A S : Device!Cardinality(S) = Cardinality(S)
  BY DEF Device!Cardinality, Cardinality
<1>1. IsFiniteSet({}) /\ Cardinality({}) = 0
  BY FS_EmptySet
<1> DEFINE a == {} \cup {"region"}
           b == a \cup {"cdev"}
           c == b \cup {"class"}
           d == c \cup {"device"}
           e == d \cup {"kbuf"}
<1>2. IsFiniteSet(a) /\ Cardinality(a) = 1
  BY <1>1, FS_AddElement
<1>3. "cdev" \notin a /\ "class" \notin b /\ "device" \notin c /\ "kbuf" \notin d
  OBVIOUS
<1>4. /\ a = {"region"} /\ b = {"region", "cdev"} /\ c = {"region", "cdev", "class"}
      /\ d = {"region", "cdev", "class", "device"} /\ e = AllMade
  BY DEF AllMade
<1> HIDE DEF a
<1>5. IsFiniteSet(b) /\ Cardinality(b) = 2
  BY <1>2, <1>3, FS_AddElement
<1> HIDE DEF b
<1>6. IsFiniteSet(c) /\ Cardinality(c) = 3
  BY <1>3, <1>5, FS_AddElement
<1> HIDE DEF c
<1>7. IsFiniteSet(d) /\ Cardinality(d) = 4
  BY <1>3, <1>6, FS_AddElement
<1> HIDE DEF d
<1>8. IsFiniteSet(e) /\ Cardinality(e) = 5
  BY <1>3, <1>7, FS_AddElement
<1> HIDE DEF e
<1> QED
  BY <1>0, <1>1, <1>2, <1>4, <1>5, <1>6, <1>7, <1>8

LEMMA RegisteredStep == DeviceInv /\ Device!Next => Registered'
<1> SUFFICES ASSUME DeviceInv, Device!Next PROVE Registered'
  OBVIOUS
<1>0. Registered
  BY DEF DeviceInv
<1>1. CASE Device!Insmod
  BY <1>0, <1>1 DEF Registered, Device!Insmod
<1>2. CASE Device!InitStep
  <2>1. /\ devModule = "coming" /\ devModule' = "coming" /\ Device!Stage < 5
        /\ devMade' = devMade \cup {Device!Order[Device!Stage + 1]}
    BY <1>2 DEF Device!InitStep, Device!Order
  <2>2. devMade' \in Beginnings
    <3> USE <2>1, BeginningsCounted DEF Device!Stage, Device!Order, Beginnings, AllMade
    <3>1. CASE devMade = {}
      BY <3>1
    <3>2. CASE devMade = {"region"}
      BY <3>2
    <3>3. CASE devMade = {"region", "cdev"}
      BY <3>3
    <3>4. CASE devMade = {"region", "cdev", "class"}
      BY <3>4
    <3>5. CASE devMade = {"region", "cdev", "class", "device"}
      BY <3>5
    <3>6. CASE devMade = AllMade
      BY <3>6
    <3> QED
      BY <1>0, <3>1, <3>2, <3>3, <3>4, <3>5, <3>6 DEF Registered
  <2> QED
    BY <2>1, <2>2 DEF Registered
<1>3. CASE Device!InitFails
  <2>1. /\ devModule = "coming" /\ devModule' = "absent" /\ Device!Stage < 5
        /\ devMade' = devMade \ Device!Undone
    BY <1>3 DEF Device!InitFails, Device!Order
  <2>2. devMade' = {}
    <3> USE <2>1, BeginningsCounted DEF Device!Stage, Device!Undone, Beginnings, AllMade
    <3>1. CASE devMade = {}
      BY <3>1
    <3>2. CASE devMade = {"region"}
      BY <3>2
    <3>3. CASE devMade = {"region", "cdev"}
      BY <3>3
    <3>4. CASE devMade = {"region", "cdev", "class"}
      BY <3>4
    <3>5. CASE devMade = {"region", "cdev", "class", "device"}
      BY <3>5
    <3>6. CASE devMade = AllMade
      BY <3>6
    <3> QED
      BY <1>0, <3>1, <3>2, <3>3, <3>4, <3>5, <3>6 DEF Registered
  <2> QED
    BY <2>1, <2>2 DEF Registered, Beginnings
<1>4. CASE Device!InitDone
  <2>1. devModule' = "live" /\ devMade' = devMade /\ Device!Stage = 5
    BY <1>4 DEF Device!InitDone, Device!Order
  <2>2. devMade = AllMade
    BY <1>0, <2>1, BeginningsCounted DEF Device!Stage, Beginnings, Registered
  <2> QED
    BY <2>1, <2>2 DEF Registered, Beginnings
<1>5. CASE Device!Rmmod
  BY <1>5 DEF Registered, Device!Rmmod, Beginnings
<1>6. ASSUME NEW p \in Callers, Device!Call(p) PROVE Registered'
  <2>1. devModule' = devModule /\ devMade' = devMade
    BY <1>6 DEF Device!Call, Device!dev_open, Device!BeginRead, Device!CopyOut, Device!EndRead,
                Device!BeginWrite, Device!CopyIn, Device!EndWrite, Device!dev_release, Device!kernel
  <2> QED
    BY <1>0, <2>1 DEF Registered
<1> QED
  BY <1>1, <1>2, <1>3, <1>4, <1>5, <1>6 DEF Device!Next, Device!Load

-----------------------------------------------------------------------------
(* The buffer and the mutex.                                                *)
LEMMA DevTypesStep == DeviceInv /\ Device!Next => DevTypes' /\ InBuffer'
<1> SUFFICES ASSUME DeviceInv, Device!Next PROVE DevTypes' /\ InBuffer'
  OBVIOUS
<1>0. DevTypes /\ InBuffer /\ BUF_SIZE \in Nat /\ BUF_SIZE - 1 \in Nat /\ 0 \in 0 .. BUF_SIZE - 1
  BY BufferAssumption DEF DeviceInv
<1>e. <<>> \in Seq(DevCell)
  OBVIOUS
<1> DEFINE Still == /\ UNCHANGED <<devPc, off, rest, asked, copied, devGot>>
<1>s. ASSUME Still, locked' \in BOOLEAN, early' \in BOOLEAN, stored' \in Seq(DevCell),
             kbuf' \in [1 .. BUF_SIZE -> DevCell], data_size' \in 0 .. BUF_SIZE - 1
      PROVE  DevTypes' /\ InBuffer'
  BY <1>0, <1>s DEF DevTypes, InBuffer
<1>1. CASE Device!Insmod
  <2>1. kbuf' \in [1 .. BUF_SIZE -> DevCell]
    BY <1>1 DEF Device!Insmod, Device!Empty, DevCell
  <2>2. /\ Still /\ locked' = FALSE /\ early' = FALSE /\ stored' = <<>> /\ data_size' = 0
    BY <1>1 DEF Device!Insmod, Device!process
  <2> QED
    BY <1>0, <1>e, <1>s, <2>1, <2>2
<1>2. CASE Device!InitStep \/ Device!InitFails \/ Device!Rmmod
  <2>1. Still /\ UNCHANGED <<locked, early, stored, kbuf, data_size>>
    BY <1>2 DEF Device!InitStep, Device!InitFails, Device!Rmmod, Device!process, Device!memory
  <2> QED
    BY <1>0, <1>s, <2>1 DEF DevTypes
<1>3. CASE Device!InitDone
  <2>1. Still /\ UNCHANGED <<early, kbuf>> /\ locked' = FALSE /\ stored' = <<>> /\ data_size' = 0
    BY <1>3 DEF Device!InitDone, Device!process
  <2> QED
    BY <1>0, <1>e, <1>s, <2>1 DEF DevTypes
<1>4. ASSUME NEW p \in Callers, NEW t \in DeviceTexts \cup {<<>>}, Device!dev_open(p, t)
      PROVE  DevTypes' /\ InBuffer'
  <2>1. t \in Seq(DevCell)
    <3>1. \A u \in DeviceTexts : u \in Seq(CellsOf(DeviceTexts))
      BY TextsAssumption
    <3>2. \A u \in Seq(CellsOf(DeviceTexts)) : u \in Seq(DevCell)
      BY DEF DevCell
    <3> QED
      BY <1>e, <3>1, <3>2
  <2>2. /\ devPc' = [devPc EXCEPT ![p] = IF t = <<>> THEN "cat" ELSE "tee"]
        /\ off' = [off EXCEPT ![p] = 0] /\ rest' = [rest EXCEPT ![p] = t]
        /\ devGot' = [devGot EXCEPT ![p] = <<>>] /\ locked' = TRUE
        /\ UNCHANGED <<kbuf, data_size, asked, copied, stored>>
    BY <1>4 DEF Device!dev_open, Device!Goto
  <2>3. early' \in BOOLEAN
    BY <1>4 DEF Device!dev_open
  <2>4. DevTypes'
    <3>1. rest' \in [Callers -> Seq(DevCell)] /\ devGot' \in [Callers -> Seq(DevCell)]
      BY <1>0, <1>e, <2>1, <2>2 DEF DevTypes
    <3>2. /\ off' \in [Callers -> 0 .. BUF_SIZE - 1]
          /\ devPc' \in [Callers -> {"closed", "cat", "tee", "eof", "reading", "writing"}]
      BY <1>0, <2>2 DEF DevTypes
    <3> QED
      BY <1>0, <2>2, <2>3, <3>1, <3>2 DEF DevTypes
  <2>5. InBuffer'
    BY <1>0, <2>2 DEF InBuffer, DevTypes
  <2> QED
    BY <2>4, <2>5
<1>5. ASSUME NEW p \in Callers, NEW l \in 1 .. MaxRead, Device!BeginRead(p, l)
      PROVE  DevTypes' /\ InBuffer'
  <2>0. UNCHANGED <<locked, early, stored, kbuf, data_size, off, rest, devGot>>
    BY <1>5 DEF Device!BeginRead, Device!memory
  <2>1. CASE off[p] >= data_size
    <3>1. devPc' = [devPc EXCEPT ![p] = "eof"] /\ UNCHANGED <<asked, copied>>
      BY <1>5, <2>1 DEF Device!BeginRead, Device!Goto
    <3> QED
      BY <1>0, <2>0, <3>1 DEF DevTypes, InBuffer
  <2>2. CASE ~(off[p] >= data_size)
    <3> DEFINE a == Device!LeastOf(data_size - off[p], l)
    <3>1. /\ devPc' = [devPc EXCEPT ![p] = "reading"]
          /\ asked' = [asked EXCEPT ![p] = a] /\ copied' = [copied EXCEPT ![p] = 0]
      BY <1>5, <2>2 DEF Device!BeginRead, Device!Goto
    <3>2. /\ data_size \in Nat /\ data_size <= BUF_SIZE - 1 /\ off[p] \in Nat /\ l \in Nat
          /\ data_size - off[p] \in Nat
      BY <1>0, <2>2 DEF DevTypes
    <3>3. a \in 0 .. BUF_SIZE - 1 /\ off[p] + a <= BUF_SIZE - 1
      BY <1>0, <3>2 DEF Device!LeastOf
    <3> HIDE DEF a
    <3>4. DevTypes'
      <4>1. asked' \in [Callers -> 0 .. BUF_SIZE - 1] /\ copied' \in [Callers -> 0 .. BUF_SIZE - 1]
        BY <1>0, <3>1, <3>3 DEF DevTypes
      <4>2. devPc' \in [Callers -> {"closed", "cat", "tee", "eof", "reading", "writing"}]
        BY <1>0, <3>1 DEF DevTypes
      <4> QED
        BY <1>0, <2>0, <4>1, <4>2 DEF DevTypes
    <3>5. InBuffer'
      BY <1>0, <2>0, <3>1, <3>3 DEF InBuffer, DevTypes
    <3> QED
      BY <3>4, <3>5
  <2> QED
    BY <2>1, <2>2
<1>6. ASSUME NEW p \in Callers, Device!CopyOut(p) PROVE DevTypes' /\ InBuffer'
  <2> DEFINE c == kbuf[off[p] + copied[p] + 1]
  <2>1. /\ devPc[p] = "reading" /\ copied[p] < asked[p]
        /\ devGot' = [devGot EXCEPT ![p] = Append(@, c)] /\ copied' = [copied EXCEPT ![p] = @ + 1]
        /\ UNCHANGED <<locked, early, stored, kbuf, data_size, devPc, off, rest, asked>>
    BY <1>6 DEF Device!CopyOut, Device!memory
  <2>2. /\ off[p] \in Nat /\ copied[p] \in Nat /\ asked[p] \in Nat
        /\ off[p] + asked[p] <= BUF_SIZE - 1 /\ asked[p] <= BUF_SIZE - 1
    BY <1>0, <2>1 DEF DevTypes, InBuffer
  <2>3. off[p] + copied[p] + 1 \in 1 .. BUF_SIZE /\ copied[p] + 1 \in 0 .. BUF_SIZE - 1
        /\ copied[p] + 1 <= asked[p]
    <3>1. copied[p] + 1 <= asked[p]
      BY <2>1, <2>2
    <3>2. off[p] + copied[p] + 1 \in 1 .. BUF_SIZE
      BY <1>0, <2>2, <3>1
    <3>3. copied[p] + 1 \in 0 .. BUF_SIZE - 1
      BY <1>0, <2>2, <3>1
    <3> QED
      BY <3>1, <3>2, <3>3
  <2>4. c \in DevCell
    BY <1>0, <2>3 DEF DevTypes
  <2> HIDE DEF c
  <2>5. devGot' \in [Callers -> Seq(DevCell)]
    <3>1. Append(devGot[p], c) \in Seq(DevCell)
      BY <1>0, <2>4 DEF DevTypes
    <3> QED
      BY <1>0, <2>1, <3>1 DEF DevTypes
  <2>6. copied' \in [Callers -> 0 .. BUF_SIZE - 1]
    BY <1>0, <2>1, <2>3 DEF DevTypes
  <2> QED
    BY <1>0, <2>1, <2>3, <2>5, <2>6 DEF DevTypes, InBuffer
<1>7. ASSUME NEW p \in Callers, Device!EndRead(p) PROVE DevTypes' /\ InBuffer'
  <2>1. /\ devPc[p] = "reading" /\ copied[p] = asked[p]
        /\ off' = [off EXCEPT ![p] = @ + asked[p]] /\ devPc' = [devPc EXCEPT ![p] = "cat"]
        /\ UNCHANGED <<locked, early, stored, kbuf, data_size, rest, asked, copied, devGot>>
    BY <1>7 DEF Device!EndRead, Device!memory, Device!Goto
  <2>2. off[p] + asked[p] \in 0 .. BUF_SIZE - 1
    BY <1>0, <2>1 DEF DevTypes, InBuffer
  <2>3. off' \in [Callers -> 0 .. BUF_SIZE - 1]
    BY <1>0, <2>1, <2>2 DEF DevTypes
  <2>4. devPc' \in [Callers -> {"closed", "cat", "tee", "eof", "reading", "writing"}]
    BY <1>0, <2>1 DEF DevTypes
  <2>5. DevTypes'
    BY <1>0, <2>1, <2>3, <2>4 DEF DevTypes
  <2>6. \A q \in Callers : q # p => off'[q] = off[q] /\ devPc'[q] = devPc[q]
    BY <1>0, <2>1 DEF DevTypes
  <2>7. devPc'[p] = "cat"
    BY <1>0, <2>1 DEF DevTypes
  <2>8. InBuffer'
    BY <1>0, <2>1, <2>6, <2>7 DEF InBuffer
  <2> QED
    BY <2>5, <2>8
<1>8. ASSUME NEW p \in Callers, Device!BeginWrite(p) PROVE DevTypes' /\ InBuffer'
  <2>0. UNCHANGED <<early, stored, kbuf, data_size, off, rest, devGot>>
    BY <1>8 DEF Device!BeginWrite
  <2>1. CASE "kbuf" \in devMade
    <3> DEFINE a == Device!Taken(Len(rest[p]))
    <3>1. /\ devPc' = [devPc EXCEPT ![p] = "writing"] /\ UNCHANGED locked
          /\ asked' = [asked EXCEPT ![p] = a] /\ copied' = [copied EXCEPT ![p] = 0]
      BY <1>8, <2>1 DEF Device!BeginWrite, Device!Goto
    <3>2. Len(rest[p]) \in Nat
      BY <1>0 DEF DevTypes
    <3>3. a \in 0 .. BUF_SIZE - 1 /\ a <= Len(rest[p])
      BY <1>0, <3>2 DEF Device!LeastOf, Device!Taken
    <3> HIDE DEF a
    <3>4. asked' \in [Callers -> 0 .. BUF_SIZE - 1] /\ copied' \in [Callers -> 0 .. BUF_SIZE - 1]
      BY <1>0, <3>1, <3>3 DEF DevTypes
    <3>5. devPc' \in [Callers -> {"closed", "cat", "tee", "eof", "reading", "writing"}]
      BY <1>0, <3>1 DEF DevTypes
    <3>6. DevTypes'
      BY <1>0, <2>0, <3>1, <3>4, <3>5 DEF DevTypes
    <3>7. InBuffer'
      BY <1>0, <2>0, <3>1, <3>3 DEF InBuffer, DevTypes
    <3> QED
      BY <3>6, <3>7
  <2>2. CASE "kbuf" \notin devMade
    <3>1. devPc' = [devPc EXCEPT ![p] = "closed"] /\ locked' = FALSE /\ UNCHANGED <<asked, copied>>
      BY <1>8, <2>2 DEF Device!BeginWrite, Device!Goto, Device!Release
    <3> QED
      BY <1>0, <2>0, <3>1 DEF DevTypes, InBuffer
  <2> QED
    BY <2>1, <2>2
<1>9. ASSUME NEW p \in Callers, Device!CopyIn(p) PROVE DevTypes' /\ InBuffer'
  <2>1. /\ devPc[p] = "writing" /\ copied[p] < asked[p]
        /\ kbuf' = [kbuf EXCEPT ![copied[p] + 1] = rest[p][copied[p] + 1]]
        /\ copied' = [copied EXCEPT ![p] = @ + 1]
        /\ UNCHANGED <<locked, early, stored, data_size, devPc, off, rest, asked, devGot>>
    BY <1>9 DEF Device!CopyIn
  <2>2. /\ copied[p] \in Nat /\ asked[p] \in Nat /\ asked[p] <= BUF_SIZE - 1
        /\ asked[p] <= Len(rest[p]) /\ rest[p] \in Seq(DevCell) /\ Len(rest[p]) \in Nat
    BY <1>0, <2>1 DEF DevTypes, InBuffer
  <2>3. /\ copied[p] + 1 \in 1 .. Len(rest[p]) /\ copied[p] + 1 \in 0 .. BUF_SIZE - 1
        /\ copied[p] + 1 <= asked[p]
    BY <1>0, <2>1, <2>2
  <2>4. rest[p][copied[p] + 1] \in DevCell
    BY <2>2, <2>3
  <2>5. kbuf' \in [1 .. BUF_SIZE -> DevCell] /\ copied' \in [Callers -> 0 .. BUF_SIZE - 1]
    BY <1>0, <2>1, <2>3, <2>4 DEF DevTypes
  <2> QED
    BY <1>0, <2>1, <2>3, <2>5 DEF DevTypes, InBuffer
<1>10. ASSUME NEW p \in Callers, Device!EndWrite(p) PROVE DevTypes' /\ InBuffer'
  <2>1. /\ devPc[p] = "writing" /\ copied[p] = asked[p]
        /\ kbuf' = [kbuf EXCEPT ![asked[p] + 1] = Nothing] /\ data_size' = asked[p]
        /\ stored' = SubSeq(rest[p], 1, asked[p])
        /\ rest' = [rest EXCEPT ![p] = SubSeq(@, asked[p] + 1, Len(@))]
        /\ devPc' = [devPc EXCEPT ![p] = "tee"]
        /\ UNCHANGED <<locked, early, off, asked, copied, devGot>>
    BY <1>10 DEF Device!EndWrite, Device!Goto
  <2>2. /\ asked[p] \in 0 .. BUF_SIZE - 1 /\ asked[p] <= Len(rest[p])
        /\ rest[p] \in Seq(DevCell) /\ Len(rest[p]) \in Nat
    BY <1>0, <2>1 DEF DevTypes, InBuffer
  <2>3. SubSeq(rest[p], 1, asked[p]) \in Seq(DevCell)
    BY <2>2
  <2>4. SubSeq(rest[p], asked[p] + 1, Len(rest[p])) \in Seq(DevCell)
    BY <2>2
  <2>5. kbuf' \in [1 .. BUF_SIZE -> DevCell]
    BY <1>0, <2>1 DEF DevTypes, DevCell
  <2>6. rest' \in [Callers -> Seq(DevCell)]
    BY <1>0, <2>1, <2>4 DEF DevTypes
  <2>7. devPc' \in [Callers -> {"closed", "cat", "tee", "eof", "reading", "writing"}]
    BY <1>0, <2>1 DEF DevTypes
  <2>8. DevTypes'
    BY <1>0, <2>1, <2>2, <2>3, <2>5, <2>6, <2>7 DEF DevTypes
  <2>9. \A q \in Callers : q # p => rest'[q] = rest[q] /\ devPc'[q] = devPc[q]
    BY <1>0, <2>1 DEF DevTypes
  <2>10. devPc'[p] = "tee"
    BY <1>0, <2>1 DEF DevTypes
  <2>11. InBuffer'
    BY <1>0, <2>1, <2>9, <2>10 DEF InBuffer
  <2> QED
    BY <2>8, <2>11
<1>11. ASSUME NEW p \in Callers, Device!dev_release(p) PROVE DevTypes' /\ InBuffer'
  <2>1. /\ devPc' = [devPc EXCEPT ![p] = "closed"] /\ locked' = FALSE
        /\ UNCHANGED <<early, stored, kbuf, data_size, off, rest, asked, copied, devGot>>
    BY <1>11 DEF Device!dev_release, Device!Release, Device!Goto
  <2> QED
    BY <1>0, <2>1 DEF DevTypes, InBuffer
<1> QED
  BY <1>1, <1>2, <1>3, <1>4, <1>5, <1>6, <1>7, <1>8, <1>9, <1>10, <1>11
  DEF Device!Next, Device!Load, Device!Call

(* Only what opens and releases the device touches the mutex.               *)
LEMMA OneAtATimeStep == DeviceInv /\ Device!Next => OneAtATime'
<1> SUFFICES ASSUME DeviceInv, Device!Next, ~early' PROVE OneAtATime'
  BY DEF OneAtATime
<1>0. /\ devPc \in [Callers -> {"closed", "cat", "tee", "eof", "reading", "writing"}]
      /\ devModule \in {"absent", "coming", "live"} /\ OneAtATime
  BY DEF DeviceInv, DevTypes, Registered
<1> USE DEF OneAtATime, Device!Goto, Device!process, Device!memory, Device!kernel
<1>1. CASE Device!Insmod
  BY <1>0, <1>1 DEF Device!Insmod, Device!Pinned
<1>2. CASE Device!InitStep
  BY <1>0, <1>2 DEF Device!InitStep
<1>3. CASE Device!InitFails
  BY <1>0, <1>3 DEF Device!InitFails
<1>4. CASE Device!InitDone
  BY <1>0, <1>4 DEF Device!InitDone
<1>5. CASE Device!Rmmod
  BY <1>0, <1>5 DEF Device!Rmmod, Device!Pinned
<1>6. ASSUME NEW p \in Callers, NEW t \in DeviceTexts \cup {<<>>}, Device!dev_open(p, t)
      PROVE  OneAtATime'
  <2>1. /\ ~early /\ devModule = "live" /\ devModule' = "live" /\ ~locked /\ locked' = TRUE
        /\ devPc' = [devPc EXCEPT ![p] = IF t = <<>> THEN "cat" ELSE "tee"]
    BY <1>6 DEF Device!dev_open, Device!Trylock
  <2>2. \A q \in Callers : devPc[q] = "closed"
    BY <1>0, <2>1
  <2>3. devPc'[p] # "closed" /\ \A q \in Callers \ {p} : devPc'[q] = "closed"
    BY <1>0, <2>1, <2>2
  <2> QED
    BY <2>1, <2>3
<1>7. ASSUME NEW p \in Callers, devPc[p] # "closed", Device!Release(p), UNCHANGED <<early, devModule>>
      PROVE  OneAtATime'
  <2>1. locked' = FALSE /\ devPc' = [devPc EXCEPT ![p] = "closed"]
    BY <1>7 DEF Device!Release
  <2>2. \A q \in Callers \ {p} : devPc[q] = "closed"
    BY <1>0, <1>7
  <2>3. \A q \in Callers : devPc'[q] = "closed"
    BY <1>0, <2>1, <2>2
  <2> QED
    BY <1>0, <1>7, <2>1, <2>3
<1>8. ASSUME UNCHANGED <<locked, early, devModule>>,
             \A q \in Callers : devPc'[q] = "closed" <=> devPc[q] = "closed"
      PROVE  OneAtATime'
  BY <1>0, <1>8
<1>9. ASSUME NEW p \in Callers, NEW l \in 1 .. MaxRead, Device!BeginRead(p, l) PROVE OneAtATime'
  <2>1. /\ devPc[p] = "cat" /\ UNCHANGED <<locked, early, devModule>>
        /\ \/ devPc' = [devPc EXCEPT ![p] = "eof"]
           \/ devPc' = [devPc EXCEPT ![p] = "reading"]
    BY <1>9 DEF Device!BeginRead
  <2> QED
    BY <1>0, <1>8, <2>1
<1>10. ASSUME NEW p \in Callers, Device!BeginWrite(p) PROVE OneAtATime'
  <2>1. devPc[p] = "tee" /\ UNCHANGED <<early, devModule>>
    BY <1>10 DEF Device!BeginWrite
  <2>2. CASE "kbuf" \in devMade
    <3>1. devPc' = [devPc EXCEPT ![p] = "writing"] /\ UNCHANGED locked
      BY <1>10, <2>2 DEF Device!BeginWrite
    <3> QED
      BY <1>0, <1>8, <2>1, <3>1
  <2>3. CASE "kbuf" \notin devMade
    BY <1>7, <1>10, <2>1, <2>3 DEF Device!BeginWrite
  <2> QED
    BY <2>2, <2>3
<1>11. ASSUME NEW p \in Callers, Device!CopyOut(p) \/ Device!CopyIn(p) PROVE OneAtATime'
  BY <1>8, <1>11 DEF Device!CopyOut, Device!CopyIn
<1>12. ASSUME NEW p \in Callers, Device!EndRead(p) \/ Device!EndWrite(p) PROVE OneAtATime'
  <2>1. /\ devPc[p] # "closed" /\ UNCHANGED <<locked, early, devModule>>
        /\ devPc' = [devPc EXCEPT ![p] = "cat"] \/ devPc' = [devPc EXCEPT ![p] = "tee"]
    BY <1>12 DEF Device!EndRead, Device!EndWrite
  <2> QED
    BY <1>0, <1>8, <2>1
<1>13. ASSUME NEW p \in Callers, Device!dev_release(p) PROVE OneAtATime'
  BY <1>7, <1>13 DEF Device!dev_release
<1> QED
  BY <1>1, <1>2, <1>3, <1>4, <1>5, <1>6, <1>9, <1>10, <1>11, <1>12, <1>13
  DEF Device!Next, Device!Load, Device!Call

(* While one process has the device open nobody else touches its buffer.    *)
LEMMA UnmixedStep == DeviceInv /\ Device!Next => Unmixed'
<1> SUFFICES ASSUME DeviceInv, Device!Next, ~early' PROVE Unmixed'
  BY DEF Unmixed
<1>0. DevTypes /\ InBuffer /\ Registered /\ OneAtATime /\ Unmixed
  BY DEF DeviceInv
<1>t. /\ devPc \in [Callers -> {"closed", "cat", "tee", "eof", "reading", "writing"}]
      /\ kbuf \in [1 .. BUF_SIZE -> DevCell] /\ data_size \in 0 .. BUF_SIZE - 1
      /\ off \in [Callers -> 0 .. BUF_SIZE - 1] /\ asked \in [Callers -> 0 .. BUF_SIZE - 1]
      /\ copied \in [Callers -> 0 .. BUF_SIZE - 1]
      /\ rest \in [Callers -> Seq(DevCell)] /\ devGot \in [Callers -> Seq(DevCell)]
      /\ stored \in Seq(DevCell) /\ BUF_SIZE \in Nat /\ BUF_SIZE > 1
  BY <1>0, BufferAssumption DEF DevTypes
<1>g. ~early =>
        /\ (\A p \in Callers : devPc[p] # "writing") => InKbuf
        /\ \A p \in Callers : devPc[p] \in {"cat", "reading", "eof"} => HasRead(p)
        /\ \A p \in Callers : devPc[p] = "writing" => HasWritten(p)
  BY <1>0 DEF Unmixed
<1>o. ~early =>
        /\ \A p, q \in Callers : devPc[p] # "closed" /\ devPc[q] # "closed" => p = q
        /\ devModule # "live" => \A p \in Callers : devPc[p] = "closed"
  BY <1>0 DEF OneAtATime
<1> USE DEF Device!Goto, Device!process, Device!memory, Device!kernel
(* The kernel empties the buffer, or leaves it alone. *)
<1>1. ASSUME \A p \in Callers : devPc'[p] = "closed", data_size' = 0, stored' = <<>> PROVE Unmixed'
  <2>1. InKbuf'
    BY <1>1 DEF InKbuf
  <2> QED
    BY <1>1, <2>1 DEF Unmixed
<1>2. CASE Device!Insmod
  BY <1>1, <1>2 DEF Device!Insmod, Device!Pinned
<1>3. CASE Device!InitDone
  BY <1>1, <1>3, <1>o DEF Device!InitDone
<1>4. CASE Device!InitStep \/ Device!InitFails \/ Device!Rmmod
  <2>1. /\ ~early
        /\ UNCHANGED <<kbuf, data_size, devPc, off, rest, asked, copied, devGot, stored>>
    BY <1>4 DEF Device!InitStep, Device!InitFails, Device!Rmmod
  <2>2. (InKbuf => InKbuf') /\ \A p \in Callers : (HasRead(p) => HasRead(p)') /\ (HasWritten(p) => HasWritten(p)')
    BY <2>1 DEF InKbuf, HasRead, HasWritten, CellsRead
  <2> QED
    BY <1>g, <2>1, <2>2 DEF Unmixed
<1>5. ASSUME NEW p \in Callers, NEW t \in DeviceTexts \cup {<<>>}, Device!dev_open(p, t) PROVE Unmixed'
  <2>1. /\ ~early /\ ~locked /\ devPc' = [devPc EXCEPT ![p] = IF t = <<>> THEN "cat" ELSE "tee"]
        /\ off'[p] = 0 /\ devGot'[p] = <<>> /\ UNCHANGED <<kbuf, data_size, stored>>
    BY <1>t, <1>5 DEF Device!dev_open, Device!Trylock
  <2>2. \A q \in Callers : devPc[q] = "closed"
    BY <1>0, <2>1 DEF OneAtATime
  <2>3. devPc'[p] \in {"cat", "tee"} /\ \A q \in Callers \ {p} : devPc'[q] = "closed"
    BY <1>t, <2>1, <2>2
  <2>4. InKbuf'
    BY <1>g, <2>1, <2>2 DEF InKbuf
  <2>5. HasRead(p)'
    BY <1>t, <2>1, <2>3 DEF HasRead, CellsRead
  <2> QED
    BY <2>3, <2>4, <2>5 DEF Unmixed
(* What a call of p leaves to be shown. *)
<1>6. ASSUME NEW p \in Callers, Device!Call(p), devPc[p] # "closed",
             early' = early, \A q \in Callers \ {p} : devPc'[q] = devPc[q],
             devPc'[p] # "writing" => InKbuf',
             devPc'[p] \in {"cat", "reading", "eof"} => HasRead(p)',
             devPc'[p] = "writing" => HasWritten(p)'
      PROVE  Unmixed'
  <2>1. \A q \in Callers \ {p} : devPc'[q] = "closed"
    BY <1>6, <1>o
  <2> QED
    BY <1>6, <2>1 DEF Unmixed
<1>7. ASSUME NEW p \in Callers, early' = early, devPc[p] \notin {"closed", "writing"} PROVE InKbuf
  BY <1>7, <1>g, <1>o
<1>8. ASSUME NEW p \in Callers, NEW l \in 1 .. MaxRead, Device!BeginRead(p, l), Device!Call(p) PROVE Unmixed'
  <2>1. devPc[p] = "cat" /\ UNCHANGED <<early, kbuf, data_size, off, rest, devGot, stored>>
    BY <1>8 DEF Device!BeginRead
  <2>2. InKbuf /\ HasRead(p) /\ InKbuf'
    BY <1>7, <1>g, <2>1 DEF InKbuf
  <2>3. off[p] \in Nat /\ data_size \in Nat /\ l \in Nat /\ off[p] <= data_size
    BY <1>t, <2>1, <2>2 DEF HasRead, CellsRead
  <2>4. CASE off[p] >= data_size
    <3>1. devPc' = [devPc EXCEPT ![p] = "eof"]
      BY <1>8, <2>4 DEF Device!BeginRead
    <3>2. HasRead(p)'
      BY <1>t, <2>1, <2>2, <2>3, <2>4, <3>1 DEF HasRead, CellsRead
    <3> QED
      BY <1>t, <1>6, <1>8, <2>1, <2>2, <3>1, <3>2
  <2>5. CASE ~(off[p] >= data_size)
    <3> DEFINE a == Device!LeastOf(data_size - off[p], l)
    <3>1. devPc' = [devPc EXCEPT ![p] = "reading"] /\ asked'[p] = a /\ copied'[p] = 0
      BY <1>t, <1>8, <2>5 DEF Device!BeginRead
    <3>2. off[p] + a <= data_size
      BY <2>3, <2>5 DEF Device!LeastOf
    <3> HIDE DEF a
    <3>3. devPc'[p] = "reading" /\ CellsRead(p)' = CellsRead(p)
      BY <1>t, <2>1, <2>3, <3>1 DEF CellsRead
    <3>4. HasRead(p)'
      BY <2>1, <2>2, <3>1, <3>2, <3>3 DEF HasRead
    <3> QED
      BY <1>t, <1>6, <1>8, <2>1, <2>2, <3>1, <3>3, <3>4
  <2> QED
    BY <2>4, <2>5
<1>9. ASSUME NEW p \in Callers, Device!CopyOut(p), Device!Call(p) PROVE Unmixed'
  <2> DEFINE r == off[p] + copied[p]
             c == kbuf[off[p] + copied[p] + 1]
  <2>1. /\ devPc[p] = "reading" /\ copied[p] < asked[p]
        /\ devGot'[p] = Append(devGot[p], c) /\ copied'[p] = copied[p] + 1
        /\ UNCHANGED <<early, kbuf, data_size, devPc, off, asked, stored>>
    BY <1>t, <1>9 DEF Device!CopyOut
  <2>2. InKbuf /\ HasRead(p) /\ InKbuf'
    BY <1>7, <1>g, <2>1 DEF InKbuf
  <2>3. /\ off[p] \in Nat /\ copied[p] \in Nat /\ asked[p] \in Nat /\ data_size \in Nat
        /\ devGot[p] \in Seq(DevCell)
    BY <1>t
  <2>4. /\ Len(devGot[p]) = r /\ (\A i \in 1 .. r : devGot[p][i] = stored[i])
        /\ off[p] + asked[p] <= data_size
    BY <2>1, <2>2 DEF HasRead, CellsRead
  <2>5. r \in Nat /\ r + 1 \in 1 .. data_size /\ off[p] + (copied[p] + 1) = r + 1
    <3>1. off[p] + asked[p] <= data_size /\ copied[p] < asked[p]
      BY <2>1, <2>4
    <3> QED
      BY <2>3, <3>1
  <2>6. c = stored[r + 1] /\ c \in DevCell
    <3>1. c = kbuf[r + 1] /\ r + 1 \in 1 .. BUF_SIZE
      BY <1>t, <2>5
    <3> QED
      BY <1>t, <2>2, <2>5, <3>1 DEF InKbuf
  <2> HIDE DEF r, c
  <2>7. /\ Len(Append(devGot[p], c)) = r + 1
        /\ \A i \in 1 .. r + 1 : Append(devGot[p], c)[i] = IF i <= r THEN devGot[p][i] ELSE c
    BY ONLY <2>3, <2>4, <2>5, <2>6, AppendProperties
  <2>8. \A i \in 1 .. r + 1 : devGot'[p][i] = stored[i]
    BY <2>1, <2>4, <2>5, <2>6, <2>7
  <2>9. CellsRead(p)' = r + 1
    BY <2>1, <2>5 DEF CellsRead
  <2>10. HasRead(p)'
    BY <2>1, <2>4, <2>5, <2>7, <2>8, <2>9 DEF HasRead
  <2> QED
    BY <1>6, <1>9, <2>1, <2>2, <2>10
<1>10. ASSUME NEW p \in Callers, Device!EndRead(p), Device!Call(p) PROVE Unmixed'
  <2>1. /\ devPc[p] = "reading" /\ copied[p] = asked[p] /\ off'[p] = off[p] + asked[p]
        /\ devPc' = [devPc EXCEPT ![p] = "cat"]
        /\ UNCHANGED <<early, kbuf, data_size, devGot, stored>>
    BY <1>t, <1>10 DEF Device!EndRead
  <2>2. InKbuf /\ HasRead(p) /\ InKbuf'
    BY <1>7, <1>g, <2>1 DEF InKbuf
  <2>3. devPc'[p] = "cat" /\ CellsRead(p)' = CellsRead(p)
    BY <1>t, <2>1 DEF CellsRead
  <2>4. HasRead(p)'
    BY <2>1, <2>2, <2>3 DEF HasRead
  <2> QED
    BY <1>t, <1>6, <1>10, <2>1, <2>2, <2>3, <2>4
<1>11. ASSUME NEW p \in Callers, Device!BeginWrite(p), Device!Call(p) PROVE Unmixed'
  <2>1. devPc[p] = "tee" /\ UNCHANGED <<early, kbuf, data_size, stored>>
    BY <1>11 DEF Device!BeginWrite
  <2>2. InKbuf'
    BY <1>7, <2>1 DEF InKbuf
  <2>3. CASE "kbuf" \in devMade
    <3>1. devPc' = [devPc EXCEPT ![p] = "writing"] /\ copied'[p] = 0
      BY <1>t, <1>11, <2>3 DEF Device!BeginWrite
    <3>2. HasWritten(p)'
      BY <3>1 DEF HasWritten
    <3> QED
      BY <1>t, <1>6, <1>11, <2>1, <3>1, <3>2
  <2>4. CASE "kbuf" \notin devMade
    <3>1. devPc' = [devPc EXCEPT ![p] = "closed"]
      BY <1>11, <2>4 DEF Device!BeginWrite, Device!Release
    <3> QED
      BY <1>t, <1>6, <1>11, <2>1, <2>2, <3>1
  <2> QED
    BY <2>3, <2>4
<1>12. ASSUME NEW p \in Callers, Device!CopyIn(p), Device!Call(p) PROVE Unmixed'
  <2>1. /\ devPc[p] = "writing" /\ copied[p] < asked[p]
        /\ kbuf' = [kbuf EXCEPT ![copied[p] + 1] = rest[p][copied[p] + 1]]
        /\ copied'[p] = copied[p] + 1 /\ UNCHANGED <<early, devPc, rest>>
    BY <1>t, <1>12 DEF Device!CopyIn
  <2>2. copied[p] \in Nat /\ asked[p] \in Nat /\ asked[p] <= BUF_SIZE - 1
    BY <1>t
  <2>3. HasWritten(p) /\ copied[p] + 1 \in 1 .. BUF_SIZE
    BY <1>t, <1>g, <2>1, <2>2
  <2>4. ASSUME NEW i \in 1 .. copied[p] + 1 PROVE kbuf'[i] = rest[p][i]
    <3>1. i = copied[p] + 1 \/ i \in 1 .. copied[p]
      BY <2>2
    <3>2. i \in 1 .. BUF_SIZE
      BY <1>t, <2>1, <2>2
    <3> QED
      BY <1>t, <2>1, <2>3, <3>1, <3>2 DEF HasWritten
  <2>5. HasWritten(p)'
    BY <2>1, <2>4 DEF HasWritten
  <2> QED
    BY <1>6, <1>12, <2>1, <2>5
<1>13. ASSUME NEW p \in Callers, Device!EndWrite(p), Device!Call(p) PROVE Unmixed'
  <2>1. /\ devPc[p] = "writing" /\ copied[p] = asked[p]
        /\ kbuf' = [kbuf EXCEPT ![asked[p] + 1] = Nothing] /\ data_size' = asked[p]
        /\ stored' = SubSeq(rest[p], 1, asked[p])
        /\ devPc' = [devPc EXCEPT ![p] = "tee"] /\ early' = early
    BY <1>13 DEF Device!EndWrite
  <2>2. /\ asked[p] \in Nat /\ asked[p] <= BUF_SIZE - 1 /\ asked[p] <= Len(rest[p])
        /\ rest[p] \in Seq(DevCell)
    BY <1>0, <1>t, <2>1 DEF InBuffer
  <2>3. Len(stored') = asked[p] /\ \A i \in 1 .. asked[p] : stored'[i] = rest[p][i]
    BY <2>1, <2>2
  <2>4. HasWritten(p)
    BY <1>g, <2>1
  <2>5. ASSUME NEW i \in 1 .. asked[p] PROVE kbuf'[i] = rest[p][i]
    <3>1. i \in 1 .. BUF_SIZE /\ i # asked[p] + 1
      BY <1>t, <2>2
    <3> QED
      BY <1>t, <2>1, <2>4, <3>1 DEF HasWritten
  <2>6. InKbuf'
    BY <2>1, <2>3, <2>5 DEF InKbuf
  <2>7. devPc'[p] = "tee"
    BY <1>t, <2>1
  <2> QED
    BY <1>t, <1>6, <1>13, <2>1, <2>6, <2>7
<1>14. ASSUME NEW p \in Callers, Device!dev_release(p), Device!Call(p) PROVE Unmixed'
  <2>1. /\ devPc[p] \in {"cat", "tee", "eof"} /\ devPc' = [devPc EXCEPT ![p] = "closed"]
        /\ UNCHANGED <<early, kbuf, data_size, stored>>
    BY <1>14 DEF Device!dev_release, Device!Release
  <2>2. InKbuf'
    BY <1>7, <2>1 DEF InKbuf
  <2> QED
    BY <1>t, <1>6, <1>14, <2>1, <2>2
<1> QED
  <2>1. ASSUME NEW p \in Callers, Device!Call(p) PROVE Unmixed'
    BY <1>5, <1>8, <1>9, <1>10, <1>11, <1>12, <1>13, <1>14, <2>1 DEF Device!Call
  <2> QED
    BY <1>2, <1>3, <1>4, <2>1 DEF Device!Next, Device!Load

LEMMA DeviceSteps == DeviceInv /\ Device!Next => DeviceInv'
BY DevTypesStep, RegisteredStep, OneAtATimeStep, UnmixedStep DEF DeviceInv

LEMMA DeviceTyped == DeviceInv => Device!TypeOK
<1> SUFFICES ASSUME DeviceInv PROVE Device!TypeOK
  OBVIOUS
<1>0. DevTypes /\ InBuffer /\ Registered
  BY DEF DeviceInv
<1>1. \A t \in DeviceTexts : Device!ToSet(t) = {t[i] : i \in DOMAIN t}
  BY DEF Device!ToSet
<1>2. Device!Cells = DevCell
  BY <1>1 DEF Device!Cells, DevCell, CellsOf
<1>3. devMade \subseteq Device!ToSet(Device!Order)
  <2>1. Device!ToSet(Device!Order) = {Device!Order[i] : i \in 1 .. 5}
    BY DEF Device!ToSet, Device!Order
  <2>2. /\ Device!Order[1] = "region" /\ Device!Order[2] = "cdev" /\ Device!Order[3] = "class"
        /\ Device!Order[4] = "device" /\ Device!Order[5] = "kbuf"
    BY DEF Device!Order
  <2>3. AllMade \subseteq Device!ToSet(Device!Order)
    BY <2>1, <2>2 DEF AllMade
  <2>4. devMade \subseteq AllMade
    BY <1>0 DEF Registered, Beginnings, AllMade
  <2> QED
    BY <2>3, <2>4
<1>4. \A p \in Callers :
        /\ copied[p] \in 0 .. asked[p] /\ asked[p] \in 0 .. BUF_SIZE - 1 /\ off[p] \in 0 .. BUF_SIZE - 1
        /\ rest[p] \in Seq(DevCell) /\ devGot[p] \in Seq(DevCell)
  BY <1>0, BufferAssumption DEF DevTypes, InBuffer
<1> QED
  BY <1>0, <1>2, <1>3, <1>4 DEF Device!TypeOK, DevTypes, Registered

LEMMA DeviceSound ==
  DeviceInv => /\ Device!OneOpener /\ Device!ReadsOneText
               /\ Device!CallsHaveModule /\ Device!NothingLeft
<1> SUFFICES ASSUME DeviceInv
             PROVE  /\ Device!OneOpener /\ Device!ReadsOneText
                    /\ Device!CallsHaveModule /\ Device!NothingLeft
  OBVIOUS
<1>1. Device!OneOpener /\ Device!CallsHaveModule /\ Device!NothingLeft
  BY DEF DeviceInv, OneAtATime, Registered, Device!OneOpener, Device!CallsHaveModule, Device!NothingLeft
<1>2. ASSUME ~early, NEW p \in Callers, devPc[p] = "eof" PROVE devGot[p] = stored
  <2>1. \A q \in Callers : devPc[q] # "writing"
    BY <1>2 DEF DeviceInv, OneAtATime
  <2>2. InKbuf /\ HasRead(p)
    BY <1>2, <2>1 DEF DeviceInv, Unmixed
  <2>3. /\ devGot[p] \in Seq(DevCell) /\ stored \in Seq(DevCell)
        /\ Len(devGot[p]) = Len(stored) /\ \A i \in 1 .. Len(stored) : devGot[p][i] = stored[i]
    BY <1>2, <2>2 DEF DeviceInv, DevTypes, InKbuf, HasRead, CellsRead
  <2> QED
    BY <2>3, SeqEqual
<1> QED
  BY <1>1, <1>2 DEF Device!ReadsOneText

-----------------------------------------------------------------------------
(* The proc file. temp and len never go beyond what msg holds; while calls  *)
(* have not overlapped, temp, what the reader has got and the text agree.   *)
ProcCell == CellsOf(ProcTexts) \cup {"?"}
ProcTypes ==
  /\ procModule \in {"absent", "coming", "live"}
  /\ msg \in Seq(ProcCell) /\ len \in Nat /\ temp \in Int
  /\ procPc \in [Callers -> {"idle", "open", "reads", "writes"}]
  /\ procCount \in [Callers -> Nat] /\ loaded \in [Callers -> Nat]
  /\ procGot \in [Callers -> Seq(ProcCell)] /\ procText \in Seq(ProcCell) /\ spoilt \in BOOLEAN

InMsg ==
  procModule # "absent" =>
    /\ len <= Len(msg) /\ temp <= Len(msg)
    /\ \A p \in Callers : procPc[p] \in {"reads", "writes"} => procCount[p] <= Len(msg)
    /\ \A p \in Callers : procPc[p] = "reads" => loaded[p] <= Len(msg)
Modules ==
  /\ procModule = "absent" => \A p \in Callers : procPc[p] = "idle"
  /\ procModule = "coming" =>
       /\ len = 0 /\ temp = 0
       /\ \A p \in Callers : /\ procPc[p] # "writes"
                             /\ procPc[p] = "reads" => procCount[p] = 0 /\ loaded[p] = 0
  /\ procModule = "live" => msg # <<>>
  /\ \A p \in Callers : procPc[p] = "idle" => procGot[p] = <<>>

IsText == Len(procText) = len /\ \A i \in 1 .. len : procText[i] = msg[i]
Begun(p) == IF procGot[p] = <<>> THEN len ELSE 0
Unspoilt ==
  ~spoilt /\ procModule # "absent" =>
    /\ \A p, q \in Callers : procPc[p] # "idle" /\ procPc[q] # "idle" => p = q
    /\ (\A p \in Callers : procPc[p] # "writes") => IsText
    /\ (\A p \in Callers : procPc[p] = "idle") => temp = len
    /\ \A p \in Callers :
         procPc[p] \in {"open", "reads"} =>
           temp = Begun(p) /\ (procGot[p] = <<>> \/ procGot[p] = procText)
    /\ \A p \in Callers : procPc[p] = "reads" => procCount[p] = temp /\ loaded[p] = temp
ProcInv == ProcTypes /\ InMsg /\ Modules /\ Unspoilt

LEMMA ProcStarts == Proc!Init => ProcInv
<1> SUFFICES ASSUME Proc!Init PROVE ProcInv
  OBVIOUS
<1>1. <<>> \in Seq(ProcCell)
  OBVIOUS
<1>2. ProcTypes
  <2>1. procModule \in {"absent", "coming", "live"} /\ len \in Nat /\ temp \in Int
    BY DEF Proc!Init
  <2>2. procPc \in [Callers -> {"idle", "open", "reads", "writes"}]
    BY DEF Proc!Init
  <2>3. procCount \in [Callers -> Nat] /\ loaded \in [Callers -> Nat]
    BY DEF Proc!Init
  <2>4. procGot \in [Callers -> Seq(ProcCell)]
    BY <1>1 DEF Proc!Init
  <2>5. procText \in Seq(ProcCell) /\ msg \in Seq(ProcCell)
    BY <1>1 DEF Proc!Init
  <2>6. spoilt \in BOOLEAN
    BY DEF Proc!Init
  <2> QED
    BY <2>1, <2>2, <2>3, <2>4, <2>5, <2>6 DEF ProcTypes
<1>3. procModule = "absent" /\ \A p \in Callers : procPc[p] = "idle" /\ procGot[p] = <<>>
  BY DEF Proc!Init
<1> QED
  BY <1>2, <1>3 DEF ProcInv, InMsg, Modules, Unspoilt

LEMMA ProcTypesStep == ProcInv /\ Proc!Next => ProcTypes' /\ InMsg' /\ Modules'
<1> SUFFICES ASSUME ProcInv, Proc!Next PROVE ProcTypes' /\ InMsg' /\ Modules'
  OBVIOUS
<1>0. ProcTypes /\ InMsg /\ Modules /\ Len(msg) \in Nat
  BY DEF ProcInv, ProcTypes
<1> USE DEF ProcTypes, InMsg, Modules, Proc!Goto, Proc!memory, Proc!process
<1>1. CASE Proc!proc_create
  <2>1. /\ procModule = "absent" /\ procModule' = "coming" /\ len' = 0 /\ temp' = 0 /\ procText' = <<>>
        /\ spoilt' = FALSE /\ UNCHANGED <<msg, procPc, procCount, loaded, procGot>>
    BY <1>1 DEF Proc!proc_create
  <2>2. <<>> \in Seq(ProcCell)
    OBVIOUS
  <2>3. ProcTypes'
    <3>1. procText' \in Seq(ProcCell) /\ msg' \in Seq(ProcCell)
      BY <1>0, <2>1, <2>2
    <3>2. procModule' \in {"absent", "coming", "live"} /\ len' \in Nat /\ temp' \in Int
      BY <2>1
    <3>3. spoilt' \in BOOLEAN
      BY <2>1
    <3> QED
      BY <1>0, <2>1, <3>1, <3>2, <3>3
  <2>4. InMsg' /\ Modules'
    BY <1>0, <2>1
  <2> QED
    BY <2>3, <2>4
<1>2. CASE Proc!proc_init
  <2>1. <<"?">> \in Seq(ProcCell) /\ Len(<<"?">>) = 1 /\ <<"?">> # <<>>
    BY DEF ProcCell
  <2> QED
    BY <1>0, <1>2, <2>1 DEF Proc!proc_init
<1>3. CASE Proc!proc_cleanup
  BY <1>0, <1>3 DEF Proc!proc_cleanup, Proc!Quiet
<1>4. ASSUME NEW p \in Callers, NEW t \in ProcTexts, Proc!write_proc(p, t)
      PROVE  ProcTypes' /\ InMsg' /\ Modules'
  <2>1. t \in Seq(ProcCell) /\ Len(t) \in Nat /\ t # <<>>
    BY TextsAssumption DEF ProcCell
  <2>2. /\ msg' \in Seq(ProcCell) /\ Len(msg') \in Nat
        /\ Len(msg') >= Len(msg) /\ Len(msg') >= Len(t) /\ msg' # <<>>
    <3> DEFINE r == SubSeq(msg, Len(t) + 1, Len(msg))
    <3>0. r \in Seq(ProcCell) /\ Len(r) \in Nat
      BY <1>0, <2>1
    <3>1. Len(r) >= Len(msg) - Len(t)
      BY <1>0, <2>1
    <3>3. msg' = t \o r
      BY <1>4 DEF Proc!write_proc
    <3> HIDE DEF r
    <3>2. t \o r \in Seq(ProcCell) /\ Len(t \o r) = Len(t) + Len(r)
      BY <2>1, <3>0, ConcatProperties
    <3> QED
      BY <1>0, <2>1, <3>0, <3>1, <3>2, <3>3
  <2>3. /\ procModule = "live" /\ procModule' = "live" /\ procPc' = [procPc EXCEPT ![p] = "writes"]
        /\ procCount' = [procCount EXCEPT ![p] = Len(t)] /\ spoilt' \in BOOLEAN
        /\ UNCHANGED <<len, temp, loaded, procGot, procText>>
    BY <1>4 DEF Proc!write_proc
  <2> QED
    BY <1>0, <2>1, <2>2, <2>3
<1>5. ASSUME NEW p \in Callers, Proc!Written(p) PROVE ProcTypes' /\ InMsg' /\ Modules'
  <2>1. /\ procModule # "absent" /\ procModule # "coming" /\ procCount[p] \in Nat /\ procCount[p] <= Len(msg)
    BY <1>0, <1>5 DEF Proc!Written
  <2>2. procText' \in Seq(ProcCell)
    BY <1>0, <1>5, <2>1 DEF Proc!Written
  <2> QED
    BY <1>0, <1>5, <2>1, <2>2 DEF Proc!Written, Proc!Leaves
<1>6. ASSUME NEW p \in Callers, Proc!Open(p) PROVE ProcTypes' /\ InMsg' /\ Modules'
  BY <1>0, <1>6 DEF Proc!Open
<1>7. ASSUME NEW p \in Callers, Proc!read_proc(p) PROVE ProcTypes' /\ InMsg' /\ Modules'
  BY <1>0, <1>7 DEF Proc!read_proc
<1>8. ASSUME NEW p \in Callers, Proc!Read(p) PROVE ProcTypes' /\ InMsg' /\ Modules'
  <2>1. /\ procModule # "absent" /\ procPc[p] = "reads" /\ procCount[p] \in Nat /\ procCount[p] <= Len(msg)
        /\ loaded[p] <= Len(msg) /\ temp <= Len(msg) /\ loaded[p] \in Nat
    BY <1>0, <1>8 DEF Proc!Read
  <2>2. /\ temp' \in Int /\ temp' <= Len(msg)
        /\ procModule = "coming" => temp' = 0
    <3>1. \/ temp' = len
          \/ procCount[p] # 0 /\ \E t \in {temp, loaded[p]} : temp' = t - procCount[p]
      BY <1>8 DEF Proc!Read, Proc!Rewind
    <3>2. len \in Nat /\ len <= Len(msg) /\ temp \in Int
      BY <1>0, <2>1
    <3>3. procModule = "coming" => len = 0 /\ procCount[p] = 0
      BY <1>0, <2>1
    <3>4. ASSUME NEW t \in {temp, loaded[p]}, temp' = t - procCount[p]
          PROVE  temp' \in Int /\ temp' <= Len(msg)
      <4>1. t \in Int /\ t <= Len(msg)
        BY <2>1, <3>2
      <4> QED
        BY <1>0, <2>1, <3>4, <4>1
    <3>5. CASE temp' = len
      BY <3>2, <3>3, <3>5
    <3>6. CASE temp' # len
      BY <3>1, <3>3, <3>4, <3>6
    <3> QED
      BY <3>5, <3>6
  <2>3. UNCHANGED <<procModule, msg, len, procText, spoilt>>
    BY <1>8 DEF Proc!Read
  <2>4. CASE procCount[p] = 0
    <3>1. Proc!Leaves(p)
      BY <1>8, <2>4 DEF Proc!Read
    <3> QED
      BY <1>0, <2>1, <2>2, <2>3, <3>1 DEF Proc!Leaves
  <2>5. CASE procCount[p] # 0
    <3>1. /\ procPc' = [procPc EXCEPT ![p] = "open"] /\ UNCHANGED <<procCount, loaded>>
          /\ procGot' = [procGot EXCEPT ![p] = @ \o SubSeq(msg, 1, procCount[p])]
      BY <1>8, <2>5 DEF Proc!Read
    <3>2. procGot[p] \o SubSeq(msg, 1, procCount[p]) \in Seq(ProcCell)
      BY <1>0, <2>1
    <3> QED
      BY <1>0, <2>1, <2>2, <2>3, <3>1, <3>2
  <2> QED
    BY <2>4, <2>5
<1>9. ASSUME NEW p \in Callers, Proc!Close(p) PROVE ProcTypes' /\ InMsg' /\ Modules'
  BY <1>0, <1>9 DEF Proc!Close, Proc!Leaves
<1> QED
  BY <1>1, <1>2, <1>3, <1>4, <1>5, <1>6, <1>7, <1>8, <1>9 DEF Proc!Next, Proc!Call

(* A process that was alone, or is the only one left, may begin or end.     *)
LEMMA UnspoiltStep == ProcInv /\ Proc!Next => Unspoilt'
<1> SUFFICES ASSUME ProcInv, Proc!Next, ~spoilt', procModule' # "absent" PROVE Unspoilt'
  BY DEF Unspoilt
<1>0. ProcTypes /\ InMsg /\ Modules /\ Unspoilt /\ Len(msg) \in Nat /\ ProcTypes'
  BY ProcTypesStep DEF ProcInv, ProcTypes
<1>t. /\ procPc \in [Callers -> {"idle", "open", "reads", "writes"}]
      /\ procCount \in [Callers -> Nat] /\ loaded \in [Callers -> Nat]
      /\ procGot \in [Callers -> Seq(ProcCell)] /\ procText \in Seq(ProcCell)
      /\ len \in Nat /\ temp \in Int /\ msg \in Seq(ProcCell)
  BY <1>0 DEF ProcTypes
<1>g. ~spoilt /\ procModule # "absent" =>
         /\ \A p, q \in Callers : procPc[p] # "idle" /\ procPc[q] # "idle" => p = q
         /\ (\A p \in Callers : procPc[p] # "writes") => IsText
         /\ (\A p \in Callers : procPc[p] = "idle") => temp = len
         /\ \A p \in Callers :
              procPc[p] \in {"open", "reads"} =>
                temp = Begun(p) /\ (procGot[p] = <<>> \/ procGot[p] = procText)
         /\ \A p \in Callers : procPc[p] = "reads" => procCount[p] = temp /\ loaded[p] = temp
  BY <1>0 DEF Unspoilt
<1>i. \A p \in Callers : procPc[p] = "idle" => procGot[p] = <<>>
  BY <1>0 DEF Modules
<1> USE DEF Proc!Goto, Proc!memory, Proc!process
<1>1. CASE Proc!proc_create
  <2>1. /\ len' = 0 /\ temp' = 0 /\ procText' = <<>> /\ procPc' = procPc
        /\ \A p \in Callers : procPc[p] = "idle"
    BY <1>0, <1>1 DEF Proc!proc_create, Modules
  <2>2. IsText'
    BY <2>1 DEF IsText
  <2> QED
    BY <2>1, <2>2 DEF Unspoilt
<1>2. CASE Proc!proc_init
  <2>1. /\ procModule = "coming" /\ len = 0
        /\ UNCHANGED <<len, temp, procPc, procCount, loaded, procGot, procText, spoilt>>
    BY <1>0, <1>2 DEF Proc!proc_init, Modules
  <2>2. IsText => IsText'
    BY <2>1 DEF IsText
  <2> QED
    BY <1>g, <2>1, <2>2 DEF Unspoilt, Begun
<1>3. CASE Proc!proc_cleanup
  BY <1>3 DEF Proc!proc_cleanup
<1>4. ASSUME NEW p \in Callers, NEW t \in ProcTexts, Proc!write_proc(p, t) PROVE Unspoilt'
  <2>1. /\ procPc' = [procPc EXCEPT ![p] = "writes"]
        /\ \A q \in Callers \ {p} : procPc[q] = "idle"
    BY <1>4 DEF Proc!write_proc, Proc!Alone
  <2>2. procPc'[p] = "writes" /\ \A q \in Callers \ {p} : procPc'[q] = "idle"
    BY <1>t, <2>1
  <2> QED
    BY <2>2 DEF Unspoilt
<1>5. ASSUME NEW p \in Callers, Proc!Written(p) PROVE Unspoilt'
  <2>1. /\ ~spoilt /\ procModule # "absent" /\ procPc[p] = "writes"
        /\ len' = procCount[p] /\ temp' = procCount[p] /\ procText' = SubSeq(msg, 1, procCount[p])
        /\ msg' = msg /\ procPc' = [procPc EXCEPT ![p] = "idle"]
    BY <1>0, <1>5 DEF Proc!Written, Proc!Leaves, Modules
  <2>2. \A q \in Callers : procPc'[q] = "idle"
    BY <1>t, <1>g, <2>1
  <2>3. procCount[p] \in Nat /\ procCount[p] <= Len(msg)
    BY <1>0, <1>t, <2>1 DEF InMsg
  <2>4. IsText'
    BY <1>t, <2>1, <2>3 DEF IsText
  <2> QED
    BY <2>1, <2>2, <2>4 DEF Unspoilt
<1>6. ASSUME NEW p \in Callers, Proc!Open(p) PROVE Unspoilt'
  <2>1. /\ ~spoilt /\ procModule # "absent" /\ procPc' = [procPc EXCEPT ![p] = "open"]
        /\ UNCHANGED <<msg, len, temp, procCount, loaded, procGot, procText>>
        /\ \A q \in Callers : procPc[q] = "idle"
    BY <1>6 DEF Proc!Open, Proc!Alone
  <2>2. procPc'[p] = "open" /\ \A q \in Callers \ {p} : procPc'[q] = "idle"
    BY <1>t, <2>1
  <2>3. IsText /\ temp = len /\ procGot[p] = <<>>
    BY <1>g, <1>i, <2>1
  <2>4. IsText' /\ temp' = Begun(p)' /\ procGot'[p] = <<>>
    BY <2>1, <2>3 DEF IsText, Begun
  <2> QED
    BY <2>2, <2>4 DEF Unspoilt
<1>7. ASSUME NEW p \in Callers, Proc!read_proc(p) PROVE Unspoilt'
  <2>1. /\ ~spoilt /\ procModule # "absent" /\ procPc[p] = "open"
        /\ procPc' = [procPc EXCEPT ![p] = "reads"]
        /\ procCount'[p] = temp /\ loaded'[p] = temp
        /\ UNCHANGED <<msg, len, temp, procGot, procText>>
    BY <1>t, <1>7 DEF Proc!read_proc
  <2>2. procPc'[p] = "reads" /\ \A q \in Callers \ {p} : procPc'[q] = "idle"
    BY <1>t, <1>g, <2>1
  <2>3. IsText /\ temp = Begun(p) /\ (procGot[p] = <<>> \/ procGot[p] = procText)
    <3>1. \A q \in Callers : procPc[q] # "writes"
      BY <1>g, <2>1
    <3> QED
      BY <1>g, <2>1, <3>1
  <2>4. IsText' /\ temp' = Begun(p)' /\ (procGot'[p] = <<>> \/ procGot'[p] = procText')
    BY <2>1, <2>3 DEF IsText, Begun
  <2> QED
    BY <2>1, <2>2, <2>4 DEF Unspoilt
<1>8. ASSUME NEW p \in Callers, Proc!Read(p) PROVE Unspoilt'
  <2>1. /\ ~spoilt /\ procModule # "absent" /\ procPc[p] = "reads"
        /\ UNCHANGED <<procModule, msg, len, procText, spoilt>>
    BY <1>0, <1>8 DEF Proc!Read, Modules
  <2>2. /\ procCount[p] = temp /\ loaded[p] = temp /\ temp = Begun(p)
        /\ (procGot[p] = <<>> \/ procGot[p] = procText) /\ IsText
        /\ \A q \in Callers \ {p} : procPc[q] = "idle"
    <3>1. \A q \in Callers : procPc[q] # "writes"
      BY <1>g, <2>1
    <3> QED
      BY <1>g, <2>1, <3>1
  <2>3. IsText'
    BY <2>1, <2>2 DEF IsText
  <2>4. CASE temp = 0
    <3>1. procPc' = [procPc EXCEPT ![p] = "idle"] /\ temp' = len
      BY <1>8, <2>2, <2>4 DEF Proc!Read, Proc!Leaves, Proc!Rewind
    <3>2. \A q \in Callers : procPc'[q] = "idle"
      BY <1>t, <2>2, <3>1
    <3> QED
      BY <2>1, <2>3, <3>1, <3>2 DEF Unspoilt
  <2>5. CASE temp # 0
    <3>1. procGot[p] = <<>> /\ temp = len
      BY <2>2, <2>5 DEF Begun
    <3>2. /\ procPc' = [procPc EXCEPT ![p] = "open"] /\ temp' = temp - temp
          /\ procGot' = [procGot EXCEPT ![p] = @ \o SubSeq(msg, 1, len)]
      BY <1>8, <2>2, <2>5, <3>1 DEF Proc!Read, Proc!Rewind
    <3>3. len <= Len(msg) /\ len > 0
      BY <1>0, <1>t, <2>1, <2>5, <3>1 DEF InMsg
    <3>4. SubSeq(msg, 1, len) \in Seq(ProcCell) /\ Len(SubSeq(msg, 1, len)) = len
          /\ \A i \in 1 .. len : SubSeq(msg, 1, len)[i] = msg[i]
      BY <1>t, <3>3
    <3>5. SubSeq(msg, 1, len) = procText
      BY <1>t, <2>2, <3>4, SeqEqual DEF IsText
    <3>6. procGot'[p] = procText /\ procText # <<>>
      <4>1. <<>> \o procText = procText
        BY <1>t, ConcatEmptySeq
      <4>2. procGot'[p] = <<>> \o procText
        BY <1>t, <3>1, <3>2, <3>5
      <4>3. Len(procText) = len
        BY <2>2 DEF IsText
      <4> QED
        BY <3>3, <4>1, <4>2, <4>3
    <3>7. procPc'[p] = "open" /\ \A q \in Callers \ {p} : procPc'[q] = "idle"
      BY <1>t, <2>2, <3>2
    <3>8. temp' = Begun(p)'
      <4>1. temp' = 0
        BY <1>t, <3>2
      <4>2. procGot'[p] # <<>>
        BY <3>6
      <4> QED
        BY <4>1, <4>2 DEF Begun
    <3> QED
      BY <2>1, <2>3, <3>6, <3>7, <3>8 DEF Unspoilt
  <2> QED
    BY <2>4, <2>5
<1>9. ASSUME NEW p \in Callers, Proc!Close(p) PROVE Unspoilt'
  <2>1. /\ ~spoilt /\ procModule # "absent" /\ procPc[p] = "open" /\ procGot[p] = <<>>
        /\ procPc' = [procPc EXCEPT ![p] = "idle"] /\ UNCHANGED <<msg, len, temp, procText>>
    BY <1>0, <1>9 DEF Proc!Close, Proc!Leaves, Modules
  <2>2. \A q \in Callers : procPc'[q] = "idle"
    BY <1>t, <1>g, <2>1
  <2>3. IsText /\ temp = len
    <3>1. \A q \in Callers : procPc[q] # "writes"
      BY <1>g, <2>1
    <3> QED
      BY <1>g, <2>1, <3>1 DEF Begun
  <2>4. IsText'
    BY <2>1, <2>3 DEF IsText
  <2> QED
    BY <2>1, <2>2, <2>3, <2>4 DEF Unspoilt
<1> QED
  BY <1>1, <1>2, <1>3, <1>4, <1>5, <1>6, <1>7, <1>8, <1>9 DEF Proc!Next, Proc!Call

LEMMA ProcSteps == ProcInv /\ Proc!Next => ProcInv'
BY ProcTypesStep, UnspoiltStep DEF ProcInv

LEMMA ProcSound == ProcInv => Proc!MsgHeld
<1> SUFFICES ASSUME ProcInv, NEW p \in Callers, procCount[p] > 0, procPc[p] \in {"reads", "writes"}
             PROVE  msg # <<>>
  BY DEF Proc!MsgHeld
<1>1. procModule = "live"
  BY DEF ProcInv, ProcTypes, Modules
<1> QED
  BY <1>1 DEF ProcInv, Modules

(* A read that ends has the text. *)
LEMMA ProcGives ==
  ASSUME ProcInv, Proc!Next, NEW p \in Callers, procPc[p] = "reads", procPc'[p] = "idle", ~spoilt
  PROVE  procGot[p] = procText
<1>t. /\ procPc \in [Callers -> {"idle", "open", "reads", "writes"}]
      /\ procModule # "absent" /\ procText \in Seq(ProcCell)
  BY DEF ProcInv, ProcTypes, Modules
<1>1. /\ procCount[p] = temp /\ temp = Begun(p) /\ IsText
      /\ procGot[p] = <<>> \/ procGot[p] = procText
  <2>1. \A q \in Callers : procPc[q] # "writes"
    BY <1>t DEF ProcInv, Unspoilt
  <2> QED
    BY <1>t, <2>1 DEF ProcInv, Unspoilt
<1>2. Proc!Read(p)
  <2> USE DEF Proc!Goto, Proc!memory, Proc!process
  <2>1. ASSUME Proc!proc_create \/ Proc!proc_init \/ Proc!proc_cleanup PROVE FALSE
    BY <1>t, <2>1 DEF Proc!proc_create, Proc!proc_init, Proc!proc_cleanup
  <2>2. ASSUME NEW q \in Callers, Proc!Call(q), ~Proc!Read(q) PROVE FALSE
    <3>1. CASE q = p
      BY <1>t, <2>2, <3>1 DEF Proc!Call, Proc!write_proc, Proc!Written, Proc!Open, Proc!read_proc, Proc!Close
    <3>2. CASE q # p
      BY <1>t, <2>2, <3>2 DEF Proc!Call, Proc!write_proc, Proc!Written, Proc!Open, Proc!read_proc, Proc!Close,
                              Proc!Leaves
    <3> QED
      BY <3>1, <3>2
  <2>3. PICK q \in Callers : Proc!Read(q)
    BY <2>1, <2>2 DEF Proc!Next
  <2>4. q = p
    BY <1>t, <2>3 DEF Proc!Read, Proc!Leaves
  <2> QED
    BY <2>3, <2>4
<1>3. procCount[p] = 0
  BY <1>t, <1>2 DEF Proc!Read, Proc!Goto
<1> QED
  BY <1>t, <1>1, <1>3 DEF Begun, IsText

-----------------------------------------------------------------------------
(* The blinker. While the module comes its timer is not set up and the LEDs *)
(* are the keyboard's; when it goes the timer is deleted, and no handler    *)
(* is left to set it again, before the LEDs are handed back.                *)
LedsInv ==
  /\ ledModule \in {"absent", "coming", "live", "going", "stopped"}
  /\ timer \in {"off", "pending"} /\ handler \in {"none", "enters", "picks", "sets"}
  /\ ledModule \in {"absent", "coming", "stopped"} => timer = "off" /\ handler = "none"
  /\ ledModule \in {"absent", "coming"} => leds = Leds!RESTORE_LEDS
  /\ ledModule = "coming" => leds_status = 0
  /\ ledModule = "absent" => ledMade = {}
  /\ Leds!TimerKept /\ Leds!LedsFollow

LEMMA LedsStart == Leds!Init => LedsInv
BY DEF Leds!Init, LedsInv, Leds!TimerKept, Leds!LedsFollow

LEMMA LedsSteps == LedsInv /\ Leds!Next => LedsInv'
<1> SUFFICES ASSUME LedsInv, Leds!Next PROVE LedsInv'
  OBVIOUS
<1> USE DEF LedsInv, Leds!TimerKept, Leds!LedsFollow
<1>1. CASE Leds!Insmod
  BY <1>1 DEF Leds!Insmod
<1>2. CASE Leds!kobject_create
  BY <1>2 DEF Leds!kobject_create
<1>3. CASE Leds!Fails
  BY <1>3 DEF Leds!Fails, Leds!KeptOnError
<1>4. CASE Leds!sysfs_create_file
  BY <1>4 DEF Leds!sysfs_create_file
<1>5. CASE Leds!add_timer
  BY <1>5 DEF Leds!add_timer
<1>6. CASE Leds!Expire
  BY <1>6 DEF Leds!Expire
<1>7. CASE Leds!Restore
  BY <1>7 DEF Leds!Restore
<1>8. CASE Leds!Looks
  BY <1>8 DEF Leds!Looks
<1>9. CASE Leds!Pick
  BY <1>9 DEF Leds!Pick
<1>10. CASE Leds!mod_timer
  BY <1>10 DEF Leds!mod_timer, Leds!SetAgain
<1>11. CASE Leds!Rmmod
  BY <1>11 DEF Leds!Rmmod
<1>12. CASE Leds!timer_delete_sync
  BY <1>12 DEF Leds!timer_delete_sync, Leds!HandlerOver
<1>13. CASE Leds!kobject_put
  BY <1>13 DEF Leds!kobject_put
<1>14. ASSUME NEW m \in Masks \cup {0}, Leds!sys_write(m) PROVE LedsInv'
  BY <1>14 DEF Leds!sys_write
<1> QED
  BY <1>1, <1>2, <1>3, <1>4, <1>5, <1>6, <1>7, <1>8, <1>9, <1>10, <1>11, <1>12, <1>13, <1>14
     DEF Leds!Next, Leds!Handler

LEMMA LedsSound == LedsInv => Leds!TimerKept /\ Leds!NothingLeft /\ Leds!LedsFollow
BY DEF LedsInv, Leds!NothingLeft

-----------------------------------------------------------------------------
(* The netlink echo. A client that waits is in one of the two sets.         *)
NetlinkInv ==
  /\ clientPc \in [Callers -> {"off", "open", "handled", "waits", "done", "killed"}]
  /\ registered \in BOOLEAN /\ nl_sk \in BOOLEAN
  /\ (\A c \in answers : c \notin unanswered) /\ (nl_sk => registered)
  /\ Netlink!AnswersFind

LEMMA NetlinkStarts == Netlink!Init => NetlinkInv
BY DEF Netlink!Init, NetlinkInv, Netlink!AnswersFind

LEMMA NetlinkSteps == NetlinkInv /\ Netlink!Next => NetlinkInv'
<1> SUFFICES ASSUME NetlinkInv, Netlink!Next PROVE NetlinkInv'
  OBVIOUS
<1> USE DEF NetlinkInv, Netlink!AnswersFind, Netlink!Goto
<1>1. CASE Netlink!netlink_kernel_create
  BY <1>1 DEF Netlink!netlink_kernel_create
<1>2. CASE Netlink!netlink_test_init
  BY <1>2 DEF Netlink!netlink_test_init
<1>3. CASE Netlink!netlink_test_exit
  BY <1>3 DEF Netlink!netlink_test_exit, Netlink!Holds
<1>4. ASSUME NEW c \in Callers, Netlink!Socket(c) PROVE NetlinkInv'
  BY <1>4 DEF Netlink!Socket
<1>5. ASSUME NEW c \in Callers, Netlink!Send(c) PROVE NetlinkInv'
  BY <1>5 DEF Netlink!Send
<1>6. ASSUME NEW c \in Callers, Netlink!nlmsg_new_fails(c) PROVE NetlinkInv'
  BY <1>6 DEF Netlink!nlmsg_new_fails
<1>7. ASSUME NEW c \in Callers, Netlink!nl_recv_msg(c) PROVE NetlinkInv'
  <2>1. CASE nl_sk
    BY <1>7, <2>1 DEF Netlink!nl_recv_msg, Netlink!Port
  <2>2. CASE ~nl_sk
    BY <1>7, <2>2 DEF Netlink!nl_recv_msg
  <2> QED
    BY <2>1, <2>2
<1>8. ASSUME NEW c \in Callers, Netlink!Receive(c) PROVE NetlinkInv'
  <2>1. /\ clientPc' = [clientPc EXCEPT ![c] = "done"] /\ clientPc[c] = "waits"
        /\ answers' = answers \ {c} /\ UNCHANGED <<registered, nl_sk, unanswered>>
    BY <1>8 DEF Netlink!Receive
  <2>2. \A d \in Callers : clientPc'[d] = IF d = c THEN "done" ELSE clientPc[d]
    BY <2>1
  <2>3. \A d \in Callers : clientPc'[d] = "waits" <=> d \in answers' \cup unanswered'
    <3>0. c \in answers
      BY <1>8 DEF Netlink!Receive
    <3>1. c \notin unanswered
      BY <3>0
    <3> QED
      BY <2>1, <2>2, <3>0, <3>1
  <2> QED
    BY <2>1, <2>2, <2>3
<1>9. ASSUME NEW c \in Callers, Netlink!Interrupt(c) PROVE NetlinkInv'
  BY <1>9 DEF Netlink!Interrupt
<1> QED
  BY <1>1, <1>2, <1>3, <1>4, <1>5, <1>6, <1>7, <1>8, <1>9 DEF Netlink!Next

-----------------------------------------------------------------------------
(* The modules side by side: a step of one leaves the others alone.         *)
ModulesInv == DeviceInv /\ ProcInv /\ LedsInv /\ NetlinkInv

LEMMA DeviceStays == DeviceInv /\ UNCHANGED deviceVars => DeviceInv'
<1> SUFFICES ASSUME DeviceInv, UNCHANGED deviceVars PROVE DeviceInv'
  OBVIOUS
<1> USE DEF deviceVars
<1>1. DevTypes' /\ InBuffer' /\ Registered' /\ OneAtATime'
  BY DEF DeviceInv, DevTypes, InBuffer, Registered, OneAtATime
<1>2. Unmixed'
  BY DEF DeviceInv, Unmixed, InKbuf, HasRead, HasWritten, CellsRead
<1> QED
  BY <1>1, <1>2 DEF DeviceInv

LEMMA ProcStays == ProcInv /\ UNCHANGED procVars => ProcInv'
<1> SUFFICES ASSUME ProcInv, UNCHANGED procVars PROVE ProcInv'
  OBVIOUS
<1> USE DEF procVars
<1>1. ProcTypes' /\ InMsg' /\ Modules'
  BY DEF ProcInv, ProcTypes, InMsg, Modules
<1>2. Unspoilt'
  BY DEF ProcInv, Unspoilt, IsText, Begun
<1> QED
  BY <1>1, <1>2 DEF ProcInv

LEMMA LedsStay == LedsInv /\ UNCHANGED ledVars => LedsInv'
BY DEF ledVars, LedsInv, Leds!TimerKept, Leds!LedsFollow

LEMMA NetlinkStays == NetlinkInv /\ UNCHANGED netlinkVars => NetlinkInv'
BY DEF netlinkVars, NetlinkInv, Netlink!AnswersFind

LEMMA ModulesKeep == ModulesInv /\ [ModuleStep]_moduleVars => ModulesInv'
<1> SUFFICES ASSUME ModulesInv, [ModuleStep]_moduleVars PROVE ModulesInv'
  OBVIOUS
<1>0. DeviceInv /\ ProcInv /\ LedsInv /\ NetlinkInv
  BY DEF ModulesInv
<1>1. DeviceInv'
  <2>1. Device!Next \/ UNCHANGED deviceVars
    BY DEF ModuleStep, In, moduleVars
  <2> QED
    BY <1>0, <2>1, DeviceSteps, DeviceStays
<1>2. ProcInv'
  <2>1. Proc!Next \/ UNCHANGED procVars
    BY DEF ModuleStep, In, moduleVars
  <2> QED
    BY <1>0, <2>1, ProcSteps, ProcStays
<1>3. LedsInv'
  <2>1. Leds!Next \/ UNCHANGED ledVars
    BY DEF ModuleStep, In, moduleVars
  <2> QED
    BY <1>0, <2>1, LedsSteps, LedsStay
<1>4. NetlinkInv'
  <2>1. Netlink!Next \/ UNCHANGED netlinkVars
    BY DEF ModuleStep, In, moduleVars
  <2> QED
    BY <1>0, <2>1, NetlinkSteps, NetlinkStays
<1> QED
  BY <1>1, <1>2, <1>3, <1>4 DEF ModulesInv

LEMMA ModulesKept == ModuleSpec => []ModulesInv
<1>1. ModuleInit => ModulesInv
  BY DeviceStarts, ProcStarts, LedsStart, NetlinkStarts DEF ModuleInit, ModulesInv
<1> QED
  BY <1>1, ModulesKeep, PTL DEF ModuleSpec

(* For any processes, texts, buffer of more than one cell, masks and loads: *)
(* the device and the proc file are never called in a module that is gone,  *)
(* except by who opened the device before the end of its init (the file     *)
(* operations and __exit functions of practice4.c and practice5_4.c); a     *)
(* failed or undone init leaves nothing; the timer of practice5_5.c runs as *)
(* long as the module, and is over before the LEDs are restored; a netlink  *)
(* client that waits has its answer or there was no memory for it.          *)
THEOREM ModulesStaySound == ModuleSpec => []ModulesSound
<1>1. ModulesInv => ModulesSound
  <2>1. NetlinkInv => Netlink!AnswersFind
    BY DEF NetlinkInv
  <2> QED
    BY <2>1, DeviceTyped, DeviceSound, ProcSound, LedsSound DEF ModulesInv, ModulesSound
<1> QED
  BY <1>1, ModulesKept, PTL

(* A cat of the proc file that ends has the text last written. *)
LEMMA CatsAreServed ==
  ASSUME ModulesInv, [ModuleStep]_moduleVars
  PROVE  [\A p \in Callers : procPc[p] = "reads" /\ procPc'[p] = "idle" /\ ~spoilt
            => procGot[p] = procText]_procVars
<1> SUFFICES ASSUME ~UNCHANGED procVars, NEW p \in Callers,
                    procPc[p] = "reads", procPc'[p] = "idle", ~spoilt
             PROVE  procGot[p] = procText
  OBVIOUS
<1>1. Proc!Next /\ ProcInv
  BY DEF ModuleStep, In, moduleVars, ModulesInv
<1> QED
  BY <1>1, ProcGives

(* Whoever reads /dev/mychardev to the end has one write's text, whole and  *)
(* unmixed, and only one process has it open, unless it was opened before   *)
(* init was over (dev_open, dev_read, dev_write of practice4.c); whoever    *)
(* reads the proc file to the end has the text last written, unless calls   *)
(* overlapped or a reader stopped early (read_proc, write_proc).            *)
THEOREM ReadersAreServed == ModuleSpec => ReadersSeeOneText
<1>1. ModulesInv => Device!OneOpener /\ Device!ReadsOneText
  BY DeviceSound DEF ModulesInv
<1>2. ModulesInv /\ [ModuleStep]_moduleVars
        => [\A p \in Callers : procPc[p] = "reads" /\ procPc'[p] = "idle" /\ ~spoilt
              => procGot[p] = procText]_Proc!vars
  <2>1. UNCHANGED procVars => UNCHANGED Proc!vars
    BY DEF procVars, Proc!vars, Proc!memory, Proc!process
  <2> QED
    BY <2>1, CatsAreServed
<1>3. ModuleSpec => Proc!CatsGetText
  BY <1>2, ModulesKept, PTL DEF ModuleSpec, Proc!CatsGetText
<1> QED
  BY <1>1, <1>3, ModulesKept, PTL DEF ReadersSeeOneText
=============================================================================
