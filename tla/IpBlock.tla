------------------------------- MODULE IpBlock -------------------------------
(***************************************************************************)
(* module5/practice6/practice6.c, a kernel module that drops outgoing      *)
(* packets to the addresses listed in /proc/ipblock. Users write commands  *)
(* and read the list, Cpus run the netfilter hook, and the list is walked  *)
(* entry by entry under one mutex. Entries are kmalloc'ed and kfree'd.     *)
(***************************************************************************)
EXTENDS Integers, Sequences, FiniteSets, SequencesExt

CONSTANTS Users, Cpus, Addrs,
          Entries,           \* bound: the objects kmalloc can hand out
          Nobody, NoEntry, NoAddr

Threads == Users \cup Cpus
ASSUME Distinct == /\ Users \cap Cpus = {} /\ Nobody \notin Threads
                   /\ NoEntry \notin Entries /\ NoAddr \notin Addrs
                   /\ Addrs \cap {"drop", "accept"} = {}
                   /\ IsFiniteSet(Entries)

VARIABLES
  phase,          \* the module: absent, half loaded, loaded, ..., gone
  hooked,         \* nf_out_hook is registered
  blocked_list,   \* entries from the first to the last
  addrOf,         \* the addr field of allocated entries
  holder,         \* of blocked_lock
  pc, op, arg,    \* each thread's place, call and address
  cursor,         \* entry in a list_for_each_entry loop
  verdict         \* what the hook last returned on each cpu

module == <<phase, hooked>>
list == <<blocked_list, addrOf>>
threads == <<pc, op, arg, cursor, verdict>>
vars == <<module, list, holder, threads>>

Allocated == DOMAIN addrOf

Init ==
  /\ phase = "absent" /\ hooked = FALSE
  /\ blocked_list = <<>> /\ addrOf = <<>>
  /\ holder = Nobody
  /\ pc = [t \in Threads |-> "idle"]
  /\ op = [t \in Threads |-> "none"]
  /\ arg = [t \in Threads |-> NoAddr]
  /\ cursor = [t \in Threads |-> NoEntry]
  /\ verdict = [c \in Cpus |-> "accept"]

-----------------------------------------------------------------------------
Goto(t, l) == pc' = [pc EXCEPT ![t] = l]
Return(t) == /\ Goto(t, "idle")
             /\ op' = [op EXCEPT ![t] = "none"]
             /\ arg' = [arg EXCEPT ![t] = NoAddr]

(* Slip: the walk starts behind the first entry. *)
FirstSkipped == IF Len(blocked_list) < 2 THEN NoEntry ELSE blocked_list[2]
First == IF blocked_list = <<>> THEN NoEntry ELSE Head(blocked_list)
After(e) ==
  LET later == {i \in DOMAIN blocked_list :
                  i > 1 /\ blocked_list[i - 1] = e}
  IN IF later = {} THEN NoEntry ELSE blocked_list[CHOOSE i \in later : TRUE]

(* list_del, then kfree, of an entry that is in the list. *)
ListDel(e) == \E i \in DOMAIN blocked_list :
  blocked_list[i] = e /\ blocked_list' = RemoveAt(blocked_list, i)
(* Slip: kfree is missing. *)
UnlinkOnly(e) == ListDel(e) /\ UNCHANGED addrOf
Unlink(e) == ListDel(e) /\ addrOf' = [x \in Allocated \ {e} |-> addrOf[x]]

-----------------------------------------------------------------------------
(* Calls: a packet enters the hook, /proc/ipblock is read or written. A    *)
(* line sscanf finds no word in leaves cmd as the stack had it, which may  *)
(* read "clear"; any other line is refused before the list is touched.     *)
Call(t, o, a) ==
  /\ pc[t] = "idle" /\ op' = [op EXCEPT ![t] = o]
  /\ arg' = [arg EXCEPT ![t] = a]
  /\ Goto(t, "lock")
  /\ UNCHANGED <<module, list, holder, cursor, verdict>>

hook_func_out(c) == hooked /\ \E a \in Addrs : Call(c, "packet", a)
ProcUsable == phase \in {"proc", "loaded", "unhooked"}
proc_show(u) == ProcUsable /\ Call(u, "show", NoAddr)
proc_write(u) ==
  /\ ProcUsable
  /\ \/ \E o \in {"add", "del"}, a \in Addrs : Call(u, o, a)
     \/ Call(u, "clear", NoAddr)

-----------------------------------------------------------------------------
(* mutex_lock and the head of the loop over the list. *)
(* Slip: the mutex is not taken. *)
LockFreeAlways(t) == TRUE
LockFree(t) == holder = Nobody

Lock(t) ==
  /\ pc[t] = "lock" /\ LockFree(t)
  /\ holder' = t
  /\ cursor' = [cursor EXCEPT ![t] = First]
  /\ Goto(t, "walk")
  /\ UNCHANGED <<module, list, op, arg, verdict>>

Walking(t) == pc[t] = "walk" /\ cursor[t] # NoEntry
(* Slip: a return leaves the mutex locked. *)
UnlockForgotten(t) ==
  /\ holder' = IF Walking(t) THEN holder ELSE Nobody
  /\ cursor' = [cursor EXCEPT ![t] = NoEntry]
Unlock(t) == holder' = Nobody /\ cursor' = [cursor EXCEPT ![t] = NoEntry]
Continue(t) == /\ cursor' = [cursor EXCEPT ![t] = After(@)]
               /\ UNCHANGED <<holder, pc, op, arg, verdict>>

Searches == {"add", "del", "packet"}
Match(t) == addrOf[cursor[t]] = arg[t]

PassBy(t) ==
  /\ Walking(t)
  /\ op[t] = "show" \/ (op[t] \in Searches /\ ~Match(t))
  /\ Continue(t) /\ UNCHANGED <<module, list>>

(* ip_is_blocked found the address, for ip_add and for the hook. *)
Found(t) ==
  /\ Walking(t) /\ Match(t)
  /\ \/ op[t] = "add" /\ UNCHANGED verdict
     \/ op[t] = "packet" /\ verdict' = [verdict EXCEPT ![t] = "drop"]
  /\ Return(t) /\ Unlock(t) /\ UNCHANGED <<module, list>>

ip_del(t) ==
  /\ Walking(t) /\ Match(t) /\ op[t] = "del"
  /\ Unlink(cursor[t])
  /\ Return(t) /\ Unlock(t) /\ UNCHANGED <<module, verdict>>

ip_clear_all(t) ==
  /\ Walking(t) /\ op[t] = "clear"
  /\ Unlink(cursor[t])
  /\ Continue(t) /\ UNCHANGED module

EndOfList(t) ==
  /\ pc[t] = "walk" /\ cursor[t] = NoEntry
  /\ \/ op[t] = "add" /\ Goto(t, "alloc") /\ UNCHANGED <<op, arg, verdict>>
     \/ op[t] \in {"del", "clear", "show"} /\ Return(t) /\ UNCHANGED verdict
     \/ op[t] = "packet" /\ Return(t) /\ verdict' = [verdict EXCEPT ![t] = "accept"]
  /\ Unlock(t) /\ UNCHANGED <<module, list>>

(* kmalloc, outside the mutex, then list_add_tail inside it. *)
Alloc(t) ==
  /\ pc[t] = "alloc"
  /\ \/ \E e \in Entries \ Allocated :
          /\ addrOf' = [x \in Allocated \cup {e} |->
                          IF x = e THEN arg[t] ELSE addrOf[x]]
          /\ cursor' = [cursor EXCEPT ![t] = e]
          /\ Goto(t, "insert") /\ UNCHANGED <<op, arg>>
     \/ Return(t) /\ UNCHANGED <<addrOf, cursor>>
  /\ UNCHANGED <<module, blocked_list, holder, verdict>>

Insert(t) ==
  /\ pc[t] = "insert" /\ holder = Nobody
  /\ blocked_list' = Append(blocked_list, cursor[t])
  /\ Return(t) /\ Unlock(t)
  /\ UNCHANGED <<module, addrOf, verdict>>

-----------------------------------------------------------------------------
(* ipblock_init: the proc file is there before the hook, and the result of *)
(* registering the hook is not looked at. ipblock_exit: the hook goes, then *)
(* the proc file once its calls have returned, then the entries.           *)
Idle(t) == pc[t] = "idle"
CreateProc == /\ phase = "absent" /\ phase' = "proc"
              /\ UNCHANGED <<hooked, list, holder, threads>>
RegisterHook == /\ phase = "proc" /\ phase' = "loaded" /\ hooked' \in BOOLEAN
                /\ UNCHANGED <<list, holder, threads>>
UnregisterHook == /\ phase = "loaded" /\ phase' = "unhooked" /\ hooked' = FALSE
                  /\ UNCHANGED <<list, holder, threads>>
(* Slip: the entries are freed without waiting for the writers. *)
CallsReturnedSkipped == TRUE
CallsReturned == \A u \in Users : Idle(u)
ProcRemove == /\ phase = "unhooked" /\ CallsReturned /\ phase' = "no_proc"
              /\ UNCHANGED <<hooked, list, holder, threads>>
ClearAtExit == /\ phase = "no_proc" /\ holder = Nobody /\ phase' = "gone"
               /\ blocked_list' = <<>>
               /\ addrOf' = [e \in Allocated \ ToSet(blocked_list) |-> addrOf[e]]
               /\ UNCHANGED <<hooked, holder, threads>>

ThreadStep(t) ==
  \/ Lock(t) \/ PassBy(t) \/ Found(t) \/ ip_del(t) \/ ip_clear_all(t)
  \/ EndOfList(t) \/ Alloc(t) \/ Insert(t)
LoadOrUnload ==
  CreateProc \/ RegisterHook \/ UnregisterHook \/ ProcRemove \/ ClearAtExit

Next == \/ \E u \in Users : proc_show(u) \/ proc_write(u)
        \/ \E c \in Cpus : hook_func_out(c)
        \/ \E t \in Threads : ThreadStep(t)
        \/ LoadOrUnload

Spec == Init /\ [][Next]_vars

(* A thread in a call runs on, and the mutex is handed out in the order of  *)
(* its waiters, so that none waits for ever.                                *)
Fairness == \A t \in Threads : WF_vars(ThreadStep(t)) /\ SF_vars(Lock(t) \/ Insert(t))
FairSpec == Spec /\ Fairness

-----------------------------------------------------------------------------
(* Every variable holds values of its type, and who walks holds the mutex. *)
TypeOK ==
  /\ phase \in {"absent", "proc", "loaded", "unhooked", "no_proc", "gone"}
  /\ hooked \in BOOLEAN
  /\ blocked_list \in Seq(Entries)
  /\ Allocated \subseteq Entries /\ \A e \in Allocated : addrOf[e] \in Addrs
  /\ holder \in Threads \cup {Nobody}
  /\ pc \in [Threads -> {"idle", "lock", "walk", "alloc", "insert"}]
  /\ \A t \in Threads : pc[t] = "walk" => holder = t
  /\ op \in [Threads -> Searches \cup {"none", "clear", "show"}]
  /\ arg \in [Threads -> Addrs \cup {NoAddr}]
  /\ cursor \in [Threads -> Entries \cup {NoEntry}]
  /\ verdict \in [Cpus -> {"drop", "accept"}]

LinkedOnce == \A i, j \in DOMAIN blocked_list :
                blocked_list[i] = blocked_list[j] => i = j

(* Nobody stands on an entry that was freed or unlinked under its feet: a  *)
(* walk that holds the mutex is on an allocated entry of the list, so the  *)
(* frees of ip_del, ip_clear_all and the exit never meet a reader. No entry *)
(* is linked twice.                                                        *)
WalkersSafe ==
  /\ TypeOK
  /\ ToSet(blocked_list) \subseteq Allocated
  /\ LinkedOnce
  /\ \A t \in Threads : Walking(t) => cursor[t] \in ToSet(blocked_list)
  /\ \A t, u \in Threads : pc[t] = "insert" /\ pc[u] = "insert" /\ t # u
                             => cursor[t] # cursor[u]

(* Every allocated entry is in the list or in the hands of an add that is  *)
(* about to link it, and none outlives ipblock_exit, even one an add had   *)
(* allocated when the unload began.                                        *)
NothingLeaks ==
  /\ Allocated = ToSet(blocked_list)
                 \cup {cursor[t] : t \in {u \in Threads : pc[u] = "insert"}}
  /\ phase = "gone" => Allocated = {}

(* ipblock implements Blacklist for any number of writers. While a clear   *)
(* holds the mutex its work is done as far as anyone else can tell.        *)
Clearing == holder # Nobody /\ op[holder] = "clear"
Listed(a) == IF Clearing THEN 0
             ELSE Cardinality({e \in ToSet(blocked_list) : addrOf[e] = a})
Packet(c) == IF Idle(c) THEN verdict[c] ELSE arg[c]
Abstract == INSTANCE Blacklist WITH count <- [a \in Addrs |-> Listed(a)],
                                    packet <- [c \in Cpus |-> Packet(c)]
BlacklistSpec == Abstract!Spec

(* A del that succeeds leaves its address unblocked. *)
Blocked == {addrOf[e] : e \in ToSet(blocked_list)}
DelUnblocks ==
  [][\A u \in Users : ip_del(u) => arg[u] \notin Blocked']_vars

(* Every call returns: no packet, reader or writer waits for the mutex for *)
(* ever.                                                                   *)
CallsReturn == \A t \in Threads : pc[t] = "lock" ~> Idle(t)
=============================================================================
