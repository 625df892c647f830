----------------------------- MODULE PriorityQueue -----------------------------
(***************************************************************************)
(* module2/pract4/pract4_2/priorityqueue.c: a singly linked list, smallest *)
(* priority first. The code walks it with a pointer to the link it may     *)
(* change: here a link is FIRST (&pq->first) or the entry whose next it    *)
(* is.                                                                     *)
(***************************************************************************)
EXTENDS Integers, Sequences, FiniteSets, SequencesExt

CONSTANTS Entries,      \* addresses of entries
          Priorities,
          Data,         \* contents of the strings
          NULL, FIRST

VARIABLES link,      \* the entry each link leads to, or NULL
          size,
          priority, data,    \* of each entry
          call       \* the last popEntry or remove_entry: what was asked, what was found

vars == <<link, size, priority, data, call>>

Links == Entries \cup {FIRST}
NoCall == [priority |-> CHOOSE p \in Priorities : TRUE, data |-> NULL, found |-> NULL]

createPriorityQueue ==
  /\ link = [l \in Links |-> NULL] /\ size = 0
  /\ priority = [e \in Entries |-> CHOOSE p \in Priorities : TRUE]
  /\ data = [e \in Entries |-> CHOOSE d \in Data : TRUE]
  /\ call = NoCall

-----------------------------------------------------------------------------
(* The link behind k entries, and the first one that ends the list or leads *)
(* to an entry of stop. There is one, as no list has more than all entries.  *)
LinkAt(k) == LET at[i \in 0 .. k] == IF i = 0 THEN FIRST ELSE link[at[i - 1]] IN at[k]
Stops(k, stop) == link[LinkAt(k)] = NULL \/ link[LinkAt(k)] \in stop
Steps(stop) ==
  CHOOSE k \in 0 .. Cardinality(Entries) :
    Stops(k, stop) /\ \A j \in 0 .. k - 1 : ~Stops(j, stop)
Walk(stop) == LinkAt(Steps(stop))

(* Slip: entries of the same priority are not passed. *)
BehindLast(p) == {e \in Entries : priority[e] >= p}
Behind(p) == {e \in Entries : priority[e] > p}

(* The loop runs at most size + 1 times: where the list is longer than size *)
(* says, the new entry stays out of it.                                     *)
insert(e, p, d) ==
  LET at == Walk(Behind(p))
      near == \E k \in 0 .. size : LinkAt(k) = at
  IN /\ priority' = [priority EXCEPT ![e] = p] /\ data' = [data EXCEPT ![e] = d]
     /\ link' = IF near THEN [link EXCEPT ![e] = link[at], ![at] = e]
                ELSE [link EXCEPT ![e] = NULL]
     /\ size' = size + 1
     /\ UNCHANGED call

(* Slip: the contents asked for are not looked at. *)
MatchingAny(p, d) == {e \in Entries : priority[e] = p}
Matching(p, d) == {e \in Entries : priority[e] = p /\ (d = NULL \/ data[e] = d)}

(* Slip: size stays as it was. *)
UnlinkKeepsSize(l) == link' = [link EXCEPT ![l] = link[link[l]]] /\ UNCHANGED size
Unlink(l) == link' = [link EXCEPT ![l] = link[link[l]]] /\ size' = size - 1

(* popEntry hands the entry out with its next as it was, remove_entry frees *)
(* it: either way its address is used again only by insert, which sets      *)
(* every field.                                                             *)
popEntry(p, d) ==
  LET l == Walk(Matching(p, d))
  IN /\ call' = [priority |-> p, data |-> d, found |-> link[l]]
     /\ IF link[l] = NULL THEN UNCHANGED <<link, size>> ELSE Unlink(l)
     /\ UNCHANGED <<priority, data>>

getFirst == link[FIRST]
getWithPriority(p) == link[Walk({e \in Entries : priority[e] = p})]
(* Slip: the priority asked for does not count. *)
AtLeastAbove(p) == link[Walk({e \in Entries : priority[e] > p})]
getWithPriorityAtLeast(p) == link[Walk({e \in Entries : priority[e] >= p})]

-----------------------------------------------------------------------------
Held == {LinkAt(k) : k \in 1 .. size}

Next ==
  \/ \E e \in Entries \ Held, p \in Priorities, d \in Data : insert(e, p, d)
  \/ \E p \in Priorities, d \in Data \cup {NULL} : popEntry(p, d)

Spec == createPriorityQueue /\ [][Next]_vars

-----------------------------------------------------------------------------
(* Every variable holds values of its type, and size entries are linked: a  *)
(* size that lags behind would make insert lose entries without a word.     *)
TypeOK ==
  /\ link \in [Links -> Entries \cup {NULL}]
  /\ size \in 0 .. Cardinality(Entries)
  /\ Held \subseteq Entries /\ Cardinality(Held) = size /\ link[LinkAt(size)] = NULL
  /\ priority \in [Entries -> Priorities] /\ data \in [Entries -> Data]
  /\ call \in [priority : Priorities, data : Data \cup {NULL}, found : Entries \cup {NULL}]

(* The queue is ordered by priority, entries of one priority in the order   *)
(* they were inserted ("for equal priority the insertion order must be      *)
(* preserved", tests.c), through every removal from anywhere in it.         *)
Queue == [k \in 1 .. size |-> LinkAt(k)]
Order == INSTANCE StableOrder
  WITH seq <- Queue, rank <- priority, Ranks <- Priorities
OrderSpec == Order!Spec

(* What a removal takes is what was asked for, the oldest of several, and   *)
(* it finds nothing only where the queue holds nothing of the kind.         *)
Asked(e) == priority[e] = call'.priority /\ call'.data \in {NULL, data[e]}
TakesOldest ==
  [][call' # call =>
       LET asked == {k \in DOMAIN Queue : Asked(Queue[k])}
       IN IF asked = {} THEN call'.found = NULL
          ELSE \E k \in asked : call'.found = Queue[k] /\ \A j \in asked : k <= j]_vars

(* The getters, which stop at the first entry that will do, find the        *)
(* smallest priority: no entry they pass over was nearer.                   *)
GettersFindNearest ==
  \A p \in Priorities :
    LET near == {e \in Held : priority[e] >= p}
        found == getWithPriorityAtLeast(p)
    IN /\ found = NULL <=> near = {}
       /\ near # {} => /\ found \in near
                       /\ \A e \in near : priority[found] <= priority[e]
                       /\ getWithPriority(priority[found]) = found
                       /\ priority[getFirst] <= priority[found]
=============================================================================
