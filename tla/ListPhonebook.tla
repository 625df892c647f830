----------------------------- MODULE ListPhonebook -----------------------------
(***************************************************************************)
(* module2/pract4/pract4_1/phonebook.c: the phone book as a doubly linked  *)
(* list, first names descending. Every choice of the editing menu, whether *)
(* it changed the name or not, takes the entry out and puts it back.       *)
(***************************************************************************)
EXTENDS Integers, Sequences, FiniteSets, SequencesExt

CONSTANTS Entries,    \* addresses of entries
          Names,      \* first names, ordered as integers
          NULL, Uninitialised

VARIABLES head, tail, count,   \* the ContactList
          prev, next, name,    \* of each entry
          editing              \* the entry in edit_contact_flow, or NULL

list == <<head, tail, count>>
vars == <<list, prev, next, name, editing>>

(* contactlist_init leaves tail as it was. *)
Init ==
  /\ head = NULL /\ tail = Uninitialised /\ count = 0
  /\ prev = [e \in Entries |-> NULL] /\ next = [e \in Entries |-> NULL]
  /\ name = [e \in Entries |-> CHOOSE n \in Names : TRUE]
  /\ editing = NULL

-----------------------------------------------------------------------------
(* A list as a value, so that one operation can follow another.            *)
List == [head |-> head, tail |-> tail, count |-> count, prev |-> prev, next |-> next]
Becomes(l) ==
  /\ head' = l.head /\ tail' = l.tail /\ count' = l.count
  /\ prev' = l.prev /\ next' = l.next

(* The entry reached after i steps from the head. *)
At(l, i) ==
  LET step[k \in 0 .. i] == IF k = 0 THEN l.head ELSE l.next[step[k - 1]] IN step[i]
getContactEntryByIndex(i) == At(List, i)

(* Slip: the successor keeps its prev. *)
PopForgetsPrev(l, c) ==
  [l EXCEPT !.count = @ - 1,
            !.head = IF l.prev[c] = NULL THEN l.next[c] ELSE @,
            !.tail = IF l.next[c] = NULL THEN l.prev[c] ELSE @,
            !.next = [e \in Entries |-> IF e = l.prev[c] THEN l.next[c] ELSE @[e]]]
popEntry(l, c) ==
  [l EXCEPT !.count = @ - 1,
            !.head = IF l.prev[c] = NULL THEN l.next[c] ELSE @,
            !.tail = IF l.next[c] = NULL THEN l.prev[c] ELSE @,
            !.next = [e \in Entries |-> IF e = l.prev[c] THEN l.next[c] ELSE @[e]],
            !.prev = [e \in Entries |-> IF e = l.next[c] THEN l.prev[c] ELSE @[e]]]

(* Where the search loop of insertEntry stops, under the names nm: at the  *)
(* first smaller name, or after count entries.                             *)
(* Slip: it stops at an equal name. *)
PassedStrict(l, nm, e) ==
  LET stops == {i \in 0 .. l.count - 1 : nm[At(l, i)] <= nm[e]}
  IN IF stops = {} THEN l.count ELSE CHOOSE i \in stops : \A j \in stops : i <= j
Passed(l, nm, e) ==
  LET stops == {i \in 0 .. l.count - 1 : nm[At(l, i)] < nm[e]}
  IN IF stops = {} THEN l.count ELSE CHOOSE i \in stops : \A j \in stops : i <= j

insertEntry(l, nm, e) ==
  LET i == Passed(l, nm, e)
      nextEntry == At(l, i)
      currentEntry == IF i = 0 THEN NULL ELSE At(l, i - 1)
      more == l.count + 1
  IN IF l.count = 0
     THEN [l EXCEPT !.head = e, !.tail = e, !.count = more,
                    !.prev[e] = NULL, !.next[e] = NULL]
     ELSE IF nextEntry = l.head
     THEN [l EXCEPT !.head = e, !.count = more, !.next[e] = nextEntry,
                    !.prev[e] = NULL, !.prev[nextEntry] = e]
     ELSE IF currentEntry = l.tail
     THEN [l EXCEPT !.tail = e, !.count = more, !.next[currentEntry] = e,
                    !.next[e] = NULL, !.prev[e] = currentEntry]
     ELSE [l EXCEPT !.count = more, !.prev[e] = currentEntry, !.next[e] = nextEntry,
                    !.next[currentEntry] = e, !.prev[nextEntry] = e]

(* Slip: the entry is not taken out first. *)
MoveTwice(nm, e) == insertEntry(List, nm, e)
moveToRightPlace(nm, e) == insertEntry(popEntry(List, e), nm, e)

-----------------------------------------------------------------------------
Held == {At(List, i) : i \in 0 .. count - 1}

add_contact_flow(e, n) ==
  /\ editing = NULL
  /\ name' = [name EXCEPT ![e] = n]
  /\ Becomes(insertEntry(List, name', e))
  /\ UNCHANGED editing

(* A freed entry's fields are set again when its address is used again. *)
delete_contact_flow(i) ==
  /\ editing = NULL
  /\ Becomes(popEntry(List, getContactEntryByIndex(i)))
  /\ UNCHANGED <<name, editing>>

edit_contact_flow(i) ==
  /\ editing = NULL
  /\ editing' = getContactEntryByIndex(i)
  /\ UNCHANGED <<list, prev, next, name>>

(* One round of the editing menu; n may be the old name. *)
Choice(n) ==
  /\ editing # NULL
  /\ name' = [name EXCEPT ![editing] = n]
  /\ Becomes(moveToRightPlace(name', editing))
  /\ UNCHANGED editing

DoneEditing ==
  /\ editing # NULL /\ editing' = NULL
  /\ UNCHANGED <<list, prev, next, name>>

Next ==
  \/ \E e \in Entries \ Held, n \in Names : add_contact_flow(e, n)
  \/ \E i \in 0 .. count - 1 : delete_contact_flow(i) \/ edit_contact_flow(i)
  \/ \E n \in Names : Choice(n)
  \/ DoneEditing

Spec == Init /\ [][Next]_vars

-----------------------------------------------------------------------------
(* Every variable holds values of its type, and count entries are linked.   *)
TypeOK ==
  /\ head \in Entries \cup {NULL} /\ tail \in Entries \cup {NULL, Uninitialised}
  /\ count \in 0 .. Cardinality(Entries)
  /\ Held \subseteq Entries /\ Cardinality(Held) = count
  /\ prev \in [Entries -> Entries \cup {NULL}] /\ next \in [Entries -> Entries \cup {NULL}]
  /\ name \in [Entries -> Names] /\ editing \in Held \cup {NULL}

(* Head, tail and both directions of links describe one chain of count      *)
(* entries that ends in NULL on both sides, whatever was added, deleted or   *)
(* moved: insertEntry tells its four cases apart by comparing pointers.      *)
LinksAgree ==
  IF count = 0 THEN head = NULL
  ELSE /\ prev[head] = NULL /\ next[tail] = NULL /\ tail = At(List, count - 1)
       /\ \A i \in 0 .. count - 2 : prev[At(List, i + 1)] = At(List, i)

(* The list keeps its entries in descending order of names, equal names in   *)
(* the order in which they were put there last; nothing else moves.          *)
Order == INSTANCE StableOrder
  WITH seq <- [i \in 1 .. count |-> At(List, i - 1)],
       rank <- [e \in Entries |-> -name[e]],
       Ranks <- {-n : n \in Names}
OrderSpec == Order!Spec
=============================================================================
