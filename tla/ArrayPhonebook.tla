---------------------------- MODULE ArrayPhonebook ----------------------------
(***************************************************************************)
(* module2/pract2/pract2_1: contacts in an array that is closed up by      *)
(* copying structures, each with lists of strings (stringlist.c): arrays   *)
(* that grow, of pointers, closed up as well. A copied structure points to *)
(* what the original does, and the slots behind the last one keep theirs.  *)
(***************************************************************************)
EXTENDS Integers, Sequences, SequencesExt, FiniteSetsExt

CONSTANTS
  Fields,        \* of a contact that are lists; four in the code
  Values,        \* what a user types
  Blocks,        \* of the heap, 1 .. n; malloc() takes the lowest that is free
  MaxContacts    \* bound

VARIABLES
  items, count,  \* the slots used so far and the number of contacts
  used,          \* allocated blocks
  array, text,   \* what each block holds, <<>> or NULL for nothing
  fault          \* history: something was freed that was not allocated

heap == <<used, array, text, fault>>
vars == <<items, count, heap>>
NULL == 0

stringlist_init == [items |-> NULL, count |-> 0, capacity |-> 0]
contact_init == [f \in Fields |-> stringlist_init]

Init ==
  /\ items = <<>> /\ count = 0 /\ used = {} /\ fault = FALSE
  /\ array = [b \in Blocks |-> <<>>] /\ text = [b \in Blocks |-> NULL]

(* Slip: the slot of the new contact is taken as it is. *)
StartsStale == IF count < Len(items) THEN items[count + 1] ELSE contact_init
Starts == contact_init
contactlist_add ==
  /\ count < MaxContacts /\ count' = count + 1
  /\ items' = IF count < Len(items) THEN [items EXCEPT ![count + 1] = Starts]
              ELSE Append(items, Starts)
  /\ UNCHANGED heap

free(bs) ==
  /\ used' = used \ bs /\ fault' = (fault \/ ~(bs \subseteq used))
  /\ text' = [b \in Blocks |-> IF b \in bs THEN NULL ELSE text[b]]

(* The loops that close a gap; the last slot stays as it is.               *)
(* Slip: they end one too early. *)
ClosedUpShort(s, index, n) == [i \in DOMAIN s |-> IF index <= i /\ i < n - 1 THEN s[i + 1] ELSE s[i]]
ClosedUp(s, index, n) == [i \in DOMAIN s |-> IF index <= i /\ i < n THEN s[i + 1] ELSE s[i]]
Strings(l) == {array[l.items][j] : j \in 1 .. l.count}

(* Slip: the arrays of the lists are not freed. *)
FreesStrings(c) == UNION {Strings(c[f]) : f \in Fields}
contact_free(c) == (UNION {Strings(c[f]) \cup {c[f].items} : f \in Fields}) \ {NULL}

contactlist_remove(index) ==
  /\ free(contact_free(items[index]))
  /\ array' = [b \in Blocks |-> IF b \in contact_free(items[index]) THEN <<>> ELSE array[b]]
  /\ items' = ClosedUp([items EXCEPT ![index] = contact_init], index, count)
  /\ count' = count - 1

(* What realloc() adds is not initialised.                                 *)
Grown(a, n) == [j \in 1 .. n |-> IF j \in DOMAIN a THEN a[j] ELSE NULL]
stringlist_add(i, f, value) ==
  LET l == items[i][f]
      capacity == IF l.count < l.capacity THEN l.capacity
                  ELSE IF l.capacity = 0 THEN 1 ELSE 2 * l.capacity
      at == IF l.items = NULL THEN Min(Blocks \ used) ELSE l.items
      string == Min(Blocks \ (used \cup {at}))
  IN /\ used' = used \cup {at, string} /\ text' = [text EXCEPT ![string] = value]
     /\ array' = [array EXCEPT ![at] = [Grown(@, capacity) EXCEPT ![l.count + 1] = string]]
     /\ items' = [items EXCEPT ![i][f] = [items |-> at, count |-> l.count + 1, capacity |-> capacity]]
     /\ UNCHANGED <<count, fault>>

stringlist_remove(i, f, index) ==
  LET l == items[i][f] IN
  /\ free({array[l.items][index]})
  /\ array' = [array EXCEPT ![l.items] = ClosedUp(@, index, l.count)]
  /\ items' = [items EXCEPT ![i][f].count = @ - 1]
  /\ UNCHANGED count

(* The menus refuse a number that is out of range. What a user types for a  *)
(* new contact is added to its lists like a value in the editing menu.      *)
Room == Cardinality(Blocks \ used) >= 2     \* bound
edit_stringlist_menu(i, f) ==
  \/ Room /\ \E value \in Values : stringlist_add(i, f, value)
  \/ \E index \in 1 .. items[i][f].count : stringlist_remove(i, f, index)
edit_contact_flow == \E i \in 1 .. count, f \in Fields : edit_stringlist_menu(i, f)
delete_contact_flow == \E i \in 1 .. count : contactlist_remove(i)
Next == contactlist_add \/ edit_contact_flow \/ delete_contact_flow

Spec == Init /\ [][Next]_vars

-----------------------------------------------------------------------------
(* The allocated blocks are those of the listed contacts, each of which has *)
(* its own: removals leave nothing behind, take nothing from others, and    *)
(* free nothing twice, though slots behind the last keep old pointers.      *)
Owned(i, f) == IF items[i][f].items = NULL THEN {} ELSE Strings(items[i][f]) \cup {items[i][f].items}
Lists == (1 .. count) \X Fields
HeapOwned ==
  /\ \A l \in Lists : LET c == items[l[1]][l[2]] IN
       c.items # NULL => c.items \in used /\ Len(array[c.items]) = c.capacity
  /\ ~fault /\ used = UNION {Owned(l[1], l[2]) : l \in Lists}
  /\ \A l, m \in Lists : l # m => Owned(l[1], l[2]) \cap Owned(m[1], m[2]) = {}

(* What contact_print shows changes in one place at a time: a contact or a  *)
(* value more at an end, or the chosen one less.                            *)
Printed(l) == [j \in 1 .. l.count |->
                 IF j \in DOMAIN array[l.items] THEN text[array[l.items][j]] ELSE NULL]
Shown == [i \in 1 .. count |-> [f \in Fields |-> Printed(items[i][f])]]
OneMore(s, t, more) == \E x \in more : t = Append(s, x)
OneLess(s, t) == \E i \in DOMAIN s : t = RemoveAt(s, i)
ShownSpec ==
  [][\/ OneMore(Shown, Shown', {[f \in Fields |-> <<>>]}) \/ OneLess(Shown, Shown')
     \/ \E i \in 1 .. count, f \in Fields :
          /\ count' = count
          /\ OneMore(Shown[i][f], Shown'[i][f], Values) \/ OneLess(Shown[i][f], Shown'[i][f])
          /\ Shown' = [Shown EXCEPT ![i][f] = Shown'[i][f]]]_vars
===============================================================================
