----------------------------- MODULE AvlPhonebook -----------------------------
(***************************************************************************)
(* module2/pract4/pract4_3/phonebook.c: the phone book as an AVL tree.     *)
(* Contacts are addresses; a name stands for first, last and middle name,  *)
(* compared in this order. Editing a name takes the contact out of the     *)
(* tree, changes it and puts it back.                                      *)
(***************************************************************************)
EXTENDS Integers, Sequences, FiniteSets, SequencesExt

CONSTANTS Contacts,    \* addresses, ordered as numbers, from 1
          Names        \* ordered as integers

VARIABLES root, count,   \* the ContactList
          name,          \* of each contact
          editing        \* the contact in edit_contact_flow, 0 for none

vars == <<root, count, name, editing>>

(* A tree is a node or the null pointer, which has height 0. *)
NULL == [height |-> 0]
IsNull(n) == n.height = 0
Node(c, l, r, h) == [data |-> c, left |-> l, right |-> r, height |-> h]

(* Comparison under the names nm. *)
Less(nm, a, b) == nm[a] < nm[b] \/ (nm[a] = nm[b] /\ a < b)

-----------------------------------------------------------------------------
max_val(a, b) == IF a > b THEN a ELSE b
update_height(n) == [n EXCEPT !.height = 1 + max_val(n.left.height, n.right.height)]
get_balance(n) == IF IsNull(n) THEN 0 ELSE n.left.height - n.right.height

rotate_right(y) ==
  LET x == y.left IN
  update_height([x EXCEPT !.right = update_height([y EXCEPT !.left = x.right])])

(* Slip: the middle subtree is dropped. *)
RotateLeftDrops(x) ==
  LET y == x.right IN
  update_height([y EXCEPT !.left = update_height([x EXCEPT !.right = NULL])])
rotate_left(x) ==
  LET y == x.right IN
  update_height([y EXCEPT !.left = update_height([x EXCEPT !.right = y.left])])

(* After an insertion the side on which the contact went in tells which    *)
(* rotation is due.                                                        *)
AfterInsert(nm, node, c) ==
  LET balance == get_balance(node) IN
  IF balance > 1 /\ Less(nm, c, node.left.data) THEN rotate_right(node)
  ELSE IF balance < -1 /\ Less(nm, node.right.data, c) THEN rotate_left(node)
  ELSE IF balance > 1 THEN rotate_right([node EXCEPT !.left = rotate_left(@)])
  ELSE IF balance < -1 THEN rotate_left([node EXCEPT !.right = rotate_right(@)])
  ELSE node

RECURSIVE avl_insert(_, _, _)
avl_insert(nm, node, c) ==
  IF IsNull(node) THEN Node(c, NULL, NULL, 1)
  ELSE IF c = node.data THEN node
  ELSE LET grown == IF Less(nm, c, node.data)
                    THEN [node EXCEPT !.left = avl_insert(nm, @, c)]
                    ELSE [node EXCEPT !.right = avl_insert(nm, @, c)]
       IN AfterInsert(nm, update_height(grown), c)

RECURSIVE min_value_node(_)
min_value_node(node) == IF IsNull(node.left) THEN node ELSE min_value_node(node.left)

(* After a deletion the balance of the higher child tells. *)
(* Slip: an even child is treated like one that leans inwards. *)
AfterDeleteStrict(node) ==
  LET balance == get_balance(node) IN
  IF balance > 1
  THEN IF get_balance(node.left) > 0 THEN rotate_right(node)
       ELSE rotate_right([node EXCEPT !.left = rotate_left(@)])
  ELSE IF balance < -1
  THEN IF get_balance(node.right) < 0 THEN rotate_left(node)
       ELSE rotate_left([node EXCEPT !.right = rotate_right(@)])
  ELSE node
AfterDelete(node) ==
  LET balance == get_balance(node) IN
  IF balance > 1
  THEN IF get_balance(node.left) >= 0 THEN rotate_right(node)
       ELSE rotate_right([node EXCEPT !.left = rotate_left(@)])
  ELSE IF balance < -1
  THEN IF get_balance(node.right) <= 0 THEN rotate_left(node)
       ELSE rotate_left([node EXCEPT !.right = rotate_right(@)])
  ELSE node

RECURSIVE avl_delete(_, _, _)
avl_delete(nm, node, c) ==
  IF IsNull(node) THEN NULL
  ELSE LET heir == min_value_node(node.right).data
           rest ==
             IF Less(nm, c, node.data) THEN [node EXCEPT !.left = avl_delete(nm, @, c)]
             ELSE IF Less(nm, node.data, c) THEN [node EXCEPT !.right = avl_delete(nm, @, c)]
             ELSE IF IsNull(node.left) THEN node.right
             ELSE IF IsNull(node.right) THEN node.left
             ELSE [node EXCEPT !.data = heir, !.right = avl_delete(nm, @, heir)]
       IN IF IsNull(rest) THEN NULL ELSE AfterDelete(update_height(rest))

(* The contacts in the order of the tree. *)
RECURSIVE InOrder(_)
InOrder(n) == IF IsNull(n) THEN <<>> ELSE InOrder(n.left) \o <<n.data>> \o InOrder(n.right)

(* Slip: nodes of the right subtree are not counted from the node itself. *)
GetContactShifted(idx) == InOrder(root)[IF idx = 0 THEN 1 ELSE idx]
get_contact_by_index(idx) == InOrder(root)[idx + 1]

-----------------------------------------------------------------------------
Init ==
  /\ root = NULL /\ count = 0
  /\ name = [c \in Contacts |-> CHOOSE n \in Names : TRUE]
  /\ editing = 0

Held == ToSet(InOrder(root))

(* malloc() gives any free address. *)
add_contact_flow(c, n) ==
  /\ editing = 0
  /\ name' = [name EXCEPT ![c] = n]
  /\ root' = avl_insert(name', root, c)
  /\ count' = count + 1
  /\ UNCHANGED editing

(* The number is one of those list_contacts shows. *)
delete_contact_flow(idx) ==
  /\ editing = 0
  /\ root' = avl_delete(name, root, get_contact_by_index(idx))
  /\ count' = count - 1
  /\ UNCHANGED <<name, editing>>

edit_contact_flow(idx) ==
  /\ editing = 0
  /\ editing' = get_contact_by_index(idx)
  /\ UNCHANGED <<root, count, name>>

(* Slip: the contact is not taken out first. *)
RetreeTwice(nm, new, c) == avl_insert(new, root, c)
(* Slip: the name is changed in place. *)
RetreeInPlace(nm, new, c) == root
Retree(nm, new, c) == avl_insert(new, avl_delete(nm, root, c), c)

(* Choices 1 to 3 of the editing menu. *)
Rename(n) ==
  /\ editing # 0
  /\ name' = [name EXCEPT ![editing] = n]
  /\ root' = Retree(name, name', editing)
  /\ UNCHANGED <<count, editing>>

DoneEditing ==
  /\ editing # 0 /\ editing' = 0
  /\ UNCHANGED <<root, count, name>>

Next ==
  \/ \E c \in Contacts \ Held, n \in Names : add_contact_flow(c, n)
  \/ \E idx \in 0 .. count - 1 :
       delete_contact_flow(idx) \/ edit_contact_flow(idx)
  \/ \E n \in Names : Rename(n)
  \/ DoneEditing

Spec == Init /\ [][Next]_vars

-----------------------------------------------------------------------------
(* The tree and the list hold values of their types; count is the number of *)
(* contacts in the tree, and no contact is in it twice.                     *)
TypeOK ==
  /\ Held \subseteq Contacts
  /\ count = Len(InOrder(root)) /\ count = Cardinality(Held)
  /\ name \in [Contacts -> Names]
  /\ editing \in Held \cup {0}

(* After any sequence of additions, deletions and renamings every node's    *)
(* height is right and the heights of its subtrees differ by one at most.   *)
RECURSIVE Balanced(_)
Balanced(n) ==
  \/ IsNull(n)
  \/ /\ n.height = 1 + max_val(n.left.height, n.right.height)
     /\ get_balance(n) \in -1 .. 1
     /\ Balanced(n.left) /\ Balanced(n.right)
TreeBalanced == Balanced(root)

(* The tree stays sorted through every rotation and renaming: a contact is  *)
(* found again where the comparison leads.                                  *)
TreeSorted ==
  LET s == InOrder(root)
  IN \A i \in 1 .. Len(s) - 1 : Less(name, s[i], s[i + 1])

(* The number the user gives counts the contacts by name: exactly the one    *)
(* with that many before it is deleted or edited.                           *)
WithNumber(idx) == {c \in Held : Cardinality({b \in Held : Less(name, b, c)}) = idx}
NumberedOne ==
  [][\A idx \in 0 .. count - 1 :
       /\ delete_contact_flow(idx) => Held' = Held \ WithNumber(idx)
       /\ edit_contact_flow(idx) => {editing'} = WithNumber(idx)]_vars

(* To its user the tree is a set of contacts: nothing else is lost or comes  *)
(* back when one is added, deleted or renamed.                              *)
Book == INSTANCE ContactBook WITH book <- Held
BookSpec == Book!Spec
=============================================================================
