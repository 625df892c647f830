------------------------------ MODULE ContactBook -----------------------------
(* What module2/pract4/pract4_3 promises of its phone book: a set of         *)
(* contacts with names; one of them may be edited, and renamed meanwhile.   *)
CONSTANTS Contacts, Names

VARIABLES book,      \* the contacts kept
          name,      \* the name of each
          editing    \* the contact being edited, 0 for none

Init == book = {} /\ name \in [Contacts -> Names] /\ editing = 0

Add(c, n) ==
  /\ editing = 0 /\ c \notin book
  /\ book' = book \cup {c} /\ name' = [name EXCEPT ![c] = n]
  /\ UNCHANGED editing

Delete(c) ==
  /\ editing = 0 /\ c \in book
  /\ book' = book \ {c}
  /\ UNCHANGED <<name, editing>>

Edit(c) ==
  /\ editing = 0 /\ c \in book
  /\ editing' = c
  /\ UNCHANGED <<book, name>>

Rename(n) ==
  /\ editing # 0 /\ name' = [name EXCEPT ![editing] = n]
  /\ UNCHANGED <<book, editing>>

Done == editing' = 0 /\ UNCHANGED <<book, name>>

Next ==
  \/ \E c \in Contacts : Delete(c) \/ Edit(c) \/ \E n \in Names : Add(c, n)
  \/ \E n \in Names : Rename(n)
  \/ Done

Spec == Init /\ [][Next]_<<book, name, editing>>
=============================================================================
