------------------------------- MODULE FileMasks -------------------------------
(***************************************************************************)
(* module2/pract3/pract3_1/main.c: the permission masks of a directory's   *)
(* files, changed by commands like chmod's. A mask is the set of its bits: *)
(* x, w, r of the others are 0, 1, 2, of the group 3 .. 5, of the user 6   *)
(* .. 8; |= is union, &= ~ is difference, a shift adds to each.            *)
(***************************************************************************)
EXTENDS Integers

CONSTANTS
  Files,       \* 1 .. n, in the order readdir() gave them
  Modes,       \* what they start with
  Numbers,     \* digits of the numbers a user types, last one first
  Whos, Perms  \* letters of u, g, o and bits of r, w, x in a word he types

VARIABLES masks, oper
vars == <<masks, oper>>
None == "none"
Classes == {"u", "g", "o"}
Shift == [o |-> 0, g |-> 3, u |-> 6]
Shifted(bits, n) == {b + n : b \in bits}

collect_masks == masks \in [Files -> Modes] /\ oper = "="

(* The digits are decimal: a part may have a fourth bit. *)
Worth == <<1, 2, 4, 8>>
Bits(part) == {b \in 0 .. 3 : (part \div Worth[b + 1]) % 2 = 1}
readmaskfromint(digits) == UNION {Shifted(Bits(digits[i]), 3 * (i - 1)) : i \in 1 .. 3}

(* Slip: without a letter nobody is meant. *)
MeantNamed(who) == who
Meant(who) == IF who = {} THEN Classes ELSE who
InClasses(bits, who) == UNION {Shifted(bits, Shift[c]) : c \in Meant(who)}
readmaskfromstring(who, perms) == InClasses(perms, who)
maskequal(who) == InClasses(0 .. 2, who)

(* Slip: = clears the whole mask. *)
AssignedAlone(mask, who, perms) == readmaskfromstring(who, perms)
Assigned(mask, who, perms) == (mask \ maskequal(who)) \cup readmaskfromstring(who, perms)

(* A name that is not there, here 0, is the first file's. *)
Chosen(name) == IF name = 0 THEN 1 ELSE name

Number(name, digits) ==
  /\ masks' = [masks EXCEPT ![Chosen(name)] = readmaskfromint(digits)]
  /\ UNCHANGED oper

(* An operator stays for the words that have none. *)
Word(name, who, op, perms) ==
  /\ oper' = IF op = None THEN oper ELSE op
  /\ masks' = [masks EXCEPT ![Chosen(name)] =
       IF oper' = "+" THEN @ \cup readmaskfromstring(who, perms)
       ELSE IF oper' = "-" THEN @ \ readmaskfromstring(who, perms)
       ELSE Assigned(@, who, perms)]

Command(name) ==
  \/ \E digits \in Numbers : Number(name, digits)
  \/ \E who \in Whos, op \in {"+", "-", "=", None}, perms \in Perms : Word(name, who, op, perms)
Next == \E name \in Files \cup {0} : Command(name)

Spec == collect_masks /\ [][Next]_vars

-----------------------------------------------------------------------------
(* What a command says of a class: the permissions it has, gets or loses.   *)
Has(mask, c) == {b \in 0 .. 2 : b + Shift[c] \in mask}
Says(mask, c, who, op, perms) ==
  LET has == Has(mask, c) IN
  IF who # {} /\ c \notin who THEN has
  ELSE IF op = "+" THEN has \cup perms ELSE IF op = "-" THEN has \ perms ELSE perms
Octal(digits) == \A i \in 1 .. 3 : digits[i] <= 7
Digit(digits, c) == digits[Shift[c] \div 3 + 1]

(* A command changes one file as it says: a word every class it means and   *)
(* no other, a number all three, unless a digit is no octal digit: an 8 or  *)
(* 9 spills into the class above.                                           *)
ChmodSpec ==
  [][\E f \in Files :
       /\ \A g \in Files \ {f} : masks'[g] = masks[g]
       /\ \/ \E who \in Whos, perms \in Perms : \A c \in Classes :
               Has(masks'[f], c) = Says(masks[f], c, who, oper', perms)
          \/ oper' = oper /\ \E digits \in Numbers :
               \/ \A c \in Classes : Has(masks'[f], c) = Bits(Digit(digits, c))
               \/ ~Octal(digits) /\ masks'[f] = readmaskfromint(digits)]_vars
===============================================================================
