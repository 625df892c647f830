------------------------------ MODULE MCExercises ------------------------------
(***************************************************************************)
(* Nine programs of the course that share nothing, checked side by side:  *)
(* those of Exercises and the phone book in a tree.                        *)
(***************************************************************************)
EXTENDS Exercises, KernelModules, TLC

CONSTANTS
  e1, e2, e3, e4, d1, d2,     \* addresses of entries, contents
  p1, p2                      \* processes

VARIABLES root, count, name, renaming               \* AvlPhonebook

treeVars == <<root, count, name, renaming>>
restVars == <<bookVars, moduleVars>>

(* Ranks of full names. *)
TreeNames == {1, 2}
Tree == INSTANCE AvlPhonebook WITH Contacts <- 1 .. 8, Names <- TreeNames, editing <- renaming

MCListEntries == {e1, e2, e3, e4}
MCQueueEntries == {e1, e2, e3}
(* A text that fits the device's buffer with room to spare, and one that   *)
(* does not.                                                               *)
MCDeviceTexts == {<<"a">>, <<"b", "c", "d">>}
MCProcTexts == {<<"a">>, <<"b", "c">>}
(* Four blocks are three strings in a list that has grown twice.           *)
MCBlocks == 1 .. 4
MCStartModes == {{1, 2, 5, 8}}
MCNumbers == {<<4, 9, 0>>}
MCWhos == {{}, {"u"}}
MCPerms == {{2}, {0, 1}}

Init ==
  /\ program \in {"tree", "list", "queue", "array", "masks", "device", "proc", "leds", "netlink"}
  /\ Tree!Init /\ BookInit /\ ModuleInit

(* Names differ in trees of five contacts at most; eight namesakes make a  *)
(* tree that every rotation is needed for.                                 *)
Bound == (\A c \in 6 .. 8 : name[c] = 1 /\ c \notin Tree!Held) \/ \A c \in 1 .. 8 : name[c] = 1

TreeStep == In("tree", Tree!Next /\ Bound', restVars)
Next ==
  \/ TreeStep
  \/ BookStep /\ UNCHANGED <<treeVars, moduleVars>>
  \/ ModuleStep /\ UNCHANGED <<treeVars, bookVars>>

Spec == Init /\ [][Next]_<<program, treeVars, restVars>>

Swaps == Permutations({e1, e2, e3}) \cup Permutations({p1, p2})

-----------------------------------------------------------------------------
(* After any sequence of additions, deletions and renamings the tree is     *)
(* balanced and sorted, a number names the contact at that position, and    *)
(* nothing but what was meant is lost, changed or comes back.               *)
TreeKept ==
  /\ [](Tree!TypeOK /\ Tree!TreeBalanced /\ Tree!TreeSorted)
  /\ Tree!BookSpec /\ Tree!NumberedOne
=============================================================================
