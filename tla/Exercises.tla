------------------------------ MODULE Exercises ------------------------------
(***************************************************************************)
(* Four programs of module2's exercises, side by side: a linked list, a     *)
(* priority queue, an array of lists of strings, and file masks.            *)
(***************************************************************************)
EXTENDS Integers, Sequences, FiniteSets, SideBySide

CONSTANTS
  ListEntries, Names, Uninitialised,                \* ListPhonebook
  QueueEntries, Priorities, Data, FIRST,            \* PriorityQueue
  Fields, Texts, Blocks, MaxContacts,              \* ArrayPhonebook
  Files, StartModes, Numbers, Whos, Perms           \* FileMasks

VARIABLES
  head, tail, listCount, listPrev, listNext, listName, editing,     \* ListPhonebook
  link, size, priority, data, call,                         \* PriorityQueue
  items, arrayCount, used, array, text, fault,              \* ArrayPhonebook
  masks, oper                                               \* FileMasks

List == INSTANCE ListPhonebook
  WITH Entries <- ListEntries, NULL <- Nothing, count <- listCount, prev <- listPrev, next <- listNext,
       name <- listName
Queue == INSTANCE PriorityQueue WITH Entries <- QueueEntries, NULL <- Nothing
Array == INSTANCE ArrayPhonebook WITH count <- arrayCount, Values <- Texts
Modes == INSTANCE FileMasks WITH Modes <- StartModes

ASSUME EntriesAssumption ==
  /\ IsFiniteSet(ListEntries) /\ IsFiniteSet(QueueEntries)
  /\ Nothing \notin ListEntries \cup QueueEntries \cup Data /\ FIRST \notin QueueEntries
ASSUME RanksAssumption ==
  /\ Names \subseteq Int /\ Names # {} /\ Priorities \subseteq Int /\ Priorities # {}
  /\ Data # {}
ASSUME HeapAssumption == IsFiniteSet(Blocks) /\ Blocks \subseteq Nat \ {0}
ASSUME LettersAssumption ==
  /\ 1 \in Files /\ Whos \subseteq SUBSET Modes!Classes /\ Perms \subseteq SUBSET (0 .. 2)
  /\ Numbers \subseteq [1 .. 3 -> 0 .. 9]

listVars == <<head, tail, listCount, listPrev, listNext, listName, editing>>
queueVars == <<link, size, priority, data, call>>
arrayVars == <<items, arrayCount, used, array, text, fault>>
maskVars == <<masks, oper>>
bookVars == <<listVars, queueVars, arrayVars, maskVars>>

BookInit == List!Init /\ Queue!createPriorityQueue /\ Array!Init /\ Modes!collect_masks

BookStep ==
  \/ In("list", List!Next, <<queueVars, arrayVars, maskVars>>)
  \/ In("queue", Queue!Next, <<listVars, arrayVars, maskVars>>)
  \/ In("array", Array!Next, <<listVars, queueVars, maskVars>>)
  \/ In("masks", Modes!Next, <<listVars, queueVars, arrayVars>>)

BookSpec == BookInit /\ [][BookStep]_bookVars

-----------------------------------------------------------------------------
(* After any sequence of additions, deletions and renamings the list's      *)
(* head, tail and both directions of links describe one chain; the queue's  *)
(* getters, which stop at the first entry that will do, find the nearest    *)
(* one; in the array's phone book each allocated block belongs to one list  *)
(* of one contact, and is freed once.                                       *)
StructuresKept ==
  /\ List!TypeOK /\ List!LinksAgree
  /\ Queue!TypeOK /\ Queue!GettersFindNearest
  /\ Array!HeapOwned

(* The list keeps equal names, and the queue equal priorities, in the order *)
(* of arrival; a removal takes the oldest of what was asked for. What the   *)
(* users of the array see changes only where it was meant to. A command     *)
(* changes the masks of one file as chmod would, unless a digit is no octal *)
(* one.                                                                     *)
ContentsKept ==
  /\ List!OrderSpec /\ Queue!OrderSpec /\ Queue!TakesOldest
  /\ Array!ShownSpec /\ Modes!ChmodSpec
=============================================================================
