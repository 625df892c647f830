------------------------------ MODULE CharDevice ------------------------------
(***************************************************************************)
(* module5/practice4/practice4.c: a character device that one process at a *)
(* time may open, a mutex tried on open and released on close. Its device  *)
(* is there for all before its buffer is, and before mutex_init(). Copies  *)
(* between user and kernel are interleaved cell by cell; a process copies  *)
(* a text in (tee) or reads to the end of file (cat).                      *)
(***************************************************************************)
EXTENDS Integers, Sequences, FiniteSets, SequencesExt

CONSTANTS
  Processes,
  Texts,        \* what is written, sequences of cells, not empty
  BUF_SIZE,     \* 1024 bytes in the code, here cells; more than one
  MaxRead,      \* bound: cells a read asks for
  MaxLoads,     \* bound: times the module is loaded
  NULL

VARIABLES
  module,       \* absent, coming, live or going
  made,         \* what it has registered and allocated
  loads,
  locked,       \* dev_mutex
  kbuf, data_size,
  pc,           \* what each process does
  off,          \* offset of its file
  rest,         \* what tee has still to write
  n, k,         \* cells the call copies, and has copied
  got,          \* what cat has read
  stored,       \* history: the last text a dev_write() stored
  early         \* history: somebody opened the device before the end of init

memory == <<locked, kbuf, data_size>>
process == <<pc, off, rest, n, k, got>>
kernel == <<module, made, loads>>
vars == <<kernel, memory, process, stored, early>>

LeastOf(a, b) == IF a < b THEN a ELSE b
Empty == [i \in 1 .. BUF_SIZE |-> NULL]
Goto(p, l) == pc' = [pc EXCEPT ![p] = l]

Init ==
  /\ module = "absent" /\ made = {} /\ loads = 0
  /\ locked = FALSE /\ kbuf = Empty /\ data_size = 0
  /\ pc = [p \in Processes |-> "closed"]
  /\ off = [p \in Processes |-> 0] /\ rest = [p \in Processes |-> <<>>]
  /\ n = [p \in Processes |-> 0] /\ k = [p \in Processes |-> 0]
  /\ got = [p \in Processes |-> <<>>]
  /\ stored = <<>> /\ early = FALSE

-----------------------------------------------------------------------------
(* An open file holds a reference to its owner. *)
(* Slip: .owner is not set. *)
PinnedNever == FALSE
Pinned == \E p \in Processes : pc[p] # "closed"

(* mychardev_init and mychardev_exit. The module's variables start anew.   *)
Insmod ==
  /\ module = "absent" /\ ~Pinned /\ loads < MaxLoads
  /\ module' = "coming" /\ loads' = loads + 1
  /\ locked' = FALSE /\ kbuf' = Empty /\ data_size' = 0
  /\ stored' = <<>> /\ early' = FALSE
  /\ UNCHANGED <<made, process>>

Order == <<"region", "cdev", "class", "device", "kbuf">>
Stage == Cardinality(made)

InitStep ==
  /\ module = "coming" /\ Stage < Len(Order)
  /\ made' = made \cup {Order[Stage + 1]}
  /\ UNCHANGED <<module, loads, memory, process, stored, early>>

(* What the failure of each call undoes. *)
(* Slip: where kmalloc() fails, the class is forgotten. *)
UndoneForgets == IF Stage = 4 THEN {"device", "cdev", "region"} ELSE made
Undone ==
  IF Stage = 0 THEN {}
  ELSE IF Stage = 1 THEN {"region"}
  ELSE IF Stage = 2 THEN {"cdev", "region"}
  ELSE IF Stage = 3 THEN {"class", "cdev", "region"}
  ELSE {"device", "class", "cdev", "region"}

InitFails ==
  /\ module = "coming" /\ Stage < Len(Order)
  /\ module' = "absent" /\ made' = made \ Undone
  /\ UNCHANGED <<loads, memory, process, stored, early>>

InitDone ==
  /\ module = "coming" /\ Stage = Len(Order)
  /\ module' = "live"
  /\ data_size' = 0 /\ locked' = FALSE
  /\ stored' = <<>>
  /\ UNCHANGED <<made, loads, kbuf, process, early>>

Rmmod ==
  /\ module = "live" /\ ~Pinned
  /\ module' = "absent" /\ made' = {}
  /\ UNCHANGED <<loads, memory, process, stored, early>>

-----------------------------------------------------------------------------
(* The file operations.                                                    *)
(* Slip: the result of mutex_trylock() is not looked at. *)
TrylockIgnored == TRUE
Trylock == ~locked

(* Elsewhere open() returns -EBUSY, or finds no device. *)
dev_open(p, t) ==
  /\ pc[p] = "closed" /\ module \in {"coming", "live"} /\ "device" \in made
  /\ Trylock /\ locked' = TRUE
  /\ Goto(p, IF t = <<>> THEN "cat" ELSE "tee")
  /\ off' = [off EXCEPT ![p] = 0] /\ rest' = [rest EXCEPT ![p] = t]
  /\ got' = [got EXCEPT ![p] = <<>>]
  /\ early' = (early \/ module = "coming")
  /\ UNCHANGED <<kernel, kbuf, data_size, n, k, stored>>

(* Also what the end of the process does. *)
Release(p) ==
  /\ locked' = FALSE /\ Goto(p, "closed")

dev_release(p) ==
  /\ pc[p] \in {"cat", "tee", "eof"}
  /\ Release(p)
  /\ UNCHANGED <<kernel, kbuf, data_size, off, rest, n, k, got, stored, early>>

BeginRead(p, len) ==
  /\ pc[p] = "cat"
  /\ IF off[p] >= data_size
     THEN Goto(p, "eof") /\ UNCHANGED <<n, k>>
     ELSE /\ n' = [n EXCEPT ![p] = LeastOf(data_size - off[p], len)]
          /\ k' = [k EXCEPT ![p] = 0]
          /\ Goto(p, "reading")
  /\ UNCHANGED <<kernel, memory, off, rest, got, stored, early>>

CopyOut(p) ==
  /\ pc[p] = "reading" /\ k[p] < n[p]
  /\ got' = [got EXCEPT ![p] = Append(@, kbuf[off[p] + k[p] + 1])]
  /\ k' = [k EXCEPT ![p] = @ + 1]
  /\ UNCHANGED <<kernel, memory, pc, off, rest, n, stored, early>>

EndRead(p) ==
  /\ pc[p] = "reading" /\ k[p] = n[p]
  /\ off' = [off EXCEPT ![p] = @ + n[p]]
  /\ Goto(p, "cat")
  /\ UNCHANGED <<kernel, memory, rest, n, k, got, stored, early>>

(* Slip: room for the terminator is not kept. *)
TakenAll(len) == LeastOf(len, BUF_SIZE)
Taken(len) == LeastOf(len, BUF_SIZE - 1)

(* Without a buffer the copy to NULL ends the process. *)
BeginWrite(p) ==
  /\ pc[p] = "tee" /\ rest[p] # <<>>
  /\ IF "kbuf" \in made
     THEN /\ n' = [n EXCEPT ![p] = Taken(Len(rest[p]))] /\ k' = [k EXCEPT ![p] = 0]
          /\ Goto(p, "writing") /\ UNCHANGED locked
     ELSE Release(p) /\ UNCHANGED <<n, k>>
  /\ UNCHANGED <<kernel, kbuf, data_size, off, rest, got, stored, early>>

CopyIn(p) ==
  /\ pc[p] = "writing" /\ k[p] < n[p]
  /\ kbuf' = [kbuf EXCEPT ![k[p] + 1] = rest[p][k[p] + 1]]
  /\ k' = [k EXCEPT ![p] = @ + 1]
  /\ UNCHANGED <<kernel, locked, data_size, pc, off, rest, n, got, stored, early>>

(* The caller goes on with what was not taken, from the start of the buffer. *)
EndWrite(p) ==
  /\ pc[p] = "writing" /\ k[p] = n[p]
  /\ kbuf' = [kbuf EXCEPT ![n[p] + 1] = NULL] /\ data_size' = n[p]
  /\ stored' = SubSeq(rest[p], 1, n[p])
  /\ rest' = [rest EXCEPT ![p] = SubSeq(@, n[p] + 1, Len(@))]
  /\ Goto(p, "tee")
  /\ UNCHANGED <<kernel, locked, off, n, k, got, early>>

Load == Insmod \/ InitStep \/ InitFails \/ InitDone \/ Rmmod
(* Calls into a module that is gone are not modelled. *)
Call(p) ==
  \/ \E t \in Texts \cup {<<>>} : dev_open(p, t)
  \/ \E len \in 1 .. MaxRead : BeginRead(p, len)
  \/ CopyOut(p) \/ EndRead(p) \/ BeginWrite(p) \/ CopyIn(p) \/ EndWrite(p)
  \/ dev_release(p)
Next == Load \/ (module # "absent" /\ \E p \in Processes : Call(p))

Spec == Init /\ [][Next]_vars

-----------------------------------------------------------------------------
(* Every variable holds values of its type, and no copy leaves the buffer:  *)
(* a terminator must fit behind the data.                                   *)
Cells == {NULL} \cup UNION {ToSet(t) : t \in Texts}
TypeOK ==
  /\ module \in {"absent", "coming", "live"} /\ made \subseteq ToSet(Order)
  /\ locked \in BOOLEAN
  /\ kbuf \in [1 .. BUF_SIZE -> Cells] /\ data_size \in 0 .. BUF_SIZE - 1
  /\ pc \in [Processes -> {"closed", "cat", "tee", "eof", "reading", "writing"}]
  /\ \A p \in Processes : /\ k[p] \in 0 .. n[p] /\ n[p] \in 0 .. BUF_SIZE - 1
                          /\ off[p] \in 0 .. BUF_SIZE - 1
                          /\ rest[p] \in Seq(Cells) /\ got[p] \in Seq(Cells)

(* Two processes never have the device open, unless one opened it before    *)
(* mutex_init() at the end of the module's init, which unlocks it again.    *)
OneOpener ==
  ~early => \A p, q \in Processes : (pc[p] # "closed" /\ pc[q] # "closed") => p = q

(* Who reads to the end of file has read what one write stored, whole and   *)
(* unmixed, however many processes open, write and give up meanwhile; with  *)
(* the same exception.                                                      *)
ReadsOneText == ~early => \A p \in Processes : pc[p] = "eof" => got[p] = stored

(* The module is not unloaded under an open file, with the same exception:  *)
(* init may still fail after the device has been opened.                    *)
CallsHaveModule ==
  (module = "absent" /\ ~early) => \A p \in Processes : pc[p] = "closed"

(* An init that fails at any of its calls, and an exit, leave nothing.      *)
NothingLeft == module = "absent" => made = {}
=============================================================================
