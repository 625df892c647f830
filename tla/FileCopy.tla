------------------------------- MODULE FileCopy -------------------------------
(***************************************************************************)
(* module3/practice1/practice1.c: a parent reads files and sends them in   *)
(* chunks over a pipe or FIFO to a child, which writes the copies. Every   *)
(* item is announced by a command; the child does not look at the results  *)
(* of its reads, so at end of file (the parent was killed) it goes on with *)
(* what its buffers hold. Writes of this size enter a pipe whole.          *)
(***************************************************************************)
EXTENDS Integers, Sequences, FiniteSets, SequencesExt

CONSTANTS
  Names,        \* all file names
  CopyOf,       \* the name with ".copy" of each argument
  ArgLists,     \* the argument lists to run with
  Contents,     \* what the files hold before the run
  Missing, Unwritable,    \* names that cannot be opened, or created
  CHUNK_SIZE,   \* cells in a chunk (256 bytes in the code)
  Capacity,     \* items a pipe holds
  MaxKills,     \* bound
  MaxLength     \* bound: cells of a copy that grows for ever

None == "none"
Garbage == "garbage"     \* what an uninitialised buffer holds

ASSUME FilesAssumption ==
  /\ CopyOf \in [DOMAIN CopyOf -> Names \ {None, Garbage}] /\ IsInjective(CopyOf)
  /\ DOMAIN CopyOf \subseteq Names \ {None, Garbage}
  /\ \A f \in DOMAIN CopyOf : CopyOf[f] # f
  /\ ArgLists \subseteq Seq(DOMAIN CopyOf) \ {<<>>}
  /\ Contents \in [Names -> Seq(UNION {ToSet(Contents[f]) : f \in Names})]
ASSUME Bounds ==
  {CHUNK_SIZE, Capacity, MaxKills, MaxLength} \subseteq Nat /\ CHUNK_SIZE > 0

VARIABLES
  named, args,      \* FIFOs or pipes, and the files to copy
  pc,               \* where parent and child are
  p1, p2,           \* the pipes to the child and back
  todo,             \* parent: the write() calls before its next read
  k, in_fd, pos,    \* parent: argument index, open file and offset
  inbuf, current_name, chunk_size, chunk, out_fd,   \* child's variables
  content,          \* of every file
  kills,
  copied            \* history: files the child reported as copied

parentVars == <<todo, k, in_fd, pos>>
childVars == <<inbuf, current_name, chunk_size, chunk, out_fd>>
setup == <<named, args>>
vars == <<setup, pc, p1, p2, parentVars, childVars, content, kills, copied>>

Command(c) == [kind |-> "command", value |-> c]
Name(f) == [kind |-> "name", value |-> f]
Size(n) == [kind |-> "size", value |-> n]
Cell(x) == [kind |-> "cell", value |-> x]

Goto(p, l) == pc' = [pc EXCEPT ![p] = l]
Over(p) == pc[p] \in {"done", "killed"}

(* chunk_size is not initialised: zero or not. *)
Init ==
  /\ named \in BOOLEAN /\ args \in ArgLists
  /\ pc = [parent |-> IF named THEN "open1" ELSE "ready",
           child |-> IF named THEN "open1" ELSE "hello"]
  /\ p1 = <<>> /\ p2 = <<>> /\ todo = <<>>
  /\ k = 1 /\ in_fd = None /\ pos = 0
  /\ inbuf = Garbage /\ current_name = Garbage
  /\ chunk_size \in {0, CHUNK_SIZE}
  /\ chunk = [x \in 1 .. CHUNK_SIZE |-> Garbage]
  /\ out_fd = None /\ content = Contents
  /\ kills = 0 /\ copied = {}

-----------------------------------------------------------------------------
(* open() of a FIFO waits for the other end: both return together. The     *)
(* order in which each process opens the two.                              *)
(* Slip: the child opens fifo2 first. *)
OpensCrossed(p) == IF p = "child" THEN <<"fifo2", "fifo1">> ELSE <<"fifo1", "fifo2">>
Opens(p) == <<"fifo1", "fifo2">>
Opening(p) == IF pc[p] = "open1" THEN Opens(p)[1]
              ELSE IF pc[p] = "open2" THEN Opens(p)[2] ELSE None

OpenFifo ==
  /\ Opening("parent") # None /\ Opening("parent") = Opening("child")
  /\ pc' = [parent |-> IF pc["parent"] = "open1" THEN "open2" ELSE "ready",
            child |-> IF pc["child"] = "open1" THEN "open2" ELSE "hello"]
  /\ UNCHANGED <<setup, p1, p2, parentVars, childVars, content, kills, copied>>

-----------------------------------------------------------------------------
(* The parent. A write waits for room for all of it; with no reader left   *)
(* it is ended by SIGPIPE.                                                 *)
NoReader == Over("child")

Write ==
  /\ todo # <<>> /\ ~Over("parent")
  /\ IF NoReader THEN Goto("parent", "killed") /\ UNCHANGED <<p1, todo>>
     ELSE /\ Len(p1) + Len(Head(todo)) <= Capacity
          /\ p1' = p1 \o Head(todo) /\ todo' = Tail(todo)
          /\ UNCHANGED pc
  /\ UNCHANGED <<setup, p2, k, in_fd, pos, childVars, content, kills, copied>>

(* Whatever the child says, or its end, lets the parent go on. *)
ReadReady ==
  /\ pc["parent"] = "ready" /\ (p2 # <<>> \/ Over("child"))
  /\ p2' = <<>>
  /\ Goto("parent", "next")
  /\ UNCHANGED <<setup, p1, parentVars, childVars, content, kills, copied>>

(* What is written for a file that was opened, or could not be. *)
(* Slip: the command is sent before the file is opened. *)
AnnounceEarly(f) ==
  IF f \in Missing THEN <<<<Command("prepare_for_filename")>>>>
  ELSE <<<<Command("prepare_for_filename")>>, <<Name(f)>>>>
Announce(f) ==
  IF f \in Missing THEN <<>>
  ELSE <<<<Command("prepare_for_filename")>>, <<Name(f)>>>>

(* Slip: the index of the last argument is not reached. *)
MoreButLast == k < Len(args)
More == k <= Len(args)

NextFile ==
  /\ pc["parent"] = "next" /\ todo = <<>> /\ More
  /\ todo' = Announce(args[k]) /\ pos' = 0
  /\ IF args[k] \in Missing
     THEN k' = k + 1 /\ UNCHANGED <<in_fd, pc>>
     ELSE in_fd' = args[k] /\ Goto("parent", "read") /\ UNCHANGED k
  /\ UNCHANGED <<setup, p1, p2, childVars, content, kills, copied>>

(* Where a read at pos ends. *)
(* Slip: more is read than the child's buffer holds. *)
ReadEndTooFar(size) == IF pos + CHUNK_SIZE + 1 <= size THEN pos + CHUNK_SIZE + 1 ELSE size
ReadEnd(size) == IF pos + CHUNK_SIZE <= size THEN pos + CHUNK_SIZE ELSE size

ReadChunk ==
  /\ pc["parent"] = "read" /\ todo = <<>>
  /\ LET size == Len(content[in_fd])
         end == ReadEnd(size)
         cells == SubSeq(content[in_fd], pos + 1, end)
     IN IF pos < size
        THEN /\ todo' = << <<Command("prepare_for_size")>>, <<Size(end - pos)>>,
                           <<Command("prepare_for_message")>>,
                           [x \in DOMAIN cells |-> Cell(cells[x])] >>
             /\ pos' = end /\ UNCHANGED <<k, in_fd, pc>>
        ELSE /\ todo' = << <<Command("prepare_for_size")>>, <<Size(0)>> >>
             /\ k' = k + 1 /\ in_fd' = None /\ UNCHANGED pos
             /\ Goto("parent", "next")
  /\ UNCHANGED <<setup, p1, p2, childVars, content, kills, copied>>

EndTransmission ==
  /\ pc["parent"] = "next" /\ todo = <<>> /\ ~More
  /\ todo' = << <<Command("end_of_transmission")>> >>
  /\ Goto("parent", "wait")
  /\ UNCHANGED <<setup, p1, p2, k, in_fd, pos, childVars, content, kills, copied>>

(* wait(NULL) and, for FIFOs, unlink. *)
Waited ==
  /\ pc["parent"] = "wait" /\ todo = <<>> /\ Over("child")
  /\ Goto("parent", "done")
  /\ UNCHANGED <<setup, p1, p2, parentVars, childVars, content, kills, copied>>

-----------------------------------------------------------------------------
(* The child. At end of file the reads leave the buffers as they are.      *)
ParentGone == pc["parent"] \in {"done", "killed"}
Eof == p1 = <<>> /\ (ParentGone \/ (pc["parent"] = "wait" /\ todo = <<>>))
Next1(kind) == p1 # <<>> /\ Head(p1).kind = kind

SayReady ==
  /\ pc["child"] = "hello"
  /\ IF ParentGone THEN Goto("child", "killed") /\ UNCHANGED p2
                   ELSE Goto("child", "command") /\ p2' = <<"ready_for_input">>
  /\ UNCHANGED <<setup, p1, parentVars, childVars, content, kills, copied>>

(* Where the loop goes on for the command in inbuf. *)
Branch(c) ==
  IF c = "prepare_for_filename" THEN "name"
  ELSE IF c = "prepare_for_size" THEN "size"
  ELSE IF c = "prepare_for_message" THEN "message"
  ELSE IF c = "end_of_transmission" THEN "done" ELSE "command"

ReadCommand ==
  /\ pc["child"] = "command"
  /\ \/ Next1("command") /\ inbuf' = Head(p1).value /\ p1' = Tail(p1)
     \/ Eof /\ UNCHANGED <<inbuf, p1>>
  /\ Goto("child", Branch(inbuf'))
  /\ UNCHANGED <<setup, p2, parentVars, current_name, chunk_size, chunk, out_fd,
                 content, kills, copied>>

(* open() with O_TRUNC. At end of file it is repeated for ever, without a  *)
(* close, and fails in the end.                                            *)
Create(f) ==
  LET target == IF f = Garbage THEN Garbage ELSE CopyOf[f] IN
  \/ /\ target \notin Unwritable /\ out_fd' = target
     /\ IF target = Garbage THEN UNCHANGED content
                            ELSE content' = [content EXCEPT ![target] = <<>>]
  \/ (target \in Unwritable \/ Eof) /\ out_fd' = None /\ UNCHANGED content

ReadName ==
  /\ pc["child"] = "name"
  /\ \/ /\ Next1("name") /\ current_name' = Head(p1).value /\ p1' = Tail(p1)
        /\ copied' = copied \ {current_name'}
     \/ Eof /\ UNCHANGED <<current_name, p1, copied>>
  /\ Create(current_name')
  /\ Goto("child", "command")
  /\ UNCHANGED <<setup, p2, parentVars, inbuf, chunk_size, chunk, kills>>

(* Size zero closes the copy. *)
ReadSize ==
  /\ pc["child"] = "size"
  /\ \/ Next1("size") /\ chunk_size' = Head(p1).value /\ p1' = Tail(p1)
     \/ Eof /\ UNCHANGED <<chunk_size, p1>>
  /\ IF chunk_size' = 0 /\ out_fd # None
     THEN /\ out_fd' = None
          /\ copied' = IF Eof THEN copied ELSE copied \cup {current_name}
     ELSE UNCHANGED <<out_fd, copied>>
  /\ Goto("child", "command")
  /\ UNCHANGED <<setup, p2, parentVars, inbuf, current_name, chunk, content, kills>>

(* read_exact waits for chunk_size cells. *)
(* Slip: the whole buffer is written. *)
WholeChunk == SubSeq(chunk', 1, CHUNK_SIZE)
Written == SubSeq(chunk', 1, chunk_size)

ReadMessage ==
  /\ pc["child"] = "message"
  /\ \/ /\ Len(p1) >= chunk_size /\ p1 # <<>>
        /\ \A x \in 1 .. chunk_size : p1[x].kind = "cell"
        /\ chunk' = [x \in DOMAIN chunk |-> IF x <= chunk_size THEN p1[x].value ELSE chunk[x]]
        /\ p1' = SubSeq(p1, chunk_size + 1, Len(p1))
     \/ Eof /\ UNCHANGED <<chunk, p1>>
  /\ IF out_fd \in {None, Garbage} THEN UNCHANGED content
     ELSE /\ Len(content[out_fd]) < MaxLength
          /\ content' = [content EXCEPT ![out_fd] = @ \o Written]
  /\ Goto("child", "command")
  /\ UNCHANGED <<setup, p2, parentVars, inbuf, current_name, chunk_size, out_fd,
                 kills, copied>>

-----------------------------------------------------------------------------
Kill(p) ==
  /\ ~Over(p) /\ kills < MaxKills
  /\ kills' = kills + 1
  /\ Goto(p, "killed")
  /\ UNCHANGED <<setup, p1, p2, parentVars, childVars, content, copied>>

Parent == Write \/ ReadReady \/ NextFile \/ ReadChunk \/ EndTransmission \/ Waited
Child == SayReady \/ ReadCommand \/ ReadName \/ ReadSize \/ ReadMessage
Next == OpenFifo \/ Parent \/ Child \/ \E p \in {"parent", "child"} : Kill(p)

Spec == Init /\ [][Next]_vars
(* Both processes run. *)
Fairness == WF_vars(OpenFifo) /\ WF_vars(Parent) /\ WF_vars(Child)
FairSpec == Spec /\ Fairness

-----------------------------------------------------------------------------
(* Every variable holds values of its type.                                *)
Values == {Garbage} \cup UNION {ToSet(Contents[f]) : f \in Names}
TypeOK ==
  /\ k \in 1 .. Len(args) + 1 /\ pos \in Nat
  /\ in_fd \in Names \cup {None} /\ out_fd \in Names \cup {None, Garbage}
  /\ chunk_size \in 0 .. CHUNK_SIZE /\ chunk \in [1 .. CHUNK_SIZE -> Values]
  /\ current_name \in DOMAIN CopyOf \cup {Garbage}
  /\ content \in [Names -> Seq(Values)]
  /\ copied \subseteq DOMAIN CopyOf
  /\ Len(p1) <= Capacity /\ p2 \in {<<>>, <<"ready_for_input">>}

(* Child and parent agree on what comes next: whatever the child is about  *)
(* to read, and however files are skipped, that is the item it finds.      *)
Expected == [command |-> "command", name |-> "name", size |-> "size", message |-> "cell"]
InSync ==
  (pc["child"] \in DOMAIN Expected /\ p1 # <<>>) =>
    /\ Head(p1).kind = Expected[pc["child"]]
    /\ pc["child"] = "message" =>
         Len(p1) >= chunk_size /\ \A x \in 1 .. chunk_size : p1[x].kind = "cell"

(* No argument is the copy of an argument. *)
Apart == \A i, j \in DOMAIN args : CopyOf[args[i]] # args[j]

(* A file reported as copied equals its source from then on, also when the *)
(* parent is killed later; unless it is killed between announcing another  *)
(* name and sending it: the child then truncates the copy it finished.     *)
CopiedIsComplete ==
  Apart =>
    \A f \in copied : \/ content[CopyOf[f]] = content[f]
                      \/ Eof /\ inbuf = "prepare_for_filename" /\ current_name = f

(* When the child has read end_of_transmission, all that could be opened   *)
(* and created has been copied.                                            *)
AllCopied ==
  pc["child"] = "done" => ToSet(args) \ {f \in DOMAIN CopyOf :
                            f \in Missing \/ CopyOf[f] \in Unwritable} \subseteq copied

(* What the copies rest on, and what they are in the end. *)
CopiesFaithful == TypeOK /\ InSync /\ CopiedIsComplete /\ AllCopied

(* Both processes end if neither is killed: they open the FIFOs in one     *)
(* order, and the parent's full pipe is always drained. A child that dies  *)
(* takes the parent with it, unless the parent waits in open() for it.     *)
Completes ==
  /\ <>(kills > 0 \/ (pc["child"] = "done" /\ pc["parent"] = "done"))
  /\ pc["child"] = "killed" ~> (Over("parent") \/ Opening("parent") # None)
=============================================================================
