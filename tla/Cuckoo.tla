-------------------------------- MODULE Cuckoo --------------------------------
(***************************************************************************)
(* module1/pract3/pract3_2: tasks ask cuckoo.sh on a FIFO how long to work, *)
(* and it answers on the same FIFO, which all of them read. bash reads a   *)
(* pipe byte by byte, so two readers may tear a line, here into halves of  *)
(* which the second has the newline: REPORT_worker1.log:68 shows torn and  *)
(* joined lines. Each minute observer.sh starts a cuckoo, which makes a    *)
(* FIFO of its own, and then new tasks; the earlier ones keep the old FIFO.*)
(* This is one FIFO with its cuckoo and its tasks.                         *)
(***************************************************************************)
EXTENDS Integers, Sequences, FiniteSets, SequencesExt

CONSTANT Tasks

VARIABLES
  fifo,     \* halves of lines
  line,     \* what each reader has read of its line
  pc,       \* off, reads, works or done; of the cuckoo: reads, answers, sleeps
  asker,    \* the task the cuckoo has to answer
  wasted    \* history: lines read by somebody who could not use them

vars == <<fifo, line, pc, asker, wasted>>

Cuckoo == "cuckoo"
Nobody == "nobody"
Question(t) == [kind |-> "question", task |-> t]
Answer(t) == [kind |-> "answer", task |-> t]
Halves(l) == <<[of |-> l, last |-> FALSE], [of |-> l, last |-> TRUE]>>
Goto(p, l) == pc' = [pc EXCEPT ![p] = l]

Init ==
  /\ fifo = <<>> /\ line = [r \in Tasks \cup {Cuckoo} |-> <<>>]
  /\ pc = [r \in Tasks \cup {Cuckoo} |-> IF r = Cuckoo THEN "reads" ELSE "off"]
  /\ asker = Nobody /\ wasted = 0

Ask(t) ==
  /\ pc[t] = "off" /\ Goto(t, "reads")
  /\ fifo' = fifo \o Halves(Question(t))
  /\ UNCHANGED <<line, asker, wasted>>

(* A half without a newline: the reader goes on with the same line. *)
ReadOn(r) ==
  /\ pc[r] = "reads" /\ fifo # <<>> /\ ~Head(fifo).last
  /\ line' = [line EXCEPT ![r] = Append(@, Head(fifo))] /\ fifo' = Tail(fifo)
  /\ UNCHANGED <<pc, asker, wasted>>

Ends(r) == pc[r] = "reads" /\ fifo # <<>> /\ Head(fifo).last
Whole(r) == Append(line[r], Head(fifo))
Taken(r) == line' = [line EXCEPT ![r] = <<>>] /\ fifo' = Tail(fifo)

(* The patterns the scripts match a line with. A task wants a number in the *)
(* fourth word: an answer's second half behind a first half, maybe another  *)
(* one's, with nothing in front that would add a word.                      *)
Recognised == \E t \in Tasks : Whole(Cuckoo) = Halves(Question(t))
Numeric(l) ==
  LET k == Len(l) IN
  /\ k >= 2 /\ l[k].of.kind = "answer" /\ l[k - 1].of.kind = "answer"
  /\ \A i \in 1 .. k - 2 : l[i].of.kind = "question"

CuckooHears ==
  /\ Ends(Cuckoo) /\ Recognised /\ Taken(Cuckoo)
  /\ asker' = Whole(Cuckoo)[1].of.task /\ Goto(Cuckoo, "answers")
  /\ UNCHANGED wasted

CuckooDiscards ==
  /\ Ends(Cuckoo) /\ ~Recognised /\ Taken(Cuckoo)
  /\ wasted' = wasted + 1
  /\ UNCHANGED <<pc, asker>>

(* Slip: the answer is written without its newline. *)
AnsweredUnended == <<Halves(Answer(asker))[1]>>
Answered == Halves(Answer(asker))
CuckooAnswers ==
  /\ pc[Cuckoo] = "answers" /\ Goto(Cuckoo, "sleeps")
  /\ fifo' = fifo \o Answered /\ asker' = Nobody
  /\ UNCHANGED <<line, wasted>>

Wake == pc[Cuckoo] = "sleeps" /\ Goto(Cuckoo, "reads") /\ UNCHANGED <<fifo, line, asker, wasted>>

(* A task takes the number whoever it was meant for. *)
TaskHears(t) ==
  /\ Ends(t) /\ Numeric(Whole(t)) /\ Taken(t)
  /\ Goto(t, "works")
  /\ UNCHANGED <<asker, wasted>>

(* Slip: after a wrong value the task ends. *)
AfterWrongEnds == "done"
AfterWrong == "reads"
TaskDiscards(t) ==
  /\ Ends(t) /\ ~Numeric(Whole(t)) /\ Taken(t)
  /\ Goto(t, AfterWrong) /\ wasted' = wasted + 1
  /\ UNCHANGED asker

Finish(t) == pc[t] = "works" /\ Goto(t, "done") /\ UNCHANGED <<fifo, line, asker, wasted>>

CuckooStep == ReadOn(Cuckoo) \/ CuckooHears \/ CuckooDiscards \/ CuckooAnswers \/ Wake
TaskStep(t) == ReadOn(t) \/ TaskHears(t) \/ TaskDiscards(t) \/ Finish(t)
Next == CuckooStep \/ \E t \in Tasks : Ask(t) \/ TaskStep(t)

Spec == Init /\ [][Next]_vars

-----------------------------------------------------------------------------
(* Nobody asks twice or waits for a limited time, so as many tasks wait as  *)
(* lines are on their way, or were wasted on a reader who could not use     *)
(* them: by tearing a line, or by reading one meant for another.            *)
Waiting == Cardinality({t \in Tasks : pc[t] = "reads"})
OnTheWay == Cardinality({i \in DOMAIN fifo : fifo[i].last})
            + (IF asker = Nobody THEN 0 ELSE 1)
LinesAccounted == Waiting = OnTheWay + wasted

(* A task that waits ends, unless some line was wasted, which may have been *)
(* its own. *)
TaskEnds == \A t \in Tasks : pc[t] = "reads" ~> (pc[t] = "done" \/ wasted > 0)
===============================================================================
