--------------------------- MODULE TaxiPark_proofs ---------------------------
(***************************************************************************)
(* Proofs about TaxiPark for every number of drivers, every set of console *)
(* lines and every value of the bounds.                                    *)
(***************************************************************************)
EXTENDS TaxiPark, SequenceTheorems, TLAPS

USE DEF Slots, ForkFailed, Stdin

-----------------------------------------------------------------------------
(* Type correctness.                                                       *)

LEMMA InitTypeOK == Init => TypeOK
<1> SUFFICES ASSUME Init PROVE TypeOK
    OBVIOUS
<1>1. tty \in Seq(Lines) /\ buf \in Seq(Lines)
    BY DEF Init
<1>2. inq \in [Slots -> Seq(Command)] /\ outq \in [Slots -> Seq(Replies)]
    BY DEF Init
<1>3. /\ pid \in [Slots -> Slots \cup {0, ForkFailed}]
      /\ busy \in [Slots -> Int]
      /\ accepted \in [Slots -> Nat]
      /\ confirmed \in [Slots -> Nat]
    BY DEF Init
<1>4. /\ dstate \in [Slots -> {"none", "starting", "top", "select", "exited", "reaped"}]
      /\ pending \in [Slots -> Requests]
    BY DEF Init, Requests
<1>5. ndrivers \in 0 .. MaxDrivers
    BY ParkAssumption DEF ParkAssumption, Init
<1> QED
    BY <1>1, <1>2, <1>3, <1>4, <1>5 DEF Init, TypeOK

(* Sending a well-formed command to a set of slots keeps the queues and    *)
(* the pending fields well-formed.                                         *)
LEMMA SendTypes ==
    ASSUME TypeOK, NEW S, NEW command \in Command, NEW kind \in Requests,
           Send(S, command, kind)
    PROVE  inq' \in [Slots -> Seq(Command)] /\ pending' \in [Slots -> Requests]
BY DEF TypeOK, Send

LEMMA CreateTypes ==
    ASSUME TypeOK, CreateDriver
    PROVE  /\ ndrivers' \in 0 .. MaxDrivers
           /\ pid' \in [Slots -> Slots \cup {0, ForkFailed}]
           /\ pending' \in [Slots -> Requests]
           /\ dstate' \in [Slots -> {"none", "starting", "top", "select", "exited", "reaped"}]
           /\ files' \subseteq Slots
<1>1. MaxDrivers \in Nat
    BY ParkAssumption DEF ParkAssumption
<1>2. CASE ndrivers >= MaxDrivers
    BY <1>1, <1>2 DEF TypeOK, CreateDriver
<1>3. CASE ~(ndrivers >= MaxDrivers)
    <2> DEFINE new == ndrivers + 1
    <2>1. ndrivers' = new /\ new \in Slots
        BY <1>1, <1>3 DEF TypeOK, CreateDriver
    <2>2. /\ pending' = [pending EXCEPT ![new] = "none"]
          /\ files' = files \cup {new}
          /\ \/ pid' = [pid EXCEPT ![new] = new]
             \/ pid' = [pid EXCEPT ![new] = ForkFailed]
          /\ \/ dstate' = [dstate EXCEPT ![new] = "starting"]
             \/ dstate' = dstate
        BY <1>3 DEF CreateDriver
    <2>3. pid' \in [Slots -> Slots \cup {0, ForkFailed}]
        BY <2>1, <2>2 DEF TypeOK
    <2>4. dstate' \in [Slots -> {"none", "starting", "top", "select", "exited", "reaped"}]
        BY <2>1, <2>2 DEF TypeOK
    <2>5. pending' \in [Slots -> Requests]
        BY <2>2 DEF TypeOK, Requests
    <2>6. ndrivers' \in 0 .. MaxDrivers
        BY <1>1, <2>1
    <2>7. files' \subseteq Slots
        BY <2>1, <2>2 DEF TypeOK
    <2> QED
        BY <2>3, <2>4, <2>5, <2>6, <2>7
<1> QED
    BY <1>2, <1>3

(* Handling one console line keeps everything it may write well-formed.    *)
LEMMA LineTypes ==
    ASSUME TypeOK, NEW line \in Lines, HandleConsoleLine(line)
    PROVE  /\ ndrivers' \in 0 .. MaxDrivers
           /\ pid' \in [Slots -> Slots \cup {0, ForkFailed}]
           /\ pending' \in [Slots -> Requests]
           /\ dstate' \in [Slots -> {"none", "starting", "top", "select", "exited", "reaped"}]
           /\ files' \subseteq Slots
           /\ inq' \in [Slots -> Seq(Command)]
<1>1. Status \in Command /\ Task(line.timer) \in Command
    BY ParkAssumption DEF ParkAssumption, ConsoleLine, Status, Task, Command
<1>2. "task" \in Requests /\ "status" \in Requests
    BY DEF Requests
<1>3. CASE line.op = "create_driver" /\ CreateDriver /\ UNCHANGED inq
    BY <1>3, CreateTypes DEF TypeOK
<1>4. ASSUME NEW p, NEW command \in Command, NEW kind \in Requests,
             Request(p, command, kind)
      PROVE  inq' \in [Slots -> Seq(Command)] /\ pending' \in [Slots -> Requests]
    BY <1>4, SendTypes DEF Request
<1>5. CASE /\ line.op = "send_task"
           /\ Request(line.pid, Task(line.timer), "task")
           /\ UNCHANGED <<ndrivers, pid, dstate, files>>
    BY <1>1, <1>2, <1>4, <1>5 DEF TypeOK
<1>6. CASE /\ line.op = "get_status"
           /\ Request(line.pid, Status, "status")
           /\ UNCHANGED <<ndrivers, pid, dstate, files>>
    BY <1>1, <1>2, <1>4, <1>6 DEF TypeOK
<1>7. CASE /\ line.op = "get_drivers"
           /\ GetDrivers
           /\ UNCHANGED <<ndrivers, pid, dstate, files>>
    BY <1>1, <1>2, <1>7, SendTypes DEF TypeOK, GetDrivers
<1>8. CASE line.op = "other" /\ UNCHANGED <<inq, ndrivers, pid, pending, dstate, files>>
    BY <1>8 DEF TypeOK
<1> QED
    BY <1>3, <1>5, <1>6, <1>7, <1>8 DEF HandleConsoleLine

(* Taking the head of one queue keeps a table of queues well-formed.       *)
LEMMA TakeTypes ==
    ASSUME NEW S, NEW q \in [Slots -> Seq(S)], NEW i \in Slots, q[i] # <<>>
    PROVE  /\ Head(q[i]) \in S
           /\ Tail(q[i]) \in Seq(S)
           /\ [q EXCEPT ![i] = Tail(@)] \in [Slots -> Seq(S)]
<1>1. q[i] \in Seq(S)
    OBVIOUS
<1>2. Head(q[i]) \in S /\ Tail(q[i]) \in Seq(S)
    BY <1>1
<1> QED
    BY <1>2

LEMMA DropTypes ==
    ASSUME NEW q \in [Slots -> Seq(Command)], NEW t, NEW d
    PROVE  DropUnheld(q, t, d) \in [Slots -> Seq(Command)]
BY DEF DropUnheld

LEMMA ReadConsoleTypes == TypeOK /\ ReadConsole => TypeOK'
<1> SUFFICES ASSUME TypeOK, ReadConsole PROVE TypeOK'
    OBVIOUS
<1>1. PICK line \in Lines : /\ HandleConsoleLine(line)
                            /\ buf' \in Seq(Lines)
                            /\ tty' \in Seq(Lines)
    <2>1. CASE buf # <<>> /\ buf' = Tail(buf) /\ HandleConsoleLine(Head(buf)) /\ UNCHANGED tty
        BY <2>1 DEF TypeOK
    <2>2. ASSUME NEW k \in 1 .. Len(tty),
                 buf' = SubSeq(tty, 2, k),
                 tty' = SubSeq(tty, k + 1, Len(tty)),
                 HandleConsoleLine(Head(tty))
          PROVE  /\ HandleConsoleLine(Head(tty)) /\ Head(tty) \in Lines
                 /\ buf' \in Seq(Lines) /\ tty' \in Seq(Lines)
        <3>1. tty \in Seq(Lines) /\ Len(tty) \in Nat /\ k \in Int
            BY DEF TypeOK
        <3>2. \A j \in 1 .. Len(tty) : tty[j] \in Lines
            BY <3>1
        <3>3. SubSeq(tty, 2, k) \in Seq(Lines)
            BY <3>1, <3>2, SubSeqProperties
        <3>4. SubSeq(tty, k + 1, Len(tty)) \in Seq(Lines)
            BY <3>1, <3>2, SubSeqProperties
        <3> QED
            BY <2>2, <3>1, <3>2, <3>3, <3>4
    <2> QED
        BY <2>1, <2>2 DEF ReadConsole, Fgets
<1>2. pc' = "replies" /\ UNCHANGED <<g_stop, ready, turn, interrupted, eof, typed, envVars,
                                     busy, outq, histVars>>
    BY DEF ReadConsole
<1>3. /\ ndrivers' \in 0 .. MaxDrivers
      /\ pid' \in [Slots -> Slots \cup {0, ForkFailed}]
      /\ pending' \in [Slots -> Requests]
      /\ dstate' \in [Slots -> {"none", "starting", "top", "select", "exited", "reaped"}]
      /\ files' \subseteq Slots
      /\ inq' \in [Slots -> Seq(Command)]
    BY <1>1, LineTypes
<1>4. turn = 0
    BY DEF ReadConsole, TypeOK
<1> QED
    BY <1>1, <1>2, <1>3, <1>4 DEF TypeOK, envVars, histVars

LEMMA DispatcherTypes == TypeOK /\ Dispatcher => TypeOK'
<1> SUFFICES ASSUME TypeOK, Dispatcher PROVE TypeOK'
    OBVIOUS
<1> USE DEF loopVars, tableVars, inputVars, envVars, driverVars, fifoVars, histVars
<1>1. CASE CheckStop
    BY <1>1 DEF CheckStop, TypeOK
<1>2. CASE Block
    BY <1>2 DEF Block, TypeOK
<1>3. CASE SelectReturns
    <2>1. Readable \subseteq Slots \cup {Stdin}
        BY ParkAssumption DEF ParkAssumption, Readable, Used, TypeOK
    <2> QED
        BY <1>3, <2>1 DEF SelectReturns, TypeOK
<1>4. CASE SkipConsole
    BY <1>4 DEF SkipConsole, TypeOK
<1>5. CASE ReadConsole
    BY <1>5, ReadConsoleTypes
<1>6. CASE ReadEof
    BY <1>6 DEF ReadEof, TypeOK
<1>7. CASE HandleDriverReply
    <2>1. /\ outq' \in [Slots -> Seq(Replies)]
          /\ confirmed' \in [Slots -> Nat]
          /\ pending' \in [Slots -> Requests]
          /\ ready' \subseteq Slots \cup {Stdin}
        <3>1. PICK i \in ready \ {Stdin} :
                  /\ outq[i] # <<>>
                  /\ outq' = [outq EXCEPT ![i] = Tail(@)]
                  /\ confirmed' = [confirmed EXCEPT ![i] = @ + 1] \/ confirmed' = confirmed
                  /\ pending' = [pending EXCEPT ![i] = "none"]
                  /\ ready' = ready \ {i}
            BY <1>7 DEF HandleDriverReply
        <3>2. i \in Slots
            BY <3>1 DEF TypeOK
        <3>3. outq' \in [Slots -> Seq(Replies)]
            BY <3>1, <3>2, TakeTypes DEF TypeOK
        <3>4. confirmed' \in [Slots -> Nat]
            BY <3>1, <3>2 DEF TypeOK
        <3>5. pending' \in [Slots -> Requests]
            BY <3>1, <3>2 DEF TypeOK, Requests
        <3> QED
            BY <3>1, <3>3, <3>4, <3>5 DEF TypeOK
    <2> QED
        BY <1>7, <2>1 DEF HandleDriverReply, TypeOK
<1>8. CASE RepliesDone
    BY <1>8 DEF RepliesDone, TypeOK
<1>9. CASE SendStop
    <2>1. Stop \in Command
        BY DEF Stop, Command
    <2>2. inq' \in [Slots -> Seq(Command)]
        BY <1>9, <2>1 DEF SendStop, TypeOK
    <2>3. pc' = "waiting" /\ turn' \in 1 .. MaxDrivers + 1
        BY <1>9, ParkAssumption DEF ParkAssumption, SendStop
    <2> QED
        BY <1>9, <2>2, <2>3 DEF SendStop, TypeOK
<1>10. CASE WaitDriver
    <2>1. inq' \in [Slots -> Seq(Command)]
        BY <1>10, DropTypes DEF WaitDriver, TypeOK
    <2>2. dstate' \in [Slots -> {"none", "starting", "top", "select", "exited", "reaped"}]
        <3>1. \/ dstate' = dstate
              \/ \E i \in Int : dstate' = [dstate EXCEPT ![i] = "reaped"]
            BY <1>10 DEF WaitDriver, Waitpid, Children, Used, TypeOK
        <3> QED
            BY <3>1 DEF TypeOK
    <2>3. turn' \in 1 .. MaxDrivers + 1
        <3>1. MaxDrivers \in Nat /\ turn \in 1 .. MaxDrivers + 1 /\ ndrivers \in 0 .. MaxDrivers
            BY <1>10, ParkAssumption DEF ParkAssumption, WaitDriver, TypeOK
        <3>2. turn <= ndrivers /\ turn' = turn + 1
            BY <1>10 DEF WaitDriver
        <3> QED
            BY <3>1, <3>2
    <2> QED
        BY <1>10, <2>1, <2>2, <2>3 DEF WaitDriver, TypeOK
<1>11. CASE AllWaited
    BY <1>11 DEF AllWaited, TypeOK
<1> QED
    BY <1>1, <1>2, <1>3, <1>4, <1>5, <1>6, <1>7, <1>8, <1>9, <1>10, <1>11
    DEF Dispatcher

LEMMA DriverTypes == ASSUME TypeOK, NEW i \in Slots, Driver(i) PROVE TypeOK'
<1> USE DEF loopVars, tableVars, inputVars, envVars, driverVars, fifoVars, histVars
<1>1. CASE OpenFifos(i)
    BY <1>1 DEF OpenFifos, TypeOK
<1>2. CASE ArmTimeout(i)
    <2>1. busy' \in [Slots -> Int]
        BY <1>2 DEF ArmTimeout, TypeOK
    <2>2. dstate' \in [Slots -> {"none", "starting", "top", "select", "exited", "reaped"}]
        BY <1>2 DEF ArmTimeout, TypeOK
    <2> QED
        BY <1>2, <2>1, <2>2 DEF ArmTimeout, TypeOK
<1>3. CASE Timeout(i)
    BY SMTT(30), <1>3 DEF Timeout, TypeOK
<1>4. CASE HandleCommand(i)
    <2>1. Head(inq[i]) \in Command /\ [inq EXCEPT ![i] = Tail(@)] \in [Slots -> Seq(Command)]
        BY <1>4, TakeTypes DEF HandleCommand, TypeOK
    <2>2. inq' \in [Slots -> Seq(Command)]
        BY <1>4, <2>1 DEF HandleCommand, TypeOK
    <2>3. outq' \in [Slots -> Seq(Replies)]
        <3>1. PICK r \in Replies : outq' = [outq EXCEPT ![i] = Append(@, r)]
            BY <1>4 DEF HandleCommand, Replies
        <3>2. outq[i] \in Seq(Replies)
            BY DEF TypeOK
        <3>3. Append(outq[i], r) \in Seq(Replies)
            BY <3>2, AppendProperties
        <3> QED
            BY <3>1, <3>3 DEF TypeOK
    <2>4. busy' \in [Slots -> Int] /\ accepted' \in [Slots -> Nat]
        <3>1. Head(inq[i]).secs \in Int /\ now \in Int
            BY <2>1 DEF Command, TypeOK
        <3>2. \/ UNCHANGED <<busy, accepted>>
              \/ /\ busy' = [busy EXCEPT ![i] = now + Head(inq[i]).secs]
                 /\ accepted' = [accepted EXCEPT ![i] = @ + 1]
            BY <1>4 DEF HandleCommand
        <3>3. now + Head(inq[i]).secs \in Int /\ accepted[i] + 1 \in Nat
            BY SMTT(30), <3>1 DEF TypeOK
        <3> QED
            BY SMTT(30), <3>2, <3>3 DEF TypeOK
    <2> QED
        BY <1>4, <2>2, <2>3, <2>4 DEF HandleCommand, TypeOK
<1>5. CASE HandleStop(i)
    <2>1. [inq EXCEPT ![i] = Tail(@)] \in [Slots -> Seq(Command)]
        BY <1>5, TakeTypes DEF HandleStop, TypeOK
    <2>2. inq' \in [Slots -> Seq(Command)]
        BY <1>5, <2>1, DropTypes DEF HandleStop
    <2> QED
        BY <1>5, <2>2 DEF HandleStop, TypeOK
<1> QED
    BY <1>1, <1>2, <1>3, <1>4, <1>5 DEF Driver

LEMMA EnvironmentTypes == TypeOK /\ Environment => TypeOK'
<1> SUFFICES ASSUME TypeOK, Environment PROVE TypeOK'
    OBVIOUS
<1> USE DEF loopVars, tableVars, inputVars, envVars, driverVars, fifoVars, histVars
<1>1. CASE EnterLine
    <2>1. tty' \in Seq(Lines) /\ typed' \in Nat
        BY <1>1 DEF EnterLine, TypeOK
    <2> QED
        BY <1>1, <2>1 DEF EnterLine, TypeOK
<1>2. CASE CloseConsole
    BY <1>2 DEF CloseConsole, TypeOK
<1>3. CASE StopSignal
    <2>1. CASE UNCHANGED <<turn, interrupted, inq>> /\ pc' = pc
        BY <1>3, <2>1 DEF StopSignal, TypeOK
    <2>2. CASE UNCHANGED <<turn, interrupted, inq>> /\ pc = "blocked" /\ pc' = "check"
        BY <1>3, <2>2 DEF StopSignal, TypeOK
    <2>3. CASE /\ InWaitpid
               /\ interrupted' = interrupted \cup {turn}
               /\ turn' = turn + 1
               /\ inq' = DropUnheld(inq, turn', dstate)
               /\ UNCHANGED pc
        <3>1. /\ MaxDrivers \in Nat
              /\ pc = "waiting"
              /\ turn \in 1 .. MaxDrivers + 1
              /\ ndrivers \in 0 .. MaxDrivers
              /\ turn <= ndrivers
            BY <2>3, ParkAssumption DEF ParkAssumption, InWaitpid, TypeOK
        <3>2. turn \in Slots /\ turn' \in 1 .. MaxDrivers + 1
            BY <2>3, <3>1
        <3>3. inq' \in [Slots -> Seq(Command)]
            BY <2>3, DropTypes DEF TypeOK
        <3>4. interrupted' \subseteq Slots
            BY <2>3, <3>2 DEF TypeOK
        <3>5. /\ signals' \in Nat /\ g_stop' \in BOOLEAN
              /\ UNCHANGED <<pc, ready, tableVars, inputVars, killed, now, driverVars,
                             outq, histVars>>
            BY <1>3, <2>3 DEF StopSignal, TypeOK
        <3> QED
            BY <3>1, <3>2, <3>3, <3>4, <3>5 DEF TypeOK
    <2> QED
        BY <1>3, <2>1, <2>2, <2>3 DEF StopSignal
<1>4. ASSUME NEW i \in Slots, KillDriver(i)
      PROVE  TypeOK'
    <2>1. TakenBy(i) \in [Slots -> Seq(Command)]
        BY DEF TakenBy, TypeOK
    <2>2. inq' \in [Slots -> Seq(Command)]
        <3>1. PICK q \in {inq, TakenBy(i)} : inq' = DropUnheld(q, turn, dstate')
            BY <1>4 DEF KillDriver
        <3>2. q \in [Slots -> Seq(Command)]
            BY <2>1, <3>1 DEF TypeOK
        <3> QED
            BY <3>1, <3>2, DropTypes
    <2> QED
        BY <1>4, <2>2 DEF KillDriver, TypeOK
<1>5. CASE Tick
    BY <1>5 DEF Tick, TypeOK
<1> QED
    BY <1>1, <1>2, <1>3, <1>4, <1>5 DEF Environment

(* The variables hold values of their types.                               *)
THEOREM TypeCorrect == Spec => []TypeOK
<1>1. Init => TypeOK
    BY InitTypeOK
<1>2. TypeOK /\ [Next]_vars => TypeOK'
    <2> SUFFICES ASSUME TypeOK, [Next]_vars PROVE TypeOK'
        OBVIOUS
    <2>1. CASE UNCHANGED vars
        BY <2>1 DEF vars, TypeOK
    <2> QED
        BY <2>1, DispatcherTypes, DriverTypes, EnvironmentTypes DEF Next
<1> QED
    BY <1>1, <1>2, PTL DEF Spec

-----------------------------------------------------------------------------
(* The request/reply discipline.  OneRequestInFlight is inductive together *)
(* with the fact that a slot outside the table has nothing under way.      *)

UnusedQuiet ==
    \A i \in Slots \ Used : inq[i] = <<>> /\ outq[i] = <<>> /\ pending[i] = "none"

Discipline == TypeOK /\ UnusedQuiet /\ OneRequestInFlight

(* A slot whose queues and request stay put keeps its discipline.          *)
LEMMA InFlightKept ==
    ASSUME TypeOK, TypeOK', NEW i \in Slots, InFlight(i),
           inq'[i] = inq[i], outq'[i] = outq[i], pending'[i] = pending[i],
           Stops(i) \subseteq Stops(i)', killed \subseteq killed', turn <= turn'
    PROVE  InFlight(i)'
<1>1. turn \in Int /\ turn' \in Int /\ i \in Int
    BY ParkAssumption DEF ParkAssumption, TypeOK
<1>2. i < turn => i < turn'
    BY <1>1
<1>3. AnswersTo(pending[i])' = AnswersTo(pending'[i])
    BY DEF AnswersTo
<1> QED
    BY <1>2, <1>3 DEF InFlight

(* So does a slot whose command FIFO is lost after the dispatcher has      *)
(* closed it.                                                              *)
LEMMA InFlightLost ==
    ASSUME TypeOK, TypeOK', NEW i \in Slots, InFlight(i),
           inq'[i] = <<>>, outq'[i] = outq[i], pending'[i] = pending[i],
           i < turn'
    PROVE  InFlight(i)'
<1>1. <<>> \in Stops(i)'
    BY DEF Stops
<1>2. AnswersTo(pending[i])' = AnswersTo(pending'[i])
    BY DEF AnswersTo
<1> QED
    BY <1>1, <1>2 DEF InFlight

(* The steps that send nothing, read nothing and only move a control point.*)
Quiet ==
    /\ UNCHANGED <<inq, outq, pending, killed, ndrivers, turn>>
    /\ pc \in {"waiting", "done"} <=> pc' \in {"waiting", "done"}

LEMMA QuietKeeps == ASSUME Discipline, TypeOK', Quiet PROVE Discipline'
<1>1. ASSUME NEW i \in Slots
      PROVE  InFlight(i)'
    <2>1. Stops(i) \subseteq Stops(i)' /\ turn <= turn'
        BY DEF Quiet, Discipline, TypeOK, Stops, Used
    <2> QED
        BY <2>1, InFlightKept DEF Quiet, Discipline, OneRequestInFlight
<1>2. UnusedQuiet'
    BY DEF Quiet, Discipline, UnusedQuiet, Used
<1> QED
    BY <1>1, <1>2 DEF Discipline, OneRequestInFlight

(* Asking idle slots.                                                      *)
LEMMA SendKeeps ==
    ASSUME Discipline, TypeOK',
           NEW S \in SUBSET Used, \A i \in S : pending[i] = "none",
           NEW command, NEW kind,
           \/ kind = "task" /\ command.cmd = "TASK"
           \/ kind = "status" /\ command.cmd = "STATUS",
           Send(S, command, kind),
           pc = "console", pc' = "replies",
           UNCHANGED <<outq, ndrivers, turn, killed>>
    PROVE  Discipline'
<1>1. ASSUME NEW i \in S
      PROVE  i \in Slots /\ InFlight(i)'
    <2>1. i \in Slots /\ turn = 0
        BY ParkAssumption DEF ParkAssumption, Discipline, TypeOK, Used
    <2>2. InFlight(i) /\ pending[i] = "none" /\ i \notin {}
        BY <2>1 DEF Discipline, OneRequestInFlight
    <2>3. inq[i] = <<>> /\ outq[i] = <<>>
        BY <2>2 DEF InFlight, Stops, AnswersTo
    <2>4. inq'[i] = <<command>> /\ outq'[i] = <<>> /\ pending'[i] = kind
        <3>1. inq'[i] = Append(<<>>, command) /\ pending'[i] = kind
            BY <2>1, <2>3 DEF Send
        <3>2. Append(<<>>, command) = <<command>>
            OBVIOUS
        <3> QED
            BY <2>3, <3>1, <3>2
    <2>5. Head(inq'[i]) = command /\ Tail(inq'[i]) = <<>> /\ inq'[i] # <<>>
        BY <2>4
    <2>6. <<>> \in Stops(i)'
        BY DEF Stops
    <2> QED
        BY <2>1, <2>4, <2>5, <2>6 DEF InFlight
<1>2. ASSUME NEW i \in Slots \ S
      PROVE  InFlight(i)'
    <2>1. inq'[i] = inq[i] /\ outq'[i] = outq[i] /\ pending'[i] = pending[i]
        BY DEF Send
    <2>2. Stops(i) \subseteq Stops(i)' /\ turn <= turn'
        BY DEF Discipline, TypeOK, Stops
    <2> QED
        BY <2>1, <2>2, InFlightKept DEF Discipline, OneRequestInFlight
<1>3. UnusedQuiet'
    BY DEF Discipline, UnusedQuiet, Used, Send
<1> QED
    BY <1>1, <1>2, <1>3 DEF Discipline, OneRequestInFlight

LEMMA CreateKeeps ==
    ASSUME Discipline, TypeOK', CreateDriver,
           pc = "console", pc' = "replies",
           UNCHANGED <<inq, outq, turn, killed>>
    PROVE  Discipline'
<1>1. CASE ndrivers >= MaxDrivers
    <2>1. Quiet
        BY <1>1 DEF CreateDriver, Quiet
    <2> QED
        BY <2>1, QuietKeeps
<1>2. CASE ~(ndrivers >= MaxDrivers)
    <2> DEFINE new == ndrivers + 1
    <2>1. ndrivers' = new /\ pending' = [pending EXCEPT ![new] = "none"]
        BY <1>2 DEF CreateDriver
    <2>2. new \in Slots \ Used /\ new \in Used' /\ Used \subseteq Used'
        BY <1>2, <2>1, ParkAssumption DEF ParkAssumption, Discipline, TypeOK, Used
    <2>3. pending' = pending
        BY <2>1, <2>2 DEF Discipline, UnusedQuiet, TypeOK
    <2>4. \A i \in Slots : Stops(i) \subseteq Stops(i)' /\ turn <= turn'
        BY DEF Discipline, TypeOK, Stops
    <2>5. \A i \in Slots : InFlight(i)'
        BY <2>3, <2>4, InFlightKept DEF Discipline, OneRequestInFlight
    <2>6. UnusedQuiet'
        BY <2>2, <2>3 DEF Discipline, UnusedQuiet
    <2> QED
        BY <2>5, <2>6 DEF Discipline, OneRequestInFlight
<1> QED
    BY <1>1, <1>2

LEMMA LineKeeps ==
    ASSUME Discipline, TypeOK', NEW line, HandleConsoleLine(line),
           pc = "console", pc' = "replies",
           UNCHANGED <<outq, turn, killed>>
    PROVE  Discipline'
<1>1. CASE CreateDriver /\ UNCHANGED inq
    BY <1>1, CreateKeeps
<1>2. ASSUME NEW p, NEW command, NEW kind,
             \/ kind = "task" /\ command.cmd = "TASK"
             \/ kind = "status" /\ command.cmd = "STATUS",
             Request(p, command, kind), UNCHANGED ndrivers
      PROVE  Discipline'
    BY <1>2, SendKeeps DEF Request, FindDriver
<1>3. CASE GetDrivers /\ UNCHANGED ndrivers
    BY <1>3, SendKeeps DEF GetDrivers, Status
<1>4. CASE UNCHANGED <<inq, ndrivers, pid, pending, dstate, files>>
    <2>1. Quiet
        BY <1>4 DEF Quiet
    <2> QED
        BY <2>1, QuietKeeps
<1>5. Task(line.timer).cmd = "TASK" /\ Status.cmd = "STATUS"
    BY DEF Task, Status
<1> QED
    BY <1>1, <1>2, <1>3, <1>4, <1>5 DEF HandleConsoleLine

LEMMA ReplyKeeps == ASSUME Discipline, TypeOK', HandleDriverReply PROVE Discipline'
<1>1. PICK i \in ready \ {Stdin} :
          /\ outq[i] # <<>>
          /\ outq' = [outq EXCEPT ![i] = Tail(@)]
          /\ pending' = [pending EXCEPT ![i] = "none"]
    BY DEF HandleDriverReply
<1>2. /\ pc = "replies" /\ UNCHANGED <<pc, inq, killed, turn, ndrivers>>
    BY DEF HandleDriverReply, envVars
<1>3. i \in Slots /\ turn = 0
    BY <1>1, <1>2 DEF Discipline, TypeOK
<1>4. InFlight(i)'
    <2>1. PICK r : outq[i] = <<r>> /\ inq[i] \in Stops(i)
        BY <1>1, <1>3 DEF Discipline, OneRequestInFlight, InFlight
    <2>2. inq[i] \in Stops(i)'
        BY <1>2, <2>1 DEF Stops
    <2>3. Tail(<<r>>) = <<>>
        OBVIOUS
    <2>4. outq'[i] = <<>> /\ pending'[i] = "none" /\ inq'[i] = inq[i]
        BY <1>1, <1>2, <1>3, <2>1, <2>3 DEF Discipline, TypeOK
    <2> QED
        BY <2>2, <2>4 DEF InFlight
<1>5. ASSUME NEW j \in Slots, j # i
      PROVE  InFlight(j)'
    <2>1. inq'[j] = inq[j] /\ outq'[j] = outq[j] /\ pending'[j] = pending[j]
        BY <1>1, <1>2, <1>5 DEF Discipline, TypeOK
    <2>2. Stops(j) \subseteq Stops(j)' /\ turn <= turn'
        BY <1>2 DEF Discipline, TypeOK, Stops
    <2> QED
        BY <1>2, <2>1, <2>2, InFlightKept DEF Discipline, OneRequestInFlight
<1>6. UnusedQuiet'
    <2>1. i \in Used
        BY <1>1, <1>3 DEF Discipline, UnusedQuiet
    <2> QED
        BY <1>1, <1>2, <2>1 DEF Discipline, UnusedQuiet, Used
<1> QED
    BY <1>4, <1>5, <1>6 DEF Discipline, OneRequestInFlight

LEMMA AppendToOne ==
    ASSUME NEW S, NEW q \in Seq(S), q # <<>>, Tail(q) = <<>>, NEW e \in S
    PROVE  /\ Append(q, e) # <<>>
           /\ Head(Append(q, e)) = Head(q)
           /\ Tail(Append(q, e)) = <<e>>
<1>1. Append(<<>>, e) = <<e>>
    OBVIOUS
<1>2. Append(q, e) # <<>>
    BY AppendProperties
<1>3. Head(Append(q, e)) = Head(q) /\ Tail(Append(q, e)) = Append(Tail(q), e)
    BY HeadTailAppend
<1> QED
    BY <1>1, <1>2, <1>3

LEMMA SendStopKeeps == ASSUME Discipline, TypeOK', SendStop PROVE Discipline'
<1>1. /\ pc = "stopping" /\ pc' = "waiting" /\ turn = 0 /\ turn' = 1
      /\ UNCHANGED <<outq, pending, killed, ndrivers>>
    BY DEF SendStop, envVars, tableVars, Discipline, TypeOK
<1>2. ASSUME NEW i \in Slots
      PROVE  InFlight(i)'
    <2>1. InFlight(i) /\ Stops(i) = {<<>>} /\ inq[i] \in Seq(Command)
        BY <1>1 DEF Discipline, OneRequestInFlight, Stops, TypeOK
    <2>2. CASE i \notin Used
        <3>1. inq'[i] = inq[i] /\ Stops(i)' = Stops(i) /\ turn <= turn'
            BY <1>1, <2>2 DEF SendStop, Stops, Used
        <3> QED
            BY <1>1, <3>1, InFlightKept DEF Discipline, OneRequestInFlight
    <2>3. CASE i \in Used
        <3>1. inq'[i] = Append(inq[i], Stop) /\ Stops(i)' = {<<>>, <<Stop>>}
            BY <1>1, <2>3 DEF SendStop, Stops, Used
        <3>2. inq[i] = <<>> => inq'[i] = <<Stop>>
            BY <3>1
        <3>3. ASSUME inq[i] # <<>>, Tail(inq[i]) = <<>>
              PROVE  /\ inq'[i] # <<>>
                     /\ Head(inq'[i]) = Head(inq[i])
                     /\ Tail(inq'[i]) = <<Stop>>
            BY <2>1, <3>1, <3>3, AppendToOne DEF Stop, Command
        <3>4. ~(i < 0)
            BY DEF Discipline, TypeOK
        <3> QED
            BY <1>1, <2>1, <3>1, <3>2, <3>3, <3>4 DEF InFlight, AnswersTo
    <2> QED
        BY <2>2, <2>3
<1>3. UnusedQuiet'
    BY <1>1 DEF SendStop, Discipline, UnusedQuiet, Used
<1> QED
    BY <1>2, <1>3 DEF Discipline, OneRequestInFlight

(* Closing command FIFOs: a slot whose queue q[i] is as before keeps its   *)
(* discipline whether or not the FIFO is lost.                             *)
LEMMA DropKeeps ==
    ASSUME Discipline, TypeOK', NEW q, NEW d, NEW i \in Slots,
           q[i] = inq[i], inq' = DropUnheld(q, turn', d), turn <= turn',
           UNCHANGED <<pc, outq, pending, ndrivers>>, killed \subseteq killed'
    PROVE  InFlight(i)'
<1>1. Stops(i) \subseteq Stops(i)' /\ InFlight(i)
    BY DEF Stops, Used, Discipline, OneRequestInFlight
<1>2. CASE Held(i, turn', d)
    <2>1. inq'[i] = inq[i]
        BY <1>2 DEF DropUnheld
    <2> QED
        BY <1>1, <2>1, InFlightKept DEF Discipline
<1>3. CASE ~Held(i, turn', d)
    <2>1. inq'[i] = <<>>
        BY <1>3 DEF DropUnheld
    <2>2. i < turn'
        BY <1>3, ParkAssumption DEF ParkAssumption, Held, TypeOK
    <2> QED
        BY <1>1, <2>1, <2>2, InFlightLost DEF Discipline
<1> QED
    BY <1>2, <1>3

(* A driver takes a command and leaves no reply: it is STOP or the driver  *)
(* is killed.                                                              *)
LEMMA TakeKeeps ==
    ASSUME Discipline, TypeOK', NEW i \in Slots, inq[i] # <<>>,
           inq'[i] \in {Tail(inq[i]), <<>>},
           Head(inq[i]).cmd = "STOP" \/ i \in killed',
           UNCHANGED <<pc, outq, pending, ndrivers, turn>>, killed \subseteq killed'
    PROVE  InFlight(i)'
<1>1. InFlight(i) /\ Stops(i)' = Stops(i) /\ <<>> \in Stops(i)
    BY DEF Stops, Used, Discipline, OneRequestInFlight
<1>2. AnswersTo(pending[i])' = AnswersTo(pending[i])
    BY DEF AnswersTo
<1>3. CASE inq[i] \in Stops(i)
    <2>1. inq[i] = <<Stop>> /\ Tail(<<Stop>>) = <<>>
        BY <1>3 DEF Stops
    <2>2. inq'[i] = <<>> /\ ~(Head(inq[i]).cmd \in {"TASK", "STATUS"})
        BY <2>1 DEF Stop
    <2> QED
        BY <1>1, <1>2, <2>2 DEF InFlight
<1>4. CASE inq[i] \notin Stops(i)
    BY <1>1, <1>4 DEF InFlight
<1> QED
    BY <1>3, <1>4

LEMMA UnusedQuietKept ==
    ASSUME Discipline, UNCHANGED <<outq, pending, ndrivers>>,
           \A i \in Slots : inq[i] = <<>> => inq'[i] = <<>>
    PROVE  UnusedQuiet'
BY DEF Discipline, UnusedQuiet, Used

LEMMA WaitKeeps ==
    ASSUME Discipline, TypeOK', turn' = turn + 1, inq' = DropUnheld(inq, turn', dstate),
           UNCHANGED <<pc, outq, pending, ndrivers, killed>>
    PROVE  Discipline'
<1>1. turn <= turn'
    BY ParkAssumption DEF ParkAssumption, Discipline, TypeOK
<1>2. \A i \in Slots : InFlight(i)'
    BY <1>1, DropKeeps
<1>3. UnusedQuiet'
    BY UnusedQuietKept DEF DropUnheld
<1> QED
    BY <1>2, <1>3 DEF Discipline, OneRequestInFlight

LEMMA CommandKeeps ==
    ASSUME Discipline, TypeOK', NEW i \in Slots, HandleCommand(i) PROVE Discipline'
<1>1. PICK r \in Replies :
          /\ outq' = [outq EXCEPT ![i] = Append(@, r)]
          /\ r \in IF Head(inq[i]).cmd = "TASK" THEN {"OK", "Busy"} ELSE {"Busy", "Available"}
    BY DEF HandleCommand, Replies, Discipline, TypeOK, Command
<1>2. /\ inq[i] # <<>> /\ Head(inq[i]).cmd # "STOP"
      /\ inq' = [inq EXCEPT ![i] = Tail(@)]
      /\ UNCHANGED <<pc, pending, killed, turn, ndrivers>>
    BY DEF HandleCommand, loopVars, tableVars, envVars
<1>3. InFlight(i) /\ inq[i] \notin Stops(i)
    BY <1>2 DEF Discipline, OneRequestInFlight, Stops, Stop
<1>4. InFlight(i)'
    <2>1. /\ pending[i] \in {"task", "status"} /\ outq[i] = <<>> /\ Tail(inq[i]) \in Stops(i)
          /\ Head(inq[i]).cmd = (IF pending[i] = "task" THEN "TASK" ELSE "STATUS")
        BY <1>3 DEF InFlight, Discipline, TypeOK, Requests
    <2>2. outq'[i] = <<r>> /\ Stops(i)' = Stops(i)
        <3>1. Append(<<>>, r) = <<r>>
            OBVIOUS
        <3> QED
            BY <1>1, <1>2, <2>1, <3>1 DEF Discipline, TypeOK, Stops, Used
    <2>3. inq'[i] = Tail(inq[i]) /\ pending'[i] = pending[i]
        BY <1>2 DEF Discipline, TypeOK
    <2>4. r \in AnswersTo(pending[i])'
        BY <1>1, <2>1, <2>3 DEF AnswersTo
    <2> QED
        BY <2>1, <2>2, <2>3, <2>4 DEF InFlight
<1>5. ASSUME NEW j \in Slots, j # i
      PROVE  InFlight(j)'
    <2>1. inq'[j] = inq[j] /\ outq'[j] = outq[j] /\ pending'[j] = pending[j]
        BY <1>1, <1>2, <1>5 DEF Discipline, TypeOK
    <2>2. Stops(j) \subseteq Stops(j)' /\ turn <= turn'
        BY <1>2 DEF Discipline, TypeOK, Stops, Used
    <2> QED
        BY <1>2, <2>1, <2>2, InFlightKept DEF Discipline, OneRequestInFlight
<1>6. UnusedQuiet'
    <2>1. i \in Used
        BY <1>2 DEF Discipline, UnusedQuiet
    <2> QED
        BY <1>1, <1>2, <2>1 DEF Discipline, UnusedQuiet, Used
<1> QED
    BY <1>4, <1>5, <1>6 DEF Discipline, OneRequestInFlight

LEMMA TakenKeeps ==
    ASSUME Discipline, TypeOK', NEW i \in Slots, inq[i] # <<>>, NEW d,
           inq' = DropUnheld([inq EXCEPT ![i] = Tail(@)], turn, d),
           Head(inq[i]).cmd = "STOP" \/ i \in killed',
           UNCHANGED <<pc, outq, pending, ndrivers, turn>>, killed \subseteq killed'
    PROVE  Discipline'
<1> DEFINE q == [inq EXCEPT ![i] = Tail(@)]
<1>1. q[i] = Tail(inq[i]) /\ \A j \in Slots : j # i => q[j] = inq[j]
    BY DEF Discipline, TypeOK
<1>2. turn <= turn'
    BY DEF Discipline, TypeOK
<1>3. inq' = DropUnheld(q, turn', d)
    OBVIOUS
<1>4. inq'[i] \in {Tail(inq[i]), <<>>}
    BY <1>1, <1>3 DEF DropUnheld
<1>5. InFlight(i)'
    BY <1>4, TakeKeeps
<1> HIDE DEF q
<1>6. ASSUME NEW j \in Slots, j # i
      PROVE  InFlight(j)'
    BY <1>1, <1>2, <1>3, <1>6, DropKeeps
<1>7. UnusedQuiet'
    <2>1. \A j \in Slots : inq[j] = <<>> => inq'[j] = <<>>
        BY <1>1, <1>3 DEF DropUnheld
    <2> QED
        BY <2>1, UnusedQuietKept
<1> QED
    BY <1>5, <1>6, <1>7 DEF Discipline, OneRequestInFlight

LEMMA KillKeeps ==
    ASSUME Discipline, TypeOK', NEW i \in Slots, KillDriver(i) PROVE Discipline'
<1>1. /\ UNCHANGED <<pc, outq, pending, ndrivers, turn>>
      /\ killed \subseteq killed' /\ i \in killed' /\ turn <= turn'
    BY DEF KillDriver, loopVars, tableVars, Discipline, TypeOK
<1>2. CASE inq' = DropUnheld(inq, turn, dstate')
    <2>1. \A j \in Slots : InFlight(j)'
        BY <1>1, <1>2, DropKeeps
    <2>2. UnusedQuiet'
        BY <1>1, <1>2, UnusedQuietKept DEF DropUnheld
    <2> QED
        BY <2>1, <2>2 DEF Discipline, OneRequestInFlight
<1>3. CASE inq[i] # <<>> /\ inq' = DropUnheld([inq EXCEPT ![i] = Tail(@)], turn, dstate')
    BY <1>1, <1>3, TakenKeeps
<1> QED
    BY <1>2, <1>3 DEF KillDriver, TakenBy

LEMMA DisciplineStep == ASSUME Discipline, TypeOK', Next PROVE Discipline'
<1> USE DEF loopVars, tableVars, inputVars, envVars, driverVars, fifoVars, histVars
<1>1. CASE CheckStop \/ Block \/ SelectReturns \/ SkipConsole \/ ReadEof \/ RepliesDone \/ AllWaited
    <2>1. Quiet
        BY <1>1 DEF Quiet, CheckStop, Block, SelectReturns, SkipConsole, ReadEof, RepliesDone, AllWaited
    <2> QED
        BY <2>1, QuietKeeps
<1>2. CASE ReadConsole
    <2>1. /\ pc = "console" /\ pc' = "replies"
          /\ UNCHANGED <<outq, turn, killed>>
          /\ \E line : HandleConsoleLine(line)
        BY <1>2 DEF ReadConsole, Fgets
    <2> QED
        BY <2>1, LineKeeps
<1>3. CASE HandleDriverReply
    BY <1>3, ReplyKeeps
<1>4. CASE SendStop
    BY <1>4, SendStopKeeps
<1>5. CASE WaitDriver
    BY <1>5, WaitKeeps DEF WaitDriver
<1>6. ASSUME NEW i \in Slots, OpenFifos(i) \/ ArmTimeout(i) \/ Timeout(i)
      PROVE  Discipline'
    <2>1. Quiet
        BY <1>6 DEF Quiet, OpenFifos, ArmTimeout, Timeout
    <2> QED
        BY <2>1, QuietKeeps
<1>7. ASSUME NEW i \in Slots, HandleStop(i)
      PROVE  Discipline'
    BY <1>7, TakenKeeps DEF HandleStop
<1>8. CASE EnterLine \/ CloseConsole \/ Tick
    <2>1. Quiet
        BY <1>8 DEF Quiet, EnterLine, CloseConsole, Tick
    <2> QED
        BY <2>1, QuietKeeps
<1>9. CASE StopSignal
    <2>1. CASE UNCHANGED <<turn, inq>> /\ (pc' = pc \/ (pc = "blocked" /\ pc' = "check"))
        <3>1. Quiet
            BY <1>9, <2>1 DEF Quiet, StopSignal
        <3> QED
            BY <3>1, QuietKeeps
    <2>2. CASE turn' = turn + 1 /\ inq' = DropUnheld(inq, turn', dstate) /\ UNCHANGED pc
        <3>1. UNCHANGED <<outq, pending, ndrivers, killed>>
            BY <1>9 DEF StopSignal
        <3> QED
            BY <2>2, <3>1, WaitKeeps
    <2>3. \/ UNCHANGED <<turn, inq>> /\ (pc' = pc \/ (pc = "blocked" /\ pc' = "check"))
          \/ turn' = turn + 1 /\ inq' = DropUnheld(inq, turn', dstate) /\ UNCHANGED pc
        BY <1>9 DEF StopSignal
    <2> QED
        BY <2>1, <2>2, <2>3
<1>10. ASSUME NEW i \in Slots, KillDriver(i)
       PROVE  Discipline'
    BY <1>10, KillKeeps
<1>11. ASSUME NEW i \in Slots, HandleCommand(i)
       PROVE  Discipline'
    BY <1>11, CommandKeeps
<1> QED
    BY <1>1, <1>2, <1>3, <1>4, <1>5, <1>6, <1>7, <1>8, <1>9, <1>10, <1>11
    DEF Next, Dispatcher, Driver, Environment

LEMMA DisciplineInit == Init => Discipline
<1> SUFFICES ASSUME Init PROVE Discipline
    OBVIOUS
<1>1. OneRequestInFlight
    BY DEF Init, OneRequestInFlight, InFlight, Stops
<1>2. UnusedQuiet
    BY DEF Init, UnusedQuiet
<1> QED
    BY <1>1, <1>2, InitTypeOK DEF Discipline

LEMMA DisciplineStays == Spec => []Discipline
<1>1. TypeOK' /\ Discipline /\ [Next]_vars => Discipline'
    <2> SUFFICES ASSUME TypeOK', Discipline, [Next]_vars PROVE Discipline'
        OBVIOUS
    <2>1. CASE UNCHANGED vars
        <3>1. Quiet
            BY <2>1 DEF vars, Quiet
        <3> QED
            BY <3>1, QuietKeeps
    <2> QED
        BY <2>1, DisciplineStep
<1> QED
    BY <1>1, DisciplineInit, TypeCorrect, PTL DEF Spec

(* Each slot has at most one request or reply under way, and it is the one *)
(* its pending field announces.                                            *)
THEOREM RequestsPairedWithReplies == Spec => []OneRequestInFlight
<1>1. Discipline => OneRequestInFlight
    BY DEF Discipline
<1> QED
    BY <1>1, DisciplineStays, PTL

-----------------------------------------------------------------------------
(* read_line in handle_driver_reply always finds its line: the loop over   *)
(* the descriptors that select() reported never blocks the dispatcher.     *)
THEOREM DispatcherNeverBlocksOnReply == Spec => []ReadNeverBlocks
<1>1. Init => ReadNeverBlocks
    BY DEF Init, ReadNeverBlocks
<1>2. TypeOK /\ ReadNeverBlocks /\ [Next]_vars => ReadNeverBlocks'
    <2> SUFFICES ASSUME TypeOK, ReadNeverBlocks, [Next]_vars PROVE ReadNeverBlocks'
        OBVIOUS
    <2> USE DEF loopVars, tableVars, inputVars, envVars, driverVars, fifoVars, histVars
    <2>1. CASE UNCHANGED <<ready, outq, ndrivers>>
        BY <2>1 DEF ReadNeverBlocks, Used
    <2>2. CASE SelectReturns
        BY <2>2 DEF SelectReturns, ReadNeverBlocks, Readable, Used
    <2>3. CASE ReadConsole
        <3>1. UNCHANGED <<ready, outq>>
            BY <2>3 DEF ReadConsole
        <3>2. Used \subseteq Used'
            <4>1. \E line : HandleConsoleLine(line)
                BY <2>3 DEF ReadConsole, Fgets
            <4>2. ndrivers' = ndrivers \/ ndrivers' = ndrivers + 1
                BY <4>1 DEF HandleConsoleLine, CreateDriver
            <4> QED
                BY <4>2, ParkAssumption DEF ParkAssumption, Used, TypeOK
        <3> QED
            BY <3>1, <3>2 DEF ReadNeverBlocks
    <2>4. CASE HandleDriverReply
        BY <2>4 DEF HandleDriverReply, ReadNeverBlocks, Used, TypeOK
    <2>5. CASE RepliesDone
        BY <2>5 DEF RepliesDone, ReadNeverBlocks
    <2>6. ASSUME NEW i \in Slots, HandleCommand(i)
          PROVE  ReadNeverBlocks'
        <3>1. PICK r \in Replies : outq' = [outq EXCEPT ![i] = Append(@, r)]
            BY <2>6 DEF HandleCommand, Replies
        <3>2. Append(outq[i], r) # <<>>
            BY AppendProperties DEF TypeOK
        <3>3. UNCHANGED <<ready, ndrivers>>
            BY <2>6 DEF HandleCommand
        <3> QED
            BY <3>1, <3>2, <3>3 DEF ReadNeverBlocks, Used, TypeOK
    <2> QED
        BY <2>1, <2>2, <2>3, <2>4, <2>5, <2>6
        DEF Next, Dispatcher, Driver, Environment, CheckStop, Block, SkipConsole, ReadEof, SendStop,
            WaitDriver, AllWaited, OpenFifos, ArmTimeout, Timeout, HandleStop, EnterLine,
            CloseConsole, StopSignal, KillDriver, Tick, vars
<1> QED
    BY <1>1, <1>2, TypeCorrect, PTL DEF Spec

-----------------------------------------------------------------------------
(* A step of a driver that answers: the reply belongs to the request.      *)
LEMMA AnswerStep ==
    ASSUME Discipline, NEW i \in Slots, HandleCommand(i)
    PROVE  /\ pending[i] \in {"task", "status"} /\ UNCHANGED pending
           /\ outq[i] = <<>>
           /\ \E r \in AnswersTo(pending[i]) :
                 /\ outq' = [outq EXCEPT ![i] = <<r>>]
                 /\ accepted' = IF r = "OK" THEN [accepted EXCEPT ![i] = @ + 1] ELSE accepted
           /\ UNCHANGED confirmed
<1>1. inq[i] \notin Stops(i) /\ InFlight(i)
    BY DEF HandleCommand, Discipline, OneRequestInFlight, Stops, Stop
<1>2. /\ pending[i] \in {"task", "status"} /\ outq[i] = <<>>
      /\ Head(inq[i]).cmd = (IF pending[i] = "task" THEN "TASK" ELSE "STATUS")
    BY <1>1 DEF InFlight, HandleCommand, Discipline, TypeOK, Requests
<1>3. \A r \in Replies : [outq EXCEPT ![i] = Append(@, r)] = [outq EXCEPT ![i] = <<r>>]
    <2>1. \A r \in Replies : Append(<<>>, r) = <<r>>
        OBVIOUS
    <2> QED
        BY <1>2, <2>1
<1>4. \E r \in AnswersTo(pending[i]) :
          /\ outq' = [outq EXCEPT ![i] = Append(@, r)]
          /\ accepted' = IF r = "OK" THEN [accepted EXCEPT ![i] = @ + 1] ELSE accepted
    BY <1>2 DEF HandleCommand, AnswersTo
<1>5. \E r \in AnswersTo(pending[i]) :
          /\ outq' = [outq EXCEPT ![i] = <<r>>]
          /\ accepted' = IF r = "OK" THEN [accepted EXCEPT ![i] = @ + 1] ELSE accepted
    BY <1>2, <1>3, <1>4 DEF AnswersTo, Replies
<1> QED
    BY <1>2, <1>5 DEF HandleCommand, tableVars

(* A step of the dispatcher that reads an answer.                          *)
LEMMA TakeStep ==
    ASSUME Discipline, HandleDriverReply
    PROVE  \E i \in Slots :
              /\ pending[i] \in {"task", "status"}
              /\ \E r \in AnswersTo(pending[i]) :
                    /\ outq[i] = <<r>>
                    /\ outq' = [outq EXCEPT ![i] = <<>>]
                    /\ confirmed' = IF r = "OK" THEN [confirmed EXCEPT ![i] = @ + 1] ELSE confirmed
              /\ pending' = [pending EXCEPT ![i] = "none"]
              /\ UNCHANGED accepted
<1>1. PICK i \in ready \ {Stdin} :
          /\ outq[i] # <<>>
          /\ outq' = [outq EXCEPT ![i] = Tail(@)]
          /\ confirmed' = IF pending[i] = "task" /\ Head(outq[i]) # "Busy"
                          THEN [confirmed EXCEPT ![i] = @ + 1]
                          ELSE confirmed
          /\ pending' = [pending EXCEPT ![i] = "none"]
    BY DEF HandleDriverReply, Sent
<1>2. i \in Slots /\ InFlight(i)
    BY <1>1 DEF Discipline, OneRequestInFlight, TypeOK
<1>3. PICK r \in AnswersTo(pending[i]) : outq[i] = <<r>>
    BY <1>1, <1>2 DEF InFlight
<1>4. Head(outq[i]) = r /\ Tail(outq[i]) = <<>>
    BY <1>3
<1>5. pending[i] = "task" /\ r # "Busy" <=> r = "OK"
    BY <1>3 DEF AnswersTo
<1>6. pending[i] \in {"task", "status"}
    BY <1>3 DEF AnswersTo
<1>7. outq' = [outq EXCEPT ![i] = <<>>]
    BY <1>1, <1>4
<1>8. confirmed' = IF r = "OK" THEN [confirmed EXCEPT ![i] = @ + 1] ELSE confirmed
    BY <1>1, <1>4, <1>5
<1> QED
    BY <1>1, <1>2, <1>3, <1>6, <1>7, <1>8 DEF HandleDriverReply

(* Every other step leaves the answers, the requests and the counts alone. *)
LEMMA OtherSteps ==
    ASSUME [Next]_vars, \A i \in Slots : ~HandleCommand(i), ~HandleDriverReply
    PROVE  /\ UNCHANGED <<outq, accepted, confirmed>>
           /\ UNCHANGED pending \/ ReadConsole
<1> USE DEF loopVars, tableVars, inputVars, envVars, driverVars, fifoVars, histVars
<1>1. CASE Dispatcher
    BY <1>1 DEF Dispatcher, CheckStop, Block, SelectReturns, SkipConsole, ReadConsole, ReadEof,
                RepliesDone, SendStop, WaitDriver, AllWaited
<1>2. ASSUME NEW i \in Slots, Driver(i)
      PROVE  UNCHANGED <<outq, accepted, confirmed, pending>>
    BY <1>2 DEF Driver, OpenFifos, ArmTimeout, Timeout, HandleStop
<1>3. CASE Environment
    BY <1>3 DEF Environment, EnterLine, CloseConsole, StopSignal, KillDriver, Tick
<1>4. CASE UNCHANGED vars
    BY <1>4 DEF vars
<1> QED
    BY <1>1, <1>2, <1>3, <1>4 DEF Next

(* What the operator was told and what the drivers started never differ by *)
(* more than the OK that is still in the FIFO.                             *)
THEOREM TasksConfirmedOnce == Spec => []ConfirmedTasks
<1>1. Init => ConfirmedTasks
    <2>1. <<>> # <<"OK">>
        OBVIOUS
    <2> QED
        BY <2>1 DEF Init, ConfirmedTasks
<1>2. Discipline /\ ConfirmedTasks /\ [Next]_vars => ConfirmedTasks'
    <2> SUFFICES ASSUME Discipline, ConfirmedTasks, [Next]_vars PROVE ConfirmedTasks'
        OBVIOUS
    <2>1. /\ accepted \in [Slots -> Nat] /\ confirmed \in [Slots -> Nat]
          /\ outq \in [Slots -> Seq(Replies)]
        BY DEF Discipline, TypeOK
    <2>2. \A r : <<>> # <<r>> /\ (<<r>> = <<"OK">> <=> r = "OK")
        OBVIOUS
    <2>3. CASE HandleDriverReply
        <3>1. PICK i \in Slots : \E r :
                  /\ outq[i] = <<r>>
                  /\ outq' = [outq EXCEPT ![i] = <<>>]
                  /\ confirmed' = IF r = "OK" THEN [confirmed EXCEPT ![i] = @ + 1] ELSE confirmed
                  /\ UNCHANGED accepted
            BY <2>3, TakeStep
        <3> QED
            BY <2>1, <2>2, <3>1 DEF ConfirmedTasks
    <2>4. ASSUME NEW i \in Slots, HandleCommand(i)
          PROVE  ConfirmedTasks'
        <3>1. \E r : /\ outq' = [outq EXCEPT ![i] = <<r>>]
                     /\ accepted' = IF r = "OK" THEN [accepted EXCEPT ![i] = @ + 1] ELSE accepted
                     /\ outq[i] = <<>>
                     /\ UNCHANGED confirmed
            BY <2>4, AnswerStep
        <3>2. PICK r : /\ outq' = [outq EXCEPT ![i] = <<r>>]
                       /\ accepted' = IF r = "OK" THEN [accepted EXCEPT ![i] = @ + 1] ELSE accepted
            BY <3>1
        <3>3. outq[i] = <<>> /\ UNCHANGED confirmed
            BY <3>1
        <3>4. accepted[i] = confirmed[i]
            <4>1. outq[i] # <<"OK">>
                BY <3>3
            <4>2. accepted[i] = confirmed[i] + 0 /\ confirmed[i] \in Nat
                BY <2>1, <4>1 DEF ConfirmedTasks
            <4> QED
                BY <4>2
        <3>5. accepted'[i] = confirmed'[i] + (IF outq'[i] = <<"OK">> THEN 1 ELSE 0)
            BY <2>1, <2>2, <3>2, <3>3, <3>4
        <3>6. \A j \in Slots : j # i => /\ accepted'[j] = accepted[j]
                                       /\ confirmed'[j] = confirmed[j]
                                       /\ outq'[j] = outq[j]
            BY <2>1, <3>2, <3>3
        <3> QED
            BY <3>5, <3>6 DEF ConfirmedTasks
    <2>5. CASE UNCHANGED <<outq, accepted, confirmed>>
        BY <2>5 DEF ConfirmedTasks
    <2> QED
        BY <2>3, <2>4, <2>5, OtherSteps
<1> QED
    BY <1>1, <1>2, DisciplineStays, PTL DEF Spec

-----------------------------------------------------------------------------
(* TaxiPark implements RequestReply.                                       *)

LEMMA AskStep ==
    ASSUME Discipline, Discipline', ReadConsole, UNCHANGED outq
    PROVE  RR!Next \/ UNCHANGED RR!vars
<1>1. \/ UNCHANGED pending
      \/ \E S \in SUBSET Used : \E command : \E kind \in {"task", "status"} :
            /\ \A i \in S : pending[i] = "none"
            /\ Send(S, command, kind)
    <2>1. PICK line : HandleConsoleLine(line)
        BY DEF ReadConsole, Fgets
    <2>2. CASE CreateDriver
        <3>1. \/ UNCHANGED pending
              \/ /\ pending' = [pending EXCEPT ![ndrivers + 1] = "none"]
                 /\ ~(ndrivers >= MaxDrivers)
            BY <2>2 DEF CreateDriver
        <3>2. ~(ndrivers >= MaxDrivers) => ndrivers + 1 \in Slots \ Used
            BY ParkAssumption DEF ParkAssumption, Discipline, TypeOK, Used
        <3> QED
            <4>1. ~(ndrivers >= MaxDrivers) => pending[ndrivers + 1] = "none"
                BY <3>2 DEF Discipline, UnusedQuiet
            <4>2. pending = [i \in Slots |-> pending[i]]
                BY DEF Discipline, TypeOK
            <4>3. ~(ndrivers >= MaxDrivers) =>
                      [pending EXCEPT ![ndrivers + 1] = "none"] = pending
                BY <4>1, <4>2
            <4> QED
                BY <3>1, <4>3
    <2>3. ASSUME NEW p, NEW command, NEW kind \in {"task", "status"}, Request(p, command, kind)
          PROVE  \E S \in SUBSET Used :
                    /\ \A i \in S : pending[i] = "none"
                    /\ Send(S, command, kind)
        BY <2>3 DEF Request, FindDriver
    <2>4. CASE GetDrivers
        BY <2>4 DEF GetDrivers
    <2> QED
        BY <2>1, <2>2, <2>3, <2>4 DEF HandleConsoleLine
<1>2. CASE UNCHANGED pending
    BY <1>2 DEF RR!vars, PhaseOf
<1>3. ASSUME NEW S \in SUBSET Used, NEW command, NEW kind \in {"task", "status"},
             \A i \in S : pending[i] = "none",
             Send(S, command, kind)
      PROVE  RR!Next
    <2>1. S \subseteq Slots
        BY ParkAssumption DEF ParkAssumption, Discipline, TypeOK, Used
    <2>2. \A i \in S : outq[i] = <<>>
        BY <1>3, <2>1 DEF Discipline, OneRequestInFlight, InFlight, AnswersTo
    <2>3. pending' = [i \in Slots |-> IF i \in S THEN kind ELSE pending[i]]
        BY <1>3 DEF Send
    <2>4. RR!Ask(S, kind)
        BY <1>3, <2>1, <2>2, <2>3 DEF RR!Ask, PhaseOf, Discipline, TypeOK
    <2> QED
        BY <1>3, <2>1, <2>4 DEF RR!Next
<1> QED
    BY <1>1, <1>2, <1>3

LEMMA RefinementStep ==
    ASSUME Discipline, Discipline', [Next]_vars
    PROVE  RR!Next \/ UNCHANGED RR!vars
<1>1. \A r : <<r>> # <<>> /\ Head(<<r>>) = r
    OBVIOUS
<1>2. pending \in [Slots -> Requests] /\ outq \in [Slots -> Seq(Replies)]
    BY DEF Discipline, TypeOK
<1>3. ASSUME NEW i \in Slots, HandleCommand(i)
      PROVE  RR!Next
    <2>1. PICK r \in AnswersTo(pending[i]) :
              /\ pending[i] \in {"task", "status"} /\ UNCHANGED pending
              /\ outq[i] = <<>> /\ outq' = [outq EXCEPT ![i] = <<r>>]
        BY <1>3, AnswerStep
    <2>2. RR!Answer(i, r)
        BY <1>1, <1>2, <2>1 DEF RR!Answer, PhaseOf
    <2>3. r \in UNION {[kind \in {"task", "status"} |-> AnswersTo(kind)][k] : k \in {"task", "status"}}
        BY <2>1
    <2> QED
        BY <2>2, <2>3 DEF RR!Next
<1>4. CASE HandleDriverReply
    <2>1. PICK i \in Slots : \E r :
              /\ pending[i] \in {"task", "status"}
              /\ pending' = [pending EXCEPT ![i] = "none"]
              /\ outq[i] = <<r>> /\ outq' = [outq EXCEPT ![i] = <<>>]
        BY <1>4, TakeStep
    <2>2. RR!Take(i)
        BY <1>1, <1>2, <2>1 DEF RR!Take, PhaseOf
    <2> QED
        BY <2>2 DEF RR!Next
<1>5. CASE UNCHANGED <<outq, pending>>
    BY <1>5 DEF RR!vars, PhaseOf
<1>6. CASE UNCHANGED outq /\ ReadConsole
    BY <1>6, AskStep
<1> QED
    BY <1>3, <1>4, <1>5, <1>6, OtherSteps

(* Every command handler and reply handler is a request or a reply of the *)
(* abstract channel of its driver, everything else leaves the channels be. *)
THEOREM ParkImplementsRequestReply == Spec => RequestReplySpec
<1>1. Init => RR!Init
    BY DEF Init, RR!Init, PhaseOf
<1>2. Discipline /\ Discipline' /\ [Next]_vars => [RR!Next]_(RR!vars)
    BY RefinementStep
<1> QED
    BY <1>1, <1>2, DisciplineStays, PTL DEF Spec, RequestReplySpec, RR!Spec
-----------------------------------------------------------------------------
(* A running task is never cut short: HandleCommand starts a task only in  *)
(* a driver that is not busy, and both ends of a task wait for its time.   *)
THEOREM RunningTaskKept == Spec => TaskNotCutShort
<1>1. TypeOK /\ [Next]_vars => [\A i \in Slots : busy[i] > now => busy'[i] = busy[i]]_vars
    <2> SUFFICES ASSUME TypeOK, [Next]_vars, NEW i \in Slots, busy[i] > now
                 PROVE  busy'[i] = busy[i]
        OBVIOUS
    <2> USE DEF loopVars, tableVars, inputVars, envVars, driverVars, fifoVars, histVars
    <2>1. /\ busy \in [Slots -> Int]
          /\ busy[i] # 0 /\ ~(busy[i] <= now)
        <3>1. busy \in [Slots -> Int] /\ now \in Nat
            BY DEF TypeOK
        <3>2. busy[i] \in Int
            BY <3>1
        <3> QED
            BY <3>1, <3>2
    <2>2. CASE UNCHANGED busy
        BY <2>2
    <2>3. ASSUME NEW j \in Slots, ArmTimeout(j) \/ Timeout(j) \/ HandleCommand(j)
          PROVE  busy'[i] = busy[i]
        <3>1. CASE j = i
            BY <2>1, <2>3, <3>1 DEF ArmTimeout, Timeout, HandleCommand, IsBusy
        <3>2. CASE j # i
            BY <2>1, <2>3, <3>2 DEF ArmTimeout, Timeout, HandleCommand
        <3> QED
            BY <3>1, <3>2
    <2> QED
        BY <2>2, <2>3
        DEF Next, Dispatcher, Driver, Environment, CheckStop, Block, SelectReturns, SkipConsole,
            ReadConsole, ReadEof, HandleDriverReply, RepliesDone, SendStop, WaitDriver, AllWaited,
            OpenFifos, HandleStop, EnterLine, CloseConsole, StopSignal, KillDriver, Tick, vars
<1> QED
    BY <1>1, TypeCorrect, PTL DEF Spec, TaskNotCutShort

-----------------------------------------------------------------------------
(* The end of the program.  That every slot's driver is reaped rests on    *)
(* which slots have a process and on which files a process leaves behind;  *)
(* that no line is lost rests on what select() saw and on what g_stop      *)
(* means when no signal set it.                                            *)

(* A slot has a process exactly when its fork succeeded. *)
Processes ==
    \A i \in Slots : dstate[i] # "none" <=> i \in Used /\ pid[i] # ForkFailed

(* A driver that is gone removed its FIFO files, unless it was killed. *)
FilesLeftByKilled ==
    \A i \in files : dstate[i] \in {"exited", "reaped"} => i \in killed

(* What select() reported of the console is still so when it is read. *)
ConsoleHasInput == pc = "console" /\ Stdin \in ready => tty # <<>> \/ eof

(* Without a signal only the drained end of the console sets g_stop. *)
StopMeansEnd == g_stop /\ signals = 0 => eof /\ tty = <<>> /\ buf = <<>>

StoppingMeansStop == pc \in {"stopping", "waiting", "done"} => g_stop

Shutdown ==
    /\ Processes
    /\ FilesLeftByKilled
    /\ StoppedDriversReaped
    /\ ConsoleHasInput
    /\ StopMeansEnd
    /\ StoppingMeansStop

LEMMA ShutdownInit == Init => Shutdown
<1> SUFFICES ASSUME Init PROVE Shutdown
    OBVIOUS
<1>1. Processes /\ StoppedDriversReaped
    BY DEF Init, Processes, StoppedDriversReaped, Used
<1>2. FilesLeftByKilled /\ ConsoleHasInput /\ StopMeansEnd /\ StoppingMeansStop
    BY DEF Init, FilesLeftByKilled, ConsoleHasInput, StopMeansEnd, StoppingMeansStop
<1> QED
    BY <1>1, <1>2 DEF Shutdown

(* A console line may add a driver; the shutdown has not begun.            *)
LEMMA LineShutdown ==
    ASSUME TypeOK, Shutdown, ReadConsole
    PROVE  Processes' /\ FilesLeftByKilled'
<1>1. PICK line : HandleConsoleLine(line)
    BY DEF ReadConsole, Fgets
<1>2. UNCHANGED killed
    BY DEF ReadConsole, envVars
<1>3. CASE UNCHANGED <<ndrivers, pid, dstate, files>>
    BY <1>2, <1>3 DEF Shutdown, Processes, FilesLeftByKilled, Used
<1>4. CASE CreateDriver /\ ~(ndrivers >= MaxDrivers)
    <2> DEFINE new == ndrivers + 1
    <2>1. /\ new \in Slots \ Used /\ Used' = Used \cup {new}
          /\ pid \in [Slots -> Slots \cup {0, ForkFailed}]
          /\ dstate \in [Slots -> {"none", "starting", "top", "select", "exited", "reaped"}]
          /\ files \subseteq Slots
        <3>1. ndrivers \in Nat /\ MaxDrivers \in Nat /\ ndrivers' = new
            BY <1>4, ParkAssumption DEF ParkAssumption, CreateDriver, TypeOK
        <3>2. new \in Slots \ Used /\ Used' = Used \cup {new}
            BY <1>4, <3>1 DEF Used
        <3> QED
            BY <3>2 DEF TypeOK
    <2>2. dstate[new] = "none"
        BY <2>1 DEF Shutdown, Processes
    <2>3. /\ files' = files \cup {new}
          /\ \/ /\ pid' = [pid EXCEPT ![new] = new]
                /\ dstate' = [dstate EXCEPT ![new] = "starting"]
             \/ /\ pid' = [pid EXCEPT ![new] = ForkFailed]
                /\ dstate' = dstate
        BY <1>4 DEF CreateDriver
    <2>4. new # ForkFailed
        BY <2>1
    <2> HIDE DEF new
    <2>5. Processes'
        BY <2>1, <2>2, <2>3, <2>4 DEF Shutdown, Processes
    <2>6. FilesLeftByKilled'
        BY <1>2, <2>1, <2>2, <2>3 DEF Shutdown, FilesLeftByKilled
    <2> QED
        BY <2>5, <2>6
<1> QED
    BY <1>1, <1>3, <1>4 DEF HandleConsoleLine, CreateDriver

(* While the dispatcher waits, a reaped driver stays reaped.               *)
ReapedStay == \A i \in Slots : dstate[i] = "reaped" => dstate'[i] = "reaped"

LEMMA ReapedKept ==
    ASSUME TypeOK, Shutdown, ReapedStay,
           UNCHANGED <<ndrivers, pid>>, files' \subseteq files, killed \subseteq killed',
           pc' \in {"waiting", "done"} => pc = "waiting" \/ pc = pc',
           UNCHANGED <<turn, interrupted>>
    PROVE  StoppedDriversReaped'
<1>1. Used \subseteq Slots
    BY ParkAssumption DEF ParkAssumption, TypeOK, Used
<1> QED
    BY <1>1 DEF ReapedStay, Shutdown, StoppedDriversReaped, Used

(* waitpid() for a slot with a process returns only when it is reaped.     *)
LEMMA WaitShutdown ==
    ASSUME TypeOK, Shutdown, WaitDriver
    PROVE  Processes' /\ FilesLeftByKilled' /\ StoppedDriversReaped'
<1> USE DEF tableVars, inputVars, envVars, histVars
<1>1. /\ UNCHANGED <<pc, ndrivers, pid, files, killed, interrupted>>
      /\ turn' = turn + 1 /\ turn \in Used /\ turn \in Int
      /\ Used \subseteq Slots
    BY ParkAssumption DEF ParkAssumption, WaitDriver, TypeOK, Used
<1>2. \/ dstate' = dstate
      \/ \E i \in Used : dstate[i] = "exited" /\ dstate' = [dstate EXCEPT ![i] = "reaped"]
    BY <1>1 DEF WaitDriver, Waitpid, Children
<1>3. dstate \in [Slots -> {"none", "starting", "top", "select", "exited", "reaped"}]
    BY DEF TypeOK
<1>4. Processes' /\ FilesLeftByKilled'
    <2>1. /\ \A i \in Slots : dstate'[i] = "none" <=> dstate[i] = "none"
          /\ \A i \in Slots : dstate'[i] = "reaped" => dstate[i] \in {"exited", "reaped"}
          /\ \A i \in Slots : dstate'[i] = "exited" => dstate[i] = "exited"
        BY <1>1, <1>2, <1>3
    <2>2. files \subseteq Slots /\ Used' = Used
        BY <1>1 DEF TypeOK, Used
    <2> QED
        BY <1>1, <2>1, <2>2 DEF Shutdown, Processes, FilesLeftByKilled
<1>5. pid[turn] # ForkFailed => dstate'[turn] = "reaped"
    <2>1. pid[turn] # ForkFailed => dstate[turn] # "none"
        BY <1>1 DEF Shutdown, Processes
    <2> QED
        BY <1>1, <1>3, <2>1 DEF WaitDriver, Waitpid, Children, Alive
<1>6. ASSUME NEW i \in Used, i < turn', i \notin interrupted, pid[i] # ForkFailed
      PROVE  dstate'[i] = "reaped" /\ (i \in files => i \in killed)
    <2>1. i \in Int /\ (i < turn \/ i = turn)
        BY <1>1, <1>6 DEF Used
    <2>2. CASE i < turn
        <3>1. dstate[i] = "reaped" /\ (i \in files => i \in killed)
            BY <1>6, <2>2 DEF Shutdown, StoppedDriversReaped, WaitDriver
        <3> QED
            BY <1>1, <1>2, <1>3, <3>1
    <2>3. CASE i = turn
        <3>1. dstate'[i] = "reaped"
            BY <1>5, <1>6, <2>3
        <3> QED
            BY <1>1, <1>4, <3>1 DEF FilesLeftByKilled
    <2> QED
        BY <2>1, <2>2, <2>3
<1> QED
    BY <1>1, <1>4, <1>6 DEF StoppedDriversReaped, Used

(* Only the state of driver i changes, and it keeps its process.           *)
LEMMA DriverShutdown ==
    ASSUME TypeOK, Shutdown, NEW i \in Slots, NEW s \in {"top", "select", "exited"},
           Alive(i), dstate' = [dstate EXCEPT ![i] = s],
           UNCHANGED <<ndrivers, pid, pc, turn, interrupted>>,
           files' \subseteq files, killed \subseteq killed',
           s = "exited" => i \notin files' \/ i \in killed'
    PROVE  Processes' /\ FilesLeftByKilled' /\ StoppedDriversReaped'
<1>1. /\ dstate \in [Slots -> {"none", "starting", "top", "select", "exited", "reaped"}]
      /\ files \subseteq Slots
    BY DEF TypeOK
<1>2. Processes'
    BY <1>1 DEF Shutdown, Processes, Alive, Used
<1>3. FilesLeftByKilled'
    BY <1>1 DEF Shutdown, FilesLeftByKilled
<1>4. ReapedStay
    BY <1>1 DEF ReapedStay, Alive
<1> QED
    BY <1>2, <1>3, <1>4, ReapedKept

(* A signal during waitpid() counts the slot among the interrupted ones.   *)
LEMMA SignalShutdown ==
    ASSUME TypeOK, Shutdown, StopSignal
    PROVE  Processes' /\ FilesLeftByKilled' /\ StoppedDriversReaped'
<1> USE DEF tableVars, inputVars, driverVars, histVars
<1>1. /\ UNCHANGED <<ndrivers, pid, dstate, files, killed>>
      /\ Used' = Used /\ Used \subseteq Slots
    BY ParkAssumption DEF ParkAssumption, TypeOK, StopSignal, Used
<1>2. Processes' /\ FilesLeftByKilled'
    BY <1>1 DEF Shutdown, Processes, FilesLeftByKilled
<1>3. CASE UNCHANGED <<turn, interrupted>>
    <2>1. ReapedStay
        BY <1>1 DEF ReapedStay
    <2>2. pc' = pc \/ pc' = "check"
        BY DEF StopSignal
    <2> QED
        BY <1>1, <1>2, <1>3, <2>1, <2>2, ReapedKept
<1>4. CASE pc = "waiting" /\ pc' = pc /\ interrupted' = interrupted \cup {turn} /\ turn' = turn + 1
    <2>1. turn \in Int
        BY ParkAssumption DEF ParkAssumption, TypeOK
    <2>2. ASSUME NEW i \in Used, i < turn', i \notin interrupted'
          PROVE  i < turn /\ i \notin interrupted
        BY <1>4, <2>1, <2>2 DEF Used
    <2> QED
        BY <1>1, <1>2, <1>4, <2>2 DEF Shutdown, StoppedDriversReaped
<1> QED
    BY <1>2, <1>3, <1>4 DEF StopSignal, InWaitpid

(* The steps that move neither a process, a slot nor the wait.             *)
LEMMA StillShutdown ==
    ASSUME TypeOK, Shutdown,
           UNCHANGED <<ndrivers, pid, dstate, files, killed, interrupted>>,
           pc' \in {"waiting", "done"} => UNCHANGED turn /\ pc = "waiting"
    PROVE  Processes' /\ FilesLeftByKilled' /\ StoppedDriversReaped'
<1>1. Processes' /\ FilesLeftByKilled'
    BY DEF Shutdown, Processes, FilesLeftByKilled, Used
<1>2. StoppedDriversReaped'
    BY DEF Shutdown, StoppedDriversReaped, Used
<1> QED
    BY <1>1, <1>2

(* The part of Shutdown about processes, step by step.                     *)
LEMMA ReapingStep ==
    ASSUME TypeOK, Shutdown, [Next]_vars
    PROVE  Processes' /\ FilesLeftByKilled' /\ StoppedDriversReaped'
<1> USE DEF loopVars, tableVars, inputVars, envVars, driverVars, fifoVars, histVars
<1>1. CASE CheckStop \/ Block \/ SelectReturns \/ SkipConsole \/ ReadEof \/ HandleDriverReply
           \/ RepliesDone \/ AllWaited
    BY <1>1, StillShutdown
    DEF CheckStop, Block, SelectReturns, SkipConsole, ReadEof, HandleDriverReply, RepliesDone,
        AllWaited
<1>2. CASE EnterLine \/ CloseConsole \/ Tick \/ UNCHANGED vars
    <2>1. UNCHANGED <<pc, turn, ndrivers, pid, dstate, files, killed, interrupted>>
        BY <1>2 DEF EnterLine, CloseConsole, Tick, vars
    <2> QED
        BY <2>1 DEF Shutdown, Processes, FilesLeftByKilled, StoppedDriversReaped, Used
<1>3. CASE ReadConsole
    <2>1. pc' = "replies"
        BY <1>3 DEF ReadConsole
    <2> QED
        BY <1>3, <2>1, LineShutdown DEF StoppedDriversReaped
<1>4. CASE SendStop
    <2>1. UNCHANGED <<ndrivers, pid, dstate, files, killed>> /\ turn' = 1
        BY <1>4 DEF SendStop
    <2>2. StoppedDriversReaped'
        BY <2>1 DEF StoppedDriversReaped, Used
    <2> QED
        BY <2>1, <2>2 DEF Shutdown, Processes, FilesLeftByKilled, Used
<1>5. CASE WaitDriver
    BY <1>5, WaitShutdown
<1>6. CASE StopSignal
    BY <1>6, SignalShutdown
<1>7. ASSUME NEW i \in Slots, HandleCommand(i)
      PROVE  Processes' /\ FilesLeftByKilled' /\ StoppedDriversReaped'
    BY <1>7, DriverShutdown DEF HandleCommand, Alive
<1>8. ASSUME NEW i \in Slots, OpenFifos(i) \/ ArmTimeout(i) \/ Timeout(i)
      PROVE  Processes' /\ FilesLeftByKilled' /\ StoppedDriversReaped'
    BY <1>8, DriverShutdown DEF OpenFifos, ArmTimeout, Timeout, Alive
<1>9. ASSUME NEW i \in Slots, HandleStop(i)
      PROVE  Processes' /\ FilesLeftByKilled' /\ StoppedDriversReaped'
    BY <1>9, DriverShutdown DEF HandleStop, Alive
<1>10. ASSUME NEW i \in Slots, KillDriver(i)
       PROVE  Processes' /\ FilesLeftByKilled' /\ StoppedDriversReaped'
    BY <1>10, DriverShutdown DEF KillDriver
<1> QED
    BY <1>1, <1>2, <1>3, <1>4, <1>5, <1>6, <1>7, <1>8, <1>9, <1>10
    DEF Next, Dispatcher, Driver, Environment

(* The part about the console, step by step.                               *)
LEMMA ConsoleStep ==
    ASSUME TypeOK, Shutdown, [Next]_vars
    PROVE  ConsoleHasInput' /\ StopMeansEnd' /\ StoppingMeansStop'
<1> USE DEF loopVars, tableVars, inputVars, envVars, driverVars, fifoVars, histVars,
            Shutdown, ConsoleHasInput, StopMeansEnd, StoppingMeansStop
<1>1. CASE CheckStop
    BY <1>1 DEF CheckStop
<1>2. CASE SelectReturns
    BY <1>2 DEF SelectReturns, Readable, Used
<1>3. CASE ReadConsole
    <2>1. pc' = "replies" /\ UNCHANGED <<g_stop, signals, eof>>
        BY <1>3 DEF ReadConsole
    <2>2. tty # <<>> \/ buf # <<>>
        BY <1>3 DEF ReadConsole, Fgets
    <2> QED
        BY <2>1, <2>2
<1>4. CASE ReadEof
    BY <1>4 DEF ReadEof
<1>5. CASE EnterLine
    <2>1. ~eof /\ tty' # <<>> /\ UNCHANGED <<pc, g_stop, signals, eof>>
        <3>1. PICK line \in Lines : tty' = Append(tty, line)
            BY <1>5 DEF EnterLine
        <3>2. tty' # <<>>
            BY <3>1, AppendProperties DEF TypeOK
        <3> QED
            BY <1>5, <3>2 DEF EnterLine
    <2> QED
        BY <2>1
<1>6. CASE CloseConsole
    BY <1>6 DEF CloseConsole
<1>7. CASE StopSignal
    <2>1. signals' # 0 /\ g_stop' = TRUE
        BY <1>7 DEF StopSignal, TypeOK
    <2>2. pc' = "console" => pc = "console" /\ UNCHANGED <<ready, tty, eof>>
        BY <1>7 DEF StopSignal
    <2> QED
        BY <2>1, <2>2
<1>8. CASE Block \/ SkipConsole \/ HandleDriverReply \/ RepliesDone \/ SendStop \/ WaitDriver
           \/ AllWaited
    BY <1>8 DEF Block, SkipConsole, HandleDriverReply, RepliesDone, SendStop, WaitDriver, AllWaited
<1>9. CASE UNCHANGED <<pc, ready, g_stop, signals, eof, tty, buf>>
    BY <1>9
<1> QED
    BY <1>1, <1>2, <1>3, <1>4, <1>5, <1>6, <1>7, <1>8, <1>9
    DEF Next, Dispatcher, Driver, Environment, OpenFifos, ArmTimeout, Timeout, HandleCommand,
        HandleStop, KillDriver, Tick, vars

(* However the park ends, it leaves neither a running driver whose slot    *)
(* was waited for nor a line entered before the end of the console.        *)
THEOREM ParkShutsDownCleanly == Spec => []CleanShutdown
<1>1. TypeOK /\ Shutdown /\ [Next]_vars => Shutdown'
    BY ReapingStep, ConsoleStep DEF Shutdown
<1>2. Shutdown => CleanShutdown
    BY DEF Shutdown, CleanShutdown, InputDrained, StopMeansEnd, StoppingMeansStop
<1> QED
    BY <1>1, <1>2, ShutdownInit, TypeCorrect, PTL DEF Spec
=============================================================================
