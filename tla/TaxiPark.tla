------------------------------ MODULE TaxiPark ------------------------------
(***************************************************************************)
(* module3/cross2/cross2.c: a dispatcher process that forks driver         *)
(* processes and talks to each of them over a pair of FIFOs.               *)
(*                                                                         *)
(* The dispatcher is a select loop over its console and the drivers'       *)
(* replies; a driver is a select loop over its command FIFO with a timeout *)
(* that ends its current task.  The two sides run concurrently; stop       *)
(* signals, the clock, the console and a driver being killed are the       *)
(* environment.                                                            *)
(*                                                                         *)
(* A command or reply line is written with one write() shorter than        *)
(* PIPE_BUF, so it enters a FIFO whole: a FIFO is a sequence of lines.     *)
(***************************************************************************)
EXTENDS Integers, Sequences, FiniteSets

CONSTANTS
    MaxDrivers,   \* MAX_DRIVERS
    Lines,        \* the console lines the user may enter
    MaxLines,     \* bound: lines entered in a behaviour
    MaxTime,      \* bound: value of the clock
    MaxSignals,   \* bound: SIGINT / SIGTERM deliveries to the dispatcher
    MaxKills      \* bound: drivers killed from outside (SIGKILL, out of memory)

Slots == 1 .. MaxDrivers       \* drivers[i - 1] of the source is slot i
ForkFailed == -1               \* what fork() returns when it fails
Stdin == 0                     \* STDIN_FILENO; no slot has this number

(* A parsed console line; fields a command does not have are 0.  "other"   *)
(* stands for an empty or an unknown line.                                 *)
ConsoleLine ==
    [op : {"create_driver", "send_task", "get_status", "get_drivers", "other"},
     pid : Int, timer : Int]

ASSUME ParkAssumption ==
    /\ MaxDrivers \in Nat \ {0}
    /\ Lines \subseteq ConsoleLine
    /\ {MaxLines, MaxTime, MaxSignals, MaxKills} \subseteq Nat

Task(t) == [cmd |-> "TASK", secs |-> t]
Status == [cmd |-> "STATUS", secs |-> 0]
Stop == [cmd |-> "STOP", secs |-> 0]

Command == [cmd : {"TASK", "STATUS", "STOP"}, secs : Int]
Requests == {"none", "task", "status"}          \* pending_cmd_t
Replies == {"OK", "Busy", "Available"}

VARIABLES
    pc,          \* where the dispatcher's main() is
    g_stop,      \* the flag handle_stop_signal sets
    ready,       \* the descriptors select() reported: Stdin and slots
    ndrivers,    \* entries of the driver table in use
    pid,         \* pid[i]: the process of slot i, its own number or ForkFailed
    pending,     \* pending[i]: the request the dispatcher waits on
    turn,        \* the slot shutdown_all_drivers waits for
    tty,         \* lines in the kernel, not read by the dispatcher yet
    buf,         \* lines in the dispatcher's stdio buffer
    eof,         \* the writer of the console has closed it
    typed,       \* number of lines entered
    signals,     \* number of signals delivered
    interrupted, \* slots whose waitpid() was cut short by a signal
    killed,      \* slots whose driver was killed
    dstate,      \* dstate[i]: the state of the driver process of slot i
    busy,        \* busy[i]: the driver's busy_until
    inq,         \* inq[i]: commands in taxi_i_in
    outq,        \* outq[i]: replies in taxi_i_out
    files,       \* slots whose FIFO files exist in the directory
    now,         \* time(NULL)
    accepted,    \* history: tasks driver i started
    confirmed    \* history: times the dispatcher printed "task sent" for slot i

loopVars == <<pc, g_stop, ready, turn, interrupted>>
tableVars == <<ndrivers, pid, pending>>
inputVars == <<tty, buf, eof, typed>>
envVars == <<signals, killed, now>>
driverVars == <<dstate, busy, files>>
fifoVars == <<inq, outq>>
histVars == <<accepted, confirmed>>
vars == <<pc, g_stop, ready, turn, interrupted, ndrivers, pid, pending, tty, buf,
          eof, typed, signals, killed, now, dstate, busy, files, inq, outq,
          accepted, confirmed>>

Used == 1 .. ndrivers
Alive(i) == dstate[i] \in {"starting", "top", "select"}

Init ==
    /\ pc = "check"
    /\ g_stop = FALSE
    /\ ready = {}
    /\ turn = 0
    /\ interrupted = {}
    /\ ndrivers = 0
    /\ pid = [i \in Slots |-> 0]
    /\ pending = [i \in Slots |-> "none"]
    /\ tty = <<>>
    /\ buf = <<>>
    /\ eof = FALSE
    /\ typed = 0
    /\ signals = 0
    /\ killed = {}
    /\ now = 1
    /\ dstate = [i \in Slots |-> "none"]
    /\ busy = [i \in Slots |-> 0]
    /\ files = {}
    /\ inq = [i \in Slots |-> <<>>]
    /\ outq = [i \in Slots |-> <<>>]
    /\ accepted = [i \in Slots |-> 0]
    /\ confirmed = [i \in Slots |-> 0]

-----------------------------------------------------------------------------
(* The console commands.                                                   *)

(* find_driver: the first slot whose pid field is p, or nothing.           *)
FindDriver(p) ==
    {i \in Used : pid[i] = p /\ \A j \in Used : pid[j] = p => i <= j}

(* Slip: no test of the table size.                                        *)
CreateDriverUnlimited ==
    LET new == ndrivers + 1 IN
    /\ ndrivers' = new
    /\ pending' = [pending EXCEPT ![new] = "none"]
    /\ files' = files \cup {new}
    /\ pid' = [pid EXCEPT ![new] = new]
    /\ dstate' = [dstate EXCEPT ![new] = "starting"]

(* The FIFOs are made before the fork and the table entry is filled        *)
(* whatever fork() returned; the child starts on its own.                  *)
CreateDriver ==
    IF ndrivers >= MaxDrivers
    THEN UNCHANGED <<ndrivers, pid, pending, dstate, files>>
    ELSE LET new == ndrivers + 1 IN
         /\ ndrivers' = new
         /\ pending' = [pending EXCEPT ![new] = "none"]
         /\ files' = files \cup {new}
         /\ \/ /\ pid' = [pid EXCEPT ![new] = new]
               /\ dstate' = [dstate EXCEPT ![new] = "starting"]
            \/ /\ pid' = [pid EXCEPT ![new] = ForkFailed]
               /\ UNCHANGED dstate

(* Write one request to every slot of S and remember what it was.          *)
Send(S, command, kind) ==
    /\ inq' = [i \in Slots |-> IF i \in S THEN Append(inq[i], command) ELSE inq[i]]
    /\ pending' = [i \in Slots |-> IF i \in S THEN kind ELSE pending[i]]

(* Slip: a request although the driver still owes a reply.                 *)
RequestAnyway(p, command, kind) == Send(FindDriver(p), command, kind)

(* send_task and get_status: refused while a request is outstanding.       *)
Request(p, command, kind) ==
    Send({i \in FindDriver(p) : pending[i] = "none"}, command, kind)

(* Slip: the same in get_drivers.                                          *)
GetDriversAll == Send(Used, Status, "status")

(* get_drivers: ask every driver that is not being asked already.          *)
GetDrivers == Send({i \in Used : pending[i] = "none"}, Status, "status")

HandleConsoleLine(line) ==
    \/ /\ line.op = "create_driver"
       /\ CreateDriver
       /\ UNCHANGED inq
    \/ /\ line.op = "send_task"
       /\ Request(line.pid, Task(line.timer), "task")
       /\ UNCHANGED <<ndrivers, pid, dstate, files>>
    \/ /\ line.op = "get_status"
       /\ Request(line.pid, Status, "status")
       /\ UNCHANGED <<ndrivers, pid, dstate, files>>
    \/ /\ line.op = "get_drivers"
       /\ GetDrivers
       /\ UNCHANGED <<ndrivers, pid, dstate, files>>
    \/ /\ line.op = "other"
       /\ UNCHANGED <<inq, ndrivers, pid, pending, dstate, files>>

-----------------------------------------------------------------------------
(* The dispatcher's main loop.                                             *)

(* Slip: maxfd does not count the last descriptor.                         *)
ReadableButLast ==
    (IF tty # <<>> \/ eof THEN {Stdin} ELSE {})
    \cup {i \in 1 .. ndrivers - 1 : outq[i] # <<>>}

(* What select() would report: console data or end of file, and every used *)
(* slot with a reply.  Lines already in the stdio buffer do not count.     *)
Readable ==
    (IF tty # <<>> \/ eof THEN {Stdin} ELSE {})
    \cup {i \in Used : outq[i] # <<>>}

CheckStop ==
    /\ pc = "check"
    /\ pc' = IF g_stop THEN "stopping" ELSE "enter"
    /\ UNCHANGED <<g_stop, ready, turn, interrupted, tableVars, inputVars,
                   envVars, driverVars, fifoVars, histVars>>

(* Between the test of g_stop and the system call a signal is not noticed. *)
Block ==
    /\ pc = "enter"
    /\ Readable = {}
    /\ pc' = "blocked"
    /\ UNCHANGED <<g_stop, ready, turn, interrupted, tableVars, inputVars,
                   envVars, driverVars, fifoVars, histVars>>

(* Slip: the result set of select() is not looked at.                      *)
SelectReturnsAll ==
    /\ pc \in {"enter", "blocked"}
    /\ Readable # {}
    /\ ready' = {Stdin} \cup Used
    /\ pc' = "console"
    /\ UNCHANGED <<g_stop, turn, interrupted, tableVars, inputVars, envVars,
                   driverVars, fifoVars, histVars>>

SelectReturns ==
    /\ pc \in {"enter", "blocked"}
    /\ Readable # {}
    /\ ready' = Readable
    /\ pc' = "console"
    /\ UNCHANGED <<g_stop, turn, interrupted, tableVars, inputVars, envVars,
                   driverVars, fifoVars, histVars>>

SkipConsole ==
    /\ pc = "console"
    /\ Stdin \notin ready
    /\ pc' = "replies"
    /\ UNCHANGED <<g_stop, ready, turn, interrupted, tableVars, inputVars,
                   envVars, driverVars, fifoVars, histVars>>

(* fgets() on an empty buffer reads what the kernel gives: one line from a *)
(* terminal, any number of lines from a pipe.  It keeps the rest.          *)
Fgets ==
    \/ /\ buf # <<>>
       /\ buf' = Tail(buf)
       /\ HandleConsoleLine(Head(buf))
       /\ UNCHANGED tty
    \/ /\ buf = <<>>
       /\ \E k \in 1 .. Len(tty) :
             /\ buf' = SubSeq(tty, 2, k)
             /\ tty' = SubSeq(tty, k + 1, Len(tty))
             /\ HandleConsoleLine(Head(tty))

ReadConsole ==
    /\ pc = "console"
    /\ Stdin \in ready
    /\ Fgets
    /\ pc' = "replies"
    /\ UNCHANGED <<g_stop, ready, turn, interrupted, eof, typed, envVars, busy,
                   outq, histVars>>

(* Slip: end of file is taken for the end of the input although lines are  *)
(* still buffered.                                                         *)
ReadEofEarly ==
    /\ pc = "console"
    /\ Stdin \in ready
    /\ tty = <<>>
    /\ g_stop' = TRUE
    /\ pc' = "replies"
    /\ UNCHANGED <<ready, turn, interrupted, tableVars, inputVars, envVars,
                   driverVars, fifoVars, histVars>>

(* Slip: end of file does not set the flag.                                *)
ReadEofIgnored ==
    /\ pc = "console"
    /\ Stdin \in ready
    /\ buf = <<>> /\ tty = <<>>
    /\ pc' = "replies"
    /\ UNCHANGED <<g_stop, ready, turn, interrupted, tableVars, inputVars,
                   envVars, driverVars, fifoVars, histVars>>

ReadEof ==
    /\ pc = "console"
    /\ Stdin \in ready
    /\ buf = <<>> /\ tty = <<>>
    /\ g_stop' = TRUE
    /\ pc' = "replies"
    /\ UNCHANGED <<ready, turn, interrupted, tableVars, inputVars, envVars,
                   driverVars, fifoVars, histVars>>

(* Slip: a refusal is not told from an acceptance.                         *)
SentAnyReply(i) == pending[i] = "task"

(* "task sent" is printed for any reply to a task but Busy.                *)
Sent(i) == pending[i] = "task" /\ Head(outq[i]) # "Busy"

(* handle_driver_reply for the lowest slot select() reported.  read_line   *)
(* cannot fail: the dispatcher itself keeps the FIFO open for writing.     *)
HandleDriverReply ==
    LET slots == ready \ {Stdin} IN
    /\ pc = "replies"
    /\ \E i \in slots :
          /\ \A j \in slots : i <= j
          /\ outq[i] # <<>>
          /\ outq' = [outq EXCEPT ![i] = Tail(@)]
          /\ confirmed' = IF Sent(i) THEN [confirmed EXCEPT ![i] = @ + 1] ELSE confirmed
          /\ pending' = [pending EXCEPT ![i] = "none"]
          /\ ready' = ready \ {i}
    /\ UNCHANGED <<pc, g_stop, turn, interrupted, ndrivers, pid, inputVars,
                   envVars, driverVars, inq, accepted>>

RepliesDone ==
    /\ pc = "replies"
    /\ ready \ {Stdin} = {}
    /\ ready' = {}
    /\ pc' = "check"
    /\ UNCHANGED <<g_stop, turn, interrupted, tableVars, inputVars, envVars,
                   driverVars, fifoVars, histVars>>

-----------------------------------------------------------------------------
(* shutdown_all_drivers.                                                   *)

(* Slip: the last driver is not told to stop.                              *)
SendStopButLast ==
    /\ pc = "stopping"
    /\ inq' = [i \in Slots |-> IF i \in 1 .. ndrivers - 1
                               THEN Append(inq[i], Stop) ELSE inq[i]]
    /\ turn' = 1
    /\ pc' = "waiting"
    /\ UNCHANGED <<g_stop, ready, interrupted, tableVars, inputVars, envVars,
                   driverVars, outq, histVars>>

SendStop ==
    /\ pc = "stopping"
    /\ inq' = [i \in Slots |-> IF i \in Used THEN Append(inq[i], Stop) ELSE inq[i]]
    /\ turn' = 1
    /\ pc' = "waiting"
    /\ UNCHANGED <<g_stop, ready, interrupted, tableVars, inputVars, envVars,
                   driverVars, outq, histVars>>

(* What a command FIFO holds is lost when its last descriptor is closed.  *)
(* Slot i is held open by the dispatcher until its turn (t) has passed, by *)
(* its own driver once it has opened it, and by every driver forked later, *)
(* which inherits it.  d gives the drivers' states after the step.         *)
Running(d, i) == d[i] \in {"starting", "top", "select"}

Held(i, t, d) ==
    \/ i >= t
    \/ d[i] \in {"top", "select"}
    \/ \E j \in Used : j > i /\ Running(d, j)

DropUnheld(q, t, d) == [i \in Slots |-> IF Held(i, t, d) THEN q[i] ELSE <<>>]

Children == {i \in Used : Alive(i) \/ dstate[i] = "exited"}

(* Slip: wait for any child instead of the driver of the slot.             *)
WaitpidAny ==
    \/ \E i \in Children :
          /\ dstate[i] = "exited"
          /\ dstate' = [dstate EXCEPT ![i] = "reaped"]
    \/ Children = {} /\ UNCHANGED dstate

(* waitpid() for slot turn: its own driver, or any child at all when the   *)
(* slot holds the -1 of a failed fork.  It fails at once without a child.  *)
Waitpid ==
    \/ /\ pid[turn] # ForkFailed
       /\ dstate[turn] = "exited"
       /\ dstate' = [dstate EXCEPT ![turn] = "reaped"]
    \/ /\ pid[turn] # ForkFailed
       /\ turn \notin Children
       /\ UNCHANGED dstate
    \/ /\ pid[turn] = ForkFailed
       /\ \E i \in Children :
             /\ dstate[i] = "exited"
             /\ dstate' = [dstate EXCEPT ![i] = "reaped"]
    \/ /\ pid[turn] = ForkFailed
       /\ Children = {}
       /\ UNCHANGED dstate

WaitDriver ==
    /\ pc = "waiting"
    /\ turn <= ndrivers
    /\ Waitpid
    /\ turn' = turn + 1
    /\ inq' = DropUnheld(inq, turn', dstate)
    /\ UNCHANGED <<pc, g_stop, ready, interrupted, tableVars, inputVars, envVars,
                   busy, files, outq, histVars>>

AllWaited ==
    /\ pc = "waiting"
    /\ turn > ndrivers
    /\ pc' = "done"
    /\ UNCHANGED <<g_stop, ready, turn, interrupted, tableVars, inputVars,
                   envVars, driverVars, fifoVars, histVars>>

Dispatcher ==
    \/ CheckStop
    \/ Block
    \/ SelectReturns
    \/ SkipConsole
    \/ ReadConsole
    \/ ReadEof
    \/ HandleDriverReply
    \/ RepliesDone
    \/ SendStop
    \/ WaitDriver
    \/ AllWaited

-----------------------------------------------------------------------------
(* driver_main, in the process of slot i.                                  *)

OpenFifos(i) ==
    /\ dstate[i] = "starting"
    /\ dstate' = [dstate EXCEPT ![i] = "top"]
    /\ UNCHANGED <<loopVars, tableVars, inputVars, envVars, busy, files,
                   fifoVars, histVars>>

(* Slip: the remaining time is compared with one second.                   *)
ArmTimeoutEarly(i) ==
    /\ dstate[i] = "top"
    /\ busy' = [busy EXCEPT ![i] = IF @ <= now + 1 THEN 0 ELSE @]
    /\ dstate' = [dstate EXCEPT ![i] = "select"]
    /\ UNCHANGED <<loopVars, tableVars, inputVars, envVars, files, fifoVars,
                   histVars>>

(* The top of the loop: a task whose time is over is forgotten; otherwise  *)
(* select() gets the time that remains.                                    *)
ArmTimeout(i) ==
    /\ dstate[i] = "top"
    /\ busy' = [busy EXCEPT ![i] = IF @ <= now THEN 0 ELSE @]
    /\ dstate' = [dstate EXCEPT ![i] = "select"]
    /\ UNCHANGED <<loopVars, tableVars, inputVars, envVars, files, fifoVars,
                   histVars>>

Timeout(i) ==
    /\ dstate[i] = "select"
    /\ inq[i] = <<>>
    /\ busy[i] # 0 /\ busy[i] <= now
    /\ busy' = [busy EXCEPT ![i] = 0]
    /\ dstate' = [dstate EXCEPT ![i] = "top"]
    /\ UNCHANGED <<loopVars, tableVars, inputVars, envVars, files, fifoVars,
                   histVars>>

IsBusy(i) == busy[i] # 0 /\ busy[i] > now

(* The driver's decision on one command and the reply it writes.           *)
HandleCommand(i) ==
    /\ dstate[i] = "select"
    /\ inq[i] # <<>>
    /\ Head(inq[i]).cmd # "STOP"
    /\ inq' = [inq EXCEPT ![i] = Tail(@)]
    /\ \/ /\ IsBusy(i)
          /\ outq' = [outq EXCEPT ![i] = Append(@, "Busy")]
          /\ UNCHANGED <<busy, accepted>>
       \/ /\ ~IsBusy(i) /\ Head(inq[i]).cmd = "TASK"
          /\ busy' = [busy EXCEPT ![i] = now + Head(inq[i]).secs]
          /\ accepted' = [accepted EXCEPT ![i] = @ + 1]
          /\ outq' = [outq EXCEPT ![i] = Append(@, "OK")]
       \/ /\ ~IsBusy(i) /\ Head(inq[i]).cmd = "STATUS"
          /\ outq' = [outq EXCEPT ![i] = Append(@, "Available")]
          /\ UNCHANGED <<busy, accepted>>
    /\ dstate' = [dstate EXCEPT ![i] = "top"]
    /\ UNCHANGED <<loopVars, tableVars, inputVars, envVars, files, confirmed>>

HandleStop(i) ==
    /\ dstate[i] = "select"
    /\ inq[i] # <<>>
    /\ Head(inq[i]).cmd = "STOP"
    /\ dstate' = [dstate EXCEPT ![i] = "exited"]
    /\ inq' = DropUnheld([inq EXCEPT ![i] = Tail(@)], turn, dstate')
    /\ files' = files \ {i}
    /\ UNCHANGED <<loopVars, tableVars, inputVars, envVars, busy, outq, histVars>>

Driver(i) ==
    \/ OpenFifos(i)
    \/ ArmTimeout(i)
    \/ Timeout(i)
    \/ HandleCommand(i)
    \/ HandleStop(i)

-----------------------------------------------------------------------------
(* The environment.                                                        *)

EnterLine ==
    /\ ~eof /\ pc # "done"
    /\ typed < MaxLines
    /\ \E line \in Lines : tty' = Append(tty, line)
    /\ typed' = typed + 1
    /\ UNCHANGED <<loopVars, tableVars, buf, eof, envVars, driverVars, fifoVars,
                   histVars>>

CloseConsole ==
    /\ ~eof /\ pc # "done"
    /\ eof' = TRUE
    /\ UNCHANGED <<loopVars, tableVars, tty, buf, typed, envVars, driverVars,
                   fifoVars, histVars>>

(* SIGINT or SIGTERM.  The handler only sets the flag; the call it finds   *)
(* the dispatcher blocked in, select() or waitpid(), fails with EINTR.     *)
(* Drivers ignore both signals.                                            *)
InWaitpid ==
    /\ pc = "waiting"
    /\ turn <= ndrivers
    /\ IF pid[turn] = ForkFailed
       THEN Children # {} /\ \A i \in Children : Alive(i)
       ELSE Alive(turn)

StopSignal ==
    /\ signals < MaxSignals
    /\ pc # "done"
    /\ signals' = signals + 1
    /\ g_stop' = TRUE
    /\ \/ /\ pc = "blocked"
          /\ pc' = "check"
          /\ UNCHANGED <<turn, interrupted, inq>>
       \/ /\ InWaitpid
          /\ interrupted' = interrupted \cup {turn}
          /\ turn' = turn + 1
          /\ inq' = DropUnheld(inq, turn', dstate)
          /\ UNCHANGED pc
       \/ /\ pc # "blocked" /\ ~InWaitpid
          /\ UNCHANGED <<pc, turn, interrupted, inq>>
    /\ UNCHANGED <<ready, tableVars, inputVars, killed, now, driverVars, outq,
                   histVars>>

(* A driver killed between its read and its write takes the command along. *)
TakenBy(i) ==
    IF dstate[i] = "select" /\ inq[i] # <<>> THEN [inq EXCEPT ![i] = Tail(@)] ELSE inq

KillDriver(i) ==
    /\ Alive(i)
    /\ Cardinality(killed) < MaxKills
    /\ killed' = killed \cup {i}
    /\ dstate' = [dstate EXCEPT ![i] = "exited"]
    /\ \E q \in {inq, TakenBy(i)} : inq' = DropUnheld(q, turn, dstate')
    /\ UNCHANGED <<loopVars, tableVars, inputVars, signals, now, busy, files,
                   outq, histVars>>

Tick ==
    /\ now < MaxTime
    /\ now' = now + 1
    /\ UNCHANGED <<loopVars, tableVars, inputVars, signals, killed, driverVars,
                   fifoVars, histVars>>

Environment ==
    \/ EnterLine
    \/ CloseConsole
    \/ StopSignal
    \/ \E i \in Slots : KillDriver(i)
    \/ Tick

Next ==
    \/ Dispatcher
    \/ \E i \in Slots : Driver(i)
    \/ Environment

Spec == Init /\ [][Next]_vars

(* Every process that can run is eventually scheduled.  Nothing is assumed *)
(* of the environment: it may stop at any point.                           *)
Fairness == WF_vars(Dispatcher) /\ \A i \in Slots : WF_vars(Driver(i))
FairSpec == Spec /\ Fairness
-----------------------------------------------------------------------------
(* Properties.                                                             *)

TypeOK ==
    /\ pc \in {"check", "enter", "blocked", "console", "replies", "stopping",
               "waiting", "done"}
    /\ g_stop \in BOOLEAN
    /\ ready \subseteq Slots \cup {Stdin}
    /\ turn \in (IF pc \in {"waiting", "done"} THEN 1 .. MaxDrivers + 1 ELSE {0})
    /\ interrupted \subseteq Slots
    /\ ndrivers \in 0 .. MaxDrivers
    /\ pid \in [Slots -> Slots \cup {0, ForkFailed}]
    /\ pending \in [Slots -> Requests]
    /\ tty \in Seq(Lines)
    /\ buf \in Seq(Lines)
    /\ eof \in BOOLEAN
    /\ typed \in Nat
    /\ signals \in Nat
    /\ killed \subseteq Slots
    /\ now \in Nat
    /\ dstate \in [Slots -> {"none", "starting", "top", "select", "exited", "reaped"}]
    /\ busy \in [Slots -> Int]
    /\ inq \in [Slots -> Seq(Command)]
    /\ outq \in [Slots -> Seq(Replies)]
    /\ files \subseteq Slots
    /\ accepted \in [Slots -> Nat]
    /\ confirmed \in [Slots -> Nat]

(* The commands and replies that are under way for slot i while the        *)
(* dispatcher still serves it: at most one request or its answer, and the  *)
(* STOP of the shutdown behind it.                                         *)
AnswersTo(request) ==
    IF request = "task" THEN {"OK", "Busy"}
    ELSE IF request = "status" THEN {"Busy", "Available"}
    ELSE {}

Stops(i) ==
    IF pc \in {"waiting", "done"} /\ i \in Used THEN {<<>>, <<Stop>>} ELSE {<<>>}

InFlight(i) ==
    \/ /\ outq[i] = <<>>
       /\ inq[i] \in Stops(i)
       /\ pending[i] = "none" \/ i < turn \/ i \in killed
    \/ /\ \E r \in AnswersTo(pending[i]) : outq[i] = <<r>>
       /\ inq[i] \in Stops(i)
    \/ /\ pending[i] # "none"
       /\ outq[i] = <<>>
       /\ inq[i] # <<>>
       /\ Head(inq[i]).cmd = (IF pending[i] = "task" THEN "TASK" ELSE "STATUS")
       /\ Tail(inq[i]) \in Stops(i)

(* cross2.c relies on the pending field alone to pair replies with         *)
(* requests, although requests come from the console, from get_drivers and *)
(* from the shutdown: in every state each slot has at most one request or  *)
(* reply under way, of the kind pending says, and none when pending is     *)
(* CMD_NONE.  So a reply is never attributed to the wrong command and the  *)
(* "unexpected reply" branch is never taken.                               *)
OneRequestInFlight == \A i \in Slots : InFlight(i)

(* select() snapshot and later reads: while the dispatcher works through   *)
(* the descriptors that were ready, each of them still has the line, so    *)
(* read_line in handle_driver_reply never blocks the whole park.           *)
ReadNeverBlocks ==
    \A i \in ready \ {Stdin} : i \in Used /\ outq[i] # <<>>

(* The dispatcher prints "task sent" exactly once for every task a driver  *)
(* started: what the operator was told and what the drivers did differ at  *)
(* most by an OK that is still in the FIFO.                                *)
ConfirmedTasks ==
    \A i \in Slots :
        accepted[i] = confirmed[i] + (IF outq[i] = <<"OK">> THEN 1 ELSE 0)

(* shutdown_all_drivers prints "all drivers stopped" after one waitpid per *)
(* slot.  A slot whose wait was not cut short by a signal has a reaped     *)
(* driver, also when other slots hold the -1 of a failed fork, and its     *)
(* FIFO files are gone unless the driver was killed.                       *)
StoppedDriversReaped ==
    \A i \in Used :
        pc \in {"waiting", "done"} /\ i < turn /\ i \notin interrupted
            /\ pid[i] # ForkFailed
        => dstate[i] = "reaped" /\ (i \in files => i \in killed)

(* Lines can wait in the stdio buffer where select() does not see them.    *)
(* When the console ends, every line entered before was still handled      *)
(* before the drivers are stopped.                                         *)
InputDrained ==
    pc \in {"stopping", "waiting", "done"} /\ signals = 0 => tty = <<>> /\ buf = <<>>

(* The end of the dispatcher leaves neither a driver nor a line behind.    *)
CleanShutdown == StoppedDriversReaped /\ InputDrained

(* A driver that told the dispatcher OK keeps the task until its time is   *)
(* over: no later command, timeout or loop iteration shortens or replaces  *)
(* a task that is still running.                                           *)
TaskNotCutShort ==
    [][\A i \in Slots : busy[i] > now => busy'[i] = busy[i]]_vars

(* The park implements the request/reply discipline of RequestReply.       *)
PhaseOf(i) ==
    IF pending[i] = "none" THEN "idle"
    ELSE IF outq[i] = <<>> THEN "asked" ELSE "answered"

RR == INSTANCE RequestReply WITH
    Channels <- Slots,
    Kinds <- {"task", "status"},
    Answers <- [k \in {"task", "status"} |-> AnswersTo(k)],
    phase <- [i \in Slots |-> PhaseOf(i)],
    request <- pending,
    answer <- [i \in Slots |-> IF outq[i] = <<>> THEN "none" ELSE Head(outq[i])]

RequestReplySpec == RR!Spec

(* The end of the console always ends the program: the remaining lines are *)
(* handled, the drivers stopped and waited for, whatever they were doing.  *)
EofEndsPark == eof ~> pc = "done"

(* A stop signal ends the program unless it fell between the test of       *)
(* g_stop and select(): there it is noticed only at the next event.        *)
StopHonoured == (g_stop /\ pc \notin {"enter", "blocked"}) ~> pc = "done"

(* However it is told to, the program ends. *)
ParkEnds == EofEndsPark /\ StopHonoured

(* A request is answered unless its driver was killed or never existed, or *)
(* the dispatcher is shutting down.                                        *)
RequestAnswered ==
    \A i \in Slots :
        pending[i] # "none" ~>
            \/ pending[i] = "none"
            \/ i \in killed
            \/ pid[i] = ForkFailed
            \/ pc \in {"stopping", "waiting", "done"}
=============================================================================
