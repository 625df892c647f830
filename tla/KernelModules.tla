---------------------------- MODULE KernelModules ----------------------------
(***************************************************************************)
(* Four kernel modules that share nothing, side by side.                   *)
(***************************************************************************)
EXTENDS Integers, Sequences, FiniteSets, SideBySide

CONSTANTS
  Callers,                                          \* processes
  DeviceTexts, BUF_SIZE, MaxRead, MaxLoads,       \* CharDevice
  ProcTexts, MaxGot,                                \* ProcFile
  Masks                                             \* Blinker

VARIABLES
  devModule, devMade, loads, locked, kbuf, data_size,       \* CharDevice
  devPc, off, rest, asked, copied, devGot, stored, early,
  procModule, msg, len, temp, procPc, procCount,            \* ProcFile
  loaded, procGot, procText, spoilt,
  ledModule, ledMade, timer, handler, blink_mask, leds_status, leds,  \* Blinker
  registered, nl_sk, clientPc, answers, unanswered          \* NetlinkEcho

Device == INSTANCE CharDevice
  WITH Processes <- Callers, Texts <- DeviceTexts, module <- devModule, made <- devMade,
       pc <- devPc, n <- asked, k <- copied, got <- devGot,
       NULL <- Nothing
Proc == INSTANCE ProcFile
  WITH Processes <- Callers, Texts <- ProcTexts, module <- procModule,
       pc <- procPc, count <- procCount, got <- procGot, text <- procText
Leds == INSTANCE Blinker WITH module <- ledModule, made <- ledMade
Netlink == INSTANCE NetlinkEcho WITH Clients <- Callers, pc <- clientPc, queue <- answers

CellsOf(texts) == UNION {{t[i] : i \in DOMAIN t} : t \in texts}
ASSUME BufferAssumption == BUF_SIZE \in Nat /\ BUF_SIZE > 1
ASSUME TextsAssumption ==
  /\ DeviceTexts \subseteq Seq(CellsOf(DeviceTexts)) \ {<<>>}
  /\ ProcTexts \subseteq Seq(CellsOf(ProcTexts)) \ {<<>>}

deviceVars == <<devModule, devMade, loads, locked, kbuf, data_size,
                devPc, off, rest, asked, copied, devGot, stored, early>>
procVars == <<procModule, msg, len, temp, procPc, procCount, loaded, procGot, procText, spoilt>>
ledVars == <<ledModule, ledMade, timer, handler, blink_mask, leds_status, leds>>
netlinkVars == <<registered, nl_sk, clientPc, answers, unanswered>>
moduleVars == <<deviceVars, procVars, ledVars, netlinkVars>>

ModuleInit == Device!Init /\ Proc!Init /\ Leds!Init /\ Netlink!Init

ModuleStep ==
  \/ In("device", Device!Next, <<procVars, ledVars, netlinkVars>>)
  \/ In("proc", Proc!Next, <<deviceVars, ledVars, netlinkVars>>)
  \/ In("leds", Leds!Next, <<deviceVars, procVars, netlinkVars>>)
  \/ In("netlink", Netlink!Next, <<deviceVars, procVars, ledVars>>)

ModuleSpec == ModuleInit /\ [][ModuleStep]_moduleVars

-----------------------------------------------------------------------------
(* A reader of the device reads what one write stored, whole and unmixed,   *)
(* and two processes never have it open, unless it was opened before the    *)
(* end of init; a reader of the proc file gets the last text, unless calls  *)
(* overlapped or a reader stopped early since it was written.               *)
ReadersSeeOneText == [](Device!OneOpener /\ Device!ReadsOneText) /\ Proc!CatsGetText

(* No module is unloaded under a call, with the exception above for the     *)
(* device, and one that is gone or could not be loaded leaves nothing; the  *)
(* blinker goes on as long as it is loaded; a netlink client that waits has *)
(* its answer, or there was no memory for one.                              *)
ModulesSound ==
  /\ Device!TypeOK /\ Device!CallsHaveModule /\ Device!NothingLeft /\ Proc!MsgHeld
  /\ Leds!TimerKept /\ Leds!NothingLeft /\ Leds!LedsFollow
  /\ Netlink!AnswersFind
=============================================================================
