----------------------------- MODULE HidConvert -----------------------------
(***************************************************************************)
(* From the key events to the reports the host sees: the converter         *)
(* (hid_keyboard_convert.c), its transport (usb_hid_keyboard.c) and EP1,   *)
(* over every bus event.                                                   *)
(*                                                                         *)
(* The events are numbered in the order KeyDetect pushes them, so the      *)
(* queue is the interval popped + 1 .. pushed.  A report is the number of  *)
(* its event and the step of its macro; all zeros is the null report.      *)
(***************************************************************************)
EXTENDS UsbComposite, Integers

CONSTANTS
  MaxEvents, \* how many events the keypad produces (a bound)
  Kinds,     \* the kinds of event among them
  BusEvents  \* which of "reset", "suspend", "unconfigure" the environment may produce

(* ON and REPEAT of a key of kind NORMAL; ON of a macro key, by the number *)
(* of reports of the macro; the others.                                    *)
MacroKinds == {"MACRO2", "MACRO3"}
AllKinds == {"ON", "REPEAT", "OFF", "ERROR"} \cup MacroKinds

ASSUME HidAssumption ==
  /\ MaxEvents \in Nat
  /\ Kinds \subseteq AllKinds
  /\ BusEvents \subseteq {"reset", "suspend", "unconfigure"}

Ids == 1..MaxEvents
Null == [id |-> 0, step |-> 0]
Report(id, step) == [id |-> id, step |-> step]
Reports == {Null} \cup {Report(id, step) : id \in Ids, step \in 1..2}

VARIABLES
  kind,        \* the kind of each event, the user's future
  pushed,      \* how many events the queue has been given
  popped,      \* how many it has given up
  repeatOn,    \* sRepeatEnable of usb_vendor_cmd.c
  needNull,    \* sNeedNullReport
  macroActive, \* sMacroActive
  macroOf,     \* sMacroId, by the event that started it
  macroStep,   \* sMacroStep
  pc,          \* where the main loop is in HidKeyboardConvert_Run
  job,         \* which of its branches it is in
  report,      \* sReport
  pkt,         \* the packet in EP1's packet memory
  host,        \* host: the report it read last, i.e. what it takes to be held
  last,        \* ghost: the last report of an event the host has read
  typed,       \* ghost: the events the host has read a report of
  disowned     \* ghost: a resume has cleared hidTxBusy over a packet not read yet

queueVars == <<kind, pushed, popped>>
macroVars == <<macroActive, macroOf, macroStep>>
convVars == <<queueVars, needNull, macroVars, pc, job, report>>
hostVars == <<host, last, typed>>
vars == <<usbVars, convVars, repeatOn, pkt, hostVars, disowned>>

Init ==
  /\ UsbInit
  /\ kind \in [Ids -> Kinds] /\ pushed = 0 /\ popped = 0
  /\ repeatOn = TRUE
  /\ needNull = FALSE
  /\ macroActive = FALSE /\ macroOf = 0 /\ macroStep = 0
  /\ pc = "loop" /\ job = "null" /\ report = Null
  /\ pkt = Null
  /\ host = Null /\ last = Null /\ typed = {}
  /\ disowned = FALSE
-----------------------------------------------------------------------------
(* HidKeyboardConvert_Run up to its call of SendReport.  Everything it     *)
(* decides on belongs to the main loop, except hidTxBusy, the handle and   *)
(* sRepeatEnable, each read once.                                          *)

Head == popped + 1
Steps(id) == IF kind[id] = "MACRO3" THEN 3 ELSE 2

(* HidKeyboardConvert_BuildMacroReport: the last step is the null report.  *)
MacroReport(id, step) == IF step + 1 = Steps(id) THEN Null ELSE Report(id, step + 1)

Send(which, what) ==
  /\ pc' = "send"
  /\ job' = which
  /\ report' = what

RunNull ==
  /\ pc = "loop" /\ IsTxIdle("HID")
  /\ needNull
  /\ Send("null", Null)
  /\ UNCHANGED <<usbVars, queueVars, repeatOn, needNull, macroVars, pkt, hostVars, disowned>>

RunMacro ==
  /\ pc = "loop" /\ IsTxIdle("HID")
  /\ ~needNull /\ macroActive
  /\ Send("macro", MacroReport(macroOf, macroStep))
  /\ UNCHANGED <<usbVars, queueVars, repeatOn, needNull, macroVars, pkt, hostVars, disowned>>

HasEvent == pc = "loop" /\ IsTxIdle("HID") /\ ~needNull /\ ~macroActive /\ popped < pushed

Ignored(id) == kind[id] = "OFF" \/ (kind[id] = "REPEAT" /\ ~repeatOn)

RunDrop ==
  /\ HasEvent /\ Ignored(Head)
  /\ popped' = Head
  /\ UNCHANGED <<usbVars, kind, pushed, repeatOn, needNull, macroVars, pc, job, report, pkt,
                 hostVars, disowned>>

RunTap ==
  /\ HasEvent /\ ~Ignored(Head) /\ kind[Head] \notin MacroKinds
  /\ Send("tap", Report(Head, 1))
  /\ UNCHANGED <<usbVars, queueVars, repeatOn, needNull, macroVars, pkt, hostVars, disowned>>

RunMacroEvent ==
  /\ HasEvent /\ kind[Head] \in MacroKinds
  /\ macroActive' = TRUE /\ macroOf' = Head /\ macroStep' = 0
  /\ Send("macro_event", MacroReport(Head, 0))
  /\ UNCHANGED <<usbVars, queueVars, repeatOn, needNull, pkt, hostVars, disowned>>
-----------------------------------------------------------------------------
(* UsbHidKeyboard_SendReport and, behind it, USBD_COMPOSITE_HID_SendReport.*)

(* The second look at IsIdle; when it fails, nothing is recorded.          *)
SendIdle ==
  /\ pc = "send"
  /\ pc' = IF IsTxIdle("HID") THEN "guard" ELSE "loop"
  /\ UNCHANGED <<usbVars, queueVars, repeatOn, needNull, macroVars, job, report, pkt, hostVars, disowned>>

(* Mutant: the last step is not recognised (off by one).                   *)
MacroAdvances_Late ==
  IF macroStep = Steps(macroOf)
  THEN macroActive' = FALSE /\ macroOf' = 0 /\ macroStep' = 0
  ELSE macroStep' = macroStep + 1 /\ UNCHANGED <<macroActive, macroOf>>

(* HidKeyboardConvert_RunMacroSequence, after a step was accepted.         *)
MacroAdvances ==
  IF macroStep + 1 = Steps(macroOf)
  THEN macroActive' = FALSE /\ macroOf' = 0 /\ macroStep' = 0
  ELSE macroStep' = macroStep + 1 /\ UNCHANGED <<macroActive, macroOf>>

(* Mutants: a tap without its null report; an event never popped; a later  *)
(* step of a macro pops the event behind it.                               *)
Accepted_NoNull ==
  /\ pc' = "loop"
  /\ needNull' = FALSE
  /\ popped' = IF job \in {"tap", "macro_event"} THEN Head ELSE popped
  /\ IF job \in {"macro", "macro_event"} THEN MacroAdvances ELSE UNCHANGED macroVars
  /\ UNCHANGED <<kind, pushed, job, report>>
Accepted_NoPop ==
  /\ pc' = "loop"
  /\ needNull' = (job = "tap")
  /\ UNCHANGED popped
  /\ IF job \in {"macro", "macro_event"} THEN MacroAdvances ELSE UNCHANGED macroVars
  /\ UNCHANGED <<kind, pushed, job, report>>
Accepted_PopsTwice ==
  /\ pc' = "loop"
  /\ needNull' = (job = "tap")
  /\ popped' = IF job \in {"tap", "macro_event", "macro"} THEN Head ELSE popped
  /\ IF job \in {"macro", "macro_event"} THEN MacroAdvances ELSE UNCHANGED macroVars
  /\ UNCHANGED <<kind, pushed, job, report>>

(* SendReport returned true: what the three branches do with it.           *)
Accepted ==
  /\ pc' = "loop"
  /\ needNull' = (job = "tap")
  /\ popped' = IF job \in {"tap", "macro_event"} THEN Head ELSE popped
  /\ IF job \in {"macro", "macro_event"} THEN MacroAdvances ELSE UNCHANGED macroVars
  /\ UNCHANGED <<kind, pushed, job, report>>

(* HID_SendReport's guards.  Its result is thrown away: a report refused   *)
(* on a suspended or unconfigured device counts as sent.                   *)
Guard ==
  /\ pc = "guard"
  /\ IF TxAccepts("HID") THEN pc' = "arm" /\ UNCHANGED <<queueVars, needNull, macroVars, job, report>>
     ELSE Accepted
  /\ UNCHANGED <<usbVars, repeatOn, pkt, hostVars, disowned>>

Arm ==
  /\ pc = "arm"
  /\ txBusy' = [txBusy EXCEPT !["HID"] = TRUE]
  /\ pc' = "start"
  /\ UNCHANGED <<coreVars, epStat, queueVars, repeatOn, needNull, macroVars, job, report, pkt,
                 hostVars, disowned>>

Start ==
  /\ pc = "start"
  /\ epStat' = [epStat EXCEPT !["HID"] = "VALID"]
  /\ pkt' = report
  /\ Accepted
  /\ UNCHANGED <<coreVars, txBusy, repeatOn, hostVars, disowned>>

Main ==
  \/ RunNull \/ RunMacro \/ RunDrop \/ RunTap \/ RunMacroEvent
  \/ SendIdle \/ Guard \/ Arm \/ Start

(* KeyDetect_Run, in the same main loop, pushes an event.                  *)
Push ==
  /\ pc = "loop"
  /\ pushed < MaxEvents
  /\ pushed' = pushed + 1
  /\ UNCHANGED <<usbVars, kind, popped, repeatOn, needNull, macroVars, pc, job, report, pkt,
                 hostVars, disowned>>
-----------------------------------------------------------------------------
(* The host reads EP1; it polls no endpoint of an unconfigured device.     *)
DataIn ==
  /\ InTokenServed("HID") /\ DataInReachesClass
  /\ epStat' = [epStat EXCEPT !["HID"] = "NAK"]
  /\ txBusy' = [txBusy EXCEPT !["HID"] = FALSE]
  /\ host' = pkt
  /\ last' = IF pkt = Null THEN last ELSE pkt
  /\ typed' = IF pkt = Null THEN typed ELSE typed \cup {pkt.id}
  /\ disowned' = (disowned /\ pc = "start")
  /\ UNCHANGED <<coreVars, convVars, repeatOn, pkt>>

(* SET_REPEAT_ENABLE, in the control request's interrupt.                  *)
SetRepeat ==
  /\ HostTraffic /\ hcomp
  /\ repeatOn' = ~repeatOn
  /\ UNCHANGED <<usbVars, convVars, pkt, hostVars, disowned>>

(* The host releases the keys of a keyboard it has reset or unconfigured.  *)
HostForgets == host' = Null /\ UNCHANGED <<last, typed>>

Reset ==
  /\ "reset" \in BusEvents
  /\ LL_Reset
  /\ HostForgets
  /\ disowned' = FALSE
  /\ UNCHANGED <<convVars, repeatOn, pkt>>

(* The main loop is prompt: a release the converter can send, or is        *)
(* sending, is sent within the 3 ms of idle bus that come before SUSP, and *)
(* within the 10 ms after a resume, in which the host keeps the bus awake  *)
(* and quiet.                                                              *)
OwesRelease ==
  \/ needNull /\ (IsTxIdle("HID") \/ pc # "loop")
  \/ macroActive /\ (IsTxIdle("HID") \/ (pc # "loop" /\ job = "macro"))

Suspend ==
  /\ "suspend" \in BusEvents
  /\ ~busQuiet /\ ~OwesRelease
  /\ pc = "start" => txBusy["HID"]   \* so is a call that was in progress at the last DataIn
  /\ LL_Suspend
  /\ UNCHANGED <<convVars, repeatOn, pkt, hostVars, disowned>>

Resume ==
  /\ LL_Resume
  /\ disowned' = (disowned \/ epStat["HID"] = "VALID" \/ pc = "start")
  /\ UNCHANGED <<convVars, repeatOn, pkt, hostVars>>

Recover ==
  /\ pc = "loop" /\ ~OwesRelease
  /\ BusRecovered
  /\ UNCHANGED <<convVars, repeatOn, pkt, hostVars, disowned>>

Address ==
  /\ \E a \in {0, 1} : SetAddress(a)
  /\ UNCHANGED <<convVars, repeatOn, pkt, hostVars, disowned>>

(* One call of HidKeyboardConvert_Run is shorter than the two control      *)
(* transfers that take the class down and up again.                        *)
ConfigureUp ==
  /\ pc = "loop"
  /\ SetConfigUp
  /\ disowned' = FALSE
  /\ UNCHANGED <<convVars, repeatOn, pkt, hostVars>>

ConfigureDown ==
  /\ "unconfigure" \in BusEvents
  /\ SetConfigDown \/ SetConfigRefused
  /\ HostForgets
  /\ disowned' = FALSE
  /\ UNCHANGED <<convVars, repeatOn, pkt>>

Bus == Reset \/ Suspend \/ Resume \/ Recover \/ Address \/ ConfigureUp \/ ConfigureDown

Next == Main \/ Push \/ DataIn \/ SetRepeat \/ Bus

Spec == Init /\ [][Next]_vars

(* The main loop never blocks; the host wakes the bus, and polls EP1 in    *)
(* some of the periods it is awake, however often it suspends.             *)
FairSpec == Spec /\ WF_vars(Main) /\ SF_vars(DataIn) /\ WF_vars(Recover) /\ WF_vars(Resume)
-----------------------------------------------------------------------------
TypeOK ==
  /\ UsbTypeOK
  /\ kind \in [Ids -> Kinds]
  /\ pushed \in 0..MaxEvents /\ popped \in 0..pushed
  /\ repeatOn \in BOOLEAN /\ needNull \in BOOLEAN
  /\ macroActive \in BOOLEAN /\ macroOf \in 0..MaxEvents /\ macroStep \in 0..2
  /\ pc \in {"loop", "send", "guard", "arm", "start"}
  /\ job \in {"null", "macro", "macro_event", "tap"}
  /\ {report, pkt, host, last} \subseteq Reports
  /\ typed \subseteq Ids
  /\ disowned \in BOOLEAN

(* No key event is typed after a later one, and one that is no macro is    *)
(* typed at most once, whatever resets, suspends and reconfigurations hit  *)
(* the call that sends it.                                                 *)
Later(r, s) == r.id > s.id \/ (r.id = s.id /\ r.step > s.step)
TapsOnceInOrder ==
  [][DataIn /\ pkt # Null =>
       /\ pkt.id >= last.id
       /\ kind[pkt.id] \notin MacroKinds => Later(pkt, last)]_vars

(* Between the reports of two events the host sees everything released,    *)
(* unless UsbLifecycle_OnResume has cleared hidTxBusy over an unread       *)
(* packet.                                                                 *)
ReleasedBetween ==
  [][DataIn /\ host # Null /\ pkt # Null /\ pkt.id # host.id => disowned]_vars

(* No key sticks: what the host takes to be held is released in the end,   *)
(* although SendReport reports success for reports it has dropped.         *)
TapReleases == (host # Null) ~> (host = Null)

(* While the device stays configured, an event that waits in the queue and *)
(* types something is typed, unless a resume has disowned a packet.        *)
EveryTapTyped ==
  \A id \in Ids :
    (devState = "CONFIGURED" /\ id \in (popped + 1)..pushed /\ kind[id] \notin {"OFF", "REPEAT"})
      ~> (id \in typed \/ devState # "CONFIGURED" \/ disowned)
-----------------------------------------------------------------------------
(* key_table.c 42: "fire-once macros".  A reset between the converter's    *)
(* look at IsIdle and SendReport's leaves sMacroActive set and the event   *)
(* in the queue: the sequence runs to its end, then the event starts it    *)
(* again.                                                                  *)
MacrosOnce ==
  [][DataIn /\ pkt # Null /\ kind[pkt.id] \in MacroKinds => Later(pkt, last)]_vars
=============================================================================
