------------------------- MODULE HidConvert_proofs -------------------------
(***************************************************************************)
(* The safety properties of HidConvert, for any number and kinds of events *)
(* and any bus events.                                                     *)
(*                                                                         *)
(* Neither action property follows from the types: a DataIn reads what an  *)
(* earlier Start has written, and that was built by a still earlier Run.   *)
(* IInv carries the facts from one to the other: what a call in progress   *)
(* is about (MacroInv, JobInv), which reports are already behind the queue *)
(* (OrderInv), whose packet the flag stands for (FlagInv), who owes the    *)
(* host a release (ReleaseInv), and why no release can be dropped on a     *)
(* sleeping device (SleepingInv).                                          *)
(***************************************************************************)
EXTENDS HidConvert, UsbComposite_proofs

(* A report of an event the queue has given up, or of the macro at its     *)
(* head, which a reset can leave there although it has been started.       *)
Known(r) == r.id <= popped \/ (r.id = popped + 1 /\ kind[r.id] \in MacroKinds)

Waiting == epStat["HID"] = "VALID"
Busy == txBusy["HID"]
Asleep == hcomp /\ devState # "CONFIGURED"

MacroInv ==
  /\ macroActive => /\ macroOf \in Ids /\ macroOf <= popped + 1
                    /\ kind[macroOf] \in MacroKinds
                    /\ macroStep < Steps(macroOf)
                    /\ last.id <= macroOf /\ pkt.id <= macroOf
  /\ ~macroActive => macroOf = 0 /\ macroStep = 0

JobInv ==
  pc # "loop" =>
    /\ (job = "null") <=> needNull
    /\ job = "null" => report = Null
    /\ job = "tap" => /\ ~macroActive /\ popped < pushed
                      /\ kind[popped + 1] \notin MacroKinds
                      /\ report = Report(popped + 1, 1)
    /\ job \in {"macro", "macro_event"} => /\ macroActive
                                           /\ report = MacroReport(macroOf, macroStep)
    /\ job = "macro_event" => macroOf = popped + 1 /\ popped < pushed

OrderInv ==
  /\ Known(pkt) /\ Known(last)
  /\ Waiting /\ pkt # Null =>
       /\ last.id <= pkt.id
       /\ kind[pkt.id] \notin MacroKinds => last.id < pkt.id

FlagInv ==
  hcomp =>
    /\ Waiting => Busy \/ disowned
    /\ pc = "guard" => ~Busy
    /\ pc \in {"arm", "start"} /\ Waiting => disowned
    /\ pc = "start" => Busy \/ disowned

(* The converter still has to release what r holds.                        *)
ReleaseDue(r) == needNull \/ (macroActive /\ macroOf = r.id)

ReleaseInv ==
  /\ host # Null => hcomp
  /\ hcomp /\ Waiting /\ pkt # Null => ReleaseDue(pkt)
  /\ host # Null /\ ~disowned => ReleaseDue(host) \/ (Waiting /\ pkt = Null)
  /\ Waiting /\ pkt # Null /\ host # Null /\ pkt.id # host.id => disowned

SleepingInv ==
  Asleep =>
    /\ pc = "start" => Busy
    /\ Waiting /\ pkt # Null => Busy
    /\ host # Null /\ ~disowned => Busy

IInv ==
  /\ TypeOK /\ CoreInv
  /\ MacroInv /\ JobInv /\ OrderInv /\ FlagInv /\ ReleaseInv /\ SleepingInv
-----------------------------------------------------------------------------
(* Reports.                                                                *)

LEMMA ReportFacts ==
  /\ Null \in Reports /\ Null.id = 0
  /\ \A r \in Reports : r.id \in 0..MaxEvents /\ (r # Null => r.id \in Ids)
  /\ \A id \in Ids, step \in 1..2 :
       Report(id, step) \in Reports /\ Report(id, step) # Null /\ Report(id, step).id = id
<1>1. Null \in Reports /\ Null.id = 0
  BY DEF Reports, Null
<1>2. \A id \in Ids, step \in 1..2 :
        Report(id, step) \in Reports /\ Report(id, step).id = id /\ id # 0
  BY HidAssumption DEF Reports, Report, Ids
<1>3. \A id \in Ids, step \in 1..2 : Report(id, step) # Null
  BY <1>1, <1>2
<1>4. \A r \in Reports : r # Null => r.id \in Ids
  BY DEF Reports, Report
<1>5. Ids \subseteq 0..MaxEvents /\ 0 \in 0..MaxEvents
  BY HidAssumption DEF Ids
<1> QED
  BY <1>1, <1>2, <1>3, <1>4, <1>5

(* A step of a macro is a report of its event, the last one the release.   *)
LEMMA MacroReportFacts ==
  ASSUME NEW id \in Ids, NEW step \in 0..2, step < Steps(id)
  PROVE  /\ MacroReport(id, step) \in Reports
         /\ step + 1 = Steps(id) => MacroReport(id, step) = Null
         /\ step + 1 # Steps(id) => MacroReport(id, step).id = id
<1>1. Steps(id) \in {2, 3}
  BY DEF Steps
<1>2. CASE step + 1 = Steps(id)
  BY <1>2, ReportFacts DEF MacroReport
<1>3. CASE step + 1 # Steps(id)
  <2>1. step + 1 \in 1..2 /\ MacroReport(id, step) = Report(id, step + 1)
    BY <1>1, <1>3 DEF MacroReport
  <2> QED
    BY <1>3, <2>1, ReportFacts
<1> QED
  BY <1>2, <1>3
-----------------------------------------------------------------------------
(* What the steps do to the device, the endpoint and its flag.             *)

LEMMA BusIsCoreStep == Bus => CoreStep
  BY DEF Bus, CoreStep, Reset, Suspend, Resume, Recover, Address, ConfigureUp, ConfigureDown

LEMMA OthersKeepCore ==
  Main \/ Push \/ DataIn \/ SetRepeat \/ UNCHANGED vars => UNCHANGED coreVars
  BY DEF Main, RunNull, RunMacro, RunDrop, RunTap, RunMacroEvent, SendIdle, Guard, Arm, Start,
         Push, DataIn, SetRepeat, vars, usbVars, coreVars

LEMMA CoreInvStep == CoreInv /\ [Next]_vars => CoreInv'
  BY CorePreserved, CoreUnchanged, BusIsCoreStep, OthersKeepCore DEF Next

LEMMA BusKeepsConverter ==
  Bus => UNCHANGED <<convVars, repeatOn, pkt, last, typed>>
  BY DEF Bus, Reset, Suspend, Resume, Recover, Address, ConfigureUp, ConfigureDown,
         HostForgets, hostVars

(* The steps of the main loop that only compute.                           *)
Decides == RunNull \/ RunMacro \/ RunDrop \/ RunTap \/ RunMacroEvent \/ SendIdle \/ Push

LEMMA DecidesKeepsDevice ==
  Decides => UNCHANGED <<usbVars, repeatOn, pkt, host, last, typed, disowned>>
  BY DEF Decides, RunNull, RunMacro, RunDrop, RunTap, RunMacroEvent, SendIdle, Push, hostVars

(* A report that is accepted, or dropped on an unconfigured device.        *)
Dropped == pc = "guard" /\ ~TxAccepts("HID") /\ Accepted
           /\ UNCHANGED <<usbVars, repeatOn, pkt, hostVars, disowned>>
Passes == pc = "guard" /\ TxAccepts("HID") /\ pc' = "arm"
          /\ UNCHANGED <<queueVars, needNull, macroVars, job, report>>
          /\ UNCHANGED <<usbVars, repeatOn, pkt, hostVars, disowned>>

LEMMA GuardSplits == Guard => Dropped \/ Passes
  BY DEF Guard, Dropped, Passes

LEMMA NextSplits ==
  [Next]_vars => Decides \/ Dropped \/ Passes \/ Arm \/ Start \/ DataIn \/ SetRepeat \/ Bus
                 \/ UNCHANGED vars
  BY GuardSplits DEF Next, Main, Decides
-----------------------------------------------------------------------------
LEMMA TypeInit == Init => TypeOK
<1> SUFFICES ASSUME Init PROVE TypeOK
  OBVIOUS
<1>1. UsbTypeOK
  BY DEF Init, UsbInit, UsbTypeOK, DevStates, EpStats
<1>2. Null \in Reports
  BY ReportFacts
<1>3. pushed \in 0..MaxEvents /\ popped \in 0..pushed /\ macroOf \in 0..MaxEvents /\ macroStep \in 0..2
  BY HidAssumption DEF Init
<1>4. {report, pkt, host, last} \subseteq Reports /\ typed \subseteq Ids
  BY <1>2 DEF Init
<1>5. kind \in [Ids -> Kinds] /\ pc = "loop" /\ job = "null" /\ ~disowned /\ repeatOn /\ ~needNull /\ ~macroActive
  BY DEF Init
<1>6. /\ repeatOn \in BOOLEAN /\ needNull \in BOOLEAN /\ macroActive \in BOOLEAN /\ disowned \in BOOLEAN
  BY Zenon DEF Init
<1> QED
  BY <1>1, <1>3, <1>4, <1>5, <1>6 DEF TypeOK

LEMMA OthersInit ==
  Init => MacroInv /\ JobInv /\ OrderInv /\ FlagInv /\ ReleaseInv /\ SleepingInv
<1> SUFFICES ASSUME Init
             PROVE  MacroInv /\ JobInv /\ OrderInv /\ FlagInv /\ ReleaseInv /\ SleepingInv
  OBVIOUS
<1>1. pc = "loop" /\ ~macroActive /\ macroOf = 0 /\ macroStep = 0 /\ popped = 0 /\ ~hcomp
  BY DEF Init, UsbInit
<1>2. pkt = Null /\ last = Null /\ host = Null /\ Null.id = 0
  BY ReportFacts DEF Init
<1> QED
  BY <1>1, <1>2 DEF MacroInv, JobInv, OrderInv, FlagInv, ReleaseInv, SleepingInv, Known, Asleep

(* An accepted report takes its event from the queue or a macro a step on. *)
LEMMA AcceptedFacts ==
  ASSUME TypeOK, MacroInv, JobInv, pc # "loop", Accepted
  PROVE  /\ pushed' = pushed /\ kind' = kind /\ pc' = "loop" /\ report \in Reports
         /\ popped' \in 0..pushed /\ popped <= popped' /\ popped' <= popped + 1
         /\ needNull' \in BOOLEAN /\ macroActive' \in BOOLEAN
         /\ macroOf' \in 0..MaxEvents /\ macroStep' \in 0..2
         /\ macroActive' => /\ macroActive /\ macroOf' = macroOf
                            /\ macroStep' < Steps(macroOf)
         /\ ~macroActive' => macroOf' = 0 /\ macroStep' = 0
         /\ job = "tap" => needNull' /\ popped' = popped + 1
         /\ report # Null => \/ needNull' /\ job = "tap"
                             \/ macroActive' /\ report.id = macroOf
<1> USE DEF TypeOK, MacroInv, JobInv
<1>1. /\ pushed' = pushed /\ kind' = kind /\ pc' = "loop"
      /\ needNull' = (job = "tap")
      /\ popped' = IF job \in {"tap", "macro_event"} THEN popped + 1 ELSE popped
  BY DEF Accepted, Head
<1>2. /\ popped' \in 0..pushed /\ popped <= popped' /\ popped' <= popped + 1
      /\ job = "tap" => popped' = popped + 1
  BY <1>1
<1>n. needNull' \in BOOLEAN /\ (needNull' <=> job = "tap")
  BY <1>1
<1>3. CASE job \in {"macro", "macro_event"}
  <2>1. macroActive /\ report = MacroReport(macroOf, macroStep) /\ job # "tap"
    BY <1>3
  <2>2. macroOf \in Ids /\ macroStep \in 0..2 /\ macroStep < Steps(macroOf)
    BY <2>1
  <2>3. /\ report \in Reports
        /\ macroStep + 1 = Steps(macroOf) => report = Null
        /\ macroStep + 1 # Steps(macroOf) => report.id = macroOf
    BY <2>1, <2>2, MacroReportFacts
  <2>4. Steps(macroOf) \in {2, 3}
    BY DEF Steps
  <2>5. MacroAdvances
    BY <1>3 DEF Accepted
  <2>6. CASE macroStep + 1 = Steps(macroOf)
    <3>1. macroActive' = FALSE /\ macroOf' = 0 /\ macroStep' = 0
      BY <2>5, <2>6 DEF MacroAdvances
    <3>2. ~macroActive' /\ macroActive' \in BOOLEAN
      BY <3>1
    <3>3. macroOf' \in 0..MaxEvents /\ macroStep' \in 0..2
      BY <3>1, HidAssumption
    <3>4. report = Null
      BY <2>3, <2>6
    <3> QED
      BY <1>1, <1>2, <1>n, <2>1, <2>3, <3>1, <3>2, <3>3, <3>4
  <2>7. CASE macroStep + 1 # Steps(macroOf)
    <3>1. macroActive' = macroActive /\ macroOf' = macroOf /\ macroStep' = macroStep + 1
      BY <2>5, <2>7 DEF MacroAdvances
    <3>2. macroStep + 1 \in 0..2 /\ macroStep + 1 < Steps(macroOf)
      BY <2>2, <2>4, <2>7
    <3>3. report.id = macroOf
      BY <2>3, <2>7
    <3> QED
      BY <1>1, <1>2, <1>n, <2>1, <2>3, <3>1, <3>2, <3>3
  <2> QED
    BY <2>6, <2>7
<1>4. CASE job \in {"null", "tap"}
  <2>1. macroActive' = macroActive /\ macroOf' = macroOf /\ macroStep' = macroStep
    BY <1>4 DEF Accepted, macroVars
  <2>2. job = "null" => report = Null
    OBVIOUS
  <2>3. job = "tap" => report = Report(popped + 1, 1) /\ popped + 1 \in Ids /\ 1 \in 1..2
    BY HidAssumption DEF Ids
  <2>4. report \in Reports
    BY <1>4, <2>2, <2>3, ReportFacts
  <2>5. macroActive' \in BOOLEAN /\ macroOf' \in 0..MaxEvents /\ macroStep' \in 0..2
    BY <2>1
  <2> QED
    BY <1>1, <1>2, <1>4, <1>n, <2>1, <2>2, <2>4, <2>5
<1> QED
  BY <1>3, <1>4
-----------------------------------------------------------------------------
(* What DataIn does.                                                       *)
LEMMA DataInFacts ==
  ASSUME TypeOK, DataIn
  PROVE  /\ hcomp /\ devState = "CONFIGURED" /\ Waiting /\ ~Waiting' /\ ~Busy'
         /\ UNCHANGED <<coreVars, convVars, pkt>>
         /\ host' = pkt /\ (last' = IF pkt = Null THEN last ELSE pkt)
         /\ disowned' = (disowned /\ pc = "start")
  BY DEF DataIn, InTokenServed, DataInReachesClass, Waiting, Busy, TypeOK, UsbTypeOK, EPS, EpStats

(* What Arm and Start do.                                                  *)
LEMMA ArmFacts ==
  ASSUME TypeOK, Arm
  PROVE  /\ pc = "arm" /\ pc' = "start" /\ Busy' /\ Waiting' = Waiting
         /\ UNCHANGED <<coreVars, queueVars, needNull, macroVars, job, report, pkt, hostVars, disowned>>
  BY DEF Arm, Waiting, Busy, TypeOK, UsbTypeOK, EPS

LEMMA StartFacts ==
  ASSUME TypeOK, Start
  PROVE  /\ pc = "start" /\ Accepted /\ Waiting' /\ Busy' = Busy /\ pkt' = report
         /\ UNCHANGED <<coreVars, hostVars, disowned>>
  BY DEF Start, Waiting, Busy, TypeOK, UsbTypeOK, EPS

LEMMA BusTypes ==
  ASSUME TypeOK, CoreInv, Bus
  PROVE  /\ txBusy' \in [EPS -> BOOLEAN] /\ epStat' \in [EPS -> EpStats]
         /\ host' \in {host, Null} /\ disowned' \in BOOLEAN
<1>1. txBusy' \in [EPS -> BOOLEAN] /\ epStat' \in [EPS -> EpStats]
  BY BusIsCoreStep, EndpointTypes DEF TypeOK, UsbTypeOK
<1>2. host' \in {host, Null}
  BY DEF Bus, Reset, Suspend, Resume, Recover, Address, ConfigureUp, ConfigureDown,
         HostForgets, hostVars
<1>3. disowned' \in BOOLEAN
  BY DEF Bus, Reset, Suspend, Resume, Recover, Address, ConfigureUp, ConfigureDown, TypeOK
<1> QED
  BY <1>1, <1>2, <1>3

ConvTypeOK ==
  /\ kind \in [Ids -> Kinds]
  /\ pushed \in 0..MaxEvents /\ popped \in 0..pushed
  /\ repeatOn \in BOOLEAN /\ needNull \in BOOLEAN
  /\ macroActive \in BOOLEAN /\ macroOf \in 0..MaxEvents /\ macroStep \in 0..2
  /\ pc \in {"loop", "send", "guard", "arm", "start"}
  /\ job \in {"null", "macro", "macro_event", "tap"}
  /\ report \in Reports

LEMMA ConvTypeStep == IInv /\ [Next]_vars => ConvTypeOK'
<1> SUFFICES ASSUME IInv, [Next]_vars PROVE ConvTypeOK'
  OBVIOUS
<1>t. TypeOK /\ MacroInv /\ JobInv /\ ConvTypeOK
  BY DEF IInv, TypeOK, ConvTypeOK
<1>n. Null \in Reports
  BY ReportFacts
<1>1. CASE Decides
  <2> USE <1>t DEF ConvTypeOK
  <2>1. CASE RunNull
    BY <1>n, <2>1 DEF RunNull, Send, queueVars, macroVars
  <2>2. CASE RunMacro
    <3>1. MacroReport(macroOf, macroStep) \in Reports
      BY <2>2, MacroReportFacts DEF RunMacro, MacroInv
    <3> QED
      BY <2>2, <3>1 DEF RunMacro, Send, queueVars, macroVars
  <2>3. CASE RunDrop
    BY <2>3 DEF RunDrop, HasEvent, Head, macroVars
  <2>4. CASE RunTap
    <3>1. popped + 1 \in Ids /\ Report(popped + 1, 1) \in Reports
      <4>1. popped + 1 \in Ids
        BY <2>4, HidAssumption DEF RunTap, HasEvent, Ids
      <4> QED
        BY <4>1, ReportFacts
    <3> QED
      BY <2>4, <3>1 DEF RunTap, Send, Head, queueVars, macroVars
  <2>5. CASE RunMacroEvent
    <3>1. popped + 1 \in Ids
      BY <2>5, HidAssumption DEF RunMacroEvent, HasEvent, Ids
    <3>2. 0 < Steps(popped + 1)
      BY DEF Steps
    <3>3. MacroReport(popped + 1, 0) \in Reports
      BY <3>1, <3>2, MacroReportFacts
    <3> QED
      BY <2>5, <3>1, <3>3, HidAssumption DEF RunMacroEvent, Send, Head, queueVars, Ids
  <2>6. CASE SendIdle
    BY <2>6 DEF SendIdle, queueVars, macroVars
  <2>7. CASE Push
    BY <2>7, HidAssumption DEF Push, macroVars
  <2> QED
    BY <1>1, <2>1, <2>2, <2>3, <2>4, <2>5, <2>6, <2>7 DEF Decides
<1>2. CASE Dropped \/ Start
  <2>1. pc # "loop" /\ Accepted /\ UNCHANGED repeatOn
    BY <1>2 DEF Dropped, Start
  <2>2. UNCHANGED <<job, report>>
    BY <2>1 DEF Accepted
  <2> QED
    BY <1>t, <2>1, <2>2, AcceptedFacts DEF ConvTypeOK
<1>3. CASE Passes \/ Arm \/ DataIn \/ Bus \/ SetRepeat \/ UNCHANGED vars
  <2>1. /\ UNCHANGED <<queueVars, needNull, macroVars, job, report>>
        /\ pc' \in {pc, "arm", "start"} /\ repeatOn' \in BOOLEAN
    BY <1>3, <1>t, BusKeepsConverter
       DEF Passes, Arm, DataIn, SetRepeat, vars, convVars, queueVars, macroVars, ConvTypeOK
  <2> QED
    BY <1>t, <2>1 DEF ConvTypeOK, queueVars, macroVars
<1> QED
  BY <1>1, <1>2, <1>3, NextSplits

LEMMA TypeStep == IInv /\ [Next]_vars => TypeOK'
<1> SUFFICES ASSUME IInv, [Next]_vars PROVE TypeOK'
  OBVIOUS
<1>t. TypeOK /\ CoreInv
  BY DEF IInv
<1>1. CoreTypeOK'
  BY <1>t, CoreInvStep DEF CoreInv
<1>2. txBusy' \in [EPS -> BOOLEAN] /\ epStat' \in [EPS -> EpStats]
  <2> USE <1>t DEF TypeOK, UsbTypeOK
  <2>1. CASE Bus
    BY <2>1, BusTypes
  <2>2. CASE Arm
    BY <2>2 DEF Arm
  <2>3. CASE Start \/ DataIn
    BY <2>3 DEF Start, DataIn, EpStats
  <2>4. CASE Decides \/ Dropped \/ Passes \/ SetRepeat \/ UNCHANGED vars
    BY <2>4, DecidesKeepsDevice DEF Dropped, Passes, SetRepeat, vars, usbVars
  <2> QED
    BY <2>1, <2>2, <2>3, <2>4, NextSplits
<1>3. {pkt, host, last}' \subseteq Reports /\ typed' \subseteq Ids /\ disowned' \in BOOLEAN
  <2>0. {pkt, host, last, report} \subseteq Reports /\ typed \subseteq Ids /\ disowned \in BOOLEAN
    BY <1>t DEF TypeOK
  <2>1. CASE Bus
    BY <1>t, <2>0, <2>1, BusTypes, BusKeepsConverter, ReportFacts
  <2>2. CASE DataIn
    <3>1. pkt # Null => pkt.id \in Ids
      BY <2>0, ReportFacts
    <3> QED
      BY <2>0, <2>2, <3>1 DEF DataIn
  <2>3. CASE Arm \/ Start \/ Decides \/ Dropped \/ Passes \/ SetRepeat \/ UNCHANGED vars
    BY <2>0, <2>3, DecidesKeepsDevice DEF Arm, Start, Dropped, Passes, SetRepeat, vars, hostVars
  <2> QED
    BY <2>1, <2>2, <2>3, NextSplits
<1>4. ConvTypeOK'
  BY ConvTypeStep
<1> QED
  BY <1>1, <1>2, <1>3, <1>4 DEF TypeOK, UsbTypeOK, CoreTypeOK, ConvTypeOK
-----------------------------------------------------------------------------
(* The call in progress.                                                   *)

LEMMA MacroStepInv == IInv /\ [Next]_vars => MacroInv'
<1> SUFFICES ASSUME IInv, [Next]_vars PROVE MacroInv'
  OBVIOUS
<1>t. TypeOK /\ MacroInv /\ JobInv /\ OrderInv
  BY DEF IInv
<1>i. pkt.id \in 0..MaxEvents /\ last.id \in 0..MaxEvents /\ popped \in Nat /\ pushed \in Nat
  BY <1>t, ReportFacts, HidAssumption DEF TypeOK
<1>s. \A id : Steps(id)' = IF kind'[id] = "MACRO3" THEN 3 ELSE 2
  BY DEF Steps
<1>1. CASE RunMacroEvent
  <2>1. /\ macroActive' = TRUE /\ macroOf' = popped + 1 /\ macroStep' = 0
        /\ popped' = popped /\ kind' = kind /\ pkt' = pkt /\ last' = last
        /\ popped < pushed /\ kind[popped + 1] \in MacroKinds
    BY <1>1 DEF RunMacroEvent, HasEvent, Head, queueVars, hostVars
  <2>2. popped + 1 \in Ids
    BY <1>t, <2>1, HidAssumption DEF TypeOK, Ids
  <2>3. last.id <= popped + 1 /\ pkt.id <= popped + 1
    BY <1>t, <1>i DEF OrderInv, Known
  <2>4. 0 < Steps(popped + 1)'
    BY <1>s
  <2> QED
    BY <2>1, <2>2, <2>3, <2>4 DEF MacroInv
<1>2. CASE RunDrop
  <2>1. ~macroActive /\ UNCHANGED macroVars
    BY <1>2 DEF RunDrop, HasEvent
  <2> QED
    BY <1>t, <2>1 DEF MacroInv, macroVars
<1>3. CASE Dropped \/ Start
  <2>1. pc # "loop" /\ Accepted /\ last' = last /\ pkt' \in {pkt, report}
    BY <1>3 DEF Dropped, Start, hostVars
  <2>2. /\ kind' = kind /\ popped <= popped' /\ popped' \in Nat
        /\ macroActive' => macroActive /\ macroOf' = macroOf /\ macroStep' < Steps(macroOf)
        /\ ~macroActive' => macroOf' = 0 /\ macroStep' = 0
        /\ report # Null => (needNull' /\ job = "tap") \/ (macroActive' /\ report.id = macroOf)
    BY <1>t, <2>1, AcceptedFacts
  <2>3. macroActive' => macroActive /\ job # "tap"
    BY <1>t, <2>1, <2>2 DEF JobInv
  <2>4. macroActive' => pkt'.id <= macroOf
    BY <1>t, <2>1, <2>2, <2>3, ReportFacts DEF MacroInv, TypeOK, Ids
  <2>5. macroActive' => macroOf <= popped' + 1
    BY <1>t, <1>i, <2>2 DEF MacroInv, Ids
  <2> QED
    BY <1>t, <2>1, <2>2, <2>4, <2>5 DEF MacroInv, Steps
<1>4. CASE DataIn
  <2>1. UNCHANGED <<macroVars, popped, kind, pkt>> /\ last' \in {last, pkt}
    BY <1>t, <1>4, DataInFacts DEF convVars, queueVars
  <2> QED
    BY <1>t, <2>1 DEF MacroInv, macroVars, Steps
<1>5. CASE UNCHANGED <<macroVars, popped, kind, pkt, last>>
  BY <1>t, <1>5 DEF MacroInv, macroVars, Steps
<1>6. CASE RunNull \/ RunMacro \/ RunTap \/ SendIdle \/ Push \/ Passes \/ Arm \/ SetRepeat \/ Bus
           \/ UNCHANGED vars
  <2>1. UNCHANGED <<macroVars, popped, kind, pkt, last>>
    BY <1>6, BusKeepsConverter
       DEF RunNull, RunMacro, RunTap, SendIdle, Push, Passes, Arm, SetRepeat, vars,
           convVars, queueVars, hostVars, macroVars
  <2> QED
    BY <1>5, <2>1
<1> QED
  BY <1>1, <1>2, <1>3, <1>4, <1>6, NextSplits DEF Decides

LEMMA JobStepInv == IInv /\ [Next]_vars => JobInv'
<1> SUFFICES ASSUME IInv, [Next]_vars PROVE JobInv'
  OBVIOUS
<1>t. TypeOK /\ MacroInv /\ JobInv
  BY DEF IInv
<1>1. CASE RunNull
  BY <1>t, <1>1 DEF RunNull, Send, JobInv, queueVars, macroVars
<1>2. CASE RunMacro
  <2>1. /\ pc' = "send" /\ job' = "macro" /\ report' = MacroReport(macroOf, macroStep)
        /\ UNCHANGED <<kind, popped, pushed, needNull, macroActive, macroOf, macroStep>>
        /\ ~needNull /\ macroActive
    BY <1>2 DEF RunMacro, Send, queueVars, macroVars
  <2>2. MacroReport(macroOf, macroStep)' = MacroReport(macroOf, macroStep)
    BY <2>1 DEF MacroReport, Steps
  <2> QED
    BY <2>1, <2>2 DEF JobInv
<1>3. CASE RunDrop \/ Push
  BY <1>3 DEF RunDrop, Push, HasEvent, JobInv
<1>4. CASE RunTap
  BY <1>t, <1>4 DEF RunTap, HasEvent, Head, Send, JobInv, queueVars, macroVars
<1>5. CASE RunMacroEvent
  <2>1. /\ pc' = "send" /\ job' = "macro_event" /\ report' = MacroReport(popped + 1, 0)
        /\ macroActive' = TRUE /\ macroOf' = popped + 1 /\ macroStep' = 0
        /\ UNCHANGED <<kind, popped, pushed, needNull>>
        /\ ~needNull /\ popped < pushed
    BY <1>5 DEF RunMacroEvent, HasEvent, Head, Send, queueVars
  <2>2. MacroReport(macroOf, macroStep)' = MacroReport(popped + 1, 0)
    BY <2>1 DEF MacroReport, Steps
  <2> QED
    BY <2>1, <2>2 DEF JobInv
<1>6. CASE Dropped \/ Start
  BY <1>6 DEF Dropped, Start, Accepted, JobInv
<1>7. CASE SendIdle \/ Passes \/ Arm \/ DataIn \/ SetRepeat \/ Bus \/ UNCHANGED vars
  <2>1. /\ UNCHANGED <<kind, popped, pushed, needNull, macroActive, macroOf, macroStep, job, report>>
        /\ pc' # "loop" => pc # "loop"
    BY <1>7, BusKeepsConverter
       DEF SendIdle, Passes, Arm, DataIn, SetRepeat, vars, convVars, queueVars, macroVars
  <2>2. MacroReport(macroOf, macroStep)' = MacroReport(macroOf, macroStep)
    BY <2>1 DEF MacroReport, Steps
  <2> QED
    BY <1>t, <2>1, <2>2 DEF JobInv
<1> QED
  BY <1>1, <1>2, <1>3, <1>4, <1>5, <1>6, <1>7, NextSplits DEF Decides
-----------------------------------------------------------------------------
(* The reports behind the queue, and the order they are sent in.           *)

LEMMA OrderStepInv == IInv /\ [Next]_vars => OrderInv'
<1> SUFFICES ASSUME IInv, [Next]_vars PROVE OrderInv'
  OBVIOUS
<1>t. TypeOK /\ MacroInv /\ JobInv /\ OrderInv
  BY DEF IInv
<1>i. /\ pkt.id \in Nat /\ last.id \in Nat /\ popped \in Nat
      /\ \A r \in Reports : r # Null => r.id \in Nat
      /\ Null.id = 0
  BY <1>t, ReportFacts, HidAssumption DEF TypeOK, Ids
<1>1. CASE Start
  <2>1. pc # "loop" /\ Accepted /\ last' = last /\ pkt' = report
    BY <1>1 DEF Start, hostVars
  <2>2. /\ kind' = kind /\ popped <= popped' /\ popped' <= popped + 1 /\ popped' \in Nat
        /\ job = "tap" => popped' = popped + 1
        /\ report \in Reports
        /\ report # Null => job = "tap" \/ (macroActive' /\ report.id = macroOf)
        /\ macroActive' => macroActive
    BY <1>t, <2>1, AcceptedFacts
  <2>3. Known(last)'
    BY <1>t, <1>i, <2>1, <2>2 DEF OrderInv, Known
  <2>4. CASE report = Null
    BY <1>i, <2>1, <2>2, <2>3, <2>4 DEF OrderInv, Known
  <2>5. CASE job = "tap"
    <3>1. report.id = popped + 1 /\ kind[popped + 1] \notin MacroKinds
      BY <1>t, <2>1, <2>5 DEF JobInv, Report
    <3>2. last.id <= popped
      BY <1>t, <1>i, <3>1 DEF OrderInv, Known
    <3> QED
      BY <1>i, <2>1, <2>2, <2>3, <2>5, <3>1, <3>2 DEF OrderInv, Known
  <2>6. CASE macroActive /\ report.id = macroOf
    <3>1. /\ macroOf \in Nat /\ macroOf <= popped + 1 /\ kind[macroOf] \in MacroKinds
          /\ last.id <= macroOf
      BY <1>t, <2>6 DEF MacroInv, Ids
    <3>2. macroOf <= popped' \/ macroOf = popped' + 1
      <4>1. popped \in Nat /\ popped' \in Nat /\ macroOf \in Nat
        BY <1>i, <2>2, <3>1
      <4>2. popped <= popped' /\ macroOf <= popped + 1
        BY <2>2, <3>1
      <4>3. \A m, p, q \in Nat : p <= q /\ m <= p + 1 => m <= q \/ m = q + 1
        OBVIOUS
      <4> QED
        BY <4>1, <4>2, <4>3
    <3>3. kind'[macroOf] \in MacroKinds /\ pkt'.id = macroOf
      BY <2>1, <2>2, <2>6, <3>1
    <3>4. Known(pkt)'
      BY <3>2, <3>3 DEF Known
    <3> QED
      BY <2>1, <2>2, <2>3, <3>1, <3>3, <3>4 DEF OrderInv
  <2> QED
    BY <2>2, <2>4, <2>5, <2>6
<1>2. CASE Dropped
  <2>1. pc # "loop" /\ Accepted /\ last' = last /\ pkt' = pkt /\ Waiting' = Waiting
    BY <1>2 DEF Dropped, hostVars, usbVars, Waiting
  <2>2. kind' = kind /\ popped <= popped' /\ popped' <= popped + 1 /\ popped' \in Nat
    BY <1>t, <2>1, AcceptedFacts
  <2> QED
    BY <1>t, <1>i, <2>1, <2>2 DEF OrderInv, Known
<1>3. CASE RunDrop
  <2>1. /\ last' = last /\ pkt' = pkt /\ Waiting' = Waiting /\ kind' = kind
        /\ popped' = popped + 1
    BY <1>3 DEF RunDrop, Head, hostVars, usbVars, Waiting
  <2> QED
    BY <1>t, <1>i, <2>1 DEF OrderInv, Known
<1>4. CASE DataIn
  <2>1. UNCHANGED <<kind, popped, pkt>> /\ last' \in {last, pkt} /\ ~Waiting'
    BY <1>t, <1>4, DataInFacts DEF convVars, queueVars
  <2> QED
    BY <1>t, <2>1 DEF OrderInv, Known
<1>5. CASE RunNull \/ RunMacro \/ RunTap \/ RunMacroEvent \/ SendIdle \/ Push \/ Passes \/ Arm
           \/ SetRepeat \/ Bus \/ UNCHANGED vars
  <2>1. UNCHANGED <<kind, popped, pkt, last>>
    BY <1>5, BusKeepsConverter
       DEF RunNull, RunMacro, RunTap, RunMacroEvent, SendIdle, Push, Passes, Arm, SetRepeat, vars,
           convVars, queueVars, hostVars
  <2>2. Waiting' => Waiting
    <3>1. CASE Bus
      BY <1>t, <3>1 DEF Bus, Reset, Suspend, Resume, Recover, Address, ConfigureUp, ConfigureDown,
            LL_Reset, LL_Suspend, LL_Resume, BusRecovered, SetAddress, SetConfigUp, SetConfigDown,
            SetConfigRefused, Composite_Init, Composite_DeInit, Waiting, EPS
    <3> QED
      BY <1>5, <3>1
         DEF RunNull, RunMacro, RunTap, RunMacroEvent, SendIdle, Push, Passes, Arm, SetRepeat,
             vars, usbVars, Waiting
  <2> QED
    BY <1>t, <2>1, <2>2 DEF OrderInv, Known
<1> QED
  BY <1>1, <1>2, <1>3, <1>4, <1>5, NextSplits DEF Decides
-----------------------------------------------------------------------------
(* The bus events, by what they mean to the converter.                     *)

GoesDown == ~hcomp' /\ ~Waiting' /\ host' = Null
ComesUp ==
  /\ ~hcomp /\ hcomp' /\ ~Asleep' /\ ~Waiting' /\ ~Busy' /\ pc = "loop"
  /\ host' = host
FallsAsleep ==
  /\ ~Asleep /\ ~OwesRelease /\ (pc = "start" => Busy)
  /\ UNCHANGED <<hcomp, Waiting, Busy, host, disowned>>
WakesUp ==
  /\ hcomp' = hcomp /\ ~Asleep' /\ Waiting' = Waiting /\ (hcomp => ~Busy')
  /\ host' = host /\ disowned' = (disowned \/ Waiting \/ pc = "start")
StaysAsItIs ==
  /\ hcomp' = hcomp /\ (Asleep' => Asleep)
  /\ UNCHANGED <<Waiting, Busy, host, disowned>>

LEMMA BusEffects ==
  ASSUME TypeOK, CoreInv, Bus
  PROVE  GoesDown \/ ComesUp \/ FallsAsleep \/ WakesUp \/ StaysAsItIs
<1> USE DEF TypeOK, UsbTypeOK, CoreInv, SleepInv, HandleIffConfigured, Waiting, Busy, EPS, EpStats
<1>1. CASE Reset \/ ConfigureDown
  <2>1. GoesDown
    BY <1>1 DEF Reset, ConfigureDown, LL_Reset, SetConfigDown, SetConfigRefused, Composite_DeInit,
                HostForgets, GoesDown
  <2> QED
    BY <2>1
<1>2. CASE Suspend
  <2>1. FallsAsleep
    BY <1>2 DEF Suspend, LL_Suspend, hostVars, FallsAsleep, Asleep
  <2> QED
    BY <2>1
<1>3. CASE Resume
  <2>1. WakesUp
    BY <1>3 DEF Resume, LL_Resume, AllIdle, hostVars, WakesUp, Asleep
  <2> QED
    BY <2>1
<1>4. CASE Recover
  <2>1. StaysAsItIs
    BY <1>4 DEF Recover, BusRecovered, hostVars, StaysAsItIs, Asleep
  <2> QED
    BY <2>1
<1>5. CASE Address
  <2>1. StaysAsItIs
    BY <1>5 DEF Address, SetAddress, HostTraffic, hostVars, StaysAsItIs, Asleep
  <2> QED
    BY <2>1
<1>6. CASE ConfigureUp
  <2>1. ComesUp
    BY <1>6 DEF ConfigureUp, SetConfigUp, Composite_Init, AllIdle, hostVars, ComesUp, Asleep
  <2> QED
    BY <2>1
<1> QED
  BY <1>1, <1>2, <1>3, <1>4, <1>5, <1>6 DEF Bus

LEMMA ConverterKept == Bus => UNCHANGED <<pc, job, report, pkt, needNull, macroActive, macroOf>>
  BY BusKeepsConverter DEF convVars, macroVars

(* The facts of the device that the main loop's own steps leave alone.     *)
LEMMA DeviceKept ==
  UNCHANGED <<usbVars, pkt, hostVars, disowned>> =>
    UNCHANGED <<hcomp, devState, Asleep, Waiting, Busy, pkt, host, disowned>>
  BY DEF usbVars, hostVars, Asleep, Waiting, Busy
-----------------------------------------------------------------------------
(* Whose packet the flag stands for.                                       *)

LEMMA FlagStepInv == IInv /\ [Next]_vars => FlagInv'
<1> SUFFICES ASSUME IInv, [Next]_vars PROVE FlagInv'
  OBVIOUS
<1>t. TypeOK /\ CoreInv /\ FlagInv
  BY DEF IInv
<1>1. CASE Decides \/ Dropped \/ Passes \/ SetRepeat \/ UNCHANGED vars
  <2>1. UNCHANGED <<hcomp, Waiting, Busy, disowned>>
    BY <1>1, DecidesKeepsDevice, DeviceKept
       DEF Dropped, Passes, SetRepeat, vars, hostVars, usbVars, Waiting, Busy
  <2>2. /\ pc' = "guard" /\ hcomp => ~Busy
        /\ pc' = "arm" => pc = "arm" \/ (hcomp => ~Busy)
        /\ pc' = "start" => pc = "start"
    BY <1>1, <1>t
       DEF Decides, RunNull, RunMacro, RunDrop, RunTap, RunMacroEvent, SendIdle, Push, Send,
           HasEvent, Dropped, Passes, Accepted, SetRepeat, vars, convVars, IsTxIdle, TxAccepts, Busy,
           FlagInv
  <2> QED
    BY <1>t, <2>1, <2>2 DEF FlagInv
<1>2. CASE Arm
  BY <1>t, <1>2, ArmFacts DEF FlagInv, coreVars
<1>3. CASE Start
  <2>1. pc' = "loop"
    BY <1>3 DEF Start, Accepted
  <2> QED
    BY <1>t, <1>3, <2>1, StartFacts DEF FlagInv, coreVars
<1>4. CASE DataIn
  <2>1. pc' = pc
    BY <1>4 DEF DataIn, convVars
  <2> QED
    BY <1>t, <1>4, <2>1, DataInFacts DEF FlagInv, coreVars
<1>5. CASE Bus
  <2>1. pc' = pc
    BY <1>5, ConverterKept
  <2>2. CASE WakesUp
    BY <1>t, <2>1, <2>2 DEF FlagInv, WakesUp
  <2> QED
    BY <1>5, <1>t, <2>1, <2>2, BusEffects DEF FlagInv, GoesDown, ComesUp, FallsAsleep, StaysAsItIs
<1> QED
  BY <1>1, <1>2, <1>3, <1>4, <1>5, NextSplits
-----------------------------------------------------------------------------
(* Who owes the host a release.                                            *)

LEMMA ReleaseAtStart == IInv /\ Start => ReleaseInv'
<1> SUFFICES ASSUME IInv, Start PROVE ReleaseInv'
  OBVIOUS
<1>t. TypeOK /\ MacroInv /\ JobInv /\ FlagInv /\ ReleaseInv
  BY DEF IInv
<1>1. /\ pc = "start" /\ Accepted /\ Waiting' /\ pkt' = report
      /\ UNCHANGED <<hcomp, host, disowned>>
  BY <1>t, StartFacts DEF coreVars, hostVars
<1>2. /\ macroActive' => macroOf' = macroOf
      /\ report # Null => \/ needNull' /\ job = "tap"
                          \/ macroActive' /\ report.id = macroOf
  BY <1>t, <1>1, AcceptedFacts
<1>3. hcomp /\ report # Null => ReleaseDue(pkt)'
  BY <1>1, <1>2 DEF ReleaseDue
<1>4. ASSUME host # Null, ~disowned
      PROVE  report = Null \/ (macroActive' /\ macroOf' = host.id /\ report.id = host.id)
  <2>1. ReleaseDue(host)
    BY <1>t, <1>1, <1>4 DEF FlagInv, ReleaseInv
  <2>2. CASE job = "null"
    BY <1>t, <1>1, <2>2 DEF JobInv
  <2>3. CASE job # "null"
    <3>1. macroActive /\ macroOf = host.id /\ job # "tap"
      BY <1>t, <1>1, <2>1, <2>3 DEF JobInv, ReleaseDue
    <3> QED
      BY <1>2, <3>1
  <2> QED
    BY <2>2, <2>3
<1> QED
  BY <1>t, <1>1, <1>3, <1>4 DEF ReleaseInv, ReleaseDue

LEMMA ReleaseStepInv == IInv /\ [Next]_vars => ReleaseInv'
<1> SUFFICES ASSUME IInv, [Next]_vars PROVE ReleaseInv'
  OBVIOUS
<1>t. TypeOK /\ CoreInv /\ FlagInv /\ ReleaseInv /\ SleepingInv
  BY DEF IInv
<1>1. CASE RunMacroEvent
  <2>1. ~needNull /\ ~macroActive
    BY <1>1 DEF RunMacroEvent, HasEvent
  <2>2. UNCHANGED <<hcomp, Waiting, pkt, host, disowned>>
    BY <1>1, DecidesKeepsDevice, DeviceKept DEF Decides, hostVars
  <2> QED
    BY <1>t, <2>1, <2>2 DEF ReleaseInv, ReleaseDue
<1>2. CASE Dropped
  (* A report is dropped while the device is not configured, when there is *)
  (* nothing left to release, or while it sleeps.                          *)
  <2>1. UNCHANGED <<hcomp, Waiting, pkt, host, disowned>>
    BY <1>2, DeviceKept DEF Dropped
  <2>2. hcomp => Asleep /\ ~Busy
    BY <1>t, <1>2 DEF Dropped, TxAccepts, FlagInv, Asleep, Busy
  <2>3. hcomp => ~(Waiting /\ pkt # Null) /\ ~(host # Null /\ ~disowned)
    BY <1>t, <2>2 DEF SleepingInv
  <2> QED
    BY <1>t, <2>1, <2>3 DEF ReleaseInv
<1>3. CASE Start
  BY <1>3, ReleaseAtStart
<1>4. CASE DataIn
  <2>1. /\ hcomp /\ Waiting /\ ~Waiting' /\ host' = pkt /\ disowned' = (disowned /\ pc = "start")
        /\ UNCHANGED <<hcomp, needNull, macroActive, macroOf>>
    BY <1>t, <1>4, DataInFacts DEF coreVars, convVars, macroVars
  <2> QED
    BY <1>t, <2>1 DEF ReleaseInv, ReleaseDue
<1>5. CASE Bus
  <2>1. UNCHANGED <<pkt, needNull, macroActive, macroOf>>
    BY <1>5, ConverterKept
  <2>2. CASE GoesDown
    BY <2>2 DEF GoesDown, ReleaseInv
  <2>3. CASE ComesUp
    BY <1>t, <2>3 DEF ComesUp, ReleaseInv
  <2>4. CASE WakesUp
    <3>1. /\ hcomp' = hcomp /\ Waiting' = Waiting /\ host' = host
          /\ ~disowned' => ~disowned
      BY <2>4 DEF WakesUp
    <3>2. disowned => disowned'
      BY <2>4 DEF WakesUp
    <3> QED
      BY <1>t, <2>1, <3>1, <3>2 DEF ReleaseInv, ReleaseDue
  <2>5. CASE FallsAsleep \/ StaysAsItIs
    BY <1>t, <2>1, <2>5 DEF FallsAsleep, StaysAsItIs, ReleaseInv, ReleaseDue
  <2> QED
    BY <1>5, <1>t, <2>2, <2>3, <2>4, <2>5, BusEffects
<1>6. CASE RunNull \/ RunMacro \/ RunDrop \/ RunTap \/ SendIdle \/ Push \/ Passes \/ Arm \/ SetRepeat
           \/ UNCHANGED vars
  <2>1. UNCHANGED <<hcomp, Waiting, pkt, host, disowned, needNull, macroActive, macroOf>>
    <3>1. CASE Arm
      BY <1>t, <3>1, ArmFacts DEF coreVars, hostVars, macroVars
    <3> QED
      BY <1>6, <3>1
         DEF RunNull, RunMacro, RunDrop, RunTap, SendIdle, Push, Passes, SetRepeat, vars,
             usbVars, convVars, hostVars, macroVars, Waiting
  <2> QED
    BY <1>t, <2>1 DEF ReleaseInv, ReleaseDue
<1> QED
  BY <1>1, <1>2, <1>3, <1>4, <1>5, <1>6, NextSplits DEF Decides

(* No release can be dropped on a sleeping device: the main loop has sent  *)
(* what it owed before the bus went quiet, or it waits for a packet.       *)
LEMMA SleepStepInv == IInv /\ [Next]_vars => SleepingInv'
<1> SUFFICES ASSUME IInv, [Next]_vars PROVE SleepingInv'
  OBVIOUS
<1>t. TypeOK /\ CoreInv /\ FlagInv /\ ReleaseInv /\ SleepingInv
  BY DEF IInv
<1>1. CASE Decides \/ Dropped \/ Passes \/ SetRepeat \/ UNCHANGED vars
  <2>1. UNCHANGED <<Asleep, Waiting, Busy, pkt, host, disowned>>
    BY <1>1, DecidesKeepsDevice
       DEF Dropped, Passes, SetRepeat, vars, hostVars, usbVars, Asleep, Waiting, Busy
  <2>2. pc' = "start" => pc = "start"
    BY <1>1
       DEF Decides, RunNull, RunMacro, RunDrop, RunTap, RunMacroEvent, SendIdle, Push, Send,
           Dropped, Passes, Accepted, SetRepeat, vars, convVars
  <2> QED
    BY <1>t, <2>1, <2>2 DEF SleepingInv
<1>2. CASE Arm
  BY <1>t, <1>2, ArmFacts DEF SleepingInv
<1>3. CASE Start
  <2>1. pc' = "loop" /\ Busy' = Busy /\ Asleep' = Asleep /\ (Asleep => Busy)
    BY <1>t, <1>3, StartFacts DEF Accepted, SleepingInv, Asleep, coreVars
  <2> QED
    BY <2>1 DEF SleepingInv
<1>4. CASE DataIn
  BY <1>t, <1>4, DataInFacts DEF SleepingInv, Asleep, coreVars
<1>5. CASE Bus
  <2>1. pc' = pc /\ pkt' = pkt
    BY <1>5, ConverterKept
  <2>2. CASE FallsAsleep
    <3>1. hcomp /\ (needNull \/ macroActive) => Busy
      BY <2>2 DEF FallsAsleep, OwesRelease, IsTxIdle, Busy
    <3>2. hcomp => /\ Waiting /\ pkt # Null => Busy
                   /\ host # Null /\ ~disowned => Busy
      BY <1>t, <3>1 DEF ReleaseInv, ReleaseDue, FlagInv
    <3> QED
      BY <2>1, <2>2, <3>2 DEF FallsAsleep, SleepingInv, Asleep
  <2> QED
    BY <1>5, <1>t, <2>1, <2>2, BusEffects
       DEF SleepingInv, Asleep, GoesDown, ComesUp, WakesUp, StaysAsItIs
<1> QED
  BY <1>1, <1>2, <1>3, <1>4, <1>5, NextSplits
-----------------------------------------------------------------------------
LEMMA Invariance == Spec => []IInv
<1>1. Init => IInv
  BY TypeInit, OthersInit, CoreInitially DEF IInv, Init
<1>2. IInv /\ [Next]_vars => IInv'
  BY TypeStep, CoreInvStep, MacroStepInv, JobStepInv, OrderStepInv, FlagStepInv, ReleaseStepInv,
     SleepStepInv DEF IInv
<1> QED
  BY <1>1, <1>2, PTL DEF Spec

(* The converter keeps its types: it never pops more than was pushed, and  *)
(* its macro step never leaves the sequence.                               *)
THEOREM TypeCorrect == Spec => []TypeOK
  BY Invariance, PTL DEF IInv

(* A served packet is one the host has not read.                           *)
LEMMA ReadsFresh ==
  ASSUME IInv, DataIn, pkt # Null
  PROVE  /\ Waiting /\ hcomp /\ pkt \in Reports /\ last \in Reports
         /\ last.id <= pkt.id
         /\ kind[pkt.id] \notin MacroKinds => last.id < pkt.id
  BY DataInFacts DEF IInv, OrderInv, TypeOK

(* A key event that is no macro is typed at most once, and no event, not   *)
(* even a macro that a reset makes run twice, after one pushed behind it   *)
(* (hid_keyboard_convert.c pops an event only when its report was          *)
(* accepted).                                                              *)
THEOREM TapsTypedInOrder == Spec => TapsOnceInOrder
<1> DEFINE Ordered == /\ pkt.id >= last.id
                      /\ kind[pkt.id] \notin MacroKinds => Later(pkt, last)
<1>1. ASSUME IInv, DataIn, pkt # Null PROVE Ordered
  <2>1. /\ pkt.id \in Nat /\ last.id \in Nat /\ last.id <= pkt.id
        /\ kind[pkt.id] \notin MacroKinds => last.id < pkt.id
    BY <1>1, ReadsFresh, ReportFacts, HidAssumption
  <2> QED
    BY <2>1 DEF Later
<1>2. IInv /\ [Next]_vars => [DataIn /\ pkt # Null => Ordered]_vars
  BY <1>1
<1> QED
  BY <1>2, Invariance, PTL DEF Spec, TapsOnceInOrder

(* Between the reports of two events the host sees everything released,    *)
(* unless a resume has cleared hidTxBusy over an unread packet.            *)
THEOREM KeysReleasedBetween == Spec => ReleasedBetween
<1>1. ASSUME IInv, DataIn, host # Null, pkt # Null, pkt.id # host.id
      PROVE  disowned
  BY <1>1, ReadsFresh DEF IInv, ReleaseInv
<1>2. IInv /\ [Next]_vars => [DataIn /\ host # Null /\ pkt # Null /\ pkt.id # host.id => disowned]_vars
  BY <1>1
<1> QED
  BY <1>2, Invariance, PTL DEF Spec, ReleasedBetween
-----------------------------------------------------------------------------
(* The converter's use of EP1 is the transmit path of UsbTransmit: its     *)
(* steps before Guard are outside Transmit, it halts no endpoint, and a    *)
(* packet it has disowned is what UsbTransmit calls stale.  The theorems   *)
(* of UsbTransmit_proofs are then theorems about the converter.            *)
pcBar == IF pc \in {"arm", "start"} THEN pc ELSE "loop"
staleBar == IF disowned THEN {"HID"} ELSE {}

Transmit == INSTANCE UsbTransmit_proofs WITH
  pc <- pcBar, txEp <- "HID", stale <- staleBar, halted <- {}

(* No other endpoint has a packet: the other channels are left out here.   *)
OthersSilent == \A e \in EPS \ {"HID"} : epStat[e] # "VALID"

LEMMA OthersSilentInit == Init => OthersSilent
  BY DEF Init, UsbInit, OthersSilent, EPS

LEMMA OthersSilentStep == IInv /\ OthersSilent /\ [Next]_vars => OthersSilent'
<1> SUFFICES ASSUME TypeOK, OthersSilent, [Next]_vars PROVE OthersSilent'
  BY DEF IInv
<1> USE DEF OthersSilent, TypeOK, UsbTypeOK, EPS
<1>1. CASE Start
  BY <1>1 DEF Start
<1>2. CASE DataIn
  BY <1>2 DEF DataIn
<1>3. CASE Bus
  BY <1>3 DEF Bus, Reset, Suspend, Resume, Recover, Address, ConfigureUp, ConfigureDown,
              LL_Reset, LL_Suspend, LL_Resume, BusRecovered, SetAddress, SetConfigUp, SetConfigDown,
              SetConfigRefused, Composite_Init, Composite_DeInit
<1>4. CASE Decides \/ Dropped \/ Passes \/ Arm \/ SetRepeat \/ UNCHANGED vars
  <2>1. epStat' = epStat
    BY <1>4, DecidesKeepsDevice DEF Dropped, Passes, Arm, SetRepeat, vars, usbVars
  <2> QED
    BY <2>1
<1> QED
  BY <1>1, <1>2, <1>3, <1>4, NextSplits

LEMMA InitIsTransmit == Init => Transmit!Init
  BY DEF Init, UsbInit, Transmit!Init, Transmit!UsbInit, EPS, Transmit!EPS, pcBar, staleBar

(* A step that changes neither the device nor where Transmit is.           *)
LEMMA OutsideTransmit ==
  UNCHANGED <<usbVars, pcBar, disowned>> => UNCHANGED Transmit!vars
  BY DEF usbVars, pcBar, staleBar, Transmit!vars, Transmit!usbVars

LEMMA StepIsTransmit == IInv /\ OthersSilent /\ [Next]_vars => [Transmit!Next]_(Transmit!vars)
<1> SUFFICES ASSUME IInv, OthersSilent, [Next]_vars PROVE [Transmit!Next]_(Transmit!vars)
  OBVIOUS
<1>t. TypeOK /\ CoreInv
  BY DEF IInv
<1> USE DEF EPS, Transmit!EPS, pcBar, staleBar
<1>1. CASE Decides \/ Dropped \/ SetRepeat \/ UNCHANGED vars
  <2>1. UNCHANGED <<usbVars, pcBar, disowned>>
    BY <1>1
       DEF Decides, RunNull, RunMacro, RunDrop, RunTap, RunMacroEvent, SendIdle, Push, Send, HasEvent,
           Dropped, Accepted, SetRepeat, vars, convVars, pcBar
  <2> QED
    BY <2>1, OutsideTransmit
<1>2. CASE Passes
  <2>1. Transmit!TransmitEnter("HID")
    BY <1>2 DEF Passes, TxAccepts, usbVars, Transmit!TransmitEnter, Transmit!TxAccepts, Transmit!usbVars
  <2> QED
    BY <2>1 DEF Transmit!Next, Transmit!Main
<1>3. CASE Arm
  <2>1. Transmit!TransmitArm
    BY <1>3 DEF Arm, coreVars, Transmit!TransmitArm, Transmit!coreVars
  <2> QED
    BY <2>1 DEF Transmit!Next, Transmit!Main
<1>4. CASE Start
  <2>1. Transmit!TransmitStart
    BY <1>4 DEF Start, Accepted, coreVars, Transmit!TransmitStart, Transmit!coreVars
  <2> QED
    BY <2>1 DEF Transmit!Next, Transmit!Main
<1>5. CASE DataIn
  <2>1. Transmit!DataIn("HID")
    BY <1>t, <1>5
       DEF DataIn, InTokenServed, DataInReachesClass, HostTraffic, coreVars, convVars, TypeOK, UsbTypeOK,
           Transmit!DataIn, Transmit!PacketRead, Transmit!InTokenServed, Transmit!HostTraffic,
           Transmit!DataInReachesClass, Transmit!coreVars, Transmit!mainVars
  <2> QED
    BY <2>1 DEF Transmit!Next
<1>6. CASE Bus
  <2>0. pc' = pc
    BY <1>6, ConverterKept
  <2> USE <1>t, <2>0 DEF Transmit!mainVars
  <2>1. CASE Reset
    <3>1. Transmit!Reset
      BY <2>1 DEF Reset, LL_Reset, Composite_DeInit, Transmit!Reset, Transmit!LL_Reset,
                  Transmit!Composite_DeInit
    <3> QED
      BY <3>1 DEF Transmit!Next, Transmit!Bus
  <2>2. CASE Suspend
    <3>1. Transmit!Suspend
      BY <2>2 DEF Suspend, LL_Suspend, Transmit!Suspend, Transmit!LL_Suspend
    <3> QED
      BY <3>1 DEF Transmit!Next, Transmit!Bus
  <2>3. CASE Resume
    <3>1. Transmit!Resume
      <4>1. Transmit!LL_Resume
        BY <2>3 DEF Resume, LL_Resume, AllIdle, Transmit!LL_Resume, Transmit!AllIdle
      <4>2. staleBar' = staleBar \cup {e \in EPS : epStat[e] = "VALID" \/ (pcBar = "start" /\ "HID" = e)}
        BY <2>3 DEF Resume, OthersSilent, staleBar, pcBar
      <4>3. pcBar' = pcBar
        BY DEF pcBar
      <4> QED
        BY <4>1, <4>2, <4>3 DEF Transmit!Resume, staleBar, pcBar
    <3> QED
      BY <3>1 DEF Transmit!Next, Transmit!Bus
  <2>4. CASE Recover
    <3>1. Transmit!Recover
      BY <2>4 DEF Recover, BusRecovered, Transmit!Recover, Transmit!BusRecovered
    <3> QED
      BY <3>1 DEF Transmit!Next, Transmit!Bus
  <2>5. CASE Address
    <3>1. Transmit!Address
      BY <2>5 DEF Address, SetAddress, HostTraffic, Transmit!Address, Transmit!SetAddress,
                  Transmit!HostTraffic
    <3> QED
      BY <3>1 DEF Transmit!Next, Transmit!Bus
  <2>6. CASE ConfigureUp
    <3>1. Transmit!Configure
      BY <2>6 DEF ConfigureUp, SetConfigUp, HostTraffic, Composite_Init, AllIdle,
                  Transmit!Configure, Transmit!SetConfigUp, Transmit!HostTraffic,
                  Transmit!Composite_Init, Transmit!AllIdle
    <3> QED
      BY <3>1 DEF Transmit!Next, Transmit!Bus
  <2>7. CASE ConfigureDown
    <3>1. Transmit!Configure
      BY <2>7 DEF ConfigureDown, SetConfigDown, SetConfigRefused, HostTraffic, Composite_DeInit,
                  Transmit!Configure, Transmit!SetConfigDown, Transmit!SetConfigRefused,
                  Transmit!HostTraffic, Transmit!Composite_DeInit
    <3> QED
      BY <3>1 DEF Transmit!Next, Transmit!Bus
  <2> QED
    BY <1>6, <2>1, <2>2, <2>3, <2>4, <2>5, <2>6, <2>7 DEF Bus
<1> QED
  BY <1>1, <1>2, <1>3, <1>4, <1>5, <1>6, NextSplits

(* HidKeyboardConvert_Run, UsbHidKeyboard_SendReport and the host use EP1  *)
(* and its flag in no other way than UsbTransmit allows.                   *)
THEOREM ConverterUsesTransmit == Spec => Transmit!Spec
<1>1. Spec => []OthersSilent
  BY OthersSilentInit, OthersSilentStep, Invariance, PTL DEF Spec
<1> QED
  BY <1>1, InitIsTransmit, StepIsTransmit, Invariance, PTL DEF Spec, Transmit!Spec

LEMMA TransmitAssumption == HaltEps \subseteq Transmit!EPS
  BY HaltAssumption DEF EPS, Transmit!EPS

(* While hidTxBusy is raised a packet waits on EP1, so its completion will *)
(* lower the flag: the converter never waits for nothing (IsIdle).         *)
THEOREM FlagHasPacket == Spec => [](hcomp /\ txBusy["HID"] /\ pc # "start" => epStat["HID"] = "VALID")
<1>1. Transmit!Spec => []Transmit!BusyHasPacket
  BY TransmitAssumption, Transmit!NoLostCompletion
<1>2. Transmit!BusyHasPacket => (hcomp /\ txBusy["HID"] /\ pc # "start" => epStat["HID"] = "VALID")
  BY DEF Transmit!BusyHasPacket, Transmit!Starting, Transmit!EPS, pcBar
<1> QED
  BY <1>1, <1>2, ConverterUsesTransmit, PTL

(* The converter writes over a report the host has not read only when a    *)
(* resume has cleared hidTxBusy over it.                                   *)
OverwritesDisowned == [][Start /\ hcomp /\ epStat["HID"] = "VALID" => disowned]_vars
THEOREM OverwritesOnlyDisowned == Spec => OverwritesDisowned
<1>1. IInv /\ [Next]_vars => [Start /\ hcomp /\ epStat["HID"] = "VALID" => disowned]_vars
  BY DEF IInv, FlagInv, Start, Waiting
<1> QED
  BY <1>1, Invariance, PTL DEF Spec, OverwritesDisowned

(* A key the host takes to be held has a release coming: the converter     *)
(* knows that it owes one, or one waits on EP1; only a resume that clears  *)
(* hidTxBusy over an unread packet can upset this.  It is the safety       *)
(* behind TapReleases.                                                     *)
HeldKeyIsOwed ==
  host # Null /\ ~disowned =>
    \/ needNull
    \/ macroActive /\ macroOf = host.id
    \/ epStat["HID"] = "VALID" /\ pkt = Null
THEOREM HeldKeysAreOwed == Spec => []HeldKeyIsOwed
<1>1. IInv => HeldKeyIsOwed
  BY DEF IInv, ReleaseInv, ReleaseDue, Waiting, HeldKeyIsOwed
<1> QED
  BY <1>1, Invariance, PTL
-----------------------------------------------------------------------------
(* No event is lost while nothing happens on the bus.                      *)

Types(id) == kind[id] \notin {"OFF", "REPEAT"}

(* The device is never asleep or torn down, so SendReport drops no report  *)
(* that it calls sent; and the report before it has been read.             *)
CalmInv ==
  /\ ~lowPower /\ ~disowned
  /\ pc # "loop" \/ Waiting => hcomp
  /\ pc # "loop" /\ job = "macro_event" => report.id = popped + 1
  /\ \A id \in 1..popped : Types(id) => id \in typed \/ (Waiting /\ pkt.id = id)

LEMMA CalmInit == Init => CalmInv
  BY DEF Init, UsbInit, CalmInv, Waiting, EPS

(* An event leaves the queue with its first report.                        *)
LEMMA AcceptedCalm ==
  ASSUME IInv, CalmInv, Start
  PROVE  /\ typed' = typed /\ kind' = kind /\ popped \in Nat /\ pc' = "loop" /\ Waiting'
         /\ popped' = popped \/ (popped' = popped + 1 /\ pkt'.id = popped + 1)
<1> USE DEF IInv, TypeOK, UsbTypeOK, EPS
<1>1. /\ pc = "start" /\ pkt' = report /\ typed' = typed /\ kind' = kind /\ pc' = "loop"
      /\ popped' = IF job \in {"tap", "macro_event"} THEN popped + 1 ELSE popped
  BY DEF Start, Accepted, Head, hostVars
<1>2. popped \in Nat /\ Waiting'
  BY HidAssumption DEF Start, Waiting
<1>3. job \in {"tap", "macro_event"} => report.id = popped + 1
  <2>1. CASE job = "tap"
    <3>1. report = Report(popped + 1, 1) /\ popped < pushed
      BY <1>1, <2>1 DEF JobInv
    <3>2. popped + 1 \in Ids
      BY <3>1, HidAssumption DEF Ids
    <3> QED
      BY <3>1, <3>2, ReportFacts
  <2>2. CASE job = "macro_event"
    BY <1>1, <2>2 DEF CalmInv
  <2> QED
    BY <2>1, <2>2
<1> QED
  BY <1>1, <1>2, <1>3

LEMMA CalmStep == BusEvents = {} /\ IInv /\ CalmInv /\ [Next]_vars => CalmInv'
<1> SUFFICES ASSUME BusEvents = {}, IInv, CalmInv, [Next]_vars PROVE CalmInv'
  OBVIOUS
<1>1. TypeOK /\ CoreInv /\ popped \in Nat
  BY DEF IInv, TypeOK
<1>2. CASE Decides
  <2>1. UNCHANGED <<usbVars, pkt, typed, disowned, kind>>
    BY <1>2, DecidesKeepsDevice
       DEF Decides, RunNull, RunMacro, RunDrop, RunTap, RunMacroEvent, SendIdle, Push, queueVars
  <2>2. pc' # "loop" => hcomp
    BY <1>2 DEF Decides, RunNull, RunMacro, RunDrop, RunTap, RunMacroEvent, SendIdle, Push, HasEvent,
                Send, IsTxIdle, CalmInv
  <2>3. popped' = popped \/ (popped' = popped + 1 /\ ~Types(popped + 1))
    BY <1>2 DEF Decides, RunNull, RunMacro, RunDrop, RunTap, RunMacroEvent, SendIdle, Push, queueVars,
                Ignored, Head, Types
  <2>4. pc' # "loop" /\ job' = "macro_event" => report'.id = popped' + 1
    <3>1. CASE RunMacroEvent
      <4>1. Head \in Ids /\ 0 < Steps(Head) /\ 0 + 1 # Steps(Head)
        BY <3>1, <1>1, HidAssumption DEF RunMacroEvent, HasEvent, Head, Steps, Ids, TypeOK
      <4>2. MacroReport(Head, 0).id = Head
        BY <4>1, MacroReportFacts
      <4> QED
        BY <3>1, <4>2 DEF RunMacroEvent, Send, Head, queueVars
    <3>2. CASE RunNull \/ RunMacro \/ RunTap
      BY <3>2 DEF RunNull, RunMacro, RunTap, Send
    <3>3. CASE RunDrop \/ SendIdle \/ Push
      BY <3>3 DEF RunDrop, HasEvent, SendIdle, Push, queueVars, CalmInv
    <3> QED
      BY <1>2, <3>1, <3>2, <3>3 DEF Decides
  <2> QED
    BY <1>1, <2>1, <2>2, <2>3, <2>4 DEF CalmInv, usbVars, Waiting, Types
<1>3. CASE Dropped
  <2>1. TxAccepts("HID")
    BY <1>1, <1>3 DEF Dropped, TxAccepts, CalmInv, CoreInv, SleepInv, HandleIffConfigured, IInv, FlagInv, Busy
  <2> QED
    BY <1>3, <2>1 DEF Dropped
<1>4. CASE Passes \/ Arm
  BY <1>4 DEF Passes, Arm, CalmInv, Waiting, Types, coreVars, usbVars, queueVars, hostVars
<1>5. CASE Start
  <2>1. ~Waiting /\ hcomp
    BY <1>5 DEF Start, CalmInv, IInv, FlagInv
  <2>2. UNCHANGED <<lowPower, hcomp, disowned>>
    BY <1>5 DEF Start, coreVars
  <2> QED
    BY <1>5, <2>1, <2>2, AcceptedCalm DEF CalmInv, Types
<1>6. CASE DataIn
  <2>1. /\ UNCHANGED <<lowPower, hcomp, pc, job, report, popped, kind>> /\ (disowned' => disowned)
        /\ typed' = IF pkt = Null THEN typed ELSE typed \cup {pkt.id}
    BY <1>6 DEF DataIn, coreVars, convVars, queueVars
  <2>2. Null.id = 0 /\ hcomp
    BY <1>6, ReportFacts DEF DataIn, DataInReachesClass
  <2> QED
    BY <1>1, <2>1, <2>2 DEF CalmInv, Types
<1>7. CASE SetRepeat \/ UNCHANGED vars
  BY <1>7 DEF SetRepeat, vars, convVars, queueVars, usbVars, hostVars, CalmInv, Waiting, Types
<1>8. CASE Bus
  <2>1. Recover \/ Address \/ ConfigureUp
    BY <1>8 DEF Bus, Reset, Suspend, Resume, LL_Resume, ConfigureDown, CalmInv
  <2>2. UNCHANGED <<pc, job, report, popped, kind, pkt, typed, lowPower>> /\ (disowned' => disowned)
    BY <2>1 DEF Recover, BusRecovered, Address, SetAddress, ConfigureUp, SetConfigUp, convVars, queueVars, hostVars
  <2>3. CASE Recover \/ Address
    <3>1. UNCHANGED <<epStat, hcomp>>
      BY <2>3 DEF Recover, BusRecovered, Address, SetAddress
    <3> QED
      BY <2>2, <3>1 DEF CalmInv, Waiting, Types
  <2>4. CASE ConfigureUp
    <3>1. ~hcomp /\ hcomp'
      BY <1>1, <2>4 DEF ConfigureUp, SetConfigUp, Composite_Init, CoreInv, HandleIffConfigured
    <3> QED
      BY <2>2, <3>1 DEF CalmInv, Types
  <2> QED
    BY <2>1, <2>3, <2>4
<1> QED
  BY <1>2, <1>3, <1>4, <1>5, <1>6, <1>7, <1>8, NextSplits

(* On a bus without resets, suspends and reconfigurations the converter    *)
(* loses no event: one that has left the queue and types something has     *)
(* been read by the host, or waits on EP1.                                 *)
NothingLost ==
  \A id \in 1..popped :
    kind[id] \notin {"OFF", "REPEAT"} => id \in typed \/ (epStat["HID"] = "VALID" /\ pkt.id = id)
THEOREM CalmBusLosesNothing == BusEvents = {} => (Spec => []NothingLost)
<1> SUFFICES ASSUME BusEvents = {} PROVE Spec => []NothingLost
  OBVIOUS
<1>1. Init => CalmInv
  BY CalmInit
<1>2. IInv /\ CalmInv /\ [Next]_vars => CalmInv'
  BY CalmStep
<1>3. CalmInv => NothingLost
  BY DEF CalmInv, NothingLost, Types, Waiting
<1> QED
  BY <1>1, <1>2, <1>3, Invariance, PTL DEF Spec
=============================================================================
