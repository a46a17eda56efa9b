-------------------------- MODULE VendorDump_proofs --------------------------
(***************************************************************************)
(* The safety properties of VendorDump for every dump size, every number   *)
(* of preemptions (smaller than the dump) and every environment.           *)
(*                                                                         *)
(* None of them is inductive.  DumpInv ties the position of the main loop  *)
(* to sDumpOffset: from the test "sDumpOffset == 0" on, the offset is at   *)
(* most the number of completions that preempted the call, so a dump       *)
(* cannot end under it.  CallInv says what the locals are worth while the  *)
(* dump is active: until the store of "sDumpOffset += chunkLen" the loaded *)
(* offset is at most the real one.  StreamInv adds what a host that is     *)
(* still reading may rely on: until the first chunk is handed over nothing *)
(* is on EP4, afterwards the packet on EP4 is the one the host reads next. *)
(* TimelyInv is about aborts, DriverInv counts what a read waits for.      *)
(***************************************************************************)
EXTENDS VendorDump, UsbComposite_proofs

BeforeStart == {"total", "length", "address", "source", "submit", "arm", "start"}
AfterLength == Sending \ {"total", "length"}

DumpInv ==
  /\ dumpActive => dumpTotal = Chunks
  /\ dumpTotal = Chunks /\ ~dumpActive => dumpOffset >= Chunks
  /\ pc \in Sending \cup {"idle"} => dumpOffset <= preempts + (IF pc = "finish" THEN 1 ELSE 0)
  /\ pc = "store" => reg <= preempts
  /\ src # Chunks

CallInv ==
  dumpActive =>
    /\ pc \in {"length", "source"} => reg = Chunks
    /\ pc \in AfterLength => chunkLen = 1
    /\ pc = "store" => reg <= dumpOffset /\ (clean => reg = dumpOffset)
    /\ dumpOffset = 0 /\ ~Uncredited => sent = 0

(* While a dump is under way EP4's flag is up, or the class is down.       *)
BusyInv ==
  dumpActive /\ hcomp /\ (dumpOffset > 0 \/ pc \in {"start", "credit", "store", "finish"})
    => txBusy["VENDOR"]

HostInv == reading => hcomp /\ ~lowPower

StreamInv ==
  reading /\ clean =>
    /\ dumpTotal = Chunks
    /\ Len(rx) <= sent
    /\ epStat["VENDOR"] = "VALID" => sent = Len(rx) + 1 /\ pkt = Len(rx)
    /\ pc \in BeforeStart => sent = 0 /\ epStat["VENDOR"] # "VALID"
    /\ pc \in {"submit", "arm", "start"} => src = 0
    /\ pc = "start" => txBuf = 0

DumpSafe == SentCoversOffset /\ ReadsInsideRam /\ DumpInv /\ CallInv
StreamSafe == HostInv /\ StreamInv /\ CleanStreamInOrder /\ CleanDumpIsWhole

IInv == TypeOK /\ CoreInv /\ DumpSafe /\ BusyInv /\ StreamSafe

(* The steps of the main loop that only load, and the others.              *)
Loads ==
  \/ RunDone \/ RunActive \/ RunOffset \/ RunIdle \/ LoadTotal \/ ReadLength \/ LoadAddr
  \/ ReadSource \/ Submit \/ LoadOffset
Stores == RunClear \/ Arm \/ StartXfer \/ StoreOffset \/ Finish

LEMMA MainSteps == Main => Loads \/ Stores
  BY DEF Main, Loads, Stores

LEMMA LoadsOnlyLoad == Loads => OnlyLoads
  BY DEF Loads, RunDone, RunActive, RunOffset, RunIdle, LoadTotal, ReadLength, LoadAddr, ReadSource,
         Submit, LoadOffset

(* A step of the main loop does not touch what the host has read.          *)
LEMMA MainKeepsHost == Main => UNCHANGED <<hostVars, clean, excuses>>
  BY MainSteps, LoadsOnlyLoad DEF OnlyLoads, Stores, RunClear, Arm, StartXfer, StoreOffset, Finish

-----------------------------------------------------------------------------
(* The device core.                                                        *)

LEMMA BusIsCoreStep == Bus => CoreStep
  BY DEF Bus, CoreStep, Reset, Suspend, Resume, Recover, Address, ConfigureUp, ConfigureDown, Halt

LEMMA OthersKeepCore == Main \/ Host \/ UNCHANGED vars => UNCHANGED coreVars
<1>1. Main => UNCHANGED coreVars
  BY MainSteps, LoadsOnlyLoad
     DEF OnlyLoads, Stores, RunClear, Arm, StartXfer, StoreOffset, Finish, usbVars, coreVars
<1>2. Host => UNCHANGED coreVars
  BY DEF Host, DataIn, HostStart, StartAccepted, HostGiveUp, usbVars, coreVars
<1> QED
  BY <1>1, <1>2 DEF vars, usbVars, coreVars

LEMMA CoreInvStep == CoreInv /\ [Next]_vars => CoreInv'
  BY CorePreserved, CoreUnchanged, BusIsCoreStep, OthersKeepCore DEF Next
-----------------------------------------------------------------------------
(* The bus events touch neither the main loop's locals nor what the host   *)
(* has read, short of ending its read.                                     *)
LEMMA BusKeepsHost ==
  Bus => /\ UNCHANGED <<rx, clean, sent, txBuf, pkt, mainVars>>
         /\ UNCHANGED <<pc, chunkLen, src, reg, preempts>>
         /\ reading' => reading
<1>1. Bus => UNCHANGED mainVars
  BY DEF Bus, Reset, Suspend, Resume, Recover, Address, ConfigureUp, ConfigureDown, Halt
<1>2. Bus => UNCHANGED <<clean, sent, txBuf, pkt>>
  BY DEF Bus, Reset, Suspend, Resume, Recover, Address, ConfigureUp, ConfigureDown, Halt
<1>3. Bus => UNCHANGED hostVars \/ ReadFails
  BY DEF Bus, Reset, Suspend, Resume, Recover, Address, ConfigureUp, ConfigureDown, Halt
<1> QED
  BY <1>1, <1>2, <1>3 DEF mainVars, hostVars, ReadFails

-----------------------------------------------------------------------------
(* The initial state.                                                      *)

LEMMA TypeInit == Init => TypeOK
<1> SUFFICES ASSUME Init PROVE TypeOK
  OBVIOUS
<1>1. UsbTypeOK
  BY DEF Init, UsbInit, UsbTypeOK, DevStates, EpStats
<1>2. /\ preempts \in 0..MaxPreempt /\ chunkLen \in 0..1 /\ reg \in 0..Chunks
      /\ dumpOffset \in Nat /\ sent \in Nat
  BY SizeAssumption DEF Init
<1>3. txBuf \in Packets /\ pkt \in Packets /\ src \in Packets
  BY DEF Init, Packets
<1>4. dumpTotal \in {0, Chunks} /\ pc \in PCs /\ rx \in Seq(Packets)
  BY DEF Init, PCs, Tests
<1>5. dumpActive \in BOOLEAN /\ dumpDone \in BOOLEAN /\ reading \in BOOLEAN /\ clean \in BOOLEAN
  BY DEF Init
<1>6. excuses \subseteq {"late", "halt", "torn"}
  BY DEF Init
<1> QED
  BY <1>1, <1>2, <1>3, <1>4, <1>5, <1>6 DEF TypeOK

LEMMA SafeInit == Init => DumpSafe /\ BusyInv /\ StreamSafe
<1> SUFFICES ASSUME Init PROVE DumpSafe /\ BusyInv /\ StreamSafe
  OBVIOUS
<1>1. DumpSafe /\ BusyInv
  BY SizeAssumption
     DEF Init, Zlp, Junk, DumpSafe, SentCoversOffset, ReadsInsideRam, DumpInv, CallInv, BusyInv, Sending
<1>2. rx = [i \in 1..Len(rx) |-> i - 1]
  BY DEF Init
<1>3. ~reading /\ dumpTotal # Chunks
  BY SizeAssumption DEF Init
<1> QED
  BY <1>1, <1>2, <1>3
     DEF StreamSafe, HostInv, StreamInv, CleanStreamInOrder, CleanDumpIsWhole
-----------------------------------------------------------------------------
(* Type correctness.                                                       *)

(* What the length and the source of a chunk are while a dump is active.   *)
LEMMA ChunkOfActive ==
  ASSUME TypeOK, DumpSafe, dumpActive
  PROVE  /\ LengthOf(dumpTotal, dumpOffset) = 1
         /\ SourceOf(dumpTotal, dumpOffset) = dumpOffset
         /\ dumpOffset \in 0..(Chunks - 1)
  BY SizeAssumption
     DEF TypeOK, DumpSafe, ReadsInsideRam, DumpInv, LengthOf, SourceOf

LEMMA DumpFlags == IInv /\ [Next]_vars => dumpActive' \in BOOLEAN /\ dumpDone' \in BOOLEAN
<1> SUFFICES ASSUME IInv, [Next]_vars PROVE dumpActive' \in BOOLEAN /\ dumpDone' \in BOOLEAN
  OBVIOUS
<1> USE DEF IInv, TypeOK
<1>1. CASE Finish \/ RunClear
  BY <1>1 DEF Finish, RunClear
<1>2. CASE Loads \/ Arm \/ StartXfer \/ StoreOffset
  BY <1>2, LoadsOnlyLoad DEF OnlyLoads, Arm, StartXfer, StoreOffset, dumpVars
<1>3. CASE DataIn
  BY <1>3 DEF DataIn, SendNextChunkInIsr, Queue, dumpVars
<1>4. CASE HostStart
  BY <1>4 DEF HostStart, VendorDump_Start
<1>5. CASE Resume \/ ConfigureUp
  BY <1>5 DEF Resume, ConfigureUp, VendorDump_Abort
<1>6. CASE HostGiveUp \/ Reset \/ Suspend \/ Recover \/ Address \/ ConfigureDown \/ Halt \/ UNCHANGED vars
  BY <1>6 DEF HostGiveUp, Reset, Suspend, Recover, Address, ConfigureDown, Halt, vars, dumpVars
<1> QED
  BY <1>1, <1>2, <1>3, <1>4, <1>5, <1>6, MainSteps DEF Next, Stores, Host, Bus

LEMMA DumpTypes ==
  ASSUME IInv, [Next]_vars
  PROVE  /\ dumpTotal' \in {0, Chunks} /\ dumpOffset' \in Nat
         /\ preempts' \in 0..MaxPreempt /\ chunkLen' \in 0..1 /\ reg' \in 0..Chunks /\ pc' \in PCs
<1> USE SizeAssumption DEF IInv, TypeOK, PCs, Tests, Sending
<1>1. CASE Main
  <2>1. CASE RunDone \/ RunActive \/ RunOffset \/ RunIdle \/ Submit
    BY <2>1 DEF RunDone, RunActive, RunOffset, RunIdle, Submit, Test, Return, OnlyLoads, dumpVars
  <2>2. CASE LoadTotal \/ ReadLength \/ LoadAddr \/ ReadSource
    BY <2>2 DEF LoadTotal, ReadLength, LengthOf, LoadAddr, ReadSource, OnlyLoads, dumpVars
  <2>3. CASE LoadOffset \/ StoreOffset
    BY <2>3 DEF LoadOffset, StoreOffset, OnlyLoads, dumpVars, DumpSafe, DumpInv
  <2>4. CASE RunClear \/ Arm \/ StartXfer \/ Finish
    BY <2>4 DEF RunClear, Arm, StartXfer, Finish, Return, dumpVars
  <2> QED
    BY <1>1, <2>1, <2>2, <2>3, <2>4 DEF Main
<1>2. CASE DataIn
  <2>1. CASE DataInReachesClass /\ dumpActive
    BY <1>2, <2>1, ChunkOfActive DEF DataIn, SendNextChunkInIsr, Queue
  <2>2. CASE ~(DataInReachesClass /\ dumpActive)
    BY <1>2, <2>2 DEF DataIn, dumpVars
  <2> QED
    BY <2>1, <2>2
<1>3. CASE HostStart
  BY <1>3 DEF HostStart, StartAccepted, VendorDump_Start, mainVars
<1>4. CASE Resume \/ ConfigureUp
  <2>1. UNCHANGED <<rx, clean, sent, txBuf, pkt, pc, chunkLen, src, reg, preempts>>
    BY <1>4, BusKeepsHost DEF Bus
  <2>2. ~dumpActive' /\ dumpTotal' = 0 /\ dumpOffset' = 0
    BY <1>4 DEF Resume, ConfigureUp, VendorDump_Abort
  <2> QED
    BY <2>1, <2>2
<1>5. CASE HostGiveUp \/ Reset \/ Suspend \/ Recover \/ Address \/ ConfigureDown \/ Halt \/ UNCHANGED vars
  <2>1. UNCHANGED <<rx, clean, sent, txBuf, pkt, pc, chunkLen, src, reg, preempts>> /\ UNCHANGED dumpVars
    BY <1>5, BusKeepsHost
       DEF Bus, HostGiveUp, Reset, Suspend, Recover, Address, ConfigureDown, Halt, vars, mainVars,
           hostVars
  <2> QED
    BY <2>1 DEF dumpVars
<1> QED
  BY <1>1, <1>2, <1>3, <1>4, <1>5 DEF Next, Host, Bus

LEMMA StreamTypes ==
  ASSUME IInv, [Next]_vars
  PROVE  /\ txBuf' \in Packets /\ pkt' \in Packets /\ src' \in Packets
         /\ rx' \in Seq(Packets) /\ sent' \in Nat
         /\ reading' \in BOOLEAN /\ clean' \in BOOLEAN
<1> USE SizeAssumption DEF IInv, TypeOK
<1>1. CASE ReadSource
  BY <1>1 DEF ReadSource, OnlyLoads, SourceOf, Packets, DumpSafe, DumpInv, Sending, hostVars
<1>2. CASE Arm
  BY <1>2 DEF Arm, PacketOf, Packets, hostVars
<1>3. CASE Main /\ ~ReadSource /\ ~Arm
  <2>1. /\ UNCHANGED <<hostVars, clean, txBuf>> /\ src' \in {src, Junk}
        /\ pkt' \in {pkt, txBuf} /\ sent' \in {sent, sent + chunkLen}
    BY <1>3 DEF Main, RunDone, RunClear, RunActive, RunOffset, RunIdle, LoadTotal, ReadLength,
                LoadAddr, Submit, StartXfer, LoadOffset, StoreOffset, Finish, Test, Return, OnlyLoads
  <2> QED
    BY <2>1 DEF hostVars, Packets
<1>4. CASE DataIn
  <2>1. rx' \in Seq(Packets) /\ reading' \in BOOLEAN /\ clean' \in BOOLEAN /\ src' = src
    BY <1>4 DEF DataIn
  <2>2. CASE DataInReachesClass /\ dumpActive
    <3>1. txBuf' = dumpOffset /\ pkt' = dumpOffset /\ sent' = sent + 1 /\ dumpOffset \in 0..(Chunks - 1)
      BY <1>4, <2>2, ChunkOfActive DEF DataIn, SendNextChunkInIsr, Queue, PacketOf
    <3> QED
      BY <2>1, <3>1 DEF Packets
  <2>3. CASE ~(DataInReachesClass /\ dumpActive)
    BY <1>4, <2>1, <2>3 DEF DataIn
  <2> QED
    BY <2>2, <2>3
<1>5. CASE HostStart
  BY <1>5 DEF HostStart, StartAccepted, mainVars
<1>6. CASE HostGiveUp \/ Bus \/ UNCHANGED vars
  BY <1>6 DEF HostGiveUp, Bus, Reset, Suspend, Resume, Recover, Address, ConfigureUp, ConfigureDown,
              Halt, ReadFails, vars, mainVars, hostVars
<1> QED
  BY <1>1, <1>2, <1>3, <1>4, <1>5, <1>6 DEF Next, Host

(* Only four handlers can put the firmware's timing in question.          *)
LEMMA ExcuseTypes ==
  ASSUME IInv, [Next]_vars
  PROVE  excuses' \subseteq {"late", "halt", "torn"}
<1>1. excuses \subseteq {"late", "halt", "torn"}
  BY DEF IInv, TypeOK
<1>2. CASE Suspend \/ Resume \/ ConfigureUp \/ Halt
  BY <1>1, <1>2 DEF Suspend, Resume, ConfigureUp, Halt, Excuse
<1>3. CASE Main \/ Host
  BY <1>1, <1>3, MainKeepsHost DEF Host, DataIn, HostStart, StartAccepted, HostGiveUp
<1>4. CASE Reset \/ Recover \/ Address \/ ConfigureDown \/ UNCHANGED vars
  BY <1>1, <1>4 DEF Reset, Recover, Address, ConfigureDown, vars
<1> QED
  BY <1>2, <1>3, <1>4 DEF Next, Bus

LEMMA UsbTypes == IInv /\ [Next]_vars => UsbTypeOK'
<1> SUFFICES ASSUME IInv, [Next]_vars PROVE UsbTypeOK'
  OBVIOUS
<1>1. CoreTypeOK'
  BY CoreInvStep DEF IInv, CoreInv
<1>2. txBusy' \in [EPS -> BOOLEAN] /\ epStat' \in [EPS -> EpStats]
  <2> USE DEF IInv, TypeOK, UsbTypeOK
  <2>1. CASE Main
    BY <2>1, MainSteps, LoadsOnlyLoad
       DEF OnlyLoads, Stores, RunClear, Arm, StartXfer, StoreOffset, Finish, usbVars, EpStats
  <2>2. CASE DataIn
    BY <2>2 DEF DataIn, SendNextChunkInIsr, Queue, EpStats
  <2>3. CASE HostStart \/ HostGiveUp \/ UNCHANGED vars
    BY <2>3 DEF HostStart, StartAccepted, HostGiveUp, vars, usbVars
  <2>4. CASE Bus
    BY <2>4, BusIsCoreStep, EndpointTypes
  <2> QED
    BY <2>1, <2>2, <2>3, <2>4 DEF Next, Host
<1> QED
  BY <1>1, <1>2 DEF UsbTypeOK, CoreTypeOK

LEMMA TypeStep == IInv /\ [Next]_vars => TypeOK'
  BY UsbTypes, DumpFlags, DumpTypes, StreamTypes, ExcuseTypes DEF TypeOK
-----------------------------------------------------------------------------
(* The firmware's side: one step per action.                               *)

(* A completion during an active dump hands over the chunk at sDumpOffset. *)
DumpAdvances ==
  /\ dumpTotal = Chunks /\ dumpTotal' = Chunks
  /\ dumpOffset < Chunks /\ dumpOffset' = dumpOffset + 1
  /\ sent' = sent + 1
  /\ txBuf' = dumpOffset /\ pkt' = dumpOffset
  /\ dumpActive' <=> dumpOffset + 1 < Chunks

LEMMA NextChunk ==
  ASSUME IInv, DataIn, DataInReachesClass, dumpActive
  PROVE  DumpAdvances
<1>1. /\ LengthOf(dumpTotal, dumpOffset) = 1
      /\ SourceOf(dumpTotal, dumpOffset) = dumpOffset
      /\ dumpOffset \in 0..(Chunks - 1) /\ dumpTotal = Chunks
  BY ChunkOfActive DEF IInv, DumpSafe, DumpInv
<1>2. /\ dumpOffset' = dumpOffset + 1 /\ dumpTotal' = dumpTotal /\ sent' = sent + 1
      /\ txBuf' = PacketOf(1, dumpOffset) /\ pkt' = PacketOf(1, dumpOffset)
      /\ dumpActive' <=> ~(dumpOffset + 1 >= Chunks)
  BY <1>1 DEF DataIn, SendNextChunkInIsr, Queue
<1> QED
  BY <1>1, <1>2, SizeAssumption DEF PacketOf, DumpAdvances

LEMMA DumpStepMain == IInv /\ Main => DumpSafe'
<1> SUFFICES ASSUME IInv, Main PROVE DumpSafe'
  OBVIOUS
<1> USE SizeAssumption
    DEF IInv, TypeOK, DumpSafe, SentCoversOffset, ReadsInsideRam, DumpInv, CallInv, Uncredited,
        Sending, AfterLength
<1>1. CASE RunDone \/ RunActive \/ RunOffset \/ RunIdle \/ Submit
  BY <1>1 DEF RunDone, RunActive, RunOffset, RunIdle, Submit, Test, Return, OnlyLoads, Junk, dumpVars
<1>2. CASE LoadTotal \/ LoadAddr
  BY <1>2 DEF LoadTotal, LoadAddr, OnlyLoads, dumpVars
<1>3. CASE ReadLength
  BY <1>3 DEF ReadLength, LengthOf, OnlyLoads, dumpVars
<1>4. CASE ReadSource
  BY <1>4 DEF ReadSource, SourceOf, Junk, OnlyLoads, dumpVars
<1>5. CASE LoadOffset
  BY <1>5 DEF LoadOffset, OnlyLoads, dumpVars
<1>6. CASE StoreOffset
  BY <1>6 DEF StoreOffset
<1>7. CASE Finish
  BY <1>7 DEF Finish, Return, Junk
<1>8. CASE RunClear
  BY <1>8 DEF RunClear, Return, Junk
<1>9. CASE Arm
  BY <1>9 DEF Arm, PacketOf, Zlp, dumpVars
<1>10. CASE StartXfer
  BY <1>10 DEF StartXfer, dumpVars
<1> QED
  BY <1>1, <1>2, <1>3, <1>4, <1>5, <1>6, <1>7, <1>8, <1>9, <1>10 DEF Main

LEMMA DumpStep == IInv /\ [Next]_vars => DumpSafe'
<1> SUFFICES ASSUME IInv, [Next]_vars PROVE DumpSafe'
  OBVIOUS
<1> USE SizeAssumption
    DEF IInv, TypeOK, DumpSafe, SentCoversOffset, ReadsInsideRam, DumpInv, CallInv, Uncredited,
        Sending, AfterLength
<1>1. CASE Main
  BY <1>1, DumpStepMain
<1>2. CASE DataIn
  <2>1. CASE DataInReachesClass /\ dumpActive
    <3>1. DumpAdvances
      BY <1>2, <2>1, NextChunk
    <3>2. /\ pc' = pc /\ chunkLen' = chunkLen /\ src' = src /\ reg' = reg
          /\ pc # "loop" => preempts < MaxPreempt /\ preempts' = preempts + 1
          /\ clean' => clean /\ ~Uncredited
      BY <1>2 DEF DataIn
    <3> QED
      BY <2>1, <3>1, <3>2 DEF DumpAdvances
  <2>2. CASE ~(DataInReachesClass /\ dumpActive)
    BY <1>2, <2>2 DEF DataIn, dumpVars
  <2> QED
    BY <2>1, <2>2
<1>3. CASE HostStart
  BY <1>3 DEF HostStart, StartAccepted, VendorDump_Start, mainVars
<1>4. CASE Resume \/ ConfigureUp
  <2>1. UNCHANGED <<rx, clean, sent, txBuf, pkt, pc, chunkLen, src, reg, preempts>>
    BY <1>4, BusKeepsHost DEF Bus
  <2>2. ~dumpActive' /\ dumpTotal' = 0 /\ dumpOffset' = 0
    BY <1>4 DEF Resume, ConfigureUp, VendorDump_Abort
  <2> QED
    BY <2>1, <2>2
<1>5. CASE HostGiveUp \/ Reset \/ Suspend \/ Recover \/ Address \/ ConfigureDown \/ Halt \/ UNCHANGED vars
  <2>1. UNCHANGED <<rx, clean, sent, txBuf, pkt, pc, chunkLen, src, reg, preempts>> /\ UNCHANGED dumpVars
    BY <1>5, BusKeepsHost
       DEF Bus, HostGiveUp, Reset, Suspend, Recover, Address, ConfigureDown, Halt, vars, mainVars,
           hostVars
  <2> QED
    BY <2>1 DEF dumpVars
<1> QED
  BY <1>1, <1>2, <1>3, <1>4, <1>5 DEF Next, Host, Bus

LEMMA BusyStep == IInv /\ [Next]_vars => BusyInv'
<1> SUFFICES ASSUME IInv, [Next]_vars PROVE BusyInv'
  OBVIOUS
<1> USE DEF IInv, TypeOK, UsbTypeOK, EPS, BusyInv
<1>1. CASE Loads
  BY <1>1 DEF Loads, RunDone, RunActive, RunOffset, RunIdle, LoadTotal, ReadLength, LoadAddr,
              ReadSource, Submit, LoadOffset, Test, Return, OnlyLoads, usbVars, dumpVars
<1>2. CASE RunClear \/ StoreOffset \/ Finish
  BY <1>2 DEF RunClear, StoreOffset, Finish, Return, usbVars
<1>3. CASE Arm \/ StartXfer
  BY <1>3 DEF Arm, StartXfer, coreVars, dumpVars
<1>4. CASE DataIn
  BY <1>4 DEF DataIn, SendNextChunkInIsr, Queue, coreVars, dumpVars
<1>5. CASE HostStart
  BY <1>5 DEF HostStart, StartAccepted, VendorDump_Start, usbVars, mainVars, Sending
<1>6. CASE HostGiveUp \/ UNCHANGED vars
  BY <1>6 DEF HostGiveUp, vars, usbVars, dumpVars, mainVars
<1>7. CASE Reset \/ ConfigureDown
  BY <1>7 DEF Reset, LL_Reset, ConfigureDown, SetConfigDown, SetConfigRefused, Composite_DeInit
<1>8. CASE Suspend \/ Recover \/ Address
  BY <1>8 DEF Suspend, LL_Suspend, Recover, BusRecovered, Address, SetAddress, dumpVars, mainVars
<1>9. CASE Resume \/ ConfigureUp
  BY <1>9 DEF Resume, ConfigureUp, VendorDump_Abort
<1>10. CASE Halt
  BY <1>10 DEF Halt, SetHalt, ClearHalt, dumpVars, mainVars
<1> QED
  BY <1>1, <1>2, <1>3, <1>4, <1>5, <1>6, <1>7, <1>8, <1>9, <1>10, MainSteps DEF Next, Stores, Host, Bus
-----------------------------------------------------------------------------
(* The host's side.                                                        *)

(* A host that is reading has the device configured and awake.             *)
LEMMA HostStep == IInv /\ [Next]_vars => HostInv'
<1> SUFFICES ASSUME IInv, [Next]_vars PROVE HostInv'
  OBVIOUS
<1> USE DEF IInv, CoreInv, CoreTypeOK, SleepInv, HandleIffConfigured, StreamSafe, HostInv
<1>1. CASE Main \/ DataIn \/ HostGiveUp \/ UNCHANGED vars
  <2>1. UNCHANGED coreVars
    BY <1>1, OthersKeepCore DEF Host
  <2>2. reading' => reading
    BY <1>1, MainKeepsHost DEF DataIn, HostGiveUp, hostVars, vars
  <2> QED
    BY <2>1, <2>2 DEF coreVars
<1>2. CASE HostStart
  BY <1>2 DEF HostStart, StartAccepted, HostTraffic, usbVars
<1>3. CASE Reset \/ Suspend \/ ConfigureDown
  BY <1>3 DEF Reset, Suspend, ConfigureDown, ReadFails
<1>4. CASE Resume
  BY <1>4 DEF Resume, LL_Resume, hostVars
<1>5. CASE Recover \/ Address \/ Halt
  BY <1>5 DEF Recover, BusRecovered, Address, SetAddress, Halt, SetHalt, ClearHalt, hostVars
<1>6. CASE ConfigureUp
  BY <1>6 DEF ConfigureUp, SetConfigUp, Composite_Init, HostTraffic, hostVars
<1> QED
  BY <1>1, <1>2, <1>3, <1>4, <1>5, <1>6 DEF Next, Host, Bus

(* The bus events put no packet on EP4,                                    *)
LEMMA BusSendsNothing ==
  ASSUME epStat \in [EPS -> EpStats], Bus, epStat'["VENDOR"] = "VALID"
  PROVE  epStat["VENDOR"] = "VALID"
<1> USE DEF EPS
<1>1. CASE epStat' = epStat
  BY <1>1
<1>2. CASE epStat' = [e \in EPS |-> "DIS"] \/ epStat' = [e \in EPS |-> "NAK"]
  BY <1>2
<1>3. CASE \E e \in EPS : epStat' = [epStat EXCEPT ![e] = "STALL"] \/ epStat' = [epStat EXCEPT ![e] = "NAK"]
  BY <1>3
<1> QED
  BY <1>1, <1>2, <1>3, HaltAssumption
     DEF Bus, Reset, LL_Reset, Suspend, LL_Suspend, Resume, LL_Resume, Recover, BusRecovered, Address,
         SetAddress, ConfigureUp, SetConfigUp, Composite_Init, ConfigureDown, SetConfigDown,
         SetConfigRefused, Composite_DeInit, Halt, SetHalt, ClearHalt

(* and those that abort the dump find no host reading.                     *)
LEMMA BusAborts ==
  ASSUME IInv, Bus
  PROVE  UNCHANGED dumpVars \/ (~dumpActive' /\ dumpTotal' = 0 /\ ~reading')
<1>1. CASE Resume
  BY <1>1 DEF Resume, LL_Resume, VendorDump_Abort, hostVars, IInv, StreamSafe, HostInv
<1>2. CASE ConfigureUp
  BY <1>2 DEF ConfigureUp, SetConfigUp, VendorDump_Abort, hostVars, IInv, StreamSafe, HostInv,
              CoreInv, HandleIffConfigured
<1>3. CASE Reset \/ Suspend \/ Recover \/ Address \/ ConfigureDown \/ Halt
  BY <1>3 DEF Reset, Suspend, Recover, Address, ConfigureDown, Halt, dumpVars
<1> QED
  BY <1>1, <1>2, <1>3 DEF Bus
-----------------------------------------------------------------------------
(* The stream: what the host reads against what was handed to EP4.         *)

(* Where the main loop passes the tests while a clean dump is being read,  *)
(* nothing has been sent.                                                  *)
LEMMA CleanKick ==
  ASSUME IInv, reading, clean, pc = "idle", IsTxIdle("VENDOR")
  PROVE  sent = 0 /\ epStat["VENDOR"] # "VALID"
<1> USE SizeAssumption DEF IInv, TypeOK, DumpSafe, StreamSafe
<1>1. dumpTotal = Chunks /\ dumpOffset <= preempts
  BY DEF StreamInv, DumpInv
<1>2. dumpActive
  BY <1>1 DEF DumpInv
<1>3. dumpOffset = 0
  BY <1>2 DEF BusyInv, IsTxIdle
<1>4. sent = 0
  BY <1>2, <1>3 DEF CallInv, Uncredited
<1> QED
  BY <1>4 DEF StreamInv

LEMMA StreamInvMain == IInv /\ Main => StreamInv'
<1> SUFFICES ASSUME IInv, Main, reading, clean, reading', clean' PROVE StreamInv'
  BY MainKeepsHost DEF StreamInv, hostVars
<1>0. rx' = rx
  BY MainKeepsHost DEF hostVars
<1> USE <1>0, SizeAssumption
    DEF IInv, TypeOK, UsbTypeOK, EPS, EpStats, StreamSafe, StreamInv, BeforeStart, DumpSafe, DumpInv,
        CallInv, Sending, AfterLength
<1>1. CASE RunDone \/ RunActive \/ RunOffset \/ Submit
  BY <1>1 DEF RunDone, RunActive, RunOffset, Submit, Test, Return, OnlyLoads, usbVars, dumpVars
<1>2. CASE RunIdle
  BY <1>2, CleanKick DEF RunIdle, Test, Return, OnlyLoads, usbVars, dumpVars
<1>3. CASE LoadTotal \/ ReadLength \/ LoadAddr \/ LoadOffset
  BY <1>3 DEF LoadTotal, ReadLength, LoadAddr, LoadOffset, OnlyLoads, usbVars, dumpVars
<1>4. CASE ReadSource
  <2>1. dumpActive /\ sent = 0 /\ reg = Chunks
    BY <1>4 DEF ReadSource
  <2>2. dumpOffset = 0
    BY <1>4, <2>1 DEF ReadSource, SentCoversOffset, Uncredited
  <2> QED
    BY <1>4, <2>1, <2>2 DEF ReadSource, SourceOf, OnlyLoads, usbVars, dumpVars
<1>5. CASE RunClear
  BY <1>5 DEF RunClear, Return, usbVars
<1>6. CASE Arm
  BY <1>6 DEF Arm, PacketOf, usbVars, dumpVars
<1>7. CASE StartXfer
  BY <1>7 DEF StartXfer, PacketOf, usbVars, dumpVars
<1>8. CASE StoreOffset
  BY <1>8 DEF StoreOffset, usbVars
<1>9. CASE Finish
  BY <1>9 DEF Finish, Return, usbVars
<1> QED
  BY <1>1, <1>2, <1>3, <1>4, <1>5, <1>6, <1>7, <1>8, <1>9 DEF Main

LEMMA StreamInvDataIn == IInv /\ DataIn => StreamInv' /\ CleanStreamInOrder'
<1> SUFFICES ASSUME IInv, DataIn, clean' PROVE StreamInv' /\ CleanStreamInOrder'
  <2>1. ~clean' => StreamInv' /\ CleanStreamInOrder'
    BY DEF StreamInv, CleanStreamInOrder
  <2> QED
    BY <2>1
<1>1. /\ reading /\ clean /\ ~Uncredited /\ epStat["VENDOR"] = "VALID" /\ hcomp
      /\ UNCHANGED <<pc, chunkLen, src>>
  BY DEF DataIn, InTokenServed, IInv, StreamSafe, HostInv
<1>2. /\ dumpTotal = Chunks /\ sent = Len(rx) + 1 /\ pkt = Len(rx) /\ pc \notin BeforeStart
  BY <1>1 DEF IInv, StreamSafe, StreamInv
<1>3. DataInReachesClass
  BY <1>1, ServedReachesClass DEF DataIn, InTokenServed, IInv
<1>4. rx \in Seq(Packets) /\ pkt \in Packets /\ pkt # Zlp /\ sent \in Nat
  BY <1>2 DEF IInv, TypeOK, Zlp
<1>5. rx' = Append(rx, Len(rx)) /\ Len(rx') = Len(rx) + 1
  BY <1>2, <1>4 DEF DataIn
<1>6. CleanStreamInOrder'
  <2>1. \A i \in 1..Len(rx) : rx'[i] = rx[i]
    BY <1>2, <1>4, <1>5
  <2>2. rx'[Len(rx) + 1] = Len(rx)
    BY <1>2, <1>4, <1>5
  <2>3. rx = [i \in 1..Len(rx) |-> i - 1]
    BY <1>1 DEF IInv, StreamSafe, CleanStreamInOrder
  <2>4. \A i \in 1..Len(rx') : rx'[i] = i - 1
    BY <1>4, <1>5, <2>1, <2>2, <2>3
  <2>5. rx' \in Seq(Packets)
    BY <1>2, <1>4, <1>5
  <2>6. rx' = [i \in 1..Len(rx') |-> rx'[i]]
    BY <2>5
  <2> QED
    BY <2>4, <2>6 DEF CleanStreamInOrder
<1>7. StreamInv'
  <2>1. CASE dumpActive
    <3>1. DumpAdvances
      BY <1>3, <2>1, NextChunk
    <3>2. sent = dumpOffset
      BY <1>1, <2>1 DEF IInv, TypeOK, DumpSafe, SentCoversOffset
    <3> QED
      BY <1>1, <1>2, <1>4, <1>5, <3>1, <3>2 DEF DumpAdvances, StreamInv, BeforeStart
  <2>2. CASE ~dumpActive
    <3>1. dumpTotal' = dumpTotal /\ sent' = sent /\ epStat' = [epStat EXCEPT !["VENDOR"] = "NAK"]
      BY <2>2 DEF DataIn, dumpVars
    <3>2. epStat'["VENDOR"] # "VALID"
      BY <3>1 DEF IInv, TypeOK, UsbTypeOK, EPS
    <3> QED
      BY <1>1, <1>2, <1>4, <1>5, <3>1, <3>2 DEF StreamInv, BeforeStart
  <2> QED
    BY <2>1, <2>2
<1> QED
  BY <1>6, <1>7

LEMMA StreamStep == IInv /\ [Next]_vars => StreamInv' /\ CleanStreamInOrder'
<1> SUFFICES ASSUME IInv, [Next]_vars PROVE StreamInv' /\ CleanStreamInOrder'
  OBVIOUS
<1>1. CASE Main
  BY <1>1, StreamInvMain, MainKeepsHost DEF IInv, StreamSafe, CleanStreamInOrder, hostVars
<1>2. CASE DataIn
  BY <1>2, StreamInvDataIn
<1>3. CASE HostStart
  <2>1. /\ rx' = <<>> /\ sent' = 0 /\ dumpTotal' = Chunks /\ pc' \notin Sending
        /\ epStat' = epStat
        /\ clean' => epStat["VENDOR"] # "VALID"
    BY <1>3 DEF HostStart, StartAccepted, VendorDump_Start, mainVars, usbVars
  <2>2. CleanStreamInOrder'
    BY <2>1 DEF CleanStreamInOrder
  <2>3. StreamInv'
    <3>1. Len(rx') = 0 /\ pc' \notin BeforeStart
      BY <2>1 DEF BeforeStart, Sending
    <3>2. clean' => epStat'["VENDOR"] # "VALID"
      BY <2>1
    <3> QED
      BY <2>1, <3>1, <3>2 DEF StreamInv, BeforeStart
  <2> QED
    BY <2>2, <2>3
<1>4. CASE HostGiveUp \/ UNCHANGED vars
  BY <1>4 DEF HostGiveUp, vars, usbVars, dumpVars, mainVars, IInv, StreamSafe, StreamInv,
              CleanStreamInOrder, hostVars
<1>5. CASE Bus
  <2>1. CleanStreamInOrder'
    BY <1>5, BusKeepsHost DEF IInv, StreamSafe, CleanStreamInOrder
  <2>2. StreamInv'
    BY <1>5, BusKeepsHost, BusSendsNothing, BusAborts
       DEF IInv, TypeOK, UsbTypeOK, StreamSafe, StreamInv, dumpVars
  <2> QED
    BY <2>1, <2>2
<1> QED
  BY <1>1, <1>2, <1>3, <1>4, <1>5 DEF Next, Host

LEMMA WholeStep == IInv /\ [Next]_vars => CleanDumpIsWhole'
<1> SUFFICES ASSUME IInv, [Next]_vars PROVE CleanDumpIsWhole'
  OBVIOUS
<1> USE SizeAssumption DEF IInv, TypeOK, StreamSafe, CleanDumpIsWhole, DumpSafe, DumpInv
<1>1. CASE Loads \/ RunClear \/ Arm \/ StoreOffset
  BY <1>1, LoadsOnlyLoad DEF OnlyLoads, RunClear, Arm, StoreOffset, dumpVars
<1>2. CASE StartXfer
  BY <1>2 DEF StartXfer, Sending, dumpVars
<1>3. CASE Finish
  BY <1>3 DEF Finish, Sending, ReadsInsideRam
<1>4. CASE DataIn
  <2>1. CASE DataInReachesClass /\ dumpActive
    <3>1. DumpAdvances
      BY <1>4, <2>1, NextChunk
    <3>2. clean' => ~Uncredited
      BY <1>4 DEF DataIn
    <3>3. clean' => sent = dumpOffset
      BY <1>4, <2>1, <3>2 DEF DataIn, SentCoversOffset
    <3> QED
      BY <3>1, <3>3 DEF DumpAdvances
  <2>2. CASE ~(DataInReachesClass /\ dumpActive)
    BY <1>4, <2>2 DEF DataIn, dumpVars
  <2> QED
    BY <2>1, <2>2
<1>5. CASE HostStart
  BY <1>5 DEF HostStart, VendorDump_Start
<1>6. CASE HostGiveUp \/ UNCHANGED vars
  BY <1>6 DEF HostGiveUp, vars, dumpVars
<1>7. CASE Bus
  <2>1. sent' = sent /\ clean' = clean
    BY <1>7, BusKeepsHost
  <2>2. CASE UNCHANGED dumpVars
    BY <2>1, <2>2 DEF dumpVars
  <2>3. CASE dumpTotal' = 0
    BY <2>3
  <2> QED
    BY <1>7, <2>2, <2>3, BusAborts
<1> QED
  BY <1>1, <1>2, <1>3, <1>4, <1>5, <1>6, <1>7, MainSteps DEF Next, Stores, Host
-----------------------------------------------------------------------------
(* The timing.  While the main loop has not been late and no endpoint was  *)
(* halted, no abort changes sDumpTotal under SendNextChunk: the bus sleeps *)
(* only with nothing to kick, and a SendNextChunk that a torn condition    *)
(* lets run then finds the cleared state throughout and queues an empty    *)
(* packet.  With no torn condition either it always finds an armed dump.   *)

Chunk(p) == p \notin {Zlp, Junk}
NotLate == excuses \subseteq {"torn"}
Untorn == excuses = {}

CallOnOneDump ==
  /\ dumpTotal = 0 => dumpOffset = 0
  /\ pc = "store" /\ dumpTotal = 0 => reg = 0
  /\ pc \in {"length", "source"} => reg = dumpTotal
  /\ pc \in AfterLength => (chunkLen = 0 <=> dumpTotal = 0)
  /\ Untorn /\ pc \in Sending \cup {"offset", "idle"} => dumpTotal = Chunks

PacketsInv ==
  /\ pc \in {"submit", "arm", "start"} /\ chunkLen = 1 => Chunk(src)
  /\ pc = "start" => txBuf # Junk /\ (txBuf = Zlp => ~Untorn)
  /\ epStat["VENDOR"] = "VALID" => pkt # Junk /\ (pkt = Zlp => ~Untorn)

SleepsIdle == lowPower => ~KickDue /\ (pc \in Sending => dumpTotal = 0)

TimelyInv == NotLate => CallOnOneDump /\ PacketsInv /\ SleepsIdle

LEMMA TimelyInit == Init => TimelyInv
  BY DEF Init, UsbInit, TimelyInv, CallOnOneDump, PacketsInv, SleepsIdle, Sending, AfterLength, EPS

LEMMA ExcusesStay == [Next]_vars => excuses \subseteq excuses'
<1>1. Main \/ Host => excuses' = excuses
  BY MainKeepsHost DEF Host, DataIn, HostStart, StartAccepted, HostGiveUp
<1>2. Bus \/ UNCHANGED vars => excuses \subseteq excuses'
  BY DEF Bus, Reset, Suspend, Resume, Recover, Address, ConfigureUp, ConfigureDown, Halt, Excuse, vars
<1> QED
  BY <1>1, <1>2 DEF Next

LEMMA TimelyLoads ==
  ASSUME IInv, Loads, TimelyInv, NotLate
  PROVE  TimelyInv'
<1> USE SizeAssumption
    DEF IInv, TypeOK, UsbTypeOK, EPS, TimelyInv, CallOnOneDump, PacketsInv, SleepsIdle, KickDue,
        IsTxIdle, Untorn, Sending, AfterLength, OnlyLoads, usbVars, coreVars, dumpVars
<1>1. CASE RunDone \/ RunOffset \/ Submit
  BY <1>1 DEF RunDone, RunOffset, Submit, Test, Return
<1>2. CASE RunActive
  BY <1>2 DEF RunActive, Test, Return, DumpSafe, DumpInv
<1>3. CASE RunIdle
  <2>1. lowPower /\ IsTxIdle("VENDOR") => dumpTotal = 0
    <3>1. pc = "idle" /\ dumpTotal = Chunks => dumpActive
      BY DEF DumpSafe, DumpInv
    <3>2. pc = "idle" /\ dumpActive /\ IsTxIdle("VENDOR") => dumpOffset = 0
      BY DEF BusyInv
    <3> QED
      BY <1>3, <3>1, <3>2 DEF RunIdle
  <2> QED
    BY <1>3, <2>1 DEF RunIdle, Test, Return
<1>4. CASE LoadTotal \/ LoadAddr \/ LoadOffset
  BY <1>4 DEF LoadTotal, LoadAddr, LoadOffset
<1>5. CASE ReadLength
  <2>1. LengthOf(reg, dumpOffset) = 0 <=> dumpTotal = 0
    BY <1>5 DEF ReadLength, LengthOf, DumpSafe, DumpInv
  <2> QED
    BY <1>5, <2>1 DEF ReadLength
<1>6. CASE ReadSource
  <2>1. chunkLen = 1 => Chunk(SourceOf(reg, dumpOffset))
    BY <1>6 DEF ReadSource, SourceOf, Chunk, Zlp, Junk
  <2> QED
    BY <1>6, <2>1 DEF ReadSource
<1> QED
  BY <1>1, <1>2, <1>3, <1>4, <1>5, <1>6 DEF Loads

LEMMA TimelyStores ==
  ASSUME IInv, Stores, TimelyInv, NotLate
  PROVE  TimelyInv'
<1> USE SizeAssumption
    DEF IInv, TypeOK, UsbTypeOK, EPS, TimelyInv, CallOnOneDump, PacketsInv, SleepsIdle, KickDue,
        IsTxIdle, Untorn, Sending, AfterLength, coreVars
<1>1. CASE RunClear
  BY <1>1 DEF RunClear, Return, usbVars
<1>2. CASE Arm
  BY <1>2 DEF Arm, PacketOf, Chunk, Zlp, Junk, dumpVars
<1>3. CASE StartXfer
  BY <1>3 DEF StartXfer, dumpVars
<1>4. CASE StoreOffset
  BY <1>4 DEF StoreOffset, usbVars, DumpSafe, DumpInv
<1>5. CASE Finish
  BY <1>5 DEF Finish, Return, usbVars
<1> QED
  BY <1>1, <1>2, <1>3, <1>4, <1>5 DEF Stores

LEMMA TimelyDataIn ==
  ASSUME IInv, DataIn, TimelyInv, NotLate
  PROVE  TimelyInv'
<1> USE DEF TimelyInv, SleepsIdle, PacketsInv, CallOnOneDump, Untorn
<1>1. ~lowPower' /\ UNCHANGED <<pc, chunkLen, src, reg, excuses>>
  BY DEF DataIn, InTokenServed, HostTraffic, coreVars
<1>2. CASE DataInReachesClass /\ dumpActive
  <2>1. DumpAdvances
    BY <1>2, NextChunk
  <2>2. Chunk(txBuf') /\ Chunk(pkt')
    BY <2>1 DEF DumpAdvances, Chunk, Zlp, Junk, IInv, TypeOK
  <2> QED
    BY <1>1, <2>1, <2>2, SizeAssumption DEF DumpAdvances, Chunk
<1>3. CASE ~(DataInReachesClass /\ dumpActive)
  <2>1. UNCHANGED <<dumpTotal, dumpOffset, txBuf>> /\ epStat' = [epStat EXCEPT !["VENDOR"] = "NAK"]
    BY <1>3 DEF DataIn, dumpVars
  <2>2. epStat'["VENDOR"] # "VALID"
    BY <2>1 DEF IInv, TypeOK, UsbTypeOK, EPS
  <2> QED
    BY <1>1, <2>1, <2>2
<1> QED
  BY <1>2, <1>3

(* Of the bus events the suspend and the configuration can find the main   *)
(* loop in SendNextChunk with an armed dump, and then it is late; an abort *)
(* that finds it between the tests tears the condition.                    *)
LEMMA TimelyBus ==
  ASSUME IInv, Bus, TimelyInv, NotLate, NotLate'
  PROVE  TimelyInv'
<1> USE SizeAssumption
    DEF IInv, TypeOK, TimelyInv, CallOnOneDump, PacketsInv, SleepsIdle, NotLate, Untorn
<1>1. /\ UNCHANGED <<txBuf, pkt, pc, chunkLen, src, reg>>
      /\ epStat'["VENDOR"] = "VALID" => epStat["VENDOR"] = "VALID"
  BY BusKeepsHost, BusSendsNothing DEF UsbTypeOK
<1>2. CASE Reset
  BY <1>1, <1>2 DEF Reset, LL_Reset, Composite_DeInit, KickDue, IsTxIdle, dumpVars
<1>3. CASE Suspend
  BY <1>1, <1>3 DEF Suspend, Excuse, LL_Suspend, KickDue, IsTxIdle, dumpVars
<1>4. CASE Resume
  <2>1. ~lowPower' /\ dumpTotal' = 0 /\ dumpOffset' = 0 /\ (pc \in Sending => dumpTotal = 0)
    BY <1>4 DEF Resume, LL_Resume, VendorDump_Abort
  <2>2. (Untorn' => Untorn /\ pc \notin {"offset", "idle"}) /\ "loop" \notin Sending
    BY <1>4 DEF Resume, Excuse, AbortTears, Sending
  <2>3. pc \in AfterLength \cup {"length", "source", "store"} => pc \in Sending
    BY DEF AfterLength, Sending
  <2> QED
    BY <1>1, <2>1, <2>2, <2>3
<1>5. CASE Recover
  BY <1>1, <1>5 DEF Recover, BusRecovered, KickDue, IsTxIdle, dumpVars
<1>6. CASE Address \/ ConfigureDown
  BY <1>1, <1>6 DEF Address, SetAddress, ConfigureDown, SetConfigDown, SetConfigRefused, HostTraffic,
                    dumpVars
<1>7. CASE ConfigureUp
  <2>1. ~lowPower' /\ dumpTotal' = 0 /\ dumpOffset' = 0
    BY <1>7 DEF ConfigureUp, SetConfigUp, HostTraffic, VendorDump_Abort
  <2>2. pc \notin Sending /\ (Untorn' => Untorn /\ pc \notin {"offset", "idle"})
    BY <1>7 DEF ConfigureUp, Excuse, AbortTears
  <2>3. pc \notin AfterLength \cup {"length", "source", "store", "submit", "arm", "start"}
    BY <2>2 DEF AfterLength, Sending
  <2> QED
    BY <1>1, <2>1, <2>2, <2>3
<1>8. CASE Halt
  BY <1>8 DEF Halt
<1> QED
  BY <1>2, <1>3, <1>4, <1>5, <1>6, <1>7, <1>8 DEF Bus

LEMMA TimelyStep == IInv /\ TimelyInv /\ [Next]_vars => TimelyInv'
<1> SUFFICES ASSUME IInv, TimelyInv, [Next]_vars, NotLate' PROVE TimelyInv'
  BY DEF TimelyInv
<1>1. NotLate
  BY ExcusesStay DEF NotLate
<1>2. CASE Main
  BY <1>1, <1>2, MainSteps, TimelyLoads, TimelyStores
<1>3. CASE HostStart
  BY <1>1, <1>3, SizeAssumption
     DEF HostStart, StartAccepted, VendorDump_Start, HostTraffic, usbVars, coreVars, mainVars, TimelyInv,
         CallOnOneDump, PacketsInv, SleepsIdle, Untorn, Sending, AfterLength
<1>4. CASE HostGiveUp \/ UNCHANGED vars
  BY <1>1, <1>4 DEF HostGiveUp, vars, usbVars, coreVars, dumpVars, mainVars, TimelyInv, CallOnOneDump,
                    PacketsInv, SleepsIdle, Untorn, KickDue, IsTxIdle
<1> QED
  BY <1>1, <1>2, <1>3, <1>4, TimelyDataIn, TimelyBus DEF Next, Host
-----------------------------------------------------------------------------
(* The driver of a dump.  With nothing excused a raised vendorTxBusy has   *)
(* a packet behind it (FlagInv), and a host that is still reading has      *)
(* either a packet waiting or the main loop about to hand it the first     *)
(* one.  The last needs a count (ReadInv): the host has read, or finds     *)
(* waiting, as many packets as were handed over since its START, so a dump *)
(* that has ended leaves it at most one packet short.                      *)

Waiting == epStat["VENDOR"] = "VALID"
Busy == txBusy["VENDOR"]

FlagInv == hcomp /\ Busy => Waiting \/ pc = "start"

ReadInv ==
  reading =>
    /\ dumpTotal = Chunks
    /\ Len(rx) < Chunks
    /\ ~dumpActive => sent >= Chunks
    /\ sent <= Len(rx) + 1
    /\ ~Waiting \/ pc \in BeforeStart => sent <= Len(rx)
    /\ dumpActive /\ (dumpOffset > 0 \/ pc \in {"credit", "store", "finish"}) => Waiting

DriverInv == excuses = {} => FlagInv /\ ReadInv

LEMMA DriverInit == Init => DriverInv
  BY DEF Init, UsbInit, DriverInv, FlagInv, ReadInv

LEMMA FlagMain == IInv /\ FlagInv /\ Main => FlagInv'
<1> SUFFICES ASSUME IInv, FlagInv, Main PROVE FlagInv'
  OBVIOUS
<1> USE DEF IInv, TypeOK, UsbTypeOK, EPS, FlagInv, Waiting, Busy
<1>1. CASE Loads
  BY <1>1 DEF Loads, RunDone, RunActive, RunOffset, RunIdle, LoadTotal, ReadLength, LoadAddr,
              ReadSource, Submit, LoadOffset, Test, Return, OnlyLoads, usbVars
<1>2. CASE RunClear \/ StoreOffset \/ Finish
  BY <1>2 DEF RunClear, StoreOffset, Finish, Return, usbVars
<1>3. CASE Arm
  BY <1>3 DEF Arm, coreVars
<1>4. CASE StartXfer
  BY <1>4 DEF StartXfer, coreVars
<1> QED
  BY <1>1, <1>2, <1>3, <1>4, MainSteps DEF Stores

LEMMA FlagBus ==
  ASSUME IInv, FlagInv, Bus, excuses' = {}
  PROVE  FlagInv'
<1> USE DEF IInv, TypeOK, UsbTypeOK, EPS, FlagInv, Waiting, Busy
<1>1. pc' = pc
  BY BusKeepsHost
<1>2. CASE Reset \/ ConfigureDown
  BY <1>2 DEF Reset, LL_Reset, ConfigureDown, SetConfigDown, SetConfigRefused, Composite_DeInit
<1>3. CASE Suspend \/ Recover \/ Address
  BY <1>1, <1>3 DEF Suspend, LL_Suspend, Recover, BusRecovered, Address, SetAddress
<1>4. CASE Resume
  BY <1>1, <1>4 DEF Resume, LL_Resume, AllIdle
<1>5. CASE ConfigureUp
  BY <1>5 DEF ConfigureUp, SetConfigUp, Composite_Init, AllIdle
<1>6. CASE Halt
  BY <1>6 DEF Halt
<1> QED
  BY <1>2, <1>3, <1>4, <1>5, <1>6 DEF Bus

(* The first chunk: until it is handed over the count stands at what       *)
(* completions of older packets have moved.                                *)
LEMMA ReadMain ==
  ASSUME IInv, TimelyInv, FlagInv, ReadInv, Main, excuses = {}
  PROVE  ReadInv'
<1> SUFFICES ASSUME reading PROVE ReadInv'
  BY MainKeepsHost DEF ReadInv, hostVars
<1>1. reading' = reading /\ rx' = rx /\ Len(rx) \in Nat
  BY MainKeepsHost DEF hostVars, IInv, TypeOK
<1>2. dumpTotal = Chunks /\ (pc \in Sending \cup {"idle"} => dumpActive /\ dumpOffset < Chunks)
  BY SizeAssumption DEF ReadInv, IInv, TypeOK, DumpSafe, DumpInv, ReadsInsideRam
<1> USE SizeAssumption, <1>1, <1>2
    DEF IInv, TypeOK, UsbTypeOK, EPS, ReadInv, Waiting, BeforeStart, Sending
<1>3. CASE RunDone \/ RunActive \/ RunOffset \/ Submit
  BY <1>3 DEF RunDone, RunActive, RunOffset, Submit, Test, Return, OnlyLoads, usbVars, dumpVars
<1>4. CASE RunIdle
  <2>1. IsTxIdle("VENDOR") => sent = 0
    BY <1>4 DEF RunIdle, BusyInv, IsTxIdle, DumpSafe, CallInv, Uncredited
  <2> QED
    BY <1>4, <2>1 DEF RunIdle, Test, Return, OnlyLoads, usbVars, dumpVars
<1>5. CASE LoadTotal \/ ReadLength \/ LoadAddr \/ ReadSource \/ LoadOffset
  BY <1>5 DEF LoadTotal, ReadLength, LoadAddr, ReadSource, LoadOffset, OnlyLoads, usbVars, dumpVars
<1>6. CASE RunClear
  BY <1>6 DEF RunClear, Return, usbVars
<1>7. CASE Arm
  BY <1>7 DEF Arm, coreVars, dumpVars
<1>8. CASE StartXfer
  BY <1>8 DEF StartXfer, coreVars, dumpVars
<1>9. CASE StoreOffset
  BY <1>9 DEF StoreOffset, usbVars
<1>10. CASE Finish
  <2>1. dumpOffset < dumpTotal
    BY <1>10 DEF Finish
  <2> QED
    BY <1>10, <2>1 DEF Finish, Return, usbVars
<1> QED
  BY <1>3, <1>4, <1>5, <1>6, <1>7, <1>8, <1>9, <1>10 DEF Main

(* A completion: the host has one more packet, and while the dump is       *)
(* active the next one waits.                                              *)
LEMMA DriverDataIn ==
  ASSUME IInv, TimelyInv, FlagInv, ReadInv, DataIn, excuses = {}
  PROVE  FlagInv' /\ ReadInv'
<1> USE SizeAssumption DEF IInv, TypeOK, UsbTypeOK, EPS, Waiting, Busy
<1>1. /\ reading /\ Waiting /\ hcomp /\ pc' = pc
      /\ reading' = (Len(rx') < Chunks)
  BY DEF DataIn, InTokenServed, StreamSafe, HostInv
<1>2. DataInReachesClass
  BY <1>1, ServedReachesClass DEF DataIn, InTokenServed
<1>3. Len(rx) \in Nat /\ Len(rx') = Len(rx) + 1
  <2>1. pkt # Zlp
    BY <1>1 DEF TimelyInv, NotLate, PacketsInv, Untorn
  <2> QED
    BY <2>1 DEF DataIn
<1>4. CASE dumpActive
  <2>1. DumpAdvances
    BY <1>2, <1>4, NextChunk
  <2>2. epStat' = [epStat EXCEPT !["VENDOR"] = "VALID"]
    BY <1>2, <1>4 DEF DataIn, SendNextChunkInIsr, Queue
  <2>3. Waiting'
    BY <2>2
  <2>4. ~dumpActive' => sent' >= Chunks
    BY <2>1, <1>4 DEF DumpAdvances, DumpSafe, SentCoversOffset
  <2>5. sent' <= Len(rx') + 1 /\ (pc \in BeforeStart => sent' <= Len(rx'))
    BY <1>1, <1>3, <2>1 DEF ReadInv, DumpAdvances
  <2>6. reading' => dumpTotal' = Chunks /\ Len(rx') < Chunks
    BY <1>1, <2>1 DEF DumpAdvances
  <2> HIDE DEF Waiting, Busy
  <2> QED
    BY <1>1, <2>3, <2>4, <2>5, <2>6 DEF FlagInv, ReadInv
<1>5. CASE ~dumpActive
  <2>1. /\ epStat' = [epStat EXCEPT !["VENDOR"] = "NAK"]
        /\ txBusy' = [txBusy EXCEPT !["VENDOR"] = FALSE]
        /\ UNCHANGED dumpVars /\ sent' = sent
    BY <1>2, <1>5 DEF DataIn
  <2>2. ~Waiting' /\ ~Busy'
    BY <2>1
  <2> QED
    BY <1>1, <1>3, <1>5, <2>1, <2>2 DEF FlagInv, ReadInv, dumpVars
<1> QED
  BY <1>4, <1>5

LEMMA DriverStep == IInv /\ TimelyInv /\ DriverInv /\ [Next]_vars => DriverInv'
<1> SUFFICES ASSUME IInv, TimelyInv, DriverInv, [Next]_vars, excuses' = {} PROVE FlagInv' /\ ReadInv'
  BY DEF DriverInv
<1>1. excuses = {} /\ FlagInv /\ ReadInv
  BY ExcusesStay DEF DriverInv
<1>2. CASE Main
  BY <1>1, <1>2, FlagMain, ReadMain
<1>3. CASE DataIn
  BY <1>1, <1>3, DriverDataIn
<1>4. CASE HostStart
  <2>1. UNCHANGED <<usbVars, pc>> /\ pc \notin Sending /\ rx' = <<>> /\ sent' = 0
    BY <1>4 DEF HostStart, StartAccepted, mainVars
  <2>2. dumpTotal' = Chunks /\ dumpOffset' = 0 /\ dumpActive'
    BY <1>4 DEF HostStart, VendorDump_Start
  <2> QED
    BY <1>1, <2>1, <2>2, SizeAssumption DEF FlagInv, ReadInv, Waiting, Busy, usbVars, BeforeStart, Sending
<1>5. CASE HostGiveUp \/ UNCHANGED vars
  BY <1>1, <1>5 DEF HostGiveUp, vars, usbVars, dumpVars, mainVars, hostVars, FlagInv, ReadInv, Waiting, Busy
<1>6. CASE Bus
  <2>1. UNCHANGED <<rx, sent, pc>> /\ (reading' => reading /\ UNCHANGED dumpVars)
    BY <1>6, BusKeepsHost, BusAborts
  <2>2. reading' => Waiting' = Waiting
    <3>1. CASE Reset \/ Suspend \/ ConfigureDown
      BY <3>1 DEF Reset, Suspend, ConfigureDown, ReadFails
    <3>2. CASE Resume \/ Recover \/ Address
      BY <3>2 DEF Resume, LL_Resume, Recover, BusRecovered, Address, SetAddress, Waiting
    <3>3. CASE ConfigureUp
      BY <3>3 DEF ConfigureUp, SetConfigUp, hostVars, IInv, StreamSafe, HostInv, CoreInv, HandleIffConfigured
    <3>4. CASE Halt
      BY <3>4 DEF Halt
    <3> QED
      BY <1>6, <3>1, <3>2, <3>3, <3>4 DEF Bus
  <2> QED
    BY <1>1, <1>6, <2>1, <2>2, FlagBus DEF ReadInv, dumpVars
<1> QED
  BY <1>2, <1>3, <1>4, <1>5, <1>6 DEF Next, Host
-----------------------------------------------------------------------------
LEMMA Invariance == Spec => []IInv
<1>1. Init => IInv
  BY TypeInit, SafeInit, CoreInitially DEF IInv, Init
<1>2. IInv /\ [Next]_vars => IInv'
  BY TypeStep, CoreInvStep, DumpStep, BusyStep, HostStep, StreamStep, WholeStep DEF IInv, StreamSafe
<1> QED
  BY <1>1, <1>2, PTL DEF Spec

(* Every variable keeps its type: no offset, packet or state out of range. *)
THEOREM TypeCorrect == Spec => []TypeOK
  BY Invariance, PTL DEF IInv

(* While a dump is active sDumpOffset never runs ahead of the chunks       *)
(* handed to EP4, whatever preempts SendNextChunk; it falls behind only by *)
(* a completion before the first chunk is credited.                        *)
THEOREM OffsetNeverAhead == Spec => []SentCoversOffset
  BY Invariance, PTL DEF IInv, DumpSafe

(* SendNextChunk never reads past the end of SRAM1.                        *)
THEOREM NeverReadsPastRam == Spec => []ReadsInsideRam
  BY Invariance, PTL DEF IInv, DumpSafe

(* Unless one of the two known causes has struck, the host reads the       *)
(* chunks of SRAM1 in order and without gaps.                              *)
THEOREM StreamIsInOrder == Spec => []CleanStreamInOrder
  BY Invariance, PTL DEF IInv, StreamSafe

(* And a dump that ended by itself has handed over all of them.            *)
THEOREM DumpIsWhole == Spec => []CleanDumpIsWhole
  BY Invariance, PTL DEF IInv, StreamSafe

(* While the main loop keeps its timing, no packet read through a cleared  *)
(* sDumpAddr is ever on EP4, and an empty one only after an abort has torn *)
(* the condition of VendorDump_Run.                                        *)
THEOREM EveryPacketIsChunk == Spec => []NoEmptyOrForeignPacket
<1>1. TimelyInv => NoEmptyOrForeignPacket
  BY DEF TimelyInv, NotLate, PacketsInv, Untorn, NoEmptyOrForeignPacket
<1>2. IInv /\ TimelyInv /\ [Next]_vars => TimelyInv'
  BY TimelyStep
<1>3. Init => TimelyInv
  BY TimelyInit
<1> QED
  BY <1>1, <1>2, <1>3, Invariance, PTL DEF Spec

(* A host that is reading has something to wait for: a packet on EP4, the  *)
(* main loop inside SendNextChunk, or a dump it is about to kick.  It is   *)
(* the safety behind ReadEnds: a dump whose chunks are sent in an order    *)
(* nobody meant still brings as many packets as were promised.             *)
ReadHasDriver == reading /\ excuses = {} => Waiting \/ pc \in Sending \/ KickDue
THEOREM ReadsHaveDriver == Spec => []ReadHasDriver
<1>1. IInv /\ DriverInv => ReadHasDriver
  <2> SUFFICES ASSUME IInv, DriverInv, reading, excuses = {}, pc \notin Sending, ~Waiting PROVE KickDue
    BY DEF ReadHasDriver
  <2>1. dumpActive /\ dumpOffset = 0
    BY SizeAssumption DEF DriverInv, ReadInv, IInv, TypeOK
  <2>2. hcomp /\ ~Busy
    BY DEF Sending, DriverInv, FlagInv, IInv, StreamSafe, HostInv
  <2> QED
    BY <2>1, <2>2 DEF KickDue, IsTxIdle, Busy
<1>2. Init => TimelyInv /\ DriverInv
  BY TimelyInit, DriverInit
<1>3. IInv /\ TimelyInv /\ DriverInv /\ [Next]_vars => TimelyInv' /\ DriverInv'
  BY TimelyStep, DriverStep
<1> QED
  BY <1>1, <1>2, <1>3, Invariance, PTL DEF Spec
=============================================================================
