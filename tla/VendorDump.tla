----------------------------- MODULE VendorDump -----------------------------
(***************************************************************************)
(* The RAM dump over the vendor bulk endpoint (usb_vendor_bulk.c): armed   *)
(* by an EP0 request in interrupt context, kicked by the main loop, driven *)
(* by the DataIn callback, aborted by reset and resume; and the host that  *)
(* asks for it and reads it (tools/vendor_usb.py).                         *)
(*                                                                         *)
(* Sizes are counted in 64-byte chunks, RAM_DUMP_MAX_SIZE being a multiple *)
(* of 64.  VendorDump_Run and the VendorDump_SendNextChunk it calls take   *)
(* one step per load or store of sDump*; the calls made by a handler are   *)
(* part of the handler's single step.                                      *)
(***************************************************************************)
EXTENDS UsbComposite, Integers, Sequences

CONSTANTS
  Chunks,     \* RAM_DUMP_MAX_SIZE / COMP_VENDOR_DATA_EP_SIZE (2304 in the firmware)
  MaxPreempt, \* how many EP4 completions can interrupt one call of VendorDump_Run
  BusEvents,  \* which of "reset", "suspend", "unconfigure" the environment may produce
  GiveUps     \* may the host stop reading before the dump is complete?

(* One call of VendorDump_Run takes microseconds; a dump is 2304 packets.  *)
ASSUME SizeAssumption ==
  /\ Chunks \in Nat
  /\ MaxPreempt \in Nat
  /\ MaxPreempt + 1 < Chunks
ASSUME EnvAssumption ==
  /\ BusEvents \subseteq {"reset", "suspend", "unconfigure"}
  /\ GiveUps \in BOOLEAN

VARIABLES
  dumpActive,  \* sDumpActive
  dumpTotal,   \* sDumpTotal; sDumpAddr is RAM_DUMP_BASE exactly when it is not 0
  dumpOffset,  \* sDumpOffset
  dumpDone,    \* sDumpDone
  txBuf,       \* hcomp->vendorTxBuf
  pkt,         \* the packet in EP4's packet memory
  pc,          \* where the main loop is in VendorDump_Run
  chunkLen,    \* SendNextChunk's local, 0 or 1
  src,         \* SendNextChunk's local: the chunk of SRAM1 it points at
  reg,         \* the register with the first operand of a sum or difference, else 0
  preempts,    \* ghost: EP4 completions since the main loop entered that call
  reading,     \* host: is start_ram_dump waiting on EP4?
  rx,          \* host: the chunks read since the last accepted START
  sent,        \* ghost: chunks handed to EP4 since that START
  clean,       \* ghost: no known cause of corruption has happened since that START
  excuses      \* ghost: a late main loop, a torn condition, a halted EP4; see Excuse

dumpVars == <<dumpActive, dumpTotal, dumpOffset, dumpDone>>
mainVars == <<pc, chunkLen, src, reg, preempts>>
hostVars == <<reading, rx>>
vars == <<usbVars, dumpVars, txBuf, pkt, mainVars, hostVars, sent, clean, excuses>>

Zlp == -1      \* a zero-length packet
Junk == -2     \* 64 bytes that are not from SRAM1 (sDumpAddr already cleared)
Packets == (0..Chunks) \cup {Zlp, Junk}

(* VendorDump_Run's tests, and the steps of SendNextChunk.                 *)
Tests == {"loop", "clear", "active", "offset", "idle"}
Sending == {"total", "length", "address", "source", "submit", "arm", "start", "credit", "store", "finish"}
PCs == Tests \cup Sending

Init ==
  /\ UsbInit
  /\ dumpActive = FALSE /\ dumpTotal = 0 /\ dumpOffset = 0 /\ dumpDone = FALSE
  /\ txBuf = Zlp /\ pkt = Zlp
  /\ pc = "loop" /\ chunkLen = 0 /\ src = Junk /\ reg = 0 /\ preempts = 0
  /\ reading = FALSE /\ rx = <<>>
  /\ sent = 0 /\ clean = TRUE /\ excuses = {}
-----------------------------------------------------------------------------
(* VendorDump_SendNextChunk's arithmetic.  "remaining" is an unsigned      *)
(* difference: when sDumpOffset has passed sDumpTotal it wraps to a huge   *)
(* value, and a full chunk is sent.                                        *)
LengthOf(total, offset) == IF total = offset THEN 0 ELSE 1
SourceOf(total, offset) == IF total = 0 THEN Junk ELSE offset
PacketOf(len, from) == IF len = 0 THEN Zlp ELSE from

(* VendorDump_Abort                                                        *)
VendorDump_Abort ==
  /\ dumpActive' = FALSE
  /\ dumpTotal' = 0
  /\ dumpOffset' = 0
  /\ dumpDone' = FALSE

(* VendorDump_SendNextChunk as called by VendorDump_OnTxCplt: no step of   *)
(* the main loop can come in between, and Composite_DataIn has just        *)
(* lowered vendorTxBusy, so the transfer is accepted.                      *)
Queue(len, from, done) ==
  /\ txBuf' = PacketOf(len, from)
  /\ pkt' = PacketOf(len, from)
  /\ txBusy' = [txBusy EXCEPT !["VENDOR"] = TRUE]
  /\ epStat' = [epStat EXCEPT !["VENDOR"] = "VALID"]
  /\ sent' = sent + len
  /\ dumpOffset' = dumpOffset + len
  /\ dumpActive' = ~done
  /\ dumpDone' = (dumpDone \/ done)
  /\ UNCHANGED dumpTotal

(* Mutants: "sDumpOffset > sDumpTotal", a dump that ends one chunk early,  *)
(* sDumpOffset advanced before the source address is computed.             *)
SendNextChunkInIsr_OneTooMany ==
  LET len == LengthOf(dumpTotal, dumpOffset)
  IN Queue(len, SourceOf(dumpTotal, dumpOffset), dumpOffset + len > dumpTotal)
SendNextChunkInIsr_OneTooFew ==
  LET len == LengthOf(dumpTotal, dumpOffset)
  IN Queue(len, SourceOf(dumpTotal, dumpOffset), dumpOffset + len + 1 >= dumpTotal)
SendNextChunkInIsr_CreditsFirst ==
  LET len == LengthOf(dumpTotal, dumpOffset)
  IN Queue(len, SourceOf(dumpTotal, dumpOffset + len), dumpOffset + len >= dumpTotal)

SendNextChunkInIsr ==
  LET len == LengthOf(dumpTotal, dumpOffset)
  IN Queue(len, SourceOf(dumpTotal, dumpOffset), dumpOffset + len >= dumpTotal)
-----------------------------------------------------------------------------
(* The main loop: VendorDump_Run.                                          *)

(* A step that only loads changes nothing but the main loop's own locals.  *)
OnlyLoads == UNCHANGED <<usbVars, dumpVars, txBuf, pkt, hostVars, sent, clean, excuses>>

(* VendorDump_Run returns, its locals are gone.                            *)
Return == pc' = "loop" /\ chunkLen' = 0 /\ src' = Junk /\ reg' = 0 /\ preempts' = 0

(* A condition: go on to step "next", or return.                           *)
Test(condition, next) ==
  IF condition
    THEN pc' = next /\ UNCHANGED <<chunkLen, src, reg, preempts>>
    ELSE Return

(* if (sDumpDone): another round of the main loop begins.                  *)
RunDone ==
  /\ pc = "loop"
  /\ pc' = IF dumpDone THEN "clear" ELSE "active"
  /\ OnlyLoads /\ UNCHANGED <<chunkLen, src, reg, preempts>>

(* A finished dump is logged, and nothing else happens in this call.       *)
RunClear ==
  /\ pc = "clear"
  /\ dumpDone' = FALSE
  /\ Return
  /\ UNCHANGED <<usbVars, dumpActive, dumpTotal, dumpOffset, txBuf, pkt, hostVars, sent, clean, excuses>>

(* sDumpActive && (sDumpOffset == 0U) && IsTxIdle: three loads, and an     *)
(* interrupt may come before each.                                         *)
RunActive ==
  /\ pc = "active"
  /\ Test(dumpActive, "offset")
  /\ OnlyLoads

RunOffset ==
  /\ pc = "offset"
  /\ Test(dumpOffset = 0, "idle")
  /\ OnlyLoads

(* The "started" line is formatted before SendNextChunk is entered.        *)
RunIdle ==
  /\ pc = "idle"
  /\ Test(IsTxIdle("VENDOR"), "total")
  /\ OnlyLoads

(* remaining = sDumpTotal - sDumpOffset, and the length from it            *)
LoadTotal ==
  /\ pc = "total"
  /\ reg' = dumpTotal
  /\ pc' = "length"
  /\ OnlyLoads /\ UNCHANGED <<chunkLen, src, preempts>>

ReadLength ==
  /\ pc = "length"
  /\ chunkLen' = LengthOf(reg, dumpOffset)
  /\ reg' = 0
  /\ pc' = "address"
  /\ OnlyLoads /\ UNCHANGED <<src, preempts>>

(* src = sDumpAddr + sDumpOffset; sDumpAddr is set and cleared along with  *)
(* sDumpTotal, which stands for it.                                        *)
LoadAddr ==
  /\ pc = "address"
  /\ reg' = dumpTotal
  /\ pc' = "source"
  /\ OnlyLoads /\ UNCHANGED <<chunkLen, src, preempts>>

ReadSource ==
  /\ pc = "source"
  /\ src' = SourceOf(reg, dumpOffset)
  /\ reg' = 0
  /\ pc' = "submit"
  /\ OnlyLoads /\ UNCHANGED <<chunkLen, preempts>>

(* VENDOR_Transmit's guards; on refusal SendNextChunk returns.             *)
Submit ==
  /\ pc = "submit"
  /\ Test(TxAccepts("VENDOR"), "arm")
  /\ OnlyLoads

Arm ==
  /\ pc = "arm"
  /\ txBuf' = PacketOf(chunkLen, src)
  /\ txBusy' = [txBusy EXCEPT !["VENDOR"] = TRUE]
  /\ pc' = "start"
  /\ UNCHANGED <<coreVars, epStat, dumpVars, pkt, chunkLen, src, reg, preempts,
                 hostVars, sent, clean, excuses>>

StartXfer ==
  /\ pc = "start"
  /\ pkt' = txBuf
  /\ epStat' = [epStat EXCEPT !["VENDOR"] = "VALID"]
  /\ sent' = sent + chunkLen
  /\ pc' = "credit"
  /\ UNCHANGED <<coreVars, txBusy, dumpVars, txBuf, chunkLen, src, reg, preempts,
                 hostVars, clean, excuses>>

(* sDumpOffset += chunkLen: a load, and a store of the sum.                *)
LoadOffset ==
  /\ pc = "credit"
  /\ reg' = dumpOffset
  /\ pc' = "store"
  /\ OnlyLoads /\ UNCHANGED <<chunkLen, src, preempts>>

StoreOffset ==
  /\ pc = "store"
  /\ dumpOffset' = reg + chunkLen
  /\ reg' = 0
  /\ pc' = "finish"
  /\ UNCHANGED <<usbVars, dumpActive, dumpTotal, dumpDone, txBuf, pkt, chunkLen, src, preempts,
                 hostVars, sent, clean, excuses>>

(* if (sDumpOffset >= sDumpTotal) ...  The first chunk is never the last,  *)
(* so the test holds only of a dump that was aborted before it and that    *)
(* nothing arms again before the main loop is back: no interrupt between   *)
(* these loads and stores could change what they come to.                  *)
Finish ==
  /\ pc = "finish"
  /\ dumpActive' = (dumpActive /\ dumpOffset < dumpTotal)
  /\ dumpDone' = (dumpDone \/ dumpOffset >= dumpTotal)
  /\ Return
  /\ UNCHANGED <<usbVars, dumpTotal, dumpOffset, txBuf, pkt, hostVars, sent, clean, excuses>>

Main ==
  \/ RunDone \/ RunClear \/ RunActive \/ RunOffset \/ RunIdle
  \/ LoadTotal \/ ReadLength \/ LoadAddr \/ ReadSource
  \/ Submit \/ Arm \/ StartXfer \/ LoadOffset \/ StoreOffset \/ Finish
-----------------------------------------------------------------------------
(* Interrupts.                                                             *)

(* Is a chunk on its way that sDumpOffset does not count yet?              *)
Uncredited == pc \in {"credit", "store"}

(* An EP4 packet reaches the host: Composite_DataIn lowers the flag and    *)
(* VendorDump_OnTxCplt queues the next chunk.  The host stops reading at   *)
(* the last byte it expects.                                               *)
DataIn ==
  /\ reading
  /\ InTokenServed("VENDOR")
  /\ pc # "loop" => preempts < MaxPreempt
  /\ preempts' = IF pc = "loop" THEN preempts ELSE preempts + 1
  /\ rx' = IF pkt = Zlp THEN rx ELSE Append(rx, pkt)
  /\ reading' = (Len(rx') < Chunks)
  /\ clean' = (clean /\ ~Uncredited)
  /\ IF DataInReachesClass /\ dumpActive
     THEN SendNextChunkInIsr
     ELSE /\ epStat' = [epStat EXCEPT !["VENDOR"] = "NAK"]
          /\ txBusy' = IF DataInReachesClass THEN [txBusy EXCEPT !["VENDOR"] = FALSE] ELSE txBusy
          /\ UNCHANGED <<dumpVars, txBuf, pkt, sent>>
  /\ UNCHANGED <<coreVars, pc, chunkLen, src, reg, excuses>>

(* VendorDump_Start, arming "total" chunks from chunk "offset".            *)
VendorDump_Start(total, offset) ==
  /\ ~dumpActive
  /\ dumpTotal' = total
  /\ dumpOffset' = offset
  /\ dumpActive' = TRUE
  /\ UNCHANGED dumpDone

(* START_RAM_DUMP accepted.  A dump of 2304 chunks does not fit into one   *)
(* call of SendNextChunk, nor does the time between an abort and the next  *)
(* request of the host, so the main loop is outside it.  Without a handle  *)
(* Composite_Setup fails, while a dump is active the request is refused:   *)
(* no state changes.                                                       *)
StartAccepted ==
  /\ HostTraffic
  /\ ~reading
  /\ hcomp
  /\ pc \notin Sending
  /\ reading' = TRUE
  /\ rx' = <<>>
  /\ sent' = 0
  /\ clean' = (epStat["VENDOR"] # "VALID")
  /\ UNCHANGED <<usbVars, txBuf, pkt, mainVars, excuses>>

(* Mutant: a region one chunk too long.                                    *)
HostStart_OneTooMany == StartAccepted /\ VendorDump_Start(Chunks + 1, 0)

HostStart == StartAccepted /\ VendorDump_Start(Chunks, 0)

(* start_ram_dump ends early: the 5 s read timeout, a closed window, a     *)
(* dropped handle.                                                         *)
HostGiveUp ==
  /\ GiveUps
  /\ reading
  /\ reading' = FALSE
  /\ UNCHANGED <<usbVars, dumpVars, txBuf, pkt, mainVars, rx, sent, clean, excuses>>

(* The host's read fails with the bus.                                     *)
ReadFails == reading' = FALSE /\ UNCHANGED rx

Reset ==
  /\ "reset" \in BusEvents
  /\ LL_Reset
  /\ ReadFails
  /\ UNCHANGED <<dumpVars, txBuf, pkt, mainVars, sent, clean, excuses>>

(* The timing.  The main loop goes round within the 3 ms of idle bus that  *)
(* come before SUSP, and has left SendNextChunk long before a              *)
(* configuration has come down and up again: it is late when it has not.   *)
(* An abort that is not late can still tear the condition of               *)
(* VendorDump_Run, after the load of sDumpActive.                          *)
KickDue == dumpActive /\ dumpOffset = 0 /\ IsTxIdle("VENDOR")

Excuse(late, torn) ==
  excuses' = excuses \cup (IF late THEN {"late"} ELSE {}) \cup (IF torn THEN {"torn"} ELSE {})

AbortTears == pc \in {"offset", "idle"}

Suspend ==
  /\ "suspend" \in BusEvents
  /\ LL_Suspend
  /\ ReadFails
  /\ Excuse(pc \in Sending \/ KickDue, FALSE)
  /\ UNCHANGED <<dumpVars, txBuf, pkt, mainVars, sent, clean>>

(* UsbLifecycle_OnResume                                                   *)
Resume ==
  /\ LL_Resume
  /\ VendorDump_Abort
  /\ Excuse(FALSE, AbortTears)
  /\ UNCHANGED <<txBuf, pkt, mainVars, hostVars, sent, clean>>

Recover ==
  /\ pc \notin Sending
  /\ BusRecovered
  /\ UNCHANGED <<dumpVars, txBuf, pkt, mainVars, hostVars, sent, clean, excuses>>

Address ==
  /\ \E a \in {0, 1} : SetAddress(a)
  /\ UNCHANGED <<dumpVars, txBuf, pkt, mainVars, hostVars, sent, clean, excuses>>

(* Composite_Init calls UsbLifecycle_OnReset, which aborts.                *)
ConfigureUp ==
  /\ SetConfigUp
  /\ VendorDump_Abort
  /\ Excuse(pc \in Sending, AbortTears)
  /\ UNCHANGED <<txBuf, pkt, mainVars, hostVars, sent, clean>>

ConfigureDown ==
  /\ "unconfigure" \in BusEvents
  /\ SetConfigDown \/ SetConfigRefused
  /\ ReadFails
  /\ UNCHANGED <<dumpVars, txBuf, pkt, mainVars, sent, clean, excuses>>

Halt ==
  /\ \E e \in HaltEps : SetHalt(e) \/ ClearHalt(e)
  /\ excuses' = excuses \cup {"halt"}
  /\ UNCHANGED <<dumpVars, txBuf, pkt, mainVars, hostVars, sent, clean>>

Bus ==
  \/ Reset \/ Suspend \/ Resume \/ Recover
  \/ Address \/ ConfigureUp \/ ConfigureDown \/ Halt

Host == DataIn \/ HostStart \/ HostGiveUp

Next == Main \/ Host \/ Bus

Spec == Init /\ [][Next]_vars

(* The main loop never blocks, and a host that is reading polls EP4.       *)
FairSpec == Spec /\ WF_vars(Main) /\ WF_vars(DataIn)
-----------------------------------------------------------------------------
TypeOK ==
  /\ UsbTypeOK
  /\ dumpActive \in BOOLEAN
  /\ dumpTotal \in {0, Chunks}
  /\ dumpOffset \in Nat
  /\ dumpDone \in BOOLEAN
  /\ txBuf \in Packets
  /\ pkt \in Packets
  /\ pc \in PCs
  /\ chunkLen \in 0..1
  /\ src \in Packets
  /\ reg \in 0..Chunks
  /\ preempts \in 0..MaxPreempt
  /\ reading \in BOOLEAN
  /\ rx \in Seq(Packets)
  /\ sent \in Nat
  /\ clean \in BOOLEAN
  /\ excuses \subseteq {"late", "halt", "torn"}

(* While a dump is active, sDumpOffset never runs ahead of the chunks      *)
(* handed to EP4, and the one the main loop has not credited yet is not    *)
(* counted.  A completion between the load and the store of                *)
(* "sDumpOffset += chunkLen" loses the handler's update, and the offset    *)
(* falls behind; nothing else makes it do so.                              *)
SentCoversOffset ==
  dumpActive =>
    LET counted == dumpOffset + (IF Uncredited THEN chunkLen ELSE 0)
    IN /\ counted <= sent
       /\ clean => counted = sent

(* Every full packet comes from SRAM1 or, when an abort has cleared        *)
(* sDumpAddr under the main loop, from address 0: SendNextChunk never      *)
(* reads past the end of SRAM1, although both contexts move sDumpOffset    *)
(* and the unsigned "remaining" would wrap.                                *)
ReadsInsideRam ==
  /\ dumpActive => dumpOffset < Chunks
  /\ txBuf # Chunks /\ pkt # Chunks

(* The host reads the chunks of SRAM1 in order and without gaps, unless    *)
(* the START found an old packet still waiting on EP4, or a completion     *)
(* came before the main loop had credited the first chunk.                 *)
CleanStreamInOrder ==
  clean => rx = [i \in 1..Len(rx) |-> i - 1]

(* A dump that ended by itself handed exactly acceptedLength bytes to EP4, *)
(* under the same two conditions.                                          *)
CleanDumpIsWhole ==
  clean /\ dumpTotal = Chunks /\ ~dumpActive => sent = Chunks

(* Every packet is a chunk of SRAM1 (docs/vendor-protocol.md 131-133), as  *)
(* far as the code keeps it: none is read through a cleared sDumpAddr, and *)
(* an empty one is queued only after an abort (resume or                   *)
(* SET_CONFIGURATION) has fallen between VendorDump_Run's load of          *)
(* sDumpActive and its SendNextChunk, which then runs on the cleared       *)
(* state.  A late main loop and a halted EP4 are excused.                  *)
NoEmptyOrForeignPacket ==
  epStat["VENDOR"] = "VALID" /\ excuses \subseteq {"torn"} =>
    /\ pkt # Junk
    /\ pkt = Zlp => excuses = {"torn"}

(* A host that keeps reading gets its acceptedLength bytes, or the bus     *)
(* fails under it: an accepted dump never hangs, not even one whose chunks *)
(* are out of order or counted too low, unless the main loop is late, an   *)
(* abort tore its condition or an endpoint was halted.                     *)
ReadEnds == reading ~> (~reading \/ excuses # {})
-----------------------------------------------------------------------------
(* docs/vendor-protocol.md 131-133: the firmware streams exactly the       *)
(* accepted region in 64-byte chunks.  A DataIn callback between the main  *)
(* loop's Transmit and its "sDumpOffset += chunkLen" sends chunk 0 twice   *)
(* and leaves a later chunk out.                                           *)
StreamInOrder == rx = [i \in 1..Len(rx) |-> i - 1]

(* docs/vendor-protocol.md 141-144: after suspend and resume the host      *)
(* reissues START_RAM_DUMP and reads the region again from the start.  The *)
(* packet that was waiting when the bus went to sleep comes first.         *)
RetryReadsFromStart == excuses = {} /\ rx # <<>> => rx[1] = 0
=============================================================================
