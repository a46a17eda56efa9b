------------------------------- MODULE CdcLog -------------------------------
(***************************************************************************)
(* The debug log: the one-event slots that the EP0 handler                 *)
(* (usb_vendor_cmd.c) and the bus callbacks (usb_lifecycle.c) leave for    *)
(* the main loop, the ring buffer of usb_cdc_log.c, its way over EP3, and  *)
(* the host that opens and closes the port.                                *)
(*                                                                         *)
(* Lengths are counted in cells, a fraction of a packet.  The cells the    *)
(* ring has accepted are numbered, so a cell is its number; which line it  *)
(* belongs to does not matter once it is there.  Events are numbered per   *)
(* slot, and the value an event leaves for its line is its number.         *)
(***************************************************************************)
EXTENDS UsbComposite, Integers, Sequences

CONSTANTS
  BufSize,      \* CDC_LOG_BUF_SIZE
  LineLen,      \* length of a log line
  PacketLen,    \* COMP_CDC_DATA_EP_SIZE
  BusEvents,    \* which of "reset", "suspend", "unconfigure" the environment may produce
  MaxRequests,  \* how many vendor requests the host makes (a bound)
  MaxBusEvents, \* how many lifecycle events there are (a bound)
  MaxOpens      \* how often the host opens the port (a bound)

ASSUME LogAssumption ==
  /\ BufSize \in Nat \ {0} /\ LineLen \in Nat \ {0} /\ PacketLen \in Nat \ {0}
  /\ BusEvents \subseteq {"reset", "suspend", "unconfigure"}
  /\ MaxRequests \in Nat /\ MaxBusEvents \in Nat /\ MaxOpens \in Nat

Slots == {"VREQ", "USB"}   \* sPendingLog of usb_vendor_cmd.c, of usb_lifecycle.c
Places == 0..(BufSize - 1)

VARIABLES
  ring, writeIdx, readIdx,  \* sRingBuf, sWriteIdx, sReadIdx
  wasConnected,    \* sWasHostConnected
  greeting,        \* sGreetingPending
  waited,          \* have 100 ms passed since sConnectedAtMs?
  hostConnected,   \* hcomp->cdcHostConnected (DTR), static memory as the flags
  pending,         \* sPendingLog: which event, and whether its line prints the value
  value,           \* sPendingLogVal, sPendingLogCount: the event that wrote it last
  raised,          \* how many events the slot has been given
  pc, slot,        \* where the main loop is, and in which FlushPendingLog
  evt, val,        \* FlushPendingLog's locals
  scratch,         \* sTxScratch
  pkt,             \* the packet in EP3's packet memory
  accepted,        \* ghost: cells the ring has accepted
  lastRead, gap,   \* ghost: the last cell the host has read; has it missed one so far?
  logged,          \* ghost: the last event of the slot whose line was written
  suspendCell,     \* ghost: the last cell of a SUSPEND line that fitted, until it is read
  lastSuspend,     \* ghost: the number of the last suspend event
  opens, greetings, \* ghost: how often DTR rose, how often the greeting was written
  disturbed        \* ghost: has the bus been reset, suspended or unconfigured?

ringVars == <<ring, writeIdx, readIdx, accepted>>
connVars == <<wasConnected, greeting, greetings>>
slotVars == <<pending, value, raised, lastSuspend>>
flushVars == <<slot, evt, val, logged>>
mainVars == <<ringVars, connVars, pc, flushVars, scratch>>
readVars == <<lastRead, gap, suspendCell>>
hostVars == <<hostConnected, opens, readVars>>
vars == <<usbVars, mainVars, waited, slotVars, pkt, hostVars, disturbed>>

None == [n |-> 0, prints |-> FALSE]
Smaller(a, b) == IF a < b THEN a ELSE b
-----------------------------------------------------------------------------
(* The ring buffer.  One place is kept free to tell full from empty.       *)

Used == (writeIdx - readIdx) % BufSize

(* Mutant: the ring is filled up.                                          *)
Free_All == BufSize - Used

Free == BufSize - 1 - Used

(* Mutant: the index is not masked.                                        *)
Advance_NoMask(index, n) == index + n

Advance(index, n) == (index + n) % BufSize

(* CdcLog_Write: what does not fit is dropped.                             *)
Write(len) ==
  LET n == Smaller(len, Free)
      Nth(p) == (p - writeIdx) % BufSize
  IN /\ ring' = [p \in Places |-> IF Nth(p) < n THEN accepted + Nth(p) + 1 ELSE ring[p]]
     /\ writeIdx' = Advance(writeIdx, n)
     /\ accepted' = accepted + n
     /\ UNCHANGED readIdx

(* Mutant: the last byte of a packet stays in the ring.                    *)
Pop_KeepsLast(n) ==
  /\ scratch' = [i \in 1..n |-> ring[Advance(readIdx, i - 1)]]
  /\ readIdx' = Advance(readIdx, IF n = PacketLen THEN n - 1 ELSE n)
  /\ UNCHANGED <<ring, writeIdx, accepted>>

(* RingBuf_Pop                                                             *)
Pop(n) ==
  /\ scratch' = [i \in 1..n |-> ring[Advance(readIdx, i - 1)]]
  /\ readIdx' = Advance(readIdx, n)
  /\ UNCHANGED <<ring, writeIdx, accepted>>

(* HID_Keyboard_Init has logged two lines before the first round.          *)
Booted == Smaller(2 * LineLen, BufSize - 1)

Init ==
  /\ UsbInit
  /\ ring = [p \in Places |-> IF p < Booted THEN p + 1 ELSE 0]
  /\ writeIdx = Booted % BufSize /\ readIdx = 0 /\ accepted = Booted
  /\ wasConnected = FALSE /\ greeting = FALSE /\ waited = FALSE /\ hostConnected = FALSE
  /\ pending = [s \in Slots |-> None] /\ value = [s \in Slots |-> 0]
  /\ raised = [s \in Slots |-> 0]
  /\ pc = "run" /\ slot = "VREQ" /\ evt = None /\ val = 0
  /\ scratch = <<>> /\ pkt = <<>>
  /\ lastRead = 0 /\ gap = FALSE /\ logged = [s \in Slots |-> 0]
  /\ suspendCell = 0 /\ lastSuspend = 0
  /\ opens = 0 /\ greetings = 0 /\ disturbed = FALSE
-----------------------------------------------------------------------------
(* The main loop: CdcLog_Run, then the two FlushPendingLog.                *)

(* USBD_COMPOSITE_CDC_IsHostConnected                                      *)
IsHostConnected == hcomp /\ hostConnected

(* Mutant: the greeting stays due.                                         *)
GreetingAfter_Stays(conn) == conn /\ (greeting \/ ~wasConnected)

(* CdcLog_UpdateConnection: is the greeting due, is it pending afterwards? *)
GreetingDue(conn) == conn /\ wasConnected /\ greeting /\ waited
GreetingAfter(conn) == conn /\ (greeting \/ ~wasConnected) /\ ~GreetingDue(conn)

RunConnection ==
  LET conn == IsHostConnected
  IN /\ pc = "run"
     /\ wasConnected' = conn
     /\ greeting' = GreetingAfter(conn)
     /\ waited' = (waited /\ conn /\ wasConnected)
     /\ IF GreetingDue(conn)
        THEN Write(LineLen) /\ greetings' = greetings + 1
        ELSE UNCHANGED <<ringVars, greetings>>
     /\ pc' = IF conn THEN "idle" ELSE "event"
     /\ UNCHANGED <<usbVars, flushVars, scratch, slotVars, pkt, hostVars, disturbed>>

(* Mutant: only full packets are sent.                                     *)
SendDue_FullPacket == IsTxIdle("CDC") /\ Used >= PacketLen

SendDue == IsTxIdle("CDC") /\ Used # 0

(* The packet leaves the ring before CDC_Transmit can refuse it.           *)
RunPop ==
  /\ pc = "idle"
  /\ IF SendDue
     THEN Pop(Smaller(Used, PacketLen)) /\ pc' = "submit"
     ELSE pc' = "event" /\ UNCHANGED <<ringVars, scratch>>
  /\ UNCHANGED <<usbVars, connVars, flushVars, waited, slotVars, pkt, hostVars, disturbed>>

(* USBD_COMPOSITE_CDC_Transmit: guards, flag, transfer.  CdcLog_Run        *)
(* throws the result away, and with it the bytes of a refused packet.      *)
Submit ==
  /\ pc = "submit"
  /\ pc' = IF TxAccepts("CDC") THEN "arm" ELSE "event"
  /\ UNCHANGED <<usbVars, ringVars, connVars, flushVars, scratch, waited, slotVars, pkt,
                 hostVars, disturbed>>

Arm ==
  /\ pc = "arm"
  /\ txBusy' = [txBusy EXCEPT !["CDC"] = TRUE]
  /\ pc' = "start"
  /\ UNCHANGED <<coreVars, epStat, ringVars, connVars, flushVars, scratch, waited, slotVars, pkt,
                 hostVars, disturbed>>

StartXfer ==
  /\ pc = "start"
  /\ pkt' = scratch
  /\ epStat' = [epStat EXCEPT !["CDC"] = "VALID"]
  /\ pc' = "event"
  /\ scratch' = <<>>   \* nobody reads it any more
  /\ UNCHANGED <<coreVars, txBusy, ringVars, connVars, flushVars, waited, slotVars, hostVars,
                 disturbed>>

(* On to the next slot, or round the loop.                                 *)
FlushDone ==
  /\ pc' = IF slot = "VREQ" THEN "event" ELSE "run"
  /\ slot' = IF slot = "VREQ" THEN "USB" ELSE "VREQ"

FlushEmpty ==
  /\ pc = "event" /\ pending[slot] = None
  /\ FlushDone
  /\ UNCHANGED <<usbVars, ringVars, connVars, evt, val, logged, scratch, waited,
                 slotVars, pkt, hostVars, disturbed>>

ReadEvent ==
  /\ pc = "event" /\ pending[slot] # None
  /\ evt' = pending[slot]
  /\ pc' = "value"
  /\ UNCHANGED <<usbVars, ringVars, connVars, slot, val, logged, scratch, waited,
                 slotVars, pkt, hostVars, disturbed>>

ReadValue ==
  /\ pc = "value"
  /\ val' = value[slot]
  /\ pc' = "clear"
  /\ UNCHANGED <<usbVars, ringVars, connVars, slot, evt, logged, scratch, waited,
                 slotVars, pkt, hostVars, disturbed>>

(* Mutant: the event is not cleared.                                       *)
Cleared_Not == pending

Cleared == [pending EXCEPT ![slot] = None]

(* The slot is cleared, whatever it holds by now; then the line is written.*)
ClearAndPrint ==
  /\ pc = "clear"
  /\ pending' = Cleared
  /\ Write(LineLen)
  /\ logged' = [logged EXCEPT ![slot] = evt.n]
  /\ suspendCell' = IF slot = "USB" /\ evt.n = lastSuspend /\ Free >= LineLen
                    THEN accepted + LineLen ELSE suspendCell
  /\ evt' = None /\ val' = 0
  /\ FlushDone
  /\ UNCHANGED <<usbVars, connVars, scratch, waited, value, raised, lastSuspend, pkt,
                 hostConnected, opens, lastRead, gap, disturbed>>

Main ==
  \/ RunConnection \/ RunPop \/ Submit \/ Arm \/ StartXfer
  \/ FlushEmpty \/ ReadEvent \/ ReadValue \/ ClearAndPrint
-----------------------------------------------------------------------------
(* Interrupts and the host.                                                *)

(* Mutant: sPendingLogVal is not assigned.                                 *)
Raise_KeepsValue(s, prints) ==
  /\ raised' = [raised EXCEPT ![s] = @ + 1]
  /\ pending' = [pending EXCEPT ![s] = [n |-> raised[s] + 1, prints |-> prints]]
  /\ UNCHANGED value

(* An event takes the slot, over the one that may still be there; one      *)
(* whose line has a value to print leaves it too.                          *)
Raise(s, prints) ==
  /\ raised' = [raised EXCEPT ![s] = @ + 1]
  /\ pending' = [pending EXCEPT ![s] = [n |-> raised[s] + 1, prints |-> prints]]
  /\ value' = IF prints THEN [value EXCEPT ![s] = raised[s] + 1] ELSE value

(* VendorCmd_HandleSetup: SET_REPEAT_ENABLE, SET_LED_MODE, and an accepted *)
(* START_RAM_DUMP print a value, GET_FIRMWARE_INFO and a refused one do    *)
(* not; an unknown request leaves no event.                                *)
HandleSetup ==
  /\ HostTraffic /\ hcomp
  /\ raised["VREQ"] < MaxRequests
  /\ \E prints \in BOOLEAN : Raise("VREQ", prints)
  /\ UNCHANGED <<usbVars, mainVars, waited, lastSuspend, pkt, hostVars, disturbed>>

(* SET_CONTROL_LINE_STATE: the host opens or closes the port.              *)
SetControlLineState ==
  /\ HostTraffic /\ hcomp
  /\ \/ ~hostConnected /\ opens < MaxOpens /\ hostConnected' = TRUE /\ opens' = opens + 1
     \/ hostConnected /\ hostConnected' = FALSE /\ UNCHANGED opens
  /\ UNCHANGED <<usbVars, mainVars, waited, slotVars, pkt, readVars, disturbed>>

(* The host reads EP3; it polls no endpoint of an unconfigured device.     *)
DataIn ==
  /\ InTokenServed("CDC") /\ DataInReachesClass
  /\ epStat' = [epStat EXCEPT !["CDC"] = "NAK"]
  /\ txBusy' = [txBusy EXCEPT !["CDC"] = FALSE]
  /\ lastRead' = pkt[Len(pkt)]
  /\ gap' = (gap \/ lastRead + Len(pkt) # pkt[Len(pkt)])
  /\ suspendCell' = IF suspendCell \in pkt[1]..pkt[Len(pkt)] THEN 0 ELSE suspendCell
  /\ pkt' = <<>>        \* nobody reads it any more
  /\ UNCHANGED <<coreVars, mainVars, waited, slotVars, hostConnected, opens, disturbed>>

(* HAL_GetTick reaches sConnectedAtMs + 100.                               *)
Wait ==
  /\ greeting /\ ~waited
  /\ waited' = TRUE
  /\ UNCHANGED <<usbVars, mainVars, slotVars, pkt, hostVars, disturbed>>

Reset ==
  /\ "reset" \in BusEvents
  /\ LL_Reset
  /\ disturbed' = TRUE
  /\ UNCHANGED <<mainVars, waited, slotVars, pkt, hostVars>>

(* UsbLifecycle_OnSuspend; a resume must still fit under MaxBusEvents.     *)
Suspend ==
  /\ "suspend" \in BusEvents
  /\ raised["USB"] + 2 <= MaxBusEvents
  /\ LL_Suspend
  /\ Raise("USB", TRUE)
  /\ lastSuspend' = raised["USB"] + 1
  /\ disturbed' = TRUE
  /\ UNCHANGED <<mainVars, waited, pkt, hostVars>>

Resume ==
  /\ LL_Resume
  /\ Raise("USB", TRUE)
  /\ UNCHANGED <<mainVars, waited, lastSuspend, pkt, hostVars, disturbed>>

Recover ==
  /\ pc \notin {"submit", "arm", "start"}
  /\ BusRecovered
  /\ UNCHANGED <<mainVars, waited, slotVars, pkt, hostVars, disturbed>>

Address ==
  /\ \E a \in {0, 1} : SetAddress(a)
  /\ UNCHANGED <<mainVars, waited, slotVars, pkt, hostVars, disturbed>>

(* Composite_Init: DTR is forgotten, UsbLifecycle_OnReset takes the slot.  *)
ConfigureUp ==
  /\ raised["USB"] < MaxBusEvents
  /\ SetConfigUp
  /\ hostConnected' = FALSE
  /\ Raise("USB", TRUE)
  /\ UNCHANGED <<mainVars, waited, lastSuspend, pkt, opens, readVars, disturbed>>

ConfigureDown ==
  /\ "unconfigure" \in BusEvents
  /\ SetConfigDown \/ SetConfigRefused
  /\ disturbed' = TRUE
  /\ UNCHANGED <<mainVars, waited, slotVars, pkt, hostVars>>

Bus == Reset \/ Suspend \/ Resume \/ Recover \/ Address \/ ConfigureUp \/ ConfigureDown

Next == Main \/ HandleSetup \/ SetControlLineState \/ DataIn \/ Wait \/ Bus

Spec == Init /\ [][Next]_vars

(* The main loop never blocks; the host reads an open port and wakes a bus *)
(* it has suspended.                                                       *)
FairSpec ==
  /\ Spec
  /\ WF_vars(Main)
  /\ WF_vars(hostConnected /\ DataIn)
  /\ WF_vars(Recover) /\ WF_vars(Resume)
-----------------------------------------------------------------------------
(* Every variable has its type; the indices stay inside the buffer and a   *)
(* packet inside its endpoint.                                             *)
TypeOK ==
  /\ UsbTypeOK
  /\ ring \in [Places -> Nat] /\ writeIdx \in Places /\ readIdx \in Places
  /\ accepted \in Nat
  /\ wasConnected \in BOOLEAN /\ greeting \in BOOLEAN /\ waited \in BOOLEAN
  /\ hostConnected \in BOOLEAN
  /\ pending \in [Slots -> [n : Nat, prints : BOOLEAN]]
  /\ value \in [Slots -> Nat] /\ raised \in [Slots -> Nat] /\ logged \in [Slots -> Nat]
  /\ pc \in {"run", "idle", "submit", "arm", "start", "event", "value", "clear"}
  /\ slot \in Slots
  /\ evt \in [n : Nat, prints : BOOLEAN] /\ val \in Nat
  /\ scratch \in Seq(Nat) /\ pkt \in Seq(Nat)
  /\ {Len(scratch), Len(pkt)} \subseteq 0..PacketLen
  /\ lastRead \in Nat /\ gap \in BOOLEAN
  /\ suspendCell \in Nat /\ lastSuspend \in Nat
  /\ opens \in Nat /\ greetings \in Nat
  /\ disturbed \in BOOLEAN

(* On an undisturbed bus the host reads exactly what the ring accepted,    *)
(* without a gap: overflow drops the newest bytes only, and a packet that  *)
(* has left the ring is never refused.                                     *)
StreamContiguous == ~disturbed => ~gap

(* Whatever happens on the bus, no byte reaches the host twice or after a  *)
(* later one.                                                              *)
NeverRepeated ==
  [][DataIn => lastRead < pkt[1] /\ \A i \in 2..Len(pkt) : pkt[i - 1] < pkt[i]]_vars

(* The lines of a slot are written in the order of their events, none      *)
(* twice, although an event can take the slot at any point of the flush.   *)
EventsInOrder == [][ClearAndPrint => logged[slot] < evt.n]_vars

(* A line prints the value of its own event or, when a newer event came    *)
(* between the two loads, the newer one's; never an older one's.           *)
ValueNotStale == pc = "clear" /\ evt.prints => evt.n <= val

(* The port is greeted at most once each time it is opened, whenever the   *)
(* main loop notices that DTR has changed.                                 *)
GreetedOncePerOpening == greetings <= opens

(* While the port is open the log drains, again and again, whatever        *)
(* happens on the bus.                                                     *)
LogDrains == []<>(Used = 0 \/ ~IsHostConnected)
-----------------------------------------------------------------------------
(* usb_lifecycle.h 7: "reports each event over CDC log for evidence".  The *)
(* main loop goes on while the bus sleeps: it writes the SUSPEND line into *)
(* the ring, takes it out again and hands it to CDC_Transmit, which        *)
(* refuses a suspended device.                                             *)
SuspendReported ==
  (suspendCell # 0 /\ IsHostConnected) ~> (suspendCell = 0 \/ ~IsHostConnected)
=============================================================================
