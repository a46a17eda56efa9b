----------------------------- MODULE ControlPipe -----------------------------
(***************************************************************************)
(* Endpoint 0: the host that issues control requests, the two directions   *)
(* of the endpoint and their completion flags, the interrupt handler that  *)
(* serves the flags (stm32g0xx_hal_pcd.c), ST's request decoder            *)
(* (usbd_core.c, usbd_ctlreq.c, usbd_ioreq.c), and the class and vendor    *)
(* requests (usbd_composite.c, usb_vendor_cmd.c).                          *)
(*                                                                         *)
(* The hardware and the host go on while the handler is pending: the host  *)
(* may send its next SETUP packet before the completion of its last        *)
(* transfer was served.  One pass of the handler is one step; only         *)
(* CLEAR_FEATURE(ENDPOINT_HALT), which arms the endpoint and then changes  *)
(* its mind, takes two.  EP0 uses no other endpoint's state, so the        *)
(* traffic on those is left to the modules about it.                       *)
(***************************************************************************)
EXTENDS UsbComposite

CONSTANTS
  MPS,          \* USB_MAX_EP0_SIZE
  Menus,        \* sets of SETUP packets; a host keeps to one of them
  NoRequest,    \* before the first of them
  LedModes,     \* the values of VendorLedMode_t
  Watched,      \* the settings the host remembers
  MaxEarly,     \* SETUP packets sent before the device was through with the last, per bus reset
  MaxSuspends   \* suspends per bus reset

(* CDC_LINE_CODING_SIZE, HID_KEYBOARD_REPORT_DESC_SIZE, sizeof FirmwareInfo_t *)
(* and VendorResponse_t.                                                   *)
CodingSize == 7
ReportDescSize == 45
InfoSize == 17
ResponseSize == 2

Ops == {"GET_DESCRIPTOR", "SET_ADDRESS", "SET_CONFIGURATION", "GET_CONFIGURATION",
        "GET_STATUS", "SET_FEATURE", "CLEAR_FEATURE", "SET_LINE_CODING", "GET_LINE_CODING",
        "SET_IDLE", "GET_IDLE", "GET_REPORT_DESCRIPTOR", "SET_HALT", "CLEAR_HALT",
        "GET_EP_STATUS", "GET_FIRMWARE_INFO", "SET_REPEAT_ENABLE", "SET_LED_MODE", "UNKNOWN"}

(* A SETUP packet: bmRequestType and bRequest as op, the direction bit as  *)
(* dir, the argument as val (for a descriptor: its length, 0 if there is   *)
(* no such descriptor), wLength as len.                                    *)
Packets8 == [op : Ops, dir : {"in", "out"}, val : Nat, len : Nat]

(* The direction and wLength a host gives each request: only               *)
(* SET_LINE_CODING has an OUT data stage, the SETs have none, and the      *)
(* answers the firmware does not clip to wLength are asked for in full.    *)
InOps == {"GET_DESCRIPTOR", "GET_CONFIGURATION", "GET_STATUS", "GET_LINE_CODING", "GET_IDLE",
          "GET_REPORT_DESCRIPTOR", "GET_EP_STATUS", "GET_FIRMWARE_INFO", "SET_REPEAT_ENABLE",
          "SET_LED_MODE", "UNKNOWN"}
WellFormed(r) ==
  /\ r.dir = IF r.op \in InOps THEN "in" ELSE "out"
  /\ r.dir = "out" => (r.len > 0 <=> r.op = "SET_LINE_CODING")
  /\ r.op = "GET_LINE_CODING" => r.len >= CodingSize
  /\ r.op \in {"GET_IDLE", "GET_EP_STATUS"} => r.len >= 2

Settings == {"config", "wakeup", "coding", "idle", "led", "repeat"}

ASSUME PipeAssumption ==
  /\ MPS \in Nat \ {0}
  /\ NoRequest \in Packets8
  /\ \A M \in Menus : M \subseteq {r \in Packets8 : WellFormed(r)}
  /\ LedModes \subseteq Nat
  /\ Watched \subseteq Settings
  /\ MaxEarly \in Nat
  /\ MaxSuspends \in Nat

Requests == UNION Menus

VARIABLES
  tx, rx,    \* STAT_TX and STAT_RX of EP0
  packet,    \* the packet buffer of EP0 IN: where in the answer, how long, its value;
             \* IN_ep[0].xfer_len is 0 exactly when packet.len is
  ctrTx,     \* CTR_TX pending: an IN packet was taken
  rcv,       \* CTR_RX pending, for "setup", "out" (data) or "zlp"; or "none"
  rxBuf,     \* OUT_ep[0].xfer_buff is not NULL
  ep0,       \* pdev->ep0_state
  rem, total,  \* ep_in[0].rem_length and total_length; read in DATA_IN, 0 elsewhere
  dataLen,   \* pdev->ep0_data_len
  isr,       \* "restall": inside CLEAR_FEATURE(ENDPOINT_HALT)
  usbAddr,   \* hpcd->USB_Address, waiting for the status stage
  daddr,     \* DADDR
  settings,  \* what the requests write besides the device state
  req,       \* the host's request; it is what EP0 received while rcv = "setup"
  stage,     \* where the host is in it, or how it ended
  got,       \* bytes of its answer the host has
  value,     \* the value those bytes hold
  haddr,     \* the address the host sends to
  known, believed,  \* settings the host was told, and what it was told
  menu,      \* the requests this host uses
  faults,    \* early SETUP packets and suspends since the last reset
  whole, late, silent  \* ghosts, see below

ep0Vars == <<tx, rx, packet, rxBuf, ep0, rem, total>>
flagVars == <<ctrTx, rcv>>
addrVars == <<usbAddr, daddr>>
hostVars == <<req, stage, got, value, haddr, known, believed, menu>>
ghostVars == <<whole, late, silent>>
vars == <<usbVars, ep0Vars, flagVars, dataLen, isr, addrVars, settings, hostVars, faults,
          ghostVars>>

Actual(s) == IF s = "config" THEN devConfig ELSE settings[s]

Smaller(m, n) == IF m < n THEN m ELSE n

IsIn(r) == r.dir = "in" /\ r.len > 0
IsOut(r) == r.dir = "out" /\ r.len > 0

InFlight == stage \in {"data_in", "data_out", "status_in", "status_out"}

(* The setting a request is about, if any, and what a host that sees it    *)
(* end well takes the setting to be; a vendor request ends well only if    *)
(* the status in its response says so.                                     *)
Subject(r) ==
  CASE r.op \in {"SET_CONFIGURATION", "GET_CONFIGURATION"} -> {"config"}
    [] (r.op \in {"SET_FEATURE", "CLEAR_FEATURE"} /\ r.val = 1) \/ r.op = "GET_STATUS" -> {"wakeup"}
    [] r.op \in {"SET_LINE_CODING", "GET_LINE_CODING"} -> {"coding"}
    [] r.op \in {"SET_IDLE", "GET_IDLE"} -> {"idle"}
    [] r.op = "SET_LED_MODE" -> {"led"}
    [] r.op = "SET_REPEAT_ENABLE" -> {"repeat"}
    [] OTHER -> {}

Gets == {"GET_CONFIGURATION", "GET_STATUS", "GET_LINE_CODING", "GET_IDLE"}
Told(r, v) ==
  CASE r.op \in Gets -> v
    [] r.op = "SET_FEATURE" -> 1
    [] r.op = "CLEAR_FEATURE" -> 0
    [] r.op = "SET_REPEAT_ENABLE" -> IF r.val = 0 THEN 0 ELSE 1
    [] OTHER -> r.val
Convincing(r, n, v) == r.op \in {"SET_LED_MODE", "SET_REPEAT_ENABLE"} => n > 0 /\ v = 0

-----------------------------------------------------------------------------
(* The ways to answer (usbd_ioreq.c); each is the whole effect on EP0.     *)

(* Mutant: the packet is as long as the answer.                            *)
Transmit_Unsplit(off, n, v) ==
  /\ tx' = "VALID"
  /\ packet' = [off |-> off, len |-> n, val |-> v]

(* USBD_LL_Transmit of n bytes from offset off: HAL_PCD_EP_Transmit and    *)
(* USB_EPStartXfer put the first packet of them into the packet buffer.    *)
Transmit(off, n, v) ==
  /\ tx' = "VALID"
  /\ packet' = [off |-> off, len |-> Smaller(MPS, n), val |-> v]

NoData == rem' = 0 /\ total' = 0

(* Mutant: the buffer is registered, the endpoint not armed.               *)
PrepareReceive_NotArmed(buf) == rxBuf' = buf /\ UNCHANGED rx

(* USBD_LL_PrepareReceive                                                  *)
PrepareReceive(buf) == rx' = "VALID" /\ rxBuf' = buf

CtlSendData(n, v) ==
  /\ ep0' = "DATA_IN"
  /\ total' = n
  /\ rem' = n
  /\ Transmit(0, n, v)
  /\ UNCHANGED <<rx, rxBuf>>

CtlSendStatus ==
  /\ ep0' = "STATUS_IN"
  /\ Transmit(0, 0, 0)
  /\ NoData
  /\ UNCHANGED <<rx, rxBuf>>

CtlPrepareRx ==
  /\ ep0' = "DATA_OUT"
  /\ PrepareReceive(TRUE)
  /\ NoData
  /\ UNCHANGED <<tx, packet>>

(* USBD_LL_StallEP on 0x80, and on 0x00 as well in USBD_CtlError.          *)
StallIn ==
  /\ ep0' = "SETUP"
  /\ tx' = "STALL"
  /\ NoData
  /\ UNCHANGED <<rx, packet, rxBuf>>

CtlError ==
  /\ ep0' = "SETUP"
  /\ tx' = "STALL"
  /\ rx' = "STALL"
  /\ NoData
  /\ UNCHANGED <<packet, rxBuf>>

(* A path through the decoder that reaches none of them.                   *)
NoAnswer ==
  /\ ep0' = "SETUP"
  /\ NoData
  /\ UNCHANGED <<tx, rx, packet, rxBuf>>

Answered == silent' = FALSE
Ignored == silent' = TRUE

-----------------------------------------------------------------------------
(* USBD_StdDevReq: standard requests to the device.                        *)

Keep == UNCHANGED <<usbVars, addrVars, settings, isr>>

(* USBD_GetDescriptor: the descriptor's length is clipped to wLength.      *)
GetDescriptor ==
  /\ req.op = "GET_DESCRIPTOR"
  /\ \/ req.val # 0 /\ req.len # 0 /\ CtlSendData(Smaller(req.val, req.len), 0)
     \/ req.val # 0 /\ req.len = 0 /\ CtlSendStatus
     \/ req.val = 0 /\ CtlError
  /\ Answered
  /\ Keep

(* USBD_SetAddress.  The address waits in hpcd->USB_Address for the status *)
(* stage, except address 0, which USB_SetDevAddress writes at once: the    *)
(* status stage then comes from an address the host does not poll.         *)
SetAddressReq ==
  /\ req.op = "SET_ADDRESS"
  /\ \/ /\ devState = "CONFIGURED"
        /\ CtlError
        /\ Answered
        /\ UNCHANGED <<usbVars, addrVars>>
     \/ /\ SetAddress(req.val)
        /\ CtlSendStatus
        /\ usbAddr' = req.val
        /\ daddr' = IF req.val = 0 THEN 0 ELSE daddr
        /\ silent' = (daddr' # daddr)
  /\ UNCHANGED <<settings, isr>>

(* USBD_SetConfig.  Composite_Init starts with a handle of zeros and the   *)
(* default line coding.                                                    *)
SetConfig ==
  /\ req.op = "SET_CONFIGURATION"
  /\ \/ req.val > 1 /\ CtlError /\ UNCHANGED <<usbVars, settings>>
     \/ req.val = 1 /\ SetConfigUp /\ CtlSendStatus
        /\ settings' = [settings EXCEPT !.coding = 0, !.idle = 0]
     \/ req.val = 0 /\ SetConfigDown /\ CtlSendStatus /\ UNCHANGED settings
     \/ /\ \/ devState = "ADDRESSED" /\ req.val = 0
           \/ devState = "CONFIGURED" /\ req.val = 1
        /\ CtlSendStatus
        /\ UNCHANGED <<usbVars, settings>>
     \/ req.val <= 1 /\ SetConfigRefused /\ CtlError /\ UNCHANGED settings
  /\ Answered
  /\ UNCHANGED <<addrVars, isr>>

(* USBD_GetConfig wants wLength 1, USBD_GetStatus wants 2.                 *)
GetConfig ==
  /\ req.op = "GET_CONFIGURATION"
  /\ IF req.len = 1
     THEN CtlSendData(1, IF devState = "CONFIGURED" THEN devConfig ELSE 0)
     ELSE CtlError
  /\ Answered
  /\ Keep

GetStatus ==
  /\ req.op = "GET_STATUS"
  /\ IF req.len = 2 THEN CtlSendData(2, settings.wakeup) ELSE CtlError
  /\ Answered
  /\ Keep

(* USBD_SetFeature: 1 is REMOTE_WAKEUP, 2 TEST_MODE, which a full-speed    *)
(* build takes and ignores.                                                *)
SetFeature ==
  /\ req.op = "SET_FEATURE"
  /\ IF req.val \in {1, 2} THEN CtlSendStatus ELSE CtlError
  /\ settings' = [settings EXCEPT !.wakeup = IF req.val = 1 THEN 1 ELSE @]
  /\ Answered
  /\ UNCHANGED <<usbVars, addrVars, isr>>

(* USBD_ClrFeature has no else: another feature gets no answer.            *)
ClrFeature ==
  /\ req.op = "CLEAR_FEATURE"
  /\ \/ /\ req.val = 1
        /\ settings' = [settings EXCEPT !.wakeup = 0]
        /\ CtlSendStatus
        /\ Answered
     \/ /\ req.val # 1
        /\ NoAnswer
        /\ Ignored
        /\ UNCHANGED settings
  /\ UNCHANGED <<usbVars, addrVars, isr>>

UnknownReq == req.op = "UNKNOWN" /\ CtlError /\ Answered /\ Keep

-----------------------------------------------------------------------------
(* USBD_StdItfReq and Composite_Setup: requests to the HID and CDC         *)
(* interfaces.  The core adds the status stage of a request without data.  *)
(* Composite_Setup returns without an answer while there is no handle.     *)

ClassDown(ops) == req.op \in ops /\ ~hcomp /\ NoAnswer /\ Ignored /\ Keep

ItfOps == {"SET_LINE_CODING", "GET_LINE_CODING", "SET_IDLE", "GET_IDLE", "GET_REPORT_DESCRIPTOR"}

(* SET_LINE_CODING waits for its data; Composite_EP0_RxReady stores them.  *)
ItfReq ==
  \/ ClassDown(ItfOps)
  \/ /\ hcomp
     /\ \/ req.op = "SET_LINE_CODING" /\ CtlPrepareRx /\ UNCHANGED settings
        \/ req.op = "GET_LINE_CODING" /\ CtlSendData(CodingSize, settings.coding)
           /\ UNCHANGED settings
        \/ req.op = "SET_IDLE" /\ settings' = [settings EXCEPT !.idle = req.val]
           /\ CtlSendStatus
        \/ req.op = "GET_IDLE" /\ CtlSendData(1, settings.idle) /\ UNCHANGED settings
        \/ req.op = "GET_REPORT_DESCRIPTOR" /\ CtlSendData(Smaller(ReportDescSize, req.len), 0)
           /\ UNCHANGED settings
     /\ Answered
     /\ UNCHANGED <<usbVars, addrVars, isr>>

-----------------------------------------------------------------------------
(* USBD_StdEPReq, for the endpoints in HaltEps.                            *)

SetHaltReq ==
  /\ req.op = "SET_HALT"
  /\ \/ \E e \in HaltEps : SetHalt(e) /\ IF devState = "ADDRESSED" THEN StallIn ELSE CtlSendStatus
     \/ devState = "DEFAULT" /\ CtlError /\ UNCHANGED usbVars
  /\ Answered
  /\ UNCHANGED <<addrVars, settings, isr>>

(* When configured, the status stage is armed first, then Composite_Setup  *)
(* is asked about the endpoint as if its number were an interface's, and   *)
(* refuses: the handler goes on to stall EP0.                              *)
ClearHaltReq ==
  /\ req.op = "CLEAR_HALT"
  /\ \/ \E e \in HaltEps :
          /\ ClearHalt(e)
          /\ \/ devState = "ADDRESSED" /\ StallIn /\ UNCHANGED isr
             \/ devState = "CONFIGURED" /\ CtlSendStatus /\ isr' = "restall"
     \/ devState = "DEFAULT" /\ CtlError /\ UNCHANGED <<usbVars, isr>>
  /\ Answered
  /\ UNCHANGED <<addrVars, settings>>

GetEpStatus ==
  /\ req.op = "GET_EP_STATUS"
  /\ IF devState = "CONFIGURED" THEN CtlSendData(2, 0) ELSE CtlError
  /\ Answered
  /\ Keep

-----------------------------------------------------------------------------
(* VendorCmd_HandleSetup, reached through Composite_Setup.  START_RAM_DUMP *)
(* and the log slot belong to VendorDump and CdcLog.                       *)

VendorOps == {"GET_FIRMWARE_INFO", "SET_REPEAT_ENABLE", "SET_LED_MODE"}

Respond(status) == CtlSendData(Smaller(ResponseSize, req.len), status)

VendorReq ==
  \/ ClassDown(VendorOps)
  \/ /\ hcomp
     /\ \/ req.op = "GET_FIRMWARE_INFO" /\ CtlSendData(Smaller(InfoSize, req.len), 0)
           /\ UNCHANGED settings
        \/ req.op = "SET_REPEAT_ENABLE" /\ Respond(0)
           /\ settings' = [settings EXCEPT !.repeat = IF req.val = 0 THEN 0 ELSE 1]
        \/ req.op = "SET_LED_MODE" /\ req.val \in LedModes /\ Respond(0)
           /\ settings' = [settings EXCEPT !.led = req.val]
        \/ req.op = "SET_LED_MODE" /\ req.val \notin LedModes /\ Respond(1)
           /\ UNCHANGED settings
     /\ Answered
     /\ UNCHANGED <<usbVars, addrVars, isr>>

-----------------------------------------------------------------------------
(* The interrupt handler: one pass of PCD_EP_ISR_Handler's loop for EP0.   *)
(* A reception is served before a transmission (ISTR.DIR).                 *)

(* USBD_LL_SetupStage.  A completion that is still pending now belongs to  *)
(* the transfer before; the handler will take it for one of this transfer. *)
SetupStage ==
  /\ isr = "idle" /\ rcv = "setup"
  /\ rcv' = "none"
  /\ dataLen' = req.len
  /\ late' = (late \/ ctrTx)
  /\ \/ GetDescriptor \/ SetAddressReq \/ SetConfig \/ GetConfig \/ GetStatus
     \/ SetFeature \/ ClrFeature \/ UnknownReq
     \/ ItfReq
     \/ SetHaltReq \/ ClearHaltReq \/ GetEpStatus
     \/ VendorReq
  /\ UNCHANGED <<ctrTx, hostVars, faults, whole>>

(* Composite_Setup's verdict on CLEAR_FEATURE(ENDPOINT_HALT); a SETUP      *)
(* packet that came meanwhile is met by the stall of its predecessor.      *)
Restall ==
  /\ isr = "restall"
  /\ isr' = "idle"
  /\ tx' = "STALL"
  /\ rx' = "STALL"
  /\ late' = (late \/ rcv = "setup")
  /\ UNCHANGED <<usbVars, packet, rxBuf, ep0, rem, total, flagVars, dataLen, addrVars,
                 settings, hostVars, faults, whole, silent>>

(* OUT of no bytes: EP0 is made ready for the next one.                    *)
StatusReceived ==
  /\ isr = "idle" /\ rcv = "zlp"
  /\ rcv' = "none"
  /\ rx' = "VALID"
  /\ UNCHANGED <<usbVars, tx, packet, rxBuf, ep0, rem, total, ctrTx, dataLen, isr,
                 addrVars, settings, hostVars, faults, ghostVars>>

(* Mutant: the status stage does not wait for the class.                   *)
DataOutStage_NotStored ==
  /\ isr = "idle" /\ rcv = "out"
  /\ rcv' = "none"
  /\ IF rxBuf /\ ep0 = "DATA_OUT"
     THEN CtlSendStatus
     ELSE UNCHANGED ep0Vars
  /\ UNCHANGED <<usbVars, settings, ctrTx, dataLen, isr, addrVars, hostVars, faults, ghostVars>>

(* USBD_LL_DataOutStage: the data fit one packet; Composite_EP0_RxReady    *)
(* copies them from sEp0Buf into the line coding.                          *)
DataOutStage ==
  /\ isr = "idle" /\ rcv = "out"
  /\ rcv' = "none"
  /\ IF rxBuf /\ ep0 = "DATA_OUT"
     THEN /\ settings' = IF DataInReachesClass
                         THEN [settings EXCEPT !.coding = req.val] ELSE settings
          /\ CtlSendStatus
     ELSE UNCHANGED <<settings, ep0Vars>>
  /\ UNCHANGED <<usbVars, ctrTx, dataLen, isr, addrVars, hostVars, faults, ghostVars>>

(* Mutant: no packet of no bytes.                                          *)
NeedsZlp_Never == FALSE

(* The answer ended with a full packet and is shorter than wLength: the    *)
(* host waits for a packet of no bytes.                                    *)
NeedsZlp == rem = MPS /\ total >= MPS /\ total < dataLen

(* IN completion: USBD_LL_DataInStage sends the next packet or the one of  *)
(* no bytes, or turns to the status stage; then the handler puts a waiting *)
(* address into DADDR if nothing of the transfer was left to send.         *)
DataInStage ==
  /\ isr = "idle" /\ rcv = "none" /\ ctrTx
  /\ ctrTx' = FALSE
  /\ \/ /\ ep0 = "DATA_IN" /\ rem > MPS
        /\ rem' = rem - MPS
        /\ Transmit(packet.off + packet.len, rem', packet.val)
        /\ PrepareReceive(FALSE)
        /\ UNCHANGED <<ep0, total, dataLen>>
     \/ /\ ep0 = "DATA_IN" /\ rem <= MPS /\ NeedsZlp
        /\ Transmit(packet.off + packet.len, 0, packet.val)
        /\ dataLen' = 0
        /\ PrepareReceive(FALSE)
        /\ UNCHANGED <<ep0, rem, total>>
     \/ /\ ep0 = "DATA_IN" /\ rem <= MPS /\ ~NeedsZlp
        /\ ep0' = "STATUS_OUT"
        /\ tx' = "STALL"
        /\ PrepareReceive(FALSE)
        /\ NoData
        /\ UNCHANGED <<packet, dataLen>>
     \/ ep0 # "DATA_IN" /\ UNCHANGED <<ep0Vars, dataLen>>
  /\ IF usbAddr > 0 /\ packet'.len = 0 THEN usbAddr' = 0 /\ daddr' = usbAddr ELSE UNCHANGED addrVars
  /\ UNCHANGED <<usbVars, rcv, isr, settings, hostVars, faults, ghostVars>>

-----------------------------------------------------------------------------
(* The host and the endpoint's hardware.                                   *)

(* The device hears the host, and EP0 is open.                             *)
HostTalks == HostTraffic /\ haddr = daddr /\ tx # "DIS"

Forgotten(r) ==
  IF r.op \in Gets THEN {}
  ELSE Subject(r) \cup IF r.op = "SET_CONFIGURATION" THEN {"coding", "idle"} ELSE {}

Believe(K, b) ==
  /\ known' = K \cap Watched
  /\ believed' = [s \in Settings |-> IF s \in K \cap Watched THEN b[s] ELSE 0]

(* The status stage went well: the host knows the setting and, after       *)
(* SET_ADDRESS, sends to the new address.                                  *)
EndsWell ==
  /\ stage' = "done"
  /\ LET s == IF Convincing(req, got, value) THEN Subject(req) ELSE {} IN
     Believe(known \cup s, [x \in Settings |-> IF x \in s THEN Told(req, value) ELSE believed[x]])
  /\ haddr' = IF req.op = "SET_ADDRESS" THEN req.val ELSE haddr
  /\ UNCHANGED <<req, got, value>>

(* A SETUP packet, which the endpoint takes whatever its status, except    *)
(* while a reception waits for the handler.  The host may give up on a     *)
(* request, but one that may have changed the address it repeats.  What    *)
(* follows a late completion is not explored past the transfer it hit.     *)
HostSetup(r) ==
  /\ HostTalks
  /\ ~late
  /\ rcv = "none"
  /\ InFlight \/ ctrTx => faults.early < MaxEarly
  /\ InFlight /\ req.op = "SET_ADDRESS" => r = req
  /\ faults' = [faults EXCEPT !.early = IF InFlight \/ ctrTx THEN @ + 1 ELSE @]
  /\ req' = r
  /\ stage' = IF IsIn(r) THEN "data_in" ELSE IF IsOut(r) THEN "data_out" ELSE "status_in"
  /\ rcv' = "setup"
  /\ tx' = "NAK"
  /\ rx' = "NAK"
  /\ got' = 0
  /\ value' = 0
  /\ whole' = TRUE
  /\ silent' = FALSE
  /\ Believe(known \ Forgotten(r), believed)
  /\ UNCHANGED <<usbVars, packet, rxBuf, ep0, rem, total, ctrTx, dataLen, isr, addrVars,
                 settings, haddr, menu, late>>

(* An IN token answered by the packet in the buffer: of the data stage, or *)
(* of the status stage, which the host wants empty.                        *)
HostIn ==
  /\ HostTalks /\ tx = "VALID"
  /\ tx' = "NAK"
  /\ ctrTx' = TRUE
  /\ \/ /\ stage = "data_in"
        /\ got' = got + packet.len
        /\ value' = packet.val
        /\ whole' = (whole /\ packet.off = got)
        /\ stage' = IF packet.len < MPS \/ got' >= req.len THEN "status_out" ELSE stage
        /\ UNCHANGED <<req, haddr, known, believed>>
     \/ /\ stage = "status_in"
        /\ packet.len = 0
        /\ EndsWell
        /\ UNCHANGED whole
  /\ UNCHANGED <<usbVars, rx, packet, rxBuf, ep0, rem, total, rcv, dataLen, isr, addrVars,
                 settings, menu, faults, late, silent>>

(* The packet of an OUT data stage.                                        *)
HostOut ==
  /\ HostTalks /\ rx = "VALID"
  /\ stage = "data_out"
  /\ stage' = "status_in"
  /\ rx' = "NAK"
  /\ rcv' = "out"
  /\ UNCHANGED <<usbVars, tx, packet, rxBuf, ep0, rem, total, ctrTx, dataLen, isr,
                 addrVars, settings, req, got, value, haddr, known, believed, menu, faults, ghostVars>>

(* The status stage of an IN transfer: an OUT packet of no bytes.          *)
HostOutStatus ==
  /\ HostTalks /\ rx = "VALID"
  /\ stage = "status_out"
  /\ rx' = "NAK"
  /\ rcv' = "zlp"
  /\ EndsWell
  /\ UNCHANGED <<usbVars, tx, packet, rxBuf, ep0, rem, total, ctrTx, dataLen, isr,
                 addrVars, settings, menu, faults, ghostVars>>

(* A token answered by STALL: the request is refused.                      *)
HostStalled ==
  /\ HostTalks
  /\ \/ stage \in {"data_in", "status_in"} /\ tx = "STALL"
     \/ stage \in {"data_out", "status_out"} /\ rx = "STALL"
  /\ stage' = "stalled"
  /\ UNCHANGED <<usbVars, ep0Vars, flagVars, dataLen, isr, addrVars, settings, req, got, value,
                 haddr, known, believed, menu, faults, ghostVars>>

-----------------------------------------------------------------------------
(* The bus.  The handler serves completions before RESET and SUSP          *)
(* (HAL_PCD_IRQHandler), and neither the host nor the hardware starts a    *)
(* transfer meanwhile.                                                     *)

Served == ~ctrTx /\ rcv = "none" /\ isr = "idle"

(* Mutant: the address waiting for a status stage survives.                *)
ClearAddress_Partly == daddr' = 0 /\ UNCHANGED usbAddr

(* HAL_PCD_SetAddress(0)                                                   *)
ClearAddress == daddr' = 0 /\ usbAddr' = 0

(* USBD_LL_Reset and HAL_PCD_SetAddress(0); EP0 is opened again.  The host *)
(* drops its transfer and what it knew of the configuration.               *)
Reset ==
  /\ Served
  /\ LL_Reset
  /\ rx' = "VALID" /\ tx' = "NAK" /\ ep0' = "IDLE" /\ NoData
  /\ ClearAddress
  /\ haddr' = 0
  /\ settings' = [settings EXCEPT !.wakeup = 0]
  /\ stage' = "idle" /\ req' = NoRequest /\ got' = 0 /\ value' = 0
  /\ Believe((known \ {"coding", "idle"}) \cup {"config", "wakeup"},
             [believed EXCEPT !.config = 0, !.wakeup = 0])
  /\ faults' = [early |-> 0, suspends |-> 0]
  /\ whole' = TRUE /\ late' = FALSE /\ silent' = FALSE
  /\ UNCHANGED <<packet, rxBuf, flagVars, dataLen, isr, menu>>

pipeVars == <<ep0Vars, flagVars, dataLen, isr, addrVars, settings, hostVars, ghostVars>>

Suspend ==
  /\ Served
  /\ faults.suspends < MaxSuspends
  /\ faults' = [faults EXCEPT !.suspends = @ + 1]
  /\ LL_Suspend
  /\ UNCHANGED pipeVars

Resume == LL_Resume /\ UNCHANGED <<pipeVars, faults>>
Recover == BusRecovered /\ UNCHANGED <<pipeVars, faults>>

-----------------------------------------------------------------------------
Init ==
  /\ UsbInit
  /\ tx = "DIS" /\ rx = "DIS"
  /\ packet = [off |-> 0, len |-> 0, val |-> 0]
  /\ ctrTx = FALSE /\ rcv = "none"
  /\ rxBuf = FALSE
  /\ ep0 = "IDLE" /\ rem = 0 /\ total = 0 /\ dataLen = 0
  /\ isr = "idle"
  /\ usbAddr = 0 /\ daddr = 0 /\ haddr = 0
  /\ settings = [s \in Settings \ {"config"} |-> IF s = "repeat" THEN 1 ELSE 0]
  /\ req = NoRequest /\ stage = "idle" /\ got = 0 /\ value = 0
  /\ menu \in Menus
  /\ known = {} /\ believed = [s \in Settings |-> 0]
  /\ faults = [early |-> 0, suspends |-> 0]
  /\ whole = TRUE /\ late = FALSE /\ silent = FALSE

Handler == SetupStage \/ Restall \/ StatusReceived \/ DataOutStage \/ DataInStage
HostStep == HostIn \/ HostOut \/ HostOutStatus \/ HostStalled

Next ==
  \/ Handler
  \/ HostStep
  \/ \E r \in menu : HostSetup(r)
  \/ Reset \/ Suspend \/ Resume \/ Recover

Spec == Init /\ [][Next]_vars

(* The interrupt is served, the host polls, a suspend and the recovery     *)
(* time end.                                                               *)
FairSpec ==
  /\ Spec
  /\ WF_vars(Handler)
  /\ WF_vars(HostStep)
  /\ WF_vars(Resume)
  /\ WF_vars(Recover)

-----------------------------------------------------------------------------
Stages == {"idle", "done", "stalled", "data_in", "data_out", "status_in", "status_out"}

(* Every variable has its type.                                            *)
TypeOK ==
  /\ UsbTypeOK
  /\ tx \in EpStats /\ rx \in EpStats
  /\ packet \in [off : Nat, len : 0..MPS, val : Nat]
  /\ ctrTx \in BOOLEAN /\ rcv \in {"none", "setup", "out", "zlp"}
  /\ rxBuf \in BOOLEAN
  /\ ep0 \in {"IDLE", "SETUP", "DATA_IN", "DATA_OUT", "STATUS_IN", "STATUS_OUT"}
  /\ rem \in Nat /\ total \in Nat /\ dataLen \in Nat
  /\ isr \in {"idle", "restall"}
  /\ usbAddr \in Nat /\ daddr \in Nat /\ haddr \in Nat
  /\ settings \in [Settings \ {"config"} -> Nat]
  /\ req \in Requests \cup {NoRequest}
  /\ stage \in Stages
  /\ got \in Nat /\ value \in Nat
  /\ menu \in Menus
  /\ known \subseteq Watched /\ believed \in [Settings -> Nat]
  /\ faults \in [early : 0..MaxEarly, suspends : 0..MaxSuspends]
  /\ whole \in BOOLEAN /\ late \in BOOLEAN /\ silent \in BOOLEAN

(* What the host was told by requests that ended well is what the device   *)
(* does, in any order of requests, aborts, suspends and resets: a setting  *)
(* is written before its status stage can end, and by nothing else.        *)
BeliefHolds == \A s \in known : believed[s] = Actual(s)

(* Once the handler has served what is pending, the device listens where   *)
(* the host talks: DADDR changes neither before the status stage of        *)
(* SET_ADDRESS nor for a request the host gave up on.                      *)
AddressAgrees == Served => haddr = daddr \/ late \/ silent

(* A transfer ends, by its status stage, by STALL, or because the host     *)
(* resets or starts over; except one the firmware leaves unanswered        *)
(* (silent) and one hit by the completion of its predecessor (late).       *)
RequestsEnd == InFlight ~> (~InFlight \/ silent \/ late)

-----------------------------------------------------------------------------
(* The abstract transfer, as the host sees it.  A late completion is where *)
(* the device loses track of it; bytes out of place, or a data stage cut   *)
(* short, are in no stage.                                                 *)
stageBar ==
  IF late THEN "idle"
  ELSE IF ~whole THEN "corrupt"
  ELSE IF ~InFlight THEN stage
  ELSE IF rcv = "setup" THEN "setup"
  ELSE IF stage = "status_out" THEN "status"
  ELSE IF stage = "data_in" /\ ep0 = "DATA_IN" THEN "data"
  ELSE IF stage # "data_in" /\ ep0 \in {"DATA_OUT", "STATUS_IN", "DATA_IN"} THEN "status"
  ELSE IF ep0 = "SETUP" /\ got = 0 THEN "setup"
  ELSE "corrupt"

Transfer == INSTANCE ControlTransfer WITH
  stage <- stageBar,
  req <- IF late THEN NoRequest ELSE req,
  size <- IF stageBar = "data" THEN total ELSE 0,
  got <- IF stageBar = "data" THEN got ELSE 0

(* The pipe answers each request once, with all of its data in order and   *)
(* an end the host can see, under every interleaving with the handler.     *)
ImplementsTransfer == Transfer!TransferSpec
=============================================================================
