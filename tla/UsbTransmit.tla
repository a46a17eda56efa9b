----------------------------- MODULE UsbTransmit -----------------------------
(***************************************************************************)
(* The transmit path shared by the HID, CDC and vendor channels: the main  *)
(* loop calls a Transmit function of usbd_composite.c step by step while   *)
(* bus events and DataIn callbacks interrupt it.  What a packet carries is *)
(* left to the channel modules; here a packet is only where it is.         *)
(***************************************************************************)
EXTENDS UsbComposite

VARIABLES
  pc,     \* where the main loop is: outside Transmit, past its guards, past the flag
  txEp,   \* the endpoint of the Transmit call in progress
  stale,  \* ghost: endpoints whose packet a resume, or a new handle, has disowned
  halted  \* ghost: endpoints touched by an ENDPOINT_HALT request since they were opened

vars == <<usbVars, pc, txEp, stale, halted>>

PCs == {"loop", "arm", "start"}

TypeOK ==
  /\ UsbTypeOK
  /\ pc \in PCs
  /\ txEp \in EPS
  /\ stale \subseteq EPS
  /\ halted \subseteq EPS

Init ==
  /\ UsbInit
  /\ pc = "loop"
  /\ txEp = "HID"
  /\ stale = {}
  /\ halted = {}

mainVars == <<pc, txEp>>
-----------------------------------------------------------------------------
(* The main loop, one Transmit call.                                       *)

(* The guards pass (a call that fails them changes nothing).               *)
TransmitEnter(e) ==
  /\ pc = "loop"
  /\ TxAccepts(e)
  /\ pc' = "arm"
  /\ txEp' = e
  /\ UNCHANGED <<usbVars, stale, halted>>

(* hcomp->xxxTxBusy = true, through the pointer read at the top.           *)
TransmitArm ==
  /\ pc = "arm"
  /\ txBusy' = [txBusy EXCEPT ![txEp] = TRUE]
  /\ pc' = "start"
  /\ UNCHANGED <<coreVars, epStat, txEp, stale, halted>>

(* USBD_LL_Transmit: HAL_PCD_EP_Transmit always returns HAL_OK.            *)
TransmitStart ==
  /\ pc = "start"
  /\ epStat' = [epStat EXCEPT ![txEp] = "VALID"]
  /\ pc' = "loop"
  /\ UNCHANGED <<coreVars, txBusy, txEp, stale, halted>>

Main == (\E e \in EPS : TransmitEnter(e)) \/ TransmitArm \/ TransmitStart
-----------------------------------------------------------------------------
(* Interrupts.                                                             *)

(* The host takes the packet; PCD_EP_ISR_Handler, USBD_LL_DataInStage,     *)
(* Composite_DataIn, which lowers the flags of the endpoints "lowered".    *)
PacketRead(e, lowered) ==
  /\ InTokenServed(e)
  /\ epStat' = [epStat EXCEPT ![e] = "NAK"]
  /\ txBusy' = [f \in EPS |-> txBusy[f] /\ ~(DataInReachesClass /\ f \in lowered)]
  /\ stale' = IF pc = "start" /\ txEp = e THEN stale ELSE stale \ {e}
  /\ UNCHANGED <<coreVars, mainVars, halted>>

(* Mutant: the tests of epnum in Composite_DataIn are missing.             *)
DataIn_AnyEndpoint(e) == PacketRead(e, EPS)

DataIn(e) == PacketRead(e, {e})

Reset == LL_Reset /\ stale' = {} /\ halted' = {} /\ UNCHANGED mainVars
Suspend == LL_Suspend /\ UNCHANGED <<mainVars, stale, halted>>

(* A packet in place, or one the main loop is about to put there, is       *)
(* disowned by the cleared flag.                                           *)
Resume ==
  /\ LL_Resume
  /\ stale' = stale \cup {e \in EPS : epStat[e] = "VALID" \/ (pc = "start" /\ txEp = e)}
  /\ UNCHANGED <<mainVars, halted>>

Recover == pc = "loop" /\ BusRecovered /\ UNCHANGED <<mainVars, stale, halted>>

Address == \E a \in {0, 1} : SetAddress(a) /\ UNCHANGED <<mainVars, stale, halted>>

(* Composite_Init clears the flag of a packet about to be put in place.    *)
Configure ==
  /\ \/ SetConfigUp /\ stale' = {e \in EPS : pc = "start" /\ txEp = e}
     \/ (SetConfigDown \/ SetConfigRefused) /\ stale' = {}
  /\ halted' = {}
  /\ UNCHANGED mainVars

Halt ==
  \E e \in HaltEps :
    /\ SetHalt(e) \/ ClearHalt(e)
    /\ halted' = halted \cup {e}
    /\ UNCHANGED <<mainVars, stale>>

Bus == Reset \/ Suspend \/ Resume \/ Recover \/ Address \/ Configure \/ Halt

Next == Main \/ Bus \/ \E e \in EPS : DataIn(e)

Spec == Init /\ [][Next]_vars

(* The main loop never stops, the host polls an endpoint it has configured *)
(* and wakes a bus it has suspended.                                       *)
FairSpec ==
  /\ Spec
  /\ WF_vars(Main)
  /\ WF_vars(Recover)
  /\ WF_vars(Resume)
  /\ \A e \in EPS : WF_vars(DataIn(e))
-----------------------------------------------------------------------------
(* Is the main loop between the flag and the transfer of e?                *)
Starting(e) == pc = "start" /\ txEp = e

(* A raised TxBusy flag always has a packet waiting on its endpoint, so a  *)
(* DataIn callback is still to come that lowers it: no interleaving of the *)
(* Transmit steps with completions, suspends, resumes and reconfigurations *)
(* leaves a flag raised over an empty endpoint, unless a halt request      *)
(* dropped the packet.                                                     *)
BusyHasPacket ==
  \A e \in EPS \ halted :
    hcomp /\ txBusy[e] /\ ~Starting(e) => epStat[e] = "VALID"

(* Conversely a packet the host has not read keeps its flag raised, unless *)
(* UsbLifecycle_OnResume lowered the flag over it, or Composite_Init did   *)
(* between the flag and the transfer.                                      *)
PacketHasBusy ==
  \A e \in EPS \ stale : hcomp /\ epStat[e] = "VALID" => txBusy[e]

(* Transmit overwrites a packet the host has not read only on an endpoint  *)
(* whose packet was disowned that way (USBD_LL_Transmit does not look).    *)
NoOverwrite ==
  [][\A e \in EPS :
       Starting(e) /\ pc' = "loop" /\ hcomp /\ epStat[e] = "VALID" => e \in stale]_vars

(* While the host polls and wakes the bus, no flag stays raised for ever   *)
(* on a configured device: every channel gets its turn again, unless the   *)
(* host halts its endpoint.                                                *)
BusyClears == \A e \in EPS \ HaltEps : txBusy[e] ~> (~txBusy[e] \/ ~hcomp)
=============================================================================
