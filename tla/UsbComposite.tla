---------------------------- MODULE UsbComposite ----------------------------
(***************************************************************************)
(* The USB side every data channel of the firmware depends on: the device  *)
(* state of ST's device core (usbd_core.c, usbd_ctlreq.c), the lifetime of *)
(* the composite class handle and its three TxBusy flags                   *)
(* (usbd_composite.c, usb_lifecycle.c), and the transmit status of the     *)
(* IN endpoint behind each flag (stm32g0xx_hal_pcd.c, stm32g0xx_ll_usb.c). *)
(*                                                                         *)
(* The module has no Spec of its own: it offers the interrupt handlers and *)
(* the pieces of the Transmit functions as partial actions over usbVars,   *)
(* and the modules that extend it (UsbTransmit, VendorDump, ...) compose   *)
(* them with the main loop.  The USB and TIM6 interrupts have the same     *)
(* priority, so a handler is one atomic step; only the main loop is        *)
(* preempted.                                                              *)
(***************************************************************************)
EXTENDS Naturals

CONSTANT HaltEps   \* endpoints on which the host may issue (CLEAR|SET)_FEATURE(ENDPOINT_HALT)

(* The IN endpoints that have a TxBusy flag: EP1, EP3 and EP4.             *)
EPS == {"HID", "CDC", "VENDOR"}

ASSUME HaltAssumption == HaltEps \subseteq EPS

VARIABLES
  devState,   \* pdev->dev_state
  oldState,   \* pdev->dev_old_state, what LL_Resume restores
  devConfig,  \* pdev->dev_config
  hcomp,      \* is pdev->pClassDataCmsit[0] non-NULL?
  lowPower,   \* CNTR.SUSPEN: set by the SUSP interrupt, cleared by WKUP
  busQuiet,   \* the host is inside the recovery time after reset or resume
  txBusy,     \* hcomp->hidTxBusy, cdcTxBusy, vendorTxBusy (static memory)
  epStat      \* STAT_TX of the endpoint register

coreVars == <<devState, oldState, devConfig, hcomp, lowPower, busQuiet>>
usbVars == <<devState, oldState, devConfig, hcomp, lowPower, busQuiet, txBusy, epStat>>

DevStates == {"DEFAULT", "ADDRESSED", "CONFIGURED", "SUSPENDED"}
EpStats == {"DIS", "NAK", "VALID", "STALL"}

UsbTypeOK ==
  /\ devState \in DevStates
  /\ oldState \in DevStates
  /\ devConfig \in {0, 1}
  /\ hcomp \in BOOLEAN
  /\ lowPower \in BOOLEAN
  /\ busQuiet \in BOOLEAN
  /\ txBusy \in [EPS -> BOOLEAN]
  /\ epStat \in [EPS -> EpStats]

(* After USBD_Init and USBD_Start: attached, no bus reset seen yet.        *)
UsbInit ==
  /\ devState = "DEFAULT"
  /\ oldState = "DEFAULT"
  /\ devConfig = 0
  /\ hcomp = FALSE
  /\ lowPower = FALSE
  /\ busQuiet = FALSE
  /\ txBusy = [e \in EPS |-> FALSE]
  /\ epStat = [e \in EPS |-> "DIS"]

-----------------------------------------------------------------------------
(* The class handle.  USBD_static_malloc always returns the same buffer    *)
(* and USBD_static_free does nothing, so the flags survive DeInit.         *)

AllIdle == [e \in EPS |-> FALSE]

(* Mutant: the flags of the static handle are not cleared.                 *)
Composite_Init_KeepsFlags ==
  /\ hcomp' = TRUE
  /\ epStat' = [e \in EPS |-> "NAK"]
  /\ UNCHANGED txBusy

(* Composite_Init: fresh handle, flags cleared, the endpoints opened, which *)
(* leaves their transmitter in NAK and forgets a packet written before.    *)
Composite_Init ==
  /\ hcomp' = TRUE
  /\ txBusy' = AllIdle
  /\ epStat' = [e \in EPS |-> "NAK"]

(* Composite_DeInit: the endpoints closed, the handle pointer dropped.     *)
Composite_DeInit ==
  /\ hcomp' = FALSE
  /\ epStat' = [e \in EPS |-> "DIS"]
  /\ UNCHANGED txBusy

-----------------------------------------------------------------------------
(* Bus events.                                                             *)

(* The host starts no transfer on a suspended bus, nor in the 10 ms it     *)
(* owes the device after reset and resume (USB 2.0, 7.1.7).                *)
HostTraffic == ~lowPower /\ ~busQuiet

(* Mutant: the class keeps its handle over a bus reset.                    *)
LL_Reset_NoDeInit ==
  /\ devState' = "DEFAULT"
  /\ devConfig' = 0
  /\ busQuiet' = TRUE
  /\ UNCHANGED <<oldState, lowPower, hcomp, txBusy, epStat>>

(* RESET interrupt: PCD_ResetCallback, USBD_LL_Reset, Composite_DeInit.    *)
LL_Reset ==
  /\ devState' = "DEFAULT"
  /\ devConfig' = 0
  /\ Composite_DeInit
  /\ busQuiet' = TRUE
  /\ UNCHANGED <<oldState, lowPower>>

(* SUSP interrupt: USBD_LL_Suspend; UsbLifecycle_OnSuspend only counts.    *)
LL_Suspend ==
  /\ ~lowPower
  /\ lowPower' = TRUE
  /\ oldState' = IF devState # "SUSPENDED" THEN devState ELSE oldState
  /\ devState' = "SUSPENDED"
  /\ UNCHANGED <<devConfig, hcomp, busQuiet, txBusy, epStat>>

(* Mutant: dev_state is not restored.                                      *)
LL_Resume_KeepsState ==
  /\ lowPower
  /\ lowPower' = FALSE
  /\ txBusy' = IF hcomp THEN AllIdle ELSE txBusy
  /\ busQuiet' = TRUE
  /\ UNCHANGED <<devState, oldState, devConfig, hcomp, epStat>>

(* WKUP interrupt: USBD_LL_Resume, then UsbLifecycle_OnResume clears the   *)
(* three flags.  Nothing touches the endpoints: a packet that was VALID    *)
(* when the bus went to sleep is still VALID.                              *)
LL_Resume ==
  /\ lowPower
  /\ lowPower' = FALSE
  /\ devState' = IF devState = "SUSPENDED" THEN oldState ELSE devState
  /\ txBusy' = IF hcomp THEN AllIdle ELSE txBusy
  /\ busQuiet' = TRUE
  /\ UNCHANGED <<oldState, devConfig, hcomp, epStat>>

(* The recovery time is over; it is long enough for the main loop to have  *)
(* left the call it was in (the guard the extending module adds).          *)
BusRecovered ==
  /\ busQuiet
  /\ busQuiet' = FALSE
  /\ UNCHANGED <<devState, oldState, devConfig, hcomp, lowPower, txBusy, epStat>>

-----------------------------------------------------------------------------
(* Standard requests that change the state above.                          *)

(* USBD_SetAddress; refused (no state change) when configured.             *)
SetAddress(a) ==
  /\ HostTraffic
  /\ devState # "CONFIGURED"
  /\ devState' = IF a # 0 THEN "ADDRESSED" ELSE "DEFAULT"
  /\ UNCHANGED <<oldState, devConfig, hcomp, lowPower, busQuiet, txBusy, epStat>>

(* Mutant: cfgidx is not compared with USBD_MAX_NUM_CONFIGURATION.         *)
SetConfigUp_AnyIndex ==
  /\ HostTraffic
  /\ devState = "ADDRESSED"
  /\ devConfig' \in {1, 2}
  /\ Composite_Init
  /\ devState' = "CONFIGURED"
  /\ UNCHANGED <<oldState, lowPower, busQuiet>>

(* USBD_SetConfig(1) of an addressed device: the class comes up.  When     *)
(* already configured with the same index only the status stage is sent.   *)
SetConfigUp ==
  /\ HostTraffic
  /\ devState = "ADDRESSED"
  /\ devConfig' = 1
  /\ Composite_Init
  /\ devState' = "CONFIGURED"
  /\ UNCHANGED <<oldState, lowPower, busQuiet>>

(* USBD_SetConfig(0) of a configured device: the class goes down.          *)
SetConfigDown ==
  /\ HostTraffic
  /\ devState = "CONFIGURED"
  /\ devState' = "ADDRESSED"
  /\ devConfig' = 0
  /\ Composite_DeInit
  /\ UNCHANGED <<oldState, lowPower, busQuiet>>

(* USBD_SetConfig before an address was given: error, and the class is     *)
(* torn down although it is not up.                                        *)
SetConfigRefused ==
  /\ HostTraffic
  /\ devState \notin {"ADDRESSED", "CONFIGURED"}
  /\ Composite_DeInit
  /\ UNCHANGED <<devState, oldState, devConfig, lowPower, busQuiet>>

(* SET_FEATURE(ENDPOINT_HALT): stalls e in both states that accept it.     *)
SetHalt(e) ==
  /\ HostTraffic
  /\ devState \in {"ADDRESSED", "CONFIGURED"}
  /\ epStat' = [epStat EXCEPT ![e] = "STALL"]
  /\ UNCHANGED <<devState, oldState, devConfig, hcomp, lowPower, busQuiet, txBusy>>

(* CLEAR_FEATURE(ENDPOINT_HALT): a configured device answers NAK whether   *)
(* or not e was stalled, so a packet waiting there is dropped without a    *)
(* DataIn callback; an addressed device stalls e.                          *)
ClearHalt(e) ==
  /\ HostTraffic
  /\ devState \in {"ADDRESSED", "CONFIGURED"}
  /\ epStat' = [epStat EXCEPT ![e] = IF devState = "CONFIGURED" THEN "NAK" ELSE "STALL"]
  /\ UNCHANGED <<devState, oldState, devConfig, hcomp, lowPower, busQuiet, txBusy>>

-----------------------------------------------------------------------------
(* USBD_COMPOSITE_{HID_SendReport, CDC_Transmit, VENDOR_Transmit} share one *)
(* shape: the guards, the flag, the transfer.                              *)

(* USBD_COMPOSITE_*_IsTxIdle                                               *)
IsTxIdle(e) == hcomp /\ ~txBusy[e]

(* Transmit's early returns not taken (FAIL, FAIL, BUSY).                  *)
TxAccepts(e) == hcomp /\ devState = "CONFIGURED" /\ ~txBusy[e]

(* Can the host take the packet on e now?                                  *)
InTokenServed(e) == HostTraffic /\ epStat[e] = "VALID"

(* Does USBD_LL_DataInStage reach Composite_DataIn and its handle?         *)
DataInReachesClass == devState = "CONFIGURED" /\ hcomp

-----------------------------------------------------------------------------
(* The handle exists exactly while the device is configured, a suspended   *)
(* device counting as what it was before.  Composite_DataIn, the Transmit  *)
(* functions and UsbLifecycle_OnResume rely on it.                         *)
HandleIffConfigured ==
  hcomp <=> \/ devState = "CONFIGURED"
            \/ devState = "SUSPENDED" /\ oldState = "CONFIGURED"
=============================================================================
