------------------------- MODULE UsbComposite_proofs -------------------------
(***************************************************************************)
(* What the interrupt handlers of UsbComposite preserve, whatever the main *)
(* loop does meanwhile: the facts UsbTransmit_proofs and VendorDump_proofs *)
(* rest on.                                                                *)
(***************************************************************************)
EXTENDS UsbComposite, TLAPS

(* The steps that change the state of the device core.                     *)
CoreStep ==
  \/ LL_Reset \/ LL_Suspend \/ LL_Resume \/ BusRecovered
  \/ \E a \in {0, 1} : SetAddress(a)
  \/ SetConfigUp \/ SetConfigDown \/ SetConfigRefused
  \/ \E e \in HaltEps : SetHalt(e) \/ ClearHalt(e)

CoreTypeOK ==
  /\ devState \in DevStates
  /\ oldState \in DevStates
  /\ devConfig \in {0, 1}
  /\ hcomp \in BOOLEAN
  /\ lowPower \in BOOLEAN
  /\ busQuiet \in BOOLEAN

(* HandleIffConfigured is not inductive: LL_Resume needs to know that the  *)
(* state it restores is not "suspended" again, and the control requests,   *)
(* which find the bus awake, that the device is not.                       *)
SleepInv ==
  /\ devState = "SUSPENDED" => lowPower
  /\ oldState # "SUSPENDED"

CoreInv == CoreTypeOK /\ SleepInv /\ HandleIffConfigured

(* The state after USBD_Start satisfies it.                                *)
LEMMA CoreInitially == UsbInit => CoreInv
<1> SUFFICES ASSUME UsbInit PROVE CoreInv
  OBVIOUS
<1>1. CoreTypeOK /\ SleepInv
  BY DEF UsbInit, CoreTypeOK, SleepInv, DevStates
<1>2. HandleIffConfigured
  BY DEF UsbInit, HandleIffConfigured
<1> QED
  BY <1>1, <1>2 DEF CoreInv

(* Every interrupt handler of usbd_core.c and usbd_ctlreq.c preserves it.  *)
LEMMA CorePreserved == CoreInv /\ CoreStep => CoreInv'
<1> SUFFICES ASSUME CoreInv, CoreStep PROVE CoreInv'
  OBVIOUS
<1> USE DEF CoreInv, CoreTypeOK, SleepInv, HandleIffConfigured, DevStates
<1>1. CASE LL_Reset
  BY <1>1 DEF LL_Reset, Composite_DeInit
<1>2. CASE LL_Suspend
  BY <1>2 DEF LL_Suspend
<1>3. CASE LL_Resume
  BY <1>3 DEF LL_Resume
<1>4. CASE BusRecovered
  BY <1>4 DEF BusRecovered
<1>5. CASE \E a \in {0, 1} : SetAddress(a)
  BY <1>5 DEF SetAddress, HostTraffic
<1>6. CASE SetConfigUp
  BY <1>6 DEF SetConfigUp, Composite_Init, HostTraffic
<1>7. CASE SetConfigDown
  BY <1>7 DEF SetConfigDown, Composite_DeInit, HostTraffic
<1>8. CASE SetConfigRefused
  BY <1>8 DEF SetConfigRefused, Composite_DeInit, HostTraffic
<1>9. CASE \E e \in HaltEps : SetHalt(e) \/ ClearHalt(e)
  BY <1>9 DEF SetHalt, ClearHalt
<1> QED
  BY <1>1, <1>2, <1>3, <1>4, <1>5, <1>6, <1>7, <1>8, <1>9 DEF CoreStep

(* So does a step that leaves the device core alone.                       *)
LEMMA CoreUnchanged == CoreInv /\ UNCHANGED coreVars => CoreInv'
  BY DEF CoreInv, CoreTypeOK, SleepInv, HandleIffConfigured, coreVars

(* The flags and the endpoints keep their types through every handler.     *)
LEMMA EndpointTypes ==
  ASSUME txBusy \in [EPS -> BOOLEAN], epStat \in [EPS -> EpStats], CoreStep
  PROVE  txBusy' \in [EPS -> BOOLEAN] /\ epStat' \in [EPS -> EpStats]
<1> USE DEF EpStats
<1>1. CASE LL_Reset
  BY <1>1 DEF LL_Reset, Composite_DeInit
<1>2. CASE LL_Suspend \/ BusRecovered \/ \E a \in {0, 1} : SetAddress(a)
  BY <1>2 DEF LL_Suspend, BusRecovered, SetAddress
<1>3. CASE LL_Resume
  BY <1>3 DEF LL_Resume, AllIdle
<1>4. CASE SetConfigUp
  BY <1>4 DEF SetConfigUp, Composite_Init, AllIdle
<1>5. CASE SetConfigDown \/ SetConfigRefused
  BY <1>5 DEF SetConfigDown, SetConfigRefused, Composite_DeInit
<1>6. CASE \E e \in HaltEps : SetHalt(e) \/ ClearHalt(e)
  BY <1>6 DEF SetHalt, ClearHalt
<1> QED
  BY <1>1, <1>2, <1>3, <1>4, <1>5, <1>6 DEF CoreStep

(* A handle that the host can reach over an awake bus is a configured one: *)
(* the DataIn callback of a served IN token reaches the class.             *)
LEMMA ServedReachesClass ==
  ASSUME CoreInv, HostTraffic, hcomp
  PROVE  DataInReachesClass
  BY DEF CoreInv, SleepInv, HandleIffConfigured, HostTraffic, DataInReachesClass
=============================================================================
