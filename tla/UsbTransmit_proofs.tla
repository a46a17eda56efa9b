------------------------- MODULE UsbTransmit_proofs -------------------------
(***************************************************************************)
(* The safety properties of UsbTransmit, for every set HaltEps.            *)
(*                                                                         *)
(* PacketHasBusy is not inductive: what the main loop will do between      *)
(* Transmit's guards and the transfer must be known.  PendingInv says it:  *)
(* past the guards the flag is still down, past the flag it is up or the   *)
(* packet to come is disowned already, and a packet found on the endpoint  *)
(* then was disowned too.                                                  *)
(***************************************************************************)
EXTENDS UsbTransmit, UsbComposite_proofs

PendingInv ==
  /\ pc = "arm" /\ hcomp => ~txBusy[txEp]
  /\ pc = "start" /\ hcomp => txBusy[txEp] \/ txEp \in stale
  /\ pc = "start" /\ hcomp /\ epStat[txEp] = "VALID" => txEp \in stale

IInv == TypeOK /\ CoreInv /\ BusyHasPacket /\ PacketHasBusy /\ PendingInv

(* The interrupt handlers of the transmit path are handlers of the core.   *)
LEMMA BusIsCoreStep == Bus => CoreStep
  BY DEF Bus, CoreStep, Reset, Suspend, Resume, Recover, Address, Configure, Halt

(* Every other step leaves the device core alone.                          *)
LEMMA OthersKeepCore ==
  Main \/ (\E e \in EPS : DataIn(e)) \/ UNCHANGED vars => UNCHANGED coreVars
  BY DEF Main, TransmitEnter, TransmitArm, TransmitStart, DataIn, PacketRead, vars, usbVars, coreVars

LEMMA CoreInvStep == CoreInv /\ [Next]_vars => CoreInv'
  BY CorePreserved, CoreUnchanged, BusIsCoreStep, OthersKeepCore DEF Next

LEMMA TypeInit == Init => TypeOK
<1> SUFFICES ASSUME Init PROVE TypeOK
  OBVIOUS
<1>1. UsbTypeOK
  BY DEF Init, UsbInit, UsbTypeOK, DevStates, EpStats
<1> QED
  BY <1>1 DEF Init, TypeOK, PCs, EPS

LEMMA TypeStep == TypeOK /\ CoreInv /\ [Next]_vars => TypeOK'
<1> SUFFICES ASSUME TypeOK, CoreInv, [Next]_vars PROVE TypeOK'
  OBVIOUS
<1>1. CoreTypeOK'
  BY CoreInvStep DEF CoreInv
<1>2. txBusy' \in [EPS -> BOOLEAN] /\ epStat' \in [EPS -> EpStats]
  <2>1. CASE Main
    BY <2>1 DEF Main, TransmitEnter, TransmitArm, TransmitStart, TypeOK, UsbTypeOK, EpStats, usbVars
  <2>2. ASSUME NEW e \in EPS, DataIn(e)
         PROVE  txBusy' \in [EPS -> BOOLEAN] /\ epStat' \in [EPS -> EpStats]
    BY <2>2 DEF DataIn, PacketRead, TypeOK, UsbTypeOK, EpStats
  <2>3. CASE Bus
    BY <2>3, BusIsCoreStep, EndpointTypes DEF TypeOK, UsbTypeOK
  <2>4. CASE UNCHANGED vars
    BY <2>4 DEF vars, usbVars, TypeOK, UsbTypeOK
  <2> QED
    BY <2>1, <2>2, <2>3, <2>4 DEF Next
<1>3. pc' \in PCs /\ txEp' \in EPS /\ stale' \subseteq EPS /\ halted' \subseteq EPS
  <2> USE DEF TypeOK, PCs
  <2>1. CASE Main
    BY <2>1 DEF Main, TransmitEnter, TransmitArm, TransmitStart
  <2>2. ASSUME NEW e \in EPS, DataIn(e)
         PROVE  pc' \in PCs /\ txEp' \in EPS /\ stale' \subseteq EPS /\ halted' \subseteq EPS
    BY <2>2 DEF DataIn, PacketRead, mainVars
  <2>3. CASE Bus
    BY <2>3, HaltAssumption DEF Bus, Reset, Suspend, Resume, Recover, Address, Configure, Halt, mainVars
  <2>4. CASE UNCHANGED vars
    BY <2>4 DEF vars
  <2> QED
    BY <2>1, <2>2, <2>3, <2>4 DEF Next
<1> QED
  BY <1>1, <1>2, <1>3 DEF TypeOK, UsbTypeOK, CoreTypeOK

(* One step per action; the conjuncts are few enough to go together.       *)
LEMMA FlagsInit == Init => BusyHasPacket /\ PacketHasBusy /\ PendingInv
  BY DEF Init, UsbInit, BusyHasPacket, PacketHasBusy, PendingInv

LEMMA FlagsStep ==
  IInv /\ [Next]_vars => BusyHasPacket' /\ PacketHasBusy' /\ PendingInv'
<1> SUFFICES ASSUME IInv, [Next]_vars
             PROVE  BusyHasPacket' /\ PacketHasBusy' /\ PendingInv'
  OBVIOUS
<1> USE DEF IInv, TypeOK, UsbTypeOK, BusyHasPacket, PacketHasBusy, PendingInv, Starting
<1>1. ASSUME NEW e \in EPS, TransmitEnter(e) PROVE BusyHasPacket' /\ PacketHasBusy' /\ PendingInv'
  BY <1>1 DEF TransmitEnter, TxAccepts, usbVars
<1>2. CASE TransmitArm
  BY <1>2 DEF TransmitArm, coreVars
<1>3. CASE TransmitStart
  BY <1>3 DEF TransmitStart, coreVars, EpStats
<1>4. ASSUME NEW e \in EPS, DataIn(e) PROVE BusyHasPacket' /\ PacketHasBusy' /\ PendingInv'
  <2>1. hcomp => DataInReachesClass
    BY <1>4, ServedReachesClass DEF DataIn, PacketRead, InTokenServed
  <2>2. hcomp' = hcomp /\ pc' = pc /\ txEp' = txEp /\ halted' = halted
    BY <1>4 DEF DataIn, PacketRead, coreVars, mainVars
  <2>3. /\ epStat[e] = "VALID"
        /\ epStat' = [epStat EXCEPT ![e] = "NAK"]
        /\ hcomp => txBusy' = [txBusy EXCEPT ![e] = FALSE]
        /\ stale' = IF pc = "start" /\ txEp = e THEN stale ELSE stale \ {e}
    BY <1>4, <2>1 DEF DataIn, PacketRead, InTokenServed
  <2> QED
    BY <2>2, <2>3 DEF EpStats
<1>5. CASE Reset
  BY <1>5 DEF Reset, LL_Reset, Composite_DeInit, mainVars
<1>6. CASE Suspend
  BY <1>6 DEF Suspend, LL_Suspend, mainVars
<1>7. CASE Resume
  BY <1>7 DEF Resume, LL_Resume, AllIdle, mainVars
<1>8. CASE Recover
  BY <1>8 DEF Recover, BusRecovered, mainVars
<1>9. CASE Address
  BY <1>9 DEF Address, SetAddress, mainVars
<1>10. CASE Configure
  <2>1. CASE SetConfigUp /\ stale' = {e \in EPS : pc = "start" /\ txEp = e}
    BY <2>1, <1>10 DEF Configure, SetConfigUp, Composite_Init, AllIdle, mainVars
  <2>2. CASE (SetConfigDown \/ SetConfigRefused) /\ stale' = {}
    BY <2>2, <1>10 DEF Configure, SetConfigDown, SetConfigRefused, Composite_DeInit, mainVars
  <2> QED
    BY <2>1, <2>2, <1>10 DEF Configure
<1>11. CASE Halt
  BY <1>11, HaltAssumption DEF Halt, SetHalt, ClearHalt, mainVars, EpStats
<1>12. CASE UNCHANGED vars
  BY <1>12 DEF vars, usbVars
<1> QED
  BY <1>1, <1>2, <1>3, <1>4, <1>5, <1>6, <1>7, <1>8, <1>9, <1>10, <1>11, <1>12
     DEF Next, Main, Bus

LEMMA Invariance == Spec => []IInv
<1>1. Init => IInv
  BY TypeInit, FlagsInit, CoreInitially DEF IInv, Init
<1>2. IInv /\ [Next]_vars => IInv'
  BY TypeStep, CoreInvStep, FlagsStep DEF IInv
<1> QED
  BY <1>1, <1>2, PTL DEF Spec

(* Every variable of the transmit path keeps its type.                     *)
THEOREM TypeCorrect == Spec => []TypeOK
  BY Invariance, PTL DEF IInv

(* The class handle exists exactly while the device is configured.         *)
THEOREM HandleCorrect == Spec => []HandleIffConfigured
  BY Invariance, PTL DEF IInv, CoreInv

(* A raised TxBusy flag always has a packet waiting that will lower it.    *)
THEOREM NoLostCompletion == Spec => []BusyHasPacket
  BY Invariance, PTL DEF IInv

(* An unread packet keeps its flag raised, unless the flag was lowered     *)
(* over it by a resume or by a new handle.                                 *)
THEOREM PacketsAreOwned == Spec => []PacketHasBusy
  BY Invariance, PTL DEF IInv

(* Only a packet disowned that way is ever overwritten by Transmit.        *)
THEOREM OverwritesOnlyDisowned == Spec => NoOverwrite
<1>1. IInv /\ [Next]_vars =>
        [\A e \in EPS :
           Starting(e) /\ pc' = "loop" /\ hcomp /\ epStat[e] = "VALID" => e \in stale]_vars
  BY DEF IInv, PendingInv, Starting
<1> QED
  BY <1>1, Invariance, PTL DEF Spec, NoOverwrite
=============================================================================
