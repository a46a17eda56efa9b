------------------------- MODULE ControlPipe_proofs -------------------------
(***************************************************************************)
(* ControlPipe for every packet size, every menu of well-formed requests,  *)
(* and without its bounds on faults: what the host was told is what the    *)
(* device does, the device listens where the host talks, endpoint 0        *)
(* implements the abstract control transfer, and no transfer is left       *)
(* without an answer.                                                      *)
(*                                                                         *)
(* All rest on what may be pending together: while a SETUP packet waits    *)
(* for the handler (rcv = "setup"), req is already the new request and EP0 *)
(* still in the state the old one left it in, except that its transmitter  *)
(* is silent.                                                              *)
(***************************************************************************)
EXTENDS ControlPipe, UsbComposite_proofs

ConfigInv == hcomp <=> devConfig = 1

Pending == ~Served

(* The bus does not sleep while something is pending.                      *)
AwakeInv == Pending => ~lowPower

RequestInv ==
  /\ stage = "idle" => Served /\ ep0 = "IDLE"
  /\ stage # "idle" => req \in Requests
  /\ stage \in {"data_in", "status_out"} => IsIn(req)
  /\ stage = "data_out" => IsOut(req) /\ tx # "VALID"
  /\ stage \in {"data_out", "status_in"} => ~IsIn(req) /\ got = 0
  /\ isr = "restall" => rcv = "setup" \/ req.op = "CLEAR_HALT"

(* What the host counts on is not what the pending reception will change.  *)
ReceiveInv ==
  /\ rcv = "setup" => /\ tx # "VALID" /\ rx # "VALID"
                      /\ tx = "STALL" \/ rx = "STALL" => late
                      /\ stage \in {"data_in", "data_out", "status_in"} \/ (stage = "stalled" /\ late)
                      /\ ~silent
                      /\ known \cap Forgotten(req) = {}
  /\ rcv = "out" => /\ req.op = "SET_LINE_CODING"
                    /\ tx # "VALID" /\ rx # "VALID"
                    /\ stage \in {"status_in", "stalled"}
                    /\ "coding" \notin known
  /\ stage = "data_out" => "coding" \notin known
  /\ rcv = "zlp" => stage = "done"

(* A request that ends well with v convinces the host of the truth.        *)
Agree(v) ==
  \/ req.op \in {"SET_LED_MODE", "SET_REPEAT_ENABLE"} /\ v # 0
  \/ \A s \in Subject(req) : Actual(s) = Told(req, v)

AnswerInv ==
  /\ ep0 = "DATA_IN" /\ rcv # "setup" => req.dir = "in" /\ (req.op \in Gets => req.len > 0)
  /\ stage = "data_in" /\ rcv # "setup" /\ (tx = "VALID" \/ ep0 = "DATA_IN") => Agree(packet.val)
  /\ stage = "status_in" /\ tx = "VALID" /\ req.op \notin {"SET_LED_MODE", "SET_REPEAT_ENABLE"}
       => Agree(value)
  /\ stage = "status_out" => Agree(value)
  /\ ep0 = "DATA_OUT" => hcomp

(* The old address is in force and the new one waits for the completion    *)
(* of the status stage, which the host has or has not seen.                *)
Waiting ==
  /\ req.op = "SET_ADDRESS" /\ req.val = usbAddr
  /\ ~silent /\ ~hcomp /\ tx # "STALL"
  /\ \/ stage = "status_in" /\ haddr = daddr
     \/ stage = "done" /\ haddr = usbAddr /\ ctrTx /\ packet.len = 0 /\ rcv = "none"

AddrInv ==
  ~late =>
    /\ ctrTx /\ rcv # "setup" => stage \notin {"status_in", "data_out"}
    /\ req.op = "SET_ADDRESS" /\ stage = "status_in" /\ tx = "VALID"
         => usbAddr = req.val /\ (req.val = 0 => daddr = 0)
    /\ ~(rcv = "setup" /\ ctrTx) => IF usbAddr = 0 THEN haddr = daddr \/ silent ELSE Waiting

IInv ==
  /\ TypeOK /\ CoreInv /\ ConfigInv /\ AwakeInv
  /\ RequestInv /\ ReceiveInv /\ AnswerInv /\ BeliefHolds /\ AddrInv

Ep0Types ==
  /\ tx \in EpStats /\ rx \in EpStats
  /\ packet \in [off : Nat, len : 0..MPS, val : Nat]
  /\ rxBuf \in BOOLEAN
  /\ ep0 \in {"IDLE", "SETUP", "DATA_IN", "DATA_OUT", "STATUS_IN", "STATUS_OUT"}
  /\ rem \in Nat /\ total \in Nat

SettingTypes == settings \in [Settings \ {"config"} -> Nat]

-----------------------------------------------------------------------------
(* The ways to answer.                                                     *)

LEMMA TransmitTypes ==
  ASSUME NEW off \in Nat, NEW n \in Nat, NEW v \in Nat, Transmit(off, n, v)
  PROVE  tx' = "VALID" /\ packet' \in [off : Nat, len : 0..MPS, val : Nat] /\ packet'.val = v
<1>1. Smaller(MPS, n) \in 0..MPS
  BY PipeAssumption DEF Smaller
<1> QED
  BY <1>1 DEF Transmit

LEMMA DataAnswer ==
  ASSUME Ep0Types, NEW n \in Nat, NEW v \in Nat, CtlSendData(n, v)
  PROVE  Ep0Types' /\ tx' = "VALID" /\ ep0' = "DATA_IN" /\ packet'.val = v
<1>1. Transmit(0, n, v)
  BY DEF CtlSendData
<1>2. tx' = "VALID" /\ packet' \in [off : Nat, len : 0..MPS, val : Nat] /\ packet'.val = v
  BY <1>1, TransmitTypes
<1> QED
  BY <1>2 DEF CtlSendData, Ep0Types, EpStats

LEMMA OtherAnswers ==
  ASSUME Ep0Types
  PROVE  /\ CtlSendStatus => Ep0Types' /\ tx' = "VALID" /\ ep0' = "STATUS_IN" /\ packet'.len = 0
         /\ StallIn \/ CtlError => Ep0Types' /\ tx' = "STALL" /\ ep0' = "SETUP"
         /\ CtlPrepareRx \/ NoAnswer => Ep0Types' /\ tx' = tx /\ ep0' \in {"DATA_OUT", "SETUP"}
<1>1. CtlSendStatus => Ep0Types' /\ tx' = "VALID" /\ ep0' = "STATUS_IN" /\ packet'.len = 0
  <2> SUFFICES ASSUME CtlSendStatus
               PROVE  Ep0Types' /\ tx' = "VALID" /\ ep0' = "STATUS_IN" /\ packet'.len = 0
    OBVIOUS
  <2>1. Transmit(0, 0, 0)
    BY DEF CtlSendStatus
  <2>2. tx' = "VALID" /\ packet' \in [off : Nat, len : 0..MPS, val : Nat]
    BY <2>1, TransmitTypes
  <2>3. packet'.len = 0
    BY <2>1, PipeAssumption DEF Transmit, Smaller
  <2> QED
    BY <2>2, <2>3 DEF CtlSendStatus, NoData, Ep0Types, EpStats
<1>2. StallIn \/ CtlError => Ep0Types' /\ tx' = "STALL" /\ ep0' = "SETUP"
  BY DEF StallIn, CtlError, NoData, Ep0Types, EpStats
<1>3. CtlPrepareRx \/ NoAnswer => Ep0Types' /\ tx' = tx /\ ep0' \in {"DATA_OUT", "SETUP"}
  <2>1. CtlPrepareRx => Ep0Types' /\ tx' = tx /\ ep0' = "DATA_OUT"
    BY DEF CtlPrepareRx, PrepareReceive, NoData, Ep0Types, EpStats
  <2>2. NoAnswer => Ep0Types' /\ tx' = tx /\ ep0' = "SETUP"
    BY DEF NoAnswer, NoData, Ep0Types
  <2> QED
    BY <2>1, <2>2
<1> QED
  BY <1>1, <1>2, <1>3

-----------------------------------------------------------------------------
(* The decoder.                                                            *)

LEMMA RequestForm ==
  ASSUME NEW r \in Requests
  PROVE  /\ r \in Packets8 /\ WellFormed(r)
         /\ r.op \in Ops /\ r.dir \in {"in", "out"} /\ r.val \in Nat /\ r.len \in Nat
  BY PipeAssumption DEF Requests, Packets8

(* What the decoder finds when a SETUP packet is pending.                  *)
Decodable ==
  /\ req \in Requests /\ Ep0Types /\ SettingTypes /\ CoreInv /\ ConfigInv
  /\ ~lowPower /\ tx # "VALID" /\ isr = "idle"
  /\ usbAddr \in Nat /\ daddr \in Nat

(* What it does to EP0 and the settings,                                   *)
Decoded ==
  /\ Ep0Types' /\ SettingTypes' /\ isr' \in {"idle", "restall"}
  /\ ep0' = "DATA_IN" => req.dir = "in" /\ (req.op \in Gets => req.len > 0)
  /\ IsOut(req) => tx' # "VALID"
  /\ isr' = "restall" => req.op = "CLEAR_HALT"

(* to what the host believes, or will,                                     *)
Truthful ==
  /\ \A s \in Settings \ Forgotten(req) : Actual(s)' = Actual(s)
  /\ IsIn(req) /\ (tx' = "VALID" \/ ep0' = "DATA_IN")
       => \/ req.op \in {"SET_LED_MODE", "SET_REPEAT_ENABLE"} /\ packet'.val # 0
          \/ \A s \in Subject(req) : Actual(s)' = Told(req, packet'.val)
  /\ ~IsIn(req) /\ tx' = "VALID" /\ req.op \notin {"SET_LED_MODE", "SET_REPEAT_ENABLE"}
       => \A v \in Nat : \A s \in Subject(req) : Actual(s)' = Told(req, v)

(* and to the device state and the address.                                *)
Readdressed ==
  /\ CoreStep \/ UNCHANGED usbVars
  /\ silent' \in BOOLEAN /\ lowPower' = lowPower
  /\ hcomp' => hcomp \/ req.op = "SET_CONFIGURATION"
  /\ \/ UNCHANGED addrVars /\ (req.op = "SET_ADDRESS" => devState = "CONFIGURED" /\ tx' = "STALL")
     \/ /\ req.op = "SET_ADDRESS" /\ tx' = "VALID" /\ ~hcomp'
        /\ usbAddr' = req.val
        /\ daddr' = IF req.val = 0 THEN 0 ELSE daddr
        /\ silent' = (daddr' # daddr)

(* SetAddress looks at an address only to see whether it is 0.             *)
LEMMA AnyAddress ==
  ASSUME NEW a \in Nat, SetAddress(a)
  PROVE  CoreStep
<1>1. CASE a = 0
  BY <1>1 DEF SetAddress, CoreStep
<1>2. CASE a # 0
  <2>1. SetAddress(1)
    BY <1>2 DEF SetAddress
  <2> QED
    BY <2>1 DEF CoreStep
<1> QED
  BY <1>1, <1>2

LEMMA DecodeAddress ==
  ASSUME Decodable, SetAddressReq PROVE Decoded /\ Truthful /\ Readdressed
<1>1. /\ req.op = "SET_ADDRESS" /\ req.val \in Nat /\ req.dir = "out" /\ req.len = 0
      /\ ~IsIn(req) /\ ~IsOut(req) /\ Subject(req) = {} /\ UNCHANGED <<settings, isr>>
  BY RequestForm DEF Decodable, SetAddressReq, WellFormed, InOps, IsIn, IsOut, Subject
<1>2. CASE devState = "CONFIGURED" /\ CtlError /\ Answered /\ UNCHANGED <<usbVars, addrVars>>
  <2>1. Ep0Types' /\ tx' = "STALL" /\ ep0' = "SETUP"
    BY <1>2, OtherAnswers DEF Decodable
  <2> QED
    BY <1>1, <1>2, <2>1
       DEF Decodable, Decoded, Truthful, Readdressed, SettingTypes, Actual, Answered, usbVars
<1>3. CASE /\ SetAddress(req.val) /\ CtlSendStatus /\ usbAddr' = req.val
           /\ daddr' = (IF req.val = 0 THEN 0 ELSE daddr)
           /\ silent' = (daddr' # daddr)
  <2>1. Ep0Types' /\ tx' = "VALID" /\ ep0' = "STATUS_IN"
    BY <1>3, OtherAnswers DEF Decodable
  <2>2. CoreStep /\ UNCHANGED <<devConfig, hcomp, lowPower>> /\ ~hcomp
    BY <1>1, <1>3, AnyAddress DEF SetAddress, HostTraffic, Decodable, CoreInv, HandleIffConfigured, SleepInv
  <2> QED
    BY <1>1, <1>3, <2>1, <2>2
       DEF Decodable, Decoded, Truthful, Readdressed, SettingTypes, Actual
<1> QED
  BY <1>2, <1>3 DEF SetAddressReq

(* A handler that keeps the device state and the address, and answers      *)
(* something other than data, or data no belief hangs on.                  *)
LEMMA DecodeConfig ==
  ASSUME Decodable, SetConfig PROVE Decoded /\ Truthful /\ Readdressed
<1>1. /\ req.op = "SET_CONFIGURATION" /\ req.val \in Nat /\ req.dir = "out" /\ req.len = 0
      /\ ~IsIn(req) /\ ~IsOut(req) /\ Subject(req) = {"config"} /\ UNCHANGED <<addrVars, isr>>
      /\ silent' = FALSE
  BY RequestForm DEF Decodable, SetConfig, Answered, WellFormed, InOps, IsIn, IsOut, Subject
<1>2. Forgotten(req) = {"config", "coding", "idle"} /\ \A v \in Nat : Told(req, v) = req.val
  BY <1>1 DEF Forgotten, Gets, Told
<1>3. /\ devConfig \in {0, 1} /\ (hcomp <=> devConfig = 1) /\ (hcomp <=> devState = "CONFIGURED")
  BY DEF Decodable, CoreInv, CoreTypeOK, HandleIffConfigured, SleepInv, ConfigInv
<1> DEFINE Good == Ep0Types' /\ tx' = "VALID" /\ ep0' = "STATUS_IN"
           Bad == Ep0Types' /\ tx' = "STALL" /\ ep0' = "SETUP"
<1>4. (CtlSendStatus => Good) /\ (CtlError => Bad)
  BY OtherAnswers DEF Decodable
<1>5. CASE req.val > 1 /\ CtlError /\ UNCHANGED <<usbVars, settings>>
  BY <1>1, <1>4, <1>5 DEF Decodable, Decoded, Truthful, Readdressed, SettingTypes, Actual, usbVars
<1>6. CASE /\ req.val = 1 /\ SetConfigUp /\ CtlSendStatus
           /\ settings' = [settings EXCEPT !.coding = 0, !.idle = 0]
  <2>1. SettingTypes' /\ \A s \in Settings \ {"config", "coding", "idle"} : settings'[s] = settings[s]
    BY <1>6 DEF Decodable, SettingTypes, Settings
  <2>2. CoreStep /\ devConfig' = 1 /\ lowPower' = lowPower
    BY <1>6 DEF SetConfigUp, CoreStep
  <2>3. \A s \in Settings \ Forgotten(req) : Actual(s)' = Actual(s)
    BY <1>2, <2>1 DEF Actual
  <2>4. \A v \in Nat : \A s \in Subject(req) : Actual(s)' = Told(req, v)
    BY <1>1, <1>2, <1>6, <2>2 DEF Actual
  <2>5. Decoded /\ Truthful
    BY <1>1, <1>4, <1>6, <2>1, <2>3, <2>4 DEF Decodable, Decoded, Truthful
  <2> QED
    BY <1>1, <2>2, <2>5 DEF Readdressed
<1>7. CASE req.val = 0 /\ SetConfigDown /\ CtlSendStatus /\ UNCHANGED settings
  <2>1. CoreStep /\ devConfig' = 0 /\ ~hcomp' /\ lowPower' = lowPower
    BY <1>7 DEF SetConfigDown, Composite_DeInit, CoreStep
  <2> QED
    BY <1>1, <1>2, <1>4, <1>7, <2>1 DEF Decodable, Decoded, Truthful, Readdressed, SettingTypes, Actual
<1>8. CASE /\ \/ devState = "ADDRESSED" /\ req.val = 0
              \/ devState = "CONFIGURED" /\ req.val = 1
           /\ CtlSendStatus
           /\ UNCHANGED <<usbVars, settings>>
  <2>1. devConfig = req.val
    BY <1>3, <1>8
  <2> QED
    BY <1>1, <1>2, <1>4, <1>8, <2>1
       DEF Decodable, Decoded, Truthful, Readdressed, SettingTypes, Actual, usbVars
<1>9. CASE req.val <= 1 /\ SetConfigRefused /\ CtlError /\ UNCHANGED settings
  <2>1. CoreStep /\ devConfig' = devConfig /\ ~hcomp' /\ lowPower' = lowPower
    BY <1>9 DEF SetConfigRefused, Composite_DeInit, CoreStep
  <2> QED
    BY <1>1, <1>4, <1>9, <2>1 DEF Decodable, Decoded, Truthful, Readdressed, SettingTypes, Actual
<1> QED
  BY <1>5, <1>6, <1>7, <1>8, <1>9 DEF SetConfig

(* The settings outside the device state.                                  *)
LEMMA DecodeDevice ==
  ASSUME Decodable, GetDescriptor \/ GetConfig \/ GetStatus \/ UnknownReq
  PROVE  Decoded /\ Truthful /\ Readdressed
<1>1. /\ req.val \in Nat /\ req.len \in Nat /\ req.dir = "in" /\ req.op # "SET_ADDRESS" /\ ~IsOut(req)
      /\ UNCHANGED <<usbVars, addrVars, settings, isr>> /\ silent' = FALSE
  BY RequestForm DEF Decodable, GetDescriptor, GetConfig, GetStatus, UnknownReq, Keep, Answered,
                     WellFormed, InOps, IsOut
<1>2. /\ devConfig \in {0, 1} /\ (devState # "CONFIGURED" => devConfig = 0)
  BY DEF Decodable, CoreInv, CoreTypeOK, HandleIffConfigured, SleepInv, ConfigInv
<1>3. SettingTypes' /\ \A s \in Settings : Actual(s)' = Actual(s)
  BY <1>1 DEF Decodable, SettingTypes, Actual, usbVars
<1>4. /\ CtlSendStatus => Ep0Types' /\ tx' = "VALID" /\ ep0' = "STATUS_IN"
      /\ CtlError => Ep0Types' /\ tx' = "STALL" /\ ep0' = "SETUP"
  BY OtherAnswers DEF Decodable
<1>5. Readdressed
  BY <1>1 DEF Readdressed, usbVars
<1>6. CASE CtlError
  BY <1>1, <1>3, <1>4, <1>5, <1>6 DEF Decodable, Decoded, Truthful
<1>7. CASE GetDescriptor /\ ~CtlError
  <2>1. req.op = "GET_DESCRIPTOR" /\ Subject(req) = {} /\ req.op \notin Gets
    BY <1>7 DEF GetDescriptor, Subject, Gets
  <2>2. Ep0Types' /\ ep0' \in {"DATA_IN", "STATUS_IN"}
    BY <1>1, <1>4, <1>7, DataAnswer DEF GetDescriptor, Smaller, Decodable
  <2> QED
    BY <1>1, <1>3, <1>5, <2>1, <2>2 DEF Decodable, Decoded, Truthful
<1>8. CASE GetConfig /\ ~CtlError
  <2>1. req.op = "GET_CONFIGURATION" /\ Subject(req) = {"config"} /\ req.len = 1
    BY <1>8 DEF GetConfig, Subject
  <2>2. CtlSendData(1, devConfig)
    BY <1>2, <1>8 DEF GetConfig
  <2>3. Ep0Types' /\ tx' = "VALID" /\ ep0' = "DATA_IN" /\ packet'.val = devConfig
    BY <1>2, <2>2, DataAnswer DEF Decodable
  <2>4. Told(req, packet'.val) = devConfig /\ IsIn(req) /\ Actual("config")' = devConfig
    BY <1>1, <2>1, <2>3 DEF Told, Gets, IsIn, Actual, usbVars
  <2> QED
    BY <1>1, <1>3, <1>5, <2>1, <2>3, <2>4 DEF Decodable, Decoded, Truthful
<1>9. CASE GetStatus /\ ~CtlError
  <2>1. req.op = "GET_STATUS" /\ Subject(req) = {"wakeup"} /\ req.len = 2
    BY <1>9 DEF GetStatus, Subject
  <2>2. CtlSendData(2, settings.wakeup) /\ settings.wakeup \in Nat
    BY <1>9 DEF GetStatus, Decodable, SettingTypes, Settings
  <2>3. Ep0Types' /\ tx' = "VALID" /\ ep0' = "DATA_IN" /\ packet'.val = settings.wakeup
    BY <2>2, DataAnswer DEF Decodable
  <2>4. Told(req, packet'.val) = settings.wakeup /\ IsIn(req) /\ Actual("wakeup")' = settings.wakeup
    BY <1>1, <2>1, <2>3 DEF Told, Gets, IsIn, Actual
  <2> QED
    BY <1>1, <1>3, <1>5, <2>1, <2>3, <2>4 DEF Decodable, Decoded, Truthful
<1> QED
  BY <1>6, <1>7, <1>8, <1>9 DEF UnknownReq

LEMMA DecodeFeature ==
  ASSUME Decodable, SetFeature \/ ClrFeature
  PROVE  Decoded /\ Truthful /\ Readdressed
<1>1. /\ req.op \in {"SET_FEATURE", "CLEAR_FEATURE"} /\ req.val \in Nat
      /\ ~IsIn(req) /\ ~IsOut(req) /\ UNCHANGED <<usbVars, addrVars, isr>> /\ silent' \in BOOLEAN
  BY RequestForm DEF Decodable, SetFeature, ClrFeature, Answered, Ignored, WellFormed, InOps, IsIn, IsOut
<1>2. /\ CtlSendStatus => Ep0Types' /\ tx' = "VALID" /\ ep0' = "STATUS_IN"
      /\ CtlError => Ep0Types' /\ tx' = "STALL" /\ ep0' = "SETUP"
      /\ NoAnswer => Ep0Types' /\ tx' = tx /\ ep0' \in {"DATA_OUT", "SETUP"}
  BY OtherAnswers DEF Decodable
<1>3. Readdressed
  BY <1>1 DEF Readdressed, usbVars
<1>4. Ep0Types' /\ ep0' # "DATA_IN"
  BY <1>2 DEF SetFeature, ClrFeature
<1>5. CASE req.val = 1
  <2>1. Subject(req) = {"wakeup"} /\ Forgotten(req) = {"wakeup"}
    BY <1>1, <1>5 DEF Subject, Forgotten, Gets
  <2>2. SettingTypes' /\ \A s \in Settings \ {"wakeup"} : Actual(s)' = Actual(s)
    BY <1>1, <1>5 DEF SetFeature, ClrFeature, Decodable, SettingTypes, Actual, Settings, usbVars
  <2>3. \A v \in Nat : Actual("wakeup")' = Told(req, v)
    BY <1>1, <1>5 DEF SetFeature, ClrFeature, Decodable, SettingTypes, Actual, Settings, Told, Gets
  <2> QED
    BY <1>1, <1>3, <1>4, <2>1, <2>2, <2>3 DEF Decodable, Decoded, Truthful
<1>6. CASE req.val # 1
  <2>1. Subject(req) = {}
    BY <1>1, <1>6 DEF Subject
  <2>2. settings' = settings
    BY <1>6 DEF SetFeature, ClrFeature, Decodable, SettingTypes, Settings
  <2> QED
    BY <1>1, <1>3, <1>4, <2>1, <2>2 DEF Decodable, Decoded, Truthful, SettingTypes, Actual, usbVars
<1> QED
  BY <1>5, <1>6

LEMMA DecodeHalt ==
  ASSUME Decodable, SetHaltReq \/ ClearHaltReq \/ GetEpStatus
  PROVE  Decoded /\ Truthful /\ Readdressed
<1>1. /\ req.op \in {"SET_HALT", "CLEAR_HALT", "GET_EP_STATUS"} /\ Subject(req) = {} /\ ~IsOut(req)
      /\ UNCHANGED <<addrVars, settings>> /\ silent' \in BOOLEAN /\ req.op \notin Gets
      /\ req.op = "GET_EP_STATUS" => req.dir = "in"
  BY RequestForm DEF Decodable, SetHaltReq, ClearHaltReq, GetEpStatus, Keep, Answered, WellFormed, InOps,
                     IsOut, Subject, Gets
<1>2. /\ CtlSendStatus => Ep0Types' /\ tx' = "VALID" /\ ep0' = "STATUS_IN"
      /\ StallIn \/ CtlError => Ep0Types' /\ tx' = "STALL" /\ ep0' = "SETUP"
  BY OtherAnswers DEF Decodable
<1>3. CtlSendData(2, 0) => Ep0Types' /\ tx' = "VALID" /\ ep0' = "DATA_IN"
  BY DataAnswer DEF Decodable
<1>4. (CoreStep \/ UNCHANGED usbVars) /\ UNCHANGED <<devConfig, hcomp, lowPower>>
  BY DEF SetHaltReq, ClearHaltReq, GetEpStatus, Keep, CoreStep, SetHalt, ClearHalt, usbVars
<1>5. Ep0Types' /\ (ep0' = "DATA_IN" => req.op = "GET_EP_STATUS")
  BY <1>2, <1>3 DEF SetHaltReq, ClearHaltReq, GetEpStatus
<1>6. isr' \in {"idle", "restall"} /\ (isr' = "restall" => req.op = "CLEAR_HALT")
  BY DEF SetHaltReq, ClearHaltReq, GetEpStatus, Keep, Decodable
<1>7. Readdressed
  BY <1>1, <1>4 DEF Readdressed
<1> QED
  BY <1>1, <1>4, <1>5, <1>6, <1>7 DEF Decodable, Decoded, Truthful, SettingTypes, Actual

LEMMA DecodeDown ==
  ASSUME Decodable, NEW ops \in SUBSET (ItfOps \cup VendorOps), ClassDown(ops)
  PROVE  Decoded /\ Truthful /\ Readdressed
<1>1. UNCHANGED <<usbVars, addrVars, settings, isr>> /\ silent' = TRUE /\ req.op # "SET_ADDRESS"
  BY DEF ClassDown, Keep, Ignored, ItfOps, VendorOps
<1>2. Ep0Types' /\ tx' = tx /\ ep0' \in {"DATA_OUT", "SETUP"}
  BY OtherAnswers DEF ClassDown, Decodable
<1> QED
  BY <1>1, <1>2 DEF Decodable, Decoded, Truthful, Readdressed, SettingTypes, Actual, usbVars

LEMMA DecodeInterface ==
  ASSUME Decodable, ItfReq
  PROVE  Decoded /\ Truthful /\ Readdressed
<1>1. CASE ClassDown(ItfOps)
  BY <1>1, DecodeDown
<1>2. CASE ~ClassDown(ItfOps)
  <2>1. /\ req.op \in ItfOps /\ req.val \in Nat /\ req.len \in Nat
        /\ UNCHANGED <<usbVars, addrVars, isr>> /\ silent' = FALSE
    BY <1>2, RequestForm DEF Decodable, ItfReq, ItfOps, Answered
  <2>2. Readdressed
    BY <2>1 DEF Readdressed, ItfOps, usbVars
  <2>3. settings \in [Settings \ {"config"} -> Nat] /\ Ep0Types /\ tx # "VALID"
    BY DEF Decodable, SettingTypes
  <2>4. settings.coding \in Nat /\ settings.idle \in Nat
    BY <2>3 DEF Settings
  <2>5. CASE req.op = "SET_LINE_CODING"
    <3>1. CtlPrepareRx /\ UNCHANGED settings
      BY <1>2, <2>5 DEF ItfReq
    <3>2. Ep0Types' /\ tx' = tx /\ ep0' \in {"DATA_OUT", "SETUP"}
      BY <2>3, <3>1, OtherAnswers
    <3> QED
      BY <2>1, <2>2, <2>3, <3>1, <3>2 DEF Decodable, Decoded, Truthful, SettingTypes, Actual, usbVars
  <2>6. CASE req.op \in {"GET_LINE_CODING", "GET_IDLE"}
    <3> DEFINE x == IF req.op = "GET_IDLE" THEN "idle" ELSE "coding"
    <3>1. UNCHANGED settings /\ \E n \in Nat : CtlSendData(n, settings[x])
      BY <1>2, <2>6 DEF ItfReq, CodingSize
    <3>2. settings[x] \in Nat
      BY <2>4
    <3> HIDE DEF x
    <3>3. Ep0Types' /\ tx' = "VALID" /\ ep0' = "DATA_IN" /\ packet'.val = settings[x]
      BY <2>3, <3>1, <3>2, DataAnswer
    <3>4. /\ Subject(req) = {x} /\ Told(req, packet'.val) = settings[x] /\ x # "config"
          /\ req.dir = "in" /\ req.len > 0 /\ ~IsOut(req)
      BY <2>1, <2>6, <3>3, RequestForm
         DEF x, Subject, Told, Gets, Decodable, WellFormed, InOps, CodingSize, IsOut
    <3> QED
      BY <2>1, <2>2, <2>3, <3>1, <3>3, <3>4
         DEF Decodable, Decoded, Truthful, SettingTypes, Actual, usbVars, IsIn
  <2>7. CASE req.op = "SET_IDLE"
    <3>1. settings' = [settings EXCEPT !.idle = req.val] /\ CtlSendStatus
      BY <1>2, <2>7 DEF ItfReq
    <3>2. Ep0Types' /\ tx' = "VALID" /\ ep0' = "STATUS_IN"
      BY <2>3, <3>1, OtherAnswers
    <3>3. /\ Subject(req) = {"idle"} /\ Forgotten(req) = {"idle"} /\ \A v \in Nat : Told(req, v) = req.val
          /\ ~IsIn(req) /\ ~IsOut(req)
      BY <2>7, RequestForm DEF Subject, Forgotten, Told, Gets, Decodable, WellFormed, InOps, IsIn, IsOut
    <3>4. SettingTypes' /\ settings'.idle = req.val /\ \A s \in Settings \ {"config", "idle"} : settings'[s] = settings[s]
      BY <2>1, <2>3, <3>1 DEF SettingTypes, Settings
    <3>5. \A s \in Settings \ Forgotten(req) : Actual(s)' = Actual(s)
      BY <2>1, <3>3, <3>4 DEF Actual, usbVars
    <3>6. \A v \in Nat : \A s \in Subject(req) : Actual(s)' = Told(req, v)
      BY <3>3, <3>4 DEF Actual
    <3> QED
      BY <2>1, <2>2, <3>2, <3>3, <3>4, <3>5, <3>6 DEF Decodable, Decoded, Truthful
  <2>8. CASE req.op = "GET_REPORT_DESCRIPTOR"
    <3>1. UNCHANGED settings /\ \E n \in Nat : CtlSendData(n, 0)
      BY <1>2, <2>1, <2>8 DEF ItfReq, Smaller, ReportDescSize
    <3>2. Ep0Types' /\ tx' = "VALID" /\ ep0' = "DATA_IN"
      BY <2>3, <3>1, DataAnswer
    <3>3. Subject(req) = {} /\ req.op \notin Gets /\ req.dir = "in" /\ ~IsOut(req)
      BY <2>8, RequestForm DEF Subject, Gets, Decodable, WellFormed, InOps, IsOut
    <3> QED
      BY <2>1, <2>2, <2>3, <3>1, <3>2, <3>3 DEF Decodable, Decoded, Truthful, SettingTypes, Actual, usbVars
  <2> QED
    BY <2>1, <2>5, <2>6, <2>7, <2>8 DEF ItfOps
<1> QED
  BY <1>1, <1>2

LEMMA DecodeVendor ==
  ASSUME Decodable, VendorReq
  PROVE  Decoded /\ Truthful /\ Readdressed
<1>1. CASE ClassDown(VendorOps)
  BY <1>1, DecodeDown
<1>2. CASE ~ClassDown(VendorOps)
  <2>1. /\ req.op \in VendorOps /\ req.val \in Nat /\ req.len \in Nat
        /\ UNCHANGED <<usbVars, addrVars, isr>> /\ silent' = FALSE
    BY <1>2, RequestForm DEF Decodable, VendorReq, VendorOps, Answered
  <2>2. Readdressed
    BY <2>1 DEF Readdressed, VendorOps, usbVars
  <2>3. settings \in [Settings \ {"config"} -> Nat] /\ Ep0Types
    BY DEF Decodable, SettingTypes
  <2>4. req.op \notin Gets /\ req.dir = "in" /\ ~IsOut(req)
    BY <2>1, RequestForm DEF Gets, VendorOps, Decodable, WellFormed, InOps, IsOut
  <2>5. CASE req.op = "GET_FIRMWARE_INFO"
    <3>1. UNCHANGED settings /\ \E n \in Nat : CtlSendData(n, 0)
      BY <1>2, <2>1, <2>5 DEF VendorReq, Smaller, InfoSize
    <3>2. Ep0Types' /\ tx' = "VALID" /\ ep0' = "DATA_IN"
      BY <2>3, <3>1, DataAnswer
    <3>3. Subject(req) = {}
      BY <2>5 DEF Subject
    <3> QED
      BY <2>1, <2>2, <2>3, <2>4, <3>1, <3>2, <3>3
         DEF Decodable, Decoded, Truthful, SettingTypes, Actual, usbVars
  <2>6. CASE req.op = "SET_REPEAT_ENABLE"
    <3> DEFINE b == IF req.val = 0 THEN 0 ELSE 1
    <3>1. settings' = [settings EXCEPT !.repeat = b] /\ \E n \in Nat : CtlSendData(n, 0)
      BY <1>2, <2>1, <2>6 DEF VendorReq, Respond, Smaller, ResponseSize
    <3>2. Ep0Types' /\ tx' = "VALID" /\ ep0' = "DATA_IN"
      BY <2>3, <3>1, DataAnswer
    <3>3. Subject(req) = {"repeat"} /\ Forgotten(req) = {"repeat"} /\ \A v \in Nat : Told(req, v) = b
      BY <2>6 DEF Subject, Forgotten, Told, Gets
    <3>4. SettingTypes' /\ settings'.repeat = b /\ \A s \in Settings \ {"config", "repeat"} : settings'[s] = settings[s]
      BY <2>3, <3>1 DEF SettingTypes, Settings
    <3> HIDE DEF b
    <3>5. \A s \in Settings \ Forgotten(req) : Actual(s)' = Actual(s)
      BY <2>1, <3>3, <3>4 DEF Actual, usbVars
    <3>6. packet'.val \in Nat
      BY <3>2 DEF Ep0Types
    <3>7. \A s \in Subject(req) : Actual(s)' = Told(req, packet'.val)
      BY <3>3, <3>4, <3>6 DEF Actual
    <3> QED
      BY <2>1, <2>2, <2>4, <2>6, <3>2, <3>4, <3>5, <3>7 DEF Decodable, Decoded, Truthful
  <2>7. CASE req.op = "SET_LED_MODE" /\ req.val \in LedModes
    <3>1. settings' = [settings EXCEPT !.led = req.val] /\ \E n \in Nat : CtlSendData(n, 0)
      BY <1>2, <2>1, <2>7 DEF VendorReq, Respond, Smaller, ResponseSize
    <3>2. Ep0Types' /\ tx' = "VALID" /\ ep0' = "DATA_IN"
      BY <2>3, <3>1, DataAnswer
    <3>3. Subject(req) = {"led"} /\ Forgotten(req) = {"led"} /\ \A v \in Nat : Told(req, v) = req.val
      BY <2>7 DEF Subject, Forgotten, Told, Gets
    <3>4. SettingTypes' /\ settings'.led = req.val /\ \A s \in Settings \ {"config", "led"} : settings'[s] = settings[s]
      BY <2>1, <2>3, <3>1 DEF SettingTypes, Settings
    <3>5. \A s \in Settings \ Forgotten(req) : Actual(s)' = Actual(s)
      BY <2>1, <3>3, <3>4 DEF Actual, usbVars
    <3>6. packet'.val \in Nat
      BY <3>2 DEF Ep0Types
    <3>7. \A s \in Subject(req) : Actual(s)' = Told(req, packet'.val)
      BY <3>3, <3>4, <3>6 DEF Actual
    <3> QED
      BY <2>1, <2>2, <2>4, <2>7, <3>2, <3>4, <3>5, <3>7 DEF Decodable, Decoded, Truthful
  <2>8. CASE req.op = "SET_LED_MODE" /\ req.val \notin LedModes
    <3>1. UNCHANGED settings /\ \E n \in Nat : CtlSendData(n, 1)
      BY <1>2, <2>1, <2>8 DEF VendorReq, Respond, Smaller, ResponseSize
    <3>2. Ep0Types' /\ tx' = "VALID" /\ ep0' = "DATA_IN" /\ packet'.val = 1
      BY <2>3, <3>1, DataAnswer
    <3> QED
      BY <2>1, <2>2, <2>3, <2>4, <2>8, <3>1, <3>2
         DEF Decodable, Decoded, Truthful, SettingTypes, Actual, usbVars
  <2> QED
    BY <2>1, <2>5, <2>6, <2>7, <2>8 DEF VendorOps
<1> QED
  BY <1>1, <1>2

LEMMA SetupDecodes ==
  ASSUME IInv, SetupStage
  PROVE  Decodable /\ Decoded /\ Truthful /\ Readdressed
<1>1. rcv = "setup" /\ isr = "idle"
  BY DEF SetupStage
<1>2. Decodable
  <2>1. req \in Requests /\ tx # "VALID"
    BY <1>1 DEF IInv, RequestInv, ReceiveInv, Served
  <2>2. ~lowPower /\ CoreInv /\ ConfigInv
    BY <1>1 DEF IInv, AwakeInv, Pending, Served
  <2>3. Ep0Types /\ SettingTypes /\ usbAddr \in Nat /\ daddr \in Nat
    BY DEF IInv, TypeOK, Ep0Types, SettingTypes
  <2> QED
    BY <1>1, <2>1, <2>2, <2>3 DEF Decodable
<1> QED
  BY <1>2, DecodeAddress, DecodeConfig, DecodeDevice, DecodeFeature, DecodeHalt, DecodeInterface,
     DecodeVendor
     DEF SetupStage

-----------------------------------------------------------------------------
(* The device core.                                                        *)

LEMMA ConfigStep == CoreInv /\ ConfigInv /\ CoreStep => ConfigInv'
<1> SUFFICES ASSUME CoreInv, ConfigInv, CoreStep PROVE ConfigInv'
  OBVIOUS
<1> USE DEF ConfigInv
<1>1. CASE LL_Reset
  BY <1>1 DEF LL_Reset, Composite_DeInit
<1>2. CASE LL_Suspend \/ LL_Resume \/ BusRecovered \/ \E a \in {0, 1} : SetAddress(a)
  BY <1>2 DEF LL_Suspend, LL_Resume, BusRecovered, SetAddress
<1>3. CASE SetConfigUp
  BY <1>3 DEF SetConfigUp, Composite_Init
<1>4. CASE SetConfigDown
  BY <1>4 DEF SetConfigDown, Composite_DeInit
<1>5. CASE SetConfigRefused
  BY <1>5 DEF SetConfigRefused, Composite_DeInit, HostTraffic, CoreInv, HandleIffConfigured, SleepInv
<1>6. CASE \E e \in HaltEps : SetHalt(e) \/ ClearHalt(e)
  BY <1>6 DEF SetHalt, ClearHalt
<1> QED
  BY <1>1, <1>2, <1>3, <1>4, <1>5, <1>6 DEF CoreStep

OtherHandler == Restall \/ StatusReceived \/ DataOutStage \/ DataInStage

(* Most steps leave the device core alone.                                 *)
LEMMA StepsOfCore ==
  IInv /\ [Next]_vars => CoreStep \/ UNCHANGED usbVars
<1> SUFFICES ASSUME IInv, [Next]_vars PROVE CoreStep \/ UNCHANGED usbVars
  OBVIOUS
<1>1. CASE SetupStage
  BY <1>1, SetupDecodes DEF Readdressed
<1>2. CASE Reset \/ Suspend \/ Resume \/ Recover
  BY <1>2 DEF Reset, Suspend, Resume, Recover, CoreStep
<1>3. CASE OtherHandler
  BY <1>3 DEF OtherHandler, Restall, StatusReceived, DataOutStage, DataInStage
<1>4. CASE HostStep \/ (\E r \in menu : HostSetup(r)) \/ UNCHANGED vars
  BY <1>4 DEF HostStep, HostIn, HostOut, HostOutStatus, HostStalled, HostSetup, vars
<1> QED
  BY <1>1, <1>2, <1>3, <1>4 DEF Next, Handler, OtherHandler

LEMMA CoreStays == IInv /\ [Next]_vars => CoreInv' /\ ConfigInv' /\ UsbTypeOK'
<1> SUFFICES ASSUME IInv, [Next]_vars PROVE CoreInv' /\ ConfigInv' /\ UsbTypeOK'
  OBVIOUS
<1>1. CoreInv /\ ConfigInv /\ txBusy \in [EPS -> BOOLEAN] /\ epStat \in [EPS -> EpStats]
  BY DEF IInv, TypeOK, UsbTypeOK
<1>2. CASE CoreStep
  BY <1>1, <1>2, CorePreserved, ConfigStep, EndpointTypes DEF CoreInv, CoreTypeOK, UsbTypeOK
<1>3. CASE UNCHANGED usbVars
  BY <1>1, <1>3, CoreUnchanged DEF usbVars, coreVars, CoreInv, CoreTypeOK, UsbTypeOK, ConfigInv
<1> QED
  BY <1>2, <1>3, StepsOfCore

LEMMA AwakeStays == IInv /\ [Next]_vars => AwakeInv'
<1> SUFFICES ASSUME IInv, [Next]_vars PROVE AwakeInv'
  OBVIOUS
<1>1. Pending => ~lowPower
  BY DEF IInv, AwakeInv
<1>2. CASE SetupStage
  <2>1. lowPower' = lowPower /\ Pending
    BY <1>2, SetupDecodes DEF Readdressed, SetupStage, Pending, Served
  <2> QED
    BY <1>1, <2>1 DEF AwakeInv
<1>3. CASE OtherHandler
  <2>1. lowPower' = lowPower /\ Pending
    BY <1>3 DEF OtherHandler, Restall, StatusReceived, DataOutStage, DataInStage, usbVars, Pending, Served
  <2> QED
    BY <1>1, <2>1 DEF AwakeInv
<1>4. CASE HostStep \/ \E r \in menu : HostSetup(r)
  <2>1. lowPower' = lowPower /\ ~lowPower
    BY <1>4 DEF HostStep, HostIn, HostOut, HostOutStatus, HostStalled, HostSetup, HostTalks, HostTraffic,
                usbVars
  <2> QED
    BY <2>1 DEF AwakeInv
<1>5. CASE Reset \/ Suspend
  <2>1. Served'
    BY <1>5 DEF Reset, Suspend, pipeVars, flagVars, Served
  <2> QED
    BY <2>1 DEF AwakeInv, Pending
<1>6. CASE Resume \/ Recover \/ UNCHANGED vars
  <2>1. UNCHANGED <<ctrTx, rcv, isr>> /\ (lowPower' = lowPower \/ ~lowPower')
    BY <1>6 DEF Resume, LL_Resume, Recover, BusRecovered, pipeVars, vars, usbVars, flagVars
  <2> QED
    BY <1>1, <2>1 DEF AwakeInv, Pending, Served
<1> QED
  BY <1>2, <1>3, <1>4, <1>5, <1>6 DEF Next, Handler, OtherHandler

-----------------------------------------------------------------------------
(* Types.                                                                  *)

HostTypes ==
  /\ req \in Requests \cup {NoRequest} /\ stage \in Stages
  /\ got \in Nat /\ value \in Nat /\ haddr \in Nat
  /\ menu \in Menus
  /\ known \subseteq Watched /\ believed \in [Settings -> Nat]

OtherTypes ==
  /\ ctrTx \in BOOLEAN /\ rcv \in {"none", "setup", "out", "zlp"}
  /\ dataLen \in Nat /\ isr \in {"idle", "restall"}
  /\ usbAddr \in Nat /\ daddr \in Nat
  /\ faults \in [early : 0..MaxEarly, suspends : 0..MaxSuspends]
  /\ whole \in BOOLEAN /\ late \in BOOLEAN /\ silent \in BOOLEAN

LEMMA TypesTogether ==
  TypeOK <=> UsbTypeOK /\ Ep0Types /\ SettingTypes /\ HostTypes /\ OtherTypes
  BY DEF TypeOK, Ep0Types, SettingTypes, HostTypes, OtherTypes

LEMMA BelieveTypes ==
  ASSUME NEW K \in SUBSET Settings, NEW b \in [Settings -> Nat], Believe(K, b)
  PROVE  known' \subseteq Watched /\ believed' \in [Settings -> Nat]
  BY DEF Believe

LEMMA SubjectType == ASSUME NEW r \in Packets8 PROVE Subject(r) \subseteq Settings /\ Forgotten(r) \subseteq Settings
<1>1. Subject(r) \subseteq Settings
  BY DEF Subject, Settings
<1> QED
  BY <1>1 DEF Forgotten, Settings

LEMMA ToldType == ASSUME NEW r \in Packets8, NEW v \in Nat PROVE Told(r, v) \in Nat
  BY DEF Told, Packets8

LEMMA EndsWellTypes ==
  ASSUME HostTypes, req \in Requests, EndsWell
  PROVE  HostTypes' \/ menu' # menu
<1> SUFFICES ASSUME menu' = menu PROVE HostTypes'
  OBVIOUS
<1> DEFINE S == IF Convincing(req, got, value) THEN Subject(req) ELSE {}
           b == [x \in Settings |-> IF x \in S THEN Told(req, value) ELSE believed[x]]
<1>1. req \in Packets8 /\ req.val \in Nat /\ known \subseteq Settings
  BY RequestForm, PipeAssumption DEF HostTypes
<1>2. Believe(known \cup S, b) /\ stage' = "done" /\ UNCHANGED <<req, got, value>>
  BY DEF EndsWell
<1>3. S \subseteq Settings
  BY <1>1, SubjectType
<1>4. b \in [Settings -> Nat]
  BY <1>1, ToldType DEF HostTypes
<1>5. known \cup S \in SUBSET Settings
  BY <1>1, <1>3
<1> HIDE DEF S, b
<1>6. known' \subseteq Watched /\ believed' \in [Settings -> Nat]
  BY <1>2, <1>4, <1>5, BelieveTypes
<1>7. haddr' \in Nat
  BY <1>1 DEF EndsWell, HostTypes
<1> QED
  BY <1>2, <1>6, <1>7 DEF HostTypes, Stages

LEMMA TypeStays == IInv /\ [Next]_vars => TypeOK'
<1> SUFFICES ASSUME IInv, [Next]_vars
             PROVE  Ep0Types' /\ SettingTypes' /\ HostTypes' /\ OtherTypes'
  BY CoreStays DEF TypeOK, Ep0Types, SettingTypes, HostTypes, OtherTypes
<1>1. Ep0Types /\ SettingTypes /\ HostTypes /\ OtherTypes
  BY TypesTogether DEF IInv
<1>2. MPS \in Nat \ {0} /\ Watched \subseteq Settings
  BY PipeAssumption
<1>3. stage # "idle" => req \in Requests
  BY DEF IInv, RequestInv
<1>4. CASE SetupStage
  <2>1. /\ Ep0Types' /\ SettingTypes' /\ isr' \in {"idle", "restall"} /\ silent' \in BOOLEAN
        /\ req.val \in Nat /\ req.len \in Nat
    BY <1>4, SetupDecodes, RequestForm DEF Decoded, Readdressed, Decodable
  <2>2. usbAddr' \in Nat /\ daddr' \in Nat
    BY <1>1, <1>4, <2>1, SetupDecodes DEF Readdressed, addrVars, OtherTypes
  <2>3. late' \in BOOLEAN
    BY <1>1, <1>4 DEF SetupStage, OtherTypes
  <2>4. rcv' = "none" /\ dataLen' = req.len /\ UNCHANGED <<ctrTx, hostVars, faults, whole>>
    BY <1>4 DEF SetupStage
  <2> QED
    BY <1>1, <2>1, <2>2, <2>3, <2>4 DEF OtherTypes, HostTypes, hostVars
<1>5. CASE Restall
  <2>1. late' \in BOOLEAN
    BY <1>1, <1>5 DEF Restall, OtherTypes
  <2> QED
    BY <1>1, <1>5, <2>1 DEF Restall, Ep0Types, EpStats, SettingTypes, OtherTypes, HostTypes, hostVars,
                            flagVars, addrVars
<1>6. CASE StatusReceived
  BY <1>1, <1>6 DEF StatusReceived, Ep0Types, EpStats, SettingTypes, OtherTypes, HostTypes, hostVars,
                    addrVars, ghostVars
<1>7. CASE DataOutStage
  <2>1. UNCHANGED <<usbVars, ctrTx, dataLen, isr, addrVars, hostVars, faults, ghostVars>> /\ rcv' = "none"
    BY <1>7 DEF DataOutStage
  <2>2. Ep0Types'
    BY <1>1, <1>7, OtherAnswers DEF DataOutStage, ep0Vars, Ep0Types
  <2>3. SettingTypes'
    <3>1. req.val \in Nat
      BY <1>3, <1>7, RequestForm DEF DataOutStage, IInv, RequestInv, Served
    <3> QED
      BY <1>1, <1>7, <3>1 DEF DataOutStage, SettingTypes
  <2> QED
    BY <1>1, <2>1, <2>2, <2>3 DEF OtherTypes, HostTypes, hostVars, addrVars, ghostVars
<1>8. CASE DataInStage
  <2>1. UNCHANGED <<rcv, isr, settings, hostVars, faults, ghostVars>> /\ ctrTx' = FALSE
    BY <1>8 DEF DataInStage
  <2>2. Ep0Types' /\ dataLen' \in Nat
    <3>1. CASE rem > MPS /\ rem' = rem - MPS /\ Transmit(packet.off + packet.len, rem', packet.val)
               /\ PrepareReceive(FALSE) /\ UNCHANGED <<ep0, total, dataLen>>
      <4>1. rem' \in Nat /\ packet.off + packet.len \in Nat /\ packet.val \in Nat
        BY <1>1, <1>2, <3>1 DEF Ep0Types
      <4>2. tx' = "VALID" /\ packet' \in [off : Nat, len : 0..MPS, val : Nat]
        BY <3>1, <4>1, TransmitTypes
      <4> QED
        BY <1>1, <3>1, <4>1, <4>2 DEF Ep0Types, OtherTypes, EpStats, PrepareReceive
    <3>2. CASE Transmit(packet.off + packet.len, 0, packet.val) /\ dataLen' = 0
               /\ PrepareReceive(FALSE) /\ UNCHANGED <<ep0, rem, total>>
      <4>1. packet.off + packet.len \in Nat /\ packet.val \in Nat
        BY <1>1 DEF Ep0Types
      <4>2. tx' = "VALID" /\ packet' \in [off : Nat, len : 0..MPS, val : Nat]
        BY <3>2, <4>1, TransmitTypes
      <4> QED
        BY <1>1, <3>2, <4>2 DEF Ep0Types, EpStats, PrepareReceive
    <3>3. CASE /\ ep0' = "STATUS_OUT" /\ tx' = "STALL"
               /\ PrepareReceive(FALSE) /\ NoData /\ UNCHANGED <<packet, dataLen>>
      BY <1>1, <3>3 DEF Ep0Types, OtherTypes, EpStats, PrepareReceive, NoData
    <3>4. CASE UNCHANGED <<ep0Vars, dataLen>>
      BY <1>1, <3>4 DEF Ep0Types, OtherTypes, ep0Vars
    <3> QED
      BY <1>8, <3>1, <3>2, <3>3, <3>4 DEF DataInStage
  <2>3. usbAddr' \in Nat /\ daddr' \in Nat
    BY <1>1, <1>8 DEF DataInStage, OtherTypes, addrVars
  <2> QED
    BY <1>1, <2>1, <2>2, <2>3 DEF OtherTypes, HostTypes, SettingTypes, hostVars, ghostVars
<1>9. CASE \E r \in menu : HostSetup(r)
  <2>1. PICK r \in menu : HostSetup(r)
    BY <1>9
  <2>2. r \in Requests /\ r \in Packets8
    BY <1>1, RequestForm DEF HostTypes, Requests
  <2>3. known' \subseteq Watched /\ believed' \in [Settings -> Nat]
    <3>1. known \ Forgotten(r) \in SUBSET Settings /\ believed \in [Settings -> Nat]
      BY <1>1, <1>2 DEF HostTypes
    <3> QED
      BY <2>1, <3>1, BelieveTypes DEF HostSetup
  <2>4. faults' \in [early : 0..MaxEarly, suspends : 0..MaxSuspends]
    <3>1. faults \in [early : 0..MaxEarly, suspends : 0..MaxSuspends] /\ MaxEarly \in Nat
      BY <1>1, PipeAssumption DEF OtherTypes
    <3>2. CASE InFlight \/ ctrTx
      <4>1. faults.early + 1 \in 0..MaxEarly
        BY <2>1, <3>1, <3>2 DEF HostSetup
      <4>2. faults' = [faults EXCEPT !.early = @ + 1]
        BY <2>1, <3>2 DEF HostSetup
      <4> QED
        BY <3>1, <4>1, <4>2
    <3>3. CASE ~(InFlight \/ ctrTx)
      BY <2>1, <3>1, <3>3 DEF HostSetup
    <3> QED
      BY <3>2, <3>3
  <2>5. stage' \in Stages
    BY <2>1 DEF HostSetup, Stages
  <2>6. /\ req' = r /\ rcv' = "setup" /\ tx' = "NAK" /\ rx' = "NAK" /\ got' = 0 /\ value' = 0
        /\ whole' = TRUE /\ silent' = FALSE
        /\ UNCHANGED <<usbVars, packet, rxBuf, ep0, rem, total, ctrTx, dataLen, isr, addrVars,
                       settings, haddr, menu, late>>
    BY <2>1 DEF HostSetup
  <2> QED
    BY <1>1, <2>2, <2>3, <2>4, <2>5, <2>6 DEF Ep0Types, EpStats, SettingTypes, OtherTypes, HostTypes, addrVars
<1>10. CASE HostIn
  <2>1. /\ tx' = "NAK" /\ ctrTx' = TRUE
        /\ UNCHANGED <<usbVars, rx, packet, rxBuf, ep0, rem, total, rcv, dataLen, isr, addrVars,
                       settings, menu, faults, late, silent>>
    BY <1>10 DEF HostIn
  <2>2. HostTypes' /\ whole' \in BOOLEAN
    <3>1. CASE stage = "data_in"
      <4>1. /\ got' = got + packet.len /\ value' = packet.val
            /\ whole' = (whole /\ packet.off = got)
            /\ stage' \in Stages
            /\ UNCHANGED <<req, haddr, known, believed, menu>>
        BY <1>10, <3>1 DEF HostIn, Stages
      <4>2. got' \in Nat /\ value' \in Nat
        BY <1>1, <1>2, <4>1 DEF Ep0Types, HostTypes
      <4>3. whole' \in BOOLEAN
        BY <4>1
      <4> QED
        BY <1>1, <4>1, <4>2, <4>3 DEF HostTypes
    <3>2. CASE stage = "status_in"
      <4>1. EndsWell /\ whole' = whole /\ menu' = menu
        BY <1>10, <3>2 DEF HostIn
      <4> QED
        BY <1>1, <1>3, <3>2, <4>1, EndsWellTypes DEF OtherTypes
    <3> QED
      BY <1>10, <3>1, <3>2 DEF HostIn
  <2> QED
    BY <1>1, <2>1, <2>2 DEF Ep0Types, EpStats, SettingTypes, OtherTypes, addrVars
<1>11. CASE HostOutStatus
  <2>1. HostTypes'
    BY <1>1, <1>3, <1>11, EndsWellTypes DEF HostOutStatus
  <2> QED
    BY <1>1, <1>11, <2>1 DEF HostOutStatus, Ep0Types, EpStats, SettingTypes, OtherTypes, addrVars, ghostVars
<1>12. CASE HostOut \/ HostStalled
  BY <1>1, <1>12 DEF HostOut, HostStalled, Ep0Types, EpStats, SettingTypes, OtherTypes, HostTypes, Stages,
                     addrVars, ghostVars, ep0Vars, flagVars
<1>13. CASE Reset
  <2>1. known' \subseteq Watched /\ believed' \in [Settings -> Nat]
    <3>1. (known \ {"coding", "idle"}) \cup {"config", "wakeup"} \in SUBSET Settings
      BY <1>1, <1>2 DEF HostTypes, Settings
    <3>2. [believed EXCEPT !.config = 0, !.wakeup = 0] \in [Settings -> Nat]
      BY <1>1 DEF HostTypes
    <3> QED
      BY <1>13, <3>1, <3>2, BelieveTypes DEF Reset
  <2>2. SettingTypes'
    BY <1>1, <1>13 DEF Reset, SettingTypes
  <2>3. faults' \in [early : 0..MaxEarly, suspends : 0..MaxSuspends]
    BY <1>13, PipeAssumption DEF Reset
  <2>4. Ep0Types'
    BY <1>1, <1>13 DEF Reset, Ep0Types, EpStats, NoData
  <2> QED
    BY <1>1, <1>13, <2>1, <2>2, <2>3, <2>4
       DEF Reset, ClearAddress, OtherTypes, HostTypes, Stages, flagVars
<1>14. CASE Suspend
  <2>1. faults' \in [early : 0..MaxEarly, suspends : 0..MaxSuspends]
    <3>1. faults \in [early : 0..MaxEarly, suspends : 0..MaxSuspends] /\ MaxSuspends \in Nat
      BY <1>1, PipeAssumption DEF OtherTypes
    <3>2. faults.suspends + 1 \in 0..MaxSuspends
      BY <1>14, <3>1 DEF Suspend
    <3> QED
      BY <1>14, <3>1, <3>2 DEF Suspend
  <2>2. UNCHANGED pipeVars
    BY <1>14 DEF Suspend
  <2> QED
    BY <1>1, <2>1, <2>2 DEF pipeVars, Ep0Types, SettingTypes, OtherTypes, HostTypes, ep0Vars, flagVars,
                            addrVars, hostVars, ghostVars
<1>15. CASE Resume \/ Recover \/ UNCHANGED vars
  <2>1. UNCHANGED <<pipeVars, faults>>
    BY <1>15 DEF Resume, Recover, vars, pipeVars
  <2> QED
    BY <1>1, <2>1 DEF pipeVars, Ep0Types, SettingTypes, OtherTypes, HostTypes, ep0Vars, flagVars,
                      addrVars, hostVars, ghostVars
<1> QED
  BY <1>4, <1>5, <1>6, <1>7, <1>8, <1>9, <1>10, <1>11, <1>12, <1>13, <1>14, <1>15
     DEF Next, Handler, HostStep

-----------------------------------------------------------------------------
(* What the host counts on.                                                *)

(* Most steps keep every setting.                                          *)
Calm == devConfig' = devConfig /\ settings' = settings

LEMMA CalmSteps ==
  /\ Restall \/ StatusReceived \/ DataInStage => Calm /\ UNCHANGED hostVars
  /\ HostStep \/ (\E r \in menu : HostSetup(r)) => Calm /\ UNCHANGED usbVars
  /\ Suspend \/ Resume \/ Recover => Calm /\ hcomp' = hcomp /\ UNCHANGED pipeVars
<1>1. Restall \/ StatusReceived \/ DataInStage => Calm /\ UNCHANGED hostVars
  BY DEF Restall, StatusReceived, DataInStage, Calm, usbVars
<1>2. HostStep \/ (\E r \in menu : HostSetup(r)) => Calm /\ UNCHANGED usbVars
  BY DEF HostStep, HostIn, HostOut, HostOutStatus, HostStalled, HostSetup, Calm, usbVars
<1>3. Suspend \/ Resume \/ Recover => Calm /\ hcomp' = hcomp /\ UNCHANGED pipeVars
  BY DEF Suspend, LL_Suspend, Resume, LL_Resume, Recover, BusRecovered, Calm, pipeVars
<1> QED
  BY <1>1, <1>2, <1>3

(* The request of an OUT data stage.                                       *)
LEMMA OnlyLineCoding ==
  ASSUME NEW r \in Requests, IsOut(r)
  PROVE  r.op = "SET_LINE_CODING" /\ ~IsIn(r) /\ "coding" \in Forgotten(r)
<1>1. r.op = "SET_LINE_CODING" /\ ~IsIn(r)
  BY RequestForm DEF IsOut, IsIn, WellFormed
<1> QED
  BY <1>1 DEF Forgotten, Gets, Subject

(* EP0 expects the data of SET_LINE_CODING only while the class is up.     *)
LEMMA DataOutUp ==
  ASSUME SetupStage PROVE ep0' = "DATA_OUT" => hcomp'
<1> USE DEF CtlSendData, CtlSendStatus, StallIn, CtlError, NoAnswer
<1>1. CASE GetDescriptor \/ SetAddressReq \/ SetConfig \/ GetConfig \/ GetStatus \/ UnknownReq
  BY <1>1 DEF GetDescriptor, SetAddressReq, SetConfig, GetConfig, GetStatus, UnknownReq
<1>2. CASE SetFeature \/ ClrFeature \/ SetHaltReq \/ ClearHaltReq \/ GetEpStatus
  BY <1>2 DEF SetFeature, ClrFeature, SetHaltReq, ClearHaltReq, GetEpStatus
<1>3. CASE ItfReq
  BY <1>3 DEF ItfReq, ClassDown, usbVars
<1>4. CASE VendorReq
  BY <1>4 DEF VendorReq, ClassDown, Respond
<1> QED
  BY <1>1, <1>2, <1>3, <1>4 DEF SetupStage

(* A well-formed request of the host is one of the three kinds.            *)
LEMMA SetupForm ==
  ASSUME NEW r \in menu, menu \in Menus, HostSetup(r)
  PROVE  /\ r \in Requests /\ req' = r
         /\ stage' \in {"data_in", "data_out", "status_in"}
         /\ stage' = "data_in" <=> IsIn(r)
         /\ stage' = "data_out" <=> IsOut(r)
         /\ rcv' = "setup" /\ tx' = "NAK" /\ rx' = "NAK" /\ got' = 0 /\ ~silent'
         /\ known' = (known \ Forgotten(r)) \cap Watched
         /\ rcv = "none" /\ ~late /\ haddr = daddr
         /\ UNCHANGED <<ep0, packet, ctrTx, isr, usbAddr, daddr, haddr, late, hcomp>>
<1>1. r \in Requests
  BY DEF Requests
<1>2. ~(IsIn(r) /\ IsOut(r))
  BY DEF IsIn, IsOut
<1> QED
  BY <1>1, <1>2 DEF HostSetup, HostTalks, Believe, usbVars, addrVars

-----------------------------------------------------------------------------
(* The requests in flight.                                                 *)

LEMMA RequestStays == IInv /\ [Next]_vars => RequestInv'
<1> SUFFICES ASSUME IInv, [Next]_vars PROVE RequestInv'
  OBVIOUS
<1>1. RequestInv /\ ReceiveInv /\ AnswerInv /\ menu \in Menus /\ TypeOK
  BY DEF IInv, TypeOK
<1>2. CASE SetupStage
  <2>1. rcv = "setup" /\ stage # "idle" /\ UNCHANGED hostVars
    BY <1>1, <1>2 DEF SetupStage, RequestInv, Served
  <2>2. (IsOut(req) => tx' # "VALID") /\ (isr' = "restall" => req.op = "CLEAR_HALT")
    BY <1>2, SetupDecodes DEF Decoded
  <2> QED
    BY <1>1, <2>1, <2>2 DEF RequestInv, hostVars
<1>3. CASE Restall \/ StatusReceived
  <2>1. /\ UNCHANGED <<hostVars, ep0>> /\ stage # "idle"
        /\ tx' = "STALL" \/ (tx' = tx /\ stage = "done")
        /\ isr' = "idle"
    BY <1>1, <1>3 DEF Restall, StatusReceived, RequestInv, ReceiveInv, Served
  <2> QED
    BY <1>1, <2>1 DEF RequestInv, hostVars
<1>4. CASE DataOutStage
  <2>1. UNCHANGED hostVars /\ isr' = "idle" /\ stage \in {"status_in", "stalled"}
    BY <1>1, <1>4 DEF DataOutStage, ReceiveInv
  <2> QED
    BY <1>1, <2>1 DEF RequestInv, hostVars
<1>5. CASE DataInStage
  <2>1. UNCHANGED hostVars /\ isr' = "idle" /\ stage # "idle" /\ rcv = "none"
    BY <1>1, <1>5 DEF DataInStage, RequestInv, Served
  <2>2. stage = "data_out" => tx' # "VALID"
    <3> SUFFICES ASSUME stage = "data_out" PROVE tx' # "VALID"
      OBVIOUS
    <3>1. IsOut(req) /\ tx # "VALID" /\ req \in Requests
      BY <1>1 DEF RequestInv
    <3>2. ep0 # "DATA_IN"
      BY <1>1, <2>1, <3>1, RequestForm DEF AnswerInv, IsOut
    <3> QED
      BY <1>5, <3>1, <3>2 DEF DataInStage, ep0Vars
  <2> QED
    BY <1>1, <2>1, <2>2 DEF RequestInv, hostVars
<1>6. CASE \E r \in menu : HostSetup(r)
  <2>1. PICK r \in menu : HostSetup(r)
    BY <1>6
  <2>2. /\ r \in Requests /\ req' = r
        /\ stage' \in {"data_in", "data_out", "status_in"}
        /\ stage' = "data_in" <=> IsIn(r)
        /\ stage' = "data_out" <=> IsOut(r)
        /\ rcv' = "setup" /\ tx' = "NAK" /\ got' = 0
    BY <1>1, <2>1, SetupForm
  <2>3. IsOut(r) => ~IsIn(r)
    BY <2>2, OnlyLineCoding
  <2> QED
    BY <2>2, <2>3 DEF RequestInv
<1>7. CASE HostIn
  <2>1. /\ UNCHANGED <<req, isr, rcv>> /\ tx' = "NAK" /\ stage \in {"data_in", "status_in"}
        /\ stage' \in {"done", "status_out"} \/ stage' = stage
        /\ stage' \in {"status_out", "data_in"} => stage = "data_in"
        /\ stage' # "status_in"
    BY <1>7 DEF HostIn, EndsWell
  <2> QED
    BY <1>1, <2>1 DEF RequestInv
<1>8. CASE HostOut \/ HostOutStatus \/ HostStalled
  <2>1. /\ UNCHANGED <<req, got, isr>> /\ stage # "idle"
        /\ \/ stage' \in {"done", "stalled"}
           \/ stage = "data_out" /\ stage' = "status_in"
        /\ rcv' = rcv \/ rx = "VALID"
    BY <1>8 DEF HostOut, HostOutStatus, HostStalled, EndsWell, flagVars
  <2> QED
    BY <1>1, <2>1 DEF RequestInv, ReceiveInv
<1>9. CASE Reset
  BY <1>9 DEF Reset, RequestInv, Served, flagVars
<1>10. CASE Suspend \/ Resume \/ Recover \/ UNCHANGED vars
  <2>1. UNCHANGED pipeVars
    BY <1>10, CalmSteps DEF vars, pipeVars
  <2> QED
    BY <1>1, <2>1 DEF pipeVars, ep0Vars, hostVars, flagVars, RequestInv, Served
<1> QED
  BY <1>2, <1>3, <1>4, <1>5, <1>6, <1>7, <1>8, <1>9, <1>10 DEF Next, Handler, HostStep

LEMMA ReceiveStays == IInv /\ [Next]_vars => ReceiveInv'
<1> SUFFICES ASSUME IInv, [Next]_vars PROVE ReceiveInv'
  OBVIOUS
<1>1. RequestInv /\ ReceiveInv /\ menu \in Menus
  BY DEF IInv, TypeOK
<1>2. CASE SetupStage
  <2>1. rcv' = "none" /\ UNCHANGED <<stage, known>>
    BY <1>2 DEF SetupStage, hostVars
  <2> QED
    BY <1>1, <2>1 DEF ReceiveInv
<1>3. CASE Restall
  <2>1. /\ tx' = "STALL" /\ rx' = "STALL" /\ late' = (late \/ rcv = "setup")
        /\ UNCHANGED <<rcv, stage, silent, known, req>>
    BY <1>3 DEF Restall, flagVars, hostVars
  <2>2. rcv # "setup" => req.op = "CLEAR_HALT"
    BY <1>1, <1>3 DEF Restall, RequestInv
  <2> QED
    BY <1>1, <2>1, <2>2 DEF ReceiveInv
<1>4. CASE StatusReceived \/ DataOutStage \/ DataInStage
  <2>1. rcv' = "none" /\ UNCHANGED <<stage, known>>
    BY <1>4 DEF StatusReceived, DataOutStage, DataInStage, hostVars
  <2> QED
    BY <1>1, <2>1 DEF ReceiveInv
<1>5. CASE \E r \in menu : HostSetup(r)
  <2>1. PICK r \in menu : HostSetup(r)
    BY <1>5
  <2>2. /\ r \in Requests /\ req' = r
        /\ stage' \in {"data_in", "data_out", "status_in"}
        /\ stage' = "data_out" <=> IsOut(r)
        /\ rcv' = "setup" /\ tx' = "NAK" /\ rx' = "NAK" /\ ~silent'
        /\ known' = (known \ Forgotten(r)) \cap Watched
    BY <1>1, <2>1, SetupForm
  <2>3. IsOut(r) => "coding" \in Forgotten(r)
    BY <2>2, OnlyLineCoding
  <2> QED
    BY <2>2, <2>3 DEF ReceiveInv
<1>6. CASE HostIn
  <2>1. /\ UNCHANGED <<rcv, silent>> /\ tx = "VALID" /\ stage \in {"data_in", "status_in"}
        /\ stage' # "data_out"
    BY <1>6 DEF HostIn, EndsWell
  <2> QED
    BY <1>1, <2>1 DEF ReceiveInv
<1>7. CASE HostOut
  <2>1. /\ stage = "data_out" /\ stage' = "status_in" /\ rcv' = "out" /\ rx' = "NAK"
        /\ UNCHANGED <<tx, known, req>>
    BY <1>7 DEF HostOut
  <2>2. req.op = "SET_LINE_CODING" /\ tx # "VALID"
    BY <1>1, <2>1, OnlyLineCoding DEF RequestInv
  <2> QED
    BY <1>1, <2>1, <2>2 DEF ReceiveInv
<1>8. CASE HostOutStatus
  <2>1. rcv' = "zlp" /\ stage' = "done"
    BY <1>8 DEF HostOutStatus, EndsWell
  <2> QED
    BY <2>1 DEF ReceiveInv
<1>9. CASE HostStalled
  <2>1. /\ UNCHANGED <<tx, rx, rcv, req, known, silent, late>> /\ stage' = "stalled"
        /\ tx = "STALL" \/ rx = "STALL"
        /\ stage \in {"data_in", "status_in", "data_out", "status_out"}
    BY <1>9 DEF HostStalled, ep0Vars, flagVars, ghostVars
  <2> QED
    BY <1>1, <2>1 DEF ReceiveInv
<1>10. CASE Reset
  BY <1>10 DEF Reset, ReceiveInv, Served, flagVars
<1>11. CASE Suspend \/ Resume \/ Recover \/ UNCHANGED vars
  <2>1. UNCHANGED pipeVars
    BY <1>11, CalmSteps DEF vars, pipeVars
  <2> QED
    BY <1>1, <2>1 DEF pipeVars, ep0Vars, hostVars, flagVars, ghostVars, ReceiveInv
<1> QED
  BY <1>2, <1>3, <1>4, <1>5, <1>6, <1>7, <1>8, <1>9, <1>10, <1>11 DEF Next, Handler, HostStep

-----------------------------------------------------------------------------
(* The answers.                                                            *)

(* The data stage of a class request finds the class up and awake.         *)
LEMMA ClassReached == IInv /\ rcv = "out" /\ ep0 = "DATA_OUT" => DataInReachesClass
<1> SUFFICES ASSUME IInv, rcv = "out", ep0 = "DATA_OUT" PROVE DataInReachesClass
  OBVIOUS
<1>1. hcomp /\ ~lowPower
  BY DEF IInv, AnswerInv, AwakeInv, Pending, Served
<1>2. HandleIffConfigured /\ SleepInv
  BY DEF IInv, CoreInv
<1> QED
  BY <1>1, <1>2 DEF HandleIffConfigured, SleepInv, DataInReachesClass

(* Line coding received: what the class does with it.                      *)
LEMMA CodingStored ==
  ASSUME IInv, DataOutStage
  PROVE  /\ \A s \in Settings \ {"coding"} : Actual(s)' = Actual(s)
         /\ req.op = "SET_LINE_CODING" /\ Subject(req) = {"coding"}
         /\ \/ UNCHANGED ep0Vars
            \/ ep0' = "STATUS_IN" /\ \A v \in Nat : settings'.coding = Told(req, v)
<1>1. rcv = "out" /\ UNCHANGED usbVars
  BY DEF DataOutStage
<1>2. req.op = "SET_LINE_CODING"
  BY <1>1 DEF IInv, ReceiveInv
<1>3. Subject(req) = {"coding"} /\ \A v \in Nat : Told(req, v) = req.val
  BY <1>2 DEF Subject, Told, Gets
<1>4. settings \in [Settings \ {"config"} -> Nat]
  BY DEF IInv, TypeOK
<1>5. settings' = settings \/ settings' = [settings EXCEPT !.coding = req.val]
  BY DEF DataOutStage
<1>6. \A s \in Settings \ {"coding"} : Actual(s)' = Actual(s)
  BY <1>1, <1>4, <1>5 DEF Actual, Settings, usbVars
<1>7. CASE rxBuf /\ ep0 = "DATA_OUT"
  <2>1. settings' = [settings EXCEPT !.coding = req.val] /\ CtlSendStatus
    BY <1>1, <1>7, ClassReached DEF DataOutStage
  <2>2. settings'.coding = req.val
    BY <1>4, <2>1 DEF Settings
  <2> QED
    BY <1>2, <1>3, <1>6, <2>1, <2>2 DEF CtlSendStatus
<1>8. CASE ~(rxBuf /\ ep0 = "DATA_OUT")
  BY <1>2, <1>3, <1>6, <1>8 DEF DataOutStage
<1> QED
  BY <1>7, <1>8

(* What an IN completion leaves in the buffer.                             *)
LEMMA NextPacket ==
  ASSUME DataInStage
  PROVE  /\ ep0 # "DATA_IN" => UNCHANGED ep0Vars
         /\ ep0 = "DATA_IN" => \/ ep0' = ep0 /\ packet'.val = packet.val
                               \/ ep0' = "STATUS_OUT" /\ tx' = "STALL"
<1>1. ep0 # "DATA_IN" => UNCHANGED ep0Vars
  BY DEF DataInStage, ep0Vars
<1>2. CASE ep0 = "DATA_IN"
  <2>1. \/ \E n : Transmit(packet.off + packet.len, n, packet.val) /\ ep0' = ep0
        \/ ep0' = "STATUS_OUT" /\ tx' = "STALL"
    BY <1>2 DEF DataInStage
  <2>2. \A off, n, v : Transmit(off, n, v) => packet'.val = v
    BY DEF Transmit
  <2> QED
    BY <1>2, <2>1, <2>2
<1> QED
  BY <1>1, <1>2

LEMMA AnswerStays == IInv /\ [Next]_vars => AnswerInv'
<1> SUFFICES ASSUME IInv, [Next]_vars PROVE AnswerInv'
  OBVIOUS
<1>1. RequestInv /\ ReceiveInv /\ AnswerInv /\ menu \in Menus /\ value \in Nat
  BY DEF IInv, TypeOK
<1> USE DEF Agree, Actual
<1>2. CASE SetupStage
  <2>1. /\ rcv = "setup" /\ UNCHANGED hostVars
        /\ stage \in {"data_in", "data_out", "status_in", "stalled"}
    BY <1>1, <1>2 DEF SetupStage, ReceiveInv
  <2>2. Decoded /\ Truthful /\ (ep0' = "DATA_OUT" => hcomp')
    BY <1>2, SetupDecodes, DataOutUp
  <2>3. stage = "data_in" /\ (tx' = "VALID" \/ ep0' = "DATA_IN") => Agree(packet.val)'
    BY <1>1, <2>1, <2>2 DEF RequestInv, Truthful, hostVars
  <2>4. stage = "status_in" /\ tx' = "VALID" /\ req.op \notin {"SET_LED_MODE", "SET_REPEAT_ENABLE"}
          => Agree(value)'
    BY <1>1, <2>1, <2>2 DEF RequestInv, Truthful, hostVars
  <2> QED
    BY <2>1, <2>2, <2>3, <2>4 DEF AnswerInv, Decoded, hostVars
<1>3. CASE Restall
  <2>1. Calm /\ UNCHANGED <<hostVars, ep0, rcv, packet, hcomp>> /\ tx' = "STALL"
    BY <1>3 DEF Restall, Calm, flagVars, usbVars
  <2> QED
    BY <1>1, <2>1 DEF AnswerInv, Calm, hostVars
<1>4. CASE StatusReceived
  <2>1. Calm /\ UNCHANGED <<hostVars, ep0, hcomp>> /\ stage = "done" /\ rcv = "zlp"
    BY <1>1, <1>4 DEF StatusReceived, Calm, usbVars, ReceiveInv
  <2> QED
    BY <1>1, <2>1 DEF AnswerInv, hostVars
<1>5. CASE DataOutStage
  <2>1. rcv = "out" /\ UNCHANGED <<hostVars, hcomp>> /\ stage \in {"status_in", "stalled"} /\ tx # "VALID"
    BY <1>1, <1>5 DEF DataOutStage, usbVars, ReceiveInv
  <2>2. /\ Subject(req) = {"coding"}
        /\ \/ UNCHANGED ep0Vars
           \/ ep0' = "STATUS_IN" /\ \A v \in Nat : settings'.coding = Told(req, v)
    BY <1>5, CodingStored
  <2>3. CASE UNCHANGED ep0Vars
    BY <1>1, <2>1, <2>3 DEF AnswerInv, hostVars, ep0Vars
  <2>4. CASE ep0' = "STATUS_IN" /\ \A v \in Nat : settings'.coding = Told(req, v)
    <3>1. Agree(value)'
      BY <1>1, <2>1, <2>2, <2>4 DEF hostVars
    <3> QED
      BY <2>1, <2>4, <3>1 DEF AnswerInv, hostVars
  <2> QED
    BY <2>2, <2>3, <2>4
<1>6. CASE DataInStage
  <2>1. Calm /\ UNCHANGED <<hostVars, rcv, hcomp>> /\ rcv = "none"
    BY <1>6 DEF DataInStage, Calm, usbVars
  <2>2. CASE ep0 # "DATA_IN"
    BY <1>1, <1>6, <2>1, <2>2, NextPacket DEF AnswerInv, Calm, hostVars, ep0Vars
  <2>3. CASE ep0 = "DATA_IN"
    <3>1. req.dir = "in" /\ (req.op \in Gets => req.len > 0)
      BY <1>1, <2>1, <2>3 DEF AnswerInv
    <3>2. \/ ep0' = "DATA_IN" /\ packet'.val = packet.val
          \/ ep0' = "STATUS_OUT" /\ tx' = "STALL"
      BY <1>6, <2>3, NextPacket
    <3>3. stage = "status_in" /\ req.op \notin {"SET_LED_MODE", "SET_REPEAT_ENABLE"} => Subject(req) = {}
      <4> SUFFICES ASSUME stage = "status_in", req.op \notin {"SET_LED_MODE", "SET_REPEAT_ENABLE"}
                   PROVE  Subject(req) = {}
        OBVIOUS
      <4>1. req \in Requests /\ ~IsIn(req)
        BY <1>1 DEF RequestInv
      <4>2. WellFormed(req) /\ req.len \in Nat
        BY <4>1, RequestForm
      <4>3. req.op \in InOps /\ req.op \notin Gets
        BY <3>1, <4>1, <4>2 DEF IsIn, WellFormed
      <4> QED
        BY <4>3 DEF Subject, InOps, Gets
    <3> QED
      BY <1>1, <2>1, <2>3, <3>1, <3>2, <3>3 DEF AnswerInv, Calm, hostVars
  <2> QED
    BY <2>2, <2>3
<1>7. CASE \E r \in menu : HostSetup(r)
  <2>1. PICK r \in menu : HostSetup(r)
    BY <1>7
  <2>2. stage' # "status_out" /\ rcv' = "setup" /\ tx' = "NAK" /\ UNCHANGED <<ep0, hcomp>>
    BY <1>1, <2>1, SetupForm
  <2> QED
    BY <1>1, <2>2 DEF AnswerInv
<1>8. CASE HostIn
  <2>1. /\ Calm /\ UNCHANGED <<ep0, hcomp, req, rcv, packet>> /\ tx = "VALID" /\ tx' = "NAK"
        /\ \/ stage = "data_in" /\ value' = packet.val
           \/ stage' = "done"
    BY <1>8 DEF HostIn, EndsWell, Calm, usbVars
  <2>2. rcv # "setup"
    BY <1>1, <2>1 DEF ReceiveInv
  <2> QED
    BY <1>1, <2>1, <2>2 DEF AnswerInv, Calm
<1>9. CASE HostOut \/ HostOutStatus \/ HostStalled
  <2>1. /\ Calm /\ UNCHANGED <<ep0, hcomp, req, tx, packet, value>>
        /\ \/ stage' \in {"done", "stalled"}
           \/ stage' = "status_in" /\ stage = "data_out"
        /\ rcv' = rcv \/ rx = "VALID"
    BY <1>9 DEF HostOut, HostOutStatus, HostStalled, EndsWell, Calm, usbVars, flagVars, ep0Vars
  <2> QED
    BY <1>1, <2>1 DEF AnswerInv, RequestInv, ReceiveInv
<1>10. CASE Reset
  BY <1>10 DEF Reset, AnswerInv
<1>11. CASE Suspend \/ Resume \/ Recover \/ UNCHANGED vars
  <2>1. UNCHANGED pipeVars /\ Calm /\ hcomp' = hcomp
    BY <1>11, CalmSteps DEF vars, pipeVars, usbVars, Calm
  <2> QED
    BY <1>1, <2>1 DEF pipeVars, ep0Vars, hostVars, flagVars, AnswerInv, Calm
<1> QED
  BY <1>2, <1>3, <1>4, <1>5, <1>6, <1>7, <1>8, <1>9, <1>10, <1>11 DEF Next, Handler, HostStep

-----------------------------------------------------------------------------
(* What the host believes.                                                 *)

(* EndsWell, told the truth about the subject of the request.              *)
LEMMA EndsTruly ==
  ASSUME IInv, EndsWell, Calm, Agree(value)
  PROVE  BeliefHolds'
<1> DEFINE S == IF Convincing(req, got, value) THEN Subject(req) ELSE {}
<1>1. /\ BeliefHolds /\ value \in Nat /\ got \in Nat
      /\ known \subseteq Watched /\ Watched \subseteq Settings
  BY PipeAssumption DEF IInv, TypeOK
<1>2. \A s \in S : Actual(s) = Told(req, value)
  BY DEF Agree, Convincing
<1>3. Believe(known \cup S, [x \in Settings |-> IF x \in S THEN Told(req, value) ELSE believed[x]])
  BY DEF EndsWell
<1> HIDE DEF S
<1>4. \A s \in known' : s \in known \cup S /\ s \in Settings
                        /\ believed'[s] = IF s \in S THEN Told(req, value) ELSE believed[s]
  BY <1>1, <1>3 DEF Believe
<1>5. \A s \in known' : Actual(s) = believed'[s]
  BY <1>1, <1>2, <1>4 DEF BeliefHolds
<1> QED
  BY <1>5 DEF Calm, BeliefHolds, Actual

LEMMA BeliefStays == IInv /\ [Next]_vars => BeliefHolds'
<1> SUFFICES ASSUME IInv, [Next]_vars PROVE BeliefHolds'
  OBVIOUS
<1>1. /\ BeliefHolds /\ RequestInv /\ ReceiveInv /\ AnswerInv /\ menu \in Menus
      /\ known \subseteq Settings /\ believed \in [Settings -> Nat]
      /\ settings \in [Settings \ {"config"} -> Nat]
  BY PipeAssumption DEF IInv, TypeOK
<1>2. CASE SetupStage
  <2>1. UNCHANGED hostVars /\ known \cap Forgotten(req) = {}
    BY <1>1, <1>2 DEF SetupStage, ReceiveInv
  <2>2. \A s \in Settings \ Forgotten(req) : Actual(s)' = Actual(s)
    BY <1>2, SetupDecodes DEF Truthful
  <2> QED
    BY <1>1, <2>1, <2>2 DEF BeliefHolds, hostVars
<1>3. CASE DataOutStage
  <2>1. UNCHANGED hostVars /\ "coding" \notin known
    BY <1>1, <1>3 DEF DataOutStage, ReceiveInv
  <2>2. \A s \in Settings \ {"coding"} : Actual(s)' = Actual(s)
    BY <1>3, CodingStored
  <2> QED
    BY <1>1, <2>1, <2>2 DEF BeliefHolds, hostVars
<1>4. CASE Restall \/ StatusReceived \/ DataInStage
  <2>1. Calm /\ UNCHANGED hostVars
    BY <1>4, CalmSteps
  <2> QED
    BY <1>1, <2>1 DEF BeliefHolds, Actual, Calm, hostVars
<1>5. CASE \E r \in menu : HostSetup(r)
  <2>1. PICK r \in menu : HostSetup(r)
    BY <1>5
  <2>2. Calm
    BY <1>5, CalmSteps
  <2>3. Believe(known \ Forgotten(r), believed)
    BY <2>1 DEF HostSetup
  <2>4. \A s \in known' : s \in known /\ believed'[s] = believed[s]
    BY <1>1, <2>3 DEF Believe
  <2> QED
    BY <1>1, <2>2, <2>4 DEF BeliefHolds, Actual, Calm
<1>6. CASE HostIn
  <2>1. Calm
    BY <1>6, CalmSteps DEF HostStep
  <2>2. CASE stage = "data_in"
    <3>1. UNCHANGED <<known, believed>>
      BY <1>6, <2>2 DEF HostIn
    <3> QED
      BY <1>1, <2>1, <3>1 DEF BeliefHolds, Actual, Calm
  <2>3. CASE stage = "status_in"
    <3>1. EndsWell /\ tx = "VALID" /\ got = 0
      BY <1>1, <1>6, <2>3 DEF HostIn, RequestInv
    <3>2. CASE req.op \in {"SET_LED_MODE", "SET_REPEAT_ENABLE"}
      <4>1. ~Convincing(req, got, value)
        BY <3>1, <3>2 DEF Convincing
      <4>2. Believe(known \cup {}, [x \in Settings |-> IF x \in {} THEN Told(req, value) ELSE believed[x]])
        BY <3>1, <4>1 DEF EndsWell
      <4>3. \A s \in known' : s \in known /\ believed'[s] = believed[s]
        BY <1>1, <4>2 DEF Believe
      <4> QED
        BY <1>1, <2>1, <4>3 DEF BeliefHolds, Actual, Calm
    <3>3. CASE req.op \notin {"SET_LED_MODE", "SET_REPEAT_ENABLE"}
      <4>1. Agree(value)
        BY <1>1, <2>3, <3>1, <3>3 DEF AnswerInv
      <4> QED
        BY <2>1, <3>1, <3>3, <4>1, EndsTruly
    <3> QED
      BY <3>2, <3>3
  <2> QED
    BY <1>6, <2>2, <2>3 DEF HostIn
<1>7. CASE HostOutStatus
  <2>1. Calm /\ EndsWell /\ stage = "status_out"
    BY <1>7, CalmSteps DEF HostStep, HostOutStatus
  <2>2. Agree(value) /\ IsIn(req)
    BY <1>1, <2>1 DEF AnswerInv, RequestInv
  <2> QED
    BY <2>1, <2>2, EndsTruly
<1>8. CASE HostOut \/ HostStalled
  <2>1. Calm /\ UNCHANGED <<known, believed>>
    BY <1>8, CalmSteps DEF HostStep, HostOut, HostStalled
  <2> QED
    BY <1>1, <2>1 DEF BeliefHolds, Actual, Calm
<1>9. CASE Reset
  <2> DEFINE K == (known \ {"coding", "idle"}) \cup {"config", "wakeup"}
             b == [believed EXCEPT !.config = 0, !.wakeup = 0]
  <2>1. Believe(K, b) /\ devConfig' = 0 /\ settings' = [settings EXCEPT !.wakeup = 0]
    BY <1>9 DEF Reset, LL_Reset
  <2>2. \A s \in known' : s \in K /\ s \in Settings /\ believed'[s] = b[s]
    BY <1>1, <2>1, PipeAssumption DEF Believe
  <2>3. \A s \in K : s \in Settings /\ b[s] = Actual(s)'
    BY <1>1, <2>1 DEF Actual, BeliefHolds, Settings
  <2> QED
    BY <2>2, <2>3 DEF BeliefHolds
<1>10. CASE Suspend \/ Resume \/ Recover \/ UNCHANGED vars
  <2>1. UNCHANGED pipeVars /\ Calm
    BY <1>10, CalmSteps DEF vars, pipeVars, usbVars, Calm
  <2> QED
    BY <1>1, <2>1 DEF pipeVars, hostVars, BeliefHolds, Actual, Calm
<1> QED
  BY <1>2, <1>3, <1>4, <1>5, <1>6, <1>7, <1>8, <1>9, <1>10 DEF Next, Handler, HostStep

-----------------------------------------------------------------------------
(* The address.                                                            *)

LEMMA AddressForm ==
  ASSUME NEW r \in Requests, r.op = "SET_ADDRESS"
  PROVE  r.dir = "out" /\ ~IsIn(r) /\ ~IsOut(r) /\ r.val \in Nat
  BY RequestForm DEF WellFormed, InOps, IsIn, IsOut

(* SETUP stage: an address the host gave up on is given again.             *)
LEMMA AddrSetup == IInv /\ SetupStage => AddrInv'
<1> SUFFICES ASSUME IInv, SetupStage, ~late' PROVE AddrInv'
  BY DEF AddrInv
<1>1. /\ rcv = "setup" /\ rcv' = "none" /\ ~late /\ ~ctrTx /\ ~ctrTx'
      /\ UNCHANGED <<req, stage, haddr>>
  BY DEF SetupStage, hostVars, IInv, TypeOK
<1>2. /\ ~silent /\ stage \in {"data_in", "data_out", "status_in"}
      /\ req \in Requests
      /\ stage = "data_in" => IsIn(req)
      /\ stage = "data_out" => IsOut(req)
  BY <1>1 DEF IInv, ReceiveInv, RequestInv
<1>3. IF usbAddr = 0 THEN haddr = daddr ELSE Waiting
  BY <1>1, <1>2 DEF IInv, AddrInv
<1>4. /\ silent' \in BOOLEAN /\ usbAddr \in Nat /\ (hcomp <=> devState = "CONFIGURED")
      /\ \/ UNCHANGED <<usbAddr, daddr>> /\ (req.op = "SET_ADDRESS" => devState = "CONFIGURED" /\ tx' = "STALL")
         \/ /\ req.op = "SET_ADDRESS" /\ tx' = "VALID" /\ ~hcomp'
            /\ usbAddr' = req.val
            /\ daddr' = IF req.val = 0 THEN 0 ELSE daddr
            /\ silent' = (daddr' # daddr)
  <2>1. Readdressed /\ ~lowPower
    BY SetupDecodes DEF Decodable
  <2>2. hcomp <=> devState = "CONFIGURED"
    BY <2>1 DEF IInv, CoreInv, HandleIffConfigured, SleepInv
  <2> QED
    BY <2>1, <2>2 DEF Readdressed, addrVars, IInv, TypeOK
<1>5. CASE UNCHANGED <<usbAddr, daddr>> /\ (req.op = "SET_ADDRESS" => devState = "CONFIGURED" /\ tx' = "STALL")
  <2>1. usbAddr = 0 /\ haddr = daddr
    BY <1>3, <1>4, <1>5 DEF Waiting
  <2> QED
    BY <1>1, <1>5, <2>1 DEF AddrInv
<1>6. CASE /\ req.op = "SET_ADDRESS" /\ tx' = "VALID" /\ ~hcomp'
           /\ usbAddr' = req.val
           /\ daddr' = (IF req.val = 0 THEN 0 ELSE daddr)
           /\ silent' = (daddr' # daddr)
  <2>1. stage = "status_in" /\ req.val \in Nat
    BY <1>2, <1>6, AddressForm
  <2>2. haddr = daddr
    BY <1>1, <1>3 DEF Waiting
  <2>3. IF usbAddr' = 0 THEN haddr' = daddr' \/ silent' ELSE Waiting'
    <3>1. CASE req.val = 0
      BY <1>1, <1>6, <2>2, <3>1
    <3>2. CASE req.val # 0
      BY <1>1, <1>6, <2>1, <2>2, <3>2 DEF Waiting
    <3> QED
      BY <3>1, <3>2
  <2> QED
    BY <1>1, <1>6, <2>1, <2>3 DEF AddrInv
<1> QED
  BY <1>4, <1>5, <1>6

(* The other handlers: only the completion of the status stage moves an    *)
(* address.                                                                *)
LEMMA AddrHandler == IInv /\ OtherHandler => AddrInv'
<1> SUFFICES ASSUME IInv, OtherHandler, ~late' PROVE AddrInv'
  BY DEF AddrInv
<1>1. /\ UNCHANGED <<req, stage, haddr, silent, hcomp>>
      /\ Restall => rcv # "setup"
      /\ rcv' # "setup"
  BY DEF OtherHandler, Restall, StatusReceived, DataOutStage, DataInStage, hostVars, flagVars, usbVars,
         ghostVars
<1>2. ~late /\ rcv # "setup"
  BY <1>1 DEF OtherHandler, Restall, StatusReceived, DataOutStage, DataInStage, IInv, TypeOK, ghostVars
<1>3. /\ usbAddr \in Nat
      /\ ctrTx => stage \notin {"status_in", "data_out"}
      /\ req.op = "SET_ADDRESS" /\ stage = "status_in" /\ tx = "VALID"
           => usbAddr = req.val /\ (req.val = 0 => daddr = 0)
      /\ IF usbAddr = 0 THEN haddr = daddr \/ silent ELSE Waiting
  BY <1>2 DEF IInv, AddrInv, TypeOK
<1>4. CASE Restall
  <2>1. req.op = "CLEAR_HALT" /\ UNCHANGED <<ctrTx, usbAddr, daddr>>
    BY <1>2, <1>4 DEF Restall, IInv, RequestInv, addrVars, flagVars
  <2>2. usbAddr = 0
    BY <1>3, <2>1 DEF Waiting
  <2> QED
    BY <1>1, <1>3, <2>1, <2>2 DEF AddrInv
<1>5. CASE StatusReceived \/ DataOutStage
  <2>1. /\ UNCHANGED <<ctrTx, usbAddr, daddr>>
        /\ \/ rcv = "zlp" /\ stage = "done"
           \/ rcv = "out" /\ req.op = "SET_LINE_CODING"
    BY <1>5 DEF StatusReceived, DataOutStage, IInv, ReceiveInv, addrVars
  <2>2. usbAddr = 0
    BY <1>3, <2>1 DEF Waiting
  <2> QED
    BY <1>1, <1>3, <2>1, <2>2 DEF AddrInv
<1>6. CASE DataInStage
  <2>1. ctrTx /\ ~ctrTx' /\ rcv = "none"
    BY <1>6 DEF DataInStage
  <2>2. CASE usbAddr = 0
    <3>1. UNCHANGED <<usbAddr, daddr>>
      BY <1>6, <2>2 DEF DataInStage, addrVars
    <3> QED
      BY <1>1, <1>3, <2>1, <2>2, <3>1 DEF AddrInv
  <2>3. CASE usbAddr # 0
    <3>1. Waiting /\ stage = "done" /\ haddr = usbAddr /\ packet.len = 0 /\ req.op = "SET_ADDRESS"
      BY <1>3, <2>1, <2>3 DEF Waiting
    <3>2. req \in Requests
      BY <3>1 DEF IInv, RequestInv
    <3>3. ep0 # "DATA_IN"
      BY <2>1, <3>1, <3>2, AddressForm DEF IInv, AnswerInv
    <3>4. packet' = packet
      BY <1>6, <3>3, NextPacket DEF ep0Vars
    <3>5. usbAddr' = 0 /\ daddr' = usbAddr
      BY <1>3, <1>6, <2>3, <3>1, <3>4 DEF DataInStage
    <3> QED
      BY <1>1, <2>1, <3>1, <3>5 DEF AddrInv
  <2> QED
    BY <2>2, <2>3
<1> QED
  BY <1>4, <1>5, <1>6 DEF OtherHandler

LEMMA AddrHost == IInv /\ (HostStep \/ \E r \in menu : HostSetup(r)) => AddrInv'
<1> SUFFICES ASSUME IInv, HostStep \/ (\E r \in menu : HostSetup(r)), ~late' PROVE AddrInv'
  BY DEF AddrInv
<1>1. /\ RequestInv /\ ReceiveInv /\ AddrInv /\ menu \in Menus /\ usbAddr \in Nat /\ ctrTx \in BOOLEAN
      /\ rcv \in {"none", "setup", "out", "zlp"}
  BY DEF IInv, TypeOK
<1>2. UNCHANGED <<late, usbAddr, daddr, hcomp>> /\ ~late
  <2>1. CASE \E r \in menu : HostSetup(r)
    BY <1>1, <2>1, SetupForm
  <2>2. CASE HostIn
    <3>1. UNCHANGED <<usbVars, addrVars, late>>
      BY <2>2 DEF HostIn
    <3> QED
      BY <3>1 DEF usbVars, addrVars
  <2>3. CASE HostOut \/ HostOutStatus \/ HostStalled
    BY <2>3 DEF HostOut, HostOutStatus, HostStalled, usbVars, addrVars, ghostVars
  <2> QED
    BY <2>1, <2>2, <2>3 DEF HostStep
<1>3. CASE \E r \in menu : HostSetup(r)
  <2>1. PICK r \in menu : HostSetup(r)
    BY <1>3
  <2>2. /\ r \in Requests /\ req' = r /\ rcv' = "setup" /\ tx' = "NAK" /\ ~silent'
        /\ rcv = "none" /\ haddr = daddr /\ UNCHANGED <<ctrTx, usbAddr, daddr, haddr, hcomp>>
        /\ stage' \in {"data_in", "data_out", "status_in"}
        /\ stage' = "data_in" <=> IsIn(r)
        /\ stage' = "data_out" <=> IsOut(r)
    BY <1>1, <2>1, SetupForm
  <2>3. ~ctrTx /\ usbAddr # 0 => Waiting'
    <3> SUFFICES ASSUME ~ctrTx, usbAddr # 0 PROVE Waiting'
      OBVIOUS
    <3>1. Waiting /\ stage = "status_in" /\ req.op = "SET_ADDRESS"
      BY <1>1, <1>2, <2>2 DEF AddrInv, Waiting
    <3>2. r = req
      BY <2>1, <3>1 DEF HostSetup, InFlight
    <3>3. stage' = "status_in"
      BY <2>2, <3>1, <3>2, AddressForm
    <3> QED
      BY <2>2, <3>1, <3>2, <3>3 DEF Waiting
  <2> QED
    BY <2>2, <2>3 DEF AddrInv
<1>4. CASE HostIn
  <2>1. /\ tx = "VALID" /\ tx' = "NAK" /\ ctrTx' = TRUE /\ UNCHANGED <<req, rcv, silent, packet>>
        /\ \/ /\ stage = "data_in" /\ haddr' = haddr /\ stage' \in {"data_in", "status_out"}
           \/ /\ stage = "status_in" /\ stage' = "done" /\ packet.len = 0
              /\ haddr' = IF req.op = "SET_ADDRESS" THEN req.val ELSE haddr
    BY <1>4 DEF HostIn, EndsWell
  <2>2. rcv = "none"
    BY <1>1, <2>1 DEF ReceiveInv
  <2>3. /\ req.op = "SET_ADDRESS" /\ stage = "status_in" => usbAddr = req.val /\ (req.val = 0 => daddr = 0)
        /\ IF usbAddr = 0 THEN haddr = daddr \/ silent ELSE Waiting
    BY <1>1, <1>2, <2>1, <2>2 DEF AddrInv
  <2>4. CASE usbAddr = 0
    BY <1>2, <2>1, <2>3, <2>4 DEF AddrInv
  <2>5. CASE usbAddr # 0
    <3>1. Waiting'
      BY <1>2, <2>1, <2>2, <2>3, <2>5 DEF Waiting
    <3> QED
      BY <1>2, <2>1, <2>5, <3>1 DEF AddrInv
  <2> QED
    BY <2>4, <2>5
<1>5. CASE HostOut \/ HostOutStatus
  <2>1. /\ rx = "VALID" /\ UNCHANGED <<req, tx, ctrTx, silent>> /\ rcv' # "setup"
        /\ \/ stage = "data_out" /\ stage' = "status_in" /\ haddr' = haddr
           \/ /\ stage = "status_out" /\ stage' = "done"
              /\ haddr' = IF req.op = "SET_ADDRESS" THEN req.val ELSE haddr
    BY <1>5 DEF HostOut, HostOutStatus, EndsWell, ghostVars
  <2>2. rcv # "setup"
    BY <1>1, <2>1 DEF ReceiveInv
  <2>3. usbAddr = 0 /\ (haddr = daddr \/ silent)
    BY <1>1, <1>2, <2>1, <2>2 DEF AddrInv, Waiting
  <2>4. stage = "data_out" => ~ctrTx /\ tx # "VALID"
    BY <1>1, <1>2, <2>2 DEF AddrInv, RequestInv
  <2>5. stage = "status_out" => req.op # "SET_ADDRESS"
    BY <1>1, AddressForm DEF RequestInv
  <2> QED
    BY <1>2, <2>1, <2>3, <2>4, <2>5 DEF AddrInv
<1>6. CASE HostStalled
  <2>1. /\ UNCHANGED <<req, ctrTx, rcv, silent, haddr>> /\ stage' = "stalled"
        /\ \/ stage \in {"data_in", "status_in"} /\ tx = "STALL"
           \/ stage \in {"data_out", "status_out"}
    BY <1>6 DEF HostStalled, flagVars, ghostVars
  <2>2. ~Waiting
    BY <2>1 DEF Waiting
  <2> QED
    BY <1>1, <1>2, <2>1, <2>2 DEF AddrInv
<1> QED
  BY <1>3, <1>4, <1>5, <1>6 DEF HostStep

LEMMA AddrStays == IInv /\ [Next]_vars => AddrInv'
<1> SUFFICES ASSUME IInv, [Next]_vars PROVE AddrInv'
  OBVIOUS
<1>1. CASE Reset
  BY <1>1 DEF Reset, ClearAddress, AddrInv, Served, flagVars
<1>2. CASE Suspend \/ Resume \/ Recover \/ UNCHANGED vars
  <2>1. UNCHANGED pipeVars /\ hcomp' = hcomp /\ AddrInv
    BY <1>2, CalmSteps DEF vars, pipeVars, usbVars, IInv
  <2> QED
    BY <2>1 DEF pipeVars, ep0Vars, flagVars, addrVars, hostVars, ghostVars, AddrInv, Waiting
<1> QED
  BY <1>1, <1>2, AddrSetup, AddrHandler, AddrHost DEF Next, Handler, OtherHandler

-----------------------------------------------------------------------------
LEMMA Initially == Init => IInv
<1> SUFFICES ASSUME Init PROVE IInv
  OBVIOUS
<1>1. CoreInv /\ ConfigInv
  BY CoreInitially DEF Init, UsbInit, ConfigInv
<1>2. TypeOK
  <2>1. UsbTypeOK
    BY <1>1 DEF Init, UsbInit, UsbTypeOK, CoreInv, CoreTypeOK, EpStats
  <2>2. Ep0Types /\ SettingTypes
    <3>1. [off |-> 0, len |-> 0, val |-> 0] \in [off : Nat, len : 0..MPS, val : Nat]
      BY PipeAssumption
    <3>2. Ep0Types
      BY <3>1 DEF Init, Ep0Types, EpStats
    <3> QED
      BY <3>2 DEF Init, SettingTypes
  <2>3. HostTypes /\ OtherTypes
    <3>1. [early |-> 0, suspends |-> 0] \in [early : 0..MaxEarly, suspends : 0..MaxSuspends]
      BY PipeAssumption
    <3>2. OtherTypes
      BY <3>1 DEF Init, OtherTypes
    <3> QED
      BY <3>2 DEF Init, HostTypes, Stages
  <2> QED
    BY <2>1, <2>2, <2>3, TypesTogether
<1>3. AwakeInv /\ RequestInv /\ ReceiveInv
  BY DEF Init, AwakeInv, RequestInv, ReceiveInv, Pending, Served
<1>4. AnswerInv /\ BeliefHolds /\ AddrInv
  BY DEF Init, AnswerInv, BeliefHolds, AddrInv
<1> QED
  BY <1>1, <1>2, <1>3, <1>4 DEF IInv

LEMMA Inductive == IInv /\ [Next]_vars => IInv'
  BY TypeStays, CoreStays, AwakeStays, RequestStays, ReceiveStays, AnswerStays, BeliefStays, AddrStays
     DEF IInv

LEMMA Invariance == Spec => []IInv
  BY Initially, Inductive, PTL DEF Spec

(* Every variable keeps its type: the offsets and counts of an answer stay *)
(* natural numbers, and no packet is longer than the endpoint's.           *)
THEOREM TypeCorrect == Spec => []TypeOK
<1>1. IInv => TypeOK
  BY DEF IInv
<1> QED
  BY <1>1, Invariance, PTL

(* What the host was told by requests that ended well is what the device   *)
(* does, for any menu of well-formed requests, aborted and interleaved     *)
(* with the handler in any way: usbd_ctlreq.c and the class write a        *)
(* setting before its status stage can end, and nothing else writes it.    *)
THEOREM BeliefsTrue == Spec => []BeliefHolds
<1>1. IInv => BeliefHolds
  BY DEF IInv
<1> QED
  BY <1>1, Invariance, PTL

(* Once the handler of stm32g0xx_hal_pcd.c has served what is pending, the *)
(* device listens where the host talks.                                    *)
THEOREM AddressesAgree == Spec => []AddressAgrees
<1>1. IInv => AddressAgrees
  BY DEF IInv, AddrInv, AddressAgrees, Served, Waiting
<1> QED
  BY <1>1, Invariance, PTL

-----------------------------------------------------------------------------
(* The refinement.                                                         *)

(* In the data stage a packet waits for the host, or the host took a full  *)
(* one and the handler has to load the next.                               *)
DataInv ==
  /\ total <= req.len
  /\ rx # "STALL"
  /\ \/ /\ tx = "VALID" /\ ~ctrTx
        /\ packet.off = got /\ got <= total
        /\ packet.len = Smaller(MPS, total - got)
        /\ \/ got + rem = total /\ dataLen = req.len
           \/ got = total
     \/ /\ tx = "NAK" /\ ctrTx
        /\ packet.off + packet.len = got
        /\ got + rem = total + MPS /\ got <= total /\ rem >= MPS
        /\ got >= MPS /\ got < req.len /\ dataLen = req.len

(* What EP0 answered fits the stage the host is in.                        *)
StageInv ==
  ~late =>
    /\ whole
    /\ rcv = "setup" => got = 0
    /\ stage = "status_out" => rx # "STALL"
    /\ rcv # "setup" /\ stage = "data_in"
         => \/ ep0 = "DATA_IN" /\ DataInv
            \/ ep0 = "SETUP" /\ tx # "VALID" /\ got = 0
    /\ rcv # "setup" /\ stage \in {"data_out", "status_in"}
         => \/ ep0 \in {"DATA_IN", "DATA_OUT", "STATUS_IN"}
            \/ ep0 = "SETUP" /\ tx # "VALID"

(* The decoder answers within what was asked for, or not with data.        *)
DataShape ==
  /\ req.dir = "in" /\ ep0' = "DATA_IN" /\ tx' = "VALID" /\ rx' = rx
  /\ total' \in 0..req.len /\ rem' = total'
  /\ packet'.off = 0 /\ packet'.len = Smaller(MPS, total')
BareShape == ~IsIn(req) /\ ep0' \in {"DATA_OUT", "STATUS_IN"}
NoShape == ep0' = "SETUP" /\ tx' # "VALID"

LEMMA DataFits ==
  ASSUME req.dir = "in", req.len \in Nat, NEW n \in 0..req.len, NEW v, CtlSendData(n, v)
  PROVE  DataShape
  BY DEF CtlSendData, Transmit, DataShape

LEMMA DecodeShape ==
  ASSUME IInv, SetupStage PROVE DataShape \/ BareShape \/ NoShape
<1>1. /\ Decodable /\ tx # "VALID" /\ req.val \in Nat /\ req.len \in Nat /\ WellFormed(req)
      /\ req.op \in InOps <=> req.dir = "in"
  <2>1. Decodable /\ tx # "VALID"
    BY SetupDecodes DEF Decodable
  <2> QED
    BY <2>1, RequestForm DEF Decodable, WellFormed
<1>2. StallIn \/ CtlError \/ NoAnswer => NoShape
  BY <1>1 DEF StallIn, CtlError, NoAnswer, NoShape
<1>3. CtlSendStatus \/ CtlPrepareRx => ep0' \in {"DATA_OUT", "STATUS_IN"}
  BY DEF CtlSendStatus, CtlPrepareRx
<1>4. CtlSendStatus \/ CtlPrepareRx => (~IsIn(req) => BareShape)
  BY <1>3 DEF BareShape
<1>5. req.dir = "in" => \A n \in Nat : \A v : n <= req.len /\ CtlSendData(n, v) => DataShape
  BY <1>1, DataFits
<1>6. CASE GetDescriptor \/ GetConfig \/ GetStatus \/ UnknownReq \/ GetEpStatus
  <2>1. req.dir = "in"
    BY <1>1, <1>6 DEF GetDescriptor, GetConfig, GetStatus, UnknownReq, GetEpStatus, InOps
  <2>2. req.op = "GET_EP_STATUS" => req.len >= 2
    BY <1>1 DEF WellFormed
  <2>3. \/ CtlError
        \/ CtlSendStatus /\ ~IsIn(req)
        \/ \E n \in Nat : n <= req.len /\ \E v : CtlSendData(n, v)
    BY <1>1, <1>6, <2>2 DEF GetDescriptor, GetConfig, GetStatus, UnknownReq, GetEpStatus, Smaller, IsIn
  <2> QED
    BY <1>2, <1>4, <1>5, <2>1, <2>3
<1>7. CASE SetAddressReq \/ SetConfig \/ SetFeature \/ ClrFeature \/ SetHaltReq \/ ClearHaltReq
  <2>1. ~IsIn(req)
    BY <1>1, <1>7 DEF SetAddressReq, SetConfig, SetFeature, ClrFeature, SetHaltReq, ClearHaltReq, InOps, IsIn
  <2>2. CtlSendStatus \/ CtlError \/ StallIn \/ NoAnswer
    BY <1>7 DEF SetAddressReq, SetConfig, SetFeature, ClrFeature, SetHaltReq, ClearHaltReq
  <2> QED
    BY <1>2, <1>4, <2>1, <2>2
<1>8. CASE ItfReq
  <2>1. /\ req.op \in {"SET_LINE_CODING", "SET_IDLE"} => ~IsIn(req)
        /\ req.op \in {"GET_LINE_CODING", "GET_IDLE", "GET_REPORT_DESCRIPTOR"} => req.dir = "in"
        /\ req.op = "GET_LINE_CODING" => req.len >= 7
        /\ req.op = "GET_IDLE" => req.len >= 2
    BY <1>1 DEF WellFormed, InOps, IsIn, CodingSize
  <2>2. \/ NoAnswer
        \/ req.op \in {"SET_LINE_CODING", "SET_IDLE"} /\ (CtlSendStatus \/ CtlPrepareRx)
        \/ req.op \in {"GET_LINE_CODING", "GET_IDLE", "GET_REPORT_DESCRIPTOR"}
           /\ \E n \in Nat : n <= req.len /\ \E v : CtlSendData(n, v)
    BY <1>1, <1>8, <2>1 DEF ItfReq, ClassDown, CodingSize, ReportDescSize, Smaller
  <2> QED
    BY <1>2, <1>4, <1>5, <2>1, <2>2
<1>9. CASE VendorReq
  <2>1. \/ NoAnswer
        \/ req.op \in VendorOps /\ \E n \in Nat : n <= req.len /\ \E v : CtlSendData(n, v)
    BY <1>1, <1>9 DEF VendorReq, ClassDown, Respond, ResponseSize, InfoSize, Smaller, VendorOps
  <2>2. req.op \in VendorOps => req.dir = "in"
    BY <1>1 DEF VendorOps, InOps
  <2> QED
    BY <1>2, <1>5, <2>1, <2>2
<1> QED
  BY <1>6, <1>7, <1>8, <1>9 DEF SetupStage

(* The next packet of the answer.                                          *)
LEMMA NextShape ==
  ASSUME TypeOK, DataInStage, ep0 = "DATA_IN", DataInv
  PROVE  ep0' = "DATA_IN" /\ total' = total /\ DataInv'
<1>1. /\ tx = "NAK" /\ packet.off + packet.len = got /\ got + rem = total + MPS /\ got <= total
      /\ rem >= MPS /\ got >= MPS /\ got < req.len /\ dataLen = req.len /\ total <= req.len
  BY DEF DataInv, DataInStage
<1>2. /\ rem \in Nat /\ total \in Nat /\ got \in Nat /\ MPS \in Nat \ {0} /\ dataLen \in Nat
      /\ req' = req /\ got' = got /\ ~ctrTx'
  BY PipeAssumption DEF TypeOK, DataInStage, hostVars
<1>3. CASE rem > MPS
  <2>1. /\ rem' = rem - MPS /\ UNCHANGED <<ep0, total, dataLen>>
        /\ Transmit(packet.off + packet.len, rem', packet.val) /\ rx' = "VALID"
    BY <1>2, <1>3 DEF DataInStage, PrepareReceive
  <2>2. tx' = "VALID" /\ packet'.off = got /\ packet'.len = Smaller(MPS, rem')
    BY <1>1, <2>1 DEF Transmit
  <2>3. rem' = total - got
    BY <1>1, <1>2, <2>1
  <2>4. got + rem' = total
    BY <1>1, <1>2, <2>1
  <2> QED
    BY <1>1, <1>2, <2>1, <2>2, <2>3, <2>4 DEF DataInv
<1>4. CASE rem <= MPS
  <2>1. rem = MPS /\ got = total /\ NeedsZlp
    BY <1>1, <1>2, <1>4 DEF NeedsZlp
  <2>2. UNCHANGED <<ep0, rem, total>> /\ Transmit(packet.off + packet.len, 0, packet.val) /\ rx' = "VALID"
    BY <1>2, <1>4, <2>1 DEF DataInStage, PrepareReceive
  <2>3. tx' = "VALID" /\ packet'.off = got /\ packet'.len = Smaller(MPS, 0)
    BY <1>1, <2>2 DEF Transmit
  <2>4. total - got = 0
    BY <1>2, <2>1
  <2> QED
    BY <1>1, <1>2, <2>1, <2>2, <2>3, <2>4 DEF DataInv
<1> QED
  BY <1>2, <1>3, <1>4

(* What the host takes of the answer.                                      *)
LEMMA TakenShape ==
  ASSUME TypeOK, RequestInv, HostIn, stage = "data_in", DataInv
  PROVE  /\ packet.off = got /\ packet.len = Smaller(MPS, total - got)
         /\ got <= total /\ total <= req.len
         /\ got' = got + packet.len /\ tx' = "NAK" /\ ctrTx' = TRUE
         /\ IF packet.len < MPS \/ got' = req.len
            THEN stage' = "status_out" ELSE stage' = "data_in" /\ DataInv'
<1>1. /\ packet.off = got /\ got <= total /\ packet.len = Smaller(MPS, total - got)
      /\ total <= req.len /\ rx # "STALL"
      /\ (got + rem = total /\ dataLen = req.len) \/ got = total
  BY DEF DataInv, HostIn
<1>2. /\ rem \in Nat /\ total \in Nat /\ got \in Nat /\ MPS \in Nat \ {0} /\ dataLen \in Nat
      /\ req.len \in Nat
  BY PipeAssumption, RequestForm DEF TypeOK, RequestInv
<1>3. /\ got' = got + packet.len /\ tx' = "NAK" /\ ctrTx' = TRUE
      /\ stage' = IF packet.len < MPS \/ got' >= req.len THEN "status_out" ELSE stage
      /\ UNCHANGED <<req, packet, rem, total, dataLen, rx>>
  BY DEF HostIn
<1>4. packet.len \in 0..MPS /\ packet.len <= total - got
  BY <1>1, <1>2 DEF Smaller
<1>5. got' \in Nat /\ got' <= req.len
  BY <1>1, <1>2, <1>3, <1>4
<1>6. CASE packet.len < MPS \/ got' = req.len
  BY <1>1, <1>2, <1>3, <1>5, <1>6
<1>7. CASE packet.len = MPS /\ got' < req.len
  <2>1. got # total /\ got + rem = total /\ dataLen = req.len
    BY <1>1, <1>2, <1>4, <1>7
  <2>2. stage' = "data_in"
    BY <1>2, <1>3, <1>5, <1>7
  <2>3. /\ got' + rem = total + MPS /\ got' <= total /\ rem >= MPS /\ got' >= MPS
    BY <1>1, <1>2, <1>3, <1>4, <1>7, <2>1
  <2>4. DataInv'
    BY <1>1, <1>3, <1>7, <2>1, <2>3 DEF DataInv
  <2>5. ~(packet.len < MPS \/ got' = req.len)
    BY <1>2, <1>5, <1>7
  <2> QED
    BY <1>1, <1>3, <2>2, <2>4, <2>5
<1>8. (packet.len < MPS \/ got' = req.len) \/ (packet.len = MPS /\ got' < req.len)
  BY <1>2, <1>4, <1>5
<1> QED
  BY <1>6, <1>7, <1>8

LEMMA StageStays == IInv /\ StageInv /\ [Next]_vars => StageInv'
<1> SUFFICES ASSUME IInv, StageInv, [Next]_vars, ~late' PROVE StageInv'
  BY DEF StageInv
<1>1. TypeOK /\ RequestInv /\ ReceiveInv /\ AddrInv /\ late \in BOOLEAN /\ menu \in Menus
  BY DEF IInv, TypeOK
<1>2. CASE SetupStage
  <2>1. /\ rcv = "setup" /\ rcv' = "none" /\ ~late /\ ~ctrTx /\ ~ctrTx'
        /\ UNCHANGED <<req, stage, got, whole>> /\ dataLen' = req.len
    BY <1>1, <1>2 DEF SetupStage, hostVars
  <2>2. /\ got = 0 /\ whole /\ rx # "STALL"
        /\ stage \in {"data_in", "data_out", "status_in"}
        /\ stage = "data_in" => IsIn(req)
        /\ stage # "data_in" => ~IsIn(req)
    BY <1>1, <2>1 DEF StageInv, ReceiveInv, RequestInv
  <2>3. CASE DataShape
    <3>1. /\ ep0' = "DATA_IN" /\ tx' = "VALID" /\ rx' = rx /\ rem' = total'
          /\ total' \in 0..req.len /\ packet'.off = 0 /\ packet'.len = Smaller(MPS, total')
      BY <2>3 DEF DataShape
    <3>2. total' \in Nat /\ total' <= req.len
      <4>1. req.len \in Nat
        BY <1>2, SetupDecodes, RequestForm DEF Decodable
      <4> QED
        BY <3>1, <4>1
    <3>3. \A n \in Nat : n - 0 = n /\ 0 + n = n /\ 0 <= n
      OBVIOUS
    <3>4. DataInv'
      BY <2>1, <2>2, <3>1, <3>2, <3>3 DEF DataInv
    <3> QED
      BY <2>1, <2>2, <3>1, <3>4 DEF StageInv
  <2>4. CASE BareShape
    BY <2>1, <2>2, <2>4 DEF StageInv, BareShape
  <2>5. CASE NoShape
    BY <2>1, <2>2, <2>5 DEF StageInv, NoShape
  <2> QED
    BY <1>2, <2>3, <2>4, <2>5, DecodeShape
<1>3. CASE Restall
  <2>1. /\ ~late /\ rcv # "setup" /\ tx' = "STALL"
        /\ UNCHANGED <<rcv, stage, whole, got, ep0>>
    BY <1>1, <1>3 DEF Restall, flagVars, hostVars
  <2>2. stage \notin {"data_in", "status_out"}
    <3>1. req.op = "CLEAR_HALT"
      BY <1>1, <1>3, <2>1 DEF Restall, RequestInv
    <3>2. stage # "idle" => ~IsIn(req)
      BY <1>1, <3>1, RequestForm DEF RequestInv, WellFormed, InOps, IsIn
    <3> QED
      BY <1>1, <3>2 DEF RequestInv
  <2> QED
    BY <2>1, <2>2 DEF StageInv
<1>4. CASE StatusReceived
  <2>1. stage = "done" /\ stage' = stage /\ rcv' = "none" /\ UNCHANGED <<whole, late>>
    BY <1>1, <1>4 DEF StatusReceived, ReceiveInv, hostVars, ghostVars
  <2> QED
    BY <2>1 DEF StageInv
<1>5. CASE DataOutStage
  <2>1. /\ rcv = "out" /\ rcv' = "none" /\ stage \in {"status_in", "stalled"}
        /\ UNCHANGED <<stage, whole, late>>
        /\ UNCHANGED ep0Vars \/ ep0' = "STATUS_IN"
    BY <1>1, <1>5 DEF DataOutStage, ReceiveInv, hostVars, ghostVars, CtlSendStatus
  <2> QED
    BY <2>1 DEF StageInv, ep0Vars
<1>6. CASE DataInStage
  <2>1. /\ rcv = "none" /\ rcv' = "none" /\ ctrTx /\ UNCHANGED <<stage, whole, late, got>>
        /\ rx' = rx \/ rx' = "VALID"
    BY <1>6 DEF DataInStage, hostVars, ghostVars, PrepareReceive, ep0Vars
  <2>2. stage \notin {"data_out", "status_in"}
    BY <1>1, <2>1 DEF AddrInv
  <2>3. CASE stage = "data_in"
    <3>1. CASE ep0 = "DATA_IN"
      <4>1. DataInv
        BY <2>1, <2>3, <3>1 DEF StageInv
      <4>2. ep0' = "DATA_IN" /\ DataInv'
        BY <1>1, <1>6, <3>1, <4>1, NextShape
      <4> QED
        BY <2>1, <2>3, <4>2 DEF StageInv
    <3>2. CASE ep0 # "DATA_IN"
      <4>1. UNCHANGED <<ep0, tx>>
        BY <1>6, <3>2, NextPacket DEF ep0Vars
      <4> QED
        BY <2>1, <2>3, <3>2, <4>1 DEF StageInv
    <3> QED
      BY <3>1, <3>2
  <2>4. CASE stage # "data_in"
    BY <2>1, <2>2, <2>4 DEF StageInv
  <2> QED
    BY <2>3, <2>4
<1>7. CASE \E r \in menu : HostSetup(r)
  <2>1. PICK r \in menu : HostSetup(r)
    BY <1>7
  <2>2. rcv' = "setup" /\ got' = 0 /\ stage' # "status_out" /\ whole' = TRUE
    BY <2>1 DEF HostSetup
  <2> QED
    BY <2>2 DEF StageInv
<1>8. CASE HostIn
  <2>1. tx = "VALID" /\ UNCHANGED <<rcv, late, rx>> /\ rcv # "setup"
    BY <1>1, <1>8 DEF HostIn, ReceiveInv
  <2>2. CASE stage = "data_in"
    <3>1. ep0 = "DATA_IN" /\ DataInv /\ whole /\ ep0' = ep0
      BY <1>8, <2>1, <2>2 DEF StageInv, HostIn
    <3>2. /\ packet.off = got
          /\ stage' = "status_out" \/ (stage' = "data_in" /\ DataInv')
      BY <1>1, <1>8, <2>2, <3>1, TakenShape
    <3>3. whole'
      BY <1>8, <2>2, <3>1, <3>2 DEF HostIn
    <3>4. rx' # "STALL"
      BY <2>1, <3>1 DEF DataInv
    <3> QED
      BY <2>1, <3>1, <3>2, <3>3, <3>4 DEF StageInv
  <2>3. CASE stage = "status_in"
    <3>1. stage' = "done" /\ whole' = whole
      BY <1>8, <2>3 DEF HostIn, EndsWell
    <3> QED
      BY <2>1, <3>1 DEF StageInv
  <2> QED
    BY <1>8, <2>2, <2>3 DEF HostIn
<1>9. CASE HostOut
  <2>1. /\ stage = "data_out" /\ stage' = "status_in" /\ rcv' = "out" /\ rx = "VALID"
        /\ UNCHANGED <<ep0, tx, whole, late>>
    BY <1>9 DEF HostOut, ghostVars
  <2>2. rcv # "setup"
    BY <1>1, <2>1 DEF ReceiveInv
  <2> QED
    BY <2>1, <2>2 DEF StageInv
<1>10. CASE HostOutStatus \/ HostStalled
  <2>1. stage' \in {"done", "stalled"} /\ UNCHANGED <<whole, late>> /\ (rcv' = rcv \/ rcv' = "zlp")
        /\ got' = got
    BY <1>10 DEF HostOutStatus, HostStalled, EndsWell, ghostVars, flagVars
  <2> QED
    BY <2>1 DEF StageInv
<1>11. CASE Reset
  <2>1. stage' = "idle" /\ whole' = TRUE /\ got' = 0
    BY <1>11 DEF Reset
  <2> QED
    BY <2>1 DEF StageInv
<1>12. CASE Suspend \/ Resume \/ Recover \/ UNCHANGED vars
  <2>1. UNCHANGED pipeVars
    BY <1>12, CalmSteps DEF vars, pipeVars
  <2> QED
    BY <2>1 DEF pipeVars, ep0Vars, hostVars, flagVars, ghostVars, StageInv, DataInv
<1> QED
  BY <1>2, <1>3, <1>4, <1>5, <1>6, <1>7, <1>8, <1>9, <1>10, <1>11, <1>12 DEF Next, Handler, HostStep

(* The stage the abstract transfer is in.                                  *)
Bars ==
  /\ late => stageBar = "idle"
  /\ ~late =>
       /\ ~InFlight => stageBar = stage
       /\ InFlight /\ rcv = "setup" => stageBar = "setup"
       /\ rcv # "setup" /\ stage = "status_out" => stageBar = "status"
       /\ rcv # "setup" /\ stage = "data_in"
            => stageBar = IF ep0 = "DATA_IN" THEN "data" ELSE "setup"
       /\ rcv # "setup" /\ stage \in {"data_out", "status_in"}
            => stageBar = IF ep0 = "SETUP" THEN "setup" ELSE "status"

LEMMA BarValues == IInv /\ StageInv => Bars
<1> SUFFICES ASSUME IInv, StageInv PROVE Bars
  OBVIOUS
<1>1. RequestInv /\ ReceiveInv
  BY DEF IInv
<1>2. ~late => whole
  BY DEF StageInv
<1>3. ~late /\ ~InFlight => stageBar = stage
  BY <1>2 DEF stageBar
<1>4. ~late /\ InFlight /\ rcv = "setup" => stageBar = "setup"
  BY <1>2 DEF stageBar
<1>5. ~late /\ rcv # "setup" /\ stage = "status_out" => stageBar = "status"
  BY <1>2 DEF stageBar, InFlight
<1>6. ~late /\ rcv # "setup" /\ stage = "data_in"
        => stageBar = IF ep0 = "DATA_IN" THEN "data" ELSE "setup"
  BY <1>2 DEF stageBar, InFlight, StageInv
<1>7. ~late /\ rcv # "setup" /\ stage \in {"data_out", "status_in"}
        => stageBar = IF ep0 = "SETUP" THEN "setup" ELSE "status"
  BY <1>1, <1>2 DEF stageBar, InFlight, StageInv, RequestInv
<1> QED
  BY <1>3, <1>4, <1>5, <1>6, <1>7 DEF Bars, stageBar

AbstractStep == Transfer!TransferNext \/ UNCHANGED Transfer!transferVars

(* Outside the data stage the abstract transfer is its stage and request.  *)
LEMMA Moves ==
  ASSUME ~late, ~late', stageBar' # "data"
  PROVE  /\ req' = req /\ stageBar = stageBar' => AbstractStep
         /\ req' = req /\ stageBar = "status" /\ stageBar' = "done" => AbstractStep
         /\ req' = req /\ stageBar = "setup" /\ stageBar' = "status" /\ ~IsIn(req) => AbstractStep
         /\ req' = req /\ stageBar' = "stalled" /\ (stageBar = "setup" \/ (stageBar = "status" /\ ~IsIn(req)))
              => AbstractStep
  BY DEF AbstractStep, Transfer!TransferNext, Transfer!transferVars, Transfer!Done, Transfer!AnswerStatus,
         Transfer!Refuse, Transfer!Goto, Transfer!IsIn, IsIn

LEMMA SameStage ==
  ASSUME stage \in Stages, Bars, Bars', (rcv' = "setup") <=> (rcv = "setup"), late' <=> late,
         UNCHANGED <<stage, ep0, req, total, got>>
  PROVE  AbstractStep
<1>1. stageBar' = stageBar
  BY DEF Bars, Stages, InFlight
<1> QED
  BY <1>1 DEF AbstractStep, Transfer!transferVars

(* A new SETUP packet, and the device losing track.                        *)
LEMMA Restarts ==
  ASSUME Bars, Bars'
  PROVE  /\ late' => AbstractStep
         /\ ~late' /\ stage' = "idle" /\ req' = NoRequest => AbstractStep
         /\ ~late' /\ InFlight' /\ rcv' = "setup" /\ req' \in Requests => AbstractStep
<1>1. stageBar' = "idle" /\ (late' \/ req' = NoRequest) => Transfer!Abandon
  BY DEF Transfer!Abandon, Transfer!Goto
<1>2. late' \/ stage' = "idle" => stageBar' = "idle"
  BY DEF Bars, InFlight
<1>3. ~late' /\ InFlight' /\ rcv' = "setup" => stageBar' = "setup" /\ Transfer!Setup(req')
  BY DEF Bars, Transfer!Setup, Transfer!Goto
<1> QED
  BY <1>1, <1>2, <1>3 DEF AbstractStep, Transfer!TransferNext

LEMMA HandlerRefines ==
  ASSUME IInv, StageInv, StageInv', Bars, Bars', Handler, ~late, ~late'
  PROVE  AbstractStep
<1>1. TypeOK /\ RequestInv /\ ReceiveInv /\ AddrInv /\ stage \in Stages
  BY DEF IInv, TypeOK
<1>2. CASE SetupStage
  <2>1. rcv = "setup" /\ rcv' = "none" /\ UNCHANGED <<req, stage, got>>
    BY <1>2 DEF SetupStage, hostVars
  <2>2. /\ got = 0 /\ stage \in {"data_in", "data_out", "status_in"}
        /\ stage = "data_in" <=> IsIn(req)
    BY <1>1, <2>1 DEF StageInv, ReceiveInv, RequestInv
  <2>3. stageBar = "setup"
    BY <2>1, <2>2 DEF Bars, InFlight
  <2>4. CASE IsIn(req) /\ DataShape
    <3>1. stageBar' = "data" /\ total' \in 0..req.len
      BY <2>1, <2>2, <2>4 DEF Bars, DataShape
    <3>2. Transfer!IsIn(IF late THEN NoRequest ELSE req)
      BY <2>4 DEF IsIn, Transfer!IsIn
    <3>3. Transfer!AnswerData
      BY <2>1, <2>2, <2>3, <3>1, <3>2 DEF Transfer!AnswerData
    <3> QED
      BY <3>3 DEF AbstractStep, Transfer!TransferNext
  <2>5. CASE ~IsIn(req) /\ (DataShape \/ BareShape)
    <3>1. stageBar' = "status"
      BY <2>1, <2>2, <2>5 DEF Bars, DataShape, BareShape
    <3> QED
      BY <2>1, <2>3, <2>5, <3>1, Moves
  <2>6. CASE NoShape
    <3>1. stageBar' = "setup"
      BY <2>1, <2>2, <2>6 DEF Bars, NoShape
    <3> QED
      BY <2>1, <2>3, <3>1, Moves
  <2> QED
    BY <1>2, <2>4, <2>5, <2>6, DecodeShape DEF BareShape
<1>3. CASE Restall \/ StatusReceived
  <2>1. /\ UNCHANGED <<stage, ep0, req, total, got>>
        /\ \/ rcv' = rcv
           \/ rcv = "zlp" /\ rcv' = "none"
    BY <1>3 DEF Restall, StatusReceived, flagVars, hostVars
  <2> QED
    BY <1>1, <2>1, SameStage
<1>4. CASE DataOutStage
  <2>1. /\ rcv = "out" /\ rcv' = "none" /\ stage \in {"status_in", "stalled"}
        /\ UNCHANGED <<stage, req, got>>
        /\ UNCHANGED ep0Vars \/ (ep0 = "DATA_OUT" /\ ep0' = "STATUS_IN")
    BY <1>1, <1>4 DEF DataOutStage, ReceiveInv, hostVars, CtlSendStatus
  <2>2. stageBar' = stageBar /\ stageBar' # "data"
    BY <2>1 DEF Bars, InFlight, ep0Vars
  <2> QED
    BY <2>1, <2>2, Moves
<1>5. CASE DataInStage
  <2>1. rcv = "none" /\ rcv' = "none" /\ ctrTx /\ UNCHANGED <<stage, req, got>>
    BY <1>5 DEF DataInStage, hostVars
  <2>2. stage \notin {"data_out", "status_in"}
    BY <1>1, <2>1 DEF AddrInv
  <2>3. CASE stage = "data_in"
    <3>1. CASE ep0 = "DATA_IN"
      <4>1. DataInv
        BY <2>1, <2>3, <3>1 DEF StageInv
      <4>2. ep0' = "DATA_IN" /\ total' = total
        BY <1>1, <1>5, <3>1, <4>1, NextShape
      <4> QED
        BY <1>1, <2>1, <3>1, <4>2, SameStage
    <3>2. CASE ep0 # "DATA_IN"
      <4>1. UNCHANGED <<ep0, total>>
        BY <1>5, <3>2, NextPacket DEF ep0Vars
      <4> QED
        BY <1>1, <2>1, <4>1, SameStage
    <3> QED
      BY <3>1, <3>2
  <2>4. CASE stage # "data_in"
    <3>1. stageBar' = stageBar /\ stageBar' # "data"
      BY <1>1, <2>1, <2>2, <2>4 DEF Bars, InFlight, Stages
    <3> QED
      BY <2>1, <3>1, Moves
  <2> QED
    BY <2>3, <2>4
<1> QED
  BY <1>2, <1>3, <1>4, <1>5 DEF Handler

LEMMA HostRefines ==
  ASSUME IInv, StageInv, StageInv', Bars, Bars', HostStep, ~late, ~late'
  PROVE  AbstractStep
<1>1. TypeOK /\ RequestInv /\ ReceiveInv /\ AddrInv
  BY DEF IInv
<1>2. CASE HostIn
  <2>1. tx = "VALID" /\ UNCHANGED <<rcv, ep0, req, total>> /\ rcv # "setup"
    BY <1>1, <1>2 DEF HostIn, EndsWell, ReceiveInv
  <2>2. CASE stage = "data_in"
    <3>1. ep0 = "DATA_IN" /\ DataInv /\ stageBar = "data" /\ IsIn(req)
      BY <1>1, <2>1, <2>2 DEF StageInv, Bars, RequestInv
    <3>2. /\ packet.len = Smaller(MPS, total - got) /\ got' = got + packet.len
          /\ IF packet.len < MPS \/ got' = req.len
             THEN stage' = "status_out" ELSE stage' = "data_in"
      BY <1>1, <1>2, <2>2, <3>1, TakenShape
    <3>3. stageBar' = IF packet.len < MPS \/ got' = req.len THEN "status" ELSE "data"
      BY <2>1, <3>1, <3>2 DEF Bars
    <3>4. Transfer!Lesser(MPS, total - got) = packet.len
      BY <3>2 DEF Transfer!Lesser, Smaller
    <3>5. Transfer!Packet
      <4>1. CASE packet.len < MPS \/ got' = req.len
        BY <2>1, <3>1, <3>2, <3>3, <3>4, <4>1 DEF Transfer!Packet, Transfer!Goto
      <4>2. CASE ~(packet.len < MPS \/ got' = req.len)
        BY <2>1, <3>1, <3>2, <3>3, <3>4, <4>2 DEF Transfer!Packet, Transfer!Goto
      <4> QED
        BY <4>1, <4>2
    <3> QED
      BY <3>5 DEF AbstractStep, Transfer!TransferNext
  <2>3. CASE stage = "status_in"
    <3>1. ep0 # "SETUP"
      BY <2>1, <2>3 DEF StageInv
    <3>2. stage' = "done"
      BY <1>2, <2>3 DEF HostIn, EndsWell
    <3>3. stageBar = "status" /\ stageBar' = "done"
      BY <2>1, <2>3, <3>1, <3>2 DEF Bars, InFlight
    <3> QED
      BY <2>1, <3>3, Moves
  <2> QED
    BY <1>2, <2>2, <2>3 DEF HostIn
<1>3. CASE HostOut
  <2>1. /\ stage = "data_out" /\ stage' = "status_in" /\ rcv' = "out" /\ rx = "VALID"
        /\ UNCHANGED <<ep0, req>>
    BY <1>3 DEF HostOut
  <2>2. rcv # "setup"
    BY <1>1, <2>1 DEF ReceiveInv
  <2>3. stageBar' = stageBar /\ stageBar' # "data"
    BY <2>1, <2>2 DEF Bars
  <2> QED
    BY <2>1, <2>3, Moves
<1>4. CASE HostOutStatus
  <2>1. stage = "status_out" /\ stage' = "done" /\ req' = req /\ rx = "VALID"
    BY <1>4 DEF HostOutStatus, EndsWell
  <2>2. rcv # "setup"
    BY <1>1, <2>1 DEF ReceiveInv
  <2>3. stageBar = "status" /\ stageBar' = "done"
    BY <2>1, <2>2 DEF Bars, InFlight
  <2> QED
    BY <2>1, <2>3, Moves
<1>5. CASE HostStalled
  <2>1. /\ stage' = "stalled" /\ req' = req
        /\ \/ stage \in {"data_in", "status_in"} /\ tx = "STALL"
           \/ stage \in {"data_out", "status_out"} /\ rx = "STALL"
    BY <1>5 DEF HostStalled
  <2>2. rcv # "setup"
    BY <1>1, <2>1 DEF ReceiveInv
  <2>3. stageBar' = "stalled"
    BY <2>1 DEF Bars, InFlight
  <2>4. CASE stage = "data_in"
    <3>1. ep0 # "DATA_IN"
      BY <2>1, <2>2, <2>4 DEF StageInv, DataInv
    <3>2. stageBar = "setup"
      BY <2>2, <2>4, <3>1 DEF Bars
    <3> QED
      BY <2>1, <2>3, <3>2, Moves
  <2>5. CASE stage \in {"data_out", "status_in"}
    <3>1. stageBar \in {"setup", "status"} /\ ~IsIn(req)
      BY <1>1, <2>2, <2>5 DEF Bars, RequestInv
    <3> QED
      BY <2>1, <2>3, <3>1, Moves
  <2>6. stage # "status_out"
    BY <2>1 DEF StageInv
  <2> QED
    BY <2>1, <2>4, <2>5, <2>6
<1> QED
  BY <1>2, <1>3, <1>4, <1>5 DEF HostStep

LEMMA StepRefines ==
  IInv /\ StageInv /\ StageInv' /\ Bars /\ Bars' /\ [Next]_vars
    => [Transfer!TransferNext]_(Transfer!transferVars)
<1> SUFFICES ASSUME IInv, StageInv, StageInv', Bars, Bars', [Next]_vars PROVE AbstractStep
  BY DEF AbstractStep
<1>1. late \in BOOLEAN /\ stage \in Stages /\ menu \in Menus
  BY DEF IInv, TypeOK
<1>2. CASE late'
  BY <1>2, Restarts
<1>3. CASE ~late' /\ Handler
  <2>1. ~late
    BY <1>1, <1>3 DEF Handler, SetupStage, Restall, StatusReceived, DataOutStage, DataInStage, ghostVars
  <2> QED
    BY <1>3, <2>1, HandlerRefines
<1>4. CASE ~late' /\ HostStep
  <2>1. ~late
    BY <1>1, <1>4 DEF HostStep, HostIn, HostOut, HostOutStatus, HostStalled, ghostVars
  <2> QED
    BY <1>4, <2>1, HostRefines
<1>5. CASE ~late' /\ \E r \in menu : HostSetup(r)
  <2>1. PICK r \in menu : HostSetup(r)
    BY <1>5
  <2>2. r \in Requests /\ req' = r /\ rcv' = "setup" /\ stage' \in {"data_in", "data_out", "status_in"}
    BY <1>1, <2>1, SetupForm
  <2>3. InFlight' /\ req' \in Requests
    BY <2>2 DEF InFlight
  <2> QED
    BY <1>5, <2>2, <2>3, Restarts
<1>6. CASE Reset
  <2>1. ~late' /\ stage' = "idle" /\ req' = NoRequest
    BY <1>6 DEF Reset
  <2> QED
    BY <2>1, Restarts
<1>7. CASE Suspend \/ Resume \/ Recover \/ UNCHANGED vars
  <2>1. UNCHANGED pipeVars
    BY <1>7, CalmSteps DEF vars, pipeVars
  <2>2. UNCHANGED <<rcv, late, stage, ep0, req, total, got>>
    BY <2>1 DEF pipeVars, ep0Vars, flagVars, hostVars, ghostVars
  <2> QED
    BY <1>1, <2>2, SameStage
<1> QED
  BY <1>2, <1>3, <1>4, <1>5, <1>6, <1>7 DEF Next

LEMMA InitRefines == Init => StageInv /\ Transfer!TransferInit
<1> SUFFICES ASSUME Init PROVE StageInv /\ Transfer!TransferInit
  OBVIOUS
<1>1. StageInv
  BY DEF Init, StageInv
<1>2. stageBar = "idle"
  BY DEF Init, stageBar, InFlight
<1> QED
  BY <1>1, <1>2 DEF Init, Transfer!TransferInit

(* Endpoint 0 implements the abstract control transfer, for every packet   *)
(* size and every menu: the decoder of usbd_ctlreq.c and the class answer  *)
(* each request once, usbd_core.c sends all of the data in order with an   *)
(* empty packet exactly when one is due, and no interleaving with the      *)
(* completion handler cuts an answer short.                                *)
THEOREM PipeIsTransfer == Spec => ImplementsTransfer
<1>1. Init => IInv /\ StageInv /\ Transfer!TransferInit
  BY Initially, InitRefines
<1>2. IInv /\ StageInv /\ [Next]_vars => IInv' /\ StageInv'
  BY Inductive, StageStays
<1>3. IInv /\ StageInv => Bars
  BY BarValues
<1>4. IInv /\ StageInv /\ StageInv' /\ Bars /\ Bars' /\ [Next]_vars
        => [Transfer!TransferNext]_(Transfer!transferVars)
  BY StepRefines
<1> QED
  BY <1>1, <1>2, <1>3, <1>4, PTL DEF Spec, ImplementsTransfer, Transfer!TransferSpec

-----------------------------------------------------------------------------
(* The answer.  A host that waits on EP0 is never left with a NAK that     *)
(* nobody will replace: outside the two paths of the decoder that answer   *)
(* nothing (silent), the endpoint holds what the host's stage asks for, or *)
(* something is pending that will put it there (MoverInv).                 *)

MoverInv ==
  /\ stage # "idle" => tx # "DIS"
  /\ rcv = "setup" /\ stage = "status_in" => ~IsOut(req)
  /\ ~late /\ ~silent /\ rcv # "setup" =>
       /\ stage = "data_in" /\ ep0 = "SETUP" => tx = "STALL"
       /\ stage = "status_out" => rx = "VALID" \/ (ctrTx /\ ep0 = "DATA_IN")
       /\ stage = "data_out" => ep0 = "DATA_OUT" /\ rxBuf /\ rx = "VALID"
       /\ stage = "status_in" => \/ tx = "STALL" \/ isr = "restall"
                                 \/ tx = "VALID" /\ packet.len = 0
                                 \/ rcv = "out" /\ ep0 = "DATA_OUT" /\ rxBuf

(* What the decoder leaves on EP0.                                         *)
Arms ==
  /\ tx # "DIS" => tx' # "DIS"
  /\ ~silent' =>
       /\ IsIn(req) /\ ep0' = "SETUP" => tx' = "STALL"
       /\ IsOut(req) => ep0' = "DATA_OUT" /\ rxBuf' /\ rx' = "VALID"
       /\ ~IsIn(req) /\ ~IsOut(req) => tx' = "STALL" \/ (tx' = "VALID" /\ packet'.len = 0)

LEMMA AnswerArms ==
  ASSUME req.dir \in {"in", "out"}, req.len \in Nat
  PROVE  /\ NoAnswer /\ silent' = TRUE => Arms
         /\ (CtlError \/ StallIn) /\ ~IsOut(req) => Arms
         /\ CtlSendStatus /\ ~IsIn(req) /\ ~IsOut(req) => Arms
         /\ CtlPrepareRx /\ IsOut(req) => Arms
         /\ \A v : \A n \in Nat : CtlSendData(n, v) /\ n <= req.len /\ req.dir = "in" => Arms
<1>1. NoAnswer /\ silent' = TRUE => Arms
  BY DEF NoAnswer, Arms
<1>2. (CtlError \/ StallIn) /\ ~IsOut(req) => Arms
  BY DEF CtlError, StallIn, Arms
<1>3. CtlSendStatus /\ ~IsIn(req) /\ ~IsOut(req) => Arms
  BY PipeAssumption DEF CtlSendStatus, Transmit, Smaller, Arms
<1>4. CtlPrepareRx /\ IsOut(req) => Arms
  BY DEF CtlPrepareRx, PrepareReceive, IsIn, IsOut, Arms
<1>5. ASSUME NEW n \in Nat, NEW v, CtlSendData(n, v), n <= req.len, req.dir = "in"
      PROVE  Arms
  <2>1. tx' = "VALID" /\ ep0' = "DATA_IN" /\ packet'.len = Smaller(MPS, n)
    BY <1>5 DEF CtlSendData, Transmit
  <2>2. ~IsIn(req) => packet'.len = 0
    BY <1>5, <2>1, PipeAssumption DEF IsIn, Smaller
  <2> QED
    BY <1>5, <2>1, <2>2 DEF Arms, IsOut
<1> QED
  BY <1>1, <1>2, <1>3, <1>4, <1>5

LEMMA SetupArms == ASSUME IInv, SetupStage PROVE Arms
<1>1. /\ req.val \in Nat /\ req.len \in Nat /\ WellFormed(req) /\ req.dir \in {"in", "out"}
      /\ req.op \in InOps <=> req.dir = "in"
  <2>1. Decodable
    BY SetupDecodes
  <2> QED
    BY <2>1, RequestForm DEF Decodable, WellFormed
<1>2. req.op # "SET_LINE_CODING" => ~IsOut(req)
  BY <1>1 DEF WellFormed, IsOut
<1>3. CASE GetDescriptor \/ GetConfig \/ GetStatus \/ UnknownReq \/ GetEpStatus
  <2>1. req.dir = "in" /\ ~IsOut(req)
    BY <1>1, <1>3 DEF GetDescriptor, GetConfig, GetStatus, UnknownReq, GetEpStatus, InOps, IsOut
  <2>2. req.op = "GET_EP_STATUS" => req.len >= 2
    BY <1>1 DEF WellFormed
  <2>3. \/ CtlError
        \/ CtlSendStatus /\ ~IsIn(req)
        \/ \E n \in Nat : n <= req.len /\ \E v : CtlSendData(n, v)
    BY <1>1, <1>3, <2>2 DEF GetDescriptor, GetConfig, GetStatus, UnknownReq, GetEpStatus, Smaller, IsIn
  <2> QED
    BY <1>1, <2>1, <2>3, AnswerArms
<1>4. CASE SetAddressReq \/ SetConfig \/ SetFeature \/ ClrFeature \/ SetHaltReq \/ ClearHaltReq
  <2>1. ~IsIn(req) /\ ~IsOut(req)
    BY <1>1, <1>2, <1>4 DEF SetAddressReq, SetConfig, SetFeature, ClrFeature, SetHaltReq, ClearHaltReq, InOps, IsIn
  <2>2. CtlSendStatus \/ CtlError \/ StallIn \/ (NoAnswer /\ silent' = TRUE)
    BY <1>4 DEF SetAddressReq, SetConfig, SetFeature, ClrFeature, SetHaltReq, ClearHaltReq, Ignored
  <2> QED
    BY <1>1, <2>1, <2>2, AnswerArms
<1>5. CASE ItfReq \/ VendorReq
  <2>1. /\ req.op = "SET_IDLE" => ~IsIn(req) /\ ~IsOut(req)
        /\ req.op \in {"GET_LINE_CODING", "GET_IDLE", "GET_REPORT_DESCRIPTOR"} \cup VendorOps => req.dir = "in"
        /\ req.op = "GET_LINE_CODING" => req.len >= 7
        /\ req.op = "GET_IDLE" => req.len >= 2
        /\ req.op = "SET_LINE_CODING" => IsOut(req)
    BY <1>1, <1>2 DEF WellFormed, InOps, VendorOps, IsIn, IsOut, CodingSize
  <2>2. \/ NoAnswer /\ silent' = TRUE
        \/ req.op = "SET_IDLE" /\ CtlSendStatus
        \/ req.op = "SET_LINE_CODING" /\ CtlPrepareRx
        \/ req.dir = "in" /\ \E n \in Nat : n <= req.len /\ \E v : CtlSendData(n, v)
    <3>1. CASE ItfReq
      BY <1>1, <2>1, <3>1 DEF ItfReq, ClassDown, Ignored, CodingSize, ReportDescSize, Smaller
    <3>2. CASE VendorReq
      <4>1. \/ NoAnswer /\ silent' = TRUE
            \/ req.op \in VendorOps /\ \E n \in Nat : n <= req.len /\ \E v : CtlSendData(n, v)
        BY <1>1, <3>2 DEF VendorReq, ClassDown, Ignored, Respond, ResponseSize, InfoSize, Smaller, VendorOps
      <4> QED
        BY <2>1, <4>1
    <3> QED
      BY <1>5, <3>1, <3>2
  <2> QED
    BY <1>1, <2>1, <2>2, AnswerArms
<1> QED
  BY <1>3, <1>4, <1>5 DEF SetupStage

LEMMA MoverStays == IInv /\ StageInv /\ MoverInv /\ [Next]_vars => MoverInv'
<1> SUFFICES ASSUME IInv, StageInv, MoverInv, [Next]_vars PROVE MoverInv'
  OBVIOUS
<1>1. TypeOK /\ RequestInv /\ ReceiveInv /\ AddrInv /\ menu \in Menus
  BY DEF IInv, TypeOK
<1>2. CASE SetupStage
  <2>1. /\ rcv = "setup" /\ rcv' = "none" /\ (~late' => ~late /\ ~ctrTx)
        /\ UNCHANGED <<req, stage>>
    BY <1>1, <1>2 DEF SetupStage, hostVars
  <2>2. Arms /\ stage # "idle"
    BY <1>1, <1>2, <2>1, SetupArms DEF RequestInv, Served
  <2>3. ~late => /\ stage \in {"data_in", "data_out", "status_in"}
                 /\ stage = "data_in" <=> IsIn(req)
                 /\ stage = "data_out" <=> IsOut(req)
    BY <1>1, <2>1 DEF MoverInv, ReceiveInv, RequestInv, IsIn, IsOut
  <2> QED
    BY <2>1, <2>2, <2>3 DEF MoverInv, Arms
<1>3. CASE Restall
  <2>1. /\ tx' = "STALL" /\ UNCHANGED <<rcv, req, stage, ep0, ctrTx, rxBuf, silent>>
        /\ ~late' => ~late /\ rcv # "setup"
    BY <1>1, <1>3 DEF Restall, flagVars, hostVars
  <2>2. ~late' => stage \notin {"data_out", "status_out"}
    <3>1. ~late' => req.op = "CLEAR_HALT"
      BY <1>1, <1>3, <2>1 DEF Restall, RequestInv
    <3>2. ~late' /\ stage # "idle" => ~IsIn(req) /\ ~IsOut(req)
      BY <1>1, <3>1, RequestForm DEF RequestInv, WellFormed, InOps, IsIn, IsOut
    <3> QED
      BY <1>1, <3>2 DEF RequestInv
  <2> QED
    BY <2>1, <2>2 DEF MoverInv
<1>4. CASE StatusReceived
  <2>1. stage = "done" /\ UNCHANGED <<stage, tx>>
    BY <1>1, <1>4 DEF StatusReceived, ReceiveInv, hostVars
  <2> QED
    BY <2>1 DEF MoverInv
<1>5. CASE DataOutStage
  <2>1. /\ rcv = "out" /\ rcv' = "none" /\ stage \in {"status_in", "stalled"}
        /\ UNCHANGED <<stage, isr, late, silent>>
        /\ IF rxBuf /\ ep0 = "DATA_OUT" THEN CtlSendStatus ELSE UNCHANGED ep0Vars
    BY <1>1, <1>5 DEF DataOutStage, ReceiveInv, hostVars, ghostVars
  <2>2. CtlSendStatus => tx' = "VALID" /\ packet'.len = 0
    BY PipeAssumption DEF CtlSendStatus, Transmit, Smaller
  <2> QED
    BY <2>1, <2>2 DEF MoverInv, ep0Vars
<1>6. CASE DataInStage
  <2>1. /\ rcv = "none" /\ rcv' = "none" /\ ctrTx /\ UNCHANGED <<stage, late, silent>>
        /\ ep0 = "DATA_IN" => tx' \in {"VALID", "STALL"} /\ rx' = "VALID" /\ ep0' # "SETUP"
        /\ ep0 # "DATA_IN" => UNCHANGED <<tx, rx, ep0, rxBuf>>
    BY <1>6, NextPacket DEF DataInStage, Transmit, PrepareReceive, hostVars, ghostVars, ep0Vars
  <2>2. ~late => stage \notin {"data_out", "status_in"}
    BY <1>1, <2>1 DEF AddrInv
  <2> QED
    BY <2>1, <2>2 DEF MoverInv
<1>7. CASE \E r \in menu : HostSetup(r)
  BY <1>7 DEF HostSetup, MoverInv
<1>8. CASE HostIn
  <2>1. /\ tx = "VALID" /\ tx' = "NAK" /\ ctrTx' = TRUE /\ rcv # "setup"
        /\ UNCHANGED <<rcv, late, silent, rx, ep0>>
    BY <1>1, <1>8 DEF HostIn, ReceiveInv
  <2>2. CASE stage = "data_in"
    <3>1. stage' \in {"data_in", "status_out"} /\ (~late => ep0 = "DATA_IN")
      BY <1>8, <2>1, <2>2 DEF HostIn, StageInv
    <3> QED
      BY <2>1, <3>1 DEF MoverInv
  <2>3. CASE stage = "status_in"
    <3>1. stage' = "done"
      BY <1>8, <2>3 DEF HostIn, EndsWell
    <3> QED
      BY <2>1, <3>1 DEF MoverInv
  <2> QED
    BY <1>8, <2>2, <2>3 DEF HostIn
<1>9. CASE HostOut
  <2>1. /\ stage = "data_out" /\ stage' = "status_in" /\ rcv' = "out" /\ rx = "VALID"
        /\ UNCHANGED <<ep0, tx, rxBuf, late, silent>>
    BY <1>9 DEF HostOut, ghostVars
  <2>2. rcv # "setup"
    BY <1>1, <2>1 DEF ReceiveInv
  <2> QED
    BY <2>1, <2>2 DEF MoverInv
<1>10. CASE HostOutStatus \/ HostStalled
  <2>1. stage' \in {"done", "stalled"} /\ tx' = tx /\ InFlight
    BY <1>10 DEF HostOutStatus, HostStalled, EndsWell, ep0Vars, InFlight
  <2> QED
    BY <2>1 DEF MoverInv, InFlight
<1>11. CASE Reset
  BY <1>11 DEF Reset, MoverInv
<1>12. CASE Suspend \/ Resume \/ Recover \/ UNCHANGED vars
  <2>1. UNCHANGED pipeVars
    BY <1>12, CalmSteps DEF vars, pipeVars
  <2> QED
    BY <2>1 DEF pipeVars, ep0Vars, hostVars, flagVars, ghostVars, MoverInv
<1> QED
  BY <1>2, <1>3, <1>4, <1>5, <1>6, <1>7, <1>8, <1>9, <1>10, <1>11, <1>12 DEF Next, Handler, HostStep

(* Once the handler has served what was pending, a transfer in flight has  *)
(* its answer on EP0, at the address the host talks to: the handlers of    *)
(* usbd_core.c leave no request that was not ignored with a NAK.  It is    *)
(* the safety behind RequestsEnd.                                          *)
TransferHasAnswer ==
  InFlight /\ Served /\ ~silent /\ ~late =>
    /\ haddr = daddr /\ tx # "DIS"
    /\ \/ stage \in {"data_in", "status_in"} /\ tx = "STALL"
       \/ stage = "data_in" /\ tx = "VALID"
       \/ stage = "status_in" /\ tx = "VALID" /\ packet.len = 0
       \/ stage \in {"data_out", "status_out"} /\ rx = "VALID"
THEOREM TransfersAreAnswered == Spec => []TransferHasAnswer
<1>1. Init => IInv /\ StageInv /\ MoverInv
  BY Initially, InitRefines DEF Init, MoverInv
<1>2. IInv /\ StageInv /\ MoverInv /\ [Next]_vars => IInv' /\ StageInv' /\ MoverInv'
  BY Inductive, StageStays, MoverStays
<1>3. IInv /\ StageInv /\ MoverInv => TransferHasAnswer
  <2> SUFFICES ASSUME IInv, StageInv, MoverInv, InFlight, Served, ~silent, ~late
               PROVE  /\ haddr = daddr /\ tx # "DIS"
                      /\ \/ stage \in {"data_in", "status_in"} /\ tx = "STALL"
                         \/ stage = "data_in" /\ tx = "VALID"
                         \/ stage = "status_in" /\ tx = "VALID" /\ packet.len = 0
                         \/ stage \in {"data_out", "status_out"} /\ rx = "VALID"
    BY DEF TransferHasAnswer
  <2>1. haddr = daddr
    BY DEF IInv, AddrInv, Served, Waiting
  <2>2. tx # "DIS"
    BY DEF MoverInv, InFlight
  <2>3. stage = "data_in" => tx \in {"STALL", "VALID"}
    BY DEF MoverInv, StageInv, DataInv, Served
  <2>4. stage = "status_in" => tx = "STALL" \/ (tx = "VALID" /\ packet.len = 0)
    BY DEF MoverInv, Served
  <2>5. stage \in {"data_out", "status_out"} => rx = "VALID"
    BY DEF MoverInv, Served
  <2> QED
    BY <2>1, <2>2, <2>3, <2>4, <2>5 DEF InFlight
<1> QED
  BY <1>1, <1>2, <1>3, PTL DEF Spec
=============================================================================
