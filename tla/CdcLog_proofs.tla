---------------------------- MODULE CdcLog_proofs ----------------------------
(***************************************************************************)
(* The safety properties of CdcLog, for every size of the ring, of a line  *)
(* and of a packet, and without its bounds on events.                      *)
(*                                                                         *)
(* The ring holds the cells Top + 1 .. accepted in order (RingInv).  What  *)
(* the main loop has popped but not handed to EP3, what waits on EP3 and   *)
(* what the host has read are older, in that order (StreamInv); on an      *)
(* undisturbed bus they follow each other without a gap (Contiguous), so   *)
(* nothing is lost; and the main loop always finds EP3 idle in the end     *)
(* (FlagInv).                                                              *)
(***************************************************************************)
EXTENDS CdcLog, UsbComposite_proofs, SequenceTheorems

(* The newest cell that has left the ring.                                 *)
Top == accepted - Used

Age(p) == (p - readIdx) % BufSize

RingInv ==
  /\ Used <= accepted
  /\ \A p \in Places : Age(p) < Used => ring[p] = Top + 1 + Age(p)

(* s holds consecutive cells, the last of them hi.                         *)
IsRun(s, hi) == \A i \in 1..Len(s) : s[i] = hi - Len(s) + i

Sending == pc \in {"submit", "arm", "start"}

(* The newest cell handed to EP3 or lost on the way.                       *)
Handed == IF Sending THEN Top - Len(scratch) ELSE Top

Waiting == epStat["CDC"] = "VALID"

StreamInv ==
  /\ Sending => scratch # <<>> /\ IsRun(scratch, Top)
  /\ lastRead <= Handed
  /\ Waiting => pkt # <<>> /\ \E hi \in lastRead..Handed : IsRun(pkt, hi) /\ lastRead + Len(pkt) <= hi

(* The device stays awake and configured, and no packet is refused.        *)
Contiguous ==
  ~disturbed =>
    /\ ~gap
    /\ ~lowPower
    /\ Waiting => hcomp /\ txBusy["CDC"]
    /\ pc \in {"submit", "arm"} => hcomp /\ ~txBusy["CDC"]
    /\ pc = "start" => hcomp /\ txBusy["CDC"] /\ ~Waiting
    /\ lastRead = IF Waiting THEN Handed - Len(pkt) ELSE Handed

(* The numbers of a slot's events, from the oldest: logged, being flushed, *)
(* pending, raised; and a value is never older than the event beside it.   *)
EventsOf(s) ==
  /\ logged[s] <= raised[s] /\ value[s] <= raised[s]
  /\ pending[s] # None => logged[s] < pending[s].n /\ pending[s].n <= raised[s]
  /\ pending[s].prints => pending[s].n <= value[s]
  /\ pc \in {"value", "clear"} /\ slot = s =>
       /\ logged[s] < evt.n /\ evt.n <= raised[s]
       /\ pending[s] # None /\ evt.n <= pending[s].n
       /\ pc = "value" /\ evt.prints => evt.n <= value[s]
       /\ pc = "clear" /\ evt.prints => evt.n <= val

EventsInv == \A s \in Slots : EventsOf(s)

(* An opening the main loop has not seen yet, or not greeted yet, is one   *)
(* for which there is no greeting.                                         *)
GreetInv ==
  /\ greeting => wasConnected
  /\ greetings + (IF greeting THEN 1 ELSE 0) <= opens
  /\ IsHostConnected /\ ~wasConnected => greetings < opens

-----------------------------------------------------------------------------
(* Arithmetic of the ring.                                                 *)

LEMMA ModMinus ==
  ASSUME NEW a \in Places, NEW b \in Places
  PROVE  (a - b) % BufSize = IF b <= a THEN a - b ELSE a - b + BufSize
  BY LogAssumption DEF Places

LEMMA ModPlus ==
  ASSUME NEW a \in Places, NEW n \in 0..BufSize
  PROVE  Advance(a, n) = IF a + n < BufSize THEN a + n ELSE a + n - BufSize
  BY LogAssumption DEF Places, Advance

LEMMA UsedRange ==
  ASSUME writeIdx \in Places, readIdx \in Places
  PROVE  /\ Used = IF readIdx <= writeIdx THEN writeIdx - readIdx ELSE writeIdx - readIdx + BufSize
         /\ Used \in 0..(BufSize - 1)
<1>1. Used = IF readIdx <= writeIdx THEN writeIdx - readIdx ELSE writeIdx - readIdx + BufSize
  BY ModMinus DEF Used
<1> QED
  BY <1>1, LogAssumption DEF Places

RingTypes == ring \in [Places -> Nat] /\ writeIdx \in Places /\ readIdx \in Places /\ accepted \in Nat

(* CdcLog_Write appends behind what is there; what does not fit is the     *)
(* line's end.                                                             *)
LEMMA WriteRing ==
  ASSUME RingTypes, RingInv, NEW len \in Nat, Write(len)
  PROVE  RingTypes' /\ RingInv' /\ Top' = Top
<1> DEFINE n == Smaller(len, Free)
           Nth(p) == (p - writeIdx) % BufSize
<1>1. BufSize \in Nat \ {0} /\ Used \in 0..(BufSize - 1) /\ accepted \in Nat
  BY LogAssumption, UsedRange DEF RingTypes
<1>2. n \in 0..(BufSize - 1 - Used)
  BY <1>1 DEF Smaller, Free
<1>3. /\ ring' = [p \in Places |-> IF Nth(p) < n THEN accepted + Nth(p) + 1 ELSE ring[p]]
      /\ writeIdx' = Advance(writeIdx, n) /\ accepted' = accepted + n /\ readIdx' = readIdx
  BY DEF Write
<1> HIDE DEF n
<1>4. writeIdx' = IF writeIdx + n < BufSize THEN writeIdx + n ELSE writeIdx + n - BufSize
  BY <1>1, <1>2, <1>3, ModPlus DEF RingTypes
<1>5. writeIdx' \in Places /\ readIdx' \in Places
  BY <1>1, <1>2, <1>3, <1>4 DEF RingTypes, Places
<1>6. Used' = Used + n
  <2>1. Used' = IF readIdx' <= writeIdx' THEN writeIdx' - readIdx' ELSE writeIdx' - readIdx' + BufSize
    BY <1>5, ModMinus DEF Used
  <2>2. Used = IF readIdx <= writeIdx THEN writeIdx - readIdx ELSE writeIdx - readIdx + BufSize
    BY UsedRange DEF RingTypes
  <2> HIDE DEF Used
  <2> QED
    BY <1>1, <1>2, <1>3, <1>4, <2>1, <2>2 DEF RingTypes, Places
<1>7. Top' = Top
  BY <1>1, <1>2, <1>3, <1>6 DEF Top
<1>8. \A p \in Places : /\ Nth(p) \in Nat /\ Age(p) \in Nat
                        /\ Age(p) < Used => Nth(p) >= n
                        /\ Used <= Age(p) => Nth(p) = Age(p) - Used
  <2> SUFFICES ASSUME NEW p \in Places
               PROVE  /\ Nth(p) \in Nat /\ Age(p) \in Nat
                      /\ Age(p) < Used => Nth(p) >= n
                      /\ Used <= Age(p) => Nth(p) = Age(p) - Used
    OBVIOUS
  <2>1. Nth(p) = IF writeIdx <= p THEN p - writeIdx ELSE p - writeIdx + BufSize
    BY ModMinus DEF RingTypes
  <2>2. Age(p) = IF readIdx <= p THEN p - readIdx ELSE p - readIdx + BufSize
    BY ModMinus DEF RingTypes, Age
  <2>3. Used = IF readIdx <= writeIdx THEN writeIdx - readIdx ELSE writeIdx - readIdx + BufSize
    BY UsedRange DEF RingTypes
  <2> HIDE DEF Used, Age, Nth
  <2> QED
    BY <1>1, <1>2, <2>1, <2>2, <2>3 DEF RingTypes, Places
<1>9. ring' \in [Places -> Nat]
  BY <1>1, <1>3, <1>8 DEF RingTypes
<1>10. RingInv'
  <2>1. Used' <= accepted'
    BY <1>1, <1>2, <1>3, <1>6 DEF RingInv
  <2>2. ASSUME NEW p \in Places, Age(p)' < Used' PROVE ring'[p] = Top' + 1 + Age(p)'
    <3>1. Age(p)' = Age(p) /\ Age(p) < Used + n
      BY <1>3, <1>6, <2>2 DEF Age
    <3>2. CASE Age(p) < Used
      BY <1>1, <1>2, <1>3, <1>7, <1>8, <3>1, <3>2 DEF RingInv
    <3>3. CASE Used <= Age(p)
      BY <1>1, <1>2, <1>3, <1>7, <1>8, <3>1, <3>3 DEF Top
    <3> QED
      BY <1>1, <1>8, <3>2, <3>3
  <2> QED
    BY <2>1, <2>2 DEF RingInv
<1> QED
  BY <1>3, <1>5, <1>7, <1>9, <1>10, <1>1, <1>2 DEF RingTypes

(* RingBuf_Pop takes the oldest cells, in order.                           *)
LEMMA PopRing ==
  ASSUME RingTypes, RingInv, NEW n \in 1..Used, Pop(n)
  PROVE  /\ RingTypes' /\ RingInv' /\ Top' = Top + n
         /\ scratch' \in Seq(Nat) /\ Len(scratch') = n /\ IsRun(scratch', Top')
<1>1. BufSize \in Nat \ {0} /\ Used \in 0..(BufSize - 1) /\ accepted \in Nat /\ n \in 1..Used
  BY LogAssumption, UsedRange DEF RingTypes
<1>2. /\ scratch' = [i \in 1..n |-> ring[Advance(readIdx, i - 1)]]
      /\ readIdx' = Advance(readIdx, n) /\ ring' = ring /\ writeIdx' = writeIdx /\ accepted' = accepted
  BY DEF Pop
<1>3. readIdx' = IF readIdx + n < BufSize THEN readIdx + n ELSE readIdx + n - BufSize
  BY <1>1, <1>2, ModPlus DEF RingTypes
<1>4. readIdx' \in Places
  BY <1>1, <1>3 DEF RingTypes, Places
<1>5. Used' = Used - n
  <2>1. Used' = IF readIdx' <= writeIdx' THEN writeIdx' - readIdx' ELSE writeIdx' - readIdx' + BufSize
    BY <1>2, <1>4, ModMinus DEF Used, RingTypes
  <2>2. Used = IF readIdx <= writeIdx THEN writeIdx - readIdx ELSE writeIdx - readIdx + BufSize
    BY UsedRange DEF RingTypes
  <2> HIDE DEF Used
  <2> QED
    BY <1>1, <1>2, <1>3, <2>1, <2>2 DEF RingTypes, Places
<1>6. Top' = Top + n
  BY <1>1, <1>2, <1>5 DEF Top
<1>7. RingInv'
  <2>1. Used' <= accepted'
    BY <1>1, <1>2, <1>5 DEF RingInv
  <2>2. ASSUME NEW p \in Places, Age(p)' < Used' PROVE ring'[p] = Top' + 1 + Age(p)'
    <3>1. Age(p)' = IF readIdx' <= p THEN p - readIdx' ELSE p - readIdx' + BufSize
      BY <1>4, ModMinus DEF Age
    <3>2. Age(p) = IF readIdx <= p THEN p - readIdx ELSE p - readIdx + BufSize
      BY ModMinus DEF RingTypes, Age
    <3>3. Age(p) = Age(p)' + n
      <4> HIDE DEF Age, Used
      <4> QED
        BY <1>1, <1>3, <1>4, <1>5, <2>2, <3>1, <3>2 DEF RingTypes, Places
    <3>4. ring[p] = Top + 1 + Age(p) /\ Age(p) \in Int
      <4>1. Age(p) \in Int
        BY <1>1, <3>2 DEF RingTypes, Places
      <4>2. Age(p)' \in Int
        BY <1>1, <1>4, <3>1 DEF Places
      <4> QED
        BY <1>1, <1>5, <2>2, <3>3, <4>1, <4>2 DEF RingInv
    <3>5. Top \in Int
      BY <1>1 DEF Top
    <3>6. Age(p)' \in Int
      BY <1>1, <1>4, <3>1 DEF Places
    <3> QED
      BY <1>1, <1>2, <1>6, <3>3, <3>4, <3>5, <3>6
  <2> QED
    BY <2>1, <2>2 DEF RingInv
<1>8. ASSUME NEW i \in 1..n
      PROVE  Advance(readIdx, i - 1) \in Places /\ ring[Advance(readIdx, i - 1)] = Top + i
  <2> DEFINE p == Advance(readIdx, i - 1)
  <2>1. p = IF readIdx + (i - 1) < BufSize THEN readIdx + (i - 1) ELSE readIdx + (i - 1) - BufSize
    BY <1>1, ModPlus DEF RingTypes
  <2>2. p \in Places
    BY <1>1, <2>1 DEF RingTypes, Places
  <2> HIDE DEF p
  <2>3. Age(p) = IF readIdx <= p THEN p - readIdx ELSE p - readIdx + BufSize
    BY <2>2, ModMinus DEF RingTypes, Age
  <2>4. Age(p) = i - 1
    <3> HIDE DEF Age
    <3> QED
      BY <1>1, <2>1, <2>2, <2>3 DEF RingTypes, Places
  <2>5. ring[p] = Top + 1 + (i - 1)
    BY <1>1, <2>2, <2>4 DEF RingInv
  <2>6. Top \in Int
    BY <1>1 DEF Top
  <2> QED
    BY <2>2, <2>5, <2>6 DEF p
<1>9. scratch' \in Seq(Nat) /\ Len(scratch') = n
  <2>1. \A i \in 1..n : ring[Advance(readIdx, i - 1)] \in Nat
    BY <1>8 DEF RingTypes
  <2> QED
    BY <1>1, <1>2, <2>1
<1>10. IsRun(scratch', Top')
  <2>1. Top \in Int
    BY <1>1 DEF Top
  <2>2. \A i \in 1..n : scratch'[i] = Top + i
    BY <1>2, <1>8
  <2> QED
    BY <1>1, <1>6, <1>9, <2>1, <2>2 DEF IsRun
<1> QED
  BY <1>1, <1>2, <1>4, <1>6, <1>7, <1>9, <1>10 DEF RingTypes

LEMMA RingInitially == Init => RingTypes /\ RingInv /\ Top = 0
<1> SUFFICES ASSUME Init PROVE RingTypes /\ RingInv /\ Top = 0
  OBVIOUS
<1>1. BufSize \in Nat \ {0} /\ Booted \in 0..(BufSize - 1)
  BY LogAssumption DEF Booted, Smaller
<1>2. writeIdx = Booted /\ readIdx = 0 /\ accepted = Booted
  <2>1. Booted % BufSize = Booted
    BY <1>1
  <2> QED
    BY <2>1 DEF Init
<1>3. ring = [p \in Places |-> IF p < Booted THEN p + 1 ELSE 0]
  BY DEF Init
<1> HIDE DEF Init, Booted
<1>4. RingTypes
  BY <1>1, <1>2, <1>3 DEF RingTypes, Places
<1>5. Used = Booted
  BY <1>1, <1>2, <1>4, UsedRange DEF RingTypes
<1>6. ASSUME NEW p \in Places PROVE Age(p) = p
  BY <1>1, <1>2, <1>4, ModMinus DEF RingTypes, Age, Places
<1>7. Top = 0
  BY <1>1, <1>2, <1>5 DEF Top
<1>8. RingInv
  BY <1>1, <1>2, <1>3, <1>5, <1>6, <1>7 DEF RingInv, Places
<1> QED
  BY <1>4, <1>7, <1>8
-----------------------------------------------------------------------------
(* The inductive invariant.                                                *)
IInv ==
  /\ TypeOK /\ CoreInv
  /\ RingInv /\ StreamInv /\ Contiguous
  /\ EventsInv /\ GreetInv

LEMMA NoneType == None \in [n : Nat, prints : BOOLEAN] /\ ~None.prints /\ None.n = 0
  BY DEF None

LEMMA InitIInv == Init => IInv
<1> SUFFICES ASSUME Init PROVE IInv
  OBVIOUS
<1>1. RingTypes /\ RingInv /\ Top = 0
  BY RingInitially
<1>2. CoreInv
  BY CoreInitially DEF Init
<1>3. TypeOK
  <2>1. UsbTypeOK
    BY DEF Init, UsbInit, UsbTypeOK, DevStates, EpStats
  <2>2. scratch \in Seq(Nat) /\ pkt \in Seq(Nat) /\ {Len(scratch), Len(pkt)} \subseteq 0..PacketLen
    BY LogAssumption DEF Init
  <2>3. pending \in [Slots -> [n : Nat, prints : BOOLEAN]] /\ evt \in [n : Nat, prints : BOOLEAN]
    BY NoneType DEF Init
  <2> QED
    BY <1>1, <2>1, <2>2, <2>3 DEF Init, TypeOK, RingTypes, Slots
<1>4. StreamInv /\ Contiguous
  BY <1>1 DEF Init, UsbInit, StreamInv, Contiguous, Waiting, Sending, Handed, EPS
<1>5. EventsInv
  BY NoneType DEF Init, EventsInv, EventsOf
<1>6. GreetInv
  BY DEF Init, UsbInit, GreetInv, IsHostConnected
<1> QED
  BY <1>1, <1>2, <1>3, <1>4, <1>5, <1>6 DEF IInv

(* What the main loop leaves alone is the state of the device core, and    *)
(* what the bus events leave alone is the main loop.                       *)
LEMMA MainKeepsCore == Main => UNCHANGED coreVars
  BY DEF Main, RunConnection, RunPop, Submit, Arm, StartXfer, FlushEmpty, ReadEvent, ReadValue,
         ClearAndPrint, usbVars, coreVars

LEMMA OthersKeepMain ==
  HandleSetup \/ SetControlLineState \/ DataIn \/ Wait \/ Bus => UNCHANGED mainVars
  BY DEF HandleSetup, SetControlLineState, DataIn, Wait, Bus, Reset, Suspend, Resume, Recover,
         Address, ConfigureUp, ConfigureDown

LEMMA BusIsCoreStep == Bus => CoreStep
  BY DEF Bus, Reset, Suspend, Resume, Recover, Address, ConfigureUp, ConfigureDown, CoreStep

LEMMA CoreStays == IInv /\ [Next]_vars => CoreInv'
<1> SUFFICES ASSUME IInv, [Next]_vars PROVE CoreInv'
  OBVIOUS
<1>1. CASE Bus
  BY <1>1, BusIsCoreStep, CorePreserved DEF IInv
<1>2. CASE Main
  BY <1>2, MainKeepsCore, CoreUnchanged DEF IInv
<1>3. CASE HandleSetup \/ SetControlLineState \/ DataIn \/ Wait \/ UNCHANGED vars
  <2>1. UNCHANGED coreVars
    BY <1>3 DEF HandleSetup, SetControlLineState, DataIn, Wait, vars, usbVars, coreVars
  <2> QED
    BY <2>1, CoreUnchanged DEF IInv
<1> QED
  BY <1>1, <1>2, <1>3 DEF Next

(* Only three steps change the ring.                                       *)
LEMMA RingStep == IInv /\ [Next]_vars => RingTypes' /\ RingInv'
<1> SUFFICES ASSUME IInv, [Next]_vars PROVE RingTypes' /\ RingInv'
  OBVIOUS
<1>1. RingTypes /\ RingInv /\ LineLen \in Nat /\ PacketLen \in Nat \ {0}
  BY LogAssumption DEF IInv, TypeOK, RingTypes
<1>2. Used \in Nat
  BY <1>1, UsedRange DEF RingTypes
<1>3. CASE UNCHANGED ringVars
  BY <1>1, <1>3 DEF ringVars, RingTypes, RingInv, Used, Age, Top
<1>4. CASE RunConnection
  BY <1>1, <1>3, <1>4, WriteRing DEF RunConnection, ringVars
<1>5. CASE ClearAndPrint
  BY <1>1, <1>5, WriteRing DEF ClearAndPrint
<1>6. CASE RunPop
  <2>1. CASE SendDue
    <3>1. Smaller(Used, PacketLen) \in 1..Used
      BY <1>1, <1>2, <2>1 DEF Smaller, SendDue
    <3> QED
      BY <1>1, <1>6, <2>1, <3>1, PopRing DEF RunPop
  <2> QED
    BY <1>3, <1>6, <2>1 DEF RunPop
<1>7. CASE Submit \/ Arm \/ StartXfer \/ FlushEmpty \/ ReadEvent \/ ReadValue \/ UNCHANGED vars
  BY <1>3, <1>7 DEF Submit, Arm, StartXfer, FlushEmpty, ReadEvent, ReadValue, vars, mainVars
<1>8. CASE HandleSetup \/ SetControlLineState \/ DataIn \/ Wait \/ Bus
  BY <1>3, <1>8, OthersKeepMain DEF mainVars
<1> QED
  BY <1>4, <1>5, <1>6, <1>7, <1>8 DEF Next, Main

LEMMA EndpointsStay == IInv /\ [Next]_vars => UsbTypeOK'
<1> SUFFICES ASSUME IInv, [Next]_vars PROVE UsbTypeOK'
  OBVIOUS
<1>1. txBusy \in [EPS -> BOOLEAN] /\ epStat \in [EPS -> EpStats] /\ CoreTypeOK'
  BY CoreStays DEF IInv, TypeOK, UsbTypeOK, CoreInv
<1>2. txBusy' \in [EPS -> BOOLEAN] /\ epStat' \in [EPS -> EpStats]
  <2>1. CASE Bus
    BY <1>1, <2>1, BusIsCoreStep, EndpointTypes
  <2>2. CASE Arm \/ StartXfer \/ DataIn
    BY <1>1, <2>2 DEF Arm, StartXfer, DataIn, EpStats
  <2>3. CASE UNCHANGED usbVars
    BY <1>1, <2>3 DEF usbVars
  <2> QED
    BY <2>1, <2>2, <2>3
       DEF Next, Main, RunConnection, RunPop, Submit, FlushEmpty, ReadEvent, ReadValue,
           ClearAndPrint, HandleSetup, SetControlLineState, Wait, vars
<1> QED
  BY <1>1, <1>2 DEF UsbTypeOK, CoreTypeOK

(* An event leaves a well-formed slot, and nothing else of the log moves.  *)
LEMMA RaiseTypes ==
  ASSUME TypeOK, NEW s \in Slots, NEW prints \in BOOLEAN, Raise(s, prints)
  PROVE  /\ pending' \in [Slots -> [n : Nat, prints : BOOLEAN]]
         /\ value' \in [Slots -> Nat] /\ raised' \in [Slots -> Nat]
<1>1. raised[s] + 1 \in Nat
  BY DEF TypeOK
<1>2. [n |-> raised[s] + 1, prints |-> prints] \in [n : Nat, prints : BOOLEAN]
  BY <1>1
<1> QED
  BY <1>1, <1>2 DEF TypeOK, Raise

LEMMA TypeStays == IInv /\ [Next]_vars => TypeOK'
<1> SUFFICES ASSUME IInv, [Next]_vars PROVE TypeOK'
  OBVIOUS
<1>1. RingTypes' /\ UsbTypeOK' /\ TypeOK /\ LineLen \in Nat /\ PacketLen \in Nat \ {0}
  BY RingStep, EndpointsStay, LogAssumption DEF IInv
<1>2. Used \in Nat
  BY <1>1, UsedRange DEF TypeOK
<1> DEFINE Bools == wasConnected \in BOOLEAN /\ greeting \in BOOLEAN /\ waited \in BOOLEAN
<1>3. CASE RunConnection
  <2>1. Bools'
    <3>1. Bools /\ hcomp \in BOOLEAN /\ hostConnected \in BOOLEAN
      BY <1>1 DEF TypeOK, UsbTypeOK
    <3>2. IsHostConnected \in BOOLEAN
      BY <3>1 DEF IsHostConnected
    <3> QED
      BY <1>3, <3>1, <3>2 DEF RunConnection, GreetingAfter, GreetingDue
  <2>2. greetings' \in Nat
    BY <1>1, <1>3 DEF RunConnection, TypeOK
  <2>3. pc' \in {"idle", "event"} /\ UNCHANGED <<usbVars, flushVars, scratch, slotVars, pkt, hostVars, disturbed>>
    BY <1>3 DEF RunConnection
  <2> QED
    BY <1>1, <2>1, <2>2, <2>3 DEF TypeOK, RingTypes, flushVars, slotVars, hostVars, readVars
<1>4. CASE RunPop
  <2>1. CASE SendDue
    <3>1. Smaller(Used, PacketLen) \in 1..Used /\ Smaller(Used, PacketLen) <= PacketLen
      BY <1>1, <1>2, <2>1 DEF Smaller, SendDue
    <3>2. scratch' \in Seq(Nat) /\ Len(scratch') \in 0..PacketLen
      <4>1. RingTypes /\ RingInv /\ Pop(Smaller(Used, PacketLen))
        BY <1>4, <2>1 DEF RunPop, IInv, TypeOK, RingTypes
      <4> HIDE DEF IInv
      <4> QED
        BY <1>1, <1>2, <3>1, <4>1, PopRing
    <3> QED
      BY <1>1, <1>4, <2>1, <3>2
         DEF TypeOK, RingTypes, RunPop, connVars, flushVars, slotVars, hostVars, readVars
  <2>2. CASE ~SendDue
    BY <1>1, <1>4, <2>2
       DEF TypeOK, RingTypes, RunPop, connVars, flushVars, slotVars, hostVars, readVars
  <2> QED
    BY <2>1, <2>2
<1>5. CASE Submit \/ Arm
  BY <1>1, <1>5 DEF TypeOK, RingTypes, Submit, Arm, connVars, flushVars, slotVars, hostVars, readVars
<1>6. CASE StartXfer
  <2>1. scratch' \in Seq(Nat) /\ Len(scratch') \in 0..PacketLen
    BY <1>1, <1>6 DEF StartXfer
  <2> QED
    BY <1>1, <1>6, <2>1 DEF TypeOK, RingTypes, StartXfer, connVars, flushVars, slotVars, hostVars,
                            readVars
<1>7. CASE FlushEmpty \/ ReadEvent \/ ReadValue
  BY <1>1, <1>7 DEF TypeOK, RingTypes, FlushEmpty, ReadEvent, ReadValue, FlushDone, connVars,
                    slotVars, hostVars, readVars, Slots
<1>8. CASE ClearAndPrint
  <2>1. suspendCell' \in Nat
    <3>1. accepted + LineLen \in Nat /\ suspendCell \in Nat
      BY <1>1 DEF TypeOK
    <3> QED
      BY <1>8, <3>1 DEF ClearAndPrint
  <2>2. evt' \in [n : Nat, prints : BOOLEAN] /\ pending' \in [Slots -> [n : Nat, prints : BOOLEAN]]
    <3>1. pending \in [Slots -> [n : Nat, prints : BOOLEAN]]
      BY <1>1 DEF TypeOK
    <3> QED
      BY <1>8, <3>1, NoneType DEF ClearAndPrint, Cleared
  <2>3. logged' \in [Slots -> Nat]
    <3>1. logged \in [Slots -> Nat] /\ evt.n \in Nat
      BY <1>1 DEF TypeOK
    <3> QED
      BY <1>8, <3>1 DEF ClearAndPrint
  <2>4. pc' \in {"event", "run"} /\ slot' \in Slots /\ val' = 0
    BY <1>8 DEF ClearAndPrint, FlushDone, Slots
  <2>5. UNCHANGED <<usbVars, connVars, scratch, waited, value, raised, lastSuspend, pkt, hostConnected,
                    opens, lastRead, gap, disturbed>>
    BY <1>8 DEF ClearAndPrint
  <2> QED
    BY <1>1, <2>1, <2>2, <2>3, <2>4, <2>5 DEF TypeOK, RingTypes, connVars
<1>9. CASE HandleSetup
  <2>1. PICK prints \in BOOLEAN : Raise("VREQ", prints)
    BY <1>9 DEF HandleSetup
  <2>2. /\ pending' \in [Slots -> [n : Nat, prints : BOOLEAN]]
        /\ value' \in [Slots -> Nat] /\ raised' \in [Slots -> Nat]
    BY <1>1, <2>1, RaiseTypes DEF Slots
  <2>3. UNCHANGED <<usbVars, mainVars, waited, lastSuspend, pkt, hostVars, disturbed>>
    BY <1>9 DEF HandleSetup
  <2> QED
    BY <1>1, <2>2, <2>3 DEF TypeOK, RingTypes, mainVars, connVars, flushVars, hostVars, readVars
<1>10. CASE SetControlLineState \/ Wait
  <2>1. waited' \in BOOLEAN /\ hostConnected' \in BOOLEAN
    BY <1>1, <1>10 DEF TypeOK, SetControlLineState, Wait, hostVars
  <2>3. opens' \in Nat
    BY <1>1, <1>10 DEF TypeOK, SetControlLineState, Wait, hostVars
  <2>2. UNCHANGED <<mainVars, slotVars, pkt, readVars, disturbed>>
    BY <1>10 DEF SetControlLineState, Wait, hostVars
  <2> QED
    BY <1>1, <2>1, <2>2, <2>3 DEF TypeOK, RingTypes, mainVars, connVars, flushVars, slotVars, readVars
<1>11. CASE DataIn
  <2>1. Waiting
    BY <1>11 DEF DataIn, InTokenServed, Waiting
  <2>2. pkt \in Seq(Nat) /\ pkt # <<>>
    BY <1>1, <2>1 DEF TypeOK, IInv, StreamInv
  <2>3. pkt[Len(pkt)] \in Nat
    BY <2>2
  <2>4. pkt' \in Seq(Nat) /\ Len(pkt') \in 0..PacketLen
    BY <1>1, <1>11 DEF DataIn
  <2>5. suspendCell' \in Nat /\ gap' \in BOOLEAN
    BY <1>1, <1>11 DEF DataIn, TypeOK
  <2> QED
    BY <1>1, <1>11, <2>3, <2>4, <2>5
       DEF TypeOK, RingTypes, DataIn, mainVars, connVars, flushVars, slotVars
<1>12. CASE Reset \/ Recover \/ Address \/ ConfigureDown
  <2>1. UNCHANGED <<mainVars, waited, slotVars, pkt, hostVars>> /\ disturbed' \in BOOLEAN
    BY <1>1, <1>12 DEF Reset, Recover, Address, ConfigureDown, TypeOK
  <2> QED
    BY <1>1, <2>1 DEF TypeOK, RingTypes, mainVars, connVars, flushVars, slotVars, hostVars, readVars
<1>13. CASE Suspend \/ Resume \/ ConfigureUp
  <2>1. Raise("USB", TRUE)
    BY <1>13 DEF Suspend, Resume, ConfigureUp
  <2>2. /\ pending' \in [Slots -> [n : Nat, prints : BOOLEAN]]
        /\ value' \in [Slots -> Nat] /\ raised' \in [Slots -> Nat]
    BY <1>1, <2>1, RaiseTypes DEF Slots
  <2>3. lastSuspend' \in Nat
    <3>1. raised["USB"] + 1 \in Nat /\ lastSuspend \in Nat
      BY <1>1 DEF TypeOK, Slots
    <3> QED
      BY <1>13, <3>1 DEF Suspend, Resume, ConfigureUp
  <2>4. /\ UNCHANGED <<mainVars, waited, pkt, opens, readVars>>
        /\ hostConnected' \in BOOLEAN /\ disturbed' \in BOOLEAN
    BY <1>1, <1>13 DEF TypeOK, Suspend, Resume, ConfigureUp, hostVars
  <2> QED
    BY <1>1, <2>2, <2>3, <2>4 DEF TypeOK, RingTypes, mainVars, connVars, flushVars, readVars
<1>14. CASE UNCHANGED vars
  BY <1>1, <1>14 DEF TypeOK, RingTypes, vars, mainVars, connVars, flushVars, slotVars, hostVars,
                     readVars
<1> QED
  BY <1>3, <1>4, <1>5, <1>6, <1>7, <1>8, <1>9, <1>10, <1>11, <1>12, <1>13, <1>14
     DEF Next, Main, Bus
-----------------------------------------------------------------------------
(* The slots.                                                              *)

SlotTypes ==
  /\ pending \in [Slots -> [n : Nat, prints : BOOLEAN]]
  /\ value \in [Slots -> Nat] /\ raised \in [Slots -> Nat] /\ logged \in [Slots -> Nat]
  /\ slot \in Slots /\ evt \in [n : Nat, prints : BOOLEAN] /\ val \in Nat

LEMMA RaiseEvents ==
  ASSUME SlotTypes, NEW t \in Slots, EventsOf(t), NEW s \in Slots, NEW prints \in BOOLEAN,
         Raise(s, prints), UNCHANGED <<pc, slot, evt, val, logged>>
  PROVE  EventsOf(t)'
<1>1. /\ logged[t] \in Nat /\ value[t] \in Nat /\ raised[t] \in Nat /\ evt.n \in Nat /\ val \in Nat
      /\ pending[t] \in [n : Nat, prints : BOOLEAN]
  BY DEF SlotTypes
<1>2. CASE t # s
  <2>1. pending'[t] = pending[t] /\ value'[t] = value[t] /\ raised'[t] = raised[t]
    BY <1>2 DEF Raise, SlotTypes
  <2> QED
    BY <2>1 DEF EventsOf
<1>3. CASE t = s
  <2>1. /\ pending'[t] = [n |-> raised[t] + 1, prints |-> prints] /\ raised'[t] = raised[t] + 1
        /\ value'[t] = IF prints THEN raised[t] + 1 ELSE value[t]
    BY <1>3 DEF Raise, SlotTypes
  <2>2. pending'[t].n = raised[t] + 1 /\ pending'[t].prints = prints
    BY <2>1
  <2>3. pending'[t] # None
    BY <1>1, <2>2, NoneType
  <2>4. /\ logged'[t] <= raised'[t] /\ value'[t] <= raised'[t]
        /\ logged'[t] < pending'[t].n /\ pending'[t].n <= raised'[t]
        /\ pending'[t].prints => pending'[t].n <= value'[t]
    BY <1>1, <2>1, <2>2 DEF EventsOf
  <2>5. ASSUME pc \in {"value", "clear"}, slot = t
        PROVE  /\ logged'[t] < evt'.n /\ evt'.n <= raised'[t] /\ evt'.n <= pending'[t].n
               /\ pc' = "value" /\ evt'.prints => evt'.n <= value'[t]
               /\ pc' = "clear" /\ evt'.prints => evt'.n <= val'
    <3>1. logged[t] < evt.n /\ evt.n <= raised[t]
      BY <2>5 DEF EventsOf
    <3>2. pc = "value" /\ evt.prints => evt.n <= value[t]
      BY <2>5 DEF EventsOf
    <3>3. pc = "clear" /\ evt.prints => evt.n <= val
      BY <2>5 DEF EventsOf
    <3> QED
      BY <1>1, <2>1, <2>2, <3>1, <3>2, <3>3
  <2> QED
    BY <2>3, <2>4, <2>5 DEF EventsOf
<1> QED
  BY <1>2, <1>3

LEMMA EventsStay == IInv /\ [Next]_vars => EventsInv'
<1> SUFFICES ASSUME IInv, [Next]_vars, NEW t \in Slots PROVE EventsOf(t)'
  BY DEF EventsInv
<1>1. SlotTypes /\ EventsOf(t)
  BY DEF IInv, TypeOK, SlotTypes, EventsInv
<1>2. /\ logged[t] \in Nat /\ value[t] \in Nat /\ raised[t] \in Nat /\ evt.n \in Nat /\ val \in Nat
      /\ pending[t] \in [n : Nat, prints : BOOLEAN]
  BY <1>1 DEF SlotTypes
<1>3. CASE /\ UNCHANGED <<slotVars, evt, val, logged>>
           /\ UNCHANGED <<pc, slot>> \/ pc' \notin {"value", "clear"}
  BY <1>1, <1>3 DEF slotVars, EventsOf
<1>4. CASE RunConnection \/ RunPop \/ Submit \/ Arm \/ StartXfer \/ FlushEmpty
  BY <1>3, <1>4 DEF RunConnection, RunPop, Submit, Arm, StartXfer, FlushEmpty, FlushDone, flushVars
<1>5. CASE ReadEvent
  <2>1. /\ pc = "event" /\ pending[slot] # None /\ evt' = pending[slot] /\ pc' = "value"
        /\ UNCHANGED <<slotVars, slot, val, logged>>
    BY <1>5 DEF ReadEvent
  <2> QED
    BY <1>1, <1>2, <2>1 DEF EventsOf, slotVars
<1>6. CASE ReadValue
  <2>1. /\ pc = "value" /\ val' = value[slot] /\ pc' = "clear"
        /\ UNCHANGED <<slotVars, slot, evt, logged>>
    BY <1>6 DEF ReadValue
  <2> QED
    BY <1>1, <2>1 DEF EventsOf, slotVars
<1>7. CASE ClearAndPrint
  <2>1. /\ pc = "clear" /\ pending' = [pending EXCEPT ![slot] = None]
        /\ logged' = [logged EXCEPT ![slot] = evt.n] /\ pc' \in {"event", "run"}
        /\ UNCHANGED <<value, raised>>
    BY <1>7 DEF ClearAndPrint, Cleared, FlushDone
  <2>2. CASE slot = t
    <3>1. pending'[t] = None /\ logged'[t] = evt.n
      BY <1>1, <2>1, <2>2 DEF SlotTypes
    <3> QED
      BY <1>1, <2>1, <2>2, <3>1, NoneType DEF EventsOf
  <2>3. CASE slot # t
    <3>1. pending'[t] = pending[t] /\ logged'[t] = logged[t]
      BY <1>1, <2>1, <2>3 DEF SlotTypes
    <3> QED
      BY <1>1, <2>1, <3>1 DEF EventsOf
  <2> QED
    BY <2>2, <2>3
<1>8. CASE HandleSetup \/ Suspend \/ Resume \/ ConfigureUp
  <2>1. UNCHANGED <<pc, slot, evt, val, logged>>
    BY <1>8, OthersKeepMain DEF Bus, mainVars, flushVars
  <2>2. PICK s \in Slots, prints \in BOOLEAN : Raise(s, prints)
    BY <1>8 DEF HandleSetup, Suspend, Resume, ConfigureUp, Slots
  <2> QED
    BY <1>1, <2>1, <2>2, RaiseEvents
<1>9. CASE \/ SetControlLineState \/ DataIn \/ Wait \/ Reset \/ Recover \/ Address \/ ConfigureDown
           \/ UNCHANGED vars
  BY <1>3, <1>9 DEF SetControlLineState, DataIn, Wait, Reset, Recover, Address, ConfigureDown, vars,
                    mainVars, flushVars
<1> QED
  BY <1>4, <1>5, <1>6, <1>7, <1>8, <1>9 DEF Next, Main, Bus
-----------------------------------------------------------------------------
(* The greeting.                                                           *)

LEMMA GreetStay == IInv /\ [Next]_vars => GreetInv'
<1> SUFFICES ASSUME IInv, [Next]_vars PROVE GreetInv'
  OBVIOUS
<1>1. GreetInv /\ greetings \in Nat /\ opens \in Nat
  BY DEF IInv, TypeOK
<1>2. CASE UNCHANGED <<connVars, hostConnected, hcomp, opens>>
  BY <1>1, <1>2 DEF GreetInv, IsHostConnected, connVars
<1>3. CASE RunConnection
  <2>1. /\ wasConnected' = IsHostConnected /\ greeting' = GreetingAfter(IsHostConnected)
        /\ greetings' = IF GreetingDue(IsHostConnected) THEN greetings + 1 ELSE greetings
        /\ UNCHANGED <<hostConnected, hcomp, opens>>
    BY <1>3 DEF RunConnection, usbVars, hostVars
  <2>2. IsHostConnected' = IsHostConnected
    BY <2>1 DEF IsHostConnected
  <2>3. CASE ~IsHostConnected
    <3>1. ~wasConnected' /\ ~greeting' /\ ~IsHostConnected'
      BY <2>1, <2>2, <2>3 DEF GreetingAfter
    <3>2. greetings' = greetings /\ opens' = opens
      BY <2>1, <2>3 DEF GreetingDue
    <3>3. greetings' <= opens'
      BY <1>1, <3>2 DEF GreetInv
    <3> QED
      BY <1>1, <3>1, <3>2, <3>3 DEF GreetInv
  <2>4. CASE IsHostConnected /\ wasConnected
    <3>1. CASE greeting /\ waited
      <4>1. wasConnected' /\ ~greeting'
        BY <2>1, <2>4, <3>1 DEF GreetingAfter, GreetingDue
      <4>2. greetings' = greetings + 1 /\ opens' = opens
        BY <2>1, <2>4, <3>1 DEF GreetingDue
      <4> QED
        BY <1>1, <3>1, <4>1, <4>2 DEF GreetInv
    <3>2. CASE ~(greeting /\ waited)
      <4>1. wasConnected' /\ (greeting' => greeting)
        BY <2>1, <2>4, <3>2 DEF GreetingAfter, GreetingDue
      <4>2. greetings' = greetings /\ opens' = opens
        BY <2>1, <3>2 DEF GreetingDue
      <4> QED
        BY <1>1, <4>1, <4>2 DEF GreetInv
    <3> QED
      BY <3>1, <3>2
  <2>5. CASE IsHostConnected /\ ~wasConnected
    <3>1. wasConnected'
      BY <2>1, <2>5
    <3>2. greetings' = greetings /\ opens' = opens
      BY <2>1, <2>5 DEF GreetingDue
    <3> QED
      BY <1>1, <2>5, <3>1, <3>2 DEF GreetInv
  <2> QED
    BY <2>3, <2>4, <2>5
<1>4. CASE RunPop \/ Submit \/ Arm \/ StartXfer \/ FlushEmpty \/ ReadEvent \/ ReadValue \/ ClearAndPrint
  BY <1>2, <1>4 DEF RunPop, Submit, Arm, StartXfer, FlushEmpty, ReadEvent, ReadValue, ClearAndPrint,
                    usbVars, coreVars, hostVars
<1>5. CASE SetControlLineState
  <2>1. UNCHANGED connVars /\ hcomp' = hcomp /\ ((~hostConnected' /\ opens' = opens) \/ opens' = opens + 1)
    BY <1>5 DEF SetControlLineState, mainVars, usbVars
  <2> QED
    BY <1>1, <2>1 DEF GreetInv, IsHostConnected, connVars
<1>6. CASE HandleSetup \/ DataIn \/ Wait \/ Suspend \/ Resume \/ Recover \/ Address \/ UNCHANGED vars
  BY <1>2, <1>6 DEF HandleSetup, DataIn, Wait, Suspend, LL_Suspend, Resume, LL_Resume, Recover,
                    BusRecovered, Address, SetAddress, vars, usbVars, coreVars, mainVars, hostVars
<1>7. CASE Reset \/ ConfigureDown \/ ConfigureUp
  <2>1. ~IsHostConnected' /\ UNCHANGED <<connVars, opens>>
    BY <1>7 DEF Reset, LL_Reset, ConfigureDown, SetConfigDown, SetConfigRefused, Composite_DeInit,
                ConfigureUp, IsHostConnected, mainVars, hostVars
  <2> QED
    BY <1>1, <2>1 DEF GreetInv, connVars
<1> QED
  BY <1>3, <1>4, <1>5, <1>6, <1>7 DEF Next, Main, Bus
-----------------------------------------------------------------------------
(* The way of the cells.                                                   *)

(* The events of the bus put no packet on EP3, and while the bus has been  *)
(* left alone they do nothing to a configured device.                      *)
LEMMA BusSendsNothing ==
  ASSUME epStat \in [EPS -> EpStats], Bus, Waiting'
  PROVE  Waiting
<1> USE DEF EPS, Waiting
<1>1. CASE epStat' = epStat
  BY <1>1
<1>2. CASE epStat' = [e \in EPS |-> "DIS"] \/ epStat' = [e \in EPS |-> "NAK"]
  BY <1>2
<1> QED
  BY <1>1, <1>2
     DEF Bus, Reset, LL_Reset, Suspend, LL_Suspend, Resume, LL_Resume, Recover, BusRecovered, Address,
         SetAddress, ConfigureUp, SetConfigUp, Composite_Init, ConfigureDown, SetConfigDown,
         SetConfigRefused, Composite_DeInit

LEMMA StreamStays == IInv /\ [Next]_vars => StreamInv'
<1> SUFFICES ASSUME IInv, [Next]_vars PROVE StreamInv'
  OBVIOUS
<1>1. /\ StreamInv /\ RingTypes /\ RingInv /\ lastRead \in Nat /\ scratch \in Seq(Nat) /\ pkt \in Seq(Nat)
      /\ PacketLen \in Nat \ {0} /\ LineLen \in Nat
      /\ epStat \in [EPS -> EpStats]
  BY LogAssumption DEF IInv, TypeOK, UsbTypeOK, RingTypes
<1>2. Used \in Nat /\ Top \in Int
  BY <1>1, UsedRange DEF RingTypes, Top
<1>3. Len(scratch) \in Nat /\ Len(pkt) \in Nat
  BY <1>1
<1> HIDE DEF IInv, RingTypes
<1>4. ASSUME Top' = Top, Sending <=> Sending', UNCHANGED <<scratch, pkt, lastRead>>, Waiting' => Waiting
      PROVE  StreamInv'
  BY <1>1, <1>4 DEF StreamInv, Handed, IsRun
<1>5. CASE UNCHANGED <<ringVars, scratch, pkt, lastRead>> /\ (Sending <=> Sending') /\ (Waiting' => Waiting)
  BY <1>4, <1>5 DEF ringVars, Top, Used
<1>6. CASE RunConnection \/ ClearAndPrint
  <2>1. Top' = Top
    BY <1>1, <1>5, <1>6, WriteRing DEF RunConnection, ClearAndPrint, ringVars, Top, Used
  <2>2. ~Sending /\ ~Sending' /\ UNCHANGED <<scratch, pkt, lastRead, epStat>>
    BY <1>6 DEF RunConnection, ClearAndPrint, FlushDone, Sending, usbVars, hostVars, readVars
  <2> QED
    BY <1>4, <2>1, <2>2 DEF Waiting
<1>7. CASE RunPop
  <2>1. CASE SendDue
    <3> DEFINE n == Smaller(Used, PacketLen)
    <3>1. n \in 1..Used
      BY <1>1, <1>2, <2>1 DEF Smaller, SendDue
    <3>2. Pop(n) /\ pc = "idle" /\ pc' = "submit" /\ UNCHANGED <<pkt, lastRead, epStat>>
      BY <1>7, <2>1 DEF RunPop, usbVars, hostVars, readVars
    <3> HIDE DEF n
    <3>3. Top' = Top + n /\ scratch' \in Seq(Nat) /\ Len(scratch') = n /\ IsRun(scratch', Top')
      BY <1>1, <3>1, <3>2, PopRing
    <3>4. scratch' # <<>> /\ Handed' = Top /\ Handed = Top /\ Sending'
      BY <1>2, <3>1, <3>2, <3>3 DEF Handed, Sending
    <3> QED
      BY <1>1, <3>2, <3>3, <3>4 DEF StreamInv, Waiting, IsRun
  <2> QED
    BY <1>5, <1>7, <2>1 DEF RunPop, Sending, Waiting, usbVars, hostVars, readVars
<1>8. CASE Submit
  <2>1. /\ pc = "submit" /\ pc' \in {"arm", "event"}
        /\ UNCHANGED <<ringVars, scratch, pkt, lastRead, epStat>>
    BY <1>8 DEF Submit, usbVars, hostVars, readVars
  <2>2. Top' = Top /\ (Sending' => Handed' = Handed) /\ Handed <= Handed' /\ Handed' \in Int /\ Handed \in Int
    BY <1>2, <1>3, <2>1 DEF ringVars, Top, Used, Handed, Sending
  <2> QED
    BY <1>1, <1>2, <2>1, <2>2 DEF StreamInv, Waiting, IsRun, Sending
<1>9. CASE StartXfer
  <2>1. /\ pc = "start" /\ pc' = "event" /\ pkt' = scratch /\ scratch' = <<>>
        /\ UNCHANGED <<ringVars, lastRead>>
    BY <1>9 DEF StartXfer, hostVars, readVars
  <2>2. Top' = Top /\ Handed' = Top /\ Handed = Top - Len(scratch) /\ ~Sending' /\ Sending
    BY <2>1 DEF ringVars, Top, Used, Handed, Sending
  <2>3. lastRead <= Top - Len(scratch) /\ scratch # <<>> /\ IsRun(scratch, Top)
    BY <1>1, <2>2 DEF StreamInv
  <2>4. pkt' # <<>> /\ Handed' \in lastRead'..Handed' /\ lastRead' + Len(pkt') <= Handed'
    BY <1>1, <1>2, <1>3, <2>1, <2>2, <2>3
  <2>5. \A i \in 1..Len(pkt') : pkt'[i] = Handed' - Len(pkt') + i
    BY <2>1, <2>2, <2>3 DEF IsRun
  <2>6. \E hi \in lastRead'..Handed' : /\ \A i \in 1..Len(pkt') : pkt'[i] = hi - Len(pkt') + i
                                       /\ lastRead' + Len(pkt') <= hi
    BY <2>4, <2>5
  <2>7. lastRead' <= Handed'
    BY <1>1, <1>2, <1>3, <2>1, <2>2, <2>3
  <2> QED
    BY <2>2, <2>4, <2>6, <2>7 DEF StreamInv, IsRun
<1>10. CASE DataIn
  <2>1. Waiting /\ lastRead' = pkt[Len(pkt)] /\ epStat'["CDC"] = "NAK"
    BY <1>1, <1>10 DEF DataIn, InTokenServed, Waiting, EPS
  <2>2. PICK hi \in lastRead..Handed : pkt # <<>> /\ IsRun(pkt, hi)
    BY <1>1, <2>1 DEF StreamInv
  <2>3. lastRead' = hi
    BY <1>1, <1>3, <2>1, <2>2 DEF IsRun
  <2>4. Top' = Top /\ Handed' = Handed /\ (Sending <=> Sending') /\ UNCHANGED scratch /\ ~Waiting'
    BY <1>10, <2>1 DEF DataIn, mainVars, ringVars, Top, Used, Handed, Sending, Waiting
  <2> QED
    BY <1>1, <2>2, <2>3, <2>4 DEF StreamInv, IsRun
<1>11. CASE Arm \/ FlushEmpty \/ ReadEvent \/ ReadValue
  BY <1>5, <1>11 DEF Arm, FlushEmpty, ReadEvent, ReadValue, FlushDone, Sending, Waiting, usbVars,
                     hostVars, readVars
<1>12. CASE HandleSetup \/ SetControlLineState \/ Wait \/ UNCHANGED vars
  BY <1>5, <1>12 DEF HandleSetup, SetControlLineState, Wait, vars, mainVars, hostVars, readVars,
                     Sending, Waiting, usbVars
<1>13. CASE Bus
  <2>1. UNCHANGED <<mainVars, pkt, lastRead>>
    BY <1>13 DEF Bus, Reset, Suspend, Resume, Recover, Address, ConfigureUp, ConfigureDown, hostVars,
                 readVars
  <2> QED
    BY <1>1, <1>5, <1>13, <2>1, BusSendsNothing DEF mainVars, Sending
<1> QED
  BY <1>6, <1>7, <1>8, <1>9, <1>10, <1>11, <1>12, <1>13 DEF Next, Main

LEMMA ContiguousStays == IInv /\ [Next]_vars => Contiguous'
<1> SUFFICES ASSUME IInv, [Next]_vars, ~disturbed' PROVE Contiguous'
  BY DEF Contiguous
<1>1. /\ RingTypes /\ RingInv /\ StreamInv /\ CoreInv /\ lastRead \in Nat
      /\ scratch \in Seq(Nat) /\ pkt \in Seq(Nat) /\ PacketLen \in Nat \ {0} /\ LineLen \in Nat
      /\ epStat \in [EPS -> EpStats] /\ txBusy \in [EPS -> BOOLEAN]
  BY LogAssumption DEF IInv, TypeOK, UsbTypeOK, RingTypes
<1>2. ~disturbed
  BY DEF Next, Main, RunConnection, RunPop, Submit, Arm, StartXfer, FlushEmpty, ReadEvent, ReadValue,
         ClearAndPrint, HandleSetup, SetControlLineState, DataIn, Wait, Bus, Reset, Suspend, Resume,
         Recover, Address, ConfigureUp, ConfigureDown, vars
<1> DEFINE Quiet ==
      /\ ~gap
      /\ ~lowPower
      /\ Waiting => hcomp /\ txBusy["CDC"]
      /\ pc \in {"submit", "arm"} => hcomp /\ ~txBusy["CDC"]
      /\ pc = "start" => hcomp /\ txBusy["CDC"] /\ ~Waiting
      /\ lastRead = IF Waiting THEN Handed - Len(pkt) ELSE Handed
<1>3. Quiet
  BY <1>2 DEF IInv, Contiguous
<1>4. Used \in Nat /\ Top \in Int /\ Len(scratch) \in Nat /\ Len(pkt) \in Nat
  BY <1>1, UsedRange DEF RingTypes, Top
<1> HIDE DEF IInv, RingTypes
<1>5. SUFFICES Quiet'
  BY DEF Contiguous
<1>6. CASE /\ UNCHANGED <<gap, lowPower, hcomp, lastRead, pkt>> /\ txBusy'["CDC"] = txBusy["CDC"]
           /\ Waiting' = Waiting
           /\ Handed' = Handed
           /\ pc' = pc \/ pc' \notin {"submit", "arm", "start"}
  BY <1>3, <1>6
<1>7. CASE UNCHANGED <<usbVars, pkt, readVars, ringVars, scratch>> /\ (pc' = pc \/ (~Sending /\ ~Sending'))
  BY <1>6, <1>7 DEF usbVars, readVars, ringVars, Waiting, Handed, Sending, Top, Used
<1>8. CASE RunConnection \/ ClearAndPrint
  <2>1. Top' = Top
    BY <1>1, <1>8, WriteRing DEF RunConnection, ClearAndPrint, ringVars, Top, Used
  <2>2. ~Sending /\ ~Sending' /\ UNCHANGED <<usbVars, pkt, lastRead, gap>>
    BY <1>8 DEF RunConnection, ClearAndPrint, FlushDone, Sending, hostVars, readVars
  <2> QED
    BY <1>6, <2>1, <2>2 DEF Waiting, Handed, Sending, usbVars
<1>9. CASE RunPop
  <2>1. CASE SendDue
    <3> DEFINE n == Smaller(Used, PacketLen)
    <3>1. n \in 1..Used
      BY <1>1, <1>4, <2>1 DEF Smaller, SendDue
    <3>2. Pop(n) /\ pc = "idle" /\ pc' = "submit" /\ UNCHANGED <<usbVars, pkt, readVars>>
      BY <1>9, <2>1 DEF RunPop, hostVars
    <3>3. hcomp /\ ~txBusy["CDC"]
      BY <2>1 DEF SendDue, IsTxIdle
    <3> HIDE DEF n
    <3>4. Top' = Top + n /\ Len(scratch') = n
      BY <1>1, <3>1, <3>2, PopRing
    <3>5. Handed' = Top /\ Handed = Top
      BY <1>4, <3>1, <3>2, <3>4 DEF Handed, Sending
    <3>6. ~Waiting /\ ~Waiting'
      BY <1>3, <3>2, <3>3 DEF Waiting, usbVars
    <3> QED
      BY <1>3, <3>2, <3>3, <3>5, <3>6 DEF usbVars, readVars
  <2> QED
    BY <1>7, <1>9, <2>1 DEF RunPop, Sending, hostVars
<1>10. CASE Submit
  <2>1. hcomp /\ ~txBusy["CDC"] /\ ~lowPower
    BY <1>3, <1>10 DEF Submit
  <2>2. TxAccepts("CDC")
    BY <1>1, <2>1 DEF CoreInv, SleepInv, HandleIffConfigured, TxAccepts
  <2>3. pc = "submit" /\ pc' = "arm" /\ UNCHANGED <<usbVars, ringVars, scratch, pkt, readVars>>
    BY <1>10, <2>2 DEF Submit, hostVars
  <2>4. Handed' = Handed /\ Waiting' = Waiting
    BY <2>3 DEF Handed, Sending, Top, Used, ringVars, Waiting, usbVars
  <2> QED
    BY <1>3, <2>1, <2>3, <2>4 DEF usbVars, readVars
<1>11. CASE Arm
  <2>1. /\ pc = "arm" /\ pc' = "start" /\ txBusy'["CDC"]
        /\ UNCHANGED <<coreVars, epStat, ringVars, scratch, pkt, readVars>>
    BY <1>1, <1>11 DEF Arm, hostVars, EPS
  <2>2. hcomp /\ ~Waiting
    BY <1>3, <2>1
  <2>3. Handed' = Handed /\ Waiting' = Waiting
    BY <2>1 DEF Handed, Sending, Top, Used, ringVars, Waiting
  <2> QED
    BY <1>3, <2>1, <2>2, <2>3 DEF coreVars, readVars
<1>12. CASE StartXfer
  <2>1. /\ pc = "start" /\ pc' = "event" /\ pkt' = scratch /\ epStat'["CDC"] = "VALID"
        /\ UNCHANGED <<coreVars, txBusy, ringVars, readVars>>
    BY <1>1, <1>12 DEF StartXfer, hostVars, EPS
  <2>2. hcomp /\ txBusy["CDC"] /\ ~Waiting /\ lastRead = Handed
    BY <1>3, <2>1
  <2>3. Handed' = Top /\ Handed = Top - Len(scratch) /\ Waiting'
    BY <2>1 DEF Handed, Sending, Top, Used, ringVars, Waiting
  <2>4. lastRead' = Handed' - Len(pkt')
    BY <1>4, <2>1, <2>2, <2>3 DEF readVars
  <2> QED
    BY <1>3, <2>1, <2>2, <2>3, <2>4 DEF coreVars, readVars
<1>13. CASE DataIn
  <2>1. /\ Waiting /\ lastRead' = pkt[Len(pkt)] /\ epStat'["CDC"] = "NAK" /\ txBusy'["CDC"] = FALSE
        /\ gap' = (gap \/ lastRead + Len(pkt) # pkt[Len(pkt)])
        /\ UNCHANGED <<coreVars, mainVars>>
    BY <1>1, <1>13 DEF DataIn, InTokenServed, Waiting, EPS
  <2>2. PICK hi \in lastRead..Handed : pkt # <<>> /\ IsRun(pkt, hi) /\ lastRead + Len(pkt) <= hi
    BY <1>1, <2>1 DEF StreamInv
  <2>3. Handed \in Int /\ lastRead + Len(pkt) = Handed
    BY <1>3, <1>4, <2>1 DEF Handed
  <2>4. pkt[Len(pkt)] = hi /\ hi = Handed
    BY <1>1, <1>4, <2>2, <2>3 DEF IsRun
  <2>5. ~gap' /\ lastRead' = Handed' /\ ~Waiting'
    <3>1. Handed' = Handed /\ ~Waiting'
      BY <2>1 DEF mainVars, ringVars, Top, Used, Handed, Sending, Waiting
    <3>2. ~gap'
      BY <1>3, <2>1, <2>3, <2>4
    <3> QED
      BY <2>1, <2>4, <3>1, <3>2
  <2>6. pc # "start"
    BY <1>3, <2>1
  <2> QED
    BY <1>3, <2>1, <2>5, <2>6 DEF coreVars, mainVars
<1>14. CASE FlushEmpty \/ ReadEvent \/ ReadValue
  BY <1>7, <1>14 DEF FlushEmpty, ReadEvent, ReadValue, FlushDone, Sending, hostVars
<1>15. CASE HandleSetup \/ SetControlLineState \/ Wait \/ UNCHANGED vars
  <2>1. UNCHANGED <<usbVars, pkt, readVars, mainVars>>
    <3>1. CASE SetControlLineState
      BY <3>1 DEF SetControlLineState
    <3>2. CASE HandleSetup \/ Wait
      BY <3>2 DEF HandleSetup, Wait, hostVars
    <3>3. CASE UNCHANGED vars
      BY <3>3 DEF vars, hostVars
    <3> QED
      BY <1>15, <3>1, <3>2, <3>3
  <2> QED
    BY <1>7, <2>1 DEF mainVars
<1>16. CASE Recover \/ Address
  <2>1. /\ UNCHANGED <<hcomp, lowPower, txBusy, epStat>> /\ UNCHANGED <<mainVars, pkt, hostVars>>
    BY <1>16 DEF Recover, BusRecovered, Address, SetAddress
  <2> QED
    BY <1>6, <2>1 DEF mainVars, hostVars, readVars, ringVars, Waiting, Handed, Sending, Top, Used
<1>17. CASE ConfigureUp
  <2>1. /\ ~hcomp /\ hcomp' /\ ~lowPower' /\ ~Waiting'
        /\ UNCHANGED <<mainVars, pkt, readVars>>
    BY <1>1, <1>17 DEF ConfigureUp, SetConfigUp, Composite_Init, HostTraffic, CoreInv,
                       HandleIffConfigured, Waiting, EPS
  <2>2. ~Waiting /\ pc \notin {"submit", "arm", "start"}
    BY <1>3, <2>1
  <2>3. Handed' = Handed
    BY <2>1 DEF mainVars, ringVars, Handed, Sending, Top, Used
  <2> QED
    BY <1>3, <2>1, <2>2, <2>3 DEF mainVars, readVars
<1>18. CASE Resume
  <2>1. lowPower
    BY <1>18 DEF Resume, LL_Resume
  <2> QED
    BY <1>3, <2>1
<1>19. CASE Reset \/ Suspend \/ ConfigureDown
  BY <1>19 DEF Reset, Suspend, ConfigureDown
<1> QED
  BY <1>8, <1>9, <1>10, <1>11, <1>12, <1>13, <1>14, <1>15, <1>16, <1>17, <1>18, <1>19
     DEF Next, Main, Bus
-----------------------------------------------------------------------------
(* The theorems.                                                           *)

LEMMA IInvStays == IInv /\ [Next]_vars => IInv'
  BY TypeStays, CoreStays, RingStep, StreamStays, ContiguousStays, EventsStay, GreetStay DEF IInv

LEMMA AlwaysIInv == Spec => []IInv
<1>1. Init => IInv
  BY InitIInv
<1>2. IInv /\ [Next]_vars => IInv'
  BY IInvStays
<1> QED
  BY <1>1, <1>2, PTL DEF Spec

(* Every variable keeps its type: the indices of the ring stay inside it,  *)
(* whatever is written, and a packet inside its endpoint.                  *)
THEOREM TypeCorrect == Spec => []TypeOK
<1>1. IInv => TypeOK
  BY DEF IInv
<1> QED
  BY <1>1, AlwaysIInv, PTL

(* Until the bus is reset, suspended or unconfigured the host reads what   *)
(* CdcLog_Write accepted, without a gap.                                   *)
THEOREM Contiguity == Spec => []StreamContiguous
<1>1. IInv => StreamContiguous
  BY DEF IInv, Contiguous, StreamContiguous
<1> QED
  BY <1>1, AlwaysIInv, PTL

(* No byte reaches the host twice or after a later one, although the bus   *)
(* events lose packets and re-open the endpoint.                           *)
THEOREM NothingRepeated == Spec => NeverRepeated
<1>1. IInv /\ [Next]_vars
        => [DataIn => lastRead < pkt[1] /\ \A i \in 2..Len(pkt) : pkt[i - 1] < pkt[i]]_vars
  <2> SUFFICES ASSUME IInv, DataIn
               PROVE  lastRead < pkt[1] /\ \A i \in 2..Len(pkt) : pkt[i - 1] < pkt[i]
    OBVIOUS
  <2>1. Waiting /\ StreamInv /\ RingTypes /\ lastRead \in Nat /\ pkt \in Seq(Nat)
    BY DEF DataIn, InTokenServed, Waiting, IInv, TypeOK, RingTypes
  <2>2. PICK hi \in lastRead..Handed : pkt # <<>> /\ IsRun(pkt, hi) /\ lastRead + Len(pkt) <= hi
    BY <2>1 DEF StreamInv
  <2>3. Len(pkt) \in Nat \ {0} /\ lastRead \in Nat /\ hi \in Int
    BY <2>1, <2>2
  <2>4. \A i \in 1..Len(pkt) : pkt[i] = hi - Len(pkt) + i
    BY <2>2 DEF IsRun
  <2>5. pkt[1] = hi - Len(pkt) + 1
    BY <2>3, <2>4
  <2>6. lastRead < pkt[1]
    BY <2>2, <2>3, <2>5
  <2>7. ASSUME NEW i \in 2..Len(pkt) PROVE pkt[i - 1] < pkt[i]
    <3>1. i - 1 \in 1..Len(pkt) /\ i \in 1..Len(pkt) /\ i \in Int
      BY <2>3
    <3>2. pkt[i - 1] = hi - Len(pkt) + (i - 1) /\ pkt[i] = hi - Len(pkt) + i
      BY <2>4, <3>1
    <3> QED
      BY <2>3, <3>1, <3>2
  <2> QED
    BY <2>6, <2>7
<1> QED
  BY <1>1, AlwaysIInv, PTL DEF Spec, NeverRepeated

(* The lines of a slot come in the order of its events, none twice.        *)
THEOREM OrderKept == Spec => EventsInOrder
<1>1. IInv /\ [Next]_vars => [ClearAndPrint => logged[slot] < evt.n]_vars
  BY DEF IInv, TypeOK, EventsInv, EventsOf, ClearAndPrint
<1> QED
  BY <1>1, AlwaysIInv, PTL DEF Spec, EventsInOrder

(* A line never prints a value older than its event.                       *)
THEOREM ValueFresh == Spec => []ValueNotStale
<1>1. IInv => ValueNotStale
  BY DEF IInv, TypeOK, EventsInv, EventsOf, ValueNotStale
<1> QED
  BY <1>1, AlwaysIInv, PTL

(* An opening of the port is greeted once at the most.                     *)
THEOREM GreetedOnce == Spec => []GreetedOncePerOpening
<1>1. IInv => GreetedOncePerOpening
  BY DEF IInv, TypeOK, GreetInv, GreetedOncePerOpening
<1> QED
  BY <1>1, AlwaysIInv, PTL
(* On a bus that was never reset, suspended or unconfigured the log loses  *)
(* nothing that CdcLog_Write accepted: every cell has been read, waits on  *)
(* EP3, is in the main loop's hands or is still in the ring.               *)
NothingLost ==
  ~disturbed =>
    accepted = lastRead + (IF Waiting THEN Len(pkt) ELSE 0)
                        + (IF Sending THEN Len(scratch) ELSE 0) + Used
THEOREM AcceptedIsKept == Spec => []NothingLost
<1>1. ASSUME IInv, ~disturbed PROVE NothingLost
  <2>1. /\ lastRead \in Nat /\ accepted \in Nat /\ Used \in Nat
        /\ Len(scratch) \in Nat /\ Len(pkt) \in Nat
    BY <1>1, UsedRange DEF IInv, TypeOK
  <2>2. lastRead = IF Waiting THEN Handed - Len(pkt) ELSE Handed
    BY <1>1 DEF IInv, Contiguous
  <2>3. Handed = IF Sending THEN accepted - Used - Len(scratch) ELSE accepted - Used
    BY DEF Handed, Top
  <2> HIDE DEF Used, Waiting, Sending, Handed
  <2> QED
    BY <2>1, <2>2, <2>3 DEF NothingLost
<1>2. IInv => NothingLost
  BY <1>1 DEF NothingLost
<1> QED
  BY <1>2, AlwaysIInv, PTL

(* A raised cdcTxBusy has its completion coming.                           *)
FlagInv == hcomp /\ txBusy["CDC"] => Waiting \/ pc = "start"

LEMMA FlagInit == Init => FlagInv
  BY DEF Init, UsbInit, FlagInv

LEMMA FlagStep == IInv /\ FlagInv /\ [Next]_vars => FlagInv'
<1> SUFFICES ASSUME IInv, FlagInv, [Next]_vars PROVE FlagInv'
  OBVIOUS
<1>1. /\ epStat \in [EPS -> EpStats] /\ txBusy \in [EPS -> BOOLEAN] /\ "CDC" \in EPS
  BY DEF IInv, TypeOK, UsbTypeOK, EPS
<1> HIDE DEF IInv
<1>2. CASE Main
  <2>1. CASE Arm
    BY <1>1, <2>1 DEF Arm, FlagInv
  <2>2. CASE StartXfer
    BY <1>1, <2>2 DEF StartXfer, FlagInv, Waiting
  <2>3. CASE RunConnection \/ RunPop \/ Submit \/ FlushEmpty \/ ReadEvent \/ ReadValue \/ ClearAndPrint
    <3>1. UNCHANGED usbVars /\ pc # "start"
      BY <2>3 DEF RunConnection, RunPop, Submit, FlushEmpty, ReadEvent, ReadValue, ClearAndPrint
    <3> QED
      BY <3>1 DEF FlagInv, Waiting, usbVars
  <2> QED
    BY <1>2, <2>1, <2>2, <2>3 DEF Main
<1>3. CASE DataIn
  BY <1>1, <1>3 DEF DataIn, FlagInv
<1>4. CASE HandleSetup \/ SetControlLineState \/ Wait \/ UNCHANGED vars
  <2>1. UNCHANGED <<usbVars, pc>>
    BY <1>4 DEF HandleSetup, SetControlLineState, Wait, vars, mainVars
  <2> QED
    BY <2>1 DEF FlagInv, Waiting, usbVars
<1>5. CASE Bus
  <2>1. pc' = pc
    BY <1>5, OthersKeepMain DEF mainVars
  <2>2. \/ ~hcomp' \/ txBusy' = AllIdle
        \/ hcomp' = hcomp /\ txBusy' = txBusy /\ epStat' = epStat
    BY <1>5 DEF Bus, Reset, LL_Reset, Suspend, LL_Suspend, Resume, LL_Resume, Recover, BusRecovered,
                Address, SetAddress, ConfigureUp, SetConfigUp, Composite_Init, ConfigureDown,
                SetConfigDown, SetConfigRefused, Composite_DeInit
  <2> QED
    BY <1>1, <2>1, <2>2 DEF FlagInv, Waiting, AllIdle
<1> QED
  BY <1>2, <1>3, <1>4, <1>5 DEF Next

(* While the log holds bytes and the device is up, CdcLog_Run finds EP3    *)
(* idle, a packet waits whose completion will make it so, or the main loop *)
(* is about to start one: the safety behind LogDrains, on any bus.         *)
LogCanDrain == hcomp /\ Used # 0 => SendDue \/ Waiting \/ pc = "start"
THEOREM LogHasDriver == Spec => []LogCanDrain
<1>1. IInv /\ FlagInv => LogCanDrain
  BY DEF IInv, TypeOK, UsbTypeOK, FlagInv, LogCanDrain, SendDue, IsTxIdle, EPS
<1>2. Spec => []FlagInv
  BY FlagInit, FlagStep, AlwaysIInv, PTL DEF Spec
<1> QED
  BY <1>1, <1>2, AlwaysIInv, PTL
=============================================================================
