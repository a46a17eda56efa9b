-------------------------- MODULE KeyInput_proofs --------------------------
(***************************************************************************)
(* Proofs about the two sides of the key event queue, for every capacity,  *)
(* keypad and key table: KeyEventQueue, the ring buffer, implements the    *)
(* FIFO; KeyDetect, which fills it, holds at most one key and queues the   *)
(* release of a key before the next key-down.                              *)
(***************************************************************************)
EXTENDS KeyDetect, KeyEventQueue, FiniteSetTheorems, SequenceTheorems, TLAPS

(***************************************************************************)
(* The ring.  RingTypeOK, which ties head to tail and count, is inductive; *)
(* the refinement rests on three lemmas about the slots.                   *)
(***************************************************************************)

(* RingTypeOK without the result of the call, which takes no part in the rest. *)
RingShape ==
  /\ buffer \in [Slots -> Events]
  /\ head \in Slots /\ tail \in Slots /\ count \in 0..Size
  /\ head = IF tail + count < Size THEN tail + count ELSE tail + count - Size

Results == [ok : BOOLEAN, event : Events \cup {NoEvent}]

LEMMA RingTypeInit == RingInit => RingTypeOK
<1> SUFFICES ASSUME RingInit PROVE RingTypeOK
  OBVIOUS
<1>1. RingShape
  BY QueueAssumption DEF RingInit, RingShape, Slots
<1>2. ret \in Results
  BY DEF RingInit, Result, Results
<1> QED
  BY <1>1, <1>2 DEF RingTypeOK, RingShape, Results

(* What a call does to the ring, whatever it returns.                      *)
Pushes(e) ==
  /\ ~IsFull /\ buffer' = [buffer EXCEPT ![head] = e]
  /\ head' = After(head) /\ count' = count + 1 /\ tail' = tail
Takes == ~IsEmpty /\ buffer' = buffer /\ head' = head /\ tail' = After(tail) /\ count' = count - 1
Stays == UNCHANGED <<buffer, head, tail, count>>

LEMMA RingMoves == [RingNext]_ringVars => (\E e \in Events : Pushes(e)) \/ Takes \/ Stays
  BY Zenon DEF RingNext, Push, Pop, Peek, Refused, Pushes, Takes, Stays, ringVars

LEMMA RingStep == RingShape /\ [RingNext]_ringVars => RingShape'
<1> SUFFICES ASSUME RingShape, (\E e \in Events : Pushes(e)) \/ Takes \/ Stays PROVE RingShape'
  BY RingMoves
<1>0. Size \in Nat /\ Size > 0
  BY QueueAssumption
<1> USE <1>0 DEF RingShape, Slots, IsFull, IsEmpty, After
<1>1. ASSUME NEW e \in Events, Pushes(e) PROVE RingShape'
  BY <1>1 DEF Pushes
<1>2. CASE Takes
  BY <1>2 DEF Takes
<1>3. CASE Stays
  BY <1>3 DEF Stays
<1> QED
  BY <1>1, <1>2, <1>3

LEMMA ResultStep == RingTypeOK /\ [RingNext]_ringVars => ret' \in Results
<1> SUFFICES ASSUME RingTypeOK, [RingNext]_ringVars PROVE ret' \in Results
  OBVIOUS
<1>1. \A ok \in BOOLEAN, e \in Events \cup {NoEvent} : Result(ok, e) \in Results
  BY DEF Result, Results
<1>2. buffer[tail] \in Events \cup {NoEvent}
  BY DEF RingTypeOK
<1>3. \/ ret' \in {Result(TRUE, buffer[tail]), Result(TRUE, NoEvent)}
      \/ ret' = Result(FALSE, NoEvent)
      \/ ret' = ret
  BY Zenon DEF RingNext, Push, Pop, Peek, Refused, ringVars
<1>4. ret \in Results
  BY Zenon DEF RingTypeOK, Results
<1> QED
  BY <1>1, <1>2, <1>3, <1>4, Zenon

LEMMA RingTypeStep == RingTypeOK /\ [RingNext]_ringVars => RingTypeOK'
  BY Zenon, RingStep, ResultStep DEF RingTypeOK, RingShape, Results

(* The slots in use are slots of the buffer, head is the one after them,   *)
(* and taking the oldest event moves every other one up by one.            *)
LEMMA SlotsInUse ==
  ASSUME RingTypeOK
  PROVE  /\ \A i \in 1..count : SlotOf(i) \in Slots
         /\ count < Size => SlotOf(count + 1) = head
         /\ count < Size => \A i \in 1..count : SlotOf(i) # head
         /\ count > 0 => SlotOf(1) = tail
  BY QueueAssumption DEF RingTypeOK, Slots, SlotOf

LEMMA ContentsType ==
  ASSUME RingTypeOK
  PROVE  Contents \in Seq(Events) /\ Len(Contents) = count
<1>1. count \in Nat /\ \A i \in 1..count : buffer[SlotOf(i)] \in Events
  <2>1. buffer \in [Slots -> Events] /\ count \in 0..Size
    BY Zenon DEF RingTypeOK
  <2> QED
    BY <2>1, SlotsInUse, QueueAssumption
<1> QED
  BY <1>1 DEF Contents

LEMMA PushAppends ==
  ASSUME RingTypeOK, NEW e \in Events, Push(e), count < Size
  PROVE  Contents' = Append(Contents, e)
<1> USE QueueAssumption
<1>1. /\ buffer' = [buffer EXCEPT ![head] = e] /\ count' = count + 1 /\ tail' = tail
  <2>1. count \in 0..Size
    BY Zenon DEF RingTypeOK
  <2>2. ~IsFull
    BY <2>1 DEF IsFull
  <2> QED
    BY <2>2, Zenon DEF Push
<1>2. head \in Slots /\ buffer \in [Slots -> Events] /\ count \in Nat /\ tail \in Nat
  BY DEF RingTypeOK, Slots
<1>3. \A i \in 1..(count + 1) : SlotOf(i)' = SlotOf(i)
  BY <1>1 DEF SlotOf
<1>4. \A i \in 1..count : buffer'[SlotOf(i)] = buffer[SlotOf(i)]
  BY <1>1, <1>2, SlotsInUse
<1>5. buffer'[SlotOf(count + 1)] = e
  BY <1>1, <1>2, SlotsInUse
<1>6. Contents' = [i \in 1..(count + 1) |-> buffer'[SlotOf(i)]]
  BY <1>1, <1>3 DEF Contents
<1>7. Append(Contents, e) = [i \in 1..(count + 1) |-> IF i = count + 1 THEN e ELSE buffer[SlotOf(i)]]
  BY <1>2, ContentsType DEF Contents
<1> QED
  BY <1>2, <1>4, <1>5, <1>6, <1>7

LEMMA TakeTails ==
  ASSUME RingTypeOK, count > 0, tail' = After(tail), count' = count - 1, buffer' = buffer
  PROVE  Contents' = Tail(Contents)
<1> USE QueueAssumption
<1>1. \A i \in 1..(count - 1) : SlotOf(i)' = SlotOf(i + 1)
  BY DEF RingTypeOK, Slots, SlotOf, After
<1>2. Contents' = [i \in 1..(count - 1) |-> buffer[SlotOf(i + 1)]]
  BY <1>1 DEF Contents
<1>3. Contents \in Seq(Events) /\ Len(Contents) = count /\ count \in Nat
  <2>1. count \in 0..Size
    BY Zenon DEF RingTypeOK
  <2> QED
    BY <2>1, ContentsType
<1>4. /\ Tail(Contents) \in Seq(Events) /\ Len(Tail(Contents)) = count - 1
      /\ \A i \in 1..(count - 1) : Tail(Contents)[i] = Contents[i + 1]
  BY <1>3, HeadTailProperties
<1>5. \A i \in 1..(count - 1) : Contents[i + 1] = buffer[SlotOf(i + 1)]
  BY <1>3 DEF Contents
<1>6. Contents' \in Seq(Events) /\ Len(Contents') = count - 1
  <2>1. \A i \in 1..(count - 1) : Contents[i + 1] \in Events
    BY <1>3
  <2> QED
    BY <1>2, <1>3, <1>5, <2>1
<1>7. \A i \in 1..(count - 1) : Contents'[i] = Tail(Contents)[i]
  BY <1>2, <1>4, <1>5
<1> QED
  BY <1>4, <1>6, <1>7, SeqEqual

LEMMA InitRefines == RingInit => Fifo!Init
<1> SUFFICES ASSUME RingInit PROVE Contents = <<>>
  BY DEF RingInit, Fifo!Init, Result, Fifo!Result
<1>1. count = 0
  BY DEF RingInit
<1> QED
  BY <1>1 DEF Contents

LEMMA StepRefines == RingTypeOK /\ [RingNext]_ringVars => [Fifo!Next]_(Fifo!vars)
<1> SUFFICES ASSUME RingTypeOK, [RingNext]_ringVars PROVE [Fifo!Next]_(Fifo!vars)
  OBVIOUS
<1> USE DEF Result, Fifo!Result
<1>1. Contents \in Seq(Events) /\ Len(Contents) = count /\ count \in 0..Size
  BY ContentsType DEF RingTypeOK
<1>2. count > 0 => Contents # <<>> /\ Head(Contents) = buffer[tail]
  <2> SUFFICES ASSUME count > 0 PROVE Contents # <<>> /\ Head(Contents) = buffer[tail]
    OBVIOUS
  <2>1. Contents[1] = buffer[SlotOf(1)] /\ SlotOf(1) = tail
    BY <1>1, SlotsInUse DEF Contents
  <2> QED
    BY <1>1, <2>1
<1>3. count = 0 => Contents = <<>>
  BY <1>1
<1>4. ASSUME NEW e \in Events, Push(e) PROVE Fifo!Next
  <2>1. CASE count < Size
    <3>1. Fifo!Push(e)
      BY <1>1, <1>4, <2>1, PushAppends, QueueAssumption DEF Push, IsFull, Fifo!Push
    <3> QED
      BY <3>1 DEF Fifo!Next
  <2>2. CASE ~(count < Size)
    <3>1. UNCHANGED Contents /\ ret' = Result(FALSE, NoEvent) /\ Len(Contents) = Size
      BY <1>1, <1>4, <2>2, QueueAssumption DEF Push, IsFull, Contents, SlotOf
    <3> QED
      BY <3>1 DEF Fifo!Push, Fifo!Next
  <2> QED
    BY <2>1, <2>2
<1>5. ASSUME Refused PROVE Fifo!Next
  <2>1. UNCHANGED Contents /\ count = 0 /\ ret' = Result(FALSE, NoEvent)
    BY <1>5 DEF Refused, IsEmpty, Contents, SlotOf
  <2> QED
    BY <1>3, <2>1 DEF Fifo!Refuse, Fifo!Next
<1>6. ASSUME Pop, ~Refused PROVE Fifo!Next
  <2>1. /\ count > 0 /\ tail' = After(tail) /\ count' = count - 1 /\ buffer' = buffer
        /\ ret' \in {Result(TRUE, buffer[tail]), Result(TRUE, NoEvent)}
    BY <1>1, <1>6 DEF Pop, IsEmpty
  <2> QED
    BY <1>2, <2>1, TakeTails DEF Fifo!Take, Fifo!Next
<1>7. ASSUME Peek, ~Refused PROVE Fifo!Next
  <2>1. count > 0 /\ UNCHANGED Contents /\ ret' = Result(TRUE, buffer[tail])
    BY <1>1, <1>7 DEF Peek, IsEmpty, Contents, SlotOf
  <2> QED
    BY <1>2, <2>1 DEF Fifo!Peek, Fifo!Next
<1>8. CASE UNCHANGED ringVars
  BY <1>8 DEF ringVars, Contents, SlotOf, Fifo!vars
<1> QED
  BY <1>4, <1>5, <1>6, <1>7, <1>8 DEF RingNext

LEMMA RingInvariance == RingSpec => []RingTypeOK
  BY RingTypeInit, RingTypeStep, PTL DEF RingSpec

(* The indices stay in range and agree with the count.                     *)
THEOREM RingTypeCorrect == RingSpec => []RingTypeOK
  BY RingInvariance

(* The ring buffer implements the bounded FIFO.                            *)
THEOREM RingIsFifo == RingSpec => ImplementsFifo
  BY InitRefines, StepRefines, RingInvariance, PTL DEF RingSpec, Fifo!Spec, ImplementsFifo

-----------------------------------------------------------------------------
(***************************************************************************)
(* Scan and detection.  The inductive invariant says that no sample kept   *)
(* for the debounce has two keys.  A key that is on in both samples is     *)
(* then the only key of both, so every other held key is off in both and   *)
(* is released by the same scan before the new key goes on.                *)
(***************************************************************************)

OneAtMost(S) == \A a, b \in S : a = b

SamplesOK ==
  /\ pressed \subseteq Keys
  /\ newest \subseteq Keys /\ OneAtMost(newest)
  /\ previous \subseteq Keys /\ OneAtMost(previous)
  /\ keyStatus \subseteq Keys /\ OneAtMost(keyStatus)

(* While the latch is open no key is tainted; while it is closed no key    *)
(* is held.                                                                *)
LatchOK ==
  /\ errorActive \in BOOLEAN
  /\ tainted \subseteq Keys
  /\ errorActive => keyStatus = {}
  /\ ~errorActive => tainted = {}

HeldInv == SamplesOK /\ LatchOK

(* What the masks of a scan without simultaneous keys come to.             *)
NewHeld(raw) ==
  LET offs == (Keys \ (raw \cup newest)) \cap keyStatus
      held == keyStatus \ offs
  IN held \cup ((raw \cap newest) \ held)

(* If a key goes on, nothing else stays held.                              *)
LEMMA OnIsAlone ==
  ASSUME SamplesOK, NEW raw \in SUBSET Keys, ~Several(raw),
         NEW b \in raw \cap newest
  PROVE  /\ raw = {b} /\ newest = {b}
         /\ keyStatus \ (Keys \ (raw \cup newest)) \subseteq {b}
<1>1. raw = {b}
  BY DEF Several
<1>2. newest = {b}
  BY DEF SamplesOK, OneAtMost
<1> QED
  BY <1>1, <1>2 DEF SamplesOK

LEMMA NewHeldIsOne ==
  ASSUME SamplesOK, NEW raw \in SUBSET Keys, ~Several(raw)
  PROVE  NewHeld(raw) \subseteq Keys /\ OneAtMost(NewHeld(raw))
<1>1. CASE raw \cap newest = {}
  <2>1. NewHeld(raw) \subseteq keyStatus
    BY <1>1 DEF NewHeld
  <2> QED
    BY <2>1 DEF SamplesOK, OneAtMost
<1>2. CASE raw \cap newest # {}
  <2>1. PICK b \in raw \cap newest : TRUE
    BY <1>2
  <2>2. raw = {b} /\ newest = {b} /\ keyStatus \ (Keys \ (raw \cup newest)) \subseteq {b}
    BY <2>1, OnIsAlone
  <2>3. NewHeld(raw) \subseteq {b}
    BY <2>2 DEF NewHeld
  <2> QED
    BY <2>1, <2>3 DEF OneAtMost
<1> QED
  BY <1>1, <1>2

LEMMA HeldInit == Init => HeldInv
BY DEF Init, HeldInv, SamplesOK, LatchOK, OneAtMost

LEMMA HeldStep == HeldInv /\ [Next]_vars => HeldInv'
<1> SUFFICES ASSUME HeldInv, [Next]_vars PROVE HeldInv'
  OBVIOUS
<1> USE DEF HeldInv
<1>1. CASE Scan
  <2>0. pressed' = pressed /\ pressed \in SUBSET Keys
    BY <1>1 DEF Scan, SamplesOK
  <2>t. tainted' = (tainted \cap pressed) \cup (IF Several(pressed) THEN pressed ELSE {})
    BY <1>1 DEF Scan
  <2>t1. tainted' \subseteq Keys
    BY <2>0, <2>t DEF LatchOK
  <2>1. CASE Latched(pressed)
    <3>1. CASE pressed = {}
      <4>1. ForgetKeys /\ errorActive' = FALSE
        BY <2>1, <3>1 DEF Latched
      <4>2. tainted' = {}
        BY <2>t, <3>1 DEF Several
      <4> QED
        BY <2>0, <4>1, <4>2 DEF ForgetKeys, SamplesOK, LatchOK, OneAtMost
    <3>2. CASE pressed # {}
      <4>1. errorActive /\ UNCHANGED <<newest, previous, keyStatus, errorActive>>
        BY <2>1, <3>2 DEF Latched
      <4> QED
        BY <2>0, <2>t1, <4>1 DEF SamplesOK, LatchOK, OneAtMost
    <3> QED
      BY <3>1, <3>2
  <2>2. CASE Rollover(pressed)
    <3>1. ForgetKeys /\ errorActive' = TRUE
      BY <2>2 DEF Rollover
    <3> QED
      BY <2>0, <2>t1, <3>1 DEF ForgetKeys, SamplesOK, LatchOK, OneAtMost
  <2>3. CASE Normal(pressed)
    <3>1. ~errorActive /\ ~Several(pressed) /\ errorActive' = errorActive
      BY <2>3 DEF Normal
    <3>2. newest' = pressed /\ previous' = newest
      BY <2>3 DEF Normal
    <3>3. keyStatus' = NewHeld(pressed)
      BY <2>3 DEF Normal, Detect, NewHeld
    <3>4. keyStatus' \subseteq Keys /\ OneAtMost(keyStatus')
      BY <2>0, <3>1, <3>3, NewHeldIsOne
    <3>5. tainted' = {}
      BY <2>t, <3>1 DEF LatchOK
    <3>6. SamplesOK'
      BY <2>0, <3>1, <3>2, <3>4 DEF SamplesOK, Several, OneAtMost
    <3> QED
      BY <3>1, <3>5, <3>6 DEF LatchOK
  <2> QED
    BY <1>1, <2>1, <2>2, <2>3 DEF Scan
<1>2. CASE Tick
  BY <1>2 DEF Tick, SamplesOK, LatchOK, OneAtMost
<1>3. CASE Consume
  BY <1>3 DEF Consume, SamplesOK, LatchOK, OneAtMost
<1>4. CASE User
  BY <1>4 DEF User, Press, Release, SamplesOK, LatchOK, OneAtMost
<1>5. CASE UNCHANGED vars
  BY <1>5 DEF vars, SamplesOK, LatchOK, OneAtMost
<1> QED
  BY <1>1, <1>2, <1>3, <1>4, <1>5 DEF Next

LEMMA HeldAlways == Spec => []HeldInv
BY HeldInit, HeldStep, PTL DEF Spec

(* The converter sees at most one held key (key_detect.c: two-sample       *)
(* debounce with a simultaneous-key test on the newest sample only).       *)
THEOREM OneKeyHeld == Spec => []AtMostOneHeld
<1>1. HeldInv => AtMostOneHeld
  BY DEF HeldInv, SamplesOK, OneAtMost, AtMostOneHeld
<1> QED
  BY <1>1, HeldAlways, PTL

(* A key of a simultaneous press stays silent until it has been let go     *)
(* (the strict latch of key_detect.c).                                     *)
THEOREM GhostsAreSilent == Spec => []TaintedKeysSilent
<1>1. HeldInv => TaintedKeysSilent
  BY DEF HeldInv, LatchOK, TaintedKeysSilent
<1> QED
  BY <1>1, HeldAlways, PTL
-----------------------------------------------------------------------------
(* What a scan decides.  A closed latch has forgotten the samples.         *)

QuietLatch == errorActive => newest = {}

LEMMA QuietStep == QuietLatch /\ [Next]_vars => QuietLatch'
  BY DEF QuietLatch, Next, Scan, Latched, Rollover, Normal, ForgetKeys, Tick, Consume, User, vars

LEMMA DecisionAlways == Spec => [](HeldInv /\ QuietLatch)
<1>1. Init => QuietLatch
  BY DEF Init, QuietLatch
<1> QED
  BY <1>1, QuietStep, HeldAlways, PTL DEF Spec

(* Two scans in a row decide, whatever the user and the queue do between   *)
(* them: the first that finds a key up leaves it out of the newest sample  *)
(* and the second releases it; the first that finds a key alone with the   *)
(* latch open takes it into the sample and the second detects it; and one  *)
(* scan follows the keypad with the latch.  It is the safety behind        *)
(* ReleaseSeen, PressSeen and LatchOpens.                                  *)
Decides ==
  \A k \in Keys :
    /\ k \notin pressed => k \notin newest' /\ (k \notin newest => k \notin keyStatus')
    /\ pressed = {k} /\ ~errorActive => k \in newest' /\ (k \in newest => k \in keyStatus')
LatchFollows == errorActive' <=> Several(pressed) \/ (errorActive /\ pressed # {})
TwoScansDecide == [][Scan => Decides /\ LatchFollows]_vars

(* Nothing else than two scans decides: a key goes on only when two scans  *)
(* in a row find it, and off only when two in a row miss it or one finds a *)
(* simultaneous press (the debounce of key_detect.c).                      *)
Debounced ==
  [][\A k \in Keys :
       /\ k \notin keyStatus /\ k \in keyStatus' => Scan /\ {k} = pressed /\ {k} = newest
       /\ k \in keyStatus /\ k \notin keyStatus' =>
            Scan /\ (Several(pressed) \/ k \notin pressed \cup newest)]_vars

(* A scan with the latch closed, a simultaneous press, or neither.         *)
LEMMA ScanSplits ==
  ASSUME HeldInv, QuietLatch, Scan
  PROVE  \/ /\ errorActive /\ newest = {} /\ keyStatus = {} /\ newest' = {} /\ keyStatus' = {}
            /\ errorActive' = (pressed # {})
         \/ /\ ~errorActive /\ Several(pressed) /\ errorActive' = TRUE
            /\ newest' = {} /\ keyStatus' = {}
         \/ /\ ~errorActive /\ ~Several(pressed) /\ errorActive' = errorActive
            /\ newest' = pressed /\ keyStatus' = NewHeld(pressed)
<1>1. CASE Latched(pressed)
  <2>1. CASE pressed = {}
    BY <1>1, <2>1 DEF Latched, ForgetKeys, HeldInv, LatchOK, QuietLatch
  <2>2. CASE pressed # {}
    BY <1>1, <2>2 DEF Latched, HeldInv, LatchOK, QuietLatch
  <2> QED
    BY <2>1, <2>2
<1>2. CASE Rollover(pressed)
  BY <1>2 DEF Rollover, ForgetKeys
<1>3. CASE Normal(pressed)
  BY <1>3 DEF Normal, Detect, NewHeld
<1> QED
  BY <1>1, <1>2, <1>3 DEF Scan

(* Two scans in a row decide about a key, one about the latch, whatever    *)
(* happens between them (KeyDetect_Run on sScanBuffer[0] and [1]).         *)
THEOREM TwoScans == Spec => TwoScansDecide
<1>1. ASSUME HeldInv, QuietLatch, Scan PROVE Decides /\ LatchFollows
  <2>1. pressed \subseteq Keys /\ keyStatus \subseteq Keys /\ errorActive \in BOOLEAN
    BY <1>1 DEF HeldInv, SamplesOK, LatchOK
  <2>2. CASE errorActive
    <3>1. newest' = {} /\ keyStatus' = {} /\ errorActive' = (pressed # {})
      BY <1>1, <2>2, ScanSplits
    <3> QED
      BY <2>2, <3>1 DEF Decides, LatchFollows, Several
  <2>3. CASE ~errorActive /\ Several(pressed)
    <3>1. newest' = {} /\ keyStatus' = {} /\ errorActive' = TRUE
      BY <1>1, <2>3, ScanSplits
    <3>2. ASSUME NEW k \in Keys PROVE pressed # {k}
      BY <2>3 DEF Several
    <3> QED
      BY <2>3, <3>1, <3>2 DEF Decides, LatchFollows
  <2>4. CASE ~errorActive /\ ~Several(pressed)
    <3>1. newest' = pressed /\ keyStatus' = NewHeld(pressed) /\ errorActive' = errorActive
      BY <1>1, <2>4, ScanSplits
    <3> QED
      BY <2>1, <2>4, <3>1 DEF Decides, LatchFollows, NewHeld
  <2> QED
    BY <2>2, <2>3, <2>4
<1>2. HeldInv /\ QuietLatch /\ [Next]_vars => [Scan => Decides /\ LatchFollows]_vars
  BY <1>1
<1> QED
  BY <1>2, DecisionAlways, PTL DEF Spec, TwoScansDecide

(* No key goes on or off without two samples that agree, but for the       *)
(* release of all keys on a simultaneous press.                            *)
THEOREM ScansDebounce == Spec => Debounced
<1> DEFINE Step(k) ==
      /\ k \notin keyStatus /\ k \in keyStatus' => Scan /\ {k} = pressed /\ {k} = newest
      /\ k \in keyStatus /\ k \notin keyStatus' =>
           Scan /\ (Several(pressed) \/ k \notin pressed \cup newest)
<1>1. ASSUME HeldInv, QuietLatch, Scan, NEW k \in Keys PROVE Step(k)
  <2>1. CASE errorActive \/ Several(pressed)
    BY <1>1, <2>1, ScanSplits
  <2>2. CASE ~errorActive /\ ~Several(pressed)
    <3>1. keyStatus' = NewHeld(pressed)
      BY <1>1, <2>2, ScanSplits
    <3>2. k \notin keyStatus /\ k \in keyStatus' => pressed = {k} /\ newest = {k}
      BY <1>1, <2>2, <3>1, OnIsAlone DEF HeldInv, SamplesOK, NewHeld
    <3>3. k \in keyStatus /\ k \notin keyStatus' => k \notin pressed \cup newest
      BY <3>1 DEF NewHeld
    <3> QED
      BY <1>1, <3>2, <3>3
  <2> QED
    BY <2>1, <2>2
<1>2. ASSUME NEW k \in Keys, Tick \/ Consume \/ User \/ UNCHANGED vars PROVE Step(k)
  BY <1>2 DEF Tick, Consume, User, vars
<1> HIDE DEF Step
<1>3. HeldInv /\ QuietLatch /\ [Next]_vars => [\A k \in Keys : Step(k)]_vars
  BY <1>1, <1>2 DEF Next
<1> QED
  BY <1>3, DecisionAlways, PTL DEF Spec, Debounced, Step
-----------------------------------------------------------------------------
(* The queue.  As at most one key is held, every loop over keyLoc pushes   *)
(* at most one event.                                                      *)

LEMMA EventsOfNone == ASSUME NEW type PROVE EventsOf(type, {}) = <<>>
<1>1. Cardinality({}) = 0
  BY FS_EmptySet
<1> QED
  BY <1>1 DEF EventsOf

LEMMA EventsOfOne ==
  ASSUME NEW type, NEW k \in Keys
  PROVE  EventsOf(type, {k}) = <<Event(type, k)>>
<1>1. Cardinality({k}) = 1
  BY FS_Singleton
<1>2. Lowest({k}, 1) = k
  <2>1. {j \in {k} : j < k} = {}
    BY KeyAssumption DEF Keys
  <2>2. Cardinality({j \in {k} : j < k}) = 1 - 1
    BY <2>1, FS_EmptySet
  <2>3. \E x \in {k} : Cardinality({j \in {k} : j < x}) = 1 - 1
    BY <2>2
  <2>4. Lowest({k}, 1) \in {k}
    BY <2>3 DEF Lowest
  <2> QED
    BY <2>4
<1>3. EventsOf(type, {k}) = [i \in 1..1 |-> Event(type, Lowest({k}, i))]
  BY <1>1 DEF EventsOf
<1> QED
  BY <1>2, <1>3

Typed(q) == q \in Seq(EventSet) /\ Len(q) <= QueueSize

LEMMA EventsOfTyped ==
  ASSUME NEW type \in {"ON", "REPEAT", "OFF"}, NEW S \in SUBSET Keys, OneAtMost(S)
  PROVE  EventsOf(type, S) \in Seq(EventSet)
<1>1. CASE S = {}
  <2>1. <<>> \in Seq(EventSet)
    OBVIOUS
  <2> QED
    BY <1>1, <2>1, EventsOfNone
<1>2. CASE S # {}
  <2>1. PICK k \in S : S = {k}
    BY <1>2 DEF OneAtMost
  <2>2. Event(type, k) \in EventSet
    BY DEF EventSet, Event
  <2>3. EventsOf(type, S) = <<Event(type, k)>>
    <3>1. k \in Keys
      OBVIOUS
    <3>2. EventsOf(type, {k}) = <<Event(type, k)>>
      BY <3>1, EventsOfOne
    <3> QED
      BY <2>1, <3>2
  <2> QED
    BY <2>2, <2>3
<1> QED
  BY <1>1, <1>2

LEMMA PushAllTyped ==
  ASSUME NEW q, Typed(q), NEW events \in Seq(EventSet)
  PROVE  Typed(PushAll(q, events))
<1>1. Free(q) \in Nat
  BY KeyAssumption DEF Typed, Free
<1>2. CASE Fits(q, events)
  <2>1. PushAll(q, events) = q \o events
    BY <1>2 DEF PushAll
  <2>2. Len(q \o events) = Len(q) + Len(events) /\ q \o events \in Seq(EventSet)
    BY DEF Typed
  <2> QED
    BY <1>2, <2>1, <2>2, KeyAssumption DEF Fits, Free, Typed
<1>3. CASE ~Fits(q, events)
  <2>1. PushAll(q, events) = q \o SubSeq(events, 1, Free(q))
    BY <1>3 DEF PushAll
  <2>2. Free(q) < Len(events)
    BY <1>1, <1>3 DEF Fits
  <2>3. /\ SubSeq(events, 1, Free(q)) \in Seq(EventSet)
        /\ Len(SubSeq(events, 1, Free(q))) = Free(q)
    BY <1>1, <2>2
  <2>4. /\ q \o SubSeq(events, 1, Free(q)) \in Seq(EventSet)
        /\ Len(q \o SubSeq(events, 1, Free(q))) = Len(q) + Free(q)
    BY <2>3 DEF Typed
  <2> QED
    BY <2>1, <2>4, KeyAssumption DEF Free, Typed
<1> QED
  BY <1>2, <1>3

CountersOK ==
  /\ requests \in 0..MaxRequests
  /\ repeatTick \in [Keys -> 0..RepeatTicks]
  /\ Typed(queue)
  /\ refused \in BOOLEAN

TypeInv == HeldInv /\ CountersOK

LEMMA ForgetTyped == ForgetKeys => repeatTick' \in [Keys -> 0..RepeatTicks]
BY KeyAssumption DEF ForgetKeys

LEMMA LatchedTyped ==
  ASSUME TypeInv, Latched(pressed)
  PROVE  repeatTick' \in [Keys -> 0..RepeatTicks] /\ Typed(queue') /\ refused' \in BOOLEAN
<1>1. repeatTick' \in [Keys -> 0..RepeatTicks]
  BY ForgetTyped DEF TypeInv, CountersOK, Latched
<1> QED
  BY <1>1 DEF TypeInv, CountersOK, Latched, Typed

LEMMA RolloverTyped ==
  ASSUME TypeInv, Rollover(pressed)
  PROVE  repeatTick' \in [Keys -> 0..RepeatTicks] /\ Typed(queue') /\ refused' \in BOOLEAN
<1> DEFINE events == <<Event("ERROR", NoKey)>> \o EventsOf("OFF", keyStatus)
<1>1. repeatTick' \in [Keys -> 0..RepeatTicks]
  BY ForgetTyped DEF Rollover
<1>2. EventsOf("OFF", keyStatus) \in Seq(EventSet)
  BY EventsOfTyped DEF TypeInv, HeldInv, SamplesOK
<1>3. Event("ERROR", NoKey) \in EventSet
  BY DEF EventSet
<1>4. events \in Seq(EventSet)
  BY <1>2, <1>3
<1>5. queue' = PushAll(queue, events)
  BY DEF Rollover
<1>6. Typed(queue')
  BY <1>4, <1>5, PushAllTyped DEF TypeInv, CountersOK
<1>7. refused' \in BOOLEAN
  BY DEF Rollover, TypeInv, CountersOK
<1> QED
  BY <1>1, <1>6, <1>7

LEMMA NormalTyped ==
  ASSUME TypeInv, Normal(pressed)
  PROVE  repeatTick' \in [Keys -> 0..RepeatTicks] /\ Typed(queue') /\ refused' \in BOOLEAN
<1> DEFINE off == Keys \ (pressed \cup newest)
           on == pressed \cap newest
           offs == off \cap keyStatus
           held == keyStatus \ offs
           onNow == on \ held
           ticking == held \cap on \cap RepeatKeys
           due == {k \in ticking : repeatTick[k] + 1 >= RepeatTicks}
           q1 == PushAll(queue, EventsOf("OFF", offs))
           sent == {k \in due : Cardinality({j \in due : j < k}) < Free(q1)}
           q2 == PushAll(q1, EventsOf("REPEAT", sent))
           ticks == [k \in Keys |->
                  IF k \in ticking
                  THEN IF k \in sent THEN 0 ELSE IF k \in due THEN RepeatTicks ELSE repeatTick[k] + 1
                  ELSE repeatTick[k]]
           idle == offs \cup onNow \cup ((held \cap on) \ RepeatKeys)
<1>1. Detect(off, on)
  BY DEF Normal
<1>2. repeatTick' = ResetTicks(ticks, idle)
  BY <1>1 DEF Detect
<1>3. queue' = PushAll(q2, EventsOf("ON", onNow))
  BY <1>1 DEF Detect
<1>4. refused' \in BOOLEAN
  BY <1>1 DEF Detect, TypeInv, CountersOK
<1>5. /\ offs \in SUBSET Keys /\ OneAtMost(offs)
      /\ sent \in SUBSET Keys /\ OneAtMost(sent)
  BY DEF TypeInv, HeldInv, SamplesOK, OneAtMost
<1>6. onNow \in SUBSET Keys /\ OneAtMost(onNow)
  BY DEF TypeInv, HeldInv, SamplesOK, OneAtMost
<1>7. Typed(q1)
  <2>1. EventsOf("OFF", offs) \in Seq(EventSet)
    BY <1>5, EventsOfTyped
  <2> QED
    BY <2>1, PushAllTyped DEF TypeInv, CountersOK
<1>8. Typed(q2)
  <2>1. EventsOf("REPEAT", sent) \in Seq(EventSet)
    BY <1>5, EventsOfTyped
  <2> QED
    BY <1>7, <2>1, PushAllTyped
<1>9. Typed(queue')
  <2>1. EventsOf("ON", onNow) \in Seq(EventSet)
    BY <1>6, EventsOfTyped
  <2> QED
    BY <1>3, <1>8, <2>1, PushAllTyped
<1>10. \A k \in Keys : ticks[k] \in 0..RepeatTicks
  <2> SUFFICES ASSUME NEW k \in Keys PROVE ticks[k] \in 0..RepeatTicks
    OBVIOUS
  <2>1. repeatTick[k] \in 0..RepeatTicks
    BY DEF TypeInv, CountersOK
  <2>2. k \in ticking /\ k \notin due => repeatTick[k] + 1 \in 0..RepeatTicks
    BY <2>1, KeyAssumption
  <2> HIDE DEF ticking, due, sent
  <2> QED
    BY <2>1, <2>2, KeyAssumption
<1>11. repeatTick' \in [Keys -> 0..RepeatTicks]
  <2> HIDE DEF ticks, idle
  <2> QED
    BY <1>2, <1>10, KeyAssumption DEF ResetTicks
<1> QED
  BY <1>4, <1>9, <1>11

LEMMA TypeInit == Init => TypeInv
<1> SUFFICES ASSUME Init PROVE CountersOK
  BY HeldInit DEF TypeInv
<1>1. requests \in 0..MaxRequests
  BY KeyAssumption DEF Init
<1>2. repeatTick \in [Keys -> 0..RepeatTicks]
  BY KeyAssumption DEF Init
<1>3. Typed(queue)
  <2>1. queue = <<>>
    BY DEF Init
  <2>2. queue \in Seq(EventSet) /\ Len(queue) = 0
    BY <2>1
  <2> QED
    BY <2>2, KeyAssumption DEF Typed
<1>4. refused \in BOOLEAN
  BY DEF Init
<1> QED
  BY <1>1, <1>2, <1>3, <1>4 DEF CountersOK

LEMMA TypeStep == TypeInv /\ [Next]_vars => TypeInv'
<1> SUFFICES ASSUME TypeInv, [Next]_vars PROVE CountersOK'
  BY HeldStep DEF TypeInv
<1>1. CASE Scan
  <2>1. repeatTick' \in [Keys -> 0..RepeatTicks] /\ Typed(queue') /\ refused' \in BOOLEAN
    BY <1>1, LatchedTyped, RolloverTyped, NormalTyped DEF Scan
  <2>2. requests' \in 0..MaxRequests
    <3>1. requests > 0 /\ requests' = requests - 1
      BY <1>1 DEF Scan
    <3>2. requests \in 0..MaxRequests
      BY DEF TypeInv, CountersOK
    <3> QED
      BY <3>1, <3>2, KeyAssumption
  <2> QED
    BY <2>1, <2>2 DEF CountersOK, Typed
<1>2. CASE Tick
  BY <1>2, KeyAssumption DEF Tick, TypeInv, CountersOK, Typed
<1>3. CASE Consume
  <2>1. queue \in Seq(EventSet) /\ queue # <<>> /\ queue' = Tail(queue) /\ Len(queue) <= QueueSize
    BY <1>3 DEF Consume, TypeInv, CountersOK, Typed
  <2>2. queue' \in Seq(EventSet) /\ Len(queue') = Len(queue) - 1
    BY <2>1
  <2>3. Typed(queue')
    BY <2>1, <2>2, KeyAssumption DEF Typed
  <2> QED
    BY <1>3, <2>3 DEF Consume, TypeInv, CountersOK, Typed
<1>4. CASE User
  BY <1>4 DEF User, TypeInv, CountersOK, Typed
<1>5. CASE UNCHANGED vars
  BY <1>5 DEF vars, TypeInv, CountersOK, Typed
<1> QED
  BY <1>1, <1>2, <1>3, <1>4, <1>5 DEF Next

(* Every state of key_detect.c, scan_scheduler.c and the queue has its     *)
(* type: the backlog and the repeat ticks stay inside their bounds.        *)
THEOREM TypeCorrect == Spec => []TypeOK
<1>1. TypeInv => TypeOK
  BY DEF TypeInv, HeldInv, SamplesOK, LatchOK, CountersOK, Typed, TypeOK
<1>2. Spec => []TypeInv
  BY TypeInit, TypeStep, PTL DEF Spec
<1> QED
  BY <1>1, <1>2, PTL
-----------------------------------------------------------------------------
(* The order of the queue.  An ON whose OFF is not queued yet belongs to a *)
(* key that is still held.                                                 *)

IsOn(q, i) == q[i].type = "ON"
OffIn(q, i, lo, hi) == \E n \in lo..hi : q[n] = Event("OFF", q[i].key)

Alternates(q) ==
  \A i, j \in 1..Len(q) : i < j /\ IsOn(q, i) /\ IsOn(q, j) => OffIn(q, i, i + 1, j - 1)
Owed(q, held) ==
  \A i \in 1..Len(q) : IsOn(q, i) => q[i].key \in held \/ OffIn(q, i, i + 1, Len(q))
Ordered(q, held) == Alternates(q) /\ Owed(q, held)

LEMMA AppendKeeps ==
  ASSUME NEW q \in Seq(EventSet), NEW held, Ordered(q, held), NEW e \in EventSet, e.type # "ON"
  PROVE  Append(q, e) \in Seq(EventSet) /\ Ordered(Append(q, e), held)
<1> DEFINE r == Append(q, e)
<1>1. /\ r \in Seq(EventSet) /\ Len(q) \in Nat /\ Len(r) = Len(q) + 1
      /\ \A i \in 1..Len(q) : r[i] = q[i]
      /\ r[Len(q) + 1] = e
  BY AppendProperties
<1> HIDE DEF r
<1>2. Alternates(r)
  BY <1>1 DEF Ordered, Alternates, IsOn, OffIn
<1>3. Owed(r, held)
  BY <1>1 DEF Ordered, Owed, IsOn, OffIn
<1> QED
  BY <1>1, <1>2, <1>3 DEF Ordered, r

LEMMA AppendOff ==
  ASSUME NEW q \in Seq(EventSet), NEW k \in Keys, Ordered(q, {k})
  PROVE  /\ Append(q, Event("OFF", k)) \in Seq(EventSet)
         /\ Ordered(Append(q, Event("OFF", k)), {})
<1> DEFINE e == Event("OFF", k)
           r == Append(q, e)
<1>0. e \in EventSet /\ e.type # "ON" /\ e.key = k
  BY DEF EventSet, Event
<1>1. /\ r \in Seq(EventSet) /\ Len(q) \in Nat /\ Len(r) = Len(q) + 1
      /\ \A i \in 1..Len(q) : r[i] = q[i]
      /\ r[Len(q) + 1] = e
  BY <1>0, AppendProperties
<1>2. Ordered(r, {k})
  BY <1>0, AppendKeeps
<1> HIDE DEF r
<1>3. Owed(r, {})
  <2> SUFFICES ASSUME NEW i \in 1..Len(r), IsOn(r, i)
               PROVE  OffIn(r, i, i + 1, Len(r))
    BY DEF Owed
  <2>1. i \in 1..Len(q)
    BY <1>0, <1>1 DEF IsOn
  <2>2. CASE r[i].key = k
    BY <1>1, <2>1, <2>2 DEF OffIn
  <2>3. CASE r[i].key # k
    BY <1>2, <2>3 DEF Ordered, Owed
  <2> QED
    BY <2>2, <2>3
<1> QED
  BY <1>1, <1>2, <1>3 DEF Ordered, r

LEMMA AppendOn ==
  ASSUME NEW q \in Seq(EventSet), NEW k \in Keys, Ordered(q, {})
  PROVE  /\ Append(q, Event("ON", k)) \in Seq(EventSet)
         /\ Ordered(Append(q, Event("ON", k)), {k})
<1> DEFINE e == Event("ON", k)
           r == Append(q, e)
<1>0. e \in EventSet /\ e.key = k
  BY DEF EventSet, Event
<1>1. /\ r \in Seq(EventSet) /\ Len(q) \in Nat /\ Len(r) = Len(q) + 1
      /\ \A i \in 1..Len(q) : r[i] = q[i]
      /\ r[Len(q) + 1] = e
  BY <1>0, AppendProperties
<1> HIDE DEF r, e
<1>2. Alternates(r)
  <2> SUFFICES ASSUME NEW i \in 1..Len(r), NEW j \in 1..Len(r), i < j, IsOn(r, i), IsOn(r, j)
               PROVE  OffIn(r, i, i + 1, j - 1)
    BY DEF Alternates
  <2>1. i \in 1..Len(q) /\ r[i] = q[i] /\ IsOn(q, i)
    BY <1>1 DEF IsOn
  <2>2. CASE j \in 1..Len(q)
    BY <1>1, <2>1, <2>2 DEF Ordered, Alternates, IsOn, OffIn
  <2>3. CASE j = Len(q) + 1
    BY <1>1, <2>1, <2>3 DEF Ordered, Owed, IsOn, OffIn
  <2> QED
    BY <1>1, <2>2, <2>3
<1>3. Owed(r, {k})
  <2> SUFFICES ASSUME NEW i \in 1..Len(r), IsOn(r, i)
               PROVE  r[i].key \in {k} \/ OffIn(r, i, i + 1, Len(r))
    BY DEF Owed
  <2>1. CASE i \in 1..Len(q)
    BY <1>1, <2>1 DEF Ordered, Owed, IsOn, OffIn
  <2>2. CASE i = Len(q) + 1
    BY <1>0, <1>1, <2>2
  <2> QED
    BY <1>1, <2>1, <2>2
<1> QED
  BY <1>1, <1>2, <1>3 DEF Ordered, r, e

LEMMA TailKeeps ==
  ASSUME NEW q \in Seq(EventSet), q # <<>>, NEW held, Ordered(q, held)
  PROVE  Ordered(Tail(q), held)
<1> DEFINE r == Tail(q)
<1>1. /\ Len(q) \in Nat /\ Len(q) > 0 /\ Len(r) = Len(q) - 1
      /\ \A i \in 1..Len(r) : r[i] = q[i + 1]
  BY HeadTailProperties
<1> HIDE DEF r
<1>2. \A i \in 1..Len(r) : i + 1 \in 1..Len(q)
  BY <1>1
<1>3. Alternates(r)
  <2> SUFFICES ASSUME NEW i \in 1..Len(r), NEW j \in 1..Len(r), i < j, IsOn(r, i), IsOn(r, j)
               PROVE  OffIn(r, i, i + 1, j - 1)
    BY DEF Alternates
  <2>1. IsOn(q, i + 1) /\ IsOn(q, j + 1) /\ i + 1 < j + 1
    BY <1>1 DEF IsOn
  <2>2. PICK n \in ((i + 1) + 1)..((j + 1) - 1) : q[n] = Event("OFF", q[i + 1].key)
    BY <1>2, <2>1 DEF Ordered, Alternates, OffIn
  <2>3. n - 1 \in (i + 1)..(j - 1) /\ n - 1 \in 1..Len(r) /\ (n - 1) + 1 = n
    BY <1>1, <2>2
  <2>4. r[n - 1] = q[n] /\ r[i] = q[i + 1]
    BY <1>1, <2>3
  <2> QED
    BY <2>2, <2>3, <2>4 DEF OffIn
<1>4. Owed(r, held)
  <2> SUFFICES ASSUME NEW i \in 1..Len(r), IsOn(r, i), r[i].key \notin held
               PROVE  OffIn(r, i, i + 1, Len(r))
    BY DEF Owed
  <2>1. IsOn(q, i + 1) /\ q[i + 1].key \notin held
    BY <1>1 DEF IsOn
  <2>2. PICK n \in ((i + 1) + 1)..Len(q) : q[n] = Event("OFF", q[i + 1].key)
    BY <1>2, <2>1 DEF Ordered, Owed, OffIn
  <2>3. n - 1 \in (i + 1)..Len(r) /\ n - 1 \in 1..Len(r) /\ (n - 1) + 1 = n
    BY <1>1, <2>2
  <2>4. r[n - 1] = q[n] /\ r[i] = q[i + 1]
    BY <1>1, <2>3
  <2> QED
    BY <2>2, <2>3, <2>4 DEF OffIn
<1> QED
  BY <1>3, <1>4 DEF Ordered, r
-----------------------------------------------------------------------------
(* What the loops over keyLoc do to an ordered queue that has room.        *)

LEMMA PushNone ==
  ASSUME NEW q \in Seq(EventSet), Len(q) <= QueueSize, NEW type
  PROVE  Fits(q, EventsOf(type, {})) /\ PushAll(q, EventsOf(type, {})) = q
<1>1. EventsOf(type, {}) = <<>>
  BY EventsOfNone
<1>2. Len(<<>>) = 0 /\ q \o <<>> = q
  OBVIOUS
<1> QED
  BY <1>1, <1>2, KeyAssumption DEF Fits, Free, PushAll

LEMMA PushOne ==
  ASSUME NEW q \in Seq(EventSet), NEW type, NEW k \in Keys, Event(type, k) \in EventSet,
         Fits(q, EventsOf(type, {k}))
  PROVE  PushAll(q, EventsOf(type, {k})) = Append(q, Event(type, k))
<1>1. PushAll(q, EventsOf(type, {k})) = q \o <<Event(type, k)>>
  BY EventsOfOne DEF PushAll
<1>2. q \o <<Event(type, k)>> = Append(q, Event(type, k))
  BY AppendIsConcat
<1> QED
  BY <1>1, <1>2

LEMMA PushOffs ==
  ASSUME NEW q \in Seq(EventSet), Len(q) <= QueueSize,
         NEW held \in SUBSET Keys, OneAtMost(held), Ordered(q, held),
         NEW offs \in SUBSET held, Fits(q, EventsOf("OFF", offs))
  PROVE  /\ PushAll(q, EventsOf("OFF", offs)) \in Seq(EventSet)
         /\ Ordered(PushAll(q, EventsOf("OFF", offs)), held \ offs)
<1>1. CASE offs = {}
  <2>1. held \ offs = held
    BY <1>1
  <2> QED
    BY <1>1, <2>1, PushNone
<1>2. CASE offs # {}
  <2>1. PICK k \in offs : held = {k} /\ offs = {k}
    BY <1>2 DEF OneAtMost
  <2>2. k \in Keys /\ Event("OFF", k) \in EventSet /\ held \ offs = {}
    BY <2>1 DEF EventSet, Event
  <2>3. PushAll(q, EventsOf("OFF", offs)) = Append(q, Event("OFF", k))
    BY <2>1, <2>2, PushOne
  <2> QED
    BY <2>1, <2>2, <2>3, AppendOff
<1> QED
  BY <1>1, <1>2

LEMMA PushRepeats ==
  ASSUME NEW q \in Seq(EventSet), Len(q) <= QueueSize,
         NEW held \in SUBSET Keys, OneAtMost(held), Ordered(q, held),
         NEW sent \in SUBSET held, Fits(q, EventsOf("REPEAT", sent))
  PROVE  /\ PushAll(q, EventsOf("REPEAT", sent)) \in Seq(EventSet)
         /\ Ordered(PushAll(q, EventsOf("REPEAT", sent)), held)
<1>1. CASE sent = {}
  BY <1>1, PushNone
<1>2. CASE sent # {}
  <2>1. PICK k \in sent : sent = {k}
    BY <1>2 DEF OneAtMost
  <2>2. k \in Keys /\ Event("REPEAT", k) \in EventSet /\ Event("REPEAT", k).type # "ON"
    BY DEF EventSet, Event
  <2>3. PushAll(q, EventsOf("REPEAT", sent)) = Append(q, Event("REPEAT", k))
    BY <2>1, <2>2, PushOne
  <2> QED
    BY <2>2, <2>3, AppendKeeps
<1> QED
  BY <1>1, <1>2

LEMMA PushOns ==
  ASSUME NEW q \in Seq(EventSet), Len(q) <= QueueSize,
         NEW held, Ordered(q, held), NEW ons \in SUBSET Keys, OneAtMost(held \cup ons),
         held \cap ons = {}, Fits(q, EventsOf("ON", ons))
  PROVE  Ordered(PushAll(q, EventsOf("ON", ons)), held \cup ons)
<1>1. CASE ons = {}
  <2>1. held \cup ons = held
    BY <1>1
  <2> QED
    BY <1>1, <2>1, PushNone
<1>2. CASE ons # {}
  <2>1. PICK k \in ons : held = {} /\ ons = {k}
    BY <1>2 DEF OneAtMost
  <2>2. k \in Keys /\ Event("ON", k) \in EventSet /\ held \cup ons = {k}
    BY <2>1 DEF EventSet, Event
  <2>3. PushAll(q, EventsOf("ON", ons)) = Append(q, Event("ON", k))
    BY <2>1, <2>2, PushOne
  <2> QED
    BY <2>1, <2>2, <2>3, AppendOn
<1> QED
  BY <1>1, <1>2

OrderInv == TypeInv /\ (~refused => Ordered(queue, keyStatus))

LEMMA RolloverOrdered ==
  ASSUME OrderInv, Rollover(pressed), ~refused'
  PROVE  Ordered(queue', keyStatus')
<1> DEFINE err == Event("ERROR", NoKey)
           offs == EventsOf("OFF", keyStatus)
<1>1. /\ ~refused /\ Fits(queue, <<err>> \o offs)
      /\ queue' = PushAll(queue, <<err>> \o offs) /\ keyStatus' = {}
  BY DEF Rollover, ForgetKeys
<1>2. /\ queue \in Seq(EventSet) /\ keyStatus \subseteq Keys /\ OneAtMost(keyStatus)
      /\ Ordered(queue, keyStatus)
  BY <1>1 DEF OrderInv, TypeInv, HeldInv, SamplesOK, CountersOK, Typed
<1>3. err \in EventSet /\ err.type # "ON"
  BY DEF EventSet, Event
<1>4. queue' = queue \o (<<err>> \o offs)
  BY <1>1 DEF PushAll
<1>5. /\ Append(queue, err) \in Seq(EventSet) /\ Ordered(Append(queue, err), keyStatus)
      /\ Append(queue, err) = queue \o <<err>>
  BY <1>2, <1>3, AppendKeeps, AppendIsConcat
<1> HIDE DEF err
<1>6. CASE keyStatus = {}
  <2>1. offs = <<>>
    BY <1>6, EventsOfNone
  <2>2. <<err>> \o <<>> = <<err>>
    BY <1>3
  <2>3. queue' = Append(queue, err)
    BY <1>4, <1>5, <2>1, <2>2
  <2> QED
    BY <1>1, <1>5, <1>6, <2>3
<1>7. CASE keyStatus # {}
  <2>1. PICK k \in Keys : keyStatus = {k}
    BY <1>2, <1>7 DEF OneAtMost
  <2>2. offs = <<Event("OFF", k)>> /\ Event("OFF", k) \in EventSet
    BY <2>1, EventsOfOne DEF EventSet, Event
  <2> HIDE DEF offs
  <2>3. queue' = (queue \o <<err>>) \o <<Event("OFF", k)>>
    <3>1. <<err>> \in Seq(EventSet) /\ <<Event("OFF", k)>> \in Seq(EventSet)
      BY <1>3, <2>2
    <3> QED
      BY <1>2, <1>4, <2>2, <3>1, ConcatAssociative
  <2>4. queue' = Append(Append(queue, err), Event("OFF", k))
    BY <1>5, <2>2, <2>3, AppendIsConcat
  <2> QED
    BY <1>1, <1>5, <2>1, <2>4, AppendOff
<1> QED
  BY <1>6, <1>7

LEMMA NormalOrdered ==
  ASSUME OrderInv, Normal(pressed), ~refused'
  PROVE  Ordered(queue', keyStatus')
<1> DEFINE off == Keys \ (pressed \cup newest)
           on == pressed \cap newest
           offs == off \cap keyStatus
           held == keyStatus \ offs
           onNow == on \ held
           ticking == held \cap on \cap RepeatKeys
           due == {k \in ticking : repeatTick[k] + 1 >= RepeatTicks}
           q1 == PushAll(queue, EventsOf("OFF", offs))
           sent == {k \in due : Cardinality({j \in due : j < k}) < Free(q1)}
           q2 == PushAll(q1, EventsOf("REPEAT", sent))
<1>1. Detect(off, on) /\ ~Several(pressed)
  BY DEF Normal
<1>2. keyStatus' = held \cup onNow /\ queue' = PushAll(q2, EventsOf("ON", onNow))
  BY <1>1 DEF Detect
<1>3. ~refused /\ Fits(queue, EventsOf("OFF", offs)) /\ sent = due /\ Fits(q2, EventsOf("ON", onNow))
  BY <1>1 DEF Detect
<1>4. /\ pressed \in SUBSET Keys /\ SamplesOK /\ Typed(queue) /\ Ordered(queue, keyStatus)
      /\ keyStatus \in SUBSET Keys /\ OneAtMost(keyStatus)
  BY <1>3 DEF OrderInv, TypeInv, HeldInv, SamplesOK, CountersOK
<1>5. offs \in SUBSET keyStatus /\ held \in SUBSET Keys /\ OneAtMost(held)
  BY <1>4 DEF OneAtMost
<1>6. onNow \in SUBSET Keys /\ held \cap onNow = {}
  BY <1>4
<1>7. OneAtMost(held \cup onNow)
  BY <1>1, <1>4, NewHeldIsOne DEF NewHeld
<1>8. sent \in SUBSET held /\ sent \in SUBSET Keys /\ OneAtMost(sent)
  BY <1>5 DEF OneAtMost
<1>9. q1 \in Seq(EventSet) /\ Ordered(q1, held) /\ Typed(q1)
  <2>1. q1 \in Seq(EventSet) /\ Ordered(q1, held)
    BY <1>3, <1>4, <1>5, PushOffs DEF Typed
  <2>2. offs \in SUBSET Keys /\ OneAtMost(offs)
    BY <1>4, <1>5 DEF OneAtMost
  <2>3. EventsOf("OFF", offs) \in Seq(EventSet)
    BY <2>2, EventsOfTyped
  <2> QED
    BY <1>4, <2>1, <2>3, PushAllTyped
<1>10. Fits(q1, EventsOf("REPEAT", sent))
  <2>1. CASE sent = {}
    BY <1>9, <2>1, PushNone DEF Typed
  <2>2. CASE sent # {}
    <3>1. PICK k \in sent : sent = {k}
      <4> HIDE DEF sent
      <4> QED
        BY <1>8, <2>2, Zenon DEF OneAtMost
    <3>2. k \in Keys /\ due = {k}
      BY <1>3, <1>8, <3>1
    <3>3. {j \in due : j < k} = {}
      BY <3>2, KeyAssumption DEF Keys
    <3>a. Cardinality({j \in due : j < k}) = 0
      BY <3>3, FS_EmptySet
    <3>b. k \in sent
      BY <3>1
    <3>4. 0 < Free(q1)
      <4> HIDE DEF q1, due
      <4> QED
        BY <3>a, <3>b
    <3>5. Len(EventsOf("REPEAT", sent)) = 1
      <4> HIDE DEF sent, due
      <4>1. EventsOf("REPEAT", {k}) = <<Event("REPEAT", k)>>
        BY <3>2, EventsOfOne
      <4> QED
        BY <3>1, <4>1
    <3> HIDE DEF sent, due, q1
    <3>6. Free(q1) \in Int
      BY <1>9, KeyAssumption DEF Free, Typed
    <3> QED
      <4>1. 1 <= Free(q1)
        BY <3>4, <3>6
      <4>2. Len(EventsOf("REPEAT", sent)) <= Free(q1)
        BY <3>5, <4>1, Zenon
      <4> QED
        BY <4>2, Zenon DEF Fits
  <2> QED
    BY <2>1, <2>2
<1>11. q2 \in Seq(EventSet) /\ Ordered(q2, held) /\ Typed(q2)
  <2> HIDE DEF sent, q1, held
  <2>1. q2 \in Seq(EventSet) /\ Ordered(q2, held)
    BY <1>5, <1>8, <1>9, <1>10, PushRepeats DEF Typed
  <2>2. EventsOf("REPEAT", sent) \in Seq(EventSet)
    BY <1>8, EventsOfTyped
  <2> QED
    BY <1>9, <2>1, <2>2, PushAllTyped
<1> HIDE DEF q2, held, onNow
<1> QED
  BY <1>2, <1>3, <1>6, <1>7, <1>11, PushOns DEF Typed

LEMMA OrderInit == Init => OrderInv
<1> SUFFICES ASSUME Init PROVE Ordered(queue, keyStatus)
  BY TypeInit DEF OrderInv
<1>1. queue = <<>> /\ Len(queue) = 0
  BY DEF Init
<1> QED
  BY <1>1 DEF Ordered, Alternates, Owed

LEMMA OrderStep == OrderInv /\ [Next]_vars => OrderInv'
<1> SUFFICES ASSUME OrderInv, [Next]_vars, ~refused' PROVE Ordered(queue', keyStatus')
  BY TypeStep DEF OrderInv
<1>1. CASE Scan
  <2>1. CASE Latched(pressed)
    <3>1. ~refused /\ queue' = queue
      BY <2>1 DEF Latched
    <3>2. keyStatus' = keyStatus
      <4>1. keyStatus = {}
        BY <2>1 DEF Latched, OrderInv, TypeInv, HeldInv, LatchOK
      <4> QED
        BY <2>1, <4>1 DEF Latched, ForgetKeys
    <3> QED
      BY <3>1, <3>2 DEF OrderInv
  <2> QED
    BY <1>1, <2>1, RolloverOrdered, NormalOrdered DEF Scan
<1>2. CASE Tick
  BY <1>2 DEF Tick, OrderInv
<1>3. CASE Consume
  <2>1. /\ queue \in Seq(EventSet) /\ queue # <<>> /\ queue' = Tail(queue)
        /\ keyStatus' = keyStatus /\ Ordered(queue, keyStatus)
    BY <1>3 DEF Consume, OrderInv, TypeInv, CountersOK, Typed
  <2> QED
    BY <2>1, TailKeeps
<1>4. CASE User
  BY <1>4 DEF User, OrderInv
<1>5. CASE UNCHANGED vars
  BY <1>5 DEF vars, OrderInv
<1> QED
  BY <1>1, <1>2, <1>3, <1>4, <1>5 DEF Next

(* Between two key-downs in the queue the first key's release is queued,   *)
(* across rollovers and glitches, unless the queue has overflowed          *)
(* (key_detect.c: key off first, then repeat, then key on).                *)
THEOREM OffsSeparateOns == Spec => []OffBetweenOns
<1>1. OrderInv => OffBetweenOns
  BY DEF OrderInv, Ordered, Alternates, IsOn, OffIn, OffBetweenOns, IsType
<1>2. Spec => []OrderInv
  BY OrderInit, OrderStep, PTL DEF Spec
<1> QED
  BY <1>1, <1>2, PTL
=============================================================================
