------------------------------ MODULE KeyDetect ------------------------------
(***************************************************************************)
(* From the switches to the key events: the TIM6 tick and its backlog      *)
(* (scan_scheduler.c), the matrix scan (keypad.c), debounce, repeat and    *)
(* the simultaneous-key latch (key_detect.c).  The event queue is the FIFO *)
(* of KeyFifo, which KeyEventQueue implements.                             *)
(*                                                                         *)
(* Only the main loop runs KeyDetect_Run; the timer interrupt touches      *)
(* nothing but the request counter, so a scan is one step.                 *)
(***************************************************************************)
EXTENDS Integers, Sequences, FiniteSets

CONSTANTS
  KeyNum,      \* KEYPAD_KEY_NUM
  RepeatKeys,  \* the keys of kind NORMAL with repeatEnable set (key_table.c)
  RepeatTicks, \* KEY_REPEAT_INTERVAL_TICKS
  QueueSize,   \* KEY_EVENT_QUEUE_SIZE
  MaxRequests  \* SCAN_REQUEST_MAX_COUNT

Keys == 0..(KeyNum - 1)
NoKey == -1    \* KEY_LOC_ERROR_ROLLOVER

ASSUME KeyAssumption ==
  /\ KeyNum \in Nat /\ RepeatKeys \subseteq Keys
  /\ RepeatTicks \in Nat \ {0} /\ QueueSize \in Nat /\ MaxRequests \in Nat

VARIABLES
  pressed,     \* the switches that are closed
  requests,    \* sScanRequestCount
  newest,      \* sScanBuffer[0]
  previous,    \* sScanBuffer[1]; nothing reads the two older samples
  keyStatus,   \* sKeyStatus, the set of held keys
  repeatTick,  \* sRepeatTick
  errorActive, \* sSimultaneousErrorActive
  queue,       \* the key event queue
  refused,     \* ghost: has a push ever found the queue full?
  tainted      \* ghost: keys of a simultaneous press, until a scan finds them up

vars == <<pressed, requests, newest, previous, keyStatus, repeatTick, errorActive, queue,
          refused, tainted>>

Event(type, key) == [type |-> type, key |-> key]
EventSet == [type : {"ON", "REPEAT", "OFF"}, key : Keys] \cup {Event("ERROR", NoKey)}

Init ==
  /\ pressed = {} /\ requests = 0
  /\ newest = {} /\ previous = {}
  /\ keyStatus = {} /\ repeatTick = [k \in Keys |-> 0] /\ errorActive = FALSE
  /\ queue = <<>>
  /\ refused = FALSE /\ tainted = {}
-----------------------------------------------------------------------------
(* The loops over keyLoc push one event per key of a mask, lowest first;   *)
(* a push that does not fit is refused and forgotten.                      *)
Lowest(keys, i) == CHOOSE k \in keys : Cardinality({j \in keys : j < k}) = i - 1
EventsOf(type, keys) == [i \in 1..Cardinality(keys) |-> Event(type, Lowest(keys, i))]

Free(q) == QueueSize - Len(q)
Fits(q, events) == Len(events) <= Free(q)
PushAll(q, events) == IF Fits(q, events) THEN q \o events ELSE q \o SubSeq(events, 1, Free(q))

ResetTicks(ticks, keys) == [k \in Keys |-> IF k \in keys THEN 0 ELSE ticks[k]]

(* Everything released, as KeyDetect_ResetScanBuffer and its companions do *)
(* on the way into the latch and out of it.                                *)
ForgetKeys ==
  /\ newest' = {} /\ previous' = {}
  /\ keyStatus' = {}
  /\ repeatTick' = [k \in Keys |-> 0]
-----------------------------------------------------------------------------
(* KeyDetect_Run for the sample "raw" that Keypad_ReadRaw took.           *)

(* Mutant: one key is already a simultaneous press (off by one).           *)
Several_One(raw) == raw # {}

(* KEY_ROLLOVER_MIN keys or more.                                          *)
Several(raw) == \E a, b \in raw : a # b

(* Mutants: the latch opens as soon as one key is left; it is not cleared. *)
Latched_OneLeft(raw) ==
  /\ errorActive
  /\ IF ~Several(raw) THEN ForgetKeys /\ errorActive' = FALSE
     ELSE UNCHANGED <<newest, previous, keyStatus, repeatTick, errorActive>>
  /\ UNCHANGED <<queue, refused>>
Latched_NeverOpens(raw) ==
  /\ errorActive
  /\ IF raw = {} THEN ForgetKeys ELSE UNCHANGED <<newest, previous, keyStatus, repeatTick>>
  /\ UNCHANGED <<queue, refused, errorActive>>

(* The latch is closed: ignore everything, open it when all keys are up.   *)
Latched(raw) ==
  /\ errorActive
  /\ IF raw = {} THEN ForgetKeys /\ errorActive' = FALSE
     ELSE UNCHANGED <<newest, previous, keyStatus, repeatTick, errorActive>>
  /\ UNCHANGED <<queue, refused>>

(* Two or more keys: report the rollover, release what is held, latch.     *)
Rollover(raw) ==
  LET events == <<Event("ERROR", NoKey)>> \o EventsOf("OFF", keyStatus)
  IN /\ ~errorActive
     /\ Several(raw)
     /\ queue' = PushAll(queue, events)
     /\ refused' = (refused \/ ~Fits(queue, events))
     /\ ForgetKeys
     /\ errorActive' = TRUE

(* CheckKeyOff, CheckRepeat and CheckKeyOn for the masks of the two newest *)
(* samples, in that order.  A repeat that finds the queue full keeps its   *)
(* tick count and is tried again at the next scan.                         *)
Detect(off, on) ==
  LET offs == off \cap keyStatus
      held == keyStatus \ offs
      onNow == on \ held
      ticking == held \cap on \cap RepeatKeys
      due == {k \in ticking : repeatTick[k] + 1 >= RepeatTicks}
      q1 == PushAll(queue, EventsOf("OFF", offs))
      sent == {k \in due : Cardinality({j \in due : j < k}) < Free(q1)}
      q2 == PushAll(q1, EventsOf("REPEAT", sent))
      ticks == [k \in Keys |->
                  IF k \in ticking
                  THEN IF k \in sent THEN 0 ELSE IF k \in due THEN RepeatTicks ELSE repeatTick[k] + 1
                  ELSE repeatTick[k]]
      idle == offs \cup onNow \cup ((held \cap on) \ RepeatKeys)
  IN /\ keyStatus' = held \cup onNow
     /\ repeatTick' = ResetTicks(ticks, idle)
     /\ queue' = PushAll(q2, EventsOf("ON", onNow))
     /\ refused' = \/ refused
                   \/ ~Fits(queue, EventsOf("OFF", offs))
                   \/ sent # due
                   \/ ~Fits(q2, EventsOf("ON", onNow))

(* Mutant: an OFF waits until every key is up.                             *)
Normal_OffWhenAllUp(raw) ==
  /\ ~errorActive /\ ~Several(raw)
  /\ newest' = raw /\ previous' = newest
  /\ Detect(IF raw \cup newest = {} THEN Keys ELSE {}, raw \cap newest)
  /\ UNCHANGED errorActive

Normal(raw) ==
  /\ ~errorActive /\ ~Several(raw)
  /\ newest' = raw /\ previous' = newest
  /\ Detect(Keys \ (raw \cup newest), raw \cap newest)
  /\ UNCHANGED errorActive

(* ScanScheduler_TakeRequest and KeyDetect_Run.                            *)
Scan ==
  /\ requests > 0
  /\ requests' = requests - 1
  /\ Latched(pressed) \/ Rollover(pressed) \/ Normal(pressed)
  /\ tainted' = (tainted \cap pressed) \cup (IF Several(pressed) THEN pressed ELSE {})
  /\ UNCHANGED pressed
-----------------------------------------------------------------------------
(* Mutant: the backlog of requests is not bounded.                         *)
Tick_NoCap ==
  /\ requests' = requests + 1
  /\ UNCHANGED <<pressed, newest, previous, keyStatus, repeatTick, errorActive, queue, refused, tainted>>

(* TIM6: ScanScheduler_OnTimerTick.                                        *)
Tick ==
  /\ requests' = IF requests < MaxRequests THEN requests + 1 ELSE requests
  /\ UNCHANGED <<pressed, newest, previous, keyStatus, repeatTick, errorActive, queue, refused, tainted>>

(* HidKeyboardConvert_Run takes the oldest event.                          *)
Consume ==
  /\ queue # <<>>
  /\ queue' = Tail(queue)
  /\ UNCHANGED <<pressed, requests, newest, previous, keyStatus, repeatTick, errorActive,
                 refused, tainted>>

(* The user, and the bounce of the contacts.                               *)
Press(k) == k \notin pressed /\ pressed' = pressed \cup {k}
Release(k) == k \in pressed /\ pressed' = pressed \ {k}
User ==
  /\ \E k \in Keys : Press(k) \/ Release(k)
  /\ UNCHANGED <<requests, newest, previous, keyStatus, repeatTick, errorActive, queue,
                 refused, tainted>>

Next == Scan \/ Tick \/ Consume \/ User

Spec == Init /\ [][Next]_vars

(* The timer runs and the main loop serves its requests.                   *)
FairSpec == Spec /\ WF_vars(Scan) /\ WF_vars(Tick)
-----------------------------------------------------------------------------
TypeOK ==
  /\ pressed \subseteq Keys
  /\ requests \in 0..MaxRequests
  /\ newest \subseteq Keys /\ previous \subseteq Keys
  /\ keyStatus \subseteq Keys
  /\ repeatTick \in [Keys -> 0..RepeatTicks]
  /\ errorActive \in BOOLEAN
  /\ queue \in Seq(EventSet) /\ Len(queue) <= QueueSize
  /\ refused \in BOOLEAN /\ tainted \subseteq Keys

(* At most one key is held, although the debounced samples of two scans    *)
(* decide it and only a single sample is tested for simultaneous keys:     *)
(* the converter, whose report has one key, relies on it.                  *)
AtMostOneHeld == \A a, b \in keyStatus : a = b

(* In the queue a key goes off before another one, or itself again, goes   *)
(* on, across rollovers and glitches, unless the queue has overflowed.     *)
IsType(i, type) == queue[i].type = type
OffBetweenOns ==
  ~refused =>
    \A i, j \in 1..Len(queue) :
      i < j /\ IsType(i, "ON") /\ IsType(j, "ON") =>
        \E n \in (i + 1)..(j - 1) : queue[n] = Event("OFF", queue[i].key)

(* A key that took part in a simultaneous press types nothing before it    *)
(* has been let go (the no-diode ghost-key policy of key_detect.c).        *)
TaintedKeysSilent == keyStatus \cap tainted = {}

(* A held key that the user lets go of is released, even if a scan glitch, *)
(* a rollover or a full queue comes in between.                            *)
ReleaseSeen ==
  \A k \in Keys : (k \in keyStatus /\ k \notin pressed) ~> (k \notin keyStatus \/ k \in pressed)

(* A key held down alone is detected, unless the latch is closed.          *)
PressSeen ==
  \A k \in Keys :
    (pressed = {k} /\ ~errorActive) ~> (k \in keyStatus \/ pressed # {k})

(* The latch opens once every key is up.                                   *)
LatchOpens == (errorActive /\ pressed = {}) ~> (~errorActive \/ pressed # {})
=============================================================================
