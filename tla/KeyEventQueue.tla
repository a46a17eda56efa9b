---------------------------- MODULE KeyEventQueue ----------------------------
(***************************************************************************)
(* The key event ring buffer (key_event_queue.c).  Only the main loop      *)
(* calls it, so a call is one step.  Its names are told apart from those   *)
(* of KeyDetect, the side that pushes, for a module that extends both.     *)
(***************************************************************************)
EXTENDS Naturals, Sequences

CONSTANTS
  Events, NoEvent,
  Size,       \* KEY_EVENT_QUEUE_SIZE; head, tail and count are uint8_t
  ZeroEvent   \* what zeroed static memory holds

ASSUME QueueAssumption ==
  /\ Size \in 1..255
  /\ ZeroEvent \in Events

VARIABLES
  buffer, head, tail, count,   \* sQueue
  ret                          \* what the last call returned and copied out

ringVars == <<buffer, head, tail, count, ret>>
Slots == 0..(Size - 1)

Result(ok, event) == [ok |-> ok, event |-> event]

(* The static queue, then KeyEventQueue_Init, which clears no slot.        *)
RingInit ==
  /\ buffer = [s \in Slots |-> ZeroEvent]
  /\ head = 0 /\ tail = 0 /\ count = 0
  /\ ret = Result(TRUE, NoEvent)

IsEmpty == count = 0
IsFull == count >= Size
(* Mutant: the wrap comes one slot late, as with "head > SIZE".            *)
After_Late(slot) == IF slot + 1 > Size THEN 0 ELSE slot + 1

(* The slot after a given one, around the end of the buffer.              *)
After(slot) == IF slot + 1 >= Size THEN 0 ELSE slot + 1
-----------------------------------------------------------------------------
(* Mutant: the oldest event makes room.                                    *)
Push_Overwrites(e) ==
  /\ buffer' = [buffer EXCEPT ![head] = e]
  /\ head' = After(head)
  /\ count' = IF IsFull THEN count ELSE count + 1
  /\ ret' = Result(TRUE, NoEvent)
  /\ UNCHANGED tail

Push(e) ==
  \/ /\ ~IsFull
     /\ buffer' = [buffer EXCEPT ![head] = e]
     /\ head' = After(head)
     /\ count' = count + 1
     /\ ret' = Result(TRUE, NoEvent)
     /\ UNCHANGED tail
  \/ /\ IsFull
     /\ ret' = Result(FALSE, NoEvent)
     /\ UNCHANGED <<buffer, head, tail, count>>

(* The calls that take from the queue fail on an empty one.                *)
Refused ==
  /\ IsEmpty
  /\ ret' = Result(FALSE, NoEvent)
  /\ UNCHANGED <<buffer, head, tail, count>>

(* Pop(&event) copies the event out, Pop(NULL) does not.                   *)
Pop ==
  \/ /\ ~IsEmpty
     /\ tail' = After(tail)
     /\ count' = count - 1
     /\ ret' \in {Result(TRUE, buffer[tail]), Result(TRUE, NoEvent)}
     /\ UNCHANGED <<buffer, head>>
  \/ Refused

Peek ==
  \/ /\ ~IsEmpty
     /\ ret' = Result(TRUE, buffer[tail])
     /\ UNCHANGED <<buffer, head, tail, count>>
  \/ Refused

RingNext == (\E e \in Events : Push(e)) \/ Pop \/ Peek

RingSpec == RingInit /\ [][RingNext]_ringVars
-----------------------------------------------------------------------------
(* The indices stay inside the buffer and head is count slots after tail:  *)
(* a full and an empty queue, both with head = tail, are told apart by     *)
(* count alone.                                                            *)
RingTypeOK ==
  /\ buffer \in [Slots -> Events]
  /\ head \in Slots /\ tail \in Slots /\ count \in 0..Size
  /\ ret \in [ok : BOOLEAN, event : Events \cup {NoEvent}]
  /\ head = IF tail + count < Size THEN tail + count ELSE tail + count - Size

(* The slot of the i-th oldest event, and the queue the ring stands for.   *)
SlotOf(i) == IF tail + i - 1 < Size THEN tail + i - 1 ELSE tail + i - 1 - Size
Contents == [i \in 1..count |-> buffer[SlotOf(i)]]

Fifo == INSTANCE KeyFifo WITH queue <- Contents

(* The ring implements the FIFO: across any number of wraps no event is    *)
(* lost, repeated or reordered, and only a full queue refuses.             *)
ImplementsFifo == Fifo!Spec
=============================================================================
