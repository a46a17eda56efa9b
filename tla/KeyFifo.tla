------------------------------- MODULE KeyFifo -------------------------------
(***************************************************************************)
(* What the key event queue promises to key_detect.c, which pushes, and to *)
(* hid_keyboard_convert.c, which peeks and pops: a first-in first-out      *)
(* sequence of at most Size events that refuses what does not fit.         *)
(***************************************************************************)
EXTENDS Naturals, Sequences

CONSTANTS
  Events,   \* the values of KeyEvent_t
  NoEvent,  \* what a call that copies no event out leaves there
  Size      \* KEY_EVENT_QUEUE_SIZE

VARIABLES
  queue,    \* the events pushed and not yet popped, oldest first
  ret       \* what the last call returned and copied out

vars == <<queue, ret>>

Result(ok, event) == [ok |-> ok, event |-> event]

Init == queue = <<>> /\ ret = Result(TRUE, NoEvent)

Push(e) ==
  \/ Len(queue) < Size /\ queue' = Append(queue, e) /\ ret' = Result(TRUE, NoEvent)
  \/ Len(queue) = Size /\ UNCHANGED queue /\ ret' = Result(FALSE, NoEvent)

(* Taking the oldest event, or just discarding it.                         *)
Take ==
  /\ queue # <<>>
  /\ queue' = Tail(queue)
  /\ ret' \in {Result(TRUE, Head(queue)), Result(TRUE, NoEvent)}

Peek == queue # <<>> /\ UNCHANGED queue /\ ret' = Result(TRUE, Head(queue))

Refuse == queue = <<>> /\ UNCHANGED queue /\ ret' = Result(FALSE, NoEvent)

Next == (\E e \in Events : Push(e)) \/ Take \/ Peek \/ Refuse

Spec == Init /\ [][Next]_vars
=============================================================================
