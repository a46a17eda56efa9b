-------------------------- MODULE MCKeyEventQueue --------------------------
(* TLC instance of KeyEventQueue: three slots instead of 32 are filled,    *)
(* emptied and wrapped around in every way.                                *)
EXTENDS KeyEventQueue
=============================================================================
