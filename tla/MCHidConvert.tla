---------------------------- MODULE MCHidConvert ----------------------------
(* TLC instance of HidConvert: the configurations choose the number and    *)
(* the kinds of events, and what happens on the bus.                       *)
EXTENDS HidConvert
=============================================================================
