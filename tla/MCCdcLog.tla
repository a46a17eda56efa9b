------------------------------ MODULE MCCdcLog ------------------------------
(* TLC instance of CdcLog: a ring of three usable cells, a line of one and *)
(* packets of up to two, enough to overflow the ring, to wrap it and to    *)
(* leave a rest in it.                                                     *)
EXTENDS CdcLog
=============================================================================
