---------------------------- MODULE MCKeyDetect ----------------------------
(* TLC instance of KeyDetect: two keys, one of them a macro key without    *)
(* repeat, a repeat every second scan and a short queue.                   *)
EXTENDS KeyDetect
=============================================================================
