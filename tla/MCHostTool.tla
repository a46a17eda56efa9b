------------------------------ MODULE MCHostTool ------------------------------
(* HostTool with two threads and dumps of two packets.                      *)
EXTENDS HostTool
=============================================================================
