---------------------------- MODULE MCVendorDump ----------------------------
(* TLC instance of VendorDump: the dump is three or four chunks instead of *)
(* 2304, enough for a first, a middle and a last chunk.                    *)
EXTENDS VendorDump
=============================================================================
