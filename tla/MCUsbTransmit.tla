--------------------------- MODULE MCUsbTransmit ---------------------------
(* TLC instance of UsbTransmit; the state space is finite as it stands.    *)
EXTENDS UsbTransmit
=============================================================================
