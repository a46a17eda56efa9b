----------------------------- MODULE MCControlPipe -----------------------------
(* ControlPipe with the real sizes; the product string, of 62 bytes, is one *)
(* character short of a full packet: 64 stands for the next product name.  *)
EXTENDS ControlPipe

Ask(op, d, v, n) == [op |-> op, dir |-> d, val |-> v, len |-> n]

mcNoRequest == Ask("UNKNOWN", "out", 0, 0)

(* Enough to bring the device up and down.                                 *)
mcBringUp ==
  {Ask("SET_ADDRESS", "out", 1, 0)} \cup {Ask("SET_CONFIGURATION", "out", c, 0) : c \in {0, 1}}

mcEnumeration == mcBringUp
  \cup {Ask("GET_DESCRIPTOR", "in", v, 255) : v \in {0, 64, 116}}
  \cup {Ask("GET_DESCRIPTOR", "in", 18, n) : n \in {0, 64}}
  \cup {Ask("SET_ADDRESS", "out", 0, 0), Ask("SET_CONFIGURATION", "out", 2, 0)}
  \cup {Ask("GET_CONFIGURATION", "in", 0, n) : n \in {1, 2}}

mcStandard == mcBringUp
  \cup {Ask("GET_STATUS", "in", 0, n) : n \in {1, 2}}
  \cup {Ask("SET_FEATURE", "out", f, 0) : f \in {1, 2, 3}}
  \cup {Ask("CLEAR_FEATURE", "out", f, 0) : f \in {1, 3}}
  \cup {Ask(op, "out", 0, 0) : op \in {"SET_HALT", "CLEAR_HALT"}}
  \cup {Ask("GET_EP_STATUS", "in", 0, 2), Ask("UNKNOWN", "in", 0, 2)}

mcClass == mcBringUp \cup
  {Ask("SET_LINE_CODING", "out", 1, 7), Ask("GET_LINE_CODING", "in", 0, 7),
   Ask("SET_IDLE", "out", 1, 0), Ask("GET_IDLE", "in", 0, 2),
   Ask("GET_REPORT_DESCRIPTOR", "in", 0, 109)}

mcVendor == mcBringUp
  \cup {Ask("GET_FIRMWARE_INFO", "in", 0, 17), Ask("GET_DESCRIPTOR", "in", 116, 255)}
  \cup {Ask("SET_REPEAT_ENABLE", "in", 0, 2)}
  \cup {Ask("SET_LED_MODE", "in", m, 2) : m \in {1, 4}}

mcMenus == {mcEnumeration, mcStandard, mcClass, mcVendor}
=============================================================================
