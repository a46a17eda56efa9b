--------------------------- MODULE ControlTransfer ---------------------------
(***************************************************************************)
(* What a control pipe promises its host: a request is answered by data,   *)
(* by a bare status stage or by a refusal, one of them and once.  Data     *)
(* come in packets of MPS in order, no more of them than asked for, and    *)
(* nothing but a short packet or the last byte asked for ends them; once   *)
(* data are promised the request is not refused any more.  The host may    *)
(* give up at any time (a new SETUP packet, a bus reset).                  *)
(* ControlPipe implements this module.                                     *)
(***************************************************************************)
EXTENDS Naturals

CONSTANTS
  MPS,        \* the largest packet
  Requests,   \* what the host may ask: records with dir and len
  NoRequest

VARIABLES
  stage,   \* of the transfer in progress, or how the last one ended
  req,     \* the request it is about
  size,    \* data stage: the length of the answer
  got      \* data stage: how much of it the host has

transferVars == <<stage, req, size, got>>

IsIn(r) == r.dir = "in" /\ r.len > 0

Lesser(m, n) == IF m < n THEN m ELSE n

(* The data stage is over, or there was none.                              *)
Goto(s) == stage' = s /\ size' = 0 /\ got' = 0

TransferInit ==
  /\ stage = "idle"
  /\ req = NoRequest
  /\ size = 0
  /\ got = 0

(* A SETUP packet; it ends whatever went on before.                        *)
Setup(r) == Goto("setup") /\ req' = r

AnswerData ==
  /\ stage = "setup"
  /\ IsIn(req)
  /\ stage' = "data"
  /\ size' \in 0..req.len
  /\ got' = 0
  /\ UNCHANGED req

(* A request without an IN data stage is accepted.                         *)
AnswerStatus ==
  /\ stage = "setup"
  /\ ~IsIn(req)
  /\ Goto("status")
  /\ UNCHANGED req

(* The next packet of the answer: a full one, a short one or, when the     *)
(* answer is a multiple of MPS shorter than what was asked for, none.      *)
Packet ==
  /\ stage = "data"
  /\ UNCHANGED req
  /\ LET n == Lesser(MPS, size - got) IN
     IF n < MPS \/ got + n = req.len
     THEN Goto("status")
     ELSE got' = got + n /\ UNCHANGED <<stage, size>>

Done == stage = "status" /\ Goto("done") /\ UNCHANGED req

(* STALL: instead of an answer, or in place of the status of a request     *)
(* that has no IN data.                                                    *)
Refuse ==
  /\ \/ stage = "setup"
     \/ stage = "status" /\ ~IsIn(req)
  /\ Goto("stalled")
  /\ UNCHANGED req

(* Bus reset, or a device that has lost track of the transfer.             *)
Abandon == Goto("idle") /\ req' = NoRequest

TransferNext ==
  \/ \E r \in Requests : Setup(r)
  \/ AnswerData \/ AnswerStatus \/ Packet \/ Done \/ Refuse \/ Abandon

TransferSpec == TransferInit /\ [][TransferNext]_transferVars
=============================================================================
