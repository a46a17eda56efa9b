------------------------------- MODULE HostTool -------------------------------
(***************************************************************************)
(* The debug tool on the host (tools/composite_debug_tool/gui.py over      *)
(* tools/vendor_usb.py): the main thread, which owns the buttons, one      *)
(* worker thread per Start Dump, and the queue between them.               *)
(*                                                                         *)
(* The threads share VendorUsb._dev without a lock: every access reads it  *)
(* anew, and Disconnect may have set it to None since the last one.  A     *)
(* None found where a device is wanted raises AttributeError, which no     *)
(* handler catches: the worker ends without a word.  The lock around       *)
(* ctrl_transfer makes that call one step.  The device is what the tool    *)
(* sees of it: a stream of Chunks packets and the one waiting on EP4.      *)
(***************************************************************************)
EXTENDS Naturals, Sequences

CONSTANTS
  Workers,     \* threads that can exist at once
  Chunks,      \* packets of a dump
  MaxResults   \* bound: results in the queue when Start Dump is clicked

ASSUME ToolAssumption == Chunks \in Nat \ {0} /\ MaxResults \in Nat

VARIABLES
  dev,       \* VendorUsb._dev: "none", "open", or "stale" after a replug
  btns,      \* the vendor buttons but Start Dump
  dumpBtn, saveBtn,
  results,   \* _result_queue, without the progress reports
  lastDump,  \* _last_dump_bytes, or None
  pc,        \* of each worker; "free": no such thread
  handle,    \* the device a read in progress was called on
  got,       \* the chunks a worker has received
  result,    \* what start_ram_dump returns
  left,      \* device: chunks not yet submitted; sDumpActive while there are any
  wait,      \* device: the chunk waiting on EP4, or Chunks if none
  clean      \* ghost: workers whose dump shared the endpoint with no other

guiVars == <<dev, btns, dumpBtn, saveBtn, results, lastDump>>
workerVars == <<pc, handle, got, result>>
deviceVars == <<left, wait>>
vars == <<guiVars, workerVars, deviceVars, clean>>

None == <<>>
NoChunk == Chunks
Whole == [i \in 1..Chunks |-> i - 1]

(* Threads that compete for what EP4 sends.                                *)
Reading == {w \in Workers : pc[w] \in {"claim", "read", "await"}}

-----------------------------------------------------------------------------
(* The worker: start_ram_dump, one step per access of self._dev.           *)

Goto(w, l) == pc' = [pc EXCEPT ![w] = l]
Ends(w) ==
  /\ Goto(w, "free")
  /\ handle' = [handle EXCEPT ![w] = "none"]
  /\ got' = [got EXCEPT ![w] = <<>>]
  /\ result' = [result EXCEPT ![w] = None]
  /\ clean' = clean \ {w}
Returns(w, l, r) ==
  /\ Goto(w, l)
  /\ result' = [result EXCEPT ![w] = r]
  /\ UNCHANGED <<handle, got>>
Continues(w, l) == Goto(w, l) /\ UNCHANGED <<handle, got, result>>

(* _ctrl: "if self._dev is None: return None"                              *)
CtrlTest(w) ==
  /\ pc[w] = "ctrl"
  /\ IF dev = "none" THEN Returns(w, "post", None) ELSE Continues(w, "transfer")
  /\ UNCHANGED <<guiVars, deviceVars, clean>>

(* START_RAM_DUMP, refused while a dump is active.  A packet of an earlier *)
(* dump, or another worker, spoils the stream.                             *)
CtrlTransfer(w) ==
  /\ pc[w] = "transfer"
  /\ \/ dev = "none" /\ Ends(w) /\ UNCHANGED deviceVars
     \/ /\ dev = "stale" \/ (dev = "open" /\ left > 0)
        /\ Returns(w, "post", None)
        /\ UNCHANGED <<deviceVars, clean>>
     \/ /\ dev = "open" /\ left = 0
        /\ left' = Chunks
        /\ clean' = IF Reading = {} /\ wait = NoChunk THEN clean \cup {w}
                    ELSE clean \ (Reading \cup {w})
        /\ Continues(w, "claim")
        /\ UNCHANGED wait
  /\ UNCHANGED guiVars

(* claim_interface; only a USBError is expected of it.                     *)
Claim(w) ==
  /\ pc[w] = "claim"
  /\ IF dev = "none" THEN Ends(w) ELSE Continues(w, "read") /\ UNCHANGED clean
  /\ UNCHANGED <<guiVars, deviceVars>>

(* self._dev.read is looked up, and called on what was found.  On None the *)
(* finally clause runs, to no effect: the AttributeError ends the thread.  *)
ReadCall(w) ==
  /\ pc[w] = "read"
  /\ \/ dev = "none" /\ Ends(w)
     \/ /\ dev # "none"
        /\ Goto(w, "await")
        /\ handle' = [handle EXCEPT ![w] = dev]
        /\ UNCHANGED <<got, result, clean>>
  /\ UNCHANGED <<guiVars, deviceVars>>

(* Mutant: an error in the middle keeps what was received.                 *)
ReadFails_KeepsBytes(w) == Returns(w, "release", got[w])

(* "except usb.core.USBError: return None"                                 *)
ReadFails(w) == Returns(w, "release", None)

(* Mutant: one packet more than accepted_len.                              *)
More_OffByOne(w) == Len(got[w]) + 1 <= Chunks

(* "while len(received) < accepted_len", after the packet just read.       *)
More(w) == Len(got[w]) + 1 < Chunks

(* A packet, or a USBError: the device is gone, or the read has timed out  *)
(* on an endpoint with nothing to come.                                    *)
ReadReturn(w) ==
  /\ pc[w] = "await"
  /\ \/ /\ handle[w] = "open" /\ wait # NoChunk
        /\ got' = [got EXCEPT ![w] = Append(@, wait)]
        /\ wait' = NoChunk
        /\ IF More(w)
           THEN Goto(w, "read") /\ UNCHANGED result
           ELSE Goto(w, "release") /\ result' = [result EXCEPT ![w] = got'[w]]
        /\ UNCHANGED <<left, handle>>
     \/ /\ handle[w] = "stale" \/ (wait = NoChunk /\ left = 0)
        /\ ReadFails(w)
        /\ UNCHANGED deviceVars
  /\ UNCHANGED <<guiVars, clean>>

(* release_interface in the finally clause; the dump is lost if the user   *)
(* has disconnected.                                                       *)
Release(w) ==
  /\ pc[w] = "release"
  /\ IF dev = "none" THEN Ends(w) ELSE Continues(w, "post") /\ UNCHANGED clean
  /\ UNCHANGED <<guiVars, deviceVars>>

(* worker: the queue gets ("dump_done", result).                           *)
Post(w) ==
  /\ pc[w] = "post"
  /\ results' = Append(results, [bytes |-> result[w], clean |-> w \in clean])
  /\ Ends(w)
  /\ UNCHANGED <<dev, btns, dumpBtn, saveBtn, lastDump, deviceVars>>

Worker(w) ==
  \/ CtrlTest(w) \/ CtrlTransfer(w) \/ Claim(w) \/ ReadCall(w) \/ ReadReturn(w)
  \/ Release(w) \/ Post(w)

-----------------------------------------------------------------------------
(* The main thread.                                                        *)

(* _toggle_usb, which does not look at the workers.                        *)
Disconnect ==
  /\ dev # "none"
  /\ dev' = "none"
  /\ btns' = "disabled" /\ dumpBtn' = "disabled" /\ saveBtn' = "disabled"
  /\ UNCHANGED <<results, lastDump, workerVars, deviceVars, clean>>

Connect ==
  /\ dev = "none"
  /\ dev' = "open"
  /\ btns' = "normal" /\ dumpBtn' = "normal"
  /\ UNCHANGED <<saveBtn, results, lastDump, workerVars, deviceVars, clean>>

(* _cmd_start_dump; w is the new thread.                                   *)
StartDump(w) ==
  /\ dumpBtn = "normal"
  /\ pc[w] = "free"
  /\ Len(results) <= MaxResults
  /\ dumpBtn' = "disabled" /\ saveBtn' = "disabled"
  /\ Continues(w, "ctrl")
  /\ UNCHANGED <<dev, btns, results, lastDump, deviceVars, clean>>

(* Mutant: Start Dump is offered again only after a good dump.             *)
Poll_OnlyGood ==
  /\ results # <<>>
  /\ results' = <<>>
  /\ dumpBtn' = IF \E i \in 1..Len(results) : results[i].bytes # None THEN "normal" ELSE dumpBtn
  /\ UNCHANGED <<dev, btns, saveBtn, lastDump, workerVars, deviceVars, clean>>

(* _poll drains the queue; _on_dump_done enables Start Dump and, after a   *)
(* success, Save Dump - connected or not.                                  *)
Poll ==
  /\ results # <<>>
  /\ results' = <<>>
  /\ dumpBtn' = "normal"
  /\ LET good == {i \in 1..Len(results) : results[i].bytes # None} IN
     \/ good = {} /\ UNCHANGED <<saveBtn, lastDump>>
     \/ \E last \in good :
          /\ \A i \in good : i <= last
          /\ saveBtn' = "normal"
          /\ lastDump' = results[last]
  /\ UNCHANGED <<dev, btns, workerVars, deviceVars, clean>>

-----------------------------------------------------------------------------
(* The device: the next chunk goes to EP4 as soon as the last was read; a  *)
(* replug ends the dump and makes the open handle useless.                 *)

Submit ==
  /\ left > 0 /\ wait = NoChunk
  /\ wait' = Chunks - left
  /\ left' = left - 1
  /\ UNCHANGED <<guiVars, workerVars, clean>>

Stale(h) == IF h = "open" THEN "stale" ELSE h
Replug ==
  /\ left' = 0
  /\ wait' = NoChunk
  /\ dev' = Stale(dev)
  /\ handle' = [w \in Workers |-> Stale(handle[w])]
  /\ UNCHANGED <<btns, dumpBtn, saveBtn, results, lastDump, pc, got, result, clean>>

Init ==
  /\ dev = "none"
  /\ btns = "disabled" /\ dumpBtn = "disabled" /\ saveBtn = "disabled"
  /\ results = <<>>
  /\ lastDump = [bytes |-> None, clean |-> TRUE]
  /\ pc = [w \in Workers |-> "free"]
  /\ handle = [w \in Workers |-> "none"]
  /\ got = [w \in Workers |-> <<>>]
  /\ result = [w \in Workers |-> None]
  /\ left = 0 /\ wait = NoChunk
  /\ clean = {}

Next ==
  \/ \E w \in Workers : Worker(w) \/ StartDump(w)
  \/ Disconnect \/ Connect \/ Poll \/ Submit \/ Replug

Spec == Init /\ [][Next]_vars

(* Threads run, _poll is rescheduled for ever, the device sends.           *)
FairSpec ==
  /\ Spec
  /\ \A w \in Workers : WF_vars(Worker(w))
  /\ WF_vars(Poll)
  /\ WF_vars(Submit)

-----------------------------------------------------------------------------
Dumps == {s \in Seq(0..(Chunks - 1)) : Len(s) <= Chunks}
BtnStates == {"normal", "disabled"}

(* Every variable has its type; a worker never takes more than a dump.     *)
TypeOK ==
  /\ dev \in {"none", "open", "stale"}
  /\ btns \in BtnStates /\ dumpBtn \in BtnStates /\ saveBtn \in BtnStates
  /\ results \in Seq([bytes : Dumps, clean : BOOLEAN])
  /\ lastDump \in [bytes : Dumps, clean : BOOLEAN]
  /\ pc \in [Workers -> {"free", "ctrl", "transfer", "claim", "read", "await", "release", "post"}]
  /\ handle \in [Workers -> {"none", "open", "stale"}]
  /\ got \in [Workers -> Dumps] /\ result \in [Workers -> Dumps]
  /\ left \in 0..Chunks /\ wait \in 0..Chunks
  /\ clean \subseteq Workers

(* What Save Dump would write is the whole region in order ("Save the full *)
(* binary from the last successful dump"), whatever was disconnected or    *)
(* replugged meanwhile, unless the device let two dumps share the          *)
(* endpoint: a worker left over from before a Disconnect and a new one.    *)
SavedDumpIsWhole == saveBtn = "normal" /\ lastDump.clean => lastDump.bytes = Whole

(* Workers die without a word, but never on a connected tool that waits    *)
(* for them: while Start Dump is disabled and the tool connected, someone  *)
(* is still going to report.                                               *)
SomeoneReports ==
  dev # "none" /\ dumpBtn = "disabled" => results # <<>> \/ \E w \in Workers : pc[w] # "free"

(* So the button comes back, or the user disconnects.                      *)
ButtonReturns == dumpBtn = "disabled" ~> (dumpBtn = "normal" \/ dev = "none")
=============================================================================
