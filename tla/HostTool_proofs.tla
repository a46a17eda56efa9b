--------------------------- MODULE HostTool_proofs ---------------------------
(***************************************************************************)
(* Type correctness of the tool, that a disabled Start Dump always has     *)
(* someone to enable it again, and that what Save Dump writes is whole,    *)
(* for any number of threads and any length of the dump.  The last rests   *)
(* on the stream of a dump that has the endpoint to itself: what its       *)
(* worker holds, the chunk on EP4 and what the device has left are always  *)
(* one whole dump in order, or nothing will ever come again.               *)
(***************************************************************************)
EXTENDS HostTool, SequenceTheorems, TLAPS

Busy == {"claim", "read", "await"}

(* A worker takes nothing before its read loop and stops at Chunks.        *)
Counts ==
  \A w \in Workers :
    /\ pc[w] \in {"free", "ctrl", "transfer", "claim"} => got[w] = <<>>
    /\ pc[w] \in {"read", "await"} => Len(got[w]) < Chunks

InOrder(s) == \A i \in 1..Len(s) : s[i] = i - 1

(* The rest of w's dump is on its way, or nothing is.                      *)
Aligned(w) ==
  \/ wait = NoChunk /\ left = 0
  \/ wait = NoChunk /\ Len(got[w]) + left = Chunks
  \/ wait = Len(got[w]) /\ Len(got[w]) + left + 1 = Chunks

Good(s) == s = None \/ (Len(s) = Chunks /\ InOrder(s))

CleanReads ==
  \A w \in clean :
    /\ pc[w] \in Busy => Reading = {w} /\ InOrder(got[w]) /\ Aligned(w)
    /\ pc[w] \in {"release", "post"} => Good(result[w])
    /\ pc[w] \in Busy \cup {"release", "post"}

CleanResults ==
  /\ \A i \in 1..Len(results) : results[i].clean => Good(results[i].bytes)
  /\ lastDump.clean => Good(lastDump.bytes)
  /\ saveBtn = "normal" => lastDump.bytes # None

IInv == TypeOK /\ Counts /\ CleanReads /\ CleanResults

-----------------------------------------------------------------------------
LEMMA EmptyDump == <<>> \in Dumps /\ None \in Dumps
<1>1. Chunks \in Nat
  BY ToolAssumption
<1> QED
  BY <1>1 DEF Dumps, None

LEMMA InitIInv == Init => IInv
<1> SUFFICES ASSUME Init PROVE IInv
  OBVIOUS
<1> USE ToolAssumption, EmptyDump
<1>1. TypeOK
  BY DEF Init, TypeOK, NoChunk, BtnStates
<1>2. Counts
  BY DEF Init, Counts
<1>3. CleanReads
  BY DEF Init, CleanReads
<1>4. CleanResults
  BY DEF Init, CleanResults, Good
<1> QED
  BY <1>1, <1>2, <1>3, <1>4 DEF IInv

-----------------------------------------------------------------------------
(* Types, action by action.                                                *)

LEMMA GrownDump ==
  ASSUME NEW s \in Dumps, Len(s) < Chunks, NEW c \in 0..(Chunks - 1)
  PROVE  Append(s, c) \in Dumps
<1>1. Chunks \in Nat
  BY ToolAssumption
<1> QED
  BY <1>1 DEF Dumps

PCs == {"free", "ctrl", "transfer", "claim", "read", "await", "release", "post"}

LEMMA ThreadTypes ==
  ASSUME TypeOK, NEW w \in Workers
  PROVE  /\ \A l \in PCs : [pc EXCEPT ![w] = l] \in [Workers -> PCs]
         /\ \A h \in {"none", "open", "stale"} :
              [handle EXCEPT ![w] = h] \in [Workers -> {"none", "open", "stale"}]
         /\ \A s \in Dumps : /\ [got EXCEPT ![w] = s] \in [Workers -> Dumps]
                             /\ [result EXCEPT ![w] = s] \in [Workers -> Dumps]
  BY DEF TypeOK, PCs

LEMMA WorkerType == ASSUME TypeOK, Counts, NEW w \in Workers, Worker(w) PROVE TypeOK'
<1> USE ToolAssumption, EmptyDump, ThreadTypes DEF PCs
<1>1. CASE CtrlTest(w)
  BY <1>1 DEF TypeOK, CtrlTest, Returns, Continues, Goto, guiVars, deviceVars
<1>2. CASE CtrlTransfer(w)
  <2>1. CASE Ends(w) /\ UNCHANGED <<deviceVars, guiVars>>
    BY <2>1 DEF TypeOK, Ends, Goto, guiVars, deviceVars
  <2>2. CASE Returns(w, "post", None) /\ UNCHANGED <<deviceVars, clean, guiVars>>
    BY <2>2 DEF TypeOK, Returns, Goto, guiVars, deviceVars
  <2>3. CASE /\ left' = Chunks /\ clean' \subseteq clean \cup {w} /\ Continues(w, "claim")
             /\ UNCHANGED <<wait, guiVars>>
    <3>1. clean' \subseteq Workers
      BY <2>3 DEF TypeOK
    <3> QED
      BY <2>3, <3>1 DEF TypeOK, Continues, Goto, guiVars
  <2> QED
    BY <1>2, <2>1, <2>2, <2>3, Zenon DEF CtrlTransfer
<1>3. CASE Claim(w)
  BY <1>3 DEF TypeOK, Claim, Continues, Ends, Goto, guiVars, deviceVars
<1>4. CASE ReadCall(w)
  BY <1>4 DEF TypeOK, ReadCall, Ends, Goto, guiVars, deviceVars
<1>5. CASE ReadReturn(w)
  <2>1. CASE handle[w] = "open" /\ wait # NoChunk
    <3>1. CASE wait # NoChunk /\ got' = [got EXCEPT ![w] = Append(@, wait)] /\ wait' = NoChunk
               /\ \/ pc' = [pc EXCEPT ![w] = "read"] /\ result' = result
                  \/ pc' = [pc EXCEPT ![w] = "release"] /\ result' = [result EXCEPT ![w] = got'[w]]
               /\ UNCHANGED <<left, handle, guiVars, clean>>
      <4>1. got[w] \in Dumps /\ Len(got[w]) < Chunks /\ wait \in 0..(Chunks - 1)
        BY <1>5, <3>1 DEF TypeOK, Counts, ReadReturn, NoChunk
      <4>2. Append(got[w], wait) \in Dumps
        BY <4>1, GrownDump
      <4>3. got' \in [Workers -> Dumps] /\ got'[w] \in Dumps
        BY <3>1, <4>2 DEF TypeOK
      <4>4. result' \in [Workers -> Dumps]
        BY <3>1, <4>3 DEF TypeOK
      <4>5. pc' \in [Workers -> PCs]
        BY <3>1 DEF TypeOK
      <4>6. wait' \in 0..Chunks
        BY <3>1, Chunks \in Nat DEF NoChunk
      <4> QED
        BY <3>1, <4>3, <4>4, <4>5, <4>6 DEF TypeOK, guiVars
    <3>2. CASE ReadFails(w) /\ UNCHANGED <<deviceVars, guiVars, clean>>
      BY <3>2 DEF TypeOK, ReadFails, Returns, Goto, guiVars, deviceVars
    <3> QED
      BY <1>5, <3>1, <3>2 DEF ReadReturn, Goto
  <2>2. CASE ~(handle[w] = "open" /\ wait # NoChunk)
    BY <1>5, <2>2 DEF TypeOK, ReadReturn, ReadFails, Returns, Goto, guiVars, deviceVars
  <2> QED
    BY <2>1, <2>2
<1>6. CASE Release(w)
  BY <1>6 DEF TypeOK, Release, Continues, Ends, Goto, guiVars, deviceVars
<1>7. CASE Post(w)
  <2>1. [bytes |-> result[w], clean |-> w \in clean] \in [bytes : Dumps, clean : BOOLEAN]
    BY DEF TypeOK
  <2>2. results' \in Seq([bytes : Dumps, clean : BOOLEAN])
    BY <1>7, <2>1 DEF TypeOK, Post
  <2> QED
    BY <1>7, <2>2 DEF TypeOK, Post, Ends, Goto, deviceVars
<1> QED
  BY <1>1, <1>2, <1>3, <1>4, <1>5, <1>6, <1>7 DEF Worker

LEMMA GuiType ==
  ASSUME TypeOK, \/ Disconnect \/ Connect \/ Poll \/ Submit \/ Replug
                 \/ \E w \in Workers : StartDump(w)
  PROVE  TypeOK'
<1> USE ToolAssumption DEF TypeOK, BtnStates, guiVars, workerVars, deviceVars
<1>1. CASE Disconnect
  BY <1>1 DEF Disconnect
<1>2. CASE Connect
  BY <1>2 DEF Connect
<1>3. CASE Poll
  <2>1. lastDump' \in [bytes : Dumps, clean : BOOLEAN] /\ saveBtn' \in BtnStates
    <3>1. \/ saveBtn' = saveBtn /\ lastDump' = lastDump
          \/ \E last \in 1..Len(results) : saveBtn' = "normal" /\ lastDump' = results[last]
      BY <1>3, Zenon DEF Poll
    <3>2. ASSUME NEW last \in 1..Len(results), saveBtn' = "normal", lastDump' = results[last]
          PROVE  lastDump' \in [bytes : Dumps, clean : BOOLEAN] /\ saveBtn' \in BtnStates
      <4>1. results[last] \in [bytes : Dumps, clean : BOOLEAN]
        BY <3>2, ElementOfSeq
      <4> QED
        BY <3>2, <4>1
    <3>3. CASE saveBtn' = saveBtn /\ lastDump' = lastDump
      BY <3>3
    <3> QED
      BY <3>1, <3>2, <3>3
  <2>2. results' \in Seq([bytes : Dumps, clean : BOOLEAN]) /\ dumpBtn' \in BtnStates
    BY <1>3 DEF Poll
  <2>3. UNCHANGED <<dev, btns, pc, handle, got, result, left, wait, clean>>
    BY <1>3 DEF Poll
  <2> QED
    BY <2>1, <2>2, <2>3
<1>4. CASE Submit
  BY <1>4 DEF Submit, NoChunk
<1>5. CASE Replug
  <2>1. \A h \in {"none", "open", "stale"} : Stale(h) \in {"none", "open", "stale"}
    BY DEF Stale
  <2>2. handle' \in [Workers -> {"none", "open", "stale"}] /\ dev' \in {"none", "open", "stale"}
    BY <1>5, <2>1 DEF Replug
  <2> QED
    BY <1>5, <2>2 DEF Replug, NoChunk
<1>6. ASSUME NEW w \in Workers, StartDump(w) PROVE TypeOK'
  BY <1>6, ThreadTypes DEF StartDump, Continues, Goto, PCs
<1> QED
  BY <1>1, <1>2, <1>3, <1>4, <1>5, <1>6

LEMMA TypeStep == TypeOK /\ Counts /\ [Next]_vars => TypeOK'
<1> SUFFICES ASSUME TypeOK, Counts, [Next]_vars PROVE TypeOK'
  OBVIOUS
<1>1. CASE UNCHANGED vars
  BY <1>1 DEF TypeOK, vars, guiVars, workerVars, deviceVars
<1> QED
  BY <1>1, WorkerType, GuiType, Zenon DEF Next

-----------------------------------------------------------------------------
(* What a step does to a thread: the cases the rest of the proof needs.    *)

(* u's part of the state is left alone.                                    *)
Idle(u) ==
  /\ pc'[u] = pc[u] /\ got'[u] = got[u] /\ result'[u] = result[u]

LEMMA OthersIdle ==
  ASSUME TypeOK, NEW w \in Workers, Worker(w) \/ StartDump(w), NEW u \in Workers, u # w
  PROVE  Idle(u)
<1> USE DEF TypeOK, Idle, Goto, Returns, Continues, Ends, ReadFails
<1>1. CASE CtrlTest(w)
  BY <1>1 DEF CtrlTest
<1>2. CASE CtrlTransfer(w)
  BY <1>2 DEF CtrlTransfer
<1>3. CASE Claim(w)
  BY <1>3 DEF Claim
<1>4. CASE ReadCall(w)
  BY <1>4 DEF ReadCall
<1>5. CASE ReadReturn(w)
  BY <1>5 DEF ReadReturn
<1>6. CASE Release(w)
  BY <1>6 DEF Release
<1>7. CASE Post(w)
  BY <1>7 DEF Post
<1>8. CASE StartDump(w)
  BY <1>8 DEF StartDump
<1> QED
  BY <1>1, <1>2, <1>3, <1>4, <1>5, <1>6, <1>7, <1>8 DEF Worker

LEMMA AllIdle ==
  ASSUME \/ Disconnect \/ Connect \/ Poll \/ Submit \/ Replug \/ UNCHANGED vars
  PROVE  pc' = pc /\ got' = got /\ result' = result /\ clean' = clean
  BY DEF Disconnect, Connect, Poll, Submit, Replug, vars, workerVars

LEMMA CountsStep == TypeOK /\ Counts /\ [Next]_vars => Counts'
<1> SUFFICES ASSUME TypeOK, Counts, [Next]_vars PROVE Counts'
  OBVIOUS
<1> DEFINE C(w) == /\ pc[w] \in {"free", "ctrl", "transfer", "claim"} => got[w] = <<>>
                   /\ pc[w] \in {"read", "await"} => Len(got[w]) < Chunks
<1>1. ASSUME NEW w \in Workers, Worker(w) \/ StartDump(w) PROVE C(w)'
  <2> USE ToolAssumption DEF TypeOK, Counts, Goto, Returns, Continues, Ends, ReadFails
  <2>1. CASE CtrlTest(w)
    BY <2>1 DEF CtrlTest
  <2>2. CASE CtrlTransfer(w)
    BY <2>2 DEF CtrlTransfer
  <2>3. CASE Claim(w)
    BY <2>3 DEF Claim
  <2>4. CASE ReadCall(w)
    BY <2>4 DEF ReadCall
  <2>5. CASE ReadReturn(w)
    <3>1. got[w] \in Seq(0..(Chunks - 1))
      BY DEF Dumps
    <3>2. CASE got' = [got EXCEPT ![w] = Append(@, wait)]
      <4>1. wait \in 0..Chunks /\ got'[w] = Append(got[w], wait)
        BY <3>2
      <4>2. Len(got'[w]) = Len(got[w]) + 1
        BY <3>1, <4>1
      <4> QED
        BY <2>5, <4>2, Chunks \in Nat DEF ReadReturn, More
    <3>3. CASE ReadFails(w)
      BY <2>5, <3>3 DEF ReadReturn
    <3> QED
      BY <2>5, <3>2, <3>3 DEF ReadReturn
  <2>6. CASE Release(w)
    BY <2>6 DEF Release
  <2>7. CASE Post(w)
    BY <2>7 DEF Post
  <2>8. CASE StartDump(w)
    BY <2>8 DEF StartDump
  <2> QED
    BY <1>1, <2>1, <2>2, <2>3, <2>4, <2>5, <2>6, <2>7, <2>8 DEF Worker
<1>2. ASSUME NEW w \in Workers, Worker(w) \/ StartDump(w), NEW u \in Workers PROVE C(u)'
  <2>1. CASE u = w
    BY <1>1, <1>2, <2>1
  <2>2. CASE u # w
    BY <1>2, <2>2, OthersIdle DEF Idle, Counts
  <2> QED
    BY <2>1, <2>2
<1>3. CASE pc' = pc /\ got' = got
  BY <1>3 DEF Counts
<1> QED
  BY <1>2, <1>3, AllIdle, Zenon DEF Next, Counts

-----------------------------------------------------------------------------
(* The stream of a dump that has the endpoint to itself.                   *)

Clean(u) ==
  /\ pc[u] \in Busy => Reading = {u} /\ InOrder(got[u]) /\ Aligned(u)
  /\ pc[u] \in {"release", "post"} => Good(result[u])
  /\ pc[u] \in Busy \cup {"release", "post"}

(* No chunk: a step of the main thread or of the device.                   *)
LEMMA CleanIfIdle ==
  ASSUME TypeOK, CleanReads,
         \/ Disconnect \/ Connect \/ Poll \/ Submit \/ Replug \/ UNCHANGED vars
  PROVE  CleanReads'
<1> USE DEF CleanReads, Reading, Aligned
<1>1. pc' = pc /\ got' = got /\ result' = result /\ clean' = clean
  BY AllIdle
<1>2. CASE wait' = wait /\ left' = left
  BY <1>1, <1>2
<1>3. CASE Submit
  <2> SUFFICES ASSUME NEW u \in clean PROVE Aligned(u) => Aligned(u)'
    BY <1>1
  <2>1. Len(got[u]) \in Nat
    BY DEF TypeOK, Dumps
  <2> QED
    BY <1>1, <1>3, <2>1, ToolAssumption DEF Submit, NoChunk, TypeOK
<1>4. CASE Replug
  BY <1>1, <1>4 DEF Replug, NoChunk
<1> QED
  BY <1>2, <1>3, <1>4 DEF Disconnect, Connect, Poll, vars, deviceVars

(* A thread whose own step this is not stays clean.                        *)
LEMMA CleanOther ==
  ASSUME TypeOK, CleanReads, NEW w \in Workers, Worker(w) \/ StartDump(w),
         NEW u \in clean, u \in clean', u # w
  PROVE  Clean(u)'
<1>0. u \in Workers /\ Idle(u) /\ Clean(u)
  BY OthersIdle DEF TypeOK, CleanReads, Clean
<1>1. CASE pc[u] \notin Busy
  BY <1>0, <1>1 DEF Clean, Idle, Busy
<1>2. CASE pc[u] \in Busy
  <2>1. Reading = {u} /\ pc[w] \notin Busy
    BY <1>0, <1>2 DEF Clean, Reading, Busy
  <2>2. wait' = wait /\ left' = left /\ pc'[w] \notin Busy
    <3> USE DEF Goto, Returns, Continues, Ends, deviceVars, Busy, TypeOK
    <3>1. CASE CtrlTest(w)
      BY <3>1 DEF CtrlTest
    <3>2. CASE CtrlTransfer(w)
      BY <2>1, <3>2 DEF CtrlTransfer
    <3>3. CASE Claim(w)
      BY <2>1, <3>3 DEF Claim
    <3>4. CASE ReadCall(w)
      BY <2>1, <3>4 DEF ReadCall
    <3>5. CASE ReadReturn(w)
      BY <2>1, <3>5 DEF ReadReturn
    <3>6. CASE Release(w)
      BY <3>6 DEF Release
    <3>7. CASE Post(w)
      BY <3>7 DEF Post
    <3>8. CASE StartDump(w)
      BY <3>8 DEF StartDump
    <3> QED
      BY <3>1, <3>2, <3>3, <3>4, <3>5, <3>6, <3>7, <3>8 DEF Worker
  <2>3. \A v \in Workers : pc'[v] \in Busy <=> pc[v] \in Busy
    BY <2>1, <2>2, OthersIdle DEF Idle
  <2>4. Reading' = {u}
    BY <2>1, <2>3 DEF Reading, Busy
  <2> QED
    BY <1>0, <1>2, <2>2, <2>4 DEF Clean, Idle, Aligned, Busy
<1> QED
  BY <1>1, <1>2

(* The packet just received is the next one, and ends the dump if More     *)
(* says so.                                                                *)
LEMMA CleanRead ==
  ASSUME TypeOK, Counts, NEW w \in clean, Clean(w), ReadReturn(w)
  PROVE  Clean(w)'
<1> DEFINE g == got[w]
<1>1. w \in Workers /\ Chunks \in Nat /\ g \in Seq(0..(Chunks - 1)) /\ Len(g) < Chunks
  BY ToolAssumption DEF TypeOK, Counts, Dumps, ReadReturn
<1>2. Reading = {w} /\ InOrder(g) /\ Aligned(w)
  BY DEF ReadReturn, Clean, Busy
<1>3. CASE ReadFails(w)
  BY <1>1, <1>3 DEF ReadFails, Returns, Goto, Clean, Busy, Good, TypeOK
<1>4. CASE /\ wait # NoChunk /\ got' = [got EXCEPT ![w] = Append(@, wait)] /\ wait' = NoChunk
           /\ left' = left
           /\ IF More(w)
              THEN Goto(w, "read") /\ UNCHANGED result
              ELSE Goto(w, "release") /\ result' = [result EXCEPT ![w] = got'[w]]
  <2>1. wait = Len(g) /\ Len(g) + left + 1 = Chunks /\ wait \in 0..(Chunks - 1)
    BY <1>1, <1>2, <1>4 DEF Aligned, NoChunk, TypeOK
  <2>2. got'[w] = Append(g, wait)
    BY <1>1, <1>4 DEF TypeOK
  <2>3. Len(got'[w]) = Len(g) + 1 /\ InOrder(got'[w])
    BY <1>1, <1>2, <2>1, <2>2 DEF InOrder
  <2>4. CASE More(w)
    <3>1. pc' = [pc EXCEPT ![w] = "read"]
      BY <1>4, <2>4 DEF Goto
    <3>2. Reading' = {w}
      BY <1>1, <1>2, <3>1 DEF Reading, TypeOK
    <3>3. Aligned(w)'
      BY <1>1, <1>4, <2>1, <2>3 DEF Aligned, NoChunk, TypeOK
    <3>4. pc'[w] = "read"
      BY <1>1, <3>1 DEF TypeOK
    <3> QED
      BY <2>3, <3>2, <3>3, <3>4 DEF Clean, Busy
  <2>5. CASE ~More(w)
    <3>1. pc'[w] = "release" /\ result'[w] = got'[w]
      BY <1>1, <1>4, <2>5 DEF Goto, TypeOK
    <3>2. Len(got'[w]) = Chunks
      BY <1>1, <2>3, <2>5 DEF More
    <3> QED
      BY <2>3, <3>1, <3>2 DEF Clean, Good, Busy
  <2> QED
    BY <2>4, <2>5
<1> QED
  BY <1>3, <1>4, Zenon DEF ReadReturn, deviceVars

LEMMA CleanOwn ==
  ASSUME TypeOK, Counts, CleanReads, NEW w \in Workers, Worker(w) \/ StartDump(w), w \in clean'
  PROVE  Clean(w)'
<1> USE DEF Goto, Returns, Continues, Ends, TypeOK
<1>1. CASE w \in clean
  <2>1. Clean(w)
    BY <1>1 DEF CleanReads, Clean
  <2>2. CASE CtrlTest(w) \/ StartDump(w)
    BY <2>1, <2>2 DEF CtrlTest, StartDump, Clean, Busy
  <2>3. CASE CtrlTransfer(w)
    BY <2>1, <2>3 DEF CtrlTransfer, Clean, Busy
  <2>4. CASE Claim(w) \/ ReadCall(w)
    <3>1. pc[w] \in Busy /\ pc'[w] \in Busy /\ got' = got /\ wait' = wait /\ left' = left
      BY <2>4 DEF Claim, ReadCall, Busy, deviceVars
    <3>2. Reading' = Reading
      <4>1. \A v \in Workers : pc'[v] \in Busy <=> pc[v] \in Busy
        BY <3>1, OthersIdle DEF Idle
      <4> QED
        BY <4>1 DEF Reading, Busy
    <3> QED
      BY <2>1, <3>1, <3>2 DEF Clean, Aligned, Busy
  <2>5. CASE ReadReturn(w)
    BY <1>1, <2>1, <2>5, CleanRead
  <2>6. CASE Release(w)
    BY <2>1, <2>6 DEF Release, Clean, Busy
  <2>7. CASE Post(w)
    BY <2>7 DEF Post
  <2> QED
    BY <2>2, <2>3, <2>4, <2>5, <2>6, <2>7 DEF Worker
<1>2. CASE w \notin clean
  <2>1. /\ CtrlTransfer(w) /\ Reading = {} /\ wait = NoChunk /\ left' = Chunks
        /\ Continues(w, "claim") /\ wait' = wait
    BY <1>2 DEF Worker, CtrlTest, CtrlTransfer, Claim, ReadCall, ReadReturn, ReadFails, Release,
                Post, StartDump
  <2>2. pc' = [pc EXCEPT ![w] = "claim"] /\ pc'[w] = "claim" /\ got'[w] = <<>>
    BY <2>1 DEF CtrlTransfer, Counts
  <2>3. Reading' = {w}
    BY <2>1, <2>2 DEF Reading
  <2>4. InOrder(<<>>) /\ Len(<<>>) = 0
    BY DEF InOrder
  <2> QED
    BY <2>1, <2>2, <2>3, <2>4, ToolAssumption DEF Clean, Aligned, Busy, NoChunk
<1> QED
  BY <1>1, <1>2

LEMMA CleanReadsStep == TypeOK /\ Counts /\ CleanReads /\ [Next]_vars => CleanReads'
<1> SUFFICES ASSUME TypeOK, Counts, CleanReads, [Next]_vars PROVE CleanReads'
  OBVIOUS
<1>1. ASSUME NEW w \in Workers, Worker(w) \/ StartDump(w) PROVE CleanReads'
  <2> SUFFICES ASSUME NEW u \in clean' PROVE Clean(u)'
    BY DEF CleanReads, Clean
  <2>1. u = w \/ u \in clean
    BY <1>1 DEF Worker, CtrlTest, CtrlTransfer, Claim, ReadCall, ReadReturn, Release, Post,
                StartDump, Ends
  <2> QED
    BY <1>1, <2>1, CleanOther, CleanOwn
<1> QED
  BY <1>1, CleanIfIdle, Zenon DEF Next

-----------------------------------------------------------------------------
LEMMA CleanResultsStep == TypeOK /\ CleanReads /\ CleanResults /\ [Next]_vars => CleanResults'
<1> SUFFICES ASSUME TypeOK, CleanReads, CleanResults, [Next]_vars PROVE CleanResults'
  OBVIOUS
<1>1. CASE results' = results /\ lastDump' = lastDump /\ (saveBtn' = saveBtn \/ saveBtn' = "disabled")
  BY <1>1 DEF CleanResults
<1>2. ASSUME NEW w \in Workers, Post(w) PROVE CleanResults'
  <2> DEFINE r == [bytes |-> result[w], clean |-> w \in clean]
  <2>1. results' = Append(results, r) /\ lastDump' = lastDump /\ saveBtn' = saveBtn
    BY <1>2 DEF Post
  <2>2. r.clean => Good(r.bytes)
    BY <1>2 DEF Post, CleanReads
  <2>3. results \in Seq([bytes : Dumps, clean : BOOLEAN])
    BY DEF TypeOK
  <2>4. \A i \in 1..Len(results') : results'[i] = r \/ (i \in 1..Len(results) /\ results'[i] = results[i])
    BY <2>1, <2>3
  <2> QED
    BY <2>1, <2>2, <2>4 DEF CleanResults
<1>3. CASE Poll
  BY <1>3 DEF Poll, CleanResults
<1> QED
  BY <1>1, <1>2, <1>3 DEF Next, Worker, CtrlTest, CtrlTransfer, Claim, ReadCall, ReadReturn, Release,
       StartDump, Disconnect, Connect, Submit, Replug, vars, guiVars

LEMMA IInvStep == IInv /\ [Next]_vars => IInv'
  BY TypeStep, CountsStep, CleanReadsStep, CleanResultsStep DEF IInv

LEMMA IInvAlways == Spec => []IInv
<1> QED
  BY InitIInv, IInvStep, PTL DEF Spec

-----------------------------------------------------------------------------
(* Type correctness: no worker takes more than one dump.                   *)
THEOREM TypeCorrect == Spec => []TypeOK
<1>1. IInv => TypeOK
  BY DEF IInv
<1> QED
  BY <1>1, IInvAlways, PTL

(* What Save Dump writes is the whole region in order, whatever happened   *)
(* to the connection, unless the device let two dumps share the endpoint.  *)
THEOREM SavedDumpWhole == Spec => []SavedDumpIsWhole
<1>1. IInv => SavedDumpIsWhole
  <2> SUFFICES ASSUME IInv, saveBtn = "normal", lastDump.clean PROVE lastDump.bytes = Whole
    BY DEF SavedDumpIsWhole
  <2>1. lastDump.bytes \in Seq(0..(Chunks - 1)) /\ Chunks \in Nat
    BY ToolAssumption DEF IInv, TypeOK, Dumps
  <2>2. Len(lastDump.bytes) = Chunks /\ InOrder(lastDump.bytes)
    BY DEF IInv, CleanResults, Good
  <2>3. Whole \in Seq(0..(Chunks - 1)) /\ Len(Whole) = Chunks
    BY <2>1 DEF Whole
  <2>4. \A i \in 1..Chunks : Whole[i] = lastDump.bytes[i]
    BY <2>1, <2>2 DEF Whole, InOrder
  <2> QED
    BY <2>1, <2>2, <2>3, <2>4, SeqEqual
<1> QED
  BY <1>1, IInvAlways, PTL

(* A connected tool that has disabled Start Dump has a thread or a result  *)
(* that will enable it: workers die only under a disconnected tool.        *)
THEOREM ButtonHasReporter == Spec => []SomeoneReports
<1>1. Init => SomeoneReports
  BY DEF Init, SomeoneReports
<1>2. TypeOK /\ SomeoneReports /\ [Next]_vars => SomeoneReports'
  <2> SUFFICES ASSUME TypeOK, SomeoneReports, [Next]_vars PROVE SomeoneReports'
    OBVIOUS
  <2> USE DEF SomeoneReports
  <2>1. ASSUME NEW w \in Workers, Worker(w) PROVE SomeoneReports'
    <3>1. CASE pc'[w] # "free" /\ results' = results
      BY <3>1
    <3>2. CASE Post(w)
      BY <3>2 DEF Post, TypeOK
    <3>3. CASE dev' = "none"
      BY <3>3
    <3> QED
      BY <2>1, <3>1, <3>2, <3>3 DEF Worker, CtrlTest, CtrlTransfer, Claim, ReadCall, ReadReturn,
           ReadFails, Release, Goto, Returns, Continues, guiVars, TypeOK
  <2>2. ASSUME NEW w \in Workers, StartDump(w) PROVE SomeoneReports'
    BY <2>2 DEF StartDump, Continues, Goto, TypeOK
  <2>3. CASE Disconnect \/ Connect \/ Poll
    BY <2>3 DEF Disconnect, Connect, Poll
  <2>4. CASE Submit \/ Replug \/ UNCHANGED vars
    BY <2>4 DEF Submit, Replug, Stale, vars, guiVars, workerVars, TypeOK
  <2> QED
    BY <2>1, <2>2, <2>3, <2>4 DEF Next
<1> QED
  BY <1>1, <1>2, TypeCorrect, PTL DEF Spec
=============================================================================
