--------------------------- MODULE WidebandProofs ---------------------------
(***************************************************************************)
(* Proofs about the wideband control server, for any number of workers,    *)
(* keys, values, calls and restarts.                                       *)
(***************************************************************************)
EXTENDS WidebandControl, SequenceTheorems, WellFoundedInduction, TLAPS

-----------------------------------------------------------------------------
(* What rewriting a key does to any text. *)

(* A nonempty set of naturals has the minimum that Min chooses. *)
LEMMA MinProperties ==
  ASSUME NEW S \in SUBSET Nat, S # {}
  PROVE  Min(S) \in S /\ \A y \in S : Min(S) <= y
<1>1. PICK x \in S : \A y \in S : <<y, x>> \notin OpToRel(<, Nat)
  BY NatLessThanWellFounded, WFMin
<1>2. \A y \in S : x <= y
  <2> SUFFICES ASSUME NEW y \in S PROVE x <= y
    OBVIOUS
  <2>1. ~ (y < x)
    BY <1>1 DEF OpToRel
  <2> QED
    BY <2>1
<1> QED
  BY <1>2 DEF Min

(* The line a key is first on. *)
LEMMA FirstLine ==
  ASSUME NEW lines \in Seq(Line), NEW k, LinesOf(lines, k) # {}
  PROVE  /\ Min(LinesOf(lines, k)) \in 1 .. Len(lines)
         /\ lines[Min(LinesOf(lines, k))].key = k
<1>1. LinesOf(lines, k) \subseteq 1 .. Len(lines)
  BY DEF LinesOf
<1>2. Min(LinesOf(lines, k)) \in LinesOf(lines, k)
  BY <1>1, MinProperties
<1> QED
  BY <1>1, <1>2 DEF LinesOf

(* A rewritten text is one again, only lines of its key have changed, and   *)
(* the executable's parser finds the new value.                             *)
THEOREM RewritesOneKey ==
  ASSUME NEW lines \in Seq(Line), NEW k \in Keys, NEW v \in Values
  PROVE  /\ Rewritten(lines, k, v) \in Seq(Line)
         /\ OnlyKey(lines, Rewritten(lines, k, v), k)
         /\ FirstOf(Rewritten(lines, k, v), k) = v
<1> DEFINE new  == Rewritten(lines, k, v)
           line == [key |-> k, val |-> v]
<1>1. line \in Line
  BY DEF Line
<1>2. CASE LinesOf(lines, k) = {}
  <2>1. new = Append(lines, line)
    BY <1>2 DEF Rewritten
  <2>2. /\ new \in Seq(Line) /\ Len(new) = Len(lines) + 1
        /\ \A i \in 1 .. Len(lines) : new[i] = lines[i]
        /\ new[Len(lines) + 1] = line
    BY <1>1, <2>1, AppendProperties
  <2>3. OnlyKey(lines, new, k)
    BY <1>2, <2>2 DEF OnlyKey
  <2>4. LinesOf(new, k) = {Len(lines) + 1}
    BY <1>2, <2>2 DEF LinesOf
  <2>5. Min(LinesOf(new, k)) = Len(lines) + 1
    BY <2>4, MinProperties
  <2> QED
    BY <2>2, <2>3, <2>4, <2>5 DEF FirstOf
<1>3. CASE LinesOf(lines, k) # {}
  <2> DEFINE m == Min(LinesOf(lines, k))
  <2>1. m \in 1 .. Len(lines) /\ lines[m].key = k
    BY <1>3, FirstLine
  <2>2. lines[m] \in Line
    BY <2>1, ElementOfSeq
  <2>3. [lines[m] EXCEPT !.val = v] = line
    BY <2>1, <2>2 DEF Line
  <2>4. new = [lines EXCEPT ![m] = line]
    BY <1>3, <2>3 DEF Rewritten
  <2>5. /\ new \in Seq(Line) /\ Len(new) = Len(lines)
        /\ \A i \in 1 .. Len(lines) : new[i] = IF i = m THEN line ELSE lines[i]
    BY <1>1, <2>1, <2>4, ExceptSeq
  <2>6. OnlyKey(lines, new, k)
    BY <2>1, <2>5 DEF OnlyKey, LinesOf
  <2>7. LinesOf(new, k) = LinesOf(lines, k)
    BY <2>1, <2>5 DEF LinesOf
  <2> QED
    BY <1>3, <2>1, <2>5, <2>6, <2>7 DEF FirstOf
<1> QED
  BY <1>2, <1>3

-----------------------------------------------------------------------------
(* A Set call past its validation has a key and a value; the worker in the *)
(* mutex has read the file as it still is, and has written it rewritten,   *)
(* unless a read or a write has failed.                                    *)
SetInv ==
  /\ \A w \in Workers : call[w].pc \in CfgSteps \cup {"lock"} =>
       call[w].key \in Keys /\ call[w].val \in Values
  /\ ~failed => \A w \in Workers :
       /\ call[w].pc \in {"open", "write", "rename"} => call[w].lines = file
       /\ call[w].pc = "rename" => tmp = Rewritten(file, call[w].key, call[w].val)

(* child_ is clear when its holder is about to fork, set when it is about  *)
(* to signal or to wait.                                                   *)
ChildInv ==
  /\ NoStalePid
  /\ OneChild
  /\ \A w \in Workers : /\ At(w, "fork") => child = None
                        /\ call[w].pc \in {"kill", "reap"} => child # None

(* Process numbers are used in order; before the first restart child_ is   *)
(* the youngest process and the only one not reaped.                       *)
OrderInv ==
  /\ \A p, q \in Processes : p < q /\ process[q] # "none" => process[p] # "none"
  /\ restarts = 0 =>
       /\ \A p \in Processes : process[p] \in {"run", "ending", "zombie"} => p = child
       /\ child # None => \A p \in Processes : process[p] # "none" => p <= child
  /\ LastExitTrue

IInv == TypeOK /\ SetInv /\ ChildInv /\ OrderInv

-----------------------------------------------------------------------------
(* How a worker's step changes the calls. *)
Moves(w, pc) ==
  /\ call' \in [Workers -> Calls]
  /\ call'[w].pc = pc
  /\ \A u \in Workers : u # w => call'[u] = call[u]

LEMMA GotoMoves ==
  ASSUME NEW w \in Workers, NEW pc \in Steps, call \in [Workers -> Calls], Goto(w, pc)
  PROVE  /\ Moves(w, pc)
         /\ \A u \in Workers : /\ call'[u].key = call[u].key /\ call'[u].val = call[u].val
                               /\ call'[u].lines = call[u].lines
BY DEF Goto, Moves, Calls

LEMMA IdleType == Idle \in Calls
<1>1. <<>> \in Seq(Line)
  OBVIOUS
<1> QED
  BY <1>1 DEF Idle, Calls, Steps

LEMMA ReplyMoves ==
  ASSUME NEW w \in Workers, NEW r \in {"ok", "error"}, call \in [Workers -> Calls],
         answer \in [Workers -> {"none", "ok", "error"}], Reply(w, r)
  PROVE  Moves(w, "idle") /\ answer' \in [Workers -> {"none", "ok", "error"}]
BY IdleType DEF Reply, Moves, Idle

-----------------------------------------------------------------------------
(* The initial states satisfy the invariant. *)
LEMMA InitInv == Init => IInv
<1> SUFFICES ASSUME Init PROVE IInv
  OBVIOUS
<1> USE FileAssumption, WidebandAssumption DEF Init
<1>1. file \in Seq(Line)
  OBVIOUS
<1>2. Junk \in Line
  BY DEF Junk, Line
<1>3. tmp \in Seq(Line)
  BY <1>2 DEF NoFile
<1>4. TypeOK
  <2>1. call \in [Workers -> Calls] /\ answer \in [Workers -> {"none", "ok", "error"}]
    BY IdleType
  <2>2. Locked
    BY DEF Locked, Idle, CfgSteps, ProcSteps
  <2>3. child \in Processes \cup {None} /\ lastExit \in {"ok", "fault"}
    OBVIOUS
  <2>4. /\ process \in [Processes -> {"none", "run", "ending", "zombie", "reaped"}]
        /\ status \in [Processes -> {"ok", "fault"}]
    OBVIOUS
  <2>5. failed \in BOOLEAN /\ orphaned \in BOOLEAN
    BY Zenon
  <2>6. cfgMtx \in Workers \cup {NoOne} /\ procMtx \in Workers \cup {NoOne}
    BY Zenon
  <2>7. calls \in 0 .. MaxCalls /\ restarts \in 0 .. MaxRestarts
    BY SMT
  <2> HIDE DEF Init
  <2> QED
    BY <1>1, <1>3, <2>1, <2>2, <2>3, <2>4, <2>5, <2>6, <2>7 DEF TypeOK
<1>5. SetInv
  BY DEF SetInv, Idle, CfgSteps
<1>6. ChildInv
  BY DEF ChildInv, NoStalePid, OneChild, LiveProcesses, Live, At, Idle
<1>7. OrderInv
  BY DEF OrderInv, LastExitTrue, Reaped
<1> QED
  BY <1>4, <1>5, <1>6, <1>7 DEF IInv

-----------------------------------------------------------------------------
(* One lemma per action: it preserves the invariant. *)

LEMMA RequestInv ==
  ASSUME IInv, NEW w \in Workers, Request(w)
  PROVE  IInv'
<1> USE DEF IInv
<1>1. PICK pc \in {"lock", "start", "stop", "diag"} : Moves(w, pc) /\ 
        (pc = "lock" => call'[w].key \in Keys /\ call'[w].val \in Values)
  <2>1. CASE \E k \in Keys, v \in Values :
               call' = [call EXCEPT ![w] = [pc |-> "lock", key |-> k, val |-> v, lines |-> <<>>]]
    <3>1. PICK k \in Keys, v \in Values :
            call' = [call EXCEPT ![w] = [pc |-> "lock", key |-> k, val |-> v, lines |-> <<>>]]
      BY <2>1
    <3>2. [pc |-> "lock", key |-> k, val |-> v, lines |-> <<>>] \in Calls
      BY DEF Calls, Steps
    <3>3. Moves(w, "lock") /\ call'[w].key = k /\ call'[w].val = v
      BY <3>1, <3>2 DEF Moves, TypeOK
    <3> QED
      BY <3>3
  <2>2. CASE \E entry \in {"start", "stop", "diag"} : Goto(w, entry)
    BY <2>2, GotoMoves DEF TypeOK, Steps
  <2> QED
    BY <2>1, <2>2 DEF Request
<1>2. At(w, "idle") /\ calls' = calls + 1 /\ calls < MaxCalls
      /\ UNCHANGED <<fileVars, cfgMtx, procMtx, answer, childVars, restarts, orphaned>>
  BY DEF Request
<1>3. Locked'
  BY <1>1, <1>2 DEF TypeOK, Locked, Moves, At, CfgSteps, ProcSteps
<1>4. TypeOK'
  BY <1>1, <1>2, <1>3, WidebandAssumption DEF TypeOK, Moves, fileVars, childVars
<1>5. SetInv'
  BY <1>1, <1>2 DEF SetInv, Moves, CfgSteps, fileVars
<1>6. ChildInv'
  BY <1>1, <1>2 DEF ChildInv, NoStalePid, OneChild, LiveProcesses, Live, At, Moves, childVars
<1>7. OrderInv'
  BY <1>2 DEF OrderInv, LastExitTrue, Reaped, childVars
<1> QED
  BY <1>4, <1>5, <1>6, <1>7

(* A step that leaves child_, the processes and procMtx alone, and of the   *)
(* calls changes one that is not about to fork, signal or wait.             *)
LEMMA ChildUntouched ==
  ASSUME ChildInv, OrderInv, NEW w \in Workers, NEW pc \in Steps \ ProcSteps,
         Moves(w, pc), UNCHANGED <<childVars, restarts, orphaned>>
  PROVE  ChildInv' /\ OrderInv'
<1>1. ChildInv'
  BY DEF ChildInv, NoStalePid, OneChild, LiveProcesses, Live, At, Moves, childVars, ProcSteps
<1>2. OrderInv'
  BY DEF OrderInv, LastExitTrue, Reaped, childVars
<1> QED
  BY <1>1, <1>2

LEMMA SetLockInv ==
  ASSUME IInv, NEW w \in Workers, SetLock(w)
  PROVE  IInv'
<1> USE DEF IInv
<1>1. Moves(w, "read")
      /\ call'[w].key = call[w].key /\ call'[w].val = call[w].val
  BY GotoMoves DEF SetLock, TypeOK, Steps, CfgSteps
<1>2. At(w, "lock") /\ cfgMtx = NoOne /\ cfgMtx' = w /\ UNCHANGED <<fileVars, answer, setFrame>>
  BY DEF SetLock
<1>3. Locked'
  BY <1>1, <1>2, WidebandAssumption DEF TypeOK, Locked, Moves, At, CfgSteps, ProcSteps, setFrame
<1>4. TypeOK'
  BY <1>1, <1>2, <1>3 DEF TypeOK, Moves, fileVars, setFrame, childVars, histVars
<1>5. SetInv'
  BY <1>1, <1>2 DEF SetInv, Moves, At, CfgSteps, fileVars
<1>6. ChildInv' /\ OrderInv'
  BY <1>1, <1>2, ChildUntouched DEF setFrame, histVars, Steps, CfgSteps, ProcSteps
<1> QED
  BY <1>4, <1>5, <1>6

(* The file is read whole, or the failure is recorded. *)
LEMMA Cut ==
  ASSUME NEW text \in Seq(Line), NEW n \in 0 .. Len(text)
  PROVE  SubSeq(text, 1, n) \in Seq(Line) /\ (n = Len(text) => SubSeq(text, 1, n) = text)
<1>1. \A i \in 1 .. n : text[i] \in Line
  BY ElementOfSeq
<1>2. /\ SubSeq(text, 1, n) \in Seq(Line)
      /\ Len(SubSeq(text, 1, n)) = n
      /\ \A i \in 1 .. n : SubSeq(text, 1, n)[i] = text[i]
  BY <1>1, SubSeqProperties
<1> QED
  BY <1>2, SeqEqual

LEMMA SetReadInv ==
  ASSUME IInv, NEW w \in Workers, SetRead(w)
  PROVE  IInv'
<1> USE DEF IInv
<1>1. PICK n \in 0 .. Len(file) :
        /\ call' = [call EXCEPT ![w] = [pc |-> "open", key |-> call[w].key, val |-> call[w].val,
                                        lines |-> SubSeq(file, 1, n)]]
        /\ failed' = (failed \/ n < Len(file))
  BY DEF SetRead
<1>2. At(w, "read") /\ UNCHANGED <<file, tmp, cfgMtx, answer, setFrame>>
  BY DEF SetRead
<1>3. SubSeq(file, 1, n) \in Seq(Line) /\ (n = Len(file) => SubSeq(file, 1, n) = file)
  BY Cut DEF TypeOK
<1>4. /\ Moves(w, "open")
      /\ call'[w].key = call[w].key /\ call'[w].val = call[w].val
      /\ call'[w].lines = SubSeq(file, 1, n)
  BY <1>1, <1>3 DEF Moves, TypeOK, Calls, Steps, CfgSteps
<1>5. Len(file) \in Nat /\ failed' \in BOOLEAN
  BY <1>1 DEF TypeOK
<1>6. ~failed' => ~failed /\ call'[w].lines = file
  <2>1. n < Len(file) \/ n = Len(file)
    BY <1>5
  <2> QED
    BY <2>1, <1>1, <1>3, <1>4, Zenon
<1>7. Locked'
  BY <1>2, <1>4 DEF TypeOK, Locked, Moves, At, CfgSteps, ProcSteps, setFrame
<1>8. TypeOK'
  BY <1>2, <1>4, <1>5, <1>7 DEF TypeOK, Moves, setFrame, childVars, histVars
<1>9. SetInv'
  BY <1>2, <1>4, <1>6 DEF SetInv, Moves, At, CfgSteps
<1>10. ChildInv' /\ OrderInv'
  BY <1>2, <1>4, ChildUntouched DEF setFrame, histVars, Steps, CfgSteps, ProcSteps
<1> QED
  BY <1>8, <1>9, <1>10

LEMMA SetOpenInv ==
  ASSUME IInv, NEW w \in Workers, SetOpen(w)
  PROVE  IInv'
<1> USE DEF IInv
<1>1. At(w, "open") /\ UNCHANGED <<file, failed, setFrame>>
  BY DEF SetOpen
<1>2. CASE tmp' = <<>> /\ Goto(w, "write") /\ UNCHANGED <<cfgMtx, answer>>
  <2>1. Moves(w, "write") /\ call'[w].key = call[w].key /\ call'[w].val = call[w].val
        /\ call'[w].lines = call[w].lines
    BY <1>2, GotoMoves DEF TypeOK, Steps, CfgSteps
  <2>2. Locked'
    BY <1>1, <1>2, <2>1 DEF TypeOK, Locked, Moves, At, CfgSteps, ProcSteps, setFrame
  <2>3. TypeOK'
    BY <1>1, <1>2, <2>1, <2>2 DEF TypeOK, Moves, setFrame, childVars, histVars
  <2>4. SetInv'
    BY <1>1, <1>2, <2>1, <2>2 DEF SetInv, TypeOK, Locked, Moves, At, CfgSteps
  <2>5. ChildInv' /\ OrderInv'
    BY <1>1, <2>1, ChildUntouched DEF setFrame, histVars, Steps, CfgSteps, ProcSteps
  <2> QED
    BY <2>3, <2>4, <2>5
<1>3. CASE Reply(w, "error") /\ cfgMtx' = NoOne /\ UNCHANGED tmp
  <2>1. Moves(w, "idle") /\ answer' \in [Workers -> {"none", "ok", "error"}]
    BY <1>3, ReplyMoves DEF TypeOK
  <2>2. Locked'
    BY <1>1, <1>3, <2>1, WidebandAssumption
       DEF TypeOK, Locked, Moves, At, CfgSteps, ProcSteps, setFrame
  <2>3. TypeOK'
    BY <1>1, <1>3, <2>1, <2>2 DEF TypeOK, Moves, setFrame, childVars, histVars
  <2>4. SetInv'
    BY <1>1, <1>3, <2>1 DEF SetInv, Moves, At, CfgSteps
  <2>5. ChildInv' /\ OrderInv'
    BY <1>1, <2>1, ChildUntouched DEF setFrame, histVars, Steps, ProcSteps
  <2> QED
    BY <2>3, <2>4, <2>5
<1> QED
  BY <1>2, <1>3 DEF SetOpen

LEMMA SetWriteInv ==
  ASSUME IInv, NEW w \in Workers, SetWrite(w)
  PROVE  IInv'
<1> USE DEF IInv
<1> DEFINE text == Rewritten(call[w].lines, call[w].key, call[w].val)
<1>1. At(w, "write") /\ Goto(w, "rename") /\ UNCHANGED <<file, cfgMtx, answer, setFrame>>
  BY DEF SetWrite
<1>2. PICK n \in 0 .. Len(text) : tmp' = SubSeq(text, 1, n) /\ failed' = (failed \/ n < Len(text))
  BY DEF SetWrite
<1>3. call[w].lines \in Seq(Line) /\ call[w].key \in Keys /\ call[w].val \in Values
  BY <1>1 DEF TypeOK, SetInv, Calls, CfgSteps, At
<1>4. text \in Seq(Line)
  BY <1>3, RewritesOneKey
<1> HIDE DEF text
<1>5. tmp' \in Seq(Line) /\ (n = Len(text) => tmp' = text)
  BY <1>2, <1>4, Cut
<1>6. Moves(w, "rename") /\ call'[w].key = call[w].key /\ call'[w].val = call[w].val
      /\ call'[w].lines = call[w].lines
  BY <1>1, GotoMoves DEF TypeOK, Steps, CfgSteps
<1>7. Len(text) \in Nat /\ failed' \in BOOLEAN
  BY <1>2, <1>4 DEF TypeOK
<1>8. ~failed' => ~failed /\ tmp' = text
  <2>1. n < Len(text) \/ n = Len(text)
    BY <1>7
  <2> QED
    BY <2>1, <1>2, <1>5, Zenon
<1>9. ~failed' => call'[w].lines = file' /\ tmp' = Rewritten(file', call'[w].key, call'[w].val)
  BY <1>1, <1>6, <1>8 DEF SetInv, text, At
<1>10. Locked'
  BY <1>1, <1>6 DEF TypeOK, Locked, Moves, At, CfgSteps, ProcSteps, setFrame
<1>11. TypeOK'
  BY <1>1, <1>5, <1>6, <1>7, <1>10 DEF TypeOK, Moves, setFrame, childVars, histVars
<1>12. \A u \in Workers : u # w => call[u].pc \notin CfgSteps
  BY <1>1 DEF TypeOK, Locked, At, CfgSteps
<1>13. SetInv'
  BY <1>1, <1>3, <1>6, <1>8, <1>9, <1>12 DEF SetInv, Moves, CfgSteps
<1>14. ChildInv' /\ OrderInv'
  BY <1>1, <1>6, ChildUntouched DEF setFrame, histVars, Steps, CfgSteps, ProcSteps
<1> QED
  BY <1>11, <1>13, <1>14

LEMMA SetRenameInv ==
  ASSUME IInv, NEW w \in Workers, SetRename(w)
  PROVE  IInv'
<1> USE DEF IInv
<1>1. At(w, "rename") /\ cfgMtx' = NoOne /\ UNCHANGED <<failed, setFrame>>
  BY DEF SetRename
<1>2. /\ Moves(w, "idle") \/ Moves(w, "note")
      /\ answer' \in [Workers -> {"none", "ok", "error"}]
  BY GotoMoves, ReplyMoves DEF SetRename, TypeOK, Steps
<1>3. file' \in Seq(Line) /\ tmp' \in Seq(Line)
  <2>1. NoFile \in Seq(Line)
    BY DEF NoFile, Junk, Line
  <2> QED
    BY <2>1 DEF SetRename, TypeOK
<1>4. Locked'
  BY <1>1, <1>2, WidebandAssumption DEF TypeOK, Locked, Moves, At, CfgSteps, ProcSteps, setFrame
<1>5. TypeOK'
  BY <1>1, <1>2, <1>3, <1>4 DEF TypeOK, Moves, setFrame, childVars, histVars
<1>6. SetInv'
  <2>1. \A u \in Workers : call'[u].pc \notin CfgSteps
    BY <1>1, <1>4, WidebandAssumption DEF Locked
  <2>2. \A u \in Workers : call'[u].pc = "lock" => call'[u] = call[u]
    BY <1>2 DEF Moves
  <2> QED
    BY <2>1, <2>2 DEF SetInv, CfgSteps
<1>7. ChildInv' /\ OrderInv'
  BY <1>1, <1>2, ChildUntouched DEF setFrame, histVars, Steps, ProcSteps
<1> QED
  BY <1>5, <1>6, <1>7

LEMMA SetSnapshotInv ==
  ASSUME IInv, NEW w \in Workers, SetSnapshot(w)
  PROVE  IInv'
<1> USE DEF IInv
<1>1. At(w, "snapshot") /\ UNCHANGED <<fileVars, cfgMtx, setFrame>>
  BY DEF SetSnapshot
<1>2. Moves(w, "idle") /\ answer' \in [Workers -> {"none", "ok", "error"}]
  BY ReplyMoves DEF SetSnapshot, TypeOK
<1>3. Locked'
  BY <1>1, <1>2 DEF TypeOK, Locked, Moves, At, CfgSteps, ProcSteps, setFrame
<1>4. TypeOK'
  BY <1>1, <1>2, <1>3 DEF TypeOK, Moves, fileVars, setFrame, childVars, histVars
<1>5. SetInv'
  BY <1>1, <1>2 DEF SetInv, Moves, CfgSteps, fileVars
<1>6. ChildInv' /\ OrderInv'
  BY <1>1, <1>2, ChildUntouched DEF setFrame, histVars, Steps, ProcSteps
<1> QED
  BY <1>4, <1>5, <1>6

-----------------------------------------------------------------------------
(* Process control. *)
ChildTypes ==
  /\ child \in Processes \cup {None} /\ lastExit \in {"ok", "fault"}
  /\ process \in [Processes -> {"none", "run", "ending", "zombie", "reaped"}]
  /\ status \in [Processes -> {"ok", "fault"}]

(* Reaping the process child_ names, and clearing child_, is safe. *)
LEMMA ReapSafe ==
  ASSUME TypeOK, ChildInv, OrderInv, child # None, process[child] = "zombie",
         process' = [process EXCEPT ![child] = "reaped"], lastExit' = status[child],
         child' = None, UNCHANGED <<status, restarts, orphaned>>
  PROVE  ChildTypes' /\ NoStalePid' /\ OneChild' /\ OrderInv'
<1>1. child \in Processes
  BY DEF TypeOK
<1>2. ChildTypes'
  BY <1>1 DEF ChildTypes, TypeOK
<1>3. \A p \in Processes : process'[p] = IF p = child THEN "reaped" ELSE process[p]
  BY DEF TypeOK
<1>4. NoStalePid' /\ OneChild'
  BY <1>3 DEF ChildInv, NoStalePid, OneChild, LiveProcesses, Live
<1>5. \A p, q \in Processes : p < q /\ process'[q] # "none" => process'[p] # "none"
  BY <1>1, <1>3 DEF OrderInv
<1>6. LastExitTrue'
  <2> SUFFICES ASSUME restarts = 0, NEW p \in Processes, process'[p] = "reaped",
                      \A q \in Processes : process'[q] = "reaped" => q <= p
               PROVE  lastExit' = status'[p]
    BY DEF LastExitTrue, Reaped
  <2>1. child <= p
    BY <1>1, <1>3
  <2>2. p <= child
    BY <1>1, <1>3 DEF OrderInv
  <2>3. p = child
    BY <1>1, <2>1, <2>2 DEF Processes
  <2> QED
    BY <2>3
<1>7. restarts' = 0 => \A p \in Processes : process'[p] \notin {"run", "ending", "zombie"}
  BY <1>3 DEF OrderInv
<1> QED
  BY <1>2, <1>4, <1>5, <1>6, <1>7 DEF OrderInv

LEMMA PollSafe ==
  ASSUME TypeOK, ChildInv, OrderInv, PollChild, UNCHANGED <<restarts, orphaned>>
  PROVE  /\ ChildTypes' /\ NoStalePid' /\ OneChild' /\ OrderInv'
         /\ IF Live(child) THEN child' = child ELSE child' = None
<1>1. CASE child = None \/ Live(child)
  <2>1. UNCHANGED childVars
    BY <1>1 DEF PollChild
  <2> QED
    BY <1>1, <2>1 DEF ChildTypes, TypeOK, ChildInv, NoStalePid, OneChild, LiveProcesses, Live,
                      OrderInv, LastExitTrue, Reaped, childVars
<1>2. CASE ~ (child = None \/ Live(child))
  <2>1. process[child] = "zombie"
    BY <1>2 DEF ChildInv, NoStalePid, Live
  <2>2. child' = None /\ process' = [process EXCEPT ![child] = "reaped"]
        /\ lastExit' = status[child] /\ UNCHANGED status
    BY <1>2, <2>1 DEF PollChild
  <2> QED
    BY <1>2, <2>1, <2>2, ReapSafe
<1> QED
  BY <1>1, <1>2

LEMMA SetNoteInv ==
  ASSUME IInv, NEW w \in Workers, SetNote(w)
  PROVE  IInv'
<1> USE DEF IInv
<1>1. At(w, "note") /\ procMtx = NoOne /\ UNCHANGED <<fileVars, cfgMtx, procMtx, answer, histVars>>
  BY DEF SetNote
<1>2. Moves(w, "snapshot")
  BY GotoMoves DEF SetNote, TypeOK, Steps
<1>3. ChildTypes' /\ NoStalePid' /\ OneChild' /\ OrderInv'
  BY <1>1, PollSafe DEF SetNote, histVars
<1>4. Locked'
  BY <1>1, <1>2 DEF TypeOK, Locked, Moves, At, CfgSteps, ProcSteps
<1>5. TypeOK'
  BY <1>1, <1>2, <1>3, <1>4 DEF TypeOK, ChildTypes, Moves, fileVars, histVars
<1>6. SetInv'
  BY <1>1, <1>2 DEF SetInv, Moves, CfgSteps, fileVars
<1>7. ChildInv'
  BY <1>1, <1>3, <1>4, WidebandAssumption DEF ChildInv, Locked, At, ProcSteps
<1> QED
  BY <1>3, <1>5, <1>6, <1>7

LEMMA DiagnosticsInv ==
  ASSUME IInv, NEW w \in Workers, Diagnostics(w)
  PROVE  IInv'
<1> USE DEF IInv
<1>1. At(w, "diag") /\ procMtx = NoOne /\ UNCHANGED <<fileVars, cfgMtx, procMtx, histVars>>
  BY DEF Diagnostics
<1>2. Moves(w, "idle") /\ answer' \in [Workers -> {"none", "ok", "error"}]
  BY ReplyMoves DEF Diagnostics, TypeOK
<1>3. ChildTypes' /\ NoStalePid' /\ OneChild' /\ OrderInv'
  BY <1>1, PollSafe DEF Diagnostics, histVars
<1>4. Locked'
  BY <1>1, <1>2 DEF TypeOK, Locked, Moves, At, CfgSteps, ProcSteps
<1>5. TypeOK'
  BY <1>1, <1>2, <1>3, <1>4 DEF TypeOK, ChildTypes, Moves, fileVars, histVars
<1>6. SetInv'
  BY <1>1, <1>2 DEF SetInv, Moves, CfgSteps, fileVars
<1>7. ChildInv'
  BY <1>1, <1>3, <1>4, WidebandAssumption DEF ChildInv, Locked, At, ProcSteps
<1> QED
  BY <1>3, <1>5, <1>6, <1>7

LEMMA StartLockInv ==
  ASSUME IInv, NEW w \in Workers, StartLock(w)
  PROVE  IInv'
<1> USE DEF IInv
<1>1. At(w, "start") /\ procMtx = NoOne /\ PollChild /\ UNCHANGED <<fileVars, cfgMtx, histVars>>
  BY DEF StartLock
<1>2. /\ ChildTypes' /\ NoStalePid' /\ OneChild' /\ OrderInv'
      /\ IF Live(child) THEN child' = child ELSE child' = None
  BY <1>1, PollSafe DEF histVars
<1>3. CASE Live(child)
  <2>1. Reply(w, "error") /\ UNCHANGED procMtx
    BY <1>3 DEF StartLock
  <2>2. Moves(w, "idle") /\ answer' \in [Workers -> {"none", "ok", "error"}]
    BY <2>1, ReplyMoves DEF TypeOK
  <2>3. Locked'
    BY <1>1, <2>1, <2>2 DEF TypeOK, Locked, Moves, At, CfgSteps, ProcSteps
  <2>4. TypeOK'
    BY <1>1, <1>2, <2>1, <2>2, <2>3 DEF TypeOK, ChildTypes, Moves, fileVars, histVars
  <2>5. SetInv'
    BY <1>1, <2>2 DEF SetInv, Moves, CfgSteps, fileVars
  <2>6. ChildInv'
    BY <1>1, <1>2, <2>1, <2>3, WidebandAssumption DEF ChildInv, Locked, At, ProcSteps
  <2> QED
    BY <1>2, <2>4, <2>5, <2>6
<1>4. CASE ~Live(child)
  <2>1. procMtx' = w /\ Goto(w, "fork") /\ UNCHANGED answer
    BY <1>4 DEF StartLock
  <2>2. Moves(w, "fork")
    BY <2>1, GotoMoves DEF TypeOK, Steps, ProcSteps
  <2>3. Locked'
    BY <1>1, <2>1, <2>2, WidebandAssumption DEF TypeOK, Locked, Moves, At, CfgSteps, ProcSteps
  <2>4. TypeOK'
    BY <1>1, <1>2, <2>1, <2>2, <2>3 DEF TypeOK, ChildTypes, Moves, fileVars, histVars
  <2>5. SetInv'
    BY <1>1, <2>2 DEF SetInv, Moves, CfgSteps, fileVars
  <2>6. ChildInv'
    BY <1>2, <1>4, <2>1, <2>2, <2>3 DEF ChildInv, Locked, Moves, At, ProcSteps
  <2> QED
    BY <1>2, <2>4, <2>5, <2>6
<1> QED
  BY <1>3, <1>4

LEMMA StartForkInv ==
  ASSUME IInv, NEW w \in Workers, StartFork(w)
  PROVE  IInv'
<1> USE DEF IInv
<1>1. At(w, "fork") /\ procMtx' = NoOne
      /\ UNCHANGED <<fileVars, cfgMtx, lastExit, status, histVars>>
  BY DEF StartFork
<1>2. Moves(w, "idle") /\ answer' \in [Workers -> {"none", "ok", "error"}]
  BY ReplyMoves DEF StartFork, TypeOK
<1>3. child = None
  BY <1>1 DEF ChildInv
<1>4. ChildTypes' /\ NoStalePid' /\ OneChild' /\ OrderInv'
  <2>1. CASE UNCHANGED <<process, child>>
    BY <1>1, <2>1 DEF TypeOK, ChildTypes, ChildInv, NoStalePid, OneChild, LiveProcesses, Live,
                      OrderInv, LastExitTrue, Reaped, histVars
  <2>2. ASSUME NEW p \in Processes, Fresh(p), process' = [process EXCEPT ![p] = "run"], child' = p
        PROVE  ChildTypes' /\ NoStalePid' /\ OneChild' /\ OrderInv'
    <3>1. \A q \in Processes : process'[q] = IF q = p THEN "run" ELSE process[q]
      BY <2>2 DEF TypeOK
    <3>2. ChildTypes'
      BY <1>1, <2>2 DEF ChildTypes, TypeOK
    <3>3. p \in Nat /\ p # None
      BY DEF Processes, None
    <3>4. NoStalePid'
      BY <2>2, <3>1 DEF NoStalePid
    <3>5. OneChild'
      BY <1>1, <1>3, <2>2, <3>1, <3>3
         DEF ChildInv, OneChild, LiveProcesses, Live, histVars, Processes, None
    <3>6. \A q, r \in Processes : q < r /\ process'[r] # "none" => process'[q] # "none"
      BY <2>2, <3>1, <3>3 DEF OrderInv, Fresh, Processes
    <3>7. ASSUME restarts = 0
          PROVE  \A q \in Processes : process'[q] # "none" => q <= p
      BY <2>2, <3>1, <3>3 DEF OrderInv, Fresh, Processes
    <3>8. ASSUME restarts = 0
          PROVE  \A q \in Processes : process'[q] \in {"run", "ending", "zombie"} => q = p
      BY <1>3, <3>1, <3>8 DEF OrderInv, Processes, None
    <3>9. LastExitTrue'
      <4>1. \A q \in Processes : process'[q] = "reaped" <=> process[q] = "reaped"
        BY <2>2, <3>1 DEF Fresh
      <4>2. Reaped' = Reaped
        BY <4>1 DEF Reaped
      <4> QED
        BY <1>1, <4>2 DEF OrderInv, LastExitTrue, histVars
    <3> QED
      BY <1>1, <2>2, <3>2, <3>4, <3>5, <3>6, <3>7, <3>8, <3>9 DEF OrderInv, histVars
  <2> QED
    BY <2>1, <2>2 DEF StartFork
<1>5. Locked'
  BY <1>1, <1>2, WidebandAssumption DEF TypeOK, Locked, Moves, At, CfgSteps, ProcSteps
<1>6. TypeOK'
  BY <1>1, <1>2, <1>4, <1>5 DEF TypeOK, ChildTypes, Moves, fileVars, histVars
<1>7. SetInv'
  BY <1>1, <1>2 DEF SetInv, Moves, CfgSteps, fileVars
<1>8. ChildInv'
  BY <1>1, <1>4, <1>5, WidebandAssumption DEF ChildInv, Locked, At, ProcSteps
<1> QED
  BY <1>4, <1>6, <1>7, <1>8

LEMMA StopLockInv ==
  ASSUME IInv, NEW w \in Workers, StopLock(w)
  PROVE  IInv'
<1> USE DEF IInv
<1>1. At(w, "stop") /\ procMtx = NoOne /\ PollChild /\ UNCHANGED <<fileVars, cfgMtx, histVars>>
  BY DEF StopLock
<1>2. /\ ChildTypes' /\ NoStalePid' /\ OneChild' /\ OrderInv'
      /\ IF Live(child) THEN child' = child ELSE child' = None
  BY <1>1, PollSafe DEF histVars
<1>3. CASE ~Live(child)
  <2>1. Reply(w, "error") /\ UNCHANGED procMtx
    BY <1>3 DEF StopLock
  <2>2. Moves(w, "idle") /\ answer' \in [Workers -> {"none", "ok", "error"}]
    BY <2>1, ReplyMoves DEF TypeOK
  <2>3. Locked'
    BY <1>1, <2>1, <2>2 DEF TypeOK, Locked, Moves, At, CfgSteps, ProcSteps
  <2>4. TypeOK'
    BY <1>1, <1>2, <2>1, <2>2, <2>3 DEF TypeOK, ChildTypes, Moves, fileVars, histVars
  <2>5. SetInv'
    BY <1>1, <2>2 DEF SetInv, Moves, CfgSteps, fileVars
  <2>6. ChildInv'
    BY <1>1, <1>2, <2>1, <2>3, WidebandAssumption DEF ChildInv, Locked, At, ProcSteps
  <2> QED
    BY <1>2, <2>4, <2>5, <2>6
<1>4. CASE Live(child)
  <2>1. procMtx' = w /\ Goto(w, "kill") /\ UNCHANGED answer
    BY <1>4 DEF StopLock
  <2>2. Moves(w, "kill")
    BY <2>1, GotoMoves DEF TypeOK, Steps, ProcSteps
  <2>3. Locked'
    BY <1>1, <2>1, <2>2, WidebandAssumption DEF TypeOK, Locked, Moves, At, CfgSteps, ProcSteps
  <2>4. TypeOK'
    BY <1>1, <1>2, <2>1, <2>2, <2>3 DEF TypeOK, ChildTypes, Moves, fileVars, histVars
  <2>5. SetInv'
    BY <1>1, <2>2 DEF SetInv, Moves, CfgSteps, fileVars
  <2>6. child' # None
    BY <1>2, <1>4 DEF Live
  <2>7. ChildInv'
    BY <1>2, <2>1, <2>2, <2>3, <2>6 DEF ChildInv, Locked, Moves, At, ProcSteps
  <2> QED
    BY <1>2, <2>4, <2>5, <2>7
<1> QED
  BY <1>3, <1>4

LEMMA StopKillInv ==
  ASSUME IInv, NEW w \in Workers, StopKill(w)
  PROVE  IInv'
<1> USE DEF IInv
<1>1. At(w, "kill")
      /\ UNCHANGED <<fileVars, cfgMtx, procMtx, answer, child, lastExit, status, histVars>>
  BY DEF StopKill
<1>2. Moves(w, "reap")
  BY GotoMoves DEF StopKill, TypeOK, Steps, ProcSteps
<1>3. child # None /\ child \in Processes
  BY <1>1 DEF ChildInv, TypeOK, At
<1>4. /\ process' \in [Processes -> {"none", "run", "ending", "zombie", "reaped"}]
      /\ \A p \in Processes :
           \/ process'[p] = process[p]
           \/ p = child /\ process[p] = "run" /\ process'[p] = "ending"
  BY <1>3 DEF StopKill, TypeOK
<1>5. OrderInv'
  <2>1. Reaped' = Reaped
    BY <1>4 DEF Reaped
  <2> QED
    BY <1>1, <1>4, <2>1 DEF OrderInv, LastExitTrue, histVars
<1>6. Locked'
  BY <1>1, <1>2 DEF TypeOK, Locked, Moves, At, CfgSteps, ProcSteps
<1>7. TypeOK'
  BY <1>1, <1>2, <1>4, <1>6 DEF TypeOK, Moves, fileVars, histVars
<1>8. SetInv'
  BY <1>1, <1>2 DEF SetInv, Moves, CfgSteps, fileVars
<1>9. NoStalePid' /\ OneChild'
  BY <1>1, <1>3, <1>4 DEF ChildInv, NoStalePid, OneChild, LiveProcesses, Live, histVars
<1>10. ChildInv'
  BY <1>1, <1>2, <1>3, <1>9 DEF ChildInv, Moves, At
<1> QED
  BY <1>5, <1>7, <1>8, <1>10

LEMMA StopReapInv ==
  ASSUME IInv, NEW w \in Workers, StopReap(w)
  PROVE  IInv'
<1> USE DEF IInv
<1>1. At(w, "reap") /\ procMtx' = NoOne /\ UNCHANGED <<fileVars, cfgMtx, status, histVars>>
  BY DEF StopReap
<1>2. Moves(w, "idle") /\ answer' \in [Workers -> {"none", "ok", "error"}]
  BY ReplyMoves DEF StopReap, TypeOK
<1>3. child # None
  BY <1>1 DEF ChildInv, At
<1>4. ChildTypes' /\ NoStalePid' /\ OneChild' /\ OrderInv'
  BY <1>1, <1>3, ReapSafe DEF StopReap, histVars
<1>5. Locked'
  BY <1>1, <1>2, WidebandAssumption DEF TypeOK, Locked, Moves, At, CfgSteps, ProcSteps
<1>6. TypeOK'
  BY <1>1, <1>2, <1>4, <1>5 DEF TypeOK, ChildTypes, Moves, fileVars, histVars
<1>7. SetInv'
  BY <1>1, <1>2 DEF SetInv, Moves, CfgSteps, fileVars
<1>8. ChildInv'
  BY <1>1, <1>4, <1>5, WidebandAssumption DEF ChildInv, Locked, At, ProcSteps
<1> QED
  BY <1>4, <1>6, <1>7, <1>8

LEMMA ProcessEndsInv ==
  ASSUME IInv, NEW p \in Processes, ProcessEnds(p)
  PROVE  IInv'
<1> USE DEF IInv
<1>1. /\ Live(p) /\ process' = [process EXCEPT ![p] = "zombie"]
      /\ UNCHANGED <<fileVars, cfgMtx, procMtx, call, answer, child, lastExit, histVars>>
  BY DEF ProcessEnds
<1>2. PICK s \in {"ok", "fault"} : status' = [status EXCEPT ![p] = s]
  BY DEF ProcessEnds
<1>3. ChildTypes'
  BY <1>1, <1>2 DEF ChildTypes, TypeOK
<1>4. \A q \in Processes : /\ process'[q] = IF q = p THEN "zombie" ELSE process[q]
                           /\ q # p => status'[q] = status[q]
  BY <1>1, <1>2 DEF TypeOK
<1>5. \A q \in Processes : process'[q] = "reaped" => process[q] = "reaped" /\ status'[q] = status[q]
  BY <1>4
<1>6. \A q \in Processes : process[q] = "reaped" => process'[q] = "reaped"
  BY <1>1, <1>4 DEF Live
<1>7. LastExitTrue'
  BY <1>1, <1>5, <1>6 DEF OrderInv, LastExitTrue, Reaped, histVars
<1>8. OrderInv'
  BY <1>1, <1>4, <1>7 DEF OrderInv, Live, histVars
<1>9. ChildInv'
  BY <1>1, <1>4 DEF ChildInv, NoStalePid, OneChild, LiveProcesses, Live, At, histVars, TypeOK
<1>10. TypeOK'
  BY <1>1, <1>3 DEF TypeOK, ChildTypes, Locked, fileVars, histVars
<1>11. SetInv'
  BY <1>1 DEF SetInv, fileVars
<1> QED
  BY <1>8, <1>9, <1>10, <1>11

LEMMA RestartInv ==
  ASSUME IInv, Restart
  PROVE  IInv'
<1> USE DEF IInv
<1>1. /\ restarts < MaxRestarts /\ restarts' = restarts + 1
      /\ cfgMtx' = NoOne /\ procMtx' = NoOne
      /\ call' = [w \in Workers |-> Idle] /\ answer' = [w \in Workers |-> "none"]
      /\ child' = None /\ lastExit' = "ok"
      /\ orphaned' = (orphaned \/ LiveProcesses # {})
      /\ UNCHANGED <<fileVars, process, status, calls>>
  BY DEF Restart
<1>2. \A w \in Workers : call'[w].pc = "idle"
  BY <1>1 DEF Idle
<1>3. Locked'
  BY <1>1, <1>2, WidebandAssumption DEF Locked, CfgSteps, ProcSteps
<1>4. restarts' \in 0 .. MaxRestarts /\ restarts' # 0
  BY <1>1, WidebandAssumption DEF TypeOK
<1>5. call' \in [Workers -> Calls] /\ answer' \in [Workers -> {"none", "ok", "error"}]
  BY <1>1, IdleType
<1>6. orphaned' \in BOOLEAN
  BY <1>1 DEF TypeOK
<1>7. TypeOK'
  BY <1>1, <1>3, <1>4, <1>5, <1>6 DEF TypeOK, fileVars
<1>8. SetInv'
  BY <1>2 DEF SetInv, CfgSteps
<1>9. OneChild'
  <2>1. LiveProcesses' = LiveProcesses
    BY <1>1 DEF LiveProcesses, Live
  <2> QED
    BY <1>1, <2>1, Zenon DEF OneChild
<1>10. ChildInv'
  BY <1>1, <1>2, <1>9 DEF ChildInv, NoStalePid, At
<1>11. OrderInv'
  BY <1>1, <1>4 DEF OrderInv, LastExitTrue
<1> QED
  BY <1>7, <1>8, <1>10, <1>11

-----------------------------------------------------------------------------
(* The invariant is inductive. *)
LEMMA NextInv == IInv /\ [Next]_vars => IInv'
<1> SUFFICES ASSUME IInv, [Next]_vars PROVE IInv'
  OBVIOUS
<1>1. CASE UNCHANGED vars
  <2>1. UNCHANGED <<fileVars, cfgMtx, procMtx, call, answer, childVars, histVars>>
    BY <1>1 DEF vars
  <2>2. TypeOK' /\ SetInv'
    BY <2>1 DEF IInv, TypeOK, Locked, SetInv, fileVars, childVars, histVars
  <2>3. ChildInv'
    BY <2>1 DEF IInv, ChildInv, NoStalePid, OneChild, LiveProcesses, Live, At, childVars, histVars
  <2>4. OrderInv'
    BY <2>1 DEF IInv, OrderInv, LastExitTrue, Reaped, childVars, histVars
  <2> QED
    BY <2>2, <2>3, <2>4 DEF IInv
<1>2. ASSUME NEW w \in Workers, Request(w) \/ WorkerStep(w)
      PROVE  IInv'
  BY <1>2, RequestInv, SetLockInv, SetReadInv, SetOpenInv, SetWriteInv, SetRenameInv, SetNoteInv,
     SetSnapshotInv, DiagnosticsInv, StartLockInv, StartForkInv, StopLockInv, StopKillInv,
     StopReapInv DEF WorkerStep
<1> QED
  BY <1>1, <1>2, ProcessEndsInv, RestartInv DEF Next

(* The invariant holds of every behaviour of the server: any number of      *)
(* workers, calls and restarts, any text.                                   *)
THEOREM Inductive == Spec => []IInv
BY InitInv, NextInv, PTL DEF Spec

(* The types are kept, and a worker between an acquisition and a release    *)
(* is the one that holds the mutex (TypeOK).                                *)
THEOREM TypeCorrect == Spec => []TypeOK
<1>1. IInv => TypeOK
  BY DEF IInv
<1> QED
  BY <1>1, Inductive, PTL

(* kill and waitpid never get the pid of a process already reaped           *)
(* (NoStalePid).                                                            *)
THEOREM PidFresh == Spec => []NoStalePid
<1>1. IInv => NoStalePid
  BY DEF IInv, ChildInv
<1> QED
  BY <1>1, Inductive, PTL

(* Until a restart leaves one behind, at most one playback process lives    *)
(* and child_ names it (OneChild).                                          *)
THEOREM SingleChild == Spec => []OneChild
<1>1. IInv => OneChild
  BY DEF IInv, ChildInv
<1> QED
  BY <1>1, Inductive, PTL

(* last_exit_ is the exit status of the last process reaped (LastExitTrue). *)
THEOREM ExitReported == Spec => []LastExitTrue
<1>1. IInv => LastExitTrue
  BY DEF IInv, OrderInv
<1> QED
  BY <1>1, Inductive, PTL

(* The steps that answer a Stop call leave no playback process alive        *)
(* (StopEndsChild).                                                         *)
LEMMA StopStep ==
  ASSUME IInv, [Next]_vars, NEW w \in Workers, At(w, "reap"), call'[w] = Idle,
         answer'[w] = "ok", ~orphaned, NEW p \in Processes
  PROVE  process'[p] \notin {"run", "ending"}
<1>1. call[w].pc = "reap" /\ call'[w] # call[w]
  BY DEF At, Idle
<1>2. ~ Restart
  BY DEF Restart
<1>3. \A q \in Processes : ~ ProcessEnds(q)
  BY <1>1 DEF ProcessEnds
<1>4. \A u \in Workers : Request(u) => u = w
  BY <1>1 DEF Request, Goto, IInv, TypeOK
<1>5. \A u \in Workers : WorkerStep(u) => u = w
  BY <1>1 DEF WorkerStep, SetLock, SetRead, SetOpen, SetWrite, SetRename, SetNote, SetSnapshot,
              Diagnostics, StartLock, StartFork, StopLock, StopKill, StopReap, Goto, Reply,
              IInv, TypeOK
<1>6. Request(w) \/ WorkerStep(w)
  BY <1>1, <1>2, <1>3, <1>4, <1>5 DEF Next, vars
<1>7. StopReap(w)
  BY <1>1, <1>6 DEF Request, WorkerStep, SetLock, SetRead, SetOpen, SetWrite, SetRename, SetNote,
                    SetSnapshot, Diagnostics, StartLock, StartFork, StopLock, StopKill, At
<1>8. process[child] = "zombie" /\ process' = [process EXCEPT ![child] = "reaped"]
  BY <1>7 DEF StopReap
<1> QED
  BY <1>8 DEF IInv, TypeOK, ChildInv, OneChild, LiveProcesses, Live, Processes, None

THEOREM StopStops == Spec => StopEndsChild
<1>1. IInv /\ [Next]_vars =>
        [\A w \in Workers : (At(w, "reap") /\ call'[w] = Idle /\ answer'[w] = "ok" /\ ~orphaned) =>
           \A p \in Processes : process'[p] \notin {"run", "ending"}]_vars
  BY StopStep
<1> QED
  BY <1>1, Inductive, PTL DEF Spec, StopEndsChild

-----------------------------------------------------------------------------
(* The server implements the configuration store: its steps are Set steps   *)
(* of the store, failures, or leave config.ini alone.                       *)

\* A failed read or write is the store's Damage, a good one a stutter.
LEMMA FailureMaps ==
  ASSUME file' = file, file \in Seq(Line), failed' = failed \/ failed' = TRUE
  PROVE  [Store!Next]_<<file, failed>>
<1>1. CASE failed' = failed
  BY <1>1
<1>2. CASE failed' = TRUE
  BY <1>2 DEF Store!Next, Store!Damage, Line, Store!Line
<1> QED
  BY <1>1, <1>2

LEMMA RenameMaps ==
  ASSUME IInv, NEW w \in Workers, SetRename(w)
  PROVE  [Store!Next]_<<file, failed>>
<1> DEFINE k == call[w].key
           v == call[w].val
<1>1. At(w, "rename") /\ failed' = failed /\ (file' = tmp \/ file' = file)
  BY DEF SetRename
<1>2. CASE file' = file
  BY <1>1, <1>2
<1>3. CASE file' = tmp /\ failed
  <2>1. failed' = TRUE /\ file' \in Seq(Line)
    BY <1>1, <1>3 DEF IInv, TypeOK
  <2> QED
    BY <2>1 DEF Store!Next, Store!Damage, Line, Store!Line
<1>4. CASE file' = tmp /\ ~failed
  <2>1. k \in Keys /\ v \in Values /\ call[w].lines = file /\ tmp = Rewritten(file, k, v)
    BY <1>1, <1>4 DEF IInv, SetInv, CfgSteps, At
  <2>2. file \in Seq(Line)
    BY DEF IInv, TypeOK
  <2>3. file' \in Seq(Line) /\ OnlyKey(file, file', k) /\ FirstOf(file', k) = v
    BY <1>4, <2>1, <2>2, RewritesOneKey
  <2>4. Store!Set(k, v)
    BY <1>1, <1>4, <2>3
       DEF Store!Set, Line, Store!Line, OnlyKey, Store!OnlyKey, FirstOf, Store!FirstOf,
           LinesOf, Store!LinesOf, Min, Store!Min
  <2> QED
    BY <2>1, <2>4 DEF Store!Next
<1> QED
  BY <1>1, <1>2, <1>3, <1>4

LEMMA StepMaps == IInv /\ [Next]_vars => [Store!Next]_<<file, failed>>
<1> SUFFICES ASSUME IInv, [Next]_vars PROVE [Store!Next]_<<file, failed>>
  OBVIOUS
<1>1. CASE UNCHANGED vars \/ Restart \/ \E p \in Processes : ProcessEnds(p)
  BY <1>1 DEF vars, fileVars, Restart, ProcessEnds
<1>2. ASSUME NEW w \in Workers, Request(w) \/ WorkerStep(w)
      PROVE  [Store!Next]_<<file, failed>>
  <2>1. CASE SetRead(w) \/ SetWrite(w)
    <3>1. file' = file /\ (failed' = failed \/ failed' = TRUE)
      BY <2>1 DEF SetRead, SetWrite, IInv, TypeOK
    <3> QED
      BY <3>1, FailureMaps DEF IInv, TypeOK
  <2>2. CASE SetRename(w)
    BY <2>2, RenameMaps
  <2>3. CASE ~ (SetRead(w) \/ SetWrite(w) \/ SetRename(w))
    BY <1>2, <2>3 DEF WorkerStep, Request, SetLock, SetOpen, SetNote, SetSnapshot, Diagnostics,
                      StartLock, StartFork, StopLock, StopKill, StopReap, fileVars
  <2> QED
    BY <2>1, <2>2, <2>3
<1> QED
  BY <1>1, <1>2 DEF Next

(* Whatever the overlap of the calls and wherever the server dies, until a  *)
(* read or a write fails config.ini changes by whole Set calls (StoreSpec). *)
THEOREM Refinement == Spec => StoreSpec
<1>1. Init => Store!Init
  BY DEF Init, Store!Init
<1> QED
  BY <1>1, Inductive, StepMaps, PTL DEF Spec, StoreSpec, Store!Spec
=============================================================================
