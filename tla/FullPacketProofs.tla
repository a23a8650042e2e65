-------------------------- MODULE FullPacketProofs --------------------------
(***************************************************************************)
(* The safety properties of FullPacket, for any number of mbufs, any       *)
(* capacities of the rings and any bursts.  Together with the types they   *)
(* are inductive: the bounds of pool and rings need the sum of Conserved,  *)
(* the sum needs the bounds.                                               *)
(***************************************************************************)
EXTENDS FullPacket, TLAPS

Flags == [sized : BOOLEAN, version : BOOLEAN, running : BOOLEAN, rt : BOOLEAN,
          dsp : BOOLEAN, ready : BOOLEAN]

(* The parts of the state that the three properties are about. *)
Segs     == seg \in [Segments -> Flags]
Control  == /\ linked \in Segments \cup {"none"}
            /\ plat \in PlatformStates /\ gate \in BOOLEAN
            /\ stop \in BOOLEAN /\ orphaned \in BOOLEAN
AppTyped == app \in [pc : AppStates, seg : Segments, draining : BOOLEAN]
Counts   == /\ pool \in Nat /\ hand \in 0 .. FeedBurst
            /\ rx \in 0 .. RxCapacity /\ ret \in 0 .. RetCapacity
            /\ held \in 0 .. RxBurst /\ lost \in Nat
            /\ pool + hand + rx + held + ret + lost = NumMbufs
OwesInReturn == held > 0 => app.pc = "return"

IInv == Segs /\ Control /\ AppTyped /\ Counts /\ OwesInReturn /\ ReadyMeansServed

LEMMA Sizes == /\ NumMbufs \in Nat /\ RxCapacity \in Nat /\ RetCapacity \in Nat
               /\ RxBurst \in Nat /\ FeedBurst \in Nat /\ RxBurst > 0
  BY FullPacketAssumption

(* The invariant is what the run checks. *)
LEMMA IInvGives == IInv <=> TypeOK /\ Conserved /\ ReadyMeansServed
<1>1. IInv => TypeOK
  BY Sizes DEF IInv, Segs, Control, AppTyped, Counts, TypeOK, Flags
<1>2. IInv => Conserved
  BY DEF IInv, Counts, OwesInReturn, Conserved, AppAt
<1>3. TypeOK /\ Conserved /\ ReadyMeansServed => IInv
  BY Sizes DEF IInv, Segs, Control, AppTyped, Counts, OwesInReturn, TypeOK, Flags, Conserved, AppAt
<1> QED BY <1>1, <1>2, <1>3 DEF IInv

LEMMA InitHolds == Init => IInv
<1> SUFFICES ASSUME Init PROVE IInv
  OBVIOUS
<1>1. Segs /\ seg["new"].ready = FALSE
  BY DEF Init, Segs, Flags, Blank, Segments
<1>2. Control
  BY DEF Init, Control, Segments, PlatformStates
<1>3. AppTyped /\ app.pc = "off"
  BY DEF Init, AppTyped, AppStates, Segments
<1>4. Counts /\ held = 0
  BY Sizes DEF Init, Counts
<1> QED
  BY <1>1, <1>2, <1>3, <1>4 DEF IInv, OwesInReturn, ReadyMeansServed

-----------------------------------------------------------------------------
(* Platform.  No step of it touches the application, nor dsp_ready. *)

LEMMA ReadyKept ==
  ASSUME IInv, seg' \in [Segments -> Flags], seg'["new"].ready = seg["new"].ready,
         UNCHANGED <<app, orphaned>>
  PROVE  ReadyMeansServed'
  BY DEF IInv, ReadyMeansServed

LEMMA PlatformPreserves ==
  ASSUME IInv, UNCHANGED appVars, linked' \in Segments \cup {"none"}, plat' \in PlatformStates,
         gate' \in BOOLEAN, Segs', seg'["new"].ready = seg["new"].ready, UNCHANGED held, Counts'
  PROVE  IInv'
<1>1. app' = app /\ orphaned' = orphaned /\ stop' = stop
  BY DEF appVars
<1>2. Control'
  BY <1>1 DEF IInv, Control
<1>3. AppTyped' /\ OwesInReturn'
  BY <1>1 DEF IInv, AppTyped, OwesInReturn
<1>4. ReadyMeansServed'
  BY <1>1, ReadyKept DEF Segs
<1> QED BY <1>2, <1>3, <1>4 DEF IInv

LEMMA UntouchedCounts ==
  ASSUME IInv, UNCHANGED mbufs
  PROVE  Counts' /\ UNCHANGED held
  BY DEF IInv, Counts, mbufs

LEMMA UntouchedSegs ==
  ASSUME IInv, UNCHANGED seg
  PROVE  Segs' /\ seg'["new"].ready = seg["new"].ready
  BY DEF IInv, Segs

(* One flag of the new segment other than dsp_ready is set. *)
LEMMA FlagSet ==
  ASSUME IInv, NEW f \in {"sized", "version", "running", "rt", "dsp"}, NEW b \in BOOLEAN,
         seg' = [seg EXCEPT !["new"] = [seg["new"] EXCEPT ![f] = b]]
  PROVE  Segs' /\ seg'["new"].ready = seg["new"].ready
  BY DEF IInv, Segs, Flags, Segments

LEMMA CreatePreserves == ASSUME IInv, Create \/ Boot \/ CtrlDestroy PROVE IInv'
<1>1. CASE Boot
  BY <1>1, PlatformPreserves, UntouchedCounts, UntouchedSegs
     DEF Boot, PlatStep, IInv, Control, PlatformStates
<1>2. CASE CtrlUnlink
  BY <1>2, PlatformPreserves, UntouchedCounts, UntouchedSegs
     DEF CtrlUnlink, PlatStep, IInv, Control, PlatformStates
<1>3. CASE CtrlOpen
  BY <1>3, PlatformPreserves, UntouchedCounts, UntouchedSegs
     DEF CtrlOpen, PlatStep, IInv, Control, PlatformStates, Segments
<1>4. CASE CtrlSize
  <2>1. Segs' /\ seg'["new"].ready = seg["new"].ready
    BY <1>4 DEF CtrlSize, IInv, Segs, Flags, Segments
  <2> QED BY <1>4, <2>1, PlatformPreserves, UntouchedCounts
     DEF CtrlSize, PlatStep, IInv, Control, PlatformStates
<1>5. CASE CtrlVersion
  <2>1. Segs' /\ seg'["new"].ready = seg["new"].ready
    BY <1>5 DEF CtrlVersion, IInv, Segs, Flags, Segments
  <2> QED BY <1>5, <2>1, PlatformPreserves, UntouchedCounts
     DEF CtrlVersion, PlatStep, IInv, Control, PlatformStates
<1>6. CASE CtrlFlags
  <2>1. Segs' /\ seg'["new"].ready = seg["new"].ready
    BY <1>6 DEF CtrlFlags, IInv, Segs, Flags, Segments
  <2> QED BY <1>6, <2>1, PlatformPreserves, UntouchedCounts
     DEF CtrlFlags, PlatStep, IInv, Control, PlatformStates
<1>7. CASE PipelineUp
  <2>1. Segs' /\ seg'["new"].ready = seg["new"].ready
    BY <1>7 DEF PipelineUp, IInv, Segs, Flags, Segments
  <2> QED BY <1>7, <2>1, PlatformPreserves, UntouchedCounts
     DEF PipelineUp, PlatStep, IInv, Control, PlatformStates
<1>8. CASE CtrlDestroy
  BY <1>8, PlatformPreserves, UntouchedCounts, UntouchedSegs
     DEF CtrlDestroy, PlatStep, IInv, Control, PlatformStates
<1> QED BY <1>1, <1>2, <1>3, <1>4, <1>5, <1>6, <1>7, <1>8 DEF Create

LEMMA ServingPreserves ==
  ASSUME IInv, PipelineDown \/ PlatformDies \/ SetFullPacket \/ SyncFlags
  PROVE  IInv'
<1>1. CASE PipelineDown
  <2>1. Segs' /\ seg'["new"].ready = seg["new"].ready
    BY <1>1 DEF PipelineDown, IInv, Segs, Flags, Segments
  <2> QED BY <1>1, <2>1, PlatformPreserves, UntouchedCounts
     DEF PipelineDown, PlatStep, IInv, Control, PlatformStates
<1>2. CASE PlatformDies
  BY <1>2, PlatformPreserves, UntouchedCounts, UntouchedSegs
     DEF PlatformDies, PlatStep, IInv, Control, PlatformStates
<1>3. CASE SetFullPacket
  <2>1. Segs' /\ seg'["new"].ready = seg["new"].ready
    BY <1>3 DEF SetFullPacket, IInv, Segs, Flags, Segments
  <2>2. plat' = plat /\ gate' = gate
    BY <1>3 DEF SetFullPacket, platVars
  <2> QED BY <1>3, <2>1, <2>2, PlatformPreserves, UntouchedCounts
     DEF SetFullPacket, IInv, Control
<1>4. CASE SyncFlags
  <2>1. gate' \in BOOLEAN
    BY <1>4 DEF SyncFlags, IInv, Segs, Flags, Segments
  <2> QED BY <1>4, <2>1, PlatformPreserves, UntouchedCounts, UntouchedSegs
     DEF SyncFlags, IInv, Control
<1> QED BY <1>1, <1>2, <1>3, <1>4

LEMMA FeedPreserves == ASSUME IInv, FeedDecide \/ FeedEnqueue \/ Reclaim PROVE IInv'
<1>1. CASE FeedDecide
  <2>1. Counts' /\ UNCHANGED held
    BY <1>1, Sizes DEF FeedDecide, IInv, Counts, Lesser
  <2>2. plat' = plat /\ gate' = gate
    BY <1>1 DEF FeedDecide, platVars
  <2> QED BY <1>1, <2>1, <2>2, PlatformPreserves, UntouchedSegs DEF FeedDecide, IInv, Control
<1>2. CASE FeedEnqueue
  <2>1. Counts' /\ UNCHANGED held
    BY <1>2, Sizes DEF FeedEnqueue, IInv, Counts, Lesser
  <2>2. plat' = plat /\ gate' = gate
    BY <1>2 DEF FeedEnqueue, platVars
  <2> QED BY <1>2, <2>1, <2>2, PlatformPreserves, UntouchedSegs DEF FeedEnqueue, IInv, Control
<1>3. CASE Reclaim
  <2>1. Counts' /\ UNCHANGED held
    BY <1>3, Sizes DEF Reclaim, IInv, Counts
  <2>2. plat' = plat /\ gate' = gate
    BY <1>3 DEF Reclaim, platVars
  <2> QED BY <1>3, <2>1, <2>2, PlatformPreserves, UntouchedSegs DEF Reclaim, IInv, Control
<1> QED BY <1>1, <1>2, <1>3

-----------------------------------------------------------------------------
(* Application. *)

LEMMA AppUntouched ==
  ASSUME UNCHANGED appFrame
  PROVE  /\ linked' = linked /\ plat' = plat /\ gate' = gate /\ orphaned' = orphaned
         /\ pool' = pool /\ hand' = hand /\ lost' = lost
  BY DEF appFrame, platVars

(* A step that leaves segments and mbufs alone need only not begin to serve, *)
(* nor to owe, out of nothing.                                               *)
LEMMA AppMovePreserves ==
  ASSUME IInv, UNCHANGED appFrame, UNCHANGED <<seg, rx, ret, held>>, stop' \in BOOLEAN,
         AppTyped', app.pc # "return",
         app.pc \in Serving /\ app.seg = "new" => app'.pc \in Serving /\ app'.seg = "new"
  PROVE  IInv'
<1> USE AppUntouched
<1>1. Segs' /\ Control'
  BY DEF IInv, Segs, Control
<1>2. Counts' /\ OwesInReturn'
  BY DEF IInv, Counts, OwesInReturn
<1>3. ReadyMeansServed'
  BY DEF IInv, ReadyMeansServed
<1> QED BY <1>1, <1>2, <1>3 DEF IInv

LEMMA GotoTyped ==
  ASSUME IInv, NEW pc \in AppStates, AppGoto(pc)
  PROVE  AppTyped' /\ app'.pc = pc /\ app'.seg = app.seg
  BY DEF IInv, AppTyped, AppGoto

LEMMA ComingPreserves ==
  ASSUME IInv, AppStart \/ AppAttach \/ AppCheck \/ AppWait \/ AppLookup
  PROVE  IInv'
<1>0. stop \in BOOLEAN
  BY DEF IInv, Control
<1>1. CASE AppStart
  <2>1. AppTyped'
    BY <1>1, GotoTyped DEF AppStart, AppStates
  <2> QED BY <1>1, <2>1, AppMovePreserves DEF AppStart, Serving
<1>2. CASE AppAttach
  <2>1. AppTyped'
    <3>1. CASE linked = "none"
      BY <1>2, <3>1, GotoTyped DEF AppAttach, AppStates
    <3>2. CASE linked # "none"
      <4>1. app' = [pc |-> "check", seg |-> linked, draining |-> FALSE]
        BY <1>2, <3>2 DEF AppAttach
      <4>2. linked \in Segments
        BY <3>2 DEF IInv, Control
      <4> QED BY <4>1, <4>2 DEF AppTyped, AppStates
    <3> QED BY <3>1, <3>2
  <2> QED BY <1>0, <1>2, <2>1, AppMovePreserves DEF AppAttach, AppAt, Serving
<1>3. CASE AppCheck
  <2>1. AppTyped'
    BY <1>3, GotoTyped DEF AppCheck, AppStates
  <2> QED BY <1>0, <1>3, <2>1, AppMovePreserves DEF AppCheck, AppAt, Serving
<1>4. CASE AppWait
  <2>1. AppTyped'
    BY <1>4, GotoTyped DEF AppWait, AppStates
  <2> QED BY <1>0, <1>4, <2>1, AppMovePreserves DEF AppWait, AppAt, Serving
<1>5. CASE AppLookup
  <2>1. AppTyped'
    BY <1>5, GotoTyped DEF AppLookup, AppStates
  <2> QED BY <1>0, <1>5, <2>1, AppMovePreserves DEF AppLookup, AppAt, Serving
<1> QED BY <1>1, <1>2, <1>3, <1>4, <1>5

(* dsp_ready of the attached segment is stored. *)
LEMMA ReadyStored ==
  ASSUME IInv, NEW b \in BOOLEAN, seg' = [seg EXCEPT ![app.seg].ready = b]
  PROVE  /\ Segs'
         /\ app.seg = "new" => seg'["new"].ready = b
         /\ app.seg # "new" => seg'["new"].ready = seg["new"].ready
<1>1. app.seg \in Segments /\ "new" \in Segments
  BY DEF IInv, AppTyped, Segments
<1> QED BY <1>1 DEF IInv, Segs, Flags

LEMMA AnnouncePreserves == ASSUME IInv, AppAnnounce PROVE IInv'
<1>1. Segs' /\ (app.seg # "new" => seg'["new"].ready = seg["new"].ready)
  BY ReadyStored DEF AppAnnounce
<1>2. AppTyped' /\ app'.pc = "loop" /\ app'.seg = app.seg
  BY GotoTyped DEF AppAnnounce, AppStates
<1>3. app.pc = "announce"
  BY DEF AppAnnounce, AppAt
<1>4. orphaned' = (orphaned /\ app.seg # "new")
  BY DEF AppAnnounce
<1>5. Control'
  BY <1>4 DEF AppAnnounce, IInv, Control, platVars
<1>6. Counts' /\ OwesInReturn'
  BY <1>3 DEF AppAnnounce, IInv, Counts, OwesInReturn
<1>7. ReadyMeansServed'
  BY <1>1, <1>2, <1>3, <1>4 DEF IInv, ReadyMeansServed, Serving
<1> QED BY <1>1, <1>2, <1>5, <1>6, <1>7 DEF IInv

LEMMA LoopPreserves == ASSUME IInv, AppLoop \/ AppMode PROVE IInv'
<1>0. stop \in BOOLEAN
  BY DEF IInv, Control
<1>1. CASE AppLoop
  <2>1. AppTyped' /\ app'.pc \in {"mode", "leave"} /\ app'.seg = app.seg
    BY <1>1, GotoTyped DEF AppLoop, AppStates
  <2> QED BY <1>0, <1>1, <2>1, AppMovePreserves DEF AppLoop, AppAt, Serving
<1>2. CASE AppMode
  <2>1. (~Ctrl.dsp) \in BOOLEAN
    OBVIOUS
  <2>2. AppTyped' /\ app'.pc = "dequeue" /\ app'.seg = app.seg
    BY <1>2, <2>1 DEF AppMode, AppTyped, AppStates, IInv
  <2> QED BY <1>0, <1>2, <2>2, AppMovePreserves DEF AppMode, AppAt, Serving
<1> QED BY <1>1, <1>2

(* A step between the rings: the application goes on serving. *)
LEMMA MoveMbufsPreserves ==
  ASSUME IInv, UNCHANGED appFrame, UNCHANGED <<seg, stop>>, AppTyped', Counts', OwesInReturn',
         app'.pc \in Serving, app'.seg = app.seg
  PROVE  IInv'
<1> USE AppUntouched
<1>1. Segs' /\ Control'
  BY DEF IInv, Segs, Control
<1>2. ReadyMeansServed'
  BY DEF IInv, ReadyMeansServed
<1> QED BY <1>1, <1>2 DEF IInv

LEMMA DequeuePreserves == ASSUME IInv, AppDequeue PROVE IInv'
<1>1. AppTyped' /\ app'.pc = (IF rx = 0 THEN "loop" ELSE "return") /\ app'.seg = app.seg
  BY GotoTyped DEF AppDequeue, AppStates
<1>2. held = 0
  BY DEF AppDequeue, AppAt, IInv, OwesInReturn, Counts
<1>3. pool' = pool /\ hand' = hand /\ lost' = lost /\ ret' = ret
  BY AppUntouched DEF AppDequeue
<1>4. Counts' /\ (rx = 0 => held' = 0)
  BY <1>2, <1>3, Sizes DEF AppDequeue, IInv, Counts, Lesser
<1>5. OwesInReturn'
  BY <1>1, <1>4 DEF OwesInReturn
<1> QED BY <1>1, <1>4, <1>5, MoveMbufsPreserves DEF AppDequeue, Serving

LEMMA ReturnPreserves == ASSUME IInv, AppReturn PROVE IInv'
<1> DEFINE n == Lesser(held, RetCapacity - ret)
           next == IF n < held THEN "return" ELSE IF app.draining THEN "dequeue" ELSE "loop"
<1>1. AppTyped' /\ app'.pc = next /\ app'.seg = app.seg
  BY GotoTyped DEF AppReturn, AppStates
<1>2. ret' = ret + n /\ held' = held - n /\ rx' = rx
  BY DEF AppReturn
<1>3. pool' = pool /\ hand' = hand /\ lost' = lost
  BY AppUntouched DEF AppReturn
<1>4. Counts' /\ (~(n < held) => held' = 0)
  BY <1>2, <1>3, Sizes DEF IInv, Counts, Lesser
<1>5. OwesInReturn'
  BY <1>1, <1>4 DEF OwesInReturn, Counts
<1> QED BY <1>1, <1>4, <1>5, MoveMbufsPreserves DEF AppReturn, Serving

LEMMA LeavePreserves == ASSUME IInv, AppLeave PROVE IInv'
<1> USE AppUntouched
<1>1. /\ Segs' /\ (app.seg = "new" => seg'["new"].ready = FALSE)
      /\ app.seg # "new" => seg'["new"].ready = seg["new"].ready
  BY ReadyStored DEF AppLeave
<1>2. AppTyped' /\ app'.pc = "off" /\ app'.seg = app.seg
  BY GotoTyped DEF AppLeave, AppStates
<1>3. Control'
  BY DEF AppLeave, IInv, Control
<1>4. Counts' /\ OwesInReturn'
  BY DEF AppLeave, AppAt, IInv, Counts, OwesInReturn
<1>5. ReadyMeansServed'
  BY <1>1, <1>2 DEF AppLeave, IInv, ReadyMeansServed
<1> QED BY <1>1, <1>2, <1>3, <1>4, <1>5 DEF IInv

LEMMA SignalPreserves == ASSUME IInv, on_signal PROVE IInv'
<1> USE AppUntouched
<1>1. Segs' /\ AppTyped' /\ Control'
  BY DEF on_signal, IInv, Segs, AppTyped, Control
<1>2. Counts' /\ OwesInReturn'
  BY DEF on_signal, IInv, Counts, OwesInReturn
<1>3. ReadyMeansServed'
  BY DEF on_signal, IInv, ReadyMeansServed
<1> QED BY <1>1, <1>2, <1>3 DEF IInv

LEMMA DiesPreserves == ASSUME IInv, AppDies PROVE IInv'
<1>1. AppTyped'
  BY GotoTyped DEF AppDies, AppStates
<1>2. Segs'
  BY DEF AppDies, IInv, Segs
<1>3. orphaned' = (orphaned \/ seg["new"].ready)
  BY DEF AppDies
<1>4. Control'
  BY <1>3 DEF AppDies, IInv, Control, platVars
<1>5. Counts' /\ OwesInReturn'
  BY Sizes DEF AppDies, IInv, Counts, OwesInReturn
<1>6. ReadyMeansServed'
  BY <1>3 DEF AppDies, ReadyMeansServed
<1> QED BY <1>1, <1>2, <1>4, <1>5, <1>6 DEF IInv

LEMMA StutterPreserves == ASSUME IInv, UNCHANGED vars PROVE IInv'
<1>1. UNCHANGED <<linked, seg, plat, gate, pool, hand, rx, ret, held, lost, app, stop, orphaned>>
  BY DEF vars, platVars, mbufs, appVars
<1>2. Segs' /\ AppTyped' /\ Control'
  BY <1>1 DEF IInv, Segs, AppTyped, Control
<1>3. Counts' /\ OwesInReturn'
  BY <1>1 DEF IInv, Counts, OwesInReturn
<1>4. ReadyMeansServed'
  BY <1>1 DEF IInv, ReadyMeansServed
<1> QED BY <1>2, <1>3, <1>4 DEF IInv

-----------------------------------------------------------------------------
(* The three properties, with their types split up, are inductive. *)
THEOREM Inductive == Spec => []IInv
<1>1. IInv /\ [Next]_vars => IInv'
  BY CreatePreserves, ServingPreserves, FeedPreserves, ComingPreserves, AnnouncePreserves,
     LoopPreserves, DequeuePreserves, ReturnPreserves, LeavePreserves, SignalPreserves,
     DiesPreserves, StutterPreserves
     DEF Next, App
<1> QED BY InitHolds, <1>1, PTL DEF Spec

(* Every counter stays within its ring, burst or pool. *)
THEOREM TypeCorrect == Spec => []TypeOK
  BY Inductive, IInvGives, PTL

(* return_mbufs and the drain hand every mbuf back exactly once. *)
THEOREM Ownership == Spec => []Conserved
  BY Inductive, IInvGives, PTL

(* dsp_ready is only set while somebody serves, or after a kill. *)
THEOREM FedOnlyWhenServed == Spec => []ReadyMeansServed
  BY Inductive, IInvGives, PTL
=============================================================================
