----------------------------- MODULE FullPacket -----------------------------
(***************************************************************************)
(* The wideband FULL_PACKET application (hello_world_fullpkt.c), a DPDK    *)
(* secondary, and the control plane it shares with the platform (the       *)
(* wideband xrcomm_ip_shm_channel.h).                                      *)
(*                                                                         *)
(* The platform hands whole packets (mbufs) over on DSP_MBUF_RING while    *)
(* dsp_ready is set; the application gives every one of them back on       *)
(* DSP_RETURN_RING, for the platform alone may free them.  mbufs are       *)
(* counted, not named.  The platform's program is not in the repository:   *)
(* its steps are those the application and the header count on.            *)
(***************************************************************************)
EXTENDS Naturals

CONSTANTS NumMbufs,   \* mbufs of the platform's pool that FULL_PACKET may use
          RxCapacity, \* DSP_MBUF_RING holds so many
          RetCapacity,\* DSP_RETURN_RING holds so many
          RxBurst,    \* RX_BURST of the application
          FeedBurst   \* packets the platform enqueues at a time

ASSUME FullPacketAssumption ==
  {NumMbufs, RxCapacity, RetCapacity, RxBurst, FeedBurst} \subseteq Nat \ {0}

(* "old" was left linked by a platform that died, "new" is the one the      *)
(* present platform creates.                                                *)
Segments == {"old", "new"}

VARIABLES
  linked,    \* the segment behind XRCOMM_CTRL_SHM_NAME, or "none"
  seg,       \* segment -> [sized, version, running, rt, dsp, ready]
  plat,      \* platform: see PlatformStates
  gate,      \* its copy of enable_dsp_mode
  pool, hand,\* mbufs that are free, and about to be enqueued
  rx, ret,   \* mbufs in DSP_MBUF_RING and DSP_RETURN_RING
  app,       \* application: [pc, seg, draining], see AppStates
  held,      \* mbufs of its burst not yet handed back
  stop,      \* g_stop
  orphaned,  \* history: an application died with dsp_ready set
  lost       \* history: mbufs in the hands of applications that died

mbufs    == <<pool, hand, rx, ret, held, lost>>
platVars == <<plat, gate>>
appVars  == <<app, stop, orphaned>>
vars == <<linked, seg, platVars, mbufs, appVars>>

PlatformStates == {"off", "unlink", "open", "size", "version", "flags", "ready", "up", "destroy",
                   "down", "dead"}
AppStates == {"off", "attach", "check", "wait", "lookup", "announce", "loop", "mode", "dequeue",
              "return", "leave", "killed"}
Serving == {"loop", "mode", "dequeue", "return", "leave"}

Lesser(m, n) == IF m <= n THEN m ELSE n

Blank == [sized |-> FALSE, version |-> FALSE, running |-> FALSE, rt |-> FALSE,
          dsp |-> FALSE, ready |-> FALSE]

Init ==
  /\ linked \in {"none", "old"}
  /\ \E ver, mode, rdy \in BOOLEAN :
       seg = [s \in Segments |-> IF s = "new" \/ linked = "none" THEN Blank ELSE
                [sized |-> TRUE, version |-> ver, running |-> TRUE, rt |-> TRUE,
                 dsp |-> mode, ready |-> rdy]]
  /\ plat = "off" /\ gate = FALSE
  /\ pool = NumMbufs /\ hand = 0 /\ rx = 0 /\ ret = 0 /\ held = 0
  /\ app = [pc |-> "off", seg |-> "new", draining |-> FALSE]
  /\ stop = FALSE /\ orphaned = FALSE /\ lost = 0

-----------------------------------------------------------------------------
(* Platform: xrcomm_ctrl_shm_create, and what it does with the segment.    *)

PlatStep(from, to) == plat = from /\ plat' = to

Boot ==
  /\ PlatStep("off", "unlink")
  /\ UNCHANGED <<linked, seg, gate, mbufs, appVars>>

CtrlUnlink ==
  /\ PlatStep("unlink", "open")
  /\ linked' = "none"
  /\ UNCHANGED <<seg, gate, mbufs, appVars>>

CtrlOpen ==
  /\ PlatStep("open", "size")
  /\ linked' = "new"
  /\ UNCHANGED <<seg, gate, mbufs, appVars>>

CtrlSize ==
  /\ PlatStep("size", "version")
  /\ seg' = [seg EXCEPT !["new"].sized = TRUE]
  /\ UNCHANGED <<linked, gate, mbufs, appVars>>

CtrlVersion ==
  /\ PlatStep("version", "flags")
  /\ seg' = [seg EXCEPT !["new"].version = TRUE]
  /\ UNCHANGED <<linked, gate, mbufs, appVars>>

CtrlFlags ==
  /\ PlatStep("flags", "ready")
  /\ seg' = [seg EXCEPT !["new"].rt = TRUE, !["new"].dsp = FALSE]
  /\ UNCHANGED <<linked, gate, mbufs, appVars>>

(* The rings are there and the pipeline runs. *)
PipelineUp ==
  /\ PlatStep("ready", "up")
  /\ seg' = [seg EXCEPT !["new"].running = TRUE]
  /\ UNCHANGED <<linked, gate, mbufs, appVars>>

(* It stops: mbufs are no longer taken back. *)
PipelineDown ==
  /\ PlatStep("up", "destroy")
  /\ seg' = [seg EXCEPT !["new"].running = FALSE]
  /\ UNCHANGED <<linked, gate, mbufs, appVars>>

CtrlDestroy ==
  /\ PlatStep("destroy", "down")
  /\ linked' = "none"
  /\ UNCHANGED <<seg, gate, mbufs, appVars>>

PlatformDies ==
  /\ PlatStep("up", "dead")
  /\ UNCHANGED <<linked, seg, gate, mbufs, appVars>>

(* set-fullpkt: the gRPC server writes the flag, the application reads it   *)
(* at once, the platform's processing core up to a second later.            *)
SetFullPacket ==
  /\ plat = "up"
  /\ seg' = [seg EXCEPT !["new"].dsp = ~@]
  /\ UNCHANGED <<linked, platVars, mbufs, appVars>>

SyncFlags ==
  /\ plat = "up"
  /\ gate' = seg["new"].dsp
  /\ UNCHANGED <<linked, seg, plat, mbufs, appVars>>

(* dsp_ready gates the enqueue, which comes a moment later ... *)
FeedDecide ==
  /\ plat = "up" /\ gate /\ seg["new"].ready /\ hand = 0 /\ pool > 0
  /\ hand' = Lesser(FeedBurst, pool)
  /\ pool' = pool - hand'
  /\ UNCHANGED <<linked, seg, platVars, rx, ret, held, lost, appVars>>

(* ... and drops what the ring has no room for. *)
FeedEnqueue ==
  /\ plat = "up" /\ hand > 0
  /\ LET n == Lesser(hand, RxCapacity - rx)
     IN  /\ rx' = rx + n
         /\ pool' = pool + (hand - n)
  /\ hand' = 0
  /\ UNCHANGED <<linked, seg, platVars, ret, held, lost, appVars>>

(* The platform frees what comes back. *)
Reclaim ==
  /\ plat = "up" /\ ret > 0
  /\ ret' = 0
  /\ pool' = pool + ret
  /\ UNCHANGED <<linked, seg, platVars, hand, rx, held, lost, appVars>>

-----------------------------------------------------------------------------
(* Application: main of hello_world_fullpkt.c. *)

AppAt(pc) == app.pc = pc
AppGoto(pc) == app' = [pc |-> pc, seg |-> app.seg, draining |-> app.draining]
Ctrl == seg[app.seg]

appFrame == <<linked, platVars, pool, hand, lost, orphaned>>

(* rte_eal_init, as a secondary of a primary that is there. *)
AppStart ==
  /\ app.pc \in {"off", "killed"} /\ plat \notin {"off", "down", "dead"}
  /\ AppGoto("attach")
  /\ stop' = FALSE
  /\ UNCHANGED <<appFrame, seg, rx, ret, held>>

(* xrcomm_ctrl_shm_attach opens and maps the segment linked now ... *)
AppAttach ==
  /\ AppAt("attach")
  /\ IF linked = "none" THEN AppGoto("off")
     ELSE app' = [pc |-> "check", seg |-> linked, draining |-> FALSE]
  /\ UNCHANGED <<appFrame, seg, rx, ret, held, stop>>

(* ... and looks at its version: in a segment that has no size yet, that    *)
(* access kills the process.                                                *)
AppCheck ==
  /\ AppAt("check")
  /\ AppGoto(IF ~Ctrl.sized THEN "killed" ELSE IF Ctrl.version THEN "wait" ELSE "off")
  /\ UNCHANGED <<appFrame, seg, rx, ret, held, stop>>

(* The wait for pipeline_running ends by it, by a signal or after 30 s. *)
AppWait ==
  /\ AppAt("wait")
  /\ AppGoto("lookup")
  /\ UNCHANGED <<appFrame, seg, rx, ret, held, stop>>

AppLookup ==
  /\ AppAt("lookup")
  /\ AppGoto(IF plat \in {"up", "destroy", "down", "dead"} THEN "announce" ELSE "off")
  /\ UNCHANGED <<appFrame, seg, rx, ret, held, stop>>

AppAnnounce ==
  /\ AppAt("announce")
  /\ seg' = [seg EXCEPT ![app.seg].ready = TRUE]
  /\ orphaned' = (orphaned /\ app.seg # "new")
  /\ AppGoto("loop")
  /\ UNCHANGED <<linked, platVars, pool, hand, lost, rx, ret, held, stop>>

AppLoop ==
  /\ AppAt("loop")
  /\ AppGoto(IF ~stop /\ Ctrl.running /\ Ctrl.rt THEN "mode" ELSE "leave")
  /\ UNCHANGED <<appFrame, seg, rx, ret, held, stop>>

\* Variant: nothing is drained while the mode is off.
IdlingAppMode ==
  /\ AppAt("mode")
  /\ IF Ctrl.dsp THEN app' = [pc |-> "dequeue", seg |-> app.seg, draining |-> FALSE]
     ELSE AppGoto("loop")
  /\ UNCHANGED <<appFrame, seg, rx, ret, held, stop>>

(* With the mode off the ring is drained, with it on a burst is processed. *)
AppMode ==
  /\ AppAt("mode")
  /\ app' = [pc |-> "dequeue", seg |-> app.seg, draining |-> ~Ctrl.dsp]
  /\ UNCHANGED <<appFrame, seg, rx, ret, held, stop>>

\* Variant: a ring found empty is polled without looking at the loop's conditions.
StubbornAppDequeue ==
  /\ AppAt("dequeue")
  /\ held' = Lesser(RxBurst, rx)
  /\ rx' = rx - held'
  /\ AppGoto(IF rx = 0 THEN "mode" ELSE "return")
  /\ UNCHANGED <<appFrame, seg, ret, stop>>

AppDequeue ==
  /\ AppAt("dequeue")
  /\ held' = Lesser(RxBurst, rx)
  /\ rx' = rx - held'
  /\ AppGoto(IF rx = 0 THEN "loop" ELSE "return")
  /\ UNCHANGED <<appFrame, seg, ret, stop>>

\* Variant: what is left of a burst is sent again from its first mbuf.
RestartingAppReturn ==
  /\ AppAt("return") /\ ret < RetCapacity
  /\ LET n == Lesser(held, RetCapacity - ret)
     IN  /\ ret' = ret + n
         /\ held' = IF n = held THEN 0 ELSE held
         /\ AppGoto(IF n < held THEN "return" ELSE IF app.draining THEN "dequeue" ELSE "loop")
  /\ UNCHANGED <<appFrame, seg, rx, stop>>

\* Variant: a burst is only handed back as a whole.
BulkAppReturn ==
  /\ AppAt("return") /\ held <= RetCapacity - ret
  /\ ret' = ret + held /\ held' = 0
  /\ AppGoto(IF app.draining THEN "dequeue" ELSE "loop")
  /\ UNCHANGED <<appFrame, seg, rx, stop>>

\* Variant: the room in the ring is not looked at.
BlindAppReturn ==
  /\ AppAt("return")
  /\ ret' = ret + held /\ held' = 0
  /\ AppGoto(IF app.draining THEN "dequeue" ELSE "loop")
  /\ UNCHANGED <<appFrame, seg, rx, stop>>

(* return_mbufs: as many as fit, and spin for the rest; the stop flag is    *)
(* not looked at.                                                           *)
AppReturn ==
  /\ AppAt("return") /\ ret < RetCapacity
  /\ LET n == Lesser(held, RetCapacity - ret)
     IN  /\ ret' = ret + n
         /\ held' = held - n
         /\ AppGoto(IF n < held THEN "return" ELSE IF app.draining THEN "dequeue" ELSE "loop")
  /\ UNCHANGED <<appFrame, seg, rx, stop>>

\* Variant: dsp_ready stays set.
SilentAppLeave ==
  /\ AppAt("leave")
  /\ AppGoto("off")
  /\ UNCHANGED <<appFrame, seg, rx, ret, held, stop>>

AppLeave ==
  /\ AppAt("leave")
  /\ seg' = [seg EXCEPT ![app.seg].ready = FALSE]
  /\ AppGoto("off")
  /\ UNCHANGED <<appFrame, rx, ret, held, stop>>

(* SIGINT or SIGTERM. *)
on_signal ==
  /\ app.pc \notin {"off", "killed"}
  /\ stop' = TRUE
  /\ UNCHANGED <<appFrame, app, seg, rx, ret, held>>

(* SIGKILL, or the process is aborted. *)
AppDies ==
  /\ app.pc \notin {"off", "killed"}
  /\ AppGoto("killed")
  /\ lost' = lost + held /\ held' = 0
  /\ orphaned' = (orphaned \/ seg["new"].ready)
  /\ UNCHANGED <<linked, seg, platVars, pool, hand, rx, ret, stop>>

-----------------------------------------------------------------------------
Create == CtrlUnlink \/ CtrlOpen \/ CtrlSize \/ CtrlVersion \/ CtrlFlags \/ PipelineUp
App == AppAttach \/ AppCheck \/ AppWait \/ AppLookup \/ AppAnnounce \/ AppLoop \/ AppMode
       \/ AppDequeue \/ AppReturn \/ AppLeave

Next ==
  \/ Boot \/ Create \/ PipelineDown \/ CtrlDestroy \/ PlatformDies
  \/ SetFullPacket \/ SyncFlags \/ FeedDecide \/ FeedEnqueue \/ Reclaim
  \/ AppStart \/ App \/ on_signal \/ AppDies

Spec == Init /\ [][Next]_vars

(* The application polls on a core of its own; a platform that is up syncs  *)
(* its flags once a second and keeps taking mbufs back.                     *)
FairSpec == Spec /\ WF_vars(App) /\ WF_vars(SyncFlags) /\ WF_vars(FeedEnqueue) /\ WF_vars(Reclaim)
-----------------------------------------------------------------------------
(* Type invariant. *)
TypeOK ==
  /\ linked \in Segments \cup {"none"}
  /\ seg \in [Segments -> [sized : BOOLEAN, version : BOOLEAN, running : BOOLEAN, rt : BOOLEAN,
                           dsp : BOOLEAN, ready : BOOLEAN]]
  /\ plat \in PlatformStates /\ gate \in BOOLEAN
  /\ pool \in 0 .. NumMbufs /\ hand \in 0 .. FeedBurst
  /\ rx \in 0 .. RxCapacity /\ ret \in 0 .. RetCapacity
  /\ app \in [pc : AppStates, seg : Segments, draining : BOOLEAN]
  /\ held \in 0 .. RxBurst /\ lost \in Nat
  /\ stop \in BOOLEAN /\ orphaned \in BOOLEAN

(* Ownership: every mbuf is in the pool, with the platform, in one of the    *)
(* rings, in the application's burst, or went down with an application; none *)
(* is handed back twice, and an application that is not in return_mbufs owes *)
(* nothing.                                                                  *)
Conserved ==
  /\ pool + hand + rx + held + ret + lost = NumMbufs
  /\ held > 0 => AppAt("return")

(* Packets are fed only to a ring somebody drains: dsp_ready is set only     *)
(* while an application serves the rings, unless one died with it set.       *)
ReadyMeansServed ==
  seg["new"].ready => \/ app.pc \in Serving /\ app.seg = "new"
                      \/ orphaned

(* A signal ends the application, on a platform that stays up, unless the    *)
(* mode is switched on again while it drains: the drain loop ends only at an *)
(* empty ring.                                                               *)
Refilled == app.draining /\ app.pc \in {"dequeue", "return"} /\ gate
StopEnds ==
  (stop /\ ~Refilled) ~> (app.pc \in {"off", "killed"} \/ plat # "up" \/ Refilled)

(* The platform gets its mbufs back: it never waits for ever for a free one  *)
(* while an application serves the rings, but for those that went down with  *)
(* earlier applications.                                                     *)
PoolRecovers ==
  (pool = 0 /\ lost < NumMbufs /\ app.pc \in Serving)
    ~> (pool > 0 \/ app.pc \notin Serving \/ plat # "up")

(* With the mode off, whatever is in the ring, mbufs an earlier application  *)
(* left behind included, is drained.                                         *)
Drained ==
  (app.pc \in Serving /\ app.seg = "new" /\ ~seg["new"].dsp)
    ~> (rx = 0 \/ seg["new"].dsp \/ app.pc \notin Serving \/ plat # "up")
=============================================================================
