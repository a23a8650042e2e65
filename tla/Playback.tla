------------------------------ MODULE Playback ------------------------------
(***************************************************************************)
(* The 8T8R playback executable (playback/src/main.c, file_reader.c, tx.c, *)
(* stats.c): the main core launches, for each port, a reader that fills a  *)
(* ring with pointers into its waveform cache and a TX core that turns     *)
(* them into packets; a stop request, and a reader that has played its     *)
(* loops, clear one flag that all five cores poll.                         *)
(*                                                                         *)
(* The payload ring, the mbuf pool and the NIC queue are DPDK's and are    *)
(* modelled by what they promise; CBR pacing only delays a TX core.        *)
(***************************************************************************)
EXTENDS Integers, Sequences, FiniteSetsExt

CONSTANTS NumPorts,      \* MAX_PORTS
          CachePkts,     \* packets in a port's waveform cache
          RingCapacity,  \* RING_SIZE - 1
          ReadBurst,     \* PKTS_PER_READ
          TxBurst,       \* TX_BUILD_BURST
          RxDescs,       \* mbufs the RX queue of a port keeps
          TxDescs,       \* descriptors of a TX queue
          PoolSize,      \* mbufs of a port's pool
          LoopCounts,    \* loop_count values of the configuration, 0 = infinite
          MaxPackets,    \* bound on the packets read when playing for ever
          SignalPhases   \* phases of the main core in which a signal may come

Ports == 0 .. (NumPorts - 1)

ASSUME PlaybackAssumption ==
  /\ {NumPorts, CachePkts, RingCapacity, ReadBurst, TxBurst, TxDescs} \subseteq Nat \ {0}
  /\ {RxDescs, PoolSize, MaxPackets} \subseteq Nat /\ LoopCounts \subseteq Nat
  /\ PoolSize >= RxDescs + TxDescs + TxBurst
  /\ SignalPhases \subseteq {"init", "launch", "stats", "join"}

VARIABLES
  loopCount,    \* loop_count of this run
  valid,        \* ports with at least one usable waveform
  running,      \* gcfg->running
  main,         \* main core: "init", "launch", "stats", "join", "exit", "aborted"
  launched,     \* workers launched so far, in the order reader 0, TX 0, reader 1, ...
  asked,        \* a signal or the q key has asked the program to stop
  reader, tx,   \* port -> what the core is about to do
  offset, loop, \* port -> current_offset (in packets) and current_loop
  cacheLive,    \* port -> file_ram_cache is allocated
  payloadRing,  \* port -> the pointers in its ring, as positions in the cache
  held,         \* port -> the pointers its TX core has dequeued
  packets,      \* port -> the packets built of them, [seq, payload]
  nic,          \* port -> mbufs its TX queue holds
  pktSeq,       \* port -> pkt_seq
  readPackets, txPackets, txDropped,  \* port -> performance counters
  wire          \* history: port -> last packet handed to the NIC

config     == <<loopCount, valid>>
mainVars   == <<main, launched, asked>>
readerVars == <<reader, offset, loop, cacheLive, readPackets>>
txVars     == <<tx, held, packets, nic, pktSeq, txPackets, txDropped, wire>>
vars == <<config, running, mainVars, readerVars, payloadRing, txVars>>

NoPacket == [seq |-> -1, payload |-> CachePkts - 1]
Zero == [p \in Ports |-> 0]
Empty == [p \in Ports |-> <<>>]

Init ==
  /\ loopCount \in LoopCounts /\ valid \in {Ports, Ports \ {NumPorts - 1}}
  /\ running = FALSE
  /\ main = "init" /\ launched = 0 /\ asked = FALSE
  /\ reader = [p \in Ports |-> "off"] /\ tx = [p \in Ports |-> "off"]
  /\ offset = Zero /\ loop = Zero
  /\ cacheLive = [p \in Ports |-> FALSE]
  /\ payloadRing = Empty /\ held = Empty /\ packets = Empty
  /\ nic = Zero /\ pktSeq = Zero
  /\ readPackets = Zero /\ txPackets = Zero /\ txDropped = Zero
  /\ wire = [p \in Ports |-> NoPacket]

Alive == main \notin {"exit", "aborted"}
-----------------------------------------------------------------------------
(* Main core. *)

(* Initialisation ends with the flag set, whatever was asked before. *)
MainStart ==
  /\ main = "init"
  /\ running' = TRUE
  /\ main' = "launch"
  /\ UNCHANGED <<config, launched, asked, readerVars, payloadRing, txVars>>

MainLaunch ==
  /\ main = "launch"
  /\ LET p == launched \div 2
     IN  IF launched % 2 = 0
           THEN reader' = [reader EXCEPT ![p] = "load"] /\ UNCHANGED tx
           ELSE tx' = [tx EXCEPT ![p] = "prime"] /\ UNCHANGED reader
  /\ launched' = launched + 1
  /\ main' = IF launched' = 2 * NumPorts THEN "stats" ELSE "launch"
  /\ UNCHANGED <<config, running, asked, offset, loop, cacheLive, readPackets, payloadRing,
                 held, packets, nic, pktSeq, txPackets, txDropped, wire>>

(* SIGINT or SIGTERM; one that comes when the program is stopping already    *)
(* changes nothing.                                                         *)
Signal ==
  /\ main \in SignalPhases /\ (main = "init" \/ running)
  /\ running' = FALSE /\ asked' = TRUE
  /\ UNCHANGED <<config, main, launched, readerVars, payloadRing, txVars>>

(* The q key of the live console. *)
KeyQuit ==
  /\ main = "stats" /\ running
  /\ running' = FALSE /\ asked' = TRUE
  /\ UNCHANGED <<config, main, launched, readerVars, payloadRing, txVars>>

MainStats ==
  /\ main = "stats" /\ ~running
  /\ main' = "join"
  /\ UNCHANGED <<config, running, launched, asked, readerVars, payloadRing, txVars>>

MainJoin ==
  /\ main = "join"
  /\ \A p \in Ports : reader[p] = "done" /\ tx[p] = "done"
  /\ main' = "exit"
  /\ UNCHANGED <<config, running, launched, asked, readerVars, payloadRing, txVars>>

-----------------------------------------------------------------------------
(* Reader core of a port: file_reader_core_main. *)

(* The waveforms are interleaved into the cache ... *)
ReaderLoad(p) ==
  /\ Alive /\ reader[p] = "load" /\ p \in valid
  /\ cacheLive' = [cacheLive EXCEPT ![p] = TRUE]
  /\ reader' = [reader EXCEPT ![p] = "check"]
  /\ UNCHANGED <<config, running, mainVars, offset, loop, readPackets, payloadRing, txVars>>

(* ... or, with none usable, rte_exit takes the whole process down. *)
ReaderAbort(p) ==
  /\ Alive /\ reader[p] = "load" /\ p \notin valid
  /\ main' = "aborted"
  /\ UNCHANGED <<config, running, launched, asked, readerVars, payloadRing, txVars>>

\* Variant: one pass too many.
EagerReaderCheck(p) ==
  /\ Alive /\ reader[p] = "check"
  /\ reader' = [reader EXCEPT ![p] =
       IF running /\ (loopCount = 0 \/ loop[p] <= loopCount) THEN "fill" ELSE "free"]
  /\ UNCHANGED <<config, running, mainVars, offset, loop, cacheLive, readPackets, payloadRing,
                 txVars>>

ReaderCheck(p) ==
  /\ Alive /\ reader[p] = "check"
  /\ reader' = [reader EXCEPT ![p] =
       IF running /\ (loopCount = 0 \/ loop[p] < loopCount) THEN "fill" ELSE "free"]
  /\ UNCHANGED <<config, running, mainVars, offset, loop, cacheLive, readPackets, payloadRing,
                 txVars>>

ReaderRewind(p) ==
  /\ Alive /\ reader[p] = "fill" /\ offset[p] = CachePkts
  /\ offset' = [offset EXCEPT ![p] = 0]
  /\ loop' = [loop EXCEPT ![p] = @ + 1]
  /\ reader' = [reader EXCEPT ![p] = "check"]
  /\ UNCHANGED <<config, running, mainVars, cacheLive, readPackets, payloadRing, txVars>>

(* Pointers a burst enqueue takes: the ring may be full. *)
Enqueued(p) ==
  Min({ReadBurst, CachePkts - offset[p], RingCapacity - Len(payloadRing[p])}
        \cup (IF loopCount = 0 THEN {MaxPackets - readPackets[p]} ELSE {}))

ReaderEnqueue(p) ==
  /\ Alive /\ reader[p] = "fill" /\ offset[p] < CachePkts
  /\ LET n == Enqueued(p)
     IN  /\ payloadRing' = [payloadRing EXCEPT ![p] = @ \o [i \in 1 .. n |-> offset[p] + i - 1]]
         /\ offset' = [offset EXCEPT ![p] = @ + n]
         /\ readPackets' = [readPackets EXCEPT ![p] = @ + n]
  /\ reader' = [reader EXCEPT ![p] = "check"]
  /\ UNCHANGED <<config, running, mainVars, loop, cacheLive, txVars>>

ReaderFree(p) ==
  /\ Alive /\ reader[p] = "free"
  /\ cacheLive' = [cacheLive EXCEPT ![p] = FALSE]
  /\ reader' = [reader EXCEPT ![p] = "stop"]
  /\ UNCHANGED <<config, running, mainVars, offset, loop, readPackets, payloadRing, txVars>>

ReaderStop(p) ==
  /\ Alive /\ reader[p] = "stop"
  /\ running' = FALSE
  /\ reader' = [reader EXCEPT ![p] = "done"]
  /\ UNCHANGED <<config, mainVars, offset, loop, cacheLive, readPackets, payloadRing, txVars>>

-----------------------------------------------------------------------------
(* TX and builder core of a port: tx_core_main. *)

txCounters == <<nic, pktSeq, txPackets, txDropped, wire>>
TxGoto(p, pc) == tx' = [tx EXCEPT ![p] = pc]

(* The wait for a primed ring ends by a full burst, a stop or its time-out. *)
TxPrime(p) ==
  /\ Alive /\ tx[p] = "prime"
  /\ TxGoto(p, "check")
  /\ UNCHANGED <<config, running, mainVars, readerVars, payloadRing, held, packets, txCounters>>

TxCheck(p) ==
  /\ Alive /\ tx[p] = "check"
  /\ TxGoto(p, IF running THEN "dequeue" ELSE "done")
  /\ UNCHANGED <<config, running, mainVars, readerVars, payloadRing, held, packets, txCounters>>

(* A working array that cannot be had: rte_exit takes the whole process down. *)
TxAbort(p) ==
  /\ Alive /\ tx[p] = "prime"
  /\ main' = "aborted"
  /\ UNCHANGED <<config, running, launched, asked, readerVars, payloadRing, txVars>>

\* Variant: an empty ring is polled without looking at the flag again.
StubbornTxDequeue(p) ==
  /\ Alive /\ tx[p] = "dequeue"
  /\ LET n == Min({TxBurst, Len(payloadRing[p])})
     IN  /\ held' = [held EXCEPT ![p] = SubSeq(payloadRing[p], 1, n)]
         /\ payloadRing' = [payloadRing EXCEPT ![p] = SubSeq(@, n + 1, Len(@))]
         /\ TxGoto(p, IF n = 0 THEN "dequeue" ELSE "build")
  /\ UNCHANGED <<config, running, mainVars, readerVars, packets, txCounters>>

TxDequeue(p) ==
  /\ Alive /\ tx[p] = "dequeue"
  /\ LET n == Min({TxBurst, Len(payloadRing[p])})
     IN  /\ held' = [held EXCEPT ![p] = SubSeq(payloadRing[p], 1, n)]
         /\ payloadRing' = [payloadRing EXCEPT ![p] = SubSeq(@, n + 1, Len(@))]
         /\ TxGoto(p, IF n = 0 THEN "check" ELSE "build")
  /\ UNCHANGED <<config, running, mainVars, readerVars, packets, txCounters>>

FreeMbufs(p) == PoolSize - RxDescs - nic[p]

(* With mbufs for the burst, packets are built from the cache; without, the *)
(* pointers go back to the ring's end, as many as fit.                      *)
TxBuild(p) ==
  /\ Alive /\ tx[p] = "build"
  /\ held' = [held EXCEPT ![p] = <<>>]
  /\ IF FreeMbufs(p) >= Len(held[p])
       THEN /\ packets' = [packets EXCEPT ![p] = [i \in 1 .. Len(held[p]) |->
                             [seq |-> pktSeq[p] + i - 1, payload |-> held[p][i]]]]
            /\ pktSeq' = [pktSeq EXCEPT ![p] = @ + Len(held[p])]
            /\ TxGoto(p, "send")
            /\ UNCHANGED payloadRing
       ELSE /\ payloadRing' = [payloadRing EXCEPT ![p] = @ \o
                 SubSeq(held[p], 1, Min({Len(held[p]), RingCapacity - Len(@)}))]
            /\ TxGoto(p, "check")
            /\ UNCHANGED <<packets, pktSeq>>
  /\ UNCHANGED <<config, running, mainVars, readerVars, nic, txPackets, txDropped, wire>>

\* Variant: the packets the NIC refused are not counted.
UncountedTxSend(p) ==
  /\ Alive /\ tx[p] = "send"
  /\ \E sent \in 0 .. Min({Len(packets[p]), TxDescs}) :
       /\ wire' = [wire EXCEPT ![p] = IF sent > 0 THEN packets[p][sent] ELSE @]
       /\ nic' = [nic EXCEPT ![p] = sent]
       /\ txPackets' = [txPackets EXCEPT ![p] = @ + sent]
  /\ packets' = [packets EXCEPT ![p] = <<>>]
  /\ TxGoto(p, "check")
  /\ UNCHANGED <<config, running, mainVars, readerVars, payloadRing, held, pktSeq, txDropped>>

\* Variant: refused packets give their sequence numbers back.
ReusingTxSend(p) ==
  /\ Alive /\ tx[p] = "send"
  /\ \E sent \in 0 .. Min({Len(packets[p]), TxDescs}) :
       /\ wire' = [wire EXCEPT ![p] = IF sent > 0 THEN packets[p][sent] ELSE @]
       /\ nic' = [nic EXCEPT ![p] = sent]
       /\ txPackets' = [txPackets EXCEPT ![p] = @ + sent]
       /\ txDropped' = [txDropped EXCEPT ![p] = @ + Len(packets[p]) - sent]
       /\ pktSeq' = [pktSeq EXCEPT ![p] = @ - (Len(packets[p]) - sent)]
  /\ packets' = [packets EXCEPT ![p] = <<>>]
  /\ TxGoto(p, "check")
  /\ UNCHANGED <<config, running, mainVars, readerVars, payloadRing, held>>

\* Variant: the mbufs of refused packets are not freed.
LeakingTxSend(p) ==
  /\ Alive /\ tx[p] = "send"
  /\ \E sent \in 0 .. Min({Len(packets[p]), TxDescs}) :
       /\ wire' = [wire EXCEPT ![p] = IF sent > 0 THEN packets[p][sent] ELSE @]
       /\ nic' = [nic EXCEPT ![p] = @ + Len(packets[p])]
       /\ txPackets' = [txPackets EXCEPT ![p] = @ + sent]
       /\ txDropped' = [txDropped EXCEPT ![p] = @ + Len(packets[p]) - sent]
  /\ packets' = [packets EXCEPT ![p] = <<>>]
  /\ TxGoto(p, "check")
  /\ UNCHANGED <<config, running, mainVars, readerVars, payloadRing, held, pktSeq>>

(* rte_eth_tx_burst first returns the mbufs of packets already on the wire  *)
(* to the pool, then takes a prefix of the burst; the rest is freed here    *)
(* and counted.                                                             *)
TxSend(p) ==
  /\ Alive /\ tx[p] = "send"
  /\ \E gone \in 0 .. nic[p] :
     \E sent \in 0 .. Min({Len(packets[p]), TxDescs - (nic[p] - gone)}) :
       /\ wire' = [wire EXCEPT ![p] = IF sent > 0 THEN packets[p][sent] ELSE @]
       /\ nic' = [nic EXCEPT ![p] = @ - gone + sent]
       /\ txPackets' = [txPackets EXCEPT ![p] = @ + sent]
       /\ txDropped' = [txDropped EXCEPT ![p] = @ + Len(packets[p]) - sent]
  /\ packets' = [packets EXCEPT ![p] = <<>>]
  /\ TxGoto(p, "check")
  /\ UNCHANGED <<config, running, mainVars, readerVars, payloadRing, held, pktSeq>>

-----------------------------------------------------------------------------
Main == MainStart \/ MainLaunch \/ MainStats \/ MainJoin
Reader(p) == ReaderLoad(p) \/ ReaderAbort(p) \/ ReaderCheck(p) \/ ReaderRewind(p)
             \/ ReaderEnqueue(p) \/ ReaderFree(p) \/ ReaderStop(p)
Tx(p) == TxPrime(p) \/ TxAbort(p) \/ TxCheck(p) \/ TxDequeue(p) \/ TxBuild(p) \/ TxSend(p)
Next ==
  \/ Main \/ Signal \/ KeyQuit
  \/ \E p \in Ports : Reader(p) \/ Tx(p)
Spec == Init /\ [][Next]_vars

(* Every core runs on a processor of its own and none of them blocks. *)
FairSpec == Spec /\ WF_vars(Main) /\ \A p \in Ports : WF_vars(Reader(p)) /\ WF_vars(Tx(p))
-----------------------------------------------------------------------------
(* Type invariant. *)
TypeOK ==
  /\ loopCount \in LoopCounts /\ valid \subseteq Ports
  /\ running \in BOOLEAN /\ asked \in BOOLEAN
  /\ main \in {"init", "launch", "stats", "join", "exit", "aborted"}
  /\ launched \in 0 .. 2 * NumPorts
  /\ reader \in [Ports -> {"off", "load", "check", "fill", "free", "stop", "done"}]
  /\ tx \in [Ports -> {"off", "prime", "check", "dequeue", "build", "send", "done"}]
  /\ offset \in [Ports -> 0 .. CachePkts] /\ loop \in [Ports -> Nat]
  /\ cacheLive \in [Ports -> BOOLEAN]
  /\ payloadRing \in [Ports -> Seq(0 .. (CachePkts - 1))]
  /\ \A p \in Ports : Len(payloadRing[p]) <= RingCapacity
  /\ held \in [Ports -> Seq(0 .. (CachePkts - 1))]
  /\ packets \in [Ports -> Seq([seq : Nat, payload : 0 .. (CachePkts - 1)])]
  /\ nic \in [Ports -> 0 .. TxDescs] /\ pktSeq \in [Ports -> Nat]
  /\ readPackets \in [Ports -> Nat] /\ txPackets \in [Ports -> Nat] /\ txDropped \in [Ports -> Nat]
  /\ wire \in [Ports -> [seq : Nat \cup {-1}, payload : 0 .. (CachePkts - 1)]]

(* Every packet read is in the ring, in the TX core's hands, transmitted or  *)
(* counted as dropped.                                                       *)
Conserved ==
  \A p \in Ports :
    readPackets[p] = txPackets[p] + txDropped[p]
                     + Len(payloadRing[p]) + Len(held[p]) + Len(packets[p])

(* The packets on the wire are the waveform in order: sequence numbers grow, *)
(* and packet number n carries the n-th payload of the looped cache, however *)
(* many packets were dropped before it.                                      *)
WireInOrder ==
  [][\A p \in Ports : wire'[p] # wire[p] =>
       /\ wire'[p].seq > wire[p].seq
       /\ wire'[p].payload = wire'[p].seq % CachePkts]_vars

(* A port never reads more than loop_count passes over its cache, and stops  *)
(* on a pass boundary unless something stopped the program.                  *)
LoopsHonoured ==
  \A p \in Ports :
    /\ loopCount > 0 => readPackets[p] <= loopCount * CachePkts
    /\ reader[p] \in {"free", "stop"} /\ running => readPackets[p] = loopCount * CachePkts

(* The pool always has mbufs for a whole burst, so pointers never go back to *)
(* the end of the ring, out of order.                                        *)
PoolSuffices ==
  \A p \in Ports : tx[p] = "build" => FreeMbufs(p) >= Len(held[p])

(* Once the flag is cleared, all the cores stop and the program ends. *)
StopsAll == (main # "init" /\ ~running) ~> ~Alive

-----------------------------------------------------------------------------
(* What the documentation says and the code does not do.                     *)

(* "SIGINT/SIGTERM remain the clean-shutdown path": a signal ends the        *)
(* program, whenever it comes.                                               *)
SignalStops == asked ~> ~Alive

(* "memcpy 512-byte payload from file cache pointer": packets are built from *)
(* the waveform cache, never from memory the reader has freed.               *)
CopiesLivePayload == \A p \in Ports : tx[p] = "build" => cacheLive[p]
=============================================================================
