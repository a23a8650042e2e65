--------------------------- MODULE PlaybackProofs ---------------------------
(***************************************************************************)
(* The safety properties of Playback, for any number of ports, any sizes   *)
(* of cache, ring, pool, bursts and descriptor queue, and any loop_count.  *)
(*                                                                         *)
(* The heart is that the sequence number of a packet and the position of   *)
(* its payload in the looped cache are tied from the reader to the wire:   *)
(* what is in the ring, in the TX core's hands, in the burst and on the    *)
(* wire are consecutive parts of one numbered stream (Stream).             *)
(***************************************************************************)
EXTENDS Playback, SequenceTheorems, TLAPS

(* Division with remainder. *)
LEMMA DivMod ==
  ASSUME NEW a \in Int, NEW m \in Nat \ {0}
  PROVE  /\ a = (m * (a \div m)) + (a % m)
         /\ (a % m) \in 0 .. (m - 1)
         /\ (a \div m) \in Int
OBVIOUS

(* A remainder is unique. *)
LEMMA ModUnique ==
  ASSUME NEW m \in Nat \ {0}, NEW q \in Int, NEW r \in 0 .. (m - 1)
  PROVE  ((m * q) + r) % m = r
OBVIOUS

Positions == 0 .. (CachePkts - 1)
Packet == [seq : Nat, payload : Positions]

LEMMA Sizes ==
  /\ NumPorts \in Nat \ {0} /\ CachePkts \in Nat \ {0} /\ RingCapacity \in Nat
  /\ ReadBurst \in Nat /\ TxBurst \in Nat /\ TxDescs \in Nat /\ RxDescs \in Nat
  /\ PoolSize \in Nat /\ MaxPackets \in Nat
  /\ PoolSize >= RxDescs + TxDescs + TxBurst
  /\ \A n \in LoopCounts : n \in Nat
  BY PlaybackAssumption

(* The payload the n-th packet of a port carries. *)
Nth(n) == n % CachePkts

LEMMA NthProperties ==
  /\ \A n \in Nat : Nth(n) \in Positions
  /\ \A l \in Nat, k \in Positions : Nth(l * CachePkts + k) = k
<1>1. ASSUME NEW n \in Nat PROVE Nth(n) \in Positions
  BY Sizes, DivMod DEF Nth, Positions
<1>2. ASSUME NEW l \in Nat, NEW k \in Positions PROVE Nth(l * CachePkts + k) = k
  <2>1. (CachePkts * l + k) % CachePkts = k
    BY Sizes, ModUnique DEF Positions
  <2>2. CachePkts * l = l * CachePkts
    BY Sizes
  <2> QED BY <2>1, <2>2 DEF Nth
<1> QED BY <1>1, <1>2

-----------------------------------------------------------------------------
(* The numbered stream of a port: packets read, those in the ring, in the   *)
(* TX core's hands and in its burst, the next number, and the last packet   *)
(* on the wire.                                                             *)
Stream(read, ring, burst, pkts, next, last) ==
  /\ read = next + Len(burst) + Len(ring)
  /\ Len(pkts) <= next
  /\ \A i \in 1 .. Len(ring) : ring[i] = Nth(next + Len(burst) + i - 1)
  /\ \A i \in 1 .. Len(burst) : burst[i] = Nth(next + i - 1)
  /\ \A i \in 1 .. Len(pkts) : /\ pkts[i].seq = next - Len(pkts) + i - 1
                               /\ pkts[i].payload = Nth(next - Len(pkts) + i - 1)
  /\ last.seq < next - Len(pkts)

(* The reader appends the next payloads. *)
LEMMA StreamEnqueue ==
  ASSUME NEW read \in Nat, NEW ring \in Seq(Positions), NEW burst \in Seq(Positions),
         NEW pkts, NEW next \in Nat, NEW last, NEW added \in Seq(Positions),
         Stream(read, ring, burst, pkts, next, last),
         \A i \in 1 .. Len(added) : added[i] = Nth(read + i - 1)
  PROVE  LET new == ring \o added
         IN  /\ new \in Seq(Positions) /\ Len(new) = Len(ring) + Len(added)
             /\ Stream(read + Len(added), new, burst, pkts, next, last)
<1> DEFINE new == ring \o added
           n == Len(added)
<1>1. n \in Nat
  BY LenProperties
<1>2. /\ new \in Seq(Positions) /\ Len(new) = Len(ring) + n
      /\ \A i \in 1 .. Len(ring) + n : new[i] = IF i <= Len(ring) THEN ring[i] ELSE added[i - Len(ring)]
  BY ConcatProperties
<1>3. Len(ring) \in Nat /\ Len(burst) \in Nat
  BY LenProperties
<1>4. read = next + Len(burst) + Len(ring)
  BY DEF Stream
<1>5. \A i \in 1 .. n : added[i] = Nth(read + i - 1)
  OBVIOUS
<1> HIDE DEF new, n
<1>6. ASSUME NEW i \in 1 .. Len(new) PROVE new[i] = Nth(next + Len(burst) + i - 1)
  <2>1. CASE i <= Len(ring)
    BY <1>2, <1>3, <2>1 DEF Stream
  <2>2. CASE i > Len(ring)
    <3>1. i - Len(ring) \in 1 .. n
      BY <1>1, <1>2, <1>3, <2>2
    <3>2. new[i] = added[i - Len(ring)]
      BY <1>1, <1>2, <1>3, <2>2
    <3>3. new[i] = Nth(read + (i - Len(ring)) - 1)
      BY <1>5, <3>1, <3>2
    <3>4. read + (i - Len(ring)) - 1 = next + Len(burst) + i - 1
      BY <1>3, <1>4
    <3> QED BY <3>3, <3>4
  <2> QED BY <1>2, <1>3, <2>1, <2>2
<1>7. read + n = next + Len(burst) + Len(new)
  BY <1>1, <1>2, <1>3, <1>4
<1>8. Stream(read + n, new, burst, pkts, next, last)
  BY <1>6, <1>7 DEF Stream
<1> QED BY <1>2, <1>8 DEF new, n

(* The TX core takes the oldest pointers. *)
LEMMA StreamDequeue ==
  ASSUME NEW read \in Nat, NEW ring \in Seq(Positions), NEW pkts, NEW next \in Nat, NEW last,
         NEW n \in Nat, n <= Len(ring),
         Stream(read, ring, <<>>, pkts, next, last)
  PROVE  LET burst == SubSeq(ring, 1, n)
             rest  == SubSeq(ring, n + 1, Len(ring))
         IN  /\ burst \in Seq(Positions) /\ Len(burst) = n
             /\ rest \in Seq(Positions) /\ Len(rest) = Len(ring) - n
             /\ Stream(read, rest, burst, pkts, next, last)
<1> DEFINE burst == SubSeq(ring, 1, n)
           rest  == SubSeq(ring, n + 1, Len(ring))
<1>1. Len(ring) \in Nat /\ \A i \in 1 .. Len(ring) : ring[i] \in Positions
  BY LenProperties
<1>2. burst \in Seq(Positions) /\ Len(burst) = n /\ \A i \in 1 .. n : burst[i] = ring[i]
  BY <1>1, SubSeqProperties
<1>3. /\ rest \in Seq(Positions) /\ Len(rest) = Len(ring) - n
      /\ \A i \in 1 .. Len(ring) - n : rest[i] = ring[n + i]
  BY <1>1, SubSeqProperties
<1> HIDE DEF burst, rest
<1>4. /\ read = next + Len(ring) /\ \A i \in 1 .. Len(ring) : ring[i] = Nth(next + i - 1)
  BY <1>1 DEF Stream
<1>5. ASSUME NEW i \in 1 .. Len(rest) PROVE rest[i] = Nth(next + Len(burst) + i - 1)
  <2>1. n + i \in 1 .. Len(ring)
    BY <1>1, <1>3
  <2>2. next + (n + i) - 1 = next + Len(burst) + i - 1
    BY <1>2
  <2> QED BY <1>3, <1>4, <2>1, <2>2
<1>6. \A i \in 1 .. Len(burst) : burst[i] = Nth(next + i - 1)
  BY <1>1, <1>2, <1>4
<1>7. read = next + Len(burst) + Len(rest)
  BY <1>1, <1>2, <1>3, <1>4
<1>8. Stream(read, rest, burst, pkts, next, last)
  BY <1>5, <1>6, <1>7 DEF Stream
<1> QED BY <1>2, <1>3, <1>8 DEF burst, rest

(* Packets are built of them. *)
LEMMA StreamBuild ==
  ASSUME NEW read \in Nat, NEW ring \in Seq(Positions), NEW burst \in Seq(Positions),
         NEW next \in Nat, NEW last, last.seq \in Int,
         Stream(read, ring, burst, <<>>, next, last)
  PROVE  LET pkts == [i \in 1 .. Len(burst) |-> [seq |-> next + i - 1, payload |-> burst[i]]]
         IN  /\ pkts \in Seq(Packet) /\ Len(pkts) = Len(burst)
             /\ Stream(read, ring, <<>>, pkts, next + Len(burst), last)
<1> DEFINE pkts == [i \in 1 .. Len(burst) |-> [seq |-> next + i - 1, payload |-> burst[i]]]
<1>1. Len(burst) \in Nat /\ \A i \in 1 .. Len(burst) : burst[i] \in Positions
  BY LenProperties
<1>2. \A i \in 1 .. Len(burst) : [seq |-> next + i - 1, payload |-> burst[i]] \in Packet
  BY <1>1 DEF Packet
<1>3. pkts \in Seq(Packet) /\ Len(pkts) = Len(burst)
  BY <1>1, <1>2
<1>4. \A i \in 1 .. Len(pkts) : pkts[i].seq = next + i - 1 /\ pkts[i].payload = burst[i]
  BY <1>3
<1> HIDE DEF pkts
<1>5. Len(ring) \in Nat
  BY LenProperties
<1>6. ASSUME NEW i \in 1 .. Len(pkts)
      PROVE  /\ pkts[i].seq = (next + Len(burst)) - Len(pkts) + i - 1
             /\ pkts[i].payload = Nth((next + Len(burst)) - Len(pkts) + i - 1)
  <2>1. (next + Len(burst)) - Len(pkts) + i - 1 = next + i - 1
    BY <1>1, <1>3
  <2>2. burst[i] = Nth(next + i - 1)
    BY <1>3 DEF Stream
  <2> QED BY <1>4, <2>1, <2>2
<1>7. /\ read = (next + Len(burst)) + Len(<<>>) + Len(ring) /\ Len(pkts) <= next + Len(burst)
      /\ last.seq < (next + Len(burst)) - Len(pkts)
  BY <1>1, <1>3, <1>5 DEF Stream
<1>8. ASSUME NEW i \in 1 .. Len(ring)
      PROVE  ring[i] = Nth((next + Len(burst)) + Len(<<>>) + i - 1)
  <2>1. (next + Len(burst)) + Len(<<>>) + i - 1 = next + Len(burst) + i - 1
    BY <1>1
  <2> QED BY <2>1 DEF Stream
<1>9. Stream(read, ring, <<>>, pkts, next + Len(burst), last)
  BY <1>6, <1>7, <1>8 DEF Stream
<1> QED BY <1>3, <1>9 DEF pkts

(* A prefix of them goes on the wire, the rest is dropped. *)
LEMMA StreamSend ==
  ASSUME NEW read \in Nat, NEW ring, NEW pkts \in Seq(Packet), NEW next \in Nat,
         NEW last, last.seq \in Int, NEW sent \in 0 .. Len(pkts),
         Stream(read, ring, <<>>, pkts, next, last)
  PROVE  LET w == IF sent > 0 THEN pkts[sent] ELSE last
         IN  /\ Stream(read, ring, <<>>, <<>>, next, w)
             /\ sent > 0 => w \in Packet /\ w.seq > last.seq /\ w.payload = Nth(w.seq)
<1>1. Len(pkts) \in Nat /\ \A i \in 1 .. Len(pkts) : pkts[i] \in Packet
  BY LenProperties
<1>2. CASE sent = 0
  BY <1>1, <1>2 DEF Stream
<1>3. CASE sent > 0
  <2>1. sent \in 1 .. Len(pkts)
    BY <1>1, <1>3
  <2>2. /\ pkts[sent].seq = next - Len(pkts) + sent - 1
        /\ pkts[sent].payload = Nth(next - Len(pkts) + sent - 1)
        /\ last.seq < next - Len(pkts) /\ Len(pkts) <= next
    BY <2>1 DEF Stream
  <2>3. pkts[sent].seq > last.seq /\ pkts[sent].seq < next /\ pkts[sent].payload = Nth(pkts[sent].seq)
    BY <1>1, <2>1, <2>2
  <2>4. pkts[sent] \in Packet
    BY <1>1, <2>1
  <2>5. Stream(read, ring, <<>>, <<>>, next, pkts[sent])
    BY <2>3 DEF Stream
  <2> QED BY <1>3, <2>3, <2>4, <2>5
<1> QED BY <1>2, <1>3

-----------------------------------------------------------------------------
(* The inductive invariant. *)

ReaderStates == {"off", "load", "check", "fill", "free", "stop", "done"}
TxStates == {"off", "prime", "check", "dequeue", "build", "send", "done"}

MainTyped ==
  /\ loopCount \in LoopCounts /\ valid \subseteq Ports
  /\ running \in BOOLEAN /\ asked \in BOOLEAN
  /\ main \in {"init", "launch", "stats", "join", "exit", "aborted"}
  /\ launched \in 0 .. 2 * NumPorts
CoresTyped == reader \in [Ports -> ReaderStates] /\ tx \in [Ports -> TxStates]
ReadTyped ==
  /\ offset \in [Ports -> 0 .. CachePkts] /\ loop \in [Ports -> Nat]
  /\ cacheLive \in [Ports -> BOOLEAN] /\ readPackets \in [Ports -> Nat]
RingTyped ==
  /\ payloadRing \in [Ports -> Seq(Positions)]
  /\ \A p \in Ports : Len(payloadRing[p]) <= RingCapacity
TxTyped ==
  /\ held \in [Ports -> Seq(Positions)] /\ packets \in [Ports -> Seq(Packet)]
  /\ nic \in [Ports -> 0 .. TxDescs] /\ pktSeq \in [Ports -> Nat]
  /\ txPackets \in [Ports -> Nat] /\ txDropped \in [Ports -> Nat]
  /\ wire \in [Ports -> [seq : Nat \cup {-1}, payload : Positions]]

(* A core is off until its turn to be launched comes. *)
LaunchInv ==
  /\ main = "init" => launched = 0
  /\ main = "launch" => launched < 2 * NumPorts
  /\ \A p \in Ports : /\ launched <= 2 * p => reader[p] = "off"
                      /\ launched <= 2 * p + 1 => tx[p] = "off"

(* What a reader has read is whole passes and an offset; the offset is within *)
(* a pass that loop_count allows.                                             *)
ReadInv(p) ==
  /\ readPackets[p] = loop[p] * CachePkts + offset[p]
  /\ loopCount = 0 => readPackets[p] <= MaxPackets
  /\ reader[p] \in {"off", "load"} => loop[p] = 0 /\ offset[p] = 0
  /\ loopCount > 0 => /\ loop[p] <= loopCount
                      /\ reader[p] = "fill" \/ offset[p] > 0 => loop[p] < loopCount
  /\ reader[p] \in {"free", "stop"} /\ running => loopCount > 0 /\ loop[p] = loopCount

(* The TX core has pointers or packets in its hands only in between. *)
TxInv(p) ==
  /\ tx[p] # "build" => held[p] = <<>>
  /\ tx[p] # "send" => packets[p] = <<>>
  /\ Len(held[p]) <= TxBurst
  /\ pktSeq[p] = txPackets[p] + txDropped[p] + Len(packets[p])

StreamInv(p) ==
  Stream(readPackets[p], payloadRing[p], held[p], packets[p], pktSeq[p], wire[p])

Typed == MainTyped /\ CoresTyped /\ ReadTyped /\ RingTyped /\ TxTyped
IInv == Typed /\ LaunchInv /\ \A p \in Ports : ReadInv(p) /\ TxInv(p) /\ StreamInv(p)

LEMMA TypedIsTypeOK == Typed <=> TypeOK
  BY DEF Typed, MainTyped, CoresTyped, ReadTyped, RingTyped, TxTyped, TypeOK, Positions, Packet,
         ReaderStates, TxStates

LEMMA InitHolds == Init => IInv
<1> SUFFICES ASSUME Init PROVE IInv
  OBVIOUS
<1> USE Sizes
<1>1. MainTyped
  <2>1. valid \subseteq Ports
    BY DEF Init
  <2>2. 0 \in 0 .. 2 * NumPorts
    OBVIOUS
  <2> QED BY <2>1, <2>2 DEF Init, MainTyped
<1>2. CoresTyped
  BY DEF Init, CoresTyped, ReaderStates, TxStates
<1>3. ReadTyped
  BY DEF Init, ReadTyped, Zero
<1>4. RingTyped
  BY DEF Init, RingTyped, Empty
<1>5. CachePkts - 1 \in Positions /\ NoPacket.seq = -1
  BY DEF Positions, NoPacket
<1>6. wire \in [Ports -> [seq : Nat \cup {-1}, payload : Positions]]
  BY <1>5 DEF Init, NoPacket
<1>7. TxTyped
  BY <1>6 DEF Init, TxTyped, Empty, Zero
<1>8. LaunchInv
  BY DEF Init, LaunchInv
<1>9. ASSUME NEW p \in Ports PROVE ReadInv(p) /\ TxInv(p) /\ StreamInv(p)
  <2>1. /\ readPackets[p] = 0 /\ loop[p] = 0 /\ offset[p] = 0 /\ reader[p] = "off"
        /\ payloadRing[p] = <<>> /\ held[p] = <<>> /\ packets[p] = <<>>
        /\ pktSeq[p] = 0 /\ txPackets[p] = 0 /\ txDropped[p] = 0 /\ wire[p] = NoPacket
    BY DEF Init, Zero, Empty
  <2>2. loopCount \in Nat
    BY <1>1 DEF MainTyped
  <2>3. ReadInv(p)
    BY <2>1, <2>2 DEF ReadInv
  <2>4. TxInv(p)
    BY <2>1 DEF TxInv
  <2>5. StreamInv(p)
    BY <1>5, <2>1 DEF StreamInv, Stream
  <2> QED BY <2>3, <2>4, <2>5
<1> QED BY <1>1, <1>2, <1>3, <1>4, <1>7, <1>8, <1>9 DEF IInv, Typed

-----------------------------------------------------------------------------
(* Frames: what a step leaves alone stays true. *)

LEMMA ReadFrame ==
  ASSUME NEW p \in Ports, ReadInv(p), loopCount' = loopCount, running' => running,
         reader'[p] = reader[p], offset'[p] = offset[p], loop'[p] = loop[p],
         readPackets'[p] = readPackets[p]
  PROVE  ReadInv(p)'
  BY DEF ReadInv

LEMMA TxFrame ==
  ASSUME NEW p \in Ports, TxInv(p), tx'[p] = tx[p], held'[p] = held[p],
         packets'[p] = packets[p], pktSeq'[p] = pktSeq[p],
         txPackets'[p] = txPackets[p], txDropped'[p] = txDropped[p]
  PROVE  TxInv(p)'
  BY DEF TxInv

LEMMA StreamFrame ==
  ASSUME NEW p \in Ports, StreamInv(p), readPackets'[p] = readPackets[p],
         payloadRing'[p] = payloadRing[p], held'[p] = held[p], packets'[p] = packets[p],
         pktSeq'[p] = pktSeq[p], wire'[p] = wire[p]
  PROVE  StreamInv(p)'
  BY DEF StreamInv

LEMMA TxUntouched ==
  ASSUME UNCHANGED txVars
  PROVE  /\ tx' = tx /\ held' = held /\ packets' = packets /\ nic' = nic /\ pktSeq' = pktSeq
         /\ txPackets' = txPackets /\ txDropped' = txDropped /\ wire' = wire
  BY DEF txVars

LEMMA ReaderUntouched ==
  ASSUME UNCHANGED readerVars
  PROVE  /\ reader' = reader /\ offset' = offset /\ loop' = loop /\ cacheLive' = cacheLive
         /\ readPackets' = readPackets
  BY DEF readerVars

(* A step of the reader of port p concerns that port only. *)
LEMMA ReaderStep ==
  ASSUME IInv, NEW p \in Ports, reader[p] # "off", NEW r \in ReaderStates, r # "off",
         reader' = [reader EXCEPT ![p] = r],
         UNCHANGED config, UNCHANGED mainVars, UNCHANGED txVars,
         running' \in BOOLEAN, running' => running, ReadTyped', RingTyped',
         \A q \in Ports \ {p} : /\ offset'[q] = offset[q] /\ loop'[q] = loop[q]
                                /\ readPackets'[q] = readPackets[q]
                                /\ payloadRing'[q] = payloadRing[q],
         ReadInv(p)', StreamInv(p)'
  PROVE  IInv'
<1> USE TxUntouched
<1>1. loopCount' = loopCount /\ valid' = valid /\ main' = main /\ launched' = launched /\ asked' = asked
  BY DEF config, mainVars
<1>2. MainTyped'
  BY <1>1 DEF IInv, Typed, MainTyped
<1>3. CoresTyped' /\ reader'[p] = r /\ \A q \in Ports \ {p} : reader'[q] = reader[q]
  BY DEF IInv, Typed, CoresTyped
<1>4. TxTyped'
  BY DEF IInv, Typed, TxTyped
<1>5. LaunchInv'
  BY <1>1, <1>3 DEF IInv, LaunchInv
<1>6. ASSUME NEW q \in Ports PROVE ReadInv(q)'
  BY <1>1, <1>3, ReadFrame DEF IInv
<1>7. ASSUME NEW q \in Ports PROVE TxInv(q)'
  BY TxFrame DEF IInv
<1>8. ASSUME NEW q \in Ports PROVE StreamInv(q)'
  BY StreamFrame DEF IInv
<1> QED BY <1>2, <1>3, <1>4, <1>5, <1>6, <1>7, <1>8 DEF IInv, Typed

(* So does one of its TX core. *)
LEMMA TxStep ==
  ASSUME IInv, NEW p \in Ports, tx[p] # "off", NEW t \in TxStates, t # "off",
         tx' = [tx EXCEPT ![p] = t],
         UNCHANGED config, UNCHANGED running, UNCHANGED mainVars, UNCHANGED readerVars,
         RingTyped', TxTyped',
         \A q \in Ports \ {p} : /\ payloadRing'[q] = payloadRing[q] /\ held'[q] = held[q]
                                /\ packets'[q] = packets[q] /\ pktSeq'[q] = pktSeq[q]
                                /\ txPackets'[q] = txPackets[q] /\ txDropped'[q] = txDropped[q]
                                /\ wire'[q] = wire[q],
         TxInv(p)', StreamInv(p)'
  PROVE  IInv'
<1> USE ReaderUntouched
<1>1. /\ loopCount' = loopCount /\ valid' = valid /\ main' = main /\ launched' = launched
      /\ asked' = asked /\ running' = running
  BY DEF config, mainVars
<1>2. MainTyped'
  BY <1>1 DEF IInv, Typed, MainTyped
<1>3. CoresTyped' /\ tx'[p] = t /\ \A q \in Ports \ {p} : tx'[q] = tx[q]
  BY DEF IInv, Typed, CoresTyped
<1>4. ReadTyped'
  BY DEF IInv, Typed, ReadTyped
<1>5. LaunchInv'
  BY <1>1, <1>3 DEF IInv, LaunchInv
<1>6. ASSUME NEW q \in Ports PROVE ReadInv(q)'
  BY <1>1, ReadFrame DEF IInv
<1>7. ASSUME NEW q \in Ports PROVE TxInv(q)'
  BY <1>3, TxFrame DEF IInv
<1>8. ASSUME NEW q \in Ports PROVE StreamInv(q)'
  BY StreamFrame DEF IInv
<1> QED BY <1>2, <1>3, <1>4, <1>5, <1>6, <1>7, <1>8 DEF IInv, Typed

(* The main core's own steps leave the ports alone. *)
LEMMA MainStep ==
  ASSUME IInv, UNCHANGED config, UNCHANGED readerVars, UNCHANGED payloadRing, UNCHANGED txVars,
         running' \in BOOLEAN, asked' \in BOOLEAN,
         running' => running \/ main = "init",
         main' \in {"init", "launch", "stats", "join", "exit", "aborted"}, launched' = launched,
         main' = "init" => main = "init", main' = "launch" => main \in {"init", "launch"}
  PROVE  IInv'
<1> USE TxUntouched, ReaderUntouched
<1>1. loopCount' = loopCount /\ valid' = valid
  BY DEF config
<1>2. MainTyped'
  BY <1>1 DEF IInv, Typed, MainTyped
<1>3. CoresTyped' /\ ReadTyped'
  BY DEF IInv, Typed, CoresTyped, ReadTyped
<1>4. RingTyped' /\ TxTyped'
  BY DEF IInv, Typed, RingTyped, TxTyped
<1>5. LaunchInv'
  BY Sizes DEF IInv, LaunchInv
<1>6. ASSUME NEW q \in Ports PROVE ReadInv(q)'
  <2>1. CASE running' => running
    BY <1>1, <2>1, ReadFrame DEF IInv
  <2>2. CASE main = "init"
    <3>1. reader[q] = "off"
      BY <2>2 DEF IInv, LaunchInv, Ports
    <3> QED BY <1>1, <3>1 DEF IInv, ReadInv
  <2> QED BY <2>1, <2>2
<1>7. ASSUME NEW q \in Ports PROVE TxInv(q)' /\ StreamInv(q)'
  BY TxFrame, StreamFrame DEF IInv
<1> QED BY <1>2, <1>3, <1>4, <1>5, <1>6, <1>7 DEF IInv, Typed
-----------------------------------------------------------------------------
(* The readers. *)

(* A least element is what Min chooses. *)
LEMMA MinIsLeast ==
  ASSUME NEW S, NEW m \in S, \A y \in S : m <= y
  PROVE  Min(S) \in S /\ \A y \in S : Min(S) <= y
  BY DEF Min

LEMMA MinTwo ==
  ASSUME NEW a \in Nat, NEW b \in Nat
  PROVE  Min({a, b}) \in {a, b} /\ Min({a, b}) <= a /\ Min({a, b}) <= b
<1>1. CASE a <= b
  BY <1>1, a \in {a, b}, \A y \in {a, b} : a <= y, MinIsLeast
<1>2. CASE b <= a
  BY <1>2, b \in {a, b}, \A y \in {a, b} : b <= y, MinIsLeast
<1> QED BY <1>1, <1>2

(* A burst enqueue never takes more than the rest of the pass, the ring's   *)
(* free room or, played for ever, the bound on packets.                     *)
LEMMA EnqueuedBounds ==
  ASSUME IInv, NEW p \in Ports
  PROVE  /\ Enqueued(p) \in Nat /\ Enqueued(p) <= CachePkts - offset[p]
         /\ Enqueued(p) <= RingCapacity - Len(payloadRing[p])
         /\ loopCount = 0 => Enqueued(p) <= MaxPackets - readPackets[p]
<1> DEFINE S == {ReadBurst, CachePkts - offset[p], RingCapacity - Len(payloadRing[p])}
           T == IF loopCount = 0 THEN {MaxPackets - readPackets[p]} ELSE {}
<1>1. /\ offset[p] \in 0 .. CachePkts /\ readPackets[p] \in Nat
      /\ payloadRing[p] \in Seq(Positions) /\ Len(payloadRing[p]) <= RingCapacity
      /\ ReadInv(p)
  BY DEF IInv, Typed, ReadTyped, RingTyped
<1>2. Len(payloadRing[p]) \in Nat
  BY <1>1, LenProperties
<1>3. CachePkts - offset[p] \in Nat /\ RingCapacity - Len(payloadRing[p]) \in Nat /\ ReadBurst \in Nat
  BY <1>1, <1>2, Sizes
<1>4. loopCount = 0 => MaxPackets - readPackets[p] \in Nat
  BY <1>1, Sizes DEF ReadInv
<1>5. S \cup T \in SUBSET Nat
  BY <1>3, <1>4
<1>6. Min(S \cup T) \in Nat /\ \A y \in S \cup T : Min(S \cup T) <= y
  <2>1. \A x, y, z \in Nat : \E m \in {x, y, z} : m <= x /\ m <= y /\ m <= z
    OBVIOUS
  <2>2. PICK m \in S : \A y \in S : m <= y
    BY <1>3, <2>1
  <2>3. PICK n \in S \cup T : \A y \in S \cup T : n <= y
    <3>1. CASE loopCount = 0
      <4> DEFINE r == MaxPackets - readPackets[p]
      <4>1. T = {r} /\ r \in Nat /\ m \in Nat
        BY <1>3, <1>4, <3>1
      <4>2. CASE m <= r
        BY <2>2, <4>1, <4>2
      <4>3. CASE r <= m
        BY <2>2, <4>1, <4>3, <1>3
      <4> QED BY <4>1, <4>2, <4>3
    <3>2. CASE loopCount # 0
      BY <2>2, <3>2
    <3> QED BY <3>1, <3>2
  <2> QED BY <1>5, <2>3, MinIsLeast
<1>7. Enqueued(p) = Min(S \cup T)
  BY DEF Enqueued
<1> QED BY <1>6, <1>7

LEMMA LoadHolds == ASSUME IInv, NEW p \in Ports, ReaderLoad(p) PROVE IInv'
<1>1. ReadTyped' /\ RingTyped'
  BY DEF IInv, Typed, ReadTyped, RingTyped, ReaderLoad
<1>2. reader'[p] = "check"
  BY DEF IInv, Typed, CoresTyped, ReaderLoad
<1>3. ReadInv(p)'
  BY <1>2, Sizes DEF IInv, Typed, MainTyped, ReadInv, ReaderLoad, config
<1>4. StreamInv(p)'
  BY TxUntouched, StreamFrame DEF IInv, ReaderLoad
<1> QED BY <1>1, <1>3, <1>4, ReaderStep DEF IInv, Typed, MainTyped, ReaderLoad, ReaderStates

LEMMA CheckHolds == ASSUME IInv, NEW p \in Ports, ReaderCheck(p) PROVE IInv'
<1> DEFINE r == IF running /\ (loopCount = 0 \/ loop[p] < loopCount) THEN "fill" ELSE "free"
<1>1. ReadTyped' /\ RingTyped'
  BY DEF IInv, Typed, ReadTyped, RingTyped, ReaderCheck
<1>2. reader'[p] = r /\ reader' = [reader EXCEPT ![p] = r] /\ r \in ReaderStates /\ r # "off"
  BY DEF IInv, Typed, CoresTyped, ReaderCheck, ReaderStates
<1>3. loopCount \in Nat /\ loop[p] \in Nat
  BY Sizes DEF IInv, Typed, MainTyped, ReadTyped
<1>4. ReadInv(p)'
  BY <1>2, <1>3 DEF IInv, ReadInv, ReaderCheck, config
<1>5. StreamInv(p)'
  BY TxUntouched, StreamFrame DEF IInv, ReaderCheck
<1> HIDE DEF r
<1> QED BY <1>1, <1>2, <1>4, <1>5, ReaderStep DEF IInv, Typed, MainTyped, ReaderCheck

(* At the end of a pass the next begins. *)
LEMMA NextPass ==
  ASSUME NEW l \in Nat, NEW c \in Nat
  PROVE  (l + 1) * c = l * c + c
  OBVIOUS

LEMMA RewindHolds == ASSUME IInv, NEW p \in Ports, ReaderRewind(p) PROVE IInv'
<1>1. /\ offset \in [Ports -> 0 .. CachePkts] /\ loop \in [Ports -> Nat] /\ CachePkts \in Nat
      /\ reader \in [Ports -> ReaderStates] /\ loopCount \in Nat
  BY Sizes DEF IInv, Typed, ReadTyped, CoresTyped, MainTyped
<1>2. /\ offset' \in [Ports -> 0 .. CachePkts] /\ loop' \in [Ports -> Nat]
      /\ offset'[p] = 0 /\ loop'[p] = loop[p] + 1 /\ reader'[p] = "check"
      /\ \A q \in Ports \ {p} : offset'[q] = offset[q] /\ loop'[q] = loop[q]
  BY <1>1 DEF ReaderRewind
<1>3. ReadTyped' /\ RingTyped'
  BY <1>2 DEF IInv, Typed, ReadTyped, RingTyped, ReaderRewind
<1>4. loop'[p] * CachePkts = loop[p] * CachePkts + CachePkts
  BY <1>1, <1>2, NextPass
<1>5. /\ reader[p] = "fill" /\ offset[p] = CachePkts /\ readPackets' = readPackets
      /\ loopCount' = loopCount /\ running' = running
  BY DEF ReaderRewind, config
<1>6. ReadInv(p)
  BY DEF IInv
<1>7. readPackets'[p] = loop'[p] * CachePkts' + offset'[p]
  <2>1. readPackets[p] = loop[p] * CachePkts + CachePkts
    BY <1>5, <1>6 DEF ReadInv
  <2>2. loop[p] * CachePkts \in Int
    BY <1>1
  <2> QED BY <1>1, <1>2, <1>4, <1>5, <2>1, <2>2
<1>8. ReadInv(p)'
  <2>1. loopCount > 0 => loop'[p] <= loopCount
    BY <1>1, <1>2, <1>5, <1>6 DEF ReadInv
  <2> QED BY <1>2, <1>5, <1>6, <1>7, <2>1 DEF ReadInv
<1>9. StreamInv(p)'
  BY TxUntouched, StreamFrame DEF IInv, ReaderRewind
<1> QED BY <1>2, <1>3, <1>8, <1>9, ReaderStep DEF IInv, Typed, MainTyped, ReaderRewind, ReaderStates

LEMMA EnqueueHolds == ASSUME IInv, NEW p \in Ports, ReaderEnqueue(p) PROVE IInv'
<1> DEFINE n == Enqueued(p)
           added == [i \in 1 .. n |-> offset[p] + i - 1]
<1>1. /\ offset \in [Ports -> 0 .. CachePkts] /\ loop \in [Ports -> Nat] /\ CachePkts \in Nat
      /\ readPackets \in [Ports -> Nat] /\ payloadRing \in [Ports -> Seq(Positions)]
      /\ reader \in [Ports -> ReaderStates] /\ loopCount \in Nat
      /\ held[p] \in Seq(Positions) /\ pktSeq[p] \in Nat
      /\ \A q \in Ports : Len(payloadRing[q]) <= RingCapacity
  BY Sizes DEF IInv, Typed, ReadTyped, CoresTyped, MainTyped, RingTyped, TxTyped
<1>2. /\ n \in Nat /\ n <= CachePkts - offset[p] /\ n <= RingCapacity - Len(payloadRing[p])
      /\ loopCount = 0 => n <= MaxPackets - readPackets[p]
  BY EnqueuedBounds
<1>3. /\ payloadRing' = [payloadRing EXCEPT ![p] = payloadRing[p] \o added]
      /\ offset' = [offset EXCEPT ![p] = offset[p] + n]
      /\ readPackets' = [readPackets EXCEPT ![p] = readPackets[p] + n]
      /\ reader' = [reader EXCEPT ![p] = "check"] /\ loop' = loop /\ cacheLive' = cacheLive
      /\ reader[p] = "fill" /\ loopCount' = loopCount /\ running' = running
      /\ UNCHANGED config /\ UNCHANGED mainVars /\ UNCHANGED txVars
  BY DEF ReaderEnqueue, config
<1>4. ReadInv(p) /\ StreamInv(p)
  BY DEF IInv
<1>5. \A i \in 1 .. n : /\ offset[p] + i - 1 \in Positions
                        /\ offset[p] + i - 1 = Nth(readPackets[p] + i - 1)
  <2> SUFFICES ASSUME NEW i \in 1 .. n
               PROVE  /\ offset[p] + i - 1 \in Positions
                      /\ offset[p] + i - 1 = Nth(readPackets[p] + i - 1)
    OBVIOUS
  <2> HIDE DEF n
  <2>1. offset[p] + i - 1 \in Positions
    BY <1>1, <1>2 DEF Positions
  <2>2. Nth(loop[p] * CachePkts + (offset[p] + i - 1)) = offset[p] + i - 1
    BY <1>1, <2>1, NthProperties
  <2>3. loop[p] * CachePkts + (offset[p] + i - 1) = readPackets[p] + i - 1
    <3>1. readPackets[p] = loop[p] * CachePkts + offset[p]
      BY <1>4 DEF ReadInv
    <3>2. loop[p] * CachePkts \in Int
      BY <1>1
    <3> QED BY <1>1, <3>1, <3>2
  <2> QED BY <2>1, <2>2, <2>3
<1>6. LET new == payloadRing[p] \o added
      IN  /\ new \in Seq(Positions) /\ Len(new) = Len(payloadRing[p]) + n
          /\ Stream(readPackets[p] + n, new, held[p], packets[p], pktSeq[p], wire[p])
  <2>1. /\ offset[p] \in Nat /\ readPackets[p] \in Nat /\ payloadRing[p] \in Seq(Positions)
        /\ Stream(readPackets[p], payloadRing[p], held[p], packets[p], pktSeq[p], wire[p])
    BY <1>1, <1>4 DEF StreamInv
  <2>2. n \in Nat /\ held[p] \in Seq(Positions) /\ pktSeq[p] \in Nat
    BY <1>1, <1>2
  <2> HIDE DEF n
  <2>3. added \in Seq(Positions)
    BY <1>5, <2>2
  <2>4. Len(added) = n /\ \A i \in 1 .. n : added[i] = Nth(readPackets[p] + i - 1)
    BY <1>5, <2>2, <2>3, LenProperties
  <2> HIDE DEF added
  <2>5. LET new == payloadRing[p] \o added
        IN  /\ new \in Seq(Positions) /\ Len(new) = Len(payloadRing[p]) + Len(added)
            /\ Stream(readPackets[p] + Len(added), new, held[p], packets[p], pktSeq[p], wire[p])
    <3>1. \A i \in 1 .. Len(added) : added[i] = Nth(readPackets[p] + i - 1)
      BY <2>4
    <3> QED BY <2>1, <2>2, <2>3, <3>1, StreamEnqueue
  <2> QED BY <2>4, <2>5
<1> HIDE DEF n, added
<1>7. /\ payloadRing'[p] = payloadRing[p] \o added /\ offset'[p] = offset[p] + n
      /\ readPackets'[p] = readPackets[p] + n /\ reader'[p] = "check"
      /\ \A q \in Ports \ {p} : /\ offset'[q] = offset[q] /\ loop'[q] = loop[q]
                                /\ readPackets'[q] = readPackets[q]
                                /\ payloadRing'[q] = payloadRing[q]
  BY <1>1, <1>3
<1>8. RingTyped'
  <2>1. payloadRing' \in [Ports -> Seq(Positions)]
    BY <1>1, <1>3, <1>6
  <2>2. Len(payloadRing[p]) \in Nat
    BY <1>1, LenProperties
  <2>3. Len(payloadRing'[p]) <= RingCapacity
    BY <1>2, <1>6, <1>7, <2>2, Sizes
  <2> QED BY <1>1, <1>7, <2>1, <2>3 DEF RingTyped
<1>9. ReadTyped'
  <2>1. offset[p] + n \in 0 .. CachePkts /\ readPackets[p] + n \in Nat
    BY <1>1, <1>2
  <2>2. offset' \in [Ports -> 0 .. CachePkts] /\ readPackets' \in [Ports -> Nat]
    BY <1>1, <1>3, <2>1
  <2> QED BY <1>1, <1>3, <2>2 DEF IInv, Typed, ReadTyped
<1>10. StreamInv(p)'
  BY <1>3, <1>6, <1>7, TxUntouched DEF StreamInv
<1>11. ReadInv(p)'
  <2>1. readPackets'[p] = loop'[p] * CachePkts + offset'[p]
    <3>1. readPackets[p] = loop[p] * CachePkts + offset[p]
      BY <1>4 DEF ReadInv
    <3>2. loop[p] * CachePkts \in Int
      BY <1>1
    <3> QED BY <1>1, <1>2, <1>3, <1>7, <3>1, <3>2
  <2>2. loopCount = 0 => readPackets'[p] <= MaxPackets
    BY <1>1, <1>2, <1>7, Sizes
  <2>3. loopCount > 0 => loop[p] < loopCount /\ loop[p] <= loopCount
    BY <1>3, <1>4 DEF ReadInv
  <2> QED BY <1>3, <1>7, <2>1, <2>2, <2>3 DEF ReadInv
<1> QED BY <1>3, <1>7, <1>8, <1>9, <1>10, <1>11, ReaderStep DEF IInv, Typed, MainTyped, ReaderStates

LEMMA FreeHolds == ASSUME IInv, NEW p \in Ports, ReaderFree(p) PROVE IInv'
<1>1. ReadTyped' /\ RingTyped'
  BY DEF IInv, Typed, ReadTyped, RingTyped, ReaderFree
<1>2. reader'[p] = "stop"
  BY DEF IInv, Typed, CoresTyped, ReaderFree
<1>3. ReadInv(p)'
  BY <1>2 DEF IInv, ReadInv, ReaderFree, config
<1>4. StreamInv(p)'
  BY TxUntouched, StreamFrame DEF IInv, ReaderFree
<1> QED BY <1>1, <1>3, <1>4, ReaderStep DEF IInv, Typed, MainTyped, ReaderFree, ReaderStates

LEMMA StopHolds == ASSUME IInv, NEW p \in Ports, ReaderStop(p) PROVE IInv'
<1>1. ReadTyped' /\ RingTyped'
  BY DEF IInv, Typed, ReadTyped, RingTyped, ReaderStop
<1>2. reader'[p] = "done"
  BY DEF IInv, Typed, CoresTyped, ReaderStop
<1>3. ReadInv(p)'
  BY <1>2 DEF IInv, ReadInv, ReaderStop, config
<1>4. StreamInv(p)'
  BY TxUntouched, StreamFrame DEF IInv, ReaderStop
<1> QED BY <1>1, <1>3, <1>4, ReaderStep DEF IInv, Typed, MainTyped, ReaderStop, ReaderStates

-----------------------------------------------------------------------------
(* The TX cores. *)

LEMMA TxPlain ==
  ASSUME IInv, NEW p \in Ports, tx[p] \in {"prime", "check"},
         NEW t \in {"check", "dequeue", "done"}, tx' = [tx EXCEPT ![p] = t],
         UNCHANGED config, UNCHANGED running, UNCHANGED mainVars, UNCHANGED readerVars,
         UNCHANGED payloadRing, UNCHANGED held, UNCHANGED packets, UNCHANGED txCounters
  PROVE  IInv'
<1>1. /\ nic' = nic /\ pktSeq' = pktSeq /\ txPackets' = txPackets /\ txDropped' = txDropped
      /\ wire' = wire
  BY DEF txCounters
<1>2. RingTyped' /\ TxTyped'
  BY <1>1 DEF IInv, Typed, RingTyped, TxTyped
<1>3. tx'[p] = t
  BY DEF IInv, Typed, CoresTyped
<1>4. TxInv(p)'
  BY <1>1, <1>3 DEF IInv, TxInv
<1>5. StreamInv(p)'
  BY <1>1, ReaderUntouched, StreamFrame DEF IInv
<1> QED BY <1>1, <1>2, <1>4, <1>5, TxStep DEF TxStates

LEMMA TxPrimeHolds == ASSUME IInv, NEW p \in Ports, TxPrime(p) PROVE IInv'
  BY TxPlain DEF TxPrime, TxGoto

LEMMA TxCheckHolds == ASSUME IInv, NEW p \in Ports, TxCheck(p) PROVE IInv'
<1> DEFINE t == IF running THEN "dequeue" ELSE "done"
<1>1. t \in {"check", "dequeue", "done"} /\ tx' = [tx EXCEPT ![p] = t]
  BY DEF TxCheck, TxGoto
<1> HIDE DEF t
<1> QED BY <1>1, TxPlain DEF TxCheck

LEMMA TxDequeueHolds == ASSUME IInv, NEW p \in Ports, TxDequeue(p) PROVE IInv'
<1> DEFINE n == Min({TxBurst, Len(payloadRing[p])})
           burst == SubSeq(payloadRing[p], 1, n)
           rest == SubSeq(payloadRing[p], n + 1, Len(payloadRing[p]))
           t == IF n = 0 THEN "check" ELSE "build"
<1>1. /\ payloadRing \in [Ports -> Seq(Positions)] /\ held \in [Ports -> Seq(Positions)]
      /\ tx \in [Ports -> TxStates] /\ readPackets[p] \in Nat /\ pktSeq[p] \in Nat
      /\ \A q \in Ports : Len(payloadRing[q]) <= RingCapacity
  BY DEF IInv, Typed, ReadTyped, CoresTyped, RingTyped, TxTyped
<1>2. Len(payloadRing[p]) \in Nat /\ TxBurst \in Nat
  BY <1>1, LenProperties, Sizes
<1>3. n \in Nat /\ n <= TxBurst /\ n <= Len(payloadRing[p])
  BY <1>2, MinTwo
<1>4. /\ held' = [held EXCEPT ![p] = burst] /\ payloadRing' = [payloadRing EXCEPT ![p] = rest]
      /\ tx' = [tx EXCEPT ![p] = t] /\ t \in TxStates /\ t # "off" /\ tx[p] = "dequeue"
      /\ packets' = packets /\ nic' = nic /\ pktSeq' = pktSeq /\ txPackets' = txPackets
      /\ txDropped' = txDropped /\ wire' = wire
      /\ t # "send" /\ (t # "build" => n = 0)
  BY DEF TxDequeue, TxGoto, TxStates, txCounters
<1>5. UNCHANGED config /\ UNCHANGED running /\ UNCHANGED mainVars /\ UNCHANGED readerVars
  BY DEF TxDequeue
<1> HIDE DEF t, n
<1>6. held[p] = <<>> /\ packets[p] = <<>> /\ pktSeq[p] = txPackets[p] + txDropped[p] + Len(packets[p])
  BY <1>4 DEF IInv, TxInv
<1>7. /\ burst \in Seq(Positions) /\ Len(burst) = n
      /\ rest \in Seq(Positions) /\ Len(rest) = Len(payloadRing[p]) - n
      /\ Stream(readPackets[p], rest, burst, packets[p], pktSeq[p], wire[p])
  <2>1. Stream(readPackets[p], payloadRing[p], <<>>, packets[p], pktSeq[p], wire[p])
    BY <1>6 DEF IInv, StreamInv
  <2>2. payloadRing[p] \in Seq(Positions)
    BY <1>1
  <2> QED BY <1>1, <1>3, <2>1, <2>2, StreamDequeue
<1> HIDE DEF burst, rest
<1>8. /\ held'[p] = burst /\ payloadRing'[p] = rest /\ tx'[p] = t
      /\ \A q \in Ports \ {p} : payloadRing'[q] = payloadRing[q] /\ held'[q] = held[q]
      /\ held' \in [Ports -> Seq(Positions)] /\ payloadRing' \in [Ports -> Seq(Positions)]
  BY <1>1, <1>4, <1>7
<1>9. RingTyped'
  <2>1. Len(rest) <= RingCapacity
    BY <1>1, <1>2, <1>3, <1>7, Sizes
  <2> QED BY <1>1, <1>8, <2>1 DEF RingTyped
<1>10. TxTyped'
  BY <1>4, <1>8 DEF IInv, Typed, TxTyped
<1>11. TxInv(p)'
  <2>1. n = 0 => burst = <<>>
    BY <1>7, EmptySeq
  <2>2. t # "send" /\ (t # "build" => n = 0)
    BY <1>4
  <2>3. /\ tx'[p] = t /\ held'[p] = burst /\ packets'[p] = <<>> /\ Len(burst) <= TxBurst
        /\ pktSeq'[p] = txPackets'[p] + txDropped'[p] + Len(packets'[p])
    BY <1>3, <1>4, <1>6, <1>7, <1>8
  <2> QED BY <2>1, <2>2, <2>3 DEF TxInv
<1>12. StreamInv(p)'
  BY <1>4, <1>5, <1>7, <1>8, ReaderUntouched DEF StreamInv
<1> QED BY <1>4, <1>5, <1>8, <1>9, <1>10, <1>11, <1>12, TxStep

(* The pool holds a burst beyond what the NIC's queues can keep. *)
LEMMA PoolHolds == IInv => PoolSuffices
<1> SUFFICES ASSUME IInv, NEW p \in Ports PROVE FreeMbufs(p) >= Len(held[p])
  BY DEF PoolSuffices
<1>1. nic[p] \in 0 .. TxDescs /\ held[p] \in Seq(Positions) /\ Len(held[p]) <= TxBurst
  BY DEF IInv, Typed, TxTyped, TxInv
<1>2. Len(held[p]) \in Nat
  BY <1>1, LenProperties
<1> QED BY <1>1, <1>2, Sizes DEF FreeMbufs

LEMMA TxBuildHolds == ASSUME IInv, NEW p \in Ports, TxBuild(p) PROVE IInv'
<1> DEFINE n == Len(held[p])
           pkts == [i \in 1 .. n |-> [seq |-> pktSeq[p] + i - 1, payload |-> held[p][i]]]
<1>1. /\ payloadRing[p] \in Seq(Positions) /\ held \in [Ports -> Seq(Positions)]
      /\ packets \in [Ports -> Seq(Packet)] /\ pktSeq \in [Ports -> Nat]
      /\ tx \in [Ports -> TxStates] /\ readPackets[p] \in Nat /\ wire[p].seq \in Int
      /\ txPackets[p] \in Nat /\ txDropped[p] \in Nat
  BY DEF IInv, Typed, ReadTyped, CoresTyped, RingTyped, TxTyped
<1>2. n \in Nat
  BY <1>1, LenProperties
<1>3. tx[p] = "build" /\ FreeMbufs(p) >= n
  BY PoolHolds DEF PoolSuffices, TxBuild
<1>4. /\ held' = [held EXCEPT ![p] = <<>>] /\ packets' = [packets EXCEPT ![p] = pkts]
      /\ pktSeq' = [pktSeq EXCEPT ![p] = pktSeq[p] + n] /\ tx' = [tx EXCEPT ![p] = "send"]
      /\ payloadRing' = payloadRing /\ nic' = nic /\ txPackets' = txPackets
      /\ txDropped' = txDropped /\ wire' = wire
  BY <1>3 DEF TxBuild, TxGoto
<1>5. UNCHANGED config /\ UNCHANGED running /\ UNCHANGED mainVars /\ UNCHANGED readerVars
  BY DEF TxBuild
<1>6. packets[p] = <<>> /\ pktSeq[p] = txPackets[p] + txDropped[p]
  BY <1>1, <1>3 DEF IInv, TxInv
<1>7. /\ pkts \in Seq(Packet) /\ Len(pkts) = n
      /\ Stream(readPackets[p], payloadRing[p], <<>>, pkts, pktSeq[p] + n, wire[p])
  <2>1. Stream(readPackets[p], payloadRing[p], held[p], <<>>, pktSeq[p], wire[p])
    BY <1>6 DEF IInv, StreamInv
  <2>2. held[p] \in Seq(Positions) /\ pktSeq[p] \in Nat
    BY <1>1
  <2> QED BY <1>1, <2>1, <2>2, StreamBuild
<1> HIDE DEF n, pkts
<1>8. /\ held'[p] = <<>> /\ packets'[p] = pkts /\ pktSeq'[p] = pktSeq[p] + n /\ tx'[p] = "send"
      /\ \A q \in Ports \ {p} : held'[q] = held[q] /\ packets'[q] = packets[q] /\ pktSeq'[q] = pktSeq[q]
  BY <1>1, <1>4
<1>9. /\ held' \in [Ports -> Seq(Positions)] /\ packets' \in [Ports -> Seq(Packet)]
      /\ pktSeq' \in [Ports -> Nat]
  BY <1>1, <1>2, <1>4, <1>7
<1>10. RingTyped' /\ TxTyped'
  BY <1>4, <1>9 DEF IInv, Typed, RingTyped, TxTyped
<1>11. TxInv(p)'
  <2>1. Len(<<>>) <= TxBurst
    BY Sizes
  <2>2. pktSeq'[p] = txPackets'[p] + txDropped'[p] + Len(packets'[p])
    BY <1>1, <1>2, <1>4, <1>6, <1>7, <1>8
  <2> QED BY <1>8, <2>1, <2>2 DEF TxInv
<1>12. StreamInv(p)'
  BY <1>4, <1>5, <1>7, <1>8, ReaderUntouched DEF StreamInv
<1>13. \A q \in Ports \ {p} : /\ payloadRing'[q] = payloadRing[q] /\ held'[q] = held[q]
                              /\ packets'[q] = packets[q] /\ pktSeq'[q] = pktSeq[q]
                              /\ txPackets'[q] = txPackets[q] /\ txDropped'[q] = txDropped[q]
                              /\ wire'[q] = wire[q]
  BY <1>4, <1>8
<1>14. tx[p] # "off" /\ "send" \in TxStates /\ tx' = [tx EXCEPT ![p] = "send"]
  BY <1>3, <1>4 DEF TxStates
<1> QED BY <1>5, <1>10, <1>11, <1>12, <1>13, <1>14, TxStep

(* What a send burst does to one port. *)
Burst(p, gone, sent) ==
  /\ wire' = [wire EXCEPT ![p] = IF sent > 0 THEN packets[p][sent] ELSE wire[p]]
  /\ nic' = [nic EXCEPT ![p] = nic[p] - gone + sent]
  /\ txPackets' = [txPackets EXCEPT ![p] = txPackets[p] + sent]
  /\ txDropped' = [txDropped EXCEPT ![p] = txDropped[p] + Len(packets[p]) - sent]

LEMMA SendBounds ==
  ASSUME IInv, NEW p \in Ports, TxSend(p)
  PROVE  \E gone \in 0 .. nic[p], sent \in 0 .. Len(packets[p]) :
           nic[p] - gone + sent \in 0 .. TxDescs /\ Burst(p, gone, sent)
<1>1. nic[p] \in 0 .. TxDescs /\ packets[p] \in Seq(Packet) /\ TxDescs \in Nat
  BY Sizes DEF IInv, Typed, TxTyped
<1>2. Len(packets[p]) \in Nat
  BY <1>1, LenProperties
<1>3. PICK gone \in 0 .. nic[p] :
        \E sent \in 0 .. Min({Len(packets[p]), TxDescs - (nic[p] - gone)}) : Burst(p, gone, sent)
  BY DEF TxSend, Burst
<1>4. TxDescs - (nic[p] - gone) \in Nat
  BY <1>1
<1>5. LET m == Min({Len(packets[p]), TxDescs - (nic[p] - gone)})
      IN  m \in Nat /\ m <= Len(packets[p]) /\ m <= TxDescs - (nic[p] - gone)
  BY <1>2, <1>4, MinTwo
<1>6. PICK sent \in 0 .. Min({Len(packets[p]), TxDescs - (nic[p] - gone)}) : Burst(p, gone, sent)
  BY <1>3
<1>7. sent \in 0 .. Len(packets[p]) /\ nic[p] - gone + sent \in 0 .. TxDescs
  BY <1>1, <1>2, <1>4, <1>5
<1> QED BY <1>6, <1>7

LEMMA TxSendHolds ==
  ASSUME IInv, NEW p \in Ports, TxSend(p)
  PROVE  /\ IInv'
         /\ \A q \in Ports : wire'[q] # wire[q] =>
              /\ wire'[q].seq > wire[q].seq
              /\ wire'[q].payload = wire'[q].seq % CachePkts
<1>1. /\ payloadRing[p] \in Seq(Positions) /\ nic \in [Ports -> 0 .. TxDescs]
      /\ packets \in [Ports -> Seq(Packet)] /\ pktSeq[p] \in Nat
      /\ tx \in [Ports -> TxStates] /\ readPackets[p] \in Nat /\ wire[p].seq \in Int
      /\ txPackets \in [Ports -> Nat] /\ txDropped \in [Ports -> Nat]
      /\ wire \in [Ports -> [seq : Nat \cup {-1}, payload : Positions]]
  BY DEF IInv, Typed, ReadTyped, CoresTyped, RingTyped, TxTyped
<1>2. PICK gone \in 0 .. nic[p], sent \in 0 .. Len(packets[p]) :
        nic[p] - gone + sent \in 0 .. TxDescs /\ Burst(p, gone, sent)
  BY SendBounds
<1> DEFINE w == IF sent > 0 THEN packets[p][sent] ELSE wire[p]
<1>3. /\ wire' = [wire EXCEPT ![p] = w] /\ nic' = [nic EXCEPT ![p] = nic[p] - gone + sent]
      /\ txPackets' = [txPackets EXCEPT ![p] = txPackets[p] + sent]
      /\ txDropped' = [txDropped EXCEPT ![p] = txDropped[p] + Len(packets[p]) - sent]
  BY <1>2 DEF Burst
<1>4. /\ packets' = [packets EXCEPT ![p] = <<>>] /\ tx' = [tx EXCEPT ![p] = "check"]
      /\ tx[p] = "send" /\ payloadRing' = payloadRing /\ held' = held /\ pktSeq' = pktSeq
      /\ UNCHANGED config /\ UNCHANGED running /\ UNCHANGED mainVars /\ UNCHANGED readerVars
  BY DEF TxSend, TxGoto
<1>5. held[p] = <<>> /\ pktSeq[p] = txPackets[p] + txDropped[p] + Len(packets[p])
  BY <1>4 DEF IInv, TxInv
<1>6. /\ Stream(readPackets[p], payloadRing[p], <<>>, <<>>, pktSeq[p], w)
      /\ sent > 0 => w \in Packet /\ w.seq > wire[p].seq /\ w.payload = Nth(w.seq)
  <2>1. Stream(readPackets[p], payloadRing[p], <<>>, packets[p], pktSeq[p], wire[p])
    BY <1>5 DEF IInv, StreamInv
  <2>2. packets[p] \in Seq(Packet)
    BY <1>1
  <2> QED BY <1>1, <2>1, <2>2, StreamSend
<1>7. Len(packets[p]) \in Nat
  BY <1>1, LenProperties
<1>8. ~(sent > 0) => w = wire[p]
  OBVIOUS
<1> HIDE DEF w
<1>9. w \in [seq : Nat \cup {-1}, payload : Positions]
  BY <1>1, <1>6, <1>8 DEF Packet
<1>10. /\ wire' \in [Ports -> [seq : Nat \cup {-1}, payload : Positions]]
       /\ wire'[p] = w /\ \A q \in Ports \ {p} : wire'[q] = wire[q]
  BY <1>1, <1>3, <1>9
<1>11. /\ nic' \in [Ports -> 0 .. TxDescs] /\ packets' \in [Ports -> Seq(Packet)]
       /\ packets'[p] = <<>> /\ tx'[p] = "check"
       /\ \A q \in Ports \ {p} : packets'[q] = packets[q]
  BY <1>1, <1>2, <1>3, <1>4
<1>12. /\ txPackets' \in [Ports -> Nat] /\ txDropped' \in [Ports -> Nat]
       /\ txPackets'[p] = txPackets[p] + sent /\ txDropped'[p] = txDropped[p] + Len(packets[p]) - sent
       /\ \A q \in Ports \ {p} : txPackets'[q] = txPackets[q] /\ txDropped'[q] = txDropped[q]
  <2>1. txPackets[p] + sent \in Nat /\ txDropped[p] + Len(packets[p]) - sent \in Nat
    BY <1>1, <1>7
  <2> QED BY <1>1, <1>3, <2>1
<1>13. RingTyped' /\ TxTyped'
  BY <1>4, <1>10, <1>11, <1>12 DEF IInv, Typed, RingTyped, TxTyped
<1>14. TxInv(p)'
  <2>1. Len(<<>>) <= TxBurst
    BY Sizes
  <2>2. pktSeq'[p] = txPackets'[p] + txDropped'[p] + Len(packets'[p])
    BY <1>1, <1>4, <1>5, <1>7, <1>11, <1>12
  <2> QED BY <1>4, <1>5, <1>11, <2>1, <2>2 DEF TxInv
<1>15. StreamInv(p)'
  BY <1>4, <1>5, <1>6, <1>10, <1>11, ReaderUntouched DEF StreamInv
<1>16. IInv'
  BY <1>4, <1>10, <1>11, <1>12, <1>13, <1>14, <1>15, TxStep DEF TxStates
<1>17. ASSUME NEW q \in Ports, wire'[q] # wire[q]
       PROVE  wire'[q].seq > wire[q].seq /\ wire'[q].payload = wire'[q].seq % CachePkts
  <2>1. q = p /\ sent > 0
    BY <1>8, <1>10, <1>17
  <2> QED BY <1>6, <1>10, <2>1 DEF Nth
<1> QED BY <1>16, <1>17

-----------------------------------------------------------------------------
(* The main core. *)

LEMMA AbortHolds ==
  ASSUME IInv, NEW p \in Ports, ReaderAbort(p) \/ TxAbort(p)
  PROVE  IInv'
  BY MainStep DEF ReaderAbort, TxAbort, IInv, Typed, MainTyped

LEMMA MainPlainHolds ==
  ASSUME IInv, MainStart \/ Signal \/ KeyQuit \/ MainStats \/ MainJoin
  PROVE  IInv'
<1>1. CASE MainStart
  BY <1>1, MainStep DEF MainStart, IInv, Typed, MainTyped
<1>2. CASE Signal
  BY <1>2, MainStep DEF Signal, IInv, Typed, MainTyped
<1>3. CASE KeyQuit
  BY <1>3, MainStep DEF KeyQuit, IInv, Typed, MainTyped
<1>4. CASE MainStats
  BY <1>4, MainStep DEF MainStats, IInv, Typed, MainTyped
<1>5. CASE MainJoin
  BY <1>5, MainStep DEF MainJoin, IInv, Typed, MainTyped
<1> QED BY <1>1, <1>2, <1>3, <1>4, <1>5

(* The core whose turn it is was off. *)
LEMMA MainLaunchHolds == ASSUME IInv, MainLaunch PROVE IInv'
<1> DEFINE p == launched \div 2
<1>1. launched \in Nat /\ launched < 2 * NumPorts /\ main = "launch" /\ NumPorts \in Nat
  BY Sizes DEF IInv, Typed, MainTyped, LaunchInv, MainLaunch
<1>2. launched = 2 * p + (launched % 2) /\ launched % 2 \in 0 .. 1 /\ p \in Int
  BY <1>1, DivMod
<1>3. /\ IF launched % 2 = 0 THEN reader' = [reader EXCEPT ![p] = "load"] /\ tx' = tx
                             ELSE tx' = [tx EXCEPT ![p] = "prime"] /\ reader' = reader
      /\ launched' = launched + 1
      /\ main' = IF launched' = 2 * NumPorts THEN "stats" ELSE "launch"
      /\ loopCount' = loopCount /\ valid' = valid /\ running' = running /\ asked' = asked
      /\ offset' = offset /\ loop' = loop /\ cacheLive' = cacheLive /\ readPackets' = readPackets
      /\ payloadRing' = payloadRing /\ held' = held /\ packets' = packets /\ nic' = nic
      /\ pktSeq' = pktSeq /\ txPackets' = txPackets /\ txDropped' = txDropped /\ wire' = wire
  BY DEF MainLaunch, config
<1> HIDE DEF p
<1>4. p \in Ports
  BY <1>1, <1>2 DEF Ports
<1>5. reader \in [Ports -> ReaderStates] /\ tx \in [Ports -> TxStates]
  BY DEF IInv, Typed, CoresTyped
<1>6. CoresTyped'
  BY <1>3, <1>4, <1>5 DEF CoresTyped, ReaderStates, TxStates
<1>7. MainTyped'
  BY <1>1, <1>3 DEF IInv, Typed, MainTyped
<1>8. ReadTyped' /\ RingTyped' /\ TxTyped'
  BY <1>3 DEF IInv, Typed, ReadTyped, RingTyped, TxTyped
<1>9. \A q \in Ports : /\ q # p => reader'[q] = reader[q] /\ tx'[q] = tx[q]
                       /\ launched % 2 = 0 => tx'[q] = tx[q]
                       /\ launched % 2 # 0 => reader'[q] = reader[q]
  BY <1>3, <1>4, <1>5
<1>10. LaunchInv'
  <2>1. main' # "init" /\ (main' = "launch" => launched' < 2 * NumPorts)
    BY <1>1, <1>3
  <2>2. ASSUME NEW q \in Ports
        PROVE  /\ launched' <= 2 * q => reader'[q] = "off"
               /\ launched' <= 2 * q + 1 => tx'[q] = "off"
    <3>1. /\ launched <= 2 * q => reader[q] = "off"
          /\ launched <= 2 * q + 1 => tx[q] = "off"
      BY DEF IInv, LaunchInv
    <3>2. /\ launched' <= 2 * q => launched <= 2 * q /\ q # p
          /\ launched' <= 2 * q + 1 => launched <= 2 * q + 1 /\ (q # p \/ launched % 2 = 0)
      <4>1. launched' = launched + 1
        BY <1>3
      <4> DEFINE r == launched % 2
      <4>2. launched = 2 * p + r /\ r \in 0 .. 1 /\ p \in Int /\ q \in Nat /\ launched \in Nat
        BY <1>1, <1>2 DEF Ports
      <4> HIDE DEF r
      <4>3. (r = 0) => launched % 2 = 0
        BY DEF r
      <4>4. /\ launched + 1 <= 2 * q => launched <= 2 * q /\ q # p
            /\ launched + 1 <= 2 * q + 1 => launched <= 2 * q + 1 /\ (q # p \/ r = 0)
        BY <4>2
      <4> QED BY <4>1, <4>2, <4>3, <4>4
    <3> QED BY <1>9, <3>1, <3>2
  <2> QED BY <2>1, <2>2 DEF LaunchInv
<1>11. ASSUME NEW q \in Ports PROVE ReadInv(q)'
  <2>1. CASE reader'[q] = reader[q]
    BY <1>3, <2>1, ReadFrame DEF IInv
  <2>2. CASE reader'[q] # reader[q]
    <3>1. q = p /\ launched % 2 = 0
      BY <1>9, <2>2
    <3>2. reader[q] = "off" /\ reader'[q] = "load"
      BY <1>1, <1>2, <1>3, <1>4, <1>5, <3>1 DEF IInv, LaunchInv
    <3> QED BY <1>3, <3>2 DEF IInv, ReadInv
  <2> QED BY <2>1, <2>2
<1>12. ASSUME NEW q \in Ports PROVE TxInv(q)'
  <2>1. CASE tx'[q] = tx[q]
    BY <1>3, <2>1, TxFrame DEF IInv
  <2>2. CASE tx'[q] # tx[q]
    <3>1. q = p /\ launched % 2 # 0
      BY <1>9, <2>2
    <3>2. tx[q] = "off" /\ tx'[q] = "prime"
      BY <1>1, <1>2, <1>3, <1>4, <1>5, <3>1 DEF IInv, LaunchInv
    <3> QED BY <1>3, <3>2 DEF IInv, TxInv
  <2> QED BY <2>1, <2>2
<1>13. ASSUME NEW q \in Ports PROVE StreamInv(q)'
  BY <1>3, StreamFrame DEF IInv
<1> QED BY <1>6, <1>7, <1>8, <1>10, <1>11, <1>12, <1>13 DEF IInv, Typed

-----------------------------------------------------------------------------
LEMMA StutterHolds == IInv /\ UNCHANGED vars => IInv'
<1> SUFFICES ASSUME IInv, UNCHANGED vars PROVE IInv'
  OBVIOUS
<1>1. UNCHANGED config /\ UNCHANGED running /\ UNCHANGED mainVars /\ UNCHANGED readerVars
      /\ UNCHANGED payloadRing /\ UNCHANGED txVars
  BY DEF vars
<1> QED BY <1>1, MainStep DEF mainVars, IInv, Typed, MainTyped

LEMMA NextHolds == IInv /\ [Next]_vars => IInv'
<1> SUFFICES ASSUME IInv, [Next]_vars PROVE IInv'
  OBVIOUS
<1>1. CASE Main \/ Signal \/ KeyQuit
  BY <1>1, MainPlainHolds, MainLaunchHolds DEF Main
<1>2. ASSUME NEW p \in Ports, Reader(p) PROVE IInv'
  BY <1>2, LoadHolds, AbortHolds, CheckHolds, RewindHolds, EnqueueHolds, FreeHolds, StopHolds
     DEF Reader
<1>3. ASSUME NEW p \in Ports, Tx(p) PROVE IInv'
  BY <1>3, TxPrimeHolds, AbortHolds, TxCheckHolds, TxDequeueHolds, TxBuildHolds, TxSendHolds
     DEF Tx
<1>4. CASE UNCHANGED vars
  BY <1>4, StutterHolds
<1> QED BY <1>1, <1>2, <1>3, <1>4 DEF Next

(* The numbered stream holds in every reachable state. *)
THEOREM Inductive == Spec => []IInv
<1>1. Init => IInv
  BY InitHolds
<1>2. IInv /\ [Next]_vars => IInv'
  BY NextHolds
<1> QED BY <1>1, <1>2, PTL DEF Spec

(* The variables of the five cores keep their types: no ring holds more     *)
(* than its capacity, no TX queue more than its descriptors.                *)
THEOREM TypeCorrect == Spec => []TypeOK
<1>1. IInv => TypeOK
  BY TypedIsTypeOK DEF IInv
<1> QED BY <1>1, Inductive, PTL

(* Every packet a reader of file_reader.c counts is in the ring, in tx.c's  *)
(* hands, transmitted or dropped: the statistics add up.                    *)
THEOREM Accounting == Spec => []Conserved
<1>1. IInv => Conserved
  <2> SUFFICES ASSUME IInv, NEW p \in Ports
               PROVE  readPackets[p] = txPackets[p] + txDropped[p] + Len(payloadRing[p])
                                       + Len(held[p]) + Len(packets[p])
    BY DEF Conserved
  <2>1. /\ txPackets[p] \in Nat /\ txDropped[p] \in Nat /\ pktSeq[p] \in Nat
        /\ payloadRing[p] \in Seq(Positions) /\ held[p] \in Seq(Positions)
        /\ packets[p] \in Seq(Packet)
    BY DEF IInv, Typed, TxTyped, RingTyped
  <2>2. Len(payloadRing[p]) \in Nat /\ Len(held[p]) \in Nat /\ Len(packets[p]) \in Nat
    BY <2>1, LenProperties
  <2>3. readPackets[p] = pktSeq[p] + Len(held[p]) + Len(payloadRing[p])
    BY DEF IInv, StreamInv, Stream
  <2>4. pktSeq[p] = txPackets[p] + txDropped[p] + Len(packets[p])
    BY DEF IInv, TxInv
  <2> DEFINE h == Len(held[p])
             r == Len(payloadRing[p])
             k == Len(packets[p])
  <2>5. /\ h \in Nat /\ r \in Nat /\ k \in Nat
        /\ txPackets[p] \in Nat /\ txDropped[p] \in Nat
        /\ readPackets[p] = pktSeq[p] + h + r /\ pktSeq[p] = txPackets[p] + txDropped[p] + k
    BY <2>1, <2>2, <2>3, <2>4
  <2> HIDE DEF h, r, k
  <2>6. readPackets[p] = txPackets[p] + txDropped[p] + r + h + k
    BY <2>5
  <2> QED BY <2>6 DEF h, r, k
<1> QED BY <1>1, Inductive, PTL

(* A pass fits under the passes that remain. *)
LEMMA PassBound ==
  ASSUME NEW a \in Nat, NEW b \in Nat, NEW c \in Nat
  PROVE  /\ a < b => a * c + c <= b * c
         /\ a * c \in Nat /\ b * c \in Nat
  OBVIOUS

(* A reader plays at most loop_count passes over its cache, and exactly     *)
(* that many unless something stopped the program.                          *)
THEOREM Loops == Spec => []LoopsHonoured
<1>1. IInv => LoopsHonoured
  <2> SUFFICES ASSUME IInv, NEW p \in Ports
               PROVE  /\ loopCount > 0 => readPackets[p] <= loopCount * CachePkts
                      /\ reader[p] \in {"free", "stop"} /\ running =>
                           readPackets[p] = loopCount * CachePkts
    BY DEF LoopsHonoured
  <2>1. /\ offset[p] \in 0 .. CachePkts /\ loop[p] \in Nat /\ CachePkts \in Nat /\ loopCount \in Nat
    BY Sizes DEF IInv, Typed, ReadTyped, MainTyped
  <2>2. ReadInv(p)
    BY DEF IInv
  <2>3. ASSUME loopCount > 0
        PROVE  \/ loop[p] < loopCount
               \/ loop[p] = loopCount /\ offset[p] = 0
    <3>1. loop[p] <= loopCount /\ (offset[p] > 0 => loop[p] < loopCount)
      BY <2>2, <2>3 DEF ReadInv
    <3> QED BY <2>1, <3>1
  <2>4. loop[p] * CachePkts \in Nat /\ loopCount * CachePkts \in Nat
    BY <2>1, PassBound
  <2>5. loop[p] < loopCount => loop[p] * CachePkts + CachePkts <= loopCount * CachePkts
    BY <2>1, PassBound
  <2>6. readPackets[p] = loop[p] * CachePkts + offset[p]
    BY <2>2 DEF ReadInv
  <2>7. loopCount > 0 => readPackets[p] <= loopCount * CachePkts
    BY <2>1, <2>3, <2>4, <2>5, <2>6
  <2>8. reader[p] \in {"free", "stop"} /\ running => readPackets[p] = loopCount * CachePkts
    <3>1. ASSUME reader[p] \in {"free", "stop"} /\ running
          PROVE  loopCount > 0 /\ loop[p] = loopCount
      BY <2>2, <3>1 DEF ReadInv
    <3> QED BY <2>1, <2>3, <2>4, <2>6, <3>1
  <2> QED BY <2>7, <2>8
<1> QED BY <1>1, Inductive, PTL

(* The mbuf pool init_dpdk sizes always has a burst's worth free, so tx.c   *)
(* never has to put pointers back at the end of the ring.                   *)
THEOREM Pool == Spec => []PoolSuffices
  BY PoolHolds, Inductive, PTL

(* What a port puts on the wire is the looped waveform in order, each       *)
(* packet carrying the payload its sequence number calls for, whatever was  *)
(* dropped in between.                                                      *)
THEOREM Order == Spec => WireInOrder
<1> DEFINE InOrder == \A p \in Ports : wire'[p] # wire[p] =>
                        /\ wire'[p].seq > wire[p].seq
                        /\ wire'[p].payload = wire'[p].seq % CachePkts
<1>1. IInv /\ [Next]_vars => [InOrder]_vars
  <2> SUFFICES ASSUME IInv, Next PROVE InOrder
    OBVIOUS
  <2>1. CASE Main \/ Signal \/ KeyQuit
    BY <2>1 DEF Main, MainStart, MainLaunch, MainStats, MainJoin, Signal, KeyQuit, txVars
  <2>2. ASSUME NEW p \in Ports, Reader(p) PROVE InOrder
    BY <2>2 DEF Reader, ReaderLoad, ReaderAbort, ReaderCheck, ReaderRewind, ReaderEnqueue,
                ReaderFree, ReaderStop, txVars
  <2>3. ASSUME NEW p \in Ports, Tx(p) PROVE InOrder
    <3>1. CASE TxSend(p)
      BY <3>1, TxSendHolds
    <3>2. CASE ~TxSend(p)
      BY <2>3, <3>2 DEF Tx, TxPrime, TxAbort, TxCheck, TxDequeue, TxBuild, txCounters, txVars
    <3> QED BY <3>1, <3>2
  <2> HIDE DEF InOrder
  <2> QED BY <2>1, <2>2, <2>3 DEF Next
<1> QED BY <1>1, Inductive, PTL DEF Spec, WireInOrder

=============================================================================
