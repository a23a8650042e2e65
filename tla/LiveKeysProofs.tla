--------------------------- MODULE LiveKeysProofs ---------------------------
(***************************************************************************)
(* Theorems about LiveKeys, for any number of ports, channels and samples: *)
(* validate_trigger_offset returns the nearest valid offset; an entry is   *)
(* what was typed; a trigger changes to what was asked; packets carry what *)
(* the console shows.                                                      *)
(***************************************************************************)
EXTENDS LiveKeys, TLAPS

(* Division with remainder. *)
LEMMA DivMod ==
  ASSUME NEW a \in Int, NEW m \in Nat \ {0}
  PROVE  /\ a = (m * (a \div m)) + (a % m)
         /\ (a % m) \in 0 .. (m - 1)
         /\ (a \div m) \in Int
OBVIOUS

(* A remainder is unique. *)
LEMMA ModUnique ==
  ASSUME NEW m \in Nat \ {0}, NEW q \in Int, NEW r \in 0 .. (m - 1)
  PROVE  ((m * q) + r) % m = r
OBVIOUS

K == ChannelsPerPort

(* What the assumption on the constants says, in one place. *)
LEMMA Constants ==
  /\ NumPorts \in Nat \ {0} /\ K \in Nat \ {0} /\ SamplesPerPkt \in Nat \ {0}
  /\ BufLen \in Nat \ {0} /\ IntHalf \in Nat \ {0} /\ LongHalf \in Nat \ {0}
  /\ Half \in Nat /\ K = 2 * Half /\ K <= SamplesPerPkt
  /\ SamplesPerPkt <= 128 /\ SamplesPerPkt <= IntHalf /\ IntHalf <= LongHalf
  /\ K <= 12
<1>1. PICK n \in 1 .. SamplesPerPkt : SamplesPerPkt = n * ChannelsPerPort
  BY LiveKeysAssumption
<1>2. \A m, k \in Nat \ {0} : m * k >= k
  OBVIOUS
<1>3. Half \in Nat
  <2>1. ChannelsPerPort = 2 * Half /\ ChannelsPerPort \in Nat
    BY LiveKeysAssumption
  <2>2. Half \in Int
    BY <2>1, 2 \in Nat \ {0}, DivMod DEF Half
  <2> QED
    BY <2>1, <2>2
<1> QED
  BY <1>1, <1>2, <1>3, LiveKeysAssumption DEF K

(* Multiples of k are k apart. *)
LEMMA Apart ==
  ASSUME NEW k \in Nat, NEW x \in Int, NEW y \in Int
  PROVE  /\ x < y => (x * k) + k <= y * k
         /\ x = y => x * k = y * k
         /\ (x * k) \in Int
OBVIOUS

(* A global channel number is a port and a channel of it. *)
LEMMA ChannelSplits ==
  ASSUME NEW g \in Channels
  PROVE  /\ g \div K \in Ports /\ g % K \in Local
         /\ g = ((g \div K) * K) + (g % K)
<1>0. g \in Int /\ g >= 0 /\ g <= (NumPorts * K) - 1 /\ NumPorts * K \in Int
  BY Constants DEF Channels, K
<1> DEFINE q == g \div K
           c == g % K
<1>1. g = (K * q) + c /\ c \in 0 .. (K - 1) /\ q \in Int
  BY <1>0, Constants, DivMod
<1> HIDE DEF q, c
<1>2. K * q = q * K /\ q * K \in Int
  BY <1>1, Constants
<1>3. q >= 0
  <2>1. q < 0 => (q * K) + K <= 0 * K
    BY <1>1, Apart, Constants
  <2>2. 0 * K = 0
    BY Constants
  <2> QED
    BY <1>0, <1>1, <1>2, <2>1, <2>2, Constants
<1>4. q < NumPorts
  <2>1. q >= NumPorts => (NumPorts * K = q * K \/ (NumPorts * K) + K <= q * K)
    BY <1>1, Apart, Constants
  <2> QED
    BY <1>0, <1>1, <1>2, <2>1, Constants
<1> QED
  BY <1>1, <1>2, <1>3, <1>4, Constants DEF q, c, Ports, Local, K
-----------------------------------------------------------------------------
(* Rounding. *)

(* The valid offsets of a channel are the numbers a multiple of K above c. *)
LEMMA ValidForm ==
  ASSUME NEW c \in Local, NEW w \in Int
  PROVE  ValidOffset(c, w) <=>
           w \in 0 .. (SamplesPerPkt - 1) /\ \E m \in Int : w = (m * K) + c
<1>1. /\ w = (K * (w \div K)) + (w % K) /\ w \div K \in Int
  BY Constants, DivMod
<1>2. \A m \in Int : ((K * m) + c) % K = c /\ m * K = K * m
  BY Constants, ModUnique DEF Local, K
<1> QED
  BY <1>1, <1>2 DEF ValidOffset, K

(* The rounded sum, before it is clamped, is within Half of the request, or *)
(* it is the lowest offset of the channel and above the request.            *)
LEMMA RoundedForm ==
  ASSUME NEW c \in Local, NEW r \in Nat
  PROVE  LET v == Rounded(r - c + Half, c)
         IN /\ v \in Nat /\ \E q \in Nat : v = (q * K) + c
            /\ \/ v = c /\ r < v
               \/ r - Half < v /\ v <= r + Half
<1> DEFINE s == r - c + Half
           q == s \div K
<1>0. s \in Int /\ c \in Nat /\ c < K
  BY Constants DEF Local, K
<1>1. CASE s >= 0
  <2>1. s = (K * q) + (s % K) /\ s % K \in 0 .. (K - 1) /\ q \in Int
    BY <1>0, Constants, DivMod
  <2>2. Rounded(s, c) = (q * K) + c
    BY <1>0, <1>1 DEF Rounded, Quotient, K
  <2> HIDE DEF q
  <2>3. q * K = K * q /\ q * K \in Int
    BY <2>1, Constants
  <2>4. q \in Nat
    <3>1. \A k \in Nat \ {0}, x \in Int : x < 0 => k * x <= -k
      OBVIOUS
    <3> QED
      BY <2>1, <1>1, <1>0, <3>1, Constants
  <2>5. q * K <= s /\ s < (q * K) + K /\ q * K >= 0
    BY <2>1, <2>3, <2>4, <1>0, Constants
  <2>6. r - Half < (q * K) + c /\ (q * K) + c <= r + Half
    BY <2>5, <2>3, <1>0, Constants
  <2> QED
    BY <2>2, <2>3, <2>4, <2>5, <2>6, <1>0
<1>2. CASE s < 0
  <2>1. -s \in 0 .. (K - 1) /\ r < c
    BY <1>0, <1>2, Constants
  <2>2. (-s) \div K = 0
    BY <2>1, Constants
  <2>3. Rounded(s, c) = c
    <3>1. Quotient(s, K) = 0
      BY <2>2, <1>0, <1>2 DEF Quotient
    <3>2. 0 * K = 0
      BY Constants
    <3> QED
      BY <3>1, <3>2, <1>0 DEF Rounded, K
  <2>4. c = (0 * K) + c
    BY <1>0, Constants
  <2> QED
    BY <2>1, <2>3, <2>4, <1>0
<1> QED
  BY <1>0, <1>1, <1>2

(* The highest offset of a channel. *)
LEMMA HighestForm ==
  ASSUME NEW c \in Local
  PROVE  LET h == Highest(c)
         IN /\ h \in 0 .. (SamplesPerPkt - 1) /\ h > SamplesPerPkt - 1 - K
            /\ \E m \in Int : h = (m * K) + c
<1> DEFINE a == SamplesPerPkt - 1 - c
           q == a \div K
<1>0. a \in Nat /\ c \in Nat /\ c < K
  BY Constants DEF Local, K
<1>1. a = (K * q) + (a % K) /\ a % K \in 0 .. (K - 1) /\ q \in Int
  <2>1. K \in Nat \ {0} /\ a \in Int
    BY <1>0, Constants
  <2> HIDE DEF a
  <2> QED
    BY ONLY <2>1, DivMod
<1>2. Highest(c) = c + (K * q)
  BY DEF Highest, K
<1> HIDE DEF q
<1>3. q * K = K * q /\ K * q \in Int
  BY <1>1, Constants
<1>4. q >= 0
  <2>1. \A k \in Nat \ {0}, x \in Int : x < 0 => k * x <= -k
    OBVIOUS
  <2> QED
    BY <2>1, <1>1, <1>0, Constants
<1>5. K * q >= 0
  BY <1>4, <1>1, Constants
<1> QED
  BY <1>0, <1>1, <1>2, <1>3, <1>5, Constants

(* validate_trigger_offset, wherever its sum fits an int or is computed in a *)
(* wider register, returns the nearest valid offset (universal.h:75-83).     *)
THEOREM RoundsToNearest ==
  ASSUME NEW c \in Local, NEW r \in Nat
  PROVE  Nearest(c, r, Clamped(Rounded(r - c + Half, c), c))
<1> DEFINE v == Rounded(r - c + Half, c)
           h == Highest(c)
<1>0. c \in Nat /\ c < K
  BY Constants DEF Local, K
<1>1. /\ v \in Nat /\ \E q \in Nat : v = (q * K) + c
      /\ \/ v = c /\ r < v
         \/ r - Half < v /\ v <= r + Half
  BY RoundedForm
<1>2. /\ h \in 0 .. (SamplesPerPkt - 1) /\ h > SamplesPerPkt - 1 - K
      /\ \E m \in Int : h = (m * K) + c
  BY HighestForm
<1>3. Clamped(v, c) = IF v >= SamplesPerPkt THEN h ELSE v
  BY DEF Clamped
<1> HIDE DEF v, h
<1>4. PICK q \in Nat : v = (q * K) + c
  BY <1>1
<1>5. PICK n \in Int : h = (n * K) + c
  BY <1>2
<1>6. CASE v < SamplesPerPkt
  <2>1. ValidOffset(c, v)
    BY <1>1, <1>4, <1>6, ValidForm, Constants
  <2>2. ASSUME NEW w \in 0 .. (SamplesPerPkt - 1), ValidOffset(c, w)
        PROVE  Distance(r, v) <= Distance(r, w)
    <3>1. PICK m \in Int : w = (m * K) + c
      BY <2>2, ValidForm
    <3>2. m >= 0
      <4>1. m < 0 => (m * K) + K <= 0 * K
        BY Apart, Constants
      <4>2. 0 * K = 0 /\ m * K \in Int
        BY Constants
      <4> QED
        BY <3>1, <4>1, <4>2, <1>0, Constants
    <3>3. m * K >= 0 /\ m * K \in Int /\ q * K \in Int
      BY <3>2, Constants
    <3>4. CASE m = q
      BY <3>1, <3>4, <1>4, <1>1 DEF Distance
    <3>5. CASE m > q
      <4>1. (q * K) + K <= m * K
        BY <3>5, Apart, Constants
      <4> QED
        BY <4>1, <3>1, <3>3, <1>4, <1>1, <1>0, Constants DEF Distance
    <3>6. CASE m < q
      <4>1. (m * K) + K <= q * K
        BY <3>6, Apart, Constants
      <4> QED
        BY <4>1, <3>1, <3>3, <1>4, <1>1, <1>0, Constants DEF Distance
    <3> QED
      BY <3>4, <3>5, <3>6
  <2> QED
    BY <2>1, <2>2, <1>3, <1>6, <1>1, Constants DEF Nearest, v
<1>7. CASE v >= SamplesPerPkt
  <2>1. ValidOffset(c, h)
    BY <1>2, ValidForm
  <2>2. n < q
    <3>1. q < n => (q * K) + K <= n * K
      BY Apart, Constants
    <3>2. q = n => q * K = n * K
      OBVIOUS
    <3> QED
      BY <3>1, <3>2, <1>2, <1>4, <1>5, <1>7, <1>0, Constants, Apart
  <2>3. h + K <= v
    <3>1. (n * K) + K <= q * K
      BY <2>2, Apart, Constants
    <3> QED
      BY <3>1, <1>4, <1>5, <1>0, Constants, Apart
  <2>4. h <= r
    BY <2>3, <1>1, <1>2, <1>0, <1>7, Constants
  <2>5. ASSUME NEW w \in 0 .. (SamplesPerPkt - 1), ValidOffset(c, w)
        PROVE  Distance(r, h) <= Distance(r, w)
    <3>1. PICK m \in Int : w = (m * K) + c
      BY <2>5, ValidForm
    <3>2. m <= n
      <4>1. n < m => (n * K) + K <= m * K
        BY Apart, Constants
      <4> QED
        BY <4>1, <3>1, <1>5, <1>2, <1>0, Constants, Apart
    <3>3. w <= h
      <4>1. m < n => (m * K) + K <= n * K
        BY Apart, Constants
      <4> QED
        BY <4>1, <3>1, <3>2, <1>5, <1>0, Constants, Apart
    <3> QED
      BY <3>3, <2>4, <1>2 DEF Distance
  <2> QED
    BY <2>1, <2>5, <1>3, <1>7, <1>1, Constants DEF Nearest, v
<1> QED
  BY <1>6, <1>7, <1>1, Constants
-----------------------------------------------------------------------------
(* The trigger bytes. *)

(* A setting survives the way through its byte (stats.c:33, pipeline.h). *)
LEMMA ByteRoundTrip ==
  ASSUME NEW v \in Settings
  PROVE  Encoded(v) \in 0 .. 255 /\ Decoded(Encoded(v)) = v
<1>1. CASE v < 0
  BY <1>1, Constants DEF Settings, Encoded, Decoded
<1>2. CASE v >= 0
  <2>1. v \in 0 .. 127
    BY <1>2, Constants DEF Settings
  <2>2. v % 128 = v /\ (v * 2 + 1) % 256 = v * 2 + 1
    BY <2>1
  <2>3. Encoded(v) = v * 2 + 1
    BY <1>2, <2>2 DEF Encoded
  <2>4. (v * 2 + 1) % 2 = 1 /\ (v * 2 + 1) \div 2 = v
    BY <2>1
  <2> QED
    BY <2>1, <2>3, <2>4 DEF Decoded
<1> QED
  BY <1>1, <1>2 DEF Settings

(* Every outcome of validate_trigger_offset sets a valid offset or none. *)
LEMMA ValidatedIsSetting ==
  ASSUME NEW g \in Channels, NEW r \in Int, NEW v \in Validated(g, r)
  PROVE  v \in Settings
<1> DEFINE c == g % K
           wide == Clamped(Rounded(r - c + Half, c), c)
<1>1. c \in Local /\ c \in Settings
  BY ChannelSplits, Constants DEF Local, Settings, K
<1>2. v = -1 \/ (r >= 0 /\ (v = wide \/ v = c))
  BY DEF Validated, K
<1> HIDE DEF c
<1>3. r >= 0 => wide \in Settings
  BY <1>1, RoundsToNearest, Constants DEF Nearest, ValidOffset, Settings
<1> HIDE DEF wide
<1> QED
  BY <1>1, <1>2, <1>3, Constants DEF Settings

LEMMA BytesDiffer ==
  \A c, d \in Local : /\ ByteOf(c) \in TriggerBytes
                      /\ ByteOf(c) = ByteOf(d) <=> c = d
  BY Constants DEF Local, TriggerBytes, ByteOf, K
-----------------------------------------------------------------------------
(* The inductive invariant: the template holds what the console shows, and  *)
(* what the console shows is among the offsets noted for every byte that is *)
(* still to be copied; with these the packet's copied bytes are right.      *)

TemplateMatches ==
  \A p \in Ports, c \in Local : template[p][ByteOf(c)] = Encoded(shown[p][c])

SinceCurrent ==
  \A p \in Ports, c \in Local : ByteOf(c) \in missing[p] => shown[p][c] \in since[p][c]

IInv == TypeOK /\ BufferIsEntry /\ TemplateMatches /\ SinceCurrent /\ WireMatchesConsole

LEMMA InitHolds == Init => IInv
<1> SUFFICES ASSUME Init PROVE IInv
  OBVIOUS
<1>1. -1 \in Settings /\ Encoded(-1) = 0 /\ Decoded(0) = -1
  BY Constants DEF Settings, Encoded, Decoded
<1>2. TypeOK
  <2>1. /\ shown \in [Ports -> [Local -> Settings]]
        /\ since \in [Ports -> [Local -> SUBSET Settings]]
    BY <1>1 DEF Init
  <2>2. template \in [Ports -> [TriggerBytes -> 0 .. 255]] /\ packet = template
    BY DEF Init
  <2>3. missing \in [Ports -> SUBSET TriggerBytes]
    BY DEF Init
  <2>4. <<>> \in Seq(EntryChars)
    OBVIOUS
  <2>5. /\ inputBuf \in Seq(EntryChars) /\ entry \in Seq(EntryChars)
        /\ tuningRate \in Rates \cup {400} /\ tuningOffset \in Int
    BY <2>4 DEF Init
  <2>6. /\ running \in BOOLEAN /\ inputMode \in BOOLEAN /\ stats \in {"reading", "left"}
        /\ inputCmd \in {"none", "#", "t"} /\ (inputMode => inputCmd # "none")
    BY DEF Init
  <2>7. packet \in [Ports -> [TriggerBytes -> 0 .. 255]]
    BY <2>2
  <2> QED
    BY <2>1, <2>2, <2>3, <2>5, <2>6, <2>7, Zenon DEF TypeOK
<1>3. TemplateMatches /\ SinceCurrent /\ WireMatchesConsole
  BY <1>1, BytesDiffer DEF Init, TemplateMatches, SinceCurrent, WireMatchesConsole
<1> QED
  BY <1>2, <1>3 DEF IInv, BufferIsEntry, Init

(* Steps of the console leave the packets alone. *)
LEMMA ConsoleStep ==
  ASSUME IInv, UNCHANGED <<shown, template, packet, missing, since>>,
         TypeOK', BufferIsEntry'
  PROVE  IInv'
BY DEF IInv, TemplateMatches, SinceCurrent, WireMatchesConsole

(* A text without its last character. *)
LEMMA TypingKeeps ==
  ASSUME NEW text \in Seq(EntryChars), NEW key \in EntryChars
  PROVE  /\ Append(text, key) \in Seq(EntryChars)
         /\ Kept(text) \in Seq(EntryChars)
         /\ Kept(Append(text, key)) =
              IF Len(Kept(text)) < BufLen THEN Append(Kept(text), key) ELSE Kept(text)
<1>1. Append(text, key) \in Seq(EntryChars) /\ Len(Append(text, key)) = Len(text) + 1
  OBVIOUS
<1>2. CASE Len(text) < BufLen
  BY <1>1, <1>2, Constants DEF Kept
<1>3. CASE Len(text) = BufLen
  <2>1. SubSeq(Append(text, key), 1, BufLen) = text
    BY <1>3, Constants
  <2>2. Kept(text) = text /\ Kept(Append(text, key)) = text
    BY <1>1, <1>3, <2>1, Constants DEF Kept
  <2> QED
    BY <1>1, <1>3, <2>2, Constants
<1>4. CASE Len(text) > BufLen
  <2>1. /\ SubSeq(text, 1, BufLen) \in Seq(EntryChars)
        /\ Len(SubSeq(text, 1, BufLen)) = BufLen
    BY <1>4, Constants
  <2>2. SubSeq(Append(text, key), 1, BufLen) = SubSeq(text, 1, BufLen)
    BY <1>4, Constants
  <2>3. /\ Kept(text) = SubSeq(text, 1, BufLen)
        /\ Kept(Append(text, key)) = SubSeq(Append(text, key), 1, BufLen)
    BY <1>1, <1>4, Constants DEF Kept
  <2>4. ~ (Len(Kept(text)) < BufLen)
    BY <2>1, <2>3, Constants
  <2> QED
    BY <1>1, <2>1, <2>2, <2>3, <2>4, Zenon
<1> QED
  BY <1>2, <1>3, <1>4, Constants
-----------------------------------------------------------------------------
(* apply_trigger on local channel c of port p with a setting. *)

LEMMA Patching ==
  ASSUME IInv, TypeOK', BufferIsEntry', NEW g \in Channels, NEW v \in Settings,
         apply_trigger(g, v), UNCHANGED <<packet, missing>>
  PROVE  IInv'
<1> DEFINE p == g \div K
           c == g % K
           noted == IF ByteOf(c) \in missing[p] THEN since[p][c] \cup {v} ELSE since[p][c]
<1>1. p \in Ports /\ c \in Local
  BY ChannelSplits
<1>2. (IF v >= 0 THEN v ELSE -1) = v
  BY Constants DEF Settings
<1>3. /\ template' = [template EXCEPT ![p][ByteOf(c)] = Encoded(v)]
      /\ shown' = [shown EXCEPT ![p][c] = v]
      /\ since' = [since EXCEPT ![p][c] = noted]
  BY <1>2 DEF apply_trigger, K
<1> HIDE DEF p, c
<1>4. /\ shown \in [Ports -> [Local -> Settings]]
      /\ template \in [Ports -> [TriggerBytes -> 0 .. 255]]
      /\ since \in [Ports -> [Local -> SUBSET Settings]]
  BY DEF IInv, TypeOK
<1>5. ASSUME NEW q \in Ports, NEW d \in Local
      PROVE  /\ shown'[q][d] = IF q = p /\ d = c THEN v ELSE shown[q][d]
             /\ since'[q][d] = IF q = p /\ d = c THEN noted ELSE since[q][d]
             /\ template'[q][ByteOf(d)] =
                  IF q = p /\ d = c THEN Encoded(v) ELSE template[q][ByteOf(d)]
  <2>1. shown'[q][d] = IF q = p /\ d = c THEN v ELSE shown[q][d]
    BY <1>1, <1>3, <1>4
  <2>2. since'[q][d] = IF q = p /\ d = c THEN noted ELSE since[q][d]
    <3> HIDE DEF noted
    <3> QED
      BY <1>1, <1>3, <1>4
  <2>3. ByteOf(d) \in TriggerBytes /\ (ByteOf(c) = ByteOf(d) <=> c = d)
    BY <1>1, BytesDiffer
  <2>4. template'[q][ByteOf(d)] =
          IF q = p /\ d = c THEN Encoded(v) ELSE template[q][ByteOf(d)]
    BY <1>1, <1>3, <1>4, <2>3
  <2> QED
    BY <2>1, <2>2, <2>4
<1>6. TemplateMatches'
  BY <1>5 DEF IInv, TemplateMatches
<1>7. SinceCurrent'
  BY <1>5 DEF IInv, SinceCurrent
<1>8. WireMatchesConsole'
  BY <1>5 DEF IInv, WireMatchesConsole
<1> QED
  BY <1>6, <1>7, <1>8 DEF IInv

(* What apply_trigger keeps of the types. *)
LEMMA PatchingTypes ==
  ASSUME TypeOK, NEW g \in Channels, NEW v \in Settings, apply_trigger(g, v)
  PROVE  /\ shown' \in [Ports -> [Local -> Settings]]
         /\ template' \in [Ports -> [TriggerBytes -> 0 .. 255]]
         /\ since' \in [Ports -> [Local -> SUBSET Settings]]
<1> DEFINE p == g \div K
           c == g % K
           new == IF v >= 0 THEN v ELSE -1
           noted == IF ByteOf(c) \in missing[p] THEN since[p][c] \cup {new} ELSE since[p][c]
<1>1. p \in Ports /\ c \in Local
  BY ChannelSplits
<1>2. new \in Settings /\ Encoded(v) \in 0 .. 255
  BY ByteRoundTrip, Constants DEF Settings
<1>3. /\ template' = [template EXCEPT ![p][ByteOf(c)] = Encoded(v)]
      /\ shown' = [shown EXCEPT ![p][c] = new]
      /\ since' = [since EXCEPT ![p][c] = noted]
  BY DEF apply_trigger, K
<1> HIDE DEF p, c, new
<1>4. noted \in SUBSET Settings
  BY <1>1, <1>2 DEF TypeOK
<1> HIDE DEF noted
<1>5. /\ shown \in [Ports -> [Local -> Settings]]
      /\ template \in [Ports -> [TriggerBytes -> 0 .. 255]]
      /\ since \in [Ports -> [Local -> SUBSET Settings]]
  BY DEF TypeOK
<1>6. shown' \in [Ports -> [Local -> Settings]]
  BY <1>1, <1>2, <1>3, <1>5
<1>7. template' \in [Ports -> [TriggerBytes -> 0 .. 255]]
  BY <1>1, <1>2, <1>3, <1>5
<1>8. since' \in [Ports -> [Local -> SUBSET Settings]]
  BY <1>1, <1>3, <1>4, <1>5
<1> QED
  BY <1>6, <1>7, <1>8

(* Closing an entry. *)
LEMMA Closing ==
  ASSUME TypeOK, CloseEntry, tuningRate' \in Rates \cup {400},
         shown' \in [Ports -> [Local -> Settings]],
         template' \in [Ports -> [TriggerBytes -> 0 .. 255]],
         since' \in [Ports -> [Local -> SUBSET Settings]]
  PROVE  TypeOK' /\ BufferIsEntry' /\ UNCHANGED <<packet, missing>>
<1>1. <<>> \in Seq(EntryChars)
  OBVIOUS
<1>2. /\ inputMode' = FALSE /\ inputBuf' = <<>> /\ entry' = <<>>
      /\ UNCHANGED <<running, stats, inputCmd, tuningOffset, packet, missing>>
  BY DEF CloseEntry, txVars
<1>3. /\ running' \in BOOLEAN /\ inputMode' \in BOOLEAN
      /\ stats' \in {"reading", "left"} /\ inputCmd' \in {"none", "#", "t"}
      /\ (inputMode' => inputCmd' # "none")
  <2>1. running' = running /\ running \in BOOLEAN /\ inputMode' = FALSE
    BY <1>2, Zenon DEF TypeOK
  <2>2. stats' \in {"reading", "left"} /\ inputCmd' \in {"none", "#", "t"}
    BY <1>2 DEF TypeOK
  <2> QED
    BY <2>1, <2>2, Zenon
<1>4. /\ inputBuf' \in Seq(EntryChars) /\ entry' \in Seq(EntryChars)
      /\ tuningOffset' \in Int
  BY <1>1, <1>2 DEF TypeOK
<1>5. /\ packet' \in [Ports -> [TriggerBytes -> 0 .. 255]]
      /\ missing' \in [Ports -> SUBSET TriggerBytes]
  BY <1>2 DEF TypeOK
<1>6. TypeOK'
  BY <1>3, <1>4, <1>5, Zenon DEF TypeOK
<1> QED
  BY <1>2, <1>6 DEF BufferIsEntry

LEMMA TriggerEntered ==
  ASSUME IInv, EnterTrigger
  PROVE  IInv'
<1> DEFINE request == Request(inputBuf)
<1>0. TypeOK /\ CloseEntry /\ tuningRate' = tuningRate
  BY DEF IInv, EnterTrigger
<1>1. tuningRate' \in Rates \cup {400}
  BY <1>0 DEF TypeOK
<1>2. CASE UNCHANGED <<shown, template, since>>
  <2>1. TypeOK' /\ BufferIsEntry' /\ UNCHANGED <<packet, missing>>
    BY <1>0, <1>1, <1>2, Closing DEF TypeOK
  <2> QED
    BY <1>2, <2>1, ConsoleStep
<1>3. ASSUME IsRequest(request), NEW v \in Validated(request[1], request[2]),
             apply_trigger(request[1], v)
      PROVE  IInv'
  <2>1. request[1] \in Channels /\ request[2] \in Int
    BY <1>3, Constants DEF IsRequest
  <2>2. v \in Settings
    BY <2>1, ValidatedIsSetting
  <2> HIDE DEF request
  <2>3. /\ shown' \in [Ports -> [Local -> Settings]]
        /\ template' \in [Ports -> [TriggerBytes -> 0 .. 255]]
        /\ since' \in [Ports -> [Local -> SUBSET Settings]]
    BY <1>0, <1>3, <2>1, <2>2, PatchingTypes
  <2>4. TypeOK' /\ BufferIsEntry' /\ UNCHANGED <<packet, missing>>
    BY <1>0, <1>1, <2>3, Closing
  <2> QED
    BY <1>3, <2>1, <2>2, <2>4, Patching
<1> QED
  BY <1>2, <1>3 DEF EnterTrigger

LEMMA RateEntered ==
  ASSUME IInv, EnterRate
  PROVE  IInv'
<1>1. TypeOK /\ CloseEntry /\ UNCHANGED <<shown, template, since>>
  BY DEF IInv, EnterRate
<1>2. tuningRate' \in Rates \cup {400}
  BY <1>1 DEF EnterRate, TypeOK
<1>3. TypeOK' /\ BufferIsEntry' /\ UNCHANGED <<packet, missing>>
  BY <1>1, <1>2, Closing DEF TypeOK
<1> QED
  BY <1>1, <1>3, ConsoleStep

(* The remaining console steps change only what the entry is made of, the   *)
(* tuning offset and the flags.                                             *)
LEMMA ConsoleTypes ==
  ASSUME TypeOK, UNCHANGED <<shown, template, packet, missing, since, tuningRate>>,
         running' \in BOOLEAN, inputMode' \in BOOLEAN, stats' \in {"reading", "left"},
         inputCmd' \in {"none", "#", "t"}, inputMode' => inputCmd' # "none",
         inputBuf' \in Seq(EntryChars), entry' \in Seq(EntryChars), tuningOffset' \in Int
  PROVE  TypeOK'
<1>1. /\ shown' = shown /\ template' = template /\ packet' = packet
      /\ missing' = missing /\ since' = since /\ tuningRate' = tuningRate
  OBVIOUS
<1>2. /\ shown' \in [Ports -> [Local -> Settings]]
      /\ template' \in [Ports -> [TriggerBytes -> 0 .. 255]]
      /\ packet' \in [Ports -> [TriggerBytes -> 0 .. 255]]
      /\ missing' \in [Ports -> SUBSET TriggerBytes]
      /\ since' \in [Ports -> [Local -> SUBSET Settings]]
      /\ tuningRate' \in Rates \cup {400}
  <2>1. /\ shown \in [Ports -> [Local -> Settings]]
        /\ template \in [Ports -> [TriggerBytes -> 0 .. 255]]
        /\ packet \in [Ports -> [TriggerBytes -> 0 .. 255]]
        /\ missing \in [Ports -> SUBSET TriggerBytes]
        /\ since \in [Ports -> [Local -> SUBSET Settings]]
        /\ tuningRate \in Rates \cup {400}
    BY Zenon DEF TypeOK
  <2> QED
    BY ONLY <1>1, <2>1
<1> QED
  BY <1>2, Zenon DEF TypeOK

LEMMA EntryBegun ==
  ASSUME IInv, NEW key \in {"#", "t"}, BeginEntry(key)
  PROVE  IInv'
<1>1. /\ inputMode' = TRUE /\ inputCmd' = key /\ inputBuf' = <<>> /\ entry' = <<>>
      /\ UNCHANGED <<running, stats, tuningOffset>>
      /\ UNCHANGED <<shown, template, packet, missing, since, tuningRate>>
  BY DEF BeginEntry, tuningVars, txVars
<1>2. TypeOK /\ <<>> \in Seq(EntryChars)
  BY DEF IInv
<1>3. running' \in BOOLEAN /\ stats' \in {"reading", "left"} /\ tuningOffset' \in Int
  BY <1>1, <1>2 DEF TypeOK
<1>4. TypeOK'
  BY <1>1, <1>2, <1>3, ConsoleTypes
<1>5. BufferIsEntry'
  BY <1>1, Constants DEF BufferIsEntry, Kept
<1> QED
  BY <1>1, <1>4, <1>5, ConsoleStep

LEMMA CharTyped ==
  ASSUME IInv, NEW key \in EntryChars, TypeChar(key)
  PROVE  IInv'
<1>1. /\ inputMode = TRUE /\ inputBuf = Kept(entry) /\ entry \in Seq(EntryChars)
      /\ inputCmd \in {"none", "#", "t"} /\ inputCmd # "none"
      /\ running \in BOOLEAN /\ stats \in {"reading", "left"} /\ tuningOffset \in Int
      /\ TypeOK
  BY Zenon DEF IInv, TypeOK, BufferIsEntry, TypeChar
<1>2. /\ inputBuf' = IF Len(inputBuf) < BufLen THEN Append(inputBuf, key) ELSE inputBuf
      /\ entry' = Append(entry, key)
      /\ UNCHANGED <<running, stats, inputMode, inputCmd, tuningOffset>>
      /\ UNCHANGED <<shown, template, packet, missing, since, tuningRate>>
  BY DEF TypeChar, tuningVars, txVars
<1>3. inputBuf' = Kept(entry') /\ entry' \in Seq(EntryChars)
  BY <1>1, <1>2, TypingKeeps
<1>4. inputBuf' \in Seq(EntryChars)
  BY <1>3, Constants DEF Kept
<1>5. TypeOK'
  BY <1>1, <1>2, <1>3, <1>4, ConsoleTypes
<1>6. BufferIsEntry'
  BY <1>3 DEF BufferIsEntry
<1> QED
  BY <1>2, <1>5, <1>6, ConsoleStep

LEMMA EntryAborted ==
  ASSUME IInv, AbortEntry
  PROVE  IInv'
<1>1. /\ inputMode' = FALSE /\ entry' = <<>>
      /\ UNCHANGED <<running, stats, inputCmd, inputBuf, tuningOffset>>
      /\ UNCHANGED <<shown, template, packet, missing, since, tuningRate>>
  BY DEF AbortEntry, tuningVars, txVars
<1>2. TypeOK /\ <<>> \in Seq(EntryChars)
  BY DEF IInv
<1>3. /\ running' \in BOOLEAN /\ stats' \in {"reading", "left"} /\ tuningOffset' \in Int
      /\ inputCmd' \in {"none", "#", "t"} /\ inputBuf' \in Seq(EntryChars)
  BY <1>1, <1>2 DEF TypeOK
<1>4. TypeOK'
  BY <1>1, <1>2, <1>3, ConsoleTypes
<1>5. BufferIsEntry'
  BY <1>1 DEF BufferIsEntry
<1> QED
  BY <1>1, <1>4, <1>5, ConsoleStep

(* Steps that open, close and change no entry. *)
LEMMA EntryUntouched ==
  ASSUME IInv, UNCHANGED <<inputMode, inputCmd, inputBuf, entry>>,
         UNCHANGED <<shown, template, packet, missing, since, tuningRate>>,
         running' \in BOOLEAN, stats' \in {"reading", "left"}, tuningOffset' \in Int
  PROVE  IInv'
<1>1. TypeOK /\ BufferIsEntry
  BY DEF IInv
<1>2. inputMode' = inputMode /\ inputCmd' = inputCmd /\ inputBuf' = inputBuf /\ entry' = entry
  OBVIOUS
<1>3. /\ inputMode' \in BOOLEAN /\ inputCmd' \in {"none", "#", "t"}
      /\ (inputMode' => inputCmd' # "none")
      /\ inputBuf' \in Seq(EntryChars) /\ entry' \in Seq(EntryChars)
  <2>1. /\ inputMode \in BOOLEAN /\ inputCmd \in {"none", "#", "t"}
        /\ (inputMode => inputCmd # "none")
        /\ inputBuf \in Seq(EntryChars) /\ entry \in Seq(EntryChars)
    BY <1>1, Zenon DEF TypeOK
  <2>2. /\ inputCmd' \in {"none", "#", "t"}
        /\ inputBuf' \in Seq(EntryChars) /\ entry' \in Seq(EntryChars)
    BY ONLY <1>2, <2>1
  <2>3. inputMode' \in BOOLEAN
    BY ONLY <1>2, <2>1, Zenon
  <2>4. inputMode' => inputCmd' # "none"
    BY ONLY <1>2, <2>1, Zenon
  <2> QED
    BY <2>2, <2>3, <2>4, Zenon
<1>4. TypeOK'
  BY <1>1, <1>3, ConsoleTypes
<1>5. BufferIsEntry'
  BY <1>1, <1>2 DEF BufferIsEntry
<1> QED
  BY <1>4, <1>5, ConsoleStep

LEMMA Nudged ==
  ASSUME IInv, NEW step \in {1, -1, 10, -10}, Nudge(step)
  PROVE  IInv'
<1>1. tuningOffset' \in Int
  BY DEF IInv, TypeOK, Nudge
<1>2. running' \in BOOLEAN /\ stats' \in {"reading", "left"}
  BY Zenon DEF IInv, TypeOK, Nudge, consoleVars
<1> QED
  BY <1>1, <1>2, EntryUntouched DEF Nudge, consoleVars, txVars

LEMMA Stopped ==
  ASSUME IInv, Quit \/ OtherStop \/ LeaveLoop
  PROVE  IInv'
<1>1. UNCHANGED tuningOffset /\ tuningOffset' \in Int
  BY DEF IInv, TypeOK, Quit, OtherStop, LeaveLoop, tuningVars
<1>2. (running' = FALSE \/ running' = running) /\ (stats' = "left" \/ stats' = stats)
  BY DEF Quit, OtherStop, LeaveLoop, consoleVars
<1>3. running' \in BOOLEAN /\ stats' \in {"reading", "left"}
  BY <1>2, Zenon DEF IInv, TypeOK
<1> QED
  BY <1>1, <1>3, EntryUntouched DEF Quit, OtherStop, LeaveLoop, consoleVars, tuningVars, txVars
-----------------------------------------------------------------------------
(* Steps of a TX core. *)

(* They leave the console alone, and its types with it. *)
LEMMA CopyTypes ==
  ASSUME IInv, UNCHANGED <<running, consoleVars, tuningVars, shown, template>>,
         packet' \in [Ports -> [TriggerBytes -> 0 .. 255]],
         missing' \in [Ports -> SUBSET TriggerBytes],
         since' \in [Ports -> [Local -> SUBSET Settings]]
  PROVE  TypeOK' /\ BufferIsEntry' /\ TemplateMatches'
<1>1. /\ running' = running /\ stats' = stats /\ inputMode' = inputMode
      /\ inputCmd' = inputCmd /\ inputBuf' = inputBuf /\ entry' = entry
      /\ tuningRate' = tuningRate /\ tuningOffset' = tuningOffset
      /\ shown' = shown /\ template' = template
  BY DEF consoleVars, tuningVars
<1>2. TypeOK /\ BufferIsEntry /\ TemplateMatches
  BY DEF IInv
<1>3. /\ running \in BOOLEAN /\ inputMode \in BOOLEAN
      /\ (inputMode => inputCmd # "none")
      /\ stats \in {"reading", "left"} /\ inputCmd \in {"none", "#", "t"}
      /\ inputBuf \in Seq(EntryChars) /\ entry \in Seq(EntryChars)
      /\ tuningRate \in Rates \cup {400} /\ tuningOffset \in Int
      /\ shown \in [Ports -> [Local -> Settings]]
      /\ template \in [Ports -> [TriggerBytes -> 0 .. 255]]
  BY <1>2, Zenon DEF TypeOK
<1>4. /\ stats' \in {"reading", "left"} /\ inputCmd' \in {"none", "#", "t"}
      /\ inputBuf' \in Seq(EntryChars) /\ entry' \in Seq(EntryChars)
      /\ tuningRate' \in Rates \cup {400} /\ tuningOffset' \in Int
      /\ shown' \in [Ports -> [Local -> Settings]]
      /\ template' \in [Ports -> [TriggerBytes -> 0 .. 255]]
  BY ONLY <1>1, <1>3
<1>5. running' \in BOOLEAN /\ inputMode' \in BOOLEAN
  BY ONLY <1>1, <1>3, Zenon
<1>6. inputMode' => inputCmd' # "none"
  BY ONLY <1>1, <1>3, Zenon
<1>7. TypeOK'
  BY <1>4, <1>5, <1>6, Zenon DEF TypeOK
<1>8. BufferIsEntry' /\ TemplateMatches'
  BY <1>1, <1>2 DEF BufferIsEntry, TemplateMatches
<1> QED
  BY <1>7, <1>8

LEMMA PacketBegun ==
  ASSUME IInv, NEW p \in Ports, TxNextPacket(p)
  PROVE  IInv'
<1>1. /\ packet' = [packet EXCEPT ![p] = [b \in TriggerBytes |-> 0]]
      /\ missing' = [missing EXCEPT ![p] = TriggerBytes]
      /\ since' = [since EXCEPT ![p] = [c \in Local |-> {shown[p][c]}]]
      /\ UNCHANGED <<running, consoleVars, tuningVars, shown, template>>
  BY DEF TxNextPacket
<1>2. /\ packet \in [Ports -> [TriggerBytes -> 0 .. 255]]
      /\ missing \in [Ports -> SUBSET TriggerBytes]
      /\ since \in [Ports -> [Local -> SUBSET Settings]]
      /\ shown \in [Ports -> [Local -> Settings]]
  BY DEF IInv, TypeOK
<1>3. packet' \in [Ports -> [TriggerBytes -> 0 .. 255]]
  BY <1>1, <1>2
<1>4. missing' \in [Ports -> SUBSET TriggerBytes]
  BY <1>1, <1>2
<1>5. since' \in [Ports -> [Local -> SUBSET Settings]]
  <2>1. [c \in Local |-> {shown[p][c]}] \in [Local -> SUBSET Settings]
    BY <1>2
  <2> QED
    BY <1>1, <1>2, <2>1
<1>6. TypeOK' /\ BufferIsEntry' /\ TemplateMatches'
  BY <1>1, <1>3, <1>4, <1>5, CopyTypes
<1>7. SinceCurrent'
  <2> SUFFICES ASSUME NEW q \in Ports, NEW c \in Local, ByteOf(c) \in missing'[q]
               PROVE  shown'[q][c] \in since'[q][c]
    BY DEF SinceCurrent
  <2>1. CASE q = p
    BY <1>1, <1>2, <2>1
  <2>2. CASE q # p
    BY <1>1, <1>2, <2>2 DEF IInv, SinceCurrent
  <2> QED
    BY <2>1, <2>2
<1>8. WireMatchesConsole'
  <2> SUFFICES ASSUME NEW q \in Ports, NEW c \in Local, ByteOf(c) \notin missing'[q]
               PROVE  Decoded(packet'[q][ByteOf(c)]) \in since'[q][c]
    BY DEF WireMatchesConsole
  <2>1. q # p
    BY <1>1, <1>2, BytesDiffer
  <2> QED
    BY <1>1, <1>2, <2>1 DEF IInv, WireMatchesConsole
<1> QED
  BY <1>6, <1>7, <1>8 DEF IInv

LEMMA ByteCopied ==
  ASSUME IInv, NEW p \in Ports, TxCopyByte(p)
  PROVE  IInv'
<1>1. PICK b \in missing[p] :
        /\ packet' = [packet EXCEPT ![p][b] = template[p][b]]
        /\ missing' = [missing EXCEPT ![p] = @ \ {b}]
        /\ UNCHANGED <<running, consoleVars, tuningVars, shown, template, since>>
  BY DEF TxCopyByte
<1>2. /\ packet \in [Ports -> [TriggerBytes -> 0 .. 255]]
      /\ template \in [Ports -> [TriggerBytes -> 0 .. 255]]
      /\ missing \in [Ports -> SUBSET TriggerBytes]
      /\ since \in [Ports -> [Local -> SUBSET Settings]]
      /\ shown \in [Ports -> [Local -> Settings]]
      /\ b \in TriggerBytes
  BY DEF IInv, TypeOK
<1>3. packet' \in [Ports -> [TriggerBytes -> 0 .. 255]]
  BY <1>1, <1>2
<1>4. missing' \in [Ports -> SUBSET TriggerBytes]
  BY <1>1, <1>2
<1>5. TypeOK' /\ BufferIsEntry' /\ TemplateMatches'
  BY <1>1, <1>2, <1>3, <1>4, CopyTypes
<1>6. SinceCurrent'
  <2> SUFFICES ASSUME NEW q \in Ports, NEW c \in Local, ByteOf(c) \in missing'[q]
               PROVE  shown'[q][c] \in since'[q][c]
    BY DEF SinceCurrent
  <2>1. ByteOf(c) \in missing[q]
    BY <1>1, <1>2
  <2> QED
    BY <1>1, <2>1 DEF IInv, SinceCurrent
<1>7. WireMatchesConsole'
  <2> SUFFICES ASSUME NEW q \in Ports, NEW c \in Local, ByteOf(c) \notin missing'[q]
               PROVE  Decoded(packet'[q][ByteOf(c)]) \in since'[q][c]
    BY DEF WireMatchesConsole
  <2>0. ByteOf(c) \in TriggerBytes
    BY BytesDiffer
  <2>1. CASE q = p /\ ByteOf(c) = b
    <3>1. packet'[q][ByteOf(c)] = template[q][ByteOf(c)]
      BY <1>1, <1>2, <2>0, <2>1
    <3>2. template[q][ByteOf(c)] = Encoded(shown[q][c]) /\ shown[q][c] \in since[q][c]
      BY <1>1, <2>1 DEF IInv, TemplateMatches, SinceCurrent
    <3>3. shown[q][c] \in Settings
      BY <1>2
    <3> QED
      BY <1>1, <3>1, <3>2, <3>3, ByteRoundTrip
  <2>2. CASE ~ (q = p /\ ByteOf(c) = b)
    <3>1. ByteOf(c) \notin missing[q] /\ packet'[q][ByteOf(c)] = packet[q][ByteOf(c)]
      BY <1>1, <1>2, <2>0, <2>2
    <3> QED
      BY <1>1, <3>1 DEF IInv, WireMatchesConsole
  <2> QED
    BY <2>1, <2>2
<1> QED
  BY <1>5, <1>6, <1>7 DEF IInv
-----------------------------------------------------------------------------
LEMMA StepHolds == IInv /\ [Next]_vars => IInv'
<1> SUFFICES ASSUME IInv, [Next]_vars PROVE IInv'
  OBVIOUS
<1>1. ASSUME NEW key \in {"#", "t"}, BeginEntry(key) PROVE IInv'
  BY <1>1, EntryBegun
<1>2. ASSUME NEW key \in EntryChars, TypeChar(key) PROVE IInv'
  BY <1>2, CharTyped
<1>3. CASE AbortEntry
  BY <1>3, EntryAborted
<1>4. CASE EnterRate
  BY <1>4, RateEntered
<1>5. CASE EnterTrigger
  BY <1>5, TriggerEntered
<1>6. ASSUME NEW step \in {1, -1, 10, -10}, Nudge(step) PROVE IInv'
  BY <1>6, Nudged
<1>7. CASE Quit \/ OtherStop \/ LeaveLoop
  BY <1>7, Stopped
<1>8. ASSUME NEW p \in Ports, TxNextPacket(p) PROVE IInv'
  BY <1>8, PacketBegun
<1>9. ASSUME NEW p \in Ports, TxCopyByte(p) PROVE IInv'
  BY <1>9, ByteCopied
<1>10. CASE UNCHANGED vars
  <2>1. /\ UNCHANGED <<running, consoleVars, tuningVars, shown, template>>
        /\ packet' = packet /\ missing' = missing /\ since' = since
    BY <1>10 DEF vars, txVars
  <2>2. /\ packet' \in [Ports -> [TriggerBytes -> 0 .. 255]]
        /\ missing' \in [Ports -> SUBSET TriggerBytes]
        /\ since' \in [Ports -> [Local -> SUBSET Settings]]
    BY <2>1 DEF IInv, TypeOK
  <2>3. TypeOK' /\ BufferIsEntry'
    BY <2>1, <2>2, CopyTypes
  <2> QED
    BY <2>1, <2>3, ConsoleStep
<1> QED
  BY <1>1, <1>2, <1>3, <1>4, <1>5, <1>6, <1>7, <1>8, <1>9, <1>10 DEF Next, Keys

(* The invariant holds in every reachable state, for all constants. *)
THEOREM Inductive == Spec => []IInv
  BY InitHolds, StepHolds, PTL DEF Spec

(* Every variable keeps its type: among others the tuning rate the TX cores  *)
(* divide by is never zero, and triggers stay within a packet.               *)
THEOREM TypeCorrect == Spec => []TypeOK
<1>1. IInv => TypeOK
  BY DEF IInv
<1> QED
  BY <1>1, Inductive, PTL

(* An open entry holds what was typed since its command key, nothing else.   *)
THEOREM EntryAsTyped == Spec => []BufferIsEntry
<1>1. IInv => BufferIsEntry
  BY DEF IInv
<1> QED
  BY <1>1, Inductive, PTL

(* Every trigger byte copied into a packet is one the console showed for its *)
(* channel during the copy, whatever the order of the copied bytes.          *)
THEOREM WireTrue == Spec => []WireMatchesConsole
<1>1. IInv => WireMatchesConsole
  BY DEF IInv
<1> QED
  BY <1>1, Inductive, PTL
-----------------------------------------------------------------------------
(* What a step may do to the trigger of one channel. *)
ChangesAsTyped(p, c) ==
  shown'[p][c] # shown[p][c] =>
    LET request == Request(Kept(entry))
    IN /\ inputMode /\ inputCmd = "t" /\ IsRequest(request)
       /\ request[1] = (p * ChannelsPerPort) + c
       /\ \/ request[2] < 0 /\ shown'[p][c] = -1
          \/ request[2] >= 0 /\ SumOverflows(c, request[2])
          \/ Nearest(c, request[2], shown'[p][c])

(* The channel an entry names is the one that changes, to what was asked. *)
LEMMA EntryApplies ==
  ASSUME IInv, EnterTrigger, NEW p \in Ports, NEW c \in Local,
         shown'[p][c] # shown[p][c]
  PROVE  ChangesAsTyped(p, c)
<1> DEFINE request == Request(inputBuf)
           g == request[1]
           r == request[2]
<1>1. inputMode /\ inputCmd = "t" /\ inputBuf = Kept(entry)
  BY DEF EnterTrigger, CloseEntry, IInv, BufferIsEntry
<1>2. PICK v \in Validated(g, r) : IsRequest(request) /\ apply_trigger(g, v)
  BY DEF EnterTrigger
<1>3. g \in Channels /\ r \in Int
  BY <1>2, Constants DEF IsRequest
<1> HIDE DEF request
<1>4. /\ g \div K \in Ports /\ g % K \in Local /\ g = ((g \div K) * K) + (g % K)
      /\ v \in Settings
  BY <1>3, ChannelSplits, ValidatedIsSetting
<1>5. shown' = [shown EXCEPT ![g \div K][g % K] = IF v >= 0 THEN v ELSE -1]
  BY <1>2 DEF apply_trigger, K
<1>6. shown \in [Ports -> [Local -> Settings]]
  BY DEF IInv, TypeOK
<1>7. /\ p = g \div K /\ c = g % K
      /\ shown'[p][c] = IF v >= 0 THEN v ELSE -1
  <2> DEFINE new == IF v >= 0 THEN v ELSE -1
             q == g \div K
             d == g % K
  <2>1. q \in Ports /\ d \in Local /\ shown' = [shown EXCEPT ![q][d] = new]
    BY <1>4, <1>5
  <2> HIDE DEF new, q, d
  <2>2. p = q /\ c = d /\ shown'[p][c] = new
    BY <2>1, <1>6
  <2> QED
    BY <2>2 DEF new, q, d
<1>8. shown'[p][c] = v
  BY <1>4, <1>7, Constants DEF Settings
<1>9. \/ r < 0 /\ v = -1
      \/ r >= 0 /\ SumOverflows(c, r)
      \/ r >= 0 /\ v = Clamped(Rounded(r - c + Half, c), c)
  BY <1>3, <1>7 DEF Validated, K
<1>10. r >= 0 => Nearest(c, r, Clamped(Rounded(r - c + Half, c), c))
  BY <1>3, RoundsToNearest
<1>11. \/ r < 0 /\ shown'[p][c] = -1
       \/ r >= 0 /\ SumOverflows(c, r)
       \/ Nearest(c, r, shown'[p][c])
  BY <1>8, <1>9, <1>10
<1>12. g = (p * ChannelsPerPort) + c
  BY <1>4, <1>7 DEF K
<1> QED
  BY <1>1, <1>2, <1>11, <1>12, Zenon DEF ChangesAsTyped, request

LEMMA StepAsTyped ==
  ASSUME IInv, [Next]_vars
  PROVE  \A p \in Ports, c \in Local : ChangesAsTyped(p, c)
<1>1. EnterTrigger \/ UNCHANGED shown
  BY DEF Next, Keys, BeginEntry, TypeChar, AbortEntry, EnterRate, Nudge, Quit, LeaveLoop,
         OtherStop, TxNextPacket, TxCopyByte, vars
<1> QED
  BY <1>1, EntryApplies DEF ChangesAsTyped

(* Every trigger change is what the entry that Enter closed asked for: off,  *)
(* or the nearest valid offset, unless the sum overflows an int.             *)
THEOREM TriggersAsTyped == Spec => AppliesWhatWasTyped
<1>1. IInv /\ [Next]_vars =>
        [\A p \in Ports, c \in Local :
           shown'[p][c] # shown[p][c] =>
             LET request == Request(Kept(entry))
             IN /\ inputMode /\ inputCmd = "t" /\ IsRequest(request)
                /\ request[1] = (p * ChannelsPerPort) + c
                /\ \/ request[2] < 0 /\ shown'[p][c] = -1
                   \/ request[2] >= 0 /\ SumOverflows(c, request[2])
                   \/ Nearest(c, request[2], shown'[p][c])]_vars
  BY StepAsTyped DEF ChangesAsTyped
<1> QED
  BY <1>1, Inductive, PTL DEF Spec, AppliesWhatWasTyped
=============================================================================
