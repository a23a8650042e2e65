------------------------------ MODULE LiveKeys ------------------------------
(***************************************************************************)
(* The live console of the 8T8R playback executable (playback/src/stats.c, *)
(* universal.h, protocol.c, tx.c): the stats core reads keys, assembles    *)
(* #<rate> and t<channel>,<offset> entries, and patches trigger bytes into *)
(* header templates that the TX cores copy, byte by byte and with no lock, *)
(* into every packet.                                                      *)
(*                                                                         *)
(* A byte store and the store to trigger_offsets after it are one step: no *)
(* core but this one reads trigger_offsets.  Packets differ here only in   *)
(* their trigger bytes; module Playback follows their order and number.    *)
(***************************************************************************)
EXTENDS Integers, Sequences, SequencesExt

CONSTANTS NumPorts,         \* MAX_PORTS
          ChannelsPerPort,  \* CHANNELS_PER_PORT, also the literal 4 of the rounding
          SamplesPerPkt,    \* SAMPLES_PER_PKT
          BufLen,           \* characters input_buf holds: 31
          IntHalf,          \* int is -IntHalf .. IntHalf - 1
          LongHalf,         \* so is long, by LongHalf
          Lines,            \* bound: command key -> the entries an operator types
          Offsets           \* bound on tuning_offset

Half == ChannelsPerPort \div 2   \* the literal 2 of the rounding

ASSUME LiveKeysAssumption ==
  /\ {NumPorts, ChannelsPerPort, SamplesPerPkt, BufLen, IntHalf, LongHalf} \subseteq Nat \ {0}
  /\ ChannelsPerPort = 2 * Half
  /\ \E n \in 1 .. SamplesPerPkt : SamplesPerPkt = n * ChannelsPerPort
  /\ SamplesPerPkt <= 128 /\ ChannelsPerPort <= 12
  /\ SamplesPerPkt <= IntHalf /\ IntHalf <= LongHalf
  /\ Offsets \subseteq Int

Ports    == 0 .. (NumPorts - 1)
Local    == 0 .. (ChannelsPerPort - 1)
Channels == 0 .. (NumPorts * ChannelsPerPort - 1)

VARIABLES
  running,     \* gcfg->running
  stats,       \* stats core: "reading" keys, or it has "left" its loop
  inputMode,   \* input_mode
  inputCmd,    \* input_cmd_char
  inputBuf,    \* input_buf, its first input_idx characters
  tuningRate, tuningOffset,  \* gcfg->tuning_rate and gcfg->tuning_offset
  shown,       \* port -> channel -> trigger_offsets, what the console shows
  template,    \* port -> byte of word 1 -> its value in header_template
  packet,      \* port -> the same bytes of the packet its TX core builds
  missing,     \* port -> the bytes of it still to be copied
  entry,       \* history: what has been typed since the command key
  since        \* history: port -> channel -> offsets shown while its byte was missing

consoleVars == <<stats, inputMode, inputCmd, inputBuf, entry>>
tuningVars  == <<tuningRate, tuningOffset>>
txVars      == <<packet, missing>>
vars == <<running, consoleVars, tuningVars, shown, template, txVars, since>>
-----------------------------------------------------------------------------
(* Reading numbers. *)

Numerals == <<"0", "1", "2", "3", "4", "5", "6", "7", "8", "9">>
Digits == {Numerals[i] : i \in 1 .. 10}
EntryChars == Digits \cup {",", "-"}

\* The number at the front of a text, as strtoll reads it: a sign, the longest
\* run of digits, saturation.  digits = 0 says that there is no number.
Scan(text) ==
  LET sign   == IF text # <<>> /\ text[1] = "-" THEN 1 ELSE 0
      digits == Max({n \in 0 .. (Len(text) - sign) :
                       \A i \in 1 .. n : text[sign + i] \in Digits})
      Grow(value, char) ==
        Min({10 * value + (CHOOSE i \in 1 .. 10 : Numerals[i] = char) - 1, LongHalf})
      value  == FoldLeft(Grow, 0, SubSeq(text, sign + 1, sign + digits))
  IN [digits |-> digits,
      value  |-> IF sign = 1 THEN -value ELSE Min({value, LongHalf - 1}),
      rest   |-> SubSeq(text, sign + digits + 1, Len(text))]

\* %d stores the low bits of a long in an int.
ToInt(value) == ((value + IntHalf) % (2 * IntHalf)) - IntHalf

\* sscanf(text, "%d,%d", ...): <<channel, offset>>, or <<>> when it converts fewer.
Request(text) ==
  LET first  == Scan(text)
      second == Scan(Tail(first.rest))
  IN IF first.digits > 0 /\ first.rest # <<>> /\ first.rest[1] = ","
        /\ second.digits > 0
     THEN <<ToInt(first.value), ToInt(second.value)>>
     ELSE <<>>

\* The entries that change a trigger: both numbers present, the channel in range.
IsRequest(request) == request \in Channels \X (-IntHalf .. (IntHalf - 1))

\* (uint64_t)atoll(text), and the values of it that are accepted.
RateOf(text) == Scan(text).value % (2 * LongHalf)
Rates == 1 .. (2 * LongHalf - 1)
-----------------------------------------------------------------------------
(* Trigger offsets. *)

\* Division as C does it, towards zero.
Quotient(a, b) == IF a >= 0 THEN a \div b ELSE -((-a) \div b)

Rounded(sum, c) == Quotient(sum, ChannelsPerPort) * ChannelsPerPort + c

Highest(c) == c + ChannelsPerPort * ((SamplesPerPkt - 1 - c) \div ChannelsPerPort)

\* Variant: the upper bound is off by one group of channels.
LooseClamped(rounded, c) ==
  IF rounded > SamplesPerPkt THEN Highest(c) ELSE rounded

Clamped(rounded, c) == IF rounded >= SamplesPerPkt THEN Highest(c) ELSE rounded

\* The sum that validate_trigger_offset rounds does not fit an int.
SumOverflows(c, requested) == requested - c + Half >= IntHalf

\* What validate_trigger_offset may return.  A sum that overflows is undefined
\* behaviour: a build may compute it in a wider register; wrap it, to a negative
\* result that the test below the rounding sets to c; or have dropped that test,
\* which no sum without overflow meets, and return the negative result.
Validated(g, requested) ==
  LET c    == g % ChannelsPerPort
      wide == Clamped(Rounded(requested - c + Half, c), c)
  IN IF requested < 0 THEN {-1}
     ELSE IF SumOverflows(c, requested) THEN {wide, c, -1} ELSE {wide}

\* w0[8..11]: the byte of a channel, and what it holds.
ByteOf(c) == 11 - c
TriggerBytes == {ByteOf(c) : c \in Local}
Encoded(offset) == IF offset >= 0 THEN ((offset % 128) * 2 + 1) % 256 ELSE 0
-----------------------------------------------------------------------------
Init ==
  /\ running = TRUE
  /\ stats = "reading" /\ inputMode = FALSE /\ inputCmd = "none"
  /\ inputBuf = <<>> /\ entry = <<>>
  /\ tuningRate = 400 /\ tuningOffset = -3
  /\ shown = [p \in Ports |-> [c \in Local |-> -1]]
  /\ template = [p \in Ports |-> [b \in TriggerBytes |-> 0]]
  /\ packet = template
  /\ missing = [p \in Ports |-> {}]
  /\ since = [p \in Ports |-> [c \in Local |-> {-1}]]

(* The keys. *)

BeginEntry(key) ==
  /\ stats = "reading" /\ ~inputMode
  /\ inputMode' = TRUE /\ inputCmd' = key /\ inputBuf' = <<>> /\ entry' = <<>>
  /\ UNCHANGED <<running, stats, tuningVars, shown, template, txVars, since>>

\* One more character, unless input_buf is full.
TypeChar(key) ==
  /\ stats = "reading" /\ inputMode
  /\ \E line \in Lines[inputCmd] : IsPrefix(Append(entry, key), line)
  /\ inputBuf' = IF Len(inputBuf) < BufLen THEN Append(inputBuf, key) ELSE inputBuf
  /\ entry' = Append(entry, key)
  /\ UNCHANGED <<running, stats, inputMode, inputCmd, tuningVars, shown, template,
                 txVars, since>>

\* Any other key ends the entry and is swallowed by it; input_buf keeps its text.
AbortEntry ==
  /\ stats = "reading" /\ inputMode
  /\ inputMode' = FALSE /\ entry' = <<>>
  /\ UNCHANGED <<running, stats, inputCmd, inputBuf, tuningVars, shown, template,
                 txVars, since>>

CloseEntry ==
  /\ stats = "reading" /\ inputMode
  /\ inputMode' = FALSE /\ inputBuf' = <<>> /\ entry' = <<>>
  /\ UNCHANGED <<running, stats, inputCmd, tuningOffset, txVars>>

\* Variant: a rate of zero is accepted.
ZeroEnterRate ==
  /\ inputCmd = "#"
  /\ CloseEntry
  /\ tuningRate' = RateOf(inputBuf)
  /\ UNCHANGED <<shown, template, since>>

EnterRate ==
  /\ inputCmd = "#"
  /\ CloseEntry
  /\ tuningRate' = IF RateOf(inputBuf) \in Rates THEN RateOf(inputBuf) ELSE tuningRate
  /\ UNCHANGED <<shown, template, since>>

\* Variant: the byte of the mirrored channel is written.
MirroredApply(g, offset) ==
  LET p == g \div ChannelsPerPort
      c == g % ChannelsPerPort
      new == IF offset >= 0 THEN offset ELSE -1
  IN /\ template' = [template EXCEPT
                        ![p][ByteOf(ChannelsPerPort - 1 - c)] = Encoded(offset)]
     /\ shown' = [shown EXCEPT ![p][c] = new]
     /\ since' = [since EXCEPT ![p][c] = IF ByteOf(c) \in missing[p]
                                         THEN @ \cup {new} ELSE @]

\* Variant: switching a trigger off leaves its byte in the template.
StickyApply(g, offset) ==
  LET p == g \div ChannelsPerPort
      c == g % ChannelsPerPort
      new == IF offset >= 0 THEN offset ELSE -1
  IN /\ template' = IF offset >= 0
                    THEN [template EXCEPT ![p][ByteOf(c)] = Encoded(offset)]
                    ELSE template
     /\ shown' = [shown EXCEPT ![p][c] = new]
     /\ since' = [since EXCEPT ![p][c] = IF ByteOf(c) \in missing[p]
                                         THEN @ \cup {new} ELSE @]

apply_trigger(g, offset) ==
  LET p == g \div ChannelsPerPort
      c == g % ChannelsPerPort
      new == IF offset >= 0 THEN offset ELSE -1
  IN /\ template' = [template EXCEPT ![p][ByteOf(c)] = Encoded(offset)]
     /\ shown' = [shown EXCEPT ![p][c] = new]
     /\ since' = [since EXCEPT ![p][c] = IF ByteOf(c) \in missing[p]
                                         THEN @ \cup {new} ELSE @]

EnterTrigger ==
  /\ inputCmd = "t"
  /\ CloseEntry
  /\ LET request == Request(inputBuf)
     IN \/ /\ ~IsRequest(request)
           /\ UNCHANGED <<shown, template, since>>
        \/ /\ IsRequest(request)
           /\ \E offset \in Validated(request[1], request[2]) :
                apply_trigger(request[1], offset)
  /\ UNCHANGED tuningRate

Nudge(step) ==
  /\ stats = "reading" /\ ~inputMode
  /\ tuningOffset + step \in Offsets
  /\ tuningOffset' = tuningOffset + step
  /\ UNCHANGED <<running, consoleVars, tuningRate, shown, template, txVars, since>>

\* The q key; the keys behind it in the same batch are still read.
Quit ==
  /\ stats = "reading" /\ ~inputMode
  /\ running' = FALSE
  /\ UNCHANGED <<consoleVars, tuningVars, shown, template, txVars, since>>

\* The batch is read; behind the sleep, which only delays, the loop tests running.
\* With running set it goes round, and nothing has changed.
LeaveLoop ==
  /\ stats = "reading" /\ ~running
  /\ stats' = "left"
  /\ UNCHANGED <<running, inputMode, inputCmd, inputBuf, entry, tuningVars, shown,
                 template, txVars, since>>

\* A signal, or a reader that has played its loops.
OtherStop ==
  /\ running
  /\ running' = FALSE
  /\ UNCHANGED <<consoleVars, tuningVars, shown, template, txVars, since>>

(* TX core of port p. *)

\* A new mbuf; what it held before is of no interest.  tx.c:78 tests running between
\* bursts, so packets are still built after it is cleared: how many is for module
\* Playback to say, here there is no limit.
TxNextPacket(p) ==
  /\ missing[p] = {}
  /\ packet' = [packet EXCEPT ![p] = [b \in TriggerBytes |-> 0]]
  /\ missing' = [missing EXCEPT ![p] = TriggerBytes]
  /\ since' = [since EXCEPT ![p] = [c \in Local |-> {shown[p][c]}]]
  /\ UNCHANGED <<running, consoleVars, tuningVars, shown, template>>

\* rte_memcpy of the template promises no order among its bytes.
TxCopyByte(p) ==
  \E b \in missing[p] :
    /\ packet' = [packet EXCEPT ![p][b] = template[p][b]]
    /\ missing' = [missing EXCEPT ![p] = @ \ {b}]
    /\ UNCHANGED <<running, consoleVars, tuningVars, shown, template, since>>

Keys ==
  \/ \E key \in {"#", "t"} : BeginEntry(key)
  \/ \E key \in EntryChars : TypeChar(key)
  \/ AbortEntry
  \/ EnterRate
  \/ EnterTrigger
  \/ \E step \in {1, -1, 10, -10} : Nudge(step)
  \/ Quit

Next ==
  \/ Keys
  \/ LeaveLoop
  \/ OtherStop
  \/ \E p \in Ports : TxNextPacket(p) \/ TxCopyByte(p)

\* Each TX core spins on its own lcore; nobody has to press a key.
Spec == /\ Init /\ [][Next]_vars
        /\ \A p \in Ports : WF_vars(TxNextPacket(p) \/ TxCopyByte(p))
-----------------------------------------------------------------------------
ValidOffset(c, v) ==
  /\ v \in 0 .. (SamplesPerPkt - 1)
  /\ v % ChannelsPerPort = c

Distance(a, b) == IF a < b THEN b - a ELSE a - b

\* v is a valid offset of channel c, and no valid one is closer to the request.
Nearest(c, requested, v) ==
  /\ ValidOffset(c, v)
  /\ \A w \in 0 .. (SamplesPerPkt - 1) :
       ValidOffset(c, w) => Distance(requested, v) <= Distance(requested, w)

\* The trigger byte as a receiver takes it apart: event in bit 0, offset above.
Decoded(byte) == IF byte % 2 = 1 THEN byte \div 2 ELSE -1

\* What input_buf should hold of a typed entry.
Kept(text) == IF Len(text) <= BufLen THEN text ELSE SubSeq(text, 1, BufLen)

Settings == -1 .. (SamplesPerPkt - 1)

\* Types; the tuning rate, by which tx.c:72 divides, is never zero.
TypeOK ==
  /\ running \in BOOLEAN /\ inputMode \in BOOLEAN
  /\ stats \in {"reading", "left"}
  /\ inputCmd \in {"none", "#", "t"} /\ (inputMode => inputCmd # "none")
  /\ inputBuf \in Seq(EntryChars) /\ entry \in Seq(EntryChars)
  /\ tuningRate \in Rates \cup {400} /\ tuningOffset \in Int
  /\ shown \in [Ports -> [Local -> Settings]]
  /\ template \in [Ports -> [TriggerBytes -> 0 .. 255]]
  /\ packet \in [Ports -> [TriggerBytes -> 0 .. 255]]
  /\ missing \in [Ports -> SUBSET TriggerBytes]
  /\ since \in [Ports -> [Local -> SUBSET Settings]]

\* While an entry is open, input_buf holds exactly what has been typed since its
\* command key, up to its length: nothing of an entry that was given up, or cut
\* short by another key, gets into the next (stats.c:82-137).
BufferIsEntry == inputMode => inputBuf = Kept(entry)

\* A trigger changes only when Enter closes an entry that asks for its channel,
\* and then to what was typed: off for a negative offset, else the nearest valid
\* offset, unless the sum overflows (stats.c:90-116, universal.h:75-83).
AppliesWhatWasTyped ==
  [][\A p \in Ports, c \in Local :
       shown'[p][c] # shown[p][c] =>
         LET request == Request(Kept(entry))
         IN /\ inputMode /\ inputCmd = "t" /\ IsRequest(request)
            /\ request[1] = (p * ChannelsPerPort) + c
            /\ \/ request[2] < 0 /\ shown'[p][c] = -1
               \/ request[2] >= 0 /\ SumOverflows(c, request[2])
               \/ Nearest(c, request[2], shown'[p][c])]_vars

\* A byte of a packet that has been copied holds a trigger the console showed for
\* that channel at some time during the copy: no byte of another channel, no torn
\* or truncated offset, no trigger that was replaced before the copy began
\* (stats.c:23-40, tx.c:99-106).
WireMatchesConsole ==
  \A p \in Ports, c \in Local :
    ByteOf(c) \notin missing[p] => Decoded(packet[p][ByteOf(c)]) \in since[p][c]

\* While the program runs, every channel's packets come to carry the trigger the
\* console shows for it, again and again: no setting is left behind in the
\* template or on the console only.
TriggersReachWire ==
  \A p \in Ports, c \in Local :
    []<>(\/ ~running
         \/ ByteOf(c) \notin missing[p] /\ Decoded(packet[p][ByteOf(c)]) = shown[p][c])
=============================================================================
