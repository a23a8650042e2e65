----------------------- MODULE PlaybackControlProofs -----------------------
(***************************************************************************)
(* Proofs about the 8T8R playback control server, for any number of        *)
(* workers, keys, values, texts, calls and restarts: what it guarantees of *)
(* Set calls that do not overlap, and of process calls that do not.        *)
(***************************************************************************)
EXTENDS PlaybackControl, FiniteSetTheorems, SequenceTheorems, WellFoundedInduction, TLAPS

Steps == {"idle"} \cup SetSteps \cup ProcSteps
Calls == [pc : Steps, key : Keys \cup {"junk"}, val : Values \cup {Malformed},
          lines : Seq(Line), fd : {None} \cup Inodes \cup Children]
Spawned == {c \in Children : child[c] # "none"}

(* Types, part by part, with what they need to be inductive: the step of a  *)
(* call tells which of its fields are in use, and there are never more      *)
(* children than calls.                                                     *)
FilesTyped ==
  /\ inode \in [Inodes -> Seq(Line)] /\ cfg \in Inodes /\ tmp \in Inodes \cup {None}
  /\ tmp # cfg

CallsTyped ==
  /\ call \in [Workers -> Calls] /\ answer \in [Workers -> {"none", "ok", "error"}]
  /\ \A w \in Workers :
       /\ call[w].pc \in SetSteps => call[w].key \in Keys /\ call[w].val \in Values
       /\ At(w, "write") => call[w].fd \in Inodes

ChildTyped ==
  /\ proc \in Children \cup {None}
  /\ child \in [Children -> {"none", "boot", "init", "play", "ending", "dead"}]
  /\ played \in [Children -> [Keys -> Values \cup {Default}]]
  /\ proc # None => child[proc] # "none"

CountsTyped ==
  /\ calls \in 0 .. MaxCalls /\ restarts \in 0 .. MaxRestarts
  /\ apart \in BOOLEAN /\ calm \in BOOLEAN
  /\ Cardinality(Spawned) + Cardinality(InFlight({"spawn"})) <= calls

(* As long as no two Set calls have overlapped, the one in flight has read  *)
(* config.ini as it still is, and the temporary name belongs to its file.   *)
FileInv == apart =>
  /\ \A v, w \in InFlight(SetSteps) : v = w
  /\ \A w \in Workers :
       /\ call[w].pc \in {"open", "write", "replace"} => call[w].lines = inode[cfg]
       /\ At(w, "write") => call[w].fd = tmp /\ inode[tmp] = <<>>
       /\ At(w, "replace") =>
            tmp # None /\ inode[tmp] = Rewritten(call[w].lines, call[w].key, call[w].val)
       /\ At(w, "snapshot") =>
            inode[cfg] = Rewritten(call[w].lines, call[w].key, call[w].val)
  /\ \A k \in Required : LinesOf(inode[cfg], k) # {}

(* As long as no two process calls have overlapped, self.proc is the only   *)
(* child, none lives when a Start is about to spawn or a Stop has waited,   *)
(* and a Stop waits for self.proc.                                          *)
ProcInv == calm =>
  /\ \A v, w \in InFlight(ProcSteps) : v = w
  /\ \A c \in Children : Alive(c) => c = proc
  /\ \A w \in Workers : /\ call[w].pc \in {"spawn", "clear"} => AliveChildren = {}
                        /\ At(w, "waiting") => call[w].fd = proc

IInv == FilesTyped /\ CallsTyped /\ ChildTyped /\ CountsTyped
        /\ FileInv /\ ProcInv /\ PlaysConfigured

-----------------------------------------------------------------------------
(* Texts.                                                                   *)

(* A nonempty set of naturals has a least element, which Min chooses. *)
LEMMA MinProperties ==
  ASSUME NEW S \in SUBSET Nat, S # {}
  PROVE  Min(S) \in S /\ \A y \in S : Min(S) <= y
<1>1. PICK x \in S : \A y \in S : <<y, x>> \notin OpToRel(<, Nat)
  BY NatLessThanWellFounded, WFMin
<1>2. \A y \in S : x <= y
  <2> SUFFICES ASSUME NEW y \in S PROVE x <= y
    OBVIOUS
  <2>1. ~ (y < x)
    BY <1>1 DEF OpToRel
  <2> QED
    BY <2>1
<1> QED
  BY <1>2 DEF Min

LEMMA MaxOfOne == ASSUME NEW x \in Nat PROVE Max({x}) = x
  BY DEF Max

(* The line a key is first on. *)
LEMMA FirstLine ==
  ASSUME NEW lines \in Seq(Line), NEW k, LinesOf(lines, k) # {}
  PROVE  /\ Min(LinesOf(lines, k)) \in 1 .. Len(lines)
         /\ lines[Min(LinesOf(lines, k))].key = k
<1>1. LinesOf(lines, k) \subseteq 1 .. Len(lines)
  BY DEF LinesOf
<1>2. Min(LinesOf(lines, k)) \in LinesOf(lines, k)
  BY <1>1, MinProperties
<1> QED
  BY <1>1, <1>2 DEF LinesOf

(* A rewritten text is one again, only lines of its key have changed, its   *)
(* first line of the key has the new value, and it has one line of the key  *)
(* if there was no more than one.                                           *)
LEMMA RewritesOneKey ==
  ASSUME NEW lines \in Seq(Line), NEW k \in Keys, NEW v \in Values
  PROVE  /\ Rewritten(lines, k, v) \in Seq(Line)
         /\ OnlyKey(lines, Rewritten(lines, k, v), k)
         /\ LinesOf(Rewritten(lines, k, v), k) # {}
         /\ Rewritten(lines, k, v)[Min(LinesOf(Rewritten(lines, k, v), k))].val = v
         /\ \A m : LinesOf(lines, k) \subseteq {m} =>
              \E n : LinesOf(Rewritten(lines, k, v), k) = {n}
<1> DEFINE new  == Rewritten(lines, k, v)
           line == [key |-> k, val |-> v]
<1>1. line \in Line
  BY DEF Line
<1>2. CASE LinesOf(lines, k) = {}
  <2>1. new = Append(lines, line)
    BY <1>2 DEF Rewritten
  <2>2. /\ new \in Seq(Line) /\ Len(new) = Len(lines) + 1
        /\ \A i \in 1 .. Len(lines) : new[i] = lines[i]
        /\ new[Len(lines) + 1] = line
    BY <1>1, <2>1, AppendProperties
  <2>3. OnlyKey(lines, new, k)
    BY <1>2, <2>2 DEF OnlyKey
  <2>4. LinesOf(new, k) = {Len(lines) + 1}
    BY <1>2, <2>2 DEF LinesOf
  <2>5. Min(LinesOf(new, k)) = Len(lines) + 1
    BY <2>4, MinProperties
  <2>6. new[Min(LinesOf(new, k))].val = v /\ LinesOf(new, k) # {}
    BY <2>2, <2>4, <2>5
  <2>7. \E n : LinesOf(new, k) = {n}
    BY <2>4
  <2> HIDE DEF new
  <2> QED
    BY <2>2, <2>3, <2>6, <2>7 DEF new
<1>3. CASE LinesOf(lines, k) # {}
  <2> DEFINE m == Min(LinesOf(lines, k))
  <2>1. m \in 1 .. Len(lines) /\ lines[m].key = k
    BY <1>3, FirstLine
  <2>2. [lines[m] EXCEPT !.val = v] = line
    <3>1. lines[m] \in Line
      BY <2>1, ElementOfSeq
    <3> QED
      BY <2>1, <3>1 DEF Line
  <2>3. new = [lines EXCEPT ![m] = line]
    BY <1>3, <2>2 DEF Rewritten
  <2>4. /\ new \in Seq(Line) /\ Len(new) = Len(lines)
        /\ \A i \in 1 .. Len(lines) : new[i] = IF i = m THEN line ELSE lines[i]
    BY <1>1, <2>1, <2>3, ExceptSeq
  <2>5. OnlyKey(lines, new, k)
    BY <2>1, <2>4 DEF OnlyKey, LinesOf
  <2>6. LinesOf(new, k) = LinesOf(lines, k)
    BY <2>1, <2>4 DEF LinesOf
  <2>7. new[Min(LinesOf(new, k))].val = v /\ LinesOf(new, k) # {}
    BY <1>3, <2>1, <2>4, <2>6
  <2>8. \A x : LinesOf(lines, k) \subseteq {x} => LinesOf(lines, k) = {x}
    BY <1>3
  <2>9. \A x : LinesOf(lines, k) \subseteq {x} => \E n : LinesOf(new, k) = {n}
    BY <2>6, <2>8, Zenon
  <2> HIDE DEF new
  <2> QED
    BY <2>4, <2>5, <2>7, <2>9 DEF new
<1> QED
  BY <1>2, <1>3

(* A key a text has is not lost. *)
LEMMA KeysKept ==
  ASSUME NEW lines \in Seq(Line), NEW new \in Seq(Line), NEW k,
         OnlyKey(lines, new, k), NEW j, LinesOf(lines, j) # {}
  PROVE  LinesOf(new, j) # {}
<1>1. PICK i \in DOMAIN lines : lines[i].key = j
  BY DEF LinesOf
<1>2. i \in DOMAIN new /\ new[i].key = j
  BY <1>1 DEF OnlyKey
<1> QED
  BY <1>2 DEF LinesOf

(* What a write leaves in a file is a text; in an empty file, the new one.  *)
LEMMA WrittenTexts ==
  ASSUME NEW old \in Seq(Line), NEW new \in Seq(Line), NEW content \in WrittenOver(old, new)
  PROVE  content \in Seq(Line) /\ (old = <<>> => content = new)
<1>1. CASE content = new
  BY <1>1
<1>2. CASE content = Append(new, Junk) /\ old # <<>>
  <2>1. Junk \in Line
    BY DEF Junk, Line
  <2> QED
    BY <1>2, <2>1
<1>3. CASE content = new \o SubSeq(old, Len(new) + 1, Len(old)) /\ old # <<>>
  <2>1. Len(new) \in Nat /\ Len(old) \in Nat
    BY LenProperties
  <2>2. \A i \in (Len(new) + 1) .. Len(old) : old[i] \in Line
    BY <2>1, ElementOfSeq
  <2>3. SubSeq(old, Len(new) + 1, Len(old)) \in Seq(Line)
    BY <2>1, <2>2, SubSeqProperties
  <2> QED
    BY <1>3, <2>3, ConcatProperties
<1> QED
  BY <1>1, <1>2, <1>3 DEF WrittenOver

(* What config_load takes for a key of a text is not the default. *)
LEMMA LoadedValue ==
  ASSUME NEW lines \in Seq(Line), NEW k
  PROVE  /\ FirstOf(lines, k) \in Values \cup {Malformed, Default}
         /\ LinesOf(lines, k) # {} => FirstOf(lines, k) # Default
<1>1. CASE LinesOf(lines, k) = {}
  BY <1>1 DEF FirstOf
<1>2. CASE LinesOf(lines, k) # {}
  <2>1. lines[Min(LinesOf(lines, k))] \in Line
    BY <1>2, FirstLine, ElementOfSeq
  <2>2. FirstOf(lines, k) \in Values \cup {Malformed}
    BY <1>2, <2>1 DEF FirstOf, Line
  <2> QED
    BY <2>2, FileAssumption
<1> QED
  BY <1>1, <1>2

-----------------------------------------------------------------------------
(* How a worker's step changes the calls.                                   *)

Moves(w, pc) ==
  /\ call' \in [Workers -> Calls]
  /\ call'[w].pc = pc
  /\ \A u \in Workers : u # w => call'[u] = call[u]

LEMMA GotoMoves ==
  ASSUME NEW w \in Workers, NEW pc \in Steps, call \in [Workers -> Calls], Goto(w, pc)
  PROVE  /\ Moves(w, pc)
         /\ call'[w].key = call[w].key /\ call'[w].val = call[w].val
         /\ call'[w].lines = call[w].lines /\ call'[w].fd = call[w].fd
BY DEF Goto, Moves, Calls

LEMMA FdMoves ==
  ASSUME NEW w \in Workers, NEW pc \in Steps, NEW fd \in {None} \cup Inodes \cup Children,
         call \in [Workers -> Calls], call' = [call EXCEPT ![w].pc = pc, ![w].fd = fd]
  PROVE  Moves(w, pc) /\ call'[w].fd = fd
BY DEF Moves, Calls

LEMMA IdleType == Idle \in Calls /\ Idle.pc = "idle"
<1>1. <<>> \in Seq(Line)
  OBVIOUS
<1> QED
  BY <1>1 DEF Idle, Calls, Steps

LEMMA AnswerMoves ==
  ASSUME NEW w \in Workers, NEW r \in {"ok", "error"}, call \in [Workers -> Calls],
         answer \in [Workers -> {"none", "ok", "error"}], Answer(w, r)
  PROVE  Moves(w, "idle") /\ answer' \in [Workers -> {"none", "ok", "error"}]
BY IdleType DEF Answer, Moves

(* The workers in a set of steps after w has moved to pc. *)
LEMMA FlightMoves ==
  ASSUME NEW w \in Workers, NEW pc, Moves(w, pc), NEW S
  PROVE  /\ \A v \in Workers \ {w} : v \in InFlight(S)' <=> v \in InFlight(S)
         /\ w \in InFlight(S)' <=> pc \in S
         /\ (call[w].pc \in S <=> pc \in S) => InFlight(S)' = InFlight(S)
<1>1. \A v \in Workers : v # w => call'[v].pc = call[v].pc
  BY DEF Moves
<1> QED
  BY <1>1 DEF InFlight, Moves

(* A step of a Set call leaves alone what is said of children ...           *)
LEMMA SetFrame ==
  ASSUME IInv, NEW w \in Workers, NEW pc \in Steps \ ProcSteps, call[w].pc \notin ProcSteps,
         Moves(w, pc), UNCHANGED setFrame
  PROVE  ChildTyped' /\ CountsTyped' /\ ProcInv' /\ PlaysConfigured'
<1> USE DEF IInv, setFrame, childVars, histVars
<1>1. UNCHANGED <<proc, child, played, calls, restarts, apart, calm>>
  OBVIOUS
<1>2. ChildTyped' /\ PlaysConfigured'
  BY <1>1 DEF ChildTyped, PlaysConfigured
<1>3. /\ InFlight({"spawn"})' = InFlight({"spawn"})
      /\ InFlight(ProcSteps)' = InFlight(ProcSteps)
  BY FlightMoves DEF ProcSteps
<1>4. CountsTyped'
  BY <1>1, <1>3 DEF CountsTyped, Spawned
<1>5. ProcInv'
  BY <1>1, <1>3 DEF ProcInv, Alive, AliveChildren, Moves, At, ProcSteps
<1> QED
  BY <1>2, <1>4, <1>5

(* ... a step of a process call what is said of files.                      *)
LEMMA ProcFrame ==
  ASSUME IInv, NEW w \in Workers, NEW pc \in Steps \ SetSteps, call[w].pc \notin SetSteps,
         Moves(w, pc), answer' \in [Workers -> {"none", "ok", "error"}],
         UNCHANGED <<fileVars, apart>>
  PROVE  FilesTyped' /\ CallsTyped' /\ FileInv'
<1> USE DEF IInv, fileVars
<1>1. UNCHANGED <<inode, cfg, tmp, apart>>
  OBVIOUS
<1>2. FilesTyped'
  BY <1>1 DEF FilesTyped
<1>3. CallsTyped'
  BY DEF CallsTyped, Moves, At, SetSteps
<1>4. InFlight(SetSteps)' = InFlight(SetSteps)
  BY FlightMoves
<1>5. FileInv'
  BY <1>1, <1>4 DEF FileInv, Moves, At, SetSteps
<1> QED
  BY <1>2, <1>3, <1>5

-----------------------------------------------------------------------------
(* The initial states satisfy the invariant.                                *)

LEMMA InodesAre == /\ Cardinality(Workers) \in Nat
                   /\ Inodes \subseteq Nat \ {0} /\ 1 \in Inodes /\ 2 \in Inodes
                   /\ IsFiniteSet(Inodes) /\ Cardinality(Inodes) = 2 + Cardinality(Workers)
<1>1. Cardinality(Workers) \in Nat
  BY ControlAssumption, FS_CardinalityType
<1>2. IsFiniteSet(Inodes) /\ Cardinality(Inodes) = 2 + Cardinality(Workers)
  BY <1>1, FS_Interval DEF Inodes
<1> QED
  BY <1>1, <1>2 DEF Inodes

LEMMA ChildrenAre == /\ Children \subseteq Nat \ {0}
                     /\ IsFiniteSet(Children) /\ Cardinality(Children) = MaxCalls
<1>1. MaxCalls \in Nat
  BY ControlAssumption
<1>2. IsFiniteSet(Children) /\ Cardinality(Children) = MaxCalls
  BY <1>1, FS_Interval DEF Children
<1> QED
  BY <1>1, <1>2 DEF Children

LEMMA InitInv == Init => IInv
<1> SUFFICES ASSUME Init PROVE IInv
  OBVIOUS
<1>1. PICK f \in Files : inode = [i \in Inodes |-> IF i = 1 THEN f ELSE <<>>]
  BY DEF Init
<1>2. f \in Seq(Line) /\ <<>> \in Seq(Line)
  BY FileAssumption
<1>3. cfg = 1 /\ tmp = None /\ call = [w \in Workers |-> Idle]
      /\ answer = [w \in Workers |-> "none"] /\ proc = None
      /\ child = [c \in Children |-> "none"]
      /\ played = [c \in Children |-> [k \in Keys |-> Default]]
      /\ calls = 0 /\ restarts = 0 /\ apart = TRUE /\ calm = TRUE
  BY DEF Init
<1>4. FilesTyped
  BY <1>1, <1>2, <1>3, InodesAre DEF FilesTyped, None
<1>5. \A w \in Workers : call[w] \in Calls /\ call[w].pc = "idle"
  BY <1>3, IdleType
<1>6. CallsTyped
  <2>1. call \in [Workers -> Calls]
    BY <1>3, IdleType
  <2> QED
    BY <1>3, <1>5, <2>1 DEF CallsTyped, At, SetSteps
<1>7. ChildTyped
  BY <1>3 DEF ChildTyped
<1>8. InFlight({"spawn"}) = {} /\ Spawned = {} /\ Cardinality({}) = 0
  BY <1>3, <1>5, FS_EmptySet DEF InFlight, Spawned
<1>9. CountsTyped
  <2>1. calls \in 0 .. MaxCalls /\ restarts \in 0 .. MaxRestarts
    BY <1>3, ControlAssumption
  <2>2. Cardinality(Spawned) + Cardinality(InFlight({"spawn"})) <= calls
    BY <1>3, <1>8
  <2> QED
    BY <1>3, <2>1, <2>2 DEF CountsTyped
<1>10. inode[cfg] = f
  BY <1>1, <1>3, InodesAre
<1>11. FileInv
  BY <1>5, <1>10 DEF FileInv, InFlight, At, SetSteps, Required
<1>12. ProcInv
  BY <1>3, <1>5 DEF ProcInv, InFlight, At, ProcSteps, Alive
<1>13. PlaysConfigured
  BY <1>3 DEF PlaysConfigured
<1> QED
  BY <1>4, <1>6, <1>7, <1>9, <1>11, <1>12, <1>13 DEF IInv

-----------------------------------------------------------------------------
(* Set calls preserve the invariant.                                        *)

LEMMA SetBeginInv ==
  ASSUME IInv, NEW w \in Workers, SetBegin(w)
  PROVE  IInv'
<1> USE DEF IInv
<1>1. PICK k \in Keys, v \in Values :
        call' = [call EXCEPT ![w] =
                   [pc |-> "read", key |-> k, val |-> v, lines |-> <<>>, fd |-> None]]
  BY DEF SetBegin
<1>2. /\ At(w, "idle") /\ calls < MaxCalls /\ calls' = calls + 1
      /\ apart' = (apart /\ InFlight(SetSteps) = {})
      /\ UNCHANGED <<inode, cfg, tmp, answer, proc, child, played, restarts, calm>>
  BY DEF SetBegin, fileVars, childVars
<1>3. [pc |-> "read", key |-> k, val |-> v, lines |-> <<>>, fd |-> None] \in Calls
  <2>1. <<>> \in Seq(Line)
    OBVIOUS
  <2> QED
    BY <2>1 DEF Calls, Steps, SetSteps
<1>4. Moves(w, "read") /\ call'[w].key = k /\ call'[w].val = v
  BY <1>1, <1>3 DEF Moves, CallsTyped
<1>5. FilesTyped' /\ ChildTyped'
  BY <1>2 DEF FilesTyped, ChildTyped
<1>6. CallsTyped'
  BY <1>2, <1>4 DEF CallsTyped, Moves, At
<1>7. InFlight({"spawn"})' = InFlight({"spawn"}) /\ InFlight(ProcSteps)' = InFlight(ProcSteps)
  BY <1>2, <1>4, FlightMoves DEF At, ProcSteps
<1>8. CountsTyped'
  <2>1. calls' \in 0 .. MaxCalls
    BY <1>2, ControlAssumption DEF CountsTyped
  <2>2. (Cardinality(Spawned) + Cardinality(InFlight({"spawn"})) <= calls)'
    <3>1. Cardinality(InFlight({"spawn"})) \in Nat /\ Cardinality(Spawned) \in Nat
      BY ChildrenAre, ControlAssumption, FS_Subset, FS_CardinalityType DEF Spawned, InFlight
    <3>2. Spawned' = Spawned
      BY <1>2 DEF Spawned
    <3> QED
      BY <1>2, <1>7, <3>1, <3>2 DEF CountsTyped
  <2>3. apart' \in BOOLEAN
    BY <1>2 DEF CountsTyped
  <2> QED
    BY <1>2, <2>1, <2>2, <2>3 DEF CountsTyped
<1>9. FileInv'
  <2> SUFFICES ASSUME apart' PROVE FileInv'
    BY DEF FileInv
  <2>1. apart /\ InFlight(SetSteps) = {}
    BY <1>2
  <2>2. \A u \in Workers : u # w => call'[u].pc \notin SetSteps
    BY <1>4, <2>1 DEF Moves, InFlight
  <2> QED
    BY <1>2, <1>4, <2>1, <2>2 DEF FileInv, InFlight, At, SetSteps, Moves
<1>10. ProcInv'
  BY <1>2, <1>4, <1>7 DEF ProcInv, Alive, AliveChildren, Moves, At, ProcSteps
<1>11. PlaysConfigured'
  BY <1>2 DEF PlaysConfigured
<1> QED
  BY <1>5, <1>6, <1>8, <1>9, <1>10, <1>11

LEMMA SetReadInv ==
  ASSUME IInv, NEW w \in Workers, SetRead(w)
  PROVE  IInv'
<1> USE DEF IInv
<1>1. /\ At(w, "read") /\ UNCHANGED <<fileVars, answer, setFrame>>
      /\ call' = [call EXCEPT ![w].lines = inode[cfg], ![w].pc = "open"]
  BY DEF SetRead
<1>2. UNCHANGED <<inode, cfg, tmp, answer, apart>>
  BY <1>1 DEF fileVars, setFrame, histVars
<1>3. inode[cfg] \in Seq(Line)
  BY DEF FilesTyped
<1>4. /\ Moves(w, "open") /\ call'[w].lines = inode[cfg]
      /\ call'[w].key = call[w].key /\ call'[w].val = call[w].val
  BY <1>1, <1>3 DEF Moves, CallsTyped, Calls, Steps, SetSteps
<1>5. FilesTyped'
  BY <1>2 DEF FilesTyped
<1>6. CallsTyped'
  BY <1>1, <1>2, <1>4 DEF CallsTyped, Moves, At, SetSteps
<1>7. InFlight(SetSteps)' = InFlight(SetSteps)
  BY <1>1, <1>4, FlightMoves DEF At, SetSteps
<1>8. FileInv'
  BY <1>2, <1>4, <1>7 DEF FileInv, Moves, At
<1>9. ChildTyped' /\ CountsTyped' /\ ProcInv' /\ PlaysConfigured'
  BY <1>1, <1>4, SetFrame DEF At, Steps, SetSteps, ProcSteps
<1> QED
  BY <1>5, <1>6, <1>8, <1>9

(* There is always an inode that is neither config.ini nor being written.   *)
LEMMA FreeInode ==
  ASSUME FilesTyped, CallsTyped, NEW w \in Workers, At(w, "open")
  PROVE  Inodes \ ({cfg} \cup {call[v].fd : v \in InFlight({"write"})}) # {}
<1> DEFINE writers == InFlight({"write"})
           f    == [v \in writers |-> call[v].fd]
           fds  == {call[v].fd : v \in writers}
           used == {cfg} \cup fds
<1>1. writers \in SUBSET (Workers \ {w})
  BY DEF InFlight, At
<1>2. IsFiniteSet(Workers \ {w}) /\ Cardinality(Workers \ {w}) = Cardinality(Workers) - 1
  BY ControlAssumption, FS_RemoveElement
<1>3. IsFiniteSet(writers) /\ Cardinality(writers) <= Cardinality(Workers) - 1
  BY <1>1, <1>2, FS_Subset
<1>4. f \in Surjection(writers, fds)
  BY DEF Surjection
<1>5. IsFiniteSet(fds) /\ Cardinality(fds) <= Cardinality(writers)
  BY <1>3, <1>4, FS_Surjection
<1>6. IsFiniteSet(used) /\ Cardinality(used) <= Cardinality(fds) + 1
  <2>1. used = fds \cup {cfg}
    OBVIOUS
  <2>2. Cardinality(fds) \in Nat
    BY <1>5, FS_CardinalityType
  <2>3. /\ IsFiniteSet(fds \cup {cfg})
        /\ Cardinality(fds \cup {cfg})
             = IF cfg \in fds THEN Cardinality(fds) ELSE Cardinality(fds) + 1
    BY <1>5, FS_AddElement
  <2> HIDE DEF fds, used
  <2> QED
    BY <2>1, <2>2, <2>3
<1>7. Cardinality(writers) \in Nat /\ Cardinality(fds) \in Nat /\ Cardinality(used) \in Nat
  BY <1>3, <1>5, <1>6, FS_CardinalityType
<1>8. SUFFICES ASSUME Inodes \in SUBSET used PROVE FALSE
  OBVIOUS
<1>9. Cardinality(Inodes) <= Cardinality(used)
  BY <1>6, <1>8, FS_Subset
<1> QED
  BY <1>3, <1>5, <1>6, <1>7, <1>9, InodesAre

LEMMA SetOpenInv ==
  ASSUME IInv, NEW w \in Workers, SetOpen(w)
  PROVE  IInv'
<1> USE DEF IInv
<1> DEFINE used == {cfg} \cup {call[v].fd : v \in InFlight({"write"})}
           new  == IF tmp # None THEN tmp ELSE Min(Inodes \ used)
<1>1. /\ At(w, "open") /\ UNCHANGED <<cfg, answer, setFrame>>
      /\ inode' = [inode EXCEPT ![new] = <<>>] /\ tmp' = new
      /\ call' = [call EXCEPT ![w].fd = new, ![w].pc = "write"]
  BY DEF SetOpen
<1>2. new \in Inodes \ {cfg}
  <2>1. CASE tmp # None
    BY <2>1 DEF FilesTyped
  <2>2. CASE tmp = None
    <3>1. Inodes \ used \in SUBSET Nat /\ Inodes \ used # {}
      BY <1>1, FreeInode, InodesAre
    <3>2. Min(Inodes \ used) \in Inodes \ used
      BY <3>1, MinProperties
    <3> QED
      BY <2>2, <3>2
  <2> QED
    BY <2>1, <2>2
<1> HIDE DEF new
<1>3. /\ inode' \in [Inodes -> Seq(Line)] /\ inode'[new] = <<>> /\ inode'[cfg] = inode[cfg]
  <2>1. <<>> \in Seq(Line)
    OBVIOUS
  <2> QED
    BY <1>1, <1>2, <2>1 DEF FilesTyped
<1>4. new # None
  BY <1>2, InodesAre DEF None
<1>5. FilesTyped'
  BY <1>1, <1>2, <1>3 DEF FilesTyped
<1>6. /\ Moves(w, "write") /\ call'[w].fd = new /\ call'[w].lines = call[w].lines
      /\ call'[w].key = call[w].key /\ call'[w].val = call[w].val
  BY <1>1, <1>2 DEF Moves, CallsTyped, Calls, Steps, SetSteps
<1>7. CallsTyped'
  BY <1>1, <1>2, <1>6 DEF CallsTyped, Moves, At, SetSteps
<1>8. FileInv'
  <2> SUFFICES ASSUME apart' PROVE FileInv'
    BY DEF FileInv
  <2>1. apart /\ cfg' = cfg
    BY <1>1 DEF setFrame, histVars
  <2>2. InFlight(SetSteps)' = InFlight(SetSteps)
    BY <1>1, <1>6, FlightMoves DEF At, SetSteps
  <2>3. \A u \in Workers : u # w => call'[u].pc \notin SetSteps
    BY <1>1, <1>6, <2>1 DEF FileInv, InFlight, Moves, At, SetSteps
  <2>4. call'[w].lines = inode'[cfg']
    BY <1>1, <1>3, <1>6, <2>1 DEF FileInv, At
  <2> QED
    BY <1>1, <1>3, <1>6, <2>1, <2>2, <2>3, <2>4 DEF FileInv, At, SetSteps, Moves
<1>9. ChildTyped' /\ CountsTyped' /\ ProcInv' /\ PlaysConfigured'
  BY <1>1, <1>6, SetFrame DEF At, Steps, SetSteps, ProcSteps
<1> QED
  BY <1>5, <1>7, <1>8, <1>9

LEMMA SetWriteInv ==
  ASSUME IInv, NEW w \in Workers, SetWrite(w)
  PROVE  IInv'
<1> USE DEF IInv
<1> DEFINE text == Rewritten(call[w].lines, call[w].key, call[w].val)
           fd == call[w].fd
<1>1. /\ At(w, "write") /\ UNCHANGED <<cfg, tmp, answer, setFrame>>
      /\ call' = [call EXCEPT ![w].fd = None, ![w].pc = "replace"]
  BY DEF SetWrite
<1>2. PICK content \in WrittenOver(inode[fd], text) : inode' = [inode EXCEPT ![fd] = content]
  BY DEF SetWrite
<1>3. /\ call[w].lines \in Seq(Line) /\ call[w].key \in Keys /\ call[w].val \in Values
      /\ fd \in Inodes /\ inode[fd] \in Seq(Line)
  BY <1>1 DEF FilesTyped, CallsTyped, Calls, At, SetSteps
<1>4. text \in Seq(Line)
  BY <1>3, RewritesOneKey
<1> HIDE DEF text
<1>5. content \in Seq(Line) /\ (inode[fd] = <<>> => content = text)
  BY <1>2, <1>3, <1>4, WrittenTexts
<1>6. FilesTyped'
  BY <1>1, <1>2, <1>3, <1>5 DEF FilesTyped
<1>7. /\ Moves(w, "replace") /\ call'[w].lines = call[w].lines
      /\ call'[w].key = call[w].key /\ call'[w].val = call[w].val
  BY <1>1 DEF Moves, CallsTyped, Calls, Steps, SetSteps
<1>8. CallsTyped'
  BY <1>1, <1>7 DEF CallsTyped, Moves, At, SetSteps
<1>9. FileInv'
  <2> SUFFICES ASSUME apart' PROVE FileInv'
    BY DEF FileInv
  <2>1. apart
    BY <1>1 DEF setFrame, histVars
  <2>2. InFlight(SetSteps)' = InFlight(SetSteps)
    BY <1>1, <1>7, FlightMoves DEF At, SetSteps
  <2>3. \A u \in Workers : u # w => call'[u].pc \notin SetSteps
    BY <1>1, <1>7, <2>1 DEF FileInv, InFlight, Moves, At, SetSteps
  <2>4. fd = tmp /\ inode[fd] = <<>> /\ call[w].lines = inode[cfg]
    BY <1>1, <2>1 DEF FileInv, At
  <2>5. inode'[tmp] = text /\ inode'[cfg] = inode[cfg] /\ tmp # None
    BY <1>2, <1>3, <1>5, <2>4, InodesAre DEF FilesTyped, None
  <2> QED
    BY <1>1, <1>7, <2>1, <2>2, <2>3, <2>4, <2>5 DEF FileInv, At, SetSteps, Moves, text
<1>10. ChildTyped' /\ CountsTyped' /\ ProcInv' /\ PlaysConfigured'
  BY <1>1, <1>7, SetFrame DEF At, Steps, SetSteps, ProcSteps
<1> QED
  BY <1>6, <1>8, <1>9, <1>10

LEMMA SetReplaceInv ==
  ASSUME IInv, NEW w \in Workers, SetReplace(w)
  PROVE  IInv'
<1> USE DEF IInv
<1>1. At(w, "replace") /\ UNCHANGED <<inode, setFrame>>
  BY DEF SetReplace
<1>2. CASE tmp # None
  <2>1. cfg' = tmp /\ tmp' = None /\ Goto(w, "snapshot") /\ UNCHANGED answer
    BY <1>2 DEF SetReplace
  <2>2. /\ Moves(w, "snapshot") /\ call'[w].lines = call[w].lines
        /\ call'[w].key = call[w].key /\ call'[w].val = call[w].val
    BY <2>1, GotoMoves DEF CallsTyped, Steps, SetSteps
  <2>3. FilesTyped'
    BY <1>1, <1>2, <2>1, InodesAre DEF FilesTyped, None
  <2>4. CallsTyped'
    BY <1>1, <2>1, <2>2 DEF CallsTyped, Moves, At, SetSteps
  <2>5. FileInv'
    <3> SUFFICES ASSUME apart' PROVE FileInv'
      BY DEF FileInv
    <3>1. apart
      BY <1>1 DEF setFrame, histVars
    <3>2. InFlight(SetSteps)' = InFlight(SetSteps)
      BY <1>1, <2>2, FlightMoves DEF At, SetSteps
    <3>3. \A u \in Workers : u # w => call'[u].pc \notin SetSteps
      BY <1>1, <2>2, <3>1 DEF FileInv, InFlight, Moves, At, SetSteps
    <3>4. /\ inode'[cfg'] = Rewritten(call[w].lines, call[w].key, call[w].val)
          /\ call[w].lines = inode[cfg]
      BY <1>1, <2>1, <3>1 DEF FileInv, At
    <3>5. \A k \in Required : LinesOf(inode'[cfg'], k) # {}
      <4>1. /\ call[w].lines \in Seq(Line) /\ call[w].key \in Keys /\ call[w].val \in Values
        BY <1>1 DEF CallsTyped, Calls, At, SetSteps
      <4>2. inode'[cfg'] \in Seq(Line) /\ OnlyKey(inode[cfg], inode'[cfg'], call[w].key)
        BY <3>4, <4>1, RewritesOneKey
      <4> QED
        BY <3>1, <3>4, <4>1, <4>2, KeysKept DEF FileInv
    <3>6. \A v, u \in InFlight(SetSteps)' : v = u
      BY <3>1, <3>2 DEF FileInv
    <3>7. inode'[cfg'] = Rewritten(call'[w].lines, call'[w].key, call'[w].val)
      BY <2>2, <3>4
    <3>8. call'[w].pc = "snapshot"
      BY <2>2 DEF Moves
    <3> HIDE DEF FilesTyped, CallsTyped
    <3> QED
      BY <3>3, <3>5, <3>6, <3>7, <3>8 DEF FileInv, At, SetSteps
  <2>6. ChildTyped' /\ CountsTyped' /\ ProcInv' /\ PlaysConfigured'
    BY <1>1, <2>2, SetFrame DEF At, Steps, SetSteps, ProcSteps
  <2> QED
    BY <2>3, <2>4, <2>5, <2>6
<1>3. CASE tmp = None
  <2>1. Answer(w, "error") /\ UNCHANGED <<cfg, tmp>>
    BY <1>3 DEF SetReplace
  <2>2. Moves(w, "idle") /\ answer' \in [Workers -> {"none", "ok", "error"}]
    BY <2>1, AnswerMoves DEF CallsTyped
  <2>3. FilesTyped'
    BY <1>1, <2>1 DEF FilesTyped
  <2>4. CallsTyped'
    BY <2>2 DEF CallsTyped, Moves, At, SetSteps
  <2>5. FileInv'
    BY <1>1, <1>3, FileInv DEF FileInv, At, setFrame, histVars
  <2>6. ChildTyped' /\ CountsTyped' /\ ProcInv' /\ PlaysConfigured'
    BY <1>1, <2>2, SetFrame DEF At, Steps, SetSteps, ProcSteps
  <2> QED
    BY <2>3, <2>4, <2>5, <2>6
<1> QED
  BY <1>2, <1>3

LEMMA SetSnapshotInv ==
  ASSUME IInv, NEW w \in Workers, SetSnapshot(w)
  PROVE  IInv'
<1> USE DEF IInv
<1>1. At(w, "snapshot") /\ UNCHANGED <<fileVars, setFrame>>
  BY DEF SetSnapshot
<1>2. UNCHANGED <<inode, cfg, tmp, apart>>
  BY <1>1 DEF fileVars, setFrame, histVars
<1>3. Moves(w, "idle") /\ answer' \in [Workers -> {"none", "ok", "error"}]
  BY AnswerMoves DEF SetSnapshot, CallsTyped
<1>4. FilesTyped'
  BY <1>2 DEF FilesTyped
<1>5. CallsTyped'
  BY <1>3 DEF CallsTyped, Moves, At, SetSteps
<1>6. FileInv'
  <2>1. InFlight(SetSteps)' \subseteq InFlight(SetSteps)
    BY <1>3 DEF SetSteps, InFlight, Moves
  <2> QED
    BY <1>2, <1>3, <2>1 DEF FileInv, Moves, At
<1>7. ChildTyped' /\ CountsTyped' /\ ProcInv' /\ PlaysConfigured'
  BY <1>1, <1>3, SetFrame DEF At, Steps, SetSteps, ProcSteps
<1> QED
  BY <1>4, <1>5, <1>6, <1>7

(* What a failed write leaves is a text, too, under the temporary name only. *)
LEMMA SetFailsInv ==
  ASSUME IInv, NEW w \in Workers, SetFails(w)
  PROVE  IInv'
<1> USE DEF IInv
<1>1. /\ call[w].pc \in SetSteps /\ Answer(w, "error")
      /\ UNCHANGED <<cfg, tmp, setFrame>>
  BY DEF SetFails
<1>2. Moves(w, "idle") /\ answer' \in [Workers -> {"none", "ok", "error"}]
  BY <1>1, AnswerMoves DEF CallsTyped
<1>3. \/ inode' = inode
      \/ /\ At(w, "write") /\ call[w].fd \in Inodes
         /\ \E content \in Seq(Line) : inode' = [inode EXCEPT ![call[w].fd] = content]
  <2>1. CASE At(w, "write")
    <3> DEFINE text == Rewritten(call[w].lines, call[w].key, call[w].val)
               fd == call[w].fd
    <3>1. PICK n \in 0 .. Len(text) :
            \E content \in WrittenOver(inode[fd], SubSeq(text, 1, n)) :
              inode' = [inode EXCEPT ![fd] = content]
      BY <2>1 DEF SetFails
    <3>2. /\ call[w].lines \in Seq(Line) /\ call[w].key \in Keys /\ call[w].val \in Values
          /\ fd \in Inodes /\ inode[fd] \in Seq(Line)
      BY <2>1 DEF FilesTyped, CallsTyped, Calls, At, SetSteps
    <3>3. text \in Seq(Line)
      BY <3>2, RewritesOneKey
    <3> HIDE DEF text
    <3>4. n \in Nat /\ n <= Len(text) /\ Len(text) \in Nat
      BY <3>3, LenProperties
    <3>5. \A i \in 1 .. n : text[i] \in Line
      BY <3>3, <3>4, ElementOfSeq
    <3>6. SubSeq(text, 1, n) \in Seq(Line)
      BY <3>3, <3>4, <3>5, SubSeqProperties
    <3> QED
      BY <2>1, <3>1, <3>2, <3>6, WrittenTexts
  <2>2. CASE ~At(w, "write")
    BY <2>2 DEF SetFails
  <2> QED
    BY <2>1, <2>2
<1>4. FilesTyped'
  BY <1>1, <1>3 DEF FilesTyped
<1>5. CallsTyped'
  BY <1>2 DEF CallsTyped, Moves, At, SetSteps
<1>6. FileInv'
  <2> SUFFICES ASSUME apart' PROVE FileInv'
    BY DEF FileInv
  <2>1. apart
    BY <1>1 DEF setFrame, histVars
  <2>2. \A u \in Workers : call'[u].pc \notin SetSteps
    <3>1. \A u \in Workers : u # w => call[u].pc \notin SetSteps
      BY <1>1, <2>1 DEF FileInv, InFlight
    <3> QED
      BY <1>2, <3>1 DEF Moves, SetSteps
  <2>3. inode'[cfg'] = inode[cfg]
    <3>1. At(w, "write") => call[w].fd # cfg
      BY <2>1 DEF FileInv, FilesTyped
    <3> QED
      BY <1>1, <1>3, <3>1 DEF FilesTyped
  <2> QED
    BY <2>1, <2>2, <2>3 DEF FileInv, InFlight, At, SetSteps
<1>7. ChildTyped' /\ CountsTyped' /\ ProcInv' /\ PlaysConfigured'
  BY <1>1, <1>2, SetFrame DEF Steps, SetSteps, ProcSteps
<1> QED
  BY <1>4, <1>5, <1>6, <1>7

-----------------------------------------------------------------------------
(* Process calls preserve the invariant.                                    *)

LEMMA FiniteCounts ==
  ASSUME NEW S
  PROVE  /\ IsFiniteSet(Spawned) /\ IsFiniteSet(InFlight(S))
         /\ Cardinality(Spawned) \in Nat /\ Cardinality(InFlight(S)) \in Nat
<1>1. Spawned \in SUBSET Children /\ InFlight(S) \in SUBSET Workers
  BY DEF Spawned, InFlight
<1>2. IsFiniteSet(Spawned) /\ IsFiniteSet(InFlight(S))
  BY <1>1, ChildrenAre, ControlAssumption, FS_Subset
<1> QED
  BY <1>2, FS_CardinalityType

(* Start finds a child, or Stop finds none. *)
LEMMA RefuseInv ==
  ASSUME IInv, NEW w \in Workers, calls < MaxCalls, Refuse(w), calls' = calls + 1,
         UNCHANGED <<fileVars, childVars, restarts, apart>>
  PROVE  IInv'
<1> USE DEF IInv
<1>1. UNCHANGED <<inode, cfg, tmp, call, proc, child, played, restarts, apart, calm>>
  BY DEF Refuse, fileVars, childVars
<1>2. FilesTyped' /\ ChildTyped' /\ FileInv' /\ ProcInv' /\ PlaysConfigured'
  BY <1>1 DEF FilesTyped, ChildTyped, FileInv, ProcInv, PlaysConfigured, InFlight, At, Alive,
              AliveChildren
<1>3. CallsTyped'
  BY <1>1 DEF CallsTyped, Refuse, At
<1>4. CountsTyped'
  <2>1. Spawned' = Spawned /\ InFlight({"spawn"})' = InFlight({"spawn"})
    BY <1>1 DEF Spawned, InFlight
  <2>2. calls' \in 0 .. MaxCalls
    BY ControlAssumption DEF CountsTyped
  <2>3. Cardinality(Spawned) + Cardinality(InFlight({"spawn"})) <= calls'
    BY FiniteCounts DEF CountsTyped
  <2> QED
    BY <1>1, <2>1, <2>2, <2>3 DEF CountsTyped
<1> QED
  BY <1>2, <1>3, <1>4

(* Start goes on if nothing runs, Stop if something does. *)
LEMMA ProcCallInv ==
  ASSUME IInv, NEW w \in Workers, NEW pc \in {"spawn", "signal"}, At(w, "idle"),
         calls < MaxCalls, ProcCall(w, pc), calls' = calls + 1, pc = "spawn" => ~Running,
         UNCHANGED <<fileVars, childVars, restarts, apart>>
  PROVE  IInv'
<1> USE DEF IInv
<1>1. /\ UNCHANGED <<answer, proc, child, played, restarts, apart>>
      /\ calm' = (calm /\ InFlight(ProcSteps) = {})
  BY DEF ProcCall, childVars
<1>2. Moves(w, pc)
  BY GotoMoves DEF ProcCall, CallsTyped, Steps, ProcSteps
<1>3. FilesTyped' /\ CallsTyped' /\ FileInv'
  BY <1>1, <1>2, ProcFrame DEF CallsTyped, At, Steps, SetSteps, ProcSteps
<1>4. ChildTyped' /\ PlaysConfigured'
  BY <1>1 DEF ChildTyped, PlaysConfigured
<1>5. CountsTyped'
  <2>1. Spawned' = Spawned
    BY <1>1 DEF Spawned
  <2> DEFINE before == InFlight({"spawn"})
             after  == InFlight({"spawn"})'
  <2>2. after \in SUBSET (before \cup {w})
    BY <1>2, FlightMoves DEF InFlight
  <2>3. IsFiniteSet(before) /\ Cardinality(before) \in Nat
    BY FiniteCounts
  <2> HIDE DEF before, after
  <2>4. Cardinality(after) \in Nat /\ Cardinality(after) <= Cardinality(before) + 1
    <3>1. /\ IsFiniteSet(before \cup {w})
          /\ Cardinality(before \cup {w})
               = IF w \in before THEN Cardinality(before) ELSE Cardinality(before) + 1
      BY <2>3, FS_AddElement
    <3>2. IsFiniteSet(after) /\ Cardinality(after) <= Cardinality(before \cup {w})
      BY <2>2, <3>1, FS_Subset
    <3>3. Cardinality(after) \in Nat
      BY <3>2, FS_CardinalityType
    <3> QED
      BY <2>3, <3>1, <3>2, <3>3
  <2>5. calls' \in 0 .. MaxCalls
    BY ControlAssumption DEF CountsTyped
  <2>6. (Cardinality(Spawned) + Cardinality(InFlight({"spawn"})) <= calls)'
    BY <2>1, <2>3, <2>4, FiniteCounts DEF CountsTyped, before, after
  <2> QED
    BY <1>1, <2>5, <2>6 DEF CountsTyped
<1>6. ProcInv'
  <2> SUFFICES ASSUME calm' PROVE ProcInv'
    BY DEF ProcInv
  <2>1. calm /\ InFlight(ProcSteps) = {}
    BY <1>1
  <2>2. \A u \in Workers : u # w => call'[u].pc \notin ProcSteps
    BY <1>2, <2>1 DEF InFlight, Moves
  <2>3. pc = "spawn" => AliveChildren = {}
    BY <2>1 DEF ProcInv, Running, AliveChildren
  <2> QED
    BY <1>1, <1>2, <2>1, <2>2, <2>3 DEF ProcInv, InFlight, At, Alive, AliveChildren, ProcSteps, Moves
<1> QED
  BY <1>3, <1>4, <1>5, <1>6

LEMMA StartBeginInv == ASSUME IInv, NEW w \in Workers, StartBegin(w) PROVE IInv'
  BY RefuseInv, ProcCallInv DEF StartBegin

LEMMA StopBeginInv == ASSUME IInv, NEW w \in Workers, StopBegin(w) PROVE IInv'
  BY RefuseInv, ProcCallInv DEF StopBegin

LEMMA StartSpawnInv ==
  ASSUME IInv, NEW w \in Workers, StartSpawn(w)
  PROVE  IInv'
<1> USE DEF IInv
<1> DEFINE fresh == {d \in Children : child[d] = "none"}
           c == Min(fresh)
<1>1. /\ At(w, "spawn") /\ Goto(w, "started") /\ child' = [child EXCEPT ![c] = "boot"] /\ proc' = c
      /\ UNCHANGED <<fileVars, answer, played, calls, restarts, apart, calm>>
  BY DEF StartSpawn, histVars
<1>2. Moves(w, "started")
  BY <1>1, GotoMoves DEF CallsTyped, Steps, ProcSteps
<1>3. FilesTyped' /\ CallsTyped' /\ FileInv'
  BY <1>1, <1>2, ProcFrame DEF CallsTyped, At, Steps, SetSteps, ProcSteps
<1>4. /\ InFlight({"spawn"})' = InFlight({"spawn"}) \ {w} /\ w \in InFlight({"spawn"})
      /\ Cardinality(InFlight({"spawn"})') = Cardinality(InFlight({"spawn"})) - 1
  <2>1. InFlight({"spawn"})' = InFlight({"spawn"}) \ {w} /\ w \in InFlight({"spawn"})
    BY <1>1, <1>2 DEF InFlight, At, Moves
  <2> QED
    BY <2>1, FiniteCounts, FS_RemoveElement
<1>5. c \in Children /\ child[c] = "none"
  <2>1. Cardinality(InFlight({"spawn"})) >= 1
    <3>1. Cardinality(InFlight({"spawn"})) # 0
      BY <1>4, FiniteCounts, FS_EmptySet
    <3> QED
      BY <3>1, FiniteCounts
  <2>2. Cardinality(Spawned) < Cardinality(Children)
    BY <2>1, FiniteCounts, ChildrenAre, ControlAssumption DEF CountsTyped
  <2>3. Spawned # Children
    BY <2>2, FiniteCounts
  <2>4. fresh \in SUBSET Nat /\ fresh # {}
    BY <2>3, ChildrenAre DEF Spawned
  <2>5. c \in fresh
    BY <2>4, MinProperties
  <2> QED
    BY <2>5
<1> HIDE DEF c
<1>6. ChildTyped'
  BY <1>1, <1>5 DEF ChildTyped
<1>7. CountsTyped'
  <2>1. Spawned' = Spawned \cup {c} /\ c \notin Spawned
    BY <1>1, <1>5 DEF ChildTyped, Spawned
  <2>2. Cardinality(Spawned') = Cardinality(Spawned) + 1
    BY <2>1, FiniteCounts, FS_AddElement
  <2> QED
    BY <1>1, <1>4, <2>2, FiniteCounts DEF CountsTyped
<1>8. ProcInv'
  <2> SUFFICES ASSUME calm' PROVE ProcInv'
    BY DEF ProcInv
  <2>1. calm
    BY <1>1
  <2>2. \A u \in Workers : u # w => call'[u].pc \notin ProcSteps
    BY <1>1, <1>2, <2>1 DEF ProcInv, InFlight, Moves, At, ProcSteps
  <2>3. AliveChildren = {}
    BY <1>1, <2>1 DEF ProcInv, At
  <2>4. \A d \in Children : Alive(d)' => d = proc'
    BY <1>1, <2>3 DEF ChildTyped, Alive, AliveChildren
  <2> QED
    BY <1>2, <2>2, <2>4 DEF ProcInv, InFlight, At, ProcSteps, Moves
<1>9. PlaysConfigured'
  BY <1>1, <1>5 DEF PlaysConfigured, ChildTyped
<1> QED
  BY <1>3, <1>6, <1>7, <1>8, <1>9

(* The other steps of Start and Stop spawn nothing: children only go on to  *)
(* end, self.proc is kept or cleared, and who is about to clear it has seen *)
(* its process end.                                                         *)
LEMMA ProcStepInv ==
  ASSUME IInv, NEW w \in Workers, NEW pc \in (ProcSteps \cup {"idle"}) \ {"spawn"},
         call[w].pc \in ProcSteps \ {"spawn"}, Moves(w, pc),
         answer' \in [Workers -> {"none", "ok", "error"}],
         UNCHANGED <<fileVars, played, calls, histVars>>,
         child' \in [Children -> {"none", "boot", "init", "play", "ending", "dead"}],
         \A c \in Children : /\ child'[c] = "none" <=> child[c] = "none"
                             /\ child[c] = "dead" => child'[c] = "dead"
                             /\ child'[c] \in {"init", "play"} => child[c] \in {"init", "play"},
         proc' = proc \/ (proc' = None /\ At(w, "clear")),
         pc = "waiting" => call'[w].fd = proc',
         pc = "clear" /\ calm => AliveChildren' = {}
  PROVE  IInv'
<1> USE DEF IInv
<1>1. UNCHANGED <<restarts, apart, calm>>
  BY DEF histVars
<1>2. FilesTyped' /\ CallsTyped' /\ FileInv'
  BY <1>1, ProcFrame DEF Steps, SetSteps, ProcSteps
<1>3. ChildTyped'
  BY DEF ChildTyped
<1>4. CountsTyped'
  <2>1. InFlight({"spawn"})' = InFlight({"spawn"})
    BY FlightMoves
  <2>2. Spawned' = Spawned
    BY DEF Spawned
  <2> QED
    BY <1>1, <2>1, <2>2 DEF CountsTyped
<1>5. PlaysConfigured'
  BY <1>1 DEF PlaysConfigured
<1>6. ProcInv'
  <2> SUFFICES ASSUME calm' PROVE ProcInv'
    BY DEF ProcInv
  <2>1. calm
    BY <1>1
  <2>2. \A u \in Workers : u # w => call'[u].pc \notin ProcSteps
    BY <2>1 DEF ProcInv, InFlight, Moves
  <2>3. \A c \in Children : Alive(c)' => Alive(c)
    BY DEF Alive
  <2>4. \A c \in Children : Alive(c)' => c = proc'
    BY <2>1, <2>3 DEF ProcInv, AliveChildren, At
  <2>5. pc = "clear" => AliveChildren' = {}
    BY <2>1
  <2> QED
    BY <2>2, <2>4, <2>5 DEF ProcInv, InFlight, At, ProcSteps, Moves
<1> QED
  BY <1>2, <1>3, <1>4, <1>5, <1>6

LEMMA ChildKept ==
  ASSUME ChildTyped, UNCHANGED child
  PROVE  /\ child' \in [Children -> {"none", "boot", "init", "play", "ending", "dead"}]
         /\ \A c \in Children : /\ child'[c] = "none" <=> child[c] = "none"
                                /\ child[c] = "dead" => child'[c] = "dead"
                                /\ child'[c] \in {"init", "play"} => child[c] \in {"init", "play"}
  BY DEF ChildTyped

LEMMA StartReplyInv == ASSUME IInv, NEW w \in Workers, StartReply(w) PROVE IInv'
<1> USE DEF IInv
<1>1. At(w, "started") /\ UNCHANGED <<fileVars, played, calls, histVars, child, proc>>
  BY DEF StartReply, setFrame, childVars
<1>2. Moves(w, "idle") /\ answer' \in [Workers -> {"none", "ok", "error"}]
  BY AnswerMoves DEF StartReply, CallsTyped
<1> QED
  BY <1>1, <1>2, ChildKept, ProcStepInv DEF At, ProcSteps

LEMMA StopSignalInv == ASSUME IInv, NEW w \in Workers, StopSignal(w) PROVE IInv'
<1> USE DEF IInv
<1>1. At(w, "signal") /\ UNCHANGED <<fileVars, proc, played, calls, histVars>>
  BY DEF StopSignal
<1>2. CASE proc = None
  <2>1. Answer(w, "error") /\ UNCHANGED child
    BY <1>2 DEF StopSignal
  <2>2. Moves(w, "idle") /\ answer' \in [Workers -> {"none", "ok", "error"}]
    BY <2>1, AnswerMoves DEF CallsTyped
  <2> QED
    BY <1>1, <2>1, <2>2, ChildKept, ProcStepInv DEF At, ProcSteps
<1>3. CASE proc # None
  <2>1. PICK state \in AfterSigint(child[proc]) : child' = [child EXCEPT ![proc] = state]
    BY <1>3 DEF StopSignal
  <2>2. Goto(w, "wait") /\ UNCHANGED answer
    BY <1>3 DEF StopSignal
  <2>3. Moves(w, "wait") /\ answer' \in [Workers -> {"none", "ok", "error"}]
    BY <2>2, GotoMoves DEF CallsTyped, Steps, ProcSteps
  <2>4. /\ proc \in Children /\ child[proc] # "none"
        /\ child[proc] \in {"boot", "init", "play", "ending", "dead"}
    BY <1>3 DEF ChildTyped
  <2>5. /\ state \in {"boot", "init", "play", "ending", "dead"}
        /\ child[proc] = "dead" => state = "dead"
        /\ state \in {"init", "play"} => child[proc] = state
    BY <2>1, <2>4 DEF AfterSigint
  <2>6. /\ child' \in [Children -> {"none", "boot", "init", "play", "ending", "dead"}]
        /\ \A c \in Children : /\ child'[c] = "none" <=> child[c] = "none"
                               /\ child[c] = "dead" => child'[c] = "dead"
                               /\ child'[c] \in {"init", "play"} => child[c] \in {"init", "play"}
    BY <2>1, <2>4, <2>5 DEF ChildTyped
  <2> QED
    BY <1>1, <2>3, <2>6, ProcStepInv DEF At, ProcSteps
<1> QED
  BY <1>2, <1>3

LEMMA StopWaitInv == ASSUME IInv, NEW w \in Workers, StopWait(w) PROVE IInv'
<1> USE DEF IInv
<1>1. At(w, "wait") /\ UNCHANGED <<fileVars, proc, child, played, calls, histVars>>
  BY DEF StopWait, setFrame, childVars
<1>2. CASE proc = None
  <2>1. Moves(w, "idle") /\ answer' \in [Workers -> {"none", "ok", "error"}]
    BY <1>2, AnswerMoves DEF StopWait, CallsTyped
  <2> QED
    BY <1>1, <2>1, ChildKept, ProcStepInv DEF At, ProcSteps
<1>3. CASE proc # None
  <2>1. call' = [call EXCEPT ![w].pc = "waiting", ![w].fd = proc] /\ UNCHANGED answer
    BY <1>3 DEF StopWait
  <2>2. Moves(w, "waiting") /\ call'[w].fd = proc
    BY <2>1, FdMoves DEF CallsTyped, ChildTyped, Steps, ProcSteps
  <2>3. answer' \in [Workers -> {"none", "ok", "error"}]
    BY <2>1 DEF CallsTyped
  <2> QED
    BY <1>1, <2>2, <2>3, ChildKept, ProcStepInv DEF At, ProcSteps
<1> QED
  BY <1>2, <1>3

LEMMA StopExitedInv == ASSUME IInv, NEW w \in Workers, StopExited(w) PROVE IInv'
<1> USE DEF IInv
<1>1. /\ At(w, "waiting") /\ ~Alive(call[w].fd)
      /\ call' = [call EXCEPT ![w].pc = "clear", ![w].fd = None]
      /\ UNCHANGED <<fileVars, answer, proc, child, played, calls, histVars>>
  BY DEF StopExited, setFrame, childVars
<1>2. Moves(w, "clear")
  BY <1>1, FdMoves DEF CallsTyped, Steps, ProcSteps
<1>3. answer' \in [Workers -> {"none", "ok", "error"}]
  BY <1>1 DEF CallsTyped
<1>4. calm => AliveChildren' = {}
  <2>1. calm => AliveChildren = {}
    BY <1>1 DEF ProcInv, AliveChildren
  <2> QED
    BY <1>1, <2>1 DEF AliveChildren, Alive
<1> QED
  BY <1>1, <1>2, <1>3, <1>4, ChildKept, ProcStepInv DEF At, ProcSteps

LEMMA StopTimeoutInv == ASSUME IInv, NEW w \in Workers, StopTimeout(w) PROVE IInv'
<1> USE DEF IInv
<1>1. At(w, "waiting") /\ UNCHANGED <<fileVars, proc, played, calls, histVars>>
  BY DEF StopTimeout
<1>2. CASE proc = None /\ Answer(w, "error") /\ UNCHANGED child
  <2>1. Moves(w, "idle") /\ answer' \in [Workers -> {"none", "ok", "error"}]
    BY <1>2, AnswerMoves DEF CallsTyped
  <2> QED
    BY <1>1, <1>2, <2>1, ChildKept, ProcStepInv DEF At, ProcSteps
<1>3. CASE /\ proc # None /\ child' = [child EXCEPT ![proc] = "dead"]
           /\ call' = [call EXCEPT ![w].pc = "clear", ![w].fd = None]
           /\ UNCHANGED answer
  <2>1. Moves(w, "clear")
    BY <1>3, FdMoves DEF CallsTyped, Steps, ProcSteps
  <2>2. answer' \in [Workers -> {"none", "ok", "error"}]
    BY <1>3 DEF CallsTyped
  <2>3. proc \in Children /\ child[proc] # "none"
    BY <1>3 DEF ChildTyped
  <2>4. /\ child' \in [Children -> {"none", "boot", "init", "play", "ending", "dead"}]
        /\ \A c \in Children : /\ child'[c] = "none" <=> child[c] = "none"
                               /\ child[c] = "dead" => child'[c] = "dead"
                               /\ child'[c] \in {"init", "play"} => child[c] \in {"init", "play"}
    BY <1>3, <2>3 DEF ChildTyped
  <2>5. calm => AliveChildren' = {}
    BY <1>3, <2>3 DEF ProcInv, ChildTyped, AliveChildren, Alive
  <2> QED
    BY <1>1, <2>1, <2>2, <2>4, <2>5, ProcStepInv DEF At, ProcSteps
<1>4. CASE Alive(proc) /\ child' = [child EXCEPT ![proc] = "ending"] /\ Answer(w, "error")
  <2>1. Moves(w, "idle") /\ answer' \in [Workers -> {"none", "ok", "error"}]
    BY <1>4, AnswerMoves DEF CallsTyped
  <2>2. proc \in Children /\ child[proc] \notin {"none", "dead"}
    BY <1>4 DEF Alive, ChildTyped
  <2>3. /\ child' \in [Children -> {"none", "boot", "init", "play", "ending", "dead"}]
        /\ \A c \in Children : /\ child'[c] = "none" <=> child[c] = "none"
                               /\ child[c] = "dead" => child'[c] = "dead"
                               /\ child'[c] \in {"init", "play"} => child[c] \in {"init", "play"}
    BY <1>4, <2>2 DEF ChildTyped
  <2> QED
    BY <1>1, <2>1, <2>3, ProcStepInv DEF At, ProcSteps
<1> QED
  BY <1>2, <1>3, <1>4 DEF StopTimeout

LEMMA StopClearInv == ASSUME IInv, NEW w \in Workers, StopClear(w) PROVE IInv'
<1> USE DEF IInv
<1>1. /\ At(w, "clear") /\ proc' = None
      /\ UNCHANGED <<fileVars, child, played, calls, histVars>>
  BY DEF StopClear
<1>2. Moves(w, "idle") /\ answer' \in [Workers -> {"none", "ok", "error"}]
  BY AnswerMoves DEF StopClear, CallsTyped
<1> QED
  BY <1>1, <1>2, ChildKept, ProcStepInv DEF At, ProcSteps

-----------------------------------------------------------------------------
(* Children and the restart of the server.                                  *)

LEMMA ChildStepInv ==
  ASSUME IInv, UNCHANGED childFrame,
         NEW c \in Children, child[c] \in {"boot", "init", "play", "ending"},
         NEW state \in {"init", "play", "dead"}, child' = [child EXCEPT ![c] = state],
         played' \in [Children -> [Keys -> Values \cup {Default}]],
         PlaysConfigured'
  PROVE  IInv'
<1> USE DEF IInv
<1>1. UNCHANGED <<inode, cfg, tmp, call, answer, proc, calls, restarts, apart, calm>>
  BY DEF childFrame, fileVars, histVars
<1>2. FilesTyped' /\ CallsTyped' /\ FileInv'
  BY <1>1 DEF FilesTyped, CallsTyped, FileInv, InFlight, At
<1>3. ChildTyped'
  BY <1>1 DEF ChildTyped
<1>4. CountsTyped'
  <2>1. Spawned' = Spawned /\ InFlight({"spawn"})' = InFlight({"spawn"})
    BY <1>1 DEF Spawned, InFlight, ChildTyped
  <2> QED
    BY <1>1, <2>1 DEF CountsTyped
<1>5. ProcInv'
  <2>1. \A d \in Children : Alive(d)' => Alive(d)
    BY <1>1 DEF Alive, ChildTyped
  <2>2. AliveChildren' \subseteq AliveChildren
    BY <2>1 DEF AliveChildren
  <2>3. InFlight(ProcSteps)' = InFlight(ProcSteps)
    BY <1>1 DEF InFlight
  <2> QED
    BY <1>1, <2>1, <2>2, <2>3 DEF ProcInv, At
<1> QED
  BY <1>2, <1>3, <1>4, <1>5

LEMMA ChildLoadInv == ASSUME IInv, NEW c \in Children, ChildLoad(c) PROVE IInv'
<1> USE DEF IInv
<1> DEFINE loaded == [k \in Keys |-> FirstOf(inode[cfg], k)]
<1>1. child[c] = "boot" /\ UNCHANGED childFrame
  BY DEF ChildLoad
<1>2. CASE child' = [child EXCEPT ![c] = "dead"] /\ UNCHANGED played
  <2>1. PlaysConfigured'
    BY <1>1, <1>2 DEF childFrame, histVars, PlaysConfigured, ChildTyped
  <2> QED
    BY <1>1, <1>2, <2>1, ChildStepInv DEF ChildTyped
<1>3. CASE /\ ~(\E k \in Keys : loaded[k] = Malformed)
           /\ child' = [child EXCEPT ![c] = "init"]
           /\ played' = [played EXCEPT ![c] = loaded]
  <2>1. \A k \in Keys : /\ loaded[k] = FirstOf(inode[cfg], k) /\ loaded[k] # Malformed
                        /\ loaded[k] \in Values \cup {Malformed, Default}
                        /\ LinesOf(inode[cfg], k) # {} => loaded[k] # Default
    BY <1>3, LoadedValue DEF FilesTyped
  <2>2. loaded \in [Keys -> Values \cup {Default}]
    BY <2>1
  <2> HIDE DEF loaded
  <2>3. played' \in [Children -> [Keys -> Values \cup {Default}]]
    BY <1>3, <2>2 DEF ChildTyped
  <2>4. PlaysConfigured'
    <3> SUFFICES ASSUME apart', NEW d \in Children, child'[d] \in {"init", "play"},
                        NEW k \in Required
                 PROVE  played'[d][k] # Default
      BY DEF PlaysConfigured
    <3>1. apart /\ k \in Keys
      BY <1>1 DEF childFrame, histVars, Required
    <3>2. CASE d = c
      <4>1. played'[d] = loaded
        BY <1>3, <3>2 DEF ChildTyped
      <4> QED
        BY <2>1, <3>1, <4>1 DEF FileInv
    <3>3. CASE d # c
      BY <1>3, <3>1, <3>3 DEF PlaysConfigured, ChildTyped
    <3> QED
      BY <3>2, <3>3
  <2> QED
    BY <1>1, <1>3, <2>3, <2>4, ChildStepInv
<1> QED
  BY <1>2, <1>3 DEF ChildLoad

LEMMA ChildPlayInv == ASSUME IInv, NEW c \in Children, ChildPlay(c) PROVE IInv'
<1> USE DEF IInv
<1>1. /\ child[c] = "init" /\ child' = [child EXCEPT ![c] = "play"]
      /\ UNCHANGED <<childFrame, played>>
  BY DEF ChildPlay
<1>2. PlaysConfigured'
  BY <1>1 DEF childFrame, histVars, PlaysConfigured, ChildTyped
<1> QED
  BY <1>1, <1>2, ChildStepInv DEF ChildTyped

LEMMA ChildExitInv == ASSUME IInv, NEW c \in Children, ChildExit(c) PROVE IInv'
<1> USE DEF IInv
<1>1. /\ child[c] \in {"init", "play", "ending"} /\ child' = [child EXCEPT ![c] = "dead"]
      /\ UNCHANGED <<childFrame, played>>
  BY DEF ChildExit
<1>2. PlaysConfigured'
  BY <1>1 DEF childFrame, histVars, PlaysConfigured, ChildTyped
<1> QED
  BY <1>1, <1>2, ChildStepInv DEF ChildTyped

LEMMA RestartInv == ASSUME IInv, Restart PROVE IInv'
<1> USE DEF IInv
<1>1. /\ restarts < MaxRestarts /\ restarts' = restarts + 1
      /\ call' = [w \in Workers |-> Idle] /\ answer' = [w \in Workers |-> "none"]
      /\ proc' = None /\ calm' = (calm /\ AliveChildren = {})
      /\ UNCHANGED <<inode, cfg, tmp, child, played, calls, apart>>
  BY DEF Restart, fileVars
<1>2. \A w \in Workers : call'[w].pc = "idle"
  BY <1>1, IdleType
<1>3. FilesTyped' /\ ChildTyped' /\ PlaysConfigured'
  BY <1>1 DEF FilesTyped, ChildTyped, PlaysConfigured
<1>4. CallsTyped'
  <2>1. call' \in [Workers -> Calls] /\ answer' \in [Workers -> {"none", "ok", "error"}]
    BY <1>1, IdleType
  <2> QED
    BY <1>2, <2>1 DEF CallsTyped, At, SetSteps
<1>5. CountsTyped'
  <2>1. Spawned' = Spawned
    BY <1>1 DEF Spawned
  <2>2. InFlight({"spawn"})' = {} /\ Cardinality({}) = 0
    BY <1>2, FS_EmptySet DEF InFlight
  <2> DEFINE before == Cardinality(InFlight({"spawn"}))
  <2>3. Cardinality(Spawned) <= calls
    <3>1. Cardinality(Spawned) \in Nat /\ before \in Nat /\ calls \in Nat
      BY FiniteCounts, ControlAssumption DEF CountsTyped
    <3>2. Cardinality(Spawned) + before <= calls
      BY DEF CountsTyped
    <3> HIDE DEF before
    <3> QED
      BY <3>1, <3>2
  <2>4. Cardinality(Spawned)' + Cardinality(InFlight({"spawn"}))' <= calls'
    <3>1. Cardinality(Spawned) \in Nat
      BY FiniteCounts
    <3>2. Cardinality(Spawned)' = Cardinality(Spawned) /\ Cardinality(InFlight({"spawn"}))' = 0
      BY <2>1, <2>2
    <3> QED
      BY <1>1, <2>3, <3>1, <3>2
  <2>5. restarts' \in 0 .. MaxRestarts
    BY <1>1, ControlAssumption DEF CountsTyped
  <2>6. calls' \in 0 .. MaxCalls /\ apart' \in BOOLEAN /\ calm' \in BOOLEAN
    BY <1>1 DEF CountsTyped
  <2> QED
    BY <2>4, <2>5, <2>6 DEF CountsTyped
<1>6. FileInv'
  BY <1>1, <1>2 DEF FileInv, InFlight, At, SetSteps
<1>7. ProcInv'
  BY <1>1, <1>2 DEF ProcInv, InFlight, At, ProcSteps, Alive, AliveChildren
<1> QED
  BY <1>3, <1>4, <1>5, <1>6, <1>7

-----------------------------------------------------------------------------
(* The invariant is inductive. *)
LEMMA NextInv == IInv /\ [Next]_vars => IInv'
<1> SUFFICES ASSUME IInv, [Next]_vars PROVE IInv'
  OBVIOUS
<1>1. CASE UNCHANGED vars
  <2>1. UNCHANGED <<inode, cfg, tmp, call, answer, proc, child, played, calls, restarts, apart, calm>>
    BY <1>1 DEF vars, fileVars, childVars, histVars
  <2>2. FilesTyped' /\ CallsTyped' /\ ChildTyped'
    BY <2>1 DEF IInv, FilesTyped, CallsTyped, ChildTyped, At
  <2>3. CountsTyped'
    BY <2>1 DEF IInv, CountsTyped, Spawned, InFlight
  <2>4. FileInv' /\ ProcInv' /\ PlaysConfigured'
    BY <2>1 DEF IInv, FileInv, ProcInv, PlaysConfigured, InFlight, At, Alive, AliveChildren
  <2> QED
    BY <2>2, <2>3, <2>4 DEF IInv
<1>2. ASSUME NEW w \in Workers, SetBegin(w) \/ StartBegin(w) \/ StopBegin(w)
      PROVE  IInv'
  BY <1>2, SetBeginInv, StartBeginInv, StopBeginInv
<1>3. ASSUME NEW w \in Workers, SetStep(w)
      PROVE  IInv'
  BY <1>3, SetReadInv, SetOpenInv, SetWriteInv, SetReplaceInv, SetSnapshotInv,
     SetFailsInv DEF SetStep
<1>4. ASSUME NEW w \in Workers, ProcStep(w)
      PROVE  IInv'
  BY <1>4, StartSpawnInv, StartReplyInv, StopSignalInv, StopWaitInv, StopExitedInv,
     StopTimeoutInv, StopClearInv DEF ProcStep
<1>5. ASSUME NEW c \in Children, ChildLoad(c) \/ ChildPlay(c) \/ ChildExit(c)
      PROVE  IInv'
  BY <1>5, ChildLoadInv, ChildPlayInv, ChildExitInv
<1> QED
  BY <1>1, <1>2, <1>3, <1>4, <1>5, RestartInv DEF Next

(* The invariant holds of every behaviour of the server: any number of      *)
(* workers, calls and restarts, any text.                                   *)
THEOREM Inductive == Spec => []IInv
BY InitInv, NextInv, PTL DEF Spec

(* The types are kept; in particular Start finds a child that was never     *)
(* started, and open() an inode of its own (TypeOK).                        *)
THEOREM TypeCorrect == Spec => []TypeOK
<1>1. IInv => TypeOK
  BY DEF IInv, FilesTyped, CallsTyped, ChildTyped, CountsTyped, TypeOK, Calls, Steps
<1> QED
  BY <1>1, Inductive, PTL

(* While no two Set calls have overlapped, no child falls back on a default *)
(* for a key every initial file configures, whenever it loads the file and  *)
(* wherever a Set call or the server stopped (PlaysConfigured).             *)
THEOREM Configured == Spec => []PlaysConfigured
<1>1. IInv => PlaysConfigured
  BY DEF IInv
<1> QED
  BY <1>1, Inductive, PTL

(* While no two process calls have overlapped and no restart has left a     *)
(* child behind, at most one playback process lives and self.proc is it     *)
(* (OneChild).                                                              *)
THEOREM SingleChild == Spec => []OneChild
<1>1. IInv => OneChild
  BY DEF IInv, ProcInv, OneChild
<1> QED
  BY <1>1, Inductive, PTL

(* While no two process calls have overlapped and no restart has left a     *)
(* child behind: when Stop answers "playback stopped", no process plays, not *)
(* even one that lost the signal (StopEndsChild).                           *)
THEOREM StopStops == Spec => StopEndsChild
<1>1. IInv => \A w \in Workers : At(w, "clear") /\ answer'[w] = "ok" /\ calm => AliveChildren = {}
  BY DEF IInv, ProcInv, At
<1>2. IInv => [\A w \in Workers : (At(w, "clear") /\ answer'[w] = "ok" /\ calm) => AliveChildren = {}]_vars
  BY <1>1
<1> QED
  BY <1>2, Inductive, PTL DEF Spec, StopEndsChild

-----------------------------------------------------------------------------
(* What a Set call that no other overlapped has done to config.ini.         *)

LEMMA AtMostOne ==
  ASSUME NEW S, IsFiniteSet(S), Cardinality(S) <= 1
  PROVE  \E m : S \subseteq {m}
<1>1. Cardinality(S) \in Nat
  BY FS_CardinalityType
<1>2. CASE Cardinality(S) = 0
  BY <1>2, FS_EmptySet
<1>3. CASE Cardinality(S) = 1
  BY <1>3, FS_Singleton
<1> QED
  BY <1>1, <1>2, <1>3

LEMMA AppliedText ==
  ASSUME NEW before \in Seq(Line), NEW k \in Keys, NEW v \in Values
  PROVE  LET after == Rewritten(before, k, v)
         IN  /\ \A i \in DOMAIN before : before[i].key # k => after[i] = before[i]
             /\ FirstOf(after, k) = v
             /\ Cardinality(LinesOf(before, k)) <= 1 => LastOf(after, k) = v
<1> DEFINE after == Rewritten(before, k, v)
<1>1. /\ after \in Seq(Line) /\ OnlyKey(before, after, k)
      /\ LinesOf(after, k) # {} /\ after[Min(LinesOf(after, k))].val = v
  BY RewritesOneKey
<1>2. ASSUME NEW m, LinesOf(before, k) \subseteq {m}
      PROVE  \E n : LinesOf(after, k) = {n}
  BY <1>2, RewritesOneKey
<1> HIDE DEF after
<1>3. \A i \in DOMAIN before : before[i].key # k => after[i] = before[i]
  BY <1>1 DEF OnlyKey
<1>4. FirstOf(after, k) = v
  BY <1>1 DEF FirstOf
<1>5. ASSUME Cardinality(LinesOf(before, k)) <= 1
      PROVE  LastOf(after, k) = v
  <2>1. LinesOf(before, k) \in SUBSET (1 .. Len(before)) /\ Len(before) \in Nat
    BY DEF LinesOf
  <2>2. IsFiniteSet(LinesOf(before, k))
    <3>1. IsFiniteSet(1 .. Len(before))
      BY <2>1, FS_Interval
    <3> QED
      BY <2>1, <3>1, FS_Subset
  <2>3. PICK n : LinesOf(after, k) = {n}
    BY <1>5, <1>2, <2>2, AtMostOne
  <2>4. n \in Nat
    BY <1>1, <2>3 DEF LinesOf
  <2>5. Min(LinesOf(after, k)) = n
    BY <2>3, <2>4, MinProperties
  <2>6. Max(LinesOf(after, k)) = n
    BY <2>3, <2>4, MaxOfOne
  <2> QED
    BY <1>1, <2>5, <2>6 DEF LastOf
<1> QED
  BY <1>3, <1>4, <1>5 DEF after

(* A Set call that is answered without an error and that no other Set       *)
(* overlapped has changed no line of another key, and the executable reads  *)
(* its value; so does the snapshot if the file had the key once             *)
(* (SetApplied).                                                            *)
THEOREM SetTakesEffect == Spec => SetApplied
<1> DEFINE Applied(w) ==
             LET before == call[w].lines
                 k == call[w].key
             IN  /\ \A i \in DOMAIN before : before[i].key # k => inode[cfg][i] = before[i]
                 /\ FirstOf(inode[cfg], k) = call[w].val
                 /\ Cardinality(LinesOf(before, k)) <= 1 => LastOf(inode[cfg], k) = call[w].val
<1>1. ASSUME IInv, NEW w \in Workers, At(w, "snapshot"), apart
      PROVE  Applied(w)
  <2>1. /\ call[w].lines \in Seq(Line) /\ call[w].key \in Keys /\ call[w].val \in Values
    BY <1>1 DEF IInv, CallsTyped, Calls, At, SetSteps
  <2>2. inode[cfg] = Rewritten(call[w].lines, call[w].key, call[w].val)
    BY <1>1 DEF IInv, FileInv
  <2> QED
    BY <2>1, <2>2, AppliedText
<1>2. IInv => [\A w \in Workers : (At(w, "snapshot") /\ answer'[w] = "ok" /\ apart) => Applied(w)]_vars
  BY <1>1
<1> QED
  BY <1>2, Inductive, PTL DEF Spec, SetApplied

-----------------------------------------------------------------------------
(* The server implements the configuration store as long as no two Set      *)
(* calls have overlapped: a rename is a Set of the store, every other step  *)
(* leaves config.ini alone.  After an overlap, any step is the store's      *)
(* Damage.                                                                  *)

LEMMA OverlapMaps ==
  ASSUME IInv', ~apart'
  PROVE  [Store!Next]_<<inode[cfg], ~apart>>
<1>1. inode'[cfg'] \in Seq(Line) /\ (~apart') = TRUE
  BY DEF IInv, FilesTyped
<1> QED
  BY <1>1 DEF Store!Next, Store!Damage, Line, Store!Line

LEMMA ReplaceMaps ==
  ASSUME IInv, NEW w \in Workers, SetReplace(w), apart
  PROVE  [Store!Next]_<<inode[cfg], ~apart>>
<1> DEFINE k == call[w].key
           v == call[w].val
<1>1. At(w, "replace") /\ inode' = inode /\ apart' = apart
  BY DEF SetReplace, setFrame, histVars
<1>2. /\ tmp # None /\ cfg' = tmp
      /\ inode[tmp] = Rewritten(inode[cfg], k, v)
      /\ inode[cfg] \in Seq(Line) /\ k \in Keys /\ v \in Values
  BY <1>1 DEF SetReplace, IInv, FilesTyped, CallsTyped, FileInv, At, SetSteps
<1>3. inode'[cfg'] = Rewritten(inode[cfg], k, v)
  BY <1>1, <1>2
<1>4. /\ inode'[cfg'] \in Seq(Line) /\ OnlyKey(inode[cfg], inode'[cfg'], k)
      /\ FirstOf(inode'[cfg'], k) = v
  BY <1>2, <1>3, RewritesOneKey, AppliedText
<1>5. Store!Set(k, v)
  BY <1>1, <1>4
     DEF Store!Set, Line, Store!Line, OnlyKey, Store!OnlyKey, FirstOf, Store!FirstOf,
         LinesOf, Store!LinesOf, Min, Store!Min
<1> QED
  BY <1>2, <1>5 DEF Store!Next

LEMMA StepMaps == IInv /\ [Next]_vars => [Store!Next]_<<inode[cfg], ~apart>>
<1> SUFFICES ASSUME IInv, [Next]_vars PROVE [Store!Next]_<<inode[cfg], ~apart>>
  OBVIOUS
<1>1. CASE ~apart'
  BY <1>1, NextInv, OverlapMaps
<1>2. CASE UNCHANGED <<inode, cfg, apart>>
  BY <1>2
<1>3. ASSUME apart', NEW w \in Workers,
             SetBegin(w) \/ SetOpen(w) \/ SetWrite(w) \/ SetFails(w)
      PROVE  apart' = apart /\ inode'[cfg'] = inode[cfg]
  <2>1. CASE SetBegin(w)
    BY <1>3, <2>1 DEF SetBegin, fileVars, IInv, CountsTyped
  <2>2. CASE SetOpen(w)
    <3>1. /\ cfg' = cfg /\ apart' = apart
          /\ \E new \in {tmp'} : inode' = [inode EXCEPT ![new] = <<>>]
      BY <2>2 DEF SetOpen, setFrame, histVars
    <3>2. tmp' # cfg' /\ cfg \in Inodes
      BY <2>2, SetOpenInv DEF IInv, FilesTyped
    <3> QED
      BY <3>1, <3>2 DEF IInv, FilesTyped
  <2>3. CASE SetWrite(w)
    <3>1. /\ cfg' = cfg /\ apart' = apart
          /\ \E content : inode' = [inode EXCEPT ![call[w].fd] = content]
      BY <2>3 DEF SetWrite, setFrame, histVars
    <3>2. At(w, "write")
      BY <2>3 DEF SetWrite
    <3>3. call[w].fd = tmp /\ tmp # cfg /\ cfg \in Inodes
      BY <1>3, <3>1, <3>2 DEF IInv, FileInv, FilesTyped
    <3> QED
      BY <3>1, <3>3 DEF IInv, FilesTyped
  <2>4. CASE SetFails(w)
    <3>1. /\ cfg' = cfg /\ apart' = apart
          /\ \/ inode' = inode
             \/ /\ At(w, "write")
                /\ \E content : inode' = [inode EXCEPT ![call[w].fd] = content]
      BY <2>4 DEF SetFails, setFrame, histVars
    <3>2. At(w, "write") => call[w].fd = tmp /\ tmp # cfg
      BY <1>3, <3>1 DEF IInv, FileInv, FilesTyped
    <3>3. cfg \in Inodes
      BY DEF IInv, FilesTyped
    <3> QED
      BY <3>1, <3>2, <3>3 DEF IInv, FilesTyped
  <2> QED
    BY <1>3, <2>1, <2>2, <2>3, <2>4
<1>4. ASSUME apart', NEW w \in Workers, SetReplace(w)
      PROVE  [Store!Next]_<<inode[cfg], ~apart>>
  BY <1>4, ReplaceMaps DEF SetReplace, setFrame, histVars
<1>5. ASSUME NEW w \in Workers,
             StartBegin(w) \/ StopBegin(w) \/ SetRead(w) \/ SetSnapshot(w) \/ ProcStep(w)
      PROVE  UNCHANGED <<inode, cfg, apart>>
  <2>1. CASE StartBegin(w) \/ StopBegin(w) \/ SetRead(w) \/ SetSnapshot(w)
    BY <2>1 DEF StartBegin, StopBegin, SetRead, SetSnapshot, fileVars, setFrame, histVars
  <2>2. CASE ProcStep(w)
    BY <2>2 DEF ProcStep, StartSpawn, StartReply, StopSignal, StopWait, StopExited, StopTimeout,
                StopClear, fileVars, setFrame, histVars
  <2> QED
    BY <1>5, <2>1, <2>2
<1>6. ASSUME NEW c \in Children, ChildLoad(c) \/ ChildPlay(c) \/ ChildExit(c)
      PROVE  UNCHANGED <<inode, cfg, apart>>
  BY <1>6 DEF ChildLoad, ChildPlay, ChildExit, childFrame, fileVars, histVars
<1>7. CASE Restart \/ UNCHANGED vars
  BY <1>2, <1>7 DEF Restart, vars, fileVars, histVars
<1>8. ASSUME apart', NEW w \in Workers, SetBegin(w) \/ SetStep(w)
      PROVE  [Store!Next]_<<inode[cfg], ~apart>>
  <2>1. CASE SetBegin(w) \/ SetOpen(w) \/ SetWrite(w) \/ SetFails(w)
    BY <1>3, <1>8, <2>1
  <2>2. CASE SetReplace(w)
    BY <1>4, <1>8, <2>2
  <2>3. CASE SetRead(w) \/ SetSnapshot(w)
    BY <1>2, <1>5, <2>3
  <2> QED
    BY <1>8, <2>1, <2>2, <2>3 DEF SetStep
<1> QED
  BY <1>1, <1>2, <1>5, <1>6, <1>7, <1>8 DEF Next

(* config.ini changes by whole Set operations, each in the lines of its own *)
(* key, until two Set calls overlap (StoreSpec).                            *)
THEOREM Refinement == Spec => StoreSpec
<1>1. Init => Store!Init
  <2> SUFFICES ASSUME Init PROVE Store!Init
    OBVIOUS
  <2>1. PICK f \in Files : inode = [i \in Inodes |-> IF i = 1 THEN f ELSE <<>>]
    BY DEF Init
  <2>2. inode[cfg] = f /\ apart = TRUE
    BY <2>1, InodesAre DEF Init
  <2> QED
    BY <2>2 DEF Store!Init
<1> QED
  BY <1>1, StepMaps, Inductive, PTL DEF Spec, StoreSpec, Store!Spec
=============================================================================
