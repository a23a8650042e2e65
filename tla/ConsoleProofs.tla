---------------------------- MODULE ConsoleProofs ----------------------------
(***************************************************************************)
(* Proofs about the platform's console, for any keys, any number of lines  *)
(* typed, whole, in part or several in a read, and any number of           *)
(* initialisations: what its flags and the pipeline's control block hold   *)
(* when no key is being executed.                                          *)
(***************************************************************************)
EXTENDS ConsoleControl, SequenceTheorems, TLAPS

Records == [pc : Executing \cup Ended \cup {"loop", "select", "fgets"},
            key : Keys \cup {NoKey}, old : BOOLEAN, step : 0 .. 4]

(* Types, part by part. *)
InputTyped ==
  /\ kern \in Seq(Keys) /\ buf \in Seq(Keys)
  /\ partial \in BOOLEAN /\ partialRead \in BOOLEAN
  /\ eof \in BOOLEAN /\ typed \in 0 .. MaxLines

StateTyped ==
  /\ flags \in [rt : BOOLEAN, stats : BOOLEAN, modes : SUBSET Modes]
  /\ running \in BOOLEAN /\ initialized \in BOOLEAN /\ ctx \in BOOLEAN
  /\ control \subseteq Modes /\ debug \in [bypass : BOOLEAN, dump : BOOLEAN]

MainTyped ==
  /\ main \in MainStates /\ startup \subseteq Modes /\ created \in 0 .. MaxThreads
  /\ shadow \subseteq Modes /\ written \subseteq Modes /\ timedOut \in BOOLEAN

ThreadTyped ==
  /\ thread \in [Threads -> Records]
  /\ \A t \in Threads : /\ t > created => thread[t] = Idle("none")
                        /\ thread[t].pc \in {"clear", "unmirror"} => thread[t].step \in 1 .. 3
                        /\ thread[t].pc \in {"load", "store", "mirror"} => thread[t].key \in ModeKeys

(* Between the creation of a thread and its join there is a thread, and     *)
(* until a join times out no other: it alone reads the input.               *)
HasThread == main \in {"ctx", "run", "join"}
OneThread ==
  /\ HasThread => created # 0
  /\ HasThread \/ main = "create" => initialized
  /\ \A t \in Threads : ~timedOut /\ thread[t].pc \notin Ended => t = created /\ HasThread

(* How far the flags have followed the key that a thread executes ...       *)
Follows(r) ==
  CASE r.pc = "load"     -> shadow = Toggled(flags.modes, ModeOf[r.key])
    [] r.pc = "store"    -> /\ shadow = Toggled(flags.modes, ModeOf[r.key])
                            /\ r.old <=> ModeOf[r.key] \in flags.modes
    [] r.pc = "mirror"   -> /\ flags.modes = shadow
                            /\ r.old <=> ModeOf[r.key] \notin flags.modes
    [] r.pc = "clear"    -> /\ shadow = {}
                            /\ \A i \in 1 .. (r.step - 1) : ClearOrder[i] \notin flags.modes
    [] r.pc = "unmirror" -> shadow = {} /\ flags.modes = {}
    [] OTHER             -> flags.modes = shadow

FlagsInv == initialized /\ ~timedOut =>
  /\ created = 0 => flags.modes = shadow
  /\ created # 0 => Follows(thread[created])

(* ... and the entries of the control block that keys wrote last the flags:  *)
(* but for the one that is about to be written, and, of the ones that x is   *)
(* about to clear, as far as it has come.                                    *)
Agree(S) == S \cap control = S \cap flags.modes
Mirrored(r) ==
  CASE r.pc = "mirror"   -> Agree(written \ {ModeOf[r.key]})
    [] r.pc = "clear"    -> TRUE
    [] r.pc = "unmirror" -> \A i \in 1 .. (r.step - 1) : ClearOrder[i] \notin written \cap control
    [] OTHER             -> Agree(written)

ControlInv ==
  /\ main \in {"create", "ctx"} => ~ctx
  /\ ~ctx => written = {}
  /\ ctx /\ ~timedOut => created # 0 /\ Mirrored(thread[created])

IInv == InputTyped /\ StateTyped /\ MainTyped /\ ThreadTyped /\ OneThread /\ FlagsInv /\ ControlInv

-----------------------------------------------------------------------------
(* Keys and modes. *)

LEMMA ModesAre ==
  /\ ModeKeys = {"d", "l", "i"} /\ \A k \in ModeKeys : ModeOf[k] \in Modes
  /\ ClearOrder[1] = "dsp" /\ ClearOrder[2] = "log" /\ ClearOrder[3] = "ip" /\ Len(ClearOrder) = 3
BY DEF ModeKeys, ModeOf, Modes, ClearOrder

LEMMA Sizes == MaxLines \in Nat /\ MaxThreads \in Nat \ {0}
BY ConsoleAssumption

LEMMA IdleType ==
  ASSUME NEW pc \in Executing \cup Ended \cup {"loop", "select", "fgets"}
  PROVE  Idle(pc) \in Records /\ Idle(pc).pc = pc
BY DEF Idle, Records

(* Storing the negation of what was loaded is toggling. *)
LEMMA ToggleIsSet ==
  ASSUME NEW S, NEW m
  PROVE  /\ Toggled(S, m) = SetTo(S, m, m \notin S)
         /\ (m \in Toggled(S, m)) <=> (m \notin S)
         /\ \A x : x # m => (x \in Toggled(S, m) <=> x \in S)
BY DEF Toggled, SetTo

-----------------------------------------------------------------------------
(* Initially the invariant holds. *)

LEMMA InitInv == Init => IInv
<1> SUFFICES ASSUME Init PROVE IInv
  OBVIOUS
<1>1. InputTyped
  <2>1. kern = <<>> /\ buf = <<>> /\ typed = 0
    BY DEF Init
  <2>2. kern \in Seq(Keys) /\ buf \in Seq(Keys)
    BY <2>1
  <2>3. typed \in 0 .. MaxLines
    BY <2>1, Sizes
  <2> QED
    BY <2>2, <2>3 DEF Init, InputTyped
<1>2. StateTyped
  BY DEF Init, StateTyped
<1>3. MainTyped
  <2>1. created \in 0 .. MaxThreads
    BY Sizes DEF Init
  <2> QED
    BY <2>1 DEF Init, MainTyped, MainStates, Modes
<1>4. /\ Idle("none") \in Records /\ Idle("none").pc = "none"
      /\ thread = [t \in Threads |-> Idle("none")]
  BY IdleType DEF Init, Ended
<1>5. \A t \in Threads : thread[t] = Idle("none") /\ thread[t].pc = "none"
  BY <1>4
<1>6. ThreadTyped
  <2>1. thread \in [Threads -> Records]
    BY <1>4
  <2> QED
    BY <1>5, <2>1 DEF ThreadTyped, At
<1>7. OneThread
  BY <1>5 DEF Init, OneThread, HasThread, Ended
<1>8. FlagsInv /\ ControlInv
  BY DEF Init, FlagsInv, ControlInv
<1> QED
  BY <1>1, <1>2, <1>3, <1>6, <1>7, <1>8 DEF IInv

-----------------------------------------------------------------------------
(* The input. *)

LEMMA TypeInv == ASSUME IInv, Type PROVE IInv'
<1> USE DEF IInv
<1>1. UNCHANGED <<main, startup, flags, running, initialized, ctx, control, debug, thread, created,
                  shadow, written, timedOut>>
  BY DEF Type, TypeLine, TypePart, EndLine, EndInput, outside, state, history
<1>2. /\ kern' = kern \/ \E k \in Keys : kern' = Append(kern, k)
      /\ buf' = buf
      /\ typed' = typed \/ (typed < MaxLines /\ typed' = typed + 1)
      /\ partial' \in BOOLEAN /\ partialRead' \in BOOLEAN /\ eof' \in BOOLEAN
  BY DEF Type, TypeLine, TypePart, EndLine, EndInput, InputTyped
<1>3. kern' \in Seq(Keys)
  BY <1>2, AppendProperties DEF InputTyped
<1>4. typed' \in 0 .. MaxLines
  BY <1>2, Sizes DEF InputTyped
<1>5. InputTyped'
  BY <1>2, <1>3, <1>4 DEF InputTyped
<1>6. StateTyped' /\ MainTyped' /\ ThreadTyped'
  BY <1>1 DEF StateTyped, MainTyped, ThreadTyped, At
<1>7. OneThread'
  BY <1>1 DEF OneThread, HasThread
<1>8. FlagsInv' /\ ControlInv'
  BY <1>1 DEF FlagsInv, ControlInv, Follows, Mirrored, Agree
<1> QED
  BY <1>5, <1>6, <1>7, <1>8

(* A line or a part of one is taken: what is left is still lines. *)
LEMMA InputKept ==
  ASSUME InputTyped, (\E k \in Keys : GetLine(k)) \/ GetPart
  PROVE  InputTyped'
<1>1. CASE GetPart
  BY <1>1 DEF GetPart, InputTyped
<1>2. ASSUME NEW k \in Keys, buf # <<>>, buf' = Tail(buf),
             UNCHANGED <<kern, partial, partialRead, eof, typed>>
      PROVE  InputTyped'
  <2>1. buf' \in Seq(Keys)
    BY <1>2, HeadTailProperties DEF InputTyped
  <2> QED
    BY <1>2, <2>1 DEF InputTyped
<1>3. ASSUME NEW n \in 1 .. Len(kern), buf' = SubSeq(kern, 2, n),
             kern' = SubSeq(kern, n + 1, Len(kern)),
             partialRead' = (n = Len(kern) /\ partial), UNCHANGED <<partial, eof, typed>>
      PROVE  InputTyped'
  <2>1. kern \in Seq(Keys) /\ Len(kern) \in Nat /\ n \in Int
    BY DEF InputTyped
  <2>2. \A i \in 1 .. Len(kern) : kern[i] \in Keys
    BY <2>1
  <2>3. buf' \in Seq(Keys)
    BY <1>3, <2>1, <2>2, SubSeqProperties
  <2>4. kern' \in Seq(Keys)
    BY <1>3, <2>1, <2>2, SubSeqProperties
  <2> QED
    BY <1>3, <2>3, <2>4 DEF InputTyped
<1> QED
  BY <1>1, <1>2, <1>3 DEF GetLine

-----------------------------------------------------------------------------
(* The console thread.                                                      *)

(* What a thread's step has to establish: only that thread is in question,  *)
(* for it is the only one as long as no join has timed out.                 *)
LEMMA StepInv ==
  ASSUME IInv, NEW t \in Threads, thread[t].pc \notin Ended, UNCHANGED threadFrame,
         NEW r \in Records, thread' = [thread EXCEPT ![t] = r],
         r.pc \in {"clear", "unmirror"} => r.step \in 1 .. 3,
         r.pc \in {"load", "store", "mirror"} => r.key \in ModeKeys,
         InputTyped', StateTyped', shadow' \subseteq Modes, written' \subseteq Modes,
         ~ctx => written' = {},
         ~timedOut => Follows(r)',
         ~timedOut /\ ctx => Mirrored(r)'
  PROVE  IInv'
<1> USE DEF IInv
<1>1. UNCHANGED <<main, startup, running, initialized, ctx, created, timedOut>>
  BY DEF threadFrame
<1>2. /\ thread'[t] = r /\ \A u \in Threads : u # t => thread'[u] = thread[u]
      /\ thread' \in [Threads -> Records]
  BY DEF ThreadTyped
<1>3. MainTyped'
  BY <1>1 DEF MainTyped
<1>4. ~(t > created)
  <2>1. Idle("none").pc \in Ended
    BY IdleType DEF Ended
  <2> QED
    BY <2>1 DEF ThreadTyped
<1>5. ThreadTyped'
  BY <1>1, <1>2, <1>4 DEF ThreadTyped, At
<1>6. OneThread'
  BY <1>1, <1>2 DEF OneThread, HasThread
<1>7. ~timedOut => t = created
  BY DEF OneThread
<1>8. FlagsInv'
  <2> SUFFICES ASSUME ~timedOut PROVE created # 0 /\ Follows(thread[created])'
    BY <1>1 DEF FlagsInv
  <2>1. t = created /\ thread'[created'] = r
    BY <1>1, <1>2, <1>7
  <2> QED
    BY <2>1 DEF Follows, Threads
<1>9. ControlInv'
  <2> SUFFICES ASSUME ~timedOut, ctx PROVE created # 0 /\ Mirrored(thread[created])'
    BY <1>1 DEF ControlInv
  <2>1. t = created /\ thread'[created'] = r
    BY <1>1, <1>2, <1>7
  <2> QED
    BY <2>1 DEF Mirrored, Threads
<1> QED
  BY <1>3, <1>5, <1>6, <1>8, <1>9

(* What it can rely on. *)
LEMMA StepFrom ==
  ASSUME IInv, NEW t \in Threads, thread[t].pc \notin Ended
  PROVE  /\ thread[t] \in Records
         /\ ~timedOut => Follows(thread[t])
         /\ ~timedOut /\ ctx => Mirrored(thread[t])
         /\ ~ctx => written = {}
<1>1. thread[t] \in Records
  BY DEF IInv, ThreadTyped
<1>2. ~timedOut => t = created /\ initialized /\ created # 0
  BY DEF IInv, OneThread, HasThread, Threads
<1> QED
  BY <1>1, <1>2 DEF IInv, FlagsInv, ControlInv

(* A step between two places where no key is being executed, one of which   *)
(* may leave a line or a part of it taken.                                  *)
LEMMA RestInv ==
  ASSUME IInv, NEW t \in Threads, thread[t].pc \in {"loop", "select", "fgets"},
         NEW pc \in {"loop", "select", "fgets", "done", "failed", "eof"},
         thread' = [thread EXCEPT ![t] = Idle(pc)], InputTyped',
         UNCHANGED <<threadFrame, flags, control, debug, shadow, written>>
  PROVE  IInv'
<1>1. thread[t].pc \notin Ended /\ Idle(pc) \in Records /\ Idle(pc).pc = pc
  BY IdleType DEF Ended
<1>2. /\ StateTyped' /\ shadow' \subseteq Modes /\ written' \subseteq Modes
      /\ ~ctx => written' = {}
  BY <1>1, StepFrom DEF IInv, StateTyped, MainTyped, threadFrame
<1>3. ~timedOut => Follows(Idle(pc))'
  <2>1. ~timedOut => flags.modes = shadow
    BY <1>1, StepFrom DEF Follows
  <2> QED
    BY <1>1, <2>1 DEF Follows
<1>4. ~timedOut /\ ctx => Mirrored(Idle(pc))'
  <2>1. ~timedOut /\ ctx => Agree(written)
    BY <1>1, StepFrom DEF Mirrored
  <2> QED
    BY <1>1, <2>1 DEF Mirrored, Agree
<1> QED
  BY <1>1, <1>2, <1>3, <1>4, StepInv

LEMMA InputSame == ASSUME InputTyped, UNCHANGED input PROVE InputTyped'
  BY DEF InputTyped, input

LEMMA LoopInv == ASSUME IInv, NEW t \in Threads, Loop(t) PROVE IInv'
<1>1. PICK pc \in {"select", "done"} : thread' = [thread EXCEPT ![t] = Idle(pc)]
  BY DEF Loop, Goto
<1> QED
  BY <1>1, InputSame, RestInv DEF Loop, At, IInv

LEMMA SelectInv == ASSUME IInv, NEW t \in Threads, Select(t) PROVE IInv'
<1>1. PICK pc \in {"loop", "fgets", "failed"} : thread' = [thread EXCEPT ![t] = Idle(pc)]
  BY DEF Select, Goto
<1> QED
  BY <1>1, InputSame, RestInv DEF Select, At, IInv

LEMMA FgetsEofInv == ASSUME IInv, NEW t \in Threads, FgetsEof(t) PROVE IInv'
<1>1. thread' = [thread EXCEPT ![t] = Idle("eof")]
  BY DEF FgetsEof, Goto
<1> QED
  BY <1>1, InputSame, RestInv DEF FgetsEof, At, IInv

LEMMA FgetsPartInv == ASSUME IInv, NEW t \in Threads, FgetsPart(t) PROVE IInv'
<1> USE DEF IInv
<1>1. /\ UNCHANGED <<main, startup, running, initialized, ctx, created, timedOut, flags, control,
                     debug, thread, shadow, written>>
      /\ GetPart
  BY DEF FgetsPart, threadFrame
<1>2. InputTyped'
  BY <1>1, InputKept
<1>3. StateTyped' /\ MainTyped' /\ ThreadTyped'
  BY <1>1 DEF StateTyped, MainTyped, ThreadTyped, At
<1>4. OneThread'
  BY <1>1 DEF OneThread, HasThread
<1>5. FlagsInv' /\ ControlInv'
  BY <1>1 DEF FlagsInv, ControlInv, Follows, Mirrored, Agree
<1> QED
  BY <1>2, <1>3, <1>4, <1>5

(* A key is taken: the history of what the keys ask for is a step ahead.    *)
LEMMA FgetsInv == ASSUME IInv, NEW t \in Threads, Fgets(t) PROVE IInv'
<1>1. PICK k \in Keys :
        /\ GetLine(k)
        /\ thread' = [thread EXCEPT ![t] =
                        IF FirstStep(k) = "loop" THEN Idle("loop")
                        ELSE [pc |-> FirstStep(k), key |-> k, old |-> FALSE, step |-> 1]]
        /\ shadow' = CASE k \in ModeKeys -> Toggled(shadow, ModeOf[k])
                       [] k = "x"        -> {}
                       [] OTHER          -> shadow
  BY DEF Fgets
<1>2. At(t, "fgets") /\ UNCHANGED <<threadFrame, flags, control, debug, written>>
  BY DEF Fgets
<1>3. thread[t].pc = "fgets" /\ thread[t].pc \notin Ended
  BY <1>2 DEF At, Ended
<1>4. UNCHANGED <<ctx, timedOut, flags, control, debug, running, initialized, written>>
  BY <1>2 DEF threadFrame
<1>5. InputTyped' /\ StateTyped'
  BY <1>1, <1>4, InputKept DEF IInv, StateTyped
<1>6. /\ ~timedOut => flags.modes = shadow
      /\ ~timedOut /\ ctx => Agree(written)
      /\ ~ctx => written = {}
  BY <1>3, StepFrom DEF Follows, Mirrored
<1>7. shadow \subseteq Modes /\ written \subseteq Modes
  BY DEF IInv, MainTyped
<1>8. CASE k \in ModeKeys
  <2> DEFINE r == [pc |-> "load", key |-> k, old |-> FALSE, step |-> 1]
  <2>1. k # "x" /\ FirstStep(k) = "load" /\ ModeOf[k] \in Modes
    BY <1>8, ModesAre DEF FirstStep
  <2>2. thread' = [thread EXCEPT ![t] = r]
    BY <1>1, <2>1
  <2>3. r \in Records /\ r.pc = "load" /\ r.key = k
    BY DEF Records, Executing
  <2> HIDE DEF r
  <2>4. shadow' = Toggled(shadow, ModeOf[k])
    BY <1>1, <1>8, <2>1
  <2>5. shadow' \subseteq Modes /\ written' \subseteq Modes
    BY <1>4, <1>7, <2>1, <2>4 DEF Toggled
  <2>6. ~timedOut => Follows(r)'
    BY <1>4, <1>6, <2>3, <2>4 DEF Follows
  <2>7. ~timedOut /\ ctx => Mirrored(r)'
    BY <1>4, <1>6, <2>3, <2>4 DEF Mirrored, Agree
  <2> QED
    BY <1>2, <1>3, <1>4, <1>5, <1>6, <1>8, <2>2, <2>3, <2>5, <2>6, <2>7, StepInv
<1>9. CASE k = "x"
  <2> DEFINE r == [pc |-> "clear", key |-> k, old |-> FALSE, step |-> 1]
  <2>1. k \notin ModeKeys /\ FirstStep(k) = "clear"
    BY <1>9, ModesAre DEF FirstStep
  <2>2. thread' = [thread EXCEPT ![t] = r]
    BY <1>1, <2>1
  <2>3. r \in Records /\ r.pc = "clear" /\ r.step = 1
    BY DEF Records, Executing
  <2> HIDE DEF r
  <2>4. shadow' = {}
    BY <1>1, <1>9, <2>1
  <2>5. shadow' \subseteq Modes /\ written' \subseteq Modes
    BY <1>4, <1>7, <2>4
  <2>6. Follows(r)' /\ Mirrored(r)'
    BY <2>3, <2>4 DEF Follows, Mirrored
  <2>7. /\ ~ctx => written' = {}
        /\ r.step \in 1 .. 3 /\ r.pc \notin {"load", "store", "mirror"}
    BY <1>4, <1>6, <2>3
  <2> QED
    BY <1>2, <1>3, <1>5, <2>2, <2>3, <2>5, <2>6, <2>7, StepInv
<1>10. CASE k \notin ModeKeys /\ k # "x"
  <2>1. shadow' = shadow /\ written' = written
    BY <1>1, <1>4, <1>10
  <2>2. PICK r \in Records : /\ thread' = [thread EXCEPT ![t] = r]
                             /\ r.pc \in {"loop", "aid", "quit"}
    <3>1. FirstStep(k) \in {"loop", "aid", "quit"}
      BY <1>10 DEF FirstStep
    <3>2. CASE FirstStep(k) = "loop"
      BY <1>1, <3>2, IdleType
    <3>3. CASE FirstStep(k) # "loop"
      <4> DEFINE n == [pc |-> FirstStep(k), key |-> k, old |-> FALSE, step |-> 1]
      <4>1. n \in Records /\ n.pc = FirstStep(k)
        BY <3>1 DEF Records, Executing
      <4>2. thread' = [thread EXCEPT ![t] = n]
        BY <1>1, <3>3
      <4> HIDE DEF n
      <4> QED
        BY <3>1, <4>1, <4>2
    <3> QED
      BY <3>2, <3>3
  <2>3. ~timedOut => Follows(r)'
    BY <1>4, <1>6, <2>1, <2>2 DEF Follows
  <2>4. ~timedOut /\ ctx => Mirrored(r)'
    BY <1>4, <1>6, <2>1, <2>2 DEF Mirrored, Agree
  <2> QED
    BY <1>2, <1>3, <1>5, <1>6, <1>7, <2>1, <2>2, <2>3, <2>4, StepInv
<1> QED
  BY <1>8, <1>9, <1>10

LEMMA LoadInv == ASSUME IInv, NEW t \in Threads, Load(t) PROVE IInv'
<1> DEFINE m == ModeOf[thread[t].key]
<1>1. /\ thread[t].pc = "load" /\ thread[t].pc \notin Ended
      /\ UNCHANGED <<threadFrame, flags, control, debug, input, shadow, written>>
      /\ thread' = [thread EXCEPT ![t].pc = "store", ![t].old = m \in flags.modes]
  BY DEF Load, At, Ended
<1>2. /\ thread[t] \in Records
      /\ ~timedOut => shadow = Toggled(flags.modes, m)
      /\ ~timedOut /\ ctx => Agree(written)
      /\ ~ctx => written = {}
  BY <1>1, StepFrom DEF Follows, Mirrored
<1>3. PICK b \in BOOLEAN : b = (m \in flags.modes)
  <2>1. (m \in flags.modes) = TRUE \/ (m \in flags.modes) = FALSE
    OBVIOUS
  <2> QED
    BY <2>1, Zenon
<1>4. PICK r \in Records : /\ thread' = [thread EXCEPT ![t] = r]
                           /\ r.pc = "store" /\ r.old = b /\ r.key = thread[t].key
  <2> DEFINE n == [thread[t] EXCEPT !.pc = "store", !.old = b]
  <2>1. n \in Records /\ n.pc = "store" /\ n.old = b /\ n.key = thread[t].key
    BY <1>2 DEF Records, Executing
  <2>2. thread' = [thread EXCEPT ![t].pc = "store", ![t].old = b]
    BY <1>1, <1>3
  <2>3. thread' = [thread EXCEPT ![t] = n]
    BY <1>2, <2>2 DEF IInv, ThreadTyped
  <2> HIDE DEF n
  <2> QED
    BY <2>1, <2>3
<1>5. thread[t].key \in ModeKeys
  BY <1>1 DEF IInv, ThreadTyped
<1>6. /\ InputTyped' /\ StateTyped' /\ shadow' \subseteq Modes /\ written' \subseteq Modes
      /\ ~ctx => written' = {}
  BY <1>1, <1>2, InputSame DEF IInv, StateTyped, MainTyped, threadFrame
<1>7. ~timedOut => Follows(r)'
  BY <1>1, <1>2, <1>3, <1>4 DEF Follows
<1>8. ~timedOut /\ ctx => Mirrored(r)'
  BY <1>1, <1>2, <1>4 DEF Mirrored, Agree
<1> QED
  BY <1>1, <1>4, <1>5, <1>6, <1>7, <1>8, StepInv

LEMMA StoreInv == ASSUME IInv, NEW t \in Threads, Store(t) PROVE IInv'
<1> DEFINE m == ModeOf[thread[t].key]
<1>1. /\ thread[t].pc = "store" /\ thread[t].pc \notin Ended
      /\ UNCHANGED <<threadFrame, control, debug, input, shadow, written>>
      /\ flags' = [flags EXCEPT !.modes = SetTo(@, m, ~thread[t].old)]
      /\ thread' = [thread EXCEPT ![t].pc = "mirror"]
  BY DEF Store, At, Ended
<1>2. /\ thread[t] \in Records
      /\ ~timedOut => /\ shadow = Toggled(flags.modes, m)
                      /\ thread[t].old <=> m \in flags.modes
      /\ ~timedOut /\ ctx => Agree(written)
      /\ ~ctx => written = {}
  BY <1>1, StepFrom DEF Follows, Mirrored
<1>3. PICK r \in Records : /\ thread' = [thread EXCEPT ![t] = r]
                           /\ r.pc = "mirror" /\ r.old = thread[t].old /\ r.key = thread[t].key
  <2> DEFINE n == [thread[t] EXCEPT !.pc = "mirror"]
  <2>1. n \in Records /\ n.pc = "mirror" /\ n.old = thread[t].old /\ n.key = thread[t].key
    BY <1>2 DEF Records, Executing
  <2>2. thread' = [thread EXCEPT ![t] = n]
    BY <1>1, <1>2 DEF IInv, ThreadTyped
  <2> HIDE DEF n
  <2> QED
    BY <2>1, <2>2
<1>4. thread[t].key \in ModeKeys /\ m \in Modes
  BY <1>1, ModesAre DEF IInv, ThreadTyped
<1>5. flags'.modes = SetTo(flags.modes, m, ~thread[t].old)
  BY <1>1 DEF IInv, StateTyped
<1>6. /\ InputTyped' /\ shadow' \subseteq Modes /\ written' \subseteq Modes
      /\ ~ctx => written' = {}
  BY <1>1, <1>2, InputSame DEF IInv, MainTyped
<1>7. StateTyped'
  BY <1>1, <1>4 DEF IInv, StateTyped, threadFrame, SetTo
<1>8. ~timedOut => Follows(r)'
  BY <1>1, <1>2, <1>3, <1>5, ToggleIsSet DEF Follows
<1>9. ~timedOut /\ ctx => Mirrored(r)'
  BY <1>1, <1>2, <1>3, <1>5 DEF Mirrored, Agree, SetTo
<1> QED
  BY <1>1, <1>3, <1>4, <1>6, <1>7, <1>8, <1>9, StepInv

LEMMA MirrorInv == ASSUME IInv, NEW t \in Threads, Mirror(t) PROVE IInv'
<1> DEFINE m == ModeOf[thread[t].key]
<1>1. /\ thread[t].pc = "mirror" /\ thread[t].pc \notin Ended
      /\ UNCHANGED <<threadFrame, flags, debug, input, shadow>>
      /\ IF ctx THEN control' = SetTo(control, m, ~thread[t].old) /\ written' = written \cup {m}
                ELSE UNCHANGED <<control, written>>
      /\ thread' = [thread EXCEPT ![t] = Idle("loop")]
  BY DEF Mirror, Goto, At, Ended
<1>2. /\ ~timedOut => flags.modes = shadow /\ (thread[t].old <=> m \notin flags.modes)
      /\ ~timedOut /\ ctx => Agree(written \ {m})
      /\ ~ctx => written = {}
  BY <1>1, StepFrom DEF Follows, Mirrored
<1>3. Idle("loop") \in Records /\ Idle("loop").pc = "loop"
  BY IdleType
<1>4. thread[t].key \in ModeKeys /\ m \in Modes
  BY <1>1, ModesAre DEF IInv, ThreadTyped
<1>5. /\ InputTyped' /\ shadow' \subseteq Modes /\ written' \subseteq Modes
      /\ ~ctx => written' = {}
  BY <1>1, <1>2, <1>4, InputSame DEF IInv, MainTyped
<1>6. StateTyped'
  BY <1>1, <1>4 DEF IInv, StateTyped, threadFrame, SetTo
<1>7. ~timedOut => Follows(Idle("loop"))'
  BY <1>1, <1>2, <1>3 DEF Follows
<1>8. ~timedOut /\ ctx => Mirrored(Idle("loop"))'
  <2>1. ~timedOut /\ ctx => Agree(written)'
    BY <1>1, <1>2 DEF Agree, SetTo
  <2> QED
    BY <1>3, <2>1 DEF Mirrored
<1> QED
  BY <1>1, <1>3, <1>5, <1>6, <1>7, <1>8, StepInv

(* x clears the flags one by one: after the last of them none is left. *)
LEMMA ClearInv == ASSUME IInv, NEW t \in Threads, Clear(t) PROVE IInv'
<1> DEFINE s == thread[t].step
<1>1. /\ thread[t].pc = "clear" /\ thread[t].pc \notin Ended
      /\ UNCHANGED <<threadFrame, control, debug, input, shadow, written>>
      /\ flags' = [flags EXCEPT !.modes = @ \ {ClearOrder[s]}]
      /\ thread' = [thread EXCEPT ![t].step = IF @ = Len(ClearOrder) THEN 1 ELSE @ + 1,
                      ![t].pc = IF s = Len(ClearOrder) THEN "unmirror" ELSE "clear"]
  BY DEF Clear, At, Ended
<1>2. /\ thread[t] \in Records /\ s \in 1 .. 3
      /\ ~timedOut => shadow = {} /\ \A i \in 1 .. (s - 1) : ClearOrder[i] \notin flags.modes
      /\ ~ctx => written = {}
  BY <1>1, StepFrom DEF Follows, IInv, ThreadTyped, At
<1>3. PICK r \in Records : /\ thread' = [thread EXCEPT ![t] = r]
                           /\ r.pc = IF s = 3 THEN "unmirror" ELSE "clear"
                           /\ r.step = IF s = 3 THEN 1 ELSE s + 1
  <2> DEFINE pc == IF s = Len(ClearOrder) THEN "unmirror" ELSE "clear"
             next == IF s = Len(ClearOrder) THEN 1 ELSE s + 1
             n == [thread[t] EXCEPT !.step = next, !.pc = pc]
  <2>1. next \in 0 .. 4 /\ pc \in Executing
    BY <1>2, ModesAre DEF Executing
  <2>2. thread' = [thread EXCEPT ![t] = n]
    BY <1>1, <1>2 DEF IInv, ThreadTyped
  <2>3. pc = (IF s = 3 THEN "unmirror" ELSE "clear") /\ next = (IF s = 3 THEN 1 ELSE s + 1)
    BY ModesAre
  <2> HIDE DEF s, pc, next
  <2>4. n \in Records /\ n.pc = pc /\ n.step = next
    BY <1>2, <2>1 DEF Records
  <2> HIDE DEF n
  <2> QED
    BY <2>2, <2>3, <2>4
<1>4. flags'.modes = flags.modes \ {ClearOrder[s]} /\ flags.modes \subseteq Modes
  BY <1>1 DEF IInv, StateTyped
<1>5. /\ InputTyped' /\ StateTyped' /\ shadow' \subseteq Modes /\ written' \subseteq Modes
      /\ ~ctx => written' = {}
  BY <1>1, <1>2, InputSame DEF IInv, StateTyped, MainTyped, threadFrame
<1>6. ~timedOut => \A i \in 1 .. s : ClearOrder[i] \notin flags'.modes
  BY <1>2, <1>4
<1>7. ~timedOut /\ s = 3 => flags'.modes = {}
  BY <1>4, <1>6, ModesAre DEF Modes
<1>8. ~timedOut => Follows(r)'
  BY <1>1, <1>2, <1>3, <1>6, <1>7 DEF Follows
<1>9. Mirrored(r)'
  BY <1>2, <1>3 DEF Mirrored
<1>10. r.step \in 1 .. 3 /\ r.pc \in {"clear", "unmirror"}
  BY <1>2, <1>3
<1> QED
  BY <1>1, <1>3, <1>5, <1>8, <1>9, <1>10, StepInv

(* Then the control block's entries: after the last of them none is left    *)
(* that a key wrote last.                                                   *)
LEMMA ClearControlInv == ASSUME IInv, NEW t \in Threads, ClearControl(t) PROVE IInv'
<1> DEFINE s == thread[t].step
<1>1. /\ thread[t].pc = "unmirror" /\ thread[t].pc \notin Ended
      /\ UNCHANGED <<threadFrame, flags, debug, input, shadow>>
  BY DEF ClearControl, At, Ended
<1>2. /\ thread[t] \in Records /\ s \in 1 .. 3
      /\ ~timedOut => shadow = {} /\ flags.modes = {}
      /\ ~timedOut /\ ctx => \A i \in 1 .. (s - 1) : ClearOrder[i] \notin written \cap control
      /\ ~ctx => written = {}
  BY <1>1, StepFrom DEF Follows, Mirrored, IInv, ThreadTyped
<1>3. Idle("loop") \in Records /\ Idle("loop").pc = "loop"
  BY IdleType
<1>4. control \subseteq Modes /\ written \subseteq Modes /\ shadow \subseteq Modes
  BY DEF IInv, StateTyped, MainTyped
<1>5. CASE ctx /\ control' = control \ {ClearOrder[s]} /\ written' = written \cup {ClearOrder[s]}
  <2>1. ClearOrder[s] \in Modes
    BY <1>2, ModesAre DEF Modes
  <2>2. /\ InputTyped' /\ shadow' \subseteq Modes /\ written' \subseteq Modes
        /\ ~ctx => written' = {}
    BY <1>1, <1>4, <1>5, <2>1, InputSame DEF IInv
  <2>3. StateTyped'
    BY <1>1, <1>5 DEF IInv, StateTyped, threadFrame
  <2>4. ~timedOut => \A i \in 1 .. s : ClearOrder[i] \notin control' \cap written'
    BY <1>2, <1>5
  <2>5. CASE s = 3
    <3>1. thread' = [thread EXCEPT ![t] = Idle("loop")]
      BY <1>5, <2>5, ModesAre DEF ClearControl, Goto
    <3>2. ~timedOut => control' \cap written' = {}
      BY <1>4, <1>5, <2>2, <2>4, <2>5, ModesAre DEF Modes
    <3>3. ~timedOut => Follows(Idle("loop"))' /\ Mirrored(Idle("loop"))'
      BY <1>1, <1>2, <1>3, <3>2 DEF Follows, Mirrored, Agree
    <3> QED
      BY <1>1, <1>3, <2>2, <2>3, <3>1, <3>3, StepInv
  <2>6. CASE s # 3
    <3>1. PICK r \in Records : /\ thread' = [thread EXCEPT ![t] = r]
                               /\ r.pc = "unmirror" /\ r.step = s + 1
      <4> DEFINE n == [thread[t] EXCEPT !.step = s + 1]
      <4>1. thread' = [thread EXCEPT ![t] = n]
        BY <1>2, <1>5, <2>6, ModesAre DEF ClearControl, IInv, ThreadTyped
      <4>2. n \in Records /\ n.pc = "unmirror" /\ n.step = s + 1
        BY <1>1, <1>2, <2>6 DEF Records
      <4> HIDE DEF n
      <4> QED
        BY <4>1, <4>2
    <3>2. r.step \in 1 .. 3
      BY <1>2, <2>6, <3>1
    <3>3. ~timedOut => Follows(r)'
      BY <1>1, <1>2, <3>1 DEF Follows
    <3>4. ~timedOut => Mirrored(r)'
      BY <1>2, <2>4, <3>1 DEF Mirrored
    <3> QED
      BY <1>1, <2>2, <2>3, <3>1, <3>2, <3>3, <3>4, StepInv
  <2> QED
    BY <2>5, <2>6
<1>6. CASE ~ctx /\ thread' = [thread EXCEPT ![t] = Idle("loop")] /\ UNCHANGED <<control, written>>
  <2>1. /\ InputTyped' /\ StateTyped' /\ shadow' \subseteq Modes /\ written' \subseteq Modes
        /\ ~ctx => written' = {}
    BY <1>1, <1>2, <1>4, <1>6, InputSame DEF IInv, StateTyped, threadFrame
  <2>2. ~timedOut => Follows(Idle("loop"))'
    BY <1>1, <1>2, <1>3 DEF Follows
  <2> QED
    BY <1>1, <1>3, <1>6, <2>1, <2>2, StepInv
<1> QED
  BY <1>5, <1>6 DEF ClearControl, Goto

(* A key that concerns no mode leaves the modes alone. *)
LEMMA AsideInv ==
  ASSUME IInv, NEW t \in Threads, thread[t].pc \in {"aid", "quit"}, NEW pc \in {"loop", "quitted"},
         thread' = [thread EXCEPT ![t] = Idle(pc)], StateTyped', flags'.modes = flags.modes,
         UNCHANGED <<threadFrame, control, input, shadow, written>>
  PROVE  IInv'
<1>1. thread[t].pc \notin Ended /\ Idle(pc) \in Records /\ Idle(pc).pc = pc
  BY IdleType DEF Ended
<1>2. /\ ~timedOut => flags.modes = shadow
      /\ ~timedOut /\ ctx => Agree(written)
      /\ ~ctx => written = {}
  BY <1>1, StepFrom DEF Follows, Mirrored
<1>3. /\ InputTyped' /\ shadow' \subseteq Modes /\ written' \subseteq Modes
      /\ ~ctx => written' = {}
  BY <1>2, InputSame DEF IInv, MainTyped
<1>4. ~timedOut => Follows(Idle(pc))'
  BY <1>1, <1>2 DEF Follows
<1>5. ~timedOut /\ ctx => Mirrored(Idle(pc))'
  BY <1>1, <1>2 DEF Mirrored, Agree
<1> QED
  BY <1>1, <1>3, <1>4, <1>5, StepInv

LEMMA AidInv == ASSUME IInv, NEW t \in Threads, Aid(t) PROVE IInv'
<1>1. /\ thread[t].pc = "aid" /\ thread' = [thread EXCEPT ![t] = Idle("loop")]
      /\ UNCHANGED <<threadFrame, control, input, shadow, written>>
      /\ flags' = [flags EXCEPT !.stats = IF thread[t].key = "s" THEN ~@ ELSE @]
  BY DEF Aid, Goto, At
<1>2. debug' \in [bypass : BOOLEAN, dump : BOOLEAN]
  BY DEF Aid, IInv, StateTyped
<1>3. /\ flags' \in [rt : BOOLEAN, stats : BOOLEAN, modes : SUBSET Modes]
      /\ flags'.modes = flags.modes
  BY <1>1 DEF IInv, StateTyped
<1>4. StateTyped'
  BY <1>1, <1>2, <1>3 DEF IInv, StateTyped, threadFrame
<1> QED
  BY <1>1, <1>3, <1>4, AsideInv

LEMMA QuitInv == ASSUME IInv, NEW t \in Threads, Quit(t) PROVE IInv'
<1>1. /\ thread[t].pc = "quit" /\ thread' = [thread EXCEPT ![t] = Idle("quitted")]
      /\ UNCHANGED <<threadFrame, control, debug, input, shadow, written>>
      /\ flags' = [flags EXCEPT !.rt = FALSE]
  BY DEF Quit, Goto, At
<1>2. StateTyped' /\ flags'.modes = flags.modes
  BY <1>1 DEF IInv, StateTyped, threadFrame
<1> QED
  BY <1>1, <1>2, AsideInv

-----------------------------------------------------------------------------
(* The main program.                                                        *)

(* Steps that neither begin nor end a thread, nor touch what the keys do.   *)
LEMMA MainQuiet ==
  ASSUME IInv, main' \in MainStates \ {"create", "ctx"}, HasThread' <=> HasThread,
         startup' \subseteq Modes, InputTyped', running' \in BOOLEAN,
         UNCHANGED <<flags, initialized, ctx, control, debug, thread, created, history>>
  PROVE  IInv'
<1> USE DEF IInv
<1>1. UNCHANGED <<flags, initialized, ctx, control, debug, thread, created, shadow, written, timedOut>>
  BY DEF history
<1>2. StateTyped' /\ MainTyped' /\ ThreadTyped'
  BY <1>1 DEF StateTyped, MainTyped, ThreadTyped, At
<1>3. OneThread'
  BY <1>1 DEF OneThread
<1>4. FlagsInv' /\ ControlInv'
  BY <1>1 DEF FlagsInv, ControlInv, Follows, Mirrored, Agree
<1> QED
  BY <1>2, <1>3, <1>4

LEMMA PromptInv == ASSUME IInv, Prompt PROVE IInv'
  BY MainQuiet, InputSame
     DEF Prompt, MainStep, mainFrame, HasThread, MainStates, IInv, MainTyped, StateTyped

LEMMA ChooseInv == ASSUME IInv, Choose PROVE IInv'
<1>1. InputTyped'
  BY InputKept, InputSame DEF Choose, IInv
<1>2. startup' \subseteq Modes
  BY DEF Choose, Chosen, Modes, IInv, MainTyped
<1>3. main = "choose" /\ main' \in {"choose", "init"}
  BY DEF Choose
<1>4. UNCHANGED <<flags, running, initialized, ctx, control, debug, thread, created, history>>
  BY DEF Choose, mainFrame
<1> QED
  BY <1>1, <1>2, <1>3, <1>4, MainQuiet DEF HasThread, MainStates, IInv, StateTyped

LEMMA ShutdownInv == ASSUME IInv, Shutdown PROVE IInv'
  BY MainQuiet, InputSame
     DEF Shutdown, MainStep, mainFrame, HasThread, MainStates, IInv, MainTyped

LEMMA AgainInv == ASSUME IInv, Again PROVE IInv'
  BY MainQuiet, InputSame
     DEF Again, MainStep, mainFrame, HasThread, MainStates, IInv, MainTyped, StateTyped

(* Before a thread is created none is left, and its flags are as asked for. *)
LEMMA NoneLeft ==
  ASSUME IInv, ~timedOut, main \in {"init", "create"}
  PROVE  /\ \A t \in Threads : thread[t].pc \in Ended
         /\ created # 0 => created \in Threads
  BY DEF IInv, OneThread, HasThread, MainTyped, Threads

LEMMA InitFlagsInv == ASSUME IInv, InitFlags PROVE IInv'
<1> USE DEF IInv
<1>1. /\ main = "init" /\ main' = "create"
      /\ flags' = [rt |-> TRUE, stats |-> TRUE, modes |-> startup]
      /\ running' = TRUE /\ initialized' = TRUE /\ ctx' = FALSE
      /\ shadow' = startup /\ written' = {}
      /\ UNCHANGED <<debug, created, startup, control, thread, input, timedOut>>
  BY DEF InitFlags, MainStep, mainFrame
<1>2. InputTyped' /\ StateTyped' /\ MainTyped' /\ ThreadTyped'
  BY <1>1, InputSame DEF StateTyped, MainTyped, MainStates, ThreadTyped, At
<1>3. OneThread'
  BY <1>1 DEF OneThread, HasThread
<1>4. FlagsInv'
  <2> SUFFICES ASSUME ~timedOut, created # 0 PROVE Follows(thread[created])'
    BY <1>1 DEF FlagsInv
  <2>1. thread[created].pc \in Ended
    BY <1>1, NoneLeft
  <2> QED
    BY <1>1, <2>1 DEF Follows, Ended
<1>5. ControlInv'
  BY <1>1 DEF ControlInv
<1> QED
  BY <1>2, <1>3, <1>4, <1>5

LEMMA CreateThreadInv == ASSUME IInv, CreateThread PROVE IInv'
<1> USE DEF IInv
<1>1. /\ main = "create" /\ ~ctx /\ written = {}
      /\ UNCHANGED <<startup, flags, running, ctx, control, debug, input, shadow, written, timedOut>>
  BY DEF CreateThread, ControlInv, history
<1>2. InputTyped'
  BY <1>1, InputSame
<1>3. ControlInv'
  BY <1>1 DEF ControlInv
<1>4. CASE /\ created < MaxThreads /\ created' = created + 1
           /\ thread' = [thread EXCEPT ![created + 1] = Idle("loop")]
           /\ main' = "ctx" /\ UNCHANGED initialized
  <2>1. created \in Nat /\ created' \in Threads /\ created' > created /\ created' # 0
        /\ created' \in 0 .. MaxThreads
    BY <1>4, Sizes DEF MainTyped, Threads
  <2>2. thread \in [Threads -> Records]
    BY DEF ThreadTyped
  <2>3. thread' = [thread EXCEPT ![created'] = Idle("loop")]
    BY <1>4
  <2>4. /\ thread'[created'] = Idle("loop") /\ thread' \in [Threads -> Records]
        /\ Idle("loop").pc = "loop"
        /\ \A t \in Threads : t # created' => thread'[t] = thread[t]
    BY <2>1, <2>2, <2>3, IdleType
  <2>5. StateTyped' /\ MainTyped'
    BY <1>1, <1>4, <2>1 DEF StateTyped, MainTyped, MainStates
  <2>6. ThreadTyped'
    <3>1. \A t \in Threads : t > created' => t > created /\ t # created'
      BY <1>4, <2>1 DEF Threads
    <3> QED
      BY <2>4, <3>1 DEF ThreadTyped, At
  <2>7. OneThread'
    BY <1>1, <1>4, <2>1, <2>4 DEF OneThread, HasThread
  <2>8. ~timedOut => flags.modes = shadow
    <3>1. initialized
      BY <1>1 DEF OneThread
    <3>2. ~timedOut /\ created # 0 => thread[created].pc \in Ended
      BY <1>1, NoneLeft
    <3> QED
      BY <3>1, <3>2 DEF FlagsInv, Follows, Ended
  <2>9. FlagsInv'
    BY <1>1, <2>1, <2>4, <2>8 DEF FlagsInv, Follows
  <2> QED
    BY <1>2, <1>3, <2>5, <2>6, <2>7, <2>9
<1>5. CASE main' = "failed" /\ initialized' = FALSE /\ UNCHANGED <<created, thread>>
  <2>1. StateTyped' /\ MainTyped' /\ ThreadTyped'
    BY <1>1, <1>5 DEF StateTyped, MainTyped, MainStates, ThreadTyped, At
  <2>2. OneThread' /\ FlagsInv'
    BY <1>1, <1>5 DEF OneThread, HasThread, FlagsInv
  <2> QED
    BY <1>2, <1>3, <2>1, <2>2
<1> QED
  BY <1>4, <1>5 DEF CreateThread

LEMMA SetPipelineCtxInv == ASSUME IInv, SetPipelineCtx PROVE IInv'
<1> USE DEF IInv
<1>1. /\ main = "ctx" /\ main' = "run" /\ ctx' = TRUE /\ control' \subseteq Modes
      /\ UNCHANGED <<debug, created, startup, flags, running, initialized, thread, input,
                     shadow, written, timedOut>>
  BY DEF SetPipelineCtx, MainStep, mainFrame, history
<1>2. InputTyped' /\ StateTyped' /\ MainTyped' /\ ThreadTyped'
  BY <1>1, InputSame DEF StateTyped, MainTyped, MainStates, ThreadTyped, At
<1>3. OneThread'
  BY <1>1 DEF OneThread, HasThread
<1>4. FlagsInv'
  BY <1>1 DEF FlagsInv, Follows
<1>5. written' = {} /\ created' # 0
  BY <1>1 DEF ControlInv, OneThread, HasThread
<1>6. ControlInv'
  BY <1>1, <1>5 DEF ControlInv, Mirrored, Agree
<1> QED
  BY <1>2, <1>3, <1>4, <1>6

LEMMA JoinInv == ASSUME IInv, Join \/ JoinTimeout PROVE IInv'
<1> USE DEF IInv
<1>1. /\ main = "join" /\ main' = "over" /\ initialized' = FALSE
      /\ \/ thread[created].pc \in Ended /\ timedOut' = timedOut
         \/ timedOut' = TRUE
      /\ UNCHANGED <<debug, created, startup, flags, running, ctx, control, thread, input,
                     shadow, written>>
  BY DEF Join, JoinTimeout, MainStep, mainFrame, history
<1>2. InputTyped' /\ StateTyped' /\ MainTyped' /\ ThreadTyped'
  BY <1>1, InputSame DEF StateTyped, MainTyped, MainStates, ThreadTyped, At
<1>3. OneThread' /\ FlagsInv'
  BY <1>1 DEF OneThread, HasThread, FlagsInv
<1>4. ControlInv'
  BY <1>1 DEF ControlInv, Mirrored, Agree, MainTyped
<1> QED
  BY <1>2, <1>3, <1>4

-----------------------------------------------------------------------------
(* gRPC sets an entry of the control block, which is no key's from then on. *)
LEMMA GrpcSetInv == ASSUME IInv, GrpcSet PROVE IInv'
<1> USE DEF IInv
<1>1. PICK m \in Modes, on \in BOOLEAN : control' = SetTo(control, m, on) /\ written' = written \ {m}
  BY DEF GrpcSet
<1>2. /\ ctx
      /\ UNCHANGED <<main, startup, flags, running, initialized, ctx, debug, thread, created, input,
                     shadow, timedOut>>
  BY DEF GrpcSet
<1>3. InputTyped' /\ StateTyped' /\ MainTyped' /\ ThreadTyped'
  BY <1>1, <1>2, InputSame DEF StateTyped, MainTyped, ThreadTyped, SetTo
<1>4. OneThread'
  BY <1>2 DEF OneThread, HasThread
<1>5. FlagsInv'
  BY <1>2 DEF FlagsInv, Follows
<1>6. \A S : S \subseteq written /\ Agree(S) => (S \ {m}) \cap control' = (S \ {m}) \cap flags.modes
  BY <1>1 DEF Agree, SetTo
<1>7. ~timedOut => Mirrored(thread[created])'
  <2> SUFFICES ASSUME ~timedOut PROVE Mirrored(thread[created])'
    OBVIOUS
  <2>1. Mirrored(thread[created])
    BY <1>2 DEF ControlInv
  <2>2. CASE thread[created].pc = "mirror"
    <3> DEFINE S == written \ {ModeOf[thread[created].key]}
    <3>1. (S \ {m}) \cap control' = (S \ {m}) \cap flags.modes
      BY <1>6, <2>1, <2>2 DEF Mirrored
    <3>2. (S \ {m}) = written' \ {ModeOf[thread[created].key]}
      BY <1>1
    <3> QED
      BY <1>2, <2>2, <3>1, <3>2 DEF Mirrored, Agree
  <2>3. CASE thread[created].pc = "unmirror"
    BY <1>1, <1>2, <2>1, <2>3 DEF Mirrored, SetTo
  <2>4. CASE thread[created].pc \notin {"mirror", "unmirror"}
    BY <1>1, <1>2, <1>6, <2>1, <2>4 DEF Mirrored, Agree
  <2> QED
    BY <2>2, <2>3, <2>4
<1>8. ControlInv'
  BY <1>2, <1>7 DEF ControlInv
<1> QED
  BY <1>3, <1>4, <1>5, <1>8

-----------------------------------------------------------------------------
(* The invariant is inductive. *)
LEMMA NextInv == IInv /\ [Next]_vars => IInv'
<1> SUFFICES ASSUME IInv, [Next]_vars PROVE IInv'
  OBVIOUS
<1>1. CASE UNCHANGED vars
  <2>1. UNCHANGED <<main, startup, flags, running, initialized, ctx, control, debug, thread, created,
                    input, history>>
    BY <1>1 DEF vars, state
  <2>2. InputTyped' /\ HasThread' = HasThread
    BY <2>1, InputSame DEF IInv, HasThread
  <2>3. UNCHANGED <<shadow, written, timedOut>>
    BY <2>1 DEF history
  <2>4. StateTyped' /\ MainTyped' /\ ThreadTyped'
    BY <2>1, <2>3 DEF IInv, StateTyped, MainTyped, ThreadTyped, At
  <2>5. OneThread'
    BY <2>1, <2>2, <2>3 DEF IInv, OneThread
  <2>6. FlagsInv' /\ ControlInv'
    BY <2>1, <2>3 DEF IInv, FlagsInv, ControlInv, Follows, Mirrored, Agree
  <2> QED
    BY <2>2, <2>4, <2>5, <2>6 DEF IInv
<1>2. ASSUME NEW t \in Threads, Console(t)
      PROVE  IInv'
  BY <1>2, LoopInv, SelectInv, FgetsInv, FgetsPartInv, FgetsEofInv, LoadInv, StoreInv, MirrorInv,
     ClearInv, ClearControlInv, AidInv, QuitInv DEF Console
<1>3. CASE Main
  BY <1>3, PromptInv, ChooseInv, InitFlagsInv, CreateThreadInv, SetPipelineCtxInv, ShutdownInv,
     JoinInv, AgainInv DEF Main
<1> QED
  BY <1>1, <1>2, <1>3, TypeInv, GrpcSetInv DEF Next

(* The invariant holds of every behaviour of the console: any keys, any     *)
(* number of lines and of initialisations.                                  *)
THEOREM Inductive == Spec => []IInv
BY InitInv, NextInv, PTL DEF Spec

(* The types are kept (TypeOK). *)
THEOREM TypeCorrect == Spec => []TypeOK
<1>1. IInv => TypeOK
  BY DEF IInv, InputTyped, StateTyped, MainTyped, ThreadTyped, Records, TypeOK
<1> QED
  BY <1>1, Inductive, PTL

(* Whenever no key is being executed, and until a join has left a thread    *)
(* behind, the modes of the flags are the ones the startup choice and the   *)
(* keys taken since ask for, each independent of the others                 *)
(* (ModesFollowKeys).                                                       *)
THEOREM ModesFollow == Spec => []ModesFollowKeys
<1>1. IInv => ModesFollowKeys
  <2> SUFFICES ASSUME IInv, initialized, AtRest, ~timedOut PROVE flags.modes = shadow
    BY DEF ModesFollowKeys
  <2>1. created # 0 => created \in Threads
    BY DEF IInv, MainTyped, Threads
  <2>2. created # 0 => thread[created].pc \notin {"load", "store", "mirror", "clear", "unmirror"}
    BY <2>1 DEF AtRest, Executing
  <2> QED
    BY <2>2 DEF IInv, FlagsInv, Follows
<1> QED
  BY <1>1, Inductive, PTL

(* And the entries of the pipeline's control block that a key wrote last are *)
(* those of the flags, whatever steps of a key, of the block's hand-over and *)
(* of gRPC came between one another (ControlAgrees); of entries set by the   *)
(* hand-over or by gRPC since, it says nothing.                              *)
THEOREM ControlMatches == Spec => []ControlAgrees
<1>1. IInv => ControlAgrees
  <2> SUFFICES ASSUME IInv, ctx, AtRest, ~timedOut
               PROVE  written \cap control = written \cap flags.modes
    BY DEF ControlAgrees
  <2>1. created \in Threads /\ Mirrored(thread[created])
    BY DEF IInv, ControlInv, MainTyped, Threads
  <2>2. thread[created].pc \notin {"load", "store", "mirror", "clear", "unmirror"}
    BY <2>1 DEF AtRest, Executing
  <2> QED
    BY <2>1, <2>2 DEF Mirrored, Agree
<1> QED
  BY <1>1, Inductive, PTL
=============================================================================
