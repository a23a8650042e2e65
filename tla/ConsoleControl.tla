--------------------------- MODULE ConsoleControl ---------------------------
(***************************************************************************)
(* The console of the 8T8R platform server (console_control.h): a thread   *)
(* that waits on the standard input with select, takes a line with fgets,  *)
(* and executes it as a key; the main program, which asks for the startup  *)
(* modes on the same input, starts the thread, reads the flags it keeps,   *)
(* and ends it with a join of two seconds.                                 *)
(*                                                                         *)
(* A line is the key it stands for.  The input is a terminal or a pipe: a  *)
(* read may take several lines into the buffer of stdin, which select does *)
(* not see, and a line may be there in part.                               *)
(***************************************************************************)
EXTENDS Naturals, Sequences, FiniteSets

CONSTANTS Keys,        \* keys typed, among the menu's, the startup choices and others
          MaxLines,    \* bound on the lines typed
          ReadLines,   \* most lines a read of the input takes
          MaxThreads   \* bound on the calls of console_control_init

NoKey == "none"
Modes == {"dsp", "log", "ip"}
Threads == 1 .. MaxThreads

ASSUME ConsoleAssumption ==
  /\ {ReadLines, MaxThreads} \subseteq Nat \ {0} /\ MaxLines \in Nat
  /\ NoKey \notin Keys

VARIABLES
  main,         \* main program: see MainStates
  startup,      \* set of modes it starts with
  flags,        \* g_console_ctrl.flags
  running,      \* g_console_ctrl.thread_running
  initialized,  \* g_console_ctrl.initialized
  ctx,          \* pipeline_ctx is set
  control,      \* set of modes enabled in its RuntimeControl
  debug,        \* its [bypass, dump]
  thread,       \* thread -> [pc, key, old, step]
  created,      \* threads created; the last one is console_thread
  kern, buf,    \* lines in the kernel, and in the buffer of stdin
  partial,      \* a line has been typed in part
  partialRead,  \* what there is of it is in the buffer of stdin
  eof,          \* end of the input
  typed,        \* lines typed so far
  shadow,       \* history: the modes the keys taken so far ask for
  written,      \* history: modes whose entry in control a key wrote last
  timedOut      \* history: a join has timed out

state   == <<flags, running, initialized, ctx, control, debug>>
input   == <<kern, buf, partial, partialRead, eof, typed>>
history == <<shadow, written, timedOut>>
vars == <<main, startup, state, thread, created, input, history>>

MainStates == {"prompt", "choose", "init", "create", "ctx", "run", "join", "over", "failed"}
Executing == {"load", "store", "mirror", "clear", "unmirror", "aid", "quit"}
Ended == {"none", "done", "quitted", "failed", "eof"}

(* No key being executed. *)
Idle(pc) == [pc |-> pc, key |-> NoKey, old |-> FALSE, step |-> 0]

Init ==
  /\ main = "prompt" /\ startup = {"log"}
  /\ flags = [rt |-> FALSE, stats |-> FALSE, modes |-> {}]
  /\ running = FALSE /\ initialized = FALSE /\ ctx = FALSE
  /\ control = {} /\ debug = [bypass |-> FALSE, dump |-> FALSE]
  /\ thread = [t \in Threads |-> Idle("none")]
  /\ created = 0
  /\ kern = <<>> /\ buf = <<>> /\ partial = FALSE /\ partialRead = FALSE
  /\ eof = FALSE /\ typed = 0
  /\ shadow = {} /\ written = {} /\ timedOut = FALSE

-----------------------------------------------------------------------------
(* The standard input. *)

outside == <<main, startup, state, thread, created, history>>

TypeLine ==
  /\ ~eof /\ ~partial /\ typed < MaxLines
  /\ \E k \in Keys : kern' = Append(kern, k)
  /\ typed' = typed + 1
  /\ UNCHANGED <<outside, buf, partial, partialRead, eof>>

TypePart ==
  /\ ~eof /\ ~partial /\ typed < MaxLines
  /\ partial' = TRUE
  /\ typed' = typed + 1
  /\ UNCHANGED <<outside, kern, buf, partialRead, eof>>

(* The rest of a line comes, or the input ends: fgets takes the line as it is. *)
EndLine ==
  /\ partial
  /\ \E k \in Keys : kern' = Append(kern, k)
  /\ partial' = FALSE /\ partialRead' = FALSE
  /\ eof' \in BOOLEAN
  /\ UNCHANGED <<outside, buf, typed>>

EndInput ==
  /\ ~eof /\ ~partial
  /\ eof' = TRUE
  /\ UNCHANGED <<outside, kern, buf, partial, partialRead, typed>>

(* What select sees: the kernel's side only. *)
InputReady == kern # <<>> \/ (partial /\ ~partialRead) \/ eof

(* fgets: the next line of the buffer, which a read fills when it is empty. *)
GetLine(k) ==
  \/ /\ buf # <<>> /\ k = Head(buf)
     /\ buf' = Tail(buf)
     /\ UNCHANGED <<kern, partial, partialRead, eof, typed>>
  \/ /\ buf = <<>> /\ kern # <<>> /\ k = Head(kern)
     /\ \E n \in 1 .. Len(kern) :
          /\ n <= ReadLines
          /\ buf' = SubSeq(kern, 2, n)
          /\ kern' = SubSeq(kern, n + 1, Len(kern))
          /\ partialRead' = (n = Len(kern) /\ partial)
     /\ UNCHANGED <<partial, eof, typed>>

(* Part of a line is all there is: fgets blocks for the rest of it. *)
GetPart ==
  /\ buf = <<>> /\ kern = <<>> /\ partial /\ ~partialRead
  /\ partialRead' = TRUE
  /\ UNCHANGED <<kern, buf, partial, eof, typed>>

InputOver == buf = <<>> /\ kern = <<>> /\ ~partial /\ eof

-----------------------------------------------------------------------------
(* Console thread: console_thread_main. *)

At(t, pc) == thread[t].pc = pc
Goto(t, pc) == thread' = [thread EXCEPT ![t] = Idle(pc)]
ModeOf == [d |-> "dsp", l |-> "log", i |-> "ip"]
ModeKeys == DOMAIN ModeOf

threadFrame == <<main, startup, running, initialized, ctx, created, timedOut>>

Loop(t) ==
  /\ At(t, "loop")
  /\ Goto(t, IF running THEN "select" ELSE "done")
  /\ UNCHANGED <<threadFrame, flags, control, debug, input, shadow, written>>

(* Input, or one second without any, or an interrupted call. *)
Select(t) ==
  /\ At(t, "select")
  /\ \/ InputReady /\ Goto(t, "fgets")
     \/ ~InputReady /\ Goto(t, "loop")
     \/ Goto(t, "failed")
  /\ UNCHANGED <<threadFrame, flags, control, debug, input, shadow, written>>

\* Variant: a line that is no command ends the thread.
StrictFirstStep(k) ==
  CASE k \in ModeKeys -> "load" [] k = "x" -> "clear" [] k \in {"b", "p", "s"} -> "aid"
    [] k = "q" -> "quit" [] OTHER -> "eof"

FirstStep(k) ==
  CASE k \in ModeKeys -> "load" [] k = "x" -> "clear" [] k \in {"b", "p", "s"} -> "aid"
    [] k = "q" -> "quit" [] OTHER -> "loop"

Toggled(S, m) == IF m \in S THEN S \ {m} ELSE S \cup {m}

Fgets(t) ==
  /\ At(t, "fgets")
  /\ \E k \in Keys :
       /\ GetLine(k)
       /\ thread' = [thread EXCEPT ![t] =
                       IF FirstStep(k) = "loop" THEN Idle("loop")
                       ELSE [pc |-> FirstStep(k), key |-> k, old |-> FALSE, step |-> 1]]
       /\ shadow' = CASE k \in ModeKeys -> Toggled(shadow, ModeOf[k])
                      [] k = "x"        -> {}
                      [] OTHER          -> shadow
  /\ UNCHANGED <<threadFrame, flags, control, debug, written>>

FgetsPart(t) ==
  /\ At(t, "fgets") /\ GetPart
  /\ UNCHANGED <<threadFrame, flags, control, debug, thread, shadow, written>>

FgetsEof(t) ==
  /\ At(t, "fgets") /\ InputOver
  /\ Goto(t, "eof")
  /\ UNCHANGED <<threadFrame, flags, control, debug, input, shadow, written>>

(* d, l and i: the flag is loaded ... *)
Load(t) ==
  /\ At(t, "load")
  /\ thread' = [thread EXCEPT ![t].pc = "store", ![t].old = ModeOf[thread[t].key] \in flags.modes]
  /\ UNCHANGED <<threadFrame, flags, control, debug, input, shadow, written>>

SetTo(S, m, on) == IF on THEN S \cup {m} ELSE S \ {m}

\* Variant: a mode that is switched on takes the place of the others.
ExclusiveStore(t) ==
  /\ At(t, "store")
  /\ LET m == ModeOf[thread[t].key]
     IN  flags' = [flags EXCEPT !.modes = IF thread[t].old THEN @ \ {m} ELSE {m}]
  /\ thread' = [thread EXCEPT ![t].pc = "mirror"]
  /\ UNCHANGED <<threadFrame, control, debug, input, shadow, written>>

(* ... its negation stored ... *)
Store(t) ==
  /\ At(t, "store")
  /\ flags' = [flags EXCEPT !.modes = SetTo(@, ModeOf[thread[t].key], ~thread[t].old)]
  /\ thread' = [thread EXCEPT ![t].pc = "mirror"]
  /\ UNCHANGED <<threadFrame, control, debug, input, shadow, written>>

(* ... and copied to the pipeline's own control block, once there is one. *)
Mirror(t) ==
  /\ At(t, "mirror")
  /\ LET m == ModeOf[thread[t].key]
     IN  IF ctx THEN /\ control' = SetTo(control, m, ~thread[t].old)
                     /\ written' = written \cup {m}
                ELSE UNCHANGED <<control, written>>
  /\ Goto(t, "loop")
  /\ UNCHANGED <<threadFrame, flags, debug, input, shadow>>

ClearOrder == <<"dsp", "log", "ip">>

\* Variant: the control block is left as it is.
FlagsOnlyClear(t) ==
  /\ At(t, "clear")
  /\ flags' = [flags EXCEPT !.modes = @ \ {ClearOrder[thread[t].step]}]
  /\ thread' = [thread EXCEPT ![t].step = @ + 1,
                  ![t].pc = IF thread[t].step = Len(ClearOrder) THEN "loop" ELSE "clear"]
  /\ UNCHANGED <<threadFrame, control, debug, input, shadow, written>>

(* x: the flags are cleared one by one, then, if there is a control block,  *)
(* its entries.                                                             *)
Clear(t) ==
  /\ At(t, "clear")
  /\ flags' = [flags EXCEPT !.modes = @ \ {ClearOrder[thread[t].step]}]
  /\ thread' = [thread EXCEPT ![t].step = IF @ = Len(ClearOrder) THEN 1 ELSE @ + 1,
                  ![t].pc = IF thread[t].step = Len(ClearOrder) THEN "unmirror" ELSE "clear"]
  /\ UNCHANGED <<threadFrame, control, debug, input, shadow, written>>

ClearControl(t) ==
  /\ At(t, "unmirror")
  /\ LET s == thread[t].step
     IN  \/ /\ ctx
            /\ control' = control \ {ClearOrder[s]} /\ written' = written \cup {ClearOrder[s]}
            /\ IF s = Len(ClearOrder) THEN Goto(t, "loop")
               ELSE thread' = [thread EXCEPT ![t].step = s + 1]
         \/ ~ctx /\ Goto(t, "loop") /\ UNCHANGED <<control, written>>
  /\ UNCHANGED <<threadFrame, flags, debug, input, shadow>>

(* b and p, debugging aids of the pipeline, and s: no mode is concerned. *)
Aid(t) ==
  /\ At(t, "aid")
  /\ LET k == thread[t].key
     IN  /\ debug' = [bypass |-> IF ctx /\ k = "b" THEN ~debug.bypass ELSE debug.bypass,
                      dump   |-> debug.dump \/ (ctx /\ k = "p")]
         /\ flags' = [flags EXCEPT !.stats = IF k = "s" THEN ~@ ELSE @]
  /\ Goto(t, "loop")
  /\ UNCHANGED <<threadFrame, control, input, shadow, written>>

(* q asks the main program to stop and ends the thread. *)
Quit(t) ==
  /\ At(t, "quit")
  /\ flags' = [flags EXCEPT !.rt = FALSE]
  /\ Goto(t, "quitted")
  /\ UNCHANGED <<threadFrame, control, debug, input, shadow, written>>

(* fgets has nothing to return and waits: the thread cannot see the flag.   *)
Blocked(t) == At(t, "fgets") /\ buf = <<>> /\ kern = <<>> /\ ~eof

-----------------------------------------------------------------------------
(* Main program. *)

mainFrame == <<debug, created>>
MainStep(from, to) == main = from /\ main' = to

(* console_control_prompt_settings: input within five seconds ... *)
Prompt ==
  /\ MainStep("prompt", IF InputReady THEN "choose" ELSE "init")
  /\ UNCHANGED <<mainFrame, startup, flags, running, initialized, ctx, control, thread, input,
                 history>>

Chosen(k) ==
  CASE k = "2" -> {"dsp"} [] k = "3" -> {"ip"} [] k = "4" -> Modes [] OTHER -> {"log"}

(* ... is a choice, whatever it says; fgets may have to wait for its end.   *)
Choose ==
  /\ main = "choose"
  /\ \/ \E k \in Keys : GetLine(k) /\ startup' = Chosen(k) /\ main' = "init"
     \/ GetPart /\ UNCHANGED <<startup, main>>
     \/ InputOver /\ main' = "init" /\ UNCHANGED <<input, startup>>
  /\ UNCHANGED <<mainFrame, flags, running, initialized, ctx, control, thread, history>>

(* console_control_init: the flags ... *)
InitFlags ==
  /\ MainStep("init", "create") /\ ~initialized
  /\ flags' = [rt |-> TRUE, stats |-> TRUE, modes |-> startup]
  /\ running' = TRUE /\ initialized' = TRUE /\ ctx' = FALSE
  /\ shadow' = startup /\ written' = {}
  /\ UNCHANGED <<mainFrame, startup, control, thread, input, timedOut>>

(* ... and the thread, which may not be had. *)
CreateThread ==
  /\ main = "create"
  /\ \/ /\ created < MaxThreads
        /\ created' = created + 1
        /\ thread' = [thread EXCEPT ![created + 1] = Idle("loop")]
        /\ main' = "ctx" /\ UNCHANGED initialized
     \/ main' = "failed" /\ initialized' = FALSE /\ UNCHANGED <<created, thread>>
  /\ UNCHANGED <<startup, flags, running, ctx, control, debug, input, history>>

(* console_set_pipeline_ctx, with a control block that its caller, whose     *)
(* source is not here, may have set up in any way.                           *)
SetPipelineCtx ==
  /\ MainStep("ctx", "run")
  /\ ctx' = TRUE
  /\ control' \in SUBSET Modes
  /\ UNCHANGED <<mainFrame, startup, flags, running, initialized, thread, input, history>>

(* console_control_shutdown, when the loop flag is seen cleared or for a    *)
(* reason of the program's own: the thread is told ...                      *)
Shutdown ==
  /\ MainStep("run", "join")
  /\ running' = FALSE
  /\ UNCHANGED <<mainFrame, startup, flags, initialized, ctx, control, thread, input, history>>

(* ... and joined ... *)
Join ==
  /\ MainStep("join", "over") /\ thread[created].pc \in Ended
  /\ initialized' = FALSE
  /\ UNCHANGED <<mainFrame, startup, flags, running, ctx, control, thread, input, history>>

(* ... or left alone: only a thread in fgets is still there after two       *)
(* seconds, for select returns within one.                                  *)
JoinTimeout ==
  /\ MainStep("join", "over") /\ Blocked(created)
  /\ initialized' = FALSE
  /\ timedOut' = TRUE
  /\ UNCHANGED <<mainFrame, startup, flags, running, ctx, control, thread, input, shadow, written>>

(* A console shut down can be initialised again. *)
Again ==
  /\ MainStep("over", "init") /\ created < MaxThreads
  /\ UNCHANGED <<mainFrame, startup, flags, running, initialized, ctx, control, thread, input,
                 history>>

-----------------------------------------------------------------------------
(* The gRPC server sets a mode in the control block (pipeline.h: "Flags are  *)
(* driven exclusively by gRPC via the control SHM").                         *)
GrpcSet ==
  /\ ctx
  /\ \E m \in Modes, on \in BOOLEAN : /\ control' = SetTo(control, m, on)
                                      /\ written' = written \ {m}
  /\ UNCHANGED <<main, startup, flags, running, initialized, ctx, debug, thread, created, input,
                 shadow, timedOut>>

-----------------------------------------------------------------------------
Type == TypeLine \/ TypePart \/ EndLine \/ EndInput
Console(t) == Loop(t) \/ Select(t) \/ Fgets(t) \/ FgetsPart(t) \/ FgetsEof(t) \/ Load(t)
              \/ Store(t) \/ Mirror(t) \/ Clear(t) \/ ClearControl(t) \/ Aid(t) \/ Quit(t)
Main == Prompt \/ Choose \/ InitFlags \/ CreateThread \/ SetPipelineCtx \/ Shutdown \/ Join
        \/ JoinTimeout \/ Again
Next == Type \/ (\E t \in Threads : Console(t)) \/ Main \/ GrpcSet

Spec == Init /\ [][Next]_vars

(* The threads are scheduled; nobody must type. *)
FairSpec == Spec /\ \A t \in Threads : WF_vars(Console(t))
-----------------------------------------------------------------------------
(* Type invariant. *)
TypeOK ==
  /\ main \in MainStates /\ startup \subseteq Modes
  /\ flags \in [rt : BOOLEAN, stats : BOOLEAN, modes : SUBSET Modes]
  /\ running \in BOOLEAN /\ initialized \in BOOLEAN /\ ctx \in BOOLEAN
  /\ control \subseteq Modes /\ debug \in [bypass : BOOLEAN, dump : BOOLEAN]
  /\ thread \in [Threads -> [pc : Executing \cup Ended \cup {"loop", "select", "fgets"},
                             key : Keys \cup {NoKey}, old : BOOLEAN, step : 0 .. 4]]
  /\ created \in 0 .. MaxThreads
  /\ kern \in Seq(Keys) /\ buf \in Seq(Keys)
  /\ partial \in BOOLEAN /\ partialRead \in BOOLEAN
  /\ eof \in BOOLEAN /\ typed \in 0 .. MaxLines
  /\ shadow \subseteq Modes /\ written \subseteq Modes /\ timedOut \in BOOLEAN

AtRest == \A t \in Threads : thread[t].pc \notin Executing

(* The modes are those the keys ask for, each independent of the others,     *)
(* whenever no key is being executed, as long as there is one console thread.*)
ModesFollowKeys == (initialized /\ AtRest /\ ~timedOut) => flags.modes = shadow

(* The entries of the pipeline's control block that a key wrote last are     *)
(* those of the flags, whatever steps of a key, of the hand-over of the      *)
(* block and of gRPC came between one another.  Nothing is said of the       *)
(* others: a key executed before the hand-over, and a mode set over gRPC     *)
(* after the key, change one of the two and not the other.                   *)
ControlAgrees ==
  (ctx /\ AtRest /\ ~timedOut) => written \cap control = written \cap flags.modes

(* A line does not stay in the kernel, nor, once the input has ended, in the *)
(* buffer of stdin, while the console thread lives: a line that several came *)
(* with in one read may wait for the next input, but no longer.              *)
LinesTaken ==
  (main = "run" /\ (kern # <<>> \/ (eof /\ buf # <<>>)))
    ~> \/ kern = <<>> /\ (eof => buf = <<>>)
       \/ main # "run" \/ thread[created].pc \in {"done", "quitted", "failed"}
=============================================================================
