--------------------------- MODULE PlaybackControl ---------------------------
(***************************************************************************)
(* The 8T8R playback control server (playback_grpc_server.py), the file it *)
(* edits and the playback processes it starts.                             *)
(*                                                                         *)
(* Worker threads serve calls side by side with no lock.  A Set call reads *)
(* config.ini, changes one line, writes the whole to a temporary file and  *)
(* renames it; Start and Stop share self.proc.  Files are inodes under the *)
(* names config.ini and config.ini.tmp: a worker that has opened the       *)
(* temporary file keeps its inode whatever the name comes to mean.         *)
(*                                                                         *)
(* Requests whose value does not validate are answered with an error and   *)
(* leave no trace; they are not modelled.                                  *)
(***************************************************************************)
EXTENDS ConfigFile

CONSTANTS Workers,      \* worker threads
          Strict,       \* keys whose value the snapshot converts unguarded
          MaxCalls,     \* bound on the calls served
          MaxRestarts   \* bound on restarts of the server

Inodes == 1 .. (2 + Cardinality(Workers))
Children == 1 .. MaxCalls
None == 0

ASSUME ControlAssumption ==
  /\ IsFiniteSet(Workers) /\ Strict \subseteq Keys
  /\ MaxCalls \in Nat /\ MaxRestarts \in Nat

VARIABLES
  inode, cfg, tmp,   \* inode -> content; inodes named config.ini and config.ini.tmp
  call,              \* worker -> the call it serves
  answer,            \* worker -> outcome of its last call
  proc,              \* self.proc: a child or None
  child,             \* child -> "none", "boot", "init", "play", "ending", "dead"
  played,            \* child -> the values it loaded
  calls, restarts,   \* counted against their bounds
  apart,             \* history: no two Set calls have overlapped
  calm               \* history: no two process calls have overlapped, and no
                     \* restart has left a child behind

fileVars  == <<inode, cfg, tmp>>
childVars == <<proc, child, played>>
histVars  == <<restarts, apart, calm>>
vars == <<fileVars, call, answer, childVars, calls, histVars>>

Idle == [pc |-> "idle", key |-> "junk", val |-> Malformed, lines |-> <<>>, fd |-> None]
SetSteps  == {"read", "open", "write", "replace", "snapshot"}
ProcSteps == {"spawn", "started", "signal", "wait", "waiting", "clear"}
At(w, pc) == call[w].pc = pc
Goto(w, pc) == call' = [call EXCEPT ![w].pc = pc]
InFlight(steps) == {w \in Workers : call[w].pc \in steps}

Init ==
  /\ \E f \in Files : inode = [i \in Inodes |-> IF i = 1 THEN f ELSE <<>>]
  /\ cfg = 1 /\ tmp = None
  /\ call = [w \in Workers |-> Idle] /\ answer = [w \in Workers |-> "none"]
  /\ proc = None /\ child = [c \in Children |-> "none"]
  /\ played = [c \in Children |-> [k \in Keys |-> Default]]
  /\ calls = 0 /\ restarts = 0 /\ apart = TRUE /\ calm = TRUE

-----------------------------------------------------------------------------
(* Set calls: _set_and_snapshot, _rewrite_key, _snapshot.                   *)

(* int() of a malformed value raises, and the call fails. *)
SnapshotFails(lines) == \E k \in Strict : LastOf(lines, k) = Malformed

setFrame == <<childVars, calls, histVars>>
Answer(w, result) ==
  /\ call' = [call EXCEPT ![w] = Idle]
  /\ answer' = [answer EXCEPT ![w] = result]

SetBegin(w) ==
  /\ At(w, "idle") /\ calls < MaxCalls
  /\ \E k \in Keys, v \in Values :
       call' = [call EXCEPT ![w] =
                  [pc |-> "read", key |-> k, val |-> v, lines |-> <<>>, fd |-> None]]
  /\ calls' = calls + 1
  /\ apart' = (apart /\ InFlight(SetSteps) = {})
  /\ UNCHANGED <<fileVars, answer, childVars, restarts, calm>>

SetRead(w) ==
  /\ At(w, "read")
  /\ call' = [call EXCEPT ![w].lines = inode[cfg], ![w].pc = "open"]
  /\ UNCHANGED <<fileVars, answer, setFrame>>

\* Variant: the file is rewritten in place.
InPlaceSetOpen(w) ==
  /\ At(w, "open")
  /\ inode' = [inode EXCEPT ![cfg] = <<>>]
  /\ tmp' = cfg
  /\ call' = [call EXCEPT ![w].fd = cfg, ![w].pc = "write"]
  /\ UNCHANGED <<cfg, answer, setFrame>>

(* open(tmp, "w") creates the file or truncates the one another worker is   *)
(* writing.                                                                 *)
SetOpen(w) ==
  /\ At(w, "open")
  /\ LET used == {cfg} \cup {call[v].fd : v \in InFlight({"write"})}
         new  == IF tmp # None THEN tmp ELSE Min(Inodes \ used)
     IN  /\ inode' = [inode EXCEPT ![new] = <<>>]
         /\ tmp' = new
         /\ call' = [call EXCEPT ![w].fd = new, ![w].pc = "write"]
  /\ UNCHANGED <<cfg, answer, setFrame>>

SetWrite(w) ==
  /\ At(w, "write")
  /\ \E content \in WrittenOver(inode[call[w].fd],
                                Rewritten(call[w].lines, call[w].key, call[w].val)) :
       inode' = [inode EXCEPT ![call[w].fd] = content]
  /\ call' = [call EXCEPT ![w].fd = None, ![w].pc = "replace"]
  /\ UNCHANGED <<cfg, tmp, answer, setFrame>>

(* os.replace renames whatever file has the temporary name now; with none,  *)
(* it raises.                                                               *)
SetReplace(w) ==
  /\ At(w, "replace")
  /\ IF tmp # None
       THEN /\ cfg' = tmp /\ tmp' = None
            /\ Goto(w, "snapshot")
            /\ UNCHANGED answer
       ELSE Answer(w, "error") /\ UNCHANGED <<cfg, tmp>>
  /\ UNCHANGED <<inode, setFrame>>

SetSnapshot(w) ==
  /\ At(w, "snapshot")
  /\ Answer(w, IF SnapshotFails(inode[cfg]) THEN "error" ELSE "ok")
  /\ UNCHANGED <<fileVars, setFrame>>

(* An OSError ends the call; of a text being written some lines are there,   *)
(* under the temporary name, which stays.                                    *)
SetFails(w) ==
  /\ call[w].pc \in SetSteps
  /\ \/ ~At(w, "write") /\ UNCHANGED inode
     \/ /\ At(w, "write")
        /\ LET text == Rewritten(call[w].lines, call[w].key, call[w].val)
           IN  \E n \in 0 .. Len(text) :
                 \E content \in WrittenOver(inode[call[w].fd], SubSeq(text, 1, n)) :
                   inode' = [inode EXCEPT ![call[w].fd] = content]
  /\ Answer(w, "error")
  /\ UNCHANGED <<cfg, tmp, setFrame>>

-----------------------------------------------------------------------------
(* StartPlayback and StopPlayback.                                          *)

Alive(c) == c # None /\ child[c] \notin {"none", "dead"}
AliveChildren == {c \in Children : Alive(c)}
Running == Alive(proc)                   \* self.proc, polled

ProcCall(w, pc) ==
  /\ Goto(w, pc)
  /\ calm' = (calm /\ InFlight(ProcSteps) = {})
  /\ UNCHANGED answer
Refuse(w) == answer' = [answer EXCEPT ![w] = "error"] /\ UNCHANGED <<call, calm>>

\* Variant: the child in charge is not looked for.
CarelessStartBegin(w) ==
  /\ At(w, "idle") /\ calls < MaxCalls
  /\ ProcCall(w, "spawn")
  /\ calls' = calls + 1
  /\ UNCHANGED <<fileVars, childVars, restarts, apart>>

StartBegin(w) ==
  /\ At(w, "idle") /\ calls < MaxCalls
  /\ IF Running THEN Refuse(w) ELSE ProcCall(w, "spawn")
  /\ calls' = calls + 1
  /\ UNCHANGED <<fileVars, childVars, restarts, apart>>

StartSpawn(w) ==
  /\ At(w, "spawn")
  /\ LET c == Min({d \in Children : child[d] = "none"})
     IN  child' = [child EXCEPT ![c] = "boot"] /\ proc' = c
  /\ Goto(w, "started")
  /\ UNCHANGED <<fileVars, answer, played, calls, histVars>>

(* The reply reads self.proc.pid, which a Stop may have cleared. *)
StartReply(w) ==
  /\ At(w, "started")
  /\ Answer(w, IF proc = None THEN "error" ELSE "ok")
  /\ UNCHANGED <<fileVars, setFrame>>

StopBegin(w) ==
  /\ At(w, "idle") /\ calls < MaxCalls
  /\ IF Running THEN ProcCall(w, "signal") ELSE Refuse(w)
  /\ calls' = calls + 1
  /\ UNCHANGED <<fileVars, childVars, restarts, apart>>

(* SIGINT ends a child that has no handler yet, is lost on one that has and *)
(* initialises, and asks one that plays to end.                             *)
AfterSigint(state) ==
  CASE state = "boot" -> {"dead", "boot"}
    [] state = "play" -> {"ending"}
    [] OTHER          -> {state}

StopSignal(w) ==
  /\ At(w, "signal")
  /\ IF proc = None
       THEN Answer(w, "error") /\ UNCHANGED child
       ELSE /\ \E state \in AfterSigint(child[proc]) : child' = [child EXCEPT ![proc] = state]
            /\ Goto(w, "wait") /\ UNCHANGED answer
  /\ UNCHANGED <<fileVars, proc, played, calls, histVars>>

StopWait(w) ==
  /\ At(w, "wait")
  /\ IF proc = None
       THEN Answer(w, "error")
       ELSE call' = [call EXCEPT ![w].pc = "waiting", ![w].fd = proc] /\ UNCHANGED answer
  /\ UNCHANGED <<fileVars, setFrame>>

StopExited(w) ==
  /\ At(w, "waiting") /\ ~Alive(call[w].fd)
  /\ call' = [call EXCEPT ![w].pc = "clear", ![w].fd = None]
  /\ UNCHANGED <<fileVars, answer, setFrame>>

\* Variant: a child that does not end in time is left alone.
MildStopTimeout(w) ==
  /\ At(w, "waiting") /\ Alive(call[w].fd)
  /\ call' = [call EXCEPT ![w].pc = "clear", ![w].fd = None]
  /\ UNCHANGED <<fileVars, answer, setFrame>>

\* Variant: no time-out, the wait goes on.
PatientStopTimeout(w) == At(w, "waiting") /\ Alive(call[w].fd) /\ UNCHANGED vars

(* After 15 s the child in charge now is killed, and waited for; if five     *)
(* more do not see its end, the exception ends the call.                     *)
StopTimeout(w) ==
  /\ At(w, "waiting") /\ Alive(call[w].fd)
  /\ \/ proc = None /\ Answer(w, "error") /\ UNCHANGED child
     \/ /\ proc # None
        /\ child' = [child EXCEPT ![proc] = "dead"]
        /\ call' = [call EXCEPT ![w].pc = "clear", ![w].fd = None]
        /\ UNCHANGED answer
     \/ /\ Alive(proc)
        /\ child' = [child EXCEPT ![proc] = "ending"]
        /\ Answer(w, "error")
  /\ UNCHANGED <<fileVars, proc, played, calls, histVars>>

StopClear(w) ==
  /\ At(w, "clear")
  /\ Answer(w, IF proc = None THEN "error" ELSE "ok")
  /\ proc' = None
  /\ UNCHANGED <<fileVars, child, played, calls, histVars>>

-----------------------------------------------------------------------------
(* The playback process, as the server sees it.                             *)

childFrame == <<fileVars, call, answer, proc, calls, histVars>>

(* config_load takes the first line of each key, its default if there is    *)
(* none, and exits on a malformed value.                                    *)
ChildLoad(c) ==
  /\ child[c] = "boot"
  /\ LET loaded == [k \in Keys |-> FirstOf(inode[cfg], k)]
     IN  IF \E k \in Keys : loaded[k] = Malformed
           THEN child' = [child EXCEPT ![c] = "dead"] /\ UNCHANGED played
           ELSE /\ child' = [child EXCEPT ![c] = "init"]
                /\ played' = [played EXCEPT ![c] = loaded]
  /\ UNCHANGED childFrame

ChildPlay(c) ==
  /\ child[c] = "init"
  /\ child' = [child EXCEPT ![c] = "play"]
  /\ UNCHANGED <<childFrame, played>>

(* The loops are played, initialisation fails, or the stop completes. *)
ChildExit(c) ==
  /\ child[c] \in {"init", "play", "ending"}
  /\ child' = [child EXCEPT ![c] = "dead"]
  /\ UNCHANGED <<childFrame, played>>

(* The server dies and is started again; its children live on. *)
Restart ==
  /\ restarts < MaxRestarts
  /\ restarts' = restarts + 1
  /\ call' = [w \in Workers |-> Idle] /\ answer' = [w \in Workers |-> "none"]
  /\ proc' = None
  /\ calm' = (calm /\ AliveChildren = {})
  /\ UNCHANGED <<fileVars, child, played, calls, apart>>

-----------------------------------------------------------------------------
SetStep(w)  == SetRead(w) \/ SetOpen(w) \/ SetWrite(w) \/ SetReplace(w) \/ SetSnapshot(w)
               \/ SetFails(w)
ProcStep(w) == StartSpawn(w) \/ StartReply(w) \/ StopSignal(w) \/ StopWait(w)
               \/ StopExited(w) \/ StopTimeout(w) \/ StopClear(w)
Next ==
  \/ \E w \in Workers : SetBegin(w) \/ StartBegin(w) \/ StopBegin(w) \/ SetStep(w) \/ ProcStep(w)
  \/ \E c \in Children : ChildLoad(c) \/ ChildPlay(c) \/ ChildExit(c)
  \/ Restart
Spec == Init /\ [][Next]_vars

(* A worker goes on with its call; waiting for a child is bounded in time. *)
FairSpec == Spec /\ \A w \in Workers : WF_vars(SetStep(w) \/ ProcStep(w))
-----------------------------------------------------------------------------
(* Type invariant. *)
TypeOK ==
  /\ inode \in [Inodes -> Seq(Line)] /\ cfg \in Inodes /\ tmp \in Inodes \cup {None}
  /\ tmp # cfg
  /\ call \in [Workers -> [pc : {"idle"} \cup SetSteps \cup ProcSteps,
                           key : Keys \cup {"junk"}, val : Values \cup {Malformed},
                           lines : Seq(Line), fd : {None} \cup Inodes \cup Children]]
  /\ answer \in [Workers -> {"none", "ok", "error"}]
  /\ proc \in Children \cup {None}
  /\ child \in [Children -> {"none", "boot", "init", "play", "ending", "dead"}]
  /\ played \in [Children -> [Keys -> Values \cup {Default}]]
  /\ calls \in 0 .. MaxCalls /\ restarts \in 0 .. MaxRestarts
  /\ apart \in BOOLEAN /\ calm \in BOOLEAN

(* A Set call that no other Set overlapped leaves every other line as it    *)
(* was, and the executable now sees its value.  So does the snapshot if the *)
(* file has the key once: of repeated lines it takes the last.              *)
SetApplied ==
  [][\A w \in Workers :
       (At(w, "snapshot") /\ answer'[w] = "ok" /\ apart) =>
         LET before == call[w].lines
             k == call[w].key
         IN  /\ \A i \in DOMAIN before : before[i].key # k => inode[cfg][i] = before[i]
             /\ FirstOf(inode[cfg], k) = call[w].val
             /\ Cardinality(LinesOf(before, k)) <= 1 => LastOf(inode[cfg], k) = call[w].val]_vars

(* config.ini changes by whole Set operations, each in the lines of its own *)
(* key, as long as no two Set calls have overlapped: what the wideband      *)
(* server keeps up with a mutex.                                            *)
Store == INSTANCE ConfigStore WITH conf <- inode[cfg], damaged <- ~apart
StoreSpec == Store!Spec

(* Keys every initial file has. *)
Required == {k \in Keys : \A f \in Files : LinesOf(f, k) # {}}

(* As long as no two Set calls have overlapped, a child never falls back on *)
(* a default for a key the file configures, whenever it loads it and        *)
(* wherever a Set call failed or the server stopped.                        *)
PlaysConfigured ==
  apart => \A c \in Children : child[c] \in {"init", "play"} =>
             \A k \in Required : played[c][k] # Default

(* As long as no two process calls have overlapped and no restart of the    *)
(* server has left a child behind, at most one playback process drives the  *)
(* ports, and self.proc is it.                                              *)
OneChild == calm => \A c \in Children : Alive(c) => c = proc

(* As long as no two process calls have overlapped and no restart of the    *)
(* server has left a child behind: after "playback stopped" no process      *)
(* plays, not even one that lost the signal.                                *)
StopEndsChild ==
  [][\A w \in Workers : (At(w, "clear") /\ answer'[w] = "ok" /\ calm) => AliveChildren = {}]_vars

(* Every call is answered, even if the child never reacts. *)
EveryCallReturns == \A w \in Workers : ~At(w, "idle") ~> At(w, "idle")
=============================================================================
