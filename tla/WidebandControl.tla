--------------------------- MODULE WidebandControl ---------------------------
(***************************************************************************)
(* The wideband playback control server (xrcomm_playback_control.cc).      *)
(*                                                                         *)
(* Worker threads serve calls under two mutexes, never held together:      *)
(* cfgMtx guards config.ini, procMtx guards child_ and last_exit_.  A Set  *)
(* call takes the first to rewrite its key, the second to see whether      *)
(* playback runs, and the first again for the snapshot it returns.  Since  *)
(* cfgMtx is held from read to rename, one worker at a time has the        *)
(* temporary file.  Reads and writes may fail, and only failures to open   *)
(* for writing and to rename are noticed.                                  *)
(*                                                                         *)
(* Calls whose value does not validate, and Get calls, change no state.    *)
(***************************************************************************)
EXTENDS ConfigFile

CONSTANTS Workers,      \* worker threads
          NoOne,        \* a mutex nobody holds
          MaxCalls,     \* bound on the calls served
          MaxRestarts   \* bound on restarts of the server

ASSUME WidebandAssumption ==
  NoOne \notin Workers /\ MaxCalls \in Nat /\ MaxRestarts \in Nat

Processes == 1 .. MaxCalls
None == 0
NoFile == <<Junk>>     \* no temporary file

VARIABLES
  file, tmp,           \* lines of config.ini and of config.ini.tmp
  cfgMtx, procMtx,     \* their holders
  call,                \* worker -> the call it serves
  answer,              \* worker -> outcome of its last call
  child, lastExit,     \* child_ and last_exit_
  process,             \* playback processes: "none", "run", "ending", "zombie", "reaped"
  status,              \* process -> its exit status
  calls, restarts,     \* counted against their bounds
  failed,              \* history: a read or a write of config.ini has failed
  orphaned             \* history: a restart has left a process running

fileVars  == <<file, tmp, failed>>
childVars == <<child, lastExit, process, status>>
histVars  == <<calls, restarts, orphaned>>
vars == <<fileVars, cfgMtx, procMtx, call, answer, childVars, histVars>>

Idle == [pc |-> "idle", key |-> "junk", val |-> Malformed, lines |-> <<>>]
CfgSteps  == {"read", "open", "write", "rename"}      \* in write_single_key
ProcSteps == {"fork", "kill", "reap"}                 \* holding procMtx
Steps == {"idle", "lock", "note", "snapshot", "diag", "start", "stop"} \cup CfgSteps \cup ProcSteps
Calls == [pc : Steps, key : Keys \cup {"junk"}, val : Values \cup {Malformed}, lines : Seq(Line)]
At(w, pc) == call[w].pc = pc
Goto(w, pc) == call' = [call EXCEPT ![w].pc = pc]
Reply(w, result) ==
  /\ call' = [call EXCEPT ![w] = Idle]
  /\ answer' = [answer EXCEPT ![w] = result]

Init ==
  /\ file \in Files /\ tmp = NoFile /\ failed = FALSE
  /\ cfgMtx = NoOne /\ procMtx = NoOne
  /\ call = [w \in Workers |-> Idle] /\ answer = [w \in Workers |-> "none"]
  /\ child = None /\ lastExit = "ok"
  /\ process = [p \in Processes |-> "none"] /\ status = [p \in Processes |-> "ok"]
  /\ calls = 0 /\ restarts = 0 /\ orphaned = FALSE

Request(w) ==
  /\ At(w, "idle") /\ calls < MaxCalls
  /\ \/ \E k \in Keys, v \in Values :
          call' = [call EXCEPT ![w] = [pc |-> "lock", key |-> k, val |-> v, lines |-> <<>>]]
     \/ \E entry \in {"start", "stop", "diag"} : Goto(w, entry)
  /\ calls' = calls + 1
  /\ UNCHANGED <<fileVars, cfgMtx, procMtx, answer, childVars, restarts, orphaned>>

-----------------------------------------------------------------------------
(* Set calls: write_single_key, note_if_running, snapshot_locked.           *)

setFrame == <<procMtx, childVars, histVars>>

\* Variant: the mutex is not waited for.
HastySetLock(w) ==
  /\ At(w, "lock")
  /\ cfgMtx' = w
  /\ Goto(w, "read")
  /\ UNCHANGED <<fileVars, answer, setFrame>>

SetLock(w) ==
  /\ At(w, "lock") /\ cfgMtx = NoOne
  /\ cfgMtx' = w
  /\ Goto(w, "read")
  /\ UNCHANGED <<fileVars, answer, setFrame>>

(* A file that cannot be opened or read to its end is taken for a shorter   *)
(* one.                                                                     *)
SetRead(w) ==
  /\ At(w, "read")
  /\ \E n \in 0 .. Len(file) :
       /\ call' = [call EXCEPT ![w] = [pc |-> "open", key |-> @.key, val |-> @.val,
                                        lines |-> SubSeq(file, 1, n)]]
       /\ failed' = (failed \/ n < Len(file))
  /\ UNCHANGED <<file, tmp, cfgMtx, answer, setFrame>>

SetOpen(w) ==
  /\ At(w, "open")
  /\ \/ tmp' = <<>> /\ Goto(w, "write") /\ UNCHANGED <<cfgMtx, answer>>
     \/ Reply(w, "error") /\ cfgMtx' = NoOne /\ UNCHANGED tmp
  /\ UNCHANGED <<file, failed, setFrame>>

(* The stream's state is not looked at: the disk may take fewer lines.      *)
SetWrite(w) ==
  /\ At(w, "write")
  /\ LET text == Rewritten(call[w].lines, call[w].key, call[w].val)
     IN  \E n \in 0 .. Len(text) :
           /\ tmp' = SubSeq(text, 1, n)
           /\ failed' = (failed \/ n < Len(text))
  /\ Goto(w, "rename")
  /\ UNCHANGED <<file, cfgMtx, answer, setFrame>>

SetRename(w) ==
  /\ At(w, "rename")
  /\ cfgMtx' = NoOne
  /\ \/ file' = tmp /\ tmp' = NoFile /\ Goto(w, "note") /\ UNCHANGED answer
     \/ Reply(w, "error") /\ UNCHANGED <<file, tmp>>
  /\ UNCHANGED <<failed, setFrame>>

-----------------------------------------------------------------------------
(* child_ and the process it names.                                         *)

Live(p) == p # None /\ process[p] \in {"run", "ending"}
LiveProcesses == {p \in Processes : Live(p)}

\* Variant: the pid of a reaped process is kept.
ForgetfulPollChild ==
  IF child # None /\ process[child] = "zombie"
    THEN /\ process' = [process EXCEPT ![child] = "reaped"]
         /\ lastExit' = status[child]
         /\ UNCHANGED <<child, status>>
    ELSE UNCHANGED childVars

(* is_running_unlocked: waitpid(WNOHANG) reaps a process that has ended.    *)
PollChild ==
  IF child = None \/ Live(child)
    THEN UNCHANGED childVars
    ELSE /\ child' = None
         /\ IF process[child] = "zombie"
              THEN process' = [process EXCEPT ![child] = "reaped"] /\ lastExit' = status[child]
              ELSE UNCHANGED <<process, lastExit>>
         /\ UNCHANGED status

SetNote(w) ==
  /\ At(w, "note") /\ procMtx = NoOne
  /\ PollChild
  /\ Goto(w, "snapshot")
  /\ UNCHANGED <<fileVars, cfgMtx, procMtx, answer, histVars>>

SetSnapshot(w) ==
  /\ At(w, "snapshot") /\ cfgMtx = NoOne
  /\ Reply(w, "ok")
  /\ UNCHANGED <<fileVars, cfgMtx, setFrame>>

\* read_diagnostics: the status file is only read.
Diagnostics(w) ==
  /\ At(w, "diag") /\ procMtx = NoOne
  /\ PollChild
  /\ Reply(w, "ok")
  /\ UNCHANGED <<fileVars, cfgMtx, procMtx, histVars>>

-----------------------------------------------------------------------------
(* StartPlayback and StopPlayback, procMtx held throughout.                 *)

StartLock(w) ==
  /\ At(w, "start") /\ procMtx = NoOne
  /\ PollChild
  /\ IF Live(child)
       THEN Reply(w, "error") /\ UNCHANGED procMtx
       ELSE procMtx' = w /\ Goto(w, "fork") /\ UNCHANGED answer
  /\ UNCHANGED <<fileVars, cfgMtx, histVars>>

(* Process numbers are used in order. *)
Fresh(p) == process[p] = "none" /\ \A q \in 1 .. (p - 1) : process[q] # "none"

StartFork(w) ==
  /\ At(w, "fork")
  /\ \/ \E p \in Processes :
          /\ Fresh(p)
          /\ process' = [process EXCEPT ![p] = "run"]
          /\ child' = p
          /\ Reply(w, "ok")
     \/ Reply(w, "error") /\ UNCHANGED <<process, child>>
  /\ procMtx' = NoOne
  /\ UNCHANGED <<fileVars, cfgMtx, lastExit, status, histVars>>

StopLock(w) ==
  /\ At(w, "stop") /\ procMtx = NoOne
  /\ PollChild
  /\ IF Live(child)
       THEN procMtx' = w /\ Goto(w, "kill") /\ UNCHANGED answer
       ELSE Reply(w, "error") /\ UNCHANGED procMtx
  /\ UNCHANGED <<fileVars, cfgMtx, histVars>>

(* kill's result is not looked at: the signal may be refused, to a process  *)
(* started through sudo, or lost on one that initialises.                   *)
StopKill(w) ==
  /\ At(w, "kill")
  /\ \/ process[child] = "run" /\ process' = [process EXCEPT ![child] = "ending"]
     \/ UNCHANGED process
  /\ Goto(w, "reap")
  /\ UNCHANGED <<fileVars, cfgMtx, procMtx, answer, child, lastExit, status, histVars>>

\* Variant: the exit status is dropped.
CarelessStopReap(w) ==
  /\ At(w, "reap") /\ process[child] = "zombie"
  /\ process' = [process EXCEPT ![child] = "reaped"]
  /\ child' = None /\ procMtx' = NoOne
  /\ Reply(w, "ok")
  /\ UNCHANGED <<fileVars, cfgMtx, lastExit, status, histVars>>

\* Variant: the mutex is not released.
StickyStopReap(w) ==
  /\ At(w, "reap") /\ process[child] = "zombie"
  /\ process' = [process EXCEPT ![child] = "reaped"]
  /\ lastExit' = status[child]
  /\ child' = None
  /\ Reply(w, "ok")
  /\ UNCHANGED <<fileVars, cfgMtx, procMtx, status, histVars>>

(* waitpid without a limit. *)
StopReap(w) ==
  /\ At(w, "reap") /\ process[child] = "zombie"
  /\ process' = [process EXCEPT ![child] = "reaped"]
  /\ lastExit' = status[child]
  /\ child' = None /\ procMtx' = NoOne
  /\ Reply(w, "ok")
  /\ UNCHANGED <<fileVars, cfgMtx, status, histVars>>

-----------------------------------------------------------------------------
(* The playback process ends: as asked, or by itself, well or badly.        *)
ProcessEnds(p) ==
  /\ Live(p)
  /\ process' = [process EXCEPT ![p] = "zombie"]
  /\ \E s \in {"ok", "fault"} : status' = [status EXCEPT ![p] = s]
  /\ UNCHANGED <<fileVars, cfgMtx, procMtx, call, answer, child, lastExit, histVars>>

(* The server dies and is started again: its processes live on, the files   *)
(* stay as they are.                                                        *)
Restart ==
  /\ restarts < MaxRestarts
  /\ restarts' = restarts + 1
  /\ cfgMtx' = NoOne /\ procMtx' = NoOne
  /\ call' = [w \in Workers |-> Idle] /\ answer' = [w \in Workers |-> "none"]
  /\ child' = None /\ lastExit' = "ok"
  /\ orphaned' = (orphaned \/ LiveProcesses # {})
  /\ UNCHANGED <<fileVars, process, status, calls>>

-----------------------------------------------------------------------------
WorkerStep(w) ==
  \/ SetLock(w) \/ SetRead(w) \/ SetOpen(w) \/ SetWrite(w) \/ SetRename(w)
  \/ SetNote(w) \/ SetSnapshot(w) \/ Diagnostics(w)
  \/ StartLock(w) \/ StartFork(w) \/ StopLock(w) \/ StopKill(w) \/ StopReap(w)

Next ==
  \/ \E w \in Workers : Request(w) \/ WorkerStep(w)
  \/ \E p \in Processes : ProcessEnds(p)
  \/ Restart
Spec == Init /\ [][Next]_vars

(* A worker goes on with its call, and a process asked to end does. *)
FairSpec ==
  /\ Spec
  /\ \A w \in Workers : WF_vars(WorkerStep(w))
  /\ \A p \in Processes : WF_vars(process[p] = "ending" /\ ProcessEnds(p))

-----------------------------------------------------------------------------
(* The workers past an acquisition are the holders. *)
Locked == \A w \in Workers : /\ call[w].pc \in CfgSteps <=> cfgMtx = w
                             /\ call[w].pc \in ProcSteps <=> procMtx = w

(* Type invariant. *)
TypeOK ==
  /\ file \in Seq(Line) /\ tmp \in Seq(Line) /\ failed \in BOOLEAN
  /\ cfgMtx \in Workers \cup {NoOne} /\ procMtx \in Workers \cup {NoOne}
  /\ call \in [Workers -> Calls]
  /\ Locked
  /\ answer \in [Workers -> {"none", "ok", "error"}]
  /\ child \in Processes \cup {None} /\ lastExit \in {"ok", "fault"}
  /\ process \in [Processes -> {"none", "run", "ending", "zombie", "reaped"}]
  /\ status \in [Processes -> {"ok", "fault"}]
  /\ calls \in 0 .. MaxCalls /\ restarts \in 0 .. MaxRestarts /\ orphaned \in BOOLEAN

(* Until a read or write fails, config.ini changes by whole Set calls, each  *)
(* in its own key, whatever the calls' overlap and wherever the server dies. *)
Store == INSTANCE ConfigStore WITH conf <- file, damaged <- failed
StoreSpec == Store!Spec

(* The pid child_ is signalled and waited for never belongs to a process    *)
(* already reaped, whose number the system may have given to another.       *)
NoStalePid == child # None => process[child] \in {"run", "ending", "zombie"}

(* At most one playback process drives the port, and child_ is it, until a  *)
(* restart of the server leaves one behind.                                 *)
OneChild == ~orphaned => \A p \in LiveProcesses : p = child

(* "Exit status of most recently reaped child", the crash reason that the   *)
(* diagnostics show.                                                        *)
Reaped == {p \in Processes : process[p] = "reaped"}
LastExitTrue ==
  restarts = 0 => \A p \in Reaped : (\A q \in Reaped : q <= p) => lastExit = status[p]

(* After "playback stopped" no process plays. *)
StopEndsChild ==
  [][\A w \in Workers : (At(w, "reap") /\ call'[w] = Idle /\ answer'[w] = "ok" /\ ~orphaned) =>
       \A p \in Processes : process'[p] \notin {"run", "ending"}]_vars

(* A Stop whose signal was refused or lost waits on in procMtx. *)
Stuck == \E w \in Workers : At(w, "reap") /\ process[child] = "run"

(* Every call is answered, unless such a Stop holds the mutex. *)
EveryCallReturns == \A w \in Workers : ~At(w, "idle") ~> (At(w, "idle") \/ Stuck)
=============================================================================
