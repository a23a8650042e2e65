----------------------------- MODULE ConfigStore -----------------------------
(***************************************************************************)
(* What a control server promises of config.ini: as long as no write has   *)
(* failed, it changes by whole Set operations only, each in the lines of   *)
(* its own key.                                                            *)
(***************************************************************************)
EXTENDS ConfigFile

VARIABLES conf,      \* the lines of config.ini
          damaged    \* a read or a write of it has failed

Init == conf \in Files /\ damaged = FALSE

Set(k, v) ==
  /\ ~damaged
  /\ conf' \in Seq(Line)
  /\ OnlyKey(conf, conf', k) /\ FirstOf(conf', k) = v
  /\ UNCHANGED damaged

Damage == damaged' = TRUE /\ conf' \in Seq(Line)

Next == (\E k \in Keys, v \in Values : Set(k, v)) \/ Damage

Spec == Init /\ [][Next]_<<conf, damaged>>
=============================================================================
