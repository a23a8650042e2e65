------------------------- MODULE MCPlaybackControl -------------------------
(***************************************************************************)
(* Two workers and a configuration of two keys: core_list, a text, and     *)
(* target_sample_rate_hz, which the snapshot converts unguarded.  The file *)
(* may lack the second, hold a malformed value for it, or repeat the first *)
(* after it.                                                               *)
(***************************************************************************)
EXTENDS PlaybackControl

CONSTANTS w1, w2, v1, v2, bad

MCWorkers == {w1, w2}
MCKeys    == {"core_list", "target_sample_rate_hz"}
MCStrict  == {"target_sample_rate_hz"}
MCFiles   == {<<[key |-> "core_list", val |-> v1]>>,
              <<[key |-> "core_list", val |-> v1],
                [key |-> "target_sample_rate_hz", val |-> bad]>>,
              <<[key |-> "core_list", val |-> v1],
                [key |-> "target_sample_rate_hz", val |-> v1],
                [key |-> "core_list", val |-> v2]>>}
=============================================================================
