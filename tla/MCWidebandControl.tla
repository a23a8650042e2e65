------------------------- MODULE MCWidebandControl -------------------------
(***************************************************************************)
(* Two workers and a configuration of two keys, of which the file may lack *)
(* the second or repeat the first.  One well-formed value is enough: the   *)
(* file starts with malformed ones.                                        *)
(***************************************************************************)
EXTENDS WidebandControl

CONSTANTS w1, w2, v1, bad

MCWorkers == {w1, w2}
MCKeys    == {"binary_filename", "loop_count"}
MCFiles   == {<<[key |-> "binary_filename", val |-> bad]>>,
              <<[key |-> "binary_filename", val |-> bad],
                [key |-> "loop_count", val |-> bad],
                [key |-> "binary_filename", val |-> v1]>>}
=============================================================================
