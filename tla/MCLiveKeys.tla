---------------------------- MODULE MCLiveKeys ----------------------------
(***************************************************************************)
(* Two ports of two channels; entries that round up, clamp, overflow,      *)
(* disable, name a channel that does not exist, lack a number, overrun the *)
(* buffer; rates of zero and above.                                        *)
(***************************************************************************)
EXTENDS LiveKeys

MCLines == [t |-> {<<"0", ",", "3">>, <<"0", ",", "7">>, <<"0", ",", "-", "3", "1">>,
                   <<"3", ",", "1">>, <<"4", ",", "3">>}]
           @@ ("#" :> {<<"0">>, <<"5">>})
MCOffsets == {-3, 7}
=============================================================================
