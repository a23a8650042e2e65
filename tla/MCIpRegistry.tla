---------------------------- MODULE MCIpRegistry ----------------------------
(***************************************************************************)
(* Two applications, one per channel of port 0 (8T8R) and one for the      *)
(* whole of port 1 (wideband), over a registry of one or two slots.        *)
(***************************************************************************)
EXTENDS IpRegistry

CONSTANTS c1, c2

MCClients  == {c1, c2}
MCChannels == {1, 4}
MCPortOf   == [ch \in MCChannels |-> ch \div 4]
MCAll      == 255
MCSubOf    == [c \in MCClients |-> IF c = c1 THEN [port |-> 0, channel |-> 1]
                                             ELSE [port |-> 1, channel |-> MCAll]]
=============================================================================
