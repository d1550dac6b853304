---------------------------- MODULE MC_ChannelSync -----------------------------
(* Instances of ChannelSync: three OUs, two of which have the same name under   *)
(* different parents and so the same slug, and a general channel.             *)
EXTENDS ChannelSync, TLC

CONSTANTS ana, bruno, it, hr, hr2, nIt, nHr, nGeneral, l1, l2, l3

OneClash == it :> nIt @@ hr :> nHr @@ hr2 :> nHr
===============================================================================
