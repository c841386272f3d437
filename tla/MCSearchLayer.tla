----------------------------- MODULE MCSearchLayer -----------------------------
(* An instance of SearchLayer for TLC: four nodes, two of them at the same   *)
(* distance of the query.                                                    *)
EXTENDS SearchLayer, TLC

MCNodes == 1 .. 4
MCDist == 1 :> 3 @@ 2 :> 1 @@ 3 :> 2 @@ 4 :> 1
================================================================================
