------------------------------ MODULE HnswService ------------------------------
(****************************************************************************)
(* The program of main as a whole: a worker inserts, each insertion is      *)
(* replicated before the next one begins (InTurnSpec of HnswPair), and the  *)
(* primary graph is queried.                                                *)
(****************************************************************************)
EXTENDS HnswPair, KnnSearch

ServiceInit == PairInit /\ QueryInit

ServiceNext ==
  \/ InTurnNext /\ UNCHANGED qvars
  \/ Running /\ Query /\ UNCHANGED <<vars, rvars>>

ServiceSpec == ServiceInit /\ [][ServiceNext]_<<vars, rvars, qvars>>
================================================================================
