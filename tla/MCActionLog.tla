---------------------------- MODULE MCActionLog ----------------------------
(***************************************************************************)
(* A small instance of ActionLog: blocks that count for two entries, and   *)
(* requests of every size up to one that takes the whole log.              *)
(***************************************************************************)
EXTENDS ActionLog

MCMaxCounts == {2, 3, 20}
=============================================================================
