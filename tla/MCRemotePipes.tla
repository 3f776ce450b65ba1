---------------------------- MODULE MCRemotePipes -----------------------------
(***************************************************************************)
(* RemotePipes for TLC: the configurations give the numbers.               *)
(***************************************************************************)
EXTENDS RemotePipes
===============================================================================
