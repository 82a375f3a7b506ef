------------------------------- MODULE MCHub -------------------------------
(***************************************************************************)
(* Hub on small instances: agents a and b serve the same cluster c, as an  *)
(* agent and its replacement, or a misconfigured pair, do.                 *)
(***************************************************************************)
EXTENDS Hub

CONSTANT c

OneCluster == [x \in Agents |-> c]
=============================================================================
