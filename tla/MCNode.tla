------------------------------- MODULE MCNode -------------------------------
(* Instances of Node for TLC; the cfg files give the constants.            *)
EXTENDS Node

Crowd == {"sensor", "event"}
=============================================================================
