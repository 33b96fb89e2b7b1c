------------------------------- MODULE MCMeter ------------------------------
(* Instances of Meter for TLC; the cfg files give the constants.           *)
EXTENDS Meter

Delivered == {4}
=============================================================================
