------------------------------ MODULE MCShutter -----------------------------
(* An instance of Shutter for TLC; the cfg file gives the constants.       *)
EXTENDS Shutter

Written == {0, 1, 2, Full}
=============================================================================
