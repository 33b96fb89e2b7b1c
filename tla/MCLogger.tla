------------------------------ MODULE MCLogger ------------------------------
(* An instance of Logger for TLC; the cfg file gives the constants.        *)
EXTENDS Logger

(* Two sensors on one device, one on another. *)
Three    == {"t1", "h1", "t2"}
DeviceOf == [s \in Three |-> IF s = "t2" THEN "d2" ELSE "d1"]
Few      == [s \in Three |-> IF s = "t1" THEN 2 ELSE 1]
=============================================================================
