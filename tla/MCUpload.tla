------------------------------ MODULE MCUpload ------------------------------
(* Instances of Upload for TLC; the cfg files give the constants.          *)
EXTENDS Upload

Any       == {"program", "rename", "clear"}
Program   == {"program"}
None      == {}
StopOnly  == {"stop"}
ChunkOnly == {"chunk"}
=============================================================================
