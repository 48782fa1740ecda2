----------------------------- MODULE MCGopCache -----------------------------
(* Instances of GopCache for TLC: the .cfg files give the constants.       *)
EXTENDS GopCache
=============================================================================
