----------------------------- MODULE MCGhostArray -----------------------------
(* Instances of GhostArray for TLC.                                        *)
EXTENDS GhostArray
=============================================================================
