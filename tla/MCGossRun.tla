------------------------------ MODULE MCGossRun ------------------------------
(* Instances of GossRun for TLC.                                           *)
EXTENDS GossRun

=============================================================================
