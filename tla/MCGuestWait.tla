----------------------------- MODULE MCGuestWait -----------------------------
(* Instances of GuestWait for TLC.                                         *)
EXTENDS GuestWait

=============================================================================
