----------------------------- MODULE MCUpSnapshot -----------------------------
(* Instances of UpSnapshot for TLC.                                        *)
EXTENDS UpSnapshot

Qemu == {"qemu"}
Both == {"qemu", "applehv"}

TwoNames == {"ready", "cached"}
OneName == {"ready"}

(* The listing is searched for the text of the name: here no name is part  *)
(* of another's line.                                                      *)
ExactlyListed == {<<n, n>> : n \in TwoNames}

OneListed == {<<"ready", "ready">>}

=============================================================================
