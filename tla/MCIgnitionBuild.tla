-------------------------- MODULE MCIgnitionBuild --------------------------
(* Instances of IgnitionBuild for TLC.                                     *)
EXTENDS IgnitionBuild

CONSTANTS base, source

Request(bases, sources, overlays, values, output) ==
    [base |-> bases, sources |-> sources, overlays |-> overlays,
     values |-> values, output |-> output]

OverlayOnBase == Request(<<base>>, <<>>, <<source>>, <<"1", "2", "other">>, Output)
OneSource     == Request(<<>>, <<source>>, <<>>, <<>>, Output)
InPlace       == Request(<<base>>, <<>>, <<>>, <<>>, ConfigIgn)

MCJobs == {OverlayOnBase, OneSource, InPlace}

=============================================================================
