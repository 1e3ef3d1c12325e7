----------------------------- MODULE MCImageCache -----------------------------
(* Instances of ImageCache for TLC.                                        *)
EXTENDS ImageCache

(* Two projects on two streams share the cache; the second also   *)
(* runs without the cache.                                                 *)
TwoProjects == [w \in {"a", "b"} |->
    IF w = "a" THEN {<<"next", "cached">>}
    ELSE {<<"stable", "cached">>, <<"stable", "flat">>}]

PublishedTwo == [s \in {"next", "stable"} |-> IF s = "next" THEN 1 ELSE 2]

PublishedOne == [s \in {"next"} |-> 1]

OneProject == [w \in {"a", "b"} |-> {<<"next", "cached">>}]

=============================================================================
