--------------------------- MODULE SnapshotContract ---------------------------
(***************************************************************************)
(* What `up --snapshot` promises: "hashes the ignition config and caches   *)
(* state across runs; hash mismatch invalidates" (README.md).  No disks,   *)
(* no boots: a cache that holds the state of one config or nothing, and a  *)
(* guest handed to the user.                                               *)
(***************************************************************************)
CONSTANTS Configs, None

VARIABLES
    config,   \* what the ignition file says now
    cached,   \* the config whose provisioned state is cached, or None
    guest     \* the config of the guest handed to the user, or None

contract == <<config, cached, guest>>

Init ==
    /\ config \in Configs
    /\ cached = None
    /\ guest = None

Edit ==
    /\ config' \in Configs
    /\ UNCHANGED <<cached, guest>>

Invalidate ==
    /\ cached' = None
    /\ UNCHANGED <<config, guest>>

Fill ==
    /\ cached = None
    /\ cached' = config
    /\ UNCHANGED <<config, guest>>

(* Both a hit and a rebuild end with the guest running and the cache full. *)
HandOver ==
    /\ guest = None
    /\ cached = config
    /\ guest' = config
    /\ UNCHANGED <<config, cached>>

Retire ==
    /\ guest' = None
    /\ UNCHANGED <<config, cached>>

Next == Edit \/ Invalidate \/ Fill \/ HandOver \/ Retire

Spec == Init /\ [][Next]_contract

=============================================================================
