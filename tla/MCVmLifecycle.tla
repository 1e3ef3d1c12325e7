----------------------------- MODULE MCVmLifecycle -----------------------------
(* Instances of VmLifecycle for TLC.                                       *)
EXTENDS VmLifecycle, TLC

(* For runs without liveness: pids and commands are all alike.             *)
Alike == Permutations(Pids) \cup Permutations(Cmds)

=============================================================================
