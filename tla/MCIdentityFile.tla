--------------------------- MODULE MCIdentityFile ---------------------------
(* Small instances of IdentityFile: the fault sets of the runs. *)
EXTENDS IdentityFile, TLC

KillOnly == {"kill"}

Perms == Permutations(Process) \cup Permutations(Id)
=============================================================================
