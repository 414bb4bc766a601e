--------------------------- MODULE MCRfcommServer ---------------------------
(* Small instances of RfcommServer. *)
EXTENDS RfcommServer, TLC

AllFaults == FaultKinds
StopSucceeds == FaultKinds \ {"stop_error"}

Perms == Permutations(Conn) \cup Permutations(Device) \cup Permutations(Fd)
=============================================================================
