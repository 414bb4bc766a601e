------------------------- MODULE MCBluetoothClient -------------------------
(* BluetoothClient with small sets of devices and concurrent actions. *)
EXTENDS BluetoothClient, TLC

Perms == Permutations(Device) \cup Permutations(Action)
=============================================================================
