---------------------------- MODULE MCGattServer ----------------------------
(* GattServer is finite as it stands; the runs choose its faults. *)
EXTENDS GattServer

AllFaults == FaultKinds
=============================================================================
