---------------------------- MODULE MCStatusRead ----------------------------
(* A managed wired and a managed wireless device, an unmanaged wired one.
   Cockpit runs at first, and there is no full connectivity without a default
   connection; one change may alter either. *)
EXTENDS StatusRead, TLC

CONSTANTS eth, wlan, aux

MCType == (eth :> "ethernet") @@ (wlan :> "wifi") @@ (aux :> "ethernet")

MCWired == eth :> "ethernet"

MCInit == Init /\ cockpit /\ (connectivity => route # None)
MCSpec == MCInit /\ [][Next]_vars
=============================================================================
