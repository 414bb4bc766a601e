---------------------------- MODULE MCFeasibility ----------------------------
(* Two adapters, each a dual-mode controller or a classic one; their names
   sorted as text. *)
EXTENDS Feasibility, TLC

MCAdapter == {"hci2", "hci10"}
MCPlace == "hci10" :> 1 @@ "hci2" :> 2

MCController == {{"le", "advertising", "br/edr"}, {"br/edr"}}
MCTool == {"sysfs", "bluetoothctl", "busctl", "btmgmt", "rfkill"}
=============================================================================
