---------------------------- MODULE BluetoothHost ----------------------------
(***************************************************************************)
(* The host as diagnostics.py and ble_probe.py find it: its tools, the     *)
(* kernel's Bluetooth controllers, rfkill and bluetoothd.  External.       *)
(***************************************************************************)
EXTENDS Naturals

CONSTANTS Adapter,        \* the names of the hci devices
          Place,          \* their places when sorted as text: hci10 before hci2
          Controller,     \* the sets of settings a controller may support
          Tool,           \* what a host may have: commands, and sysfs
          None,
          MaxUpsets       \* bound on the host's changes and the failing calls

ASSUME HostAssumption == /\ Place \in [Adapter -> Nat]
                         /\ \A a, b \in Adapter : Place[a] = Place[b] => a = b
                         /\ None \notin Adapter /\ None \notin BOOLEAN /\ None \notin Nat
                         /\ Controller \subseteq SUBSET {"le", "advertising", "br/edr"}
                         /\ MaxUpsets \in Nat

VARIABLES tools,
          settings,       \* the supported settings of each adapter
          present,        \* the adapters in the kernel
          listed,         \* the one btmgmt lists first, in an order of its own
          blocked,        \* the adapters rfkill blocks
          powered,        \* the adapters that are switched on
          daemon,         \* bluetoothd runs
          upsets

hostVars == <<tools, settings, present, listed, blocked, powered, daemon, upsets>>

(* What btmgmt may list first. *)
Heads(S) == IF S = {} THEN {None} ELSE S

HostTypeOK == /\ tools \subseteq Tool
              /\ settings \in [Adapter -> Controller]
              /\ blocked \subseteq present /\ present \subseteq Adapter
              /\ listed \in Heads(present) /\ powered \subseteq present \ blocked
              /\ daemon \in BOOLEAN
              /\ upsets \in 0..MaxUpsets

HostInit == /\ tools \in SUBSET Tool
            /\ settings \in [Adapter -> Controller]
            /\ present \in SUBSET Adapter /\ listed \in Heads(present)
            /\ blocked \in SUBSET present /\ powered \in SUBSET (present \ blocked)
            /\ daemon \in BOOLEAN
            /\ upsets = 0

Upset == upsets < MaxUpsets /\ upsets' = upsets + 1

(* Adapters come and go, are blocked and unblocked, switched on and off;
   bluetoothd stops and starts. *)
HostChanges ==
  /\ Upset
  /\ \/ /\ present' \in SUBSET Adapter /\ listed' \in Heads(present')
        /\ blocked' = blocked \cap present' /\ powered' = powered \cap present'
        /\ UNCHANGED daemon
     \/ /\ blocked' \in SUBSET present /\ powered' = powered \ blocked'
        /\ UNCHANGED <<present, listed, daemon>>
     \/ /\ powered' \in SUBSET (present \ blocked)
        /\ UNCHANGED <<present, listed, blocked, daemon>>
     \/ daemon' = ~daemon /\ UNCHANGED <<present, listed, blocked, powered>>
  /\ <<present, blocked, powered, daemon>>' # <<present, blocked, powered, daemon>>
  /\ UNCHANGED <<tools, settings>>

(* A command or a call fails, or takes too long. *)
Succeeds == UNCHANGED hostVars
Fails == Upset /\ UNCHANGED <<tools, settings, present, listed, blocked, powered, daemon>>

First(S) == CHOOSE a \in S : \A b \in S : Place[a] <= Place[b]

(* What bluetoothd has on the bus. *)
Exposes(interface, a) ==
  /\ daemon
  /\ interface # "ProfileManager1" => a \in present
  /\ interface = "LEAdvertisingManager1" => {"le", "advertising"} \subseteq settings[a]
=============================================================================
