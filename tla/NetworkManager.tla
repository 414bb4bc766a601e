--------------------------- MODULE NetworkManager ---------------------------
(***************************************************************************)
(* NetworkManager and systemd as network.py and core.py see them: external *)
(* to the repository.  A step stands for any number of steps of theirs     *)
(* between two calls.                                                      *)
(***************************************************************************)
EXTENDS Naturals

CONSTANTS Device,
          Type,          \* the type of each device
          Managed,       \* the devices NetworkManager manages
          AccessPoint,
          None,
          MaxChanges     \* bound on the changes of a behaviour

ASSUME NetworkAssumption == /\ Type \in [Device -> {"ethernet", "wifi", "tun"}]
                            /\ Managed \subseteq Device
                            /\ MaxChanges \in Nat
                            /\ None \notin Device \cup AccessPoint \cup BOOLEAN

VARIABLES device,        \* None, or the state, configuration object and AP of each
          route,         \* the device of the default connection, or None
          connectivity,  \* CONNECTIVITY_FULL
          cockpit,       \* cockpit.socket is active
          changes

networkVars == <<device, route, connectivity, cockpit, changes>>

(* NMDeviceState: unmanaged, unavailable (no carrier), disconnected,
   configuring, activated. *)
States == {10, 20, 30, 50, 100}
Settled(s) == s < 40

(* An activation makes the objects ActiveConnection and IP4Config; the latter
   has an address once the device is activated.  Unmanaged devices have an
   address or none. *)
Configs(d, objects) ==
  {c \in [state : States, object : objects, ap : AccessPoint \cup {None}] :
     /\ c.state = 10 <=> d \notin Managed
     /\ c.state = 20 => Type[d] = "ethernet"
     /\ c.state # 10 => (c.object = 0 <=> Settled(c.state))
     /\ c.ap # None <=> Type[d] = "wifi" /\ ~Settled(c.state)}

Present == {d \in Device : device[d] # None}
Activated == {d \in Present : device[d].state = 100}
HasAddress(c) == c.object # 0 /\ c.state \in {10, 100}

NetworkTypeOK ==
  /\ \A d \in Device : device[d] = None \/ device[d] \in Configs(d, 0..(changes + 1))
  /\ route \in Activated \cup {None}
  /\ connectivity \in BOOLEAN /\ cockpit \in BOOLEAN
  /\ changes \in 0..MaxChanges

NetworkInit ==
  /\ device \in {f \in [Device -> UNION {Configs(d, {0, 1}) : d \in Device} \cup {None}] :
                   \A d \in Device : f[d] \in Configs(d, {0, 1}) \cup {None}}
  /\ route \in Activated \cup {None}
  /\ connectivity \in BOOLEAN /\ cockpit \in BOOLEAN
  /\ changes = 0

(* Devices come and go, lose their carrier, activate, roam, stop; a new
   activation has new objects. *)
DeviceChanges(d) ==
  LET old == device[d]
      kept == IF old = None THEN {} ELSE {old.object}
  IN /\ \/ device' = [device EXCEPT ![d] = None]
        \/ \E c \in Configs(d, {0, changes + 2} \cup kept) :
             /\ old # None /\ c.object = old.object => c.state >= old.state
             /\ device' = [device EXCEPT ![d] = c]
     /\ route' = IF d \in Activated' THEN route ELSE IF route = d THEN None ELSE route
     /\ UNCHANGED <<connectivity, cockpit>>

RouteChanges == /\ route' \in Activated \cup {None}
                /\ connectivity' \in BOOLEAN
                /\ UNCHANGED <<device, cockpit>>

CockpitChanges == cockpit' = ~cockpit /\ UNCHANGED <<device, route, connectivity>>

HostChanges == /\ changes < MaxChanges
               /\ changes' = changes + 1
               /\ \/ \E d \in Device : DeviceChanges(d)
                  \/ RouteChanges
                  \/ CockpitChanges
               /\ <<device, route, connectivity, cockpit>>' # <<device, route, connectivity, cockpit>>

Host == [device |-> device, route |-> route, connectivity |-> connectivity,
         cockpit |-> cockpit]
=============================================================================
