-------------------------- MODULE NetworkCollector --------------------------
(***************************************************************************)
(* collect_network_status, src/src/codepc_link/network.py: one call of     *)
(* NetworkManager after the other, while the network goes on changing.     *)
(* "at" names the call under way.  A call of _get_all stands for the       *)
(* introspection and the read; what either fails with is one failure.      *)
(***************************************************************************)
EXTENDS NetworkManager

CONSTANT MaxFailures      \* bound on the calls that fail although they need not

ASSUME CollectorAssumption == MaxFailures \in Nat

VARIABLES at,             \* the call the collector awaits
          left,           \* the device paths still to read
          raw,            \* what _read_device has of the current device
          rawDevices,     \* raw_devices
          unread,         \* the devices with an error NM_DEVICE_READ_FAILED
          internet,       \* connectivity == NM_CONNECTIVITY_FULL, None before
          failures        \* the calls that failed although they need not

collectorVars == <<at, left, raw, rawDevices, unread, internet, failures>>

DeviceReads == <<"device", "ip4", "active", "wired", "wireless", "ap">>
DeviceCalls == {DeviceReads[i] : i \in 1..6}

Raw == [name : Device, state : States \cup {0}, path : Nat, address : Nat,
        carrier : BOOLEAN \cup {None}, default : BOOLEAN,
        ap : AccessPoint \cup {None}, ssid : AccessPoint \cup {None}]

(* Mutant: a device without addresses has none instead of an empty list. *)
UnreadNull(d) == [name |-> d, state |-> 0, path |-> 0, address |-> None, carrier |-> None,
                  default |-> FALSE, ap |-> None, ssid |-> None]

Unread(d) == [name |-> d, state |-> 0, path |-> 0, address |-> 0, carrier |-> None,
              default |-> FALSE, ap |-> None, ssid |-> None]

CollectorTypeOK ==
  /\ left \subseteq Device /\ unread \subseteq Device
  /\ raw \in Raw \cup {None} /\ rawDevices \subseteq Raw
  /\ internet \in BOOLEAN \cup {None}
  /\ failures \in 0..MaxFailures

CollectorInit == /\ raw = None /\ internet = None
                 /\ left = {} /\ rawDevices = {} /\ unread = {}
                 /\ failures = 0

(* The locals of a call end with it. *)
DropLocals == /\ raw' = None /\ internet' = None
              /\ left' = {} /\ rawDevices' = {} /\ unread' = {}

-----------------------------------------------------------------------------
(* Mutant: a device with a carrier is up as soon as it is being configured. *)
LinkStateByCarrier(state, carrier) ==
  IF carrier = FALSE THEN "down"
  ELSE IF state = 100 \/ (carrier = TRUE /\ state >= 40) THEN "up"
  ELSE IF state >= 40 THEN "configuring"
  ELSE "down"

LinkState(state, carrier) ==
  IF carrier = FALSE THEN "down"
  ELSE IF state = 100 THEN "up"
  ELSE IF state >= 40 THEN "configuring"
  ELSE "down"

Hidden == {"tun"}

(* Mutant: unmanaged devices are never shown. *)
ShouldShowManaged(r) == Type[r.name] \notin Hidden /\ r.name \in Managed

ShouldShow(r) == /\ Type[r.name] \notin Hidden
                 /\ r.name \in Managed \/ r.address # 0

Interface(r) ==
  [name |-> r.name, link |-> LinkState(r.state, r.carrier), address |-> r.address,
   default |-> r.default, internet |-> r.default /\ internet, ssid |-> r.ssid]

(* normalize_devices; a set, because it sorts by type and name. *)
Interfaces == {Interface(r) : r \in {s \in rawDevices : ShouldShow(s)}}

NetworkErrors ==
  {[component |-> "network", code |-> "NM_DEVICE_READ_FAILED", device |-> d] : d \in unread}
    \cup (IF at = "unavailable"
          THEN {[component |-> "network", code |-> "NM_UNAVAILABLE", device |-> None]}
          ELSE {})

-----------------------------------------------------------------------------
(* The for loop over the paths. *)
NextDevice(paths) ==
  /\ left' = paths
  /\ \/ paths = {} /\ at' = "collected" /\ raw' = None
     \/ \E d \in paths : at' = "device" /\ raw' = Unread(d)

(* The further reads a device asks for, given what is known of it. *)
Needs(r, call) ==
  \/ call = "ip4" /\ r.path # 0
  \/ call = "active" /\ r.state \in {50, 100}
  \/ call = "wired" /\ Type[r.name] = "ethernet"
  \/ call = "wireless" /\ Type[r.name] = "wifi"
  \/ call = "ap" /\ r.ap # None

(* _read_device goes on with r: the next read it needs, or the next device. *)
Continue(r) ==
  LET here == CHOOSE i \in 1..6 : DeviceReads[i] = at
      further == {i \in (here + 1)..6 : Needs(r, DeviceReads[i])}
  IN \/ \E i \in further :
          /\ \A j \in further : i <= j
          /\ at' = DeviceReads[i] /\ raw' = r
          /\ UNCHANGED <<left, rawDevices>>
     \/ /\ further = {}
        /\ rawDevices' = rawDevices \cup {r}
        /\ NextDevice(left \ {r.name})

(* connect, introspect and GetDevices: nothing is known before the answer. *)
DevicesListed ==
  /\ at = "list" /\ at' = "connectivity"
  /\ left' = Present
  /\ UNCHANGED <<raw, rawDevices, unread, internet, failures>>

ConnectivityRead ==
  /\ at = "connectivity"
  /\ internet' = connectivity
  /\ NextDevice(left)
  /\ UNCHANGED <<rawDevices, unread, failures>>

Fails == failures < MaxFailures /\ failures' = failures + 1

(* The outer except clause: no call after these two is outside the inner one. *)
Unavailable ==
  /\ Fails
  /\ at \in {"list", "connectivity"} /\ at' = "unavailable"
  /\ left' = {}
  /\ UNCHANGED <<raw, rawDevices, unread, internet>>

(* The first read of a device; its paths tell what to read next. *)
DeviceRead ==
  LET d == raw.name IN
    /\ at = "device" /\ d \in Present
    /\ Continue([raw EXCEPT !.state = device[d].state, !.path = device[d].object])
    /\ UNCHANGED <<unread, internet, failures>>

(* Mutant: a device that cannot be read is left out without an error. *)
DeviceUnreadSilently ==
  /\ at = "device"
  /\ Fails \/ (raw.name \notin Present /\ UNCHANGED failures)
  /\ NextDevice(left \ {raw.name})
  /\ UNCHANGED <<unread, rawDevices, internet>>

(* The inner except clause. *)
DeviceUnread ==
  /\ at = "device"
  /\ Fails \/ (raw.name \notin Present /\ UNCHANGED failures)
  /\ unread' = unread \cup {raw.name}
  /\ NextDevice(left \ {raw.name})
  /\ UNCHANGED <<rawDevices, internet>>

(* The objects of an activation end with it. *)
Alive(r) == /\ r.name \in Present
            /\ r.path # 0 => at \notin {"ip4", "active"} \/ device[r.name].object = r.path

Answer(r) ==
  LET c == device[r.name] IN
    CASE at = "ip4"      -> [r EXCEPT !.address = IF HasAddress(c) THEN r.path ELSE 0]
      [] at = "active"   -> [r EXCEPT !.default = route = r.name]
      [] at = "wired"    -> [r EXCEPT !.carrier = c.state # 20]
      [] at = "wireless" -> [r EXCEPT !.ap = c.ap]
      [] at = "ap"       -> [r EXCEPT !.ssid = r.ap]

OptionalRead ==
  /\ at \in DeviceCalls \ {"device"}
  /\ at = "ap" \/ Alive(raw)
  /\ Continue(Answer(raw))
  /\ UNCHANGED <<unread, internet, failures>>

(* _optional_get_all: as if the object had no properties. *)
OptionalUnread ==
  /\ at \in DeviceCalls \ {"device"}
  /\ Fails \/ (at # "ap" /\ ~Alive(raw) /\ UNCHANGED failures)
  /\ Continue(raw)
  /\ UNCHANGED <<unread, internet>>

CollectorReads == DevicesListed \/ ConnectivityRead \/ DeviceRead \/ OptionalRead
CollectorFails == Unavailable \/ DeviceUnread \/ OptionalUnread
=============================================================================
