-------------------------------- MODULE Doctor --------------------------------
(***************************************************************************)
(* "codepc-link doctor": collect_diagnostics, diagnostics.py, and          *)
(* _run_doctor, cli.py.  One probe after the other looks at a host that    *)
(* may change between them.                                                *)
(***************************************************************************)
EXTENDS BluetoothHost

VARIABLES doctor,         \* the probe under way
          transport,
          adapters,       \* _discover_adapters
          supported,      \* supported_settings, empty when unknown
          rfkill,         \* the blocked flag of _rfkill_state, None when unknown
          managers,       \* the interfaces probed: available, or None
          bluez,          \* bluez_version is known
          verdict         \* the exit status

doctorVars == <<doctor, transport, adapters, supported, rfkill, managers, bluez, verdict>>

Transports == {"ble", "rfcomm", "all"}
LowEnergy == {"ble", "all"}
Classic == {"rfcomm", "all"}
Managers == {"LEAdvertisingManager1", "GattManager1", "ProfileManager1"}

Probes == <<"adapters", "btmgmt", "rfkill", "LEAdvertisingManager1", "GattManager1",
            "ProfileManager1", "bluez", "report">>

DoctorTypeOK == /\ doctor \in {Probes[i] : i \in 1..8} \cup {"over"}
                /\ transport \in Transports
                /\ adapters \subseteq Adapter
                /\ supported \in Controller \cup {{}}
                /\ rfkill \in BOOLEAN \cup {None}
                /\ managers \in [Managers -> BOOLEAN \cup {None}]
                /\ bluez \in BOOLEAN
                /\ verdict \in {0, 2, None}

DoctorInit == /\ doctor = "adapters" /\ transport \in Transports
              /\ adapters = {} /\ supported = {} /\ rfkill = None
              /\ managers = [m \in Managers |-> FALSE]
              /\ bluez = FALSE /\ verdict = None

(* The next probe of collect_diagnostics. *)
Proceed(probe) == \E i \in 1..7 : probe = Probes[i] /\ doctor = probe /\ doctor' = Probes[i + 1]

Adapter0 == IF adapters = {} THEN None ELSE First(adapters)

-----------------------------------------------------------------------------
(* sysfs; without adapters there, the objects of bluetoothd. *)
DiscoverAdapters ==
  /\ Proceed("adapters")
  /\ \/ /\ "sysfs" \in tools /\ present # {}
        /\ adapters' = present /\ Succeeds
     \/ /\ "sysfs" \notin tools \/ present = {}
        /\ \/ Succeeds /\ adapters' = IF "busctl" \in tools /\ daemon THEN present ELSE {}
           \/ "busctl" \in tools /\ Fails /\ adapters' = {}
  /\ UNCHANGED <<transport, supported, rfkill, managers, bluez, verdict>>

(* _btmgmt_info: the first "supported settings" line, whichever controller's it is. *)
BtmgmtInfo ==
  /\ Proceed("btmgmt")
  /\ \/ Succeeds /\ supported' = IF "btmgmt" \in tools /\ present # {}
                                 THEN settings[listed] ELSE {}
     \/ "btmgmt" \in tools /\ Fails /\ supported' = {}
  /\ UNCHANGED <<transport, adapters, rfkill, managers, bluez, verdict>>

(* _rfkill_state: blocked if any Bluetooth switch is. *)
RfkillState ==
  /\ Proceed("rfkill")
  /\ \/ Succeeds /\ rfkill' = IF "rfkill" \in tools /\ present # {}
                              THEN blocked # {} ELSE None
     \/ "rfkill" \in tools /\ Fails /\ rfkill' = None
  /\ UNCHANGED <<transport, adapters, supported, managers, bluez, verdict>>

Asked(m) == IF m = "ProfileManager1" THEN transport \in Classic
            ELSE transport \in LowEnergy /\ Adapter0 # None

(* Mutant: busctl's exit status is not looked at. *)
BluezInterfaceFound(m) ==
  /\ Proceed(m)
  /\ Succeeds
  /\ managers' = [managers EXCEPT ![m] = Asked(m) /\ "busctl" \in tools]
  /\ UNCHANGED <<transport, adapters, supported, rfkill, bluez, verdict>>

(* _bluez_interface_available_at: the exit status of busctl introspect. *)
BluezInterfaceAvailable(m) ==
  /\ Proceed(m)
  /\ \E available \in BOOLEAN \cup {None} :
       /\ managers' = [managers EXCEPT ![m] = available]
       /\ \/ /\ Succeeds
             /\ available = IF ~Asked(m) THEN FALSE
                            ELSE IF "busctl" \notin tools THEN None
                            ELSE Exposes(m, Adapter0)
          \/ Asked(m) /\ "busctl" \in tools /\ Fails /\ available = FALSE
  /\ UNCHANGED <<transport, adapters, supported, rfkill, bluez, verdict>>

(* _first_version of bluetoothctl. *)
BluezVersion ==
  /\ Proceed("bluez")
  /\ \/ Succeeds /\ bluez' = ("bluetoothctl" \in tools)
     \/ "bluetoothctl" \in tools /\ Fails /\ bluez' = FALSE
  /\ UNCHANGED <<transport, adapters, supported, rfkill, managers, verdict>>

-----------------------------------------------------------------------------
Check(name, ok) == <<name, IF ok THEN "pass" ELSE "fail">>

ManagerCheck(m) == IF managers[m] = None THEN <<m, "unknown">> ELSE Check(m, managers[m])

(* Mutant: a setting that is not known is not supported. *)
SettingCheckStrict(setting) == Check(setting, setting \in supported)

SettingCheck(setting) ==
  IF supported = {} THEN <<setting, "unknown">> ELSE Check(setting, setting \in supported)

Checks ==
  {Check("bluez", bluez), Check("adapter", adapters # {}), Check("rfkill", rfkill # TRUE)}
    \cup (IF transport \in LowEnergy
          THEN {ManagerCheck("LEAdvertisingManager1"), ManagerCheck("GattManager1"),
                SettingCheck("le"), SettingCheck("advertising")}
          ELSE {})
    \cup (IF transport \in Classic
          THEN {ManagerCheck("ProfileManager1"), SettingCheck("br/edr")}
          ELSE {})

(* The result, and the exit status of _run_doctor. *)
Report ==
  /\ doctor = "report" /\ doctor' = "over"
  /\ verdict' = IF \E c \in Checks : c[2] = "fail" THEN 2 ELSE 0
  /\ Succeeds
  /\ UNCHANGED <<transport, adapters, supported, rfkill, managers, bluez>>

Examine == \/ DiscoverAdapters \/ BtmgmtInfo \/ RfkillState
           \/ \E m \in Managers : BluezInterfaceAvailable(m)
           \/ BluezVersion \/ Report
=============================================================================
