----------------------------- MODULE Feasibility -----------------------------
(***************************************************************************)
(* The acceptance test of docs/FEASIBILITY.md: "codepc-link doctor", then  *)
(* "codepc-link advertise-test" on the adapter of its --adapter option,    *)
(* whatever the doctor looked at: advertise_for_test, ble_probe.py, and    *)
(* _run_advertise_test, cli.py.                                            *)
(***************************************************************************)
EXTENDS Doctor

CONSTANT DefaultAdapter   \* of --adapter: hci0, which the host may not have

VARIABLES target,         \* the value of --adapter
          probe,          \* where advertise_for_test is suspended
          reply,          \* BlueZ's answer to the call under way
          registered,     \* the local of that name
          advertised,     \* BlueZ has the advertisement of our bus name
          interrupted,    \* where Ctrl-C met it
          exit            \* the exit status

probeVars == <<target, probe, reply, registered, advertised, interrupted, exit>>
vars == <<hostVars, doctorVars, probeVars>>

Calls == {"connect", "introspect", "register", "unregister"}

ASSUME ProbeAssumption == None \notin Calls /\ None # DefaultAdapter

Targets == Adapter \cup {DefaultAdapter}

TypeOK == /\ HostTypeOK /\ DoctorTypeOK
          /\ target \in Targets \cup {None}
          /\ probe \in Calls \cup {"start", "advertising", "over"}
          /\ reply \in {"none", "ok", "error"}
          /\ registered \in BOOLEAN /\ advertised \in BOOLEAN
          /\ interrupted \in Calls \cup {"advertising", None}
          /\ exit \in {0, 2, None}
          /\ registered => probe \in {"advertising", "unregister", "over"}

Init == /\ HostInit /\ DoctorInit
        /\ target = None /\ probe = "start" /\ reply = "none"
        /\ registered = FALSE /\ advertised = FALSE
        /\ interrupted = None /\ exit = None

-----------------------------------------------------------------------------
(* BlueZ, for a call that is under way.  An adapter that is switched off may
   be refused or not. *)
Accepts ==
  /\ reply = "none" /\ reply' = "ok"
  /\ \/ probe = "connect" /\ UNCHANGED advertised
     \/ /\ probe = "introspect"
        /\ daemon /\ target \in present
        /\ UNCHANGED advertised
     \/ /\ probe = "register"
        /\ Exposes("LEAdvertisingManager1", target)
        /\ advertised' = TRUE
     \/ probe = "unregister" /\ advertised /\ advertised' = FALSE
  /\ Succeeds

Refuses ==
  /\ probe \in Calls /\ reply = "none" /\ reply' = "error"
  /\ \/ Fails
     \/ /\ Succeeds
        /\ \/ probe = "introspect" /\ ~(daemon /\ target \in present)
           \/ /\ probe = "register"
              /\ Exposes("LEAdvertisingManager1", target) => target \notin powered
           \/ probe = "unregister" /\ ~advertised
  /\ UNCHANGED advertised

Bluez == /\ Accepts \/ Refuses
         /\ UNCHANGED <<doctorVars, target, probe, registered, interrupted, exit>>

(* The host changes; with bluetoothd or the adapter goes what it advertises. *)
Changes == /\ exit = None
           /\ HostChanges
           /\ advertised' = (advertised /\ daemon' /\ target \in present')
           /\ UNCHANGED <<doctorVars, target, probe, reply, registered, interrupted, exit>>

-----------------------------------------------------------------------------
Goto(place) == probe' = place /\ reply' = "none"

Ends(status) == probe' = "over" /\ exit' = status /\ UNCHANGED reply

RunAdvertiseTest ==
  /\ doctor = "over" /\ target' \in Targets
  /\ probe = "start" /\ Goto("connect")
  /\ UNCHANGED <<registered, exit, interrupted>>

Connected == /\ probe = "connect" /\ reply = "ok" /\ Goto("introspect")
             /\ UNCHANGED <<registered, exit, interrupted>>

(* Mutant: the flag is set before the call. *)
IntrospectedRegisters ==
  /\ probe = "introspect" /\ reply = "ok"
  /\ Exposes("LEAdvertisingManager1", target)
  /\ Goto("register") /\ registered' = TRUE
  /\ UNCHANGED <<exit, interrupted>>

(* get_interface raises when the adapter was introspected without it. *)
Introspected ==
  /\ probe = "introspect" /\ reply = "ok"
  /\ \/ /\ Exposes("LEAdvertisingManager1", target)
        /\ Goto("register") /\ UNCHANGED exit
     \/ ~Exposes("LEAdvertisingManager1", target) /\ Ends(2)
  /\ UNCHANGED <<registered, interrupted>>

Registered == /\ probe = "register" /\ reply = "ok" /\ Goto("advertising")
              /\ registered' = TRUE
              /\ UNCHANGED <<exit, interrupted>>

(* --seconds, if it is not 0, is over: the finally clause. *)
Elapsed == /\ probe = "advertising" /\ Goto("unregister")
           /\ UNCHANGED <<registered, exit, interrupted>>

(* _run_advertise_test returns 0 on its own and for a KeyboardInterrupt. *)
Unregistered == /\ probe = "unregister" /\ reply = "ok" /\ Ends(0)
                /\ UNCHANGED <<registered, interrupted>>

(* A call that fails ends the command, the last one without a disconnect. *)
CallFails == /\ probe \in Calls /\ reply = "error" /\ Ends(2)
             /\ UNCHANGED <<registered, interrupted>>

(* Mutant: Ctrl-C does not run the finally clause. *)
InterruptKills ==
  /\ probe \in Calls \cup {"advertising"} /\ interrupted = None
  /\ interrupted' = probe
  /\ Ends(0)
  /\ UNCHANGED registered

(* Ctrl-C: asyncio.run cancels the task where it is suspended.  Only a flag
   that is set makes the finally clause unregister. *)
Interrupt ==
  /\ probe \in Calls \cup {"advertising"} /\ interrupted = None
  /\ interrupted' = probe
  /\ \/ probe = "advertising" /\ Goto("unregister") /\ UNCHANGED exit
     \/ probe # "advertising" /\ Ends(0)
  /\ UNCHANGED registered

(* The process is over, and its bus name with it. *)
NameVanishes == /\ probe = "over" /\ advertised
                /\ advertised' = FALSE
                /\ UNCHANGED <<probe, reply, registered, interrupted, exit>>

Command == \/ Connected \/ Introspected \/ Registered \/ Elapsed
           \/ Unregistered \/ CallFails \/ Interrupt

Probe == /\ \/ RunAdvertiseTest /\ UNCHANGED advertised
            \/ Command /\ UNCHANGED <<target, advertised>>
            \/ NameVanishes /\ UNCHANGED target
         /\ UNCHANGED <<hostVars, doctorVars>>

Next == (Examine /\ UNCHANGED probeVars) \/ Bluez \/ Changes \/ Probe

Spec == Init /\ [][Next]_vars

-----------------------------------------------------------------------------
Quiet == upsets = 0

(* diagnostics.py:222-355, 75-98, docs/FEASIBILITY.md:35-54.  On a host at
   rest the doctor blocks exactly what its tools show not to work: busctl of
   the adapter whose name sorts first, btmgmt of the one it lists first,
   which may be another one, and rfkill of any. *)
CanAdvertise(a) == /\ Exposes("LEAdvertisingManager1", a)
                   /\ Exposes("GattManager1", a)

Seen(tool, fact) == tool \in tools => fact

SeenAdapters == IF "sysfs" \in tools \/ ("busctl" \in tools /\ daemon) THEN present ELSE {}

Feasible ==
  /\ "bluetoothctl" \in tools
  /\ SeenAdapters # {}
  /\ Seen("rfkill", blocked = {})
  /\ transport \in LowEnergy =>
       /\ Seen("busctl", CanAdvertise(First(present)))
       /\ Seen("btmgmt", settings[listed] # {} =>
                           {"le", "advertising"} \subseteq settings[listed])
  /\ transport \in Classic =>
       /\ Seen("busctl", daemon)
       /\ Seen("btmgmt", settings[listed] # {} => "br/edr" \in settings[listed])

QuietVerdict == doctor = "over" /\ Quiet => (verdict = 0 <=> Feasible)

(* docs/FEASIBILITY.md:92-95: "Run codepc-link doctor and confirm no Bluetooth
   host blocker is reported. Run codepc-link advertise-test".  With busctl
   installed, a doctor that passed is not contradicted by an advertise-test on
   the adapter it looked at, if that is switched on (no probe looks at its
   power), unless the host changes or a call fails. *)
PassMeansAdvertisable ==
  /\ Quiet /\ verdict = 0 /\ transport \in LowEnergy /\ "busctl" \in tools
  /\ target = Adapter0 /\ target \in powered
  => exit # 2

(* ble_probe.py:69-79, docs/FEASIBILITY.md:96: "Stop the test advertiser."
   Unless Ctrl-C met a call, or BlueZ refused one, nothing is advertised any
   more when the command is over. *)
StoppedIsSilent ==
  probe = "over" /\ interrupted \in {None, "advertising"} /\ reply # "error" => ~advertised
=============================================================================
