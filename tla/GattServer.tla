----------------------------- MODULE GattServer -----------------------------
(***************************************************************************)
(* The life of CodePCLinkGattServer, src/src/codepc_link/ble_gatt.py:      *)
(* start(), stop() and run_forever() against BlueZ, with failing calls,    *)
(* BlueZ restarts, an interrupt at any suspension and a termination        *)
(* signal.  The three registrations are the pairing agent, the GATT        *)
(* application and the advertisement.                                      *)
(***************************************************************************)
EXTENDS Naturals, Sequences

CONSTANTS SecureReads,   \* self.secure_reads: register a pairing agent
          Faults

FaultKinds == {"start_error", "stop_error", "restart", "interrupt", "terminate"}

ASSUME GattAssumption == SecureReads \in BOOLEAN /\ Faults \subseteq FaultKinds

Parts == {"agent", "application", "advertisement"}

VARIABLES main,         \* where run_forever is suspended
          part,         \* the registration the pending call is about
          reply,        \* BlueZ's answer to the pending call
          flags,        \* self._agent_registered, _application_, _advertisement_
          bus,          \* the bus is connected, hence our name is on it
          interrupted,
          bluez,        \* what BlueZ has registered for us
          leaked,       \* history: what BlueZ refused to unregister
          restarted     \* history: BlueZ restarted while it held something

serverVars == <<main, part, reply, flags, bus, interrupted>>
bluezVars == <<bluez, leaked, restarted>>
vars == <<serverVars, bluezVars>>

Opening == {"connect", "introspect", "managers"}
Calling == Opening \cup {"register", "default", "unregister"}

TypeOK == /\ main \in Calling \cup {"ready", "stopped", "exited"}
          /\ part \in Parts
          /\ reply \in {"none", "ok", "error"}
          /\ flags \subseteq Parts
          /\ bluez \subseteq Parts /\ leaked \subseteq Parts
          /\ bus \in BOOLEAN /\ interrupted \in BOOLEAN /\ restarted \in BOOLEAN
          /\ main = "unregister" => part \in flags

Init == /\ main = "connect" /\ reply = "none"
        /\ part = "agent"
        /\ flags = {} /\ bluez = {} /\ leaked = {}
        /\ bus = FALSE /\ interrupted = FALSE /\ restarted = FALSE

-----------------------------------------------------------------------------
(* BlueZ, and the system bus: an answer per call, in the order of the calls. *)
Pending(call) == main = call /\ reply = "none"

BluezAccepts ==
  /\ reply' = "ok"
  /\ \/ (\E call \in Opening : Pending(call)) /\ UNCHANGED bluez
     \/ Pending("register") /\ bluez' = bluez \cup {part}
     \/ Pending("default") /\ "agent" \in bluez /\ UNCHANGED bluez
     \/ Pending("unregister") /\ part \in bluez /\ bluez' = bluez \ {part}
  /\ UNCHANGED <<main, part, flags, bus, interrupted, leaked, restarted>>

BluezRejects ==
  /\ reply' = "error"
  /\ \/ /\ \/ /\ "start_error" \in Faults
              /\ \E call \in Opening \cup {"register", "default"} : Pending(call)
           \/ Pending("default") /\ "agent" \notin bluez
        /\ UNCHANGED leaked
     \/ /\ Pending("unregister")
        /\ "stop_error" \in Faults \/ part \notin bluez
        /\ leaked' = leaked \cup (bluez \cap {part})
  /\ UNCHANGED <<main, part, flags, bus, interrupted, bluez, restarted>>

(* bluetoothd restarts; the server is not told. *)
BluezRestarts == /\ "restart" \in Faults
                 /\ bluez # {}
                 /\ bluez' = {}
                 /\ restarted' = TRUE
                 /\ UNCHANGED <<serverVars, leaked>>

(* Our bus name is gone: BlueZ drops what it held for it. *)
NameVanishes == /\ ~bus \/ main = "exited"
                /\ bluez # {}
                /\ bluez' = {}
                /\ UNCHANGED <<serverVars, leaked, restarted>>

-----------------------------------------------------------------------------
Goto(place, p) == main' = place /\ part' = p /\ reply' = "none"

(* Mutant: the agent is unregistered whether or not it was registered. *)
StopWithoutAgentFlag(f) ==
  /\ \/ "advertisement" \in f /\ Goto("unregister", "advertisement")
     \/ f \cap {"advertisement", "application"} = {"application"}
        /\ Goto("unregister", "application")
     \/ f \subseteq {"agent"} /\ Goto("unregister", "agent")
  /\ bus' = TRUE

(* Mutant: the agent goes first. *)
StopAgentFirst(f) ==
  /\ \/ "agent" \in f /\ Goto("unregister", "agent")
     \/ f \cap {"agent", "advertisement"} = {"advertisement"}
        /\ Goto("unregister", "advertisement")
     \/ f = {"application"} /\ Goto("unregister", "application")
     \/ f = {} /\ Goto("stopped", part)
  /\ bus' = (f # {})

(* stop(): unregister the newest first what the flags name; then the bus. *)
StopFrom(f) ==
  /\ \/ "advertisement" \in f /\ Goto("unregister", "advertisement")
     \/ f \cap {"advertisement", "application"} = {"application"}
        /\ Goto("unregister", "application")
     \/ f = {"agent"} /\ Goto("unregister", "agent")
     \/ f = {} /\ Goto("stopped", part)
  /\ bus' = (f # {})

(* dbus-connect; the objects are built and exported without a suspension. *)
Connected == /\ main = "connect" /\ reply = "ok"
             /\ Goto("introspect", part)
             /\ bus' = TRUE
             /\ UNCHANGED <<flags, interrupted, bluezVars>>

(* introspect-adapter, resolve-managers. *)
Introspected ==
  /\ main = "introspect" /\ reply = "ok"
  /\ IF SecureReads THEN Goto("managers", part) ELSE Goto("register", "application")
  /\ UNCHANGED <<flags, bus, interrupted, bluezVars>>

(* resolve-agent-manager. *)
AgentManagerResolved == /\ main = "managers" /\ reply = "ok"
                        /\ Goto("register", "agent")
                        /\ UNCHANGED <<flags, bus, interrupted, bluezVars>>

(* Mutant: the agent's flag is set only with the application's. *)
RegisteredFlagsLate ==
  /\ main = "register" /\ reply = "ok"
  /\ flags' = IF part = "agent" THEN flags
              ELSE flags \cup {part} \cup (IF SecureReads THEN {"agent"} ELSE {})
  /\ \/ part = "agent" /\ Goto("default", "agent")
     \/ part = "application" /\ Goto("register", "advertisement")
     \/ part = "advertisement" /\ Goto("ready", part)
  /\ UNCHANGED <<bus, interrupted, bluezVars>>

Registered ==
  /\ main = "register" /\ reply = "ok"
  /\ flags' = flags \cup {part}
  /\ \/ part = "agent" /\ Goto("default", "agent")
     \/ part = "application" /\ Goto("register", "advertisement")
     \/ part = "advertisement" /\ Goto("ready", part)
  /\ UNCHANGED <<bus, interrupted, bluezVars>>

DefaultAgent == /\ main = "default" /\ reply = "ok"
                /\ Goto("register", "application")
                /\ UNCHANGED <<flags, bus, interrupted, bluezVars>>

(* "except Exception": roll back, then raise; run_forever has not entered its
   try and does not stop a second time. *)
StartFails == /\ main \in Opening \cup {"register", "default"} /\ reply = "error"
              /\ StopFrom(flags)
              /\ UNCHANGED <<flags, interrupted, bluezVars>>

(* Mutant: a failed call of stop() is made again. *)
UnregisterRetries ==
  /\ main = "unregister"
  /\ \/ /\ reply = "ok"
        /\ flags' = flags \ {part}
        /\ StopFrom(flags \ {part})
     \/ /\ reply = "error"
        /\ Goto(main, part)
        /\ UNCHANGED <<flags, bus>>
  /\ UNCHANGED <<interrupted, bluezVars>>

(* The flag is cleared whatever the call answers. *)
Unregistered == /\ main = "unregister" /\ reply # "none"
                /\ flags' = flags \ {part}
                /\ StopFrom(flags \ {part})
                /\ UNCHANGED <<interrupted, bluezVars>>

(* The main coroutine has ended, and with it the process. *)
Exit == main' = "exited" /\ UNCHANGED <<part, reply, bus, bluezVars>>

RunEnds == main = "stopped" /\ Exit /\ UNCHANGED <<flags, interrupted>>

(* KeyboardInterrupt: asyncio.run cancels the main task where it is suspended.
   Only the wait of run_forever is inside try / finally; in start() it skips
   the rollback, in stop() the rest of the cleanup. *)
Interrupt == /\ "interrupt" \in Faults /\ ~interrupted
             /\ interrupted' = TRUE
             /\ \/ main = "ready" /\ StopFrom(flags) /\ UNCHANGED <<flags, bluezVars>>
                \/ main \in Calling /\ Exit
                   /\ flags' = IF main = "unregister" THEN flags \ {part} ELSE flags

(* SIGTERM, as from "systemctl stop": no handler is installed. *)
Terminate == /\ "terminate" \in Faults
             /\ main # "exited"
             /\ Exit
             /\ UNCHANGED <<flags, interrupted>>

-----------------------------------------------------------------------------
Bluez == BluezAccepts \/ BluezRejects
Main == \/ Connected \/ Introspected \/ AgentManagerResolved
        \/ Registered \/ DefaultAgent \/ StartFails
        \/ Unregistered \/ RunEnds

Next == \/ Bluez \/ Main \/ BluezRestarts \/ NameVanishes
        \/ Interrupt \/ Terminate

Spec == Init /\ [][Next]_vars

(* BlueZ or the bus answers every call, the main task resumes, and the bus
   tells BlueZ of a name that is gone. *)
FairSpec == Spec /\ WF_vars(Bluez) /\ WF_vars(Main) /\ WF_vars(NameVanishes)

-----------------------------------------------------------------------------
(* ble_gatt.py:352-377, 397-430.  BlueZ never holds anything that stop()
   would not unregister, except what it refused to unregister and what the
   answer still under way is about: no order of failures, restarts and
   interrupts makes a flag lag behind. *)
NothingForgotten ==
  main # "exited" =>
    bluez \subseteq flags \cup leaked \cup (IF main = "register" THEN {part} ELSE {})

(* ble_gatt.py:394-439.  When stop() has run to its end, BlueZ holds nothing
   but what it refused to unregister. *)
StoppedHoldsNothing == main = "stopped" => bluez \subseteq leaked

(* ble_gatt.py:330-378, 397-430.  Until BlueZ restarts or refuses to
   unregister something, the registrations come and go like a stack: never an
   advertisement without its application, never an application in secure mode
   without the pairing agent. *)
Order == IF SecureReads THEN <<"agent", "application", "advertisement">>
         ELSE <<"application", "advertisement">>
Layer(S, p) == IF p \in S THEN <<p>> ELSE <<>>
Layers(S) == Layer(S, "agent") \o Layer(S, "application") \o Layer(S, "advertisement")
Held == Layers(bluez)
Stack == INSTANCE RegistrationStack WITH held <- Held
Layered == Stack!Init /\ [][Stack!Next \/ restarted' \/ leaked' # {}]_Held

(* ble_gatt.py:387-392, 441-447.  Whatever fails, a start ends in service or
   in the end of the program, an interrupt always ends it, and once it has
   ended, also by SIGTERM or in the middle of stop(), BlueZ comes to hold
   nothing for it. *)
Settles == /\ main = "connect" ~> main \in {"ready", "exited"}
           /\ interrupted ~> main = "exited"
           /\ main = "exited" ~> bluez = {}
=============================================================================
