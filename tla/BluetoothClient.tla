--------------------------- MODULE BluetoothClient ---------------------------
(***************************************************************************)
(* The Web Bluetooth page: CodePcBluetoothClient of                        *)
(* src/site/js/bluetooth.mjs and the actions of src/site/js/app.mjs.       *)
(*                                                                         *)
(* An action (choose, connect to a remembered device, reconnect, refresh)  *)
(* runs from one await to the next; between two awaits a link may be lost  *)
(* and other buttons may be pressed.  Those of the remembered devices are  *)
(* never disabled, so that a second connect may overlap any action.        *)
(***************************************************************************)
CONSTANTS Device, Action, None,
          Stale        \* a GATT object whose link is gone

ASSUME PageAssumption == /\ None \notin Device /\ Stale \notin Device
                         /\ None # Stale

VARIABLES device,      \* client.device, the only one that is listened to
          server, service, chars,   \* the client's handles: whose they are
          linked,      \* device.gatt.connected
          awaiting,    \* what each action awaits
          arg,         \* the device its GATT operations are on
          alive,       \* the link of its pending operation has not ended
          busy, banner,   \* the page's busy flag and connection status
          displayed,   \* the device whose status is displayed
          offered,     \* the buttons of the current device, as last updated
          tangled      \* history: actions overlapped since the last connect alone

handles == <<server, service, chars>>
pageVars == <<device, handles, linked, awaiting, arg, alive, busy, banner, displayed,
              offered, tangled>>

Awaits == {"choose", "connect", "service", "chars", "read"}
Text(state, d) == [state |-> state, name |-> d]

PageTypeOK ==
  /\ device \in Device \cup {None}
  /\ server \in Device \cup {None}
  /\ service \in Device \cup {None, Stale}
  /\ chars \in Device \cup {None, Stale}
  /\ linked \in [Device -> BOOLEAN]
  /\ awaiting \in [Action -> Awaits \cup {"idle"}]
  /\ arg \in [Action -> Device \cup {None, Stale}]
  /\ alive \in [Action -> BOOLEAN]
  /\ busy \in BOOLEAN
  /\ banner \in [state : {"none", "connected", "disconnected", "error"},
                 name : Device \cup {None}]
  /\ displayed \in Device \cup {None}
  /\ offered \in {"none", "reconnect", "refresh"}
  /\ tangled \in BOOLEAN
  \* the finally clause of runAction
  /\ busy => \E a \in Action : awaiting[a] # "idle"

PageInit ==
  /\ device = None /\ server = None /\ service = None /\ chars = None
  /\ linked = [d \in Device |-> FALSE]
  /\ awaiting = [a \in Action |-> "idle"]
  /\ arg = [a \in Action |-> None]
  /\ alive = [a \in Action |-> FALSE]
  /\ busy = FALSE
  /\ banner = Text("none", None)
  /\ displayed = None
  /\ offered = "none"
  /\ tangled = FALSE

-----------------------------------------------------------------------------
Connected == /\ device # None /\ linked[device]
             /\ None \notin {server, service, chars}

Await(a, what) == awaiting' = [awaiting EXCEPT ![a] = what]

(* updateControls: the listeners and the end of an action call it last. *)
UpdateControls == offered' = (IF device = None THEN "none"
                              ELSE IF Connected THEN "refresh" ELSE "reconnect")'

(* runAction: the end of any action clears the flag. *)
Finish(a, text) == Await(a, "idle") /\ busy' = FALSE /\ banner' = text

ForgetHandles == server' = None /\ service' = None /\ chars' = None

(* Another action runs, or the end of one has cleared the flag of this one. *)
Accompanied(a) == ~busy' \/ \E b \in Action \ {a} : awaiting[b] # "idle"

(* Mutant of ConnectTo: the listener follows only the first device. *)
ConnectKeepsDevice(a, d) ==
  /\ device' = IF device = None THEN d ELSE device
  /\ arg' = [arg EXCEPT ![a] = d]
  /\ alive' = [alive EXCEPT ![a] = TRUE]
  /\ IF linked[d] THEN Await(a, "service") /\ server' = d
                  ELSE Await(a, "connect") /\ UNCHANGED server
  /\ tangled' = Accompanied(a)
  /\ UNCHANGED <<service, chars, linked, banner, displayed, offered>>

(* connect(device), up to its first await: the listener moves at once. *)
ConnectTo(a, d) ==
  /\ device' = d
  /\ arg' = [arg EXCEPT ![a] = d]
  /\ alive' = [alive EXCEPT ![a] = TRUE]
  /\ IF linked[d] THEN Await(a, "service") /\ server' = d
                  ELSE Await(a, "connect") /\ UNCHANGED server
  /\ tangled' = Accompanied(a)
  /\ UNCHANGED <<service, chars, linked, banner, displayed, offered>>

ChooseDevice(a) == /\ awaiting[a] = "idle" /\ ~busy
                   /\ Await(a, "choose") /\ busy' = TRUE
                   /\ UNCHANGED <<device, handles, linked, arg, alive, banner, displayed,
                                   offered, tangled>>

Chosen(a) == /\ awaiting[a] = "choose"
             /\ UNCHANGED busy
             /\ \E d \in Device : ConnectTo(a, d)

ConnectRemembered(a) == /\ awaiting[a] = "idle" /\ busy' = TRUE
                        /\ \E d \in Device : ConnectTo(a, d)

ReconnectCurrent(a) == /\ awaiting[a] = "idle" /\ ~busy /\ offered = "reconnect"
                       /\ busy' = TRUE
                       /\ ConnectTo(a, device)

(* gatt.connect() resolves; getPrimaryService is called on its server. *)
ServerConnected(a) ==
  /\ awaiting[a] = "connect"
  /\ linked' = [linked EXCEPT ![arg[a]] = TRUE]
  /\ server' = arg[a]
  /\ Await(a, "service")
  /\ UNCHANGED <<device, service, chars, arg, alive, busy, banner, displayed, offered, tangled>>

ServiceFound(a) ==
  /\ awaiting[a] = "service" /\ alive[a]
  /\ service' = arg[a]
  /\ Await(a, "chars")
  /\ UNCHANGED <<device, server, chars, linked, arg, alive, busy, banner, displayed,
                  offered, tangled>>

(* Both characteristics are there; readStatus() refuses to read when the
   device selected meanwhile has no link, and connect() does not await it, so
   that its errors do not reach the catch clause. *)
CharacteristicsFound(a) ==
  /\ awaiting[a] = "chars" /\ alive[a]
  /\ chars' = arg[a]
  /\ IF device # None /\ linked[device] /\ server # None /\ service # None
       THEN Await(a, "read") /\ UNCHANGED <<busy, banner>>
       ELSE Finish(a, Text("error", None))
  /\ UNCHANGED <<device, server, service, linked, arg, alive, displayed, tangled>>
  /\ UpdateControls

Refresh(a) == /\ awaiting[a] = "idle" /\ ~busy /\ offered = "refresh" /\ Connected
              /\ arg' = [arg EXCEPT ![a] = chars]
              /\ alive' = [alive EXCEPT ![a] = chars # Stale]
              /\ Await(a, "read") /\ busy' = TRUE
              /\ UNCHANGED <<device, handles, linked, banner, displayed, offered, tangled>>

(* Pressed on a button that is out of date: readStatus() throws at once. *)
RefreshRefused(a) == /\ awaiting[a] = "idle" /\ ~busy /\ offered = "refresh" /\ ~Connected
                     /\ Finish(a, Text("error", None))
                     /\ UNCHANGED <<device, handles, linked, arg, alive, displayed, tangled>>
                     /\ UpdateControls

(* Both values are there: the status is rendered in the same turn. *)
StatusRead(a) == /\ awaiting[a] = "read" /\ alive[a]
                 /\ displayed' = arg[a]
                 /\ Finish(a, Text("connected", device))
                 /\ UNCHANGED <<device, handles, linked, arg, alive, tangled>>
                 /\ UpdateControls

-----------------------------------------------------------------------------
(* The operations under way on a link that ends are rejected. *)
LinkOver(d) ==
  /\ linked' = [linked EXCEPT ![d] = FALSE]
  /\ alive' = [a \in Action |-> alive[a] /\ ~(arg[a] = d /\ awaiting[a] # "connect")]

Dead(handle, d) == IF handle = d THEN Stale ELSE handle

HandleDisconnect == /\ ForgetHandles /\ banner' = Text("disconnected", device)
                    /\ UNCHANGED <<device, awaiting, arg, busy, displayed, tangled>>
                    /\ UpdateControls

(* gattserverdisconnected: _handleDisconnect runs if the client listens to
   this device; otherwise the handles stay, and are of no use any more. *)
Disconnected(d) ==
  /\ linked[d]
  /\ LinkOver(d)
  /\ \/ device = d /\ HandleDisconnect
     \/ /\ device # d
        /\ service' = Dead(service, d) /\ chars' = Dead(chars, d)
        /\ UNCHANGED <<device, server, awaiting, arg, busy, banner, displayed, offered, tangled>>

(* disconnect(), which needs no link to forget the handles. *)
DisconnectCurrent ==
  /\ ~busy /\ offered = "refresh"
  /\ \/ Disconnected(device)
     \/ ~linked[device] /\ UNCHANGED <<linked, alive>> /\ HandleDisconnect

(* Mutant of ConnectFails: the handles are dropped, the link is left. *)
ConnectFailsKeepsLink(a) ==
  /\ awaiting[a] \in {"connect", "service", "chars"}
  /\ ForgetHandles
  /\ Finish(a, Text("error", None))
  /\ UNCHANGED <<device, arg, displayed, linked, alive, tangled>>
  /\ UpdateControls

(* The catch clause of connect(): drop the handles and the link; the event of
   that link comes before the error is shown. *)
ConnectFails(a) ==
  /\ awaiting[a] \in {"connect", "service", "chars"}
  /\ ForgetHandles
  /\ IF linked[arg[a]] THEN LinkOver(arg[a]) ELSE UNCHANGED <<linked, alive>>
  /\ Finish(a, Text("error", None))
  /\ UNCHANGED <<device, arg, displayed, tangled>>
  /\ UpdateControls

(* Mutant of ActionFails: no finally clause. *)
ActionFailsBusy(a) == /\ awaiting[a] \in {"choose", "read"}
                      /\ Await(a, "idle") /\ banner' = Text("error", None)
                      /\ UNCHANGED <<device, handles, linked, arg, alive, busy, displayed, tangled>>
                      /\ UpdateControls

(* The chooser is closed, or a value cannot be read or is not a status. *)
ActionFails(a) == /\ awaiting[a] \in {"choose", "read"}
                  /\ Finish(a, Text("error", None))
                  /\ UNCHANGED <<device, handles, linked, arg, alive, displayed, tangled>>
                  /\ UpdateControls

-----------------------------------------------------------------------------
Press(a) == \/ ChooseDevice(a) \/ ConnectRemembered(a) \/ ReconnectCurrent(a)
            \/ Refresh(a) \/ RefreshRefused(a)

Settle(a) == \/ Chosen(a) \/ ServerConnected(a) \/ ServiceFound(a)
             \/ CharacteristicsFound(a) \/ StatusRead(a)
             \/ ConnectFails(a) \/ ActionFails(a)

PageNext ==
  \/ \E a \in Action : Press(a) \/ Settle(a)
  \/ \E d \in Device : Disconnected(d)
  \/ DisconnectCurrent

PageSpec == PageInit /\ [][PageNext]_pageVars

-----------------------------------------------------------------------------
(* app.mjs:189-228, bluetooth.mjs:59-129.  When no action runs, what the page
   says is so: "Connected to X" means that X is linked, that every handle is
   X's, and that the status displayed is X's; "Disconnected" means that the
   buttons offer to reconnect.  No loss of a link at any await and no failing
   step of a connect leaves it otherwise; and whatever actions that overlap
   (app.mjs:271) have left behind, the next connect made alone repairs it. *)
SettledBanner ==
  ~busy /\ ~tangled =>
    /\ banner.state = "connected" =>
         /\ linked[banner.name] /\ device = banner.name
         /\ server = device /\ service = device /\ chars = device
         /\ displayed = device
    /\ banner.state = "disconnected" =>
         device = banner.name /\ ~Connected /\ offered = "reconnect"

(* bluetooth.mjs:59-90, 118-129.  When no action runs, the client is connected
   altogether or not at all: the handles are all there, of a linked device, or
   all gone, and then the link of the device that was tried is not left open
   (a link that nobody uses keeps other clients from the server).  This too is
   restored by the next connect made alone after actions that overlapped. *)
NoHalfConnection ==
  ~busy /\ ~tangled =>
    \/ device # None /\ linked[device]
       /\ server = device /\ service = device /\ chars = device
    \/ server = None /\ service = None /\ chars = None
       /\ (device # None => ~linked[device])
=============================================================================
