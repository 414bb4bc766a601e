----------------------------- MODULE StatusRead -----------------------------
(***************************************************************************)
(* One reading of the host's status: a GATT central's read of SYSTEM_INFO  *)
(* or NETWORK_STATUS through StatusCharacteristic.ReadValue, ble_gatt.py,  *)
(* or the whole document of "codepc-link status", cli.py.  Both go through *)
(* collect_status, core.py, and the collector of network.py.  A central    *)
(* reads on at the next offset while the parts it gets are full, and       *)
(* ReadValue collects anew for each part.                                  *)
(***************************************************************************)
EXTENDS NetworkCollector, FiniteSets

CONSTANTS MaxBytes,     \* MAX_CHARACTERISTIC_BYTES
          Part          \* the most an answer to a read may carry

ASSUME SizeAssumption == MaxBytes \in Nat \ {0, 1} /\ Part \in Nat \ {0}

VARIABLES reader,       \* what is read
          identified,   \* load_or_create_device_id answered
          document,     \* the document of the last part, None before the first
          torn,         \* the bytes received are not those of one document
          offset,       \* the bytes received
          history       \* history: the hosts since the collection began

readVars == <<reader, identified, document, torn, offset>>
vars == <<networkVars, collectorVars, readVars, history>>

Characteristics == {"SYSTEM_INFO", "NETWORK_STATUS"}
Readers == Characteristics \cup {"status"}
Calls == {"list", "connectivity"} \cup DeviceCalls
Places == {"begin", "collected", "unavailable", "delivered"} \cup Calls

TypeOK == /\ NetworkTypeOK /\ CollectorTypeOK
          /\ at \in Places
          /\ reader \in Readers
          /\ identified \in BOOLEAN /\ torn \in BOOLEAN
          /\ offset \in Nat
          /\ Host \in history

Init == /\ NetworkInit /\ CollectorInit
        /\ at = "begin"
        /\ reader \in Readers
        /\ identified = TRUE
        /\ document = None /\ torn = FALSE /\ offset = 0
        /\ history = {Host}

-----------------------------------------------------------------------------
(* The documents, and their size in some unit of bytes. *)
IdentityErrors ==
  IF identified THEN {}
  ELSE {[component |-> "identity", code |-> "DEVICE_ID_UNAVAILABLE", device |-> None]}

Status(available) ==
  [id |-> identified, available |-> available, interfaces |-> Interfaces,
   internet |-> internet, errors |-> IdentityErrors \cup NetworkErrors]

SystemInfoPayload(s) ==
  [id |-> s.id, available |-> s.available,
   errors |-> {e \in s.errors : e.component \in {"identity", "system"}}]

NetworkStatusPayload(s) ==
  [interfaces |-> s.interfaces, internet |-> s.internet,
   errors |-> {e \in s.errors : e.component = "network"}]

ErrorPayload(c) == [errors |-> {[component |-> "ble", code |-> c, device |-> None]}]

Size(doc) ==
  1 + Cardinality(doc.errors)
    + (IF "interfaces" \in DOMAIN doc THEN Cardinality(doc.interfaces) ELSE 0)

Payload(s) == CASE reader = "SYSTEM_INFO"    -> SystemInfoPayload(s)
                [] reader = "NETWORK_STATUS" -> NetworkStatusPayload(s)
                [] reader = "status"         -> s

(* Mutant: the size is not checked. *)
SerializePayloadUnchecked(doc) == doc

(* serialize_payload, with the except clause of ReadValue. *)
SerializePayload(doc) ==
  IF Size(doc) > MaxBytes THEN ErrorPayload("PAYLOAD_TOO_LARGE") ELSE doc

(* read_from_offset: the bytes of doc from an offset to its end. *)
ReadFromOffset(doc, from) ==
  [doc |-> doc, len |-> IF from < Size(doc) THEN Size(doc) - from ELSE 0]

-----------------------------------------------------------------------------
(* collect_status up to its first await: the device identifier, then the
   collector. *)
Begin ==
  /\ at = "begin" /\ at' = "list"
  /\ \/ identified' = TRUE /\ UNCHANGED failures
     \/ identified' = FALSE /\ Fails
  /\ history' = {Host}
  /\ UNCHANGED <<networkVars, left, raw, rawDevices, unread, internet,
                 reader, document, torn, offset>>

(* The collector's next call is answered, or fails. *)
Collect ==
  /\ UNCHANGED <<networkVars, reader, identified, document, torn, offset, history>>
  /\ CollectorReads \/ CollectorFails

(* _service_active: None without systemctl or an answer in time. *)
ServiceActive(answer) == \/ answer = cockpit /\ UNCHANGED failures
                         \/ answer = None /\ Fails

(* What BlueZ passes on of an answer; a full part is followed by another. *)
Receive(answer) ==
  LET len == IF answer.len > Part THEN Part ELSE answer.len IN
    /\ document' = answer.doc
    /\ torn' = \/ torn
               \/ /\ document \notin {None, answer.doc}
                  /\ len > 0 \/ offset # Size(document)
    /\ offset' = offset + len
    /\ at' = IF len = Part THEN "begin" ELSE "delivered"

(* The end of ReadValue; nothing else raises but in the "except Exception". *)
ReadValue ==
  /\ at \in {"collected", "unavailable"} /\ reader \in Characteristics
  /\ \/ \E available \in {cockpit, None} :
          /\ ServiceActive(available)
          /\ Receive(ReadFromOffset(SerializePayload(Payload(Status(available))), offset))
     \/ /\ Fails
        /\ Receive(ReadFromOffset(ErrorPayload("STATUS_READ_FAILED"), offset))
  /\ DropLocals
  /\ UNCHANGED <<networkVars, reader, identified, history>>

(* _run_status writes the whole document. *)
RunStatus ==
  /\ at \in {"collected", "unavailable"} /\ reader = "status"
  /\ \E available \in {cockpit, None} :
       LET doc == Status(available) IN
         /\ ServiceActive(available)
         /\ document' = doc
         /\ offset' = Size(doc)
  /\ at' = "delivered" /\ UNCHANGED torn
  /\ DropLocals
  /\ UNCHANGED <<networkVars, reader, identified, history>>

Changes == /\ at # "delivered"
           /\ HostChanges
           /\ history' = history \cup {Host'}
           /\ UNCHANGED <<collectorVars, reader, identified, document, torn, offset>>

(* A reading that is over; any other state without a step is a deadlock. *)
Over == at = "delivered" /\ UNCHANGED vars

Next == Begin \/ Collect \/ ReadValue \/ RunStatus \/ Changes \/ Over

Spec == Init /\ [][Next]_vars

-----------------------------------------------------------------------------
(* What a reading of a network at rest should show: the devices worth
   showing, as NetworkManager has them. *)
Worth(d) == Type[d] # "tun" /\ (d \in Managed \/ HasAddress(device[d]))

View(d) ==
  LET c == device[d] IN
    [name |-> d,
     link |-> CASE c.state = 100 -> "up"
                [] c.state = 50 -> "configuring"
                [] OTHER -> "down",
     address |-> IF HasAddress(c) THEN c.object ELSE 0,
     default |-> route = d, internet |-> route = d /\ connectivity,
     ssid |-> c.ap]

Snapshot ==
  [id |-> TRUE, available |-> cockpit,
   interfaces |-> {View(d) : d \in {p \in Present : Worth(p)}},
   internet |-> connectivity, errors |-> {}]

Delivered(doc) == ~torn /\ document = doc /\ offset = Size(doc)

(* network.py:126-306, core.py:35-101, protocol.py:25-48, ble_gatt.py:129-159.
   When nothing changes and nothing fails from the first part to the last,
   the parts are exactly the document that says how the network is: whatever
   the order of the calls, however many parts there are. *)
QuietReadIsSnapshot ==
  at = "delivered" /\ changes = 0 /\ failures = 0 =>
    Delivered(IF reader = "status" THEN Snapshot ELSE SerializePayload(Payload(Snapshot)))

(* network.py:223-260.  A device is read by several calls, between which it
   changes.  Everything a document says of an interface was nevertheless so
   at some moment of its collection: in particular the link, which combines
   the device's state with a carrier read later. *)
WasSo(i) ==
  LET hosts == {h \in history : h.device[i.name] # None}
  IN /\ \E h \in hosts : CASE i.link = "up"          -> h.device[i.name].state = 100
                           [] i.link = "configuring" -> h.device[i.name].state = 50
                           [] i.link = "down"        -> h.device[i.name].state < 40
     /\ i.address # 0 => \E h \in hosts : /\ HasAddress(h.device[i.name])
                                          /\ h.device[i.name].object = i.address
     /\ i.default => \E h \in hosts : h.route = i.name
     /\ i.ssid # None => \E h \in hosts : h.device[i.name].ap = i.ssid

ClaimsHeld ==
  at = "delivered" /\ "interfaces" \in DOMAIN document =>
    \A i \in document.interfaces : WasSo(i)

(* network.py:281-293, PROTOCOL.md:104.  A managed device that was there all
   the time is never missing without an error. *)
MissingIsReported ==
  at = "delivered" /\ "interfaces" \in DOMAIN document =>
    \A d \in {m \in Managed : Type[m] # "tun" /\ \A h \in history : h.device[m] # None} :
      \/ \E i \in document.interfaces : i.name = d
      \/ \E e \in document.errors : e.code = "NM_UNAVAILABLE" \/ e.device = d

(* protocol.py:35-48.  However the document changes between the parts, no
   read of a characteristic gets more than MAX_CHARACTERISTIC_BYTES: a central
   that reads on while the parts are full comes to an end. *)
LongReadBounded == reader \in Characteristics => offset <= MaxBytes

(* docs/PROTOCOL.md:26, "The server implements BlueZ `ReadValue` offset
   semantics so clients can perform GATT long reads": the parts a central gets
   are parts of one document. *)
OneDocument == at = "delivered" => ~torn
=============================================================================
