-------------------------- MODULE StatusReadProofs --------------------------
(***************************************************************************)
(* For every set of devices, every sequence of changes and failures and    *)
(* every size of the parts: a long read of a characteristic ends, because  *)
(* the bytes received never exceed the limit of serialize_payload; a       *)
(* managed device is never missing from a document without an error; what  *)
(* a document says of a device was so during its collection; and when      *)
(* nothing changes or fails the parts are exactly the document wanted.     *)
(***************************************************************************)
EXTENDS StatusRead, FiniteSetTheorems, TLAPS

(* What the collector has gathered is finite, so that a document has a size;
   the bound itself; and the central asks on at a natural offset. *)
Gathered == IsFiniteSet(rawDevices) /\ IsFiniteSet(unread)

IInv == /\ Gathered
        /\ offset \in Nat
        /\ LongReadBounded

-----------------------------------------------------------------------------
(* The image of a finite set under a function is finite. *)
LEMMA ImageFinite ==
  ASSUME NEW S, NEW f, IsFiniteSet(S)
  PROVE  IsFiniteSet({f[x] : x \in S})
<1> DEFINE T == {f[x] : x \in S}
           g == [x \in S |-> f[x]]
<1>1. g \in Surjection(S, T) BY DEF Surjection
<1> QED BY <1>1, FS_Surjection

LEMMA InterfacesFinite == ASSUME Gathered PROVE IsFiniteSet(Interfaces)
<1> DEFINE shown == {s \in rawDevices : ShouldShow(s)}
           f == [r \in shown |-> Interface(r)]
<1>1. IsFiniteSet(shown) BY FS_Subset DEF Gathered
<1>2. Interfaces = {f[r] : r \in shown} BY DEF Interfaces
<1> HIDE DEF shown, f
<1> QED BY <1>1, <1>2, ImageFinite

LEMMA ErrorsFinite == ASSUME Gathered PROVE IsFiniteSet(IdentityErrors \cup NetworkErrors)
<1> DEFINE err(d) == [component |-> "network", code |-> "NM_DEVICE_READ_FAILED", device |-> d]
           f == [d \in unread |-> err(d)]
           reads == {err(d) : d \in unread}
           gone == [component |-> "network", code |-> "NM_UNAVAILABLE", device |-> None]
           none == [component |-> "identity", code |-> "DEVICE_ID_UNAVAILABLE", device |-> None]
<1>1. IsFiniteSet(reads)
  <2>1. reads = {f[d] : d \in unread} OBVIOUS
  <2>2. IsFiniteSet(unread) BY DEF Gathered
  <2> HIDE DEF f, reads
  <2> QED BY <2>1, <2>2, ImageFinite
<1>2. NetworkErrors \in {reads, reads \cup {gone}} BY DEF NetworkErrors
<1>3. IdentityErrors \in {{}, {none}} BY DEF IdentityErrors
<1> HIDE DEF f, reads, gone, none
<1>4. IsFiniteSet(NetworkErrors) BY <1>1, <1>2, FS_AddElement
<1>5. IsFiniteSet({none}) BY FS_Singleton
<1>6. IsFiniteSet(IdentityErrors) BY <1>3, <1>5, FS_EmptySet
<1> QED BY <1>4, <1>6, FS_Union

(* A payload with finitely many errors and interfaces has a size. *)
LEMMA SizeIsNat ==
  ASSUME NEW doc, IsFiniteSet(doc.errors),
         "interfaces" \in DOMAIN doc => IsFiniteSet(doc.interfaces)
  PROVE  Size(doc) \in Nat
<1>1. Cardinality(doc.errors) \in Nat BY FS_CardinalityType
<1>2. CASE "interfaces" \in DOMAIN doc
  <2>1. Cardinality(doc.interfaces) \in Nat BY <1>2, FS_CardinalityType
  <2> QED BY <1>1, <1>2, <2>1 DEF Size
<1>3. CASE "interfaces" \notin DOMAIN doc BY <1>1, <1>3 DEF Size
<1> QED BY <1>2, <1>3

LEMMA PayloadSize ==
  ASSUME Gathered, reader \in Characteristics, NEW available
  PROVE  Size(Payload(Status(available))) \in Nat
<1> DEFINE s == Status(available)
<1>1. IsFiniteSet(s.errors) BY ErrorsFinite DEF Status
<1>2. IsFiniteSet(s.interfaces) BY InterfacesFinite DEF Status
<1> HIDE DEF s
<1>3. CASE reader = "SYSTEM_INFO"
  <2>1. Payload(s) = SystemInfoPayload(s) BY <1>3 DEF Payload
  <2>2. IsFiniteSet(Payload(s).errors) BY <1>1, <2>1, FS_Subset DEF SystemInfoPayload
  <2>3. "interfaces" \notin DOMAIN Payload(s) BY <2>1 DEF SystemInfoPayload
  <2> QED BY <2>2, <2>3, SizeIsNat DEF s
<1>4. CASE reader = "NETWORK_STATUS"
  <2>1. Payload(s) = NetworkStatusPayload(s) BY <1>4 DEF Payload
  <2>2. IsFiniteSet(Payload(s).errors) BY <1>1, <2>1, FS_Subset DEF NetworkStatusPayload
  <2>3. Payload(s).interfaces = s.interfaces BY <2>1 DEF NetworkStatusPayload
  <2> QED BY <1>2, <2>2, <2>3, SizeIsNat DEF s
<1> QED BY <1>3, <1>4 DEF Characteristics

(* The error document of ReadValue fits whatever the limit is. *)
LEMMA ErrorPayloadFits ==
  ASSUME NEW c PROVE Size(ErrorPayload(c)) \in Nat /\ Size(ErrorPayload(c)) <= MaxBytes
<1>1. Cardinality(ErrorPayload(c).errors) = 1 BY FS_Singleton DEF ErrorPayload
<1>2. "interfaces" \notin DOMAIN ErrorPayload(c) BY DEF ErrorPayload
<1>3. Size(ErrorPayload(c)) = 2 BY <1>1, <1>2 DEF Size
<1> QED BY <1>3, SizeAssumption

LEMMA SerializedFits ==
  ASSUME NEW doc, Size(doc) \in Nat
  PROVE  /\ Size(SerializePayload(doc)) \in Nat
         /\ Size(SerializePayload(doc)) <= MaxBytes
<1>1. CASE Size(doc) > MaxBytes BY <1>1, ErrorPayloadFits DEF SerializePayload
<1>2. CASE ~(Size(doc) > MaxBytes) BY <1>2, SizeAssumption DEF SerializePayload
<1> QED BY <1>1, <1>2

(* Whatever document a part comes from, it does not lead past the limit. *)
LEMMA PartStaysBelow ==
  ASSUME IInv, reader \in Characteristics,
         NEW doc, Size(doc) \in Nat, Size(doc) <= MaxBytes,
         Receive(ReadFromOffset(doc, offset))
  PROVE  offset' \in Nat /\ offset' <= MaxBytes
BY SizeAssumption DEF IInv, LongReadBounded, Receive, ReadFromOffset

-----------------------------------------------------------------------------
LEMMA Initially == ASSUME Init PROVE IInv
BY FS_EmptySet, SizeAssumption
   DEF Init, CollectorInit, IInv, Gathered, LongReadBounded

LEMMA CollectStep == ASSUME IInv, Collect PROVE IInv'
<1>1. offset' \in Nat /\ LongReadBounded' BY DEF Collect, IInv, LongReadBounded
<1>2. Gathered'
  <2> USE DEF IInv, Gathered
  <2>1. CASE DevicesListed \/ ConnectivityRead \/ Unavailable
    BY <2>1 DEF DevicesListed, ConnectivityRead, Unavailable
  <2>2. CASE DeviceRead \/ OptionalRead \/ OptionalUnread
    <3>1. PICK r : Continue(r) BY <2>2 DEF DeviceRead, OptionalRead, OptionalUnread
    <3>2. rawDevices' \in {rawDevices, rawDevices \cup {r}} BY <3>1, Zenon DEF Continue
    <3>3. unread' = unread BY <2>2 DEF DeviceRead, OptionalRead, OptionalUnread
    <3> QED BY <3>2, <3>3, FS_AddElement
  <2>3. CASE DeviceUnread BY <2>3, FS_AddElement DEF DeviceUnread
  <2> QED BY <2>1, <2>2, <2>3 DEF Collect, CollectorReads, CollectorFails
<1> QED BY <1>1, <1>2 DEF IInv

LEMMA DroppedIsGathered == ASSUME DropLocals PROVE Gathered'
BY FS_EmptySet DEF DropLocals, Gathered

LEMMA ReadValueStep == ASSUME IInv, ReadValue PROVE IInv'
<1>1. reader \in Characteristics /\ reader' = reader BY DEF ReadValue
<1>2. Gathered' BY DroppedIsGathered DEF ReadValue
<1>3. PICK doc : /\ Size(doc) \in Nat /\ Size(doc) <= MaxBytes
                 /\ Receive(ReadFromOffset(doc, offset))
  <2>1. CASE \E available \in {cockpit, None} :
               Receive(ReadFromOffset(SerializePayload(Payload(Status(available))), offset))
    BY <1>1, <2>1, PayloadSize, SerializedFits DEF IInv
  <2>2. CASE Receive(ReadFromOffset(ErrorPayload("STATUS_READ_FAILED"), offset))
    BY <2>2, ErrorPayloadFits
  <2> QED BY <2>1, <2>2 DEF ReadValue
<1>4. offset' \in Nat /\ offset' <= MaxBytes BY <1>1, <1>3, PartStaysBelow
<1> QED BY <1>2, <1>4 DEF IInv, LongReadBounded

(* The whole status has no limit, and is no read of a characteristic. *)
LEMMA RunStatusStep == ASSUME IInv, RunStatus PROVE IInv'
<1>1. reader = "status" /\ reader' = reader BY DEF RunStatus
<1>2. Gathered' BY DroppedIsGathered DEF RunStatus
<1>3. offset' \in Nat
  <2>1. PICK available \in {cockpit, None} : offset' = Size(Status(available)) BY DEF RunStatus
  <2>2. IsFiniteSet(Status(available).errors) BY ErrorsFinite DEF IInv, Status
  <2>3. IsFiniteSet(Status(available).interfaces) BY InterfacesFinite DEF IInv, Status
  <2> QED BY <2>1, <2>2, <2>3, SizeIsNat
<1> QED BY <1>1, <1>2, <1>3 DEF IInv, LongReadBounded, Characteristics

LEMMA OtherStep ==
  ASSUME IInv, Begin \/ Changes \/ Over \/ UNCHANGED vars
  PROVE  IInv'
BY DEF Begin, Changes, Over, vars, readVars, collectorVars, IInv, Gathered, LongReadBounded

(* The invariant is inductive. *)
LEMMA Inductive == ASSUME IInv, [Next]_vars PROVE IInv'
BY CollectStep, ReadValueStep, RunStatusStep, OtherStep DEF Next

(* protocol.py:35-48, ble_gatt.py:129-159.  However the network changes, no
   read of a characteristic gets past the limit: it comes to an end. *)
THEOREM LongReadsAreBounded == Spec => []LongReadBounded
<1>1. Init => IInv BY Initially
<1>2. IInv /\ [Next]_vars => IInv' BY Inductive
<1>3. IInv => LongReadBounded BY DEF IInv
<1> QED BY <1>1, <1>2, <1>3, PTL DEF Spec

-----------------------------------------------------------------------------
(* The devices MissingIsReported is about. *)
Stays(d) == d \in Managed /\ Type[d] # "tun" /\ \A h \in history : h.device[d] # None

(* From the answer of GetDevices on, such a device is still to be read, has
   been read, or has an error. *)
Tracked ==
  at \in {"connectivity", "collected"} \cup DeviceCalls =>
    \A d : Stays(d) => d \in left \cup {r.name : r \in rawDevices} \cup unread

MInv == /\ Host \in history
        /\ Tracked
        /\ at = "collected" => left = {}
        /\ MissingIsReported

(* A device that stays is there now. *)
LEMMA StaysIsPresent == ASSUME MInv, NEW d, Stays(d) PROVE d \in Present
BY NetworkAssumption DEF MInv, Stays, Host, Present

(* The loop takes a device from the list only when it is read or given up. *)
LEMMA ContinueKeepsTrack ==
  ASSUME NEW r, Continue(r)
  PROVE  \/ left' = left /\ rawDevices' = rawDevices /\ at' # "collected"
         \/ /\ left' = left \ {r.name} /\ rawDevices' = rawDevices \cup {r}
            /\ at' = "collected" => left' = {}
<1> DEFINE here == CHOOSE i \in 1..6 : DeviceReads[i] = at
           further == {i \in (here + 1)..6 : Needs(r, DeviceReads[i])}
<1>1. CASE \E i \in further : at' = DeviceReads[i] /\ UNCHANGED <<left, rawDevices>>
  <2>1. PICK i \in further : at' = DeviceReads[i] BY <1>1
  <2>2. Needs(r, at') BY <2>1
  <2>3. at' # "collected" BY <2>2 DEF Needs
  <2> QED BY <1>1, <2>3
<1>2. CASE rawDevices' = rawDevices \cup {r} /\ NextDevice(left \ {r.name})
  BY <1>2 DEF NextDevice
<1> QED BY <1>1, <1>2, Zenon DEF Continue

LEMMA ReadsKeepTrack ==
  ASSUME MInv, Collect, at \in DeviceCalls
  PROVE  Tracked' /\ (at' = "collected" => left' = {})
<1> DEFINE Seen(d) == d \in left \cup {r.name : r \in rawDevices} \cup unread
<1>1. \A d : Stays(d) => Seen(d) BY DEF MInv, Tracked
<1>2. \A d : Stays(d)' <=> Stays(d) BY DEF Stays, Collect
<1>3. CASE DeviceRead \/ OptionalRead \/ OptionalUnread
  <2>1. PICK r : Continue(r) BY <1>3 DEF DeviceRead, OptionalRead, OptionalUnread
  <2>2. unread' = unread BY <1>3 DEF DeviceRead, OptionalRead, OptionalUnread
  <2>3. at' = "collected" => left' = {}
    BY <2>1, ContinueKeepsTrack
  <2>4. \A d : Seen(d) => Seen(d)' BY <2>1, <2>2, ContinueKeepsTrack
  <2> QED BY <1>1, <1>2, <2>3, <2>4 DEF Tracked
<1>4. CASE DeviceUnread
  <2>1. at' = "collected" => left' = {} BY <1>4 DEF DeviceUnread, NextDevice
  <2>2. \A d : Seen(d) => Seen(d)' BY <1>4 DEF DeviceUnread, NextDevice
  <2> QED BY <1>1, <1>2, <2>1, <2>2 DEF Tracked
<1> QED BY <1>3, <1>4
        DEF Collect, CollectorReads, CollectorFails, DevicesListed, ConnectivityRead,
            Unavailable, DeviceCalls, DeviceReads

LEMMA NotDeliveredYet == ASSUME Collect PROVE at' # "delivered"
<1>1. CASE DevicesListed \/ ConnectivityRead \/ Unavailable \/ DeviceUnread
  BY <1>1 DEF DevicesListed, ConnectivityRead, Unavailable, DeviceUnread, NextDevice
<1>2. CASE \E r : Continue(r)
  <2>1. PICK r : Continue(r) BY <1>2
  <2>2. at' \in {"collected", "device"} \/ \E call : at' = call /\ Needs(r, call)
    BY <2>1, Zenon DEF Continue, NextDevice
  <2> QED BY <2>2 DEF Needs
<1> QED BY <1>1, <1>2 DEF Collect, CollectorReads, CollectorFails, DeviceRead,
           OptionalRead, OptionalUnread

LEMMA CollectKeepsTrack == ASSUME MInv, Collect PROVE MInv'
<1>1. Host' \in history' BY DEF MInv, Collect, networkVars, Host
<1>2. \A d : Stays(d)' <=> Stays(d) BY DEF Stays, Collect
<1>3. at' # "delivered" BY NotDeliveredYet
<1>4. CASE at \in DeviceCalls BY <1>1, <1>3, <1>4, ReadsKeepTrack DEF MInv, MissingIsReported
<1>5. CASE DevicesListed
  <2>1. \A d : Stays(d)' => d \in left' BY <1>2, <1>5, StaysIsPresent DEF DevicesListed
  <2> QED BY <1>1, <1>3, <1>5, <2>1 DEF DevicesListed, MInv, Tracked, MissingIsReported
<1>6. CASE ConnectivityRead
  <2>1. \A d : Stays(d) => d \in left \cup {r.name : r \in rawDevices} \cup unread
    BY <1>6 DEF MInv, Tracked, ConnectivityRead
  <2>2. left' = left /\ rawDevices' = rawDevices /\ unread' = unread
    BY <1>6 DEF ConnectivityRead, NextDevice
  <2>3. at' = "collected" => left' = {} BY <1>6 DEF ConnectivityRead, NextDevice
  <2> QED BY <1>1, <1>2, <1>3, <2>1, <2>2, <2>3 DEF MInv, Tracked, MissingIsReported
<1>7. CASE Unavailable
  BY <1>1, <1>3, <1>7 DEF Unavailable, MInv, Tracked, MissingIsReported, DeviceCalls, DeviceReads
<1> QED BY <1>4, <1>5, <1>6, <1>7 DEF Collect, CollectorReads, CollectorFails, DeviceRead,
           DeviceUnread, OptionalRead, OptionalUnread, DeviceCalls, DeviceReads

(* When the collector is through, each such device is in the result or in an
   error. *)
Told(d) == \/ \E i \in Interfaces : i.name = d
           \/ \E e \in NetworkErrors :
                e.component = "network" /\ (e.code = "NM_UNAVAILABLE" \/ e.device = d)

LEMMA CollectedTells ==
  ASSUME MInv, at \in {"collected", "unavailable"}, NEW d, Stays(d)
  PROVE  Told(d)
<1>1. CASE at = "unavailable"
  <2> DEFINE e == [component |-> "network", code |-> "NM_UNAVAILABLE", device |-> None]
  <2>1. e \in NetworkErrors BY <1>1, Zenon DEF NetworkErrors
  <2>2. e.component = "network" /\ e.code = "NM_UNAVAILABLE" OBVIOUS
  <2> HIDE DEF e
  <2> QED BY <2>1, <2>2 DEF Told
<1>2. CASE at = "collected" /\ d \in unread
  <2> DEFINE e == [component |-> "network", code |-> "NM_DEVICE_READ_FAILED", device |-> d]
  <2>1. e \in NetworkErrors BY <1>2, Zenon DEF NetworkErrors
  <2>2. e.component = "network" /\ e.device = d OBVIOUS
  <2> HIDE DEF e
  <2> QED BY <2>1, <2>2 DEF Told
<1>3. CASE \E r \in rawDevices : r.name = d
  <2>1. PICK r \in rawDevices : r.name = d BY <1>3
  <2>2. ShouldShow(r) BY <2>1 DEF ShouldShow, Hidden, Stays
  <2>3. Interface(r) \in Interfaces BY <2>1, <2>2 DEF Interfaces
  <2>4. Interface(r).name = d BY <2>1 DEF Interface
  <2> QED BY <2>3, <2>4 DEF Told
<1> QED BY <1>1, <1>2, <1>3 DEF MInv, Tracked

(* A document tells what the collector does, or has no interfaces. *)
Tells(doc) ==
  "interfaces" \in DOMAIN doc =>
    \A d : Stays(d) => \/ \E i \in doc.interfaces : i.name = d
                      \/ \E e \in doc.errors : e.code = "NM_UNAVAILABLE" \/ e.device = d

LEMMA StatusTells ==
  ASSUME MInv, at \in {"collected", "unavailable"}, NEW available
  PROVE  /\ Tells(Status(available))
         /\ reader \in Characteristics => Tells(SerializePayload(Payload(Status(available))))
<1> DEFINE s == Status(available)
<1>1. s.interfaces = Interfaces /\ NetworkErrors \subseteq s.errors BY DEF Status
<1>2. \A d : Stays(d) => Told(d) BY CollectedTells
<1>3. Tells(s) BY <1>1, <1>2 DEF Tells, Told
<1> HIDE DEF s
<1>4. CASE reader = "SYSTEM_INFO"
  <2>1. Payload(s) = SystemInfoPayload(s) BY <1>4 DEF Payload
  <2>2. "interfaces" \notin DOMAIN Payload(s) BY <2>1 DEF SystemInfoPayload
  <2> QED BY <1>3, <2>2 DEF Tells, SerializePayload, ErrorPayload, s
<1>5. CASE reader = "NETWORK_STATUS"
  <2>1. Payload(s) = NetworkStatusPayload(s) BY <1>5 DEF Payload
  <2>2. /\ Payload(s).interfaces = Interfaces
        /\ \A e \in NetworkErrors : e.component = "network" => e \in Payload(s).errors
    BY <1>1, <2>1 DEF NetworkStatusPayload
  <2>3. Tells(Payload(s)) BY <1>2, <2>2 DEF Tells, Told
  <2> QED BY <1>3, <2>3 DEF Tells, SerializePayload, ErrorPayload, s
<1> QED BY <1>3, <1>4, <1>5 DEF Characteristics, s

LEMMA DeliverKeepsTrack == ASSUME MInv, ReadValue \/ RunStatus PROVE MInv'
<1>1. /\ at \in {"collected", "unavailable"}
      /\ at' \in {"begin", "delivered"}
      /\ UNCHANGED <<device, route, connectivity, cockpit, history>>
  BY DEF ReadValue, RunStatus, Receive, networkVars
<1>2. Tells(document')
  <2>1. CASE RunStatus BY <1>1, <2>1, StatusTells DEF RunStatus
  <2>2. CASE ReadValue
    <3>1. document' = ErrorPayload("STATUS_READ_FAILED")
            \/ \E available : document' = SerializePayload(Payload(Status(available)))
      BY <2>2 DEF ReadValue, Receive, ReadFromOffset
    <3>2. Tells(ErrorPayload("STATUS_READ_FAILED")) BY DEF Tells, ErrorPayload
    <3> QED BY <1>1, <2>2, <3>1, <3>2, StatusTells DEF ReadValue
  <2> QED BY <2>1, <2>2
<1>3. MissingIsReported' BY <1>1, <1>2 DEF MissingIsReported, Tells, Stays
<1> QED BY <1>1, <1>3 DEF MInv, Tracked, Host, DeviceCalls, DeviceReads

(* A change of the host leaves only fewer devices that stay. *)
LEMMA ChangesKeepTrack == ASSUME MInv, Changes PROVE MInv'
<1>1. \A d : Stays(d)' => Stays(d) BY DEF Stays, Changes
<1>2. UNCHANGED <<at, left, rawDevices, unread>> /\ at # "delivered" BY DEF Changes, collectorVars
<1>3. Host' \in history' BY DEF Changes
<1> QED BY <1>1, <1>2, <1>3 DEF MInv, Tracked, MissingIsReported

LEMMA RestKeepsTrack ==
  ASSUME MInv, Begin \/ Over \/ UNCHANGED vars
  PROVE  MInv'
<1>1. CASE Begin
  BY <1>1 DEF Begin, networkVars, Host, MInv, Tracked, MissingIsReported, DeviceCalls, DeviceReads
<1>2. CASE UNCHANGED vars
  BY <1>2 DEF vars, networkVars, collectorVars, readVars, MInv, Tracked, Stays,
              MissingIsReported, Host
<1> QED BY <1>1, <1>2 DEF Over

LEMMA NothingTrackedAtFirst == ASSUME Init PROVE MInv
BY DEF Init, MInv, Tracked, MissingIsReported, DeviceCalls, DeviceReads

(* network.py:281-293.  Whatever fails or changes between the calls, a managed
   device that was there all the time is in the document or in an error. *)
THEOREM MissingDevicesAreReported == Spec => []MissingIsReported
<1>1. Init => MInv BY NothingTrackedAtFirst
<1>2. MInv /\ [Next]_vars => MInv'
  BY CollectKeepsTrack, DeliverKeepsTrack, ChangesKeepTrack, RestKeepsTrack DEF Next
<1>3. MInv => MissingIsReported BY DEF MInv
<1> QED BY <1>1, <1>2, <1>3, PTL DEF Spec

-----------------------------------------------------------------------------
(* Types.  What a call of the collector leads to. *)
LEMMA CallsAreSix ==
  /\ DeviceCalls = {"device", "ip4", "active", "wired", "wireless", "ap"}
  /\ \A i, j \in 1..6 : DeviceReads[i] = DeviceReads[j] => i = j
  /\ \A i \in 1..6 : DeviceReads[i] \in DeviceCalls
  /\ \A call \in DeviceCalls : \E i \in 1..6 : call = DeviceReads[i]
<1>1. 1..6 = {1, 2, 3, 4, 5, 6} OBVIOUS
<1> QED BY <1>1 DEF DeviceCalls, DeviceReads

LEMMA Continues ==
  ASSUME NEW k \in 1..6, at = DeviceReads[k], NEW r, Continue(r)
  PROVE  \/ \E i \in (k + 1)..6 :
              /\ Needs(r, DeviceReads[i]) /\ \A j \in (k + 1)..(i - 1) : ~Needs(r, DeviceReads[j])
              /\ at' = DeviceReads[i] /\ raw' = r /\ UNCHANGED <<left, rawDevices>>
         \/ /\ \A j \in (k + 1)..6 : ~Needs(r, DeviceReads[j])
            /\ rawDevices' = rawDevices \cup {r}
            /\ NextDevice(left \ {r.name})
<1> DEFINE here == CHOOSE i \in 1..6 : DeviceReads[i] = at
           further == {i \in (here + 1)..6 : Needs(r, DeviceReads[i])}
<1>1. here = k BY CallsAreSix
<1>2. \/ \E i \in further :
           /\ \A j \in further : i <= j
           /\ at' = DeviceReads[i] /\ raw' = r
           /\ UNCHANGED <<left, rawDevices>>
      \/ /\ further = {}
         /\ rawDevices' = rawDevices \cup {r}
         /\ NextDevice(left \ {r.name})
  BY Zenon DEF Continue
<1> HIDE DEF here
<1>3. CASE further = {} /\ rawDevices' = rawDevices \cup {r} /\ NextDevice(left \ {r.name})
  BY <1>1, <1>3
<1>4. ASSUME NEW i \in further, \A j \in further : i <= j,
             at' = DeviceReads[i] /\ raw' = r /\ UNCHANGED <<left, rawDevices>>
      PROVE  /\ i \in (k + 1)..6 /\ Needs(r, DeviceReads[i])
             /\ \A j \in (k + 1)..(i - 1) : ~Needs(r, DeviceReads[j])
  <2>1. i \in (k + 1)..6 /\ Needs(r, DeviceReads[i]) BY <1>1, <1>4
  <2>2. ASSUME NEW j \in (k + 1)..(i - 1), Needs(r, DeviceReads[j]) PROVE FALSE
    <3>1. j \in (k + 1)..6 /\ ~(i <= j) BY <2>1
    <3>2. j \in further BY <1>1, <2>2, <3>1
    <3> QED BY <1>4, <3>1, <3>2
  <2> QED BY <2>1, <2>2
<1> QED BY <1>2, <1>3, <1>4

(* The types of the collector: while it reads a device, there is one. *)
Reading == /\ CollectorTypeOK /\ at \in Places
           /\ at \in DeviceCalls => raw \in Raw

Network == DOMAIN device = Device /\ device = [d \in Device |-> device[d]] /\ NetworkTypeOK

LEMMA UnreadTyped == ASSUME NEW d \in Device PROVE Unread(d) \in Raw
BY DEF Unread, Raw

LEMMA NextDeviceTyped ==
  ASSUME NEW paths \in SUBSET Device, NextDevice(paths)
  PROVE  /\ left' \subseteq Device
         /\ \/ at' = "collected" /\ raw' = None
            \/ at' = "device" /\ \E d \in paths : raw' = Unread(d)
         /\ raw' \in Raw \cup {None} /\ at' \in Places
         /\ at' \in DeviceCalls => raw' \in Raw
BY UnreadTyped, CallsAreSix DEF NextDevice, Places, Calls

LEMMA ContinueTyped ==
  ASSUME Reading, at \in DeviceCalls, NEW r \in Raw, Continue(r)
  PROVE  /\ left' \subseteq Device /\ rawDevices' \subseteq Raw
         /\ raw' \in Raw \cup {None} /\ at' \in Places
         /\ at' \in DeviceCalls => raw' \in Raw
<1>1. PICK k \in 1..6 : at = DeviceReads[k] BY CallsAreSix
<1>2. CASE \E i \in (k + 1)..6 :
             at' = DeviceReads[i] /\ raw' = r /\ UNCHANGED <<left, rawDevices>>
  <2>1. at' \in DeviceCalls BY <1>2, CallsAreSix
  <2> QED BY <1>2, <2>1 DEF Reading, CollectorTypeOK, Places, Calls
<1>3. CASE rawDevices' = rawDevices \cup {r} /\ NextDevice(left \ {r.name})
  <2>1. left \ {r.name} \in SUBSET Device BY DEF Reading, CollectorTypeOK
  <2> QED BY <1>3, <2>1, NextDeviceTyped DEF Reading, CollectorTypeOK
<1> QED BY <1>1, <1>2, <1>3, Continues

(* What the calls answer. *)
LEMMA Answers ==
  ASSUME NEW r
  PROVE  LET c == device[r.name]
         IN  /\ at = "ip4" => Answer(r) = [r EXCEPT !.address = IF HasAddress(c) THEN r.path ELSE 0]
             /\ at = "active" => Answer(r) = [r EXCEPT !.default = route = r.name]
             /\ at = "wired" => Answer(r) = [r EXCEPT !.carrier = c.state # 20]
             /\ at = "wireless" => Answer(r) = [r EXCEPT !.ap = c.ap]
             /\ at = "ap" => Answer(r) = [r EXCEPT !.ssid = r.ap]
BY DEF Answer

(* An answer is one more field of what is known. *)
LEMMA OneField ==
  ASSUME NEW r \in Raw, NEW v
  PROVE  /\ v \in Nat => [r EXCEPT !.address = v] \in Raw
         /\ v \in BOOLEAN => [r EXCEPT !.default = v] \in Raw
         /\ v \in BOOLEAN => [r EXCEPT !.carrier = v] \in Raw
BY DEF Raw

LEMMA AnswerTyped ==
  ASSUME Network, NEW r \in Raw, at \in DeviceCalls \ {"device"}, at # "ap" => Alive(r)
  PROVE  Answer(r) \in Raw
<1> DEFINE c == device[r.name]
<1>1. at # "ap" => c \in Configs(r.name, 0..(changes + 1))
  BY DEF Network, NetworkTypeOK, Alive, Present, Raw
<1>2. CASE at = "ip4"
  <2> DEFINE v == IF HasAddress(c) THEN r.path ELSE 0
  <2>1. v \in Nat BY DEF Raw
  <2>2. Answer(r) = [r EXCEPT !.address = v] BY <1>2, Answers
  <2> HIDE DEF v
  <2> QED BY <2>1, <2>2, OneField
<1>3. CASE at = "active"
  <2> DEFINE v == route = r.name
  <2>1. v \in BOOLEAN OBVIOUS
  <2>2. Answer(r) = [r EXCEPT !.default = v] BY <1>3, Answers
  <2> HIDE DEF v
  <2> QED BY <2>1, <2>2, OneField
<1>4. CASE at = "wired"
  <2> DEFINE v == c.state # 20
  <2>1. v \in BOOLEAN OBVIOUS
  <2>2. Answer(r) = [r EXCEPT !.carrier = v] BY <1>4, Answers
  <2> HIDE DEF v
  <2> QED BY <2>1, <2>2, OneField
<1>5. CASE at = "wireless"
  <2> DEFINE v == c.ap
  <2>1. v \in AccessPoint \cup {None} BY <1>1, <1>5 DEF Configs
  <2>2. Answer(r) = [r EXCEPT !.ap = v] BY <1>5, Answers
  <2> HIDE DEF v
  <2> QED BY <2>1, <2>2 DEF Raw
<1>6. CASE at = "ap"
  <2> DEFINE v == r.ap
  <2>1. v \in AccessPoint \cup {None} BY DEF Raw
  <2>2. Answer(r) = [r EXCEPT !.ssid = v] BY <1>6, Answers
  <2> HIDE DEF v
  <2> QED BY <2>1, <2>2 DEF Raw
<1> QED BY <1>2, <1>3, <1>4, <1>5, <1>6, CallsAreSix

LEMMA FirstReadTyped ==
  ASSUME Network, NEW r \in Raw, r.name \in Present
  PROVE  LET c == device[r.name]
         IN  /\ c \in Configs(r.name, 0..(changes + 1))
             /\ [r EXCEPT !.state = c.state, !.path = c.object] \in Raw
<1>1. device[r.name] \in Configs(r.name, 0..(changes + 1))
  BY DEF Network, NetworkTypeOK, Present, Raw
<1>2. /\ device[r.name].state \in States
      /\ device[r.name].object \in Nat
  BY <1>1 DEF Configs, Network, NetworkTypeOK
<1>3. ASSUME NEW s \in States, NEW o \in Nat
      PROVE  [r EXCEPT !.state = s, !.path = o] \in Raw
  BY DEF Raw
<1> QED BY <1>1, <1>2, <1>3

LEMMA CollectTyped ==
  ASSUME Network, Reading, CollectorReads \/ CollectorFails
  PROVE  Reading'
<1> USE DEF Reading, CollectorTypeOK
<1>1. CASE DevicesListed
  BY <1>1, CallsAreSix DEF DevicesListed, Present, Places, Calls
<1>2. CASE ConnectivityRead
  <2>1. left \in SUBSET Device /\ NextDevice(left) BY <1>2 DEF ConnectivityRead
  <2>2. internet' \in BOOLEAN \cup {None}
    BY <1>2 DEF ConnectivityRead, Network, NetworkTypeOK
  <2> QED BY <1>2, <2>1, <2>2, NextDeviceTyped DEF ConnectivityRead
<1>3. CASE Unavailable
  BY <1>3, CallsAreSix, CollectorAssumption DEF Unavailable, Fails, Places, Calls
<1>4. CASE DeviceUnread
  <2>1. raw \in Raw BY <1>4, CallsAreSix DEF DeviceUnread
  <2>2. left \ {raw.name} \in SUBSET Device /\ raw.name \in Device BY <2>1 DEF Raw
  <2>3. failures' \in 0..MaxFailures BY <1>4, CollectorAssumption DEF DeviceUnread, Fails
  <2> QED BY <1>4, <2>2, <2>3, NextDeviceTyped DEF DeviceUnread
<1>5. CASE DeviceRead \/ OptionalRead \/ OptionalUnread
  <2>1. at \in DeviceCalls /\ raw \in Raw
    BY <1>5, CallsAreSix DEF DeviceRead, OptionalRead, OptionalUnread
  <2>2. PICK r \in Raw : Continue(r)
    <3>1. CASE DeviceRead BY <2>1, <3>1, FirstReadTyped DEF DeviceRead
    <3>2. CASE OptionalRead BY <2>1, <3>2, AnswerTyped DEF OptionalRead
    <3>3. CASE OptionalUnread BY <2>1, <3>3 DEF OptionalUnread
    <3> QED BY <1>5, <3>1, <3>2, <3>3
  <2>3. failures' \in 0..MaxFailures /\ UNCHANGED <<unread, internet>>
    BY <1>5, CollectorAssumption DEF DeviceRead, OptionalRead, OptionalUnread, Fails
  <2> QED BY <2>1, <2>2, <2>3, ContinueTyped
<1> QED BY <1>1, <1>2, <1>3, <1>4, <1>5 DEF CollectorReads, CollectorFails

LEMMA MoreObjects ==
  ASSUME NEW d \in Device, NEW S, NEW T, S \subseteq T
  PROVE  Configs(d, S) \subseteq Configs(d, T)
BY DEF Configs

LEMMA ChangesTyped == ASSUME Network, HostChanges PROVE Network'
<1>1. changes \in Nat /\ MaxChanges \in Nat BY NetworkAssumption DEF Network, NetworkTypeOK
<1>2. changes' = changes + 1 /\ changes' \in 0..MaxChanges BY <1>1 DEF HostChanges
<1>4. \A d \in Device : device[d] = None \/ device[d] \in Configs(d, 0..(changes' + 1))
  <2>1. 0..(changes + 1) \subseteq 0..(changes' + 1) BY <1>1, <1>2
  <2>2. \A d \in Device : Configs(d, 0..(changes + 1)) \subseteq Configs(d, 0..(changes' + 1))
    BY <2>1, MoreObjects
  <2> QED BY <2>2 DEF Network, NetworkTypeOK
<1>5. ASSUME NEW d \in Device, DeviceChanges(d) PROVE Network'
  <2> DEFINE old == device[d]
             kept == IF old = None THEN {} ELSE {old.object}
  <2>1. PICK c : /\ device' = [device EXCEPT ![d] = c]
                 /\ c = None \/ c \in Configs(d, {0, changes + 2} \cup kept)
    BY <1>5 DEF DeviceChanges
  <2>2. kept \subseteq 0..(changes + 1)
    BY DEF Network, NetworkTypeOK, Configs
  <2>3. {0, changes + 2} \cup kept \subseteq 0..(changes' + 1) BY <1>1, <1>2, <2>2
  <2>4. c = None \/ c \in Configs(d, 0..(changes' + 1))
    <3> DEFINE S == {0, changes + 2} \cup kept
               T == 0..(changes' + 1)
    <3>1. S \subseteq T /\ (c = None \/ c \in Configs(d, S)) BY <2>1, <2>3
    <3> SUFFICES c = None \/ c \in Configs(d, T) OBVIOUS
    <3> HIDE DEF S, T
    <3> QED BY <3>1, MoreObjects
  <2>5. /\ DOMAIN device' = Device /\ device' = [e \in Device |-> device'[e]]
        /\ device'[d] = c /\ \A e \in Device : e # d => device'[e] = device[e]
    BY <2>1 DEF Network
  <2>6. \A e \in Device : device'[e] = None \/ device'[e] \in Configs(e, 0..(changes' + 1))
    BY <1>4, <2>4, <2>5
  <2>7. route' \in Activated' \cup {None}
    <3>1. route \in Activated \cup {None} BY DEF Network, NetworkTypeOK
    <3>2. \A e \in Activated : e # d => e \in Activated'
      BY <2>5 DEF Activated, Present
    <3> QED BY <1>5, <3>1, <3>2 DEF DeviceChanges
  <2>8. connectivity' \in BOOLEAN /\ cockpit' \in BOOLEAN
    BY <1>5 DEF DeviceChanges, Network, NetworkTypeOK
  <2> QED BY <1>2, <2>5, <2>6, <2>7, <2>8 DEF Network, NetworkTypeOK
<1>6. CASE RouteChanges
  BY <1>2, <1>4, <1>6 DEF RouteChanges, Network, NetworkTypeOK, Activated, Present
<1>7. CASE CockpitChanges
  BY <1>2, <1>4, <1>7 DEF CockpitChanges, Network, NetworkTypeOK, Activated, Present
<1> QED BY <1>5, <1>6, <1>7 DEF HostChanges

LEMMA NothingTypedAtFirst == ASSUME Init PROVE Network /\ Reading
<1>1. DOMAIN device = Device /\ device = [d \in Device |-> device[d]]
      /\ \A d \in Device : device[d] \in Configs(d, {0, 1}) \cup {None}
  BY DEF Init, NetworkInit
<1>2. \A d \in Device : Configs(d, {0, 1}) \subseteq Configs(d, 0..1)
  <2> DEFINE S == {0, 1}
             T == 0..1
  <2>1. S \subseteq T OBVIOUS
  <2> HIDE DEF S, T
  <2>2. \A d \in Device : Configs(d, S) \subseteq Configs(d, T) BY <2>1, MoreObjects
  <2> QED BY <2>2 DEF S, T
<1>3. 0..(changes + 1) = 0..1 BY DEF Init, NetworkInit
<1>4. \A d \in Device : device[d] = None \/ device[d] \in Configs(d, 0..(changes + 1))
  BY <1>1, <1>2, <1>3
<1>6. route \in Activated \cup {None} /\ connectivity \in BOOLEAN /\ cockpit \in BOOLEAN
  BY DEF Init, NetworkInit
<1>7. changes \in 0..MaxChanges BY NetworkAssumption DEF Init, NetworkInit
<1>8. Network BY <1>1, <1>4, <1>6, <1>7 DEF Network, NetworkTypeOK
<1>5. Reading
  BY CallsAreSix, CollectorAssumption
     DEF Init, CollectorInit, Reading, CollectorTypeOK, Places, Calls
<1> QED BY <1>5, <1>8

LEMMA DroppedTyped ==
  ASSUME Reading, DropLocals, at' \in {"begin", "delivered"}, failures' \in 0..MaxFailures
  PROVE  Reading'
BY CallsAreSix DEF Reading, CollectorTypeOK, DropLocals, Places, Calls

ReadTyped == reader \in Readers /\ identified \in BOOLEAN /\ torn \in BOOLEAN

LEMMA TypesKept ==
  ASSUME Network, Reading, ReadTyped, [Next]_vars
  PROVE  Network' /\ Reading' /\ ReadTyped'
<1>1. ASSUME UNCHANGED networkVars PROVE Network'
  BY <1>1 DEF networkVars, Network, NetworkTypeOK, Activated, Present
<1>2. failures \in 0..MaxFailures /\ (Fails => failures' \in 0..MaxFailures)
  BY CollectorAssumption DEF Reading, CollectorTypeOK, Fails
<1>3. CASE Begin
  <2>1. at' = "list" /\ failures' \in 0..MaxFailures /\ identified' \in BOOLEAN
    BY <1>2, <1>3 DEF Begin
  <2>2. Reading'
    BY <1>3, <2>1, CallsAreSix DEF Begin, Reading, CollectorTypeOK, Places, Calls
  <2> QED BY <1>1, <1>3, <2>1, <2>2 DEF Begin, ReadTyped
<1>4. CASE Collect BY <1>1, <1>4, CollectTyped DEF Collect, ReadTyped
<1>5. CASE ReadValue
  <2>1. at' \in {"begin", "delivered"} /\ torn' \in BOOLEAN
    <3>1. PICK answer : Receive(answer) BY <1>5 DEF ReadValue
    <3>2. at' \in {"begin", "delivered"} BY <3>1 DEF Receive
    <3> DEFINE len == IF answer.len > Part THEN Part ELSE answer.len
    <3>3. torn' = (torn \/ /\ document \notin {None, answer.doc}
                           /\ len > 0 \/ offset # Size(document))
      BY <3>1 DEF Receive
    <3> HIDE DEF len
    <3>4. torn' \in BOOLEAN BY <3>3
    <3> QED BY <3>2, <3>4
  <2>2. failures' \in 0..MaxFailures BY <1>2, <1>5 DEF ReadValue, ServiceActive
  <2> QED BY <1>1, <1>5, <2>1, <2>2, DroppedTyped DEF ReadValue, ReadTyped
<1>6. CASE RunStatus
  <2>1. failures' \in 0..MaxFailures BY <1>2, <1>6 DEF RunStatus, ServiceActive
  <2> QED BY <1>1, <1>6, <2>1, DroppedTyped DEF RunStatus, ReadTyped
<1>7. CASE Changes
  <2>1. Network' BY <1>7, ChangesTyped DEF Changes
  <2> QED BY <1>7, <2>1 DEF Changes, collectorVars, Reading, CollectorTypeOK, ReadTyped
<1>8. CASE UNCHANGED vars
  BY <1>1, <1>8 DEF vars, collectorVars, readVars, Reading, CollectorTypeOK, ReadTyped
<1> QED BY <1>3, <1>4, <1>5, <1>6, <1>7, <1>8 DEF Next, Over

Typed == IInv /\ MInv /\ Network /\ Reading /\ ReadTyped

LEMMA TypedHolds == Spec => []Typed
<1>1. Init => Typed
  BY Initially, NothingTrackedAtFirst, NothingTypedAtFirst DEF Init, Typed, ReadTyped
<1>2. Typed /\ [Next]_vars => Typed'
  <2>1. ASSUME MInv, [Next]_vars PROVE MInv'
    BY <2>1, CollectKeepsTrack, DeliverKeepsTrack, ChangesKeepTrack, RestKeepsTrack DEF Next
  <2> QED BY <2>1, Inductive, TypesKept DEF Typed
<1> QED BY <1>1, <1>2, PTL DEF Spec

(* The variables stay in their ranges, however the network changes. *)
THEOREM TypeCorrect == Spec => []TypeOK
<1>1. Typed => TypeOK BY DEF Typed, TypeOK, Network, Reading, ReadTyped, IInv, MInv
<1> QED BY <1>1, TypedHolds, PTL

-----------------------------------------------------------------------------
(* Claims.  What is known of a device was so on one of the hosts hs, each
   field on one of its own. *)
SeenOn(hs, r) ==
  LET there == {h \in hs : h.device[r.name] # None}
  IN /\ r.state # 0 => \E h \in there : h.device[r.name].state = r.state
     /\ r.carrier = FALSE => \E h \in there : h.device[r.name].state = 20
     /\ r.address # 0 => \E h \in there : /\ HasAddress(h.device[r.name])
                                          /\ h.device[r.name].object = r.address
     /\ r.default => \E h \in there : h.route = r.name
     /\ r.ap # None => \E h \in there : h.device[r.name].ap = r.ap
     /\ r.ssid # None => \E h \in there : h.device[r.name].ap = r.ssid

CInv == /\ \A r \in rawDevices : r.state # 0 /\ SeenOn(history, r)
        /\ at \in DeviceCalls => SeenOn(history, raw)
        /\ at \in DeviceCalls \ {"device"} => raw.state # 0
        /\ at = "begin" => rawDevices = {}
        /\ ClaimsHeld

LEMMA MoreHosts ==
  ASSUME NEW hs, NEW more, hs \subseteq more, NEW r, SeenOn(hs, r)
  PROVE  SeenOn(more, r)
BY DEF SeenOn

LEMMA UnreadClaimsNothing == ASSUME NEW hs, NEW d PROVE SeenOn(hs, Unread(d))
BY NetworkAssumption DEF SeenOn, Unread

(* An answer claims what is so now. *)
LEMMA FirstReadSeen ==
  ASSUME Typed, NEW r \in Raw, r.name \in Present, SeenOn(history, r)
  PROVE  LET c == device[r.name]
             s == [r EXCEPT !.state = c.state, !.path = c.object]
         IN  s.state # 0 /\ SeenOn(history, s)
<1> DEFINE c == device[r.name]
           s == [r EXCEPT !.state = c.state, !.path = c.object]
<1>1. /\ Host \in history /\ Host.device[r.name] = c /\ c # None
  BY DEF Typed, MInv, Host, Present
<1>2. c.state \in States BY FirstReadTyped DEF Typed, Configs
<1>3. s.state = c.state /\ s.name = r.name /\ s.carrier = r.carrier /\ s.address = r.address
      /\ s.default = r.default /\ s.ap = r.ap /\ s.ssid = r.ssid
  BY DEF Raw
<1>4. c.state # 0 BY <1>2 DEF States
<1> HIDE DEF c, s
<1>5. SeenOn(history, s) BY <1>1, <1>3 DEF SeenOn
<1> QED BY <1>3, <1>4, <1>5 DEF c, s

LEMMA AnswerSeen ==
  ASSUME Typed, NEW r \in Raw, at \in DeviceCalls \ {"device"}, at # "ap" => Alive(r),
         r.state # 0, SeenOn(history, r)
  PROVE  Answer(r).state # 0 /\ SeenOn(history, Answer(r))
<1> DEFINE c == device[r.name]
           s == Answer(r)
<1>1. Host \in history /\ Host.device[r.name] = c /\ Host.route = route
  BY DEF Typed, MInv, Host
<1>2. at # "ap" => c # None BY DEF Alive, Present
<1>3. CASE at = "ip4"
  <2> DEFINE v == IF HasAddress(c) THEN r.path ELSE 0
  <2>1. v # 0 => HasAddress(c) /\ c.object = v BY <1>3 DEF Alive
  <2>2. s = [r EXCEPT !.address = v] BY <1>3, Answers
  <2> HIDE DEF v, c, s
  <2>3. s.address = v /\ s.name = r.name /\ s.state = r.state /\ s.carrier = r.carrier
        /\ s.default = r.default /\ s.ap = r.ap /\ s.ssid = r.ssid
    BY <2>2 DEF Raw
  <2>4. SeenOn(history, s) BY <1>1, <1>2, <1>3, <2>1, <2>3 DEF SeenOn
  <2> QED BY <2>3, <2>4 DEF s
<1>4. CASE at = "active"
  <2> DEFINE v == route = r.name
  <2>2. s = [r EXCEPT !.default = v] BY <1>4, Answers
  <2>1. v => route = r.name OBVIOUS
  <2> HIDE DEF v, c, s
  <2>3. s.default = v /\ s.name = r.name /\ s.state = r.state /\ s.carrier = r.carrier
        /\ s.address = r.address /\ s.ap = r.ap /\ s.ssid = r.ssid
    BY <2>2 DEF Raw
  <2>4. SeenOn(history, s) BY <1>1, <1>2, <1>4, <2>1, <2>3 DEF SeenOn
  <2> QED BY <2>3, <2>4 DEF s
<1>5. CASE at = "wired"
  <2> DEFINE v == c.state # 20
  <2>2. s = [r EXCEPT !.carrier = v] BY <1>5, Answers
  <2>1. v = FALSE => c.state = 20 OBVIOUS
  <2> HIDE DEF v, c, s
  <2>3. s.carrier = v /\ s.name = r.name /\ s.state = r.state /\ s.default = r.default
        /\ s.address = r.address /\ s.ap = r.ap /\ s.ssid = r.ssid
    BY <2>2 DEF Raw
  <2>4. SeenOn(history, s) BY <1>1, <1>2, <1>5, <2>1, <2>3 DEF SeenOn
  <2> QED BY <2>3, <2>4 DEF s
<1>6. CASE at = "wireless"
  <2>2. s = [r EXCEPT !.ap = c.ap] BY <1>6, Answers
  <2> HIDE DEF c, s
  <2>3. s.ap = c.ap /\ s.name = r.name /\ s.state = r.state /\ s.default = r.default
        /\ s.address = r.address /\ s.carrier = r.carrier /\ s.ssid = r.ssid
    BY <2>2 DEF Raw
  <2>4. SeenOn(history, s) BY <1>1, <1>2, <1>6, <2>3 DEF SeenOn
  <2> QED BY <2>3, <2>4 DEF s
<1>7. CASE at = "ap"
  <2>2. s = [r EXCEPT !.ssid = r.ap] BY <1>7, Answers
  <2> HIDE DEF c, s
  <2>3. s.ssid = r.ap /\ s.name = r.name /\ s.state = r.state /\ s.default = r.default
        /\ s.address = r.address /\ s.carrier = r.carrier /\ s.ap = r.ap
    BY <2>2 DEF Raw
  <2>4. SeenOn(history, s) BY <2>3 DEF SeenOn
  <2> QED BY <2>3, <2>4 DEF s
<1> QED BY <1>3, <1>4, <1>5, <1>6, <1>7, CallsAreSix

(* The loop goes on with what was seen. *)
LEMMA NextDeviceSeen ==
  ASSUME NEW paths, NextDevice(paths), \A r \in rawDevices' : r.state # 0 /\ SeenOn(history', r)
  PROVE  CInv'
<1>1. at' \in {"collected", "device"} BY DEF NextDevice
<1>2. at' \in DeviceCalls => \E d : raw' = Unread(d) BY CallsAreSix DEF NextDevice
<1>3. at' \in DeviceCalls => SeenOn(history', raw')
  <2>1. \A d : SeenOn(history', Unread(d)) BY UnreadClaimsNothing
  <2> QED BY <1>2, <2>1
<1>4. ClaimsHeld' BY <1>1 DEF ClaimsHeld
<1> QED BY <1>1, <1>3, <1>4, CallsAreSix DEF CInv

LEMMA CollectClaims == ASSUME Typed, CInv, Collect PROVE CInv'
<1>1. history' = history BY DEF Collect
<1>2. CASE DevicesListed \/ Unavailable
  BY <1>1, <1>2, CallsAreSix DEF DevicesListed, Unavailable, CInv, ClaimsHeld
<1>3. CASE ConnectivityRead
  BY <1>1, <1>3, NextDeviceSeen DEF ConnectivityRead, CInv
<1>4. CASE DeviceUnread
  BY <1>1, <1>4, NextDeviceSeen DEF DeviceUnread, CInv
<1>5. CASE DeviceRead \/ OptionalRead \/ OptionalUnread
  <2>1. at \in DeviceCalls /\ raw \in Raw /\ SeenOn(history, raw)
    BY <1>5, CallsAreSix DEF DeviceRead, OptionalRead, OptionalUnread, Typed, Reading, CInv
  <2>2. PICK k \in 1..6 : at = DeviceReads[k] BY <2>1, CallsAreSix
  <2>3. PICK r : Continue(r) /\ r.state # 0 /\ SeenOn(history, r)
    <3>1. CASE DeviceRead BY <2>1, <3>1, FirstReadSeen DEF DeviceRead
    <3>2. CASE OptionalRead BY <2>1, <3>2, AnswerSeen DEF OptionalRead, CInv
    <3>3. CASE OptionalUnread BY <2>1, <3>3 DEF OptionalUnread, CInv
    <3> QED BY <1>5, <3>1, <3>2, <3>3
  <2>4. CASE \E i \in (k + 1)..6 :
               at' = DeviceReads[i] /\ raw' = r /\ UNCHANGED <<left, rawDevices>>
    <3>1. at' \in DeviceCalls BY <2>4, CallsAreSix
    <3>2. ClaimsHeld' /\ at' # "begin" BY <3>1, CallsAreSix DEF ClaimsHeld
    <3> QED BY <1>1, <2>3, <2>4, <3>1, <3>2 DEF CInv
  <2>5. CASE rawDevices' = rawDevices \cup {r} /\ NextDevice(left \ {r.name})
    BY <1>1, <2>3, <2>5, NextDeviceSeen DEF CInv
  <2> QED BY <2>2, <2>3, <2>4, <2>5, Continues
<1> QED BY <1>2, <1>3, <1>4, <1>5 DEF Collect, CollectorReads, CollectorFails

(* The link of an interface is the state, or the missing carrier. *)
LEMMA InterfaceWasSo ==
  ASSUME NEW r \in Raw, r.state # 0, SeenOn(history, r)
  PROVE  WasSo(Interface(r))
<1> DEFINE i == Interface(r)
           there == {h \in history : h.device[r.name] # None}
<1>1. /\ i.name = r.name /\ i.address = r.address /\ i.default = r.default /\ i.ssid = r.ssid
      /\ i.link = LinkState(r.state, r.carrier)
  BY DEF Interface
<1>2. r.state \in {10, 20, 30, 50, 100} BY DEF Raw, States
<1> HIDE DEF i
<1>3. \E h \in there : CASE i.link = "up"          -> h.device[r.name].state = 100
                         [] i.link = "configuring" -> h.device[r.name].state = 50
                         [] i.link = "down"        -> h.device[r.name].state < 40
  <2>1. CASE r.carrier = FALSE
    <3>1. i.link = "down" BY <1>1, <2>1 DEF LinkState
    <3>2. PICK h \in there : h.device[r.name].state = 20 BY <2>1 DEF SeenOn
    <3> QED BY <3>1, <3>2
  <2>2. CASE r.carrier # FALSE
    <3>1. PICK h \in there : h.device[r.name].state = r.state BY DEF SeenOn
    <3>2. CASE r.state = 100
      <4>1. i.link = "up" BY <1>1, <2>2, <3>2 DEF LinkState
      <4> QED BY <3>1, <3>2, <4>1
    <3>3. CASE r.state = 50
      <4>1. r.state # 100 /\ r.state >= 40 BY <3>3
      <4>2. i.link = "configuring" BY <1>1, <2>2, <4>1 DEF LinkState
      <4> QED BY <3>1, <3>3, <4>2
    <3>4. CASE r.state \in {10, 20, 30}
      <4>1. i.link = "down" BY <1>1, <2>2, <3>4 DEF LinkState
      <4> QED BY <3>1, <3>4, <4>1
    <3> QED BY <1>2, <3>2, <3>3, <3>4
  <2> QED BY <2>1, <2>2
<1>4. /\ i.address # 0 => \E h \in there : /\ HasAddress(h.device[r.name])
                                           /\ h.device[r.name].object = i.address
      /\ i.default => \E h \in there : h.route = r.name
      /\ i.ssid # None => \E h \in there : h.device[r.name].ap = i.ssid
  BY <1>1 DEF SeenOn
<1> QED BY <1>1, <1>3, <1>4 DEF WasSo, i

LEMMA DeliverClaims == ASSUME Typed, CInv, ReadValue \/ RunStatus PROVE CInv'
<1>1. /\ at' \in {"begin", "delivered"} /\ history' = history /\ rawDevices' = {}
  BY DEF ReadValue, RunStatus, Receive, DropLocals
<1>2. \A i \in Interfaces : WasSo(i)
  BY InterfaceWasSo DEF Interfaces, CInv, Typed, Reading, CollectorTypeOK
<1>3. "interfaces" \in DOMAIN document' => document'.interfaces = Interfaces
  <2> DEFINE Faithful(doc) == "interfaces" \in DOMAIN doc => doc.interfaces = Interfaces
  <2>1. \A available : Faithful(Status(available)) BY DEF Status
  <2>2. ASSUME reader \in Characteristics, NEW available
        PROVE  Faithful(SerializePayload(Payload(Status(available))))
    <3> DEFINE s == Status(available)
    <3>1. s.interfaces = Interfaces BY DEF Status
    <3> HIDE DEF s
    <3>2. CASE reader = "SYSTEM_INFO"
      BY <3>2 DEF Payload, SystemInfoPayload, SerializePayload, ErrorPayload
    <3>3. CASE reader = "NETWORK_STATUS"
      <4>1. Payload(s) = NetworkStatusPayload(s) BY <3>3 DEF Payload
      <4>2. Payload(s).interfaces = Interfaces BY <3>1, <4>1 DEF NetworkStatusPayload
      <4> DEFINE p == Payload(s)
      <4> HIDE DEF p
      <4>3. SerializePayload(p) = p \/ "interfaces" \notin DOMAIN SerializePayload(p)
        BY DEF SerializePayload, ErrorPayload
      <4> QED BY <4>2, <4>3 DEF p, s
    <3> QED BY <2>2, <3>2, <3>3 DEF Characteristics, s
  <2>3. Faithful(ErrorPayload("STATUS_READ_FAILED")) BY DEF ErrorPayload
  <2>4. CASE RunStatus BY <2>1, <2>4 DEF RunStatus
  <2>5. CASE ReadValue
    <3>1. document' = ErrorPayload("STATUS_READ_FAILED")
            \/ \E available : document' = SerializePayload(Payload(Status(available)))
      BY <2>5 DEF ReadValue, Receive, ReadFromOffset
    <3> QED BY <2>2, <2>3, <2>5, <3>1 DEF ReadValue
  <2> QED BY <2>4, <2>5
<1>4. ClaimsHeld'
  <2>1. \A i : WasSo(i) => WasSo(i)' BY <1>1 DEF WasSo
  <2> QED BY <1>2, <1>3, <2>1 DEF ClaimsHeld
<1> QED BY <1>1, <1>4, CallsAreSix DEF CInv

LEMMA RestClaims ==
  ASSUME Typed, CInv, Begin \/ Changes \/ UNCHANGED vars
  PROVE  CInv'
<1>1. CASE Begin BY <1>1, CallsAreSix DEF Begin, CInv, ClaimsHeld
<1>2. CASE Changes
  <2>1. /\ history \subseteq history' /\ at # "delivered"
        /\ UNCHANGED <<at, raw, rawDevices>>
    BY <1>2 DEF Changes, collectorVars
  <2>2. \A r : SeenOn(history, r) => SeenOn(history', r) BY <2>1, MoreHosts
  <2> QED BY <2>1, <2>2 DEF CInv, ClaimsHeld
<1>3. CASE UNCHANGED vars
  BY <1>3 DEF vars, collectorVars, readVars, CInv, ClaimsHeld, WasSo
<1> QED BY <1>1, <1>2, <1>3

(* network.py:223-260.  However the network changes between the calls that
   read a device, what a document says of it was so during the collection. *)
THEOREM ClaimsWereSo == Spec => []ClaimsHeld
<1>1. Init => CInv BY CallsAreSix DEF Init, CollectorInit, CInv, ClaimsHeld
<1>2. Typed /\ CInv /\ [Next]_vars => CInv'
  BY CollectClaims, DeliverClaims, RestClaims DEF Next, Over
<1>3. CInv => ClaimsHeld BY DEF CInv
<1> QED BY <1>1, <1>2, <1>3, TypedHolds, PTL DEF Spec

-----------------------------------------------------------------------------
(* A quiet reading.  What is known of a device before the k-th of the six
   calls is what the host h has of it; what is not read yet is as it was. *)
AsOn(h, r, k) ==
  LET c == h.device[r.name]
  IN /\ c # None
     /\ IF k > 1 THEN r.state = c.state /\ r.path = c.object ELSE r = Unread(r.name)
     /\ r.address = IF k > 2 /\ HasAddress(c) THEN c.object ELSE 0
     /\ r.default <=> k > 3 /\ h.route = r.name
     /\ IF k > 4 /\ Type[r.name] = "ethernet"
        THEN r.carrier \in BOOLEAN /\ (r.carrier <=> c.state # 20)
        ELSE r.carrier = None
     /\ r.ap = IF k > 5 THEN c.ap ELSE None
     /\ r.ssid = IF k > 6 THEN c.ap ELSE None

Quiet == changes = 0 /\ failures = 0

Gathers ==
  /\ unread = {} /\ at # "unavailable"
  /\ at \in {"begin", "list", "connectivity"} => rawDevices = {}
  /\ at \notin {"begin", "delivered"} => identified
  /\ at = "connectivity" => left = Present
  /\ at \in DeviceCalls \cup {"collected"} =>
       /\ internet = connectivity
       /\ left \subseteq Present
       /\ {r.name : r \in rawDevices} = Present \ left
       /\ \A r \in rawDevices : AsOn(Host, r, 7)
  /\ at = "collected" => left = {}
  /\ \A k \in 1..6 : at = DeviceReads[k] =>
       /\ raw.name \in left /\ AsOn(Host, raw, k)
       /\ k > 1 => Needs(raw, DeviceReads[k])

(* What each part is a part of. *)
Whole == IF reader = "status" THEN Snapshot ELSE SerializePayload(Payload(Snapshot))

Receives ==
  /\ torn = FALSE
  /\ \/ document = None /\ offset = 0
     \/ document = Whole /\ offset \in Nat /\ offset <= Size(Whole)
  /\ at = "delivered" => Delivered(Whole)

QInv == Quiet => Gathers /\ Receives

(* While all is quiet, neither the host nor what to expect of it changes. *)
LEMMA QuietSoFar ==
  ASSUME Typed, Next, Quiet'
  PROVE  /\ Quiet /\ ~Fails /\ ~Changes
         /\ UNCHANGED <<device, route, connectivity, cockpit, reader>>
<1>1. failures \in Nat /\ changes \in Nat
  BY DEF Typed, Reading, CollectorTypeOK, Network, NetworkTypeOK
<1>2. ~Fails BY <1>1 DEF Fails, Quiet
<1>3. ~Changes BY <1>1 DEF Changes, HostChanges, Quiet
<1>4. UNCHANGED <<networkVars, reader>>
  BY <1>3 DEF Next, Begin, Collect, ReadValue, RunStatus, Over, vars, readVars
<1>5. failures' = failures \/ Fails
  BY DEF Next, Begin, Collect, CollectorReads, CollectorFails, DevicesListed, ConnectivityRead,
         DeviceRead, OptionalRead, Unavailable, DeviceUnread, OptionalUnread,
         ReadValue, RunStatus, ServiceActive, Changes, collectorVars, Over, vars
<1> QED BY <1>2, <1>3, <1>4, <1>5 DEF Quiet, networkVars

LEMMA SameExpected ==
  ASSUME UNCHANGED <<device, route, connectivity, cockpit, reader>>
  PROVE  Host' = Host /\ Present' = Present /\ Snapshot' = Snapshot /\ Whole' = Whole
<1>1. Host' = Host /\ Present' = Present BY DEF Host, Present
<1>2. \A d : View(d)' = View(d) /\ (Worth(d)' <=> Worth(d)) BY DEF View, Worth
<1>3. Snapshot' = Snapshot BY <1>1, <1>2 DEF Snapshot
<1>4. Whole' = Whole BY <1>3 DEF Whole, Payload
<1> QED BY <1>1, <1>3, <1>4

-----------------------------------------------------------------------------
(* What the host has of a device. *)
LEMMA Here ==
  ASSUME Typed, NEW r \in Raw, Host.device[r.name] # None
  PROVE  LET c == device[r.name]
         IN  /\ Host.device[r.name] = c /\ r.name \in Present /\ r.name # None
             /\ c.state \in States /\ c.object \in Nat
             /\ c.ap # None => Type[r.name] = "wifi"
             /\ route = r.name => c.state = 100
             /\ Host.route = route
<1>1. Host.device = device /\ Host.route = route BY DEF Host
<1>2. r.name \in Device /\ r.name \in Present /\ r.name # None
  BY <1>1, NetworkAssumption DEF Present, Raw
<1>3. device[r.name] \in Configs(r.name, 0..(changes + 1))
  BY <1>2, FirstReadTyped DEF Typed
<1>4. 0..(changes + 1) \subseteq Nat OBVIOUS
<1>5. /\ device[r.name].state \in States /\ device[r.name].object \in Nat
      /\ device[r.name].ap # None => Type[r.name] = "wifi"
  BY <1>3, <1>4 DEF Configs
<1>6. route = r.name => device[r.name].state = 100
  BY <1>2 DEF Typed, Network, NetworkTypeOK, Activated
<1> QED BY <1>1, <1>2, <1>5, <1>6

(* A read that is not needed would have told nothing new. *)
LEMMA Skipped ==
  ASSUME Typed, NEW r \in Raw, NEW k \in 2..6, AsOn(Host, r, k), ~Needs(r, DeviceReads[k])
  PROVE  AsOn(Host, r, k + 1)
<1> DEFINE c == device[r.name]
<1>1. /\ Host.device[r.name] = c /\ c # None /\ Host.route = route
      /\ c.ap # None => Type[r.name] = "wifi"
      /\ route = r.name => c.state = 100
  BY Here DEF AsOn
<1> HIDE DEF c
<1>2. CASE k = 2
  <2>1. r.path = 0 BY <1>2 DEF Needs, DeviceReads
  <2> QED BY <1>1, <1>2, <2>1 DEF AsOn, HasAddress
<1>3. CASE k = 3
  <2>1. r.state # 100 BY <1>3 DEF Needs, DeviceReads
  <2> QED BY <1>1, <1>3, <2>1 DEF AsOn
<1>4. CASE k = 4
  <2>1. Type[r.name] # "ethernet" BY <1>4 DEF Needs, DeviceReads
  <2> QED BY <1>1, <1>4, <2>1 DEF AsOn
<1>5. CASE k = 5
  <2>1. Type[r.name] # "wifi" BY <1>5 DEF Needs, DeviceReads
  <2> QED BY <1>1, <1>5, <2>1 DEF AsOn
<1>6. CASE k = 6
  <2>1. r.ap = None BY <1>6 DEF Needs, DeviceReads
  <2> QED BY <1>1, <1>6, <2>1 DEF AsOn
<1> QED BY <1>2, <1>3, <1>4, <1>5, <1>6

LEMMA SkippedUpTo ==
  ASSUME Typed, NEW r \in Raw, NEW k \in 2..7, AsOn(Host, r, k),
         NEW i \in k..7, \A j \in k..(i - 1) : ~Needs(r, DeviceReads[j])
  PROVE  AsOn(Host, r, i)
<1> DEFINE A(j) == AsOn(Host, r, j)
           N(j) == Needs(r, DeviceReads[j])
<1>1. \A j \in 2..6 : A(j) /\ ~N(j) => A(j + 1) BY Skipped
<1>2. A(k) /\ \A j \in k..(i - 1) : ~N(j) OBVIOUS
<1> HIDE DEF A, N
<1>3. /\ A(2) /\ ~N(2) => A(3)
      /\ A(3) /\ ~N(3) => A(4)
      /\ A(4) /\ ~N(4) => A(5)
      /\ A(5) /\ ~N(5) => A(6)
      /\ A(6) /\ ~N(6) => A(7)
  BY <1>1
<1>4. k \in {2, 3, 4, 5, 6, 7} /\ i \in {2, 3, 4, 5, 6, 7} OBVIOUS
<1>5. A(i) BY <1>2, <1>3, <1>4
<1> QED BY <1>5 DEF A

(* Nothing is missing, so that every call is answered, and rightly. *)
LEMMA QuietFirstRead ==
  ASSUME Typed, NEW r \in Raw, AsOn(Host, r, 1)
  PROVE  LET c == device[r.name]
             s == [r EXCEPT !.state = c.state, !.path = c.object]
         IN  r.name \in Present /\ s \in Raw /\ s.name = r.name /\ AsOn(Host, s, 2)
<1> DEFINE c == device[r.name]
           s == [r EXCEPT !.state = c.state, !.path = c.object]
<1>1. Host.device[r.name] = c /\ c # None /\ r.name \in Present /\ Host.route = route
  BY Here DEF AsOn
<1>2. s \in Raw BY <1>1, FirstReadTyped DEF Typed
<1>3. s.state = c.state /\ s.path = c.object /\ s.name = r.name /\ s.carrier = r.carrier
      /\ s.address = r.address /\ s.default = r.default /\ s.ap = r.ap /\ s.ssid = r.ssid
  BY DEF Raw
<1> HIDE DEF c, s
<1>4. AsOn(Host, s, 2) BY <1>1, <1>3 DEF AsOn
<1> QED BY <1>1, <1>2, <1>3, <1>4 DEF c, s

LEMMA QuietAnswer ==
  ASSUME Typed, NEW r \in Raw, NEW k \in 2..6, at = DeviceReads[k], AsOn(Host, r, k),
         Needs(r, DeviceReads[k])
  PROVE  /\ Alive(r)
         /\ Answer(r) \in Raw /\ Answer(r).name = r.name /\ AsOn(Host, Answer(r), k + 1)
<1> DEFINE c == device[r.name]
           s == Answer(r)
<1>1. Host.device[r.name] = c /\ c # None /\ r.name \in Present /\ Host.route = route
      /\ c.object \in Nat
  BY Here DEF AsOn
<1>2. r.state = c.state /\ r.path = c.object BY <1>1 DEF AsOn
<1>3. Alive(r) BY <1>1, <1>2 DEF Alive
<1>4. at \in DeviceCalls \ {"device"} BY CallsAreSix DEF DeviceReads
<1>5. s \in Raw BY <1>3, <1>4, AnswerTyped DEF Typed
<1>6. CASE k = 2
  <2> DEFINE v == IF HasAddress(c) THEN r.path ELSE 0
  <2>1. v = IF HasAddress(c) THEN c.object ELSE 0 BY <1>2
  <2>2. s = [r EXCEPT !.address = v] BY <1>6, Answers DEF DeviceReads
  <2> HIDE DEF v, c, s
  <2>3. s.address = v /\ s.name = r.name /\ s.state = r.state /\ s.path = r.path
        /\ s.carrier = r.carrier /\ s.default = r.default /\ s.ap = r.ap /\ s.ssid = r.ssid
    BY <2>2 DEF Raw
  <2>4. AsOn(Host, s, k + 1) BY <1>1, <1>6, <2>1, <2>3 DEF AsOn
  <2> QED BY <1>3, <1>5, <2>3, <2>4 DEF s
<1>7. CASE k = 3
  <2> DEFINE v == route = r.name
  <2>1. v <=> route = r.name OBVIOUS
  <2>2. s = [r EXCEPT !.default = v] BY <1>7, Answers DEF DeviceReads
  <2> HIDE DEF v, c, s
  <2>3. s.default = v /\ s.name = r.name /\ s.state = r.state /\ s.path = r.path
        /\ s.carrier = r.carrier /\ s.address = r.address /\ s.ap = r.ap /\ s.ssid = r.ssid
    BY <2>2 DEF Raw
  <2>4. AsOn(Host, s, k + 1) BY <1>1, <1>7, <2>1, <2>3 DEF AsOn
  <2> QED BY <1>3, <1>5, <2>3, <2>4 DEF s
<1>8. CASE k = 4
  <2> DEFINE v == c.state # 20
  <2>1. v \in BOOLEAN /\ (v <=> c.state # 20) OBVIOUS
  <2>2. s = [r EXCEPT !.carrier = v] BY <1>8, Answers DEF DeviceReads
  <2>5. Type[r.name] = "ethernet" BY <1>8 DEF Needs, DeviceReads
  <2> HIDE DEF v, c, s
  <2>3. s.carrier = v /\ s.name = r.name /\ s.state = r.state /\ s.path = r.path
        /\ s.default = r.default /\ s.address = r.address /\ s.ap = r.ap /\ s.ssid = r.ssid
    BY <2>2 DEF Raw
  <2>4. AsOn(Host, s, k + 1) BY <1>1, <1>8, <2>1, <2>3, <2>5 DEF AsOn
  <2> QED BY <1>3, <1>5, <2>3, <2>4 DEF s
<1>9. CASE k = 5
  <2>2. s = [r EXCEPT !.ap = c.ap] BY <1>9, Answers DEF DeviceReads
  <2> HIDE DEF c, s
  <2>3. s.ap = c.ap /\ s.name = r.name /\ s.state = r.state /\ s.path = r.path
        /\ s.default = r.default /\ s.address = r.address /\ s.carrier = r.carrier
        /\ s.ssid = r.ssid
    BY <2>2 DEF Raw
  <2>4. AsOn(Host, s, k + 1) BY <1>1, <1>9, <2>3 DEF AsOn
  <2> QED BY <1>3, <1>5, <2>3, <2>4 DEF s
<1>10. CASE k = 6
  <2>2. s = [r EXCEPT !.ssid = r.ap] BY <1>10, Answers DEF DeviceReads
  <2> HIDE DEF c, s
  <2>3. s.ssid = r.ap /\ s.name = r.name /\ s.state = r.state /\ s.path = r.path
        /\ s.default = r.default /\ s.address = r.address /\ s.carrier = r.carrier
        /\ s.ap = r.ap
    BY <2>2 DEF Raw
  <2>4. AsOn(Host, s, k + 1) BY <1>1, <1>10, <2>3 DEF AsOn
  <2> QED BY <1>3, <1>5, <2>3, <2>4 DEF s
<1> QED BY <1>6, <1>7, <1>8, <1>9, <1>10

-----------------------------------------------------------------------------
LEMMA QuietLoop ==
  ASSUME UNCHANGED <<device, route, connectivity, cockpit, reader>>,
         NEW paths \in SUBSET Present, NextDevice(paths),
         {r.name : r \in rawDevices'} = Present \ paths,
         \A r \in rawDevices' : AsOn(Host, r, 7),
         internet' = connectivity, unread' = {}, identified'
  PROVE  Gathers'
<1>1. Host' = Host /\ Present' = Present BY SameExpected
<1>2. left' = paths /\ at' \in {"collected", "device"} BY DEF NextDevice
<1>3. at' = "collected" => paths = {} BY DEF NextDevice
<1>4. ASSUME at' = "device"
      PROVE  raw'.name \in paths /\ AsOn(Host, raw', 1)
  <2>1. PICK d \in paths : raw' = Unread(d) BY <1>4 DEF NextDevice
  <2> DEFINE u == Unread(d)
  <2>2. u.name = d /\ u.address = 0 /\ u.default = FALSE /\ u.carrier = None /\ u.ap = None
        /\ u.ssid = None
    BY DEF Unread
  <2>3. Host.device[d] # None BY DEF Host, Present
  <2>4. u = Unread(u.name) BY <2>2
  <2> HIDE DEF u
  <2>5. AsOn(Host, u, 1) BY <2>2, <2>3, <2>4 DEF AsOn
  <2> QED BY <2>1, <2>2, <2>5 DEF u
<1>5. \A k \in 1..6 : at' = DeviceReads[k] => k = 1 /\ at' = "device"
  BY <1>2, CallsAreSix DEF DeviceReads
<1> QED BY <1>1, <1>2, <1>3, <1>4, <1>5 DEF Gathers

LEMMA CollectQuietly ==
  ASSUME Typed, QInv, Collect, Quiet'
  PROVE  Gathers' /\ Receives'
<1>1. Next BY DEF Next
<1>2. Quiet /\ ~Fails /\ UNCHANGED <<device, route, connectivity, cockpit, reader>>
  BY <1>1, QuietSoFar
<1>3. Gathers /\ Receives BY <1>2 DEF QInv
<1>4. Host' = Host /\ Present' = Present /\ Whole' = Whole BY <1>2, SameExpected
<1>5. at' # "delivered" /\ Receives'
  <2>1. at' # "delivered" BY NotDeliveredYet
  <2> QED BY <1>3, <1>4, <2>1 DEF Collect, Receives
<1>6. CASE DevicesListed
  <2>1. Gathers'
    <3>1. at = "list" /\ at' = "connectivity" /\ left' = Present
          /\ UNCHANGED <<rawDevices, unread, identified>>
      BY <1>6 DEF DevicesListed, Collect
    <3> QED BY <1>3, <1>4, <3>1, CallsAreSix DEF Gathers
  <2> QED BY <1>5, <2>1
<1>7. CASE ConnectivityRead
  <2>1. at = "connectivity" /\ NextDevice(left) /\ internet' = connectivity
        /\ UNCHANGED <<rawDevices, unread, identified>>
    BY <1>7 DEF ConnectivityRead, Collect
  <2>2. left = Present /\ rawDevices = {} /\ unread = {} /\ identified
    BY <1>3, <2>1 DEF Gathers
  <2>3. {r.name : r \in rawDevices'} = Present \ left BY <2>1, <2>2
  <2>4. left \in SUBSET Present BY <2>2
  <2>5. Gathers' BY <1>2, <2>1, <2>2, <2>3, <2>4, QuietLoop
  <2> QED BY <1>5, <2>5
<1>8. ASSUME NEW k \in 1..6, at = DeviceReads[k]
      PROVE  /\ raw \in Raw /\ raw.name \in left /\ left \subseteq Present /\ AsOn(Host, raw, k)
             /\ k > 1 => Needs(raw, DeviceReads[k])
             /\ {r.name : r \in rawDevices} = Present \ left
             /\ \A r \in rawDevices : AsOn(Host, r, 7)
             /\ internet = connectivity /\ unread = {} /\ identified
  <2>1. at \in DeviceCalls BY <1>8, CallsAreSix
  <2> QED BY <1>3, <1>8, <2>1, CallsAreSix DEF Gathers, Typed, Reading
<1>9. CASE CollectorFails
  <2>1. ~Unavailable BY <1>2 DEF Unavailable
  <2>2. ~DeviceUnread
    <3>1. at = "device" => at = DeviceReads[1] BY DEF DeviceReads
    <3> QED BY <1>2, <1>8, <3>1 DEF DeviceUnread
  <2>3. ~OptionalUnread
    <3>1. ASSUME at \in DeviceCalls \ {"device"} PROVE Alive(raw)
      <4>1. PICK k \in 1..6 : at = DeviceReads[k] BY <3>1, CallsAreSix
      <4>2. k \in 2..6 BY <3>1, <4>1 DEF DeviceReads
      <4> QED BY <1>8, <4>1, <4>2, QuietAnswer
    <3> QED BY <1>2, <3>1 DEF OptionalUnread
  <2> QED BY <1>9, <2>1, <2>2, <2>3 DEF CollectorFails
<1>10. CASE DeviceRead \/ OptionalRead
  <2>1. at \in DeviceCalls /\ UNCHANGED <<unread, internet, identified>>
    BY <1>10, CallsAreSix DEF DeviceRead, OptionalRead, Collect
  <2>2. PICK k \in 1..6 : at = DeviceReads[k] BY <2>1, CallsAreSix
  <2>3. PICK r \in Raw : Continue(r) /\ r.name = raw.name /\ AsOn(Host, r, k + 1)
    <3>1. CASE DeviceRead
      <4>1. k = 1 BY <2>2, <3>1, CallsAreSix DEF DeviceRead, DeviceReads
      <4> DEFINE c == device[raw.name]
                 s == [raw EXCEPT !.state = c.state, !.path = c.object]
      <4>2. raw \in Raw /\ AsOn(Host, raw, 1) BY <1>8, <2>2, <4>1
      <4>3. s \in Raw /\ s.name = raw.name /\ AsOn(Host, s, 2) BY <4>2, QuietFirstRead
      <4>4. Continue(s) BY <3>1 DEF DeviceRead
      <4>5. k + 1 = 2 BY <4>1
      <4> HIDE DEF s
      <4> QED BY <4>3, <4>4, <4>5
    <3>2. CASE OptionalRead
      <4>1. k \in 2..6 BY <2>2, <3>2, CallsAreSix DEF OptionalRead, DeviceReads
      <4> QED BY <1>8, <2>2, <3>2, <4>1, QuietAnswer DEF OptionalRead
    <3> QED BY <1>10, <3>1, <3>2
  <2>4. ASSUME NEW i \in (k + 1)..6, Needs(r, DeviceReads[i]),
               \A j \in (k + 1)..(i - 1) : ~Needs(r, DeviceReads[j]),
               at' = DeviceReads[i] /\ raw' = r /\ UNCHANGED <<left, rawDevices>>
        PROVE  Gathers'
    <3>1. AsOn(Host, r, i) BY <2>3, <2>4, SkippedUpTo
    <3>2. at' \in DeviceCalls /\ i \in 1..6 BY <2>4, CallsAreSix
    <3>3. \A j \in 1..6 : at' = DeviceReads[j] => j = i BY <2>4, <3>2, CallsAreSix
    <3>4. /\ unread' = {} /\ internet' = connectivity' /\ identified'
          /\ left' \subseteq Present' /\ {s.name : s \in rawDevices'} = Present' \ left'
          /\ \A s \in rawDevices' : AsOn(Host', s, 7)
      BY <1>2, <1>4, <1>8, <2>1, <2>2, <2>4
    <3>5. raw'.name \in left' /\ AsOn(Host', raw', i) /\ Needs(raw', DeviceReads[i])
      BY <1>4, <1>8, <2>2, <2>3, <2>4, <3>1
    <3> QED BY <3>2, <3>3, <3>4, <3>5, CallsAreSix DEF Gathers
  <2>5. ASSUME \A j \in (k + 1)..6 : ~Needs(r, DeviceReads[j]),
               rawDevices' = rawDevices \cup {r}, NextDevice(left \ {r.name})
        PROVE  Gathers'
    <3>1. AsOn(Host, r, 7)
      <4>1. \A j \in (k + 1)..(7 - 1) : ~Needs(r, DeviceReads[j]) BY <2>5
      <4> QED BY <2>3, <4>1, SkippedUpTo
    <3>2. {s.name : s \in rawDevices'} = Present \ (left \ {r.name})
      <4>1. {s.name : s \in rawDevices'} = {s.name : s \in rawDevices} \cup {r.name} BY <2>5
      <4> QED BY <1>8, <2>2, <2>3, <4>1
    <3>3. \A s \in rawDevices' : AsOn(Host, s, 7) BY <1>8, <2>2, <2>5, <3>1
    <3>4. left \ {r.name} \in SUBSET Present BY <1>8, <2>2
    <3>5. unread' = {} /\ internet' = connectivity /\ identified' BY <1>8, <2>1, <2>2
    <3> QED BY <1>2, <2>5, <3>2, <3>3, <3>4, <3>5, QuietLoop
  <2>6. Gathers' BY <2>2, <2>3, <2>4, <2>5, Continues
  <2> QED BY <1>5, <2>6
<1> QED BY <1>5, <1>6, <1>7, <1>9, <1>10 DEF Collect, CollectorReads

-----------------------------------------------------------------------------
(* A record that is complete makes the interface the snapshot has. *)
LEMMA InterfaceIsView ==
  ASSUME Typed, NEW r \in Raw, AsOn(Host, r, 7), internet = connectivity
  PROVE  /\ r.name \in Present
         /\ Interface(r) = View(r.name)
         /\ ShouldShow(r) <=> Worth(r.name)
<1> DEFINE c == device[r.name]
<1>1. /\ Host.device[r.name] = c /\ r.name \in Present /\ Host.route = route
      /\ c.state \in States
  BY Here DEF AsOn
<1> HIDE DEF c
<1>2. /\ r.state = c.state /\ r.address = (IF HasAddress(c) THEN c.object ELSE 0)
      /\ (r.default <=> route = r.name) /\ r.ssid = c.ap
      /\ Type[r.name] = "ethernet" => (r.carrier <=> c.state # 20)
      /\ Type[r.name] = "ethernet" => r.carrier \in BOOLEAN
      /\ Type[r.name] # "ethernet" => r.carrier = None
  BY <1>1 DEF AsOn
<1>3. r.default \in BOOLEAN BY DEF Raw
<1>4. r.default = (route = r.name) BY <1>2, <1>3
<1>5. r.carrier = FALSE => c.state = 20 BY <1>2, NetworkAssumption
<1>6. c.state = 20 => LinkState(r.state, r.carrier) = "down" BY <1>2 DEF LinkState
<1>7. LinkState(r.state, r.carrier) = CASE c.state = 100 -> "up"
                                        [] c.state = 50 -> "configuring"
                                        [] OTHER -> "down"
  <2>1. CASE c.state = 100 BY <1>2, <1>5, <2>1 DEF LinkState
  <2>2. CASE c.state = 50 BY <1>2, <1>5, <2>2 DEF LinkState
  <2>3. CASE c.state \in {10, 20, 30} BY <1>2, <2>3 DEF LinkState
  <2> QED BY <1>1, <2>1, <2>2, <2>3 DEF States
<1>8. Interface(r) = View(r.name)
  BY <1>2, <1>4, <1>7 DEF Interface, View, c
<1>9. ShouldShow(r) <=> Worth(r.name)
  BY <1>2 DEF ShouldShow, Worth, Hidden, HasAddress, c
<1> QED BY <1>1, <1>8, <1>9

LEMMA CollectedIsSnapshot ==
  ASSUME Typed, Gathers, at = "collected"
  PROVE  Status(cockpit) = Snapshot
<1>1. /\ internet = connectivity /\ identified = TRUE /\ unread = {}
      /\ {r.name : r \in rawDevices} = Present
      /\ \A r \in rawDevices : r \in Raw /\ AsOn(Host, r, 7)
  <2>1. identified \in BOOLEAN /\ rawDevices \subseteq Raw
    BY DEF Typed, ReadTyped, Reading, CollectorTypeOK
  <2> QED BY <2>1 DEF Gathers
<1>2. \A r \in rawDevices : /\ r.name \in Present /\ Interface(r) = View(r.name)
                            /\ ShouldShow(r) <=> Worth(r.name)
  BY <1>1, InterfaceIsView
<1>3. Interfaces = {View(d) : d \in {p \in Present : Worth(p)}}
  <2>1. ASSUME NEW i \in Interfaces PROVE i \in {View(d) : d \in {p \in Present : Worth(p)}}
    BY <1>2, <2>1 DEF Interfaces
  <2>2. ASSUME NEW d \in Present, Worth(d) PROVE View(d) \in Interfaces
    <3>1. PICK r \in rawDevices : r.name = d BY <1>1
    <3> QED BY <1>2, <2>2, <3>1 DEF Interfaces
  <2> QED BY <2>1, <2>2
<1>4. IdentityErrors \cup NetworkErrors = {} BY <1>1 DEF IdentityErrors, NetworkErrors
<1> QED BY <1>1, <1>3, <1>4 DEF Status, Snapshot

LEMMA DeliverQuietly ==
  ASSUME Typed, QInv, ReadValue \/ RunStatus, Quiet'
  PROVE  Gathers' /\ Receives'
<1>1. Next BY DEF Next
<1>2. Quiet /\ ~Fails /\ UNCHANGED <<device, route, connectivity, cockpit, reader>>
  BY <1>1, QuietSoFar
<1>3. Gathers /\ Receives BY <1>2 DEF QInv
<1>4. Whole' = Whole BY <1>2, SameExpected
<1>5. at = "collected" BY <1>3 DEF Gathers, ReadValue, RunStatus
<1>6. Status(cockpit) = Snapshot BY <1>3, <1>5, CollectedIsSnapshot
<1>7. Gathers'
  BY CallsAreSix DEF ReadValue, RunStatus, Receive, DropLocals, Gathers
<1>8. CASE RunStatus
  <2>1. reader = "status" /\ Whole = Snapshot BY <1>8 DEF RunStatus, Whole
  <2>2. document' = Snapshot /\ offset' = Size(Snapshot) /\ torn' = torn /\ at' = "delivered"
    BY <1>2, <1>6, <1>8 DEF RunStatus, ServiceActive
  <2>3. Size(Snapshot) \in Nat
    <3>1. IsFiniteSet(Status(cockpit).errors) BY ErrorsFinite DEF Typed, IInv, Status
    <3>2. IsFiniteSet(Status(cockpit).interfaces) BY InterfacesFinite DEF Typed, IInv, Status
    <3> QED BY <1>6, <3>1, <3>2, SizeIsNat
  <2>4. Receives' BY <1>3, <1>4, <2>1, <2>2, <2>3 DEF Receives, Delivered
  <2> QED BY <1>7, <2>4
<1>9. CASE ReadValue
  <2> DEFINE answer == ReadFromOffset(Whole, offset)
             len == IF answer.len > Part THEN Part ELSE answer.len
  <2>1. Receive(answer)
    BY <1>2, <1>6, <1>9 DEF ReadValue, ServiceActive, Whole, Characteristics
  <2>2. Size(Whole) \in Nat
    <3>1. Size(Payload(Status(cockpit))) \in Nat BY <1>9, PayloadSize DEF Typed, IInv, ReadValue
    <3> QED BY <1>6, <1>9, <3>1, SerializedFits DEF Whole, ReadValue, Characteristics
  <2>3. offset \in Nat /\ offset <= Size(Whole) BY <1>3, <2>2 DEF Receives
  <2>4. answer.doc = Whole /\ answer.len = Size(Whole) - offset /\ answer.len \in Nat
    BY <2>2, <2>3 DEF ReadFromOffset
  <2>5. /\ document' = Whole
        /\ torn' = (torn \/ /\ document \notin {None, Whole}
                            /\ len > 0 \/ offset # Size(document))
        /\ offset' = offset + len
        /\ at' = IF len = Part THEN "begin" ELSE "delivered"
    BY <2>1, <2>4 DEF Receive
  <2>6. torn = FALSE /\ document \in {None, Whole} BY <1>3 DEF Receives
  <2>7. len \in Nat /\ len <= Size(Whole) - offset /\ (len # Part => len = Size(Whole) - offset)
    BY <2>2, <2>3, <2>4, SizeAssumption
  <2> HIDE DEF answer, len
  <2>8. torn' = FALSE BY <2>5, <2>6
  <2>9. offset' \in Nat /\ offset' <= Size(Whole) BY <2>2, <2>3, <2>5, <2>7
  <2>10. at' = "delivered" => offset' = Size(Whole) BY <2>2, <2>3, <2>5, <2>7
  <2>11. Receives' BY <1>4, <2>5, <2>8, <2>9, <2>10 DEF Receives, Delivered
  <2> QED BY <1>7, <2>11
<1> QED BY <1>8, <1>9

LEMMA BeginQuietly == ASSUME Typed, QInv, Begin, Quiet' PROVE Gathers' /\ Receives'
<1>1. Next BY DEF Next
<1>2. Quiet /\ ~Fails /\ UNCHANGED <<device, route, connectivity, cockpit, reader>>
  BY <1>1, QuietSoFar
<1>3. Gathers /\ Receives BY <1>2 DEF QInv
<1>4. Whole' = Whole BY <1>2, SameExpected
<1>5. Gathers' BY <1>2, <1>3, CallsAreSix DEF Begin, Gathers
<1>6. Receives' BY <1>3, <1>4 DEF Begin, Receives
<1> QED BY <1>5, <1>6

LEMMA QuietInitially == ASSUME Init PROVE QInv
<1>1. Gathers BY CallsAreSix DEF Init, CollectorInit, Gathers
<1>2. Receives BY DEF Init, Receives
<1> QED BY <1>1, <1>2 DEF QInv

LEMMA StaysQuiet == ASSUME Typed, QInv, [Next]_vars PROVE QInv'
<1>1. ASSUME UNCHANGED vars PROVE QInv'
  <2>1. UNCHANGED <<device, route, connectivity, cockpit, reader>>
    BY <1>1 DEF vars, networkVars, readVars
  <2>2. Host' = Host /\ Present' = Present /\ Whole' = Whole BY <2>1, SameExpected
  <2>3. Gathers' <=> Gathers BY <1>1, <2>2 DEF vars, networkVars, collectorVars, readVars, Gathers
  <2>4. Receives' <=> Receives BY <1>1, <2>2 DEF vars, collectorVars, readVars, Receives, Delivered
  <2>5. Quiet' <=> Quiet BY <1>1 DEF vars, networkVars, collectorVars, Quiet
  <2> QED BY <2>3, <2>4, <2>5 DEF QInv
<1>2. ASSUME Quiet', Next PROVE QInv'
  <2>1. ~Changes BY <1>2, QuietSoFar
  <2> QED BY <1>1, <1>2, <2>1, CollectQuietly, DeliverQuietly, BeginQuietly DEF Next, Over, QInv
<1> QED BY <1>1, <1>2 DEF QInv

(* network.py:126-306, core.py:35-101, protocol.py:25-48, ble_gatt.py:129-159.
   On a network at rest, with no call failing, the parts a reader gets make
   up the document that says how the network is: for any set of devices, in
   whatever order they are read, and for parts of any size. *)
THEOREM QuietReadsAreExact == Spec => []QuietReadIsSnapshot
<1>1. QInv => QuietReadIsSnapshot
  BY DEF QInv, Quiet, Receives, Whole, QuietReadIsSnapshot
<1> QED BY <1>1, QuietInitially, StaysQuiet, TypedHolds, PTL DEF Spec
=============================================================================
