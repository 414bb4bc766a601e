-------------------------- MODULE FeasibilityProofs --------------------------
(***************************************************************************)
(* The doctor's verdict on every host at rest, the advertise-test after    *)
(* it, and that the test leaves nothing advertised behind.                 *)
(***************************************************************************)
EXTENDS Feasibility, WellFoundedInduction, TLAPS

(* BlueZ advertises for the command only from its answer to the registration
   to its answer to the unregistration, or when the command ended in between. *)
OnAir ==
  advertised =>
    \/ probe = "register" /\ reply = "ok"
    \/ probe = "advertising"
    \/ probe = "unregister" /\ reply # "ok"
    \/ probe = "over" /\ (reply = "error" \/ interrupted \in Calls)

LEMMA BluezStep == ASSUME OnAir, Bluez PROVE OnAir'
<1>1. CASE Accepts BY <1>1 DEF Bluez, Accepts, OnAir
<1>2. CASE Refuses BY <1>2 DEF Bluez, Refuses, OnAir, Calls
<1> QED BY <1>1, <1>2 DEF Bluez

(* One step of the command: the ways it ends are those StoppedIsSilent names. *)
LEMMA ProbeStep == ASSUME OnAir, Probe PROVE OnAir'
<1> USE DEF Probe, Command, OnAir, Goto, Ends
<1>1. CASE RunAdvertiseTest \/ Connected \/ Introspected
  BY <1>1 DEF RunAdvertiseTest, Connected, Introspected, NameVanishes
<1>2. CASE Registered \/ Elapsed BY <1>2 DEF Registered, Elapsed, NameVanishes
<1>3. CASE Unregistered \/ CallFails BY <1>3 DEF Unregistered, CallFails, NameVanishes
<1>4. CASE Interrupt BY <1>4 DEF Interrupt, NameVanishes
<1>5. CASE NameVanishes BY <1>5 DEF NameVanishes
<1> QED BY <1>1, <1>2, <1>3, <1>4, <1>5

LEMMA OtherStep ==
  ASSUME OnAir, (Examine /\ UNCHANGED probeVars) \/ Changes \/ UNCHANGED vars
  PROVE  OnAir'
BY DEF OnAir, Changes, vars, probeVars

(* ble_probe.py:69-79.  Whatever the host does, a command that is over has
   nothing on the air, unless Ctrl-C met a call or BlueZ refused one. *)
THEOREM ProbeIsSilentAtTheEnd == Spec => []StoppedIsSilent
<1>1. Init => OnAir BY DEF Init, OnAir
<1>2. OnAir /\ [Next]_vars => OnAir' BY BluezStep, ProbeStep, OtherStep DEF Next
<1>3. OnAir => StoppedIsSilent BY ProbeAssumption DEF OnAir, StoppedIsSilent, Calls
<1> QED BY <1>1, <1>2, <1>3, PTL DEF Spec

-----------------------------------------------------------------------------
(* The adapter that is asked about is the one whose name is sorted first. *)
LEMMA SmallestIn ==
  ASSUME NEW S \in SUBSET Nat, S # {}
  PROVE  \E a \in S : \A b \in S : a <= b
<1> DEFINE R == OpToRel(<, Nat)
<1>1. IsWellFoundedOn(R, Nat) BY NatLessThanWellFounded
<1>2. \A a, b \in Nat : b < a => <<b, a>> \in R BY DEF OpToRel
<1> HIDE DEF R
<1>3. PICK a \in S : \A b \in S : ~(<<b, a>> \in R) BY <1>1, WFMin
<1>4. ASSUME NEW b \in S PROVE a <= b
  <2>1. a \in Nat /\ b \in Nat /\ ~(b < a) BY <1>2, <1>3, <1>4
  <2> QED BY <2>1
<1> QED BY <1>4

LEMMA FirstIsThere ==
  ASSUME NEW S \in SUBSET Adapter, S # {}
  PROVE  First(S) \in S
<1> DEFINE P == {Place[a] : a \in S}
<1>1. P \in SUBSET Nat /\ P # {} BY HostAssumption
<1>2. PICK n \in P : \A m \in P : n <= m BY <1>1, SmallestIn
<1>3. \E a \in S : \A b \in S : Place[a] <= Place[b] BY <1>2
<1> QED BY <1>3 DEF First

(* The order of the probes. *)
LEMMA ProbeOrder ==
  /\ Proceed("adapters") => doctor = "adapters" /\ doctor' = "btmgmt"
  /\ Proceed("btmgmt") => doctor = "btmgmt" /\ doctor' = "rfkill"
  /\ Proceed("rfkill") => doctor = "rfkill" /\ doctor' = "LEAdvertisingManager1"
  /\ Proceed("LEAdvertisingManager1") =>
       doctor = "LEAdvertisingManager1" /\ doctor' = "GattManager1"
  /\ Proceed("GattManager1") => doctor = "GattManager1" /\ doctor' = "ProfileManager1"
  /\ Proceed("ProfileManager1") => doctor = "ProfileManager1" /\ doctor' = "bluez"
  /\ Proceed("bluez") => doctor = "bluez" /\ doctor' = "report"
<1>1. ASSUME NEW p, Proceed(p)
      PROVE  /\ p = doctor
             /\ <<doctor, doctor'>> \in
                  {<<"adapters", "btmgmt">>, <<"btmgmt", "rfkill">>,
                   <<"rfkill", "LEAdvertisingManager1">>,
                   <<"LEAdvertisingManager1", "GattManager1">>,
                   <<"GattManager1", "ProfileManager1">>,
                   <<"ProfileManager1", "bluez">>, <<"bluez", "report">>}
  <2>1. PICK i \in 1..7 : p = Probes[i] /\ doctor = p /\ doctor' = Probes[i + 1]
    BY <1>1 DEF Proceed
  <2>2. i \in {1, 2, 3, 4, 5, 6, 7} BY <2>1
  <2> QED BY <2>1, <2>2 DEF Probes
<1> QED BY <1>1

-----------------------------------------------------------------------------
(* Types. *)
LEMMA HostKept ==
  ASSUME HostTypeOK, HostChanges \/ Fails \/ Succeeds
  PROVE  HostTypeOK' /\ (upsets' = 0 => Succeeds)
<1>1. upsets \in Nat /\ MaxUpsets \in Nat BY HostAssumption DEF HostTypeOK
<1>2. CASE HostChanges
  <2>1. upsets < MaxUpsets /\ upsets' = upsets + 1 /\ UNCHANGED <<tools, settings>>
    BY <1>2 DEF HostChanges, Upset
  <2>2. \/ /\ present' \in SUBSET Adapter /\ listed' \in Heads(present')
           /\ blocked' = blocked \cap present' /\ powered' = powered \cap present'
           /\ daemon' = daemon
        \/ /\ blocked' \in SUBSET present /\ powered' = powered \ blocked'
           /\ UNCHANGED <<present, listed, daemon>>
        \/ /\ powered' \in SUBSET (present \ blocked)
           /\ UNCHANGED <<present, listed, blocked, daemon>>
        \/ daemon' = ~daemon /\ UNCHANGED <<present, listed, blocked, powered>>
    BY <1>2 DEF HostChanges
  <2>3. /\ blocked' \subseteq present' /\ present' \subseteq Adapter
        /\ powered' \subseteq present' \ blocked'
    BY <2>2 DEF HostTypeOK
  <2>6. listed' \in Heads(present') BY <2>2 DEF HostTypeOK, Heads
  <2>4. daemon' \in BOOLEAN BY <2>2 DEF HostTypeOK
  <2>5. upsets' \in 0..MaxUpsets /\ upsets' # 0 BY <1>1, <2>1
  <2> QED BY <2>1, <2>3, <2>4, <2>5, <2>6 DEF HostTypeOK, Heads
<1>3. CASE Fails BY <1>1, <1>3 DEF Fails, Upset, HostTypeOK, Heads
<1>4. CASE Succeeds BY <1>4 DEF Succeeds, hostVars, HostTypeOK, Heads
<1> QED BY <1>2, <1>3, <1>4

DoctorKnows == /\ doctor \in {"adapters", "btmgmt", "rfkill", "LEAdvertisingManager1",
                              "GattManager1", "ProfileManager1", "bluez", "report", "over"}
               /\ transport \in Transports
               /\ adapters \subseteq Adapter
               /\ supported \in Controller \cup {{}}
               /\ rfkill \in BOOLEAN \cup {None}
               /\ managers \in [Managers -> BOOLEAN \cup {None}]
               /\ bluez \in BOOLEAN
               /\ verdict \in {0, 2, None}

LEMMA DoctorTyped == DoctorTypeOK <=> DoctorKnows
<1>1. {Probes[i] : i \in 1..8} = {"adapters", "btmgmt", "rfkill", "LEAdvertisingManager1",
                                  "GattManager1", "ProfileManager1", "bluez", "report"}
  <2>1. 1..8 = {1, 2, 3, 4, 5, 6, 7, 8} OBVIOUS
  <2> QED BY <2>1 DEF Probes
<1> QED BY <1>1 DEF DoctorTypeOK, DoctorKnows

(* Each probe keeps the types, and leaves the host alone unless a command failed. *)
LEMMA ExamineTyped ==
  ASSUME HostTypeOK, DoctorKnows, Examine
  PROVE  HostTypeOK' /\ DoctorKnows' /\ (Fails \/ Succeeds)
<1>1. ASSUME Fails \/ Succeeds PROVE HostTypeOK' BY <1>1, HostKept
<1>2. CASE DiscoverAdapters
  BY <1>1, <1>2, ProbeOrder DEF DiscoverAdapters, DoctorKnows, HostTypeOK
<1>3. CASE BtmgmtInfo
  <2>1. present # {} => settings[listed] \in Controller BY DEF HostTypeOK, Heads
  <2> QED BY <1>1, <1>3, <2>1, ProbeOrder DEF BtmgmtInfo, DoctorKnows
<1>4. CASE RfkillState BY <1>1, <1>4, ProbeOrder DEF RfkillState, DoctorKnows
<1>5. ASSUME NEW m \in Managers, BluezInterfaceAvailable(m)
      PROVE  HostTypeOK' /\ DoctorKnows' /\ (Fails \/ Succeeds)
  <2>1. PICK available \in BOOLEAN \cup {None} :
          managers' = [managers EXCEPT ![m] = available] /\ (Fails \/ Succeeds)
    BY <1>5 DEF BluezInterfaceAvailable
  <2>2. doctor' \in {"GattManager1", "ProfileManager1", "bluez"}
    BY <1>5, ProbeOrder DEF BluezInterfaceAvailable, Managers
  <2> QED BY <1>1, <1>5, <2>1, <2>2 DEF BluezInterfaceAvailable, DoctorKnows
<1>6. CASE BluezVersion
  <2>1. bluez' \in BOOLEAN
    <3>1. bluez' = ("bluetoothctl" \in tools) \/ bluez' = FALSE BY <1>6 DEF BluezVersion
    <3>2. ASSUME bluez' = ("bluetoothctl" \in tools) PROVE bluez' \in BOOLEAN BY <3>2
    <3> QED BY <3>1, <3>2
  <2>2. /\ Fails \/ Succeeds
        /\ doctor' = "report"
        /\ UNCHANGED <<transport, adapters, supported, rfkill, managers, verdict>>
    BY <1>6, ProbeOrder DEF BluezVersion
  <2> QED BY <1>1, <2>1, <2>2 DEF DoctorKnows
<1>7. CASE Report BY <1>1, <1>7 DEF Report, DoctorKnows
<1> QED BY <1>2, <1>3, <1>4, <1>5, <1>6, <1>7 DEF Examine

ProbeTyped == /\ target \in Targets \cup {None}
              /\ probe \in Calls \cup {"start", "advertising", "over"}
              /\ reply \in {"none", "ok", "error"}
              /\ registered \in BOOLEAN /\ advertised \in BOOLEAN
              /\ interrupted \in Calls \cup {"advertising", None}
              /\ exit \in {0, 2, None}
              /\ registered => probe \in {"advertising", "unregister", "over"}

LEMMA Parts == TypeOK <=> HostTypeOK /\ DoctorTypeOK /\ ProbeTyped
BY DEF TypeOK, ProbeTyped

LEMMA ProbeKeepsTypes == ASSUME HostTypeOK, ProbeTyped, Probe PROVE ProbeTyped'
<1> USE DEF ProbeTyped, Goto, Ends, Calls
<1>1. CASE RunAdvertiseTest /\ UNCHANGED advertised BY <1>1 DEF RunAdvertiseTest
<1>2. CASE Command /\ UNCHANGED <<target, advertised>>
  <2>1. CASE Connected \/ Introspected BY <1>2, <2>1 DEF Connected, Introspected
  <2>2. CASE Registered \/ Elapsed BY <1>2, <2>2 DEF Registered, Elapsed
  <2>3. CASE Unregistered \/ CallFails BY <1>2, <2>3 DEF Unregistered, CallFails
  <2>4. CASE Interrupt BY <1>2, <2>4 DEF Interrupt
  <2> QED BY <1>2, <2>1, <2>2, <2>3, <2>4 DEF Command
<1>3. CASE NameVanishes /\ UNCHANGED target BY <1>3 DEF NameVanishes
<1> QED BY <1>1, <1>2, <1>3 DEF Probe

LEMMA BluezKeepsTypes == ASSUME ProbeTyped, Bluez PROVE ProbeTyped' /\ (Fails \/ Succeeds)
BY DEF Bluez, Accepts, Refuses, ProbeTyped, Calls

LEMMA TypesAtFirst == ASSUME Init PROVE TypeOK
<1>1. HostTypeOK BY HostAssumption DEF Init, HostInit, HostTypeOK
<1>2. DoctorKnows BY DEF Init, DoctorInit, DoctorKnows, Transports
<1>3. ProbeTyped BY DEF Init, ProbeTyped
<1> QED BY <1>1, <1>2, <1>3, Parts, DoctorTyped

LEMMA TypesKept == ASSUME TypeOK, [Next]_vars PROVE TypeOK'
<1>1. HostTypeOK /\ DoctorKnows /\ ProbeTyped BY Parts, DoctorTyped
<1> SUFFICES HostTypeOK' /\ DoctorKnows' /\ ProbeTyped'
  <2>1. DoctorTypeOK' <=> DoctorKnows' BY DoctorTyped, PTL
  <2>2. TypeOK' <=> HostTypeOK' /\ DoctorTypeOK' /\ ProbeTyped' BY Parts, PTL
  <2> QED BY <2>1, <2>2
<1>2. CASE Examine /\ UNCHANGED probeVars
  BY <1>1, <1>2, ExamineTyped DEF ProbeTyped, probeVars
<1>3. CASE Bluez
  <2>1. ProbeTyped' /\ (Fails \/ Succeeds) BY <1>1, <1>3, BluezKeepsTypes
  <2>2. HostTypeOK' BY <1>1, <2>1, HostKept
  <2>3. DoctorKnows' BY <1>1, <1>3 DEF Bluez, doctorVars, DoctorKnows
  <2> QED BY <2>1, <2>2, <2>3
<1>4. CASE Changes
  <2>1. HostTypeOK' BY <1>1, <1>4, HostKept DEF Changes
  <2>2. DoctorKnows' BY <1>1, <1>4 DEF Changes, doctorVars, DoctorKnows
  <2>3. ProbeTyped' BY <1>1, <1>4, <2>1 DEF Changes, ProbeTyped, HostTypeOK
  <2> QED BY <2>1, <2>2, <2>3
<1>5. CASE Probe
  <2>1. ProbeTyped' BY <1>1, <1>5, ProbeKeepsTypes
  <2>2. HostTypeOK' BY <1>1, <1>5 DEF Probe, hostVars, HostTypeOK
  <2>3. DoctorKnows' BY <1>1, <1>5 DEF Probe, doctorVars, DoctorKnows
  <2> QED BY <2>1, <2>2, <2>3
<1>6. CASE UNCHANGED vars
  BY <1>1, <1>6 DEF vars, hostVars, doctorVars, probeVars, HostTypeOK, DoctorKnows, ProbeTyped
<1> QED BY <1>2, <1>3, <1>4, <1>5, <1>6 DEF Next

(* The variables stay in their ranges: the doctor asks about an adapter that exists. *)
THEOREM TypeCorrect == Spec => []TypeOK
BY TypesAtFirst, TypesKept, PTL DEF Spec

-----------------------------------------------------------------------------
(* What the probes that are over have found, when the host is at rest. *)
Asks(m) == Asked(m) /\ "busctl" \in tools

Over(m) == \/ doctor \in {"bluez", "report", "over"}
           \/ doctor = "ProfileManager1" /\ m # "ProfileManager1"
           \/ doctor = "GattManager1" /\ m = "LEAdvertisingManager1"

Known ==
  /\ doctor # "adapters" => adapters = SeenAdapters
  /\ doctor \notin {"adapters", "btmgmt"} =>
       supported = IF "btmgmt" \in tools /\ present # {} THEN settings[listed] ELSE {}
  /\ doctor \notin {"adapters", "btmgmt", "rfkill"} =>
       (rfkill = TRUE <=> "rfkill" \in tools /\ blocked # {})
  /\ \A m \in Managers : Over(m) => /\ managers[m] = None <=> Asked(m) /\ "busctl" \notin tools
                                    /\ managers[m] = TRUE <=> Asks(m) /\ Exposes(m, Adapter0)
  /\ doctor \in {"report", "over"} => (bluez <=> "bluetoothctl" \in tools)
  /\ doctor = "over" => verdict = IF \E c \in Checks : c[2] = "fail" THEN 2 ELSE 0

AtRest == Quiet => Known

(* While nothing changes and nothing fails, a probe finds what is there. *)
LEMMA ExamineKnows ==
  ASSUME HostTypeOK, DoctorKnows, Known, Examine, Succeeds, ~Fails
  PROVE  Known'
<1>1. UNCHANGED <<tools, settings, present, listed, blocked, daemon>> BY DEF Succeeds, hostVars
<1>2. SeenAdapters' = SeenAdapters BY <1>1 DEF SeenAdapters
<1>3. CASE DiscoverAdapters
  <2>1. adapters' = SeenAdapters BY <1>3 DEF DiscoverAdapters, SeenAdapters
  <2>2. doctor' = "btmgmt" BY <1>3, ProbeOrder DEF DiscoverAdapters
  <2> QED BY <2>1, <2>2, <1>1, <1>2 DEF Known, Over
<1>4. CASE BtmgmtInfo
  <2>1. supported' = IF "btmgmt" \in tools /\ present # {} THEN settings[listed] ELSE {}
    BY <1>4 DEF BtmgmtInfo
  <2>2. doctor = "btmgmt" /\ doctor' = "rfkill" /\ adapters' = adapters
    BY <1>4, ProbeOrder DEF BtmgmtInfo
  <2> QED BY <2>1, <2>2, <1>1, <1>2 DEF Known, Over
<1>5. CASE RfkillState
  <2>1. rfkill' = IF "rfkill" \in tools /\ present # {} THEN blocked # {} ELSE None
    BY <1>5 DEF RfkillState
  <2>2. rfkill' = TRUE <=> "rfkill" \in tools /\ blocked # {}
    BY <2>1, HostAssumption DEF HostTypeOK
  <2>3. /\ doctor = "rfkill" /\ doctor' = "LEAdvertisingManager1"
        /\ UNCHANGED <<adapters, supported>>
    BY <1>5, ProbeOrder DEF RfkillState
  <2> QED BY <2>2, <2>3, <1>1, <1>2 DEF Known, Over
<1>6. ASSUME NEW m \in Managers, BluezInterfaceAvailable(m) PROVE Known'
  <2>1. PICK available \in BOOLEAN \cup {None} :
          /\ managers' = [managers EXCEPT ![m] = available]
          /\ available = IF ~Asked(m) THEN FALSE
                         ELSE IF "busctl" \notin tools THEN None
                         ELSE Exposes(m, Adapter0)
    BY <1>6 DEF BluezInterfaceAvailable
  <2>2. /\ available = None <=> Asked(m) /\ "busctl" \notin tools
        /\ available = TRUE <=> Asks(m) /\ Exposes(m, Adapter0)
    <3>1. CASE ~Asked(m) BY <2>1, <3>1, HostAssumption DEF Asks
    <3>2. CASE Asked(m) /\ "busctl" \notin tools BY <2>1, <3>2, HostAssumption DEF Asks
    <3>3. CASE Asks(m)
      <4>1. available = Exposes(m, Adapter0) BY <2>1, <3>3 DEF Asks
      <4>2. available \in BOOLEAN /\ (available <=> Exposes(m, Adapter0)) BY <4>1 DEF Exposes
      <4> QED BY <3>3, <4>2, HostAssumption DEF Asks
    <3> QED BY <3>1, <3>2, <3>3 DEF Asks
  <2>3. /\ doctor = m /\ UNCHANGED <<transport, adapters, supported, rfkill, bluez, verdict>>
        /\ \/ m = "LEAdvertisingManager1" /\ doctor' = "GattManager1"
           \/ m = "GattManager1" /\ doctor' = "ProfileManager1"
           \/ m = "ProfileManager1" /\ doctor' = "bluez"
    BY <1>6, ProbeOrder DEF BluezInterfaceAvailable, Managers
  <2>5. \A n : /\ Asked(n)' <=> Asked(n)
               /\ Exposes(n, Adapter0)' <=> Exposes(n, Adapter0)
    BY <1>1, <2>3 DEF Asked, Exposes, Adapter0
  <2>6. /\ managers'[m] = available
        /\ \A n \in Managers : n # m => managers'[n] = managers[n]
    BY <2>1 DEF DoctorKnows
  <2>7. \A n \in Managers : Over(n)' => n = m \/ Over(n) BY <2>3 DEF Over, Managers
  <2>8. \A n \in Managers : Over(n)' =>
          /\ managers'[n] = None <=> Asked(n)' /\ "busctl" \notin tools'
          /\ managers'[n] = TRUE <=> Asks(n)' /\ Exposes(n, Adapter0)'
    BY <1>1, <2>2, <2>5, <2>6, <2>7 DEF Known, Asks
  <2>9. doctor \notin {"adapters", "btmgmt", "rfkill"} /\ doctor' \notin {"report", "over"}
    BY <2>3
  <2> QED BY <1>1, <1>2, <2>3, <2>8, <2>9 DEF Known
<1>7. CASE BluezVersion
  <2>1. bluez' = ("bluetoothctl" \in tools) BY <1>7 DEF BluezVersion
  <2>2. bluez' <=> "bluetoothctl" \in tools BY <2>1
  <2>3. /\ doctor = "bluez" /\ doctor' = "report"
        /\ UNCHANGED <<transport, adapters, supported, rfkill, managers, verdict>>
    BY <1>7, ProbeOrder DEF BluezVersion
  <2>5. \A m : /\ Asked(m)' <=> Asked(m)
               /\ Exposes(m, Adapter0)' <=> Exposes(m, Adapter0)
    BY <1>1, <2>3 DEF Asked, Exposes, Adapter0
  <2> QED BY <1>1, <1>2, <2>2, <2>3, <2>5 DEF Known, Asks, Over
<1>8. CASE Report
  <2>1. /\ doctor = "report" /\ doctor' = "over"
        /\ UNCHANGED <<transport, adapters, supported, rfkill, managers, bluez>>
        /\ verdict' = IF \E c \in Checks : c[2] = "fail" THEN 2 ELSE 0
    BY <1>8 DEF Report
  <2>2. Checks' = Checks
    BY <2>1 DEF Checks, Check, ManagerCheck, SettingCheck
  <2>4. \A m : /\ Asked(m)' <=> Asked(m)
               /\ Exposes(m, Adapter0)' <=> Exposes(m, Adapter0)
    BY <1>1, <2>1 DEF Asked, Exposes, Adapter0
  <2> QED BY <1>1, <1>2, <2>1, <2>2, <2>4 DEF Known, Asks, Over
<1> QED BY <1>3, <1>4, <1>5, <1>6, <1>7, <1>8 DEF Examine

LEMMA KnownStays ==
  ASSUME Known, UNCHANGED <<hostVars, doctorVars>>
  PROVE  Known'
<1>1. /\ UNCHANGED <<tools, settings, present, listed, blocked, daemon>>
      /\ UNCHANGED <<doctor, transport, adapters, supported, rfkill, managers, bluez, verdict>>
  BY DEF hostVars, doctorVars
<1>2. SeenAdapters' = SeenAdapters BY <1>1 DEF SeenAdapters
<1>3. Checks' = Checks BY <1>1 DEF Checks, Check, ManagerCheck, SettingCheck
<1>4. \A m : /\ Asked(m)' <=> Asked(m)
             /\ Exposes(m, Adapter0)' <=> Exposes(m, Adapter0)
  BY <1>1 DEF Asked, Exposes, Adapter0
<1> QED BY <1>1, <1>2, <1>3, <1>4 DEF Known, Asks, Over

LEMMA AtRestKept == ASSUME TypeOK, AtRest, [Next]_vars PROVE AtRest'
<1>1. HostTypeOK /\ DoctorKnows /\ ProbeTyped BY Parts, DoctorTyped
<1> SUFFICES ASSUME upsets' = 0 PROVE Known'
  BY DEF AtRest, Quiet
<1>2. Succeeds
  <2>1. HostChanges \/ Fails \/ Succeeds
    <3>1. CASE Examine BY <1>1, <3>1, ExamineTyped
    <3>2. CASE Bluez BY <1>1, <3>2, BluezKeepsTypes
    <3> QED BY <3>1, <3>2 DEF Next, Changes, Probe, Succeeds, vars
  <2> QED BY <1>1, <2>1, HostKept
<1>3. upsets = 0 /\ upsets' = upsets /\ Known BY <1>2 DEF Succeeds, hostVars, AtRest, Quiet
<1>4. ~Fails /\ ~HostChanges BY <1>3 DEF Fails, HostChanges, Upset
<1>5. CASE Examine BY <1>1, <1>2, <1>3, <1>4, <1>5, ExamineKnows
<1>6. CASE UNCHANGED doctorVars BY <1>2, <1>3, <1>6, KnownStays DEF Succeeds
<1> QED BY <1>4, <1>5, <1>6 DEF Next, Bluez, Changes, Probe, vars

-----------------------------------------------------------------------------
(* The checks, one by one. *)
LEMMA FailingChecks ==
  (\E c \in Checks : c[2] = "fail") <=>
    \/ ~bluez \/ adapters = {} \/ rfkill = TRUE
    \/ /\ transport \in LowEnergy
       /\ \/ \E m \in {"LEAdvertisingManager1", "GattManager1"} : managers[m] # None /\ ~managers[m]
          \/ supported # {} /\ ~({"le", "advertising"} \subseteq supported)
    \/ /\ transport \in Classic
       /\ \/ managers["ProfileManager1"] # None /\ ~managers["ProfileManager1"]
          \/ supported # {} /\ "br/edr" \notin supported
<1> DEFINE low == {ManagerCheck("LEAdvertisingManager1"), ManagerCheck("GattManager1"),
                   SettingCheck("le"), SettingCheck("advertising")}
           classic == {ManagerCheck("ProfileManager1"), SettingCheck("br/edr")}
<1>2. \A m : ManagerCheck(m)[2] = "fail" <=> managers[m] # None /\ ~managers[m]
  BY DEF ManagerCheck, Check
<1>3. \A x : SettingCheck(x)[2] = "fail" <=> supported # {} /\ x \notin supported
  BY DEF SettingCheck, Check
<1>4. (\E c \in low : c[2] = "fail") <=>
        \/ \E m \in {"LEAdvertisingManager1", "GattManager1"} : managers[m] # None /\ ~managers[m]
        \/ supported # {} /\ ~({"le", "advertising"} \subseteq supported)
  BY <1>2, <1>3
<1>5. (\E c \in classic : c[2] = "fail") <=>
        \/ managers["ProfileManager1"] # None /\ ~managers["ProfileManager1"]
        \/ supported # {} /\ "br/edr" \notin supported
  BY <1>2, <1>3
<1> HIDE DEF low, classic
<1>6. Checks = {Check("bluez", bluez), Check("adapter", adapters # {}),
                Check("rfkill", rfkill # TRUE)}
                 \cup (IF transport \in LowEnergy THEN low ELSE {})
                 \cup (IF transport \in Classic THEN classic ELSE {})
  BY DEF Checks, low, classic
<1>7. /\ Check("bluez", bluez)[2] = "fail" <=> ~bluez
      /\ Check("adapter", adapters # {})[2] = "fail" <=> adapters = {}
      /\ Check("rfkill", rfkill # TRUE)[2] = "fail" <=> rfkill = TRUE
  BY DEF Check
<1> QED BY <1>4, <1>5, <1>6, <1>7

(* With everything known, the checks that fail are those of Feasible. *)
LEMMA KnownVerdict ==
  ASSUME HostTypeOK, DoctorKnows, Known, doctor = "over"
  PROVE  verdict = 0 <=> Feasible
<1>1. verdict = 0 <=> ~\E c \in Checks : c[2] = "fail" BY DEF Known
<1>2. /\ adapters = SeenAdapters
      /\ supported = IF "btmgmt" \in tools /\ present # {} THEN settings[listed] ELSE {}
      /\ rfkill = TRUE <=> ~Seen("rfkill", blocked = {})
      /\ bluez <=> "bluetoothctl" \in tools
      /\ \A m \in Managers : /\ managers[m] = None <=> Asked(m) /\ "busctl" \notin tools
                             /\ managers[m] = TRUE <=> Asks(m) /\ Exposes(m, Adapter0)
  BY DEF Known, Over, Seen
<1>3. CASE adapters = {} \/ ~bluez \/ rfkill = TRUE
  BY <1>1, <1>2, <1>3, FailingChecks DEF Feasible
<1>4. CASE adapters # {} /\ bluez /\ rfkill # TRUE
  <2>1. adapters = present /\ present # {} /\ Adapter0 = First(present)
    BY <1>2, <1>4 DEF SeenAdapters, Adapter0
  <2>2. Adapter0 # None BY <2>1, FirstIsThere, HostAssumption DEF HostTypeOK
  <2>3. \A m \in Managers : managers[m] \in BOOLEAN \cup {None} BY DEF DoctorKnows
  <2>4. \A m \in Managers : Asked(m) =>
          (managers[m] # None /\ ~managers[m] <=> ~Seen("busctl", Exposes(m, Adapter0)))
    BY <1>2, <2>3, HostAssumption DEF Asks, Seen
  <2>5. transport \in LowEnergy => /\ Asked("LEAdvertisingManager1") /\ Asked("GattManager1")
    BY <2>2 DEF Asked
  <2>6. transport \in Classic => Asked("ProfileManager1") BY DEF Asked
  <2>7. transport \in LowEnergy =>
          ((\E m \in {"LEAdvertisingManager1", "GattManager1"} : managers[m] # None /\ ~managers[m])
             <=> ~Seen("busctl", CanAdvertise(First(present))))
    BY <2>1, <2>4, <2>5 DEF Managers, Seen, CanAdvertise
  <2>8. transport \in Classic =>
          (managers["ProfileManager1"] # None /\ ~managers["ProfileManager1"]
             <=> ~Seen("busctl", daemon))
    BY <2>4, <2>6 DEF Managers, Seen, Exposes
  <2>9. supported = IF "btmgmt" \in tools THEN settings[listed] ELSE {} BY <1>2, <2>1
  <2>10. /\ supported # {} /\ ~({"le", "advertising"} \subseteq supported)
              <=> ~Seen("btmgmt", settings[listed] # {} =>
                                    {"le", "advertising"} \subseteq settings[listed])
         /\ supported # {} /\ "br/edr" \notin supported
              <=> ~Seen("btmgmt", settings[listed] # {} =>
                                    "br/edr" \in settings[listed])
    BY <2>9 DEF Seen
  <2>11. SeenAdapters # {} /\ "bluetoothctl" \in tools /\ Seen("rfkill", blocked = {})
    BY <1>2, <1>4
  <2> QED BY <1>1, <1>4, <2>7, <2>8, <2>10, <2>11, FailingChecks DEF Feasible
<1> QED BY <1>3, <1>4

LEMMA TypeAndRest == Spec => [](TypeOK /\ AtRest)
<1>1. Init => AtRest BY DEF Init, DoctorInit, AtRest, Known, Over, Managers
<1> QED BY <1>1, TypesAtFirst, TypesKept, AtRestKept, PTL DEF Spec

(* diagnostics.py:222-355, 75-98.  On every host at rest, whatever its adapters,
   the order of their names, the order btmgmt lists them in, its controllers and
   its tools, the doctor blocks exactly what the tools show not to work. *)
THEOREM VerdictIsRight == Spec => []QuietVerdict
<1>1. TypeOK /\ AtRest => QuietVerdict
  BY KnownVerdict, Parts, DoctorTyped DEF AtRest, QuietVerdict
<1> QED BY <1>1, TypeAndRest, PTL

-----------------------------------------------------------------------------
(* The advertise-test on the doctor's adapter, after a doctor that passed, on a
   host at rest: nothing it asks for is refused, and BlueZ has its advertisement
   until it asks to drop it. *)
Passed == /\ Quiet /\ verdict = 0 /\ transport \in LowEnergy /\ "busctl" \in tools
          /\ target = Adapter0 /\ target \in powered

Broadcasting == \/ probe = "register" /\ reply = "ok"
                \/ probe = "advertising"
                \/ probe = "unregister" /\ reply = "none"

Granted ==
  /\ doctor # "over" => verdict = None /\ probe = "start"
  /\ probe = "start" => reply = "none" /\ exit = None
  /\ Passed => /\ reply # "error" /\ exit # 2
               /\ Broadcasting => advertised

LEMMA PassedHost ==
  ASSUME TypeOK, AtRest, Granted, Passed
  PROVE  /\ doctor = "over"
         /\ Exposes("LEAdvertisingManager1", target)
         /\ daemon /\ target \in present /\ target \in powered
<1>1. HostTypeOK /\ DoctorKnows BY Parts, DoctorTyped
<1>2. doctor = "over" BY HostAssumption DEF Granted, Passed
<1>3. Feasible BY <1>1, <1>2, KnownVerdict DEF Passed, AtRest
<1>4. Exposes("LEAdvertisingManager1", First(present)) /\ SeenAdapters # {}
  BY <1>3 DEF Feasible, Passed, Seen, CanAdvertise
<1>5. adapters = SeenAdapters BY <1>2 DEF Passed, AtRest, Known
<1>6. target = First(present) BY <1>4, <1>5 DEF SeenAdapters, Adapter0, Passed
<1> QED BY <1>2, <1>4, <1>6 DEF Exposes, Passed

(* Steps of BlueZ and of the command, on a host that stays as it is. *)
LEMMA BluezGrants ==
  ASSUME TypeOK, AtRest, Granted, Passed, Bluez, ~Fails
  PROVE  /\ reply' # "error" /\ exit' = exit
         /\ Broadcasting' => advertised'
BY PassedHost DEF Bluez, Accepts, Refuses, Granted, Calls, Broadcasting

LEMMA CommandGoesOn ==
  ASSUME TypeOK, AtRest, Granted, Passed, Probe, ~RunAdvertiseTest
  PROVE  /\ reply' # "error" /\ exit' # 2
         /\ Broadcasting' => advertised'
<1> USE DEF Probe, Command, Granted, Goto, Ends, Broadcasting
<1>1. CASE Connected BY <1>1, HostAssumption DEF Connected, NameVanishes
<1>2. CASE Introspected BY <1>2, PassedHost DEF Introspected, NameVanishes
<1>3. CASE Registered \/ Elapsed BY <1>3 DEF Registered, Elapsed, NameVanishes
<1>4. CASE Unregistered \/ CallFails BY <1>4 DEF Unregistered, CallFails, NameVanishes
<1>5. CASE Interrupt BY <1>5 DEF Interrupt, NameVanishes, Calls
<1>6. CASE NameVanishes BY <1>6 DEF NameVanishes
<1> QED BY <1>1, <1>2, <1>3, <1>4, <1>5, <1>6

(* The command starts once, when the doctor is over, and says nothing before. *)
LEMMA Started ==
  ASSUME Granted, Bluez \/ Probe
  PROVE  /\ doctor # "over" => UNCHANGED <<probe, reply, exit>>
         /\ probe' = "start" => reply' = "none" /\ exit' = None
         /\ RunAdvertiseTest => /\ reply' = "none" /\ exit' = None
                                /\ ~Broadcasting'
<1>1. probe = "start" => reply = "none" /\ exit = None BY DEF Granted
<1>2. doctor # "over" => probe = "start" BY DEF Granted
<1>3. CASE Bluez BY <1>1, <1>2, <1>3 DEF Bluez, Accepts, Refuses, RunAdvertiseTest, Goto, Calls
<1>4. CASE RunAdvertiseTest BY <1>1, <1>4 DEF RunAdvertiseTest, Goto, Broadcasting
<1>5. CASE Probe /\ ~RunAdvertiseTest
  BY <1>1, <1>2, <1>5 DEF Probe, Command, Connected, Introspected, Registered, Elapsed,
                          Unregistered, CallFails, Interrupt, NameVanishes, Calls, Goto, Ends
<1> QED BY <1>3, <1>4, <1>5

LEMMA GrantedKept == ASSUME TypeOK, AtRest, Granted, [Next]_vars PROVE Granted'
<1>1. HostTypeOK /\ DoctorKnows /\ ProbeTyped BY Parts, DoctorTyped
<1>2. CASE Examine /\ UNCHANGED probeVars
  <2>1. doctor # "over" /\ (doctor' # "over" => verdict' = verdict)
    <3>1. CASE Report BY <3>1 DEF Report
    <3>2. CASE ~Report
      BY <1>2, <3>2, ProbeOrder DEF Examine, DiscoverAdapters, BtmgmtInfo, RfkillState,
                                    BluezInterfaceAvailable, BluezVersion, Managers
    <3> QED BY <3>1, <3>2
  <2>2. probe = "start" /\ reply = "none" /\ exit = None BY <2>1 DEF Granted
  <2> QED BY <1>2, <2>1, <2>2, HostAssumption DEF Granted, Broadcasting, probeVars
<1>3. CASE UNCHANGED doctorVars /\ (Bluez \/ Probe)
  <2>1. ASSUME Passed', ~RunAdvertiseTest
        PROVE  Passed /\ ~Fails
    <3>1. upsets' = 0 BY <2>1 DEF Passed, Quiet
    <3>2. HostChanges \/ Fails \/ Succeeds
      BY <1>1, <1>3, BluezKeepsTypes DEF Probe, Succeeds
    <3>3. UNCHANGED hostVars BY <1>1, <3>1, <3>2, HostKept DEF Succeeds
    <3>4. target' = target BY <1>3, <2>1 DEF Bluez, Probe
    <3>5. Adapter0' = Adapter0 BY <1>3 DEF doctorVars, Adapter0
    <3>6. Passed
      BY <1>3, <2>1, <3>3, <3>4, <3>5 DEF Passed, Quiet, hostVars, doctorVars
    <3> QED BY <1>1, <3>1, <3>3, <3>6 DEF hostVars, Fails, Upset, HostTypeOK
  <2>2. ASSUME Passed'
        PROVE  /\ reply' # "error" /\ exit' # 2
               /\ Broadcasting' => advertised'
    <3>1. CASE RunAdvertiseTest BY <1>3, <3>1, Started, HostAssumption
    <3>2. CASE ~RunAdvertiseTest
      <4>1. Passed /\ ~Fails BY <2>1, <2>2, <3>2
      <4>2. exit # 2 BY <4>1 DEF Granted
      <4> QED BY <1>3, <3>2, <4>1, <4>2, BluezGrants, CommandGoesOn
    <3> QED BY <3>1, <3>2
  <2> QED BY <1>3, <2>2, Started DEF Granted, doctorVars
<1>4. CASE Changes
  <2>1. upsets' # 0 BY <1>1, <1>4 DEF Changes, HostChanges, Upset, HostTypeOK
  <2> QED BY <1>4, <2>1 DEF Changes, doctorVars, Granted, Passed, Quiet
<1>5. CASE UNCHANGED vars
  <2>1. Adapter0' = Adapter0 BY <1>5 DEF vars, doctorVars, Adapter0
  <2> QED
    BY <1>5, <2>1 DEF vars, hostVars, doctorVars, probeVars, Granted, Passed, Quiet, Broadcasting
<1> QED BY <1>2, <1>3, <1>4, <1>5 DEF Next, Bluez, Probe

(* docs/FEASIBILITY.md:92-95.  Where busctl is installed, a doctor that passed is
   never contradicted by an advertise-test on the adapter it looked at, if that is
   switched on, unless the host changes or a call fails: on every host, and
   wherever Ctrl-C meets the command. *)
THEOREM PassIsKept == Spec => []PassMeansAdvertisable
<1>1. Init => Granted BY HostAssumption DEF Init, DoctorInit, Granted, Passed
<1>2. Granted => PassMeansAdvertisable BY DEF Granted, Passed, PassMeansAdvertisable
<1> QED BY <1>1, <1>2, TypesAtFirst, TypesKept, AtRestKept, GrantedKept, TypeAndRest, PTL DEF Spec
=============================================================================
