-------------------------- MODULE GattServerProofs --------------------------
(***************************************************************************)
(* The flags of the BLE server account for everything BlueZ holds, except  *)
(* for what BlueZ itself refused to unregister: whatever fails, restarts   *)
(* or interrupts.                                                          *)
(***************************************************************************)
EXTENDS GattServer, SequenceTheorems, TLAPS

(* The answer that start() has not processed yet. *)
Unprocessed == IF main = "register" /\ reply = "ok" THEN {part} ELSE {}

Accounted == main # "exited" => bluez \subseteq flags \cup leaked \cup Unprocessed

(* An answered unregister call leaves nothing behind that is not on record. *)
AnsweredIsGone ==
  main = "unregister" /\ reply # "none" /\ part \in bluez => part \in leaked

StoppedIsClear == main = "stopped" => flags = {}

IInv == TypeOK /\ Accounted /\ AnsweredIsGone /\ StoppedIsClear

(* The variables the stop sequence starts from, in terms of the flags left. *)
LEMMA StopStep ==
  ASSUME NEW f \in SUBSET Parts, StopFrom(f)
  PROVE  /\ main' \in {"unregister", "stopped"}
         /\ main' = "unregister" => part' \in f
         /\ main' = "stopped" => f = {} /\ part' = part
         /\ reply' = "none" /\ bus' \in BOOLEAN
BY DEF StopFrom, Goto, Parts

LEMMA Initially == ASSUME Init PROVE IInv
BY GattAssumption DEF Init, IInv, TypeOK, Accounted, AnsweredIsGone, StoppedIsClear, Parts,
   Calling, Opening, Unprocessed

LEMMA BluezStep ==
  ASSUME IInv, Bluez \/ BluezRestarts \/ NameVanishes
  PROVE  IInv'
<1> USE DEF IInv, TypeOK, bluezVars, serverVars, Calling, Opening, Parts, Pending
<1>1. CASE BluezAccepts
  <2>1. TypeOK' BY <1>1 DEF BluezAccepts
  <2>2. Accounted' BY <1>1 DEF BluezAccepts, Accounted, Unprocessed
  <2>3. AnsweredIsGone' BY <1>1 DEF BluezAccepts, AnsweredIsGone
  <2> QED BY <1>1, <2>1, <2>2, <2>3 DEF BluezAccepts, StoppedIsClear
<1>2. CASE BluezRejects
  <2>1. TypeOK' BY <1>2 DEF BluezRejects
  <2>2. Accounted' BY <1>2 DEF BluezRejects, Accounted, Unprocessed
  <2>3. AnsweredIsGone' BY <1>2 DEF BluezRejects, AnsweredIsGone
  <2> QED BY <1>2, <2>1, <2>2, <2>3 DEF BluezRejects, StoppedIsClear
<1>3. CASE BluezRestarts \/ NameVanishes
  BY <1>3 DEF BluezRestarts, NameVanishes, Accounted, Unprocessed, AnsweredIsGone, StoppedIsClear
<1> QED BY <1>1, <1>2, <1>3 DEF Bluez

LEMMA StartStep ==
  ASSUME IInv, Connected \/ Introspected \/ AgentManagerResolved \/ Registered \/ DefaultAgent
  PROVE  IInv'
<1> USE DEF IInv, TypeOK, bluezVars, serverVars, Calling, Opening, Parts, Goto
<1>1. CASE Connected \/ Introspected \/ AgentManagerResolved \/ DefaultAgent
  BY <1>1 DEF Connected, Introspected, AgentManagerResolved, DefaultAgent,
              Accounted, Unprocessed, AnsweredIsGone, StoppedIsClear
<1>2. CASE Registered
  BY <1>2 DEF Registered, Accounted, Unprocessed, AnsweredIsGone, StoppedIsClear
<1> QED BY <1>1, <1>2

LEMMA StopStepKeeps ==
  ASSUME IInv, StartFails \/ Unregistered \/ RunEnds \/ Interrupt \/ Terminate
  PROVE  IInv'
<1>1. ASSUME StartFails PROVE IInv'
  <2>1. bluez' \subseteq flags' \cup leaked' BY <1>1 DEF StartFails, bluezVars, IInv, Accounted, Unprocessed, Opening
  <2> QED BY <1>1, <2>1, StopStep DEF StartFails, bluezVars, IInv, TypeOK, Calling, Accounted, Unprocessed,
             AnsweredIsGone, StoppedIsClear
<1>2. ASSUME Unregistered PROVE IInv'
  <2>1. bluez' \subseteq flags' \cup leaked'
    BY <1>2 DEF Unregistered, bluezVars, IInv, Accounted, Unprocessed, AnsweredIsGone
  <2> QED BY <1>2, <2>1, StopStep DEF Unregistered, bluezVars, IInv, TypeOK, Calling, Accounted, Unprocessed,
             AnsweredIsGone, StoppedIsClear
<1>3. ASSUME Exit, flags' \subseteq flags, interrupted' \in BOOLEAN PROVE IInv'
  BY <1>3 DEF Exit, bluezVars, IInv, TypeOK, Accounted, AnsweredIsGone, StoppedIsClear
<1>4. ASSUME Interrupt PROVE IInv'
  <2>1. CASE main = "ready" /\ StopFrom(flags) /\ UNCHANGED <<flags, bluezVars>>
    <3>1. bluez' \subseteq flags' \cup leaked'
      BY <1>4, <2>1 DEF IInv, Accounted, Unprocessed, bluezVars
    <3>2. TypeOK'
      BY <1>4, <2>1, StopStep DEF Interrupt, IInv, TypeOK, Calling, bluezVars
    <3>3. AnsweredIsGone' /\ StoppedIsClear'
      BY <1>4, <2>1, StopStep DEF Interrupt, bluezVars, IInv, TypeOK, AnsweredIsGone, StoppedIsClear
    <3> QED BY <3>1, <3>2, <3>3 DEF IInv, Accounted
  <2> QED BY <1>3, <1>4, <2>1 DEF Interrupt, IInv, TypeOK
<1>5. ASSUME RunEnds \/ Terminate PROVE IInv'
  BY <1>3, <1>5 DEF RunEnds, Terminate, IInv, TypeOK
<1> QED BY <1>1, <1>2, <1>4, <1>5

LEMMA Inductive ==
  ASSUME IInv, [Next]_vars
  PROVE  IInv'
<1>1. CASE Next BY <1>1, BluezStep, StartStep, StopStepKeeps DEF Next, Main
<1>2. CASE UNCHANGED vars
  BY <1>2 DEF vars, serverVars, bluezVars, IInv, TypeOK, Accounted, Unprocessed, AnsweredIsGone, StoppedIsClear
<1> QED BY <1>1, <1>2

(* ble_gatt.py:352-377, 397-430.  No order of failing calls, BlueZ restarts,
   interrupts and signals makes BlueZ hold what no flag names, except what it
   refused to unregister. *)
THEOREM FlagsAccountForBluez == Spec => []NothingForgotten
<1>1. IInv => NothingForgotten BY DEF IInv, Accounted, Unprocessed, NothingForgotten
<1> QED BY Initially, Inductive, <1>1, PTL DEF Spec

(* ble_gatt.py:394-439.  Where stop() has run to its end, BlueZ holds nothing but
   what it refused to unregister. *)
THEOREM StopReleasesEverything == Spec => []StoppedHoldsNothing
<1>1. IInv => StoppedHoldsNothing
  BY DEF IInv, Accounted, Unprocessed, StoppedIsClear, StoppedHoldsNothing
<1> QED BY Initially, Inductive, <1>1, PTL DEF Spec

-----------------------------------------------------------------------------
(* The order of the registrations, as long as BlueZ neither restarts nor   *)
(* refuses to unregister: at every suspension it is known what BlueZ holds. *)
Base == IF SecureReads THEN {"agent"} ELSE {}
Below(p) == IF p = "agent" THEN {} ELSE IF p = "application" THEN Base
            ELSE Base \cup {"application"}
Used == Base \cup {"application", "advertisement"}

InOrder ==
  ~restarted /\ leaked = {} =>
    /\ main \in Opening \cup {"stopped"} => bluez = {} /\ flags = {}
    /\ main = "managers" => SecureReads
    /\ main = "register" => /\ part \in Used /\ flags = Below(part)
                            /\ bluez = IF reply = "ok" THEN flags \cup {part} ELSE flags
    /\ main = "default" => SecureReads /\ flags = {"agent"} /\ bluez = {"agent"}
    /\ main = "ready" => flags = Used /\ bluez = Used
    /\ main = "unregister" => /\ part \in Used /\ flags = Below(part) \cup {part}
                              /\ reply # "error"
                              /\ bluez = IF reply = "ok" THEN Below(part) ELSE flags
    /\ main = "exited" => bluez = Used \/ \E p \in Used : bluez = Below(p)
    /\ ~bus => main \in {"connect", "stopped", "exited"}

LInv == IInv /\ InOrder

LEMMA InitiallyOrdered == ASSUME Init PROVE LInv
BY Initially DEF Init, LInv, InOrder, Opening

LEMMA BluezInOrder ==
  ASSUME LInv, Bluez \/ BluezRestarts \/ NameVanishes
  PROVE  InOrder'
<1> USE GattAssumption DEF LInv, IInv, TypeOK, InOrder, Base, Below, Used, bluezVars, serverVars, Pending,
        Opening, Calling
<1>1. CASE BluezAccepts BY <1>1 DEF BluezAccepts
<1>2. CASE BluezRejects BY <1>2 DEF BluezRejects
<1>3. CASE BluezRestarts BY <1>3 DEF BluezRestarts
<1>4. CASE NameVanishes BY <1>4 DEF NameVanishes
<1> QED BY <1>1, <1>2, <1>3, <1>4 DEF Bluez

LEMMA StartInOrder ==
  ASSUME LInv, Connected \/ Introspected \/ AgentManagerResolved \/ Registered \/ DefaultAgent
  PROVE  InOrder'
<1> USE GattAssumption DEF LInv, IInv, TypeOK, InOrder, Base, Below, Used, bluezVars, serverVars, Goto,
        Opening, Calling
<1>1. CASE Connected BY <1>1 DEF Connected
<1>2. CASE Introspected BY <1>2 DEF Introspected
<1>3. CASE AgentManagerResolved BY <1>3 DEF AgentManagerResolved
<1>4. CASE Registered BY <1>4 DEF Registered
<1>5. CASE DefaultAgent BY <1>5 DEF DefaultAgent
<1> QED BY <1>1, <1>2, <1>3, <1>4, <1>5

(* stop() from the flags of a prefix of the order, all of which BlueZ holds. *)
LEMMA StopInOrder ==
  ASSUME LInv, UNCHANGED bluezVars, NEW f, StopFrom(f),
         ~restarted /\ leaked = {} => /\ f = Used \/ \E p \in Used : f = Below(p)
                                      /\ bluez = f /\ flags' = f
  PROVE  InOrder'
BY GattAssumption DEF StopFrom, Goto, LInv, IInv, TypeOK, InOrder, Base, Below, Used, bluezVars, Opening

LEMMA EndInOrder ==
  ASSUME LInv, StartFails \/ Unregistered \/ RunEnds \/ Interrupt \/ Terminate
  PROVE  InOrder'
<1> USE GattAssumption
<1>1. CASE StartFails
  <2>1. ~restarted /\ leaked = {} =>
          (flags = Used \/ \E p \in Used : flags = Below(p)) /\ bluez = flags
    BY <1>1 DEF StartFails, LInv, IInv, TypeOK, InOrder, Base, Below, Used, Opening
  <2> QED BY <1>1, <2>1, StopInOrder DEF StartFails
<1>2. CASE Unregistered
  <2>1. ~restarted /\ leaked = {} =>
          (\E p \in Used : flags \ {part} = Below(p)) /\ bluez = flags \ {part}
    BY <1>2 DEF Unregistered, LInv, IInv, TypeOK, InOrder, Base, Below, Used
  <2> QED BY <1>2, <2>1, StopInOrder DEF Unregistered
<1>3. ASSUME Exit PROVE InOrder'
  BY <1>3 DEF Exit, LInv, IInv, TypeOK, InOrder, Base, Below, Used, bluezVars, Opening, Calling
<1>4. CASE Interrupt /\ main = "ready"
  <2>1. ~restarted /\ leaked = {} => flags = Used /\ bluez = flags
    BY <1>4 DEF LInv, InOrder
  <2>2. StopFrom(flags) /\ UNCHANGED <<flags, bluezVars>> BY <1>4 DEF Interrupt, Calling, Opening
  <2> QED BY <2>1, <2>2, StopInOrder
<1> QED BY <1>1, <1>2, <1>3, <1>4 DEF Interrupt, RunEnds, Terminate

LEMMA InductiveOrdered == ASSUME LInv, [Next]_vars PROVE LInv'
<1>1. IInv' BY Inductive DEF LInv
<1>2. CASE Next
  BY <1>1, <1>2, BluezInOrder, StartInOrder, EndInOrder DEF Next, Main, LInv
<1>3. CASE UNCHANGED vars
  BY <1>1, <1>3 DEF vars, serverVars, bluezVars, LInv, InOrder
<1> QED BY <1>2, <1>3

(* The refinement mapping, on what BlueZ can hold in order: a registration
   puts the next one of Order on top. *)
LEMMA LayerType ==
  ASSUME NEW S, NEW p \in Parts
  PROVE  /\ Layer(S, p) \in Seq(Parts)
         /\ p \in S => Layer(S, p) = <<p>>
         /\ p \notin S => Layer(S, p) = <<>>
BY DEF Layer

LEMMA LayersOf ==
  ASSUME NEW S
  PROVE  /\ S \cap Parts = {} => Layers(S) = <<>>
         /\ "advertisement" \notin S => Layers(S) = Layer(S, "agent") \o Layer(S, "application")
         /\ S \cap Parts \subseteq {"agent"} => Layers(S) = Layer(S, "agent")
         /\ Layers(S) \in Seq(Parts)
<1>1. \A p \in Parts : /\ Layer(S, p) \in Seq(Parts)
                       /\ p \notin S => Layer(S, p) = <<>>
  BY LayerType
<1>2. "agent" \in Parts /\ "application" \in Parts /\ "advertisement" \in Parts BY DEF Parts
<1>3. \A s \in Seq(Parts) : s \o <<>> = s BY ConcatEmptySeq
<1>4. <<>> \in Seq(Parts) OBVIOUS
<1>5. \A s, t \in Seq(Parts) : s \o t \in Seq(Parts) BY ConcatProperties
<1> DEFINE low == Layer(S, "agent")
           mid == Layer(S, "application")
           top == Layer(S, "advertisement")
<1>6. low \in Seq(Parts) /\ mid \in Seq(Parts) /\ top \in Seq(Parts) BY <1>1, <1>2
<1>7. Layers(S) = low \o mid \o top BY DEF Layers
<1>8. /\ "advertisement" \notin S => top = <<>>
      /\ "application" \notin S => mid = <<>>
      /\ "agent" \notin S => low = <<>>
  BY <1>1, <1>2
<1>9. S \cap Parts = {} <=> "agent" \notin S /\ "application" \notin S /\ "advertisement" \notin S
  BY DEF Parts
<1>10. S \cap Parts \subseteq {"agent"} <=> "application" \notin S /\ "advertisement" \notin S
  BY DEF Parts
<1> HIDE DEF low, mid, top
<1>11. low \o mid \in Seq(Parts) /\ low \o mid \o top \in Seq(Parts) BY <1>5, <1>6
<1>12. "advertisement" \notin S => Layers(S) = low \o mid BY <1>3, <1>7, <1>8, <1>11
<1>13. S \cap Parts \subseteq {"agent"} => Layers(S) = low BY <1>3, <1>6, <1>8, <1>10, <1>12
<1>14. S \cap Parts = {} => Layers(S) = <<>> BY <1>8, <1>9, <1>10, <1>13
<1> QED BY <1>7, <1>11, <1>12, <1>13, <1>14 DEF low, mid

LEMMA Pushes ==
  ASSUME NEW p \in Used
  PROVE  /\ Len(Layers(Below(p))) < Len(Order)
         /\ Layers(Below(p) \cup {p}) = Append(Layers(Below(p)), Order[Len(Layers(Below(p))) + 1])
<1>1. \A s \in Seq(Parts), x \in Parts : Append(s, x) = s \o <<x>> BY AppendIsConcat
<1>2. \A s \in Seq(Parts) : <<>> \o s = s BY ConcatEmptySeq
<1>3. <<"application">> \in Seq(Parts) /\ Len(<<"application">>) = 1 BY DEF Parts
<1> DEFINE low == Layer(Base, "agent")
           mid == low \o <<"application">>
<1>4. /\ low \in Seq(Parts) /\ Len(low) = IF SecureReads THEN 1 ELSE 0
      /\ mid \in Seq(Parts) /\ Len(mid) = IF SecureReads THEN 2 ELSE 1
  <2>1. CASE SecureReads
    <3>1. low = <<"agent">> BY <2>1 DEF Layer, Base
    <3>2. <<"agent">> \in Seq(Parts) /\ Len(<<"agent">>) = 1 BY DEF Parts
    <3> QED BY <2>1, <3>1, <3>2, ConcatProperties, <1>3
  <2>2. CASE ~SecureReads
    <3>1. low = <<>> BY <2>2 DEF Layer, Base
    <3>2. <<>> \in Seq(Parts) /\ Len(<<>>) = 0 OBVIOUS
    <3>3. mid = <<"application">> BY <3>1, <1>2, <1>3
    <3> HIDE DEF low, mid
    <3> QED BY <2>2, <3>1, <3>2, <3>3, <1>3
  <2> QED BY <2>1, <2>2
<1>5. CASE p = "agent"
  <2>1. SecureReads /\ Below(p) = {} BY <1>5 DEF Used, Base, Below
  <2>2. Layers({}) = <<>> /\ Layers({"agent"}) = Layer({"agent"}, "agent") BY LayersOf DEF Parts
  <2>3. Layer({"agent"}, "agent") = <<"agent">> BY DEF Layer
  <2>4. Order[1] = "agent" /\ Len(Order) = 3 BY <2>1 DEF Order
  <2>5. Append(<<>>, "agent") = <<"agent">> BY <1>1, <1>2 DEF Parts
  <2>6. Below(p) \cup {p} = {"agent"} /\ Len(<<>>) = 0 BY <1>5, <2>1
  <2>7. Len(Layers(Below(p))) = 0 BY <2>1, <2>2, <2>6
  <2>8. Layers(Below(p) \cup {p}) = <<"agent">> BY <2>2, <2>3, <2>6
  <2>9. Order[Len(Layers(Below(p))) + 1] = "agent" BY <2>4, <2>7
  <2>10. Layers(Below(p)) = <<>> BY <2>1, <2>2
  <2> QED BY <2>4, <2>5, <2>7, <2>8, <2>9, <2>10
<1>6. CASE p = "application"
  <2>1. Below(p) = Base BY <1>6 DEF Below
  <2>2. Layers(Base) = low BY LayersOf DEF Base, Parts
  <2>3. Layers(Base \cup {"application"}) = mid
    <3>1. /\ Layer(Base \cup {"application"}, "agent") = low
          /\ Layer(Base \cup {"application"}, "application") = <<"application">>
      BY DEF Layer, Base
    <3> QED BY <3>1, LayersOf DEF Base
  <2>4. Order[Len(low) + 1] = "application" /\ Len(low) < Len(Order) BY <1>4 DEF Order
  <2> HIDE DEF low
  <2> QED BY <1>1, <1>4, <1>6, <2>1, <2>2, <2>3, <2>4 DEF Parts
<1>7. CASE p = "advertisement"
  <2>1. Below(p) = Base \cup {"application"} BY <1>7 DEF Below
  <2>2. Layers(Base \cup {"application"}) = mid
    <3>1. /\ Layer(Base \cup {"application"}, "agent") = low
          /\ Layer(Base \cup {"application"}, "application") = <<"application">>
      BY DEF Layer, Base
    <3> QED BY <3>1, LayersOf DEF Base
  <2>3. Layers(Base \cup {"application", "advertisement"}) = mid \o <<"advertisement">>
    BY DEF Layers, Layer, Base
  <2>4. Order[Len(mid) + 1] = "advertisement" /\ Len(mid) < Len(Order) BY <1>4 DEF Order
  <2>5. Below(p) \cup {p} = Base \cup {"application", "advertisement"} BY <1>7, <2>1
  <2> HIDE DEF mid
  <2> QED BY <1>1, <1>4, <1>7, <2>1, <2>2, <2>3, <2>4, <2>5 DEF Parts
<1> QED BY <1>5, <1>6, <1>7 DEF Used, Base

LEMMA Pops ==
  ASSUME NEW p \in Used
  PROVE  LET h == Layers(Below(p) \cup {p}) IN
           h # <<>> /\ Layers(Below(p)) = SubSeq(h, 1, Len(h) - 1)
<1>1. Layers(Below(p)) \in Seq(Parts)
  BY LayersOf
<1>2. /\ Len(Layers(Below(p))) < Len(Order)
      /\ Layers(Below(p) \cup {p}) = Append(Layers(Below(p)), Order[Len(Layers(Below(p))) + 1])
  BY Pushes
<1> DEFINE l == Layers(Below(p))
           x == Order[Len(l) + 1]
<1> HIDE DEF l, x
<1>3. Append(l, x) # <<>> /\ SubSeq(Append(l, x), 1, Len(Append(l, x)) - 1) = l
  BY <1>1 DEF l
<1> QED BY <1>2, <1>3 DEF l, x

(* A step of the server or of BlueZ is one of the stack, or changes nothing of it. *)
LEMMA StackStep ==
  ASSUME LInv, [Next]_vars
  PROVE  [Stack!Next \/ restarted' \/ leaked' # {}]_Held
<1> SUFFICES ASSUME ~restarted', leaked' = {}, bluez' # bluez PROVE Stack!Next
  BY DEF Held, LInv, IInv, TypeOK
<1>1. ~restarted /\ leaked = {} /\ (BluezAccepts \/ NameVanishes)
  BY DEF Next, Bluez, BluezAccepts, BluezRejects, BluezRestarts, NameVanishes, Main, Connected,
     Introspected, AgentManagerResolved, Registered, DefaultAgent, StartFails, Unregistered,
     RunEnds, Interrupt, Terminate, Exit, bluezVars, vars
<1>2. CASE NameVanishes
  BY <1>2, LayersOf DEF NameVanishes, Stack!Next, Stack!Forget, Held
<1>3. CASE BluezAccepts /\ main = "register"
  <2>1. part \in Used /\ bluez = Below(part) /\ bluez' = Below(part) \cup {part}
    BY <1>1, <1>3 DEF BluezAccepts, Pending, Opening, LInv, InOrder
  <2>2. Stack!Register BY <2>1, Pushes DEF Stack!Register, Held
  <2> QED BY <2>2 DEF Stack!Next
<1>4. CASE BluezAccepts /\ main = "unregister"
  <2>1. part \in Used /\ bluez = Below(part) \cup {part} /\ bluez' = Below(part)
    BY <1>1, <1>4 DEF BluezAccepts, Pending, Opening, LInv, InOrder, Below, Base, Used
  <2>2. Stack!Unregister BY <2>1, Pops DEF Stack!Unregister, Held
  <2> QED BY <2>2 DEF Stack!Next
<1> QED BY <1>1, <1>2, <1>3, <1>4 DEF BluezAccepts, Pending

(* ble_gatt.py:330-378, 397-430.  The server implements the stack of
   registrations, until BlueZ restarts or refuses to unregister something. *)
THEOREM RegistrationsAreLayered == Spec => Layered
<1>1. Init => Stack!Init BY LayersOf DEF Init, Stack!Init, Held
<1> QED BY <1>1, InitiallyOrdered, InductiveOrdered, StackStep, PTL DEF Spec, Layered

(* The variables stay in their ranges, and a call to unregister is always about
   something that is flagged as registered. *)
THEOREM TypeCorrect == Spec => []TypeOK
<1>1. IInv => TypeOK BY DEF IInv
<1> QED BY Initially, Inductive, <1>1, PTL DEF Spec
=============================================================================
