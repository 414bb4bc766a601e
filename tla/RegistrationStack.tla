-------------------------- MODULE RegistrationStack --------------------------
(***************************************************************************)
(* What a CodePC Link server promises about its registrations with BlueZ:  *)
(* they are made in one order and undone in the reverse order, so that     *)
(* what is visible to devices (the advertisement, the RFCOMM profile) is   *)
(* never there without what it rests on (the GATT application, the pairing *)
(* agent).  BlueZ may forget everything at once.                           *)
(***************************************************************************)
EXTENDS Naturals, Sequences

CONSTANT Order         \* the registrations, in the order they are made
VARIABLE held          \* the registrations BlueZ holds, oldest first

Init == held = <<>>

Register == /\ Len(held) < Len(Order)
            /\ held' = Append(held, Order[Len(held) + 1])

Unregister == /\ held # <<>>
              /\ held' = SubSeq(held, 1, Len(held) - 1)

Forget == held' = <<>>

Next == Register \/ Unregister \/ Forget

Spec == Init /\ [][Next]_held
=============================================================================
