--------------------------- MODULE DeviceIdentity ---------------------------
(***************************************************************************)
(* What codepc_link.identity promises its callers: one identifier per      *)
(* state directory, chosen once, never changed, and for ever once it is    *)
(* durable.  A call reports that identifier or fails (collect_status then  *)
(* publishes no device id and the error DEVICE_ID_UNAVAILABLE).            *)
(***************************************************************************)

CONSTANTS Process,      \* processes that call load_or_create_device_id
          Id,           \* the UUIDs uuid4 may return
          Unavailable   \* "no identifier": none chosen yet, none reported

VARIABLES chosen,       \* the identifier of this state directory, once chosen
          durable,      \* it survives whatever happens from now on
          reported      \* what the last completed call of each process gave

idVars == <<chosen, durable, reported>>

Init == /\ chosen = Unavailable
        /\ durable = FALSE
        /\ reported = [p \in Process |-> Unavailable]

Choose == /\ chosen = Unavailable
          /\ chosen' \in Id
          /\ UNCHANGED <<durable, reported>>

Report(p) == /\ chosen \in Id
             /\ reported' = [reported EXCEPT ![p] = chosen]
             /\ UNCHANGED <<chosen, durable>>

(* The call that chose the identifier returns it, once it is durable. *)
Secure(p) == /\ chosen \in Id
             /\ durable' = TRUE
             /\ reported' = [reported EXCEPT ![p] = chosen]
             /\ UNCHANGED chosen

Fail(p) == /\ reported' = [reported EXCEPT ![p] = Unavailable]
           /\ UNCHANGED <<chosen, durable>>

(* The call that chose the identifier could not make it durable. *)
Withdraw(p) == /\ ~durable
               /\ chosen' = Unavailable
               /\ reported' = [reported EXCEPT ![p] = Unavailable]
               /\ UNCHANGED durable

(* A power loss takes an identifier that is not durable. *)
Lose == /\ ~durable
        /\ chosen' = Unavailable
        /\ UNCHANGED <<durable, reported>>

Next == \/ Choose \/ Lose
        \/ \E p \in Process : Report(p) \/ Secure(p) \/ Fail(p) \/ Withdraw(p)

Spec == Init /\ [][Next]_idVars
=============================================================================
