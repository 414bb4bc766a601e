---------------------------- MODULE IdentityFile ----------------------------
(***************************************************************************)
(* The persistent device identity, src/src/codepc_link/identity.py.        *)
(*                                                                         *)
(* Several processes (the BLE service, the RFCOMM service, the diagnostic  *)
(* command line) call load_or_create_device_id on one state directory.     *)
(* They share nothing but the file, so every system call is a step of its  *)
(* own.  Faults selects what the environment may do between two steps.     *)
(***************************************************************************)
EXTENDS Naturals

CONSTANTS Process, Id,
          Absent,        \* the path does not exist
          Blank,         \* the file exists; its text is not (yet) a UUID
          Unavailable,   \* the call raised OSError or ValueError
          Faults         \* the faults of this instance

FaultKinds == {"kill", "denied", "write_error", "fsync_error",
               "unlink_error", "power"}

ASSUME IdentityAssumption ==
  /\ Faults \subseteq FaultKinds
  /\ Absent \notin Id /\ Blank \notin Id /\ Unavailable \notin Id
  /\ Absent # Blank

VARIABLES file,       \* what read_text would find at directory/device-id
          synced,     \* fsync has returned for the present content
          pc,         \* where each process is inside the function
          value,      \* its local variable value = str(uuid.uuid4())
          reported,   \* the device id its last completed call put into a status
          contentLost \* history: fsync failed, or unsynced content was lost

vars == <<file, synced, pc, value, reported, contentLost>>

Creating == {"write", "fsync", "unlink"}

TypeOK == /\ file \in Id \cup {Absent, Blank}
          /\ synced \in BOOLEAN
          /\ pc \in [Process -> {"idle", "read", "create", "reread"} \cup Creating]
          /\ value \in [Process -> Id \cup {Unavailable}]
          /\ reported \in [Process -> Id \cup {Unavailable}]
          /\ contentLost \in BOOLEAN

Init == /\ file = Absent
        /\ synced = FALSE
        /\ pc = [p \in Process |-> "idle"]
        /\ value = [p \in Process |-> Unavailable]
        /\ reported = [p \in Process |-> Unavailable]
        /\ contentLost = FALSE

-----------------------------------------------------------------------------
Goto(p, from, to) == /\ pc[p] = from
                     /\ pc' = [pc EXCEPT ![p] = to]

(* Leave the function: return a UUID, or raise and let collect_status publish
   device.id = null with DEVICE_ID_UNAVAILABLE. *)
Finish(p, from, result) == /\ Goto(p, from, "idle")
                           /\ reported' = [reported EXCEPT ![p] = result]

(* _read_device_id on a file that is there: uuid.UUID rejects a blank text. *)
ReadDeviceId(p, from) ==
  /\ file # Absent
  /\ Finish(p, from, IF file \in Id THEN file ELSE Unavailable)
  /\ UNCHANGED <<file, synced, value, contentLost>>

Call(p) == /\ Goto(p, "idle", "read")
           /\ UNCHANGED <<file, synced, value, reported, contentLost>>

Read(p) == ReadDeviceId(p, "read")

(* Mutant of ReadMissing: the identifier is minted after the create. *)
ReadMissingUnminted(p) == /\ file = Absent
                          /\ Goto(p, "read", "create")
                          /\ UNCHANGED <<file, synced, value, reported, contentLost>>

(* FileNotFoundError on the first read: mint an identifier, try to create. *)
ReadMissing(p) == /\ file = Absent
                  /\ Goto(p, "read", "create")
                  /\ \E id \in Id : value' = [value EXCEPT ![p] = id]
                  /\ UNCHANGED <<file, synced, reported, contentLost>>

(* Mutant of Create: O_CREAT and O_TRUNC, no O_EXCL. *)
CreateTruncates(p) == /\ Goto(p, "create", "write")
                      /\ file' = Blank
                      /\ UNCHANGED <<synced, value, reported, contentLost>>

(* os.open with O_CREAT and O_EXCL. *)
Create(p) == /\ file = Absent
             /\ Goto(p, "create", "write")
             /\ file' = Blank
             /\ UNCHANGED <<synced, value, reported, contentLost>>

CreateExists(p) == /\ file # Absent
                   /\ Goto(p, "create", "reread")
                   /\ UNCHANGED <<file, synced, value, reported, contentLost>>

Reread(p) == ReadDeviceId(p, "reread")

(* The second read is outside every handler: the creator withdrew the file. *)
RereadMissing(p) == /\ file = Absent
                    /\ Finish(p, "reread", Unavailable)
                    /\ UNCHANGED <<file, synced, value, contentLost>>

(* Mutant of Write: the buffered text never reaches the file. *)
WriteWithoutFlush(p) == /\ Goto(p, "write", "fsync")
                        /\ UNCHANGED <<file, synced, value, reported, contentLost>>

Write(p) == /\ Goto(p, "write", "fsync")
            /\ file' = value[p]
            /\ UNCHANGED <<synced, value, reported, contentLost>>

Fsync(p) == /\ Finish(p, "fsync", value[p])
            /\ synced' = TRUE
            /\ UNCHANGED <<file, value, contentLost>>

Unlink(p) == /\ Finish(p, "unlink", Unavailable)
             /\ file' = Absent
             /\ UNCHANGED <<synced, value, contentLost>>

-----------------------------------------------------------------------------
(* mkdir, open or read raise an OSError that is not one of the two handled. *)
Denied(p) == /\ "denied" \in Faults
             /\ \E from \in {"read", "create", "reread"} :
                    Finish(p, from, Unavailable)
             /\ UNCHANGED <<file, synced, value, contentLost>>

WriteError(p) == /\ "write_error" \in Faults
                 /\ Goto(p, "write", "unlink")
                 /\ UNCHANGED <<file, synced, value, reported, contentLost>>

FsyncError(p) == /\ "fsync_error" \in Faults
                 /\ Goto(p, "fsync", "unlink")
                 /\ contentLost' = TRUE
                 /\ UNCHANGED <<file, synced, value, reported>>

UnlinkError(p) == /\ "unlink_error" \in Faults
                  /\ Finish(p, "unlink", Unavailable)
                  /\ UNCHANGED <<file, synced, value, contentLost>>

(* SIGKILL, or a KeyboardInterrupt, which "except Exception" lets through. *)
Kill(p) == /\ "kill" \in Faults
           /\ pc[p] # "idle"
           /\ pc' = [pc EXCEPT ![p] = "idle"]
           /\ UNCHANGED <<file, synced, value, reported, contentLost>>

(* Unsynced content may reach the disk or not; content that was fsynced stays
   (the directory entry of a new file is taken to be synced with the file, as
   ext4, XFS and btrfs do: the code syncs no directory).  reported is what
   clients were told, which they remember across the restart. *)
PowerLoss == /\ "power" \in Faults
             /\ file' \in IF synced THEN {file} ELSE {Absent, file}
                          \cup (IF file = Absent THEN {} ELSE {Blank})
             /\ contentLost' = (contentLost \/ file' # file)
             /\ pc' = [p \in Process |-> "idle"]
             /\ UNCHANGED <<synced, value, reported>>

Proceed(p) == \/ Read(p) \/ ReadMissing(p) \/ Create(p) \/ CreateExists(p)
              \/ Reread(p) \/ RereadMissing(p) \/ Write(p) \/ Fsync(p)
              \/ Unlink(p)

Fault(p) == Denied(p) \/ WriteError(p) \/ FsyncError(p) \/ UnlinkError(p)
            \/ Kill(p)

Next == \/ \E p \in Process : Call(p) \/ Proceed(p) \/ Fault(p)
        \/ PowerLoss

Spec == Init /\ [][Next]_vars

(* A process inside the function keeps running; nobody is obliged to call. *)
FairSpec == Spec /\ \A p \in Process : WF_vars(Proceed(p))

-----------------------------------------------------------------------------
(* At most one process is between a successful O_EXCL create and the end of
   the function, and what the path holds is what that process made of it.
   The errors of write and unlink are covered; with fsync_error the file that
   is about to be withdrawn may already hold the identifier. *)
SoleCreator ==
  /\ \A p, q \in Process : pc[p] \in Creating /\ pc[q] \in Creating => p = q
  /\ \A p \in Process :
       /\ pc[p] \in {"create"} \cup Creating => value[p] \in Id
       /\ pc[p] = "write"  => file = Blank
       /\ pc[p] = "fsync"  => file = value[p]
       /\ pc[p] = "unlink" => file \in {Blank, value[p]}
                              /\ ("fsync_error" \notin Faults => file = Blank)

(* identity.py:49-54.  Once fsync has returned, the path holds a UUID and
   nobody is left who could write, sync or withdraw it. *)
SyncedIsFinal == synced => /\ file \in Id
                           /\ \A p \in Process : pc[p] \notin Creating

(* No fault, power loss included, and no concurrent call changes or removes
   an identifier after its fsync (identity.py:38-54). *)
SyncedIdNeverChanges == [][synced => synced' /\ file' = file]_vars

(* PROTOCOL.md: device.id is persistent.  Whatever two processes last
   reported, they reported the same identifier, unless content that a process
   may have read was lost: by a failed fsync, after which the creator unlinks
   the file (identity.py:49-52), or by a power loss before the fsync. *)
Agreement == ~contentLost =>
               \A p, q \in Process : reported[p] \in Id /\ reported[q] \in Id
                                       => reported[p] = reported[q]

(* A kill that the function does not survive as if it had returned: where a
   read would have reported the same again, the two are one step. *)
Killed(p) == Kill(p) /\ ~Proceed(p)

(* identity.py:28: "Return the persistent device UUID, creating it atomically
   once."  If the kills come to an end, a process that goes on calling ends up
   reporting the identifier in every status (core.py:43-53): no kill leaves a
   creation half done for ever. *)
EventuallyAvailable ==
  <>[][~\E p \in Process : Killed(p)]_vars =>
    \A p \in Process : []<>(pc[p] = "read") => <>[](reported[p] \in Id)

Identity == INSTANCE DeviceIdentity
              WITH chosen <- IF file \in Id THEN file ELSE Unavailable,
                   durable <- synced

(* The file implements the identifier of DeviceIdentity under every fault:
   chosen once, never changed, and lost at most before it is durable. *)
WriteOnce == Identity!Spec
=============================================================================
