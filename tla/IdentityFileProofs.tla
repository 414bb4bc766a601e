------------------------ MODULE IdentityFileProofs -------------------------
(***************************************************************************)
(* Proofs about IdentityFile for any number of processes, any set of UUIDs *)
(* and any set of faults.                                                  *)
(***************************************************************************)
EXTENDS IdentityFile, TLAPS

IInv == TypeOK /\ SoleCreator /\ SyncedIsFinal

(* The invariant holds initially. *)
LEMMA InitIInv == Init => IInv
  BY IdentityAssumption DEF Init, IInv, TypeOK, SoleCreator, SyncedIsFinal, Creating

(* Every step keeps the invariant, one step of the proof for each action. *)
LEMMA NextIInv == IInv /\ [Next]_vars => IInv'
<1> SUFFICES ASSUME IInv, [Next]_vars PROVE IInv'
  OBVIOUS
<1> USE IdentityAssumption DEF IInv, TypeOK, SoleCreator, SyncedIsFinal, Creating
<1>1. CASE UNCHANGED vars
  BY <1>1 DEF vars
<1>2. CASE PowerLoss
  BY <1>2 DEF PowerLoss
<1>3. ASSUME NEW p \in Process, Call(p) PROVE IInv'
  BY <1>3 DEF Call, Goto
<1>4. ASSUME NEW p \in Process, Read(p) \/ Reread(p) PROVE IInv'
  BY <1>4 DEF Read, Reread, ReadDeviceId, Finish, Goto
<1>5. ASSUME NEW p \in Process, ReadMissing(p) PROVE IInv'
  BY <1>5 DEF ReadMissing, Goto
<1>6. ASSUME NEW p \in Process, Create(p) PROVE IInv'
  <2>1. \A q \in Process : pc[q] \notin Creating
    BY <1>6 DEF Create
  <2>2. ~synced
    BY <1>6 DEF Create
  <2> QED
    BY <1>6, <2>1, <2>2 DEF Create, Goto
<1>7. ASSUME NEW p \in Process, CreateExists(p) PROVE IInv'
  BY <1>7 DEF CreateExists, Goto
<1>8. ASSUME NEW p \in Process, RereadMissing(p) PROVE IInv'
  BY <1>8 DEF RereadMissing, Finish, Goto
<1>9. ASSUME NEW p \in Process, Write(p) PROVE IInv'
  BY <1>9 DEF Write, Goto
<1>10. ASSUME NEW p \in Process, Fsync(p) PROVE IInv'
  BY <1>10 DEF Fsync, Finish, Goto
<1>11. ASSUME NEW p \in Process, Unlink(p) PROVE IInv'
  BY <1>11 DEF Unlink, Finish, Goto
<1>12. ASSUME NEW p \in Process, Denied(p) PROVE IInv'
  BY <1>12 DEF Denied, Finish, Goto
<1>13. ASSUME NEW p \in Process, WriteError(p) PROVE IInv'
  BY <1>13 DEF WriteError, Goto
<1>14. ASSUME NEW p \in Process, FsyncError(p) PROVE IInv'
  BY <1>14 DEF FsyncError, Goto
<1>15. ASSUME NEW p \in Process, UnlinkError(p) PROVE IInv'
  BY <1>15 DEF UnlinkError, Finish, Goto
<1>16. ASSUME NEW p \in Process, Kill(p) PROVE IInv'
  BY <1>16 DEF Kill
<1> QED
  BY <1>1, <1>2, <1>3, <1>4, <1>5, <1>6, <1>7, <1>8, <1>9, <1>10, <1>11, <1>12,
     <1>13, <1>14, <1>15, <1>16 DEF Next, Proceed, Fault

(* The types, the exclusivity of creation and the finality of a synced
   identifier hold in every reachable state, whatever the faults. *)
THEOREM IdentityInvariant == Spec => [](TypeOK /\ SoleCreator /\ SyncedIsFinal)
<1>1. Init => IInv
  BY InitIInv
<1>2. IInv /\ [Next]_vars => IInv'
  BY NextIInv
<1>3. IInv => TypeOK /\ SoleCreator /\ SyncedIsFinal
  BY DEF IInv
<1> QED
  BY <1>1, <1>2, <1>3, PTL DEF Spec

(* Once fsync has returned, no later step of any process, no fault and no
   power loss changes or removes the identifier (identity.py:38-54). *)
THEOREM SyncedIdStays == Spec => SyncedIdNeverChanges
<1>1. IInv /\ [Next]_vars => [synced => synced' /\ file' = file]_vars
  <2> SUFFICES ASSUME IInv, Next, synced PROVE synced' /\ file' = file
    BY DEF vars
  <2>1. file \in Id /\ \A p \in Process : pc[p] \notin Creating
    BY DEF IInv, SyncedIsFinal
  <2>2. CASE PowerLoss
    BY <2>2 DEF PowerLoss
  <2>3. ASSUME NEW p \in Process, Call(p) \/ Proceed(p) \/ Fault(p)
        PROVE  synced' /\ file' = file
    BY <2>1, <2>3, IdentityAssumption
       DEF Creating, Proceed, Fault, Call, Read, ReadMissing, Create, CreateExists,
           Reread, RereadMissing, ReadDeviceId, Write, Fsync, Unlink, Denied,
           WriteError, FsyncError, UnlinkError, Kill, Finish, Goto
  <2> QED
    BY <2>2, <2>3 DEF Next
<1>2. Init => IInv
  BY InitIInv
<1>3. IInv /\ [Next]_vars => IInv'
  BY NextIInv
<1> QED
  BY <1>1, <1>2, <1>3, PTL DEF Spec, SyncedIdNeverChanges

-----------------------------------------------------------------------------
(* Until content is lost, what a process last reported is still in the file,
   and a file about to be unlinked never held an identifier. *)
ReportedIsFile ==
  ~contentLost => /\ \A p \in Process : reported[p] \in Id => reported[p] = file
                  /\ \A p \in Process : pc[p] = "unlink" => file = Blank

(* A step of the file is a step of the abstract identifier or a stutter. *)
LEMMA StepRefines == IInv /\ [Next]_vars => [Identity!Next]_(Identity!idVars)
<1> SUFFICES ASSUME IInv, [Next]_vars
             PROVE  Identity!Next \/ UNCHANGED Identity!idVars
  OBVIOUS
<1> USE IdentityAssumption DEF IInv, TypeOK, SoleCreator, SyncedIsFinal, Creating,
        Identity!Next, Identity!idVars, Identity!Choose, Identity!Report,
        Identity!Secure, Identity!Fail, Identity!Withdraw, Identity!Lose
<1>1. CASE UNCHANGED vars
  BY <1>1 DEF vars
<1>2. CASE PowerLoss
  BY <1>2 DEF PowerLoss
<1>3. ASSUME NEW p \in Process, Call(p) \/ ReadMissing(p) \/ Create(p) \/ CreateExists(p)
                                \/ WriteError(p) \/ FsyncError(p) \/ Kill(p)
      PROVE  UNCHANGED Identity!idVars
  BY <1>3 DEF Call, ReadMissing, Create, CreateExists, WriteError, FsyncError, Kill, Goto
<1>4. ASSUME NEW p \in Process, Read(p) \/ Reread(p)
      PROVE  Identity!Report(p) \/ Identity!Fail(p)
  BY <1>4 DEF Read, Reread, ReadDeviceId, Finish, Goto
<1>5. ASSUME NEW p \in Process, RereadMissing(p) \/ Denied(p) \/ UnlinkError(p)
      PROVE  Identity!Fail(p)
  BY <1>5 DEF RereadMissing, Denied, UnlinkError, Finish, Goto
<1>6. ASSUME NEW p \in Process, Write(p) PROVE Identity!Choose
  BY <1>6 DEF Write, Goto
<1>7. ASSUME NEW p \in Process, Fsync(p) PROVE Identity!Secure(p)
  BY <1>7 DEF Fsync, Finish, Goto
<1>8. ASSUME NEW p \in Process, Unlink(p) PROVE Identity!Withdraw(p)
  BY <1>8 DEF Unlink, Finish, Goto
<1> QED
  BY <1>1, <1>2, <1>3, <1>4, <1>5, <1>6, <1>7, <1>8 DEF Next, Proceed, Fault

(* The file protocol implements the abstract identifier under every set of
   faults: chosen by the write, durable with the fsync, withdrawn or lost at
   most in between. *)
THEOREM FileIsWriteOnce == Spec => WriteOnce
<1>1. Init => Identity!Init
  BY IdentityAssumption DEF Init, Identity!Init
<1>2. IInv /\ [Next]_vars => [Identity!Next]_(Identity!idVars)
  BY StepRefines
<1>3. Init => IInv
  BY InitIInv
<1>4. IInv /\ [Next]_vars => IInv'
  BY NextIInv
<1> QED
  BY <1>1, <1>2, <1>3, <1>4, PTL DEF Spec, WriteOnce, Identity!Spec

(* Every step keeps ReportedIsFile, one step of the proof for each action. *)
LEMMA NextReported == IInv /\ ReportedIsFile /\ [Next]_vars => ReportedIsFile'
<1> SUFFICES ASSUME IInv, ReportedIsFile, [Next]_vars, ~contentLost'
             PROVE  /\ \A q \in Process : reported'[q] \in Id => reported'[q] = file'
                    /\ \A q \in Process : pc'[q] = "unlink" => file' = Blank
  BY DEF ReportedIsFile
<1> USE IdentityAssumption DEF IInv, TypeOK, SoleCreator, SyncedIsFinal, Creating,
        ReportedIsFile
<1>1. CASE UNCHANGED vars
  BY <1>1 DEF vars
<1>2. CASE PowerLoss
  BY <1>2 DEF PowerLoss
<1>3. ASSUME NEW p \in Process, Call(p) \/ ReadMissing(p) \/ Create(p) \/ CreateExists(p)
                                \/ WriteError(p) \/ FsyncError(p) \/ Kill(p)
      PROVE  ReportedIsFile'
  BY <1>3 DEF Call, ReadMissing, Create, CreateExists, WriteError, FsyncError, Kill, Goto
<1>4. ASSUME NEW p \in Process, Read(p) \/ Reread(p) \/ RereadMissing(p) \/ Denied(p)
                                \/ UnlinkError(p)
      PROVE  ReportedIsFile'
  BY <1>4 DEF Read, Reread, ReadDeviceId, RereadMissing, Denied, UnlinkError, Finish, Goto
<1>5. ASSUME NEW p \in Process, Write(p) PROVE ReportedIsFile'
  BY <1>5 DEF Write, Goto
<1>6. ASSUME NEW p \in Process, Fsync(p) PROVE ReportedIsFile'
  BY <1>6 DEF Fsync, Finish, Goto
<1>7. ASSUME NEW p \in Process, Unlink(p) PROVE ReportedIsFile'
  BY <1>7 DEF Unlink, Finish, Goto
<1> QED
  BY <1>1, <1>2, <1>3, <1>4, <1>5, <1>6, <1>7 DEF Next, Proceed, Fault

(* Unless content is lost, any two processes that report an identifier
   report the same one, however their calls interleave (identity.py:33-54). *)
THEOREM ProcessesAgree == Spec => []Agreement
<1>1. Init => IInv /\ ReportedIsFile
  BY InitIInv, IdentityAssumption DEF Init, ReportedIsFile
<1>2. IInv /\ ReportedIsFile /\ [Next]_vars => (IInv /\ ReportedIsFile)'
  BY NextIInv, NextReported
<1>3. ReportedIsFile => Agreement
  BY DEF ReportedIsFile, Agreement
<1> QED
  BY <1>1, <1>2, <1>3, PTL DEF Spec
=============================================================================
