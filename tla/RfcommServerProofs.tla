------------------------- MODULE RfcommServerProofs -------------------------
(***************************************************************************)
(* The connection table of the RFCOMM server, its registrations and the    *)
(* selector, for any number of devices, connections and descriptors.       *)
(***************************************************************************)
EXTENDS RfcommServer, FiniteSetTheorems, SequenceTheorems, TLAPS

-----------------------------------------------------------------------------
(* The queue of callbacks. *)
NoDone(q) == \A i \in DOMAIN q : q[i].cb # "done"

LEMMA CancelCallsFinite ==
  ASSUME NEW S \in SUBSET Conn
  PROVE  IsFiniteSet(CancelCalls(S))
<1> DEFINE Calls == {"step", "unwatch"} \X Conn
           All == {Call(p[1], p[2]) : p \in Calls}
           f == [p \in Calls |-> Call(p[1], p[2])]
<1>1. IsFiniteSet({"step", "unwatch"})
  <2>1. IsFiniteSet({"step"}) /\ IsFiniteSet({"unwatch"}) BY FS_Singleton
  <2>2. IsFiniteSet({"step"} \cup {"unwatch"}) BY <2>1, FS_Union
  <2>3. {"step", "unwatch"} = {"step"} \cup {"unwatch"} OBVIOUS
  <2> QED BY <2>2, <2>3
<1>2. IsFiniteSet(Calls) BY <1>1, FS_Product, ServerAssumption
<1>3. f \in Surjection(Calls, All) BY DEF Surjection
<1>4. IsFiniteSet(All) BY <1>2, <1>3, FS_Surjection
<1>5. CancelCalls(S) \subseteq All
  <2> SUFFICES ASSUME NEW k \in {"step", "unwatch"}, NEW c \in S PROVE Call(k, c) \in All
    BY DEF CancelCalls
  <2>1. <<k, c>> \in Calls OBVIOUS
  <2> QED BY <2>1
<1> QED BY <1>4, <1>5, FS_Subset

(* What task.cancel() schedules is a finite queue, without done callbacks. *)
LEMMA CancelSchedules ==
  ASSUME NEW S \in SUBSET Conn, NEW q \in Orders(CancelCalls(S))
  PROVE  q \in Seq(Callback) /\ NoDone(q)
<1>1. Cardinality(CancelCalls(S)) \in Nat BY CancelCallsFinite, FS_CardinalityType
<1>2. q \in [1..Cardinality(CancelCalls(S)) -> CancelCalls(S)] BY DEF Orders, SetToSeqs
<1>3. CancelCalls(S) \subseteq {x \in Callback : x.cb # "done"}
  BY DEF CancelCalls, Call, Callback
<1> QED BY <1>1, <1>2, <1>3 DEF NoDone

(* A done callback is queued only for a task that has ended. *)
DoneIsDone == \A i \in DOMAIN ready : ready[i].cb = "done" => task[ready[i].conn] = "done"

LEMMA QueueGrows ==
  ASSUME ready \in Seq(Callback), DoneIsDone,
         NEW q \in Seq(Callback), NoDone(q), ready' = ready \o q,
         \A c \in Conn : task[c] = "done" => task'[c] = "done"
  PROVE  /\ ready' \in Seq(Callback) /\ DoneIsDone'
         /\ \A c \in Conn : Scheduled("done", c) => Scheduled("done", c)'
<1>1. ready' \in Seq(Callback) OBVIOUS
<1>2. ASSUME NEW i \in DOMAIN ready', ready'[i].cb = "done"
      PROVE  task'[ready'[i].conn] = "done"
  <2>1. CASE i <= Len(ready)
    <3>1. i \in DOMAIN ready /\ ready'[i] = ready[i] BY <2>1
    <3>2. ready[i] \in Callback BY <3>1
    <3> QED BY <1>2, <3>1, <3>2 DEF DoneIsDone, Callback
  <2>2. CASE i > Len(ready)
    <3>1. i - Len(ready) \in DOMAIN q /\ ready'[i] = q[i - Len(ready)] BY <2>2
    <3> QED BY <1>2, <3>1 DEF NoDone
  <2> QED BY <2>1, <2>2
<1>3. ASSUME NEW c \in Conn, NEW i \in DOMAIN ready, ready[i] = Call("done", c)
      PROVE  i \in DOMAIN ready' /\ ready'[i] = Call("done", c)
  BY <1>3
<1> QED BY <1>1, <1>2, <1>3 DEF Scheduled, DoneIsDone

LEMMA QueuePops ==
  ASSUME ready \in Seq(Callback), DoneIsDone, ready # <<>>, ready' = Tail(ready),
         \A c \in Conn : task[c] = "done" => task'[c] = "done"
  PROVE  /\ ready' \in Seq(Callback) /\ DoneIsDone'
         /\ \A c \in Conn : Scheduled("done", c) /\ ready[1] # Call("done", c)
                              => Scheduled("done", c)'
<1>1. ready' \in Seq(Callback) OBVIOUS
<1>2. ASSUME NEW i \in DOMAIN ready', ready'[i].cb = "done"
      PROVE  task'[ready'[i].conn] = "done"
  <2>1. i + 1 \in DOMAIN ready /\ ready'[i] = ready[i + 1] OBVIOUS
  <2>2. ready[i + 1] \in Callback BY <2>1
  <2> QED BY <1>2, <2>1, <2>2 DEF DoneIsDone, Callback
<1>3. ASSUME NEW c \in Conn, NEW i \in DOMAIN ready, ready[i] = Call("done", c),
             ready[1] # Call("done", c)
      PROVE  i - 1 \in DOMAIN ready' /\ ready'[i - 1] = Call("done", c)
  BY <1>3
<1> QED BY <1>1, <1>2, <1>3 DEF Scheduled, DoneIsDone

-----------------------------------------------------------------------------
(* The invariant.  TypeOK in two halves, for the steps that leave one alone. *)
ConnTyped ==
  /\ connections \in [Device -> Conn \cup {None}]
  /\ device \in [Conn -> Device \cup {None}]
  /\ fd \in [Conn -> Fd \cup {None}]
  /\ sock \in [Conn -> {"none", "open", "closed"}]
  /\ task \in [Conn -> {"none", "created", "done"} \cup Suspended]
  /\ cancelling \in [Conn -> BOOLEAN]
  /\ watch \in [Fd -> Conn \cup {None}]
  /\ ready \in Seq(Callback)

MainTyped ==
  /\ main \in Starting \cup {"ready"} \cup Stopping \cup {"stopped"} \cup Ended
  /\ reply \in {"none", "ok", "error"}
  /\ profileFlag \in BOOLEAN /\ agentFlag \in BOOLEAN /\ released \in BOOLEAN
  /\ bus \in BOOLEAN /\ bluezProfile \in BOOLEAN /\ bluezAgent \in BOOLEAN
  /\ interrupted \in BOOLEAN

(* A connection gets its device, its descriptor, its socket and its task at
   once, and is entered for its own device only. *)
Accepted ==
  /\ \A c \in Conn : /\ sock[c] = "none" <=> task[c] = "none"
                     /\ sock[c] = "none" => ~cancelling[c]
                     /\ sock[c] # "none" => device[c] \in Device /\ fd[c] \in Fd
  /\ \A d \in Device : connections[d] # None =>
        device[connections[d]] = d /\ sock[connections[d]] # "none"

(* Until the loop is torn down, a task that has ended or was cancelled has no
   open socket. *)
OverIsClosed ==
  main \notin Ended =>
    \A c \in Conn : task[c] = "done" \/ cancelling[c] => sock[c] # "open"

Table == DoneIsDone /\ Accepted /\ OverIsClosed /\ EntriesAreLive /\ NoOrphans

IInv == ConnTyped /\ MainTyped /\ Table

LEMMA Halves == TypeOK <=> ConnTyped /\ MainTyped
BY DEF TypeOK, ConnTyped, MainTyped

LEMMA Initially == ASSUME Init PROVE IInv
<1>1. ConnTyped BY DEF Init, ConnTyped
<1>2. MainTyped BY DEF Init, MainTyped, Starting
<1>3. DoneIsDone BY DEF Init, DoneIsDone
<1>4. Accepted /\ OverIsClosed BY DEF Init, Accepted, OverIsClosed
<1>5. EntriesAreLive /\ NoOrphans BY DEF Init, EntriesAreLive, NoOrphans
<1> QED BY <1>1, <1>2, <1>3, <1>4, <1>5 DEF IInv, Table

(* A step of the main task or of BlueZ that leaves the connections alone. *)
LEMMA MainKeeps ==
  ASSUME IInv, UNCHANGED connVars, MainTyped', main \in Ended => main' \in Ended
  PROVE  IInv'
BY DEF IInv, connVars, ConnTyped, Table, DoneIsDone, Accepted, OverIsClosed, EntriesAreLive,
   NoOrphans, Scheduled

(* The table after Disconnect(S): the entries of S leave it with their sockets
   closed. *)
LEMMA DisconnectKeeps ==
  ASSUME IInv, MainTyped', main \in Ended => main' \in Ended,
         NEW S \in SUBSET Conn, Disconnect(S, <<>>), UNCHANGED <<device, fd, task, watch>>,
         connections' = [d \in Device |-> IF connections[d] \in S THEN None ELSE connections[d]],
         \A c \in S : sock[c] # "none"
  PROVE  IInv'
<1>1. PICK q \in Orders(CancelCalls(S)) : ready' = ready \o q
  <2>1. PICK q \in Orders(CancelCalls(S)) : ready' = ready \o q \o <<>> BY DEF Disconnect
  <2>2. q \in Seq(Callback) BY CancelSchedules
  <2>3. ready \o q \o <<>> = ready \o q BY <2>2 DEF IInv, ConnTyped
  <2> QED BY <2>1, <2>3
<1>2. q \in Seq(Callback) /\ NoDone(q) BY CancelSchedules
<1>3. /\ ready' \in Seq(Callback) /\ DoneIsDone'
      /\ \A c \in Conn : Scheduled("done", c) => Scheduled("done", c)'
  BY <1>1, <1>2, QueueGrows DEF IInv, ConnTyped, Table
<1>4. /\ sock' = [c \in Conn |-> IF c \in S THEN "closed" ELSE sock[c]]
      /\ cancelling' = [c \in Conn |-> cancelling[c] \/ (c \in S /\ task[c] # "done")]
  BY DEF Disconnect, Close, Cancel
<1>5. ConnTyped' BY <1>3, <1>4 DEF IInv, ConnTyped
<1>6. Accepted' BY <1>4, ServerAssumption DEF IInv, ConnTyped, Table, Accepted
<1>7. OverIsClosed' BY <1>4 DEF IInv, ConnTyped, Table, OverIsClosed
<1>8. EntriesAreLive'
  BY <1>3, <1>4, ServerAssumption DEF IInv, ConnTyped, Table, EntriesAreLive
<1>9. NoOrphans'
  BY <1>4, ServerAssumption DEF IInv, ConnTyped, Table, NoOrphans, Accepted
<1> QED BY <1>3, <1>5, <1>6, <1>7, <1>8, <1>9 DEF IInv, Table

-----------------------------------------------------------------------------
(* The D-Bus methods. *)
LEMMA EntriesAreConnections ==
  ASSUME IInv, NEW d \in Device
  PROVE  /\ EntryOf(d) \in SUBSET Conn
         /\ \A c \in EntryOf(d) : c = connections[d] /\ sock[c] # "none" /\ device[c] = d
BY DEF IInv, ConnTyped, Table, Accepted, EntryOf

LEMMA DropEntryKeeps ==
  ASSUME IInv, NEW d \in Device, DropEntry(d)
  PROVE  IInv'
<1>1. connections' = [e \in Device |->
                        IF connections[e] \in EntryOf(d) THEN None ELSE connections[e]]
  <2>1. connections[d] \in EntryOf(d) \/ connections[d] = None BY DEF EntryOf
  <2>2. \A e \in Device : e # d => connections[e] \notin EntryOf(d)
    BY EntriesAreConnections DEF EntryOf, IInv, Table, Accepted
  <2>3. connections' = [connections EXCEPT ![d] = None] BY DEF DropEntry
  <2>4. connections \in [Device -> Conn \cup {None}] BY DEF IInv, ConnTyped
  <2> QED BY <2>1, <2>2, <2>3, <2>4
<1>2. MainTyped' /\ main' = main BY DEF DropEntry, mainVars, bluezVars, IInv, MainTyped
<1>3. Disconnect(EntryOf(d), <<>>) /\ UNCHANGED <<device, fd, task, watch>> BY DEF DropEntry
<1>4. EntryOf(d) \in SUBSET Conn /\ \A c \in EntryOf(d) : sock[c] # "none"
  BY EntriesAreConnections
<1> DEFINE S == EntryOf(d)
<1> HIDE DEF S
<1>5. /\ S \in SUBSET Conn /\ \A c \in S : sock[c] # "none"
      /\ Disconnect(S, <<>>)
      /\ connections' = [e \in Device |-> IF connections[e] \in S THEN None ELSE connections[e]]
  BY <1>1, <1>3, <1>4 DEF S
<1> QED BY <1>2, <1>3, <1>5, DisconnectKeeps

LEMMA NewConnectionKeeps ==
  ASSUME IInv, NEW d \in Device, NEW c \in Conn, NEW f \in Fd, NewConnection(d, c, f)
  PROVE  IInv'
<1> DEFINE S == EntryOf(d)
<1>1. S \in SUBSET Conn /\ \A x \in S : x = connections[d] /\ x # c /\ device[x] = d
  BY EntriesAreConnections DEF NewConnection
<1>2. PICK q \in Orders(CancelCalls(S)) : ready' = ready \o q \o <<Call("step", c)>>
  BY DEF NewConnection
<1>3. q \in Seq(Callback) /\ NoDone(q) BY <1>1, CancelSchedules
<1> DEFINE r == q \o <<Call("step", c)>>
<1>4. Call("step", c) \in Callback BY DEF Call, Callback
<1>5. r \in Seq(Callback) /\ NoDone(r) BY <1>3, <1>4 DEF NoDone, Call
<1>6. ready' = ready \o r BY <1>2, <1>3, <1>4 DEF IInv, ConnTyped
<1>7. task[c] = "none" BY DEF NewConnection, IInv, Table, Accepted
<1>8. /\ task' = [task EXCEPT ![c] = "created"]
      /\ sock' = [x \in Conn |-> IF x = c THEN "open"
                                 ELSE IF x \in S THEN "closed" ELSE sock[x]]
      /\ cancelling' = [x \in Conn |-> cancelling[x] \/ (x \in S /\ task[x] # "done")]
      /\ connections' = [connections EXCEPT ![d] = c]
      /\ device' = [device EXCEPT ![c] = d]
      /\ fd' = [fd EXCEPT ![c] = f]
      /\ watch' = watch /\ main' = main
      /\ sock[c] = "none"
  BY DEF NewConnection, Cancel, mainVars
<1>9. \A x \in Conn : task[x] = "done" => task'[x] = "done"
  BY <1>7, <1>8 DEF IInv, ConnTyped
<1>10. /\ ready' \in Seq(Callback) /\ DoneIsDone'
       /\ \A x \in Conn : Scheduled("done", x) => Scheduled("done", x)'
  BY <1>5, <1>6, <1>9, QueueGrows DEF IInv, ConnTyped, Table
<1>11. ConnTyped' BY <1>8, <1>10 DEF IInv, ConnTyped
<1>12. MainTyped' BY DEF NewConnection, mainVars, bluezVars, IInv, MainTyped
<1>13. Accepted'
  BY <1>1, <1>7, <1>8, ServerAssumption DEF IInv, ConnTyped, Table, Accepted
<1>14. OverIsClosed'
  BY <1>1, <1>7, <1>8 DEF IInv, ConnTyped, Table, Accepted, OverIsClosed
<1>15. EntriesAreLive'
  <2> SUFFICES ASSUME main \notin Ended, NEW e \in Device, NEW x \in Conn, connections'[e] = x
               PROVE  /\ device'[x] = e /\ ~cancelling'[x]
                      /\ IF task'[x] = "done" THEN Scheduled("done", x)' ELSE sock'[x] = "open"
    BY <1>8, <1>11 DEF EntriesAreLive, ConnTyped
  <2>1. CASE e = d
    <3>1. x = c BY <2>1, <1>8 DEF IInv, ConnTyped
    <3>2. ~cancelling[c] BY <1>8 DEF IInv, Table, Accepted
    <3> QED BY <2>1, <3>1, <3>2, <1>1, <1>8 DEF IInv, ConnTyped
  <2>2. CASE e # d
    <3>1. connections[e] = x BY <2>2, <1>8 DEF IInv, ConnTyped
    <3>2. /\ device[x] = e /\ ~cancelling[x]
          /\ IF task[x] = "done" THEN Scheduled("done", x) ELSE sock[x] = "open"
      BY <3>1, ServerAssumption DEF IInv, Table, EntriesAreLive
    <3>3. x # c /\ x \notin S
      BY <2>2, <3>1, <3>2, <1>1, <1>8, ServerAssumption DEF IInv, Table, Accepted
    <3> QED BY <3>2, <3>3, <1>8, <1>10 DEF IInv, ConnTyped
  <2> QED BY <2>1, <2>2
<1>16. NoOrphans'
  <2> SUFFICES ASSUME main \notin Ended, NEW x \in Conn, sock'[x] = "open"
               PROVE  connections'[device'[x]] = x
    BY <1>8 DEF NoOrphans
  <2>1. CASE x = c BY <2>1, <1>8 DEF IInv, ConnTyped
  <2>2. CASE x # c
    <3>1. sock[x] = "open" /\ x \notin S BY <2>2, <1>8 DEF IInv, ConnTyped
    <3>2. device[x] \in Device /\ connections[device[x]] = x
      BY <3>1 DEF IInv, Table, Accepted, NoOrphans
    <3>3. device[x] # d BY <3>1, <3>2, ServerAssumption DEF EntryOf
    <3> QED BY <2>2, <3>2, <3>3, <1>8 DEF IInv, ConnTyped
  <2> QED BY <2>1, <2>2
<1> QED BY <1>10, <1>11, <1>12, <1>13, <1>14, <1>15, <1>16 DEF IInv, Table

(* stop(): every entry goes. *)
LEMMA StopKeeps ==
  ASSUME IInv, MainTyped', main \notin Ended, NEW profile, NEW agent, Stop(profile, agent)
  PROVE  IInv'
<1> DEFINE S == {connections[d] : d \in Device} \ {None}
<1>1. S \in SUBSET Conn /\ \A c \in S : sock[c] # "none"
  BY DEF IInv, ConnTyped, Table, Accepted
<1>2. connections' = [d \in Device |-> IF connections[d] \in S THEN None ELSE connections[d]]
  BY DEF Stop, IInv, ConnTyped
<1>3. Disconnect(S, <<>>) /\ UNCHANGED <<device, fd, task, watch>> BY DEF Stop
<1> HIDE DEF S
<1> QED BY <1>1, <1>2, <1>3, DisconnectKeeps

-----------------------------------------------------------------------------
(* Steps of the loop that only append to the queue. *)
LEMMA EventKeeps ==
  ASSUME IInv, NEW c \in Conn, Arrive(c) \/ WorkDone(c)
  PROVE  IInv'
<1>1. PICK q \in Seq(Callback) : NoDone(q) /\ ready' = ready \o q
  <2>1. Call("step", c) \in Callback /\ Call("unwatch", c) \in Callback BY DEF Call, Callback
  <2>2. CASE Arrive(c)
    <3>1. ready' = ready \o <<Call("unwatch", c), Call("step", c)>> BY <2>2 DEF Arrive
    <3>2. <<Call("unwatch", c), Call("step", c)>> \in Seq(Callback) BY <2>1
    <3>3. NoDone(<<Call("unwatch", c), Call("step", c)>>) BY DEF NoDone, Call
    <3> QED BY <3>1, <3>2, <3>3
  <2>3. CASE WorkDone(c)
    <3>1. ready' = ready \o <<Call("step", c)>> BY <2>1, <2>3 DEF WorkDone, IInv, ConnTyped
    <3>2. <<Call("step", c)>> \in Seq(Callback) /\ NoDone(<<Call("step", c)>>)
      BY <2>1 DEF NoDone, Call
    <3> QED BY <3>1, <3>2
  <2> QED BY <2>2, <2>3
<1>2. UNCHANGED <<connections, device, fd, sock, task, cancelling, watch, mainVars, released,
                  bluezVars>>
  BY DEF Arrive, WorkDone
<1>3. /\ ready' \in Seq(Callback) /\ DoneIsDone'
      /\ \A x \in Conn : Scheduled("done", x) => Scheduled("done", x)'
  BY <1>1, <1>2, QueueGrows DEF IInv, ConnTyped, Table
<1>4. ConnTyped' /\ MainTyped'
  BY <1>2, <1>3 DEF IInv, ConnTyped, MainTyped, mainVars, bluezVars
<1>5. Accepted' /\ OverIsClosed' /\ NoOrphans'
  BY <1>2 DEF IInv, Table, Accepted, OverIsClosed, NoOrphans, mainVars
<1>6. EntriesAreLive'
  BY <1>2, <1>3, ServerAssumption DEF IInv, ConnTyped, Table, EntriesAreLive, mainVars
<1> QED BY <1>3, <1>4, <1>5, <1>6 DEF IInv, Table

(* _serve_connection reaches its next suspension; a sock_* future is unwatched. *)
LEMMA SuspendKeeps ==
  ASSUME IInv, NEW c \in Conn, Unwatch(c) \/ \E where \in Suspended : Suspend(c, where)
  PROVE  IInv'
<1>1. /\ ready # <<>> /\ ready' = Tail(ready) /\ ready[1].cb # "done"
      /\ UNCHANGED <<connections, device, fd, sock, cancelling, mainVars, released, bluezVars>>
  BY DEF Unwatch, Suspend, AtHead, Call
<1>2. \/ task' = task
      \/ task[c] # "done" /\ \E where \in Suspended : task' = [task EXCEPT ![c] = where]
  BY DEF Unwatch, Suspend, Suspended
<1>3. /\ task' \in [Conn -> {"none", "created", "done"} \cup Suspended]
      /\ \A x \in Conn : task[x] = "done" <=> task'[x] = "done"
      /\ \A x \in Conn : task[x] = "none" <=> task'[x] = "none"
  <2>1. task \in [Conn -> {"none", "created", "done"} \cup Suspended] BY DEF IInv, ConnTyped
  <2>2. task' = task \/ task[c] # "none" BY DEF Unwatch, Suspend, Suspended
  <2> QED BY <1>2, <2>1, <2>2 DEF Suspended
<1>4. /\ ready' \in Seq(Callback) /\ DoneIsDone'
      /\ \A x \in Conn : Scheduled("done", x) => Scheduled("done", x)'
  <2>1. \A x \in Conn : ready[1] # Call("done", x) BY <1>1 DEF Call
  <2>2. ready \in Seq(Callback) /\ DoneIsDone BY DEF IInv, ConnTyped, Table
  <2>3. /\ ready' \in Seq(Callback) /\ DoneIsDone'
        /\ \A x \in Conn : Scheduled("done", x) /\ ready[1] # Call("done", x)
                             => Scheduled("done", x)'
    BY <1>1, <1>3, <2>2, QueuePops
  <2> QED BY <2>1, <2>3
<1>5. watch' \in [Fd -> Conn \cup {None}]
  BY DEF Unwatch, Suspend, Watch, IInv, ConnTyped
<1>6. ConnTyped' /\ MainTyped'
  BY <1>1, <1>3, <1>4, <1>5 DEF IInv, ConnTyped, MainTyped, mainVars, bluezVars
<1>7. Accepted' /\ OverIsClosed' /\ NoOrphans'
  BY <1>1, <1>3 DEF IInv, ConnTyped, Table, Accepted, OverIsClosed, NoOrphans, mainVars
<1>8. EntriesAreLive'
  BY <1>1, <1>3, <1>4, ServerAssumption DEF IInv, ConnTyped, Table, EntriesAreLive, mainVars
<1> QED BY <1>4, <1>6, <1>7, <1>8 DEF IInv, Table

(* A task ends; its done callback is queued. *)
LEMMA EndKeeps ==
  ASSUME IInv, NEW c \in Conn, Return(c) \/ RaiseCancelled(c)
  PROVE  IInv'
<1>1. /\ ready # <<>> /\ ready[1] = Call("step", c)
      /\ ready' = Append(Tail(ready), Call("done", c))
      /\ task[c] # "none" /\ task' = [task EXCEPT ![c] = "done"]
      /\ UNCHANGED <<connections, device, fd, cancelling, watch, mainVars, released, bluezVars>>
  BY DEF Return, RaiseCancelled, End, AtHead, Suspended
<1>2. \/ Return(c) /\ sock' = [x \in Conn |-> IF x = c THEN "closed" ELSE sock[x]]
      \/ cancelling[c] /\ sock' = [x \in Conn |-> IF x = c THEN "closed" ELSE sock[x]]
      \/ cancelling[c] /\ sock' = sock
  <2>1. sock = [x \in Conn |-> sock[x]] BY DEF IInv, ConnTyped
  <2> QED BY <2>1 DEF Return, RaiseCancelled, Close
<1>3. sock' \in [Conn -> {"none", "open", "closed"}]
      /\ \A x \in Conn : /\ x # c => sock'[x] = sock[x]
                         /\ sock'[x] = "open" => sock[x] = "open"
                         /\ sock'[x] = "none" <=> sock[x] = "none"
  BY <1>1, <1>2 DEF IInv, ConnTyped, Table, Accepted
<1>4. /\ ready' \in Seq(Callback) /\ DoneIsDone'
      /\ \A x \in Conn : Scheduled("done", x) => Scheduled("done", x)'
      /\ Scheduled("done", c)'
  <2>1. ready \in Seq(Callback) /\ Call("done", c) \in Callback
    BY DEF IInv, ConnTyped, Call, Callback
  <2>2. ready' \in Seq(Callback) BY <1>1, <2>1
  <2>3. ASSUME NEW i \in DOMAIN ready', ready'[i].cb = "done"
        PROVE  task'[ready'[i].conn] = "done"
    <3>1. CASE i = Len(ready')
      BY <3>1, <1>1, <2>1 DEF IInv, ConnTyped, Call
    <3>2. CASE i # Len(ready')
      <4>1. i + 1 \in DOMAIN ready /\ ready'[i] = ready[i + 1] BY <3>2, <1>1, <2>1
      <4>2. ready[i + 1] \in Callback BY <4>1, <2>1
      <4> QED BY <2>3, <4>1, <4>2, <1>1 DEF IInv, ConnTyped, Table, DoneIsDone, Callback
    <3> QED BY <3>1, <3>2
  <2>4. ASSUME NEW x \in Conn, NEW i \in DOMAIN ready, ready[i] = Call("done", x)
        PROVE  i - 1 \in DOMAIN ready' /\ ready'[i - 1] = Call("done", x)
    <3>1. i # 1 BY <2>4, <1>1 DEF Call
    <3> QED BY <3>1, <2>4, <1>1, <2>1
  <2>5. Len(ready') \in DOMAIN ready' /\ ready'[Len(ready')] = Call("done", c) BY <1>1, <2>1
  <2> QED BY <2>2, <2>3, <2>4, <2>5 DEF DoneIsDone, Scheduled
<1>5. ConnTyped' /\ MainTyped'
  BY <1>1, <1>3, <1>4 DEF IInv, ConnTyped, MainTyped, mainVars, bluezVars
<1>6. Accepted'
  BY <1>1, <1>3 DEF IInv, ConnTyped, Table, Accepted
<1>7. OverIsClosed' /\ NoOrphans'
  BY <1>1, <1>2, <1>3 DEF IInv, ConnTyped, Table, OverIsClosed, NoOrphans, mainVars
<1>8. EntriesAreLive'
  BY <1>1, <1>3, <1>4, ServerAssumption DEF IInv, ConnTyped, Table, EntriesAreLive, mainVars
<1> QED BY <1>4, <1>5, <1>6, <1>7, <1>8 DEF IInv, Table

(* _connection_done *)
LEMMA ConnectionDoneKeeps ==
  ASSUME IInv, NEW c \in Conn, ConnectionDone(c)
  PROVE  IInv'
<1>1. /\ ready # <<>> /\ ready' = Tail(ready) /\ ready[1] = Call("done", c)
      /\ connections' = IF connections[device[c]] = c
                          THEN [connections EXCEPT ![device[c]] = None] ELSE connections
      /\ UNCHANGED <<device, fd, sock, task, cancelling, watch, mainVars, released, bluezVars>>
  BY DEF ConnectionDone, AtHead
<1>2. task[c] = "done"
  <2>1. 1 \in DOMAIN ready BY <1>1 DEF IInv, ConnTyped
  <2> QED BY <2>1, <1>1 DEF IInv, Table, DoneIsDone, Call
<1>3. device[c] \in Device BY <1>2 DEF IInv, Table, Accepted
<1>4. /\ ready' \in Seq(Callback) /\ DoneIsDone'
      /\ \A x \in Conn : x # c /\ Scheduled("done", x) => Scheduled("done", x)'
  <2>1. \A x \in Conn : x # c => ready[1] # Call("done", x) BY <1>1 DEF Call
  <2>2. ready \in Seq(Callback) /\ DoneIsDone BY DEF IInv, ConnTyped, Table
  <2>3. /\ ready' \in Seq(Callback) /\ DoneIsDone'
        /\ \A x \in Conn : Scheduled("done", x) /\ ready[1] # Call("done", x)
                             => Scheduled("done", x)'
    BY <1>1, <2>2, QueuePops
  <2> QED BY <2>1, <2>3
<1>5. /\ connections' \in [Device -> Conn \cup {None}]
      /\ \A d \in Device : connections'[d] # None =>
            connections'[d] = connections[d] /\ connections[d] # c
      /\ \A d \in Device : connections[d] # c => connections'[d] = connections[d]
  <2>1. \A d \in Device : connections[d] = c => d = device[c]
    BY ServerAssumption DEF IInv, Table, Accepted
  <2> QED BY <2>1, <1>1, <1>3 DEF IInv, ConnTyped
<1>6. ConnTyped' /\ MainTyped'
  BY <1>1, <1>4, <1>5 DEF IInv, ConnTyped, MainTyped, mainVars, bluezVars
<1>7. Accepted' /\ OverIsClosed'
  BY <1>1, <1>5 DEF IInv, ConnTyped, Table, Accepted, OverIsClosed, mainVars
<1>8. NoOrphans'
  BY <1>1, <1>2, <1>5 DEF IInv, ConnTyped, Table, Accepted, OverIsClosed, NoOrphans, mainVars
<1>9. EntriesAreLive'
  BY <1>1, <1>4, <1>5, ServerAssumption DEF IInv, ConnTyped, Table, EntriesAreLive, mainVars
<1> QED BY <1>4, <1>6, <1>7, <1>8, <1>9 DEF IInv, Table

(* asyncio.run cancels what is left. *)
LEMMA TeardownKeeps ==
  ASSUME IInv, MainTyped', Teardown
  PROVE  IInv'
<1> DEFINE live == {c \in Conn : task[c] \notin {"none", "done"}}
<1>1. PICK q \in Orders(CancelCalls(live)) : ready' = ready \o q BY DEF Teardown
<1>2. q \in Seq(Callback) /\ NoDone(q) BY CancelSchedules
<1>3. /\ UNCHANGED <<connections, device, fd, sock, task, watch>>
      /\ cancelling' = [c \in Conn |-> cancelling[c] \/ (c \in live /\ task[c] # "done")]
      /\ main' \in Ended
  BY DEF Teardown, Cancel, Goto, Ended
<1>4. /\ ready' \in Seq(Callback) /\ DoneIsDone'
  BY <1>1, <1>2, <1>3, QueueGrows DEF IInv, ConnTyped, Table
<1>5. ConnTyped' /\ Accepted'
  BY <1>3, <1>4 DEF IInv, ConnTyped, Table, Accepted
<1>6. OverIsClosed' /\ EntriesAreLive' /\ NoOrphans'
  BY <1>3 DEF OverIsClosed, EntriesAreLive, NoOrphans
<1> QED BY <1>4, <1>5, <1>6 DEF IInv, Table

-----------------------------------------------------------------------------
(* Main and BlueZ: what these steps do to main and to the types. *)
LEMMA Inductive == ASSUME IInv, [Next]_vars PROVE IInv'
<1>1. CASE UNCHANGED vars
  BY <1>1, MainKeeps DEF vars, mainVars, bluezVars, IInv, MainTyped
<1>2. ASSUME RunReady PROVE IInv'
  BY <1>2, SuspendKeeps, EndKeeps, ConnectionDoneKeeps DEF RunReady
<1>3. ASSUME Profile1 PROVE IInv'
  <2>1. ASSUME Release PROVE IInv'
    BY <2>1, MainKeeps DEF Release, IInv, MainTyped
  <2>2. ASSUME NEW d \in Device, BadFd(d) \/ RequestDisconnection(d) PROVE IInv'
    BY <2>2, DropEntryKeeps DEF BadFd, RequestDisconnection
  <2> QED BY <1>3, <2>1, <2>2, NewConnectionKeeps DEF Profile1
<1>4. ASSUME Bluez PROVE IInv'
  <2>1. MainTyped' /\ main' = main /\ UNCHANGED connVars
    BY <1>4 DEF Bluez, BluezAccepts, BluezRejects, bluezVars, IInv, MainTyped
  <2> QED BY <2>1, MainKeeps
<1>5. ASSUME Boot \/ AgentRegistered \/ DefaultAgent \/ ProfileRegistered PROVE IInv'
  <2>1. UNCHANGED connVars /\ main \notin Ended
    BY <1>5 DEF Boot, AgentRegistered, DefaultAgent, ProfileRegistered, Started, Ended
  <2>2. MainTyped'
    BY <1>5 DEF Boot, AgentRegistered, DefaultAgent, ProfileRegistered, Started, Goto, bluezVars,
                Starting, IInv, MainTyped
  <2> QED BY <2>1, <2>2, MainKeeps
<1>6. ASSUME ProfileUnregistered \/ AgentUnregistered PROVE IInv'
  <2>1. UNCHANGED connVars /\ main \notin Ended
    BY <1>6 DEF ProfileUnregistered, AgentUnregistered, Ended
  <2>2. MainTyped'
    BY <1>6 DEF ProfileUnregistered, AgentUnregistered, StopWith, Goto, bluezVars,
                Stopping, IInv, MainTyped
  <2> QED BY <2>1, <2>2, MainKeeps
<1>7. ASSUME StartFails \/ StopReady \/ StopInterrupted PROVE IInv'
  <2>1. Stop(profileFlag, agentFlag) /\ main \notin Ended
    BY <1>7 DEF StartFails, StopReady, StopInterrupted, Starting, Ended
  <2>2. MainTyped'
    BY <1>7 DEF StartFails, StopReady, StopInterrupted, Stop, StopWith, Goto, bluezVars,
                Stopping, IInv, MainTyped
  <2> QED BY <2>1, <2>2, StopKeeps
<1>8. ASSUME RunEnds \/ Interrupt PROVE IInv'
  <2>1. Teardown BY <1>8 DEF RunEnds, Interrupt
  <2>2. MainTyped'
    BY <1>8 DEF RunEnds, Interrupt, Teardown, Goto, Ended, bluezVars, IInv, MainTyped
  <2> QED BY <2>1, <2>2, TeardownKeeps
<1>9. ASSUME Exit PROVE IInv'
  <2>1. UNCHANGED connVars /\ main' \in Ended BY <1>9 DEF Exit, Ended
  <2>2. MainTyped' BY <1>9 DEF Exit, Ended, bluezVars, IInv, MainTyped
  <2> QED BY <2>1, <2>2, MainKeeps
<1> QED
  BY <1>1, <1>2, <1>3, <1>4, <1>5, <1>6, <1>7, <1>8, <1>9, EventKeeps DEF Next, Main

LEMMA Invariance == Spec => []IInv
BY Initially, Inductive, PTL DEF Spec

-----------------------------------------------------------------------------
(* The variables stay in their ranges. *)
THEOREM TypeCorrect == Spec => []TypeOK
<1>1. IInv => TypeOK BY Halves DEF IInv
<1> QED BY <1>1, Invariance, PTL

(* rfcomm.py:290-300, 355-362.  The table never names a connection that is
   closed, cancelled or another device's. *)
THEOREM TableIsLive == Spec => []EntriesAreLive
<1>1. IInv => EntriesAreLive BY DEF IInv, Table
<1> QED BY <1>1, Invariance, PTL

(* rfcomm.py:282-300.  Every open socket can be reached through the table. *)
THEOREM NoSocketIsOrphaned == Spec => []NoOrphans
<1>1. IInv => NoOrphans BY DEF IInv, Table
<1> QED BY <1>1, Invariance, PTL

(* rfcomm.py:297-300.  The steps that take an entry out of the table, or put
   another one in its place, close its socket or find its task ended. *)
LEMMA EntryStep ==
  ASSUME IInv, [Next]_vars, NEW d \in Device, NEW c \in Conn,
         connections[d] = c, connections'[d] # c
  PROVE  sock'[c] = "closed" \/ task[c] = "done"
<1>1. c \in EntryOf(d) BY ServerAssumption DEF EntryOf
<1>2. ASSUME NEW e \in Device, NEW x \in Conn, NEW f \in Fd, NewConnection(e, x, f)
      PROVE  sock'[c] = "closed"
  <2>1. e = d /\ x # c BY <1>2 DEF NewConnection, IInv, ConnTyped
  <2> QED BY <1>1, <1>2, <2>1 DEF NewConnection
<1>3. ASSUME NEW e \in Device, DropEntry(e) PROVE sock'[c] = "closed"
  <2>1. e = d BY <1>3 DEF DropEntry, IInv, ConnTyped
  <2> QED BY <1>1, <1>3, <2>1 DEF DropEntry, Disconnect, Close
<1>4. ASSUME Stop(profileFlag, agentFlag) PROVE sock'[c] = "closed"
  BY <1>4, ServerAssumption DEF Stop, Disconnect, Close
<1>5. ASSUME NEW x \in Conn, ConnectionDone(x) PROVE task[c] = "done"
  <2>1. x = c BY <1>5 DEF ConnectionDone, IInv, ConnTyped
  <2>2. 1 \in DOMAIN ready /\ ready[1] = Call("done", c)
    BY <1>5, <2>1 DEF ConnectionDone, AtHead, IInv, ConnTyped
  <2> QED BY <2>2 DEF IInv, Table, DoneIsDone, Call
<1>6. ASSUME NEW x \in Conn,
             \/ \E where \in Suspended : Suspend(x, where)
             \/ Return(x) \/ RaiseCancelled(x) \/ Unwatch(x) \/ Arrive(x) \/ WorkDone(x)
      PROVE  FALSE
  BY <1>6 DEF Suspend, Return, RaiseCancelled, End, Unwatch, Arrive, WorkDone
<1>7. ASSUME \/ Release \/ Bluez \/ Boot \/ AgentRegistered \/ DefaultAgent
             \/ ProfileRegistered \/ ProfileUnregistered \/ AgentUnregistered
             \/ RunEnds \/ Interrupt \/ Exit \/ UNCHANGED vars
      PROVE  FALSE
  BY <1>7 DEF Release, Bluez, BluezAccepts, BluezRejects, Boot, AgentRegistered, DefaultAgent,
     ProfileRegistered, Started, ProfileUnregistered, AgentUnregistered, RunEnds, Interrupt,
     Teardown, Exit, vars, connVars
<1>8. CASE Next
  <2>1. CASE RunReady BY <2>1, <1>5, <1>6 DEF RunReady
  <2>2. CASE Profile1
    BY <2>2, <1>2, <1>3, <1>7 DEF Profile1, BadFd, RequestDisconnection
  <2>3. CASE Main \/ StopInterrupted
    BY <2>3, <1>4, <1>7 DEF Main, StartFails, StopReady, StopInterrupted
  <2> QED BY <1>8, <2>1, <2>2, <2>3, <1>6, <1>7 DEF Next
<1> QED BY <1>7, <1>8

(* rfcomm.py:297-300.  A late callback of a replaced task never takes the
   newer entry of its device. *)
THEOREM EntriesLeaveTogether == Spec => EntryLeavesWithItsConnection
<1>1. ASSUME IInv, [Next]_vars
      PROVE  [\A d \in Device :
                LET c == connections[d] IN
                  c # None /\ connections'[d] # c => sock'[c] = "closed" \/ task[c] = "done"]_vars
  BY <1>1, EntryStep DEF IInv, ConnTyped
<1> QED BY <1>1, Invariance, PTL DEF Spec, EntryLeavesWithItsConnection

-----------------------------------------------------------------------------
(* The registrations, where the main task is suspended: what BlueZ holds is in
   the flags once the reply is processed, and the profile rests on the agent. *)
Registrations ==
  /\ ConnectableOnlyWithAgent
  /\ main \in {"boot", "agent", "default"} => ~bluezProfile
  /\ main \in Starting => ~profileFlag
  /\ main = "boot" => ~bluezAgent
  /\ main = "agent" => (bluezAgent <=> reply = "ok")
  /\ main = "default" => bluezAgent
  /\ main = "profile" /\ reply # "ok" => ~bluezProfile /\ (UseAgent => bluezAgent)
  /\ main \in {"default", "profile", "ready", "unprofile", "unagent"} /\ bluezAgent => agentFlag
  /\ main \in {"ready", "unprofile"} /\ bluezProfile => profileFlag
  /\ main = "unprofile" /\ reply # "none" => ~bluezProfile
  /\ main = "unagent" => ~bluezProfile /\ (reply # "none" => ~bluezAgent)
  /\ StoppedUnregistered

RInv == MainTyped /\ Registrations

LEMMA InitialRegistrations == ASSUME Init PROVE Registrations
BY DEF Init, Registrations, ConnectableOnlyWithAgent, StoppedUnregistered, Starting

LEMMA RegistrationsKept ==
  ASSUME "stop_error" \notin Faults, RInv, [Next]_vars
  PROVE  Registrations'
<1> USE DEF RInv, MainTyped, Registrations, ConnectableOnlyWithAgent, StoppedUnregistered,
            Starting, Stopping, Ended, mainVars, bluezVars
<1>1. ASSUME UNCHANGED <<mainVars, bluezVars>> PROVE Registrations' BY <1>1
<1>2. CASE RunReady \/ \E c \in Conn : Arrive(c) \/ WorkDone(c)
  BY <1>1, <1>2 DEF RunReady, Suspend, Return, RaiseCancelled, End, ConnectionDone, Unwatch,
                    Arrive, WorkDone
<1>3. CASE Profile1
  <2>1. CASE Release BY <2>1 DEF Release, Called
  <2>2. CASE ~Release
    BY <1>1, <1>3, <2>2 DEF Profile1, NewConnection, BadFd, RequestDisconnection, DropEntry
  <2> QED BY <2>1, <2>2
<1>4. CASE BluezAccepts BY <1>4 DEF BluezAccepts, Pending
<1>5. CASE BluezRejects BY <1>5 DEF BluezRejects, Pending
<1>6. CASE Boot \/ AgentRegistered \/ DefaultAgent \/ ProfileRegistered
  BY <1>6, ServerAssumption DEF Boot, AgentRegistered, DefaultAgent, ProfileRegistered,
                            Started, Goto
<1>7. CASE StartFails \/ StopReady \/ StopInterrupted
  BY <1>7 DEF StartFails, StopReady, StopInterrupted, Stop, StopWith, Goto
<1>8. CASE ProfileUnregistered \/ AgentUnregistered
  BY <1>8 DEF ProfileUnregistered, AgentUnregistered, StopWith, Goto
<1>9. CASE RunEnds \/ Interrupt \/ Exit
  BY <1>9 DEF RunEnds, Interrupt, Teardown, Goto, Exit
<1>10. CASE UNCHANGED vars BY <1>1, <1>10 DEF vars
<1> QED
  BY <1>2, <1>3, <1>4, <1>5, <1>6, <1>7, <1>8, <1>9, <1>10 DEF Next, Bluez, Main

LEMMA RegistrationsHold ==
  ASSUME "stop_error" \notin Faults
  PROVE  Spec => []Registrations
<1>1. IInv => MainTyped BY DEF IInv
<1> QED BY <1>1, Invariance, InitialRegistrations, RegistrationsKept, PTL DEF Spec, RInv

(* rfcomm.py:235-255, 375-391.  Unless BlueZ refuses to unregister, the profile is
   never connectable without the pairing agent. *)
THEOREM AgentGuardsTheProfile ==
  ASSUME "stop_error" \notin Faults
  PROVE  Spec => []ConnectableOnlyWithAgent
<1>1. Registrations => ConnectableOnlyWithAgent BY DEF Registrations
<1> QED BY <1>1, RegistrationsHold, PTL

(* rfcomm.py:240-255, 375-391.  Unless BlueZ refuses to unregister, stop() leaves
   nothing registered, whatever failed, was released or interrupted before. *)
THEOREM StopUnregistersEverything ==
  ASSUME "stop_error" \notin Faults
  PROVE  Spec => []StoppedUnregistered
<1>1. Registrations => StoppedUnregistered BY DEF Registrations
<1> QED BY <1>1, RegistrationsHold, PTL

-----------------------------------------------------------------------------
(* The selector.  What matters of a queue of callbacks: what is in it, that a
   task is woken once, and which of two callbacks comes first. *)
In(q, kind, c) == \E i \in DOMAIN q : q[i] = Call(kind, c)

Once(q) == \A c \in Conn : \A i, j \in DOMAIN q :
             q[i] = Call("step", c) /\ q[j] = Call("step", c) => i = j

Paired(q) == \A c \in Conn : \A i \in DOMAIN q : q[i] = Call("unwatch", c) =>
               \E j \in DOMAIN q : i < j /\ q[j] = Call("step", c)

Before(q, x, c) == \A i, j \in DOMAIN q :
                     q[i] = Call("unwatch", x) /\ q[j] = Call("step", c) => i < j

LEMMA CallsDiffer ==
  ASSUME NEW k, NEW l, NEW c, NEW d
  PROVE  Call(k, c) = Call(l, d) <=> k = l /\ c = d
BY DEF Call

LEMMA Concatenated ==
  ASSUME NEW p \in Seq(Callback), NEW q \in Seq(Callback)
  PROVE  /\ \A k, c : In(p \o q, k, c) <=> In(p, k, c) \/ In(q, k, c)
         /\ (Once(p) /\ Once(q) /\ \A c \in Conn : ~(In(p, "step", c) /\ In(q, "step", c)))
              => Once(p \o q)
         /\ Paired(p) /\ Paired(q) => Paired(p \o q)
         /\ \A x, c : Before(p, x, c) /\ ~In(q, "unwatch", x) => Before(p \o q, x, c)
<1> DEFINE r == p \o q
<1>1. /\ Len(p) \in Nat /\ Len(q) \in Nat /\ DOMAIN p = 1..Len(p) /\ DOMAIN q = 1..Len(q)
      /\ DOMAIN r = 1..(Len(p) + Len(q))
      /\ \A i \in 1..Len(p) : r[i] = p[i]
      /\ \A i \in 1..Len(q) : r[Len(p) + i] = q[i]
      /\ \A i \in DOMAIN r : \/ i \in DOMAIN p
                             \/ i - Len(p) \in DOMAIN q /\ r[i] = q[i - Len(p)]
  OBVIOUS
<1> HIDE DEF r
<1>2. ASSUME NEW k, NEW c PROVE In(r, k, c) <=> In(p, k, c) \/ In(q, k, c)
  <2>1. In(r, k, c) => In(p, k, c) \/ In(q, k, c) BY <1>1 DEF In
  <2>2. In(p, k, c) => In(r, k, c) BY <1>1 DEF In
  <2>3. ASSUME In(q, k, c) PROVE In(r, k, c)
    <3>1. PICK i \in DOMAIN q : q[i] = Call(k, c) BY <2>3 DEF In
    <3>2. Len(p) + i \in DOMAIN r /\ r[Len(p) + i] = Call(k, c) BY <1>1, <3>1
    <3> QED BY <3>2 DEF In
  <2> QED BY <2>1, <2>2, <2>3
<1>3. ASSUME Once(p), Once(q), \A c \in Conn : ~(In(p, "step", c) /\ In(q, "step", c))
      PROVE  Once(r)
  <2> SUFFICES ASSUME NEW c \in Conn, NEW i \in DOMAIN r, NEW j \in DOMAIN r,
                      r[i] = Call("step", c), r[j] = Call("step", c)
               PROVE  i = j
    BY DEF Once
  <2>1. CASE i \in DOMAIN p /\ j \in DOMAIN p BY <2>1, <1>1, <1>3 DEF Once
  <2>2. CASE i - Len(p) \in DOMAIN q /\ j - Len(p) \in DOMAIN q
    <3>1. r[i] = q[i - Len(p)] /\ r[j] = q[j - Len(p)] BY <1>1, <2>2
    <3>2. i - Len(p) = j - Len(p) BY <2>2, <3>1, <1>3 DEF Once
    <3> QED BY <3>2, <1>1
  <2>3. (i \in DOMAIN p => In(p, "step", c)) /\ (j \in DOMAIN p => In(p, "step", c))
    BY <1>1 DEF In
  <2>4. /\ i - Len(p) \in DOMAIN q => In(q, "step", c)
        /\ j - Len(p) \in DOMAIN q => In(q, "step", c)
    BY <1>1 DEF In
  <2> QED BY <1>1, <1>3, <2>1, <2>2, <2>3, <2>4
<1>4. ASSUME Paired(p), Paired(q) PROVE Paired(r)
  <2> SUFFICES ASSUME NEW c \in Conn, NEW i \in DOMAIN r, r[i] = Call("unwatch", c)
               PROVE  \E j \in DOMAIN r : i < j /\ r[j] = Call("step", c)
    BY DEF Paired
  <2>1. CASE i \in DOMAIN p
    <3>1. PICK j \in DOMAIN p : i < j /\ p[j] = Call("step", c) BY <2>1, <1>1, <1>4 DEF Paired
    <3> QED BY <3>1, <1>1
  <2>2. CASE i - Len(p) \in DOMAIN q /\ r[i] = q[i - Len(p)]
    <3>1. PICK j \in DOMAIN q : i - Len(p) < j /\ q[j] = Call("step", c)
      BY <2>2, <1>4 DEF Paired
    <3>2. Len(p) + j \in DOMAIN r /\ i < Len(p) + j /\ r[Len(p) + j] = q[j]
      BY <2>2, <3>1, <1>1
    <3> QED BY <3>1, <3>2
  <2> QED BY <1>1, <2>1, <2>2
<1>5. ASSUME NEW x, NEW c, Before(p, x, c), ~In(q, "unwatch", x) PROVE Before(r, x, c)
  <2> SUFFICES ASSUME NEW i \in DOMAIN r, NEW j \in DOMAIN r,
                      r[i] = Call("unwatch", x), r[j] = Call("step", c)
               PROVE  i < j
    BY DEF Before
  <2>1. i \in DOMAIN p /\ p[i] = Call("unwatch", x) BY <1>1, <1>5 DEF In
  <2>2. CASE j \in DOMAIN p BY <2>1, <2>2, <1>1, <1>5 DEF Before
  <2>3. CASE j - Len(p) \in DOMAIN q BY <2>1, <2>3, <1>1
  <2> QED BY <1>1, <2>2, <2>3
<1> QED BY <1>2, <1>3, <1>4, <1>5 DEF r

LEMMA Popped ==
  ASSUME NEW q \in Seq(Callback), q # <<>>
  PROVE  /\ \A k, c : In(Tail(q), k, c) => In(q, k, c)
         /\ \A k, c : In(q, k, c) /\ q[1] # Call(k, c) => In(Tail(q), k, c)
         /\ Once(q) => Once(Tail(q))
         /\ \A c \in Conn : Once(q) /\ q[1] = Call("step", c) => ~In(Tail(q), "step", c)
         /\ Paired(q) => Paired(Tail(q))
         /\ \A x, c : Before(q, x, c) => Before(Tail(q), x, c)
<1> DEFINE r == Tail(q)
<1>1. /\ Len(q) \in Nat /\ DOMAIN q = 1..Len(q) /\ 1 \in DOMAIN q
      /\ DOMAIN r = 1..(Len(q) - 1)
      /\ \A i \in DOMAIN r : i + 1 \in DOMAIN q /\ r[i] = q[i + 1]
      /\ \A i \in DOMAIN q : i # 1 => i - 1 \in DOMAIN r /\ r[i - 1] = q[i]
  OBVIOUS
<1> HIDE DEF r
<1>2. ASSUME NEW k, NEW c, In(r, k, c) PROVE In(q, k, c) BY <1>1, <1>2 DEF In
<1>3. ASSUME NEW k, NEW c, In(q, k, c), q[1] # Call(k, c) PROVE In(r, k, c)
  BY <1>1, <1>3 DEF In
<1>4. ASSUME Once(q) PROVE Once(r)
  <2> SUFFICES ASSUME NEW c \in Conn, NEW i \in DOMAIN r, NEW j \in DOMAIN r,
                      r[i] = Call("step", c), r[j] = Call("step", c)
               PROVE  i = j
    BY DEF Once
  <2>1. i + 1 = j + 1 BY <1>1, <1>4 DEF Once
  <2> QED BY <2>1, <1>1
<1>5. ASSUME NEW c \in Conn, Once(q), q[1] = Call("step", c), In(r, "step", c) PROVE FALSE
  <2>1. PICK i \in DOMAIN r : r[i] = Call("step", c) BY <1>5 DEF In
  <2>2. i + 1 = 1 BY <1>1, <1>5, <2>1 DEF Once
  <2> QED BY <1>1, <2>1, <2>2
<1>6. ASSUME Paired(q) PROVE Paired(r)
  <2> SUFFICES ASSUME NEW c \in Conn, NEW i \in DOMAIN r, r[i] = Call("unwatch", c)
               PROVE  \E j \in DOMAIN r : i < j /\ r[j] = Call("step", c)
    BY DEF Paired
  <2>1. PICK j \in DOMAIN q : i + 1 < j /\ q[j] = Call("step", c) BY <1>1, <1>6 DEF Paired
  <2>2. j - 1 \in DOMAIN r /\ i < j - 1 /\ r[j - 1] = q[j] BY <1>1, <2>1
  <2> QED BY <2>1, <2>2
<1>7. ASSUME NEW x, NEW c, Before(q, x, c) PROVE Before(r, x, c)
  <2> SUFFICES ASSUME NEW i \in DOMAIN r, NEW j \in DOMAIN r,
                      r[i] = Call("unwatch", x), r[j] = Call("step", c)
               PROVE  i < j
    BY DEF Before
  <2>1. i + 1 < j + 1 BY <1>1, <1>7 DEF Before
  <2> QED BY <2>1, <1>1
<1> QED BY <1>2, <1>3, <1>4, <1>5, <1>6, <1>7 DEF r

(* When a task is resumed, its reader or writer has been removed, and so has every
   one that was to be removed before. *)
LEMMA NothingBefore ==
  ASSUME NEW q \in Seq(Callback), q # <<>>, NEW c \in Conn, q[1] = Call("step", c)
  PROVE  /\ Once(q) /\ Paired(q) => ~In(q, "unwatch", c)
         /\ \A x : Before(q, x, c) => ~In(q, "unwatch", x)
<1>1. 1 \in DOMAIN q /\ \A i \in DOMAIN q : i >= 1 /\ i \in Nat OBVIOUS
<1>2. ASSUME Once(q), Paired(q), In(q, "unwatch", c) PROVE FALSE
  <2>1. PICK i \in DOMAIN q : q[i] = Call("unwatch", c) BY <1>2 DEF In
  <2>2. PICK j \in DOMAIN q : i < j /\ q[j] = Call("step", c) BY <1>2, <2>1 DEF Paired
  <2>3. j = 1 BY <1>1, <1>2, <2>2 DEF Once
  <2> QED BY <1>1, <2>1, <2>2, <2>3
<1>3. ASSUME NEW x, Before(q, x, c), In(q, "unwatch", x) PROVE FALSE
  BY <1>1, <1>3 DEF In, Before
<1> QED BY <1>2, <1>3

(* What task.cancel() schedules, for the waiting tasks of S and no others: each is
   woken once, after its reader or writer has been removed. *)
LEMMA CancelQueue ==
  ASSUME NEW S \in SUBSET Conn, NEW q \in Orders(CancelCalls(S))
  PROVE  /\ q \in Seq(Callback) /\ NoDone(q) /\ Once(q) /\ Paired(q)
         /\ \A c : In(q, "step", c) <=> c \in S /\ Waiting(c)
         /\ \A c : In(q, "unwatch", c) <=> c \in S /\ Waiting(c) /\ task[c] # "work"
<1> DEFINE C == CancelCalls(S)
           D == 1..Cardinality(C)
<1>1. q \in Seq(Callback) /\ NoDone(q) BY CancelSchedules
<1>2. /\ q \in [D -> C] /\ \A i, j \in D : i # j => q[i] # q[j]
      /\ \A i, j \in DOMAIN q :
           q[i].cb = "unwatch" /\ q[j].cb = "step" /\ q[i].conn = q[j].conn => i < j
  BY DEF Orders, SetToSeqs
<1>3. IsFiniteSet(C) BY CancelCallsFinite
<1> HIDE DEF C
<1>4. \A x \in C : \E i \in D : q[i] = x
  <2>1. Cardinality(C) \in Nat BY <1>3, FS_CardinalityType
  <2>2. q \in Injection(D, C) BY <1>2 DEF Injection, IsInjective
  <2>3. IsFiniteSet(D) /\ Cardinality(D) = Cardinality(C) BY <2>1, FS_Interval
  <2>4. q \in Surjection(D, C) BY <1>3, <2>2, <2>3, FS_Injection
  <2> QED BY <2>4 DEF Surjection
<1>5. DOMAIN q = D BY <1>2
<1>6. \A k, c : In(q, k, c) <=> Call(k, c) \in C BY <1>2, <1>4, <1>5 DEF In
<1>7. \A c : Call("step", c) \in C <=> c \in S /\ Waiting(c)
  BY CallsDiffer DEF C, CancelCalls
<1>8. \A c : Call("unwatch", c) \in C <=> c \in S /\ Waiting(c) /\ task[c] # "work"
  BY CallsDiffer DEF C, CancelCalls
<1>9. Once(q) BY <1>2, <1>5 DEF Once
<1>10. Paired(q)
  <2> SUFFICES ASSUME NEW c \in Conn, NEW i \in D, q[i] = Call("unwatch", c)
               PROVE  \E j \in D : i < j /\ q[j] = Call("step", c)
    BY <1>5 DEF Paired
  <2>1. In(q, "unwatch", c) BY <1>5 DEF In
  <2>2. In(q, "step", c) BY <2>1, <1>6, <1>7, <1>8
  <2>3. PICK j \in D : q[j] = Call("step", c) BY <2>2, <1>5 DEF In
  <2>4. i < j BY <1>2, <1>5, <2>3 DEF Call
  <2> QED BY <2>3, <2>4
<1> QED BY <1>1, <1>6, <1>7, <1>8, <1>9, <1>10

-----------------------------------------------------------------------------
(* The invariant of the selector.  A task is woken once, and only if it has not
   ended; its reader or writer is removed before it is woken. *)
Alive(c) == task[c] \notin {"none", "done"}

Wakes == /\ Once(ready) /\ Paired(ready)
         /\ \A c \in Conn : /\ In(ready, "step", c) => Alive(c)
                            /\ task[c] = "created" => In(ready, "step", c)

(* A task whose socket is closed under it is cancelled and about to be woken. *)
ClosedIsCancelled ==
  \A c \in Conn : sock[c] = "closed" /\ Alive(c) => cancelling[c] /\ In(ready, "step", c)

(* Open sockets have different numbers; the number of an open socket may still
   be watched for a closed one, which is removed before the open one runs. *)
Numbered ==
  \A c, x \in Conn : x # c /\ sock[c] = "open" /\ fd[x] = fd[c] =>
                       sock[x] # "open" /\ Before(ready, x, c)

(* A number is watched for a connection that has it, until that is removed. *)
Watched ==
  \A f \in Fd : watch[f] # None =>
    LET x == watch[f]
    IN  fd[x] = f /\ ((Waiting(x) /\ task[x] # "work") \/ In(ready, "unwatch", x))

Selector == Wakes /\ ClosedIsCancelled /\ Numbered /\ Watched /\ Attended

LEMMA Asleep == \A c : Waiting(c) <=> task[c] \in Suspended /\ ~In(ready, "step", c)
BY DEF Waiting, Scheduled, In

LEMMA InitialSelector == ASSUME Init PROVE Selector
<1>1. \A k, c : ~In(ready, k, c) BY DEF Init, In
<1>2. Wakes BY <1>1 DEF Init, Wakes, Once, Paired, In
<1>3. ClosedIsCancelled /\ Numbered BY DEF Init, ClosedIsCancelled, Numbered
<1>4. Watched /\ Attended BY DEF Init, Watched, Attended, Waiting, Suspended
<1> QED BY <1>2, <1>3, <1>4 DEF Selector

(* Waiting tasks have an open socket, so that an open socket shares its number
   with no task that waits. *)
LEMMA WaitingIsOpen ==
  ASSUME IInv, Selector, NEW c \in Conn, Waiting(c)
  PROVE  sock[c] = "open"
BY Asleep DEF IInv, ConnTyped, Table, Accepted, Selector, ClosedIsCancelled, Alive, Suspended

LEMMA NumberNotShared ==
  ASSUME IInv, Selector, NEW c \in Conn, NEW x \in Conn, x # c, sock[c] = "open", Waiting(x)
  PROVE  fd[x] # fd[c]
BY WaitingIsOpen DEF Selector, Numbered

(* A step that leaves the connections alone. *)
LEMMA SelectorStays == ASSUME Selector, UNCHANGED connVars PROVE Selector'
<1>1. UNCHANGED <<fd, sock, task, cancelling, watch, ready>> BY DEF connVars
<1>2. Wakes' /\ ClosedIsCancelled' /\ Numbered'
  BY <1>1 DEF Selector, Wakes, ClosedIsCancelled, Numbered, Alive, Once, Paired, Before, In
<1>3. Watched' /\ Attended'
  BY <1>1 DEF Selector, Watched, Attended, Waiting, Scheduled, In
<1> QED BY <1>2, <1>3 DEF Selector

(* Waking the waiting tasks of W: each after its reader or writer is removed. *)
LEMMA WakeSelector ==
  ASSUME IInv, Selector, NEW q \in Seq(Callback), Once(q), Paired(q), NEW W \in SUBSET Conn,
         \A c \in W : Waiting(c),
         \A c : In(q, "step", c) <=> c \in W,
         \A c : In(q, "unwatch", c) <=> c \in W /\ task[c] # "work",
         ready' = ready \o q, UNCHANGED <<fd, task, watch>>,
         \A c \in Conn : /\ cancelling[c] => cancelling'[c]
                         /\ sock'[c] = "open" => sock[c] = "open"
                         /\ sock'[c] = "closed" /\ Alive(c) => sock[c] = "closed" \/ cancelling'[c],
         \A c \in Conn : sock'[c] = "closed" /\ Waiting(c) => c \in W
  PROVE  Selector'
<1>1. ready \in Seq(Callback) BY DEF IInv, ConnTyped
<1>2. /\ \A k, c : In(ready', k, c) <=> In(ready, k, c) \/ In(q, k, c)
      /\ (\A c \in Conn : ~(In(ready, "step", c) /\ In(q, "step", c)))
           /\ Once(ready) => Once(ready')
      /\ Paired(ready) => Paired(ready')
      /\ \A x, c : Before(ready, x, c) /\ ~In(q, "unwatch", x) => Before(ready', x, c)
  BY <1>1, Concatenated
<1>3. Wakes'
  <2>1. \A c \in Conn : ~(In(ready, "step", c) /\ In(q, "step", c)) BY Asleep
  <2>2. Once(ready') /\ Paired(ready') BY <1>2, <2>1 DEF Selector, Wakes
  <2>3. \A c \in Conn : /\ In(ready', "step", c) => Alive(c)
                        /\ task[c] = "created" => In(ready', "step", c)
    BY <1>2, Asleep DEF Selector, Wakes, Alive, Suspended
  <2> QED BY <2>2, <2>3 DEF Wakes, Alive
<1>4. ClosedIsCancelled'
  <2> SUFFICES ASSUME NEW c \in Conn, sock'[c] = "closed", Alive(c)
               PROVE  cancelling'[c] /\ In(ready', "step", c)
    BY DEF ClosedIsCancelled, Alive
  <2>1. cancelling'[c] BY DEF Selector, ClosedIsCancelled
  <2>2. task[c] = "created" \/ task[c] \in Suspended BY DEF Alive, IInv, ConnTyped
  <2>3. In(ready, "step", c) \/ Waiting(c) BY <2>2, Asleep DEF Selector, Wakes
  <2> QED BY <2>1, <2>3, <1>2
<1>5. Numbered'
  <2> SUFFICES ASSUME NEW c \in Conn, NEW x \in Conn, x # c, sock'[c] = "open", fd[x] = fd[c]
               PROVE  sock'[x] # "open" /\ Before(ready', x, c)
    BY DEF Numbered
  <2>1. sock[c] = "open" OBVIOUS
  <2>2. sock[x] # "open" /\ Before(ready, x, c) BY <2>1 DEF Selector, Numbered
  <2>3. ~In(q, "unwatch", x) BY <2>1, NumberNotShared
  <2> QED BY <2>2, <2>3, <1>2
<1>6. \A c : Waiting(c)' <=> task[c] \in Suspended /\ ~In(ready', "step", c)
  BY DEF Waiting, Scheduled, In
<1>7. Watched'
  <2> SUFFICES ASSUME NEW f \in Fd, NEW x \in Conn, watch[f] = x
               PROVE  /\ fd[x] = f
                      /\ (Waiting(x)' /\ task[x] # "work") \/ In(ready', "unwatch", x)
    BY DEF Watched, IInv, ConnTyped
  <2>1. fd[x] = f /\ ((Waiting(x) /\ task[x] # "work") \/ In(ready, "unwatch", x))
    BY ServerAssumption DEF Selector, Watched
  <2> QED BY <2>1, <1>2, <1>6, Asleep
<1>8. Attended'
  <2>1. \A c \in Conn : Waiting(c)' => Waiting(c) BY <1>2, <1>6, Asleep
  <2> QED BY <2>1 DEF Selector, Attended
<1> QED BY <1>3, <1>4, <1>5, <1>7, <1>8 DEF Selector

(* Closing and cancelling S, or, at the end of the loop, cancelling only. *)
LEMMA CancelSelector ==
  ASSUME IInv, Selector, NEW S \in SUBSET Conn, NEW q \in Orders(CancelCalls(S)),
         ready' = ready \o q, Cancel(S), UNCHANGED <<fd, task, watch>>, Close(S) \/ sock' = sock
  PROVE  Selector'
<1> DEFINE W == {c \in S : Waiting(c)}
<1>1. /\ q \in Seq(Callback) /\ Once(q) /\ Paired(q)
      /\ \A c : In(q, "step", c) <=> c \in W
      /\ \A c : In(q, "unwatch", c) <=> c \in W /\ task[c] # "work"
  BY CancelQueue
<1>2. \A c \in Conn :
        /\ cancelling[c] => cancelling'[c]
        /\ sock'[c] = "open" => sock[c] = "open"
        /\ sock'[c] = "closed" /\ Alive(c) => sock[c] = "closed" \/ cancelling'[c]
  BY DEF Cancel, Close, IInv, ConnTyped, Alive
<1>3. \A c \in Conn : sock'[c] = "closed" /\ Waiting(c) => c \in W
  BY WaitingIsOpen DEF Close
<1>4. W \in SUBSET Conn /\ \A c \in W : Waiting(c) OBVIOUS
<1> HIDE DEF W
<1> QED BY <1>1, <1>2, <1>3, <1>4, WakeSelector

LEMMA UnwatchThenStep ==
  ASSUME Selector, NEW c \in Conn, In(ready, "unwatch", c)
  PROVE  In(ready, "step", c) /\ Alive(c)
<1>1. In(ready, "step", c) BY DEF Selector, Wakes, Paired, In
<1> QED BY <1>1 DEF Selector, Wakes

LEMMA OneCall ==
  ASSUME NEW k \in {"step", "unwatch", "done"}, NEW c \in Conn
  PROVE  LET q == <<Call(k, c)>>
         IN  /\ q \in Seq(Callback) /\ Once(q)
             /\ k # "unwatch" => Paired(q)
             /\ \A l, x : In(q, l, x) <=> l = k /\ x = c
<1> DEFINE a == Call(k, c)
           q == <<a>>
<1>1. a \in Callback BY DEF Call, Callback
<1>2. \A l, x : Call(l, x) = a <=> l = k /\ x = c BY CallsDiffer
<1> HIDE DEF a
<1>3. q \in Seq(Callback) /\ DOMAIN q = {1} /\ q[1] = a BY <1>1
<1> HIDE DEF q
<1>4. \A l, x : In(q, l, x) <=> l = k /\ x = c BY <1>2, <1>3 DEF In
<1>5. Once(q) BY <1>3 DEF Once
<1>6. k # "unwatch" => Paired(q) BY <1>2, <1>3 DEF Paired
<1> QED BY <1>3, <1>4, <1>5, <1>6 DEF q, a

LEMMA NewConnectionSelector ==
  ASSUME IInv, Selector, NEW d \in Device, NEW c \in Conn, NEW f \in Fd, NewConnection(d, c, f)
  PROVE  Selector'
<1> DEFINE S == EntryOf(d)
           one == <<Call("step", c)>>
<1>1. S \in SUBSET Conn BY EntriesAreConnections
<1>2. PICK q \in Orders(CancelCalls(S)) : ready' = ready \o q \o one BY DEF NewConnection
<1> DEFINE p == ready \o q
<1>3. /\ q \in Seq(Callback) /\ Once(q) /\ Paired(q)
      /\ \A x : In(q, "step", x) <=> x \in S /\ Waiting(x)
      /\ \A x : In(q, "unwatch", x) <=> x \in S /\ Waiting(x) /\ task[x] # "work"
  BY <1>1, CancelQueue
<1>4. /\ one \in Seq(Callback) /\ Once(one) /\ Paired(one)
      /\ \A k, x : In(one, k, x) <=> k = "step" /\ x = c
  BY OneCall
<1>5. ready \in Seq(Callback) /\ p \in Seq(Callback) BY <1>3 DEF IInv, ConnTyped
<1>6. /\ \A k, x : In(p, k, x) <=> In(ready, k, x) \/ In(q, k, x)
      /\ (\A x \in Conn : ~(In(ready, "step", x) /\ In(q, "step", x))) /\ Once(ready) => Once(p)
      /\ Paired(ready) => Paired(p)
      /\ \A x, y : Before(ready, x, y) /\ ~In(q, "unwatch", x) => Before(p, x, y)
  BY <1>3, <1>5, Concatenated
<1> HIDE DEF p, one, S
<1>7. /\ \A k, x : In(ready', k, x) <=> In(p, k, x) \/ (k = "step" /\ x = c)
      /\ Once(p) /\ ~In(p, "step", c) => Once(ready')
      /\ Paired(p) => Paired(ready')
      /\ \A x, y : Before(p, x, y) => Before(ready', x, y)
  <2>1. ready' = p \o one BY <1>2 DEF p
  <2>2. \A k, x : In(p \o one, k, x) <=> In(p, k, x) \/ In(one, k, x)
    BY <1>4, <1>5, Concatenated
  <2>3. (\A x \in Conn : ~(In(p, "step", x) /\ In(one, "step", x))) /\ Once(p) => Once(p \o one)
    BY <1>4, <1>5, Concatenated
  <2>4. Paired(p) => Paired(p \o one) BY <1>4, <1>5, Concatenated
  <2>5. \A x, y : Before(p, x, y) /\ ~In(one, "unwatch", x) => Before(p \o one, x, y)
    BY <1>4, <1>5, Concatenated
  <2> QED BY <2>1, <2>2, <2>3, <2>4, <2>5, <1>4
<1>8. sock[c] = "none" /\ task[c] = "none" /\ ~cancelling[c]
  BY DEF NewConnection, IInv, Table, Accepted
<1>9. ~Waiting(c) /\ \A k \in {"step", "unwatch"} : ~In(ready, k, c)
  BY <1>8, UnwatchThenStep DEF Waiting, Suspended, Selector, Wakes, Alive
<1>10. /\ task' = [task EXCEPT ![c] = "created"]
       /\ sock' = [x \in Conn |-> IF x = c THEN "open" ELSE IF x \in S THEN "closed" ELSE sock[x]]
       /\ cancelling' = [x \in Conn |-> cancelling[x] \/ (x \in S /\ task[x] # "done")]
       /\ fd' = [fd EXCEPT ![c] = f] /\ watch' = watch
       /\ \A x \in Conn : sock[x] = "open" => fd[x] # f
  BY DEF NewConnection, Cancel, FreeFd, S
<1>11. \A x \in Conn : /\ x # c => task'[x] = task[x] /\ fd'[x] = fd[x]
                       /\ task'[c] = "created" /\ fd'[c] = f
                       /\ sock'[x] = "open" => sock[x] = "open" \/ x = c
                       /\ sock'[x] = "closed" => (sock[x] = "closed" \/ x \in S) /\ x # c
  BY <1>10 DEF IInv, ConnTyped
<1>12. Wakes'
  <2>1. \A x \in Conn : ~(In(ready, "step", x) /\ In(q, "step", x)) BY <1>3, Asleep
  <2>2. Once(p) /\ Paired(p) BY <1>6, <2>1 DEF Selector, Wakes
  <2>3. ~In(p, "step", c) BY <1>3, <1>6, <1>9
  <2>4. ASSUME NEW x \in Conn
        PROVE  /\ In(ready', "step", x) => Alive(x)'
               /\ task'[x] = "created" => In(ready', "step", x)
    BY <1>3, <1>6, <1>7, <1>11, Asleep DEF Selector, Wakes, Alive, Suspended
  <2> QED BY <1>7, <2>2, <2>3, <2>4 DEF Wakes
<1>13. ClosedIsCancelled'
  <2> SUFFICES ASSUME NEW x \in Conn, sock'[x] = "closed", Alive(x)'
               PROVE  cancelling'[x] /\ In(ready', "step", x)
    BY DEF ClosedIsCancelled
  <2>1. x # c /\ task'[x] = task[x] /\ Alive(x) BY <1>11 DEF Alive
  <2>2. CASE sock[x] = "closed"
    BY <2>1, <2>2, <1>6, <1>7, <1>10 DEF Selector, ClosedIsCancelled
  <2>3. CASE x \in S
    <3>1. cancelling'[x] BY <1>10, <2>1, <2>3 DEF Alive
    <3>2. task[x] = "created" \/ task[x] \in Suspended BY <2>1 DEF Alive, IInv, ConnTyped
    <3>3. In(ready, "step", x) \/ Waiting(x) BY <3>2, Asleep DEF Selector, Wakes
    <3> QED BY <2>3, <3>1, <3>3, <1>3, <1>6, <1>7
  <2> QED BY <1>11, <2>2, <2>3
<1>14. Numbered'
  <2> SUFFICES ASSUME NEW y \in Conn, NEW x \in Conn, x # y, sock'[y] = "open", fd'[x] = fd'[y]
               PROVE  sock'[x] # "open" /\ Before(ready', x, y)
    BY DEF Numbered
  <2>1. CASE y = c
    <3>1. fd[x] = f /\ sock[x] # "open" BY <2>1, <1>10, <1>11
    <3>2. sock'[x] # "open" BY <2>1, <3>1, <1>11
    <3>3. ~In(p, "step", c) BY <1>3, <1>6, <1>9
    <3>4. Before(p, x, c) BY <3>3 DEF Before, In
    <3> QED BY <2>1, <3>2, <3>4, <1>7
  <2>2. CASE y # c
    <3>1. sock[y] = "open" /\ fd'[y] = fd[y] /\ fd[y] # f BY <2>2, <1>10, <1>11
    <3>2. x # c /\ fd[x] = fd[y] BY <3>1, <1>11
    <3>3. sock[x] # "open" /\ Before(ready, x, y) BY <3>1, <3>2 DEF Selector, Numbered
    <3>4. ~In(q, "unwatch", x) BY <3>1, <3>2, <1>3, NumberNotShared
    <3>5. Before(ready', x, y) BY <3>3, <3>4, <1>6, <1>7
    <3> QED BY <3>2, <3>3, <3>5, <1>11
  <2> QED BY <2>1, <2>2
<1>15. \A x : /\ Waiting(x)' <=> task'[x] \in Suspended /\ ~In(ready', "step", x)
  BY DEF Waiting, Scheduled, In
<1>16. Watched'
  <2> SUFFICES ASSUME NEW g \in Fd, NEW x \in Conn, watch[g] = x
               PROVE  /\ fd'[x] = g
                      /\ (Waiting(x)' /\ task'[x] # "work") \/ In(ready', "unwatch", x)
    BY <1>10 DEF Watched, IInv, ConnTyped
  <2>1. fd[x] = g /\ ((Waiting(x) /\ task[x] # "work") \/ In(ready, "unwatch", x))
    BY ServerAssumption DEF Selector, Watched
  <2>2. x # c BY <2>1, <1>9
  <2> QED BY <2>1, <2>2, <1>3, <1>6, <1>7, <1>11, <1>15, Asleep
<1>17. Attended'
  <2> SUFFICES ASSUME NEW x \in Conn, Waiting(x)', task'[x] # "work" PROVE watch[fd'[x]] = x
    BY <1>10 DEF Attended
  <2>1. x # c /\ ~In(ready, "step", x) BY <1>6, <1>7, <1>15
  <2>2. Waiting(x) /\ task[x] # "work" /\ fd'[x] = fd[x] BY <2>1, <1>11, <1>15, Asleep
  <2> QED BY <2>2 DEF Selector, Attended
<1> QED BY <1>12, <1>13, <1>14, <1>16, <1>17 DEF Selector

(* What a task waits for is there. *)
LEMMA EventSelector ==
  ASSUME IInv, Selector, NEW c \in Conn, Arrive(c) \/ WorkDone(c)
  PROVE  Selector'
<1> DEFINE u == <<Call("unwatch", c)>>
           w == <<Call("step", c)>>
<1>1. /\ u \in Seq(Callback) /\ \A k, x : In(u, k, x) <=> k = "unwatch" /\ x = c
      /\ w \in Seq(Callback) /\ \A k, x : In(w, k, x) <=> k = "step" /\ x = c
      /\ Once(u) /\ Once(w) /\ Paired(w)
  BY OneCall
<1>2. PICK q \in Seq(Callback) :
        /\ ready' = ready \o q /\ Once(q) /\ Paired(q)
        /\ \A x : In(q, "step", x) <=> x = c
        /\ \A x : In(q, "unwatch", x) <=> x = c /\ task[x] # "work"
  <2>1. CASE Arrive(c)
    <3> DEFINE q == <<Call("unwatch", c), Call("step", c)>>
    <3>1. Call("unwatch", c) \in Callback /\ Call("step", c) \in Callback BY DEF Call, Callback
    <3>2. q \in Seq(Callback) /\ DOMAIN q = {1, 2} /\ q[1] = Call("unwatch", c) /\ q[2] = Call("step", c)
      BY <3>1
    <3>3. ready' = ready \o q /\ task[c] # "work" BY <2>1 DEF Arrive
    <3> HIDE DEF q
    <3>4. \A x : In(q, "step", x) <=> x = c BY <3>2, CallsDiffer DEF In
    <3>5. \A x : In(q, "unwatch", x) <=> x = c BY <3>2, CallsDiffer DEF In
    <3>6. Once(q) BY <3>2, CallsDiffer DEF Once
    <3>7. Paired(q) BY <3>2, CallsDiffer DEF Paired
    <3> QED BY <3>2, <3>3, <3>4, <3>5, <3>6, <3>7
  <2>2. CASE WorkDone(c)
    <3>1. ready' = ready \o w /\ task[c] = "work" BY <2>2 DEF WorkDone, IInv, ConnTyped
    <3> QED BY <1>1, <3>1
  <2> QED BY <2>1, <2>2
<1>3. Waiting(c) /\ UNCHANGED <<fd, sock, task, cancelling, watch>> BY DEF Arrive, WorkDone
<1>4. \A x \in Conn : sock[x] = "closed" => ~Waiting(x) BY WaitingIsOpen
<1> DEFINE W == {c}
<1>5. /\ W \in SUBSET Conn /\ \A x \in W : Waiting(x)
      /\ \A x : In(q, "step", x) <=> x \in W
      /\ \A x : In(q, "unwatch", x) <=> x \in W /\ task[x] # "work"
  BY <1>2, <1>3
<1> HIDE DEF W
<1>6. \A x \in Conn : /\ cancelling[x] => cancelling'[x]
                      /\ sock'[x] = "open" => sock[x] = "open"
                      /\ sock'[x] = "closed" /\ Alive(x) => sock[x] = "closed" \/ cancelling'[x]
  BY <1>3
<1>7. \A x \in Conn : sock'[x] = "closed" /\ Waiting(x) => x \in W BY <1>3, <1>4
<1> QED BY <1>2, <1>3, <1>5, <1>6, <1>7, WakeSelector

(* The head of the queue is run: what is left of the queue. *)
LEMMA HeadRuns ==
  ASSUME IInv, Selector, ready # <<>>
  PROVE  LET r == Tail(ready)
         IN  /\ \A k, x : In(r, k, x) => In(ready, k, x)
             /\ \A k, x : In(ready, k, x) /\ ready[1] # Call(k, x) => In(r, k, x)
             /\ Once(r) /\ Paired(r)
             /\ \A x \in Conn : ready[1] = Call("step", x) => ~In(r, "step", x)
             /\ \A x, y : Before(ready, x, y) => Before(r, x, y)
BY Popped DEF IInv, ConnTyped, Selector, Wakes

(* An open connection that is resumed finds no reader or writer under its number. *)
LEMMA NumberIsFree ==
  ASSUME IInv, Selector, NEW c \in Conn, ready # <<>>, ready[1] = Call("step", c),
         sock[c] = "open"
  PROVE  fd[c] \in Fd /\ watch[fd[c]] = None
<1>1. fd[c] \in Fd BY DEF IInv, Table, Accepted
<1>2. 1 \in DOMAIN ready /\ ready \in Seq(Callback) BY DEF IInv, ConnTyped
<1>3. In(ready, "step", c) BY <1>2 DEF In
<1> SUFFICES ASSUME NEW x \in Conn, watch[fd[c]] = x PROVE FALSE
  BY <1>1 DEF IInv, ConnTyped
<1>4. fd[x] = fd[c] /\ (Waiting(x) \/ In(ready, "unwatch", x))
  BY <1>1, ServerAssumption DEF Selector, Watched
<1>5. ~In(ready, "unwatch", c) BY <1>2, NothingBefore DEF Selector, Wakes
<1>6. x # c BY <1>3, <1>4, <1>5, Asleep
<1>7. ~Waiting(x) BY <1>4, <1>6, NumberNotShared
<1>8. Before(ready, x, c) BY <1>4, <1>6 DEF Selector, Numbered
<1>9. ~In(ready, "unwatch", x) BY <1>2, <1>8, NothingBefore
<1> QED BY <1>4, <1>7, <1>9

LEMMA SuspendSelector ==
  ASSUME IInv, Selector, NEW c \in Conn, NEW where \in Suspended, Suspend(c, where)
  PROVE  Selector'
<1>1. /\ ready # <<>> /\ ready[1] = Call("step", c) /\ ready' = Tail(ready)
      /\ ~cancelling[c] /\ Alive(c) /\ task' = [task EXCEPT ![c] = where]
      /\ UNCHANGED <<fd, sock, cancelling>>
      /\ IF where = "work" THEN watch' = watch ELSE Watch(c)
  BY DEF Suspend, AtHead, Alive, Suspended
<1>2. sock[c] = "open"
  BY <1>1 DEF IInv, ConnTyped, Table, Accepted, Selector, ClosedIsCancelled, Alive
<1>3. fd[c] \in Fd /\ watch[fd[c]] = None BY <1>1, <1>2, NumberIsFree
<1>4. /\ \A k, x : In(ready', k, x) => In(ready, k, x)
      /\ \A k, x : In(ready, k, x) /\ ready[1] # Call(k, x) => In(ready', k, x)
      /\ Once(ready') /\ Paired(ready')
      /\ ~In(ready', "step", c)
      /\ \A x, y : Before(ready, x, y) => Before(ready', x, y)
  BY <1>1, HeadRuns
<1>5. \A k, x : x # c \/ k = "unwatch" => (In(ready', k, x) <=> In(ready, k, x))
  BY <1>1, <1>4, CallsDiffer
<1>6. /\ task'[c] = where /\ \A x \in Conn : x # c => task'[x] = task[x]
      /\ where \notin {"none", "created", "done"}
  BY <1>1 DEF IInv, ConnTyped, Suspended
<1>7. Wakes'
  BY <1>4, <1>5, <1>6 DEF Selector, Wakes, Alive
<1>8. ClosedIsCancelled'
  BY <1>1, <1>2, <1>5, <1>6 DEF Selector, ClosedIsCancelled, Alive
<1>9. Numbered' BY <1>1, <1>4 DEF Selector, Numbered
<1>10. \A x : Waiting(x)' <=> task'[x] \in Suspended /\ ~In(ready', "step", x)
  BY DEF Waiting, Scheduled, In
<1>11. \A x \in Conn : x # c => (Waiting(x)' <=> Waiting(x))
  BY <1>5, <1>6, <1>10, Asleep
<1>12. /\ where # "work" => watch' = [watch EXCEPT ![fd[c]] = c]
       /\ where = "work" => watch' = watch
  BY <1>1, <1>3 DEF Watch
<1>13. \A g \in Fd : /\ g # fd[c] => watch'[g] = watch[g]
                     /\ g = fd[c] => watch'[g] = IF where = "work" THEN None ELSE c
  BY <1>3, <1>12 DEF IInv, ConnTyped
<1>14. Watched'
  <2> SUFFICES ASSUME NEW g \in Fd, NEW x \in Conn, watch'[g] = x
               PROVE  /\ fd[x] = g
                      /\ (Waiting(x)' /\ task'[x] # "work") \/ In(ready', "unwatch", x)
    BY <1>1, <1>13, ServerAssumption DEF Watched, IInv, ConnTyped
  <2>1. CASE g = fd[c]
    <3>1. x = c /\ where # "work" BY <2>1, <1>13, ServerAssumption
    <3> QED BY <2>1, <3>1, <1>4, <1>6, <1>10
  <2>2. CASE g # fd[c]
    <3>1. watch[g] = x BY <2>2, <1>13
    <3>2. fd[x] = g /\ ((Waiting(x) /\ task[x] # "work") \/ In(ready, "unwatch", x))
      BY <3>1, ServerAssumption DEF Selector, Watched
    <3> QED BY <2>2, <3>2, <1>5, <1>6, <1>11
  <2> QED BY <2>1, <2>2
<1>15. Attended'
  <2> SUFFICES ASSUME NEW x \in Conn, Waiting(x)', task'[x] # "work" PROVE watch'[fd[x]] = x
    BY <1>1 DEF Attended
  <2>1. CASE x = c BY <2>1, <1>3, <1>6, <1>13
  <2>2. CASE x # c
    <3>1. Waiting(x) /\ task[x] # "work" BY <2>2, <1>6, <1>11
    <3>2. watch[fd[x]] = x BY <3>1 DEF Selector, Attended
    <3>3. fd[x] # fd[c] BY <3>2, <1>3, ServerAssumption
    <3>4. fd[x] \in Fd
      BY <3>1, WaitingIsOpen DEF IInv, Table, Accepted
    <3> QED BY <3>2, <3>3, <3>4, <1>13
  <2> QED BY <2>1, <2>2
<1> QED BY <1>7, <1>8, <1>9, <1>14, <1>15 DEF Selector

(* A task ends: it waits for nothing, and nothing of it is left to be removed. *)
LEMMA EndSelector ==
  ASSUME IInv, Selector, NEW c \in Conn, Return(c) \/ RaiseCancelled(c)
  PROVE  Selector'
<1> DEFINE one == <<Call("done", c)>>
           r == Tail(ready)
<1>1. /\ ready # <<>> /\ ready[1] = Call("step", c)
      /\ ready' = Append(r, Call("done", c))
      /\ task' = [task EXCEPT ![c] = "done"]
      /\ UNCHANGED <<fd, cancelling, watch>>
  BY DEF Return, RaiseCancelled, End, AtHead
<1>2. \A x \in Conn : /\ sock'[x] = "open" => sock[x] = "open"
                      /\ x # c => sock'[x] = sock[x]
  BY DEF Return, RaiseCancelled, Close
<1>3. /\ task'[c] = "done" /\ \A x \in Conn : x # c => task'[x] = task[x]
  BY <1>1 DEF IInv, ConnTyped
<1>4. /\ \A k, x : In(r, k, x) => In(ready, k, x)
      /\ \A k, x : In(ready, k, x) /\ ready[1] # Call(k, x) => In(r, k, x)
      /\ Once(r) /\ Paired(r)
      /\ ~In(r, "step", c)
      /\ \A x, y : Before(ready, x, y) => Before(r, x, y)
  BY <1>1, HeadRuns
<1>5. /\ one \in Seq(Callback) /\ Once(one) /\ Paired(one)
      /\ \A k, x : In(one, k, x) <=> k = "done" /\ x = c
  BY OneCall
<1>6. r \in Seq(Callback) /\ ready' = r \o one
  <2>1. ready \in Seq(Callback) /\ Call("done", c) \in Callback
    BY DEF IInv, ConnTyped, Call, Callback
  <2>2. r \in Seq(Callback) BY <1>1, <2>1
  <2> HIDE DEF r
  <2> QED BY <1>1, <2>1, <2>2, AppendIsConcat
<1> HIDE DEF one, r
<1>7. /\ \A k, x : In(ready', k, x) <=> In(r, k, x) \/ In(one, k, x)
      /\ Once(ready') /\ Paired(ready')
      /\ \A x, y : Before(r, x, y) => Before(ready', x, y)
  BY <1>4, <1>5, <1>6, Concatenated
<1>8. /\ \A x : In(ready', "unwatch", x) <=> In(ready, "unwatch", x)
      /\ \A x : x # c => (In(ready', "step", x) <=> In(ready, "step", x))
      /\ ~In(ready', "step", c)
  BY <1>1, <1>4, <1>5, <1>7, CallsDiffer
<1>9. Wakes' BY <1>3, <1>7, <1>8 DEF Selector, Wakes, Alive
<1>10. ClosedIsCancelled' BY <1>1, <1>2, <1>3, <1>8 DEF Selector, ClosedIsCancelled, Alive
<1>11. Numbered' BY <1>1, <1>2, <1>4, <1>7 DEF Selector, Numbered
<1>12. \A x : Waiting(x)' <=> task'[x] \in Suspended /\ ~In(ready', "step", x)
  BY DEF Waiting, Scheduled, In
<1>13. ~Waiting(c) /\ ~Waiting(c)' /\ \A x \in Conn : x # c => (Waiting(x)' <=> Waiting(x))
  <2>1. In(ready, "step", c) BY <1>1 DEF In, IInv, ConnTyped
  <2> QED BY <2>1, <1>3, <1>8, <1>12, Asleep DEF Suspended
<1>14. Watched'
  <2> SUFFICES ASSUME NEW f \in Fd, NEW x \in Conn, watch[f] = x
               PROVE  /\ fd[x] = f
                      /\ (Waiting(x)' /\ task'[x] # "work") \/ In(ready', "unwatch", x)
    BY <1>1 DEF Watched, IInv, ConnTyped
  <2>1. fd[x] = f /\ ((Waiting(x) /\ task[x] # "work") \/ In(ready, "unwatch", x))
    BY ServerAssumption DEF Selector, Watched
  <2> QED BY <2>1, <1>3, <1>8, <1>13
<1>15. Attended' BY <1>1, <1>3, <1>13 DEF Selector, Attended
<1> QED BY <1>9, <1>10, <1>11, <1>14, <1>15 DEF Selector

(* The callbacks that resume no task. *)
LEMMA CallbackSelector ==
  ASSUME IInv, Selector, NEW c \in Conn, ConnectionDone(c) \/ Unwatch(c)
  PROVE  Selector'
<1>1. /\ ready # <<>> /\ ready' = Tail(ready)
      /\ ready[1] = Call("unwatch", c) \/ ready[1] = Call("done", c)
      /\ UNCHANGED <<fd, sock, task, cancelling>>
  BY DEF ConnectionDone, Unwatch, AtHead
<1>2. /\ \A k, x : In(ready', k, x) => In(ready, k, x)
      /\ \A k, x : In(ready, k, x) /\ ready[1] # Call(k, x) => In(ready', k, x)
      /\ Once(ready') /\ Paired(ready')
      /\ \A x, y : Before(ready, x, y) => Before(ready', x, y)
  BY <1>1, HeadRuns
<1>3. /\ \A x : In(ready', "step", x) <=> In(ready, "step", x)
      /\ \A x : x # c => (In(ready', "unwatch", x) <=> In(ready, "unwatch", x))
      /\ ready[1] = Call("done", c) => (In(ready', "unwatch", c) <=> In(ready, "unwatch", c))
  BY <1>1, <1>2, CallsDiffer
<1>4. Wakes' BY <1>1, <1>2, <1>3 DEF Selector, Wakes, Alive
<1>5. ClosedIsCancelled' BY <1>1, <1>3 DEF Selector, ClosedIsCancelled, Alive
<1>6. Numbered' BY <1>1, <1>2 DEF Selector, Numbered
<1>7. \A x : Waiting(x)' <=> Waiting(x)
  BY <1>1, <1>3, Asleep DEF Waiting, Scheduled, In
<1>8. CASE ConnectionDone(c)
  <2>1. watch' = watch /\ ready[1] = Call("done", c) BY <1>8 DEF ConnectionDone, AtHead
  <2>2. Watched' BY <2>1, <1>1, <1>3, <1>7 DEF Selector, Watched
  <2>3. Attended' BY <2>1, <1>1, <1>7 DEF Selector, Attended
  <2> QED BY <2>2, <2>3, <1>4, <1>5, <1>6 DEF Selector
<1>9. CASE Unwatch(c)
  <2>1. watch' = IF watch[fd[c]] = c THEN [watch EXCEPT ![fd[c]] = None] ELSE watch
    BY <1>9 DEF Unwatch
  <2>2. In(ready, "unwatch", c)
    BY <1>9 DEF Unwatch, AtHead, In, IInv, ConnTyped
  <2>3. ~Waiting(c) BY <2>2, UnwatchThenStep, Asleep
  <2>4. \A g \in Fd : /\ watch'[g] # None => watch'[g] = watch[g]
                      /\ watch[g] # c => watch'[g] = watch[g]
                      /\ g = fd[c] => watch'[g] # c
    BY <2>1, ServerAssumption DEF IInv, ConnTyped
  <2>5. Watched'
    <3> SUFFICES ASSUME NEW g \in Fd, NEW x \in Conn, watch'[g] = x
                 PROVE  /\ fd[x] = g
                        /\ (Waiting(x) /\ task[x] # "work") \/ In(ready', "unwatch", x)
      BY <1>1, <1>7, <2>1 DEF Watched, IInv, ConnTyped
    <3>1. watch[g] = x BY <2>4, ServerAssumption
    <3>2. fd[x] = g /\ ((Waiting(x) /\ task[x] # "work") \/ In(ready, "unwatch", x))
      BY <3>1, ServerAssumption DEF Selector, Watched
    <3>3. x # c BY <2>4, <3>2
    <3> QED BY <3>2, <3>3, <1>3
  <2>6. Attended'
    <3> SUFFICES ASSUME NEW x \in Conn, Waiting(x), task[x] # "work" PROVE watch'[fd[x]] = x
      BY <1>1, <1>7 DEF Attended
    <3>1. watch[fd[x]] = x /\ x # c BY <2>3 DEF Selector, Attended
    <3>2. fd[x] \in Fd BY WaitingIsOpen DEF IInv, Table, Accepted
    <3> QED BY <2>4, <3>1, <3>2
  <2> QED BY <2>5, <2>6, <1>4, <1>5, <1>6 DEF Selector
<1> QED BY <1>8, <1>9

LEMMA DisconnectSelector ==
  ASSUME IInv, Selector, NEW S \in SUBSET Conn, Disconnect(S, <<>>), UNCHANGED <<fd, task, watch>>
  PROVE  Selector'
<1>1. PICK q \in Orders(CancelCalls(S)) : ready' = ready \o q \o <<>> BY DEF Disconnect
<1>2. q \in Seq(Callback) BY CancelSchedules
<1>3. ready' = ready \o q BY <1>1, <1>2 DEF IInv, ConnTyped
<1>4. Close(S) /\ Cancel(S) BY DEF Disconnect
<1> QED BY <1>3, <1>4, CancelSelector

LEMMA SelectorKept == ASSUME IInv, Selector, [Next]_vars PROVE Selector'
<1>1. ASSUME RunReady PROVE Selector'
  BY <1>1, SuspendSelector, EndSelector, CallbackSelector DEF RunReady
<1>2. ASSUME Profile1 PROVE Selector'
  <2>1. ASSUME Release PROVE Selector' BY <2>1, SelectorStays DEF Release
  <2>2. ASSUME NEW d \in Device, BadFd(d) \/ RequestDisconnection(d) PROVE Selector'
    <3>1. /\ Disconnect(EntryOf(d), <<>>) /\ UNCHANGED <<fd, task, watch>>
          /\ EntryOf(d) \in SUBSET Conn
      BY <2>2, EntriesAreConnections DEF BadFd, RequestDisconnection, DropEntry
    <3> QED BY <3>1, DisconnectSelector
  <2> QED BY <1>2, <2>1, <2>2, NewConnectionSelector DEF Profile1
<1>3. ASSUME StartFails \/ StopReady \/ StopInterrupted PROVE Selector'
  <2> DEFINE S == {connections[d] : d \in Device} \ {None}
  <2>1. Disconnect(S, <<>>) /\ UNCHANGED <<fd, task, watch>>
    BY <1>3 DEF StartFails, StopReady, StopInterrupted, Stop
  <2>2. S \in SUBSET Conn BY DEF IInv, ConnTyped
  <2> HIDE DEF S
  <2> QED BY <2>1, <2>2, DisconnectSelector
<1>4. ASSUME RunEnds \/ Interrupt PROVE Selector'
  <2> DEFINE live == {c \in Conn : task[c] \notin {"none", "done"}}
  <2>1. Teardown BY <1>4 DEF RunEnds, Interrupt
  <2>2. /\ Cancel(live) /\ UNCHANGED <<fd, sock, task, watch>>
        /\ \E q \in Orders(CancelCalls(live)) : ready' = ready \o q
    BY <2>1 DEF Teardown
  <2>3. live \in SUBSET Conn OBVIOUS
  <2> HIDE DEF live
  <2> QED BY <2>2, <2>3, CancelSelector
<1>5. ASSUME Bluez \/ Boot \/ AgentRegistered \/ DefaultAgent \/ ProfileRegistered
             \/ ProfileUnregistered \/ AgentUnregistered \/ Exit \/ UNCHANGED vars
      PROVE  Selector'
  <2>1. UNCHANGED connVars
    BY <1>5 DEF Bluez, BluezAccepts, BluezRejects, Boot, AgentRegistered, DefaultAgent,
       ProfileRegistered, Started, ProfileUnregistered, AgentUnregistered, Exit, vars
  <2> QED BY <2>1, SelectorStays
<1> QED BY <1>1, <1>2, <1>3, <1>4, <1>5, EventSelector DEF Next, Main

(* rfcomm.py:313, 361-362.  Whatever numbers the kernel reuses and in whatever order
   connections are replaced, dropped and cancelled, no task waits for a descriptor
   that the selector reports to another one or to nobody. *)
THEOREM WaitersAreAttended == Spec => []Attended
<1>1. Init => Selector BY InitialSelector
<1>2. IInv /\ Selector /\ [Next]_vars => Selector' BY SelectorKept
<1>3. Selector => Attended BY DEF Selector
<1> QED BY <1>1, <1>2, <1>3, Invariance, PTL DEF Spec
=============================================================================
