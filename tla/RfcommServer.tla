---------------------------- MODULE RfcommServer ----------------------------
(***************************************************************************)
(* CodePCLinkRfcommServer, src/src/codepc_link/rfcomm.py: the table of     *)
(* connections, the asyncio task of each connection, and start / stop.     *)
(*                                                                         *)
(* Everything runs on one asyncio loop.  A D-Bus method of the profile     *)
(* object runs to completion between two callbacks of the loop; a task     *)
(* runs from one suspension to the next when its "step" callback is at the *)
(* head of the FIFO queue ready.  The main task (run_forever) suspends in  *)
(* its calls to BlueZ and on the release event.  The kernel reuses the     *)
(* number of a closed descriptor, and the selector of the loop knows       *)
(* descriptors by number only.                                             *)
(***************************************************************************)
EXTENDS Naturals, Sequences, FiniteSets, SequencesExt

CONSTANTS Device,      \* remote devices, by BlueZ object path
          Conn,        \* connections: a socket object and its task
          Fd,          \* descriptor numbers
          None,
          UseAgent,    \* require_authentication or require_authorization
          Faults

FaultKinds == {"start_error", "stop_error", "bad_fd", "interrupt", "release"}

ASSUME ServerAssumption == /\ IsFiniteSet(Conn)
                           /\ None \notin Conn \cup Device \cup Fd
                           /\ UseAgent \in BOOLEAN
                           /\ Faults \subseteq FaultKinds

VARIABLES
  connections,   \* self._connections: device -> connection, or None
  device,        \* the device a connection was accepted for
  fd,            \* its descriptor number
  sock,          \* its socket: not yet accepted, open, closed
  task,          \* where its task is suspended
  cancelling,    \* task.cancel() was called before the task ended
  watch,         \* the connection the selector reports on, by number
  ready,         \* the callbacks scheduled on the loop
  main,          \* where the main task is suspended
  reply,         \* BlueZ's answer to the call main waits for
  profileFlag,   \* self._profile_registered
  agentFlag,     \* self._agent_registered
  released,      \* self._release_event
  bus,           \* self._bus is connected, its objects looked up
  bluezProfile,  \* BlueZ has the profile registered
  bluezAgent,    \* BlueZ has the pairing agent registered
  interrupted    \* a KeyboardInterrupt cancelled the main task

connVars == <<connections, device, fd, sock, task, cancelling, watch, ready>>
mainVars == <<main, reply, profileFlag, agentFlag, bus, interrupted>>
bluezVars == <<bluezProfile, bluezAgent>>
vars == <<connVars, mainVars, released, bluezVars>>

Suspended == {"recv", "work", "send"}    \* sock_recv, process_request, sock_sendall
Starting == {"boot", "agent", "default", "profile"}
Stopping == {"unprofile", "unagent"}
Ended == {"teardown", "exited"}
Callback == [cb : {"step", "unwatch", "done"}, conn : Conn]

TypeOK ==
  /\ connections \in [Device -> Conn \cup {None}]
  /\ device \in [Conn -> Device \cup {None}]
  /\ fd \in [Conn -> Fd \cup {None}]
  /\ sock \in [Conn -> {"none", "open", "closed"}]
  /\ task \in [Conn -> {"none", "created", "done"} \cup Suspended]
  /\ cancelling \in [Conn -> BOOLEAN]
  /\ watch \in [Fd -> Conn \cup {None}]
  /\ ready \in Seq(Callback)
  /\ main \in Starting \cup {"ready"} \cup Stopping \cup {"stopped"} \cup Ended
  /\ reply \in {"none", "ok", "error"}
  /\ profileFlag \in BOOLEAN /\ agentFlag \in BOOLEAN /\ released \in BOOLEAN
  /\ bus \in BOOLEAN /\ bluezProfile \in BOOLEAN /\ bluezAgent \in BOOLEAN
  /\ interrupted \in BOOLEAN

Init == /\ connections = [d \in Device |-> None]
        /\ device = [c \in Conn |-> None]
        /\ fd = [c \in Conn |-> None]
        /\ sock = [c \in Conn |-> "none"]
        /\ task = [c \in Conn |-> "none"]
        /\ cancelling = [c \in Conn |-> FALSE]
        /\ watch = [f \in Fd |-> None]
        /\ ready = <<>>
        /\ main = "boot" /\ reply = "none"
        /\ profileFlag = FALSE /\ agentFlag = FALSE /\ released = FALSE
        /\ bus = FALSE /\ bluezProfile = FALSE /\ bluezAgent = FALSE
        /\ interrupted = FALSE

-----------------------------------------------------------------------------
(* The asyncio loop. *)
Call(kind, c) == [cb |-> kind, conn |-> c]
Scheduled(kind, c) == \E i \in DOMAIN ready : ready[i] = Call(kind, c)

(* A task with its step scheduled, or that has ended, waits for nothing. *)
Waiting(c) == task[c] \in Suspended /\ ~Scheduled("step", c)

(* Task.cancel() on a waiting task cancels its future, which schedules the
   future's callbacks: the selector callback of the sock_* methods, then the
   wake-up of the task.  Otherwise the task is only marked, and its scheduled
   step raises CancelledError. *)
CancelCalls(S) ==
  {Call("step", c) : c \in {x \in S : Waiting(x)}} \cup
  {Call("unwatch", c) : c \in {x \in S : Waiting(x) /\ task[x] # "work"}}

Orders(calls) ==
  {q \in SetToSeqs(calls) : \A i, j \in DOMAIN q :
      q[i].cb = "unwatch" /\ q[j].cb = "step" /\ q[i].conn = q[j].conn => i < j}

Cancel(S) ==
  cancelling' = [c \in Conn |-> cancelling[c] \/ (c \in S /\ task[c] # "done")]

(* Closing a descriptor takes its file out of epoll, not out of the
   selector's own map, where the number stays until it is unwatched. *)
Close(S) == sock' = [c \in Conn |-> IF c \in S THEN "closed" ELSE sock[c]]

(* Mutant of Disconnect: the socket is closed, the task is forgotten. *)
DisconnectWithoutCancel(S, later) ==
  /\ Close(S)
  /\ ready' = ready \o later
  /\ UNCHANGED cancelling

(* disconnect_device: pop, close, cancel, in that order and without a
   suspension; later is what the caller schedules after it. *)
Disconnect(S, later) ==
  /\ Close(S)
  /\ Cancel(S)
  /\ \E q \in Orders(CancelCalls(S)) : ready' = ready \o q \o later

EntryOf(d) == {connections[d]} \ {None}

(* Bodies of the D-Bus methods need the bus and a registered profile. *)
Called == bus /\ bluezProfile /\ main # "exited"

FreeFd == Fd \ {fd[c] : c \in {x \in Conn : sock[x] = "open"}}

(* Mutant of NewConnection: the older connection is not dropped. *)
NewConnectionKeepsOld(d, c, f) ==
  /\ Called
  /\ sock[c] = "none"
  /\ f \in FreeFd
  /\ sock' = [sock EXCEPT ![c] = "open"]
  /\ ready' = Append(ready, Call("step", c))
  /\ connections' = [connections EXCEPT ![d] = c]
  /\ device' = [device EXCEPT ![c] = d]
  /\ fd' = [fd EXCEPT ![c] = f]
  /\ task' = [task EXCEPT ![c] = "created"]
  /\ UNCHANGED <<cancelling, watch, mainVars, released, bluezVars>>

(* accept_connection: the older connection of the device is dropped before
   the new socket is built; create_task schedules the first step. *)
NewConnection(d, c, f) ==
  /\ Called
  /\ sock[c] = "none"
  /\ f \in FreeFd
  /\ sock' = [x \in Conn |-> IF x = c THEN "open"
                             ELSE IF x \in EntryOf(d) THEN "closed" ELSE sock[x]]
  /\ Cancel(EntryOf(d))
  /\ \E q \in Orders(CancelCalls(EntryOf(d))) :
        ready' = ready \o q \o <<Call("step", c)>>
  /\ connections' = [connections EXCEPT ![d] = c]
  /\ device' = [device EXCEPT ![c] = d]
  /\ fd' = [fd EXCEPT ![c] = f]
  /\ task' = [task EXCEPT ![c] = "created"]
  /\ UNCHANGED <<watch, mainVars, released, bluezVars>>

DropEntry(d) ==
  /\ Disconnect(EntryOf(d), <<>>)
  /\ connections' = [connections EXCEPT ![d] = None]
  /\ UNCHANGED <<device, fd, task, watch, mainVars, released, bluezVars>>

(* socket.socket(fileno=fd) raises: the older connection is gone all the same. *)
BadFd(d) == "bad_fd" \in Faults /\ Called /\ DropEntry(d)

RequestDisconnection(d) == Called /\ connections[d] # None /\ DropEntry(d)

(* Mutant of Release: the flag is reset to None instead of False. *)
ReleaseResetsToNone ==
  /\ "release" \in Faults
  /\ Called
  /\ profileFlag' = None
  /\ released' = TRUE
  /\ bluezProfile' = FALSE /\ bluezAgent' = FALSE
  /\ UNCHANGED <<connVars, main, reply, agentFlag, bus, interrupted>>

(* Profile1.Release: bluetoothd is shutting down and forgets us. *)
Release ==
  /\ "release" \in Faults
  /\ Called
  /\ profileFlag' = FALSE
  /\ released' = TRUE
  /\ bluezProfile' = FALSE /\ bluezAgent' = FALSE
  /\ UNCHANGED <<connVars, main, reply, agentFlag, bus, interrupted>>

-----------------------------------------------------------------------------
(* The loop's selector reports the descriptor c waits on (data, end of file,
   error, room to send): the future gets its result. *)
Arrive(c) ==
  /\ main # "exited"
  /\ Waiting(c) /\ task[c] # "work"
  /\ sock[c] = "open" /\ watch[fd[c]] = c
  /\ ready' = ready \o <<Call("unwatch", c), Call("step", c)>>
  /\ UNCHANGED <<connections, device, fd, sock, task, cancelling, watch,
                 mainVars, released, bluezVars>>

(* The status document (collect_status) or an error is there. *)
WorkDone(c) ==
  /\ main # "exited"
  /\ Waiting(c) /\ task[c] = "work"
  /\ ready' = Append(ready, Call("step", c))
  /\ UNCHANGED <<connections, device, fd, sock, task, cancelling, watch,
                 mainVars, released, bluezVars>>

AtHead(kind, c) == ready # <<>> /\ ready[1] = Call(kind, c) /\ main # "exited"

(* add_reader on a number that is still in the selector's map changes the map
   but not epoll, so the new socket would not be watched. *)
Watch(c) == watch' = IF watch[fd[c]] = None
                     THEN [watch EXCEPT ![fd[c]] = c] ELSE watch

(* _serve_connection runs up to its next suspension.  What it read decides
   which one it is; RfcommStream models that. *)
Suspend(c, where) ==
  /\ AtHead("step", c) /\ ~cancelling[c]
  /\ task[c] \in {"created"} \cup Suspended
  /\ task' = [task EXCEPT ![c] = where]
  /\ ready' = Tail(ready)
  /\ IF where = "work" THEN UNCHANGED watch ELSE Watch(c)
  /\ UNCHANGED <<connections, device, fd, sock, cancelling,
                 mainVars, released, bluezVars>>

End(c) ==
  /\ AtHead("step", c)
  /\ task[c] \in {"created"} \cup Suspended
  /\ task' = [task EXCEPT ![c] = "done"]
  /\ ready' = Append(Tail(ready), Call("done", c))
  /\ UNCHANGED <<connections, device, fd, cancelling, watch,
                 mainVars, released, bluezVars>>

(* End of file, an unterminated oversize request, or a lost connection. *)
Return(c) == ~cancelling[c] /\ End(c) /\ Close({c})

(* Mutant of RaiseCancelled: the request loop swallows CancelledError. *)
SwallowCancelled(c) ==
  /\ AtHead("step", c) /\ cancelling[c]
  /\ task' = [task EXCEPT ![c] = "recv"]
  /\ ready' = Tail(ready)
  /\ UNCHANGED <<connections, device, fd, sock, cancelling, watch,
                 mainVars, released, bluezVars>>

(* CancelledError at the suspension; a task that never started does not reach
   the finally clause. *)
RaiseCancelled(c) ==
  /\ cancelling[c]
  /\ End(c)
  /\ Close(IF task[c] = "created" THEN {} ELSE {c})

(* Mutant of ConnectionDone: pop without comparing the task. *)
ConnectionDoneUnchecked(c) ==
  /\ AtHead("done", c)
  /\ ready' = Tail(ready)
  /\ connections' = [connections EXCEPT ![device[c]] = None]
  /\ UNCHANGED <<device, fd, sock, task, cancelling, watch,
                 mainVars, released, bluezVars>>

(* Mutant of ConnectionDone: no done callback, the entry stays. *)
ConnectionDoneKeepsEntry(c) ==
  /\ AtHead("done", c)
  /\ ready' = Tail(ready)
  /\ UNCHANGED <<connections, device, fd, sock, task, cancelling, watch,
                 mainVars, released, bluezVars>>

(* _connection_done: forget the entry only if it is still this task's. *)
ConnectionDone(c) ==
  /\ AtHead("done", c)
  /\ ready' = Tail(ready)
  /\ connections' = IF connections[device[c]] = c
                    THEN [connections EXCEPT ![device[c]] = None] ELSE connections
  /\ UNCHANGED <<device, fd, sock, task, cancelling, watch,
                 mainVars, released, bluezVars>>

(* The done callback of a sock_* future removes its reader or writer. *)
Unwatch(c) ==
  /\ AtHead("unwatch", c)
  /\ ready' = Tail(ready)
  /\ watch' = IF watch[fd[c]] = c THEN [watch EXCEPT ![fd[c]] = None] ELSE watch
  /\ UNCHANGED <<connections, device, fd, sock, task, cancelling,
                 mainVars, released, bluezVars>>

-----------------------------------------------------------------------------
(* BlueZ answers the call the main task waits for. *)
Pending(call) == main = call /\ reply = "none"

BluezAccepts ==
  /\ reply' = "ok"
  /\ \/ Pending("boot") /\ UNCHANGED bluezVars
     \/ Pending("agent") /\ bluezAgent' = TRUE /\ UNCHANGED bluezProfile
     \/ Pending("default") /\ bluezAgent /\ UNCHANGED bluezVars
     \/ Pending("profile") /\ bluezProfile' = TRUE /\ UNCHANGED bluezAgent
     \/ Pending("unprofile") /\ bluezProfile /\ bluezProfile' = FALSE
        /\ UNCHANGED bluezAgent
     \/ Pending("unagent") /\ bluezAgent /\ bluezAgent' = FALSE
        /\ UNCHANGED bluezProfile
  /\ UNCHANGED <<connVars, main, profileFlag, agentFlag, bus, interrupted, released>>

BluezRejects ==
  /\ \/ "start_error" \in Faults /\ \E call \in Starting : Pending(call)
     \/ "stop_error" \in Faults /\ \E call \in Stopping : Pending(call)
     \/ Pending("default") /\ ~bluezAgent
     \/ Pending("unprofile") /\ ~bluezProfile
     \/ Pending("unagent") /\ ~bluezAgent
  /\ reply' = "error"
  /\ UNCHANGED <<connVars, main, profileFlag, agentFlag, bus, interrupted,
                 released, bluezVars>>

(* The main task, from one suspension to the next. *)
Goto(place) == main' = place /\ reply' = "none"

(* Mutant of StopWith: the agent is unregistered before the profile. *)
StopAgentFirst(profile, agent) ==
  /\ Goto(IF agent THEN "unagent" ELSE IF profile THEN "unprofile" ELSE "stopped")
  /\ bus' = (profile \/ agent)

(* stop() after its loop over the connections: call BlueZ for what is still
   registered, then disconnect the bus. *)
StopWith(profile, agent) ==
  /\ Goto(IF profile THEN "unprofile" ELSE IF agent THEN "unagent" ELSE "stopped")
  /\ bus' = (profile \/ agent)

Stop(profile, agent) ==
  /\ StopWith(profile, agent)
  /\ Disconnect({connections[d] : d \in Device} \ {None}, <<>>)
  /\ connections' = [d \in Device |-> None]
  /\ UNCHANGED <<device, fd, task, watch>>

Started(call, next) == main = call /\ reply = "ok" /\ Goto(next)
                       /\ UNCHANGED <<connVars, interrupted, released, bluezVars>>

Boot == /\ Started("boot", IF UseAgent THEN "agent" ELSE "profile")
        /\ bus' = TRUE
        /\ UNCHANGED <<profileFlag, agentFlag>>

(* Mutant of AgentRegistered: the flag waits for request_default_agent. *)
AgentFlagTooLate == /\ Started("agent", "default")
                    /\ UNCHANGED <<agentFlag, profileFlag, bus>>

AgentRegistered == /\ Started("agent", "default")
                   /\ agentFlag' = TRUE /\ UNCHANGED <<profileFlag, bus>>

DefaultAgent == Started("default", "profile")
                /\ UNCHANGED <<profileFlag, agentFlag, bus>>

ProfileRegistered == /\ Started("profile", "ready")
                     /\ profileFlag' = TRUE /\ UNCHANGED <<agentFlag, bus>>

(* "except Exception" of start(): roll back, then raise. *)
StartFails ==
  /\ main \in Starting /\ reply = "error"
  /\ Stop(profileFlag, agentFlag)
  /\ UNCHANGED <<profileFlag, agentFlag, interrupted, released, bluezVars>>

(* Mutant of StopReady: the open connections are waited for. *)
StopAwaitsConnections ==
  /\ main = "ready" /\ released
  /\ \A d \in Device : connections[d] = None
  /\ Stop(profileFlag, agentFlag)
  /\ UNCHANGED <<profileFlag, agentFlag, interrupted, released, bluezVars>>

(* run_forever: the release event ends the wait. *)
StopReady ==
  /\ main = "ready" /\ released
  /\ Stop(profileFlag, agentFlag)
  /\ UNCHANGED <<profileFlag, agentFlag, interrupted, released, bluezVars>>

(* run_forever: a KeyboardInterrupt ends the wait; the finally clause stops. *)
StopInterrupted ==
  /\ main = "ready" /\ "interrupt" \in Faults /\ ~interrupted
  /\ interrupted' = TRUE
  /\ Stop(profileFlag, agentFlag)
  /\ UNCHANGED <<profileFlag, agentFlag, released, bluezVars>>

(* Errors of the unregister calls are logged; the flag is cleared anyway. *)
ProfileUnregistered ==
  /\ main = "unprofile" /\ reply # "none"
  /\ profileFlag' = FALSE
  /\ StopWith(FALSE, agentFlag)
  /\ UNCHANGED <<connVars, agentFlag, interrupted, released, bluezVars>>

AgentUnregistered ==
  /\ main = "unagent" /\ reply # "none"
  /\ agentFlag' = FALSE
  /\ StopWith(FALSE, FALSE)
  /\ UNCHANGED <<connVars, profileFlag, interrupted, released, bluezVars>>

(* asyncio.run cancels every task once the main coroutine has ended. *)
Teardown ==
  /\ Goto("teardown")
  /\ LET live == {c \in Conn : task[c] \notin {"none", "done"}}
     IN  /\ Cancel(live)
         /\ \E q \in Orders(CancelCalls(live)) : ready' = ready \o q
  /\ UNCHANGED <<connections, device, fd, sock, task, watch, bus, released, bluezVars>>

RunEnds == main = "stopped" /\ Teardown
           /\ UNCHANGED <<profileFlag, agentFlag, interrupted>>

(* A KeyboardInterrupt inside start() or stop(): CancelledError is no
   Exception, so start() does not roll back, and run_forever enters its try
   only after start(). *)
Interrupt ==
  /\ "interrupt" \in Faults /\ ~interrupted
  /\ main \in Starting \cup Stopping
  /\ interrupted' = TRUE
  /\ Teardown
  /\ profileFlag' = (profileFlag /\ main # "unprofile")
  /\ agentFlag' = (agentFlag /\ main # "unagent")

Exit == /\ main = "teardown"
        /\ \A c \in Conn : cancelling[c] => task[c] = "done"
        /\ main' = "exited"
        /\ UNCHANGED <<connVars, reply, profileFlag, agentFlag, bus, interrupted,
                       released, bluezVars>>

-----------------------------------------------------------------------------
RunReady == \E c \in Conn :
  \/ \E where \in Suspended : Suspend(c, where)
  \/ Return(c) \/ RaiseCancelled(c) \/ ConnectionDone(c) \/ Unwatch(c)

Profile1 == \/ \E d \in Device : \/ \E c \in Conn, f \in Fd : NewConnection(d, c, f)
                                 \/ BadFd(d) \/ RequestDisconnection(d)
            \/ Release

Bluez == BluezAccepts \/ BluezRejects

Main == \/ Boot \/ AgentRegistered \/ DefaultAgent \/ ProfileRegistered
        \/ StartFails \/ StopReady \/ ProfileUnregistered \/ AgentUnregistered
        \/ RunEnds \/ Exit

Next == \/ RunReady \/ Profile1 \/ Bluez \/ Main
        \/ StopInterrupted \/ Interrupt
        \/ \E c \in Conn : Arrive(c) \/ WorkDone(c)

Spec == Init /\ [][Next]_vars

(* The loop runs its callbacks, the main task resumes, BlueZ or the bus
   answers every call.  Nothing is assumed of devices, of the peers' data or
   of the time a status takes. *)
FairSpec == Spec /\ WF_vars(RunReady) /\ WF_vars(Main) /\ WF_vars(Bluez)

-----------------------------------------------------------------------------
(* rfcomm.py:290-300, 355-362.  An entry of the table is a connection of that
   device whose task is alive and not cancelled and whose socket is open; or
   whose task has ended by itself and whose done callback is still queued. *)
EntriesAreLive == main \notin Ended =>
  \A d \in Device : connections[d] # None =>
    LET c == connections[d] IN
      /\ device[c] = d /\ ~cancelling[c]
      /\ IF task[c] = "done" THEN Scheduled("done", c) ELSE sock[c] = "open"

(* rfcomm.py:282-300.  Every open socket is in the table, so that replacing,
   disconnecting and stopping reach it; one device has one open socket. *)
NoOrphans == main \notin Ended =>
  \A c \in Conn : sock[c] = "open" => connections[device[c]] = c

(* rfcomm.py:313, 361-362.  Although descriptor numbers are reused, a
   connection that waits for data or for room is the one the selector reports
   on under its number: closing before cancelling never leaves a reader of a
   dead connection in front of a new one. *)
Attended == \A c \in Conn :
  Waiting(c) /\ task[c] # "work" => watch[fd[c]] = c

(* rfcomm.py:297-300.  The entry of a device disappears or changes only
   together with the socket it names, or after that connection's own task has
   ended: a late callback of a replaced task never takes the newer entry. *)
EntryLeavesWithItsConnection ==
  [][\A d \in Device :
       LET c == connections[d] IN
         c # None /\ connections'[d] # c => sock'[c] = "closed" \/ task[c] = "done"]_vars

(* rfcomm.py:235-255, 375-391.  The profile is connectable only while the
   pairing agent is registered: the agent is registered first and
   unregistered last, on every path through start, rollback and stop. *)
ConnectableOnlyWithAgent == UseAgent /\ bluezProfile => bluezAgent

(* rfcomm.py:240-255, 375-391.  When stop() has run to its end, BlueZ holds
   neither the profile nor the agent: the flags that decide what is
   unregistered were never behind what BlueZ had accepted. *)
StoppedUnregistered == main = "stopped" => ~bluezProfile /\ ~bluezAgent

(* rfcomm.py:361-362.  A connection that was replaced, disconnected or
   stopped really ends. *)
CancelledEnds == \A c \in Conn : cancelling[c] ~> task[c] = "done"

(* rfcomm.py:364-367, 401-406.  After BlueZ released the profile the program
   ends, whatever the peers do. *)
ReleaseEnds == released ~> main = "exited"
=============================================================================
