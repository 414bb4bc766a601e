---------------------------- MODULE RfcommClient ----------------------------
(***************************************************************************)
(* The Web Serial client, src/site/js/rfcomm.mjs, on an RFCOMM link to the *)
(* server of RfcommStream, which answers the requests of a link in order.  *)
(*                                                                         *)
(* Requests are numbered in the order the page writes them; a response     *)
(* bears the number of the request it was collected for.  The page cannot  *)
(* see these numbers: the protocol has none.  A response travels as a head *)
(* and a tail, the tail ending with the newline, so that every read of the *)
(* page may cut it in two.                                                 *)
(***************************************************************************)
EXTENDS Naturals, Sequences

CONSTANTS MaxRequests,   \* bound on the requests written
          MaxLinks       \* bound on the times the port is opened

ASSUME ClientAssumption == MaxRequests \in Nat /\ MaxLinks \in Nat

VARIABLES
  open,         \* port.readable and port.writable are there
  links,        \* how often the port was opened
  eventDue,     \* the browser has a "disconnect" event for the page
  requests,     \* written, not yet answered by the server on this link
  wire,         \* sent by the server on this link, not yet read by the page
  pc,           \* readStatus: idle, in writer.write, in readLine
  onLink,       \* the link whose streams readStatus holds
  request,      \* the number of the last request written
  buffer,       \* this._readState.buffer
  failed,       \* status reads that failed since the port was last opened
                \* with an empty read state (history)
  shown         \* the last status reported, and the request it was given for

vars == <<open, links, eventDue, requests, wire, pc, onLink, request, buffer,
          failed, shown>>

Number == 0..MaxRequests
Piece == [number : Number, part : {"head", "tail"}, ok : BOOLEAN]

TypeOK ==
  /\ open \in BOOLEAN /\ eventDue \in BOOLEAN
  /\ links \in 0..MaxLinks /\ onLink \in 0..MaxLinks
  /\ requests \in Seq(Number) /\ wire \in Seq(Piece) /\ buffer \in Seq(Piece)
  /\ pc \in {"idle", "write", "read"}
  /\ request \in Number /\ failed \in 0..(MaxRequests + MaxLinks)
  /\ shown \in [asked : Number, got : Number]

Init == /\ open = FALSE /\ links = 0 /\ eventDue = FALSE
        /\ requests = <<>> /\ wire = <<>>
        /\ pc = "idle" /\ onLink = 0 /\ request = 0 /\ buffer = <<>>
        /\ failed = 0
        /\ shown = [asked |-> 0, got |-> 0]

-----------------------------------------------------------------------------
(* connect() and reconnect(): the same port, opened again when it has no
   streams.  The read state is reset only when the port is another one. *)
Connect == /\ ~open /\ links < MaxLinks
           /\ open' = TRUE /\ links' = links + 1
           /\ requests' = <<>> /\ wire' = <<>>
           /\ failed' = IF buffer = <<>> THEN 0 ELSE failed
           /\ UNCHANGED <<eventDue, pc, onLink, request, buffer, shown>>

LinkEnds == open' = FALSE /\ requests' = <<>> /\ wire' = <<>>

(* disconnect(): port.close() rejects while a stream is locked; the finally
   clause resets the read state all the same. *)
Disconnect == /\ open
              /\ IF pc = "idle" THEN LinkEnds ELSE UNCHANGED <<open, requests, wire>>
              /\ buffer' = <<>>
              /\ UNCHANGED <<links, eventDue, pc, onLink, request, failed, shown>>

(* Out of range, power off, or the server closes the connection. *)
LinkLost == /\ open
            /\ LinkEnds
            /\ eventDue' = TRUE
            /\ UNCHANGED <<links, pc, onLink, request, buffer, failed, shown>>

(* The event of a lost link may come late, after a reconnect, or never. *)
OnDisconnect == /\ eventDue
                /\ eventDue' = FALSE
                /\ buffer' = <<>>
                /\ UNCHANGED <<open, links, requests, wire, pc, onLink, request,
                               failed, shown>>

-----------------------------------------------------------------------------
(* readStatus() *)
ReadStatus == /\ open /\ pc = "idle" /\ request < MaxRequests
              /\ pc' = "write" /\ onLink' = links
              /\ UNCHANGED <<open, links, eventDue, requests, wire, request, buffer,
                             failed, shown>>

Attached == open /\ onLink = links

HasLine(s) == \E i \in DOMAIN s : s[i].part = "tail"
LineEnd(s) == CHOOSE i \in DOMAIN s :
                s[i].part = "tail" /\ \A j \in 1..(i - 1) : s[j].part # "tail"

(* decodeStatusResponse accepts a whole response with ok = true. *)
Accepted(line) == /\ Len(line) = 2 /\ line[1].part = "head"
                  /\ line[1].number = line[2].number /\ line[2].ok

(* The catch clause: reset the read state and cancel the reader, which drops
   some of what is on its way (rest); the port then offers a new stream. *)
Abandon(rest) ==
  /\ pc' = "idle"
  /\ buffer' = <<>>
  /\ \E n \in 0..(IF Attached THEN Len(rest) ELSE 0) :
        wire' = SubSeq(rest, n + 1, Len(rest))
  /\ failed' = IF onLink = links THEN failed + 1 ELSE failed
  /\ UNCHANGED shown

(* Mutant: the line that was returned stays in the buffer. *)
TakeKeepsLine(bytes, rest, asked) ==
  \/ /\ ~HasLine(bytes)
     /\ pc' = "read" /\ buffer' = bytes /\ wire' = rest
     /\ UNCHANGED <<failed, shown>>
  \/ /\ HasLine(bytes)
     /\ IF Accepted(SubSeq(bytes, 1, LineEnd(bytes)))
          THEN /\ pc' = "idle" /\ wire' = rest /\ buffer' = bytes
               /\ shown' = [asked |-> asked, got |-> bytes[LineEnd(bytes)].number]
               /\ UNCHANGED failed
          ELSE Abandon(rest)

(* readLine looks at the bytes it has; asked is the request it reads for. *)
Take(bytes, rest, asked) ==
  \/ /\ ~HasLine(bytes)
     /\ pc' = "read" /\ buffer' = bytes /\ wire' = rest
     /\ UNCHANGED <<failed, shown>>
  \/ /\ HasLine(bytes)
     /\ LET end == LineEnd(bytes) IN
          IF Accepted(SubSeq(bytes, 1, end))
            THEN /\ pc' = "idle" /\ wire' = rest
                 /\ buffer' = SubSeq(bytes, end + 1, Len(bytes))
                 /\ shown' = [asked |-> asked, got |-> bytes[end].number]
                 /\ UNCHANGED failed
            ELSE Abandon(rest)

(* Mutant: the request reaches the server twice. *)
WrittenTwice == /\ pc = "write" /\ Attached
                /\ request' = request + 1
                /\ requests' = requests \o <<request + 1, request + 1>>
                /\ Take(buffer, wire, request + 1)
                /\ UNCHANGED <<open, links, eventDue, onLink>>

(* The write is done; a line left over from the last read is taken at once. *)
Written == /\ pc = "write" /\ Attached
           /\ request' = request + 1
           /\ requests' = Append(requests, request + 1)
           /\ Take(buffer, wire, request + 1)
           /\ UNCHANGED <<open, links, eventDue, onLink>>

(* Mutant: a failed write leaves the read marked as in flight. *)
WriteFailsLocked ==
  /\ pc = "write" /\ ~Attached
  /\ pc' = "locked"
  /\ failed' = IF onLink = links THEN failed + 1 ELSE failed
  /\ UNCHANGED <<open, links, eventDue, requests, wire, onLink, request, buffer, shown>>

(* The write rejects, or port.readable is gone: the read state stays. *)
WriteFails == /\ pc = "write" /\ ~Attached
              /\ pc' = "idle"
              /\ failed' = IF onLink = links THEN failed + 1 ELSE failed
              /\ UNCHANGED <<open, links, eventDue, requests, wire, onLink, request,
                             buffer, shown>>

(* One reader.read() gives any part of what has arrived. *)
ReadChunk == /\ pc = "read" /\ Attached
             /\ \E n \in 1..Len(wire) :
                  Take(buffer \o SubSeq(wire, 1, n), SubSeq(wire, n + 1, Len(wire)), request)
             /\ UNCHANGED <<open, links, eventDue, requests, onLink, request>>

(* Mutant: no response timer, so only the end of the stream ends the read. *)
ReadFailsAtEnd == /\ pc = "read" /\ ~Attached
                  /\ Abandon(wire)
                  /\ UNCHANGED <<open, links, eventDue, requests, onLink, request>>

(* Ten seconds without a complete line, or a line that grows too long; or the
   stream has ended with its link. *)
ReadFails == /\ pc = "read"
             /\ Abandon(wire)
             /\ UNCHANGED <<open, links, eventDue, requests, onLink, request>>

-----------------------------------------------------------------------------
(* The server: one response per request of the link, in order, each a status
   collected now or a structured error. *)
Answer == /\ requests # <<>>
          /\ requests' = Tail(requests)
          /\ \E ok \in BOOLEAN :
               wire' = wire \o << [number |-> Head(requests), part |-> "head", ok |-> ok],
                                  [number |-> Head(requests), part |-> "tail", ok |-> ok] >>
          /\ UNCHANGED <<open, links, eventDue, pc, onLink, request, buffer, failed, shown>>

User == Connect \/ Disconnect \/ ReadStatus
Page == Written \/ WriteFails \/ ReadFails
Next == User \/ Page \/ ReadChunk \/ LinkLost \/ OnDisconnect \/ Answer

Spec == Init /\ [][Next]_vars

(* writer.write settles and the response timer fires.  Neither the server nor
   the link is assumed to make progress. *)
FairSpec == Spec /\ WF_vars(Page)

-----------------------------------------------------------------------------
(* rfcomm.mjs:206-243.  No status is reported twice and none after a newer
   one, across timeouts, lost links and reconnects. *)
StatusesInOrder == [][shown' # shown => shown'.got > shown.got]_vars

(* rfcomm.mjs:206-243, 172-197.  A reported status is at most as many requests
   old as reads have failed since the port was opened with an empty read state:
   without failures it is the answer to this very request, and disconnecting
   and connecting again makes up for every earlier failure. *)
LagWithinFailures ==
  [][shown' # shown => shown'.asked - shown'.got <= failed]_vars

(* rfcomm.mjs:210-242.  A status read that was started ends, so that
   _statusInFlight never locks out later reads. *)
ReadsSettle == pc # "idle" ~> pc = "idle"

=============================================================================
