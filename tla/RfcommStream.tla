---------------------------- MODULE RfcommStream ----------------------------
(***************************************************************************)
(* The request loop of one RFCOMM connection: _serve_connection with       *)
(* process_request and decode_request, src/src/codepc_link/rfcomm.py.  The *)
(* peer's bytes arrive in chunks of any size up to Chunk, cut anywhere.    *)
(***************************************************************************)
EXTENDS Naturals, Sequences, FiniteSets

CONSTANTS MaxRequest,          \* MAX_REQUEST_BYTES
          Chunk,        \* READ_CHUNK_BYTES
          Newline, Blank,
          Request,      \* stands for the text of a whole valid request
          MaxInput      \* bound on the bytes a peer sends

ASSUME StreamAssumption == /\ MaxRequest \in Nat /\ MaxInput \in Nat
                           /\ Chunk \in 1..(MaxRequest + 1)   \* 1024 and 4096

VARIABLES received,   \* every byte read from the socket (history)
          buffer,     \* buffer = bytearray()
          line,       \* the line being processed
          reply,      \* what process_request returned for it
          replies,    \* every reply written to the socket (history)
          pc

vars == <<received, buffer, line, reply, replies, pc>>

Byte == {Newline, Blank, Request}
Codes == {"status", "STATUS_READ_FAILED", "INVALID_REQUEST", "REQUEST_TOO_LARGE"}

TypeOK == /\ received \in Seq(Byte) /\ buffer \in Seq(Byte) /\ line \in Seq(Byte)
          /\ reply \in Codes
          /\ replies \in Seq(Codes)
          /\ pc \in {"recv", "split", "process", "send", "overflow", "closed"}

Init == /\ received = <<>> /\ buffer = <<>> /\ line = <<>> /\ replies = <<>>
        /\ reply = "INVALID_REQUEST"
        /\ pc = "recv"

Goto(from, to) == pc = from /\ pc' = to

HasNewline(s) == \E i \in DOMAIN s : s[i] = Newline
FirstNewline(s, i) == s[i] = Newline /\ \A j \in 1..(i - 1) : s[j] # Newline

(* Mutant of Recv: the size check looks at the chunk, not at the buffer. *)
RecvChecksChunk(chunk) ==
  LET full == buffer \o chunk IN
    /\ chunk # <<>> /\ Len(received) + Len(chunk) <= MaxInput
    /\ Goto("recv", IF Len(chunk) > MaxRequest /\ ~HasNewline(chunk)
                    THEN "overflow" ELSE "split")
    /\ received' = received \o chunk
    /\ buffer' = full
    /\ UNCHANGED <<line, reply, replies>>

(* sock_recv: some of the bytes that are there, at most Chunk. *)
Recv(chunk) ==
  LET full == buffer \o chunk IN
    /\ chunk # <<>> /\ Len(received) + Len(chunk) <= MaxInput
    /\ Goto("recv", IF Len(full) > MaxRequest /\ ~HasNewline(full) THEN "overflow" ELSE "split")
    /\ received' = received \o chunk
    /\ buffer' = full
    /\ UNCHANGED <<line, reply, replies>>

(* Mutant of Split: the remainder is dropped with the line. *)
SplitDropsRemainder ==
  /\ \E end \in DOMAIN buffer :
       LET first == SubSeq(buffer, 1, end - 1) IN
         /\ FirstNewline(buffer, end)
         /\ buffer' = <<>>
         /\ IF \A i \in DOMAIN first : first[i] = Blank
              THEN Goto("split", "split") /\ UNCHANGED line
              ELSE Goto("split", "process") /\ line' = first
  /\ UNCHANGED <<received, reply, replies>>

(* One round of the inner loop; bytes.strip() decides what is blank. *)
Split ==
  /\ \E end \in DOMAIN buffer :
       LET first == SubSeq(buffer, 1, end - 1) IN
         /\ FirstNewline(buffer, end)
         /\ buffer' = SubSeq(buffer, end + 1, Len(buffer))
         /\ IF \A i \in DOMAIN first : first[i] = Blank
              THEN Goto("split", "split") /\ UNCHANGED line
              ELSE Goto("split", "process") /\ line' = first
  /\ UNCHANGED <<received, reply, replies>>

ReadMore == /\ ~HasNewline(buffer)
            /\ Goto("split", "recv")
            /\ UNCHANGED <<received, buffer, line, reply, replies>>

(* decode_request: size first, then UTF-8, JSON, schema and operation. *)
TooLarge(s) == Len(s) > MaxRequest
IsRequest(s) == \E i \in DOMAIN s :
                  s[i] = Request /\ \A j \in DOMAIN s \ {i} : s[j] = Blank

(* Mutant of Process: an exception of collect_status leaves no reply. *)
ProcessWithoutReply ==
  /\ Goto("process", "send")
  /\ reply' = IF IsRequest(line) THEN "none" ELSE "INVALID_REQUEST"
  /\ UNCHANGED <<received, buffer, line, replies>>

(* process_request: an error of decode_request, the status, or
   STATUS_READ_FAILED when collect_status raises. *)
Process ==
  /\ Goto("process", "send")
  /\ \/ TooLarge(line) /\ reply' = "REQUEST_TOO_LARGE"
     \/ ~TooLarge(line) /\ ~IsRequest(line) /\ reply' = "INVALID_REQUEST"
     \/ ~TooLarge(line) /\ IsRequest(line)
        /\ reply' \in {"status", "STATUS_READ_FAILED"}
  /\ UNCHANGED <<received, buffer, line, replies>>

(* Mutant of Send: one request per chunk. *)
SendThenRecv == /\ Goto("send", "recv")
                /\ replies' = Append(replies, reply)
                /\ UNCHANGED <<received, buffer, line, reply>>

Send == /\ Goto("send", "split")
        /\ replies' = Append(replies, reply)
        /\ UNCHANGED <<received, buffer, line, reply>>

Overflow == /\ Goto("overflow", "closed")
            /\ replies' = Append(replies, "REQUEST_TOO_LARGE")
            /\ UNCHANGED <<received, buffer, line, reply>>

(* End of file (at sock_recv), ConnectionError, OSError or CancelledError (at
   any suspension): the finally clause closes the socket. *)
Lost == /\ pc \in {"recv", "process", "send", "overflow"}
        /\ pc' = "closed"
        /\ UNCHANGED <<received, buffer, line, reply, replies>>

Chunks == UNION {[1..n -> Byte] : n \in 1..Chunk}

Serve == Split \/ ReadMore \/ Process \/ Send \/ Overflow

Next == (\E chunk \in Chunks : Recv(chunk)) \/ Serve \/ Lost

Spec == Init /\ [][Next]_vars

(* The task is resumed after every suspension but the one in sock_recv, where
   it waits for the peer. *)
FairSpec == Spec /\ WF_vars(Serve)

-----------------------------------------------------------------------------
(* rfcomm.py:313-327.  Memory per connection is bounded: the buffer never
   holds more than a request and a chunk, and whenever the task waits for more
   bytes it holds less than one line and no more than a request. *)
BufferBounded == /\ Len(buffer) <= MaxRequest + Chunk
                 /\ pc = "recv" => Len(buffer) <= MaxRequest /\ ~HasNewline(buffer)

(* rfcomm.py:319-342.  However the bytes are cut into chunks, the replies are
   those of the lines of the stream: one for each line that is not blank, in
   the order of the lines; a reply without a line only for an unterminated
   oversize request, as the last thing before the connection closes. *)
Abstract == INSTANCE LineServer WITH open <- pc # "closed"
Framing == Abstract!Spec

(* rfcomm.py:327-342.  Every complete line that is not blank is answered,
   however many requests are pipelined, unless the connection ends. *)
EveryLineAnswered ==
  \A n \in 1..MaxInput :
    Cardinality(Abstract!ToAnswer(received)) >= n ~> Len(replies) >= n \/ pc = "closed"
=============================================================================
