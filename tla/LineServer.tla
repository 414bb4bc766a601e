----------------------------- MODULE LineServer -----------------------------
(***************************************************************************)
(* What an RFCOMM connection promises a client, without buffers or chunks: *)
(* the bytes received so far determine, in order, one reply for each       *)
(* complete line that is not blank.  Only a line too long to be a request  *)
(* may end the connection from the server's side, and then with a reply.   *)
(***************************************************************************)
EXTENDS Naturals, Sequences, FiniteSets

CONSTANTS MaxRequest,         \* longest request, without its newline
          Newline, Blank, Request  \* the bytes told apart

VARIABLES received,    \* the bytes the client sent, as far as they were read
          replies,     \* the replies written, in order
          open

lineVars == <<received, replies, open>>

Byte == {Newline, Blank, Request}

(* The newlines of a stream that end a line to answer: one that is not blank. *)
ToAnswer(s) ==
  {e \in DOMAIN s :
     /\ s[e] = Newline
     /\ \E i \in 1..(e - 1) : s[i] # Blank /\ \A j \in i..(e - 1) : s[j] # Newline}

(* The line between position b, 0 or a newline, and the next newline e. *)
IsLine(s, b, e) == /\ b = 0 \/ s[b] = Newline
                   /\ s[e] = Newline /\ \A i \in (b + 1)..(e - 1) : s[i] # Newline
Line(s, b, e) == SubSeq(s, b + 1, e - 1)

(* One symbol stands for the text of a whole valid request: a line is valid
   JSON when it holds it once, with white space around it. *)
IsRequest(line) == \E i \in DOMAIN line :
  line[i] = Request /\ \A j \in DOMAIN line \ {i} : line[j] = Blank

Answers(line) == IF Len(line) > MaxRequest THEN {"REQUEST_TOO_LARGE"}
                 ELSE IF IsRequest(line) THEN {"status", "STATUS_READ_FAILED"}
                 ELSE {"INVALID_REQUEST"}

Init == received = <<>> /\ replies = <<>> /\ open = TRUE

Receive == /\ open
           /\ received' \in Seq(Byte) /\ Len(received') >= Len(received)
           /\ \A i \in DOMAIN received : received'[i] = received[i]
           /\ UNCHANGED <<replies, open>>

(* The next reply answers the line that has as many before it to answer as
   there are replies. *)
Answer ==
  /\ open
  /\ \E e \in ToAnswer(received) :
       /\ Cardinality({x \in ToAnswer(received) : x < e}) = Len(replies)
       /\ \E b \in 0..(e - 1) :
            /\ IsLine(received, b, e)
            /\ \E r \in Answers(Line(received, b, e)) : replies' = Append(replies, r)
  /\ UNCHANGED <<received, open>>

(* The bytes after the last newline are already more than a request may have. *)
Overlong(s) == \E i \in DOMAIN s : /\ Len(s) - i >= MaxRequest
                                   /\ \A j \in i..Len(s) : s[j] # Newline

Overflow ==
  /\ open
  /\ Len(replies) = Cardinality(ToAnswer(received))
  /\ Overlong(received)
  /\ replies' = Append(replies, "REQUEST_TOO_LARGE")
  /\ open' = FALSE
  /\ UNCHANGED received

(* End of file, a lost or a cancelled connection. *)
Close == open /\ open' = FALSE /\ UNCHANGED <<received, replies>>

Next == Receive \/ Answer \/ Overflow \/ Close

Spec == Init /\ [][Next]_lineVars
=============================================================================
