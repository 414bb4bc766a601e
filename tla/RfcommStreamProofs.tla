------------------------- MODULE RfcommStreamProofs -------------------------
(***************************************************************************)
(* For every request size, chunk size and stream of bytes: the buffer of   *)
(* the request loop is bounded, and the replies are those of the lines.    *)
(***************************************************************************)
EXTENDS RfcommStream, FiniteSetTheorems, SequenceTheorems, TLAPS

(* Every newline in the buffer arrived with the last chunk, so less than a
   chunk follows it; what is left when no newline remains is therefore not
   longer than a request. *)
ShortTail == /\ \A i \in DOMAIN buffer : buffer[i] = Newline => Len(buffer) - i < Chunk
             /\ pc \in {"split", "process", "send"}
                  => Len(buffer) <= MaxRequest \/ HasNewline(buffer)

IInv == TypeOK /\ BufferBounded /\ ShortTail

LEMMA InitIInv == Init => IInv
  BY StreamAssumption DEF Init, IInv, TypeOK, BufferBounded, ShortTail, Byte, Codes, HasNewline

(* A chunk is a short sequence of bytes. *)
LEMMA ChunkType ==
  ASSUME NEW chunk \in Chunks
  PROVE  chunk \in Seq(Byte) /\ Len(chunk) \in 1..Chunk
<1>1. PICK n \in 1..Chunk : chunk \in [1..n -> Byte]
  BY DEF Chunks
<1>2. n \in Nat
  BY <1>1, StreamAssumption
<1>3. chunk \in Seq(Byte) /\ Len(chunk) = n
  BY <1>1, <1>2
<1> QED
  BY <1>1, <1>3

LEMMA NextIInv == IInv /\ [Next]_vars => IInv'
<1> SUFFICES ASSUME IInv, [Next]_vars PROVE IInv'
  OBVIOUS
<1> USE StreamAssumption
<1>1. /\ TypeOK /\ ShortTail /\ Len(buffer) <= MaxRequest + Chunk
      /\ pc = "recv" => Len(buffer) <= MaxRequest /\ ~HasNewline(buffer)
  BY DEF IInv, BufferBounded
<1>2. ASSUME NEW chunk \in Chunks, Recv(chunk) PROVE IInv'
  <2>1. chunk \in Seq(Byte) /\ Len(chunk) \in 1..Chunk
    BY ChunkType
  <2>2. pc = "recv" /\ Len(buffer) <= MaxRequest /\ ~HasNewline(buffer)
    BY <1>1, <1>2 DEF Recv, Goto
  <2>3. buffer \o chunk \in Seq(Byte) /\ received \o chunk \in Seq(Byte)
        /\ Len(buffer \o chunk) = Len(buffer) + Len(chunk)
    BY <1>1, <2>1 DEF TypeOK
  <2>4. /\ buffer' = buffer \o chunk /\ received' = received \o chunk
        /\ UNCHANGED <<line, reply, replies>>
        /\ pc' = IF Len(buffer \o chunk) > MaxRequest /\ ~HasNewline(buffer \o chunk)
                 THEN "overflow" ELSE "split"
    BY <1>2 DEF Recv, Goto
  <2>5. Len(buffer') <= MaxRequest + Chunk
    BY <1>1, <2>1, <2>2, <2>3, <2>4 DEF TypeOK
  <2>6. ASSUME NEW i \in DOMAIN buffer', buffer'[i] = Newline
        PROVE  Len(buffer') - i < Chunk
    <3>1. buffer \in Seq(Byte) /\ i \in 1..(Len(buffer) + Len(chunk))
          /\ Len(buffer) \in Nat /\ Len(chunk) \in Nat
      BY <1>1, <2>1, <2>3, <2>4, <2>6 DEF TypeOK
    <3>2. i > Len(buffer)
      <4> SUFFICES ASSUME i <= Len(buffer) PROVE FALSE
        BY <3>1
      <4>1. i \in DOMAIN buffer /\ buffer[i] = Newline
        BY <2>1, <2>4, <2>6, <3>1
      <4> QED
        BY <2>2, <4>1 DEF HasNewline
    <3> QED
      BY <2>1, <2>3, <2>4, <3>1, <3>2
  <2>7. ShortTail'
    <3>1. Len(buffer \o chunk) \in Nat
      BY <2>3
    <3>2. pc' \in {"split", "process", "send"}
            => Len(buffer \o chunk) <= MaxRequest \/ HasNewline(buffer \o chunk)
      BY <2>4, <3>1, StreamAssumption
    <3>3. HasNewline(buffer \o chunk) => HasNewline(buffer')
      BY <2>4 DEF HasNewline
    <3> QED
      BY <2>4, <2>6, <3>2, <3>3 DEF ShortTail, HasNewline
  <2> QED
    BY <1>1, <2>3, <2>4, <2>5, <2>7 DEF IInv, TypeOK, BufferBounded
<1>3. CASE Split
  <2>1. PICK end \in DOMAIN buffer :
           /\ buffer[end] = Newline
           /\ buffer' = SubSeq(buffer, end + 1, Len(buffer))
           /\ \/ Goto("split", "split") /\ UNCHANGED line
              \/ Goto("split", "process") /\ line' = SubSeq(buffer, 1, end - 1)
    BY <1>3 DEF Split, FirstNewline
  <2>2. buffer \in Seq(Byte) /\ end \in 1..Len(buffer) /\ Len(buffer) \in Nat
    BY <1>1, <2>1 DEF TypeOK
  <2>3. /\ buffer' \in Seq(Byte) /\ Len(buffer') = Len(buffer) - end
        /\ \A i \in DOMAIN buffer' : buffer'[i] = buffer[end + i]
    BY <2>1, <2>2
  <2>4. Len(buffer') <= MaxRequest
    BY <1>1, <2>1, <2>2, <2>3 DEF ShortTail
  <2>5. line' \in Seq(Byte)
    <3>1. SubSeq(buffer, 1, end - 1) \in Seq(Byte)
      BY <2>2
    <3> QED
      BY <1>1, <2>1, <3>1 DEF TypeOK
  <2>6. pc' \in {"split", "process"} /\ UNCHANGED <<received, reply, replies>>
    BY <1>3, <2>1 DEF Split, Goto
  <2>7. ASSUME NEW i \in DOMAIN buffer', buffer'[i] = Newline
        PROVE  Len(buffer') - i < Chunk
    <3>1. i \in 1..(Len(buffer) - end) /\ end + i \in DOMAIN buffer
      BY <2>2, <2>3, <2>7
    <3>2. Len(buffer) - (end + i) < Chunk
      BY <1>1, <2>3, <2>7, <3>1 DEF ShortTail
    <3> QED
      BY <2>2, <2>3, <3>1, <3>2
  <2>8. Len(buffer') <= MaxRequest + Chunk
    BY <2>2, <2>3, <2>4
  <2> QED
    BY <1>1, <2>3, <2>4, <2>5, <2>6, <2>7, <2>8
       DEF IInv, TypeOK, BufferBounded, ShortTail
<1>4. CASE ReadMore
  BY <1>1, <1>4 DEF ReadMore, Goto, IInv, TypeOK, BufferBounded, ShortTail, HasNewline
<1>5. CASE Process
  BY <1>1, <1>5
     DEF Process, Goto, IInv, TypeOK, BufferBounded, ShortTail, HasNewline, Codes
<1>6. CASE Send
  <2>1. replies' \in Seq(Codes)
    BY <1>1, <1>6 DEF Send, TypeOK
  <2> QED
    BY <1>1, <1>6, <2>1
       DEF Send, Goto, IInv, TypeOK, BufferBounded, ShortTail, HasNewline
<1>7. CASE Overflow
  <2>1. replies' \in Seq(Codes)
    BY <1>1, <1>7 DEF Overflow, TypeOK, Codes
  <2> QED
    BY <1>1, <1>7, <2>1
       DEF Overflow, Goto, IInv, TypeOK, BufferBounded, ShortTail, HasNewline
<1>8. CASE Lost
  BY <1>1, <1>8 DEF Lost, IInv, TypeOK, BufferBounded, ShortTail, HasNewline
<1>9. CASE UNCHANGED vars
  BY <1>1, <1>9 DEF vars, IInv, TypeOK, BufferBounded, ShortTail, HasNewline
<1> QED
  BY <1>2, <1>3, <1>4, <1>5, <1>6, <1>7, <1>8, <1>9 DEF Next, Serve

(* rfcomm.py:309-342.  Whatever the peer sends, the loop works on bytes and
   answers with the codes of the protocol only. *)
THEOREM TypeCorrect == Spec => []TypeOK
<1>1. IInv => TypeOK
  BY DEF IInv
<1> QED
  BY <1>1, InitIInv, NextIInv, PTL DEF Spec

(* The memory a connection takes is bounded by one request and one chunk. *)
THEOREM BufferIsBounded == Spec => []BufferBounded
<1>1. Init => IInv
  BY InitIInv
<1>2. IInv /\ [Next]_vars => IInv'
  BY NextIInv
<1>3. IInv => BufferBounded
  BY DEF IInv
<1> QED
  BY <1>1, <1>2, <1>3, PTL DEF Spec


-----------------------------------------------------------------------------
(* The lines of the stream that the loop is done with end before position t. *)
Before(s, t) == {x \in Abstract!ToAnswer(s) : x < t}

(* b is what follows position t of s, where a line begins. *)
Rest(s, t, b) == /\ Len(s) = t + Len(b)
                 /\ \A i \in DOMAIN b : s[t + i] = b[i]
                 /\ t = 0 \/ s[t] = Newline

AllBlank(l) == \A i \in DOMAIN l : l[i] = Blank

(* l is the line of s that ends with the newline at t, and has an answer. *)
InHand(s, t, l) ==
  /\ t \in Abstract!ToAnswer(s)
  /\ \E b \in 0..(t - 1) : Abstract!IsLine(s, b, t) /\ l = Abstract!Line(s, b, t)

taken == Len(received) - Len(buffer)

(* Every line taken has its reply, but the one in hand. *)
OnTrack ==
  /\ taken \in Nat /\ Rest(received, taken, buffer)
  /\ pc \in {"recv", "split", "overflow"}
       => Cardinality(Before(received, taken + 1)) = Len(replies)
  /\ pc \in {"process", "send"} => /\ Cardinality(Before(received, taken)) = Len(replies)
                                   /\ InHand(received, taken, line)
  /\ pc = "send" => reply \in Abstract!Answers(line)
  /\ pc = "overflow" => Len(buffer) > MaxRequest /\ ~HasNewline(buffer)

(* The specification of lines counts as this module does. *)
LEMMA SameCount == \A S : Abstract!Cardinality(S) = Cardinality(S)
  BY DEF Abstract!Cardinality, Cardinality

LEMMA BeforeIsFinite ==
  ASSUME NEW s \in Seq(Byte), NEW t \in Int
  PROVE  IsFiniteSet(Before(s, t)) /\ IsFiniteSet(Abstract!ToAnswer(s))
<1>1. IsFiniteSet(1..Len(s))
  BY FS_Interval
<1>2. Before(s, t) \in SUBSET (1..Len(s)) /\ Abstract!ToAnswer(s) \in SUBSET (1..Len(s))
  BY DEF Before, Abstract!ToAnswer
<1> QED
  BY <1>1, <1>2, FS_Subset

(* What arrives later does not change the lines that are there. *)
LEMMA LaterBytes ==
  ASSUME NEW s \in Seq(Byte), NEW c \in Seq(Byte), NEW t \in Int, t <= Len(s) + 1
  PROVE  Before(s \o c, t) = Before(s, t)
<1> DEFINE u == s \o c
<1>1. /\ u \in Seq(Byte) /\ Len(u) = Len(s) + Len(c) /\ Len(s) \in Nat /\ Len(c) \in Nat
      /\ DOMAIN s = 1..Len(s) /\ DOMAIN u = 1..Len(u)
  OBVIOUS
<1>2. \A i \in 1..Len(s) : u[i] = s[i]
  OBVIOUS
<1> HIDE DEF u
<1>3. ASSUME NEW x, x \in Before(s, t) PROVE x \in Before(u, t)
  <2>1. x \in 1..Len(s) /\ x < t /\ s[x] = Newline
    BY <1>1, <1>3 DEF Before, Abstract!ToAnswer
  <2>2. PICK i \in 1..(x - 1) : s[i] # Blank /\ \A j \in i..(x - 1) : s[j] # Newline
    BY <1>3 DEF Before, Abstract!ToAnswer
  <2>3. u[i] # Blank /\ \A j \in i..(x - 1) : u[j] # Newline
    BY <1>1, <1>2, <2>1, <2>2
  <2>4. x \in DOMAIN u /\ u[x] = Newline
    BY <1>1, <1>2, <2>1
  <2> QED
    BY <2>1, <2>2, <2>3, <2>4 DEF Before, Abstract!ToAnswer
<1>4. ASSUME NEW x, x \in Before(u, t) PROVE x \in Before(s, t)
  <2>1. x \in 1..Len(s) /\ x < t /\ u[x] = Newline
    BY <1>1, <1>2, <1>4 DEF Before, Abstract!ToAnswer
  <2>2. PICK i \in 1..(x - 1) : u[i] # Blank /\ \A j \in i..(x - 1) : u[j] # Newline
    BY <1>4 DEF Before, Abstract!ToAnswer
  <2>3. s[i] # Blank /\ \A j \in i..(x - 1) : s[j] # Newline
    BY <1>1, <1>2, <2>1, <2>2
  <2> QED
    BY <1>1, <1>2, <2>1, <2>2, <2>3 DEF Before, Abstract!ToAnswer
<1> QED
  BY <1>3, <1>4 DEF u

(* Without a newline between them, two positions have the same lines before. *)
LEMMA NoLineBetween ==
  ASSUME NEW s \in Seq(Byte), NEW t \in Int, NEW e \in Int, t < e,
         \A i \in DOMAIN s : t < i /\ i < e => s[i] # Newline
  PROVE  Before(s, e) = Before(s, t + 1)
<1>1. DOMAIN s = 1..Len(s) /\ Len(s) \in Nat
  OBVIOUS
<1>2. \A x \in Abstract!ToAnswer(s) : x \in DOMAIN s /\ x \in Int /\ s[x] = Newline
  BY <1>1 DEF Abstract!ToAnswer
<1>3. \A x \in Abstract!ToAnswer(s) : x < e <=> x < t + 1
  BY <1>2
<1> QED
  BY <1>3 DEF Before

(* After the last newline the lines are complete. *)
LEMMA AllLines ==
  ASSUME NEW s \in Seq(Byte), NEW t \in Int,
         \A i \in DOMAIN s : t < i => s[i] # Newline
  PROVE  Before(s, t + 1) = Abstract!ToAnswer(s)
<1>1. DOMAIN s = 1..Len(s) /\ Len(s) \in Nat
  OBVIOUS
<1>2. \A x \in Abstract!ToAnswer(s) : x \in DOMAIN s /\ x \in Int /\ s[x] = Newline
  BY <1>1 DEF Abstract!ToAnswer
<1>3. \A x \in Abstract!ToAnswer(s) : x < t + 1
  BY <1>2
<1> QED
  BY <1>3 DEF Before

(* The line that ends at e is one more, unless it is blank. *)
LEMMA OneMoreLine ==
  ASSUME NEW s \in Seq(Byte), NEW e \in Int
  PROVE  /\ e \in Abstract!ToAnswer(s)
              => Cardinality(Before(s, e + 1)) = Cardinality(Before(s, e)) + 1
         /\ e \notin Abstract!ToAnswer(s) => Before(s, e + 1) = Before(s, e)
<1>1. \A x \in Abstract!ToAnswer(s) : x \in Int
  BY DEF Abstract!ToAnswer
<1>2. CASE e \in Abstract!ToAnswer(s)
  <2>1. \A x \in Abstract!ToAnswer(s) : x < e + 1 <=> x < e \/ x = e
    BY <1>1
  <2>2. Before(s, e + 1) = Before(s, e) \cup {e}
    BY <1>2, <2>1 DEF Before
  <2>4. e \notin Before(s, e)
    BY DEF Before
  <2>3. IsFiniteSet(Before(s, e))
    BY BeforeIsFinite
  <2> QED
    BY <1>2, <2>2, <2>3, <2>4, FS_AddElement
<1>3. CASE e \notin Abstract!ToAnswer(s)
  <2>1. \A x \in Abstract!ToAnswer(s) : x < e + 1 <=> x < e
    BY <1>1, <1>3
  <2> QED
    BY <1>3, <2>1 DEF Before
<1> QED
  BY <1>2, <1>3

(* A line that follows position t has an answer when it is not blank. *)
LEMMA BlankOrNot ==
  ASSUME NEW s \in Seq(Byte), NEW t \in 0..Len(s), NEW e \in (t + 1)..Len(s),
         t = 0 \/ s[t] = Newline, s[e] = Newline,
         \A i \in (t + 1)..(e - 1) : s[i] # Newline
  PROVE  e \in Abstract!ToAnswer(s) <=> \E i \in (t + 1)..(e - 1) : s[i] # Blank
<1>1. DOMAIN s = 1..Len(s) /\ Len(s) \in Nat /\ e \in DOMAIN s
  OBVIOUS
<1>2. ASSUME NEW i \in (t + 1)..(e - 1), s[i] # Blank
      PROVE  e \in Abstract!ToAnswer(s)
  <2>1. i \in 1..(e - 1) /\ \A j \in i..(e - 1) : s[j] # Newline
    BY <1>1
  <2> QED
    BY <1>1, <1>2, <2>1 DEF Abstract!ToAnswer
<1>3. ASSUME e \in Abstract!ToAnswer(s)
      PROVE  \E i \in (t + 1)..(e - 1) : s[i] # Blank
  <2>1. PICK i \in 1..(e - 1) : s[i] # Blank /\ \A j \in i..(e - 1) : s[j] # Newline
    BY <1>3 DEF Abstract!ToAnswer
  <2>2. i > t
    <3> SUFFICES ASSUME i <= t PROVE FALSE
      BY <1>1, <2>1
    <3>1. t \in i..(e - 1) /\ t # 0
      BY <1>1, <2>1
    <3> QED
      BY <2>1, <3>1
  <2> QED
    BY <1>1, <2>1, <2>2
<1> QED
  BY <1>2, <1>3

(* A part of a sequence, cut out. *)
LEMMA Cut ==
  ASSUME NEW s \in Seq(Byte), NEW m \in 1..(Len(s) + 1), NEW n \in (m - 1)..Len(s)
  PROVE  /\ SubSeq(s, m, n) \in Seq(Byte)
         /\ Len(SubSeq(s, m, n)) = n - m + 1
         /\ DOMAIN SubSeq(s, m, n) = 1..(n - m + 1)
         /\ \A i \in 1..(n - m + 1) : SubSeq(s, m, n)[i] = s[m + i - 1]
<1>1. Len(s) \in Nat /\ m \in Int /\ n \in Int
  OBVIOUS
<1>2. SubSeq(s, m, n) \in Seq(Byte) /\ Len(SubSeq(s, m, n)) = n - m + 1
  BY <1>1, SubSeqProperties
<1>3. DOMAIN SubSeq(s, m, n) = 1..(n - m + 1)
  BY <1>2, LenProperties
<1>4. \A i \in 1..(n - m + 1) : SubSeq(s, m, n)[i] = s[m + i - 1]
  BY <1>1, SubSeqProperties
<1> QED
  BY <1>2, <1>3, <1>4

(* The first line of the buffer, cut off, is the next line of the stream. *)
LEMMA FirstLine ==
  ASSUME NEW s \in Seq(Byte), NEW t \in Nat, NEW b \in Seq(Byte), Rest(s, t, b),
         NEW end \in 1..Len(b), FirstNewline(b, end), NEW e \in Nat, e = t + end
  PROVE  /\ Rest(s, e, SubSeq(b, end + 1, Len(b)))
         /\ AllBlank(SubSeq(b, 1, end - 1)) => Before(s, e + 1) = Before(s, t + 1)
         /\ ~AllBlank(SubSeq(b, 1, end - 1))
              => InHand(s, e, SubSeq(b, 1, end - 1)) /\ Before(s, e) = Before(s, t + 1)
<1> DEFINE first == SubSeq(b, 1, end - 1)
           left == SubSeq(b, end + 1, Len(b))
<1>1. /\ DOMAIN s = 1..Len(s) /\ Len(s) \in Nat /\ DOMAIN b = 1..Len(b) /\ Len(b) \in Nat
      /\ Len(s) = t + Len(b) /\ end \in Int /\ end >= 1 /\ end <= Len(b)
  BY DEF Rest
<1>2. t \in 0..Len(s) /\ e \in (t + 1)..Len(s) /\ t < e /\ t \in 0..(e - 1)
  BY <1>1
<1>3. \A i \in 1..Len(b) : s[t + i] = b[i]
  BY <1>1 DEF Rest
<1>4. t = 0 \/ s[t] = Newline
  BY DEF Rest
<1>5. s[e] = Newline
  BY <1>1, <1>3 DEF FirstNewline
<1>6. ASSUME NEW i \in (t + 1)..(e - 1)
      PROVE  i - t \in 1..(end - 1) /\ s[i] = b[i - t]
  <2>1. i - t \in 1..(end - 1) /\ i - t \in 1..Len(b) /\ t + (i - t) = i
    BY <1>1
  <2> QED
    BY <1>3, <2>1
<1>7. \A i \in (t + 1)..(e - 1) : s[i] # Newline
  BY <1>6 DEF FirstNewline
<1>8. /\ first \in Seq(Byte) /\ Len(first) = end - 1 /\ DOMAIN first = 1..(end - 1)
      /\ \A i \in 1..(end - 1) : first[i] = b[i]
  <2>1. 1 \in 1..(Len(b) + 1) /\ end - 1 \in (1 - 1)..Len(b)
        /\ (end - 1) - 1 + 1 = end - 1 /\ \A i \in Int : 1 + i - 1 = i
    BY <1>1
  <2> QED
    BY <2>1, Cut
<1>9. /\ left \in Seq(Byte) /\ Len(left) = Len(b) - end /\ DOMAIN left = 1..(Len(b) - end)
      /\ \A i \in 1..(Len(b) - end) : left[i] = b[end + i]
  <2>1. end + 1 \in 1..(Len(b) + 1) /\ Len(b) \in ((end + 1) - 1)..Len(b)
        /\ Len(b) - (end + 1) + 1 = Len(b) - end
        /\ \A i \in 1..(Len(b) - end) : (end + 1) + i - 1 = end + i
    BY <1>1
  <2>2. /\ left \in Seq(Byte) /\ Len(left) = Len(b) - (end + 1) + 1
        /\ DOMAIN left = 1..(Len(b) - (end + 1) + 1)
        /\ \A i \in 1..(Len(b) - (end + 1) + 1) : left[i] = b[(end + 1) + i - 1]
    BY <2>1, Cut
  <2> HIDE DEF left
  <2> QED
    BY <2>1, <2>2
<1>10. SubSeq(s, t + 1, e - 1) = first
  <2>1. t + 1 \in 1..(Len(s) + 1) /\ e - 1 \in ((t + 1) - 1)..Len(s)
        /\ (e - 1) - (t + 1) + 1 = end - 1 /\ \A i \in Int : (t + 1) + i - 1 = t + i
    BY <1>1, <1>2
  <2>2. /\ SubSeq(s, t + 1, e - 1) \in Seq(Byte)
        /\ Len(SubSeq(s, t + 1, e - 1)) = end - 1
        /\ \A i \in 1..(end - 1) : SubSeq(s, t + 1, e - 1)[i] = s[t + i]
    BY <2>1, Cut
  <2>3. \A i \in 1..(end - 1) : i \in 1..Len(b)
    BY <1>1
  <2>4. \A i \in 1..(end - 1) : SubSeq(s, t + 1, e - 1)[i] = first[i]
    BY <1>3, <1>8, <2>2, <2>3
  <2> HIDE DEF first
  <2> QED
    BY <1>8, <2>2, <2>4, SeqEqual
<1> HIDE DEF first, left
<1>11. Rest(s, e, left)
  <2>1. Len(s) = e + Len(left)
    BY <1>1, <1>9
  <2>2. ASSUME NEW i \in DOMAIN left PROVE s[e + i] = left[i]
    <3>1. i \in 1..(Len(b) - end) /\ end + i \in 1..Len(b) /\ e + i = t + (end + i)
      BY <1>1, <1>9
    <3> QED
      BY <1>3, <1>9, <3>1
  <2> QED
    BY <1>5, <2>1, <2>2 DEF Rest
<1>12. Before(s, e) = Before(s, t + 1)
  <2>1. \A i \in DOMAIN s : t < i /\ i < e => s[i] # Newline
    BY <1>1, <1>7
  <2> QED
    BY <1>2, <2>1, NoLineBetween
<1>13. e \in Abstract!ToAnswer(s) <=> \E i \in (t + 1)..(e - 1) : s[i] # Blank
  BY <1>2, <1>4, <1>5, <1>7, BlankOrNot
<1>14. ASSUME AllBlank(first) PROVE Before(s, e + 1) = Before(s, t + 1)
  <2>1. ASSUME NEW i \in (t + 1)..(e - 1) PROVE s[i] = Blank
    BY <1>6, <1>8, <1>14 DEF AllBlank
  <2>2. Before(s, e + 1) = Before(s, e)
    BY <1>13, <2>1, OneMoreLine
  <2> QED
    BY <1>12, <2>2
<1>15. ASSUME ~AllBlank(first) PROVE InHand(s, e, first)
  <2>1. PICK k \in 1..(end - 1) : first[k] # Blank
    BY <1>8, <1>15 DEF AllBlank
  <2>2. t + k \in (t + 1)..(e - 1) /\ k \in 1..Len(b)
    BY <1>1
  <2>3. e \in Abstract!ToAnswer(s)
    BY <1>3, <1>8, <1>13, <2>1, <2>2
  <2>4. Abstract!IsLine(s, t, e) /\ first = Abstract!Line(s, t, e)
    BY <1>4, <1>5, <1>7, <1>10 DEF Abstract!IsLine, Abstract!Line
  <2> QED
    BY <1>2, <2>3, <2>4 DEF InHand
<1> QED
  BY <1>11, <1>12, <1>14, <1>15 DEF first, left

(* What is read follows the stream on both sides. *)
LEMMA OneMoreChunk ==
  ASSUME NEW s \in Seq(Byte), NEW t \in Nat, NEW b \in Seq(Byte), Rest(s, t, b),
         NEW c \in Seq(Byte)
  PROVE  Rest(s \o c, t, b \o c) /\ Before(s \o c, t + 1) = Before(s, t + 1)
<1>1. /\ Len(s) \in Nat /\ Len(b) \in Nat /\ Len(c) \in Nat /\ Len(s) = t + Len(b)
      /\ DOMAIN b = 1..Len(b)
  BY DEF Rest
<1>2. /\ Len(s \o c) = Len(s) + Len(c)
      /\ \A i \in 1..(Len(s) + Len(c)) : (s \o c)[i] = IF i <= Len(s) THEN s[i] ELSE c[i - Len(s)]
  BY <1>1
<1>3. /\ Len(b \o c) = Len(b) + Len(c) /\ DOMAIN (b \o c) = 1..(Len(b) + Len(c))
      /\ \A i \in 1..(Len(b) + Len(c)) : (b \o c)[i] = IF i <= Len(b) THEN b[i] ELSE c[i - Len(b)]
  BY <1>1
<1>4. ASSUME NEW i \in 1..(Len(b) + Len(c)) PROVE (s \o c)[t + i] = (b \o c)[i]
  <2>1. t + i \in 1..(Len(s) + Len(c)) /\ (t + i <= Len(s) <=> i <= Len(b))
        /\ (t + i) - Len(s) = i - Len(b) /\ (i <= Len(b) => i \in DOMAIN b)
    BY <1>1
  <2>2. i <= Len(b) => s[t + i] = b[i]
    BY <2>1 DEF Rest
  <2> QED
    BY <1>2, <1>3, <2>1, <2>2
<1>5. t = 0 \/ (s \o c)[t] = Newline
  <2>1. t = 0 \/ s[t] = Newline
    BY DEF Rest
  <2>2. t # 0 => t \in 1..(Len(s) + Len(c)) /\ t <= Len(s)
    BY <1>1
  <2> QED
    BY <1>2, <2>1, <2>2
<1>6. Rest(s \o c, t, b \o c)
  BY <1>1, <1>2, <1>3, <1>4, <1>5 DEF Rest
<1>7. Before(s \o c, t + 1) = Before(s, t + 1)
  BY <1>1, LaterBytes
<1> QED
  BY <1>6, <1>7

(* What a loop that is on track has in hand, by where it is. *)
LEMMA InitOnTrack == ASSUME Init PROVE OnTrack /\ Abstract!Init
<1>1. received = <<>> /\ buffer = <<>> /\ replies = <<>> /\ pc = "recv"
  BY DEF Init
<1>2. Len(received) = 0 /\ DOMAIN received = {} /\ Len(buffer) = 0 /\ DOMAIN buffer = {}
      /\ Len(replies) = 0
  BY <1>1
<1>3. Before(received, taken + 1) = {}
  BY <1>2 DEF Before, Abstract!ToAnswer
<1>4. taken = 0
  BY <1>2 DEF taken
<1>5. Rest(received, taken, buffer)
  BY <1>2, <1>4 DEF Rest
<1>6. (pc # "closed") = TRUE
  BY <1>1
<1> QED
  BY <1>1, <1>2, <1>3, <1>4, <1>5, <1>6, FS_EmptySet DEF OnTrack, Abstract!Init

LEMMA RecvStep ==
  ASSUME IInv, OnTrack, NEW chunk \in Chunks, Recv(chunk)
  PROVE  OnTrack' /\ Abstract!Receive
<1>1. received \in Seq(Byte) /\ buffer \in Seq(Byte) /\ chunk \in Seq(Byte)
      /\ taken \in Nat /\ Rest(received, taken, buffer)
      /\ pc = "recv" /\ Cardinality(Before(received, taken + 1)) = Len(replies)
  BY ChunkType DEF IInv, TypeOK, OnTrack, Recv, Goto
<1>2. /\ received' = received \o chunk /\ buffer' = buffer \o chunk
      /\ UNCHANGED <<line, reply, replies>>
      /\ pc' = IF Len(buffer') > MaxRequest /\ ~HasNewline(buffer') THEN "overflow" ELSE "split"
  BY DEF Recv, Goto
<1>3. Rest(received', taken, buffer') /\ Before(received', taken + 1) = Before(received, taken + 1)
  BY <1>1, <1>2, OneMoreChunk
<1>4. received' \in Seq(Byte) /\ buffer' \in Seq(Byte)
  BY <1>1, <1>2
<1>5. taken' = taken
  <2>1. Len(received') = taken + Len(buffer') /\ Len(buffer') \in Nat
    BY <1>3, <1>4 DEF Rest
  <2>2. taken' = Len(received') - Len(buffer')
    BY DEF taken
  <2> QED
    BY <1>1, <2>1, <2>2
<1>6. OnTrack'
  <2>1. (HasNewline(buffer))' <=> HasNewline(buffer')
    BY DEF HasNewline
  <2> QED
    BY <1>1, <1>2, <1>3, <1>5, <2>1 DEF OnTrack
<1>7. Abstract!Receive
  <2>1. Len(received') = Len(received) + Len(chunk) /\ Len(chunk) \in Nat /\ Len(received) \in Nat
        /\ DOMAIN received = 1..Len(received)
    BY <1>1, <1>2
  <2>2. \A i \in DOMAIN received : received'[i] = received[i]
    BY <1>1, <1>2, <2>1
  <2>3. pc # "closed" /\ pc' # "closed"
    BY <1>1, <1>2
  <2>4. received' \in Seq(Abstract!Byte)
    BY <1>4 DEF Byte, Abstract!Byte
  <2>5. (pc' # "closed") = (pc # "closed")
    BY <2>3
  <2> QED
    BY <1>2, <2>1, <2>2, <2>3, <2>4, <2>5 DEF Abstract!Receive
<1> QED
  BY <1>6, <1>7

LEMMA SplitStep ==
  ASSUME IInv, OnTrack, Split
  PROVE  OnTrack' /\ UNCHANGED Abstract!lineVars
<1>1. PICK end \in DOMAIN buffer :
         /\ FirstNewline(buffer, end)
         /\ buffer' = SubSeq(buffer, end + 1, Len(buffer))
         /\ IF AllBlank(SubSeq(buffer, 1, end - 1))
              THEN Goto("split", "split") /\ UNCHANGED line
              ELSE Goto("split", "process") /\ line' = SubSeq(buffer, 1, end - 1)
  BY DEF Split, AllBlank
<1>2. received \in Seq(Byte) /\ buffer \in Seq(Byte) /\ end \in 1..Len(buffer)
      /\ taken \in Nat /\ Rest(received, taken, buffer) /\ taken + end \in Nat
  <2>1. received \in Seq(Byte) /\ buffer \in Seq(Byte) /\ end \in 1..Len(buffer)
    BY DEF IInv, TypeOK
  <2>2. taken \in Nat /\ Rest(received, taken, buffer)
    BY DEF OnTrack
  <2> QED
    BY <2>1, <2>2
<1>3. pc = "split" /\ pc' \in {"split", "process"} /\ UNCHANGED <<received, reply, replies>>
  BY <1>1 DEF Split, Goto
<1>4. Cardinality(Before(received, taken + 1)) = Len(replies)
  BY <1>3 DEF OnTrack
<1>5. PICK e \in Nat : e = taken + end
  BY <1>2
<1> DEFINE first == SubSeq(buffer, 1, end - 1)
<1>6. /\ Rest(received, e, buffer')
      /\ AllBlank(first) => Before(received, e + 1) = Before(received, taken + 1)
      /\ ~AllBlank(first)
           => InHand(received, e, first) /\ Before(received, e) = Before(received, taken + 1)
  BY <1>1, <1>2, <1>5, FirstLine
<1>7. taken' = e
  <2>1. buffer' \in Seq(Byte) /\ Len(buffer') \in Nat
    BY <1>1, <1>2
  <2>2. Len(received') = e + Len(buffer')
    BY <1>3, <1>6 DEF Rest
  <2>3. taken' = Len(received') - Len(buffer')
    BY DEF taken
  <2> QED
    BY <1>2, <2>1, <2>2, <2>3
<1>8. /\ taken' \in Nat /\ Rest(received', taken', buffer')
      /\ pc' = "split" => Cardinality(Before(received', taken' + 1)) = Len(replies')
      /\ pc' = "process" => /\ Cardinality(Before(received', taken')) = Len(replies')
                            /\ InHand(received', taken', line')
  <2>1. taken' \in Nat /\ Rest(received', taken', buffer')
    BY <1>2, <1>3, <1>6, <1>7
  <2>2. CASE AllBlank(first)
    <3>1. pc' = "split"
      BY <1>1, <2>2 DEF Goto
    <3>2. Before(received, e + 1) = Before(received, taken + 1)
      BY <1>6, <2>2
    <3> HIDE DEF first
    <3> QED
      BY <1>3, <1>4, <1>7, <2>1, <3>1, <3>2
  <2>3. CASE ~AllBlank(first)
    <3>1. pc' = "process" /\ line' = first
      BY <1>1, <2>3 DEF Goto
    <3>2. InHand(received, e, first) /\ Before(received, e) = Before(received, taken + 1)
      BY <1>6, <2>3
    <3> HIDE DEF first
    <3> QED
      BY <1>3, <1>4, <1>7, <2>1, <3>1, <3>2
  <2> QED
    BY <2>2, <2>3
<1>9. OnTrack'
  BY <1>3, <1>8 DEF OnTrack
<1>10. UNCHANGED Abstract!lineVars
  <2>1. (pc' # "closed") = (pc # "closed")
    BY <1>3
  <2> QED
    BY <1>3, <2>1 DEF Abstract!lineVars
<1> QED
  BY <1>9, <1>10

LEMMA ReadMoreStep ==
  ASSUME OnTrack, ReadMore \/ UNCHANGED vars
  PROVE  OnTrack' /\ UNCHANGED Abstract!lineVars
<1>1. UNCHANGED <<received, buffer, line, reply, replies>>
  BY DEF ReadMore, vars
<1>2. pc' = pc \/ (pc = "split" /\ pc' = "recv")
  BY DEF ReadMore, Goto, vars
<1>3. taken' = taken
  BY <1>1 DEF taken
<1>4. OnTrack'
  BY <1>1, <1>2, <1>3 DEF OnTrack, HasNewline
<1>5. (pc' # "closed") = (pc # "closed")
  BY <1>2
<1> QED
  BY <1>1, <1>4, <1>5 DEF Abstract!lineVars

LEMMA ProcessStep ==
  ASSUME OnTrack, Process
  PROVE  OnTrack' /\ UNCHANGED Abstract!lineVars
<1>1. UNCHANGED <<received, buffer, line, replies>> /\ pc = "process" /\ pc' = "send"
  BY DEF Process, Goto
<1>2. taken' = taken
  BY <1>1 DEF taken
<1>3. reply' \in Abstract!Answers(line)
  BY DEF Process, TooLarge, IsRequest, Abstract!Answers, Abstract!IsRequest
<1>4. OnTrack'
  BY <1>1, <1>2, <1>3 DEF OnTrack
<1>5. (pc' # "closed") = (pc # "closed")
  BY <1>1
<1> QED
  BY <1>1, <1>4, <1>5 DEF Abstract!lineVars

LEMMA SendStep ==
  ASSUME IInv, OnTrack, Send
  PROVE  OnTrack' /\ Abstract!Answer
<1>1. UNCHANGED <<received, buffer, line, reply>> /\ pc = "send" /\ pc' = "split"
      /\ replies' = Append(replies, reply)
  BY DEF Send, Goto
<1>2. /\ received \in Seq(Byte) /\ taken \in Nat /\ Rest(received, taken, buffer)
      /\ Cardinality(Before(received, taken)) = Len(replies)
      /\ InHand(received, taken, line) /\ reply \in Abstract!Answers(line)
      /\ replies \in Seq(Codes) /\ reply \in Codes
  BY <1>1 DEF IInv, TypeOK, OnTrack
<1>3. taken' = taken
  BY <1>1 DEF taken
<1>4. OnTrack'
  <2>1. taken \in Abstract!ToAnswer(received)
    BY <1>2 DEF InHand
  <2>2. Cardinality(Before(received, taken + 1)) = Cardinality(Before(received, taken)) + 1
    BY <1>2, <2>1, OneMoreLine
  <2>3. Len(replies') = Len(replies) + 1
    BY <1>1, <1>2
  <2> QED
    BY <1>1, <1>2, <1>3, <2>2, <2>3 DEF OnTrack
<1>5. Abstract!Answer
  <2>1. taken \in Abstract!ToAnswer(received)
        /\ Cardinality({x \in Abstract!ToAnswer(received) : x < taken}) = Len(replies)
    BY <1>2 DEF InHand, Before
  <2>2. PICK b \in 0..(taken - 1) : /\ Abstract!IsLine(received, b, taken)
                                    /\ line = Abstract!Line(received, b, taken)
    BY <1>2 DEF InHand
  <2>3. \E r \in Abstract!Answers(Abstract!Line(received, b, taken)) : replies' = Append(replies, r)
    BY <1>1, <1>2, <2>2
  <2>4. pc # "closed" /\ (pc' # "closed") = (pc # "closed")
    BY <1>1
  <2> QED
    BY <1>1, <2>1, <2>2, <2>3, <2>4, SameCount DEF Abstract!Answer
<1> QED
  BY <1>4, <1>5

LEMMA OverflowStep ==
  ASSUME IInv, OnTrack, Overflow
  PROVE  OnTrack' /\ Abstract!Overflow
<1>1. UNCHANGED <<received, buffer, line, reply>> /\ pc = "overflow" /\ pc' = "closed"
      /\ replies' = Append(replies, "REQUEST_TOO_LARGE")
  BY DEF Overflow, Goto
<1>2. /\ received \in Seq(Byte) /\ buffer \in Seq(Byte)
      /\ taken \in Nat /\ Rest(received, taken, buffer)
      /\ Cardinality(Before(received, taken + 1)) = Len(replies)
      /\ Len(buffer) > MaxRequest /\ \A i \in DOMAIN buffer : buffer[i] # Newline
  BY <1>1 DEF IInv, TypeOK, OnTrack, HasNewline
<1>3. /\ DOMAIN received = 1..Len(received) /\ Len(received) \in Nat
      /\ DOMAIN buffer = 1..Len(buffer) /\ Len(buffer) \in Nat /\ Len(received) = taken + Len(buffer)
      /\ \A i \in 1..Len(buffer) : received[taken + i] = buffer[i]
  <2>1. /\ DOMAIN received = 1..Len(received) /\ Len(received) \in Nat
        /\ DOMAIN buffer = 1..Len(buffer) /\ Len(buffer) \in Nat
    BY <1>2
  <2> QED
    BY <1>2, <2>1 DEF Rest
<1>4. taken' = taken
  BY <1>1 DEF taken
<1>5. OnTrack'
  BY <1>1, <1>2, <1>4 DEF OnTrack
<1>6. ASSUME NEW i \in DOMAIN received, taken < i PROVE received[i] # Newline
  <2>1. i - taken \in 1..Len(buffer) /\ taken + (i - taken) = i
    BY <1>2, <1>3, <1>6
  <2> QED
    BY <1>2, <1>3, <2>1
<1>7. Len(replies) = Cardinality(Abstract!ToAnswer(received))
  <2>1. Before(received, taken + 1) = Abstract!ToAnswer(received)
    BY <1>2, <1>6, AllLines
  <2> QED
    BY <1>2, <2>1
<1>8. Abstract!Overlong(received)
  <2>1. taken + 1 \in DOMAIN received /\ Len(received) - (taken + 1) >= MaxRequest
    BY <1>2, <1>3, StreamAssumption
  <2>2. \A j \in (taken + 1)..Len(received) : received[j] # Newline
    BY <1>2, <1>3, <1>6
  <2> QED
    BY <2>1, <2>2 DEF Abstract!Overlong
<1>9. pc # "closed" /\ (pc' # "closed") = FALSE
  BY <1>1
<1> QED
  BY <1>1, <1>5, <1>7, <1>8, <1>9, SameCount DEF Abstract!Overflow

LEMMA LostStep ==
  ASSUME OnTrack, Lost
  PROVE  OnTrack' /\ Abstract!Close
<1>1. UNCHANGED <<received, buffer, line, reply, replies>> /\ pc # "closed" /\ pc' = "closed"
  BY DEF Lost
<1>2. taken' = taken
  BY <1>1 DEF taken
<1>3. OnTrack'
  BY <1>1, <1>2 DEF OnTrack
<1>4. (pc' # "closed") = FALSE
  BY <1>1
<1> QED
  BY <1>1, <1>3, <1>4 DEF Abstract!Close

LEMMA Step ==
  ASSUME IInv, OnTrack, [Next]_vars
  PROVE  OnTrack' /\ [Abstract!Next]_Abstract!lineVars
<1>1. ASSUME NEW chunk \in Chunks, Recv(chunk) PROVE OnTrack' /\ Abstract!Receive
  BY <1>1, RecvStep
<1>2. Split \/ ReadMore \/ Process \/ UNCHANGED vars => OnTrack' /\ UNCHANGED Abstract!lineVars
  BY SplitStep, ReadMoreStep, ProcessStep
<1>3. Send => OnTrack' /\ Abstract!Answer
  BY SendStep
<1>4. Overflow => OnTrack' /\ Abstract!Overflow
  BY OverflowStep
<1>5. Lost => OnTrack' /\ Abstract!Close
  BY LostStep
<1> QED
  BY <1>1, <1>2, <1>3, <1>4, <1>5 DEF Next, Serve, Abstract!Next

(* rfcomm.py:319-342.  However the bytes are cut into chunks, and whenever the
   connection is lost, the replies are those of the lines of the stream: the
   request loop implements the server of lines. *)
THEOREM RepliesAreThoseOfTheLines == Spec => Framing
<1>1. Init => IInv /\ OnTrack /\ Abstract!Init
  BY InitIInv, InitOnTrack
<1>2. IInv /\ OnTrack /\ [Next]_vars => (IInv /\ OnTrack)' /\ [Abstract!Next]_Abstract!lineVars
  BY NextIInv, Step
<1> QED
  BY <1>1, <1>2, PTL DEF Spec, Framing, Abstract!Spec
=============================================================================
