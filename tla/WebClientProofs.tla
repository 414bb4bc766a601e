--------------------------- MODULE WebClientProofs ---------------------------
(***************************************************************************)
(* The two web clients.  RfcommClient, for any number of requests and      *)
(* links: what the page has, what is on the wire and what the server still *)
(* has to answer are in the order of the requests, and no older than the   *)
(* reads that failed.  BluetoothClient, for any number of devices          *)
(* and buttons and any losses of links: its types always, and, while one   *)
(* action runs at a time, what its banner and its handles promise.         *)
(***************************************************************************)
EXTENDS RfcommClient, BluetoothClient, SequenceTheorems, NaturalsInduction,
        WellFoundedInduction, TLAPS

(* What is under way, in its order: the pieces the page has, those on the wire,
   and the requests on the server.  A tail ends its line. *)
Follows(a, b) == a.number <= b.number /\ (a.part = "tail" => a.number < b.number)
Ordered(p) == \A i, j \in DOMAIN p : i < j => Follows(p[i], p[j])
InTurn(b, w, r) ==
  /\ Ordered(b) /\ Ordered(w)
  /\ \A i \in DOMAIN b, j \in DOMAIN w : Follows(b[i], w[j])
  /\ \A k \in DOMAIN r : /\ \A i \in DOMAIN b : b[i].number < r[k]
                         /\ \A i \in DOMAIN w : w[i].number < r[k]
                         /\ \A m \in DOMAIN r : k < m => r[k] < r[m]
Numbers(b, w, r) == {b[i].number : i \in DOMAIN b} \cup {w[i].number : i \in DOMAIN w}
                    \cup {r[i] : i \in DOMAIN r}

(* x is y without its first elements. *)
Suffix(x, y) == \E m \in Nat : /\ Len(y) = m + Len(x)
                               /\ \A i \in DOMAIN x : m + i \in DOMAIN y /\ x[i] = y[m + i]

LEMMA Dropped ==
  ASSUME NEW b \in Seq(Piece), NEW w \in Seq(Piece), NEW r \in Seq(Number), InTurn(b, w, r),
         NEW c \in Seq(Piece), NEW x \in Seq(Piece), Suffix(c, b), Suffix(x, w)
  PROVE  InTurn(c, x, r) /\ Numbers(c, x, r) \subseteq Numbers(b, w, r)
<1>1. PICK m \in Nat : \A i \in DOMAIN c : m + i \in DOMAIN b /\ c[i] = b[m + i]
  BY DEF Suffix
<1>2. PICK n \in Nat : \A i \in DOMAIN x : n + i \in DOMAIN w /\ x[i] = w[n + i]
  BY DEF Suffix
<1>3. \A i \in DOMAIN c : i \in Nat
  OBVIOUS
<1>4. \A i \in DOMAIN x : i \in Nat
  OBVIOUS
<1>5. Ordered(c)
  <2>1. ASSUME NEW i \in DOMAIN c, NEW j \in DOMAIN c, i < j PROVE Follows(c[i], c[j])
    <3>1. m + i < m + j /\ m + i \in DOMAIN b /\ m + j \in DOMAIN b
      BY <1>1, <1>3, <2>1
    <3>2. Follows(b[m + i], b[m + j])
      BY <3>1 DEF InTurn, Ordered
    <3> QED
      BY <1>1, <3>2
  <2> QED
    BY <2>1 DEF Ordered
<1>6. Ordered(x)
  <2>1. ASSUME NEW i \in DOMAIN x, NEW j \in DOMAIN x, i < j PROVE Follows(x[i], x[j])
    <3>1. n + i < n + j /\ n + i \in DOMAIN w /\ n + j \in DOMAIN w
      BY <1>2, <1>4, <2>1
    <3>2. Follows(w[n + i], w[n + j])
      BY <3>1 DEF InTurn, Ordered
    <3> QED
      BY <1>2, <3>2
  <2> QED
    BY <2>1 DEF Ordered
<1>7. \A i \in DOMAIN c, j \in DOMAIN x : Follows(c[i], x[j])
  BY <1>1, <1>2 DEF InTurn
<1>8. InTurn(c, x, r)
  BY <1>1, <1>2, <1>5, <1>6, <1>7 DEF InTurn
<1>9. Numbers(c, x, r) \subseteq Numbers(b, w, r)
  BY <1>1, <1>2 DEF Numbers
<1> QED
  BY <1>8, <1>9

LEMMA Suffixes ==
  ASSUME NEW s \in Seq(Piece)
  PROVE  /\ Suffix(s, s) /\ <<>> \in Seq(Piece) /\ Suffix(<<>>, s)
         /\ \A n \in 0..Len(s) : /\ SubSeq(s, n + 1, Len(s)) \in Seq(Piece)
                                 /\ Suffix(SubSeq(s, n + 1, Len(s)), s)
<1>1. Suffix(s, s)
  <2>1. Len(s) = 0 + Len(s) /\ \A i \in DOMAIN s : 0 + i \in DOMAIN s /\ s[i] = s[0 + i]
    OBVIOUS
  <2> QED
    BY <2>1 DEF Suffix
<1>2. <<>> \in Seq(Piece) /\ Suffix(<<>>, s)
  <2>1. Len(s) \in Nat /\ Len(<<>>) = 0 /\ DOMAIN <<>> = {} /\ <<>> \in Seq(Piece)
    OBVIOUS
  <2> QED
    BY <2>1 DEF Suffix
<1>3. ASSUME NEW n \in 0..Len(s)
      PROVE  SubSeq(s, n + 1, Len(s)) \in Seq(Piece) /\ Suffix(SubSeq(s, n + 1, Len(s)), s)
  <2> DEFINE c == SubSeq(s, n + 1, Len(s))
  <2>1. /\ Len(s) \in Nat /\ n \in Nat /\ n + 1 \in Int /\ DOMAIN s = 1..Len(s)
        /\ \A i \in (n + 1)..Len(s) : s[i] \in Piece
    BY ElementOfSeq
  <2>2. /\ c \in Seq(Piece)
        /\ Len(c) = IF n + 1 <= Len(s) THEN Len(s) - (n + 1) + 1 ELSE 0
        /\ \A i \in 1..(Len(s) - (n + 1) + 1) : c[i] = s[(n + 1) + i - 1]
    BY <2>1, SubSeqProperties
  <2> HIDE DEF c
  <2>3. Len(c) = Len(s) - n /\ Len(s) = n + Len(c)
    <3>1. Len(s) \in Nat /\ n \in Nat /\ n <= Len(s)
      BY <2>1
    <3>2. n = Len(s) \/ n + 1 <= Len(s)
      BY <3>1
    <3>3. Len(c) = IF n + 1 <= Len(s) THEN Len(s) - (n + 1) + 1 ELSE 0
      BY <2>2
    <3> QED
      BY <3>1, <3>2, <3>3
  <2>4. DOMAIN c = 1..(Len(s) - n)
    <3>1. DOMAIN c = 1..Len(c)
      BY <2>2, LenProperties
    <3> QED
      BY <2>3, <3>1
  <2>5. ASSUME NEW i \in DOMAIN c PROVE n + i \in DOMAIN s /\ c[i] = s[n + i]
    <3>1. i \in 1..(Len(s) - (n + 1) + 1) /\ (n + 1) + i - 1 = n + i /\ n + i \in 1..Len(s)
      BY <2>1, <2>4
    <3> QED
      BY <2>1, <2>2, <3>1
  <2> QED
    BY <2>1, <2>2, <2>3, <2>5 DEF Suffix, c
<1> QED
  BY <1>1, <1>2, <1>3

(* What the page reads from the wire keeps its place. *)
LEMMA Read ==
  ASSUME NEW b \in Seq(Piece), NEW w \in Seq(Piece), NEW r \in Seq(Number), InTurn(b, w, r),
         NEW n \in 1..Len(w)
  PROVE  LET c == b \o SubSeq(w, 1, n)
             x == SubSeq(w, n + 1, Len(w))
         IN  /\ c \in Seq(Piece) /\ x \in Seq(Piece)
             /\ InTurn(c, x, r) /\ Numbers(c, x, r) \subseteq Numbers(b, w, r)
<1> DEFINE a == SubSeq(w, 1, n)
           c == b \o a
           x == SubSeq(w, n + 1, Len(w))
<1>1. /\ Len(w) \in Nat /\ n \in Nat /\ DOMAIN w = 1..Len(w) /\ Len(b) \in Nat /\ DOMAIN b = 1..Len(b)
      /\ \A i \in 1..n : w[i] \in Piece
  BY ElementOfSeq
<1>2. /\ a \in Seq(Piece) /\ Len(a) = n /\ \A i \in 1..n : a[i] = w[i]
  <2>1. /\ a \in Seq(Piece) /\ Len(a) = IF 1 <= n THEN n - 1 + 1 ELSE 0
        /\ \A i \in 1..(n - 1 + 1) : a[i] = w[1 + i - 1]
    BY <1>1, SubSeqProperties
  <2> HIDE DEF a
  <2> QED
    BY <1>1, <2>1
<1>3. PICK m \in Nat : /\ Len(w) = m + Len(x)
                       /\ \A i \in DOMAIN x : m + i \in DOMAIN w /\ x[i] = w[m + i]
  <2>1. n \in 0..Len(w)
    BY <1>1
  <2> QED
    BY <2>1, Suffixes DEF Suffix
<1>4. x \in Seq(Piece) /\ m = n
  <2>1. n \in 0..Len(w) /\ \A i \in (n + 1)..Len(w) : w[i] \in Piece
    BY <1>1, ElementOfSeq
  <2>2. x \in Seq(Piece)
    BY <2>1, Suffixes
  <2>3. Len(x) = IF n + 1 <= Len(w) THEN Len(w) - (n + 1) + 1 ELSE 0
    BY <1>1, <2>1, SubSeqProperties
  <2>4. Len(x) = Len(w) - n
    <3>1. Len(w) \in Nat /\ n \in Nat /\ n <= Len(w)
      BY <1>1
    <3>2. n = Len(w) \/ n + 1 <= Len(w)
      BY <3>1
    <3>3. Len(x) = IF n + 1 <= Len(w) THEN Len(w) - (n + 1) + 1 ELSE 0
      BY <2>3
    <3> QED
      BY <3>1, <3>2, <3>3
  <2> HIDE DEF x
  <2> QED
    BY <1>1, <1>3, <2>2, <2>4
<1> HIDE DEF a, x, c
<1>5. /\ c \in Seq(Piece) /\ DOMAIN c = 1..(Len(b) + n)
      /\ \A i \in 1..(Len(b) + n) : c[i] = IF i <= Len(b) THEN b[i] ELSE a[i - Len(b)]
  <2>1. c = b \o a
    BY DEF c
  <2>2. c \in Seq(Piece) /\ Len(c) = Len(b) + n
    BY <1>2, <2>1, ConcatProperties
  <2>3. DOMAIN c = 1..(Len(b) + n)
    BY <2>2
  <2>4. \A i \in 1..(Len(b) + n) : c[i] = IF i <= Len(b) THEN b[i] ELSE a[i - Len(b)]
    BY <1>2, <2>1, ConcatProperties
  <2> QED
    BY <2>2, <2>3, <2>4
<1>6. ASSUME NEW i \in DOMAIN c
      PROVE  \/ i \in DOMAIN b /\ c[i] = b[i]
             \/ i > Len(b) /\ i - Len(b) \in 1..n /\ i - Len(b) \in DOMAIN w /\ c[i] = w[i - Len(b)]
  BY <1>1, <1>2, <1>5
<1>7. \A i \in DOMAIN x : n + i \in DOMAIN w /\ x[i] = w[n + i] /\ i \in Nat /\ i > 0
  <2>1. DOMAIN x = 1..Len(x)
    BY <1>4
  <2> QED
    BY <1>3, <1>4, <2>1
<1>8. Ordered(c)
  <2>1. ASSUME NEW i \in DOMAIN c, NEW j \in DOMAIN c, i < j PROVE Follows(c[i], c[j])
    <3>1. i \in Nat /\ j \in Nat
      BY <1>5
    <3>2. CASE j \in DOMAIN b /\ c[j] = b[j]
      <4>1. i \in DOMAIN b /\ c[i] = b[i]
        BY <1>1, <1>6, <2>1, <3>1, <3>2
      <4> QED
        BY <2>1, <3>2, <4>1 DEF InTurn, Ordered
    <3>3. CASE j - Len(b) \in DOMAIN w /\ c[j] = w[j - Len(b)]
      <4>1. CASE i \in DOMAIN b /\ c[i] = b[i]
        BY <3>3, <4>1 DEF InTurn
      <4>2. CASE i - Len(b) \in DOMAIN w /\ c[i] = w[i - Len(b)]
        <5>1. i - Len(b) < j - Len(b)
          BY <1>1, <2>1, <3>1
        <5> QED
          BY <3>3, <4>2, <5>1 DEF InTurn, Ordered
      <4> QED
        BY <1>6, <4>1, <4>2
    <3> QED
      BY <1>6, <3>2, <3>3
  <2> QED
    BY <2>1 DEF Ordered
<1>9. Ordered(x)
  <2>1. ASSUME NEW i \in DOMAIN x, NEW j \in DOMAIN x, i < j PROVE Follows(x[i], x[j])
    <3>1. n + i < n + j /\ n + i \in DOMAIN w /\ n + j \in DOMAIN w
      BY <1>1, <1>7, <2>1
    <3>2. Follows(w[n + i], w[n + j])
      BY <3>1 DEF InTurn, Ordered
    <3> QED
      BY <1>7, <3>2
  <2> QED
    BY <2>1 DEF Ordered
<1>10. ASSUME NEW i \in DOMAIN c, NEW j \in DOMAIN x PROVE Follows(c[i], x[j])
  <2>1. n + j \in DOMAIN w /\ x[j] = w[n + j] /\ j \in Nat /\ j > 0
    BY <1>7
  <2>2. CASE i \in DOMAIN b /\ c[i] = b[i]
    BY <2>1, <2>2 DEF InTurn
  <2>3. CASE i - Len(b) \in 1..n /\ i - Len(b) \in DOMAIN w /\ c[i] = w[i - Len(b)]
    <3>1. i - Len(b) < n + j
      BY <1>1, <2>1, <2>3
    <3> QED
      BY <2>1, <2>3, <3>1 DEF InTurn, Ordered
  <2> QED
    BY <1>6, <2>2, <2>3
<1>11. InTurn(c, x, r)
  BY <1>6, <1>7, <1>8, <1>9, <1>10 DEF InTurn
<1>12. Numbers(c, x, r) \subseteq Numbers(b, w, r)
  <2>1. ASSUME NEW i \in DOMAIN c PROVE c[i].number \in Numbers(b, w, r)
    <3>1. CASE i \in DOMAIN b /\ c[i] = b[i]
      BY <3>1 DEF Numbers
    <3>2. CASE i - Len(b) \in DOMAIN w /\ c[i] = w[i - Len(b)]
      BY <3>2 DEF Numbers
    <3> QED
      BY <1>6, <3>1, <3>2
  <2>2. ASSUME NEW i \in DOMAIN x PROVE x[i].number \in Numbers(b, w, r)
    BY <1>7 DEF Numbers
  <2>3. \A i \in DOMAIN r : r[i] \in Numbers(b, w, r)
    BY DEF Numbers
  <2>4. ASSUME NEW y \in Numbers(c, x, r)
        PROVE  \/ \E i \in DOMAIN c : y = c[i].number
               \/ \E i \in DOMAIN x : y = x[i].number
               \/ \E i \in DOMAIN r : y = r[i]
    BY DEF Numbers
  <2> QED
    BY <2>1, <2>2, <2>3, <2>4
<1> QED
  BY <1>4, <1>5, <1>11, <1>12 DEF c, x, a

(* The variables are of their types; how often reads fail is bounded by Spent. *)
Types == /\ open \in BOOLEAN /\ eventDue \in BOOLEAN
         /\ links \in 0..MaxLinks /\ onLink \in 0..MaxLinks
         /\ requests \in Seq(Number) /\ wire \in Seq(Piece) /\ buffer \in Seq(Piece)
         /\ pc \in {"idle", "write", "read"}
         /\ request \in Number /\ failed \in Nat
         /\ shown \in [asked : Number, got : Number]
         /\ pc = "write" => request < MaxRequests

(* What is under way is newer than what was shown, and no older than the read
   that fails cost: a failed read leaves one answer behind. *)
Awaited == IF pc = "read" THEN request ELSE request + 1
Pending == /\ shown.got <= request
           /\ \A n \in Numbers(buffer, wire, requests) :
                shown.got < n /\ n <= request /\ Awaited <= n + failed

(* A read that was started on an earlier link keeps the new one unused. *)
OldLink == pc # "idle" /\ onLink # links => requests = <<>> /\ wire = <<>>

(* A failing read costs a request or a link. *)
Reading == IF pc = "read" THEN 1 ELSE 0
Unspent == IF open \/ (pc = "write" /\ onLink = links) THEN 1 ELSE 0
Spent == failed + Reading + Unspent <= request + links

UnderWay == InTurn(buffer, wire, requests) /\ Pending /\ OldLink
CInv == Types /\ UnderWay /\ Spent

LEMMA TypesSuffice == ASSUME CInv PROVE TypeOK
<1>1. failed \in Nat /\ request \in Nat /\ links \in Nat /\ request <= MaxRequests /\ links <= MaxLinks
  BY ClientAssumption DEF CInv, Types, Number
<1>2. failed <= request + links
  <2>1. failed + Reading + Unspent <= request + links /\ Reading \in Nat /\ Unspent \in Nat
    BY DEF CInv, Spent, Reading, Unspent
  <2> QED
    BY <1>1, <2>1
<1>3. failed \in 0..(MaxRequests + MaxLinks)
  BY <1>1, <1>2, ClientAssumption
<1> QED
  BY <1>3 DEF CInv, Types, TypeOK

LEMMA Initially == ASSUME Init PROVE CInv
<1>1. <<>> \in Seq(Number) /\ <<>> \in Seq(Piece) /\ DOMAIN <<>> = {} /\ 0 \in Number
  BY ClientAssumption DEF Number
<1>2. Types
  <2>1. 0 \in Nat /\ 0 \in 0..MaxLinks /\ 0 \in 0..MaxRequests
    BY ClientAssumption
  <2>2. [asked |-> 0, got |-> 0] \in [asked : Number, got : Number]
    BY <1>1
  <2> QED
    BY <1>1, <2>1, <2>2 DEF Init, Types
<1>3. Numbers(buffer, wire, requests) = {}
  BY <1>1 DEF Init, Numbers
<1>4. InTurn(buffer, wire, requests)
  BY <1>1 DEF Init, InTurn, Ordered
<1>5. Pending /\ OldLink /\ Spent
  BY <1>3 DEF Init, Pending, OldLink, Spent,
                Reading, Unspent
<1> QED
  BY <1>2, <1>4, <1>5 DEF CInv, UnderWay

LEMMA LineEndIsATail ==
  ASSUME NEW s \in Seq(Piece), HasLine(s)
  PROVE  LineEnd(s) \in DOMAIN s /\ s[LineEnd(s)].part = "tail"
<1> DEFINE S == {i \in DOMAIN s : s[i].part = "tail"}
           R == OpToRel(<, Nat)
<1>1. S \in SUBSET Nat /\ S # {} /\ DOMAIN s \subseteq Nat
  BY DEF HasLine
<1>2. \A a, b \in Nat : b < a => <<b, a>> \in R
  BY DEF OpToRel
<1>3. IsWellFoundedOn(R, Nat)
  BY NatLessThanWellFounded
<1> HIDE DEF R
<1>4. PICK i \in S : \A j \in S : ~(<<j, i>> \in R)
  BY <1>1, <1>3, WFMin
<1>5. i \in DOMAIN s /\ s[i].part = "tail" /\ i \in Nat /\ i \in 1..Len(s)
  BY <1>1, <1>4
<1>6. ASSUME NEW j \in 1..(i - 1) PROVE s[j].part # "tail"
  <2>1. j \in DOMAIN s /\ j \in Nat /\ j < i
    BY <1>5
  <2> QED
    BY <1>2, <1>4, <1>5, <2>1
<1> QED
  BY <1>5, <1>6 DEF LineEnd

(* A read that fails leaves a part of what was on the wire. *)
LEMMA AbandonKeeps ==
  ASSUME NEW b \in Seq(Piece), NEW rest \in Seq(Piece), NEW r \in Seq(Number),
         InTurn(b, rest, r), Abandon(rest)
  PROVE  /\ buffer' \in Seq(Piece) /\ wire' \in Seq(Piece) /\ InTurn(buffer', wire', r)
         /\ Numbers(buffer', wire', r) \subseteq Numbers(b, rest, r)
         /\ rest = <<>> => wire' = <<>>
<1>1. buffer' = <<>>
  BY DEF Abandon
<1>2. PICK n \in 0..Len(rest) : wire' = SubSeq(rest, n + 1, Len(rest))
  <2>1. Len(rest) \in Nat
    OBVIOUS
  <2> QED
    BY <2>1 DEF Abandon
<1>3. buffer' \in Seq(Piece) /\ Suffix(buffer', b) /\ wire' \in Seq(Piece) /\ Suffix(wire', rest)
  BY <1>1, <1>2, Suffixes
<1>4. rest = <<>> => wire' = <<>>
  <2> SUFFICES ASSUME rest = <<>> PROVE wire' = <<>>
    OBVIOUS
  <2>1. Len(rest) = 0
    OBVIOUS
  <2>2. n + 1 \in Int /\ Len(rest) \in Int /\ Len(rest) < n + 1
    BY <2>1
  <2> QED
    BY <1>2, <2>2, SubSeqEmpty
<1> QED
  BY <1>3, <1>4, Dropped

(* What readLine does with the bytes it has: it waits for more, or shows one of
   them and keeps what is newer, or fails. *)
LEMMA TakeKeeps ==
  ASSUME NEW bytes \in Seq(Piece), NEW rest \in Seq(Piece), NEW r \in Seq(Number),
         InTurn(bytes, rest, r), NEW asked, Take(bytes, rest, asked)
  PROVE  /\ buffer' \in Seq(Piece) /\ wire' \in Seq(Piece) /\ InTurn(buffer', wire', r)
         /\ Numbers(buffer', wire', r) \subseteq Numbers(bytes, rest, r)
         /\ \/ pc' = "read" /\ failed' = failed /\ shown' = shown
            \/ /\ pc' = "idle" /\ failed' = failed
               /\ \E g \in Numbers(bytes, rest, r) :
                    /\ shown' = [asked |-> asked, got |-> g]
                    /\ \A n \in Numbers(buffer', wire', r) : g < n
            \/ /\ pc' = "idle" /\ shown' = shown
               /\ failed' = IF onLink = links THEN failed + 1 ELSE failed
<1> DEFINE end == LineEnd(bytes)
<1>1. CASE ~HasLine(bytes)
  BY <1>1 DEF Take
<1>2. CASE HasLine(bytes) /\ Accepted(SubSeq(bytes, 1, end))
  <2>1. end \in DOMAIN bytes /\ bytes[end].part = "tail"
    BY <1>2, LineEndIsATail
  <2>2. /\ pc' = "idle" /\ wire' = rest /\ buffer' = SubSeq(bytes, end + 1, Len(bytes))
        /\ shown' = [asked |-> asked, got |-> bytes[end].number] /\ failed' = failed
    BY <1>2 DEF Take
  <2> HIDE DEF end
  <2>3. end \in 0..Len(bytes) /\ end \in Nat
    BY <2>1
  <2>4. buffer' \in Seq(Piece) /\ Suffix(buffer', bytes) /\ wire' \in Seq(Piece) /\ Suffix(wire', rest)
    BY <2>2, <2>3, Suffixes
  <2>5. InTurn(buffer', wire', r) /\ Numbers(buffer', wire', r) \subseteq Numbers(bytes, rest, r)
    BY <2>4, Dropped
  <2>6. bytes[end].number \in Numbers(bytes, rest, r)
    BY <2>1 DEF Numbers
  <2>7. ASSUME NEW i \in DOMAIN buffer' PROVE bytes[end].number < buffer'[i].number
    <3>1. /\ \A j \in (end + 1)..Len(bytes) : bytes[j] \in Piece
          /\ end + 1 \in Int /\ Len(bytes) \in Int
      BY <2>3, ElementOfSeq
    <3>2. /\ Len(buffer') = IF end + 1 <= Len(bytes) THEN Len(bytes) - (end + 1) + 1 ELSE 0
          /\ \A j \in 1..(Len(bytes) - (end + 1) + 1) : buffer'[j] = bytes[(end + 1) + j - 1]
      BY <2>2, <3>1, SubSeqProperties
    <3>3. Len(buffer') = Len(bytes) - end
      <4>1. Len(bytes) \in Nat /\ end \in Nat /\ end <= Len(bytes)
        BY <2>3
      <4>2. end = Len(bytes) \/ end + 1 <= Len(bytes)
        BY <4>1
      <4>3. Len(buffer') = IF end + 1 <= Len(bytes) THEN Len(bytes) - (end + 1) + 1 ELSE 0
        BY <3>2
      <4> QED
        BY <4>1, <4>2, <4>3
    <3>4. DOMAIN buffer' = 1..Len(buffer') /\ DOMAIN bytes = 1..Len(bytes)
      BY <2>4, LenProperties
    <3>5. i \in 1..(Len(bytes) - (end + 1) + 1) /\ (end + 1) + i - 1 = end + i
          /\ end + i \in DOMAIN bytes /\ end < end + i
      BY <2>3, <3>3, <3>4
    <3>6. buffer'[i] = bytes[end + i]
      BY <3>2, <3>5
    <3>7. Follows(bytes[end], bytes[end + i])
      BY <2>1, <3>5 DEF InTurn, Ordered
    <3> QED
      BY <2>1, <3>6, <3>7 DEF Follows
  <2>8. \A i \in DOMAIN wire' : bytes[end].number < wire'[i].number
    BY <2>1, <2>2 DEF InTurn, Follows
  <2>9. \A i \in DOMAIN r : bytes[end].number < r[i]
    BY <2>1 DEF InTurn
  <2>10. \A n \in Numbers(buffer', wire', r) : bytes[end].number < n
    BY <2>7, <2>8, <2>9 DEF Numbers
  <2> QED
    BY <2>2, <2>4, <2>5, <2>6, <2>10
<1>3. CASE HasLine(bytes) /\ ~Accepted(SubSeq(bytes, 1, end))
  <2>1. Abandon(rest)
    BY <1>3 DEF Take
  <2> QED
    BY <2>1, AbandonKeeps DEF Abandon
<1> QED
  BY <1>1, <1>2, <1>3

LEMMA NumbersAreNumbers ==
  ASSUME NEW b \in Seq(Piece), NEW w \in Seq(Piece), NEW r \in Seq(Number)
  PROVE  Numbers(b, w, r) \subseteq Number
<1>1. \A p \in Piece : p.number \in Number
  BY DEF Piece
<1>2. (\A i \in DOMAIN b : b[i] \in Piece) /\ (\A i \in DOMAIN w : w[i] \in Piece)
      /\ (\A i \in DOMAIN r : r[i] \in Number)
  OBVIOUS
<1> QED
  BY <1>1, <1>2 DEF Numbers

(* A read that looks at its bytes shows the answer to a newer request than it
   did, at most as many behind as reads have failed, or shows none. *)
LEMMA Looks ==
  ASSUME Types, onLink = links,
         NEW bytes \in Seq(Piece), NEW rest \in Seq(Piece), NEW r \in Seq(Number),
         InTurn(bytes, rest, r), NEW asked \in Number, Take(bytes, rest, asked),
         shown.got <= asked,
         \A n \in Numbers(bytes, rest, r) : shown.got < n /\ n <= asked /\ asked <= n + failed
  PROVE  /\ buffer' \in Seq(Piece) /\ wire' \in Seq(Piece) /\ InTurn(buffer', wire', r)
         /\ pc' \in {"idle", "read"} /\ failed' \in Nat
         /\ shown' \in [asked : Number, got : Number] /\ shown'.got <= asked
         /\ failed' + Reading' <= failed + 1
         /\ \A n \in Numbers(buffer', wire', r) :
              /\ shown'.got < n /\ n <= asked
              /\ (IF pc' = "read" THEN asked ELSE asked + 1) <= n + failed'
         /\ shown' # shown => shown'.got > shown.got /\ shown'.asked - shown'.got <= failed
<1>1. Numbers(bytes, rest, r) \subseteq Number /\ Number \subseteq Nat
  BY NumbersAreNumbers DEF Number
<1>2. /\ buffer' \in Seq(Piece) /\ wire' \in Seq(Piece) /\ InTurn(buffer', wire', r)
      /\ Numbers(buffer', wire', r) \subseteq Numbers(bytes, rest, r)
      /\ \/ pc' = "read" /\ failed' = failed /\ shown' = shown
         \/ /\ pc' = "idle" /\ failed' = failed
            /\ \E g \in Numbers(bytes, rest, r) :
                 /\ shown' = [asked |-> asked, got |-> g]
                 /\ \A n \in Numbers(buffer', wire', r) : g < n
         \/ /\ pc' = "idle" /\ shown' = shown
            /\ failed' = IF onLink = links THEN failed + 1 ELSE failed
  BY TakeKeeps
<1>3. failed \in Nat /\ shown \in [asked : Number, got : Number] /\ shown.got \in Nat /\ asked \in Nat
  BY <1>1 DEF Types
<1>4. CASE pc' = "read" /\ failed' = failed /\ shown' = shown
  <2>1. failed' + Reading' <= failed + 1
    BY <1>3, <1>4 DEF Reading
  <2> QED
    BY <1>1, <1>2, <1>3, <1>4, <2>1
<1>5. ASSUME pc' = "idle", failed' = failed, NEW g \in Numbers(bytes, rest, r),
             shown' = [asked |-> asked, got |-> g],
             \A n \in Numbers(buffer', wire', r) : g < n
      PROVE  /\ shown' \in [asked : Number, got : Number] /\ shown'.got <= asked
             /\ \A n \in Numbers(buffer', wire', r) :
                  shown'.got < n /\ n <= asked /\ asked + 1 <= n + failed'
             /\ shown'.got > shown.got /\ shown'.asked - shown'.got <= failed
  <2>1. g \in Number /\ g \in Nat /\ shown.got < g /\ g <= asked /\ asked <= g + failed
    BY <1>1
  <2>2. shown'.got = g /\ shown'.asked = asked /\ shown' \in [asked : Number, got : Number]
    BY <1>5, <2>1
  <2>3. asked - g <= failed
    BY <1>3, <2>1
  <2>4. ASSUME NEW n \in Numbers(buffer', wire', r)
        PROVE  g < n /\ n <= asked /\ asked + 1 <= n + failed
    BY <1>1, <1>2, <1>3, <1>5, <2>1
  <2> QED
    BY <1>5, <2>1, <2>2, <2>3, <2>4
<1>6. CASE pc' = "idle" /\ shown' = shown /\ failed' = failed + 1
  <2>1. \A a, f, n \in Nat : a <= n + f => a + 1 <= n + (f + 1)
    OBVIOUS
  <2>2. ASSUME NEW n \in Numbers(buffer', wire', r)
        PROVE  shown.got < n /\ n <= asked /\ asked + 1 <= n + (failed + 1)
    <3>1. n \in Nat /\ shown.got < n /\ n <= asked /\ asked <= n + failed
      BY <1>1, <1>2
    <3> QED
      BY <1>3, <2>1, <3>1
  <2>3. failed' + Reading' <= failed + 1 /\ failed' \in Nat
    BY <1>3, <1>6 DEF Reading
  <2> QED
    BY <1>2, <1>3, <1>6, <2>2, <2>3
<1>7. CASE pc' = "idle" /\ failed' = failed /\ \E g \in Numbers(bytes, rest, r) :
                 /\ shown' = [asked |-> asked, got |-> g]
                 /\ \A n \in Numbers(buffer', wire', r) : g < n
  <2>1. PICK g \in Numbers(bytes, rest, r) :
                 /\ shown' = [asked |-> asked, got |-> g]
                 /\ \A n \in Numbers(buffer', wire', r) : g < n
    BY <1>7
  <2>2. failed' + Reading' <= failed + 1 /\ failed' \in Nat
    BY <1>3, <1>7 DEF Reading
  <2> QED
    BY <1>2, <1>3, <1>5, <1>7, <2>1, <2>2
<1> QED
  BY <1>2, <1>4, <1>6, <1>7

-----------------------------------------------------------------------------
(* A request that is written is the newest. *)
LEMMA WriteInTurn ==
  ASSUME NEW b \in Seq(Piece), NEW w \in Seq(Piece), NEW r \in Seq(Number), InTurn(b, w, r),
         NEW n \in Number, \A m \in Numbers(b, w, r) : m < n
  PROVE  /\ Append(r, n) \in Seq(Number) /\ InTurn(b, w, Append(r, n))
         /\ Numbers(b, w, Append(r, n)) \subseteq Numbers(b, w, r) \cup {n}
<1> DEFINE q == Append(r, n)
<1>1. /\ q \in Seq(Number) /\ DOMAIN q = 1..(Len(r) + 1) /\ DOMAIN r = 1..Len(r) /\ Len(r) \in Nat
      /\ q[Len(r) + 1] = n /\ \A i \in 1..Len(r) : q[i] = r[i]
  OBVIOUS
<1> HIDE DEF q
<1>2. ASSUME NEW i \in DOMAIN q PROVE (i \in DOMAIN r /\ q[i] = r[i]) \/ (i = Len(r) + 1 /\ q[i] = n)
  BY <1>1
<1>3. /\ \A i \in DOMAIN b : b[i].number < n
      /\ \A i \in DOMAIN w : w[i].number < n
      /\ \A i \in DOMAIN r : r[i] < n
  BY DEF Numbers
<1>4. ASSUME NEW k \in DOMAIN q, NEW m \in DOMAIN q, k < m PROVE q[k] < q[m]
  <2>1. k \in DOMAIN r /\ q[k] = r[k]
    BY <1>1, <1>4
  <2> QED
    BY <1>2, <1>3, <1>4, <2>1 DEF InTurn
<1>5. ASSUME NEW k \in DOMAIN q
      PROVE  (\A i \in DOMAIN b : b[i].number < q[k]) /\ (\A i \in DOMAIN w : w[i].number < q[k])
  BY <1>2, <1>3 DEF InTurn
<1>6. InTurn(b, w, q)
  BY <1>4, <1>5 DEF InTurn
<1>7. ASSUME NEW y \in Numbers(b, w, q) PROVE y \in Numbers(b, w, r) \cup {n}
  BY <1>2 DEF Numbers
<1> QED
  BY <1>1, <1>6, <1>7 DEF q

(* The server's answer takes the place of the oldest request. *)
LEMMA AnswerInTurn ==
  ASSUME NEW b \in Seq(Piece), NEW w \in Seq(Piece), NEW r \in Seq(Number), InTurn(b, w, r),
         r # <<>>, NEW ok \in BOOLEAN
  PROVE  LET x == w \o << [number |-> Head(r), part |-> "head", ok |-> ok],
                          [number |-> Head(r), part |-> "tail", ok |-> ok] >>
         IN  /\ Tail(r) \in Seq(Number) /\ x \in Seq(Piece) /\ InTurn(b, x, Tail(r))
             /\ Numbers(b, x, Tail(r)) \subseteq Numbers(b, w, r)
<1> DEFINE h == [number |-> Head(r), part |-> "head", ok |-> ok]
           t == [number |-> Head(r), part |-> "tail", ok |-> ok]
           q == Tail(r)
           x == w \o <<h, t>>
<1>1. /\ DOMAIN r = 1..Len(r) /\ Len(r) \in Nat /\ 1 \in DOMAIN r /\ Head(r) = r[1] /\ r[1] \in Number
      /\ DOMAIN w = 1..Len(w) /\ Len(w) \in Nat
  OBVIOUS
<1>2. /\ q \in Seq(Number) /\ DOMAIN q = 1..(Len(r) - 1)
      /\ \A i \in 1..(Len(r) - 1) : q[i] = r[i + 1]
  BY <1>1
<1>3. /\ h \in Piece /\ h.number = r[1] /\ h.part = "head"
      /\ t \in Piece /\ t.number = r[1] /\ t.part = "tail"
  BY <1>1 DEF Piece
<1>4. Follows(h, t)
  <2>1. r[1] \in Nat
    BY <1>1 DEF Number
  <2> QED
    BY <1>3, <2>1 DEF Follows
<1>5. x = w \o <<h, t>>
  OBVIOUS
<1> HIDE DEF h, t, q, x
<1>6. /\ x \in Seq(Piece) /\ DOMAIN x = 1..(Len(w) + 2)
      /\ \A i \in 1..Len(w) : x[i] = w[i]
      /\ x[Len(w) + 1] = h /\ x[Len(w) + 2] = t
  <2>1. <<h, t>> \in Seq(Piece) /\ Len(<<h, t>>) = 2 /\ <<h, t>>[1] = h /\ <<h, t>>[2] = t
    BY <1>3
  <2> QED
    BY <1>1, <1>5, <2>1
<1>7. ASSUME NEW i \in DOMAIN x
      PROVE  \/ i \in DOMAIN w /\ x[i] = w[i]
             \/ i = Len(w) + 1 /\ x[i] = h
             \/ i = Len(w) + 2 /\ x[i] = t
  BY <1>1, <1>6
<1>8. ASSUME NEW i \in DOMAIN q PROVE i + 1 \in DOMAIN r /\ q[i] = r[i + 1] /\ 1 < i + 1 /\ r[1] < q[i]
  <2>1. i + 1 \in DOMAIN r /\ q[i] = r[i + 1] /\ 1 < i + 1
    BY <1>1, <1>2
  <2> QED
    BY <1>1, <2>1 DEF InTurn
<1>9. (\A i \in DOMAIN b : b[i].number < r[1]) /\ (\A i \in DOMAIN w : w[i].number < r[1])
  BY <1>1 DEF InTurn
<1>10. Number \subseteq Nat /\ \A p \in Piece : p.number \in Nat
  BY DEF Number, Piece
<1>11. ASSUME NEW p \in Piece, p.number < r[1] PROVE Follows(p, h) /\ Follows(p, t)
  BY <1>1, <1>3, <1>10, <1>11 DEF Follows
<1>12. Ordered(x)
  <2>1. ASSUME NEW i \in DOMAIN x, NEW j \in DOMAIN x, i < j PROVE Follows(x[i], x[j])
    <3>1. CASE j \in DOMAIN w /\ x[j] = w[j]
      <4>1. i \in DOMAIN w /\ x[i] = w[i]
        BY <1>1, <1>6, <2>1, <3>1
      <4> QED
        BY <2>1, <3>1, <4>1 DEF InTurn, Ordered
    <3>2. CASE j = Len(w) + 1 /\ x[j] = h
      <4>1. i \in DOMAIN w /\ x[i] = w[i]
        BY <1>1, <1>6, <2>1, <3>2
      <4> QED
        BY <1>9, <1>11, <3>2, <4>1
    <3>3. CASE j = Len(w) + 2 /\ x[j] = t
      <4>1. (i \in DOMAIN w /\ x[i] = w[i]) \/ x[i] = h
        BY <1>1, <1>6, <2>1, <3>3
      <4>2. i \in DOMAIN w /\ x[i] = w[i] => Follows(x[i], t)
        BY <1>9, <1>11
      <4> QED
        BY <1>4, <3>3, <4>1, <4>2
    <3> QED
      BY <1>7, <3>1, <3>2, <3>3
  <2> QED
    BY <2>1 DEF Ordered
<1>13. ASSUME NEW i \in DOMAIN b, NEW j \in DOMAIN x PROVE Follows(b[i], x[j])
  <2>1. b[i] \in Piece
    OBVIOUS
  <2> QED
    BY <1>7, <1>9, <1>11, <2>1 DEF InTurn
<1>14. ASSUME NEW k \in DOMAIN q
       PROVE  /\ \A i \in DOMAIN b : b[i].number < q[k]
              /\ \A i \in DOMAIN x : x[i].number < q[k]
              /\ \A m \in DOMAIN q : k < m => q[k] < q[m]
  <2>1. \A m \in DOMAIN q : k < m => k + 1 < m + 1
    BY <1>1, <1>2
  <2> QED
    BY <1>3, <1>7, <1>8, <2>1 DEF InTurn
<1>15. InTurn(b, x, q)
  BY <1>12, <1>13, <1>14 DEF InTurn
<1>16. Numbers(b, x, q) \subseteq Numbers(b, w, r)
  <2>1. ASSUME NEW i \in DOMAIN x PROVE x[i].number \in Numbers(b, w, r)
    BY <1>1, <1>3, <1>7 DEF Numbers
  <2>2. ASSUME NEW i \in DOMAIN q PROVE q[i] \in Numbers(b, w, r)
    BY <1>8 DEF Numbers
  <2>3. ASSUME NEW i \in DOMAIN b PROVE b[i].number \in Numbers(b, w, r)
    BY DEF Numbers
  <2>4. ASSUME NEW y \in Numbers(b, x, q)
        PROVE  \/ \E i \in DOMAIN b : y = b[i].number
               \/ \E i \in DOMAIN x : y = x[i].number
               \/ \E i \in DOMAIN q : y = q[i]
    BY DEF Numbers
  <2> QED
    BY <2>1, <2>2, <2>3, <2>4
<1> QED
  BY <1>2, <1>6, <1>15, <1>16 DEF q, x, h, t

(* Without a link nothing is on the server and nothing on the wire. *)
LEMMA Cut ==
  ASSUME NEW b \in Seq(Piece), NEW w \in Seq(Piece), NEW r \in Seq(Number), InTurn(b, w, r),
         NEW c \in Seq(Piece), c = b \/ c = <<>>
  PROVE  /\ <<>> \in Seq(Piece) /\ <<>> \in Seq(Number)
         /\ InTurn(c, <<>>, <<>>) /\ Numbers(c, <<>>, <<>>) \subseteq Numbers(b, w, r)
         /\ c = <<>> => Numbers(c, <<>>, <<>>) = {}
         /\ InTurn(c, w, r) /\ Numbers(c, w, r) \subseteq Numbers(b, w, r)
<1>1. DOMAIN <<>> = {} /\ <<>> \in Seq(Piece) /\ <<>> \in Seq(Number)
  OBVIOUS
<1>2. c = <<>> => DOMAIN c = {}
  BY <1>1
<1>3. InTurn(c, <<>>, <<>>) /\ InTurn(c, w, r)
  BY <1>1, <1>2 DEF InTurn, Ordered
<1>4. Numbers(c, <<>>, <<>>) \subseteq Numbers(b, w, r) /\ Numbers(c, w, r) \subseteq Numbers(b, w, r)
  BY <1>1, <1>2 DEF Numbers
<1>5. c = <<>> => Numbers(c, <<>>, <<>>) = {}
  BY <1>1, <1>2 DEF Numbers
<1> QED
  BY <1>1, <1>3, <1>4, <1>5


-----------------------------------------------------------------------------
LEMMA ConnectKeeps == ASSUME CInv, Connect PROVE CInv'
<1>1. Types /\ Spent /\ InTurn(buffer, wire, requests) /\ Pending
  BY DEF CInv, UnderWay
<1>2. /\ <<>> \in Seq(Piece) /\ <<>> \in Seq(Number)
      /\ InTurn(buffer, <<>>, <<>>)
      /\ Numbers(buffer, <<>>, <<>>) \subseteq Numbers(buffer, wire, requests)
      /\ buffer = <<>> => Numbers(buffer, <<>>, <<>>) = {}
  BY <1>1, Cut DEF Types
<1>3. Types' /\ OldLink'
  <2>1. links + 1 \in 0..MaxLinks /\ 0 \in Nat
    BY <1>1, ClientAssumption DEF Types, Connect
  <2> QED
    BY <1>1, <1>2, <2>1 DEF Types, Connect, OldLink
<1>4. Pending'
  BY <1>1, <1>2 DEF Connect, Pending, Awaited
<1>5. Spent'
  <2>1. failed \in Nat /\ request \in Nat /\ links \in Nat /\ failed' \in Nat /\ failed' <= failed
    BY <1>1 DEF Types, Number, Connect
  <2>2. /\ Reading \in Nat /\ Reading' = Reading /\ Unspent \in Nat /\ Unspent' = 1
        /\ request' = request /\ links' = links + 1
    BY DEF Reading, Unspent, Connect
  <2>3. failed + Reading + Unspent <= request + links
    BY <1>1 DEF Spent
  <2>4. \A f, g, r, u, q, l \in Nat :
          g <= f /\ f + r + u <= q + l => g + r + 1 <= q + (l + 1)
    OBVIOUS
  <2>5. failed' + Reading + 1 <= request + (links + 1)
    BY <2>1, <2>2, <2>3, <2>4
  <2> QED
    BY <2>2, <2>5 DEF Spent
<1>6. InTurn(buffer, wire, requests)'
  BY <1>2 DEF Connect
<1> QED
  BY <1>3, <1>4, <1>5, <1>6 DEF CInv, UnderWay

(* The link ends, or the read state is reset: what is under way only shrinks. *)
LEMMA EndKeeps ==
  ASSUME CInv, Disconnect \/ LinkLost \/ OnDisconnect
  PROVE  CInv'
<1>1. Types /\ Spent /\ InTurn(buffer, wire, requests) /\ Pending /\ OldLink
  BY DEF CInv, UnderWay
<1>2. /\ <<>> \in Seq(Piece) /\ <<>> \in Seq(Number)
      /\ buffer' = buffer \/ buffer' = <<>>
      /\ (wire' = wire /\ requests' = requests) \/ (wire' = <<>> /\ requests' = <<>>)
      /\ UNCHANGED <<links, pc, onLink, request, failed, shown>>
      /\ open' = open \/ ~open'
  BY DEF Disconnect, LinkLost, OnDisconnect, LinkEnds
<1>3. buffer' \in Seq(Piece) /\ wire' \in Seq(Piece) /\ requests' \in Seq(Number)
  BY <1>1, <1>2 DEF Types
<1>4. /\ InTurn(buffer', wire', requests')
      /\ Numbers(buffer', wire', requests') \subseteq Numbers(buffer, wire, requests)
  BY <1>1, <1>2, <1>3, Cut DEF Types
<1>5. Types'
  BY <1>1, <1>2, <1>3 DEF Types, Disconnect, LinkLost, OnDisconnect, LinkEnds
<1>6. Pending' /\ OldLink'
  BY <1>1, <1>2, <1>4 DEF Pending, Awaited, OldLink
<1>7. Spent'
  <2>1. failed \in Nat /\ request \in Nat /\ links \in Nat
    BY <1>1 DEF Types, Number
  <2>2. /\ Reading \in Nat /\ Reading' = Reading /\ Unspent \in Nat /\ Unspent' \in Nat
        /\ Unspent' <= Unspent
    BY <1>2 DEF Reading, Unspent
  <2>3. failed + Reading + Unspent <= request + links
    BY <1>1 DEF Spent
  <2>4. \A f, r, u, v, q, l \in Nat : v <= u /\ f + r + u <= q + l => f + r + v <= q + l
    OBVIOUS
  <2>5. failed + Reading + Unspent' <= request + links
    BY <2>1, <2>2, <2>3, <2>4
  <2> QED
    BY <1>2, <2>2, <2>5 DEF Spent
<1> QED
  BY <1>4, <1>5, <1>6, <1>7 DEF CInv, UnderWay

LEMMA ReadStatusKeeps == ASSUME CInv, ReadStatus PROVE CInv'
<1>1. Types /\ Spent /\ InTurn(buffer, wire, requests) /\ Pending /\ OldLink
  BY DEF CInv, UnderWay
<1>2. Types' /\ OldLink' /\ Pending' /\ InTurn(buffer, wire, requests)'
  BY <1>1 DEF Types, ReadStatus, OldLink, Pending, Awaited
<1>3. Spent'
  BY <1>1 DEF Spent, Reading, Unspent, ReadStatus
<1> QED
  BY <1>2, <1>3 DEF CInv, UnderWay

(* What a read does when it looks at its bytes, and what it then shows. *)
Shows == shown' # shown => shown'.got > shown.got /\ shown'.asked - shown'.got <= failed

LEMMA WrittenKeeps == ASSUME CInv, Written PROVE CInv' /\ Shows
<1>1. Types /\ Spent /\ InTurn(buffer, wire, requests) /\ Pending
  BY DEF CInv, UnderWay
<1>2. /\ pc = "write" /\ open /\ onLink = links /\ request' = request + 1
      /\ requests' = Append(requests, request + 1) /\ Take(buffer, wire, request + 1)
      /\ UNCHANGED <<open, links, eventDue, onLink>>
  BY DEF Written, Attached
<1>3. /\ request \in Nat /\ failed \in Nat /\ links \in Nat /\ shown.got \in Nat
      /\ request + 1 \in Number /\ Number \subseteq Nat
      /\ buffer \in Seq(Piece) /\ wire \in Seq(Piece) /\ requests \in Seq(Number)
  BY <1>1, <1>2, ClientAssumption DEF Types, Number
<1>4. Numbers(buffer, wire, requests) \subseteq Nat
  BY <1>3, NumbersAreNumbers
<1>5. \A n \in Numbers(buffer, wire, requests) : n < request + 1
  BY <1>1, <1>3, <1>4 DEF Pending
<1>6. /\ requests' \in Seq(Number) /\ InTurn(buffer, wire, requests')
      /\ Numbers(buffer, wire, requests') \subseteq Numbers(buffer, wire, requests) \cup {request + 1}
  BY <1>1, <1>2, <1>3, <1>5, WriteInTurn
<1>7. ASSUME NEW n \in Numbers(buffer, wire, requests')
      PROVE  shown.got < n /\ n <= request + 1 /\ request + 1 <= n + failed
  <2>1. CASE n = request + 1
    BY <1>1, <1>3, <2>1 DEF Pending
  <2>2. CASE n \in Numbers(buffer, wire, requests)
    <3>1. n \in Nat /\ shown.got < n /\ n <= request /\ Awaited <= n + failed
      BY <1>1, <1>4, <2>2 DEF Pending
    <3>2. Awaited = request + 1
      BY <1>2 DEF Awaited
    <3> QED
      BY <1>3, <3>1, <3>2
  <2> QED
    BY <1>6, <2>1, <2>2
<1>8. shown.got <= request + 1
  BY <1>1, <1>3 DEF Pending
<1>9. /\ buffer' \in Seq(Piece) /\ wire' \in Seq(Piece) /\ InTurn(buffer', wire', requests')
      /\ pc' \in {"idle", "read"} /\ failed' \in Nat
      /\ shown' \in [asked : Number, got : Number] /\ shown'.got <= request + 1
      /\ failed' + Reading' <= failed + 1
      /\ \A n \in Numbers(buffer', wire', requests') :
           /\ shown'.got < n /\ n <= request + 1
           /\ (IF pc' = "read" THEN request + 1 ELSE (request + 1) + 1) <= n + failed'
      /\ Shows
  BY <1>1, <1>2, <1>3, <1>6, <1>7, <1>8, Looks DEF Shows
<1>10. Types' /\ OldLink'
  BY <1>1, <1>2, <1>3, <1>6, <1>9 DEF Types, OldLink
<1>11. Pending'
  BY <1>2, <1>9 DEF Pending, Awaited
<1>12. Spent'
  <2>1. /\ Reading = 0 /\ Unspent = 1 /\ Reading' \in Nat /\ Unspent' = 1
        /\ request' = request + 1 /\ links' = links
    BY <1>2, <1>9 DEF Reading, Unspent
  <2>2. failed + 0 + 1 <= request + links
    BY <1>1, <2>1 DEF Spent
  <2>3. failed' \in Nat /\ failed' + Reading' <= failed + 1
    BY <1>9
  <2>4. \A f, g, r, q, l \in Nat :
          g + r <= f + 1 /\ f + 0 + 1 <= q + l => g + r + 1 <= (q + 1) + l
    OBVIOUS
  <2>5. failed' + Reading' + 1 <= (request + 1) + links
    BY <1>3, <2>1, <2>2, <2>3, <2>4
  <2> QED
    BY <2>1, <2>5 DEF Spent
<1> QED
  BY <1>9, <1>10, <1>11, <1>12 DEF CInv, UnderWay

LEMMA ReadChunkKeeps == ASSUME CInv, ReadChunk PROVE CInv' /\ Shows
<1>1. Types /\ Spent /\ InTurn(buffer, wire, requests) /\ Pending
  BY DEF CInv, UnderWay
<1>2. /\ pc = "read" /\ open /\ onLink = links
      /\ UNCHANGED <<open, links, eventDue, requests, onLink, request>>
  BY DEF ReadChunk, Attached
<1>3. PICK n \in 1..Len(wire) :
        Take(buffer \o SubSeq(wire, 1, n), SubSeq(wire, n + 1, Len(wire)), request)
  BY DEF ReadChunk
<1> DEFINE bytes == buffer \o SubSeq(wire, 1, n)
           rest == SubSeq(wire, n + 1, Len(wire))
<1>4. /\ request \in Nat /\ failed \in Nat /\ links \in Nat /\ shown.got \in Nat
      /\ request \in Number /\ Number \subseteq Nat
      /\ buffer \in Seq(Piece) /\ wire \in Seq(Piece) /\ requests \in Seq(Number)
  BY <1>1 DEF Types, Number
<1>5. Take(bytes, rest, request)
  BY <1>3
<1>6. /\ bytes \in Seq(Piece) /\ rest \in Seq(Piece) /\ InTurn(bytes, rest, requests)
      /\ Numbers(bytes, rest, requests) \subseteq Numbers(buffer, wire, requests)
  BY <1>1, <1>4, Read
<1> HIDE DEF bytes, rest
<1>7. \A m \in Numbers(bytes, rest, requests) :
        shown.got < m /\ m <= request /\ request <= m + failed
  BY <1>1, <1>2, <1>6 DEF Pending, Awaited
<1>8. /\ buffer' \in Seq(Piece) /\ wire' \in Seq(Piece) /\ InTurn(buffer', wire', requests)
      /\ pc' \in {"idle", "read"} /\ failed' \in Nat
      /\ shown' \in [asked : Number, got : Number] /\ shown'.got <= request
      /\ failed' + Reading' <= failed + 1
      /\ \A m \in Numbers(buffer', wire', requests) :
           /\ shown'.got < m /\ m <= request
           /\ (IF pc' = "read" THEN request ELSE request + 1) <= m + failed'
      /\ Shows
  BY <1>1, <1>2, <1>4, <1>5, <1>6, <1>7, Looks DEF Shows, Pending
<1>9. Types' /\ OldLink'
  BY <1>1, <1>2, <1>8 DEF Types, OldLink
<1>10. Pending'
  BY <1>2, <1>8 DEF Pending, Awaited
<1>11. Spent'
  <2>1. /\ Reading = 1 /\ Unspent = 1 /\ Reading' \in Nat /\ Unspent' = 1
        /\ request' = request /\ links' = links
    BY <1>2, <1>8 DEF Reading, Unspent
  <2>2. failed + 1 + 1 <= request + links
    BY <1>1, <2>1 DEF Spent
  <2>3. failed' \in Nat /\ failed' + Reading' <= failed + 1
    BY <1>8
  <2>4. \A f, g, r, q, l \in Nat : g + r <= f + 1 /\ f + 1 + 1 <= q + l => g + r + 1 <= q + l
    OBVIOUS
  <2>5. failed' + Reading' + 1 <= request + links
    BY <1>4, <2>1, <2>2, <2>3, <2>4
  <2> QED
    BY <2>1, <2>5 DEF Spent
<1>12. InTurn(buffer', wire', requests')
  BY <1>2, <1>8
<1> QED
  BY <1>8, <1>9, <1>10, <1>11, <1>12 DEF CInv, UnderWay

LEMMA WriteFailsKeeps == ASSUME CInv, WriteFails PROVE CInv'
<1>1. Types /\ Spent /\ InTurn(buffer, wire, requests) /\ Pending
  BY DEF CInv, UnderWay
<1>2. /\ pc = "write" /\ pc' = "idle" /\ (onLink = links => ~open)
      /\ failed' = IF onLink = links THEN failed + 1 ELSE failed
      /\ UNCHANGED <<open, links, eventDue, requests, wire, onLink, request, buffer, shown>>
  BY DEF WriteFails, Attached
<1>3. failed \in Nat /\ request \in Nat /\ links \in Nat /\ failed' \in Nat /\ failed <= failed'
  BY <1>1, <1>2 DEF Types, Number
<1>4. Types' /\ OldLink'
  BY <1>1, <1>2, <1>3 DEF Types, OldLink
<1>5. Pending'
  <2>1. Numbers(buffer, wire, requests) \subseteq Nat
    BY <1>1, NumbersAreNumbers DEF Types, Number
  <2>2. ASSUME NEW n \in Numbers(buffer, wire, requests)
        PROVE  shown.got < n /\ n <= request /\ request + 1 <= n + failed'
    <3>1. shown.got < n /\ n <= request /\ n \in Nat /\ request + 1 <= n + failed
      BY <1>1, <1>2, <2>1 DEF Pending, Awaited
    <3>2. \A f, g, m, q \in Nat : f <= g /\ q + 1 <= m + f => q + 1 <= m + g
      OBVIOUS
    <3>3. request + 1 <= n + failed'
      BY <1>3, <3>1, <3>2
    <3> QED
      BY <3>1, <3>3
  <2> QED
    BY <1>1, <1>2, <2>2 DEF Pending, Awaited
<1>6. Spent'
  <2>1. /\ Reading = 0 /\ Reading' = 0 /\ Unspent \in Nat /\ Unspent' \in Nat
        /\ request' = request /\ links' = links
    BY <1>2 DEF Reading, Unspent
  <2>2. failed' + Unspent' <= failed + Unspent
    <3>1. onLink = links => Unspent = 1 /\ Unspent' = 0
      BY <1>2 DEF Unspent
    <3>2. onLink # links => Unspent' = Unspent
      BY <1>2 DEF Unspent
    <3>3. \A f \in Nat : (f + 1) + 0 <= f + 1 /\ \A u \in Nat : f + u <= f + u
      OBVIOUS
    <3> QED
      BY <1>2, <1>3, <2>1, <3>1, <3>2, <3>3
  <2>3. failed + 0 + Unspent <= request + links
    BY <1>1, <2>1 DEF Spent
  <2>4. \A f, g, u, v, q, l \in Nat :
          g + v <= f + u /\ f + 0 + u <= q + l => g + 0 + v <= q + l
    OBVIOUS
  <2>5. failed' + 0 + Unspent' <= request + links
    BY <1>3, <2>1, <2>2, <2>3, <2>4
  <2> QED
    BY <2>1, <2>5 DEF Spent
<1>7. InTurn(buffer', wire', requests')
  BY <1>1, <1>2
<1> QED
  BY <1>4, <1>5, <1>6, <1>7 DEF CInv, UnderWay

LEMMA ReadFailsKeeps == ASSUME CInv, ReadFails PROVE CInv'
<1>1. Types /\ Spent /\ InTurn(buffer, wire, requests) /\ Pending /\ OldLink
  BY DEF CInv, UnderWay
<1>2. /\ pc = "read" /\ Abandon(wire) /\ pc' = "idle" /\ buffer' = <<>> /\ shown' = shown
      /\ failed' = IF onLink = links THEN failed + 1 ELSE failed
      /\ UNCHANGED <<open, links, eventDue, requests, onLink, request>>
  BY DEF ReadFails, Abandon
<1>3. /\ failed \in Nat /\ request \in Nat /\ links \in Nat /\ failed' \in Nat
      /\ buffer \in Seq(Piece) /\ wire \in Seq(Piece) /\ requests \in Seq(Number)
  BY <1>1, <1>2 DEF Types, Number
<1>4. /\ buffer' \in Seq(Piece) /\ wire' \in Seq(Piece) /\ InTurn(buffer', wire', requests)
      /\ Numbers(buffer', wire', requests) \subseteq Numbers(buffer, wire, requests)
      /\ wire = <<>> => wire' = <<>>
  BY <1>1, <1>2, <1>3, AbandonKeeps
<1>5. Types' /\ OldLink'
  BY <1>1, <1>2, <1>3, <1>4 DEF Types, OldLink
<1>6. ASSUME NEW n \in Numbers(buffer', wire', requests)
      PROVE  shown.got < n /\ n <= request /\ request + 1 <= n + failed'
  <2>1. n \in Nat /\ shown.got < n /\ n <= request /\ request <= n + failed
    <3>1. n \in Numbers(buffer, wire, requests)
      BY <1>4
    <3>2. n \in Nat
      BY <1>3, <3>1, NumbersAreNumbers DEF Number
    <3> QED
      BY <1>1, <1>2, <3>1, <3>2 DEF Pending, Awaited
  <2>2. CASE onLink = links
    BY <1>2, <1>3, <2>1, <2>2
  <2>3. CASE onLink # links
    <3>1. requests = <<>> /\ wire' = <<>> /\ buffer' = <<>>
      BY <1>1, <1>2, <1>4, <2>3 DEF OldLink
    <3>2. Numbers(buffer', wire', requests) = {}
      <4>1. <<>> \in Seq(Piece) /\ <<>> \in Seq(Number) /\ DOMAIN <<>> = {}
        OBVIOUS
      <4> QED
        BY <3>1, <4>1 DEF Numbers
    <3> QED
      BY <3>2
  <2> QED
    BY <2>2, <2>3
<1>7. Pending'
  BY <1>1, <1>2, <1>6 DEF Pending, Awaited
<1>8. Spent'
  <2>1. /\ Reading = 1 /\ Reading' = 0 /\ Unspent \in Nat /\ Unspent' = Unspent
        /\ request' = request /\ links' = links
    BY <1>2 DEF Reading, Unspent
  <2>2. failed + 1 + Unspent <= request + links
    BY <1>1, <2>1 DEF Spent
  <2>3. failed' <= failed + 1
    BY <1>2, <1>3
  <2>4. \A f, g, u, q, l \in Nat : g <= f + 1 /\ f + 1 + u <= q + l => g + 0 + u <= q + l
    OBVIOUS
  <2>5. failed' + 0 + Unspent <= request + links
    BY <1>3, <2>1, <2>2, <2>3, <2>4
  <2> QED
    BY <2>1, <2>5 DEF Spent
<1>9. InTurn(buffer', wire', requests')
  BY <1>2, <1>4
<1> QED
  BY <1>5, <1>7, <1>8, <1>9 DEF CInv, UnderWay

LEMMA AnswerKeeps == ASSUME CInv, Answer PROVE CInv'
<1>1. Types /\ Spent /\ InTurn(buffer, wire, requests) /\ Pending /\ OldLink
  BY DEF CInv, UnderWay
<1>2. /\ requests # <<>> /\ requests' = Tail(requests)
      /\ UNCHANGED <<open, links, eventDue, pc, onLink, request, buffer, failed, shown>>
  BY DEF Answer
<1>3. PICK ok \in BOOLEAN :
        wire' = wire \o << [number |-> Head(requests), part |-> "head", ok |-> ok],
                           [number |-> Head(requests), part |-> "tail", ok |-> ok] >>
  BY DEF Answer
<1>4. buffer \in Seq(Piece) /\ wire \in Seq(Piece) /\ requests \in Seq(Number)
  BY <1>1 DEF Types
<1>5. /\ requests' \in Seq(Number) /\ wire' \in Seq(Piece) /\ InTurn(buffer, wire', requests')
      /\ Numbers(buffer, wire', requests') \subseteq Numbers(buffer, wire, requests)
  BY <1>1, <1>2, <1>3, <1>4, AnswerInTurn
<1>6. Types' /\ OldLink'
  BY <1>1, <1>2, <1>5 DEF Types, OldLink
<1>7. Pending'
  BY <1>1, <1>2, <1>5 DEF Pending, Awaited
<1>8. Spent'
  BY <1>1, <1>2 DEF Spent, Reading, Unspent
<1> QED
  BY <1>2, <1>5, <1>6, <1>7, <1>8 DEF CInv, UnderWay

LEMMA StepKeeps == ASSUME CInv, [Next]_vars PROVE CInv' /\ Shows
<1>1. CASE Written
  BY <1>1, WrittenKeeps
<1>2. CASE ReadChunk
  BY <1>2, ReadChunkKeeps
<1>3. CASE \/ Connect \/ Disconnect \/ ReadStatus \/ WriteFails \/ ReadFails
           \/ LinkLost \/ OnDisconnect \/ Answer
  <2>1. CInv'
    BY <1>3, ConnectKeeps, EndKeeps, ReadStatusKeeps, WriteFailsKeeps, ReadFailsKeeps, AnswerKeeps
  <2>2. shown' = shown
    BY <1>3 DEF Connect, Disconnect, ReadStatus, WriteFails, ReadFails, Abandon, LinkLost,
                OnDisconnect,
                Answer
  <2> QED
    BY <2>1, <2>2 DEF Shows
<1>4. CASE UNCHANGED vars
  <2>1. CInv'
    BY <1>4 DEF vars, CInv, Types, UnderWay, InTurn, Ordered, Pending, Awaited, Numbers, OldLink,
                Spent,
                Reading, Unspent
  <2>2. shown' = shown
    BY <1>4 DEF vars
  <2> QED
    BY <2>1, <2>2 DEF Shows
<1> QED
  BY <1>1, <1>2, <1>3, <1>4 DEF Next, User, Page

(* rfcomm.mjs:160-243.  Types; and the reads that fail are at most the requests
   written and the links opened. *)
THEOREM TypeCorrect == Spec => []TypeOK
BY Initially, StepKeeps, TypesSuffice, PTL DEF Spec

(* rfcomm.mjs:206-243.  However reads are cut, time out or lose their link, and
   however often the port is opened again, no status is shown twice and none
   after a newer one. *)
THEOREM NewerEachTime == Spec => StatusesInOrder
<1>1. CInv /\ [Next]_vars => [shown' # shown => shown'.got > shown.got]_vars
  BY StepKeeps DEF Shows
<1> QED
  BY Initially, StepKeeps, <1>1, PTL DEF Spec, StatusesInOrder

(* rfcomm.mjs:206-243, 172-197.  A status is shown for a request at most as many
   requests after its own as reads have failed. *)
THEOREM AsOldAsFailures == Spec => LagWithinFailures
<1>1. CInv /\ [Next]_vars => [shown' # shown => shown'.asked - shown'.got <= failed]_vars
  BY StepKeeps DEF Shows
<1> QED
  BY Initially, StepKeeps, <1>1, PTL DEF Spec, LagWithinFailures

-----------------------------------------------------------------------------
(* GATT operations are only awaited on a device, and nothing is offered before
   there is one. *)
Targets == /\ offered # "none" => device # None
           /\ \A a \in Action :
                /\ awaiting[a] \in {"connect", "service", "chars"} => arg[a] \in Device
                /\ awaiting[a] = "read" /\ alive[a] => arg[a] \in Device

PageTypes == PageTypeOK /\ Targets

LEMMA InitialTypes == ASSUME PageInit PROVE PageTypes
BY DEF PageInit, PageTypes, PageTypeOK, Targets, Text

LEMMA ConnectTypes ==
  ASSUME PageTypes, NEW a \in Action, NEW d \in Device, ConnectTo(a, d), busy' \in BOOLEAN
  PROVE  PageTypes'
<1>1. tangled' \in BOOLEAN BY DEF ConnectTo, Accompanied
<1> QED BY <1>1, PageAssumption DEF PageTypes, PageTypeOK, Targets, ConnectTo, Await, Awaits

(* The buttons after an update are those of the handles and the link. *)
LEMMA Updated ==
  ASSUME UpdateControls
  PROVE  /\ offered' \in {"none", "reconnect", "refresh"}
         /\ offered' # "none" => device' # None
         /\ ~Connected' /\ device' # None => offered' = "reconnect"
BY DEF UpdateControls, Connected

LEMMA RefusedTypes == ASSUME PageTypes, NEW a \in Action, RefreshRefused(a) PROVE PageTypes'
BY Updated DEF RefreshRefused, PageTypes, PageTypeOK, Targets, Await, Awaits, Finish, Text, handles

LEMMA PressTypes ==
  ASSUME PageTypes, NEW a \in Action, Press(a)
  PROVE  PageTypes'
<1>1. CASE ChooseDevice(a)
  BY <1>1 DEF ChooseDevice, PageTypes, PageTypeOK, Targets, Await, Awaits, handles
<1>2. CASE ConnectRemembered(a) BY <1>2, ConnectTypes DEF ConnectRemembered
<1>3. CASE ReconnectCurrent(a)
  <2>1. device \in Device BY <1>3 DEF ReconnectCurrent, PageTypes, PageTypeOK, Targets
  <2> QED BY <1>3, <2>1, ConnectTypes DEF ReconnectCurrent
<1>4. CASE Refresh(a)
  BY <1>4 DEF Refresh, Connected, PageTypes, PageTypeOK, Targets, Await, Awaits, handles
<1> QED BY <1>1, <1>2, <1>3, <1>4, RefusedTypes DEF Press

LEMMA SettleTypes ==
  ASSUME PageTypes, NEW a \in Action, Settle(a)
  PROVE  PageTypes'
<1> USE DEF PageTypes, PageTypeOK, Targets, Await, Awaits, handles, Finish, Text
<1>1. CASE Chosen(a) BY <1>1, ConnectTypes DEF Chosen
<1>2. CASE ServerConnected(a) BY <1>2 DEF ServerConnected
<1>3. CASE ServiceFound(a) BY <1>3 DEF ServiceFound
<1>4. CASE CharacteristicsFound(a)
  <2>1. CASE Await(a, "read") /\ UNCHANGED <<busy, banner>>
    BY <1>4, <2>1, Updated DEF CharacteristicsFound
  <2>2. CASE Finish(a, Text("error", None))
    <3>1. Targets' BY <1>4, <2>2, Updated DEF CharacteristicsFound
    <3>2. PageTypeOK' BY <1>4, <2>2, Updated DEF CharacteristicsFound
    <3> QED BY <3>1, <3>2
  <2> QED BY <1>4, <2>1, <2>2 DEF CharacteristicsFound
<1>5. CASE StatusRead(a) BY <1>5, Updated DEF StatusRead
<1>6. CASE ConnectFails(a)
  <2>1. linked' \in [Device -> BOOLEAN] /\ alive' \in [Action -> BOOLEAN]
    <3>1. CASE linked[arg[a]]
      <4>1. linked' \in [Device -> BOOLEAN] BY <1>6, <3>1 DEF ConnectFails, LinkOver
      <4>2. alive' = [b \in Action |-> alive[b] /\ ~(arg[b] = arg[a] /\ awaiting[b] # "connect")]
        BY <1>6, <3>1 DEF ConnectFails, LinkOver
      <4> QED BY <4>1, <4>2
    <3>2. CASE ~linked[arg[a]] BY <1>6, <3>2 DEF ConnectFails
    <3> QED BY <3>1, <3>2
  <2>2. \A b \in Action : alive'[b] => alive[b] BY <1>6 DEF ConnectFails, LinkOver
  <2>3. PageTypeOK' BY <1>6, <2>1, Updated DEF ConnectFails, ForgetHandles
  <2>4. Targets' BY <1>6, <2>2, Updated DEF ConnectFails
  <2> QED BY <2>3, <2>4
<1>7. CASE ActionFails(a) BY <1>7, Updated DEF ActionFails
<1> QED BY <1>1, <1>2, <1>3, <1>4, <1>5, <1>6, <1>7 DEF Settle

LEMMA TypesKept == ASSUME PageTypes, [PageNext]_pageVars PROVE PageTypes'
<1>1. ASSUME NEW d \in Device, Disconnected(d) PROVE PageTypes'
  BY <1>1, Updated DEF Disconnected, HandleDisconnect, LinkOver, ForgetHandles, Dead, Text,
                       PageTypes, PageTypeOK, Targets
<1>2. CASE DisconnectCurrent
  <2>1. device \in Device BY <1>2 DEF DisconnectCurrent, PageTypes, PageTypeOK, Targets
  <2>2. CASE HandleDisconnect /\ UNCHANGED <<linked, alive>>
    BY <2>1, <2>2, Updated DEF HandleDisconnect, ForgetHandles, Text, PageTypes, PageTypeOK, Targets
  <2> QED BY <1>1, <1>2, <2>1, <2>2 DEF DisconnectCurrent
<1>3. CASE UNCHANGED pageVars BY <1>3 DEF pageVars, handles, PageTypes, PageTypeOK, Targets
<1> QED BY <1>1, <1>2, <1>3, PressTypes, SettleTypes DEF PageNext

(* app.mjs:218-228.  Whatever overlaps and whatever fails, every handle is of a
   device, and the busy flag is never left set when nothing runs. *)
THEOREM PageTypeCorrect == PageSpec => []PageTypeOK
<1>1. PageTypes => PageTypeOK BY DEF PageTypes
<1> QED BY <1>1, InitialTypes, TypesKept, PTL DEF PageSpec

-----------------------------------------------------------------------------
(* From a connect made alone on, and until a button of a remembered device is
   pressed over another action, the busy flag keeps every other action out. *)
OneAtATime == \A a \in Action : awaiting[a] # "idle" =>
                busy /\ \A b \in Action : awaiting[b] # "idle" => b = a

Gone == server = None /\ service = None /\ chars = None /\ (device # None => ~linked[device])
Whole == /\ device # None /\ linked[device]
         /\ server = device /\ service = device /\ chars = device

(* What an action has built when it waits: its handles are those of the device
   that is listened to, from the server on, as far as it came; or the link was
   lost at an await and the handler has dropped them all. *)
Built(a) ==
  /\ awaiting[a] = "choose" => Gone \/ Whole
  /\ awaiting[a] \in Awaits \ {"choose"} => device # None /\ arg[a] = device
  /\ awaiting[a] = "connect" => alive[a] /\ ~linked[device]
  /\ awaiting[a] \in {"service", "chars", "read"} =>
       IF alive[a] THEN linked[device] /\ server = device ELSE Gone
  /\ awaiting[a] \in {"chars", "read"} /\ alive[a] => service = device
  /\ awaiting[a] = "read" /\ alive[a] => chars = device

Progress == \A a \in Action : Built(a)

Order == OneAtATime /\ Progress /\ SettledBanner /\ NoHalfConnection

Links == ~tangled => Order

LEMMA InitialLinks == ASSUME PageInit PROVE Links
BY DEF PageInit, Links, Order, OneAtATime, Progress, Built, SettledBanner, NoHalfConnection,
       Text, Awaits

(* An idle page is connected altogether or not at all. *)
LEMMA Settled ==
  ASSUME Order, ~tangled, ~busy
  PROVE  /\ \A a \in Action : awaiting[a] = "idle"
         /\ Gone \/ Whole
BY DEF Order, OneAtATime, NoHalfConnection, Gone, Whole

(* An action that ends leaves nothing running. *)
LEMMA Ending ==
  ASSUME PageTypeOK, Order, NEW a \in Action,
         \A b \in Action : b # a => awaiting[b] = "idle",
         NEW text, Finish(a, text), (Gone \/ Whole)',
         banner'.state = "connected" =>
           Whole' /\ banner'.name = device' /\ displayed' = device',
         banner'.state # "disconnected"
  PROVE  Order'
<1>1. \A b \in Action : awaiting'[b] = "idle" BY DEF PageTypeOK, Finish, Await
<1>2. OneAtATime' /\ Progress' BY <1>1 DEF OneAtATime, Progress, Built, Awaits
<1>3. SettledBanner' /\ NoHalfConnection' BY DEF SettledBanner, NoHalfConnection, Gone, Whole
<1> QED BY <1>2, <1>3 DEF Order

-----------------------------------------------------------------------------
(* The first part of connect(), whoever calls it: made alone, it restores the
   order whatever actions that overlapped have left. *)
LEMMA ConnectToRestores ==
  ASSUME PageTypeOK, NEW a \in Action, NEW d \in Device, ConnectTo(a, d), busy' \in BOOLEAN
  PROVE  Links'
<1> SUFFICES ASSUME ~tangled' PROVE Order' BY DEF Links
<1>1. busy' /\ \A b \in Action : b # a => awaiting[b] = "idle"
  BY DEF ConnectTo, Accompanied
<1>2. OneAtATime' BY <1>1 DEF PageTypeOK, OneAtATime, ConnectTo, Await
<1>3. Progress'
  BY <1>1, PageAssumption DEF PageTypeOK, Progress, Built, ConnectTo, Await, Awaits, Gone
<1> QED BY <1>1, <1>2, <1>3 DEF Order, SettledBanner, NoHalfConnection

LEMMA PressKeeps ==
  ASSUME PageTypes, Links, NEW a \in Action, Press(a)
  PROVE  Links'
<1> SUFFICES ASSUME ~tangled' PROVE Links' BY DEF Links
<1>1. CASE ConnectRemembered(a)
  BY <1>1, ConnectToRestores DEF ConnectRemembered, PageTypes
<1>2. CASE ReconnectCurrent(a)
  <2>1. device \in Device BY <1>2 DEF ReconnectCurrent, PageTypes, PageTypeOK, Targets
  <2> QED BY <1>2, <2>1, ConnectToRestores DEF ReconnectCurrent, PageTypes
<1>3. ASSUME ChooseDevice(a) \/ Refresh(a) \/ RefreshRefused(a)
      PROVE  /\ ~tangled /\ ~busy /\ Order /\ (Gone \/ Whole) /\ PageTypeOK
             /\ \A b \in Action : awaiting[b] = "idle"
  <2>1. ~tangled /\ ~busy BY <1>3 DEF ChooseDevice, Refresh, RefreshRefused
  <2> QED BY <2>1, Settled DEF Links, PageTypes
<1>4. CASE ChooseDevice(a)
  <2>1. OneAtATime' /\ Progress'
    BY <1>3, <1>4 DEF PageTypeOK, OneAtATime, Progress, Built, ChooseDevice, Await, Awaits,
                      handles, Gone, Whole
  <2> QED BY <1>4, <2>1 DEF ChooseDevice, Links, Order, SettledBanner, NoHalfConnection
<1>5. CASE Refresh(a)
  <2>1. Whole /\ device \in Device BY <1>3, <1>5 DEF Refresh, Connected, Gone, Whole, PageTypeOK
  <2>2. OneAtATime' /\ Progress'
    BY <1>3, <1>5, <2>1, PageAssumption
       DEF PageTypeOK, OneAtATime, Progress, Built, Refresh, Await, Awaits, handles, Whole
  <2> QED BY <1>5, <2>2 DEF Refresh, Links, Order, SettledBanner, NoHalfConnection
<1>6. CASE RefreshRefused(a)
  <2>1. (Gone \/ Whole)' BY <1>3, <1>6 DEF RefreshRefused, handles, Gone, Whole
  <2>2. Finish(a, Text("error", None)) /\ banner' = Text("error", None)
    BY <1>6 DEF RefreshRefused, Finish
  <2> QED BY <1>3, <1>6, <2>1, <2>2, Ending DEF Text, Links
<1> QED BY <1>1, <1>2, <1>4, <1>5, <1>6 DEF Press

LEMMA SettleKeeps ==
  ASSUME PageTypes, Links, NEW a \in Action, Settle(a)
  PROVE  Links'
<1> SUFFICES ASSUME ~tangled' PROVE Links' BY DEF Links
<1>chosen. CASE Chosen(a)
  <2>1. busy' \in BOOLEAN BY <1>chosen DEF Chosen, PageTypes, PageTypeOK
  <2> QED BY <1>chosen, <2>1, ConnectToRestores DEF Chosen, PageTypes
<1> SUFFICES ASSUME ~Chosen(a) PROVE Order' BY <1>chosen DEF Links
<1>ordered. ~tangled /\ Order
  BY DEF Settle, ServerConnected, ServiceFound, CharacteristicsFound, StatusRead, ConnectFails,
         ActionFails, Links
<1>1. /\ PageTypeOK /\ awaiting[a] # "idle" /\ busy /\ \A b \in Action : b # a => awaiting[b] = "idle"
      /\ awaiting[a] \in Awaits \ {"choose"} => device \in Device /\ arg[a] = device
  BY <1>ordered DEF PageTypes, PageTypeOK, Order, OneAtATime, Progress, Built, Settle,
              ServerConnected, ServiceFound, CharacteristicsFound, StatusRead, ConnectFails,
              ActionFails
<1>3. ASSUME ServerConnected(a) \/ ServiceFound(a) PROVE Order'
  <2>1. OneAtATime'
    <3>1. busy' = busy /\ \A b \in Action : b # a => awaiting'[b] = awaiting[b]
      BY <1>1, <1>3 DEF PageTypeOK, ServerConnected, ServiceFound, Await
    <3> QED BY <1>1, <3>1 DEF OneAtATime
  <2>2. ASSUME ServerConnected(a) PROVE Built(a)'
    <3>1. awaiting'[a] = "service" /\ server' = device /\ linked'[device] /\ UNCHANGED <<device, arg>>
      BY <1>1, <1>ordered, <2>2 DEF ServerConnected, Await, Awaits, PageTypeOK
    <3>2. alive'[a] /\ device \in Device /\ arg[a] = device
      BY <1>1, <1>ordered, <2>2 DEF ServerConnected, Order, Progress, Built, Awaits
    <3> QED BY <1>1, <3>1, <3>2, PageAssumption DEF Built, Awaits
  <2>3. ASSUME ServiceFound(a) PROVE Built(a)'
    <3>1. awaiting'[a] = "chars" BY <1>1, <1>ordered, <2>3 DEF ServiceFound, Await, PageTypeOK
    <3> QED BY <1>1, <1>ordered, <2>3, <3>1, PageAssumption DEF Order, Progress, Built, ServiceFound, Awaits
  <2>4. \A b \in Action : b # a => awaiting'[b] = "idle"
    BY <1>1, <1>ordered, <1>3 DEF ServerConnected, ServiceFound, Await, PageTypeOK
  <2>5. Progress' BY <1>3, <2>2, <2>3, <2>4 DEF Progress, Built, Awaits
  <2> QED BY <1>1, <1>ordered, <1>3, <2>1, <2>5
       DEF ServerConnected, ServiceFound, Order, SettledBanner, NoHalfConnection
<1>4. CASE CharacteristicsFound(a)
  <2>1. /\ linked[device] /\ server = device /\ service = device
        /\ device # None
    BY <1>1, <1>ordered, <1>4, PageAssumption DEF CharacteristicsFound, Order, Progress, Built, Awaits
  <2>2. Await(a, "read") /\ UNCHANGED busy BY <1>4, <2>1 DEF CharacteristicsFound
  <2>3. OneAtATime' BY <1>1, <1>ordered, <2>2 DEF OneAtATime, PageTypeOK, Await
  <2>4. Progress'
    BY <1>1, <1>ordered, <1>4, <2>1, <2>2 DEF Progress, Built, PageTypeOK, CharacteristicsFound, Await, Awaits
  <2> QED BY <1>1, <1>ordered, <2>2, <2>3, <2>4 DEF Order, SettledBanner, NoHalfConnection
<1>5. CASE StatusRead(a)
  <2>1. Whole /\ arg[a] = device
    BY <1>1, <1>ordered, <1>5, PageAssumption DEF StatusRead, Order, Progress, Built, Awaits, Whole
  <2>2. Whole' BY <1>5, <2>1 DEF StatusRead, handles, Whole
  <2>3. banner' = Text("connected", device) /\ displayed' = device' /\ device' = device
    BY <1>5, <2>1 DEF StatusRead, Finish
  <2>4. Finish(a, Text("connected", device)) BY <1>5 DEF StatusRead
  <2> QED BY <1>1, <1>ordered, <2>2, <2>3, <2>4, Ending DEF Text
<1>6. CASE ConnectFails(a)
  <2>1. device \in Device /\ arg[a] = device BY <1>1, <1>ordered, <1>6 DEF ConnectFails, Awaits
  <2>2. Gone' BY <1>1, <1>ordered, <1>6, <2>1 DEF ConnectFails, ForgetHandles, LinkOver, Gone, PageTypeOK
  <2>3. Finish(a, Text("error", None)) /\ banner' = Text("error", None)
    BY <1>6 DEF ConnectFails, Finish
  <2> QED BY <1>1, <1>ordered, <2>2, <2>3, Ending DEF Text
<1>7. CASE ActionFails(a)
  <2>1. Gone \/ Whole
    BY <1>1, <1>ordered, <1>7 DEF ActionFails, Order, Progress, Built, Awaits, Gone, Whole
  <2>2. (Gone \/ Whole)' BY <1>7, <2>1 DEF ActionFails, handles, Gone, Whole
  <2>3. Finish(a, Text("error", None)) /\ banner' = Text("error", None)
    BY <1>7 DEF ActionFails, Finish
  <2> QED BY <1>1, <1>ordered, <2>2, <2>3, Ending DEF Text
<1> QED BY <1>3, <1>4, <1>5, <1>6, <1>7 DEF Settle

(* A link is lost, at any await or when nothing runs. *)
LEMMA DisconnectedKeeps ==
  ASSUME PageTypes, Links, NEW d \in Device, Disconnected(d)
  PROVE  Links'
<1> SUFFICES ASSUME ~tangled' PROVE Order' BY DEF Links
<1>ordered. ~tangled /\ Order BY DEF Disconnected, HandleDisconnect, Links
<1>1. OneAtATime' BY <1>ordered DEF Disconnected, HandleDisconnect, LinkOver, Order, OneAtATime
<1>2. Progress'
  <2>1. CASE device = d
    <3>1. Gone' /\ device' = device /\ UNCHANGED <<awaiting, arg>>
      BY <2>1 DEF Disconnected, HandleDisconnect, LinkOver, ForgetHandles, Gone, PageTypes, PageTypeOK
    <3>2. \A a \in Action : awaiting[a] # "connect" /\ arg[a] = d => ~alive'[a]
      BY DEF Disconnected, HandleDisconnect, LinkOver
    <3> QED BY <1>ordered, <2>1, <3>1, <3>2 DEF Order, Progress, Built, Gone, Awaits, Disconnected
  <2>2. CASE device # d
    BY <1>ordered, <2>2, PageAssumption
       DEF Disconnected, HandleDisconnect, LinkOver, Dead, Order, Progress, Built, Gone, Whole,
           Awaits, PageTypes, PageTypeOK
  <2> QED BY <2>1, <2>2
<1>3. SettledBanner' /\ NoHalfConnection'
  <2>1. CASE device = d
    <3>1. device' # None /\ ~Connected' /\ device' = d
      BY <2>1, PageAssumption
         DEF Disconnected, HandleDisconnect, ForgetHandles, LinkOver, PageTypes, PageTypeOK, Connected
    <3>2. offered' = "reconnect" /\ banner' = Text("disconnected", d)
      BY <2>1, <3>1, Updated, PageAssumption DEF Disconnected, HandleDisconnect
    <3>3. ~linked'[d] /\ server' = None /\ service' = None /\ chars' = None
      BY <2>1 DEF Disconnected, HandleDisconnect, ForgetHandles, LinkOver, PageTypes, PageTypeOK
    <3> QED BY <3>1, <3>2, <3>3 DEF Text, SettledBanner, NoHalfConnection
  <2>2. CASE device # d
    BY <1>ordered, <2>2, PageAssumption
       DEF Disconnected, HandleDisconnect, LinkOver, Dead, Order, SettledBanner,
           NoHalfConnection, Connected, PageTypes, PageTypeOK
  <2> QED BY <2>1, <2>2
<1> QED BY <1>1, <1>2, <1>3 DEF Order

(* The same without a link: the button was out of date. *)
LEMMA HandleKeeps ==
  ASSUME PageTypes, Links, device # None, ~linked[device], ~busy,
         HandleDisconnect, UNCHANGED <<linked, alive>>
  PROVE  Links'
<1> SUFFICES ASSUME ~tangled' PROVE Order' BY DEF Links
<1>1. ~tangled /\ Order BY DEF HandleDisconnect, Links
<1>2. \A a \in Action : awaiting'[a] = "idle" BY <1>1, Settled DEF HandleDisconnect
<1>3. OneAtATime' /\ Progress' BY <1>2 DEF OneAtATime, Progress, Built, Awaits
<1>4. SettledBanner' /\ NoHalfConnection'
  BY Updated DEF HandleDisconnect, ForgetHandles, Text, SettledBanner, NoHalfConnection, Connected
<1> QED BY <1>3, <1>4 DEF Order

LEMMA LinksKept == ASSUME PageTypes, Links, [PageNext]_pageVars PROVE Links'
<1>1. CASE DisconnectCurrent
  <2>1. device \in Device /\ device # None
    BY <1>1 DEF DisconnectCurrent, PageTypes, PageTypeOK, Targets
  <2> QED BY <1>1, <2>1, DisconnectedKeeps, HandleKeeps DEF DisconnectCurrent
<1>2. CASE UNCHANGED pageVars
  BY <1>2 DEF pageVars, handles, Links, Order, OneAtATime, Progress, Built, SettledBanner,
              NoHalfConnection, Gone, Whole, Connected
<1> QED BY <1>1, <1>2, PressKeeps, SettleKeeps, DisconnectedKeeps DEF PageNext

LEMMA Invariance == PageSpec => []Links
BY InitialTypes, TypesKept, InitialLinks, LinksKept, PTL DEF PageSpec

(* app.mjs:189-228, bluetooth.mjs:59-129.  When no action runs, the banner says
   what is so of the link, the handles and the status, whatever was lost or failed;
   after actions that overlapped, from the next connect made alone on. *)
THEOREM BannerTellsTheTruth == PageSpec => []SettledBanner
<1>1. Links => SettledBanner BY DEF Links, Order, SettledBanner
<1> QED BY <1>1, Invariance, PTL

(* bluetooth.mjs:59-90, 118-129.  No failing step and no loss of a link leaves a
   connection half made, or a link that nobody uses; what actions that overlapped
   leave of them is gone with the next connect made alone. *)
THEOREM ConnectsAltogetherOrNotAtAll == PageSpec => []NoHalfConnection
<1>1. Links => NoHalfConnection BY DEF Links, Order, NoHalfConnection
<1> QED BY <1>1, Invariance, PTL
=============================================================================
