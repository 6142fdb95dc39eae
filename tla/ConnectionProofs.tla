-------------------------- MODULE ConnectionProofs --------------------------
(***************************************************************************)
(* What holds of Connection for requests of any kinds, any number of them  *)
(* and however their bytes are cut into pieces.                            *)
(***************************************************************************)
EXTENDS Connection, SequenceTheorems, WellFoundedInduction, TLAPS

-----------------------------------------------------------------------------
(* Requests in a stream of bytes.                                          *)

Drop(s, n) == SubSeq(s, n + 1, Len(s))

HeadPart(b) == b.part \in {"line", "end"}

\* The request r of q, from its head's end at a on, is in s, and nothing more of it.
BodyAt(s, q, a, r) ==
  LET body == BodyBytes(r, q[r])
  IN /\ a + Len(body) <= Len(s)
     /\ \A j \in 1..Len(body) : s[a + j] = body[j]
     /\ a + Len(body) < Len(s) => s[a + Len(body) + 1].req # r

\* The byte a of s is followed as it is in a request of q, or by the next request.
FramedAt(s, q, a) ==
  LET r == s[a].req
  IN /\ s[a] \in ByteType /\ r <= Len(q)
     /\ a = Len(s) => r = Len(q)
     /\ a < Len(s) => s[a + 1].req = r \/ s[a + 1] = Byte(r + 1, "line", "text")
     /\ s[a].part = "line" => a < Len(s) /\ s[a + 1] = Byte(r, "end", EndMark(q[r]))
     /\ s[a].part = "end" => BodyAt(s, q, a, r)

\* The bytes of the requests come one after the other; a head has one line and one end.
Ordered(s) ==
  \A a, b \in 1..Len(s) : a < b =>
    /\ s[a].req <= s[b].req
    /\ HeadPart(s[a]) /\ s[a].part = s[b].part => s[a].req < s[b].req

\* s is how the bytes of the requests q end.
Framed(s, q) == Ordered(s) /\ \A a \in 1..Len(s) : FramedAt(s, q, a)

-----------------------------------------------------------------------------
(* The inductive invariant.                                                *)

\* The bytes that OnTraffic has not gone over.
Ahead == Drop(buf, IF pc \in {"parse", "flush"} THEN processed ELSE 0) \o wire

HasLine(i) == \E a \in 1..Len(Ahead) : Ahead[a].part = "line" /\ Ahead[a].req = i

\* What has been handled is behind what is ahead.
HandledBehind ==
  \A i \in DOMAIN handled : handled[i].genuine =>
    /\ handled[i].req <= Len(sent)
    /\ \A a \in 1..Len(Ahead) : Ahead[a].part = "end" => handled[i].req < Ahead[a].req

\* The Codec is new as long as the first request is ahead as a whole.
CodecOK ==
  /\ IF contentLength = 0
       THEN /\ handled = <<>>
            /\ IF Ahead = <<>> THEN sent = <<>> ELSE Ahead[1] = Byte(1, "line", "text")
            /\ pc = "parse" => processed = 0 /\ buf # <<>>
       ELSE sent # <<>> /\ ~HasLine(1)
  /\ pc = "flush" => contentLength = -1

\* A piece of a request that came alone has lost its line, or is about to be parsed.
CutOK ==
  \A i \in cut :
    /\ i <= Len(sent)
    /\ HasLine(i) => /\ pc = "parse" /\ processed = 0 /\ buf # <<>>
                     /\ buf[1] = Byte(i, "line", "text")
                     /\ Len(buf) < 2 + Len(BodyBytes(i, sent[i]))

\* What HandledWhole says of the entry h for a request of the kind k.
WholeRight(h, k, pieces) ==
  IF h.whole
    THEN h.req \notin pieces /\ (h.req = 1 => ~HasBody(k) \/ (BlankLed(k) /\ Len(k.body) = 1))
    ELSE h.req = 1 \/ k.framing = "chunked" \/ (BlankLed(k) /\ Len(k.body) > 1)

\* What a polite client has got when n requests are handled.
Served(n) == [i \in 1..n |-> [req |-> i, genuine |-> TRUE, whole |-> TRUE]]
AnswersTo(n) == [i \in 1..n |-> [req |-> i, status |-> "handled"]]

\* The request behind the first n is next, if there is one.
NextIs(s, n) ==
  IF s = <<>> THEN Len(sent) = n ELSE n < Len(sent) /\ s[1] = Byte(n + 1, "line", "text")

PoliteOK ==
  LET n == Len(handled)
      r == n + 1
  IN polite =>
       /\ handled = Served(n)
       /\ pc \in {"wait", "closed"} =>
            buf = <<>> /\ answers = AnswersTo(n) /\ NextIs(wire, n)
       /\ pc = "parse" /\ processed = 0 =>
            /\ r <= Len(sent) /\ buf = RequestBytes(r, sent[r])
            /\ Clear(sent[r]) /\ (r = 1 => ~HasBody(sent[r]))
            /\ answers = AnswersTo(n)
       /\ (pc = "parse" /\ processed > 0) \/ pc = "flush" =>
            /\ n > 0 /\ processed = Len(buf) /\ NextIs(wire, n)
            /\ response = [req |-> n, status |-> "handled"]
            /\ answers = AnswersTo(n - 1)

\* hc.Buf holds the answer to the last request handled, or the 400 written already.
ResponseOK ==
  LET n == Len(handled)
  IN IF pc \in {"wait", "closed"} THEN response = NoResponse
     ELSE \/ /\ Len(answers) = answered
             /\ \/ response = NoResponse /\ n = batch
                \/ n > batch /\ response = [req |-> handled[n].req, status |-> "handled"]
          \/ /\ pc = "flush" /\ Len(answers) = answered + 1
             /\ response = answers[answered + 1] /\ response.status = "400"

IInv ==
  /\ TypeOK /\ Framed(Ahead, sent)
  /\ HandledBehind /\ HandledOnce
  /\ CodecOK /\ CutOK /\ HandledWhole
  /\ PoliteOK
  /\ ResponseOK /\ LastAnswerOnly

-----------------------------------------------------------------------------
(* Sequences and smallest numbers.                                         *)

\* A set of numbers that is not empty has a smallest one: what FirstOf returns.
LEMMA FirstOfIsLeast ==
  ASSUME NEW S, S \subseteq Nat, S # {}
  PROVE  FirstOf(S) \in S /\ \A i \in S : FirstOf(S) <= i
<1> DEFINE R == {ss \in Nat \X Nat : ss[1] < ss[2]}
<1>1. IsWellFoundedOn(R, Nat)
  BY NatLessThanWellFounded DEF OpToRel
<1>2. \A x, y \in Nat : y < x => <<y, x>> \in R
  OBVIOUS
<1>3. PICK x \in S : \A y \in S : ~(<<y, x>> \in R)
  <2> HIDE DEF R
  <2>1. QED BY <1>1, WFMin
<1>4. \A y \in S : ~(y < x)
  <2> HIDE DEF R
  <2>1. QED BY <1>2, <1>3
<1>5. \E j \in S : \A i \in S : j <= i
  BY <1>4
<1>6. QED BY <1>5 DEF FirstOf

\* What is left of a sequence without its first n elements.
LEMMA DropProperties ==
  ASSUME NEW S, NEW s \in Seq(S), NEW n \in 0..Len(s)
  PROVE  /\ Drop(s, n) \in Seq(S)
         /\ Len(Drop(s, n)) = Len(s) - n
         /\ \A i \in 1..Len(s) - n : Drop(s, n)[i] = s[n + i]
<1>1. \A i \in n + 1..Len(s) : s[i] \in S
  BY ElementOfSeq
<1>2. Len(s) \in Nat
  BY LenProperties
<1>3. QED BY <1>1, <1>2, SubSeqProperties DEF Drop

LEMMA DropNothing ==
  ASSUME NEW S, NEW s \in Seq(S)
  PROVE  Drop(s, 0) = s
BY SubSeqFull DEF Drop

\* Two drops are one.
LEMMA DropTwice ==
  ASSUME NEW S, NEW s \in Seq(S), NEW m \in 0..Len(s), NEW n \in 0..Len(s) - m
  PROVE  Drop(Drop(s, m), n) = Drop(s, m + n)
<1>1. Len(s) \in Nat /\ m + n \in 0..Len(s)
  BY LenProperties
<1>2. /\ Drop(s, m) \in Seq(S) /\ Len(Drop(s, m)) = Len(s) - m
      /\ \A i \in 1..Len(s) - m : Drop(s, m)[i] = s[m + i]
  BY DropProperties
<1>3. n \in 0..Len(Drop(s, m))
  BY <1>2
<1>4. /\ Drop(Drop(s, m), n) \in Seq(S)
      /\ Len(Drop(Drop(s, m), n)) = Len(s) - m - n
      /\ \A i \in 1..Len(s) - m - n : Drop(Drop(s, m), n)[i] = s[m + n + i]
  <2>1. PICK d : d = Drop(s, m)
    OBVIOUS
  <2>2. /\ Drop(d, n) \in Seq(S)
        /\ Len(Drop(d, n)) = Len(d) - n
        /\ \A i \in 1..Len(d) - n : Drop(d, n)[i] = d[n + i]
    BY <1>2, <1>3, <2>1, DropProperties
  <2>3. \A i \in 1..Len(s) - m - n : n + i \in 1..Len(s) - m /\ m + (n + i) = m + n + i
    BY <1>1
  <2>4. QED BY <1>2, <2>1, <2>2, <2>3
<1>5. /\ Drop(s, m + n) \in Seq(S)
      /\ Len(Drop(s, m + n)) = Len(s) - (m + n)
      /\ \A i \in 1..Len(s) - (m + n) : Drop(s, m + n)[i] = s[m + n + i]
  BY <1>1, DropProperties
<1>6. Len(s) - m - n = Len(s) - (m + n)
  BY <1>1
<1>7. QED BY <1>4, <1>5, <1>6, SeqEqual

\* A drop that takes no more than the first of two sequences leaves the second.
LEMMA DropOfConcat ==
  ASSUME NEW S, NEW s \in Seq(S), NEW t \in Seq(S), NEW n \in 0..Len(s)
  PROVE  Drop(s \o t, n) = Drop(s, n) \o t
<1>1. Len(s) \in Nat /\ Len(t) \in Nat
  BY LenProperties
<1>2. /\ s \o t \in Seq(S) /\ Len(s \o t) = Len(s) + Len(t)
      /\ \A i \in 1..Len(s) + Len(t) :
           (s \o t)[i] = IF i <= Len(s) THEN s[i] ELSE t[i - Len(s)]
  BY ConcatProperties
<1>3. n \in 0..Len(s \o t)
  BY <1>1, <1>2
<1>4. /\ Drop(s \o t, n) \in Seq(S)
      /\ Len(Drop(s \o t, n)) = Len(s) + Len(t) - n
      /\ \A i \in 1..Len(s) + Len(t) - n : Drop(s \o t, n)[i] = (s \o t)[n + i]
  <2>1. PICK u : u = s \o t
    OBVIOUS
  <2>2. /\ Drop(u, n) \in Seq(S) /\ Len(Drop(u, n)) = Len(u) - n
        /\ \A i \in 1..Len(u) - n : Drop(u, n)[i] = u[n + i]
    BY <1>2, <1>3, <2>1, DropProperties
  <2>3. QED BY <1>2, <2>1, <2>2
<1>5. /\ Drop(s, n) \in Seq(S) /\ Len(Drop(s, n)) = Len(s) - n
      /\ \A i \in 1..Len(s) - n : Drop(s, n)[i] = s[n + i]
  BY DropProperties
<1>6. /\ Drop(s, n) \o t \in Seq(S)
      /\ Len(Drop(s, n) \o t) = Len(s) - n + Len(t)
      /\ \A i \in 1..Len(s) - n + Len(t) : (Drop(s, n) \o t)[i] =
           IF i <= Len(s) - n THEN Drop(s, n)[i] ELSE t[i - (Len(s) - n)]
  <2>1. PICK d : d = Drop(s, n)
    OBVIOUS
  <2>2. /\ d \o t \in Seq(S) /\ Len(d \o t) = Len(d) + Len(t)
        /\ \A i \in 1..Len(d) + Len(t) :
             (d \o t)[i] = IF i <= Len(d) THEN d[i] ELSE t[i - Len(d)]
    BY <1>5, <2>1, ConcatProperties
  <2>3. QED BY <1>5, <2>1, <2>2
<1>7. \A i \in 1..Len(s) + Len(t) - n : Drop(s \o t, n)[i] = (Drop(s, n) \o t)[i]
  <2> SUFFICES ASSUME NEW i \in 1..Len(s) + Len(t) - n
               PROVE  Drop(s \o t, n)[i] = (Drop(s, n) \o t)[i]
    OBVIOUS
  <2>1. /\ Drop(s \o t, n)[i] = (s \o t)[n + i]
        /\ n + i \in 1..Len(s) + Len(t) /\ i \in 1..Len(s) - n + Len(t)
    BY <1>1, <1>4
  <2>2. CASE n + i <= Len(s)
    <3>1. Drop(s \o t, n)[i] = s[n + i]
      BY <1>2, <2>1, <2>2
    <3>2. i \in 1..Len(s) - n
      BY <1>1, <2>2
    <3>3. QED BY <1>5, <1>6, <2>1, <3>1, <3>2
  <2>3. CASE ~(n + i <= Len(s))
    <3>1. Drop(s \o t, n)[i] = t[n + i - Len(s)]
      BY <1>2, <2>1, <2>3
    <3>2. ~(i <= Len(s) - n) /\ i - (Len(s) - n) = n + i - Len(s)
      BY <1>1, <2>3
    <3>3. QED BY <1>6, <2>1, <3>1, <3>2
  <2>4. QED BY <2>2, <2>3
<1>8. Len(Drop(s \o t, n)) = Len(Drop(s, n) \o t)
  BY <1>1, <1>4, <1>6
<1>9. QED BY <1>4, <1>6, <1>7, <1>8, SeqEqual

-----------------------------------------------------------------------------
(* The bytes of a request.                                                 *)

LEMMA KindTypes ==
  ASSUME NEW k \in Kinds
  PROVE  /\ k.body \in Seq(Marks) /\ Len(k.body) \in Nat
         /\ EndMark(k) \in Marks
         /\ k.framing = "none" => k.body = <<>>
         /\ k.framing = "chunked" =>
              Len(k.body) > 0 /\ k.body[1] # "blank" /\ k.body[Len(k.body)] = "last"
         /\ k.misread => k.framing = "chunked" /\ Len(k.body) > 1
         /\ Length(k) \in Int /\ Length(k) >= -1
         /\ Length(k) = IF k.framing = "length" THEN Len(k.body) ELSE -1
         /\ k.framing = "none" \/ k.framing = "length" \/ k.framing = "chunked"
<1>1. k.body \in Seq(Marks) /\ k.framing \in {"none", "length", "chunked"}
  BY ConnectionAssumption DEF ConnectionAssumption, KindType
<1>2. Len(k.body) \in Nat
  BY <1>1, LenProperties
<1>3. EndMark(k) \in Marks
  BY DEF EndMark, Marks
<1>4. Length(k) = IF k.framing = "length" THEN Len(k.body) ELSE -1
  BY DEF Length
<1>5. QED BY <1>1, <1>2, <1>3, <1>4, ConnectionAssumption DEF ConnectionAssumption

LEMMA BodyProperties ==
  ASSUME NEW i \in Numbers, NEW k \in Kinds
  PROVE  LET b == BodyBytes(i, k)
         IN /\ b \in Seq(ByteType)
            /\ Len(b) = Len(k.body)
            /\ \A j \in 1..Len(b) :
                 b[j].req = i /\ b[j].part = "body" /\ b[j].mark = k.body[j]
<1>1. PICK n \in Nat : n = Len(k.body)
  BY KindTypes
<1>2. PICK b : b = BodyBytes(i, k)
  OBVIOUS
<1>3. b = [j \in 1..n |-> Byte(i, "body", k.body[j])]
  BY <1>1, <1>2 DEF BodyBytes
<1>4. \A j \in 1..n : k.body[j] \in Marks
  BY <1>1, KindTypes, ElementOfSeq
<1>5. \A j \in 1..n : /\ b[j] \in ByteType
                      /\ b[j].req = i /\ b[j].part = "body" /\ b[j].mark = k.body[j]
  BY <1>3, <1>4 DEF Byte, ByteType
<1>6. b \in Seq(ByteType) /\ Len(b) = n
  BY <1>1, <1>3, <1>5
<1>7. QED BY <1>1, <1>2, <1>5, <1>6

LEMMA RequestProperties ==
  ASSUME NEW i \in Numbers, NEW k \in Kinds
  PROVE  /\ RequestBytes(i, k) \in Seq(ByteType)
         /\ Len(RequestBytes(i, k)) = 2 + Len(BodyBytes(i, k))
         /\ RequestBytes(i, k)[1] = Byte(i, "line", "text")
         /\ RequestBytes(i, k)[2] = Byte(i, "end", EndMark(k))
         /\ \A j \in 1..Len(BodyBytes(i, k)) : RequestBytes(i, k)[2 + j] = BodyBytes(i, k)[j]
<1>1. PICK h : h = HeadBytes(i, k)
  OBVIOUS
<1>2. /\ h \in Seq(ByteType) /\ Len(h) = 2
      /\ h[1] = Byte(i, "line", "text") /\ h[2] = Byte(i, "end", EndMark(k))
  <2>1. PICK m \in Marks : m = EndMark(k)
    BY KindTypes
  <2>2. h = <<Byte(i, "line", "text"), Byte(i, "end", m)>>
    BY <1>1, <2>1 DEF HeadBytes
  <2>3. Byte(i, "line", "text") \in ByteType /\ Byte(i, "end", m) \in ByteType
    BY DEF Byte, ByteType, Marks
  <2>4. PICK x, y \in ByteType : x = Byte(i, "line", "text") /\ y = Byte(i, "end", m)
    BY <2>3
  <2>5. h = <<x, y>>
    BY <2>2, <2>4
  <2>6. h \in Seq(ByteType) /\ Len(h) = 2 /\ h[1] = x /\ h[2] = y
    BY <2>4, <2>5
  <2>7. QED BY <2>1, <2>4, <2>6
<1>3. PICK b \in Seq(ByteType) : b = BodyBytes(i, k)
  BY BodyProperties
<1>4. /\ h \o b \in Seq(ByteType) /\ Len(h \o b) = Len(h) + Len(b)
      /\ \A j \in 1..Len(h) + Len(b) :
           (h \o b)[j] = IF j <= Len(h) THEN h[j] ELSE b[j - Len(h)]
  BY <1>2, ConcatProperties
<1>5. Len(b) \in Nat
  BY LenProperties
<1>6. \A j \in 1..Len(b) : (h \o b)[2 + j] = b[j]
  BY <1>2, <1>4, <1>5
<1>7. Len(h \o b) = 2 + Len(b) /\ (h \o b)[1] = h[1] /\ (h \o b)[2] = h[2]
  <2>1. 1 \in 1..Len(h) + Len(b) /\ 2 \in 1..Len(h) + Len(b) /\ 1 <= Len(h) /\ 2 <= Len(h)
    BY <1>2, <1>5
  <2>2. (h \o b)[1] = h[1]
    BY <1>4, <2>1
  <2>3. (h \o b)[2] = h[2]
    BY <1>4, <2>1
  <2>4. QED BY <1>2, <1>4, <2>2, <2>3
<1>8. RequestBytes(i, k) = h \o b
  BY <1>1, <1>3 DEF RequestBytes
<1>9. QED BY <1>2, <1>3, <1>4, <1>6, <1>7, <1>8

\* A request has a body if its kind says so.
LEMMA BodyIsThere ==
  ASSUME NEW i \in Numbers, NEW k \in Kinds
  PROVE  /\ HasBody(k) <=> Len(BodyBytes(i, k)) > 0
         /\ BodyBytes(i, k) = <<>> <=> Len(BodyBytes(i, k)) = 0
<1>1. Len(BodyBytes(i, k)) = Len(k.body) /\ Len(k.body) \in Nat /\ k.body \in Seq(Marks)
  BY KindTypes, BodyProperties
<1>2. HasBody(k) <=> Len(k.body) > 0
  BY <1>1, EmptySeq DEF HasBody
<1>3. BodyBytes(i, k) = <<>> <=> Len(BodyBytes(i, k)) = 0
  BY BodyProperties, EmptySeq
<1>4. QED BY <1>1, <1>2, <1>3

-----------------------------------------------------------------------------
(* Streams of requests.                                                    *)

\* What the bytes of a stream are.
LEMMA FramedBytes ==
  ASSUME NEW q \in Seq(Kinds), NEW s \in Seq(ByteType), Framed(s, q),
         NEW a \in 1..Len(s)
  PROVE  /\ s[a] \in ByteType /\ s[a].req \in 1..Len(q)
         /\ q[s[a].req] \in Kinds
         /\ Len(BodyBytes(s[a].req, q[s[a].req])) \in Nat
<1>1. s[a] \in ByteType /\ s[a].req <= Len(q)
  BY DEF Framed, FramedAt
<1>2. s[a].req \in Nat /\ s[a].req >= 1 /\ s[a].req \in Numbers
  BY <1>1, ConnectionAssumption DEF ByteType, Numbers, ConnectionAssumption
<1>3. Len(q) \in Nat
  BY LenProperties
<1>4. s[a].req \in 1..Len(q)
  BY <1>1, <1>2, <1>3
<1>5. q[s[a].req] \in Kinds
  BY <1>4, ElementOfSeq
<1>6. BodyBytes(s[a].req, q[s[a].req]) \in Seq(ByteType)
  BY <1>2, <1>5, BodyProperties
<1>7. QED BY <1>1, <1>4, <1>5, <1>6, LenProperties

\* The end of a stream is a stream.
LEMMA FramedDrop ==
  ASSUME NEW q \in Seq(Kinds), NEW s \in Seq(ByteType), Framed(s, q),
         NEW n \in 0..Len(s)
  PROVE  Framed(Drop(s, n), q)
<1>1. PICK d : d = Drop(s, n)
  OBVIOUS
<1>2. /\ d \in Seq(ByteType) /\ Len(d) = Len(s) - n /\ Len(s) \in Nat
      /\ \A a \in 1..Len(d) : d[a] = s[n + a] /\ n + a \in 1..Len(s)
  <2>1. /\ d \in Seq(ByteType) /\ Len(d) = Len(s) - n
        /\ \A a \in 1..Len(s) - n : d[a] = s[n + a]
    BY <1>1, DropProperties
  <2>2. Len(s) \in Nat
    BY LenProperties
  <2>3. QED BY <2>1, <2>2
<1>3. Ordered(d)
  <2> SUFFICES ASSUME NEW a \in 1..Len(d), NEW b \in 1..Len(d), a < b
               PROVE  /\ d[a].req <= d[b].req
                      /\ HeadPart(d[a]) /\ d[a].part = d[b].part => d[a].req < d[b].req
    BY DEF Ordered
  <2>1. d[a] = s[n + a] /\ d[b] = s[n + b] /\ n + a < n + b
    BY <1>2
  <2>2. n + a \in 1..Len(s) /\ n + b \in 1..Len(s)
    BY <1>2
  <2>3. QED BY <2>1, <2>2 DEF Framed, Ordered
<1>4. ASSUME NEW a \in 1..Len(d)
      PROVE  FramedAt(d, q, a)
  <2>1. PICK c \in 1..Len(s) : c = n + a
    BY <1>2
  <2>2. FramedAt(s, q, c)
    BY DEF Framed
  <2>3. d[a] = s[c] /\ (a = Len(d) <=> c = Len(s)) /\ (a < Len(d) <=> c < Len(s))
    BY <1>2, <2>1
  <2>4. PICK r : r = s[c].req
    OBVIOUS
  <2>5. a < Len(d) => d[a + 1] = s[c + 1]
    BY <1>2, <2>1
  <2>6. PICK body : body = BodyBytes(r, q[r])
    OBVIOUS
  <2>7. Len(body) \in Nat
    BY <2>4, <2>6, FramedBytes
  <2>8. BodyAt(s, q, c, r) => BodyAt(d, q, a, r)
    <3> SUFFICES ASSUME BodyAt(s, q, c, r)
                 PROVE  BodyAt(d, q, a, r)
      OBVIOUS
    <3>1. /\ c + Len(body) <= Len(s)
          /\ \A j \in 1..Len(body) : s[c + j] = body[j]
          /\ c + Len(body) < Len(s) => s[c + Len(body) + 1].req # r
      BY <2>6 DEF BodyAt
    <3>2. a + Len(body) <= Len(d)
      BY <1>2, <2>1, <2>7, <3>1
    <3>3. \A j \in 1..Len(body) : d[a + j] = body[j]
      <4> TAKE j \in 1..Len(body)
      <4>1. a + j \in 1..Len(d) /\ n + (a + j) = c + j
        BY <1>2, <2>1, <2>7, <3>2
      <4>2. QED BY <1>2, <3>1, <4>1
    <3>4. a + Len(body) < Len(d) => d[a + Len(body) + 1].req # r
      <4> HAVE a + Len(body) < Len(d)
      <4>1. /\ a + Len(body) + 1 \in 1..Len(d) /\ c + Len(body) < Len(s)
            /\ n + (a + Len(body) + 1) = c + Len(body) + 1
        BY <1>2, <2>1, <2>7
      <4>2. QED BY <1>2, <3>1, <4>1
    <3>5. QED BY <2>6, <3>2, <3>3, <3>4 DEF BodyAt
  <2>9. QED BY <2>2, <2>3, <2>4, <2>5, <2>8 DEF FramedAt
<1>5. QED BY <1>1, <1>3, <1>4 DEF Framed

\* A stream goes on with the next request that is sent.
LEMMA FramedAppend ==
  ASSUME NEW q \in Seq(Kinds), Len(q) < MaxSent, NEW s \in Seq(ByteType), Framed(s, q),
         NEW k \in Kinds
  PROVE  Framed(s \o RequestBytes(Len(q) + 1, k), Append(q, k))
<1>1. PICK n : n = Len(q) + 1
  OBVIOUS
<1>2. /\ n \in Numbers /\ n \in Nat /\ Len(q) \in Nat /\ Len(q) = n - 1
      /\ Len(s) \in Nat
  BY <1>1, LenProperties, ConnectionAssumption DEF Numbers, ConnectionAssumption
<1>3. PICK p : p = Append(q, k)
  OBVIOUS
<1>4. Len(p) = n /\ p[n] = k /\ \A r \in 1..Len(q) : p[r] = q[r]
  BY <1>1, <1>3, AppendProperties
<1>5. PICK new : new = RequestBytes(n, k)
  OBVIOUS
<1>6. PICK body : body = BodyBytes(n, k)
  OBVIOUS
<1>7. /\ body \in Seq(ByteType) /\ Len(body) \in Nat
      /\ \A j \in 1..Len(body) : body[j].req = n /\ body[j].part = "body"
  BY <1>2, <1>6, BodyProperties, LenProperties
<1>8. /\ new \in Seq(ByteType) /\ Len(new) = 2 + Len(body)
      /\ new[1] = Byte(n, "line", "text") /\ new[2] = Byte(n, "end", EndMark(k))
      /\ \A j \in 1..Len(body) : new[2 + j] = body[j]
  BY <1>2, <1>5, <1>6, RequestProperties
<1>9. PICK z : z = EndMark(k)
  OBVIOUS
<1>10. /\ Byte(n, "line", "text").req = n /\ Byte(n, "line", "text").part = "line"
       /\ Byte(n, "end", z).req = n /\ Byte(n, "end", z).part = "end"
  BY DEF Byte
<1>11. \A j \in 1..Len(new) : j = 1 \/ j = 2 \/ \E m \in 1..Len(body) : j = 2 + m
  <2> TAKE j \in 1..Len(new)
  <2>1. j = 1 \/ j = 2 \/ (j - 2 \in 1..Len(body) /\ j = 2 + (j - 2))
    BY <1>7, <1>8
  <2>2. QED BY <2>1
<1>12. \A j \in 1..Len(new) :
         /\ new[j] \in ByteType /\ new[j].req = n
         /\ new[j].part = "line" => j = 1
         /\ new[j].part = "end" => j = 2
  <2> TAKE j \in 1..Len(new)
  <2>1. new[j] \in ByteType
    BY <1>8, ElementOfSeq
  <2>2. CASE j = 1
    BY <1>8, <1>10, <2>1, <2>2
  <2>3. CASE j = 2
    BY <1>8, <1>9, <1>10, <2>1, <2>3
  <2>4. CASE \E m \in 1..Len(body) : j = 2 + m
    BY <1>7, <1>8, <2>1, <2>4
  <2>5. QED BY <1>11, <2>2, <2>3, <2>4
<1>13. PICK t : t = s \o new
  OBVIOUS
<1>14. /\ t \in Seq(ByteType) /\ Len(t) = Len(s) + Len(new)
       /\ \A a \in 1..Len(s) + Len(new) :
            t[a] = IF a <= Len(s) THEN s[a] ELSE new[a - Len(s)]
  <2>1. new \in Seq(ByteType)
    BY <1>8
  <2>2. QED BY <1>13, <2>1, ConcatProperties
<1>15. \A a \in 1..Len(s) : a \in 1..Len(t) /\ t[a] = s[a]
  BY <1>2, <1>7, <1>8, <1>14
<1>16. \A j \in 1..Len(new) : Len(s) + j \in 1..Len(t) /\ t[Len(s) + j] = new[j]
  <2> TAKE j \in 1..Len(new)
  <2>1. /\ Len(s) + j \in 1..Len(s) + Len(new) /\ ~(Len(s) + j <= Len(s))
        /\ Len(s) + j - Len(s) = j
    BY <1>2, <1>7, <1>8
  <2>2. QED BY <1>14, <2>1
<1>17. \A a \in 1..Len(t) : a \in 1..Len(s) \/ \E j \in 1..Len(new) : a = Len(s) + j
  <2> TAKE a \in 1..Len(t)
  <2>1. a \in 1..Len(s) \/ (a - Len(s) \in 1..Len(new) /\ a = Len(s) + (a - Len(s)))
    BY <1>2, <1>7, <1>8, <1>14
  <2>2. QED BY <2>1
<1>18. \A a \in 1..Len(s) : s[a] \in ByteType /\ s[a].req \in 1..Len(q)
  BY FramedBytes
<1>19. Ordered(t)
  <2> SUFFICES ASSUME NEW a \in 1..Len(t), NEW b \in 1..Len(t), a < b
               PROVE  /\ t[a].req <= t[b].req
                      /\ HeadPart(t[a]) /\ t[a].part = t[b].part => t[a].req < t[b].req
    BY DEF Ordered
  <2>1. CASE a \in 1..Len(s) /\ b \in 1..Len(s)
    <3>1. t[a] = s[a] /\ t[b] = s[b]
      BY <1>15, <2>1
    <3>2. QED BY <2>1, <3>1 DEF Framed, Ordered
  <2>2. CASE a \in 1..Len(s) /\ \E j \in 1..Len(new) : b = Len(s) + j
    <3>1. t[a].req <= Len(q) /\ t[a].req \in Nat
      BY <1>15, <1>18, <2>2
    <3>2. PICK j \in 1..Len(new) : b = Len(s) + j
      BY <2>2
    <3>3. t[b].req = n
      BY <1>12, <1>16, <3>2
    <3>4. QED BY <1>2, <3>1, <3>3
  <2>3. CASE \E i, j \in 1..Len(new) : a = Len(s) + i /\ b = Len(s) + j
    <3>1. PICK i \in 1..Len(new), j \in 1..Len(new) : a = Len(s) + i /\ b = Len(s) + j
      BY <2>3
    <3>2. i < j /\ t[a] = new[i] /\ t[b] = new[j]
      BY <1>2, <1>7, <1>8, <1>16, <3>1
    <3>3. new[i].req = n /\ new[j].req = n /\ n \in Nat
      BY <1>2, <1>12 DEF Numbers
    <3>4. ~(HeadPart(new[i]) /\ new[i].part = new[j].part)
      BY <1>12, <3>2 DEF HeadPart
    <3>5. QED BY <3>2, <3>3, <3>4
  <2>4. CASE b \in 1..Len(s) /\ \E j \in 1..Len(new) : a = Len(s) + j
    BY <1>2, <2>4
  <2>5. QED BY <1>17, <2>1, <2>2, <2>3, <2>4
<1>20. ASSUME NEW a \in 1..Len(s)
       PROVE  FramedAt(t, p, a)
  <2>1. FramedAt(s, q, a)
    BY DEF Framed
  <2>2. PICK r : r = s[a].req
    OBVIOUS
  <2>3. /\ t[a] = s[a] /\ s[a] \in ByteType /\ r \in 1..Len(q)
        /\ a < Len(t) /\ p[r] = q[r] /\ r <= Len(p)
    BY <1>2, <1>4, <1>7, <1>8, <1>14, <1>15, <1>18, <2>2
  <2>4. a < Len(s) => t[a + 1] = s[a + 1]
    BY <1>2, <1>15
  <2>5. t[a + 1].req = r \/ t[a + 1] = Byte(r + 1, "line", "text")
    <3>1. CASE a < Len(s)
      BY <2>1, <2>2, <2>4, <3>1 DEF FramedAt
    <3>2. CASE a = Len(s)
      <4>1. r = Len(q) /\ r + 1 = n
        BY <1>2, <2>1, <2>2, <3>2 DEF FramedAt
      <4>2. 1 \in 1..Len(new)
        BY <1>7, <1>8
      <4>3. t[a + 1] = new[1]
        BY <1>16, <3>2, <4>2
      <4>4. QED BY <1>8, <4>1, <4>3
    <3>3. a < Len(s) \/ a = Len(s)
      BY <1>2
    <3>4. QED BY <3>1, <3>2, <3>3
  <2>6. s[a].part = "line" => t[a + 1] = Byte(r, "end", EndMark(p[r]))
    BY <2>1, <2>2, <2>3, <2>4 DEF FramedAt
  <2>7. s[a].part = "end" => BodyAt(t, p, a, r)
    <3> SUFFICES ASSUME BodyAt(s, q, a, r)
                 PROVE  BodyAt(t, p, a, r)
      BY <2>1, <2>2 DEF FramedAt
    <3>1. PICK old : old = BodyBytes(r, q[r])
      OBVIOUS
    <3>2. Len(old) \in Nat
      BY <2>2, <3>1, FramedBytes
    <3>3. /\ a + Len(old) <= Len(s)
          /\ \A j \in 1..Len(old) : s[a + j] = old[j]
          /\ a + Len(old) < Len(s) => s[a + Len(old) + 1].req # r
      BY <3>1 DEF BodyAt
    <3>4. a + Len(old) <= Len(t)
      BY <1>2, <1>7, <1>8, <1>14, <3>2, <3>3
    <3>5. \A j \in 1..Len(old) : t[a + j] = old[j]
      <4> TAKE j \in 1..Len(old)
      <4>1. a + j \in 1..Len(s)
        BY <1>2, <3>2, <3>3
      <4>2. QED BY <1>15, <3>3, <4>1
    <3>6. t[a + Len(old) + 1].req # r
      <4>1. CASE a + Len(old) < Len(s)
        <5>1. a + Len(old) + 1 \in 1..Len(s)
          BY <1>2, <3>2, <4>1
        <5>2. QED BY <1>15, <3>3, <4>1, <5>1
      <4>2. CASE a + Len(old) = Len(s)
        <5>1. 1 \in 1..Len(new)
          BY <1>7, <1>8
        <5>2. t[a + Len(old) + 1] = new[1]
          BY <1>16, <4>2, <5>1
        <5>3. r # n
          BY <1>2, <2>3
        <5>4. QED BY <1>12, <5>1, <5>2, <5>3
      <4>3. QED BY <1>2, <3>2, <3>3, <4>1, <4>2
    <3>7. BodyBytes(r, p[r]) = old
      BY <2>3, <3>1
    <3>8. QED BY <3>4, <3>5, <3>6, <3>7 DEF BodyAt
  <2>8. a # Len(t)
    BY <1>2, <1>7, <1>8, <1>14
  <2>9. QED BY <2>2, <2>3, <2>5, <2>6, <2>7, <2>8 DEF FramedAt
<1>21. ASSUME NEW j \in 1..Len(new)
       PROVE  FramedAt(t, p, Len(s) + j)
  <2>1. PICK a : a = Len(s) + j
    OBVIOUS
  <2>2. a \in 1..Len(t) /\ t[a] = new[j] /\ t[a] \in ByteType /\ t[a].req = n
    BY <1>12, <1>16, <2>1
  <2>3. /\ a < Len(t) <=> j < Len(new)
        /\ a < Len(t) => t[a + 1] = new[j + 1] /\ j + 1 \in 1..Len(new)
    <3>1. a < Len(t) <=> j < Len(new)
      BY <1>2, <1>7, <1>8, <1>14, <2>1
    <3>2. j < Len(new) => j + 1 \in 1..Len(new) /\ Len(s) + (j + 1) = a + 1
      BY <1>2, <1>7, <1>8, <2>1
    <3>3. QED BY <1>16, <3>1, <3>2
  <2>4. a < Len(t) => t[a + 1].req = n
    BY <1>12, <2>3
  <2>5. t[a].part = "line" => a < Len(t) /\ t[a + 1] = Byte(n, "end", EndMark(p[n]))
    <3> HAVE t[a].part = "line"
    <3>1. j = 1 /\ j < Len(new)
      BY <1>7, <1>8, <1>12, <2>2
    <3>2. QED BY <1>4, <1>8, <2>3, <3>1
  <2>6. t[a].part = "end" => BodyAt(t, p, a, n)
    <3> HAVE t[a].part = "end"
    <3>1. j = 2 /\ a + Len(body) = Len(t)
      BY <1>2, <1>7, <1>8, <1>12, <1>14, <2>1, <2>2
    <3>2. \A m \in 1..Len(body) : t[a + m] = body[m]
      <4> TAKE m \in 1..Len(body)
      <4>1. 2 + m \in 1..Len(new) /\ Len(s) + (2 + m) = a + m
        BY <1>2, <1>7, <1>8, <2>1, <3>1
      <4>2. QED BY <1>8, <1>16, <4>1
    <3>3. a + Len(body) <= Len(t) /\ ~(a + Len(body) < Len(t))
      BY <1>2, <1>7, <1>8, <1>14, <3>1
    <3>4. BodyBytes(n, p[n]) = body
      BY <1>4, <1>6
    <3>5. QED BY <3>2, <3>3, <3>4 DEF BodyAt
  <2>7. n <= Len(p) /\ n = Len(p)
    BY <1>2, <1>4
  <2>8. FramedAt(t, p, a)
    BY <2>2, <2>4, <2>5, <2>6, <2>7 DEF FramedAt
  <2>9. QED BY <2>1, <2>8
<1>22. \A a \in 1..Len(t) : FramedAt(t, p, a)
  BY <1>17, <1>20, <1>21
<1>23. QED BY <1>1, <1>3, <1>5, <1>13, <1>19, <1>22 DEF Framed

-----------------------------------------------------------------------------
(* What Codec.Parse makes of a stream.                                     *)

\* While OnTraffic runs, the rest of the buffer is what is ahead first.
LEMMA RestIsAhead ==
  ASSUME TypeOK, pc \in {"parse", "flush"}
  PROVE  /\ Rest \in Seq(ByteType) /\ Len(Rest) = Len(buf) - processed
         /\ Ahead = Rest \o wire /\ Ahead \in Seq(ByteType)
         /\ Len(Ahead) = Len(Rest) + Len(wire)
         /\ \A a \in 1..Len(Rest) : a \in 1..Len(Ahead) /\ Ahead[a] = Rest[a]
         /\ \A a \in 1..Len(wire) : Ahead[Len(Rest) + a] = wire[a]
<1>1. /\ buf \in Seq(ByteType) /\ wire \in Seq(ByteType)
      /\ processed \in 0..Len(buf) /\ Len(buf) \in Nat /\ Len(wire) \in Nat
  BY LenProperties DEF TypeOK
<1>2. PICK d : d = Rest
  OBVIOUS
<1>3. d = Drop(buf, processed)
  BY <1>2 DEF Rest, Drop
<1>4. d \in Seq(ByteType) /\ Len(d) = Len(buf) - processed /\ Len(d) \in Nat
  BY <1>1, <1>3, DropProperties
<1>5. PICK s : s = Ahead
  OBVIOUS
<1>6. s = d \o wire
  BY <1>3, <1>5 DEF Ahead
<1>7. /\ s \in Seq(ByteType) /\ Len(s) = Len(d) + Len(wire)
      /\ \A a \in 1..Len(d) + Len(wire) :
           s[a] = IF a <= Len(d) THEN d[a] ELSE wire[a - Len(d)]
  <2>1. wire \in Seq(ByteType) /\ d \in Seq(ByteType)
    BY <1>1, <1>4
  <2>2. QED BY <1>6, <2>1, ConcatProperties
<1>8. \A a \in 1..Len(d) : a \in 1..Len(s) /\ s[a] = d[a]
  BY <1>1, <1>4, <1>7
<1>9. \A a \in 1..Len(wire) : s[Len(d) + a] = wire[a]
  <2> TAKE a \in 1..Len(wire)
  <2>1. /\ Len(d) + a \in 1..Len(d) + Len(wire) /\ ~(Len(d) + a <= Len(d))
        /\ Len(d) + a - Len(d) = a
    BY <1>1, <1>4
  <2>2. QED BY <1>7, <2>1
<1>10. QED BY <1>2, <1>4, <1>5, <1>6, <1>7, <1>8, <1>9

\* A head that the client has sent is two bytes, of one request, and its body follows.
LEMMA GenuineHead ==
  ASSUME TypeOK, pc = "parse", Framed(Ahead, sent), Genuine(Rest)
  PROVE  LET d == Rest
             r == Requested(d)
         IN /\ HeadEnd(d) = 2 /\ Len(d) >= 2 /\ Len(d) \in Nat
            /\ Ahead[1].part = "line" /\ Ahead[1].req = r
            /\ Ahead[2].part = "end" /\ Ahead[2].req = r
            /\ r \in Numbers /\ r \in 1..Len(sent) /\ sent[r] \in Kinds
            /\ FramedAt(Ahead, sent, 2) /\ BodyAt(Ahead, sent, 2, r)
<1>1. PICK d : d = Rest
  OBVIOUS
<1>2. PICK s : s = Ahead
  OBVIOUS
<1>3. d \in Seq(ByteType) /\ Len(d) \in Nat /\ s \in Seq(ByteType) /\ Len(s) \in Nat
  BY <1>1, <1>2, RestIsAhead, LenProperties
<1>4. Len(d) >= 2 /\ d[1].part = "line" /\ d[2].part = "end"
  BY <1>1 DEF Genuine
<1>5. /\ 1 \in 1..Len(s) /\ 2 \in 1..Len(s) /\ s[1] = d[1] /\ s[2] = d[2]
  <2>1. 1 \in 1..Len(d) /\ 2 \in 1..Len(d)
    BY <1>3, <1>4
  <2>2. QED BY <1>1, <1>2, <2>1, RestIsAhead
<1>6. PICK r : r = Requested(d)
  OBVIOUS
<1>7. s[1].req = r
  BY <1>5, <1>6 DEF Requested
<1>8. FramedAt(s, sent, 1) /\ FramedAt(s, sent, 2)
  BY <1>2, <1>5 DEF Framed
<1>9. s[2].req = r
  <2>1. PICK m : m = EndMark(sent[r])
    OBVIOUS
  <2>2. s[2] = Byte(r, "end", m)
    BY <1>4, <1>5, <1>7, <1>8, <2>1 DEF FramedAt
  <2>3. QED BY <2>2 DEF Byte
<1>10. BodyAt(s, sent, 2, r)
  BY <1>4, <1>5, <1>8, <1>9 DEF FramedAt
<1>11. r \in 1..Len(sent) /\ sent[r] \in Kinds /\ r \in Numbers
  <2>1. s[1] \in ByteType /\ s[1].req \in 1..Len(sent) /\ sent[s[1].req] \in Kinds
    BY <1>2, <1>3, <1>5, FramedBytes DEF TypeOK
  <2>2. QED BY <1>7, <2>1 DEF ByteType
<1>12. QED
  BY <1>1, <1>2, <1>3, <1>4, <1>5, <1>6, <1>7, <1>8, <1>9, <1>10, <1>11 DEF HeadEnd

\* Parse goes over the head at least.
LEMMA OffsetIsThere ==
  ASSUME TypeOK, pc = "parse", Framed(Ahead, sent), Genuine(Rest)
  PROVE  /\ GetContentLength(Rest) \in Int /\ GetContentLength(Rest) >= -1
         /\ NextOffset(Rest) \in Nat /\ NextOffset(Rest) >= 2
<1>1. PICK d : d = Rest
  OBVIOUS
<1>2. PICK r : r = Requested(d)
  OBVIOUS
<1>3. sent[r] \in Kinds /\ HeadEnd(d) = 2 /\ Len(d) \in Nat
  BY <1>1, <1>2, GenuineHead
<1>4. PICK c : c = GetContentLength(d)
  OBVIOUS
<1>5. c \in Int /\ c >= -1
  <2>1. Length(sent[r]) \in Int /\ Length(sent[r]) >= -1
    BY <1>3, KindTypes
  <2>2. contentLength \in {-1, 0}
    BY DEF TypeOK
  <2>3. QED BY <1>2, <1>4, <2>1, <2>2 DEF GetContentLength
<1>6. PICK n : n = NextOffset(d)
  OBVIOUS
<1>7. PICK L : L = LastChunks(d)
  OBVIOUS
<1>8. L \subseteq Nat /\ \A j \in L : j >= 3
  BY <1>3, <1>7 DEF LastChunks
<1>9. n \in Nat /\ n >= 2
  <2>1. n = 3 \/ (c > -1 /\ n = 2 + c) \/ (L # {} /\ n = FirstOf(L)) \/ n = 2
    BY <1>3, <1>4, <1>6, <1>7 DEF NextOffset
  <2>2. L # {} => FirstOf(L) \in Nat /\ FirstOf(L) >= 3
    BY <1>8, FirstOfIsLeast
  <2>3. QED BY <1>5, <2>1, <2>2
<1>10. QED BY <1>1, <1>4, <1>5, <1>6, <1>9

\* The body that is read, when it ends where the request does.
LEMMA BodyIsRead ==
  ASSUME TypeOK, pc = "parse", Framed(Ahead, sent), Genuine(Rest),
         NEW body, body = BodyBytes(Requested(Rest), sent[Requested(Rest)]),
         2 + Len(body) <= Len(Rest)
  PROVE  SubSeq(Rest, 3, 2 + Len(body)) = body
<1>1. PICK d : d = Rest
  OBVIOUS
<1>2. PICK r : r = Requested(d)
  OBVIOUS
<1>3. r \in Numbers /\ sent[r] \in Kinds
  BY <1>1, <1>2, GenuineHead
<1>4. body \in Seq(ByteType) /\ Len(body) \in Nat
  BY <1>1, <1>2, <1>3, BodyProperties, LenProperties
<1>5. d \in Seq(ByteType) /\ Len(d) \in Nat /\ 2 + Len(body) <= Len(d)
  BY <1>1, RestIsAhead, LenProperties
<1>6. BodyAt(Ahead, sent, 2, r)
  BY <1>1, <1>2, GenuineHead
<1>7. \A j \in 1..Len(body) : Ahead[2 + j] = body[j]
  BY <1>1, <1>2, <1>6 DEF BodyAt
<1>8. \A j \in 1..Len(body) : d[2 + j] = body[j]
  <2> TAKE j \in 1..Len(body)
  <2>1. 2 + j \in 1..Len(d)
    BY <1>4, <1>5
  <2>2. Ahead[2 + j] = d[2 + j]
    BY <1>1, <2>1, RestIsAhead
  <2>3. QED BY <1>7, <2>2
<1>9. PICK n \in Nat : n = Len(body)
  BY <1>4
<1>10. \A j \in 3..2 + n : d[j] \in ByteType
  <2> TAKE j \in 3..2 + n
  <2>1. j \in 1..Len(d)
    BY <1>5, <1>9
  <2>2. QED BY <1>5, <2>1, ElementOfSeq
<1>11. PICK b : b = SubSeq(d, 3, 2 + n)
  OBVIOUS
<1>12. /\ b \in Seq(ByteType) /\ Len(b) = IF 3 <= 2 + n THEN 2 + n - 3 + 1 ELSE 0
       /\ \A j \in 1..2 + n - 3 + 1 : b[j] = d[3 + j - 1]
  BY <1>10, <1>11, SubSeqProperties
<1>13. Len(b) = n /\ \A j \in 1..n : b[j] = d[2 + j]
  <2>1. Len(b) = n
    BY <1>12
  <2>2. \A j \in 1..n : j \in 1..2 + n - 3 + 1 /\ 3 + j - 1 = 2 + j
    OBVIOUS
  <2>3. QED BY <1>12, <2>1, <2>2
<1>14. b = body
  BY <1>4, <1>8, <1>9, <1>12, <1>13, SeqEqual
<1>15. QED BY <1>1, <1>9, <1>11, <1>14

\* A CRLF CRLF directly behind the head is how the body begins, never another request.
LEMMA BlankIsOfTheBody ==
  ASSUME TypeOK, pc = "parse", Framed(Ahead, sent), Genuine(Rest), BlankBehind(Rest)
  PROVE  LET r == Requested(Rest)
         IN /\ BlankLed(sent[r])
            /\ 3 <= Len(Rest) /\ Rest[3] = BodyBytes(r, sent[r])[1]
<1>1. PICK d : d = Rest
  OBVIOUS
<1>2. PICK s : s = Ahead
  OBVIOUS
<1>3. PICK r : r = Requested(d)
  OBVIOUS
<1>4. PICK body : body = BodyBytes(r, sent[r])
  OBVIOUS
<1>5. /\ HeadEnd(d) = 2 /\ Len(d) \in Nat /\ r \in Numbers /\ sent[r] \in Kinds
      /\ s[2].req = r /\ FramedAt(s, sent, 2) /\ BodyAt(s, sent, 2, r)
  BY <1>1, <1>2, <1>3, GenuineHead
<1>6. 3 \in 1..Len(d) /\ d[3].mark = "blank"
  BY <1>1, <1>5 DEF BlankBehind
<1>7. s[3] = d[3] /\ 2 < Len(s)
  <2>1. Len(s) = Len(d) + Len(wire) /\ Len(wire) \in Nat
    BY <1>1, <1>2, RestIsAhead, LenProperties DEF TypeOK
  <2>2. QED BY <1>1, <1>2, <1>5, <1>6, <2>1, RestIsAhead
<1>8. /\ Len(body) = Len(sent[r].body) /\ Len(body) \in Nat /\ sent[r].body \in Seq(Marks)
      /\ \A j \in 1..Len(body) : body[j].mark = sent[r].body[j]
  BY <1>4, <1>5, BodyProperties, KindTypes
<1>9. Len(body) > 0
  <2>1. ASSUME Len(body) = 0
        PROVE  FALSE
    <3>1. s[3].req # r
      BY <1>4, <1>5, <1>7, <2>1 DEF BodyAt
    <3>2. s[3] = Byte(r + 1, "line", "text")
      BY <1>5, <1>7, <3>1 DEF FramedAt
    <3>3. QED BY <1>6, <1>7, <3>2 DEF Byte
  <2>2. QED BY <1>8, <2>1
<1>10. s[3] = body[1]
  <2>1. 1 \in 1..Len(body)
    BY <1>8, <1>9
  <2>2. \A j \in 1..Len(body) : s[2 + j] = body[j]
    BY <1>4, <1>5 DEF BodyAt
  <2>3. QED BY <2>1, <2>2
<1>11. sent[r].body[1] = "blank" /\ sent[r].body # <<>>
  BY <1>6, <1>7, <1>8, <1>9, <1>10, EmptySeq
<1>12. QED
  BY <1>1, <1>3, <1>4, <1>6, <1>7, <1>10, <1>11 DEF BlankLed, HasBody

\* How much of the body is read of a head that the client has sent: nothing of the
\* first request of a connection, unless it is CRLF CRLF; the body of any other one,
\* unless it is chunked or begins with CRLF CRLF and goes on.
LEMMA HeadAndBody ==
  ASSUME TypeOK, pc = "parse", processed < Len(buf), Framed(Ahead, sent), CodecOK,
         Genuine(Rest), Parses(Rest)
  PROVE  LET d == Rest
             r == Requested(d)
             k == sent[r]
             body == BodyBytes(r, k)
         IN /\ contentLength = 0 =>
                 r = 1 /\ (BodyRead(d) = <<>> \/ (BlankLed(k) /\ Len(k.body) = 1))
            /\ contentLength # 0 => contentLength = -1 /\ r # 1
            /\ contentLength # 0 /\ k.framing # "chunked" /\ ~(BlankLed(k) /\ Len(k.body) > 1) =>
                 BodyRead(d) = body
            /\ Len(BodyRead(d)) <= Len(d) - 2
<1>1. PICK d : d = Rest
  OBVIOUS
<1>2. PICK r : r = Requested(d)
  OBVIOUS
<1>3. PICK k : k = sent[r]
  OBVIOUS
<1>4. PICK body : body = BodyBytes(r, k)
  OBVIOUS
<1>5. /\ HeadEnd(d) = 2 /\ Len(d) >= 2 /\ r \in Numbers /\ k \in Kinds
      /\ Ahead[1].part = "line" /\ Ahead[1].req = r
  BY <1>1, <1>2, <1>3, GenuineHead
<1>6. PICK n \in Nat : n = NextOffset(d) /\ n >= 2
  BY <1>1, OffsetIsThere
<1>7. /\ d \in Seq(ByteType) /\ Len(d) \in Nat /\ 1 \in 1..Len(Ahead) /\ n <= Len(d)
  <2>1. d \in Seq(ByteType) /\ Len(d) \in Nat
    BY <1>1, RestIsAhead, LenProperties
  <2>2. 1 \in 1..Len(d)
    BY <1>5, <2>1
  <2>3. QED BY <1>1, <1>6, <2>1, <2>2, RestIsAhead DEF Parses
<1>8. contentLength \in {-1, 0}
  BY DEF TypeOK
<1>9. body \in Seq(ByteType) /\ Len(body) = Len(k.body) /\ Len(body) \in Nat
  BY <1>4, <1>5, BodyProperties, LenProperties
<1>10. /\ Length(k) = IF k.framing = "length" THEN Len(k.body) ELSE -1
       /\ k.framing = "none" \/ k.framing = "length" \/ k.framing = "chunked"
       /\ k.framing = "none" => k.body = <<>>
  BY <1>5, KindTypes
<1>11. BlankBehind(d) => BlankLed(k) /\ 3 <= Len(d) /\ d[3] = body[1]
  BY <1>1, <1>2, <1>3, <1>4, BlankIsOfTheBody
\* The four things that BodyRead may be.
<1>12. BodyRead(d) = IF BlankBehind(d) THEN (IF Len(k.body) = 1 THEN <<d[3]>> ELSE <<>>)
                     ELSE IF ReadInChunks(d) /\ k.misread THEN <<d[3]>>
                     ELSE IF GetContentLength(d) > -1 \/ ReadInChunks(d)
                       THEN SubSeq(d, 3, n)
                     ELSE <<>>
  BY <1>2, <1>3, <1>5, <1>6 DEF BodyRead
<1>13. ReadInChunks(d) => k.framing = "chunked" /\ GetContentLength(d) = -1 /\ 3 <= Len(d)
  <2>1. ReadInChunks(d) => LastChunks(d) # {}
    BY DEF ReadInChunks
  <2>2. LastChunks(d) # {} => 3 <= Len(d)
    BY <1>5, <1>7 DEF LastChunks
  <2>3. QED BY <1>2, <1>3, <2>1, <2>2 DEF ReadInChunks
<1>14. ASSUME contentLength = 0
       PROVE  r = 1 /\ (BodyRead(d) = <<>> \/ (BlankLed(k) /\ Len(k.body) = 1))
  <2>1. Ahead[1] = Byte(1, "line", "text")
    <3>1. Ahead # <<>>
      <4>1. CASE Ahead = <<>>
        <5>1. Len(Ahead) = 0
          BY <4>1, EmptySeq
        <5>2. QED BY <1>7, <5>1
      <4>2. QED BY <4>1
    <3>2. QED BY <1>14, <3>1, Zenon DEF CodecOK
  <2>2. r = 1
    BY <1>5, <2>1 DEF Byte
  <2>3. GetContentLength(d) = 0
    BY <1>14 DEF GetContentLength
  <2>4. CASE BlankBehind(d)
    BY <1>11, <1>12, <2>2, <2>4
  <2>5. CASE ~BlankBehind(d)
    <3>1. n = 2 /\ ~ReadInChunks(d)
      BY <1>5, <1>6, <1>13, <2>3, <2>5 DEF NextOffset
    <3>2. SubSeq(d, 3, 2) = <<>>
      BY SubSeqEmpty
    <3>3. BodyRead(d) = <<>>
      BY <1>12, <2>3, <2>5, <3>1, <3>2
    <3>4. QED BY <2>2, <3>3
  <2>6. QED BY <2>4, <2>5
<1>15. ASSUME contentLength # 0
       PROVE  contentLength = -1 /\ r # 1 /\ GetContentLength(d) = Length(k)
  <2>1. contentLength = -1
    BY <1>8, <1>15
  <2>2. ~HasLine(1)
    BY <1>15 DEF CodecOK
  <2>3. r # 1
    BY <1>5, <1>7, <2>2 DEF HasLine
  <2>4. QED BY <1>2, <1>3, <2>1, <2>3 DEF GetContentLength
<1>16. ASSUME contentLength # 0, k.framing # "chunked", ~(BlankLed(k) /\ Len(k.body) > 1)
       PROVE  BodyRead(d) = body
  <2>1. CASE BlankBehind(d)
    <3>1. Len(body) = 1 /\ BodyRead(d) = <<d[3]>> /\ d[3] = body[1]
      <4>1. HasBody(k)
        BY <1>11, <2>1 DEF BlankLed
      <4>2. Len(body) > 0
        BY <1>4, <1>5, <4>1, BodyIsThere
      <4>3. Len(k.body) = 1
        BY <1>9, <1>11, <1>16, <2>1, <4>2
      <4>4. QED BY <1>9, <1>11, <1>12, <2>1, <4>3
    <3>2. PICK x : x = d[3]
      OBVIOUS
    <3>3. <<x>> \in Seq(ByteType) /\ Len(<<x>>) = 1 /\ <<x>>[1] = x
      <4>1. x \in ByteType
        <5>1. 3 \in 1..Len(d)
          BY <1>7, <1>11, <2>1
        <5>2. QED BY <1>7, <3>2, <5>1, ElementOfSeq
      <4>2. QED BY <4>1
    <3>4. \A j \in 1..1 : j = 1
      OBVIOUS
    <3>5. <<x>> = body
      BY <1>9, <3>1, <3>2, <3>3, <3>4, SeqEqual
    <3>6. QED BY <3>1, <3>2, <3>5
  <2>2. CASE ~BlankBehind(d) /\ k.framing = "length"
    <3>1. GetContentLength(d) = Len(body) /\ GetContentLength(d) > -1
      BY <1>9, <1>10, <1>15, <1>16, <2>2
    <3>2. n = 2 + Len(body)
      BY <1>5, <1>6, <2>2, <3>1 DEF NextOffset
    <3>3. SubSeq(d, 3, 2 + Len(body)) = body
      BY <1>1, <1>2, <1>3, <1>4, <1>7, <3>2, BodyIsRead
    <3>4. QED BY <1>12, <1>13, <1>16, <2>2, <3>1, <3>2, <3>3
  <2>3. CASE ~BlankBehind(d) /\ k.framing = "none"
    <3>1. body = <<>>
      <4>1. Len(k.body) = 0
        BY <1>10, <2>3, EmptySeq
      <4>2. QED BY <1>9, <4>1, EmptySeq
    <3>2. ~(GetContentLength(d) > -1) /\ ~ReadInChunks(d)
      BY <1>10, <1>13, <1>15, <1>16, <2>3
    <3>3. QED BY <1>12, <2>3, <3>1, <3>2
  <2>4. QED BY <1>10, <1>16, <2>1, <2>2, <2>3
<1>17. Len(BodyRead(d)) <= Len(d) - 2
  <2>1. CASE BodyRead(d) = <<>>
    BY <1>5, <1>7, <2>1, EmptySeq
  <2>2. CASE BodyRead(d) = <<d[3]>> /\ 3 <= Len(d)
    BY <1>7, <2>2
  <2>3. CASE BodyRead(d) = SubSeq(d, 3, n)
    <3>1. \A j \in 3..n : d[j] \in ByteType
      <4> TAKE j \in 3..n
      <4>1. j \in 1..Len(d)
        BY <1>7
      <4>2. QED BY <1>7, <4>1, ElementOfSeq
    <3>2. Len(SubSeq(d, 3, n)) = IF 3 <= n THEN n - 3 + 1 ELSE 0
      BY <3>1, SubSeqProperties
    <3>3. QED BY <1>5, <1>7, <2>3, <3>2
  <2>4. QED BY <1>11, <1>12, <1>13, <2>1, <2>2, <2>3
<1>18. QED BY <1>1, <1>2, <1>3, <1>4, <1>14, <1>15, <1>16, <1>17

\* A request that is there alone and in full, and that the shortcuts of Parse do no harm,
\* does not fail; it is handled with its body, and all that is there is gone over.
LEMMA WholeAlone ==
  ASSUME TypeOK, pc = "parse", processed < Len(buf), Framed(Ahead, sent), CodecOK,
         NEW r \in 1..Len(sent), Rest = RequestBytes(r, sent[r]),
         Clear(sent[r]), r = 1 => ~HasBody(sent[r])
  PROVE  /\ Genuine(Rest) /\ Requested(Rest) = r
         /\ Parses(Rest) /\ NextOffset(Rest) = Len(Rest) /\ ~MayFail(Rest)
         /\ BodyRead(Rest) = BodyBytes(r, sent[r])
<1>1. PICK d : d = Rest
  OBVIOUS
<1>2. PICK k : k = sent[r]
  OBVIOUS
<1>3. r \in Numbers /\ k \in Kinds
  BY <1>2, ElementOfSeq, ConnectionAssumption
  DEF TypeOK, Numbers, ConnectionAssumption
<1>4. PICK body : body = BodyBytes(r, k)
  OBVIOUS
<1>5. /\ body \in Seq(ByteType) /\ Len(body) \in Nat /\ Len(body) = Len(k.body)
      /\ \A j \in 1..Len(body) : body[j].mark = k.body[j]
  BY <1>3, <1>4, BodyProperties, LenProperties
<1>6. /\ d \in Seq(ByteType) /\ Len(d) = 2 + Len(body)
      /\ d[1] = Byte(r, "line", "text") /\ d[2] = Byte(r, "end", EndMark(k))
      /\ \A j \in 1..Len(body) : d[2 + j] = body[j]
  BY <1>1, <1>2, <1>3, <1>4, RequestProperties
<1>7. Genuine(d) /\ Requested(d) = r
  <2>1. PICK m : m = EndMark(k)
    OBVIOUS
  <2>2. d[1].part = "line" /\ d[1].req = r
    BY <1>6 DEF Byte
  <2>3. d[2].part = "end"
    BY <1>6, <2>1 DEF Byte
  <2>4. Len(d) >= 2
    BY <1>5, <1>6
  <2>5. QED BY <2>2, <2>3, <2>4 DEF Genuine, Requested
<1>8. HeadEnd(d) = 2
  BY DEF HeadEnd
<1>9. /\ Length(k) = IF k.framing = "length" THEN Len(k.body) ELSE -1
      /\ k.framing = "none" \/ k.framing = "length" \/ k.framing = "chunked"
      /\ k.framing = "none" => k.body = <<>>
      /\ k.framing = "chunked" => Len(k.body) > 0 /\ k.body[Len(k.body)] = "last"
  BY <1>3, KindTypes
<1>10. GetContentLength(d) = IF contentLength # -1 THEN contentLength ELSE Length(k)
  BY <1>2, <1>7 DEF GetContentLength
<1>11. contentLength \in {-1, 0}
  BY DEF TypeOK
<1>12. HasBody(k) <=> Len(body) > 0
  BY <1>3, <1>4, BodyIsThere
<1>13. contentLength = 0 => r = 1
  <2>1. ASSUME contentLength = 0, Ahead # <<>>
        PROVE  Ahead[1].req = 1
    <3>1. Ahead[1] = Byte(1, "line", "text")
      BY <2>1, Zenon DEF CodecOK
    <3>2. QED BY <3>1 DEF Byte
  <2>2. Ahead[1].req = r /\ Ahead # <<>>
    <3>1. Ahead[1].req = r /\ Ahead \in Seq(ByteType) /\ Len(Ahead) > 0
      <4>1. Len(d) \in Nat /\ 1 \in 1..Len(d)
        BY <1>5, <1>6
      <4>2. QED BY <1>1, <1>7, <4>1, GenuineHead, RestIsAhead
    <3>2. QED BY <3>1, EmptySeq
  <2>3. QED BY <2>1, <2>2
<1>14. BlankBehind(d) => BlankLed(k) /\ d[3] = body[1]
  BY <1>1, <1>2, <1>4, <1>7, BlankIsOfTheBody
<1>15. SubSeq(d, 3, 2 + Len(body)) = body
  BY <1>1, <1>2, <1>4, <1>5, <1>6, <1>7, BodyIsRead
<1>16. LastChunks(d) = {j \in 3..2 + Len(body) : d[j].mark = "last"}
  BY <1>6, <1>8 DEF LastChunks
\* Where the body ends, and what is read of it, one kind of body after the other.
<1>17. NextOffset(d) = 2 + Len(body) /\ BodyRead(d) = body
  <2>1. CASE BlankBehind(d)
    <3>1. Len(k.body) = 1
      BY <1>2, <1>14, <2>1 DEF Clear
    <3>2. <<d[3]>> = body
      <4>1. PICK x : x = d[3]
        OBVIOUS
      <4>2. x \in ByteType
        <5>1. 3 \in 1..Len(d)
          BY <1>5, <1>6, <3>1
        <5>2. QED BY <1>6, <4>1, <5>1, ElementOfSeq
      <4>3. <<x>> \in Seq(ByteType) /\ Len(<<x>>) = 1 /\ <<x>>[1] = x
        BY <4>2
      <4>4. \A j \in 1..1 : j = 1
        OBVIOUS
      <4>5. QED BY <1>5, <1>14, <2>1, <3>1, <4>1, <4>3, <4>4, SeqEqual
    <3>3. NextOffset(d) = 3
      BY <1>8, <2>1 DEF NextOffset
    <3>4. BodyRead(d) = <<d[3]>>
      BY <1>2, <1>7, <1>8, <2>1, <3>1 DEF BodyRead
    <3>5. QED BY <1>5, <3>1, <3>2, <3>3, <3>4
  <2>2. CASE ~BlankBehind(d) /\ (contentLength = 0 \/ k.framing = "none")
    <3>1. Len(body) = 0 /\ body = <<>>
      <4>1. k.framing = "none" => Len(k.body) = 0
        BY <1>9, EmptySeq
      <4>2. Len(body) = 0
        BY <1>2, <1>5, <1>12, <1>13, <2>2, <4>1
      <4>3. QED BY <1>5, <4>2, EmptySeq
    <3>2. LastChunks(d) = {}
      BY <1>16, <3>1
    <3>3. ~ReadInChunks(d)
      BY <3>2 DEF ReadInChunks
    <3>4. NextOffset(d) = 2
      <4>1. GetContentLength(d) > -1 => GetContentLength(d) = 0
        BY <1>9, <1>10, <1>11, <2>2
      <4>2. QED BY <1>8, <2>2, <3>2, <4>1 DEF NextOffset
    <3>5. BodyRead(d) = SubSeq(d, 3, 2) \/ BodyRead(d) = <<>>
      BY <1>8, <2>2, <3>3, <3>4 DEF BodyRead
    <3>6. QED BY <1>15, <3>1, <3>4, <3>5
  <2>3. CASE ~BlankBehind(d) /\ contentLength # 0 /\ k.framing = "length"
    <3>1. GetContentLength(d) = Len(body) /\ GetContentLength(d) > -1
      BY <1>5, <1>9, <1>10, <1>11, <2>3
    <3>2. NextOffset(d) = 2 + Len(body)
      BY <1>8, <2>3, <3>1 DEF NextOffset
    <3>3. ~ReadInChunks(d)
      BY <3>1 DEF ReadInChunks
    <3>4. BodyRead(d) = SubSeq(d, 3, 2 + Len(body))
      BY <1>8, <2>3, <3>1, <3>2, <3>3 DEF BodyRead
    <3>5. QED BY <1>15, <3>2, <3>4
  <2>4. CASE ~BlankBehind(d) /\ contentLength # 0 /\ k.framing = "chunked"
    <3>1. ~(GetContentLength(d) > -1) /\ GetContentLength(d) = -1
      BY <1>9, <1>10, <1>11, <2>4
    <3>2. LastChunks(d) = {2 + Len(body)}
      <4>1. \A j \in 3..2 + Len(body) :
              j - 2 \in 1..Len(body) /\ d[j].mark = k.body[j - 2]
        <5> TAKE j \in 3..2 + Len(body)
        <5>1. j - 2 \in 1..Len(body) /\ 2 + (j - 2) = j
          BY <1>5
        <5>2. QED BY <1>5, <1>6, <5>1
      <4>2. \A m \in 1..Len(k.body) - 1 : k.body[m] # "last"
        BY <1>2, <2>4 DEF Clear
      <4>3. \A j \in 3..2 + Len(body) : d[j].mark = "last" <=> j = 2 + Len(body)
        <5> TAKE j \in 3..2 + Len(body)
        <5>1. CASE j = 2 + Len(body)
          <6>1. j - 2 = Len(k.body)
            BY <1>5, <5>1
          <6>2. QED BY <1>9, <2>4, <4>1, <5>1, <6>1
        <5>2. CASE j # 2 + Len(body)
          <6>1. j - 2 \in 1..Len(k.body) - 1
            BY <1>5, <5>2
          <6>2. QED BY <4>1, <4>2, <5>2, <6>1
        <5>3. QED BY <5>1, <5>2
      <4>4. 2 + Len(body) \in 3..2 + Len(body)
        BY <1>5, <1>9, <2>4
      <4>5. QED BY <1>16, <4>3, <4>4
    <3>3. FirstOf({2 + Len(body)}) = 2 + Len(body)
      <4>1. PICK m \in Nat : m = 2 + Len(body)
        BY <1>5
      <4>2. FirstOf({m}) = m
        BY FirstOfIsLeast
      <4>3. QED BY <4>1, <4>2
    <3>4. NextOffset(d) = 2 + Len(body)
      BY <2>4, <3>1, <3>2, <3>3 DEF NextOffset
    <3>5. ReadInChunks(d) /\ ~k.misread
      BY <1>2, <1>7, <2>4, <3>1, <3>2 DEF ReadInChunks, Clear
    <3>6. BodyRead(d) = SubSeq(d, 3, 2 + Len(body))
      BY <1>2, <1>7, <1>8, <2>4, <3>4, <3>5 DEF BodyRead
    <3>7. QED BY <1>15, <3>4, <3>6
  <2>5. QED BY <1>9, <2>1, <2>2, <2>3, <2>4
<1>18. Parses(d) /\ ~MayFail(d)
  <2>1. Parses(d)
    BY <1>5, <1>6, <1>17 DEF Parses
  <2>2. ~(NextOffset(d) < HeadEnd(d) + Len(k.body))
    BY <1>5, <1>8, <1>17
  <2>3. ~EarlyEnd(d)
    BY <1>2, <1>7, <2>2 DEF EarlyEnd
  <2>4. QED BY <2>1, <2>3 DEF MayFail
<1>19. QED BY <1>1, <1>2, <1>4, <1>6, <1>7, <1>17, <1>18

-----------------------------------------------------------------------------
(* What is ahead after a step.                                             *)

LEMMA AheadType ==
  ASSUME TypeOK
  PROVE  Ahead \in Seq(ByteType) /\ Len(Ahead) \in Nat
<1>1. buf \in Seq(ByteType) /\ wire \in Seq(ByteType) /\ Len(buf) \in Nat
  BY LenProperties DEF TypeOK
<1>2. PICK n : n = IF pc \in {"parse", "flush"} THEN processed ELSE 0
  OBVIOUS
<1>3. n \in 0..Len(buf)
  BY <1>1, <1>2 DEF TypeOK
<1>4. Drop(buf, n) \in Seq(ByteType)
  BY <1>1, <1>3, DropProperties
<1>5. Drop(buf, n) \o wire \in Seq(ByteType)
  BY <1>1, <1>4, ConcatProperties
<1>6. QED BY <1>2, <1>5, LenProperties DEF Ahead

\* While OnTraffic does not run, everything in the buffer is ahead.
LEMMA WaitingAhead ==
  ASSUME TypeOK, pc \notin {"parse", "flush"}
  PROVE  Ahead = buf \o wire
BY DropNothing DEF Ahead, TypeOK

LEMMA SendAhead ==
  ASSUME TypeOK, NEW k \in Kinds, Send(k)
  PROVE  Ahead' = Ahead \o RequestBytes(Len(sent) + 1, k)
<1>1. buf \in Seq(ByteType) /\ wire \in Seq(ByteType) /\ Len(buf) \in Nat
  BY LenProperties DEF TypeOK
<1>2. PICK n : n = IF pc \in {"parse", "flush"} THEN processed ELSE 0
  OBVIOUS
<1>3. n \in 0..Len(buf)
  BY <1>1, <1>2 DEF TypeOK
<1>4. PICK d : d = Drop(buf, n)
  OBVIOUS
<1>5. d \in Seq(ByteType)
  BY <1>1, <1>3, <1>4, DropProperties
<1>6. PICK b : b = RequestBytes(Len(sent) + 1, k)
  OBVIOUS
<1>7. b \in Seq(ByteType)
  <2>1. Len(sent) \in Nat /\ Len(sent) < MaxSent
    BY LenProperties DEF TypeOK, Send
  <2>2. Len(sent) + 1 \in Numbers
    BY <2>1, ConnectionAssumption DEF Numbers, ConnectionAssumption
  <2>3. QED BY <1>6, <2>2, RequestProperties
<1>8. Ahead = d \o wire
  BY <1>2, <1>4 DEF Ahead
<1>9. Ahead' = d \o (wire \o b)
  BY <1>2, <1>4, <1>6 DEF Ahead, Send
<1>10. (d \o wire) \o b = d \o (wire \o b)
  BY <1>1, <1>5, <1>7, ConcatAssociative
<1>11. QED BY <1>6, <1>8, <1>9, <1>10

\* Neither the arrival of bytes nor what discards those gone over changes it.
LEMMA TrafficAhead ==
  ASSUME TypeOK, NEW n \in 1..Len(wire), Traffic(n)
  PROVE  Ahead' = Ahead
<1>1. buf \in Seq(ByteType) /\ wire \in Seq(ByteType) /\ Len(wire) \in Nat
  BY LenProperties DEF TypeOK
<1>2. PICK b, w : b = SubSeq(wire, 1, n) /\ w = SubSeq(wire, n + 1, Len(wire))
  OBVIOUS
<1>3. b \in Seq(ByteType)
  <2>1. \A i \in 1..n : wire[i] \in ByteType
    BY <1>1, ElementOfSeq
  <2>2. QED BY <1>2, <2>1, SubSeqProperties
<1>4. w \in Seq(ByteType)
  <2>1. \A i \in n + 1..Len(wire) : wire[i] \in ByteType
    BY <1>1, ElementOfSeq
  <2>2. QED BY <1>1, <1>2, <2>1, SubSeqProperties
<1>5. b \o w = wire
  <2>1. 1 \in 1..Len(wire) + 1 /\ n \in 1 - 1..Len(wire) /\ Len(wire) \in n..Len(wire)
    BY <1>1
  <2>2. b \o w = SubSeq(wire, 1, Len(wire))
    BY <1>1, <1>2, <2>1, ConcatAdjacentSubSeq
  <2>3. QED BY <1>1, <2>2, SubSeqFull
<1>6. Ahead = buf \o wire
  BY WaitingAhead DEF Traffic
<1>7. buf \o b \in Seq(ByteType)
  BY <1>1, <1>3, ConcatProperties
<1>8. Ahead' = (buf \o b) \o w
  <2>1. PICK c : c = buf \o b
    OBVIOUS
  <2>2. /\ buf' = c /\ wire' = w /\ pc' = "parse" /\ processed' = 0
    BY <1>2, <2>1 DEF Traffic
  <2>3. Ahead' = Drop(c, 0) \o w
    BY <2>2 DEF Ahead
  <2>4. QED BY <1>7, <2>1, <2>3, DropNothing
<1>9. (buf \o b) \o w = buf \o (b \o w)
  <2>1. PICK u \in Seq(ByteType) : u = buf
    BY <1>1
  <2>2. (u \o b) \o w = u \o (b \o w)
    BY <1>3, <1>4, ConcatAssociative
  <2>3. QED BY <2>1, <2>2
<1>10. QED BY <1>5, <1>6, <1>8, <1>9

LEMMA FlushAhead ==
  ASSUME TypeOK, Flush
  PROVE  Ahead' = Ahead
<1>1. PICK d : d = Rest
  OBVIOUS
<1>2. d \in Seq(ByteType) /\ Ahead = d \o wire
  BY <1>1, RestIsAhead DEF Flush
<1>3. buf' = d /\ pc' = "wait" /\ wire' = wire
  BY <1>1 DEF Flush, EndTraffic, Rest, client
<1>4. Ahead' = Drop(d, 0) \o wire
  BY <1>3 DEF Ahead
<1>5. QED BY <1>2, <1>4, DropNothing

LEMMA CloseAhead ==
  ASSUME TypeOK, Close
  PROVE  Ahead' = Ahead
BY DEF Close, Ahead, client

\* What OnTraffic goes over is no longer ahead.
LEMMA PartAhead ==
  ASSUME TypeOK, pc = "parse", NEW n \in 0..Len(buf) - processed,
         buf' = buf, wire' = wire, pc' \in {"parse", "flush"}, processed' = processed + n
  PROVE  Ahead' = Drop(Ahead, n)
<1>1. buf \in Seq(ByteType) /\ wire \in Seq(ByteType) /\ Len(buf) \in Nat
  BY LenProperties DEF TypeOK
<1>2. processed \in 0..Len(buf)
  BY <1>1 DEF TypeOK
<1>3. PICK d : d = Drop(buf, processed)
  OBVIOUS
<1>4. d \in Seq(ByteType) /\ Len(d) = Len(buf) - processed
  BY <1>1, <1>2, <1>3, DropProperties
<1>5. Ahead = d \o wire
  BY <1>3 DEF Ahead
<1>6. n \in 0..Len(d)
  BY <1>4
<1>7. Drop(d \o wire, n) = Drop(d, n) \o wire
  BY <1>1, <1>4, <1>6, DropOfConcat
<1>8. Drop(d, n) = Drop(buf, processed + n)
  BY <1>1, <1>2, <1>3, DropTwice
<1>9. Ahead' = Drop(buf, processed + n) \o wire
  BY DEF Ahead
<1>10. QED BY <1>5, <1>7, <1>8, <1>9

-----------------------------------------------------------------------------
(* OnTraffic goes over some bytes.                                         *)

LEMMA GoesOver ==
  ASSUME IInv, pc = "parse", processed < Len(buf),
         NEW n \in 0..Len(buf) - processed, n > 0 \/ Rest[1].part # "line",
         UNCHANGED <<client, buf, cut>>,
         pc' \in {"parse", "flush"}, processed' = processed + n, ResetParser
  PROVE  /\ Framed(Ahead', sent)
         /\ Len(Ahead') \in Nat /\ Len(Ahead') = Len(Ahead) - n
         /\ \A a \in 1..Len(Ahead') : n + a \in 1..Len(Ahead) /\ Ahead'[a] = Ahead[n + a]
         /\ CodecOK' /\ CutOK'
<1>1. TypeOK /\ Framed(Ahead, sent) /\ CodecOK /\ CutOK
  BY DEF IInv
<1>2. PICK s : s = Ahead
  OBVIOUS
<1>3. PICK t : t = Ahead'
  OBVIOUS
<1>4. s \in Seq(ByteType) /\ Len(s) \in Nat /\ Framed(s, sent)
  BY <1>1, <1>2, AheadType
<1>5. t = Drop(s, n)
  BY <1>1, <1>2, <1>3, PartAhead DEF client
<1>6. /\ n \in 0..Len(s) /\ 1 \in 1..Len(s) /\ Len(buf) \in Nat /\ n \in Nat
      /\ s[1] = Rest[1]
  <2>1. Len(buf) \in Nat /\ Len(wire) \in Nat /\ processed \in Nat
    BY <1>1, LenProperties DEF TypeOK
  <2>2. Len(s) = Len(buf) - processed + Len(wire)
    BY <1>1, <1>2, RestIsAhead
  <2>3. s[1] = Rest[1]
    <3>1. 1 \in 1..Len(Rest)
      <4>1. Len(Rest) = Len(buf) - processed
        BY <1>1, RestIsAhead
      <4>2. QED BY <2>1, <4>1
    <3>2. QED BY <1>1, <1>2, <3>1, RestIsAhead
  <2>4. QED BY <2>1, <2>2, <2>3
<1>7. /\ t \in Seq(ByteType) /\ Len(t) = Len(s) - n
      /\ \A a \in 1..Len(s) - n : t[a] = s[n + a]
  BY <1>4, <1>5, <1>6, DropProperties
<1>8. \A a \in 1..Len(t) : n + a \in 1..Len(s) /\ t[a] = s[n + a]
  BY <1>4, <1>6, <1>7
<1>9. Framed(t, sent)
  BY <1>1, <1>4, <1>5, <1>6, FramedDrop DEF TypeOK
<1>10. /\ sent' = sent /\ wire' = wire /\ buf' = buf /\ cut' = cut /\ contentLength' = -1
  BY DEF client, ResetParser
<1>11. sent # <<>>
  <2>1. s[1].req \in 1..Len(sent)
    BY <1>1, <1>4, <1>6, FramedBytes DEF TypeOK
  <2>2. CASE sent = <<>>
    <3>1. Len(sent) = 0
      BY <2>2, EmptySeq
    <3>2. QED BY <2>1, <3>1
  <2>3. QED BY <2>2
\* A line that was ahead first is not ahead any more.
<1>12. ASSUME NEW i, s[1] = Byte(i, "line", "text"), NEW a \in 1..Len(t),
              t[a].part = "line"
       PROVE  t[a].req # i
  <2>1. s[1].part = "line" /\ s[1].req = i
    BY <1>12 DEF Byte
  <2>2. s[1].req < s[n + a].req
    <3>1. n + a \in 1..Len(s) /\ 1 < n + a
      BY <1>6, <1>7, <2>1
    <3>2. QED BY <1>4, <1>6, <1>8, <1>12, <2>1, <3>1 DEF Framed, Ordered, HeadPart
  <2>3. s[1].req \in Numbers
    <3>1. s[1] \in ByteType
      BY <1>4, <1>6, ElementOfSeq
    <3>2. QED BY <3>1 DEF ByteType
  <2>4. QED BY <1>8, <2>1, <2>2, <2>3 DEF Numbers
<1>13. CodecOK'
  <2>1. ASSUME NEW a \in 1..Len(t), t[a].part = "line"
        PROVE  t[a].req # 1
    <3>1. CASE contentLength = 0
      <4>1. s[1] = Byte(1, "line", "text")
        <5>1. Len(<<>>) = 0
          BY EmptySeq
        <5>2. s # <<>>
          BY <1>6, <5>1
        <5>3. QED BY <1>1, <1>2, <3>1, <5>2, Zenon DEF CodecOK
      <4>2. QED BY <1>12, <2>1, <4>1
    <3>2. CASE contentLength # 0
      <4>1. ~HasLine(1)
        BY <1>1, <3>2 DEF CodecOK
      <4>2. QED BY <1>2, <1>8, <2>1, <4>1 DEF HasLine
    <3>3. QED BY <3>1, <3>2
  <2>2. ~HasLine(1)'
    BY <1>3, <2>1 DEF HasLine
  <2>3. QED BY <1>10, <1>11, <2>2 DEF CodecOK
<1>14. CutOK'
  <2> SUFFICES ASSUME NEW i \in cut
               PROVE  i <= Len(sent) /\ ~HasLine(i)'
    BY <1>10 DEF CutOK
  <2>1. i <= Len(sent)
    BY <1>1 DEF CutOK
  <2>2. ASSUME NEW a \in 1..Len(t), t[a].part = "line"
        PROVE  t[a].req # i
    <3>1. CASE HasLine(i)
      <4>1. processed = 0 /\ buf[1] = Byte(i, "line", "text")
        BY <1>1, <3>1 DEF CutOK
      <4>2. Rest[1] = buf[1]
        <5>1. Rest = Drop(buf, 0)
          BY <4>1 DEF Rest, Drop
        <5>2. Rest = buf
          BY <1>1, <5>1, DropNothing DEF TypeOK
        <5>3. QED BY <5>2
      <4>3. s[1] = Byte(i, "line", "text")
        BY <1>6, <4>1, <4>2
      <4>4. QED BY <1>12, <2>2, <4>3
    <3>2. CASE ~HasLine(i)
      BY <1>2, <1>8, <2>2, <3>2 DEF HasLine
    <3>3. QED BY <3>1, <3>2
  <2>3. ~HasLine(i)'
    BY <1>3, <2>2 DEF HasLine
  <2>4. QED BY <2>1, <2>3
<1>15. QED BY <1>2, <1>3, <1>4, <1>6, <1>7, <1>8, <1>9, <1>13, <1>14

-----------------------------------------------------------------------------
(* What a polite client has got.                                           *)

LEMMA ServedProperties ==
  /\ Served(0) = <<>>
  /\ \A n \in Nat : Append(Served(n), [req |-> n + 1, genuine |-> TRUE, whole |-> TRUE])
                      = Served(n + 1)
<1>1. Served(0) = <<>>
  BY DEF Served
<1>2. ASSUME NEW n \in Nat
      PROVE  Append(Served(n), [req |-> n + 1, genuine |-> TRUE, whole |-> TRUE]) = Served(n + 1)
  <2> DEFINE entry(i) == [req |-> i, genuine |-> TRUE, whole |-> TRUE]
             S == {entry(i) : i \in Nat}
  <2>1. \A i \in Nat : entry(i) \in S
    OBVIOUS
  <2>2. Served(n) = [i \in 1..n |-> entry(i)] /\ Served(n + 1) = [i \in 1..n + 1 |-> entry(i)]
    BY DEF Served
  <2>3. HIDE DEF entry, S
  <2>4. PICK s : s = [i \in 1..n |-> entry(i)]
    OBVIOUS
  <2>5. s \in Seq(S) /\ Len(s) = n /\ \A i \in 1..n : s[i] = entry(i)
    BY <2>1, <2>4
  <2>6. PICK t : t = [i \in 1..n + 1 |-> entry(i)]
    OBVIOUS
  <2>7. t \in Seq(S) /\ Len(t) = n + 1 /\ \A i \in 1..n + 1 : t[i] = entry(i)
    BY <2>1, <2>6
  <2>8. PICK x \in S : x = entry(n + 1)
    BY <2>1
  <2>9. /\ Append(s, x) \in Seq(S) /\ Len(Append(s, x)) = Len(s) + 1
        /\ \A i \in 1..Len(s) : Append(s, x)[i] = s[i]
        /\ Append(s, x)[Len(s) + 1] = x
    BY <2>5, AppendProperties
  <2>10. \A i \in 1..n + 1 : Append(s, x)[i] = t[i]
    <3> TAKE i \in 1..n + 1
    <3>1. i \in 1..n \/ i = n + 1
      OBVIOUS
    <3>2. QED BY <2>5, <2>7, <2>8, <2>9, <3>1
  <2>11. Len(Append(s, x)) = Len(t)
    BY <2>5, <2>7, <2>9
  <2>12. Append(s, x) = t
    BY <2>7, <2>9, <2>10, <2>11, SeqEqual
  <2>13. x = [req |-> n + 1, genuine |-> TRUE, whole |-> TRUE]
    BY <2>8 DEF entry
  <2>14. QED BY <2>2, <2>4, <2>6, <2>12, <2>13
<1>3. QED BY <1>1, <1>2

LEMMA AnswersProperties ==
  /\ AnswersTo(0) = <<>>
  /\ \A n \in Nat : Append(AnswersTo(n), [req |-> n + 1, status |-> "handled"])
                      = AnswersTo(n + 1)
<1>1. AnswersTo(0) = <<>>
  BY DEF AnswersTo
<1>2. ASSUME NEW n \in Nat
      PROVE  Append(AnswersTo(n), [req |-> n + 1, status |-> "handled"]) = AnswersTo(n + 1)
  <2> DEFINE entry(i) == [req |-> i, status |-> "handled"]
             S == {entry(i) : i \in Nat}
  <2>1. \A i \in Nat : entry(i) \in S
    OBVIOUS
  <2>2. /\ AnswersTo(n) = [i \in 1..n |-> entry(i)]
        /\ AnswersTo(n + 1) = [i \in 1..n + 1 |-> entry(i)]
    BY DEF AnswersTo
  <2>3. HIDE DEF entry, S
  <2>4. PICK s : s = [i \in 1..n |-> entry(i)]
    OBVIOUS
  <2>5. s \in Seq(S) /\ Len(s) = n /\ \A i \in 1..n : s[i] = entry(i)
    BY <2>1, <2>4
  <2>6. PICK t : t = [i \in 1..n + 1 |-> entry(i)]
    OBVIOUS
  <2>7. t \in Seq(S) /\ Len(t) = n + 1 /\ \A i \in 1..n + 1 : t[i] = entry(i)
    BY <2>1, <2>6
  <2>8. PICK x \in S : x = entry(n + 1)
    BY <2>1
  <2>9. /\ Append(s, x) \in Seq(S) /\ Len(Append(s, x)) = Len(s) + 1
        /\ \A i \in 1..Len(s) : Append(s, x)[i] = s[i]
        /\ Append(s, x)[Len(s) + 1] = x
    BY <2>5, AppendProperties
  <2>10. \A i \in 1..n + 1 : Append(s, x)[i] = t[i]
    <3> TAKE i \in 1..n + 1
    <3>1. i \in 1..n \/ i = n + 1
      OBVIOUS
    <3>2. QED BY <2>5, <2>7, <2>8, <2>9, <3>1
  <2>11. Len(Append(s, x)) = Len(t)
    BY <2>5, <2>7, <2>9
  <2>12. Append(s, x) = t
    BY <2>7, <2>9, <2>10, <2>11, SeqEqual
  <2>13. x = [req |-> n + 1, status |-> "handled"]
    BY <2>8 DEF entry
  <2>14. QED BY <2>2, <2>4, <2>6, <2>12, <2>13
<1>3. QED BY <1>1, <1>2

-----------------------------------------------------------------------------
(* The invariant holds at first and is kept by what the client does.       *)

LEMMA HandledTypes ==
  ASSUME TypeOK
  PROVE  /\ DOMAIN handled = 1..Len(handled) /\ Len(handled) \in Nat
         /\ \A i \in 1..Len(handled) :
              /\ handled[i].req \in Numbers /\ handled[i].req \in Nat
              /\ handled[i].genuine \in BOOLEAN /\ handled[i].whole \in BOOLEAN
<1>1. handled \in Seq([req: Numbers, genuine: BOOLEAN, whole: BOOLEAN])
  BY DEF TypeOK
<1>2. DOMAIN handled = 1..Len(handled) /\ Len(handled) \in Nat
  BY <1>1, LenProperties
<1>3. \A i \in 1..Len(handled) : handled[i] \in [req: Numbers, genuine: BOOLEAN, whole: BOOLEAN]
  BY <1>1, ElementOfSeq
<1>4. QED BY <1>2, <1>3 DEF Numbers

LEMMA InitKeeps ==
  ASSUME Init
  PROVE  IInv
<1>1. TypeOK
  <2>1. \A S : <<>> \in Seq(S)
    BY EmptySeq
  <2>2. Len(sent) = 0 /\ MaxSent \in Nat
    BY EmptySeq, ConnectionAssumption DEF Init, ConnectionAssumption
  <2>3. QED BY <2>1, <2>2 DEF Init, TypeOK
<1>2. Ahead = <<>> /\ Len(Ahead) = 0
  <2>1. Ahead = buf \o wire
    BY <1>1, WaitingAhead DEF Init
  <2>2. Ahead = <<>>
    BY <1>1, <2>1, ConcatEmptySeq DEF Init, TypeOK
  <2>3. QED BY <2>2, EmptySeq
<1>3. Framed(Ahead, sent)
  BY <1>2 DEF Framed, Ordered
<1>4. DOMAIN handled = {} /\ Len(handled) = 0
  BY DEF Init
<1>5. HandledBehind /\ HandledOnce /\ HandledWhole
  BY <1>4 DEF HandledBehind, HandledOnce, HandledWhole
<1>6. CodecOK
  BY <1>2 DEF Init, CodecOK
<1>7. CutOK
  BY DEF Init, CutOK
<1>8. PoliteOK
  <2>1. handled = Served(0) /\ answers = AnswersTo(0) /\ buf = <<>> /\ NextIs(wire, 0)
    BY <1>4, ServedProperties, AnswersProperties, EmptySeq DEF Init, NextIs
  <2>2. pc = "wait"
    BY DEF Init
  <2>3. QED BY <1>4, <2>1, <2>2 DEF PoliteOK
<1>9. ResponseOK
  BY DEF Init, ResponseOK
<1>10. LastAnswerOnly
  <2>1. SubSeq(answers, answered + 1, Len(answers)) = <<>>
    BY SubSeqEmpty, EmptySeq DEF Init
  <2>2. Len(handled) = batch
    BY <1>4 DEF Init
  <2>3. QED BY <2>1, <2>2 DEF LastAnswerOnly
<1>11. QED
  BY <1>1, <1>3, <1>5, <1>6, <1>7, <1>8, <1>9, <1>10 DEF IInv

LEMMA SendKeeps ==
  ASSUME IInv, NEW k \in Kinds, Send(k)
  PROVE  IInv'
<1>1. /\ TypeOK /\ Framed(Ahead, sent) /\ HandledBehind /\ HandledOnce /\ CodecOK /\ CutOK
      /\ HandledWhole /\ PoliteOK /\ ResponseOK /\ LastAnswerOnly
  BY DEF IInv
<1>2. PICK m : m = Len(sent) + 1
  OBVIOUS
<1>3. /\ sent \in Seq(Kinds) /\ Len(sent) \in Nat /\ Len(sent) < MaxSent /\ MaxSent \in Nat
      /\ m \in Numbers /\ m \in Nat
  <2>1. sent \in Seq(Kinds) /\ Len(sent) \in Nat /\ Len(sent) < MaxSent
    BY <1>1, LenProperties DEF TypeOK, Send
  <2>2. MaxSent \in Nat
    BY ConnectionAssumption DEF ConnectionAssumption
  <2>3. QED BY <1>2, <2>1, <2>2 DEF Numbers
<1>4. PICK q : q = sent'
  OBVIOUS
<1>5. /\ q \in Seq(Kinds) /\ Len(q) = m /\ q[m] = k /\ q # <<>>
      /\ \A i \in 1..Len(sent) : q[i] = sent[i]
  <2>1. q = Append(sent, k)
    BY <1>4 DEF Send
  <2>2. QED BY <1>2, <1>3, <2>1, AppendProperties
<1>6. PICK new : new = RequestBytes(m, k)
  OBVIOUS
<1>7. PICK body : body = BodyBytes(m, k)
  OBVIOUS
<1>8. /\ body \in Seq(ByteType) /\ Len(body) \in Nat
      /\ \A j \in 1..Len(body) : body[j].req = m /\ body[j].part = "body"
  BY <1>3, <1>7, BodyProperties, LenProperties
<1>9. /\ new \in Seq(ByteType) /\ Len(new) = 2 + Len(body)
      /\ new[1] = Byte(m, "line", "text") /\ new[2] = Byte(m, "end", EndMark(k))
      /\ \A j \in 1..Len(body) : new[2 + j] = body[j]
  BY <1>3, <1>6, <1>7, RequestProperties
<1>10. \A j \in 1..Len(new) : new[j].req = m
  <2> TAKE j \in 1..Len(new)
  <2>1. CASE j = 1
    BY <1>9, <2>1 DEF Byte
  <2>2. CASE j = 2
    BY <1>9, <2>2 DEF Byte
  <2>3. CASE j # 1 /\ j # 2
    <3>1. j - 2 \in 1..Len(body) /\ j = 2 + (j - 2)
      BY <1>8, <1>9, <2>3
    <3>2. QED BY <1>8, <1>9, <3>1
  <2>4. QED BY <2>1, <2>2, <2>3
<1>11. PICK s, t : s = Ahead /\ t = Ahead'
  OBVIOUS
<1>12. s \in Seq(ByteType) /\ Len(s) \in Nat /\ Framed(s, sent)
  BY <1>1, <1>11, AheadType
<1>13. t = s \o new
  BY <1>1, <1>2, <1>6, <1>11, SendAhead
<1>14. /\ t \in Seq(ByteType) /\ Len(t) = Len(s) + Len(new)
       /\ \A a \in 1..Len(s) + Len(new) : t[a] = IF a <= Len(s) THEN s[a] ELSE new[a - Len(s)]
  <2>1. new \in Seq(ByteType)
    BY <1>9
  <2>2. QED BY <1>12, <1>13, <2>1, ConcatProperties
<1>15. \A a \in 1..Len(s) : a \in 1..Len(t) /\ t[a] = s[a]
  BY <1>8, <1>9, <1>12, <1>14
<1>16. \A a \in 1..Len(t) : (a \in 1..Len(s) /\ t[a] = s[a]) \/ t[a].req = m
  <2> TAKE a \in 1..Len(t)
  <2>1. CASE a <= Len(s)
    BY <1>12, <1>15, <2>1
  <2>2. CASE ~(a <= Len(s))
    <3>1. a - Len(s) \in 1..Len(new) /\ a \in 1..Len(s) + Len(new)
      BY <1>8, <1>9, <1>12, <1>14, <2>2
    <3>2. QED BY <1>10, <1>14, <2>2, <3>1
  <2>3. QED BY <2>1, <2>2
<1>17. /\ wire' = wire \o new
       /\ UNCHANGED <<buf, pc, processed, contentLength, response, answers, handled,
                      batch, answered, polite, cut>>
  BY <1>2, <1>6 DEF Send, history
<1>18. /\ wire' \in Seq(ByteType) /\ wire' # <<>>
       /\ wire'[1] = IF wire = <<>> THEN Byte(m, "line", "text") ELSE wire[1]
  <2>1. PICK w, v : w = wire /\ v = wire'
    OBVIOUS
  <2>2. w \in Seq(ByteType) /\ Len(w) \in Nat
    BY <1>1, <2>1, LenProperties DEF TypeOK
  <2>3. /\ v \in Seq(ByteType) /\ Len(v) = Len(w) + Len(new)
        /\ \A a \in 1..Len(w) + Len(new) : v[a] = IF a <= Len(w) THEN w[a] ELSE new[a - Len(w)]
    <3>1. new \in Seq(ByteType)
      BY <1>9
    <3>2. v = w \o new
      BY <1>17, <2>1
    <3>3. QED BY <2>2, <3>1, <3>2, ConcatProperties
  <2>4. Len(v) > 0 /\ 1 \in 1..Len(w) + Len(new)
    BY <1>8, <1>9, <2>2, <2>3
  <2>5. v # <<>>
    BY <2>4, EmptySeq
  <2>6. CASE w = <<>>
    <3>1. Len(w) = 0 /\ ~(1 <= Len(w)) /\ 1 - Len(w) = 1
      BY <2>6, EmptySeq
    <3>2. v[1] = new[1]
      BY <2>3, <2>4, <3>1
    <3>3. QED BY <1>9, <2>1, <2>3, <2>5, <2>6, <3>2
  <2>7. CASE w # <<>>
    <3>1. 1 <= Len(w)
      BY <2>2, <2>7, EmptySeq
    <3>2. QED BY <2>1, <2>3, <2>4, <2>5, <2>7, <3>1
  <2>8. QED BY <2>6, <2>7
<1>19. TypeOK'
  <2>1. Len(q) <= MaxSent
    BY <1>2, <1>3, <1>5
  <2>2. QED BY <1>1, <1>4, <1>5, <1>17, <1>18, <2>1 DEF TypeOK
<1>20. Framed(Ahead', sent')
  <2>1. Framed(s \o RequestBytes(Len(sent) + 1, k), Append(sent, k))
    BY <1>3, <1>12, FramedAppend
  <2>2. QED BY <1>2, <1>6, <1>11, <1>13, <2>1 DEF Send
<1>21. HandledBehind'
  <2>1. ASSUME NEW i \in DOMAIN handled, handled[i].genuine
        PROVE  /\ handled[i].req <= Len(q)
               /\ \A a \in 1..Len(t) : t[a].part = "end" => handled[i].req < t[a].req
    <3>1. /\ handled[i].req <= Len(sent) /\ handled[i].req \in Nat
          /\ \A a \in 1..Len(s) : s[a].part = "end" => handled[i].req < s[a].req
      <4>1. handled[i].req \in Numbers
        BY <1>1, HandledTypes
      <4>2. QED BY <1>1, <1>11, <2>1, <4>1 DEF HandledBehind, Numbers
    <3>2. handled[i].req < m /\ handled[i].req <= Len(q)
      BY <1>2, <1>3, <1>5, <3>1
    <3>3. QED BY <1>16, <3>1, <3>2
  <2>2. QED BY <1>4, <1>11, <1>17, <2>1 DEF HandledBehind
<1>22. HandledOnce'
  BY <1>1, <1>17 DEF HandledOnce
<1>23. \A i : i <= Len(sent) => (HasLine(i)' <=> HasLine(i))
  <2> TAKE i
  <2> HAVE i <= Len(sent)
  <2>1. i # m
    BY <1>2, <1>3
  <2>2. HasLine(i) <=> \E a \in 1..Len(s) : s[a].part = "line" /\ s[a].req = i
    BY <1>11 DEF HasLine
  <2>3. HasLine(i)' <=> \E a \in 1..Len(t) : t[a].part = "line" /\ t[a].req = i
    BY <1>11 DEF HasLine
  <2>4. QED BY <1>15, <1>16, <2>1, <2>2, <2>3
<1>24. CodecOK'
  <2>1. CASE contentLength = 0
    <3>1. handled = <<>> /\ (pc = "parse" => processed = 0 /\ buf # <<>>)
      BY <1>1, <2>1 DEF CodecOK
    <3>2. t # <<>> /\ t[1] = Byte(1, "line", "text")
      <4>1. Len(t) > 0 /\ 1 \in 1..Len(s) + Len(new)
        BY <1>8, <1>9, <1>12, <1>14
      <4>2. t # <<>>
        BY <4>1, EmptySeq
      <4>3. CASE s = <<>>
        <5>1. sent = <<>> /\ Len(sent) = 0 /\ m = 1
          BY <1>1, <1>2, <1>11, <2>1, <4>3, EmptySeq DEF CodecOK
        <5>2. Len(s) = 0 /\ ~(1 <= Len(s)) /\ 1 - Len(s) = 1
          BY <4>3, EmptySeq
        <5>3. t[1] = new[1]
          BY <1>14, <4>1, <5>2
        <5>4. QED BY <1>9, <4>2, <5>1, <5>3
      <4>4. CASE s # <<>>
        <5>1. s[1] = Byte(1, "line", "text")
          BY <1>1, <1>11, <2>1, <4>4, Zenon DEF CodecOK
        <5>2. 1 \in 1..Len(s)
          BY <1>12, <4>4, EmptySeq
        <5>3. QED BY <1>15, <4>2, <5>1, <5>2
      <4>5. QED BY <4>3, <4>4
    <3>3. pc # "flush"
      BY <1>1, <2>1 DEF CodecOK
    <3>4. QED BY <1>11, <1>17, <2>1, <3>1, <3>2, <3>3 DEF CodecOK
  <2>2. CASE contentLength # 0
    <3>1. ~HasLine(1) /\ sent # <<>> /\ (pc = "flush" => contentLength = -1)
      BY <1>1, <2>2 DEF CodecOK
    <3>2. 1 <= Len(sent)
      BY <1>3, <3>1, EmptySeq
    <3>3. ~HasLine(1)'
      BY <1>23, <3>1, <3>2
    <3>4. QED BY <1>4, <1>5, <1>17, <2>2, <3>1, <3>3 DEF CodecOK
  <2>3. QED BY <2>1, <2>2
<1>25. CutOK'
  <2> SUFFICES ASSUME NEW i \in cut
               PROVE  /\ i <= Len(q)
                      /\ HasLine(i)' => /\ pc = "parse" /\ processed = 0 /\ buf # <<>>
                                        /\ buf[1] = Byte(i, "line", "text")
                                        /\ Len(buf) < 2 + Len(BodyBytes(i, q[i]))
    BY <1>4, <1>17 DEF CutOK
  <2>1. /\ i <= Len(sent)
        /\ HasLine(i) => /\ pc = "parse" /\ processed = 0 /\ buf # <<>>
                         /\ buf[1] = Byte(i, "line", "text")
                         /\ Len(buf) < 2 + Len(BodyBytes(i, sent[i]))
    BY <1>1 DEF CutOK
  <2>2. i \in 1..Len(sent) /\ i <= Len(q)
    <3>1. i \in Numbers
      BY <1>1 DEF TypeOK
    <3>2. QED BY <1>2, <1>3, <1>5, <2>1, <3>1 DEF Numbers
  <2>3. q[i] = sent[i]
    BY <1>5, <2>2
  <2>4. QED BY <1>23, <2>1, <2>2, <2>3
<1>26. HandledWhole'
  <2>1. ASSUME NEW i \in DOMAIN handled, handled[i].genuine
        PROVE  WholeRight(handled[i], q[handled[i].req], cut)
    <3>1. handled[i].req \in 1..Len(sent)
      <4>1. handled[i].req \in Numbers
        BY <1>1, HandledTypes
      <4>2. handled[i].req <= Len(sent)
        BY <1>1, <2>1 DEF HandledBehind
      <4>3. QED BY <1>3, <4>1, <4>2 DEF Numbers
    <3>2. q[handled[i].req] = sent[handled[i].req]
      BY <1>5, <3>1
    <3>3. WholeRight(handled[i], sent[handled[i].req], cut)
      BY <1>1, <2>1 DEF HandledWhole, WholeRight
    <3>4. QED BY <3>2, <3>3
  <2>2. QED BY <1>4, <1>17, <2>1 DEF HandledWhole, WholeRight
<1>27. PoliteOK'
  <2> SUFFICES ASSUME polite
               PROVE  PoliteOK'
    BY <1>17 DEF PoliteOK
  <2>1. PICK n \in Nat : n = Len(handled)
    BY <1>1, LenProperties DEF TypeOK
  <2>2. /\ handled = Served(n)
        /\ pc \in {"wait", "closed"} => buf = <<>> /\ answers = AnswersTo(n) /\ NextIs(wire, n)
        /\ pc = "parse" /\ processed = 0 =>
             /\ n + 1 <= Len(sent) /\ buf = RequestBytes(n + 1, sent[n + 1])
             /\ Clear(sent[n + 1]) /\ (n + 1 = 1 => ~HasBody(sent[n + 1]))
             /\ answers = AnswersTo(n)
        /\ (pc = "parse" /\ processed > 0) \/ pc = "flush" =>
             /\ n > 0 /\ processed = Len(buf) /\ NextIs(wire, n)
             /\ response = [req |-> n, status |-> "handled"]
             /\ answers = AnswersTo(n - 1)
    BY <1>1, <2>1 DEF PoliteOK
  <2>3. NextIs(wire, n) => NextIs(wire, n)'
    <3> SUFFICES ASSUME NextIs(wire, n)
                 PROVE  n < m /\ wire'[1] = Byte(n + 1, "line", "text")
      BY <1>4, <1>5, <1>18 DEF NextIs
    <3>1. CASE wire = <<>>
      <4>1. n = Len(sent)
        BY <3>1 DEF NextIs
      <4>2. QED BY <1>2, <1>3, <1>18, <3>1, <4>1
    <3>2. CASE wire # <<>>
      <4>1. n < Len(sent) /\ wire[1] = Byte(n + 1, "line", "text")
        BY <3>2 DEF NextIs
      <4>2. QED BY <1>2, <1>3, <1>18, <3>2, <4>1
    <3>3. QED BY <3>1, <3>2
  <2>4. n + 1 <= Len(sent) => n + 1 <= Len(q) /\ q[n + 1] = sent[n + 1]
    BY <1>2, <1>3, <1>5
  <2>5. QED BY <1>4, <1>17, <2>1, <2>2, <2>3, <2>4 DEF PoliteOK
<1>28. ResponseOK' /\ LastAnswerOnly'
  BY <1>1, <1>17 DEF ResponseOK, LastAnswerOnly
<1>29. QED
  BY <1>19, <1>20, <1>21, <1>22, <1>24, <1>25, <1>26, <1>27, <1>28 DEF IInv

LEMMA TrafficKeeps ==
  ASSUME IInv, NEW n \in 1..Len(wire), Traffic(n)
  PROVE  IInv'
<1>1. /\ TypeOK /\ Framed(Ahead, sent) /\ HandledBehind /\ HandledOnce /\ CodecOK /\ CutOK
      /\ HandledWhole /\ PoliteOK /\ ResponseOK /\ LastAnswerOnly
  BY DEF IInv
<1>2. /\ sent \in Seq(Kinds) /\ Len(sent) \in Nat /\ Len(sent) <= MaxSent /\ MaxSent \in Nat
      /\ DOMAIN sent = 1..Len(sent)
  <2>1. sent \in Seq(Kinds) /\ Len(sent) <= MaxSent
    BY <1>1 DEF TypeOK
  <2>2. QED BY <2>1, LenProperties, ConnectionAssumption DEF ConnectionAssumption
<1>3. PICK b, w : b = SubSeq(wire, 1, n) /\ w = SubSeq(wire, n + 1, Len(wire))
  OBVIOUS
<1>4. wire \in Seq(ByteType) /\ buf \in Seq(ByteType) /\ Len(wire) \in Nat /\ Len(buf) \in Nat
  BY <1>1, LenProperties DEF TypeOK
<1>5. b \in Seq(ByteType) /\ Len(b) = n /\ b[1] = wire[1] /\ b # <<>>
  <2>1. \A i \in 1..n : wire[i] \in ByteType
    BY <1>4, ElementOfSeq
  <2>2. /\ b \in Seq(ByteType) /\ Len(b) = IF 1 <= n THEN n - 1 + 1 ELSE 0
        /\ \A i \in 1..n - 1 + 1 : b[i] = wire[1 + i - 1]
    BY <1>3, <2>1, SubSeqProperties
  <2>3. Len(b) = n /\ 1 \in 1..n - 1 + 1 /\ 1 + 1 - 1 = 1 /\ n > 0
    BY <2>2
  <2>4. QED BY <2>2, <2>3, EmptySeq
<1>6. w \in Seq(ByteType)
  <2>1. \A i \in n + 1..Len(wire) : wire[i] \in ByteType
    BY <1>4, ElementOfSeq
  <2>2. QED BY <1>3, <1>4, <2>1, SubSeqProperties
<1>7. PICK c : c = buf \o b
  OBVIOUS
<1>8. /\ c \in Seq(ByteType) /\ Len(c) = Len(buf) + n /\ c # <<>>
      /\ buf = <<>> => c = b
  <2>1. PICK u \in Seq(ByteType) : u = buf
    BY <1>4
  <2>2. c \in Seq(ByteType) /\ Len(c) = Len(u) + Len(b)
    BY <1>5, <1>7, <2>1, ConcatProperties
  <2>3. Len(c) = Len(buf) + n /\ Len(c) > 0
    BY <1>4, <1>5, <2>1, <2>2
  <2>4. c # <<>>
    BY <2>3, EmptySeq
  <2>5. buf = <<>> => c = b
    BY <1>5, <1>7, ConcatEmptySeq
  <2>6. QED BY <2>2, <2>3, <2>4, <2>5
<1>9. /\ pc = "wait" /\ pc' = "parse" /\ buf' = c /\ wire' = w /\ processed' = 0
      /\ batch' = Len(handled) /\ answered' = Len(answers)
      /\ polite' = (polite /\ buf = <<>> /\ OneRequest(b))
      /\ cut' = cut \cup {i \in DOMAIN sent : buf = <<>> /\ PieceAlone(b, i)}
      /\ UNCHANGED <<sent, contentLength, response, answers, handled>>
  BY <1>3, <1>7 DEF Traffic
<1>10. PICK s : s = Ahead
  OBVIOUS
<1>11. Ahead' = s /\ s = buf \o wire /\ s \in Seq(ByteType) /\ Len(s) \in Nat
  BY <1>1, <1>9, <1>10, TrafficAhead, WaitingAhead, AheadType
<1>12. Framed(Ahead', sent')
  BY <1>1, <1>9, <1>10, <1>11
<1>13. HandledBehind' /\ HandledOnce'
  BY <1>1, <1>9, <1>10, <1>11 DEF HandledBehind, HandledOnce
<1>14. \A i : HasLine(i)' <=> HasLine(i)
  BY <1>10, <1>11 DEF HasLine
<1>15. s # <<>> /\ 1 \in 1..Len(s) /\ (buf = <<>> => s = wire)
  <2>1. PICK u \in Seq(ByteType) : u = buf
    BY <1>4
  <2>2. PICK v \in Seq(ByteType) : v = wire
    BY <1>4
  <2>3. Len(u \o v) = Len(u) + Len(v)
    BY ConcatProperties
  <2>4. Len(s) > 0
    BY <1>4, <1>11, <2>1, <2>2, <2>3
  <2>5. u = <<>> => u \o v = v
    BY ConcatEmptySeq
  <2>6. QED BY <1>11, <2>1, <2>2, <2>4, <2>5, EmptySeq
<1>16. TypeOK'
  <2>1. cut' \subseteq Numbers
    <3>1. cut \subseteq Numbers
      BY <1>1 DEF TypeOK
    <3>2. \A i \in DOMAIN sent : i \in Numbers
      BY <1>2 DEF Numbers
    <3>3. QED BY <1>9, <3>1, <3>2
  <2>2. polite' \in BOOLEAN
    <3>1. CASE polite /\ buf = <<>> /\ OneRequest(b)
      BY <1>9, <3>1
    <3>2. CASE ~(polite /\ buf = <<>> /\ OneRequest(b))
      BY <1>9, <3>2
    <3>3. QED BY <3>1, <3>2
  <2>3. batch' \in Nat /\ answered' \in Nat
    BY <1>1, <1>9, LenProperties DEF TypeOK
  <2>4. processed' \in Nat /\ processed' <= Len(buf')
    BY <1>4, <1>8, <1>9
  <2>5. QED BY <1>1, <1>6, <1>8, <1>9, <2>1, <2>2, <2>3, <2>4 DEF TypeOK
<1>17. CodecOK'
  <2>1. contentLength = 0 => handled = <<>> /\ s[1] = Byte(1, "line", "text")
    BY <1>1, <1>10, <1>15, Zenon DEF CodecOK
  <2>2. contentLength # 0 => sent # <<>> /\ ~HasLine(1)'
    BY <1>1, <1>14 DEF CodecOK
  <2>3. CASE contentLength = 0
    BY <1>8, <1>9, <1>11, <1>15, <2>1, <2>3 DEF CodecOK
  <2>4. CASE contentLength # 0
    BY <1>9, <2>2, <2>4 DEF CodecOK
  <2>5. QED BY <2>3, <2>4
\* Of a piece that has come alone the line is there.
<1>18. ASSUME NEW i \in DOMAIN sent, buf = <<>>, PieceAlone(b, i)
       PROVE  /\ i \in Numbers /\ i <= Len(sent)
              /\ c[1] = Byte(i, "line", "text") /\ s[1] = Byte(i, "line", "text")
              /\ Len(c) < 2 + Len(BodyBytes(i, sent[i]))
  <2>1. i \in Numbers /\ i \in 1..Len(sent) /\ sent[i] \in Kinds
    BY <1>2, <1>18, ElementOfSeq DEF Numbers
  <2>2. PICK all : all = RequestBytes(i, sent[i])
    OBVIOUS
  <2>3. /\ all \in Seq(ByteType) /\ Len(all) = 2 + Len(BodyBytes(i, sent[i]))
        /\ all[1] = Byte(i, "line", "text")
    BY <2>1, <2>2, RequestProperties
  <2>4. n < Len(all) /\ b = SubSeq(all, 1, n)
    BY <1>5, <1>18, <2>2 DEF PieceAlone
  <2>5. Len(all) \in Nat
    BY <2>3, LenProperties
  <2>6. b[1] = all[1]
    <3>1. \A j \in 1..n : all[j] \in ByteType
      BY <2>3, <2>4, <2>5, ElementOfSeq
    <3>2. \A j \in 1..n - 1 + 1 : b[j] = all[1 + j - 1]
      BY <2>4, <3>1, SubSeqProperties
    <3>3. 1 \in 1..n - 1 + 1 /\ 1 + 1 - 1 = 1
      OBVIOUS
    <3>4. QED BY <3>2, <3>3
  <2>7. c = b /\ s = wire
    BY <1>8, <1>15, <1>18
  <2>8. b[1] = Byte(i, "line", "text") /\ wire[1] = Byte(i, "line", "text")
    BY <1>5, <2>3, <2>6
  <2>9. Len(b) < 2 + Len(BodyBytes(i, sent[i]))
    BY <1>5, <2>3, <2>4
  <2>10. i <= Len(sent)
    BY <1>2, <2>1
  <2>11. QED BY <2>1, <2>7, <2>8, <2>9, <2>10
<1>19. CutOK'
  <2> SUFFICES ASSUME NEW i \in cut'
               PROVE  /\ i <= Len(sent)
                      /\ HasLine(i) => /\ c[1] = Byte(i, "line", "text")
                                       /\ Len(c) < 2 + Len(BodyBytes(i, sent[i]))
    BY <1>8, <1>9, <1>14 DEF CutOK
  <2>1. CASE i \in cut
    BY <1>1, <1>9, <2>1 DEF CutOK
  <2>2. CASE i \in DOMAIN sent /\ buf = <<>> /\ PieceAlone(b, i)
    BY <1>18, <2>2
  <2>3. QED BY <1>9, <2>1, <2>2
<1>20. HandledWhole'
  <2> SUFFICES ASSUME NEW j \in DOMAIN handled, handled[j].genuine
               PROVE  WholeRight(handled[j], sent[handled[j].req], cut')
    BY <1>9 DEF HandledWhole, WholeRight
  <2>1. ASSUME handled[j].whole, handled[j].req \in cut'
        PROVE  FALSE
    <3>1. PICK i : i = handled[j].req
      OBVIOUS
    <3>2. i \notin cut
      BY <1>1, <2>1, <3>1 DEF HandledWhole
    <3>3. i \in DOMAIN sent /\ buf = <<>> /\ PieceAlone(b, i)
      BY <1>9, <2>1, <3>1, <3>2
    <3>4. i \in Nat /\ s[1] = Byte(i, "line", "text")
      <4>1. i \in Nat
        BY <1>2, <3>3
      <4>2. s[1] = Byte(i, "line", "text")
        BY <1>18, <3>3
      <4>3. QED BY <4>1, <4>2
    <3>5. PICK z : z = EndMark(sent[i])
      OBVIOUS
    <3>6. 1 < Len(s) /\ s[2] = Byte(i, "end", z)
      <4>1. FramedAt(s, sent, 1)
        BY <1>1, <1>10, <1>15 DEF Framed
      <4>2. s[1].part = "line" /\ s[1].req = i
        BY <3>4 DEF Byte
      <4>3. QED BY <3>5, <4>1, <4>2 DEF FramedAt
    <3>7. 2 \in 1..Len(s) /\ s[2].part = "end" /\ s[2].req = i
      BY <1>11, <3>6 DEF Byte
    <3>8. i < s[2].req
      BY <1>1, <1>10, <3>1, <3>7 DEF HandledBehind
    <3>9. QED BY <3>4, <3>7, <3>8
  <2>2. WholeRight(handled[j], sent[handled[j].req], cut)
    BY <1>1 DEF HandledWhole, WholeRight
  <2>3. QED BY <2>1, <2>2 DEF WholeRight
<1>21. PoliteOK'
  <2> SUFFICES ASSUME polite'
               PROVE  PoliteOK'
    BY DEF PoliteOK
  <2>1. PICK m \in Nat : m = Len(handled)
    BY <1>1, LenProperties DEF TypeOK
  <2>2. polite /\ buf = <<>> /\ OneRequest(b)
    BY <1>9
  <2>3. handled = Served(m) /\ answers = AnswersTo(m) /\ NextIs(wire, m)
    BY <1>1, <1>9, <2>1, <2>2 DEF PoliteOK
  <2>4. PICK i \in DOMAIN sent : /\ b = RequestBytes(i, sent[i]) /\ Clear(sent[i])
                                 /\ i = 1 => ~HasBody(sent[i])
    BY <2>2 DEF OneRequest
  <2>5. i \in Numbers /\ i \in 1..Len(sent) /\ sent[i] \in Kinds
    BY <1>2, <2>4, ElementOfSeq DEF Numbers
  <2>6. b[1] = Byte(i, "line", "text")
    BY <2>4, <2>5, RequestProperties
  <2>7. wire # <<>>
    BY <1>4, EmptySeq
  <2>8. wire[1] = Byte(m + 1, "line", "text") /\ m < Len(sent)
    BY <2>3, <2>7 DEF NextIs
  <2>9. i = m + 1
    <3>1. Byte(i, "line", "text").req = i /\ Byte(m + 1, "line", "text").req = m + 1
      BY DEF Byte
    <3>2. Byte(i, "line", "text") = Byte(m + 1, "line", "text")
      BY <1>5, <2>6, <2>8
    <3>3. QED BY <3>1, <3>2
  <2>10. /\ m + 1 <= Len(sent) /\ c = RequestBytes(m + 1, sent[m + 1])
         /\ Clear(sent[m + 1]) /\ (m + 1 = 1 => ~HasBody(sent[m + 1]))
    BY <1>2, <1>8, <2>2, <2>4, <2>5, <2>9
  <2>11. /\ pc' \notin {"wait", "closed", "flush"} /\ ~(processed' > 0)
         /\ handled' = Served(m) /\ answers' = AnswersTo(m) /\ Len(handled') = m
    <3>1. pc' \notin {"wait", "closed", "flush"} /\ ~(processed' > 0)
      BY <1>9
    <3>2. handled' = handled /\ answers' = answers
      BY <1>9
    <3>3. QED BY <2>1, <2>3, <3>1, <3>2
  <2>12. QED BY <1>9, <2>10, <2>11 DEF PoliteOK
<1>22. ResponseOK' /\ LastAnswerOnly'
  <2>1. response = NoResponse
    BY <1>1, <1>9 DEF ResponseOK
  <2>2. QED BY <1>9, <2>1 DEF ResponseOK, LastAnswerOnly
<1>23. QED
  BY <1>12, <1>13, <1>16, <1>17, <1>19, <1>20, <1>21, <1>22 DEF IInv

-----------------------------------------------------------------------------
(* The invariant is kept by OnTraffic.                                     *)

\* What is handled stays behind what is ahead when bytes are gone over.
LEMMA StaysBehind ==
  ASSUME HandledBehind, NEW n \in Nat, NEW i \in DOMAIN handled, handled[i].genuine,
         \A a \in 1..Len(Ahead') : n + a \in 1..Len(Ahead) /\ Ahead'[a] = Ahead[n + a]
  PROVE  /\ handled[i].req <= Len(sent)
         /\ \A a \in 1..Len(Ahead') : Ahead'[a].part = "end" => handled[i].req < Ahead'[a].req
BY DEF HandledBehind

\* A request is handled: what is genuine is the request ahead, and it is as HandledWhole
\* says; a polite client's is the next one, whole, and all that has come.
LEMMA EntryKeeps ==
  ASSUME IInv, Parsing,
         NEW entry \in [req: Numbers, genuine: BOOLEAN, whole: BOOLEAN],
         NEW o \in 1..Len(Rest), Handled(entry, o),
         entry.genuine => /\ Genuine(Rest) /\ entry.req = Requested(Rest) /\ o >= 2
                          /\ WholeRight(entry, sent[entry.req], cut),
         polite => /\ processed = 0 /\ o = Len(Rest)
                   /\ handled = Served(Len(handled)) /\ answers = AnswersTo(Len(handled))
                   /\ entry = [req |-> Len(handled) + 1, genuine |-> TRUE, whole |-> TRUE]
                   /\ NextIs(wire, Len(handled) + 1)
  PROVE  IInv'
<1>1. /\ TypeOK /\ Framed(Ahead, sent) /\ HandledBehind /\ HandledOnce /\ CodecOK /\ CutOK
      /\ HandledWhole /\ PoliteOK /\ ResponseOK /\ LastAnswerOnly
  BY DEF IInv
<1>2. PICK d : d = Rest
  OBVIOUS
<1>3. PICK r : r = entry.req
  OBVIOUS
<1>4. /\ pc = "parse" /\ processed < Len(buf)
      /\ handled' = Append(handled, entry)
      /\ response' = [req |-> r, status |-> "handled"]
      /\ processed' = processed + o
      /\ ResetParser
      /\ UNCHANGED <<client, buf, pc, answers, history>>
  BY <1>3 DEF Parsing, Handled
<1>5. /\ d \in Seq(ByteType) /\ Len(d) \in Nat /\ Len(d) = Len(buf) - processed
      /\ buf \in Seq(ByteType) /\ Len(buf) \in Nat /\ processed \in Nat
      /\ o \in Nat /\ o <= Len(d)
  <2>1. d \in Seq(ByteType) /\ Len(d) = Len(buf) - processed
    BY <1>1, <1>2, <1>4, RestIsAhead
  <2>2. buf \in Seq(ByteType) /\ processed \in Nat
    BY <1>1 DEF TypeOK
  <2>3. QED BY <1>2, <2>1, <2>2, LenProperties
<1>6. PICK s, t : s = Ahead /\ t = Ahead'
  OBVIOUS
<1>7. s \in Seq(ByteType) /\ Len(s) \in Nat /\ Framed(s, sent)
  BY <1>1, <1>6, AheadType
<1>8. entry.genuine => /\ s[2].part = "end" /\ s[2].req = r /\ 2 \in 1..Len(s)
                       /\ r \in 1..Len(sent) /\ o >= 2
  <2> HAVE entry.genuine
  <2>1. Genuine(d) /\ r = Requested(d) /\ o >= 2
    BY <1>2, <1>3
  <2>2. s[2].part = "end" /\ s[2].req = r /\ r \in 1..Len(sent) /\ Len(d) >= 2
    BY <1>1, <1>2, <1>4, <1>6, <2>1, GenuineHead
  <2>3. 2 \in 1..Len(d)
    BY <1>5, <2>2
  <2>4. QED BY <1>1, <1>2, <1>4, <1>6, <2>1, <2>2, <2>3, RestIsAhead
<1>9. /\ Framed(t, sent) /\ Len(t) \in Nat
      /\ \A a \in 1..Len(t) : o + a \in 1..Len(s) /\ t[a] = s[o + a]
      /\ CodecOK' /\ CutOK'
  <2>1. o \in 0..Len(buf) - processed /\ o > 0
    BY <1>2, <1>5
  <2>2. UNCHANGED <<client, buf, cut>> /\ pc' \in {"parse", "flush"}
    BY <1>4 DEF history
  <2>3. QED BY <1>4, <1>6, <2>1, <2>2, GoesOver
<1>10. PICK n \in Nat : n = Len(handled)
  BY <1>1, HandledTypes
<1>11. PICK h : h = handled'
  OBVIOUS
<1>12. /\ h \in Seq([req: Numbers, genuine: BOOLEAN, whole: BOOLEAN]) /\ Len(h) = n + 1
       /\ h[n + 1] = entry /\ \A i \in 1..n : h[i] = handled[i]
       /\ DOMAIN h = 1..n + 1 /\ DOMAIN handled = 1..n
  <2>1. handled \in Seq([req: Numbers, genuine: BOOLEAN, whole: BOOLEAN])
    BY <1>1 DEF TypeOK
  <2>2. /\ h \in Seq([req: Numbers, genuine: BOOLEAN, whole: BOOLEAN]) /\ Len(h) = n + 1
        /\ h[n + 1] = entry /\ \A i \in 1..n : h[i] = handled[i]
    BY <1>4, <1>10, <1>11, <2>1, AppendProperties
  <2>3. DOMAIN h = 1..n + 1 /\ DOMAIN handled = 1..n
    BY <1>10, <2>1, <2>2, LenProperties
  <2>4. QED BY <2>2, <2>3
<1>13. \A i \in 1..n + 1 : i \in 1..n \/ i = n + 1
  OBVIOUS
<1>14. /\ sent' = sent /\ wire' = wire /\ buf' = buf /\ pc' = "parse" /\ answers' = answers
       /\ batch' = batch /\ answered' = answered /\ polite' = polite /\ cut' = cut
       /\ contentLength' = -1
  BY <1>4 DEF client, history, ResetParser
<1>15. TypeOK'
  <2>1. processed' \in Nat /\ processed' <= Len(buf)
    BY <1>4, <1>5
  <2>2. response' \in ResponseType
    BY <1>3, <1>4 DEF ResponseType
  <2>3. QED BY <1>1, <1>11, <1>12, <1>14, <2>1, <2>2 DEF TypeOK
<1>16. HandledBehind'
  <2>1. ASSUME NEW i \in 1..n + 1, h[i].genuine
        PROVE  /\ h[i].req <= Len(sent)
               /\ \A a \in 1..Len(t) : t[a].part = "end" => h[i].req < t[a].req
    <3>1. CASE i \in 1..n
      BY <1>1, <1>5, <1>6, <1>9, <1>12, <2>1, <3>1, StaysBehind
    <3>2. CASE i = n + 1
      <4>1. h[i].req = r /\ entry.genuine /\ r <= Len(sent)
        BY <1>3, <1>8, <1>12, <2>1, <3>2
      <4>2. ASSUME NEW a \in 1..Len(t), t[a].part = "end"
            PROVE  r < t[a].req
        <5>1. 2 < o + a /\ o + a \in 1..Len(s) /\ t[a] = s[o + a]
          BY <1>5, <1>8, <1>9, <4>1
        <5>2. s[2].part = "end" /\ s[2].req = r /\ 2 \in 1..Len(s)
          BY <1>8, <4>1
        <5>3. QED BY <1>7, <4>2, <5>1, <5>2 DEF Framed, Ordered, HeadPart
      <4>3. QED BY <4>1, <4>2
    <3>3. QED BY <1>13, <3>1, <3>2
  <2>2. QED BY <1>6, <1>11, <1>12, <1>14, <2>1 DEF HandledBehind
<1>17. HandledOnce'
  <2>1. ASSUME NEW i \in 1..n + 1, NEW j \in 1..n + 1, i < j, h[i].genuine, h[j].genuine
        PROVE  h[i].req < h[j].req
    <3>1. i \in 1..n
      BY <2>1
    <3>2. i \in 1..n /\ i \in DOMAIN handled /\ h[i] = handled[i]
      BY <1>12, <2>1, <3>1
    <3>3. CASE j \in 1..n
      BY <1>1, <1>12, <2>1, <3>2, <3>3 DEF HandledOnce
    <3>4. CASE j = n + 1
      <4>1. h[j].req = r /\ entry.genuine
        BY <1>3, <1>12, <2>1, <3>4
      <4>2. handled[i].req < s[2].req
        BY <1>1, <1>6, <1>8, <2>1, <3>2, <4>1 DEF HandledBehind
      <4>3. QED BY <1>8, <3>2, <4>1, <4>2
    <3>5. QED BY <1>13, <3>3, <3>4
  <2>2. QED BY <1>11, <1>12, <2>1 DEF HandledOnce
<1>18. HandledWhole'
  <2>1. ASSUME NEW i \in 1..n + 1, h[i].genuine
        PROVE  WholeRight(h[i], sent[h[i].req], cut)
    <3>1. CASE i \in 1..n
      BY <1>1, <1>12, <2>1, <3>1 DEF HandledWhole, WholeRight
    <3>2. CASE i = n + 1
      BY <1>12, <2>1, <3>2
    <3>3. QED BY <1>13, <3>1, <3>2
  <2>2. QED BY <1>11, <1>12, <1>14, <2>1 DEF HandledWhole, WholeRight
<1>19. PoliteOK'
  <2> SUFFICES ASSUME polite
               PROVE  PoliteOK'
    BY <1>14 DEF PoliteOK
  <2>1. PICK m \in Nat : m = n + 1
    OBVIOUS
  <2>2. /\ processed = 0 /\ o = Len(d) /\ handled = Served(n) /\ answers = AnswersTo(n)
        /\ entry = [req |-> m, genuine |-> TRUE, whole |-> TRUE] /\ NextIs(wire, m)
    BY <1>2, <1>10, <2>1
  <2>3. h = Served(m)
    BY <1>4, <1>11, <2>1, <2>2, ServedProperties
  <2>4. processed' = Len(buf) /\ processed' > 0
    BY <1>4, <1>5, <2>2
  <2>5. response' = [req |-> m, status |-> "handled"]
    BY <1>3, <1>4, <2>2
  <2>6. Len(handled') = m /\ m > 0 /\ m - 1 = n /\ handled' = Served(m)
    BY <1>11, <1>12, <2>1, <2>3
  <2>7. NextIs(wire, m)'
    BY <1>14, <2>2 DEF NextIs
  <2>8. pc' \notin {"wait", "closed"} /\ ~(processed' = 0) /\ processed' = Len(buf')
    BY <1>5, <1>14, <2>4
  <2>9. answers' = AnswersTo(m - 1)
    BY <1>14, <2>2, <2>6
  <2>10. QED BY <2>5, <2>6, <2>7, <2>8, <2>9 DEF PoliteOK
<1>20. ResponseOK'
  <2>1. /\ Len(answers) = answered
        /\ n = batch \/ n > batch
    BY <1>1, <1>4, <1>10 DEF ResponseOK
  <2>2. batch \in Nat
    BY <1>1 DEF TypeOK
  <2>3. n + 1 > batch
    BY <2>1, <2>2
  <2>4. Len(handled') = n + 1 /\ handled'[n + 1].req = r
    BY <1>3, <1>11, <1>12
  <2>5. pc' = "parse" /\ Len(answers') = answered' /\ batch' = batch
    BY <1>14, <2>1
  <2>6. response' = [req |-> handled'[n + 1].req, status |-> "handled"]
    BY <1>4, <2>4
  <2>7. QED BY <2>3, <2>4, <2>5, <2>6 DEF ResponseOK
<1>21. LastAnswerOnly'
  BY <1>14 DEF LastAnswerOnly
<1>22. Framed(Ahead', sent')
  BY <1>6, <1>9, <1>14
<1>23. QED
  BY <1>9, <1>15, <1>16, <1>17, <1>18, <1>19, <1>20, <1>21, <1>22 DEF IInv

\* While a polite client's request is parsed, it is there alone and in full.
LEMMA PoliteRest ==
  ASSUME IInv, Parsing, polite
  PROVE  LET r == Len(handled) + 1
         IN /\ processed = 0 /\ r \in 1..Len(sent) /\ Rest = RequestBytes(r, sent[r])
            /\ Clear(sent[r]) /\ (r = 1 => ~HasBody(sent[r]))
            /\ handled = Served(Len(handled)) /\ answers = AnswersTo(Len(handled))
            /\ Genuine(Rest)
<1>1. /\ TypeOK /\ PoliteOK /\ Framed(Ahead, sent) /\ CodecOK
      /\ pc = "parse" /\ processed < Len(buf)
  BY DEF IInv, Parsing
<1>2. buf \in Seq(ByteType) /\ Len(buf) \in Nat /\ processed \in Nat
  BY <1>1, LenProperties DEF TypeOK
<1>3. PICK r : r = Len(handled) + 1
  OBVIOUS
<1>4. processed = 0
  <2>1. processed > 0 => processed = Len(buf)
    BY <1>1 DEF PoliteOK
  <2>2. QED BY <1>1, <1>2, <2>1
<1>5. /\ r <= Len(sent) /\ buf = RequestBytes(r, sent[r])
      /\ Clear(sent[r]) /\ (r = 1 => ~HasBody(sent[r]))
      /\ handled = Served(Len(handled)) /\ answers = AnswersTo(Len(handled))
  BY <1>1, <1>3, <1>4 DEF PoliteOK
<1>6. Rest = buf
  <2>1. Rest = Drop(buf, 0)
    BY <1>4 DEF Rest, Drop
  <2>2. QED BY <1>2, <2>1, DropNothing
<1>7. r \in 1..Len(sent)
  <2>1. Len(sent) \in Nat /\ Len(handled) \in Nat
    BY <1>1, LenProperties DEF TypeOK
  <2>2. QED BY <1>3, <1>5, <2>1
<1>8. Genuine(Rest)
  BY <1>1, <1>5, <1>6, <1>7, WholeAlone
<1>9. QED BY <1>3, <1>4, <1>5, <1>6, <1>7, <1>8

LEMMA HandleKeeps ==
  ASSUME IInv, Handle
  PROVE  IInv'
<1>1. /\ TypeOK /\ Framed(Ahead, sent) /\ CodecOK /\ CutOK
      /\ Parsing /\ pc = "parse" /\ processed < Len(buf)
  BY DEF IInv, Handle, Parsing
<1>2. PICK d : d = Rest
  OBVIOUS
<1>3. PICK r, o : r = Requested(d) /\ o = NextOffset(d)
  OBVIOUS
<1>4. PICK k : k = sent[r]
  OBVIOUS
<1>5. PICK body : body = BodyBytes(r, k)
  OBVIOUS
<1>6. PICK w \in BOOLEAN : w = (BodyRead(d) = body)
  <2>1. \E w \in BOOLEAN : w = (BodyRead(d) = body)
    BY Zenon
  <2>2. QED BY <2>1
<1>7. PICK entry : entry = [req |-> r, genuine |-> TRUE, whole |-> w]
  OBVIOUS
<1>8. Genuine(d) /\ Parses(d) /\ Handled(entry, o)
  <2>1. entry = [req |-> r, genuine |-> TRUE, whole |-> BodyRead(d) = BodyBytes(r, sent[r])]
    BY <1>4, <1>5, <1>6, <1>7
  <2>2. QED BY <1>2, <1>3, <2>1, Zenon DEF Handle
<1>9. /\ r \in Numbers /\ r \in 1..Len(sent) /\ k \in Kinds
      /\ Ahead[1].part = "line" /\ Ahead[1].req = r /\ Len(d) >= 2 /\ Len(d) \in Nat
  BY <1>1, <1>2, <1>3, <1>4, <1>8, GenuineHead
<1>10. o \in 1..Len(d) /\ o >= 2
  <2>1. o \in Nat /\ o >= 2
    BY <1>1, <1>2, <1>3, <1>8, OffsetIsThere
  <2>2. QED BY <1>3, <1>8, <1>9, <2>1 DEF Parses
<1>11. entry \in [req: Numbers, genuine: BOOLEAN, whole: BOOLEAN]
  BY <1>6, <1>7, <1>9
\* What the handler gets of the body.
<1>12. WholeRight(entry, k, cut)
  <2>1. /\ contentLength = 0 =>
             r = 1 /\ (BodyRead(d) = <<>> \/ (BlankLed(k) /\ Len(k.body) = 1))
        /\ contentLength # 0 => contentLength = -1 /\ r # 1
        /\ contentLength # 0 /\ k.framing # "chunked" /\ ~(BlankLed(k) /\ Len(k.body) > 1) =>
             BodyRead(d) = body
        /\ Len(BodyRead(d)) <= Len(d) - 2
    BY <1>1, <1>2, <1>3, <1>4, <1>5, <1>8, HeadAndBody
  <2>2. body \in Seq(ByteType) /\ Len(body) \in Nat
    BY <1>5, <1>9, BodyProperties, LenProperties
  <2>3. ASSUME w, r \in cut
        PROVE  FALSE
    <3>1. 1 \in 1..Len(Ahead)
      <4>1. 1 \in 1..Len(d)
        BY <1>9
      <4>2. QED BY <1>1, <1>2, <4>1, RestIsAhead
    <3>2. HasLine(r)
      BY <1>9, <3>1 DEF HasLine
    <3>3. processed = 0 /\ Len(buf) < 2 + Len(body)
      BY <1>1, <1>4, <1>5, <2>3, <3>2 DEF CutOK
    <3>4. Len(d) = Len(buf) - processed /\ Len(buf) \in Nat
      BY <1>1, <1>2, RestIsAhead, LenProperties DEF TypeOK
    <3>5. Len(body) <= Len(d) - 2
      BY <1>6, <2>1, <2>3
    <3>6. QED BY <1>9, <2>2, <3>3, <3>4, <3>5
  <2>4. ASSUME w, r = 1
        PROVE  ~HasBody(k) \/ (BlankLed(k) /\ Len(k.body) = 1)
    <3>1. BodyRead(d) = <<>> \/ (BlankLed(k) /\ Len(k.body) = 1)
      BY <2>1, <2>4
    <3>2. body = <<>> => ~HasBody(k)
      <4>1. HasBody(k) <=> Len(body) > 0
        BY <1>5, <1>9, BodyIsThere
      <4>2. body = <<>> => Len(body) = 0
        BY EmptySeq
      <4>3. QED BY <4>1, <4>2
    <3>3. QED BY <1>6, <2>4, <3>1, <3>2
  <2>5. ASSUME ~w
        PROVE  r = 1 \/ k.framing = "chunked" \/ (BlankLed(k) /\ Len(k.body) > 1)
    BY <1>6, <2>1, <2>5
  <2>6. entry.req = r /\ entry.whole = w
    BY <1>7
  <2>7. CASE w
    BY <2>3, <2>4, <2>6, <2>7 DEF WholeRight
  <2>8. CASE ~w
    BY <2>5, <2>6, <2>8 DEF WholeRight
  <2>9. QED BY <2>7, <2>8
<1>13. ASSUME polite
       PROVE  /\ processed = 0 /\ o = Len(d)
              /\ handled = Served(Len(handled)) /\ answers = AnswersTo(Len(handled))
              /\ entry = [req |-> Len(handled) + 1, genuine |-> TRUE, whole |-> TRUE]
              /\ NextIs(wire, Len(handled) + 1)
  <2>1. PICK m : m = Len(handled) + 1
    OBVIOUS
  <2>2. /\ processed = 0 /\ m \in 1..Len(sent) /\ d = RequestBytes(m, sent[m])
        /\ Clear(sent[m]) /\ (m = 1 => ~HasBody(sent[m]))
        /\ handled = Served(Len(handled)) /\ answers = AnswersTo(Len(handled))
    BY <1>1, <1>2, <1>13, <2>1, PoliteRest
  <2>3. r = m /\ o = Len(d) /\ BodyRead(d) = BodyBytes(m, sent[m])
    BY <1>1, <1>2, <1>3, <2>2, WholeAlone
  <2>4. entry = [req |-> m, genuine |-> TRUE, whole |-> TRUE]
    <3>1. w = TRUE
      BY <1>4, <1>5, <1>6, <2>3
    <3>2. QED BY <1>7, <2>3, <3>1
  <2>5. NextIs(wire, m)
    <3> DEFINE s == Ahead
    <3>1. /\ Len(s) = Len(d) + Len(wire) /\ s \in Seq(ByteType)
          /\ \A a \in 1..Len(d) : a \in 1..Len(s) /\ s[a] = d[a]
          /\ \A a \in 1..Len(wire) : s[Len(d) + a] = wire[a]
      BY <1>1, <1>2, RestIsAhead
    <3>2. wire \in Seq(ByteType) /\ Len(wire) \in Nat
      BY <1>1, LenProperties DEF TypeOK
    <3>3. body \in Seq(ByteType) /\ Len(body) \in Nat /\ Len(d) = 2 + Len(body)
      <4>1. Len(RequestBytes(r, k)) = 2 + Len(body)
        BY <1>5, <1>9, RequestProperties
      <4>2. QED BY <1>4, <1>5, <1>9, <2>2, <2>3, <4>1, BodyProperties, LenProperties
    <3>4. BodyAt(s, sent, 2, r) /\ s[2].req = r
      BY <1>1, <1>2, <1>3, <1>8, GenuineHead
    <3>5. PICK l : l = Len(d)
      OBVIOUS
    <3>6. l \in 1..Len(s) /\ l = 2 + Len(body) /\ l \in Nat
      BY <1>9, <3>1, <3>2, <3>3, <3>5
    <3> HIDE DEF s
    <3>7. s[l].req = r
      <4>1. CASE Len(body) = 0
        BY <3>4, <3>6, <4>1
      <4>2. CASE Len(body) > 0
        <5>1. s[l] = body[Len(body)] /\ Len(body) \in 1..Len(body)
          BY <1>4, <1>5, <3>3, <3>4, <3>6, <4>2 DEF BodyAt
        <5>2. body[Len(body)].req = r
          BY <1>5, <1>9, <5>1, BodyProperties
        <5>3. QED BY <5>1, <5>2
      <4>3. QED BY <3>3, <4>1, <4>2
    <3>8. FramedAt(s, sent, l)
      BY <1>1, <3>6 DEF Framed, s
    <3>9. CASE wire = <<>>
      <4>1. l = Len(s)
        BY <1>9, <3>1, <3>5, <3>9, EmptySeq
      <4>2. QED BY <2>3, <3>7, <3>8, <3>9, <4>1 DEF FramedAt, NextIs
    <3>10. CASE wire # <<>>
      <4>1. Len(wire) > 0
        BY <3>2, <3>10, EmptySeq
      <4>2. l < Len(s) /\ l + 1 \in 1..Len(s) /\ 1 \in 1..Len(wire)
        BY <1>9, <3>1, <3>2, <3>5, <4>1
      <4>3. s[l + 1] = wire[1]
        BY <3>1, <3>5, <4>2
      <4>4. s[l + 1].req # r
        BY <1>4, <1>5, <3>4, <3>6, <4>2 DEF BodyAt
      <4>5. s[l + 1] = Byte(r + 1, "line", "text")
        BY <3>7, <3>8, <4>2, <4>4 DEF FramedAt
      <4>6. s[l + 1].req \in 1..Len(sent)
        BY <1>1, <3>1, <4>2, FramedBytes DEF TypeOK, s
      <4>7. r + 1 \in 1..Len(sent)
        BY <4>5, <4>6 DEF Byte
      <4>8. r < Len(sent)
        BY <1>9, <4>7
      <4>9. QED BY <2>3, <3>10, <4>3, <4>5, <4>8 DEF NextIs
    <3>11. QED BY <3>9, <3>10
  <2>6. QED BY <2>1, <2>2, <2>3, <2>4, <2>5
<1>14. entry.genuine => /\ Genuine(d) /\ entry.req = Requested(d) /\ o >= 2
                        /\ WholeRight(entry, sent[entry.req], cut)
  <2>1. entry.req = r
    BY <1>7
  <2>2. QED BY <1>3, <1>4, <1>8, <1>10, <1>12, <2>1
<1>15. QED
  BY <1>1, <1>2, <1>8, <1>10, <1>11, <1>13, <1>14, EntryKeeps

\* What is taken for a request is no request of a polite client's.
LEMMA HandleGarbledKeeps ==
  ASSUME IInv, NEW n \in 1..Len(Rest), HandleGarbled(n)
  PROVE  IInv'
<1>1. Parsing /\ pc = "parse" /\ TypeOK /\ processed < Len(buf)
  BY DEF IInv, HandleGarbled, Parsing
<1>2. PICK entry : entry = [req |-> Rest[1].req, genuine |-> FALSE, whole |-> FALSE]
  OBVIOUS
<1>3. Handled(entry, n) /\ Rest[1].part # "line"
  BY <1>2 DEF HandleGarbled
<1>4. Rest[1].req \in Numbers
  <2>1. Rest \in Seq(ByteType) /\ Len(Rest) \in Nat
    BY <1>1, RestIsAhead, LenProperties
  <2>2. Rest[1] \in ByteType
    <3>1. 1 \in 1..Len(Rest)
      BY <2>1
    <3>2. QED BY <2>1, <3>1, ElementOfSeq
  <2>3. QED BY <2>2 DEF ByteType
<1>5. entry \in [req: Numbers, genuine: BOOLEAN, whole: BOOLEAN] /\ ~entry.genuine
  BY <1>2, <1>4
<1>6. ~polite
  <2>1. polite => Genuine(Rest)
    BY <1>1, PoliteRest
  <2>2. QED BY <1>3, <2>1 DEF Genuine
<1>7. QED BY <1>1, <1>3, <1>5, <1>6, EntryKeeps

\* A failure of Parse or of http.ReadRequest, whatever it writes.
LEMMA FailureKeeps ==
  ASSUME IInv, Parsing,
         (Genuine(Rest) => MayFail(Rest)) \/ Rest[1].part # "line",
         NEW n \in Skipped(Rest), processed' = processed + n, ResetParser, pc' = "flush",
         UNCHANGED <<client, buf, handled, history>>,
         response' \in ResponseType \cup {NoResponse}, answers' \in Seq(ResponseType),
         ResponseOK'
  PROVE  IInv'
<1>1. /\ TypeOK /\ Framed(Ahead, sent) /\ HandledBehind /\ HandledOnce /\ CodecOK /\ CutOK
      /\ HandledWhole /\ PoliteOK /\ ResponseOK /\ LastAnswerOnly
  BY DEF IInv
<1>2. /\ sent' = sent /\ wire' = wire /\ buf' = buf /\ handled' = handled
      /\ batch' = batch /\ answered' = answered /\ polite' = polite /\ cut' = cut
      /\ contentLength' = -1
  BY DEF client, history, ResetParser
<1>3. /\ buf \in Seq(ByteType) /\ Len(buf) \in Nat /\ processed \in Nat
      /\ pc = "parse" /\ processed < Len(buf)
      /\ n \in 0..1 /\ (n > 0 \/ Rest[1].part # "line")
  BY <1>1, LenProperties DEF TypeOK, Parsing, Skipped
<1>4. PICK s, t : s = Ahead /\ t = Ahead'
  OBVIOUS
<1>5. /\ Framed(t, sent) /\ Len(t) \in Nat
      /\ \A a \in 1..Len(t) : n + a \in 1..Len(s) /\ t[a] = s[n + a]
      /\ CodecOK' /\ CutOK'
  <2>1. n \in 0..Len(buf) - processed
    BY <1>3
  <2>2. UNCHANGED <<client, buf, cut>> /\ pc' \in {"parse", "flush"}
    BY <1>2 DEF client
  <2>3. QED BY <1>3, <1>4, <2>1, <2>2, GoesOver
<1>6. TypeOK'
  <2>1. processed' \in Nat /\ processed' <= Len(buf)
    BY <1>3
  <2>2. QED BY <1>1, <1>2, <2>1 DEF TypeOK
<1>7. HandledBehind'
  <2>1. ASSUME NEW i \in DOMAIN handled, handled[i].genuine
        PROVE  /\ handled[i].req <= Len(sent)
               /\ \A a \in 1..Len(t) : t[a].part = "end" => handled[i].req < t[a].req
    <3>1. PICK m \in Nat : m = n
      BY <1>3
    <3>2. \A a \in 1..Len(t) : m + a \in 1..Len(s) /\ t[a] = s[m + a]
      BY <1>5, <3>1
    <3>3. QED BY <1>1, <1>4, <2>1, <3>2, StaysBehind
  <2>2. QED BY <1>2, <1>4, <2>1 DEF HandledBehind
<1>8. HandledOnce' /\ HandledWhole'
  BY <1>1, <1>2 DEF HandledOnce, HandledWhole
\* A polite client's requests do not fail.
<1>9. ~polite
  <2> SUFFICES ASSUME polite
               PROVE  FALSE
    OBVIOUS
  <2>1. PICK m : m = Len(handled) + 1
    OBVIOUS
  <2>2. processed = 0
    <3>1. processed > 0 => processed = Len(buf)
      BY <1>1, <1>3 DEF PoliteOK
    <3>2. QED BY <1>3, <3>1
  <2>3. /\ m <= Len(sent) /\ buf = RequestBytes(m, sent[m])
        /\ Clear(sent[m]) /\ (m = 1 => ~HasBody(sent[m]))
    BY <1>1, <1>3, <2>1, <2>2 DEF PoliteOK
  <2>4. Rest = buf
    <3>1. Rest = Drop(buf, 0)
      BY <2>2 DEF Rest, Drop
    <3>2. QED BY <1>3, <3>1, DropNothing
  <2>5. m \in 1..Len(sent)
    <3>1. Len(sent) \in Nat /\ Len(handled) \in Nat
      BY <1>1, LenProperties DEF TypeOK
    <3>2. QED BY <2>1, <2>3, <3>1
  <2>6. Genuine(Rest) /\ ~MayFail(Rest)
    BY <1>1, <1>3, <2>3, <2>4, <2>5, WholeAlone
  <2>7. QED BY <2>6 DEF Genuine
<1>10. PoliteOK'
  BY <1>2, <1>9 DEF PoliteOK
<1>11. LastAnswerOnly'
  BY DEF LastAnswerOnly
<1>12. Framed(Ahead', sent')
  BY <1>2, <1>4, <1>5
<1>13. QED
  BY <1>5, <1>6, <1>7, <1>8, <1>10, <1>11, <1>12 DEF IInv

LEMMA FailuresKeep ==
  ASSUME IInv, ParseFails \/ FormFails \/ ReadFails
  PROVE  IInv'
<1>1. TypeOK /\ ResponseOK /\ Framed(Ahead, sent)
  BY DEF IInv
<1>2. ASSUME pc = "parse", UNCHANGED <<response, answers, handled, batch, answered>>,
             pc' = "flush"
      PROVE  /\ response' \in ResponseType \cup {NoResponse} /\ answers' \in Seq(ResponseType)
             /\ ResponseOK'
  <2>1. response' \in ResponseType \cup {NoResponse} /\ answers' \in Seq(ResponseType)
    BY <1>1, <1>2 DEF TypeOK
  <2>2. ResponseOK'
    BY <1>1, <1>2 DEF ResponseOK
  <2>3. QED BY <2>1, <2>2
<1>3. CASE ParseFails
  <2>1. UNCHANGED <<response, answers, handled, batch, answered>> /\ pc = "parse" /\ pc' = "flush"
    BY <1>3 DEF ParseFails, Parsing, history
  <2>2. QED BY <1>2, <1>3, <2>1, FailureKeeps DEF ParseFails
<1>4. CASE ReadFails
  <2>1. UNCHANGED <<response, answers, handled, batch, answered>> /\ pc = "parse" /\ pc' = "flush"
    BY <1>4 DEF ReadFails, Parsing, history
  <2>2. QED BY <1>2, <1>4, <2>1, FailureKeeps DEF ReadFails
<1>5. CASE FormFails
  <2>1. PICK r : r = Rest[1].req
    OBVIOUS
  <2>2. /\ pc = "parse" /\ processed < Len(buf) /\ pc' = "flush"
        /\ response' = [req |-> r, status |-> "400"]
        /\ answers' = Append(answers, response')
        /\ UNCHANGED <<handled, batch, answered>>
    BY <1>5, <2>1 DEF FormFails, Parsing, history
  <2>3. r \in Numbers
    <3>1. buf \in Seq(ByteType) /\ Len(buf) \in Nat /\ processed \in Nat
      BY <1>1, LenProperties DEF TypeOK
    <3>2. Rest \in Seq(ByteType) /\ Len(Rest) = Len(buf) - processed
      BY <1>1, <2>2, RestIsAhead
    <3>3. 1 \in 1..Len(Rest)
      BY <2>2, <3>1, <3>2
    <3>4. Rest[1] \in ByteType
      BY <3>2, <3>3, ElementOfSeq
    <3>5. QED BY <2>1, <3>4 DEF ByteType
  <2>4. PICK x : x = response'
    OBVIOUS
  <2>5. x \in ResponseType /\ x.status = "400"
    BY <2>2, <2>3, <2>4 DEF ResponseType
  <2>6. answers \in Seq(ResponseType)
    BY <1>1 DEF TypeOK
  <2>7. PICK y : y = answers'
    OBVIOUS
  <2>8. y \in Seq(ResponseType) /\ Len(y) = Len(answers) + 1 /\ y[Len(answers) + 1] = x
    <3>1. y = Append(answers, x)
      BY <2>2, <2>4, <2>7
    <3>2. QED BY <2>5, <2>6, <3>1, AppendProperties
  <2>9. Len(answers) = answered
    BY <1>1, <2>2 DEF ResponseOK
  <2>10. ResponseOK'
    <3>1. /\ pc' \notin {"wait", "closed"} /\ pc' = "flush"
          /\ Len(answers') = answered' + 1
          /\ response' = answers'[answered' + 1] /\ response'.status = "400"
      BY <2>2, <2>4, <2>5, <2>7, <2>8, <2>9
    <3>2. QED BY <3>1 DEF ResponseOK
  <2>11. response' \in ResponseType \cup {NoResponse} /\ answers' \in Seq(ResponseType)
    BY <2>4, <2>5, <2>7, <2>8
  <2>12. QED BY <1>5, <2>10, <2>11, FailureKeeps DEF FormFails
<1>6. QED BY <1>3, <1>4, <1>5

LEMMA AllParsedKeeps ==
  ASSUME IInv, AllParsed
  PROVE  IInv'
<1>1. /\ TypeOK /\ Framed(Ahead, sent) /\ HandledBehind /\ HandledOnce /\ CodecOK /\ CutOK
      /\ HandledWhole /\ PoliteOK /\ ResponseOK /\ LastAnswerOnly
  BY DEF IInv
<1>2. /\ pc = "parse" /\ processed = Len(buf) /\ pc' = "flush"
      /\ UNCHANGED <<sent, wire, buf, processed, contentLength, response, answers, handled,
                     batch, answered, polite, cut>>
  BY DEF AllParsed, client, history
<1>3. Ahead' = Ahead
  BY <1>2 DEF Ahead
<1>4. buf \in Seq(ByteType) /\ Len(buf) \in Nat
  BY <1>1, LenProperties DEF TypeOK
<1>5. processed = 0 => buf = <<>>
  BY <1>2, <1>4, EmptySeq
<1>6. TypeOK' /\ Framed(Ahead', sent')
  BY <1>1, <1>2, <1>3 DEF TypeOK
<1>7. HandledBehind' /\ HandledOnce' /\ HandledWhole'
  BY <1>1, <1>2, <1>3 DEF HandledBehind, HandledOnce, HandledWhole
<1>8. CodecOK'
  <2>1. contentLength # 0
    BY <1>1, <1>2, <1>5 DEF CodecOK
  <2>2. sent # <<>> /\ ~HasLine(1) /\ contentLength = -1
    BY <1>1, <2>1 DEF CodecOK, TypeOK
  <2>3. ~HasLine(1)'
    BY <1>3, <2>2 DEF HasLine
  <2>4. QED BY <1>2, <2>1, <2>2, <2>3 DEF CodecOK
<1>9. CutOK'
  <2>1. \A i \in cut : i <= Len(sent) /\ ~HasLine(i)
    BY <1>1, <1>2, <1>5 DEF CutOK
  <2>2. \A i : HasLine(i)' <=> HasLine(i)
    BY <1>3 DEF HasLine
  <2>3. QED BY <1>2, <2>1, <2>2 DEF CutOK
<1>10. PoliteOK'
  <2> SUFFICES ASSUME polite
               PROVE  PoliteOK'
    BY <1>2 DEF PoliteOK
  <2>1. PICK n \in Nat : n = Len(handled)
    BY <1>1, HandledTypes
  <2>2. processed > 0
    <3>1. CASE processed = 0
      <4>1. n + 1 <= Len(sent) /\ buf = RequestBytes(n + 1, sent[n + 1])
        BY <1>1, <1>2, <2>1, <3>1 DEF PoliteOK
      <4>2. n + 1 \in Numbers /\ sent[n + 1] \in Kinds
        <5>1. sent \in Seq(Kinds) /\ Len(sent) \in Nat /\ Len(sent) <= MaxSent
          BY <1>1, LenProperties DEF TypeOK
        <5>2. n + 1 \in 1..Len(sent)
          BY <4>1, <5>1
        <5>3. QED BY <5>1, <5>2, ElementOfSeq, ConnectionAssumption
              DEF Numbers, ConnectionAssumption
      <4>3. Len(buf) = 2 + Len(BodyBytes(n + 1, sent[n + 1]))
        BY <4>1, <4>2, RequestProperties
      <4>4. Len(BodyBytes(n + 1, sent[n + 1])) \in Nat
        BY <4>2, BodyProperties, LenProperties
      <4>5. Len(buf) = 0
        BY <1>2, <3>1
      <4>6. PICK l \in Nat : l = Len(BodyBytes(n + 1, sent[n + 1]))
        BY <4>4
      <4>7. Len(buf) = 2 + l
        BY <4>3, <4>6
      <4>8. QED BY <4>5, <4>7
    <3>2. QED BY <1>2, <1>4, <3>1
  <2>3. /\ handled = Served(n)
        /\ n > 0 /\ processed = Len(buf) /\ NextIs(wire, n)
        /\ response = [req |-> n, status |-> "handled"]
        /\ answers = AnswersTo(n - 1)
    BY <1>1, <1>2, <2>1, <2>2 DEF PoliteOK
  <2>4. NextIs(wire, n)'
    BY <1>2, <2>3 DEF NextIs
  <2>5. pc' = "flush" /\ Len(handled') = n /\ handled' = Served(n)
    BY <1>2, <2>1, <2>3
  <2>6. QED BY <1>2, <2>3, <2>4, <2>5 DEF PoliteOK
<1>11. ResponseOK' /\ LastAnswerOnly'
  BY <1>1, <1>2 DEF ResponseOK, LastAnswerOnly
<1>12. QED
  BY <1>6, <1>7, <1>8, <1>9, <1>10, <1>11 DEF IInv

LEMMA FlushKeepsInv ==
  ASSUME IInv, Flush
  PROVE  IInv'
<1>1. /\ TypeOK /\ Framed(Ahead, sent) /\ HandledBehind /\ HandledOnce /\ CodecOK /\ CutOK
      /\ HandledWhole /\ PoliteOK /\ ResponseOK /\ LastAnswerOnly
  BY DEF IInv
<1>2. /\ pc = "flush" /\ pc' = "wait" /\ response' = NoResponse /\ contentLength' = -1
      /\ buf' = SubSeq(buf, processed + 1, Len(buf))
      /\ answers' = IF response = NoResponse THEN answers ELSE Append(answers, response)
      /\ UNCHANGED <<sent, wire, processed, handled, batch, answered, polite, cut>>
  BY DEF Flush, WriteBuf, EndTraffic, ResetParser, client, history
<1>3. Ahead' = Ahead
  BY <1>1, FlushAhead
<1>4. buf \in Seq(ByteType) /\ Len(buf) \in Nat /\ processed \in 0..Len(buf)
  BY <1>1, <1>2, LenProperties DEF TypeOK
<1>5. PICK d : d = Drop(buf, processed)
  OBVIOUS
<1>6. buf' = d /\ d \in Seq(ByteType) /\ Len(d) = Len(buf) - processed
  BY <1>2, <1>4, <1>5, DropProperties DEF Drop
<1>7. answers \in Seq(ResponseType) /\ Len(answers) \in Nat
  BY <1>1, LenProperties DEF TypeOK
<1>8. CASE response = NoResponse \/ response \in ResponseType
  <2>1. PICK y, x : y = answers' /\ x = response
    OBVIOUS
  <2>2. \/ x = NoResponse /\ y = answers
        \/ /\ x \in ResponseType /\ x # NoResponse
           /\ y \in Seq(ResponseType) /\ Len(y) = Len(answers) + 1
           /\ y[Len(answers) + 1] = x /\ \A i \in 1..Len(answers) : y[i] = answers[i]
    <3>1. CASE x = NoResponse
      BY <1>2, <2>1, <3>1
    <3>2. CASE x # NoResponse
      <4>1. y = Append(answers, x) /\ x \in ResponseType
        BY <1>2, <1>8, <2>1, <3>2
      <4>2. QED BY <1>7, <3>2, <4>1, AppendProperties
    <3>3. QED BY <3>1, <3>2
  <2>3. y \in Seq(ResponseType)
    BY <1>7, <2>2
  <2>4. TypeOK'
    BY <1>1, <1>2, <1>6, <2>1, <2>3 DEF TypeOK
  <2>5. Framed(Ahead', sent') /\ HandledBehind' /\ HandledOnce' /\ HandledWhole'
    BY <1>1, <1>2, <1>3 DEF HandledBehind, HandledOnce, HandledWhole
  <2>6. \A i : HasLine(i)' <=> HasLine(i)
    BY <1>3 DEF HasLine
  <2>7. CodecOK'
    <3>1. contentLength # 0
      BY <1>1, <1>2 DEF CodecOK
    <3>2. sent # <<>> /\ ~HasLine(1)
      BY <1>1, <3>1 DEF CodecOK
    <3>3. QED BY <1>2, <2>6, <3>2 DEF CodecOK
  <2>8. CutOK'
    <3>1. \A i \in cut : i <= Len(sent) /\ ~HasLine(i)
      BY <1>1, <1>2 DEF CutOK
    <3>2. QED BY <1>2, <2>6, <3>1 DEF CutOK
  <2>9. PICK n \in Nat : n = Len(handled)
    BY <1>1, HandledTypes
  <2>10. PoliteOK'
    <3> SUFFICES ASSUME polite
                 PROVE  PoliteOK'
      BY <1>2 DEF PoliteOK
    <3>1. /\ handled = Served(n)
          /\ n > 0 /\ processed = Len(buf) /\ NextIs(wire, n)
          /\ response = [req |-> n, status |-> "handled"]
          /\ answers = AnswersTo(n - 1)
      BY <1>1, <1>2, <2>9 DEF PoliteOK
    <3>2. d = <<>>
      <4>1. Len(d) = 0
        BY <1>4, <1>6, <3>1
      <4>2. QED BY <1>6, <4>1, EmptySeq
    <3>3. response # NoResponse
      <4>1. response \in [req: Nat, status: {"handled", "400"}]
        BY <3>1
      <4>2. QED BY <4>1, ConnectionAssumption DEF ConnectionAssumption
    <3>4. answers' = AnswersTo(n)
      <4>1. PICK m \in Nat : m = n - 1
        BY <3>1
      <4>2. n = m + 1
        BY <4>1
      <4>3. answers' = Append(AnswersTo(m), [req |-> m + 1, status |-> "handled"])
        BY <1>2, <3>1, <3>3, <4>1, <4>2
      <4>4. QED BY <4>2, <4>3, AnswersProperties
    <3>5. NextIs(wire, n)'
      BY <1>2, <3>1 DEF NextIs
    <3>6. pc' = "wait" /\ Len(handled') = n /\ handled' = Served(n) /\ buf' = <<>>
      BY <1>2, <1>6, <2>9, <3>1, <3>2
    <3>7. pc' \notin {"parse", "flush"}
      BY <3>6
    <3>8. QED BY <3>4, <3>5, <3>6, <3>7 DEF PoliteOK
  <2>11. ResponseOK'
    BY <1>2 DEF ResponseOK
  <2>12. LastAnswerOnly'
    <3>1. PICK m \in Nat : m = answered
      BY <1>1 DEF TypeOK
    <3>2. PICK new : new = SubSeq(y, m + 1, Len(y))
      OBVIOUS
    <3>3. Len(y) \in Nat /\ m <= Len(y) =>
            /\ Len(new) = Len(y) - m
            /\ \A i \in 1..Len(y) - m : new[i] = y[m + i]
            /\ new \in Seq(ResponseType)
      <4> HAVE Len(y) \in Nat /\ m <= Len(y)
      <4>1. m \in 0..Len(y)
        OBVIOUS
      <4>2. new = Drop(y, m)
        BY <3>2 DEF Drop
      <4>3. QED BY <2>3, <4>1, <4>2, DropProperties
    <3>4. \/ new = <<>> /\ n = batch
          \/ n > batch /\ new = <<[req |-> handled[n].req, status |-> "handled"]>>
          \/ Len(new) = 2 /\ new[1] = new[2] /\ new[1].status = "400"
      <4>1. CASE Len(answers) = m /\ x = NoResponse /\ n = batch
        <5>1. y = answers
          BY <2>2, <4>1
        <5>2. Len(new) = 0 /\ new \in Seq(ResponseType)
          BY <1>7, <3>3, <4>1, <5>1
        <5>3. QED BY <4>1, <5>2, EmptySeq
      <4>2. CASE /\ Len(answers) = m /\ n > batch
                 /\ x = [req |-> handled[n].req, status |-> "handled"]
        <5>1. n \in 1..n
          <6>1. batch \in Nat
            BY <1>1 DEF TypeOK
          <6>2. QED BY <4>2, <6>1
        <5>2. handled[n].req \in Nat
          BY <1>1, <2>9, <5>1, HandledTypes
        <5>3. x # NoResponse
          <6>1. x \in [req: Nat, status: {"handled", "400"}]
            BY <4>2, <5>2
          <6>2. QED BY <6>1, ConnectionAssumption DEF ConnectionAssumption
        <5>4. Len(y) = m + 1 /\ y[m + 1] = x
          BY <2>2, <4>2, <5>3
        <5>5. Len(new) = 1 /\ new[1] = x /\ new \in Seq(ResponseType)
          <6>1. Len(y) \in Nat /\ m <= Len(y) /\ Len(y) - m = 1 /\ 1 \in 1..1
            BY <5>4
          <6>2. QED BY <3>3, <5>4, <6>1
        <5>6. new = <<x>>
          BY <5>5
        <5>7. QED BY <4>2, <5>6
      <4>3. CASE /\ Len(answers) = m + 1 /\ x = answers[m + 1] /\ x.status = "400"
        <5>1. m + 1 \in 1..Len(answers)
          BY <4>3
        <5>2. x \in ResponseType
          BY <1>7, <4>3, <5>1, ElementOfSeq
        <5>3. x # NoResponse
          <6>1. x \in [req: Nat, status: {"handled", "400"}]
            BY <5>2 DEF ResponseType, Numbers
          <6>2. QED BY <6>1, ConnectionAssumption DEF ConnectionAssumption
        <5>4. Len(y) = m + 2 /\ y[m + 2] = x /\ y[m + 1] = x
          <6>1. /\ Len(y) = Len(answers) + 1
                /\ y[Len(answers) + 1] = x /\ \A i \in 1..Len(answers) : y[i] = answers[i]
            BY <2>2, <5>3
          <6>2. Len(answers) + 1 = m + 2
            BY <4>3
          <6>3. QED BY <4>3, <5>1, <6>1, <6>2
        <5>5. Len(y) \in Nat /\ m <= Len(y) /\ Len(y) - m = 2 /\ 1 \in 1..2 /\ 2 \in 1..2
          BY <5>4
        <5>6. Len(new) = 2 /\ new[1] = x /\ new[2] = x
          BY <3>3, <5>4, <5>5
        <5>7. QED BY <4>3, <5>6
      <4>4. QED BY <1>1, <1>2, <2>1, <2>9, <3>1, <4>1, <4>2, <4>3 DEF ResponseOK
    <3>5. /\ SubSeq(answers', answered' + 1, Len(answers')) = new
          /\ handled' = handled /\ batch' = batch /\ Len(handled') = n
      BY <1>2, <2>1, <2>9, <3>1, <3>2
    <3>6. QED BY <3>4, <3>5 DEF LastAnswerOnly
  <2>13. QED
    BY <2>4, <2>5, <2>7, <2>8, <2>10, <2>11, <2>12 DEF IInv
<1>9. QED BY <1>1, <1>8 DEF TypeOK

LEMMA CloseKeeps ==
  ASSUME IInv, Close
  PROVE  IInv'
<1>1. /\ TypeOK /\ Framed(Ahead, sent) /\ HandledBehind /\ HandledOnce /\ CodecOK /\ CutOK
      /\ HandledWhole /\ PoliteOK /\ ResponseOK /\ LastAnswerOnly
  BY DEF IInv
<1>2. /\ pc = "wait" /\ pc' = "closed"
      /\ UNCHANGED <<sent, wire, buf, processed, contentLength, response, answers, handled,
                     batch, answered, polite, cut>>
  BY DEF Close, client, history
<1>3. Ahead' = Ahead
  BY <1>1, CloseAhead
<1>4. TypeOK' /\ Framed(Ahead', sent')
  BY <1>1, <1>2, <1>3 DEF TypeOK
<1>5. HandledBehind' /\ HandledOnce' /\ HandledWhole'
  BY <1>1, <1>2, <1>3 DEF HandledBehind, HandledOnce, HandledWhole
<1>6. \A i : HasLine(i)' <=> HasLine(i)
  BY <1>3 DEF HasLine
<1>7. CodecOK'
  BY <1>1, <1>2, <1>3, <1>6 DEF CodecOK
<1>8. CutOK'
  <2>1. \A i \in cut : i <= Len(sent) /\ ~HasLine(i)
    BY <1>1, <1>2 DEF CutOK
  <2>2. QED BY <1>2, <1>6, <2>1 DEF CutOK
<1>9. PoliteOK'
  <2>1. \A n : NextIs(wire, n)' <=> NextIs(wire, n)
    BY <1>2 DEF NextIs
  <2>2. QED BY <1>1, <1>2, <2>1 DEF PoliteOK
<1>10. ResponseOK' /\ LastAnswerOnly'
  BY <1>1, <1>2 DEF ResponseOK, LastAnswerOnly
<1>11. QED
  BY <1>4, <1>5, <1>7, <1>8, <1>9, <1>10 DEF IInv

-----------------------------------------------------------------------------
(* The theorems.                                                           *)

LEMMA Inductive ==
  IInv /\ [Next]_vars => IInv'
<1> SUFFICES ASSUME IInv, [Next]_vars
             PROVE  IInv'
  OBVIOUS
<1>1. CASE UNCHANGED vars
  <2>1. Ahead' = Ahead
    BY <1>1 DEF vars, Ahead
  <2>2. /\ TypeOK /\ Framed(Ahead, sent) /\ HandledBehind /\ HandledOnce /\ CodecOK /\ CutOK
        /\ HandledWhole /\ PoliteOK /\ ResponseOK /\ LastAnswerOnly
    BY DEF IInv
  <2>3. TypeOK' /\ Framed(Ahead', sent')
    BY <1>1, <2>1, <2>2 DEF vars, TypeOK
  <2>4. HandledBehind' /\ HandledOnce' /\ HandledWhole'
    BY <1>1, <2>1, <2>2 DEF vars, HandledBehind, HandledOnce, HandledWhole
  <2>5. \A i : HasLine(i)' <=> HasLine(i)
    BY <2>1 DEF HasLine
  <2>6. CodecOK' /\ CutOK'
    BY <1>1, <2>1, <2>2, <2>5 DEF vars, CodecOK, CutOK
  <2>7. PoliteOK'
    <3>1. \A n : NextIs(wire, n)' <=> NextIs(wire, n)
      BY <1>1 DEF vars, NextIs
    <3>2. QED BY <1>1, <2>2, <3>1 DEF vars, PoliteOK
  <2>8. ResponseOK' /\ LastAnswerOnly'
    BY <1>1, <2>2 DEF vars, ResponseOK, LastAnswerOnly
  <2>9. QED BY <2>3, <2>4, <2>6, <2>7, <2>8 DEF IInv
<1>2. CASE \E k \in Kinds : Send(k)
  BY <1>2, SendKeeps
<1>3. CASE \E n \in 1..Len(wire) : Traffic(n)
  BY <1>3, TrafficKeeps
<1>4. CASE OnTraffic
  BY <1>4, HandleKeeps, HandleGarbledKeeps, FailuresKeep, AllParsedKeeps, FlushKeepsInv
  DEF OnTraffic
<1>5. CASE Close
  BY <1>5, CloseKeeps
<1>6. QED BY <1>1, <1>2, <1>3, <1>4, <1>5 DEF Next

\* The bytes that OnTraffic has still to go over are always the end of a stream of
\* the requests sent, and all that has been handled, the state of the Codec and the
\* response buffer agree with where in that stream it is.
THEOREM InductiveInvariant == Spec => []IInv
<1>1. Init => IInv
  BY InitKeeps
<1>2. QED BY <1>1, Inductive, PTL DEF Spec

\* The variables of the connection have their types: OnTraffic never goes over more
\* than the buffer holds.
THEOREM TypeCorrect == Spec => []TypeOK
<1>1. IInv => TypeOK
  BY DEF IInv
<1>2. QED BY <1>1, InductiveInvariant, PTL

\* However the bytes of any number of requests are cut into pieces, no request
\* reaches a handler twice or before one that was sent earlier.
THEOREM OnceAndInOrder == Spec => []HandledOnce
<1>1. IInv => HandledOnce
  BY DEF IInv
<1>2. QED BY <1>1, InductiveInvariant, PTL

\* A request that a handler gets with its body had no piece of it come alone, and was not
\* a first request with a body, unless that was CRLF CRLF; one that a handler gets without
\* its body is the first one of its connection, or chunked, or its body begins with
\* CRLF CRLF and goes on.
THEOREM WholeUnlessNamed == Spec => []HandledWhole
<1>1. IInv => HandledWhole
  BY DEF IInv
<1>2. QED BY <1>1, InductiveInvariant, PTL

\* Of the requests handled in one OnTraffic only the last one is answered, or a 400
\* is written twice in its place.
THEOREM OnlyTheLastIsAnswered == Spec => []LastAnswerOnly
<1>1. IInv => LastAnswerOnly
  BY DEF IInv
<1>2. QED BY <1>1, InductiveInvariant, PTL

\* Between two calls of OnTraffic, a client that waits for its answers, and whose bodies
\* the shortcuts of Parse do no harm, has all that has arrived handled with its body, and
\* answered once and in order.
THEOREM PoliteClientsAreServed == Spec => []PoliteServed
<1>1. IInv => PoliteServed
  <2> SUFFICES ASSUME IInv, polite, pc = "wait"
               PROVE  /\ buf = <<>>
                      /\ handled = [i \in DOMAIN handled |->
                                      [req |-> i, genuine |-> TRUE, whole |-> TRUE]]
                      /\ answers = [i \in DOMAIN handled |-> [req |-> i, status |-> "handled"]]
                      /\ wire = <<>> => Len(handled) = Len(sent)
    BY DEF PoliteServed
  <2>1. PICK n : n = Len(handled)
    OBVIOUS
  <2>2. /\ handled = Served(n) /\ buf = <<>> /\ answers = AnswersTo(n) /\ NextIs(wire, n)
    BY <2>1 DEF IInv, PoliteOK
  <2>3. DOMAIN handled = 1..n
    BY <2>1, HandledTypes DEF IInv
  <2>4. wire = <<>> => n = Len(sent)
    BY <2>2 DEF NextIs
  <2>5. QED BY <2>1, <2>2, <2>3, <2>4 DEF Served, AnswersTo
<1>2. QED BY <1>1, InductiveInvariant, PTL

=============================================================================
