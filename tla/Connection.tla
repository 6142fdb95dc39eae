----------------------------- MODULE Connection -----------------------------
(***************************************************************************)
(* One connection: OnOpen, OnTraffic and OnClose of server.go with the     *)
(* Codec of internal/httpparser.  The client sends requests, whose bytes   *)
(* reach the inbound buffer in pieces of any size; each piece starts an    *)
(* OnTraffic, which parses what the buffer holds, handles the requests it  *)
(* finds one after the other, and writes a response.                       *)
(*                                                                         *)
(* The bytes of a request are a few elements: a "line", the first byte of  *)
(* its head; an "end", which stands for the rest of the head; and those of *)
(* its body.  An element has the mark "blank" if it is CRLF CRLF, "last"   *)
(* if it ends in 0 CRLF CRLF, as a last chunk does, a head whose last      *)
(* header value ends in 0, and perhaps data, and else "text".              *)
(*                                                                         *)
(* The parsers of wildcat and net/http are external: they take a head      *)
(* that is all there and refuse the beginning of one.  With bytes that do  *)
(* not begin where a request begins they may do anything.                  *)
(***************************************************************************)
EXTENDS Integers, Sequences, FiniteSets

CONSTANTS Kinds,      \* kinds of requests, see KindType
          MaxSent,    \* bound: requests that the client sends
          MaxGarbled, \* bound: handled requests that nobody has sent
          NoResponse  \* an empty response buffer

Marks == {"text", "blank", "last"}

\* How the end of the body is told, what the body is, if it is a form, if the head ends
\* in a 0, and if parseChunkedBody takes the first chunk for all of them, or a size in
\* hexadecimal digits for a decimal one, and finds no mistake.
KindType == [framing: {"none", "length", "chunked"}, body: Seq(Marks), form: BOOLEAN,
             zero: BOOLEAN, misread: BOOLEAN]

ASSUME ConnectionAssumption ==
  /\ Kinds \subseteq KindType
  /\ \A k \in Kinds :
       /\ k.framing = "none" => k.body = <<>>
       /\ k.framing = "chunked" =>
            Len(k.body) > 0 /\ k.body[1] # "blank" /\ k.body[Len(k.body)] = "last"
       /\ k.misread => k.framing = "chunked" /\ Len(k.body) > 1
  /\ MaxSent \in Nat /\ MaxGarbled \in Nat
  /\ NoResponse \notin [req: Nat, status: {"handled", "400"}]

VARIABLES sent,           \* the kinds of the requests sent, in order
          wire,           \* bytes on their way
          buf,            \* the inbound buffer: what Peek(-1) returns
          pc,             \* "wait", or where OnTraffic is; "closed"
          processed,      \* OnTraffic's processed
          contentLength,  \* hc.ContentLength
          response,       \* hc.Buf
          answers,        \* the responses written
          handled,        \* the requests handled
          batch,          \* history: how many were before this OnTraffic
          answered,       \* history: how many answers were before it
          polite,         \* history: the client has been polite, see Traffic
          cut             \* history: the requests of which a piece came alone

vars == <<sent, wire, buf, pc, processed, contentLength, response, answers, handled,
          batch, answered, polite, cut>>
client == <<sent, wire>>
history == <<batch, answered, polite, cut>>

-----------------------------------------------------------------------------
(* Requests as bytes.                                                      *)

Byte(i, part, mark) == [req |-> i, part |-> part, mark |-> mark]

EndMark(k) == IF k.zero THEN "last" ELSE "text"

HeadBytes(i, k) == <<Byte(i, "line", "text"), Byte(i, "end", EndMark(k))>>

BodyBytes(i, k) == [j \in 1..Len(k.body) |-> Byte(i, "body", k.body[j])]

RequestBytes(i, k) == HeadBytes(i, k) \o BodyBytes(i, k)

HasBody(k) == k.body # <<>>

\* The body begins with CRLF CRLF.
BlankLed(k) == HasBody(k) /\ k.body[1] = "blank"

\* The Content-Length header.
Length(k) == IF k.framing = "length" THEN Len(k.body) ELSE -1

\* The shortcuts of Parse do the body of this request no harm: it begins with CRLF CRLF
\* only if that is all, its chunks are read right and none of them has 0 CRLF CRLF in it.
Clear(k) ==
  /\ BlankLed(k) => Len(k.body) = 1
  /\ ~k.misread
  /\ k.framing = "chunked" => \A j \in 1..Len(k.body) - 1 : k.body[j] # "last"

\* OnOpen has made a Codec without NewCodec: its ContentLength is 0.
Init ==
  /\ sent = <<>> /\ wire = <<>> /\ buf = <<>>
  /\ pc = "wait"
  /\ processed = 0
  /\ contentLength = 0
  /\ response = NoResponse
  /\ answers = <<>> /\ handled = <<>>
  /\ batch = 0 /\ answered = 0
  /\ polite = TRUE
  /\ cut = {}

Send(k) ==
  /\ pc # "closed"
  /\ Len(sent) < MaxSent
  /\ sent' = Append(sent, k)
  /\ wire' = wire \o RequestBytes(Len(sent) + 1, k)
  /\ UNCHANGED <<buf, pc, processed, contentLength, response, answers, handled, history>>

\* What arrives is one request, whole and alone, which Parse's shortcuts do no harm, and
\* has a body only if the connection has had a request before.
OneRequest(bytes) ==
  \E i \in DOMAIN sent :
    bytes = RequestBytes(i, sent[i]) /\ Clear(sent[i]) /\ (i = 1 => ~HasBody(sent[i]))

\* What arrives is the beginning of the request i, and not all of it.
PieceAlone(bytes, i) ==
  LET all == RequestBytes(i, sent[i])
  IN Len(bytes) < Len(all) /\ bytes = SubSeq(all, 1, Len(bytes))

\* The next n bytes arrive.  A polite client waits for its answer and has each
\* request arrive in one piece.
Traffic(n) ==
  /\ pc = "wait"
  /\ LET bytes == SubSeq(wire, 1, n)
     IN /\ buf' = buf \o bytes
        /\ polite' = (polite /\ buf = <<>> /\ OneRequest(bytes))
        /\ cut' = cut \cup {i \in DOMAIN sent : buf = <<>> /\ PieceAlone(bytes, i)}
  /\ wire' = SubSeq(wire, n + 1, Len(wire))
  /\ pc' = "parse"
  /\ processed' = 0
  /\ batch' = Len(handled)
  /\ answered' = Len(answers)
  /\ UNCHANGED <<sent, contentLength, response, answers, handled>>

-----------------------------------------------------------------------------
(* Codec.Parse, on the bytes d.                                            *)

Rest == SubSeq(buf, processed + 1, Len(buf))

FirstOf(S) == CHOOSE j \in S : \A i \in S : j <= i

\* The bytes begin with a head that the client has sent, all of it.
Genuine(d) == Len(d) >= 2 /\ d[1].part = "line" /\ d[2].part = "end"

\* The request whose head it is, and where the head ends.
Requested(d) == d[1].req
HeadEnd(d) == 2

GetContentLength(d) ==
  IF contentLength # -1 THEN contentLength ELSE Length(sent[Requested(d)])

\* CRLF CRLF directly behind the head.
BlankBehind(d) == Len(d) > HeadEnd(d) /\ d[HeadEnd(d) + 1].mark = "blank"

\* The ends of "0 CRLF CRLF" in what follows the head.
LastChunks(d) == {j \in HeadEnd(d) + 1..Len(d) : d[j].mark = "last"}

\* Mutant of NextOffset: the last chunk is looked for before the length is.
NextOffsetChunksFirst(d) ==
  IF BlankBehind(d) THEN HeadEnd(d) + 1
  ELSE IF LastChunks(d) # {} THEN FirstOf(LastChunks(d))
  ELSE IF GetContentLength(d) > -1 THEN HeadEnd(d) + GetContentLength(d)
  ELSE HeadEnd(d)

\* nextOffset: behind the CRLF CRLF; else by the length; else behind the first thing that
\* looks like a last chunk, whether or not the request is chunked; else behind the head.
NextOffset(d) ==
  IF BlankBehind(d) THEN HeadEnd(d) + 1
  ELSE IF GetContentLength(d) > -1 THEN HeadEnd(d) + GetContentLength(d)
  ELSE IF LastChunks(d) # {} THEN FirstOf(LastChunks(d))
  ELSE HeadEnd(d)

\* The body is chunked and read as such.
ReadInChunks(d) ==
  sent[Requested(d)].framing = "chunked" /\ GetContentLength(d) = -1 /\ LastChunks(d) # {}

\* What looks like the last chunk is not the last one: Parse finds the chunks broken off,
\* or takes what it has for all of them.
EarlyEnd(d) ==
  ReadInChunks(d) /\ NextOffset(d) < HeadEnd(d) + Len(sent[Requested(d)].body)

\* The body that the handler gets.  Behind a head with CRLF CRLF behind it Parse gives no
\* body, so that http.ReadRequest looks for it in these four bytes, and finds it there if
\* it is not longer.
BodyRead(d) ==
  LET k == sent[Requested(d)]
  IN IF BlankBehind(d) THEN (IF Len(k.body) = 1 THEN <<d[HeadEnd(d) + 1]>> ELSE <<>>)
     ELSE IF ReadInChunks(d) /\ k.misread THEN <<d[HeadEnd(d) + 1]>>
     ELSE IF GetContentLength(d) > -1 \/ ReadInChunks(d)
       THEN SubSeq(d, HeadEnd(d) + 1, NextOffset(d))
     ELSE <<>>

\* Parse may succeed, or fail, on bytes that begin with a request.
Parses(d) == NextOffset(d) <= Len(d)
MayFail(d) == ~Parses(d) \/ EarlyEnd(d)

\* The elements that are gone when the first byte is.
Skipped(d) == IF d[1].part = "line" THEN {1} ELSE {0, 1}

\* The content type of a form may be found in d: it is the first one there, its
\* line is not too long, and the head has come at least up to it.
FormMaySeen(d) == \E j \in 1..Len(d) : d[j].part # "body" /\ sent[d[j].req].form

-----------------------------------------------------------------------------
(* The loop of OnTraffic.                                                  *)

\* Mutant of ResetParser: ContentLength is left as it is.
ResetParserOnly == contentLength' = contentLength

\* ResetParser, which every call of Parse is followed by.
ResetParser == contentLength' = -1

\* The request is handled and its response put into hc.Buf; Parse has taken n bytes.
Handled(entry, n) ==
  /\ handled' = Append(handled, entry)
  /\ response' = [req |-> entry.req, status |-> "handled"]
  /\ processed' = processed + n
  /\ ResetParser
  /\ UNCHANGED <<client, buf, pc, answers, history>>

Parsing == pc = "parse" /\ processed < Len(buf)

Handle ==
  /\ Parsing
  /\ Genuine(Rest) /\ Parses(Rest)
  /\ LET i == Requested(Rest)
     IN Handled([req |-> i, genuine |-> TRUE,
                 whole |-> BodyRead(Rest) = BodyBytes(i, sent[i])], NextOffset(Rest))

\* Bytes from the midst of a request may look like one, of any length.
HandleGarbled(n) ==
  /\ Parsing
  /\ Cardinality({i \in DOMAIN handled : ~handled[i].genuine}) < MaxGarbled
  /\ Rest[1].part # "line"
  /\ Handled([req |-> Rest[1].req, genuine |-> FALSE, whole |-> FALSE], n)

\* Mutant of ParseFails: nothing is discarded and the loop goes on.
ParseFailsOn ==
  /\ Parsing
  /\ Genuine(Rest) => MayFail(Rest)
  /\ ResetParser
  /\ UNCHANGED <<client, buf, pc, processed, response, answers, handled, history>>

\* Parse fails, on a request that has not come in full or whose chunks seem broken off,
\* or on something else: one byte is skipped, and the loop ends.
ParseFails ==
  /\ Parsing
  /\ Genuine(Rest) => MayFail(Rest)
  /\ \E n \in Skipped(Rest) : processed' = processed + n
  /\ ResetParser
  /\ pc' = "flush"
  /\ UNCHANGED <<client, buf, response, answers, handled, history>>

\* Parse fails and there is a form: a 400 is put into hc.Buf and written.
FormFails ==
  /\ Parsing
  /\ Genuine(Rest) => MayFail(Rest)
  /\ FormMaySeen(Rest)
  /\ response' = [req |-> Rest[1].req, status |-> "400"]
  /\ answers' = Append(answers, response')
  /\ \E n \in Skipped(Rest) : processed' = processed + n
  /\ ResetParser
  /\ pc' = "flush"
  /\ UNCHANGED <<client, buf, handled, history>>

\* Parse succeeds on bytes from the midst of a request and http.ReadRequest fails.
ReadFails ==
  /\ Parsing
  /\ Rest[1].part # "line"
  /\ \E n \in Skipped(Rest) : processed' = processed + n
  /\ ResetParser
  /\ pc' = "flush"
  /\ UNCHANGED <<client, buf, response, answers, handled, history>>

AllParsed ==
  /\ pc = "parse"
  /\ processed = Len(buf)
  /\ pc' = "flush"
  /\ UNCHANGED <<client, buf, processed, contentLength, response, answers, handled, history>>

\* hc.Reset, which resets the parser once more, and Discard(n).
EndTraffic(n) ==
  /\ response' = NoResponse
  /\ ResetParser
  /\ buf' = SubSeq(buf, n + 1, Len(buf))
  /\ pc' = "wait"
  /\ UNCHANGED <<client, processed, handled, history>>

WriteBuf == answers' = IF response = NoResponse THEN answers ELSE Append(answers, response)

\* Mutant of Flush: what has been processed is not discarded.
FlushKeeps ==
  /\ pc = "flush"
  /\ WriteBuf
  /\ EndTraffic(0)

\* Mutant of Flush: hc.Reset keeps the buffer.
FlushNoReset ==
  /\ pc = "flush"
  /\ WriteBuf
  /\ UNCHANGED response
  /\ ResetParser
  /\ buf' = SubSeq(buf, processed + 1, Len(buf))
  /\ pc' = "wait"
  /\ UNCHANGED <<client, processed, handled, history>>

\* The response in hc.Buf is written: the last one, if there have been several.
Flush ==
  /\ pc = "flush"
  /\ WriteBuf
  /\ EndTraffic(processed)

\* OnClose: the Codec goes to a pool that OnOpen does not take from.
Close ==
  /\ pc = "wait"
  /\ pc' = "closed"
  /\ UNCHANGED <<client, buf, processed, contentLength, response, answers, handled, history>>

OnTraffic ==
  \/ Handle \/ (\E n \in 1..Len(Rest) : HandleGarbled(n))
  \/ ParseFails \/ FormFails \/ ReadFails \/ AllParsed \/ Flush

Next ==
  \/ \E k \in Kinds : Send(k)
  \/ \E n \in 1..Len(wire) : Traffic(n)
  \/ OnTraffic
  \/ Close

Spec == Init /\ [][Next]_vars

\* The event loop runs a callback to its end, and bytes sent arrive in the end
\* unless the connection is closed.
Fairness == WF_vars(OnTraffic) /\ WF_vars(\E n \in 1..Len(wire) : Traffic(n))

FairSpec == Spec /\ Fairness

-----------------------------------------------------------------------------
(* Properties.                                                             *)

Numbers == 1..MaxSent
ByteType == [req: Numbers, part: {"line", "end", "body"}, mark: Marks]
ResponseType == [req: Numbers, status: {"handled", "400"}]

\* Types of the variables.
TypeOK ==
  /\ sent \in Seq(Kinds) /\ Len(sent) <= MaxSent
  /\ wire \in Seq(ByteType)
  /\ buf \in Seq(ByteType)
  /\ pc \in {"wait", "parse", "flush", "closed"}
  /\ processed \in Nat /\ (pc \in {"parse", "flush"} => processed <= Len(buf))
  /\ contentLength \in {-1, 0}
  /\ response \in ResponseType \cup {NoResponse}
  /\ answers \in Seq(ResponseType)
  /\ handled \in Seq([req: Numbers, genuine: BOOLEAN, whole: BOOLEAN])
  /\ batch \in Nat /\ answered \in Nat
  /\ polite \in BOOLEAN
  /\ cut \subseteq Numbers

\* However the bytes of the requests are cut into pieces, no request reaches a
\* handler twice or before one sent earlier.
HandledOnce ==
  \A i, j \in DOMAIN handled :
    i < j /\ handled[i].genuine /\ handled[j].genuine => handled[i].req < handled[j].req

\* A polite client has every request that has arrived handled with its body, and
\* answered once, in order: no state of the Codec or of the buffer is left over
\* from the request before.  Not so if the body of a request begins with CRLF CRLF and
\* goes on, or parseChunkedBody takes the chunks wrong, or has 0 CRLF CRLF in one: such
\* a request is not polite here.
PoliteServed ==
  polite /\ pc = "wait" =>
    /\ buf = <<>>
    /\ handled = [i \in DOMAIN handled |-> [req |-> i, genuine |-> TRUE, whole |-> TRUE]]
    /\ answers = [i \in DOMAIN handled |-> [req |-> i, status |-> "handled"]]
    /\ wire = <<>> => Len(handled) = Len(sent)

\* Of the requests handled in one OnTraffic only the last is answered; the 400
\* to a form takes the place of that answer, and is written twice.  (server.go:
\* "Write the response if there's data in the buffer".)
LastAnswerOnly ==
  LET new == SubSeq(answers, answered + 1, Len(answers))
  IN pc = "wait" =>
       \/ new = <<>> /\ Len(handled) = batch
       \/ /\ Len(handled) > batch
          /\ new = <<[req |-> handled[Len(handled)].req, status |-> "handled"]>>
       \/ /\ Len(new) = 2 /\ new[1] = new[2]
          /\ new[1].status = "400"

\* Which requests a handler gets with their body: not the first one of a connection, if
\* it has a body ("GetContentLength gets the content length from the HTTP headers",
\* httpparser.go:511), unless that is CRLF CRLF; and none of which a piece had come alone
\* ("Break if we don't have enough data", server.go:265).  And which it gets without:
\* that first one, or one in chunks, or one with a body that begins with CRLF CRLF and
\* goes on ("Check for requests without a body first", httpparser.go:214).
HandledWhole ==
  \A i \in DOMAIN handled :
    LET h == handled[i]
        k == sent[h.req]
    IN h.genuine =>
         IF h.whole
           THEN h.req \notin cut /\ (h.req = 1 => ~HasBody(k) \/ (BlankLed(k) /\ Len(k.body) = 1))
           ELSE h.req = 1 \/ k.framing = "chunked" \/ (BlankLed(k) /\ Len(k.body) > 1)

\* Whatever arrives, OnTraffic comes to its end.
TrafficEnds == pc \in {"parse", "flush"} ~> pc = "wait"
=============================================================================
