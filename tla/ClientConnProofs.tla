-------------------------- MODULE ClientConnProofs --------------------------
(***************************************************************************)
(* What holds of a client connection for any set of plans, any limit of    *)
(* the loop over decrypted requests, and any way to cut the bytes.         *)
(*                                                                         *)
(* The inductive invariant has two layers.  ReadInv holds of every client: *)
(* the stream that the reader has before it is numbered and contiguous     *)
(* (Unread), and the body that it reads is the front of the one it belongs *)
(* to (BodyRead); Unanswered says that nobody is answered ahead.  Paced    *)
(* and WellRead are about a client that waits for its answers: the reader  *)
(* is at the request that is awaited, with at most the rest of earlier     *)
(* ones before it, and when nothing goes wrong with nothing before it.     *)
(***************************************************************************)
EXTENDS ClientConn, HttpReaderProofs

---------------------------------------------------------------------------
(***************************************************************************)
(* What the reader has before it, in every state.                          *)
(***************************************************************************)

(* The bytes that have not been received. *)
Ahead == wire \o unsent

(* And those that have been received and not been consumed. *)
Stream == IF stage = "none" THEN Ahead ELSE data \o Ahead

Unread == Numbered(Stream, asked) /\ Contiguous(plan, Stream, asked, unsent)

BodyRead ==
  /\ stage = "length" => InLength(plan, data, body, head, Ahead, asked, unsent)
  /\ stage \in {"size", "chunk", "trailers"} =>
       InChunks(plan, stage, data, body, head, Ahead, asked, unsent)
  /\ stage = "request" => Done(plan, body, head, asked)

Stages ==
  /\ at = "handshake" <=> at # "closed" /\ stage = "none"
  /\ at \in {"plain", "handshake"} => forwarded = <<>>

(* The next request to be taken from the stream. *)
Awaited ==
  CASE at = "plain" -> 1
    [] at = "handshake" -> 2
    [] OTHER -> Len(forwarded) + 3

(* Nobody is answered ahead. *)
Unanswered == at # "closed" => Len(replies) < Awaited

ReadInv == TypeOK /\ Unread /\ BodyRead

(* The types that the lemmas about the reader need. *)
LEMMA Types ==
  ASSUME TypeOK
  PROVE  /\ plan \in Seq(RequestShape) /\ asked \in 0 .. Len(plan)
         /\ wire \in Seq(Token) /\ unsent \in Seq(Token)
         /\ data \in Seq(Token) /\ body \in Seq(Token)
         /\ Ahead \in Seq(Token) /\ data \o Ahead \in Seq(Token) /\ Stream \in Seq(Token)
<1>1. /\ plan \in Seq(RequestShape) /\ asked \in 0 .. Len(plan)
      /\ wire \in Seq(Token) /\ unsent \in Seq(Token)
      /\ data \in Seq(Token) /\ body \in Seq(Token)
  BY PlansAssumption DEF TypeOK
<1>2. Ahead \in Seq(Token)
  BY <1>1, TwoParts, Zenon DEF Ahead
<1>3. data \o Ahead \in Seq(Token)
  BY <1>1, <1>2, TwoParts, Zenon
<1> QED
  BY <1>1, <1>2, <1>3, Zenon DEF Stream

(* Something is consumed. *)
LEMMA UnreadLater ==
  ASSUME Unread, NEW x \in Seq(Token), NEW y \in Seq(Token),
         Stream = x \o y, Stream' = y, UNCHANGED <<plan, asked, unsent>>
  PROVE  Unread'
<1>1. Numbered(x \o y, asked) /\ Contiguous(plan, x \o y, asked, unsent)
  BY Zenon DEF Unread
<1>2. Numbered(y, asked) /\ Contiguous(plan, y, asked, unsent)
  BY <1>1, UnreadTaken, Zenon
<1>3. plan' = plan /\ asked' = asked /\ unsent' = unsent
  OBVIOUS
<1> QED
  BY <1>2, <1>3, Zenon DEF Unread

(* Nothing is. *)
LEMMA UnreadAsBefore ==
  ASSUME Unread, Stream' = Stream, UNCHANGED <<plan, asked, unsent>>
  PROVE  Unread'
<1>1. plan' = plan /\ asked' = asked /\ unsent' = unsent
  OBVIOUS
<1> QED
  BY <1>1, Zenon DEF Unread

(* All that was received is consumed. *)
LEMMA UnreadAhead ==
  ASSUME TypeOK, Unread, Stream' = Ahead, UNCHANGED <<plan, asked, unsent>>
  PROVE  Unread'
<1>1. CASE stage = "none"
  <2>1. Stream' = Stream
    BY <1>1 DEF Stream
  <2> QED
    BY <2>1, UnreadAsBefore
<1>2. CASE stage # "none"
  <2>1. Stream = data \o Ahead
    BY <1>2 DEF Stream
  <2> QED
    BY <2>1, Types, UnreadLater, Zenon
<1> QED
  BY <1>1, <1>2

(* A part of what was received is. *)
LEMMA UnreadBehind ==
  ASSUME TypeOK, Unread, stage # "none", NEW n \in 0 .. Len(data),
         Stream' = SubSeq(data, n + 1, Len(data)) \o Ahead, UNCHANGED <<plan, asked, unsent>>
  PROVE  Unread'
<1>1. PICK x, y : x = SubSeq(data, 1, n) /\ y = SubSeq(data, n + 1, Len(data))
  OBVIOUS
<1>2. x \in Seq(Token) /\ y \in Seq(Token) /\ data = x \o y
  BY <1>1, Types, Cut, Zenon
<1>3. Ahead \in Seq(Token)
  BY Types
<1>4. y \o Ahead \in Seq(Token)
  BY <1>2, <1>3, TwoParts, Zenon
<1>5. Associate(x, y, Ahead)
  BY <1>2, <1>3, TokensAssociate, Zenon
<1>6. Stream = x \o (y \o Ahead)
  BY <1>2, <1>5, Zenon DEF Associate, Stream
<1>7. Stream' = y \o Ahead
  BY <1>1, Zenon
<1> QED
  BY <1>2, <1>4, <1>6, <1>7, UnreadLater, Zenon

(* Nothing changes but in the reader's own variables. *)
Reading == UNCHANGED <<plan, eof, pipelines, prompt, asked, unsent, serverVars>>

(* The reader's variables keep their types, the others stay as they are. *)
LEMMA ReaderTypes ==
  ASSUME TypeOK, Reading, wire' \in Seq(Token), data' \in Seq(Token), body' \in Seq(Token),
         stage' \in {"none", "header", "length", "size", "chunk", "trailers", "request",
                     "nothing"},
         head' \in 0 .. Len(plan), clean' \in BOOLEAN
  PROVE  TypeOK'
<1>1. /\ plan' = plan /\ eof' = eof /\ pipelines' = pipelines /\ prompt' = prompt
      /\ asked' = asked /\ unsent' = unsent
      /\ at' = at /\ forwarded' = forwarded /\ replies' = replies
  BY DEF Reading, serverVars
<1> QED
  BY <1>1, Zenon DEF TypeOK

(* Connection.recv(): the stream stays the same, it is only nearer. *)
LEMMA RecvLemma ==
  ASSUME ReadInv, Recv, Reading
  PROVE  ReadInv' /\ (stage # "length" => data' \o Ahead' = data \o Ahead)
<1>1. PICK n \in 0 .. Len(wire) :
        /\ wire' = SubSeq(wire, n + 1, Len(wire))
        /\ IF stage = "length"
           THEN body' = body \o SubSeq(wire, 1, n) /\ data' = data
           ELSE data' = data \o SubSeq(wire, 1, n) /\ body' = body
  <2>1. wire \in Seq(Token) /\ wire # <<>>
    BY Types DEF ReadInv, Recv
  <2>2. ASSUME stage # "length" PROVE Len(wire) \in 0 .. Len(wire)
    BY <2>1
  <2>3. ASSUME stage = "length"
        PROVE  Min({Len(wire), ContentLength(head) - Len(body)}) \in 0 .. Len(wire)
    <3>1. PICK c \in Nat : c = ContentLength(head) - Len(body)
      <4>1. Len(body) < ContentLength(head)
        BY <2>3 DEF Recv, NeedsMore
      <4>2. head \in 1 .. asked
        BY <2>3 DEF ReadInv, BodyRead, InLength
      <4>3. plan[head].size \in Nat
        BY <4>2, Types, Planned DEF ReadInv
      <4>4. ContentLength(head) \in Nat /\ Len(body) \in Nat
        BY <4>3, Types DEF ContentLength, ReadInv
      <4>5. ContentLength(head) - Len(body) \in Nat
        BY <4>1, <4>4
      <4> QED
        BY <4>5
    <3>2. {Len(wire), c} \in SUBSET Nat /\ {Len(wire), c} # {}
      BY <2>1
    <3>3. /\ Min({Len(wire), c}) \in {Len(wire), c}
          /\ \A i \in {Len(wire), c} : Min({Len(wire), c}) <= i
      BY <3>2, Least, Zenon
    <3>4. Min({Len(wire), c}) \in 0 .. Len(wire)
      BY <2>1, <3>1, <3>3
    <3> QED
      BY <3>1, <3>4
  <2>4. CASE stage = "length"
    BY <2>3, <2>4 DEF Recv
  <2>5. CASE stage # "length"
    BY <2>2, <2>5 DEF Recv
  <2> QED
    BY <2>4, <2>5
<1>2. PICK got, rest : got = SubSeq(wire, 1, n) /\ rest = SubSeq(wire, n + 1, Len(wire))
  OBVIOUS
<1>3. /\ wire \in Seq(Token) /\ unsent \in Seq(Token) /\ data \in Seq(Token)
      /\ body \in Seq(Token)
  BY Types DEF ReadInv
<1>4. got \in Seq(Token) /\ rest \in Seq(Token) /\ wire = got \o rest
  BY <1>2, <1>3, Cut, Zenon
<1>5. Ahead = got \o (rest \o unsent) /\ rest \o unsent \in Seq(Token)
  <2>1. Associate(got, rest, unsent)
    BY <1>3, <1>4, TokensAssociate, Zenon
  <2>2. rest \o unsent \in Seq(Token)
    BY <1>3, <1>4, TwoParts, Zenon
  <2> QED
    BY <1>4, <2>1, <2>2, Zenon DEF Associate, Ahead
<1>6. /\ UNCHANGED <<plan, asked, unsent, stage, head, clean>>
      /\ Ahead' = rest \o unsent
  BY <1>1, <1>2 DEF Recv, Reading, Ahead
<1>7. stage \notin {"none", "request", "nothing"} /\ NeedsMore
  BY DEF Recv, NeedsMore
<1>8. /\ head' \in 0 .. Len(plan) /\ clean' \in BOOLEAN /\ wire' \in Seq(Token)
      /\ stage' \in {"none", "header", "length", "size", "chunk", "trailers", "request",
                     "nothing"}
  BY <1>1, <1>2, <1>4, <1>6 DEF ReadInv, TypeOK
<1>9. CASE stage = "length"
  <2>1. body' = body \o got /\ data' = data
    BY <1>1, <1>2, <1>9
  <2>2. body' \in Seq(Token)
    BY <1>3, <1>4, <2>1, TwoParts, Zenon
  <2>3. TypeOK'
    BY <1>3, <1>8, <2>1, <2>2, ReaderTypes DEF ReadInv
  <2>4. InLength(plan, data, body, head, Ahead, asked, unsent)
    BY <1>9 DEF ReadInv, BodyRead
  <2>5. body' \o Ahead' = body \o Ahead
    <3>1. Associate(body, got, rest \o unsent)
      BY <1>3, <1>4, <1>5, TokensAssociate, Zenon
    <3> QED
      BY <1>5, <1>6, <2>1, <3>1, Zenon DEF Associate
  <2>6. InLength(plan, data, body', head, Ahead', asked, unsent)
    BY <2>4, <2>5, Zenon DEF InLength
  <2>7. BodyRead'
    BY <1>6, <1>9, <2>1, <2>6 DEF BodyRead
  <2>8. Unread'
    <3>1. data = <<>>
      BY <2>4 DEF InLength
    <3>2. Stream = Ahead /\ Stream' = rest \o unsent
      <4>1. <<>> \o Ahead = Ahead /\ <<>> \o (rest \o unsent) = rest \o unsent
        BY <1>5, Types DEF ReadInv
      <4> QED
        BY <1>6, <1>9, <2>1, <3>1, <4>1 DEF Stream
    <3> QED
      BY <1>4, <1>5, <1>6, <3>2, UnreadLater DEF ReadInv
  <2> QED
    BY <1>9, <2>3, <2>7, <2>8 DEF ReadInv
<1>10. CASE stage # "length"
  <2>1. data' = data \o got /\ body' = body
    BY <1>1, <1>2, <1>10
  <2>2. data' \in Seq(Token)
    BY <1>3, <1>4, <2>1, TwoParts, Zenon
  <2>3. TypeOK'
    BY <1>3, <1>8, <2>1, <2>2, ReaderTypes DEF ReadInv
  <2>5. data' \o Ahead' = data \o Ahead
    <3>1. Associate(data, got, rest \o unsent)
      BY <1>3, <1>4, <1>5, TokensAssociate, Zenon
    <3> QED
      BY <1>5, <1>6, <2>1, <3>1, Zenon DEF Associate
  <2>6. InChunks(plan, stage, data, body, head, Ahead, asked, unsent) =>
          InChunks(plan, stage, data', body, head, Ahead', asked, unsent)
    BY <2>5, Zenon DEF InChunks
  <2>7. BodyRead'
    BY <1>6, <1>7, <1>10, <2>1, <2>6 DEF BodyRead, ReadInv
  <2>8. Stream' = Stream
    BY <1>6, <1>7, <2>5 DEF Stream
  <2>9. Unread'
    BY <1>6, <2>8, UnreadAsBefore DEF ReadInv
  <2> QED
    BY <2>3, <2>5, <2>7, <2>9 DEF ReadInv
<1> QED
  BY <1>9, <1>10

(* A header was parsed: the body reader that it chooses. *)
LEMMA BeginBodyLemma ==
  ASSUME ReadInv, stage = "header", Reading, wire' = wire, clean' \in BOOLEAN,
         NEW n \in 0 .. Len(data), NEW c \in Seq(Token), c = SubSeq(data, n + 1, Len(data)),
         NEW r \in 0 .. asked, BeginBody(r, c),
         r # 0 =>
           /\ plan[r] \in RequestShape /\ plan[r].framing # "hello"
           /\ plan[r].framing \in Chunked =>
                InChunks(plan, "size", c, <<>>, r, Ahead, asked, unsent)
           /\ plan[r].framing \in {"length", "bad_length"} =>
                InLength(plan, <<>>, c, r, Ahead, asked, unsent)
           /\ plan[r].framing = "none" => Done(plan, c, r, asked)
  PROVE  ReadInv' /\ head' = r /\ Ahead' = Ahead /\ stage' \in {"size", "length", "request"}
<1>1. /\ plan' = plan /\ asked' = asked /\ unsent' = unsent /\ Ahead' = Ahead
      /\ head' = r
  BY DEF Reading, Ahead, BeginBody
<1>2. r \in 0 .. Len(plan) /\ Ahead \in Seq(Token) /\ wire' \in Seq(Token) /\ <<>> \in Seq(Token)
  BY Types DEF ReadInv
<1>3. Stream' = c \o Ahead => Unread'
  BY <1>1, UnreadBehind DEF ReadInv
<1>4. Stream' = Ahead => Unread'
  BY <1>1, UnreadAhead DEF ReadInv
<1>5. <<>> \o Ahead = Ahead
  BY <1>2
<1>6. CASE Framing(r) \in Chunked
  <2>1. stage' = "size" /\ data' = c /\ body' = <<>>
    BY <1>6 DEF BeginBody, Chunked
  <2>2. r # 0 /\ plan[r].framing \in Chunked
    BY <1>6 DEF Framing, Chunked
  <2>3. InChunks(plan, "size", c, <<>>, r, Ahead, asked, unsent)
    BY <2>2
  <2>4. BodyRead'
    BY <1>1, <2>1, <2>3 DEF BodyRead
  <2>5. TypeOK'
    BY <1>1, <1>2, <2>1, ReaderTypes DEF ReadInv
  <2>6. Stream' = c \o Ahead
    BY <1>1, <2>1 DEF Stream
  <2> QED
    BY <1>1, <1>3, <2>1, <2>4, <2>5, <2>6 DEF ReadInv
<1>7. CASE Framing(r) \in {"length", "bad_length"}
  <2>1. stage' = "length" /\ data' = <<>> /\ body' = c
    BY <1>7 DEF BeginBody, Chunked
  <2>2. r # 0 /\ plan[r].framing \in {"length", "bad_length"}
    BY <1>7 DEF Framing
  <2>3. InLength(plan, <<>>, c, r, Ahead, asked, unsent)
    BY <2>2
  <2>4. BodyRead'
    BY <1>1, <2>1, <2>3 DEF BodyRead
  <2>5. TypeOK'
    BY <1>1, <1>2, <2>1, ReaderTypes DEF ReadInv
  <2>6. Stream' = Ahead
    BY <1>1, <1>5, <2>1 DEF Stream
  <2> QED
    BY <1>1, <1>4, <2>1, <2>4, <2>5, <2>6 DEF ReadInv
<1>8. CASE Framing(r) = "none"
  <2>1. stage' = "request" /\ data' = <<>> /\ body' = c
    BY <1>8 DEF BeginBody, Chunked
  <2>2. Done(plan, c, r, asked)
    BY <1>8 DEF Framing, Done
  <2>4. BodyRead'
    BY <1>1, <2>1, <2>2 DEF BodyRead
  <2>5. TypeOK'
    BY <1>1, <1>2, <2>1, ReaderTypes DEF ReadInv
  <2>6. Stream' = Ahead
    BY <1>1, <1>5, <2>1 DEF Stream
  <2> QED
    BY <1>1, <1>4, <2>1, <2>4, <2>5, <2>6 DEF ReadInv
<1>9. Framing(r) \in Framings \ {"hello"}
  BY DEF Framing, Framings, RequestShape
<1> QED
  BY <1>6, <1>7, <1>8, <1>9 DEF Framings, Chunked

(* The reader stops without a request. *)
LEMMA NothingLemma ==
  ASSUME ReadInv, stage # "none", stage' = "nothing", wire' = wire, Reading,
         UNCHANGED <<data, body, head, clean>>
  PROVE  ReadInv' /\ Ahead' = Ahead
<1>1. /\ plan' = plan /\ asked' = asked /\ unsent' = unsent /\ Ahead' = Ahead
  BY DEF Reading, Ahead
<1>2. TypeOK'
  BY ReaderTypes DEF ReadInv, TypeOK
<1>3. Stream' = Stream
  BY <1>1 DEF Stream
<1>4. Unread'
  BY <1>1, <1>3, UnreadAsBefore DEF ReadInv
<1>5. BodyRead'
  BY DEF BodyRead
<1> QED
  BY <1>1, <1>2, <1>4, <1>5 DEF ReadInv

(* The blank line, and what the parser makes of the bytes before it. *)
LEMMA ParseHeaderLemma ==
  ASSUME ReadInv, ParseHeader, Reading
  PROVE  ReadInv' /\ stage' # "none"
<1> DEFINE m == Min(BlankLines(data))
           c == SubSeq(data, m + 2, Len(data))
           heads == {i \in 1 .. m : data[i].t = "hdr"}
<1>1. stage = "header" /\ BlankLines(data) # {} /\ wire' = wire /\ plan' = plan
  BY DEF ParseHeader, streamVars
<1>2. data \in Seq(Token) /\ plan \in Seq(RequestShape) /\ asked \in 0 .. Len(plan)
      /\ Ahead \in Seq(Token)
  BY Types DEF ReadInv
<1>3. /\ Numbered(data \o Ahead, asked) /\ Contiguous(plan, data \o Ahead, asked, unsent)
  BY <1>1 DEF ReadInv, Unread, Stream
<1>4. m + 1 \in 0 .. Len(data) /\ c = SubSeq(data, (m + 1) + 1, Len(data)) /\ m \in Nat
  <2>1. m \in 1 .. Len(data) /\ m + 1 \in 1 .. Len(data)
    BY <1>1, <1>2, LineEndPositions
  <2>2. (m + 1) + 1 = m + 2
    BY <2>1
  <2> QED
    BY <2>1, <2>2
<1>5. c \in Seq(Token)
  BY <1>2, <1>4, Cut, Zenon
<1>6. \/ \E i \in heads : BeginBody(data[i].r, c) /\ clean' \in BOOLEAN
      \/ BeginBody(0, c) /\ clean' = FALSE
      \/ stage' = "nothing" /\ UNCHANGED <<data, body, head, clean>>
  <2>1. CASE heads # {}
    <3>1. PICK i : i = CHOOSE j \in heads : TRUE
      OBVIOUS
    <3>2. i \in heads
      BY <2>1, <3>1
    <3>3. \/ clean' = (1 \in heads) /\ BeginBody(data[i].r, c)
          \/ stage' = "nothing" /\ UNCHANGED <<data, body, head, clean>>
      BY <2>1, <3>1 DEF ParseHeader
    <3> HIDE DEF heads, c
    <3>4. (1 \in heads) \in BOOLEAN
      OBVIOUS
    <3> QED
      BY <3>2, <3>3, <3>4, Zenon
  <2>2. CASE heads = {}
    BY <2>2 DEF ParseHeader
  <2> QED
    BY <2>1, <2>2
<1> HIDE DEF m, c, heads
<1>7. ASSUME NEW i \in heads, BeginBody(data[i].r, c), clean' \in BOOLEAN
      PROVE  ReadInv' /\ stage' # "none"
  <2>1. PICK r : r = data[i].r
    OBVIOUS
  <2>2. i \in 1 .. m /\ data[i].t = "hdr"
    BY DEF heads
  <2>3. LeadsTo(plan, c, r, Ahead, asked, unsent)
    BY <1>1, <1>2, <1>3, <2>1, <2>2, HeaderRead, Zenon DEF m, c
  <2>4. r \in 0 .. asked
    BY <1>2, <2>3 DEF LeadsTo
  <2> QED
    BY <1>1, <1>4, <1>5, <1>7, <2>1, <2>3, <2>4, BeginBodyLemma DEF LeadsTo
<1>8. ASSUME BeginBody(0, c), clean' = FALSE PROVE ReadInv' /\ stage' # "none"
  <2>1. clean' \in BOOLEAN
    BY <1>8, Zenon
  <2>2. 0 \in 0 .. asked
    BY <1>2
  <2> QED
    BY <1>1, <1>4, <1>5, <1>8, <2>1, <2>2, BeginBodyLemma
<1>9. ASSUME stage' = "nothing", UNCHANGED <<data, body, head, clean>>
      PROVE  ReadInv' /\ stage' # "none"
  BY <1>1, <1>9, NothingLemma
<1> QED
  BY <1>6, <1>7, <1>8, <1>9

(* The stages in which a body is read. *)
BodyStages == {"length", "size", "chunk", "trailers"}

(* A body is on its way: of whom, and that its bytes are its own. *)
LEMMA BodyOf ==
  ASSUME ReadInv, stage \in BodyStages
  PROVE  /\ head \in 1 .. asked /\ plan[head] \in RequestShape /\ plan[head].size \in Nat
         /\ head \in 0 .. Len(plan) /\ ContentLength(head) \in 0 .. plan[head].size
         /\ plan[head].framing \in {"length", "bad_length"} \cup Chunked
         /\ stage = "length" <=> plan[head].framing \in {"length", "bad_length"}
<1>1. /\ head \in 1 .. asked
      /\ stage = "length" => plan[head].framing \in {"length", "bad_length"}
      /\ stage # "length" => plan[head].framing \in Chunked
  BY DEF ReadInv, BodyRead, InLength, InChunks, BodyStages
<1>2. plan \in Seq(RequestShape) /\ asked \in 0 .. Len(plan)
  BY Types DEF ReadInv
<1>3. plan[head] \in RequestShape /\ plan[head].size \in Nat
  BY <1>1, <1>2, Planned
<1>4. ContentLength(head) \in 0 .. plan[head].size
  BY <1>3 DEF ContentLength
<1>5. head \in 0 .. Len(plan)
  BY <1>1, <1>2
<1> QED
  BY <1>1, <1>3, <1>4, <1>5 DEF Chunked

(* A body reader comes to the end of the body. *)
LEMMA RequestLemma ==
  ASSUME ReadInv, stage # "none", stage' = "request", wire' = wire, Reading,
         head' = head, clean' = clean, NEW b \in Seq(Token), body' = b,
         Done(plan, b, head, asked), Unread'
  PROVE  data' \in Seq(Token) => ReadInv'
<1>1. plan' = plan /\ asked' = asked
  BY DEF Reading
<1>2. data' \in Seq(Token) => TypeOK'
  BY ReaderTypes DEF ReadInv, TypeOK
<1>3. BodyRead'
  BY <1>1 DEF BodyRead
<1> QED
  BY <1>2, <1>3 DEF ReadInv

(* A body with a length is complete. *)
LEMMA LengthReadLemma ==
  ASSUME ReadInv, LengthRead, Reading
  PROVE  ReadInv' /\ body' = SubSeq(body, 1, ContentLength(head))
<1>1. /\ stage = "length" /\ stage' = "request" /\ wire' = wire
      /\ data' = data /\ head' = head /\ clean' = clean /\ plan' = plan
      /\ body' = SubSeq(body, 1, ContentLength(head))
  BY DEF LengthRead, streamVars
<1>2. ~(Len(body) < ContentLength(head))
  BY DEF LengthRead, NeedsMore
<1>3. /\ plan \in Seq(RequestShape) /\ asked \in 0 .. Len(plan) /\ body \in Seq(Token)
      /\ Ahead \in Seq(Token) /\ data \in Seq(Token)
  BY Types DEF ReadInv
<1>4. ContentLength(head) \in Nat /\ ContentLength(head) <= plan[head].size
  BY <1>1, BodyOf DEF BodyStages
<1>5. ContentLength(head) <= Len(body)
  BY <1>2, <1>3, <1>4
<1>6. InLength(plan, data, body, head, Ahead, asked, unsent)
  BY <1>1 DEF ReadInv, BodyRead
<1>7. body' \in Seq(Token) /\ Done(plan, body', head, asked)
  BY <1>1, <1>3, <1>4, <1>5, <1>6, LengthDone
<1>8. Stream' = Stream /\ UNCHANGED <<plan, asked, unsent>>
  BY <1>1 DEF Stream, Ahead, Reading
<1>9. Unread'
  BY <1>8, UnreadAsBefore DEF ReadInv
<1>10. ReadInv'
  BY <1>1, <1>3, <1>7, <1>9, RequestLemma
<1> QED
  BY <1>1, <1>10

(* A size line, a chunk. *)
LEMMA SizeLineLemma ==
  ASSUME ReadInv, SizeLine, Reading
  PROVE  /\ ReadInv' /\ body' = body
         /\ \/ stage' \in {"chunk", "trailers"}
            \/ stage' = "request" /\ plan[head].framing = "bad_chunk"
<1> DEFINE d == data
           rd == SubSeq(data, 3, Len(data))
<1>1. /\ stage = "size" /\ wire' = wire /\ plan' = plan
      /\ body' = body /\ head' = head /\ clean' = clean
      /\ LineEnds(data) # {}
  BY DEF SizeLine, streamVars, NeedsMore
<1>2. /\ plan \in Seq(RequestShape) /\ asked \in 0 .. Len(plan) /\ body \in Seq(Token)
      /\ Ahead \in Seq(Token) /\ data \in Seq(Token)
  BY Types DEF ReadInv
<1>3. InChunks(plan, "size", data, body, head, Ahead, asked, unsent)
  BY <1>1 DEF ReadInv, BodyRead
<1>4. /\ Min(LineEnds(data)) = 2 /\ rd \in Seq(Token)
      /\ \E t \in {"size", "zero", "bad_size"} : \E k \in Nat :
           /\ SubSeq(data, 1, 1) = <<Tok(t, head, k)>>
           /\ t = "size" => InChunks(plan, "chunk", rd, body, head, Ahead, asked, unsent)
           /\ t = "zero" => InChunks(plan, "trailers", rd, body, head, Ahead, asked, unsent)
           /\ t = "bad_size" => plan[head].framing = "bad_chunk"
  <2>1. LeadsOn(plan, data, body, head, Ahead, asked, unsent)
    BY <1>1, <1>2, <1>3, SizeLineRead, Zenon
  <2> QED
    BY <2>1, Zenon DEF LeadsOn
<1>5. PICK t \in {"size", "zero", "bad_size"} :
        /\ \E k \in Nat : SubSeq(data, 1, 1) = <<Tok(t, head, k)>>
        /\ t = "size" => InChunks(plan, "chunk", rd, body, head, Ahead, asked, unsent)
        /\ t = "zero" => InChunks(plan, "trailers", rd, body, head, Ahead, asked, unsent)
        /\ t = "bad_size" => plan[head].framing = "bad_chunk"
  BY <1>4, Zenon
<1>6. PICK k \in Nat : SubSeq(data, 1, 1) = <<Tok(t, head, k)>>
  BY <1>5, Zenon
<1>7. PICK line : line = SubSeq(data, 1, 1)
  OBVIOUS
<1>8. Len(line) = 1 /\ line[1].t = t
  <2>1. line = <<Tok(t, head, k)>>
    BY <1>6, <1>7, Zenon
  <2> QED
    BY <2>1 DEF Tok
<1>9. /\ stage' = IF t = "size" THEN "chunk" ELSE IF t = "zero" THEN "trailers" ELSE "request"
      /\ data' = rd
  <2>1. 2 - 1 = 1 /\ 2 + 1 = 3
    OBVIOUS
  <2>2. \A x : x = 2 => SubSeq(data, 1, x - 1) = line /\ SubSeq(data, x + 1, Len(data)) = rd
    BY <1>7, <2>1
  <2>3. SubSeq(data, 1, Min(LineEnds(data)) - 1) = line
    BY <1>4, <2>2, Zenon
  <2>4. SubSeq(data, Min(LineEnds(data)) + 1, Len(data)) = rd
    BY <1>4, <2>2, Zenon
  <2> HIDE DEF rd
  <2>5. data' = rd
    BY <2>4, Zenon DEF SizeLine
  <2>6. stage' = IF t = "size" THEN "chunk" ELSE IF t = "zero" THEN "trailers" ELSE "request"
    BY <1>8, <2>3 DEF SizeLine
  <2> QED
    BY <2>5, <2>6
<1> HIDE DEF rd, d
<1>10. Ahead' = Ahead /\ UNCHANGED <<plan, asked, unsent>>
  BY <1>1 DEF Ahead, Reading
<1>11. Unread'
  <2>1. Stream' = rd \o Ahead
    BY <1>9, <1>10 DEF Stream
  <2>2. 2 \in 0 .. Len(data) /\ 2 + 1 = 3
    BY <1>1, <1>2, <1>4, LineEndPositions, Least
  <2>3. Stream' = SubSeq(data, 2 + 1, Len(data)) \o Ahead
    BY <2>1, <2>2 DEF rd
  <2> QED
    BY <1>1, <1>10, <2>2, <2>3, UnreadBehind DEF ReadInv
<1>12. TypeOK'
  <2>1. /\ head' \in 0 .. Len(plan) /\ clean' \in BOOLEAN /\ wire' \in Seq(Token)
        /\ data' \in Seq(Token) /\ body' \in Seq(Token)
        /\ stage' \in {"none", "header", "length", "size", "chunk", "trailers", "request",
                       "nothing"}
    BY <1>1, <1>4, <1>9 DEF ReadInv, TypeOK
  <2> QED
    BY <2>1, ReaderTypes DEF ReadInv
<1>13. BodyRead'
  <2>1. CASE t \in {"size", "zero"}
    <3>1. stage' \in {"chunk", "trailers"}
      BY <1>9, <2>1
    <3>2. InChunks(plan, stage', data', body, head, Ahead, asked, unsent)
      BY <1>5, <1>9, <2>1
    <3> QED
      BY <1>1, <1>10, <3>1, <3>2 DEF BodyRead
  <2>2. CASE t = "bad_size"
    <3>1. stage' = "request"
      BY <1>9, <2>2
    <3>2. Done(plan, body, head, asked)
      BY <1>2, <1>3, ChunksDone
    <3> QED
      BY <1>1, <1>10, <3>1, <3>2 DEF BodyRead
  <2> QED
    BY <2>1, <2>2
<1>14. \/ stage' \in {"chunk", "trailers"}
       \/ stage' = "request" /\ plan[head].framing = "bad_chunk"
  <2>1. t = "bad_size" => plan[head].framing = "bad_chunk"
    BY <1>5, Zenon
  <2> QED
    BY <1>9, <2>1
<1> QED
  <2>1. ReadInv'
    BY <1>11, <1>12, <1>13, Zenon DEF ReadInv
  <2> QED
    BY <1>1, <1>14, <2>1

(* A chunk is appended to the body. *)
LEMMA ChunkLemma ==
  ASSUME ReadInv, Chunk, Reading
  PROVE  ReadInv' /\ stage' = "size"
<1> DEFINE rd == SubSeq(data, 3, Len(data))
           nb == body \o SubSeq(data, 1, 1)
<1>1. /\ stage = "chunk" /\ wire' = wire /\ plan' = plan
      /\ head' = head /\ clean' = clean /\ stage' = "size"
      /\ body' = nb /\ data' = rd
  BY DEF Chunk, ConsumeChunk, streamVars
<1>2. /\ plan \in Seq(RequestShape) /\ asked \in 0 .. Len(plan) /\ body \in Seq(Token)
      /\ Ahead \in Seq(Token) /\ data \in Seq(Token)
  BY Types DEF ReadInv
<1>3. InChunks(plan, "chunk", data, body, head, Ahead, asked, unsent)
  BY <1>1 DEF ReadInv, BodyRead
<1>4. Len(data) >= 2
  BY <1>1, <1>2 DEF Chunk, ConsumeChunk, NeedsMore
<1>5. /\ rd \in Seq(Token) /\ nb \in Seq(Token)
      /\ InChunks(plan, "size", rd, nb, head, Ahead, asked, unsent)
  BY <1>2, <1>3, <1>4, ChunkRead, Zenon
<1> HIDE DEF rd, nb
<1>6. Ahead' = Ahead /\ UNCHANGED <<plan, asked, unsent>>
  BY <1>1 DEF Ahead, Reading
<1>7. Unread'
  <2>1. Stream' = rd \o Ahead
    BY <1>1, <1>6 DEF Stream
  <2>2. 2 \in 0 .. Len(data) /\ 2 + 1 = 3
    BY <1>2, <1>4
  <2>3. Stream' = SubSeq(data, 2 + 1, Len(data)) \o Ahead
    BY <2>1, <2>2 DEF rd
  <2> QED
    BY <1>1, <1>6, <2>2, <2>3, UnreadBehind DEF ReadInv
<1>8. TypeOK'
  <2>1. /\ head' \in 0 .. Len(plan) /\ clean' \in BOOLEAN /\ wire' \in Seq(Token)
        /\ data' \in Seq(Token) /\ body' \in Seq(Token)
        /\ stage' \in {"none", "header", "length", "size", "chunk", "trailers", "request",
                       "nothing"}
    BY <1>1, <1>5 DEF ReadInv, TypeOK
  <2> QED
    BY <2>1, ReaderTypes DEF ReadInv
<1>9. BodyRead'
  BY <1>1, <1>5, <1>6 DEF BodyRead
<1> QED
  BY <1>1, <1>7, <1>8, <1>9 DEF ReadInv

(* A blank line behind the last chunk. *)
LEMMA TrailersLemma ==
  ASSUME ReadInv, Trailers, Reading
  PROVE  ReadInv' /\ body' = body
<1>1. /\ stage = "trailers" /\ stage' = "request" /\ wire' = wire
      /\ data' = data /\ head' = head /\ clean' = clean /\ plan' = plan /\ body' = body
  BY DEF Trailers, streamVars
<1>2. /\ plan \in Seq(RequestShape) /\ asked \in 0 .. Len(plan) /\ body \in Seq(Token)
      /\ Ahead \in Seq(Token) /\ data \in Seq(Token)
  BY Types DEF ReadInv
<1>3. InChunks(plan, "trailers", data, body, head, Ahead, asked, unsent)
  BY <1>1 DEF ReadInv, BodyRead
<1>4. Done(plan, body, head, asked)
  BY <1>2, <1>3, ChunksDone
<1>5. Stream' = Stream /\ UNCHANGED <<plan, asked, unsent>>
  BY <1>1 DEF Stream, Ahead, Reading
<1>6. Unread'
  BY <1>5, UnreadAsBefore DEF ReadInv
<1>7. ReadInv'
  BY <1>1, <1>2, <1>4, <1>6, RequestLemma
<1> QED
  BY <1>1, <1>7

(* Nothing more arrives. *)
LEMMA RecvNothingLemma ==
  ASSUME ReadInv, RecvNothing, Reading
  PROVE  ReadInv' /\ body' = body
<1>1. /\ wire = <<>> /\ wire' = wire /\ NeedsMore
      /\ stage' = IF stage = "header" THEN "nothing" ELSE "request"
      /\ data' = data /\ head' = head /\ clean' = clean /\ plan' = plan /\ body' = body
  BY DEF RecvNothing, streamVars
<1>2. stage = "header" \/ stage \in BodyStages
  BY <1>1 DEF NeedsMore, BodyStages
<1>3. CASE stage = "header"
  BY <1>1, <1>3, NothingLemma
<1>4. CASE stage \in BodyStages
  <2>1. /\ plan \in Seq(RequestShape) /\ asked \in 0 .. Len(plan) /\ body \in Seq(Token)
        /\ Ahead \in Seq(Token) /\ data \in Seq(Token)
    BY Types DEF ReadInv
  <2>2. Done(plan, body, head, asked)
    <3>1. CASE stage = "length"
      <4>1. InLength(plan, data, body, head, Ahead, asked, unsent)
        BY <3>1 DEF ReadInv, BodyRead
      <4>2. Len(body) <= plan[head].size /\ Len(body) \in Nat
        <5>1. Len(body) < ContentLength(head) /\ Len(body) \in Nat
          BY <1>1, <2>1, <3>1 DEF NeedsMore
        <5>2. ContentLength(head) \in 0 .. plan[head].size /\ plan[head].size \in Nat
          BY <1>4, BodyOf
        <5> QED
          BY <5>1, <5>2
      <4>3. SubSeq(body, 1, Len(body)) = body
        BY <2>1, SubSeqFull
      <4>4. Len(body) <= Len(body)
        BY <4>2
      <4>5. Done(plan, SubSeq(body, 1, Len(body)), head, asked)
        BY <2>1, <4>1, <4>2, <4>4, LengthDone
      <4> QED
        BY <4>3, <4>5, Zenon
    <3>2. CASE stage # "length"
      <4>1. InChunks(plan, stage, data, body, head, Ahead, asked, unsent)
        BY <1>4, <3>2 DEF ReadInv, BodyRead, BodyStages
      <4> QED
        BY <2>1, <4>1, ChunksDone
    <3> QED
      BY <3>1, <3>2
  <2>3. stage \notin {"none", "header"}
    BY <1>4 DEF BodyStages
  <2>4. Stream' = Stream /\ UNCHANGED <<plan, asked, unsent>> /\ stage' = "request"
    BY <1>1, <2>3 DEF Stream, Ahead, Reading
  <2>5. Unread'
    BY <2>4, UnreadAsBefore DEF ReadInv
  <2>6. ReadInv'
    BY <1>1, <2>1, <2>2, <2>3, <2>4, <2>5, RequestLemma
  <2> QED
    BY <1>1, <2>6
<1> QED
  BY <1>2, <1>3, <1>4

(* The client sends a token, of the request that it has begun or of the next. *)
LEMMA SendTokens ==
  ASSUME NEW w \in Seq(Token), NEW e \in Seq(Token), e # <<>>
  PROVE  /\ Append(w, e[1]) \in Seq(Token) /\ Tail(e) \in Seq(Token)
         /\ Append(w, e[1]) \o Tail(e) = w \o e
<1>1. PICK x, y : x = Append(w, e[1]) /\ y = Tail(e)
  OBVIOUS
<1>2. PICK n, m : n = Len(w) /\ m = Len(e)
  OBVIOUS
<1>3. n \in Nat /\ m \in Nat \ {0} /\ e[1] \in Token
  BY <1>2
<1>4. /\ x \in Seq(Token) /\ Len(x) = n + 1
      /\ \A i \in 1 .. n : x[i] = w[i]
      /\ x[n + 1] = e[1]
  BY <1>1, <1>2, <1>3
<1>5. /\ y \in Seq(Token) /\ Len(y) = m - 1
      /\ \A j \in 1 .. m - 1 : y[j] = e[j + 1]
  BY <1>1, <1>2, <1>3
<1>6. PICK l, r : l = x \o y /\ r = w \o e
  OBVIOUS
<1>7. /\ l \in Seq(Token) /\ Len(l) = n + m
      /\ r \in Seq(Token) /\ Len(r) = n + m
  <2>1. l \in Seq(Token) /\ Len(l) = Len(x) + Len(y)
    BY <1>4, <1>5, <1>6, TwoParts, Zenon
  <2>2. r \in Seq(Token) /\ Len(r) = Len(w) + Len(e)
    BY <1>6, TwoParts, Zenon
  <2>3. Len(l) = (n + 1) + (m - 1) /\ Len(r) = n + m
    BY <1>2, <1>4, <1>5, <2>1, <2>2, Zenon
  <2>4. (n + 1) + (m - 1) = n + m
    BY <1>3
  <2> QED
    BY <2>1, <2>2, <2>3, <2>4, Zenon
<1>8. /\ \A i \in DOMAIN x : l[i] = x[i]
      /\ \A j \in DOMAIN y : l[Len(x) + j] = y[j]
      /\ \A i \in DOMAIN w : r[i] = w[i]
      /\ \A j \in DOMAIN e : r[Len(w) + j] = e[j]
  <2>1. x \in Seq(Token) /\ y \in Seq(Token)
    BY <1>4, <1>5
  <2>2. \A i \in DOMAIN x : (x \o y)[i] = x[i]
    BY <2>1, FirstPart
  <2>3. \A j \in DOMAIN y : (x \o y)[Len(x) + j] = y[j]
    BY <2>1, TwoParts, Zenon
  <2>4. \A i \in DOMAIN w : (w \o e)[i] = w[i]
    BY FirstPart
  <2>5. \A j \in DOMAIN e : (w \o e)[Len(w) + j] = e[j]
    BY TwoParts, Zenon
  <2> QED
    BY <1>6, <2>2, <2>3, <2>4, <2>5, Zenon
<1>9. /\ DOMAIN x = 1 .. n + 1 /\ DOMAIN y = 1 .. m - 1
      /\ DOMAIN w = 1 .. n /\ DOMAIN e = 1 .. m
  BY <1>2, <1>4, <1>5
<1>10. ASSUME NEW i \in 1 .. n + m PROVE l[i] = r[i]
  <2>1. CASE i \in 1 .. n
    <3>1. i \in 1 .. n + 1
      BY <1>3, <2>1
    <3>2. l[i] = x[i] /\ r[i] = w[i] /\ x[i] = w[i]
      BY <1>4, <1>8, <1>9, <2>1, <3>1, Zenon
    <3> QED
      BY <3>2, Zenon
  <2>2. CASE i = n + 1
    <3>1. n + 1 \in 1 .. n + 1 /\ 1 \in 1 .. m
      BY <1>3
    <3>2. l[n + 1] = x[n + 1] /\ r[n + 1] = e[1]
      BY <1>2, <1>8, <1>9, <3>1, Zenon
    <3> QED
      BY <1>4, <2>2, <3>2, Zenon
  <2>3. CASE i \notin 1 .. n /\ i # n + 1
    <3>1. PICK j \in 1 .. m - 1 : i = (n + 1) + j
      <4>1. i - (n + 1) \in 1 .. m - 1 /\ i = (n + 1) + (i - (n + 1))
        BY <1>3, <2>3
      <4> QED
        BY <4>1
    <3>2. j + 1 \in 1 .. m /\ (n + 1) + j = n + (j + 1)
      BY <1>3
    <3>3. l[(n + 1) + j] = y[j] /\ r[n + (j + 1)] = e[j + 1]
      BY <1>2, <1>4, <1>8, <1>9, <3>2, Zenon
    <3> QED
      BY <1>5, <3>1, <3>2, <3>3, Zenon
  <2> QED
    BY <2>1, <2>2, <2>3
<1>11. l = r
  BY <1>7, <1>10, SeqEqual
<1>12. Append(w, e[1]) \in Seq(Token) /\ Tail(e) \in Seq(Token)
  BY <1>1, <1>4, <1>5, Zenon
<1> QED
  BY <1>1, <1>6, <1>11, <1>12, Zenon

(* What a client sends is at the end of the stream. *)
LEMMA SendMoreLemma ==
  ASSUME ReadInv, Send, unsent # <<>>
  PROVE  ReadInv' /\ Ahead' = Ahead /\ Stream' = Stream /\ asked' = asked
<1>1. /\ wire' = Append(wire, unsent[1]) /\ unsent' = Tail(unsent) /\ asked' = asked
      /\ plan' = plan /\ pipelines' = pipelines /\ prompt' = prompt /\ eof' = eof
      /\ stage' = stage /\ data' = data /\ body' = body /\ head' = head /\ clean' = clean
      /\ at' = at /\ forwarded' = forwarded /\ replies' = replies
  BY DEF Send, readerVars, serverVars
<1>2. wire \in Seq(Token) /\ unsent \in Seq(Token)
  BY Types DEF ReadInv
<1>3. /\ wire' \in Seq(Token) /\ unsent' \in Seq(Token)
      /\ wire' \o unsent' = wire \o unsent
  BY <1>1, <1>2, SendTokens
<1>4. TypeOK'
  BY <1>1, <1>3, Zenon DEF TypeOK, ReadInv
<1>5. Ahead' = Ahead /\ Stream' = Stream
  <2>1. Ahead' = Ahead
    BY <1>3, Zenon DEF Ahead
  <2> QED
    BY <1>1, <2>1, Zenon DEF Stream
<1>6. Unread'
  <2>1. Contiguous(plan, Stream, asked, Tail(unsent))
    BY <1>2, UnreadLess DEF ReadInv, Unread
  <2> QED
    BY <1>1, <1>5, <2>1, Zenon DEF Unread, ReadInv
<1>7. BodyRead'
  <2>1. /\ InLength(plan, data, body, head, Ahead, asked, unsent) =>
             InLength(plan, data, body, head, Ahead, asked, Tail(unsent))
        /\ InChunks(plan, stage, data, body, head, Ahead, asked, unsent) =>
             InChunks(plan, stage, data, body, head, Ahead, asked, Tail(unsent))
    BY <1>2, SentMore
  <2> QED
    BY <1>1, <1>5, <2>1 DEF BodyRead, ReadInv
<1> QED
  BY <1>1, <1>4, <1>5, <1>6, <1>7 DEF ReadInv

(* The client begins its next request behind the last one. *)
LEMMA SendNextLemma ==
  ASSUME ReadInv, Send, unsent = <<>>
  PROVE  /\ ReadInv' /\ asked' = asked + 1 /\ asked + 1 \in DOMAIN plan
         /\ Stream' = Stream \o Encoded(plan[asked + 1], asked + 1)
<1> DEFINE e == Encoded(plan[asked + 1], asked + 1)
<1>1. /\ wire' = Append(wire, e[1]) /\ unsent' = Tail(e) /\ asked' = asked + 1
      /\ plan' = plan /\ pipelines' = pipelines /\ prompt' = prompt /\ eof' = eof
      /\ stage' = stage /\ data' = data /\ body' = body /\ head' = head /\ clean' = clean
      /\ at' = at /\ forwarded' = forwarded /\ replies' = replies
  BY DEF Send, readerVars, serverVars
<1>2. /\ plan \in Seq(RequestShape) /\ asked \in 0 .. Len(plan)
      /\ wire \in Seq(Token) /\ data \in Seq(Token) /\ body \in Seq(Token)
      /\ Ahead \in Seq(Token) /\ Stream \in Seq(Token)
  BY Types DEF ReadInv
<1>3. asked + 1 \in DOMAIN plan /\ asked + 1 \in 0 .. Len(plan) /\ asked \in Nat
  BY <1>2 DEF Send, CanSend, MayAsk
<1>4. e \in Seq(Token) /\ e # <<>>
  <2>1. plan[asked + 1] \in RequestShape /\ asked + 1 \in Nat
    BY <1>2, <1>3
  <2>2. e \in Seq(Token) /\ Len(e) > 0
    BY <2>1, RequestSent, Zenon DEF OfRequest
  <2> HIDE DEF e
  <2> QED
    BY <2>2
<1> HIDE DEF e
<1>5. /\ wire' \in Seq(Token) /\ unsent' \in Seq(Token)
      /\ wire' \o unsent' = wire \o e
  BY <1>1, <1>2, <1>4, SendTokens
<1>6. TypeOK'
  BY <1>1, <1>3, <1>5, Zenon DEF TypeOK, ReadInv
<1>7. Ahead = wire /\ Ahead' = Ahead \o e
  <2>1. wire \o <<>> = wire
    BY <1>2
  <2>2. Ahead = wire
    BY <2>1, Zenon DEF Ahead
  <2> QED
    BY <1>5, <2>2, Zenon DEF Ahead
<1>8. Stream' = Stream \o e
  <2>1. Associate(data, Ahead, e)
    BY <1>2, <1>4, TokensAssociate, Zenon
  <2>2. CASE stage = "none"
    BY <1>1, <1>7, <2>2, Zenon DEF Stream
  <2>3. CASE stage # "none"
    BY <1>1, <1>7, <2>1, <2>3, Zenon DEF Stream, Associate
  <2> QED
    BY <2>2, <2>3
<1>9. Unread'
  <2>1. Numbered(Stream, asked) /\ Contiguous(plan, Stream, asked, <<>>)
    BY Zenon DEF ReadInv, Unread
  <2>2. e = Encoded(plan[asked + 1], asked + 1)
    BY DEF e
  <2>3. Numbered(Stream \o e, asked + 1) /\ Contiguous(plan, Stream \o e, asked + 1, Tail(e))
    BY <1>2, <1>3, <2>1, <2>2, UnreadMore, Zenon
  <2> QED
    BY <1>1, <1>8, <2>3, Zenon DEF Unread
<1>10. BodyRead'
  <2>1. ASSUME NEW st \in {"size", "chunk", "trailers"}
        PROVE  /\ InLength(plan, data, body, head, Ahead, asked, <<>>) =>
                    InLength(plan, data, body, head, Ahead \o e, asked + 1, Tail(e))
               /\ InChunks(plan, st, data, body, head, Ahead, asked, <<>>) =>
                    InChunks(plan, st, data, body, head, Ahead \o e, asked + 1, Tail(e))
               /\ Done(plan, body, head, asked) => Done(plan, body, head, asked + 1)
    BY <1>2, <1>4, SentNext, Zenon
  <2>2. /\ stage = "length" => InLength(plan, data, body, head, Ahead, asked, <<>>)
        /\ stage \in {"size", "chunk", "trailers"} =>
             InChunks(plan, stage, data, body, head, Ahead, asked, <<>>)
        /\ stage = "request" => Done(plan, body, head, asked)
    BY Zenon DEF BodyRead, ReadInv
  <2>3. /\ stage = "length" =>
             InLength(plan, data, body, head, Ahead \o e, asked + 1, Tail(e))
        /\ stage \in {"size", "chunk", "trailers"} =>
             InChunks(plan, stage, data, body, head, Ahead \o e, asked + 1, Tail(e))
        /\ stage = "request" => Done(plan, body, head, asked + 1)
    BY <2>1, <2>2
  <2> QED
    BY <1>1, <1>7, <2>3, Zenon DEF BodyRead
<1> QED
  BY <1>1, <1>3, <1>6, <1>8, <1>9, <1>10, Zenon DEF ReadInv, e

(* The server's other steps leave the client's part as it is. *)
Serving == UNCHANGED <<clientVars, eof>>

(* The types after a step of the worker thread. *)
LEMMA ServingTypes ==
  ASSUME ReadInv, Serving, NEW w \in Seq(Token), wire' = w,
         \/ UNCHANGED readerVars
         \/ BeginReading
         \/ stage' = "none" /\ UNCHANGED <<data, body, head, clean>>,
         at' \in {"plain", "handshake", "mitm", "closed"},
         \/ forwarded' = forwarded
         \/ forwarded' = Append(forwarded, [r |-> head, clean |-> clean, body |-> body]),
         \/ replies' = replies
         \/ \E what \in {"established", "tls", "answer", "bad_request"} :
              replies' = Append(replies, what)
  PROVE  TypeOK'
<1>1. /\ plan' = plan /\ pipelines' = pipelines /\ prompt' = prompt /\ asked' = asked
      /\ unsent' = unsent /\ eof' = eof
  BY DEF Serving, clientVars
<1>2. /\ stage' \in {"none", "header", "length", "size", "chunk", "trailers", "request",
                     "nothing"}
      /\ data' \in Seq(Token) /\ body' \in Seq(Token) /\ head' \in 0 .. Len(plan)
  <2>1. /\ data \in Seq(Token) /\ body \in Seq(Token) /\ head \in 0 .. Len(plan)
        /\ 0 \in 0 .. Len(plan) /\ <<>> \in Seq(Token)
        /\ stage \in {"none", "header", "length", "size", "chunk", "trailers", "request",
                      "nothing"}
    BY Types DEF ReadInv, TypeOK
  <2>2. CASE UNCHANGED readerVars
    BY <2>1, <2>2 DEF readerVars
  <2>3. CASE BeginReading
    BY <2>1, <2>3 DEF BeginReading
  <2>4. CASE stage' = "none" /\ UNCHANGED <<data, body, head, clean>>
    BY <2>1, <2>4
  <2> QED
    BY <2>2, <2>3, <2>4, Zenon
<1>3. clean' \in BOOLEAN
  <2>1. clean' = clean \/ clean' = TRUE
    BY DEF readerVars, BeginReading
  <2> QED
    BY <2>1, Zenon DEF ReadInv, TypeOK
<1>4. forwarded' \in Seq([r : 0 .. Len(plan), clean : BOOLEAN, body : Seq(Token)])
  <2>1. PICK F : F = [r : 0 .. Len(plan), clean : BOOLEAN, body : Seq(Token)]
    OBVIOUS
  <2>2. PICK f : f = [r |-> head, clean |-> clean, body |-> body]
    OBVIOUS
  <2>3. head \in 0 .. Len(plan) /\ clean \in BOOLEAN /\ body \in Seq(Token)
    BY Zenon DEF ReadInv, TypeOK
  <2>4. f \in F
    BY <2>1, <2>2, <2>3
  <2>5. forwarded \in Seq(F)
    BY <2>1, Zenon DEF ReadInv, TypeOK
  <2>6. Append(forwarded, f) \in Seq(F)
    BY <2>4, <2>5
  <2>7. forwarded' \in Seq(F)
    BY <2>2, <2>5, <2>6, Zenon
  <2> QED
    BY <2>1, <2>7, Zenon
<1>5. replies' \in Seq({"established", "tls", "answer", "bad_request"})
  <2>1. PICK R : R = {"established", "tls", "answer", "bad_request"}
    OBVIOUS
  <2>2. replies \in Seq(R)
    BY <2>1, Zenon DEF ReadInv, TypeOK
  <2>3. \A x \in R : Append(replies, x) \in Seq(R)
    BY <2>2
  <2>4. replies' \in Seq(R)
    BY <2>1, <2>2, <2>3, Zenon
  <2> QED
    BY <2>1, <2>4, Zenon
<1> QED
  BY <1>1, <1>2, <1>3, <1>4, <1>5, Zenon DEF ReadInv, TypeOK

(* The reader stays where it is. *)
LEMMA StaysLemma ==
  ASSUME ReadInv, Serving, wire' = wire, UNCHANGED readerVars, TypeOK'
  PROVE  ReadInv' /\ Ahead' = Ahead
<1>1. /\ plan' = plan /\ asked' = asked /\ unsent' = unsent
      /\ stage' = stage /\ data' = data /\ body' = body /\ head' = head /\ Ahead' = Ahead
  BY DEF Serving, clientVars, readerVars, Ahead
<1>2. Stream' = Stream
  BY <1>1 DEF Stream
<1>3. Unread'
  BY <1>1, <1>2, UnreadAsBefore DEF ReadInv
<1>4. BodyRead'
  BY <1>1, Zenon DEF BodyRead, ReadInv
<1> QED
  BY <1>1, <1>3, <1>4 DEF ReadInv

(* What the reader had received is dropped. *)
LEMMA DroppedLemma ==
  ASSUME ReadInv, Serving, wire' = wire, BeginReading \/ stage' = "none", TypeOK'
  PROVE  ReadInv' /\ Ahead' = Ahead /\ Stream' = Ahead
<1>1. plan' = plan /\ asked' = asked /\ unsent' = unsent /\ Ahead' = Ahead
  BY DEF Serving, clientVars, Ahead
<1>2. Stream' = Ahead
  <2>1. CASE stage' = "none"
    BY <1>1, <2>1 DEF Stream
  <2>2. CASE BeginReading
    <3>1. data' = <<>> /\ stage' = "header" /\ <<>> \o Ahead = Ahead
      BY <2>2, Types DEF BeginReading, ReadInv
    <3> QED
      BY <1>1, <3>1 DEF Stream
  <2> QED
    BY <2>1, <2>2
<1>3. Unread'
  BY <1>1, <1>2, UnreadAhead DEF ReadInv
<1>4. BodyRead'
  BY DEF BodyRead, BeginReading
<1> QED
  BY <1>1, <1>2, <1>3, <1>4 DEF ReadInv

(* The opening of the handshake is consumed. *)
LEMMA HandshakeLemma ==
  ASSUME ReadInv, Stages, Handshake
  PROVE  ReadInv' /\ Stream' = Tail(wire) \o unsent
<1>1. /\ at = "handshake" /\ wire # <<>> /\ wire' = Tail(wire) /\ at' = "mitm"
      /\ BeginReading /\ replies' = Append(replies, "tls") /\ forwarded' = forwarded /\ Serving
  BY DEF Handshake, Reply, Serving
<1>2. wire \in Seq(Token) /\ unsent \in Seq(Token)
  BY Types DEF ReadInv
<1>3. Tail(wire) \in Seq(Token) /\ Tail(wire) = SubSeq(wire, 1 + 1, Len(wire))
      /\ 1 \in 0 .. Len(wire)
  BY <1>1, <1>2
<1>4. TypeOK'
  BY <1>1, <1>3, ServingTypes
<1>5. PICK x, y : x = SubSeq(wire, 1, 1) /\ y = Tail(wire)
  OBVIOUS
<1>6. x \in Seq(Token) /\ y \in Seq(Token) /\ wire = x \o y
  <2>1. /\ SubSeq(wire, 1, 1) \in Seq(Token) /\ SubSeq(wire, 1 + 1, Len(wire)) \in Seq(Token)
        /\ wire = SubSeq(wire, 1, 1) \o SubSeq(wire, 1 + 1, Len(wire))
    BY <1>2, <1>3, Cut, Zenon
  <2> QED
    BY <1>3, <1>5, <2>1, Zenon
<1>7. Stream = x \o (y \o unsent) /\ y \o unsent \in Seq(Token)
  <2>1. Associate(x, y, unsent)
    BY <1>2, <1>6, TokensAssociate, Zenon
  <2>2. y \o unsent \in Seq(Token)
    BY <1>2, <1>6, TwoParts, Zenon
  <2>3. stage = "none"
    BY <1>1 DEF Stages
  <2> QED
    BY <1>6, <2>1, <2>2, <2>3, Zenon DEF Associate, Stream, Ahead
<1>8. Stream' = y \o unsent /\ UNCHANGED <<plan, asked, unsent>>
  <2>1. <<>> \o (y \o unsent) = y \o unsent
    BY <1>7
  <2>2. Ahead' = y \o unsent /\ UNCHANGED <<plan, asked, unsent>>
    BY <1>1, <1>5 DEF Ahead, Serving, clientVars
  <2>3. Stream' = data' \o Ahead' /\ data' = <<>>
    BY <1>1 DEF Stream, BeginReading
  <2> QED
    BY <2>1, <2>2, <2>3, Zenon
<1>9. Unread'
  BY <1>6, <1>7, <1>8, UnreadLater DEF ReadInv
<1>10. BodyRead'
  BY <1>1 DEF BodyRead, BeginReading
<1> QED
  BY <1>4, <1>5, <1>8, <1>9, <1>10 DEF ReadInv

---------------------------------------------------------------------------
(***************************************************************************)
(* The steps of the worker thread.                                         *)
(***************************************************************************)

(* It closes the connection. *)
Closes == at' = "closed" /\ wire' = wire /\ Serving /\ UNCHANGED readerVars

(* It forwards what it read. *)
ForwardsIt ==
  /\ forwarded' = Append(forwarded, [r |-> head, clean |-> clean, body |-> body])
  /\ replies' = replies \/ replies' = Append(replies, "answer")

(* Three ways to close the connection without forwarding anything. *)
LEMMA ClosingSteps ==
  ASSUME GivesUp \/ BadRequest \/ HandshakeFails
  PROVE  /\ Closes
         /\ forwarded' = forwarded
         /\ replies' = replies \/ replies' = Append(replies, "bad_request")
<1>1. CASE GivesUp
  BY <1>1 DEF GivesUp, Goes, Stops, Closes, Serving, streamVars, clientVars
<1>2. CASE BadRequest
  BY <1>2 DEF BadRequest, Goes, Stops, Closes, Serving, streamVars, clientVars, Reply
<1>3. CASE HandshakeFails
  BY <1>3 DEF HandshakeFails, Stops, Closes, Serving, streamVars, clientVars
<1> QED
  BY <1>1, <1>2, <1>3

(* _handle_connect() answers and waits for the handshake, or closes. *)
LEMMA ConnectSteps ==
  ASSUME HandleConnect
  PROVE  /\ at = "plain" /\ stage = "request" /\ plan[head].method = "CONNECT"
         /\ wire' = wire /\ Serving /\ forwarded' = forwarded
         /\ \/ Closes /\ replies' = replies
            \/ /\ at' = "handshake" /\ stage' = "none" /\ replies' = Append(replies, "established")
               /\ UNCHANGED <<data, body, head, clean>>
BY DEF HandleConnect, Goes, Stops, Closes, Serving, streamVars, clientVars, Reply

(* A plain request is forwarded, and the connection closed. *)
LEMMA HttpSteps ==
  ASSUME HandleHttp
  PROVE  /\ at = "plain" /\ stage = "request" /\ plan[head].method # "CONNECT"
         /\ Closes /\ ForwardsIt
<1>1. /\ at = "plain" /\ stage = "request" /\ plan[head].method # "CONNECT" /\ Closes
  BY DEF HandleHttp, IsHttp, Goes, Stops, Closes, Serving, streamVars, clientVars
<1>2. ForwardsBody(body)
  BY DEF HandleHttp, Forwards
<1>3. ForwardsIt
  BY <1>2 DEF ForwardsBody, Hands, ForwardsIt, Reply
<1> QED
  BY <1>1, <1>3

(* forward() raises: a request was forwarded, and nothing is answered. *)
LEMMA RaisesSteps ==
  ASSUME ForwardRaises
  PROVE  /\ \/ at = "plain" /\ plan[head].method # "CONNECT"
            \/ at = "mitm"
         /\ stage = "request" /\ Closes /\ ForwardsIt
BY DEF ForwardRaises, IsHttp, Hands, Goes, Stops, Closes, Serving, ForwardsIt, streamVars,
       clientVars

(* A decrypted request is forwarded, and the next one read, or not. *)
LEMMA MitmSteps ==
  ASSUME MitmRequest
  PROVE  /\ at = "mitm" /\ stage = "request" /\ ForwardsIt
         /\ \/ Closes
            \/ at' = "mitm" /\ wire' = wire /\ Serving /\ BeginReading
<1>1. ServesWhile(Len(forwarded) + 1 < MaxRequests)
  BY DEF MitmRequest
<1>2. at = "mitm" /\ stage = "request" /\ wire' = wire /\ Serving
  BY <1>1 DEF ServesWhile, Goes, Serving, streamVars, clientVars
<1>3. Stops \/ (BeginReading /\ at' = at)
  <2>1. CASE Len(forwarded) + 1 < MaxRequests /\ ~(head # 0 /\ plan[head].close)
    <3>1. BeginReading /\ at' = at
      BY <1>1, <2>1 DEF ServesWhile
    <3> QED
      BY <3>1
  <2>2. CASE ~(Len(forwarded) + 1 < MaxRequests /\ ~(head # 0 /\ plan[head].close))
    <3>1. Stops
      BY <1>1, <2>2 DEF ServesWhile
    <3> QED
      BY <3>1
  <2> QED
    BY <2>1, <2>2
<1>4. ForwardsBody(body)
  BY <1>1 DEF ServesWhile, Forwards
<1>5. ForwardsIt
  BY <1>4 DEF ForwardsBody, Hands, ForwardsIt, Reply
<1>6. Stops => Closes
  BY <1>2 DEF Closes, Stops
<1>7. at' = at => at' = "mitm"
  BY <1>2
<1> QED
  BY <1>2, <1>3, <1>5, <1>6, <1>7, Zenon

(* What the reader does. *)
LEMMA ReadSteps ==
  ASSUME Read
  PROVE  /\ at \in {"plain", "mitm"} /\ Reading
         /\ \/ Recv \/ ParseHeader \/ LengthRead \/ SizeLine \/ Chunk \/ Trailers
            \/ RecvNothing /\ (eof \/ TimesOut)
<1>1. /\ at \in {"plain", "mitm"}
      /\ UNCHANGED <<pipelines, prompt, asked, unsent, serverVars>>
      /\ \/ Recv \/ ParseHeader \/ LengthRead \/ SizeLine \/ Chunk \/ Trailers
         \/ RecvNothing /\ (eof \/ TimesOut)
  BY DEF Read, Parse
<1>2. plan' = plan /\ eof' = eof
  BY <1>1 DEF Recv, ParseHeader, LengthRead, SizeLine, Chunk, ConsumeChunk, Trailers,
              RecvNothing, streamVars
<1> QED
  BY <1>1, <1>2 DEF Reading

(* The reader knows whose bytes it takes, whatever the client does. *)
LEMMA ReadInvRead ==
  ASSUME ReadInv, Read
  PROVE  ReadInv' /\ stage # "none" /\ stage' # "none"
<1>1. Reading
  BY ReadSteps
<1>2. CASE Recv
  BY <1>1, <1>2, RecvLemma DEF Recv, NeedsMore
<1>3. CASE ParseHeader
  BY <1>1, <1>3, ParseHeaderLemma DEF ParseHeader
<1>4. CASE LengthRead
  BY <1>1, <1>4, LengthReadLemma DEF LengthRead
<1>5. CASE SizeLine
  BY <1>1, <1>5, SizeLineLemma DEF SizeLine
<1>6. CASE Chunk
  BY <1>1, <1>6, ChunkLemma DEF Chunk, ConsumeChunk
<1>7. CASE Trailers
  BY <1>1, <1>7, TrailersLemma DEF Trailers
<1>8. CASE RecvNothing
  BY <1>1, <1>8, RecvNothingLemma DEF RecvNothing, NeedsMore
<1> QED
  BY <1>2, <1>3, <1>4, <1>5, <1>6, <1>7, <1>8, ReadSteps

(* Closing the connection leaves the reader where it is. *)
LEMMA ReadInvCloses ==
  ASSUME ReadInv, Closes,
         forwarded' = forwarded \/ ForwardsIt,
         \/ replies' = replies
         \/ \E what \in {"established", "tls", "answer", "bad_request"} :
              replies' = Append(replies, what)
  PROVE  ReadInv'
<1>1. Serving /\ wire' = wire /\ UNCHANGED readerVars /\ at' = "closed"
  BY DEF Closes
<1>2. wire \in Seq(Token)
  BY Types DEF ReadInv
<1>3. TypeOK'
  BY <1>1, <1>2, ServingTypes DEF ForwardsIt
<1> QED
  BY <1>1, <1>3, StaysLemma

(* The worker thread knows whose bytes it has, in each of its steps. *)
LEMMA ReadInvServe ==
  ASSUME ReadInv, Stages, Serve
  PROVE  ReadInv'
<1>1. CASE Read
  BY <1>1, ReadInvRead
<1>2. CASE GivesUp \/ BadRequest \/ HandshakeFails
  BY <1>2, ClosingSteps, ReadInvCloses
<1>3. CASE HandleConnect
  <2>1. CASE Closes /\ replies' = replies
    BY <1>3, <2>1, ConnectSteps, ReadInvCloses
  <2>2. CASE /\ at' = "handshake" /\ stage' = "none"
             /\ replies' = Append(replies, "established")
             /\ UNCHANGED <<data, body, head, clean>>
    <3>1. wire \in Seq(Token) /\ wire' = wire /\ Serving /\ forwarded' = forwarded
      BY <1>3, Types, ConnectSteps DEF ReadInv
    <3>2. TypeOK'
      BY <2>2, <3>1, ServingTypes
    <3> QED
      BY <2>2, <3>1, <3>2, DroppedLemma
  <2> QED
    BY <1>3, <2>1, <2>2, ConnectSteps
<1>4. CASE Handshake
  BY <1>4, HandshakeLemma
<1>5. CASE HandleHttp
  BY <1>5, HttpSteps, ReadInvCloses DEF ForwardsIt
<1>7. CASE ForwardRaises
  BY <1>7, RaisesSteps, ReadInvCloses DEF ForwardsIt
<1>6. CASE MitmRequest
  <2>1. CASE Closes
    BY <1>6, <2>1, MitmSteps, ReadInvCloses DEF ForwardsIt
  <2>2. CASE at' = "mitm" /\ wire' = wire /\ Serving /\ BeginReading
    <3>1. wire \in Seq(Token)
      BY Types DEF ReadInv
    <3>2. TypeOK'
      BY <1>6, <2>2, <3>1, MitmSteps, ServingTypes DEF ForwardsIt
    <3> QED
      BY <2>2, <3>2, DroppedLemma
  <2> QED
    BY <1>6, <2>1, <2>2, MitmSteps
<1> QED
  BY <1>1, <1>2, <1>3, <1>4, <1>5, <1>6, <1>7 DEF Serve

(* The worker thread never answers more than it was asked. *)
LEMMA StagesServe ==
  ASSUME ReadInv, Stages, Unanswered, Serve
  PROVE  Stages' /\ Unanswered'
<1>0. /\ replies \in Seq({"established", "tls", "answer", "bad_request"})
      /\ forwarded \in Seq([r : 0 .. Len(plan), clean : BOOLEAN, body : Seq(Token)])
      /\ Len(forwarded) \in Nat /\ Len(replies) \in Nat
  BY DEF ReadInv, TypeOK
<1>1. CASE Read
  <2>1. /\ plan' = plan /\ at' = at /\ forwarded' = forwarded /\ replies' = replies
        /\ at \in {"plain", "mitm"} /\ stage' # "none"
    BY <1>1, ReadSteps, ReadInvRead DEF Reading, serverVars
  <2> QED
    BY <2>1 DEF Stages, Unanswered, Awaited
<1>2. CASE Closes
  BY <1>2 DEF Stages, Unanswered, Closes
<1>3. CASE GivesUp \/ BadRequest \/ HandshakeFails
  BY <1>2, <1>3, ClosingSteps
<1>4. CASE HandleConnect
  <2>1. CASE /\ at' = "handshake" /\ stage' = "none"
             /\ replies' = Append(replies, "established")
             /\ UNCHANGED <<data, body, head, clean>>
    <3>1. at = "plain" /\ plan' = plan /\ forwarded' = forwarded
      BY <1>4, ConnectSteps DEF Serving, clientVars
    <3>2. Len(replies) < 1 /\ Len(replies') = Len(replies) + 1
      BY <1>0, <2>1, <3>1 DEF Unanswered, Awaited
    <3>3. Stages'
      BY <2>1, <3>1 DEF Stages
    <3>4. Len(replies') < 2
      BY <1>0, <3>2
    <3>5. Unanswered'
      BY <2>1, <3>4 DEF Unanswered, Awaited
    <3> QED
      BY <3>3, <3>5
  <2> QED
    BY <1>2, <1>4, <2>1, ConnectSteps
<1>5. CASE Handshake
  <2>1. /\ at = "handshake" /\ at' = "mitm" /\ stage' = "header" /\ plan' = plan
        /\ forwarded' = forwarded /\ replies' = Append(replies, "tls")
    BY <1>5 DEF Handshake, BeginReading, Reply, clientVars
  <2>2. forwarded = <<>> /\ Len(replies) < 2
    BY <2>1 DEF Stages, Unanswered, Awaited
  <2>3. Len(replies') = Len(replies) + 1
    BY <1>0, <2>1
  <2> QED
    BY <1>0, <2>1, <2>2, <2>3 DEF Stages, Unanswered, Awaited
<1>6. CASE HandleHttp \/ ForwardRaises
  BY <1>2, <1>6, HttpSteps, RaisesSteps
<1>7. CASE MitmRequest
  <2>1. CASE at' = "mitm" /\ wire' = wire /\ Serving /\ BeginReading
    <3>1. at = "mitm" /\ plan' = plan /\ ForwardsIt /\ stage' = "header"
      BY <1>7, <2>1, MitmSteps DEF Serving, clientVars, BeginReading
    <3>2. Len(replies) < Len(forwarded) + 3
      BY <3>1 DEF Unanswered, Awaited
    <3>3. PICK f : forwarded' = Append(forwarded, f)
      BY <3>1 DEF ForwardsIt
    <3>4. Len(forwarded') = Len(forwarded) + 1
      BY <1>0, <3>3
    <3>5. Len(replies') <= Len(replies) + 1 /\ Len(replies') \in Nat
      BY <1>0, <3>1 DEF ForwardsIt
    <3>6. Len(replies') < Len(forwarded') + 3
      BY <1>0, <3>2, <3>4, <3>5
    <3> QED
      BY <2>1, <3>1, <3>6 DEF Stages, Unanswered, Awaited
  <2> QED
    BY <1>2, <1>7, <2>1, MitmSteps
<1> QED
  BY <1>1, <1>3, <1>4, <1>5, <1>6, <1>7 DEF Serve

(* The client sends at the end of the stream, or closes it. *)
LEMMA ClientSteps ==
  ASSUME ReadInv, Stages, Unanswered, Send \/ Close \/ UNCHANGED vars
  PROVE  ReadInv' /\ Stages' /\ Unanswered'
<1>1. /\ plan' = plan /\ at' = at /\ forwarded' = forwarded /\ replies' = replies
      /\ stage' = stage
  BY DEF Send, Close, vars, clientVars, readerVars, serverVars
<1>2. Stages' /\ Unanswered'
  BY <1>1 DEF Stages, Unanswered, Awaited
<1>3. CASE Send
  BY <1>2, <1>3, SendMoreLemma, SendNextLemma
<1>4. CASE Close \/ UNCHANGED vars
  <2>1. /\ plan' = plan /\ wire' = wire /\ asked' = asked /\ unsent' = unsent
        /\ pipelines' = pipelines /\ prompt' = prompt
        /\ data' = data /\ body' = body /\ head' = head /\ clean' = clean
        /\ eof' = TRUE \/ eof' = eof
    BY <1>4 DEF Close, vars, clientVars, streamVars, readerVars
  <2>2. TypeOK'
    <3>1. eof' \in BOOLEAN
      BY <2>1, Zenon DEF ReadInv, TypeOK
    <3> QED
      BY <1>1, <2>1, <3>1, Zenon DEF ReadInv, TypeOK
  <2>3. Ahead' = Ahead /\ Stream' = Stream
    BY <1>1, <2>1 DEF Ahead, Stream
  <2>4. Unread'
    BY <2>1, <2>3, UnreadAsBefore DEF ReadInv
  <2>5. BodyRead'
    BY <1>1, <2>1, <2>3, Zenon DEF BodyRead, ReadInv
  <2> QED
    BY <1>2, <2>2, <2>4, <2>5 DEF ReadInv
<1> QED
  BY <1>3, <1>4

(* The first part of the inductive invariant. *)
LEMMA ReaderFollowed ==
  Spec => [](ReadInv /\ Stages /\ Unanswered)
<1>1. Init => ReadInv /\ Stages /\ Unanswered
  <2> SUFFICES ASSUME Init PROVE ReadInv /\ Stages /\ Unanswered
    OBVIOUS
  <2>1. TypeOK
    <3>1. plan \in Seq(RequestShape)
      BY PlansAssumption DEF Init
    <3>2. /\ 0 \in 0 .. Len(plan)
          /\ <<>> \in Seq(Token)
          /\ <<>> \in Seq([r : 0 .. Len(plan), clean : BOOLEAN, body : Seq(Token)])
          /\ <<>> \in Seq({"established", "tls", "answer", "bad_request"})
      BY <3>1
    <3>3. /\ plan \in Plans /\ pipelines \in BOOLEAN /\ prompt \in BOOLEAN
          /\ eof \in BOOLEAN /\ clean \in BOOLEAN
      BY Zenon DEF Init
    <3>4. /\ stage = "header" /\ at = "plain" /\ wire = <<>> /\ data = <<>> /\ body = <<>>
          /\ head = 0 /\ asked = 0 /\ unsent = <<>> /\ forwarded = <<>> /\ replies = <<>>
      BY DEF Init
    <3> QED
      BY <3>2, <3>3, <3>4, Zenon DEF TypeOK
  <2>2. Stream = <<>>
    BY DEF Init, Stream, Ahead
  <2>3. Unread
    BY <2>2 DEF Unread, Numbered, Contiguous
  <2>4. BodyRead /\ Stages /\ Unanswered
    BY DEF Init, BodyRead, Stages, Unanswered, Awaited
  <2> QED
    BY <2>1, <2>3, <2>4 DEF ReadInv
<1>2. (ReadInv /\ Stages /\ Unanswered) /\ [Next]_vars => (ReadInv /\ Stages /\ Unanswered)'
  BY ReadInvServe, StagesServe, ClientSteps DEF Next
<1> QED
  BY <1>1, <1>2, PTL DEF Spec

(* Every variable keeps its type. *)
THEOREM TypeCorrect == Spec => []TypeOK
<1>1. ReadInv => TypeOK
  BY DEF ReadInv
<1> QED
  BY <1>1, ReaderFollowed, PTL

(* Of a request that is complete nothing is missing, but for that line. *)
LEMMA MissingStep ==
  ASSUME ReadInv, RecvNothing, stage # "header", Complete(head)
  PROVE  stage = "trailers" /\ plan[head].framing = "chunked"
<1>1. NeedsMore /\ wire = <<>>
  BY DEF RecvNothing
<1>2. stage \in BodyStages
  BY <1>1 DEF NeedsMore, BodyStages
<1>3. /\ plan \in Seq(RequestShape) /\ asked \in 0 .. Len(plan) /\ unsent \in Seq(Token)
      /\ data \in Seq(Token) /\ body \in Seq(Token)
  BY Types DEF ReadInv
<1>4. Ahead = unsent
  <2>1. <<>> \o unsent = unsent
    BY <1>3
  <2> QED
    BY <1>1, <2>1, Zenon DEF Ahead
<1>5. asked = head => unsent = <<>>
  <2>1. asked \in Nat
    BY <1>3
  <2> QED
    BY <2>1 DEF Complete
<1>6. /\ InLength(plan, data, body, head, unsent, asked, unsent) => plan[head].size <= Len(body)
      /\ InChunks(plan, "size", data, body, head, unsent, asked, unsent) => LineEnds(data) # {}
      /\ InChunks(plan, "chunk", data, body, head, unsent, asked, unsent) => Len(data) >= 2
      /\ InChunks(plan, "trailers", data, body, head, unsent, asked, unsent) =>
           BlankLines(data) # {} \/ plan[head].framing = "chunked"
  BY <1>3, <1>5, NothingMissing
<1>7. /\ stage = "length" => InLength(plan, data, body, head, unsent, asked, unsent)
      /\ stage \in {"size", "chunk", "trailers"} =>
           InChunks(plan, stage, data, body, head, unsent, asked, unsent)
  BY <1>4, Zenon DEF ReadInv, BodyRead
<1>8. stage # "length"
  <2>1. ContentLength(head) \in 0 .. plan[head].size /\ plan[head].size \in Nat
    BY <1>2, BodyOf
  <2>2. stage = "length" => Len(body) < ContentLength(head)
    BY <1>1 DEF NeedsMore
  <2>3. Len(body) \in Nat
    BY <1>3
  <2> QED
    BY <1>6, <1>7, <2>1, <2>2, <2>3
<1>9. stage # "size"
  <2>1. stage = "size" => LineEnds(data) = {}
    BY <1>1 DEF NeedsMore
  <2> QED
    BY <1>6, <1>7, <2>1
<1>10. stage # "chunk"
  <2>1. stage = "chunk" => Len(data) < 2
    BY <1>1 DEF NeedsMore
  <2>2. Len(data) \in Nat
    BY <1>3
  <2> QED
    BY <1>6, <1>7, <2>1, <2>2
<1>11. stage = "trailers" => BlankLines(data) = {}
  BY <1>1 DEF NeedsMore
<1> QED
  BY <1>2, <1>6, <1>7, <1>8, <1>9, <1>10, <1>11 DEF BodyStages

(***************************************************************************)
(* The reader of a body sits out its timeout for a request that is         *)
(* complete only after a last chunk without trailers (http_parser.py).     *)
(***************************************************************************)
THEOREM NoOtherWait == Spec => WaitsForTheMissing
<1>1. ReadInv =>
        (RecvNothing /\ stage # "header" =>
           \/ ~Complete(head)
           \/ stage = "trailers" /\ plan[head].framing = "chunked")
  BY MissingStep
<1> QED
  BY <1>1, ReaderFollowed, PTL DEF WaitsForTheMissing

---------------------------------------------------------------------------
(***************************************************************************)
(* A client that waits for its answers.                                    *)
(***************************************************************************)

AllClean == \A i \in DOMAIN forwarded : forwarded[i].clean

(* A client with which nothing goes wrong. *)
OnTime == WellFormed /\ Waits /\ prompt /\ ~eof

(* No bytes of an earlier request can be in the way of the next. *)
Tidy == at = "plain" \/ OnTime

(* As long as no rest of a request was taken for one, the reader is at the *)
(* request that the client waits for.                                      *)
Pacing == Waits /\ AllClean /\ at # "closed"

AtNext == stage \in {"none", "header"} => RestBefore(plan, Stream, asked, Awaited, Tidy)

AtAwaited ==
  stage \in BodyStages \cup {"request"} /\ clean =>
    /\ head = Awaited
    /\ asked = Awaited
    /\ Rest(Ahead)
    /\ stage = "request" => IsPrefix(body, Pieces(plan[head], head))

Paced ==
  Pacing => /\ AtNext
            /\ AtAwaited
            /\ at = "plain" => clean
            /\ at \in {"handshake", "mitm"} => plan[1].method = "CONNECT"

(* And it has all of it, when nothing goes wrong. *)
ReadWhole ==
  stage = "request" => body = Pieces(plan[head], head) /\ Ahead = <<>>

WellRead == OnTime => AllClean /\ (at # "closed" => clean /\ ReadWhole)

InvRead == ReadInv /\ Stages /\ Unanswered

(* What has happened to a client does not come undone. *)
LEMMA OnTimeBefore ==
  ASSUME UNCHANGED <<plan, pipelines, prompt>>, eof => eof'
  PROVE  (OnTime' => OnTime) /\ Waits' = Waits
<1>1. WellFormed' = WellFormed
  BY DEF WellFormed
<1>2. Waits' = Waits
  BY DEF Waits
<1> QED
  BY <1>1, <1>2 DEF OnTime

(* What is clean with one more request was clean without it. *)
LEMMA CleanBefore ==
  ASSUME TypeOK, AllClean', forwarded' = forwarded \/ ForwardsIt
  PROVE  AllClean /\ (ForwardsIt => clean)
<1>1. CASE forwarded' = forwarded /\ ~ForwardsIt
  BY <1>1 DEF AllClean
<1>2. CASE ForwardsIt
  <2>1. PICK F : forwarded \in Seq(F)
    BY DEF TypeOK
  <2>2. PICK f : f = [r |-> head, clean |-> clean, body |-> body]
    OBVIOUS
  <2>3. forwarded' = Append(forwarded, f) /\ f.clean = clean
    BY <1>2, <2>2 DEF ForwardsIt
  <2>4. PICK n : n = Len(forwarded)
    OBVIOUS
  <2>5. n \in Nat /\ DOMAIN forwarded = 1 .. n
    BY <2>1, <2>4
  <2>6. \A g : DOMAIN Append(forwarded, g) = 1 .. n + 1
    BY <2>1, <2>4
  <2>7. \A i \in 1 .. n : Append(forwarded, f)[i] = forwarded[i]
    BY <2>1, <2>4
  <2>8. Append(forwarded, f)[n + 1] = f
    BY <2>1, <2>4
  <2>9. \A i \in 1 .. n + 1 : Append(forwarded, f)[i].clean
    BY <2>3, <2>6, Zenon DEF AllClean
  <2>10. AllClean
    <3>1. \A i \in 1 .. n : i \in 1 .. n + 1
      BY <2>5
    <3> QED
      BY <2>5, <2>7, <2>9, <3>1, Zenon DEF AllClean
  <2>11. clean
    <3>1. n + 1 \in 1 .. n + 1
      BY <2>5
    <3> QED
      BY <2>3, <2>8, <2>9, <3>1, Zenon
  <2> QED
    BY <2>10, <2>11
<1> QED
  BY <1>1, <1>2

(* Of the last request that was begun there is nothing behind its end. *)
LEMMA AllOf ==
  ASSUME NEW s, NEW l \in Seq(Token), NEW r, NEW a, NEW u, Begins(s, l, r, a, u), a = r
  PROVE  s = l
<1>1. PICK x \in Seq(Token) : s = l \o x /\ Behind(x, r, a, u)
  BY Zenon DEF Begins
<1>2. x = <<>>
  BY <1>1, Zenon DEF Behind
<1>3. l \o <<>> = l
  OBVIOUS
<1> QED
  BY <1>1, <1>2, <1>3, Zenon

(* Nothing is on its way behind the whole of a sequence. *)
LEMMA AllReceived ==
  ASSUME NEW d \in Seq(Token), NEW w \in Seq(Token), NEW l \in Seq(Token),
         d \o w = l, Len(l) <= Len(d)
  PROVE  w = <<>> /\ d = l
<1>1. PICK i, j, n : i = Len(d) /\ j = Len(w) /\ n = Len(l)
  OBVIOUS
<1>2. i \in Nat /\ j \in Nat /\ n \in Nat /\ n <= i
  BY <1>1
<1>3. n = i + j
  <2>1. Len(d \o w) = Len(d) + Len(w)
    BY TwoParts, Zenon
  <2> QED
    BY <1>1, <2>1, Zenon
<1>4. j = 0
  BY <1>2, <1>3
<1>5. Len(w) = 0 => w = <<>>
  OBVIOUS
<1>6. d \o <<>> = d
  OBVIOUS
<1>7. w = <<>>
  BY <1>1, <1>4, <1>5, Zenon
<1> QED
  BY <1>6, <1>7, Zenon

(* The body of a request without a length is what came with the header. *)
LEMMA HeaderWhole ==
  ASSUME NEW p, NEW c, NEW r, NEW w \in Seq(Token), NEW a, NEW u,
         LeadsTo(p, c, r, w, a, u), a = r, r \in Nat, p[r].framing = "none"
  PROVE  /\ IsPrefix(c, Pieces(p[r], r))
         /\ p[r].size = 0 => c = Pieces(p[r], r) /\ w = <<>>
<1>1. /\ p[r] \in RequestShape /\ c \in Seq(Token)
      /\ Begins(c \o w, EncodedBody(p[r], r), r, a, u)
  BY Zenon DEF LeadsTo
<1>2. PICK l : l = Pieces(p[r], r)
  OBVIOUS
<1>3. l \in Seq(Token) /\ Len(l) = p[r].size
  BY <1>1, <1>2, PiecesSent DEF OfRequest
<1>4. EncodedBody(p[r], r) = l
  BY <1>2 DEF EncodedBody, Chunked
<1>5. Begins(c \o w, l, r, a, u)
  BY <1>1, <1>4, Zenon
<1>6. c \o w = l
  BY <1>3, <1>5, AllOf, Zenon
<1>7. Len(c) \in Nat /\ Len(c) <= Len(c)
  BY <1>1
<1>8. Len(c) <= Len(l)
  <2>1. Len(c \o w) = Len(c) + Len(w)
    BY <1>1, TwoParts, Zenon
  <2>2. PICK i, j, n : i = Len(c) /\ j = Len(w) /\ n = Len(l)
    OBVIOUS
  <2>3. n = i + j
    BY <1>6, <2>1, <2>2, Zenon
  <2>4. i \in Nat /\ j \in Nat
    BY <1>1, <2>2
  <2>5. i <= n
    BY <2>3, <2>4
  <2> QED
    BY <2>2, <2>5, Zenon
<1>9. IsPrefix(SubSeq(c, 1, Len(c)), l)
  BY <1>1, <1>3, <1>5, <1>7, <1>8, PrefixOf
<1>10. SubSeq(c, 1, Len(c)) = c
  BY <1>1, SubSeqFull
<1>11. ASSUME p[r].size = 0 PROVE c = l /\ w = <<>>
  <2>1. Len(l) <= Len(c)
    BY <1>3, <1>7, <1>11
  <2> QED
    BY <1>1, <1>3, <1>6, <2>1, AllReceived, Zenon
<1> QED
  BY <1>2, <1>9, <1>10, <1>11, Zenon

(* All of a body with a length, when it has its length. *)
LEMMA LengthWhole ==
  ASSUME NEW p \in Seq(RequestShape), NEW a \in 0 .. Len(p), NEW d, NEW b \in Seq(Token),
         NEW h, NEW w \in Seq(Token), NEW u, InLength(p, d, b, h, w, a, u), a = h,
         p[h].size <= Len(b)
  PROVE  b = Pieces(p[h], h) /\ w = <<>>
<1>1. h \in 1 .. a /\ Begins(b \o w, Pieces(p[h], h), h, a, u)
  BY Zenon DEF InLength
<1>2. Pieces(p[h], h) \in Seq(Token) /\ Len(Pieces(p[h], h)) = p[h].size
  BY <1>1, Planned
<1>3. b \o w = Pieces(p[h], h)
  BY <1>1, <1>2, AllOf, Zenon
<1>4. Len(Pieces(p[h], h)) <= Len(b)
  BY <1>2, Zenon
<1> QED
  BY <1>2, <1>3, <1>4, AllReceived, Zenon

(* The blank line behind the trailers is the last. *)
LEMMA TrailersWhole ==
  ASSUME NEW p \in Seq(RequestShape), NEW a \in 0 .. Len(p), NEW d \in Seq(Token), NEW b,
         NEW h, NEW w \in Seq(Token), NEW u, InChunks(p, "trailers", d, b, h, w, a, u), a = h,
         BlankLines(d) # {}
  PROVE  w = <<>>
<1>1. /\ h \in 1 .. a /\ Begins(d \o w, Left(p[h], h, "trailers", Len(b)), h, a, u)
      /\ h \in Nat
  BY DEF InChunks
<1>2. PICK l : l = TrailerLines(p[h], h)
  OBVIOUS
<1>3. Begins(d \o w, l, h, a, u)
  BY <1>1, <1>2 DEF Left
<1>4. Tok("trailer", h, 0) \in Token /\ Tok("crlf", h, 0) \in Token
      /\ Tok("trailer", h, 0).t = "trailer"
  BY <1>1, TokFields
<1>5. /\ l \in Seq(Token)
      /\ Len(l) = 1 \/ (Len(l) = 3 /\ l[1].t = "trailer")
  <2>1. CASE p[h].framing = "chunked"
    <3>1. PICK t : t = Tok("crlf", h, 0)
      OBVIOUS
    <3>2. l = <<t>> /\ t \in Token
      BY <1>2, <1>4, <2>1, <3>1 DEF TrailerLines, Crlf
    <3>3. l \in Seq(Token)
      BY <3>2
    <3>4. Len(l) = 1
      BY <3>2
    <3> QED
      BY <3>3, <3>4
  <2>2. CASE p[h].framing # "chunked"
    BY <1>2, <1>4, <2>2 DEF TrailerLines, Crlf
  <2> QED
    BY <2>1, <2>2
<1>6. d \o w = l
  BY <1>1, <1>3, <1>5, AllOf, Zenon
<1>7. PICK i \in BlankLines(d) : TRUE
  OBVIOUS
<1>8. i \in 1 .. Len(d) /\ i + 1 \in 1 .. Len(d) /\ d[i].t = "crlf"
  BY LineEndPositions
<1>9. l[i] = d[i]
  <2>1. (d \o w)[i] = d[i]
    BY <1>8, FirstPart
  <2> QED
    BY <1>6, <2>1, Zenon
<1>10. Len(l) = Len(d) + Len(w)
  BY <1>6, TwoParts, Zenon
<1>11. PICK j, k, n : j = Len(d) /\ k = Len(w) /\ n = Len(l)
  OBVIOUS
<1>12. j \in Nat /\ k \in Nat /\ n = j + k /\ i \in 1 .. j /\ i + 1 \in 1 .. j
  BY <1>8, <1>10, <1>11
<1>13. n = 1 \/ (n = 3 /\ i # 1)
  BY <1>5, <1>8, <1>9, <1>11
<1>14. n <= j
  BY <1>12, <1>13
<1>15. Len(l) <= Len(d)
  BY <1>11, <1>14, Zenon
<1> QED
  BY <1>5, <1>6, <1>15, AllReceived, Zenon

(* In a tidy stream the header is the first thing. *)
LEMMA TidyHeader ==
  ASSUME NEW p \in Seq(RequestShape), NEW a \in 0 .. Len(p), NEW b \in Nat \ {0},
         NEW d \in Seq(Token), NEW w \in Seq(Token), RestBefore(p, d \o w, a, b, TRUE),
         BlankLines(d) # {}
  PROVE  d[1].t = "hdr" /\ 1 \in 1 .. Min(BlankLines(d))
<1>1. PICK m : m = Min(BlankLines(d))
  OBVIOUS
<1>2. m \in 1 .. Len(d) /\ m + 1 \in 1 .. Len(d)
  BY <1>1, LineEndPositions
<1>3. d \o w \in Seq(Token) /\ Len(d \o w) = Len(d) + Len(w)
  BY TwoParts, Zenon
<1>4. Len(d \o w) >= 2
  BY <1>2, <1>3
<1>5. d \o w # <<>>
  BY <1>4
<1>6. b \in DOMAIN p /\ d \o w = Encoded(p[b], b)
  BY <1>3, <1>5, TidyOpening
<1>7. p[b] \in RequestShape /\ b \in Nat
  BY <1>6
<1>8. p[b].framing # "hello"
  <2>1. p[b].framing = "hello" => Len(Encoded(p[b], b)) = 1
    BY <1>7, RequestSent
  <2>2. PICK n : n = Len(d \o w)
    OBVIOUS
  <2>3. n = Len(Encoded(p[b], b))
    BY <1>6, <2>2, Zenon
  <2>4. n # 1
    <3>1. n >= 2
      BY <1>4, <2>2, Zenon
    <3> QED
      BY <3>1
  <2> QED
    BY <2>1, <2>3, <2>4, Zenon
<1>9. Encoded(p[b], b)[1].t = "hdr"
  BY <1>7, <1>8, RequestSent
<1>10. (d \o w)[1] = d[1]
  <2>1. 1 \in DOMAIN d
    BY <1>2
  <2> QED
    BY <2>1, FirstPart
<1>11. d[1].t = "hdr"
  BY <1>6, <1>9, <1>10, Zenon
<1> QED
  BY <1>1, <1>2, <1>11

(* What follows the front of a rest is one. *)
LEMMA RestTaken ==
  ASSUME NEW x \in Seq(Token), NEW y \in Seq(Token), Rest(x \o y)
  PROVE  Rest(y)
<1>1. PICK n, s : n = Len(x) /\ s = x \o y
  OBVIOUS
<1>2. \A j \in DOMAIN y : n + j \in DOMAIN s /\ s[n + j] = y[j]
  BY <1>1, SecondPart
<1>3. \A i \in DOMAIN s : s[i].t \notin {"hdr", "hello"}
  BY <1>1, Zenon DEF Rest
<1> QED
  BY <1>2, <1>3, Zenon DEF Rest

(* recv() takes what is there, or the first bytes of it. *)
LEMMA RecvCount ==
  ASSUME ReadInv, Recv
  PROVE  \E n \in 0 .. Len(wire) : wire' = SubSeq(wire, n + 1, Len(wire))
<1>1. wire \in Seq(Token) /\ body \in Seq(Token) /\ wire # <<>>
  BY Types DEF ReadInv, Recv
<1>2. PICK m : m = Len(wire)
  OBVIOUS
<1>3. m \in Nat /\ m \in 0 .. m
  BY <1>1, <1>2
<1>4. CASE stage # "length"
  <2>1. wire' = SubSeq(wire, Len(wire) + 1, Len(wire))
    BY <1>4 DEF Recv
  <2> QED
    BY <1>2, <1>3, <2>1
<1>5. CASE stage = "length"
  <2>1. PICK c : c = ContentLength(head) - Len(body)
    OBVIOUS
  <2>2. c \in Nat
    <3>1. Len(body) < ContentLength(head)
      BY <1>5 DEF Recv, NeedsMore
    <3>2. ContentLength(head) \in 0 .. plan[head].size /\ plan[head].size \in Nat
      BY <1>5, BodyOf DEF BodyStages
    <3>3. ContentLength(head) \in Nat /\ Len(body) \in Nat
      BY <1>1, <3>2
    <3> QED
      BY <2>1, <3>1, <3>3
  <2>3. PICK n : n = Min({m, c})
    OBVIOUS
  <2>4. {m, c} \in SUBSET Nat /\ {m, c} # {}
    BY <1>3, <2>2
  <2>5. Min({m, c}) \in {m, c} /\ \A i \in {m, c} : Min({m, c}) <= i
    BY <2>4, Least, Zenon
  <2>6. n \in 0 .. m
    BY <1>3, <2>2, <2>3, <2>5
  <2>7. wire' = SubSeq(wire, n + 1, Len(wire))
    BY <1>2, <1>5, <2>1, <2>3 DEF Recv
  <2> QED
    BY <1>2, <2>6, <2>7
<1> QED
  BY <1>4, <1>5

(* The reader's steps leave the rest as it is. *)
LEMMA ReadingKeeps ==
  ASSUME Reading
  PROVE  /\ plan' = plan /\ asked' = asked /\ unsent' = unsent /\ at' = at
         /\ forwarded' = forwarded
         /\ Awaited' = Awaited /\ (Tidy' <=> Tidy) /\ (OnTime' <=> OnTime)
         /\ (Pacing' <=> Pacing) /\ (AllClean' <=> AllClean)
<1>1. /\ plan' = plan /\ eof' = eof /\ pipelines' = pipelines /\ prompt' = prompt
      /\ asked' = asked /\ unsent' = unsent /\ at' = at /\ forwarded' = forwarded
  BY DEF Reading, serverVars
<1>2. Awaited' = Awaited
  BY <1>1 DEF Awaited
<1>3. AllClean' <=> AllClean
  BY <1>1 DEF AllClean
<1>4. OnTime' <=> OnTime
  BY <1>1 DEF OnTime, WellFormed, Waits
<1>5. Tidy' <=> Tidy
  BY <1>1, <1>4 DEF Tidy
<1>6. Pacing' <=> Pacing
  BY <1>1, <1>3 DEF Pacing, Waits
<1> QED
  BY <1>1, <1>2, <1>3, <1>4, <1>5, <1>6

(* The request that is awaited is counted from 1. *)
LEMMA AwaitedType ==
  ASSUME TypeOK
  PROVE  Awaited \in Nat \ {0}
<1>1. Len(forwarded) \in Nat
  <2>1. PICK F : forwarded \in Seq(F)
    BY DEF TypeOK
  <2> QED
    BY <2>1
<1> QED
  BY <1>1 DEF Awaited

(* Where everything is well, the whole body that is read is on its way. *)
LEMMA WellOnItsWay ==
  ASSUME Paced, WellRead, OnTime, at # "closed"
  PROVE  /\ AllClean /\ clean /\ Pacing /\ Tidy
         /\ stage \in BodyStages => head = asked
<1>1. AllClean /\ clean
  BY DEF WellRead
<1>2. Pacing
  BY <1>1 DEF Pacing, OnTime
<1>3. stage \in BodyStages => head = asked
  BY <1>1, <1>2 DEF Paced, AtAwaited
<1>4. Tidy
  BY DEF Tidy
<1> QED
  BY <1>1, <1>2, <1>3, <1>4

(* The framing of a request that is well-formed. *)
LEMMA WellFramed ==
  ASSUME OnTime, NEW r \in DOMAIN plan
  PROVE  /\ plan[r].framing \notin {"bad_length", "bad_chunk"}
         /\ plan[r].framing = "none" => plan[r].size = 0
BY DEF OnTime, WellFormed

(* A body reader goes on, or ends. *)
LEMMA BodyStep ==
  ASSUME ReadInv, ReadInv', Reading, Paced, WellRead, at # "closed",
         stage \in BodyStages, stage' \in BodyStages \cup {"request"},
         head' = head, clean' = clean, Rest(Ahead) => Rest(Ahead'),
         OnTime => ReadWhole'
  PROVE  Paced' /\ WellRead'
<1>1. /\ plan' = plan /\ asked' = asked /\ unsent' = unsent /\ at' = at
      /\ Awaited' = Awaited /\ (Tidy' <=> Tidy) /\ (OnTime' <=> OnTime)
      /\ (Pacing' <=> Pacing) /\ (AllClean' <=> AllClean)
  BY ReadingKeeps
<1>2. head \in 1 .. asked /\ plan[head].framing # "none"
  BY BodyOf DEF Chunked
<1>3. stage' = "request" => IsPrefix(body', Pieces(plan[head], head))
  <2>1. stage' = "request" => Done(plan, body', head, asked)
    BY <1>1 DEF ReadInv, BodyRead
  <2>2. head # 0
    BY <1>2
  <2> QED
    BY <1>2, <2>1, <2>2, Zenon DEF Done
<1>4. AtNext'
  BY DEF AtNext, BodyStages
<1>5. ASSUME Pacing PROVE AtAwaited'
  <2>1. clean => head = Awaited /\ asked = Awaited /\ Rest(Ahead)
    BY <1>5 DEF Paced, AtAwaited
  <2>2. clean => head' = Awaited' /\ asked' = Awaited' /\ Rest(Ahead')
    BY <1>1, <2>1
  <2>3. stage' = "request" => IsPrefix(body', Pieces(plan'[head'], head'))
    BY <1>1, <1>3, Zenon
  <2> QED
    BY <2>2, <2>3, Zenon DEF AtAwaited
<1>6. Paced'
  BY <1>1, <1>4, <1>5 DEF Paced
<1>7. WellRead'
  BY <1>1 DEF WellRead
<1> QED
  BY <1>6, <1>7

(* Connection.recv() *)
LEMMA RecvPaced ==
  ASSUME ReadInv, Recv, Reading, Paced, WellRead, at # "closed"
  PROVE  Paced' /\ WellRead'
<1>1. /\ stage \in {"header"} \cup BodyStages /\ stage' = stage /\ head' = head
      /\ clean' = clean
  BY DEF Recv, NeedsMore, BodyStages
<1>2. ReadInv' /\ (stage # "length" => data' \o Ahead' = data \o Ahead)
  BY RecvLemma
<1>3. /\ plan' = plan /\ asked' = asked /\ unsent' = unsent /\ at' = at
      /\ Awaited' = Awaited /\ (Tidy' <=> Tidy) /\ (OnTime' <=> OnTime)
      /\ (Pacing' <=> Pacing) /\ (AllClean' <=> AllClean)
  BY ReadingKeeps
<1>4. CASE stage = "header"
  <2>1. Stream' = Stream
    BY <1>1, <1>2, <1>4, Zenon DEF Stream
  <2>2. AtNext => AtNext'
    <3>1. RestBefore(plan, Stream, asked, Awaited, Tidy)
            => RestBefore(plan, Stream, asked, Awaited, Tidy')
      BY <1>3 DEF RestBefore
    <3> QED
      BY <1>1, <1>3, <1>4, <2>1, <3>1, Zenon DEF AtNext
  <2>3. AtAwaited'
    BY <1>1, <1>4 DEF AtAwaited, BodyStages
  <2>4. Paced'
    BY <1>1, <1>3, <2>2, <2>3 DEF Paced
  <2>5. WellRead'
    BY <1>1, <1>3, <1>4 DEF WellRead, ReadWhole
  <2> QED
    BY <2>4, <2>5
<1>5. CASE stage \in BodyStages
  <2>1. Rest(Ahead) => Rest(Ahead')
    <3>1. PICK n : wire' = SubSeq(wire, n + 1, Len(wire)) /\ n \in 0 .. Len(wire)
      BY RecvCount
    <3>2. PICK x, y : x = SubSeq(wire, 1, n) /\ y = SubSeq(wire, n + 1, Len(wire))
      OBVIOUS
    <3>3. wire \in Seq(Token) /\ unsent \in Seq(Token)
      BY Types DEF ReadInv
    <3>4. x \in Seq(Token) /\ y \in Seq(Token) /\ wire = x \o y
      BY <3>1, <3>2, <3>3, Cut, Zenon
    <3>5. y \o unsent \in Seq(Token)
      BY <3>3, <3>4, TwoParts, Zenon
    <3>6. Ahead = x \o (y \o unsent)
      <4>1. Associate(x, y, unsent)
        BY <3>3, <3>4, TokensAssociate, Zenon
      <4> QED
        BY <3>4, <4>1, Zenon DEF Associate, Ahead
    <3>7. Ahead' = y \o unsent
      BY <1>3, <3>1, <3>2, Zenon DEF Ahead
    <3> QED
      BY <3>4, <3>5, <3>6, <3>7, RestTaken, Zenon
  <2>2. ReadWhole'
    BY <1>1, <1>5 DEF ReadWhole, BodyStages
  <2> QED
    BY <1>1, <1>2, <1>5, <2>1, <2>2, BodyStep
<1> QED
  BY <1>1, <1>4, <1>5

(* The blank line, and what follows it. *)
HeaderEnd == Min(BlankLines(data))
Following == SubSeq(data, HeaderEnd + 2, Len(data))

(* What ParseHeader does with the lines before the blank one. *)
LEMMA ParseSteps ==
  ASSUME ParseHeader
  PROVE  /\ stage = "header" /\ BlankLines(data) # {} /\ wire' = wire
         /\ \/ \E i \in 1 .. HeaderEnd :
                 /\ data[i].t = "hdr" /\ BeginBody(data[i].r, Following)
                 /\ clean' = (1 \in {j \in 1 .. HeaderEnd : data[j].t = "hdr"})
            \/ /\ \A i \in 1 .. HeaderEnd : data[i].t # "hdr"
               /\ BeginBody(0, Following) /\ clean' = FALSE
            \/ stage' = "nothing" /\ UNCHANGED <<data, body, head, clean>>
<1> DEFINE heads == {j \in 1 .. HeaderEnd : data[j].t = "hdr"}
<1>1. stage = "header" /\ BlankLines(data) # {} /\ wire' = wire
  BY DEF ParseHeader, streamVars
<1>2. CASE heads # {}
  <2>1. PICK i : i = CHOOSE j \in heads : TRUE
    OBVIOUS
  <2>2. i \in heads
    BY <1>2, <2>1
  <2>3. \/ clean' = (1 \in heads) /\ BeginBody(data[i].r, Following)
        \/ stage' = "nothing" /\ UNCHANGED <<data, body, head, clean>>
    BY <1>2, <2>1 DEF ParseHeader, HeaderEnd, Following
  <2>4. i \in 1 .. HeaderEnd /\ data[i].t = "hdr"
    BY <2>2
  <2> QED
    BY <1>1, <2>3, <2>4, Zenon
<1>3. CASE heads = {}
  <2>1. \A i \in 1 .. HeaderEnd : data[i].t # "hdr"
    BY <1>3
  <2>2. \/ clean' = FALSE /\ BeginBody(0, Following)
        \/ stage' = "nothing" /\ UNCHANGED <<data, body, head, clean>>
    BY <1>3 DEF ParseHeader, HeaderEnd, Following
  <2> QED
    BY <1>1, <2>1, <2>2, Zenon
<1> QED
  BY <1>2, <1>3

(* The reader is then behind the header. *)
LEMMA BodyBegun ==
  ASSUME NEW r, NEW c, BeginBody(r, c), Framing(r) \in Framings \ {"hello"}
  PROVE  /\ head' = r /\ stage' \in BodyStages \cup {"request"}
         /\ stage' = "request" => body' = c /\ Framing(r) = "none"
<1>1. head' = r
  BY DEF BeginBody
<1>2. CASE Framing(r) \in Chunked
  BY <1>1, <1>2 DEF BeginBody, BodyStages, Chunked
<1>3. CASE Framing(r) \in {"length", "bad_length"}
  BY <1>1, <1>3 DEF BeginBody, BodyStages, Chunked
<1>4. CASE Framing(r) = "none"
  BY <1>1, <1>4 DEF BeginBody, BodyStages, Chunked
<1> QED
  BY <1>2, <1>3, <1>4 DEF Framings, Chunked

(* The first header is that of the request that was waited for. *)
LEMMA ParsePaced ==
  ASSUME ReadInv, ParseHeader, Reading, Paced, WellRead, at # "closed"
  PROVE  Paced' /\ WellRead'
<1>1. stage = "header" /\ BlankLines(data) # {} /\ wire' = wire
  BY ParseSteps
<1>2. /\ plan' = plan /\ asked' = asked /\ unsent' = unsent /\ at' = at
      /\ Awaited' = Awaited /\ (Tidy' <=> Tidy) /\ (OnTime' <=> OnTime)
      /\ (Pacing' <=> Pacing) /\ (AllClean' <=> AllClean)
  BY ReadingKeeps
<1>3. Ahead' = Ahead
  BY <1>1, <1>2 DEF Ahead
<1>4. /\ data \in Seq(Token) /\ plan \in Seq(RequestShape) /\ asked \in 0 .. Len(plan)
      /\ Ahead \in Seq(Token) /\ Awaited \in Nat \ {0}
  BY Types, AwaitedType DEF ReadInv
<1>5. Pacing => RestBefore(plan, data \o Ahead, asked, Awaited, Tidy)
  BY <1>1 DEF Paced, AtNext, Stream
<1>6. Numbered(data \o Ahead, asked) /\ Contiguous(plan, data \o Ahead, asked, unsent)
  BY <1>1 DEF ReadInv, Unread, Stream
<1>7. stage' # "none" /\ stage' # "header" => AtNext'
  BY DEF AtNext
<1>8. ASSUME NEW i \in 1 .. HeaderEnd, data[i].t = "hdr", BeginBody(data[i].r, Following),
             clean' = (1 \in {j \in 1 .. HeaderEnd : data[j].t = "hdr"})
      PROVE  Paced' /\ WellRead'
  <2>1. PICK r, c : r = data[i].r /\ c = Following
    OBVIOUS
  <2>2. i \in DOMAIN data
    BY <1>1, <1>4, LineEndPositions DEF HeaderEnd
  <2>3. LeadsTo(plan, c, r, Ahead, asked, unsent)
    BY <1>1, <1>4, <1>6, <1>8, <2>1, HeaderRead, Zenon DEF HeaderEnd, Following
  <2>4. r \in 1 .. asked /\ r \in Nat /\ r # 0 /\ Framing(r) \in Framings \ {"hello"}
        /\ r \in DOMAIN plan
    BY <1>4, <2>3 DEF LeadsTo, Framing, RequestShape
  <2>5. /\ head' = r /\ stage' \in BodyStages \cup {"request"}
        /\ stage' = "request" => body' = c /\ Framing(r) = "none"
    BY <1>8, <2>1, <2>4, BodyBegun, Zenon
  <2>6. plan[r].framing = "none" /\ asked = r =>
          /\ IsPrefix(c, Pieces(plan[r], r))
          /\ plan[r].size = 0 => c = Pieces(plan[r], r) /\ Ahead = <<>>
    BY <1>4, <2>3, <2>4, HeaderWhole, Zenon
  <2>7. stage' = "request" => plan[r].framing = "none" /\ body' = c
    BY <2>4, <2>5 DEF Framing
  <2>8. Pacing => asked = Awaited /\ r = Awaited /\ (Tidy => i = 1) /\ Rest(Ahead)
    <3>1. SUFFICES ASSUME Pacing
                   PROVE  asked = Awaited /\ r = Awaited /\ (Tidy => i = 1) /\ Rest(Ahead)
      OBVIOUS
    <3>2. RestBefore(plan, data \o Ahead, asked, Awaited, Tidy)
      BY <1>5, <3>1
    <3>3. asked = Awaited /\ data[i].r = Awaited /\ (Tidy => i = 1) /\ Rest(Ahead)
      BY <1>4, <1>8, <2>2, <3>2, HeaderAwaited
    <3> QED
      BY <2>1, <3>3
  <2>9. i = 1 => clean'
    BY <1>8
  <2>10. AtNext'
    BY <1>7, <2>5 DEF BodyStages
  <2>11. Pacing => AtAwaited'
    <3>1. Pacing => asked = r
      BY <2>8, Zenon
    <3>2. Pacing /\ stage' = "request" => IsPrefix(body', Pieces(plan[r], r))
      BY <2>6, <2>7, <3>1, Zenon
    <3> QED
      BY <1>2, <1>3, <2>5, <2>8, <3>2, Zenon DEF AtAwaited
  <2>12. Paced'
    <3>1. Pacing /\ at = "plain" => clean'
      BY <2>8, <2>9 DEF Tidy
    <3> QED
      BY <1>2, <2>10, <2>11, <3>1 DEF Paced
  <2>13. WellRead'
    <3>1. ASSUME OnTime PROVE AllClean /\ clean' /\ ReadWhole'
      <4>1. AllClean /\ Pacing /\ Tidy
        BY <3>1, WellOnItsWay
      <4>2. asked = r
        BY <2>8, <4>1, Zenon
      <4>3. stage' = "request" => body' = Pieces(plan[r], r) /\ Ahead = <<>>
        <5>1. plan[r].framing = "none" => plan[r].size = 0
          BY <2>4, <3>1, WellFramed
        <5> QED
          BY <2>6, <2>7, <4>2, <5>1, Zenon
      <4>4. ReadWhole'
        BY <1>2, <1>3, <2>5, <4>3, Zenon DEF ReadWhole
      <4> QED
        BY <2>8, <2>9, <4>1, <4>4
    <3> QED
      BY <1>2, <3>1 DEF WellRead
  <2> QED
    BY <2>12, <2>13
<1>9. ASSUME \A i \in 1 .. HeaderEnd : data[i].t # "hdr", BeginBody(0, Following),
             clean' = FALSE
      PROVE  Paced' /\ WellRead'
  <2>1. ~(Pacing /\ Tidy)
    <3>1. SUFFICES ASSUME Pacing, Tidy PROVE FALSE
      OBVIOUS
    <3>2. RestBefore(plan, data \o Ahead, asked, Awaited, TRUE)
      BY <1>5, <3>1 DEF RestBefore
    <3>3. data[1].t = "hdr" /\ 1 \in 1 .. HeaderEnd
      BY <1>1, <1>4, <3>2, TidyHeader, Zenon DEF HeaderEnd
    <3> QED
      BY <1>9, <3>3
  <2>2. ~clean'
    BY <1>9
  <2>3. stage' \in BodyStages \cup {"request"}
    <3>1. Framing(0) \in Framings \ {"hello"}
      BY DEF Framing, Framings
    <3> QED
      BY <1>9, <3>1, BodyBegun, Zenon
  <2>4. AtNext' /\ AtAwaited'
    BY <1>7, <2>2, <2>3 DEF AtAwaited, BodyStages
  <2>5. Paced'
    BY <1>2, <2>1, <2>4 DEF Paced, Tidy
  <2>6. WellRead'
    BY <1>2, <2>1, WellOnItsWay DEF WellRead
  <2> QED
    BY <2>5, <2>6
<1>10. ASSUME stage' = "nothing", clean' = clean
       PROVE  Paced' /\ WellRead'
  <2>1. AtNext' /\ AtAwaited' /\ ReadWhole'
    BY <1>10 DEF AtNext, AtAwaited, ReadWhole, BodyStages
  <2>2. Paced'
    BY <1>2, <1>10, <2>1 DEF Paced
  <2>3. WellRead'
    BY <1>2, <1>10, <2>1 DEF WellRead
  <2> QED
    BY <2>2, <2>3
<1> QED
  BY <1>8, <1>9, <1>10, ParseSteps, Zenon

(* The end of a body with a length. *)
LEMMA LengthPaced ==
  ASSUME ReadInv, LengthRead, Reading, Paced, WellRead, at # "closed"
  PROVE  Paced' /\ WellRead'
<1>1. /\ stage = "length" /\ stage' = "request" /\ head' = head /\ clean' = clean
      /\ Ahead' = Ahead /\ plan' = plan /\ ~(Len(body) < ContentLength(head))
  BY DEF LengthRead, NeedsMore, streamVars, Ahead, Reading
<1>2. ReadInv' /\ body' = SubSeq(body, 1, ContentLength(head))
  BY LengthReadLemma
<1>3. /\ plan \in Seq(RequestShape) /\ asked \in 0 .. Len(plan) /\ body \in Seq(Token)
      /\ Ahead \in Seq(Token)
  BY Types DEF ReadInv
<1>4. InLength(plan, data, body, head, Ahead, asked, unsent)
  BY <1>1 DEF ReadInv, BodyRead
<1>5. ASSUME OnTime PROVE ReadWhole'
  <2>1. asked = head
    BY <1>1, <1>5, WellOnItsWay DEF BodyStages
  <2>2. head \in DOMAIN plan /\ plan[head].framing \in {"length", "bad_length"}
    BY <1>1, <1>3, BodyOf DEF BodyStages
  <2>3. ContentLength(head) = plan[head].size
    BY <1>5, <2>2, WellFramed DEF ContentLength
  <2>4. plan[head].size <= Len(body)
    <3>1. plan[head].size \in Nat /\ Len(body) \in Nat
      BY <1>1, <1>3, BodyOf DEF BodyStages
    <3> QED
      BY <1>1, <2>3, <3>1
  <2>5. body = Pieces(plan[head], head) /\ Ahead = <<>>
    BY <1>3, <1>4, <2>1, <2>4, LengthWhole, Zenon
  <2>6. plan[head].size = Len(body)
    <3>1. Len(Pieces(plan[head], head)) = plan[head].size
      <4>1. plan[head] \in RequestShape /\ head \in Nat
        BY <1>3, <2>2
      <4> QED
        BY <4>1, PiecesSent
    <3> QED
      BY <2>5, <3>1, Zenon
  <2>7. SubSeq(body, 1, Len(body)) = body
    BY <1>3, SubSeqFull
  <2>8. body' = body
    BY <1>2, <2>3, <2>6, <2>7, Zenon
  <2> QED
    BY <1>1, <2>5, <2>8, Zenon DEF ReadWhole
<1> QED
  BY <1>1, <1>2, <1>5, BodyStep DEF BodyStages

(* A size line. *)
LEMMA SizePaced ==
  ASSUME ReadInv, SizeLine, Reading, Paced, WellRead, at # "closed"
  PROVE  Paced' /\ WellRead'
<1>1. /\ stage = "size" /\ head' = head /\ clean' = clean /\ Ahead' = Ahead
  BY DEF SizeLine, streamVars, Ahead, Reading
<1>2. /\ ReadInv'
      /\ \/ stage' \in {"chunk", "trailers"}
         \/ stage' = "request" /\ plan[head].framing = "bad_chunk"
  BY SizeLineLemma
<1>3. ASSUME OnTime PROVE ReadWhole'
  <2>1. head \in DOMAIN plan
    <3>1. plan \in Seq(RequestShape) /\ asked \in 0 .. Len(plan)
      BY Types DEF ReadInv
    <3> QED
      BY <1>1, <3>1, BodyOf DEF BodyStages
  <2>2. plan[head].framing # "bad_chunk"
    BY <1>3, <2>1, WellFramed
  <2> QED
    BY <1>2, <2>2 DEF ReadWhole
<1> QED
  BY <1>1, <1>2, <1>3, BodyStep DEF BodyStages

(* A chunk. *)
LEMMA ChunkPaced ==
  ASSUME ReadInv, Chunk, Reading, Paced, WellRead, at # "closed"
  PROVE  Paced' /\ WellRead'
<1>1. stage = "chunk" /\ head' = head /\ clean' = clean /\ Ahead' = Ahead
  BY DEF Chunk, ConsumeChunk, streamVars, Ahead, Reading
<1>2. ReadInv' /\ stage' = "size"
  BY ChunkLemma
<1>3. ReadWhole'
  BY <1>2 DEF ReadWhole
<1> QED
  BY <1>1, <1>2, <1>3, BodyStep DEF BodyStages

(* The end of a body with trailers. *)
LEMMA TrailersPaced ==
  ASSUME ReadInv, Trailers, Reading, Paced, WellRead, at # "closed"
  PROVE  Paced' /\ WellRead'
<1>1. /\ stage = "trailers" /\ stage' = "request" /\ head' = head /\ clean' = clean
      /\ Ahead' = Ahead /\ plan' = plan /\ BlankLines(data) # {}
  BY DEF Trailers, NeedsMore, streamVars, Ahead, Reading
<1>2. ReadInv' /\ body' = body
  BY TrailersLemma
<1>3. /\ plan \in Seq(RequestShape) /\ asked \in 0 .. Len(plan) /\ body \in Seq(Token)
      /\ Ahead \in Seq(Token) /\ data \in Seq(Token)
  BY Types DEF ReadInv
<1>4. InChunks(plan, "trailers", data, body, head, Ahead, asked, unsent)
  BY <1>1 DEF ReadInv, BodyRead
<1>5. ASSUME OnTime PROVE ReadWhole'
  <2>1. asked = head
    BY <1>1, <1>5, WellOnItsWay DEF BodyStages
  <2>2. Ahead = <<>>
    BY <1>1, <1>3, <1>4, <2>1, TrailersWhole, Zenon
  <2>3. body = Pieces(plan[head], head)
    <3>1. Len(body) = plan[head].size
      BY <1>4, Zenon DEF InChunks
    <3>2. Len(body) = plan[head].size => body = Pieces(plan[head], head)
      BY <1>3, <1>4, ChunksDone
    <3> QED
      BY <3>1, <3>2
  <2> QED
    BY <1>1, <1>2, <2>2, <2>3, Zenon DEF ReadWhole
<1> QED
  BY <1>1, <1>2, <1>5, BodyStep DEF BodyStages

(* Nothing more is read: of a client with which nothing goes wrong, because *)
(* there is nothing more.                                                   *)
LEMMA NothingPaced ==
  ASSUME ReadInv, RecvNothing, eof \/ TimesOut, Reading, Paced, WellRead, at # "closed"
  PROVE  Paced' /\ WellRead'
<1>1. /\ stage \in {"header"} \cup BodyStages /\ head' = head /\ clean' = clean
      /\ stage' = IF stage = "header" THEN "nothing" ELSE "request"
      /\ wire = <<>> /\ wire' = wire
  BY DEF RecvNothing, NeedsMore, BodyStages, streamVars
<1>2. ReadInv' /\ body' = body
  BY RecvNothingLemma
<1>3. /\ plan' = plan /\ asked' = asked /\ unsent' = unsent /\ at' = at
      /\ Awaited' = Awaited /\ (Tidy' <=> Tidy) /\ (OnTime' <=> OnTime)
      /\ (Pacing' <=> Pacing) /\ (AllClean' <=> AllClean)
  BY ReadingKeeps
<1>4. Ahead' = Ahead
  BY <1>1, <1>3 DEF Ahead
<1>5. CASE stage = "header"
  <2>1. AtNext' /\ AtAwaited' /\ ReadWhole'
    BY <1>1, <1>5 DEF AtNext, AtAwaited, ReadWhole, BodyStages
  <2>2. Paced'
    BY <1>1, <1>3, <2>1 DEF Paced
  <2>3. WellRead'
    BY <1>1, <1>3, <2>1 DEF WellRead
  <2> QED
    BY <2>2, <2>3
<1>6. CASE stage \in BodyStages
  <2>1. /\ plan \in Seq(RequestShape) /\ asked \in 0 .. Len(plan) /\ body \in Seq(Token)
        /\ unsent \in Seq(Token)
    BY Types DEF ReadInv
  <2>2. ASSUME OnTime PROVE ReadWhole'
    <3>1. asked = head
      BY <1>6, <2>2, WellOnItsWay
    <3>2. unsent = <<>>
      BY <2>2 DEF OnTime, TimesOut, CanSend
    <3>3. stage = "trailers" /\ plan[head].framing = "chunked"
      <4>1. Complete(head)
        BY <3>1, <3>2 DEF Complete
      <4>2. stage # "header"
        BY <1>6 DEF BodyStages
      <4> QED
        BY <4>1, <4>2, MissingStep
    <3>4. InChunks(plan, "trailers", data, body, head, Ahead, asked, unsent)
      BY <3>3 DEF ReadInv, BodyRead
    <3>5. body = Pieces(plan[head], head)
      <4>1. Len(body) = plan[head].size
        BY <3>4, Zenon DEF InChunks
      <4>2. Len(body) = plan[head].size => body = Pieces(plan[head], head)
        BY <2>1, <3>4, ChunksDone
      <4> QED
        BY <4>1, <4>2
    <3>6. Ahead = <<>>
      BY <1>1, <3>2 DEF Ahead
    <3> QED
      BY <1>1, <1>2, <1>3, <1>4, <3>5, <3>6, Zenon DEF ReadWhole
  <2>3. stage' = "request" /\ (Rest(Ahead) => Rest(Ahead'))
    BY <1>1, <1>4, <1>6 DEF BodyStages
  <2> QED
    BY <1>1, <1>2, <1>6, <2>2, <2>3, BodyStep
<1> QED
  BY <1>1, <1>5, <1>6

(* So the reader stays at the request that the client waits for. *)
LEMMA ReadPaced ==
  ASSUME ReadInv, Read, Paced, WellRead
  PROVE  Paced' /\ WellRead'
<1>1. /\ at # "closed" /\ Reading
      /\ \/ Recv \/ ParseHeader \/ LengthRead \/ SizeLine \/ Chunk \/ Trailers
         \/ RecvNothing /\ (eof \/ TimesOut)
  BY ReadSteps
<1> QED
  BY <1>1, RecvPaced, ParsePaced, LengthPaced, SizePaced, ChunkPaced, TrailersPaced,
     NothingPaced

(* A request that is the client's own is added to others. *)
LEMMA CleanAfter ==
  ASSUME TypeOK, AllClean, clean, ForwardsIt
  PROVE  AllClean'
<1>1. PICK F : forwarded \in Seq(F)
  BY DEF TypeOK
<1>2. PICK f : f = [r |-> head, clean |-> clean, body |-> body]
  OBVIOUS
<1>3. forwarded' = Append(forwarded, f) /\ f.clean
  BY <1>2 DEF ForwardsIt
<1>4. PICK n : n = Len(forwarded)
  OBVIOUS
<1>5. n \in Nat /\ DOMAIN forwarded = 1 .. n
  BY <1>1, <1>4
<1>6. DOMAIN Append(forwarded, f) = 1 .. n + 1
  BY <1>1, <1>4
<1>7. \A i \in 1 .. n : Append(forwarded, f)[i] = forwarded[i]
  BY <1>1, <1>4
<1>8. Append(forwarded, f)[n + 1] = f
  BY <1>1, <1>4
<1>9. ASSUME NEW i \in 1 .. n + 1 PROVE Append(forwarded, f)[i].clean
  <2>1. CASE i \in 1 .. n
    BY <1>5, <1>7, <2>1, Zenon DEF AllClean
  <2>2. CASE i = n + 1
    BY <1>3, <1>8, <2>2, Zenon
  <2>3. i \in 1 .. n \/ i = n + 1
    BY <1>5
  <2> QED
    BY <2>1, <2>2, <2>3
<1> QED
  BY <1>3, <1>6, <1>9, Zenon DEF AllClean

(* The server's steps change nothing of the client. *)
LEMMA ServingKeeps ==
  ASSUME Serving
  PROVE  /\ plan' = plan /\ asked' = asked /\ unsent' = unsent /\ pipelines' = pipelines
         /\ prompt' = prompt /\ eof' = eof
         /\ Waits' = Waits /\ (OnTime' <=> OnTime)
<1>1. /\ plan' = plan /\ asked' = asked /\ unsent' = unsent /\ pipelines' = pipelines
      /\ prompt' = prompt /\ eof' = eof
  BY DEF Serving, clientVars
<1>2. Waits' = Waits /\ (OnTime' <=> OnTime)
  BY <1>1 DEF OnTime, WellFormed, Waits
<1> QED
  BY <1>1, <1>2

(* The last request of a connection. *)
LEMMA ClosesPaced ==
  ASSUME ReadInv, Closes, forwarded' = forwarded \/ (ForwardsIt /\ at # "closed"),
         Paced, WellRead
  PROVE  Paced' /\ WellRead'
<1>1. at' = "closed" /\ (OnTime' <=> OnTime)
  BY ServingKeeps DEF Closes
<1>2. Paced'
  BY <1>1 DEF Paced, Pacing
<1>3. ASSUME OnTime PROVE AllClean'
  <2>1. AllClean /\ (at # "closed" => clean)
    BY <1>3 DEF WellRead
  <2>2. CASE forwarded' = forwarded
    BY <2>1, <2>2 DEF AllClean
  <2>3. CASE ForwardsIt /\ at # "closed"
    BY <2>1, <2>3, CleanAfter DEF ReadInv
  <2> QED
    BY <2>2, <2>3
<1>4. WellRead'
  BY <1>1, <1>3 DEF WellRead
<1> QED
  BY <1>2, <1>4

(* The rest of an earlier request is all that can be before the next. *)
LEMMA ConnectPaced ==
  ASSUME ReadInv, HandleConnect, at' = "handshake", stage' = "none",
         UNCHANGED <<data, body, head, clean>>, TypeOK', Paced, WellRead
  PROVE  Paced' /\ WellRead'
<1>1. /\ at = "plain" /\ stage = "request" /\ plan[head].method = "CONNECT"
      /\ wire' = wire /\ Serving /\ forwarded' = forwarded /\ clean' = clean
  BY ConnectSteps
<1>2. /\ plan' = plan /\ asked' = asked /\ Waits' = Waits /\ (OnTime' <=> OnTime)
  BY <1>1, ServingKeeps
<1>3. Ahead' = Ahead /\ Stream' = Ahead
  BY <1>1, DroppedLemma
<1>4. (AllClean' <=> AllClean) /\ (Pacing' <=> Pacing)
  BY <1>1, <1>2 DEF AllClean, Pacing
<1>5. Awaited' = 2 /\ (Tidy' <=> OnTime)
  BY <1>2 DEF Awaited, Tidy
<1>6. OnTime => AllClean /\ clean /\ Ahead = <<>>
  BY <1>1 DEF WellRead, ReadWhole
<1>7. ASSUME Pacing
      PROVE  /\ RestBefore(plan, Ahead, asked, 2, Tidy')
             /\ plan[1].method = "CONNECT"
  <2>1. head = 1 /\ asked = 1 /\ Rest(Ahead)
    BY <1>1, <1>7 DEF Paced, AtAwaited, Awaited
  <2>2. 1 = 2 - 1
    OBVIOUS
  <2>3. Tidy' => Ahead = <<>>
    BY <1>5, <1>6
  <2>4. plan[1].method = "CONNECT"
    BY <1>1, <2>1
  <2>5. RestBefore(plan, Ahead, asked, 2, Tidy')
    BY <2>1, <2>2, <2>3, Zenon DEF RestBefore
  <2> QED
    BY <2>4, <2>5
<1>8. Pacing => AtNext'
  BY <1>2, <1>3, <1>5, <1>7, Zenon DEF AtNext
<1>9. AtAwaited' /\ ReadWhole'
  BY DEF AtAwaited, ReadWhole, BodyStages
<1>10. Paced'
  BY <1>2, <1>4, <1>7, <1>8, <1>9 DEF Paced
<1>11. WellRead'
  BY <1>1, <1>2, <1>4, <1>6, <1>9 DEF WellRead
<1> QED
  BY <1>10, <1>11

(* Behind the opening of the handshake there is nothing. *)
LEMMA HandshakePaced ==
  ASSUME ReadInv, Stages, Handshake, Paced, WellRead
  PROVE  Paced' /\ WellRead'
<1>1. /\ at = "handshake" /\ wire # <<>> /\ wire[1].t = "hello" /\ at' = "mitm"
      /\ BeginReading /\ Serving /\ forwarded' = forwarded
  BY DEF Handshake, Serving
<1>2. /\ plan' = plan /\ asked' = asked /\ Waits' = Waits /\ (OnTime' <=> OnTime)
  BY <1>1, ServingKeeps
<1>3. stage = "none" /\ forwarded = <<>>
  BY <1>1 DEF Stages
<1>4. Stream = wire \o unsent
  BY <1>3 DEF Stream, Ahead
<1>5. Stream' = Tail(wire) \o unsent
  BY HandshakeLemma
<1>6. (AllClean' <=> AllClean) /\ (Pacing' <=> Pacing)
  BY <1>1, <1>2 DEF AllClean, Pacing
<1>7. Awaited = 2 /\ Awaited' = 3
  BY <1>1, <1>3 DEF Awaited
<1>8. /\ wire \in Seq(Token) /\ unsent \in Seq(Token)
      /\ plan \in Seq(RequestShape) /\ asked \in 0 .. Len(plan)
  BY Types DEF ReadInv
<1>9. Pacing => AtNext'
  <2>1. SUFFICES ASSUME Pacing PROVE AtNext'
    OBVIOUS
  <2>2. RestBefore(plan, wire \o unsent, asked, 2, Tidy)
    BY <1>3, <1>4, <1>7, <2>1, Zenon DEF Paced, AtNext
  <2>3. asked = 2 /\ Tail(wire) \o unsent = <<>>
    <3>1. PICK b, t : b = 2 /\ t = Tidy
      OBVIOUS
    <3>2. b \in Nat \ {0} /\ RestBefore(plan, wire \o unsent, asked, b, t)
      BY <2>2, <3>1
    <3>3. asked = b /\ Tail(wire) = <<>> /\ unsent = <<>>
      BY <1>1, <1>8, <3>2, HelloAwaited
    <3>4. <<>> \o <<>> = <<>>
      OBVIOUS
    <3> QED
      BY <3>1, <3>3, <3>4, Zenon
  <2>4. asked = 3 - 1 /\ Rest(<<>>)
    BY <2>3 DEF Rest
  <2>5. RestBefore(plan, <<>>, asked, 3, Tidy')
    BY <2>4, Zenon DEF RestBefore
  <2> QED
    BY <1>2, <1>5, <1>7, <2>3, <2>5, Zenon DEF AtNext
<1>10. AtAwaited' /\ ReadWhole' /\ clean'
  BY <1>1 DEF AtAwaited, ReadWhole, BodyStages, BeginReading
<1>11. Paced'
  BY <1>1, <1>2, <1>6, <1>9, <1>10 DEF Paced
<1>12. WellRead'
  BY <1>1, <1>2, <1>6, <1>10 DEF WellRead
<1> QED
  BY <1>11, <1>12

(* From one decrypted request to the next. *)
LEMMA MitmPaced ==
  ASSUME ReadInv, MitmRequest, at' = "mitm", wire' = wire, Serving, BeginReading, TypeOK',
         Paced, WellRead
  PROVE  Paced' /\ WellRead'
<1>1. at = "mitm" /\ stage = "request" /\ ForwardsIt
  BY MitmSteps
<1>2. /\ plan' = plan /\ asked' = asked /\ Waits' = Waits /\ (OnTime' <=> OnTime)
  BY ServingKeeps
<1>3. Ahead' = Ahead /\ Stream' = Ahead
  BY DroppedLemma
<1>4. AllClean' => AllClean /\ clean
  BY <1>1, CleanBefore DEF ReadInv
<1>5. Pacing' => Pacing /\ clean
  BY <1>1, <1>2, <1>4 DEF Pacing
<1>6. Awaited' - 1 = Awaited
  <2>1. PICK F : forwarded \in Seq(F)
    BY DEF TypeOK, ReadInv
  <2>2. PICK f : forwarded' = Append(forwarded, f)
    BY <1>1 DEF ForwardsIt
  <2>3. Len(forwarded') = Len(forwarded) + 1 /\ Len(forwarded) \in Nat
    BY <2>1, <2>2
  <2> QED
    BY <1>1, <2>3 DEF Awaited
<1>7. OnTime => AllClean /\ clean /\ Ahead = <<>>
  BY <1>1 DEF WellRead, ReadWhole
<1>8. Pacing' => AtNext'
  <2>1. SUFFICES ASSUME Pacing' PROVE AtNext'
    OBVIOUS
  <2>2. asked = Awaited /\ Rest(Ahead)
    BY <1>1, <1>5, <2>1 DEF Paced, AtAwaited
  <2>3. Tidy' => Ahead = <<>>
    BY <1>2, <1>7 DEF Tidy
  <2>4. asked = Awaited' - 1
    BY <1>6, <2>2
  <2>5. RestBefore(plan, Ahead, asked, Awaited', Tidy')
    BY <2>2, <2>3, <2>4, Zenon DEF RestBefore
  <2> QED
    BY <1>2, <1>3, <2>5, Zenon DEF AtNext
<1>9. AtAwaited' /\ ReadWhole' /\ clean'
  BY DEF AtAwaited, ReadWhole, BodyStages, BeginReading
<1>10. Pacing => plan[1].method = "CONNECT"
  BY <1>1 DEF Paced
<1>11. Paced'
  BY <1>2, <1>5, <1>8, <1>9, <1>10 DEF Paced
<1>12. OnTime => AllClean'
  BY <1>1, <1>7, CleanAfter DEF ReadInv
<1>13. WellRead'
  BY <1>2, <1>9, <1>12 DEF WellRead
<1> QED
  BY <1>11, <1>13

(* The worker thread stays at the request that the client waits for. *)
LEMMA ServePaced ==
  ASSUME ReadInv, Stages, Serve, ReadInv', Paced, WellRead
  PROVE  Paced' /\ WellRead'
<1>0. TypeOK'
  BY DEF ReadInv
<1>1. CASE Read
  BY <1>1, ReadPaced
<1>2. CASE GivesUp \/ BadRequest \/ HandshakeFails
  BY <1>2, ClosingSteps, ClosesPaced
<1>3. CASE HandleConnect
  BY <1>0, <1>3, ConnectSteps, ConnectPaced, ClosesPaced
<1>4. CASE Handshake
  BY <1>4, HandshakePaced
<1>5. CASE HandleHttp \/ ForwardRaises
  BY <1>5, HttpSteps, RaisesSteps, ClosesPaced
<1>6. CASE MitmRequest
  BY <1>0, <1>6, MitmSteps, MitmPaced, ClosesPaced
<1> QED
  BY <1>1, <1>2, <1>3, <1>4, <1>5, <1>6 DEF Serve

(* A client that waits begins no request but the one that the reader awaits. *)
LEMMA NextIsAwaited ==
  ASSUME ReadInv, Unanswered, Send, unsent = <<>>, Waits, at # "closed"
  PROVE  asked < Awaited
<1>1. Len(replies) >= (asked + 1) - 1
  BY DEF Send, CanSend, MayAsk, Waits
<1>2. Len(replies) < Awaited
  BY DEF Unanswered
<1>3. asked \in Nat /\ Awaited \in Nat /\ Len(replies) \in Nat
  <2>1. asked \in Nat
    BY Types DEF ReadInv
  <2>2. PICK R : replies \in Seq(R)
    BY DEF ReadInv, TypeOK
  <2>3. Len(replies) \in Nat
    BY <2>2
  <2> QED
    BY <2>1, <2>3, AwaitedType DEF ReadInv
<1> QED
  BY <1>1, <1>2, <1>3

(* The client does not get ahead of it. *)
LEMMA SendPaced ==
  ASSUME ReadInv, Unanswered, Send, Paced, WellRead
  PROVE  Paced' /\ WellRead'
<1>1. /\ plan' = plan /\ pipelines' = pipelines /\ prompt' = prompt /\ eof' = eof
      /\ stage' = stage /\ data' = data /\ body' = body /\ head' = head /\ clean' = clean
      /\ at' = at /\ forwarded' = forwarded /\ at # "closed"
  BY DEF Send, CanSend, readerVars, serverVars
<1>2. /\ Awaited' = Awaited /\ (Tidy' <=> Tidy) /\ (OnTime' <=> OnTime)
      /\ (Pacing' <=> Pacing) /\ (AllClean' <=> AllClean)
  <2>1. Awaited' = Awaited /\ (AllClean' <=> AllClean)
    BY <1>1 DEF Awaited, AllClean
  <2>2. (OnTime' <=> OnTime) /\ (Waits' <=> Waits)
    BY <1>1 DEF OnTime, WellFormed, Waits
  <2> QED
    BY <1>1, <2>1, <2>2 DEF Tidy, Pacing
<1>3. CASE unsent # <<>>
  <2>1. Ahead' = Ahead /\ Stream' = Stream /\ asked' = asked
    BY <1>3, SendMoreLemma
  <2>2. AtNext => AtNext'
    <3>1. RestBefore(plan, Stream, asked, Awaited, Tidy)
            => RestBefore(plan, Stream, asked, Awaited, Tidy')
      BY <1>2 DEF RestBefore
    <3> QED
      BY <1>1, <1>2, <2>1, <3>1, Zenon DEF AtNext
  <2>3. (AtAwaited => AtAwaited') /\ (ReadWhole => ReadWhole')
    BY <1>1, <1>2, <2>1, Zenon DEF AtAwaited, ReadWhole
  <2>4. Paced'
    BY <1>1, <1>2, <2>2, <2>3 DEF Paced
  <2>5. WellRead'
    BY <1>1, <1>2, <2>3 DEF WellRead
  <2> QED
    BY <2>4, <2>5
<1>4. CASE unsent = <<>>
  <2>1. /\ asked' = asked + 1 /\ asked + 1 \in DOMAIN plan
        /\ Stream' = Stream \o Encoded(plan[asked + 1], asked + 1)
    BY <1>4, SendNextLemma
  <2>2. Pacing => asked < Awaited
    BY <1>4, NextIsAwaited DEF Pacing
  <2>3. asked \in Nat /\ Awaited \in Nat /\ Stream \in Seq(Token)
    BY Types, AwaitedType DEF ReadInv
  <2>4. asked < Awaited => asked # Awaited
    BY <2>3
  <2>5. ASSUME Pacing PROVE AtNext' /\ AtAwaited'
    <3>1. asked # Awaited
      BY <2>2, <2>4, <2>5
    <3>2. AtAwaited'
      BY <1>1, <2>5, <3>1 DEF AtAwaited, Paced
    <3>3. ASSUME stage \in {"none", "header"} PROVE AtNext'
      <4>1. RestBefore(plan, Stream, asked, Awaited, Tidy)
        BY <2>5, <3>3 DEF Paced, AtNext
      <4>2. asked = Awaited - 1 /\ Rest(Stream) /\ (Tidy => Stream = <<>>)
        BY <3>1, <4>1, Zenon DEF RestBefore
      <4>3. asked + 1 = Awaited
        BY <2>3, <4>2
      <4>4. Stream' = Stream \o Encoded(plan[Awaited], Awaited)
        BY <2>1, <4>3
      <4>5. RestBefore(plan, Stream', Awaited, Awaited, Tidy')
        BY <1>2, <2>3, <4>2, <4>4, Zenon DEF RestBefore
      <4> QED
        BY <1>1, <1>2, <2>1, <4>3, <4>5, Zenon DEF AtNext
    <3> QED
      BY <1>1, <3>2, <3>3 DEF AtNext
  <2>6. Paced'
    BY <1>1, <1>2, <2>5 DEF Paced
  <2>7. WellRead'
    <3>1. ASSUME OnTime PROVE AllClean /\ clean /\ stage # "request"
      <4>1. AllClean /\ clean /\ Pacing
        BY <1>1, <3>1, WellOnItsWay
      <4>2. asked # Awaited
        BY <2>2, <2>4, <4>1
      <4> QED
        BY <4>1, <4>2 DEF Paced, AtAwaited
    <3> QED
      BY <1>1, <1>2, <3>1 DEF WellRead, ReadWhole
  <2> QED
    BY <2>6, <2>7
<1> QED
  BY <1>3, <1>4

(* Once the client has closed nothing more is asked of its stream. *)
LEMMA ClosePaced ==
  ASSUME Close \/ UNCHANGED vars, Paced, WellRead
  PROVE  Paced' /\ WellRead'
<1>1. /\ plan' = plan /\ wire' = wire /\ asked' = asked /\ unsent' = unsent
      /\ pipelines' = pipelines /\ prompt' = prompt /\ (eof => eof')
      /\ stage' = stage /\ data' = data /\ body' = body /\ head' = head /\ clean' = clean
      /\ at' = at /\ forwarded' = forwarded
  BY DEF Close, vars, clientVars, streamVars, readerVars, serverVars
<1>2. Ahead' = Ahead /\ Stream' = Stream
  BY <1>1 DEF Ahead, Stream
<1>3. /\ Awaited' = Awaited /\ (OnTime' => OnTime) /\ (Tidy' => Tidy)
      /\ (Pacing' <=> Pacing) /\ (AllClean' <=> AllClean)
  <2>1. Awaited' = Awaited /\ (AllClean' <=> AllClean)
    BY <1>1 DEF Awaited, AllClean
  <2>2. (OnTime' => OnTime) /\ Waits' = Waits
    BY <1>1, OnTimeBefore
  <2> QED
    BY <1>1, <2>1, <2>2 DEF Tidy, Pacing
<1>4. AtNext => AtNext'
  <2>1. RestBefore(plan, Stream, asked, Awaited, Tidy)
          => RestBefore(plan, Stream, asked, Awaited, Tidy')
    BY <1>3 DEF RestBefore
  <2> QED
    BY <1>1, <1>2, <1>3, <2>1, Zenon DEF AtNext
<1>5. (AtAwaited => AtAwaited') /\ (ReadWhole => ReadWhole')
  BY <1>1, <1>2, <1>3, Zenon DEF AtAwaited, ReadWhole
<1>6. Paced'
  BY <1>1, <1>3, <1>4, <1>5 DEF Paced
<1>7. WellRead'
  BY <1>1, <1>3, <1>5 DEF WellRead
<1> QED
  BY <1>6, <1>7

(* The inductive invariant. *)
Inv == ReadInv /\ Stages /\ Unanswered /\ Paced /\ WellRead

(* What the reader has before it is what the plan says, in every state.  The  *)
(* header, the chunks and the rest of a request are followed from the client  *)
(* through recv() and the local buffer of read_request().                     *)
THEOREM ConnectionFollowed ==
  Spec => []Inv
<1>1. Init => Paced /\ WellRead
  <2> SUFFICES ASSUME Init PROVE Paced /\ WellRead
    OBVIOUS
  <2>1. Stream = <<>>
    BY DEF Init, Stream, Ahead
  <2>2. /\ stage = "header" /\ at = "plain" /\ clean /\ forwarded = <<>> /\ asked = 0
    BY DEF Init
  <2>3. asked = Awaited - 1 /\ Rest(<<>>)
    BY <2>2 DEF Awaited, Rest
  <2>4. RestBefore(plan, <<>>, asked, Awaited, Tidy)
    BY <2>3, Zenon DEF RestBefore
  <2>5. AtNext
    BY <2>1, <2>4, Zenon DEF AtNext
  <2>6. AtAwaited /\ ReadWhole
    BY <2>2 DEF AtAwaited, ReadWhole, BodyStages
  <2>7. AllClean
    BY <2>2 DEF AllClean
  <2> QED
    BY <2>2, <2>5, <2>6, <2>7 DEF Paced, WellRead
<1>2. /\ ReadInv /\ Stages /\ Unanswered /\ (ReadInv /\ Stages /\ Unanswered)'
      /\ Paced /\ WellRead /\ [Next]_vars
      => (Paced /\ WellRead)'
  BY ServePaced, SendPaced, ClosePaced DEF Next
<1>3. Paced /\ WellRead /\ ReadInv /\ Stages /\ Unanswered <=> Inv
  BY DEF Inv
<1> QED
  BY <1>1, <1>2, <1>3, ReaderFollowed, PTL DEF Spec

---------------------------------------------------------------------------
(***************************************************************************)
(* What is forwarded.                                                      *)
(***************************************************************************)

(* A request is added to those that were forwarded. *)
Adds(n, f) ==
  /\ n \in Nat /\ DOMAIN forwarded = 1 .. n
  /\ DOMAIN forwarded' = 1 .. n + 1
  /\ \A i \in 1 .. n : forwarded'[i] = forwarded[i]
  /\ forwarded'[n + 1] = f

(* What ForwardsIt adds. *)
LEMMA Added ==
  ASSUME TypeOK, ForwardsIt
  PROVE  Adds(Len(forwarded), [r |-> head, clean |-> clean, body |-> body])
<1>1. PICK F : forwarded \in Seq(F)
  BY DEF TypeOK
<1>2. PICK f : f = [r |-> head, clean |-> clean, body |-> body]
  OBVIOUS
<1>3. PICK n : n = Len(forwarded)
  OBVIOUS
<1>4. n \in Nat /\ DOMAIN forwarded = 1 .. n
  BY <1>1, <1>3
<1>5. /\ DOMAIN Append(forwarded, f) = 1 .. n + 1
      /\ \A i \in 1 .. n : Append(forwarded, f)[i] = forwarded[i]
      /\ Append(forwarded, f)[n + 1] = f
  BY <1>1, <1>3
<1>6. forwarded' = Append(forwarded, f)
  BY <1>2 DEF ForwardsIt
<1> QED
  BY <1>2, <1>3, <1>4, <1>5, <1>6, Zenon DEF Adds

(* Only a request that was read is forwarded. *)
LEMMA ForwardSteps ==
  ASSUME Inv, [Next]_vars
  PROVE  /\ UNCHANGED <<plan, pipelines, prompt>> /\ (eof => eof')
         /\ \/ forwarded' = forwarded
            \/ /\ ForwardsIt /\ stage = "request"
               /\ \/ at = "plain" /\ plan[head].method # "CONNECT"
                  \/ at = "mitm"
<1>1. CASE Send \/ Close \/ UNCHANGED vars
  BY <1>1 DEF Send, Close, clientVars, serverVars, vars, streamVars
<1>2. CASE Read
  BY <1>2, ReadSteps DEF Reading, serverVars
<1>3. CASE GivesUp \/ BadRequest \/ HandshakeFails
  BY <1>3, ClosingSteps, ServingKeeps DEF Closes
<1>4. CASE HandleConnect
  BY <1>4, ConnectSteps, ServingKeeps
<1>5. CASE Handshake
  BY <1>5, ServingKeeps DEF Handshake, Serving
<1>6. CASE HandleHttp \/ ForwardRaises
  BY <1>6, HttpSteps, RaisesSteps, ServingKeeps DEF Closes
<1>7. CASE MitmRequest
  BY <1>7, MitmSteps, ServingKeeps DEF Closes
<1> QED
  BY <1>1, <1>2, <1>3, <1>4, <1>5, <1>6, <1>7 DEF Next, Serve

(* The body of request i that was forwarded is its own. *)
Own(i) ==
  LET r == forwarded[i].r
  IN  /\ r # 0
      /\ \/ plan[r].framing # "none"
         \/ Waits /\ \A j \in 1 .. i : forwarded[j].clean
      => IsPrefix(forwarded[i].body, Pieces(plan[r], r))

(* A body is its own when it is forwarded, and stays so. *)
LEMMA OwnBodyStep ==
  ASSUME Inv, [Next]_vars, OwnBody
  PROVE  OwnBody'
<1>1. plan' = plan /\ Waits' = Waits
  BY ForwardSteps DEF Waits
<1>2. CASE forwarded' = forwarded
  BY <1>1, <1>2, Zenon DEF OwnBody
<1>3. CASE ForwardsIt /\ stage = "request" /\ at # "closed"
  <2>1. PICK f : f = [r |-> head, clean |-> clean, body |-> body]
    OBVIOUS
  <2>2. f.r = head /\ f.clean = clean /\ f.body = body
    BY <2>1
  <2>3. PICK n : Adds(n, f)
    BY <1>3, <2>1, Added DEF Inv, ReadInv
  <2>4. /\ n \in Nat /\ DOMAIN forwarded = 1 .. n /\ DOMAIN forwarded' = 1 .. n + 1
        /\ \A i \in 1 .. n : forwarded'[i] = forwarded[i]
        /\ forwarded'[n + 1] = f
    BY <2>3, Zenon DEF Adds
  <2>5. \A i \in 1 .. n : Own(i)
    BY <2>4, Zenon DEF OwnBody, Own
  <2>6. ASSUME NEW i \in 1 .. n PROVE Own(i)'
    <3>1. Own(i)
      BY <2>5
    <3>2. forwarded'[i] = forwarded[i] /\ \A j \in 1 .. i : forwarded'[j] = forwarded[j]
      BY <2>4
    <3> QED
      BY <1>1, <3>1, <3>2, Zenon DEF Own
  <2>7. ASSUME head # 0,
               \/ plan[head].framing # "none"
               \/ Waits /\ \A j \in 1 .. n + 1 : forwarded'[j].clean
        PROVE  IsPrefix(body, Pieces(plan[head], head))
    <3>1. CASE plan[head].framing # "none"
      <4>1. Done(plan, body, head, asked)
        BY <1>3 DEF Inv, ReadInv, BodyRead
      <4> QED
        BY <2>7, <3>1, <4>1, Zenon DEF Done
    <3>2. CASE Waits /\ \A j \in 1 .. n + 1 : forwarded'[j].clean
      <4>1. AllClean'
        BY <2>4, <3>2, Zenon DEF AllClean
      <4>2. AllClean /\ clean
        BY <1>3, <4>1, CleanBefore DEF Inv, ReadInv
      <4>3. Pacing
        BY <1>3, <3>2, <4>2 DEF Pacing
      <4> QED
        BY <1>3, <4>2, <4>3 DEF Inv, Paced, AtAwaited
    <3> QED
      BY <2>7, <3>1, <3>2
  <2>8. Own(n + 1)'
    BY <1>1, <2>2, <2>4, <2>7, Zenon DEF Own
  <2>9. \A i \in 1 .. n + 1 : Own(i)'
    <3>1. \A i \in 1 .. n + 1 : i \in 1 .. n \/ i = n + 1
      BY <2>4
    <3> QED
      BY <2>6, <2>8, <3>1, Zenon
  <2> QED
    BY <2>4, <2>9, Zenon DEF OwnBody, Own
<1> QED
  BY <1>2, <1>3, ForwardSteps

(***************************************************************************)
(* A body that has a length or chunks is forwarded without bytes of        *)
(* another request, nor with a gap; and so is that of a request without a  *)
(* length, of a client that waits for its answers (http_parser.py).        *)
(***************************************************************************)
THEOREM BodiesAreOwn == Spec => []OwnBody
<1>1. Init => OwnBody
  BY DEF Init, OwnBody
<1>2. Inv /\ OwnBody /\ [Next]_vars => OwnBody'
  BY OwnBodyStep
<1> QED
  BY <1>1, <1>2, ConnectionFollowed, PTL DEF Spec

(* A request is whole when it is forwarded, and stays so. *)
LEMMA FaithfulStep ==
  ASSUME Inv, [Next]_vars, Faithful
  PROVE  Faithful'
<1> DEFINE Whole(i) == [r |-> Request(i), clean |-> TRUE,
                        body |-> Pieces(plan[Request(i)], Request(i))]
<1>1. plan' = plan /\ (OnTime' => OnTime)
  BY ForwardSteps, OnTimeBefore
<1>2. \A i : Request(i)' = Request(i) /\ Whole(i)' = Whole(i)
  BY <1>1 DEF Request
<1>3. SUFFICES ASSUME OnTime
               PROVE  \A i \in DOMAIN forwarded' : forwarded'[i] = Whole(i)
  BY <1>1, <1>2 DEF Faithful, OnTime
<1>4. \A i \in DOMAIN forwarded : forwarded[i] = Whole(i)
  BY <1>3 DEF Faithful, OnTime
<1>5. CASE forwarded' = forwarded
  BY <1>4, <1>5, Zenon
<1>6. CASE /\ ForwardsIt /\ stage = "request"
           /\ \/ at = "plain" /\ plan[head].method # "CONNECT"
              \/ at = "mitm"
  <2>1. PICK f : f = [r |-> head, clean |-> clean, body |-> body]
    OBVIOUS
  <2>2. PICK n : n = Len(forwarded)
    OBVIOUS
  <2>3. Adds(n, f)
    BY <1>6, <2>1, <2>2, Added DEF Inv, ReadInv
  <2>4. /\ n \in Nat /\ DOMAIN forwarded = 1 .. n /\ DOMAIN forwarded' = 1 .. n + 1
        /\ \A i \in 1 .. n : forwarded'[i] = forwarded[i]
        /\ forwarded'[n + 1] = f
    BY <2>3, Zenon DEF Adds
  <2>5. AllClean /\ clean /\ Pacing
    BY <1>3, <1>6, WellOnItsWay DEF Inv
  <2>6. head = Awaited
    BY <1>6, <2>5 DEF Inv, Paced, AtAwaited
  <2>7. body = Pieces(plan[head], head)
    BY <1>3, <1>6 DEF Inv, WellRead, ReadWhole
  <2>8. clean = TRUE
    BY <2>5, Zenon DEF Inv, ReadInv, TypeOK
  <2>9. head = Request(n + 1)
    <3>1. CASE at = "plain"
      <4>1. forwarded = <<>>
        BY <3>1 DEF Inv, Stages
      <4>2. n = 0 /\ head = 1
        BY <2>2, <2>6, <3>1, <4>1 DEF Awaited
      <4> QED
        BY <1>6, <3>1, <4>2 DEF Request
    <3>2. CASE at = "mitm"
      <4>1. plan[1].method = "CONNECT"
        BY <2>5, <3>2 DEF Inv, Paced
      <4>2. head = n + 3
        BY <2>2, <2>6, <3>2 DEF Awaited
      <4> QED
        BY <2>4, <4>1, <4>2 DEF Request
    <3> QED
      BY <1>6, <3>1, <3>2
  <2>10. f = Whole(n + 1)
    BY <2>1, <2>7, <2>8, <2>9, Zenon
  <2>11. \A i \in 1 .. n + 1 : i \in 1 .. n \/ i = n + 1
    BY <2>4
  <2> QED
    BY <1>4, <2>4, <2>10, <2>11, Zenon
<1> QED
  BY <1>5, <1>6, ForwardSteps

(***************************************************************************)
(* A client that knows the protocol, waits for its answers and is never    *)
(* slower than the timeout has its requests forwarded in order, each with  *)
(* its whole body (proxy.py, http_parser.py).                              *)
(***************************************************************************)
THEOREM WellBehavedIsServed == Spec => []Faithful
<1>1. Init => Faithful
  BY DEF Init, Faithful
<1>2. Inv /\ Faithful /\ [Next]_vars => Faithful'
  BY FaithfulStep
<1> QED
  BY <1>1, <1>2, ConnectionFollowed, PTL DEF Spec
=============================================================================
