------------------------------ MODULE HttpReader ------------------------------
(***************************************************************************)
(* read_request() of http_parser.py, with its two body readers, on top of  *)
(* Connection.recv(): a request is cut out of a stream of bytes that       *)
(* arrive in pieces, stop in the middle or do not come at all.             *)
(*                                                                         *)
(* A token stands for a run of bytes that the parser looks at as a whole:  *)
(* a request line with its headers, a line end, a chunk-size line, a piece *)
(* of a body, a trailer.  A blank line is two line ends.  The bytes after  *)
(* a body that came with it are in the local variable data and die there.  *)
(*                                                                         *)
(* A line end is CR LF.  A client that ends its lines with a bare LF is    *)
(* not modelled: lines 144 and 234 take that for a line end as well, and   *)
(* line 124 does not, so its chunks would never be recognised.             *)
(***************************************************************************)
EXTENDS Naturals, Sequences, SequencesExt

VARIABLES
  plan,    \* the requests of the client, in order
  wire,    \* tokens sent and not yet received
  eof,     \* the client has closed its side
  stage,   \* the loop the reader is in, "none" when it is not reading
  data,    \* bytes received and not consumed
  body,    \* the body so far
  head,    \* the request whose header was parsed, 0 before or without one
  clean    \* the request line was the client's own

streamVars == <<wire, eof>>
readerVars == <<stage, data, body, head, clean>>

Framings == {"none", "length", "chunked", "trailered", "bad_length", "bad_chunk",
             "hello"}

(* A request of a client: size counts the pieces of its body.  The opening  *)
(* of the TLS handshake has the framing "hello".                            *)
RequestShape == [method : {"GET", "CONNECT", "TLS"}, host : BOOLEAN,
                 junk : BOOLEAN, close : BOOLEAN, framing : Framings, size : Nat]

Token == [t : {"hdr", "crlf", "dat", "size", "bad_size", "zero", "trailer",
               "hello"},
          r : Nat, k : Nat]

Tok(t, r, k) == [t |-> t, r |-> r, k |-> k]

---------------------------------------------------------------------------
(* What a client sends for q, the request r of its plan. *)

Pieces(q, r) == [k \in 1 .. q.size |-> Tok("dat", r, k)]

Crlf(r) == <<Tok("crlf", r, 0)>>

(* The chunks of a body behind its first n, one piece each. *)
Chunks(q, r, n) ==
  [j \in 1 .. 4 * (q.size - n) |->
     LET k == n + 1 + (j - 1) \div 4
     IN  CASE j % 4 = 1 -> Tok("size", r, k)
           [] j % 4 = 3 -> Tok("dat", r, k)
           [] OTHER -> Tok("crlf", r, 0)]

Chunked == {"chunked", "trailered", "bad_chunk"}

(* What ends the chunks. *)
LastLines(q, r) ==
  CASE q.framing = "chunked" -> <<Tok("zero", r, 0)>> \o Crlf(r) \o Crlf(r)
    [] q.framing = "trailered" ->
         <<Tok("zero", r, 0)>> \o Crlf(r)
           \o <<Tok("trailer", r, 0)>> \o Crlf(r) \o Crlf(r)
    [] q.framing = "bad_chunk" -> <<Tok("bad_size", r, 0)>> \o Crlf(r)

EncodedBody(q, r) ==
  IF q.framing \in Chunked THEN Chunks(q, r, 0) \o LastLines(q, r) ELSE Pieces(q, r)

Encoded(q, r) ==
  IF q.framing = "hello" THEN <<Tok("hello", r, 0)>>
  ELSE <<Tok("hdr", r, 0)>> \o Crlf(r) \o Crlf(r) \o EncodedBody(q, r)

---------------------------------------------------------------------------
(* Connection.recv() *)

LineEnds(s) == {i \in DOMAIN s : s[i].t = "crlf"}
BlankLines(s) == {i \in LineEnds(s) : i + 1 \in LineEnds(s)}

(* int(Content-Length), 0 when that raises. *)
ContentLength(r) == IF plan[r].framing = "length" THEN plan[r].size ELSE 0

(* The condition of the loop that the reader is in. *)
NeedsMore ==
  CASE stage = "header" -> BlankLines(data) = {}
    [] stage = "length" -> Len(body) < ContentLength(head)
    [] stage = "size" -> LineEnds(data) = {}
    [] stage = "chunk" -> Len(data) < 2
    [] stage = "trailers" -> BlankLines(data) = {}
    [] OTHER -> FALSE

(* What has arrived, but no more of a body than its length. *)
Recv ==
  /\ NeedsMore
  /\ wire # <<>>
  /\ LET n == IF stage = "length"
              THEN Min({Len(wire), ContentLength(head) - Len(body)})
              ELSE Len(wire)
         got == SubSeq(wire, 1, n)
     IN  /\ wire' = SubSeq(wire, n + 1, Len(wire))
         /\ IF stage = "length"
            THEN body' = body \o got /\ data' = data
            ELSE data' = data \o got /\ body' = body
  /\ UNCHANGED <<plan, eof, stage, head, clean>>

---------------------------------------------------------------------------
(* read_request(): results are the stages "request" and "nothing". *)

BeginReading ==
  /\ stage' = "header"
  /\ data' = <<>>
  /\ body' = <<>>
  /\ head' = 0
  /\ clean' = TRUE

Framing(r) == IF r = 0 THEN "none" ELSE plan[r].framing

(* The body reader that the headers of r choose, on the bytes behind them. *)
BeginBody(r, prefix) ==
  /\ head' = r
  /\ CASE Framing(r) \in Chunked ->
            stage' = "size" /\ data' = prefix /\ body' = <<>>
       [] Framing(r) \in {"length", "bad_length"} ->
            stage' = "length" /\ data' = <<>> /\ body' = prefix
       [] Framing(r) = "none" ->
            stage' = "request" /\ data' = <<>> /\ body' = prefix

(* Mutant of ParseHeader: the bytes behind the header are not kept. *)
ParseHeaderOnly ==
  /\ stage = "header"
  /\ BlankLines(data) # {}
  /\ clean' = TRUE
  /\ BeginBody(data[1].r, <<>>)
  /\ UNCHANGED <<plan, streamVars>>

(* parse_http_header() at the first blank line.  When the first bytes are   *)
(* not the start of a request, they are taken for one if they hold a blank, *)
(* with the header lines that follow.                                       *)
ParseHeader ==
  /\ stage = "header"
  /\ BlankLines(data) # {}
  /\ LET end == Min(BlankLines(data))
         prefix == SubSeq(data, end + 2, Len(data))
         heads == {i \in 1 .. end : data[i].t = "hdr"}
     IN  \/ /\ heads # {}
            /\ LET r == data[CHOOSE i \in heads : TRUE].r
               IN  \/ ~plan[r].junk /\ clean' = (1 \in heads) /\ BeginBody(r, prefix)
                   \/ /\ plan[r].junk \/ 1 \notin heads
                      /\ stage' = "nothing"
                      /\ UNCHANGED <<data, body, head, clean>>
         \/ /\ heads = {}
            /\ \/ clean' = FALSE /\ BeginBody(0, prefix)
               \/ stage' = "nothing" /\ UNCHANGED <<data, body, head, clean>>
  /\ UNCHANGED <<plan, streamVars>>

(* read_content_length_body() has enough. *)
LengthRead ==
  /\ stage = "length"
  /\ ~NeedsMore
  /\ stage' = "request"
  /\ body' = SubSeq(body, 1, ContentLength(head))
  /\ UNCHANGED <<plan, streamVars, data, head, clean>>

(* A chunk-size line: a size, zero, or something else, which ends the body. *)
SizeLine ==
  /\ stage = "size"
  /\ ~NeedsMore
  /\ LET end == Min(LineEnds(data))
         line == SubSeq(data, 1, end - 1)
         t == IF Len(line) = 1 THEN line[1].t ELSE "other"
     IN  /\ stage' = IF t = "size" THEN "chunk"
                     ELSE IF t = "zero" THEN "trailers" ELSE "request"
         /\ data' = SubSeq(data, end + 1, Len(data))
  /\ UNCHANGED <<plan, streamVars, body, head, clean>>

ConsumeChunk(n) ==
  /\ stage = "chunk"
  /\ ~NeedsMore
  /\ body' = body \o SubSeq(data, 1, n)
  /\ data' = SubSeq(data, 3, Len(data))
  /\ stage' = "size"
  /\ UNCHANGED <<plan, streamVars, head, clean>>

(* Mutant of Chunk: body.extend(data[:needed]). *)
ChunkWithLineEnd == ConsumeChunk(2)

(* The data of a chunk goes to the body, its line end is dropped. *)
Chunk == ConsumeChunk(1)

(* A blank line after the zero chunk, wherever it comes from. *)
Trailers ==
  /\ stage = "trailers"
  /\ ~NeedsMore
  /\ stage' = "request"
  /\ UNCHANGED <<plan, streamVars, data, body, head, clean>>

(* recv() returns nothing: at the end of the stream, on an error, after the *)
(* socket's timeout.  A header is given up, a body is taken as it is.       *)
RecvNothing ==
  /\ NeedsMore
  /\ wire = <<>>
  /\ stage' = IF stage = "header" THEN "nothing" ELSE "request"
  /\ UNCHANGED <<plan, streamVars, data, body, head, clean>>

Parse == ParseHeader \/ LengthRead \/ SizeLine \/ Chunk \/ Trailers
=============================================================================
