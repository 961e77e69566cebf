------------------------------ MODULE ClientConn ------------------------------
(***************************************************************************)
(* One client connection on its worker thread: handle_client(), the        *)
(* CONNECT handshake, the loop over decrypted requests of proxy.py, and    *)
(* Connection, which turns every failure to read into an end of stream.    *)
(* The client is the environment: it sends its plan token by token, may    *)
(* send requests ahead of the answers, may be slow, and may close.         *)
(***************************************************************************)
EXTENDS HttpReader

CONSTANTS
  Plans,         \* the plans a client may have
  MaxRequests    \* requests of one TLS connection: 100 in the code

ASSUME PlansAssumption == Plans \subseteq Seq(RequestShape)
ASSUME MaxRequestsAssumption == MaxRequests \in Nat \ {0}

VARIABLES
  pipelines,   \* the client does not wait for answers
  prompt,      \* the client is never slower than the timeout of 300 s
  asked,       \* requests of the plan that it has begun
  unsent,      \* tokens left of the one it is sending
  at,          \* where handle_client is
  forwarded,   \* what was given to upstream.forward()
  replies      \* what the client was sent

clientVars == <<plan, pipelines, prompt, asked, unsent>>
serverVars == <<at, forwarded, replies>>
vars == <<clientVars, streamVars, readerVars, serverVars>>

TypeOK ==
  /\ plan \in Plans
  /\ wire \in Seq(Token)
  /\ eof \in BOOLEAN
  /\ stage \in {"none", "header", "length", "size", "chunk", "trailers",
                "request", "nothing"}
  /\ data \in Seq(Token)
  /\ body \in Seq(Token)
  /\ head \in 0 .. Len(plan)
  /\ clean \in BOOLEAN
  /\ pipelines \in BOOLEAN
  /\ prompt \in BOOLEAN
  /\ asked \in 0 .. Len(plan)
  /\ unsent \in Seq(Token)
  /\ at \in {"plain", "handshake", "mitm", "closed"}
  /\ forwarded \in Seq([r : 0 .. Len(plan), clean : BOOLEAN, body : Seq(Token)])
  /\ replies \in Seq({"established", "tls", "answer", "bad_request"})

Init ==
  /\ plan \in Plans
  /\ wire = <<>>
  /\ eof = FALSE
  /\ stage = "header"
  /\ data = <<>>
  /\ body = <<>>
  /\ head = 0
  /\ clean = TRUE
  /\ pipelines \in BOOLEAN
  /\ prompt \in BOOLEAN
  /\ asked = 0
  /\ unsent = <<>>
  /\ at = "plain"
  /\ forwarded = <<>>
  /\ replies = <<>>

---------------------------------------------------------------------------
(* The client. *)

(* Nothing can be encrypted before the handshake is over. *)
MayAsk(r) ==
  /\ r <= Len(plan)
  /\ \/ Len(replies) >= r - 1
     \/ pipelines /\ (plan[1].method = "CONNECT" /\ r > 2 => at = "mitm")

CanSend == ~eof /\ at # "closed" /\ (unsent # <<>> \/ MayAsk(asked + 1))

Send ==
  /\ CanSend
  /\ LET next == IF unsent = <<>>
                 THEN Encoded(plan[asked + 1], asked + 1)
                 ELSE unsent
     IN  /\ wire' = Append(wire, next[1])
         /\ unsent' = Tail(next)
  /\ asked' = IF unsent = <<>> THEN asked + 1 ELSE asked
  /\ UNCHANGED <<plan, pipelines, prompt, eof, readerVars, serverVars>>

Close ==
  /\ ~eof
  /\ at # "closed"
  /\ eof' = TRUE
  /\ UNCHANGED <<clientVars, wire, readerVars, serverVars>>

---------------------------------------------------------------------------
(* The worker thread. *)

(* Mutant of TimesOut: settimeout(None). *)
NeverTimesOut == FALSE

(* settimeout(300) of Connection: a prompt client is heard in time. *)
TimesOut == prompt => ~CanSend

Read ==
  /\ at \in {"plain", "mitm"}
  /\ \/ Recv
     \/ Parse
     \/ (eof \/ TimesOut) /\ RecvNothing
  /\ UNCHANGED <<pipelines, prompt, asked, unsent, serverVars>>

Reply(what) == replies' = Append(replies, what)

Stops == at' = "closed" /\ UNCHANGED readerVars

Goes(from, result) ==
  /\ at = from
  /\ stage = result
  /\ UNCHANGED <<clientVars, streamVars>>

(* read_request() returns None: the connection is closed without a word. *)
GivesUp ==
  /\ Goes("plain", "nothing") \/ Goes("mitm", "nothing")
  /\ Stops
  /\ UNCHANGED <<forwarded, replies>>

(* _extract_host_port() finds the Host header. *)
HasHost == plan[head].host

BadRequest ==
  /\ Goes("plain", "request")
  /\ ~HasHost
  /\ Reply("bad_request")
  /\ Stops
  /\ UNCHANGED forwarded

(* _handle_connect(): what followed the CONNECT is not looked at. *)
HandleConnect ==
  /\ Goes("plain", "request")
  /\ HasHost
  /\ plan[head].method = "CONNECT"
  /\ \/ Reply("established") /\ at' = "handshake" /\ stage' = "none"
          /\ UNCHANGED <<data, body, head, clean>>
     \/ eof /\ Stops /\ UNCHANGED replies
  /\ UNCHANGED forwarded

(* _run_mitm(): the TLS handshake succeeds. *)
Handshake ==
  /\ at = "handshake"
  /\ wire # <<>>
  /\ wire[1].t = "hello"
  /\ wire' = Tail(wire)
  /\ at' = "mitm"
  /\ Reply("tls")
  /\ BeginReading
  /\ UNCHANGED <<clientVars, eof, forwarded>>

(* The client refuses the certificate, goes away or says nothing. *)
HandshakeFails ==
  /\ at = "handshake"
  /\ wire # <<>> \/ eof \/ TimesOut
  /\ Stops
  /\ UNCHANGED <<clientVars, streamVars, forwarded, replies>>

Hands(bytes) ==
  forwarded' = Append(forwarded, [r |-> head, clean |-> clean, body |-> bytes])

ForwardsBody(bytes) ==
  /\ Hands(bytes)
  /\ Reply("answer") \/ (eof /\ UNCHANGED replies)

(* Mutant of Forwards: None in the place of an empty body. *)
ForwardsNone == ForwardsBody(IF body = <<>> THEN <<Tok("none", head, 0)>> ELSE body)

(* forward() answers, or tries to, and returns. *)
Forwards == ForwardsBody(body)

IsHttp ==
  /\ Goes("plain", "request")
  /\ HasHost
  /\ plan[head].method # "CONNECT"

HandleHttp == IsHttp /\ Forwards /\ Stops

(* forward() raises: on the direct path the body of the answer is read      *)
(* outside the try (upstream.py:206).  The connection is closed without a   *)
(* word, also that of _mitm_loop().                                         *)
ForwardRaises ==
  /\ IsHttp \/ Goes("mitm", "request")
  /\ Hands(body)
  /\ Stops
  /\ UNCHANGED replies

ServesWhile(more) ==
  /\ Goes("mitm", "request")
  /\ Forwards
  /\ IF more /\ ~(head # 0 /\ plan[head].close)
     THEN BeginReading /\ at' = at
     ELSE Stops

(* Mutant of MitmRequest: range(1, 100). *)
MitmRequestOneLess == ServesWhile(Len(forwarded) + 2 < MaxRequests)

(* One round of _mitm_loop(). *)
MitmRequest == ServesWhile(Len(forwarded) + 1 < MaxRequests)

Serve ==
  \/ Read \/ GivesUp \/ BadRequest \/ HandleConnect \/ Handshake
  \/ HandshakeFails \/ HandleHttp \/ MitmRequest \/ ForwardRaises

Next == Send \/ Close \/ Serve

(***************************************************************************)
(* The worker thread runs, and its timeouts expire.  A prompt client sends *)
(* what it has to send; nothing is assumed of another one.                 *)
(***************************************************************************)
Spec ==
  /\ Init
  /\ [][Next]_vars
  /\ WF_vars(Serve)
  /\ WF_vars(prompt /\ Send)

---------------------------------------------------------------------------
(* A client that knows the protocol. *)
WellFormed ==
  \A r \in DOMAIN plan :
    /\ plan[r].framing \notin {"bad_length", "bad_chunk"}
    /\ plan[r].framing = "none" => plan[r].size = 0
    /\ ~plan[r].junk

Waits == ~pipelines

(* The request of the plan that is the i-th to be given to forward(): behind *)
(* CONNECT and the handshake, or without them.                               *)
Request(i) == IF plan[1].method = "CONNECT" THEN i + 2 ELSE i

(***************************************************************************)
(* What a well-behaved client has forwarded is what it sent: its requests  *)
(* in order, each with its whole body, however the bytes were split and    *)
(* whatever it left unanswered between two requests.                       *)
(***************************************************************************)
Faithful ==
  WellFormed /\ Waits /\ prompt /\ ~eof =>
    \A i \in DOMAIN forwarded :
      LET r == Request(i)
      IN  forwarded[i] = [r |-> r, clean |-> TRUE, body |-> Pieces(plan[r], r)]

(***************************************************************************)
(* A body that has a length or chunks is forwarded without bytes of        *)
(* another request, nor with a gap: of a slow, malformed or broken off one *)
(* the end is missing.  Behind a request without a length there may be     *)
(* others: that its body, too, is its own is true of a client that waits   *)
(* for its answers, until the rest of a request that was cut short is      *)
(* taken for a request and answered.  Then the client is an answer ahead.  *)
(***************************************************************************)
OwnBody ==
  \A i \in DOMAIN forwarded :
    LET r == forwarded[i].r
    IN  /\ r # 0
        /\ \/ plan[r].framing # "none"
           \/ Waits /\ \A j \in 1 .. i : forwarded[j].clean
        => IsPrefix(forwarded[i].body, Pieces(plan[r], r))

(* The client has sent all of request r. *)
Complete(r) == asked > r \/ (asked = r /\ unsent = <<>>)

(***************************************************************************)
(* The reader of a body sits out its timeout for a request that is         *)
(* complete only after a last chunk without trailers, whatever the client  *)
(* sent before or behind it: the blank line it looks for then has lost its *)
(* first half (http_parser.py:130-149).                                    *)
(***************************************************************************)
WaitsForTheMissing ==
  [][RecvNothing /\ stage # "header" =>
         \/ ~Complete(head)
         \/ stage = "trailers" /\ plan[head].framing = "chunked"]_vars

(***************************************************************************)
(* The worker thread is free again, whether its client is slow, breaks     *)
(* off or goes away: every read ends by its timeout.  What a client has to *)
(* send is finite; the code limits neither the size of a chunked body nor  *)
(* the time it may take (http_parser.py:122).                              *)
(***************************************************************************)
Ends == <>(at = "closed")

(* The last request given to forward() has no answer. *)
Raised ==
  Len(forwarded) > Cardinality({i \in DOMAIN replies : replies[i] = "answer"})

(* Replies due to a client that sends its whole plan. *)
Due ==
  IF plan[1].method # "CONNECT" \/ ~plan[1].host THEN 1
  ELSE LET n == Len(plan) - 2
           last == {i \in 1 .. n :
                      plan[Request(i)].close \/ i = MaxRequests \/ i = n}
       IN  2 + Min(last)

(***************************************************************************)
(* A well-behaved client that accepts the certificate is answered every    *)
(* request up to its Connection: close or the limit of the loop, or up to  *)
(* the one that forward() raises for.                                      *)
(***************************************************************************)
Answered ==
  WellFormed /\ Waits /\ prompt =>
    <>(\/ eof
       \/ Len(replies) = Due
       \/ at = "closed" /\ (Len(replies) = 1 \/ Raised))

---------------------------------------------------------------------------
(***************************************************************************)
(* http_parser.py:143: "Read trailing CRLF after last chunk, then optional *)
(* trailers": a client need not send any to be answered, nobody waits for  *)
(* the rest of a request that is complete.                                 *)
(***************************************************************************)
TrailersOptional ==
  [][RecvNothing /\ stage = "trailers" => ~Complete(head)]_vars
=============================================================================
