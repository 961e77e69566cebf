---------------------------- MODULE MCClientConn ----------------------------
(***************************************************************************)
(* Plans with every framing, well-formed and not, alone and followed by    *)
(* others; MaxRequests = 3 lets the fourth meet the limit.                 *)
(***************************************************************************)
EXTENDS ClientConn

Get(framing, size) ==
  [method |-> "GET", host |-> TRUE, junk |-> FALSE, close |-> FALSE,
   framing |-> framing, size |-> size]

Connect == [Get("none", 0) EXCEPT !.method = "CONNECT"]
Hello == [Get("hello", 0) EXCEPT !.method = "TLS"]
Tunnel(requests) == <<Connect, Hello>> \o requests

Plain ==
  {<<Get("none", 0)>>, <<[Get("length", 2) EXCEPT !.host = FALSE]>>,
   <<[Get("none", 0) EXCEPT !.junk = TRUE]>>,
   <<Get("chunked", 2)>>, <<Get("none", 1)>>}

Good == {Get("none", 0), Get("length", 2), Get("chunked", 1), Get("trailered", 1)}
Bad == {Get("bad_length", 1), Get("bad_chunk", 1), Get("none", 1)}

MCPlans ==
  Plain
    \cup {Tunnel(<<a, b>>) : a \in Good \cup Bad, b \in Good}
    \cup {Tunnel(<<Get("none", 0), Get("length", 1), Get("none", 0)>>),
          Tunnel(<<Get("chunked", 1), Get("none", 0), Get("none", 0)>>),
          Tunnel(<<Get("none", 0), Get("length", 1), Get("none", 0), Get("none", 0)>>),
          Tunnel(<<[Get("length", 1) EXCEPT !.close = TRUE], Get("none", 0)>>)}

ChunkedPlans == {<<Get("chunked", 1)>>, Tunnel(<<Get("chunked", 1), Get("none", 0)>>)}
=============================================================================
