-------------------------------- MODULE Socks5 --------------------------------
(***************************************************************************)
(* One SOCKS5 session of socks5.py: the handshake read field by field, the *)
(* connection to the target, and the relay, a single thread that waits for *)
(* either socket and then writes to the other one until all is written.    *)
(*                                                                         *)
(* Buffers of the kernel hold at most Cap tokens; a token is a field of    *)
(* the handshake, a reply, or a numbered piece of the tunnelled data.      *)
(***************************************************************************)
EXTENDS Naturals, Sequences, SequencesExt

CONSTANTS
  Openings,   \* what clients may send first, as sequences of fields
  MaxData,    \* bound: pieces that each side sends through the tunnel
  Cap         \* pieces that a socket buffer holds

ASSUME BoundsAssumption == Cap \in Nat \ {0} /\ MaxData \in Nat

Sides == {"client", "target"}
Verdicts == {"ok", "refused", "bad_command", "bad_type"}

(* "version" announces methods, "version_only" none. *)
Fields == {"version", "version_only", "wrong_version", "methods", "ipv4", "name",
           "other_type", "bind", "address", "length", "domain", "port"}

ASSUME OpeningsAssumption == Openings \subseteq Seq(Fields)

VARIABLES
  opening,     \* fields that the client has not sent yet
  said,        \* pieces of data that each side has sent
  peer,        \* "open", "half" when it has ended its stream, "gone"
  stubborn,    \* sides that read nothing before they have sent everything
  from,        \* from[s]: buffer of what s has sent and the proxy not read
  to,          \* to[s]: buffer of what the proxy has sent and s not read
  got,         \* what each side has read
  stage,       \* where the session is
  holding,     \* the local variable data, as far as it is not written
  targetToo    \* the target was in r as well when select() returned

peerVars == <<opening, said, peer, stubborn>>
vars == <<peerVars, from, to, got, stage, holding, targetToo>>

Handshaking == {"greeting", "methods", "request", "address", "length",
                "domain", "port", "connecting"}

Token == [what : Fields \cup Verdicts \cup {"method", "data"}, k : 0 .. MaxData]

Tok(what) == [what |-> what, k |-> 0]
Piece(k) == [what |-> "data", k |-> k]

TypeOK ==
  /\ opening \in Seq(Fields)
  /\ said \in [Sides -> 0 .. MaxData]
  /\ peer \in [Sides -> {"open", "half", "gone"}]
  /\ stubborn \subseteq Sides
  /\ from \in [Sides -> Seq(Token)]
  /\ \A s \in Sides : Len(from[s]) <= Cap
  /\ to \in [Sides -> Seq(Token)]
  /\ got \in [Sides -> Seq(Token)]
  /\ holding \in Seq(Token) /\ Len(holding) <= Cap
  /\ stage \in Handshaking \cup {"select", "to_target", "from_target",
                                 "to_client", "closed"}
  /\ stage \in {"to_target", "to_client"} => holding # <<>>
  /\ targetToo \in BOOLEAN
  /\ targetToo => stage \in {"to_target", "from_target", "closed"}

Init ==
  /\ opening \in Openings
  /\ said = [s \in Sides |-> 0]
  /\ peer = [s \in Sides |-> "open"]
  /\ stubborn \in SUBSET Sides
  /\ from = [s \in Sides |-> <<>>]
  /\ to = [s \in Sides |-> <<>>]
  /\ got = [s \in Sides |-> <<>>]
  /\ stage = "greeting"
  /\ holding = <<>>
  /\ targetToo = FALSE

---------------------------------------------------------------------------
(* The client and the target. *)

Connected(s) == s = "client" \/ stage \notin Handshaking

Puts(s, token) == from' = [from EXCEPT ![s] = Append(@, token)]

CanSend(s) == peer[s] = "open" /\ Connected(s) /\ Len(from[s]) < Cap

SendField ==
  /\ CanSend("client")
  /\ opening # <<>>
  /\ Puts("client", Tok(Head(opening)))
  /\ opening' = Tail(opening)
  /\ UNCHANGED <<said, peer, stubborn, to, got, stage, holding, targetToo>>

(* Also before the answer: nothing makes the client wait for it. *)
SendData(s) ==
  /\ CanSend(s)
  /\ s = "client" => opening = <<>>
  /\ said[s] < MaxData
  /\ Puts(s, Piece(said[s] + 1))
  /\ said' = [said EXCEPT ![s] = @ + 1]
  /\ UNCHANGED <<opening, peer, stubborn, to, got, stage, holding, targetToo>>

Finished(s) == peer[s] # "open" \/ said[s] = MaxData

ReadData(s) ==
  /\ peer[s] # "gone"
  /\ to[s] # <<>>
  /\ s \in stubborn => Finished(s)
  /\ got' = [got EXCEPT ![s] = Append(@, Head(to[s]))]
  /\ to' = [to EXCEPT ![s] = Tail(@)]
  /\ UNCHANGED <<peerVars, from, stage, holding, targetToo>>

(* shutdown() of the sending side, or close() of the whole socket. *)
Ends(s) ==
  /\ Connected(s)
  /\ \/ peer[s] = "open" /\ peer' = [peer EXCEPT ![s] = "half"]
     \/ peer[s] # "gone" /\ peer' = [peer EXCEPT ![s] = "gone"]
  /\ UNCHANGED <<opening, said, stubborn, from, to, got, stage, holding, targetToo>>

---------------------------------------------------------------------------
(* The handshake. *)

Session == UNCHANGED <<peerVars, got, holding, targetToo>>

(* sendall of a reply, which is small, and raises for a client that is gone. *)
Reply(reply) == to' = [to EXCEPT !.client = Append(@, Tok(reply))]

(* Mutant of TakesField: recv() of what there is, cut to the field. *)
TakesAll(fields) ==
  /\ from["client"] # <<>>
  /\ Head(from["client"]).what \in fields
  /\ from' = [from EXCEPT !.client = <<>>]

(* _recv_exact: one field, and not a byte more. *)
TakesField(fields) ==
  /\ from["client"] # <<>>
  /\ Head(from["client"]).what \in fields
  /\ from' = [from EXCEPT !.client = Tail(@)]

Field(at, fields, next) ==
  /\ stage = at
  /\ TakesField(fields)
  /\ stage' = next
  /\ UNCHANGED to
  /\ Session

Answers(at, fields, reply, next) ==
  /\ stage = at
  /\ TakesField(fields)
  /\ Reply(reply)
  /\ stage' = next
  /\ Session

(* _socks5_handshake *)
Greeting ==
  \/ Field("greeting", {"wrong_version"}, "closed")
  \/ Field("greeting", {"version"}, "methods")
  \/ Answers("methods", {"methods"}, "method", "request")
  \/ Answers("greeting", {"version_only"}, "method", "request")

(* _read_connect: the command, the address in one of its forms, the port. *)
ReadConnect ==
  \/ Field("request", {"ipv4"}, "address")
  \/ Field("request", {"name"}, "length")
  \/ Answers("request", {"bind"}, "bad_command", "closed")
  \/ Answers("request", {"other_type"}, "bad_type", "closed")
  \/ Field("address", {"address"}, "port")
  \/ Field("length", {"length"}, "domain")
  \/ Field("domain", {"domain"}, "port")
  \/ Field("port", {"port"}, "connecting")

(* The stream ends in the middle: at the command the client is still told. *)
HandshakeEof ==
  /\ stage \in Handshaking \ {"connecting"}
  /\ from["client"] = <<>>
  /\ peer["client"] # "open"
  /\ IF stage = "request" THEN Reply("bad_command") ELSE UNCHANGED to
  /\ stage' = "closed"
  /\ UNCHANGED from
  /\ Session

(* Mutant of HandshakeRaises: a client's socket without a timeout. *)
HandshakeWaits == FALSE

(* settimeout(30), or a name that cannot be encoded: closed without a word. *)
HandshakeRaises ==
  /\ stage \in Handshaking
  /\ stage' = "closed"
  /\ UNCHANGED <<from, to>>
  /\ Session

ConnectFails ==
  /\ stage = "connecting"
  /\ Reply("refused")
  /\ stage' = "closed"
  /\ UNCHANGED from
  /\ Session

ConnectTarget ==
  /\ stage = "connecting"
  /\ Reply("ok")
  /\ stage' = "select"
  /\ UNCHANGED from
  /\ Session

---------------------------------------------------------------------------
(* The relay. *)

Readable(s) == from[s] # <<>> \/ peer[s] # "open"

(* Mutant of RelayRecv: the end of a stream is written like any data. *)
RelayRecvNoEof(s, writing) ==
  /\ Readable(s)
  /\ holding' = from[s]
  /\ from' = [from EXCEPT ![s] = <<>>]
  /\ stage' = writing
  /\ UNCHANGED <<peerVars, to, got>>

(* recv(65536) on a readable socket: the end of a stream ends the session. *)
RelayRecv(s, writing) ==
  /\ Readable(s)
  /\ holding' = from[s]
  /\ from' = [from EXCEPT ![s] = <<>>]
  /\ stage' = IF from[s] = <<>> THEN "closed" ELSE writing
  /\ UNCHANGED <<peerVars, to, got>>

(* Mutant of Select: the client is read, whether it has data or not. *)
SelectClient ==
  /\ stage = "select"
  /\ RelayRecv("client", "to_target") /\ targetToo' = Readable("target")

(* select() returns; the client is served first. *)
Select ==
  /\ stage = "select"
  /\ IF Readable("client")
     THEN RelayRecv("client", "to_target") /\ targetToo' = Readable("target")
     ELSE RelayRecv("target", "to_client") /\ UNCHANGED targetToo

(* The second half of a round, for the target that select() reported. *)
SelectTarget ==
  /\ stage = "from_target"
  /\ targetToo' = FALSE
  /\ IF targetToo THEN RelayRecv("target", "to_client")
     ELSE stage' = "select" /\ UNCHANGED <<peerVars, from, to, got, holding>>

(* sendall: piece by piece, as the buffer of the receiver has room. *)
RelaySend(s, rest) ==
  /\ holding # <<>>
  /\ peer[s] # "gone"
  /\ Len(to[s]) < Cap
  /\ to' = [to EXCEPT ![s] = Append(@, Head(holding))]
  /\ holding' = rest
  /\ UNCHANGED <<peerVars, from, got, targetToo>>

Written(s, next) ==
  /\ stage' = IF holding' = <<>> THEN next ELSE stage

(* Mutant of SendToTarget: send() in the place of sendall(). *)
SendOnceToTarget ==
  /\ stage = "to_target"
  /\ RelaySend("target", <<>>)
  /\ Written("target", "from_target")

SendToTarget ==
  /\ stage = "to_target"
  /\ RelaySend("target", Tail(holding))
  /\ Written("target", "from_target")

SendToClient ==
  /\ stage = "to_client"
  /\ RelaySend("client", Tail(holding))
  /\ Written("client", "select")

(* A write to a socket that was closed raises. *)
RelayRaises ==
  /\ \/ stage = "to_target" /\ peer["target"] = "gone"
     \/ stage = "to_client" /\ peer["client"] = "gone"
  /\ stage' = "closed"
  /\ UNCHANGED <<peerVars, from, to, got, holding, targetToo>>

Handshake ==
  Greeting \/ ReadConnect \/ HandshakeEof \/ HandshakeRaises
    \/ ConnectFails \/ ConnectTarget

Relay == Select \/ SelectTarget \/ SendToTarget \/ SendToClient \/ RelayRaises

Peers ==
  SendField \/ \E s \in Sides : SendData(s) \/ ReadData(s) \/ Ends(s)

Next == Peers \/ Handshake \/ Relay

(* The session runs, and its peers read; nobody need send or end anything. *)
Spec ==
  /\ Init
  /\ [][Next]_vars
  /\ WF_vars(Handshake)
  /\ WF_vars(Relay)
  /\ \A s \in Sides : WF_vars(ReadData(s))

---------------------------------------------------------------------------
(* The data in a stream of tokens: what follows the handshake. *)
Data(s) ==
  LET start == Max({0} \cup {i \in DOMAIN s : s[i].what # "data"})
  IN  [i \in 1 .. Len(s) - start |-> s[start + i].k]

(* What the client is told: Told are the places of verdicts in Replies. *)
Replies == got["client"] \o to["client"]

Told == {i \in DOMAIN Replies : Replies[i].what \in Verdicts}

Verdict ==
  IF Told = {} THEN "none"
  ELSE IF \E i \in Told : Told = {i} THEN Replies[Max(Told)].what
  ELSE "contradictory"

Succeeded == Verdict = "ok"

Other(s) == IF s = "client" THEN "target" ELSE "client"

(***************************************************************************)
(* A session does what TunnelContract promises, whatever the client sends  *)
(* first, when it sends it, and when either side ends.                     *)
(***************************************************************************)
Contract ==
  INSTANCE TunnelContract WITH
    Directions <- Sides,
    verdict <- Verdict,
    sent <- [s \in Sides |-> [k \in 1 .. said[s] |-> k]],
    received <- [s \in Sides |-> Data(got[Other(s)])]

ImplementsContract == Contract!Spec

(* What the relay has in hands for the receiver of s. *)
Held(s) ==
  IF stage = (IF s = "client" THEN "to_target" ELSE "to_client")
  THEN holding ELSE <<>>

(* What has left s and not been lost, from its reader back to s. *)
Underway(s) ==
  got[Other(s)] \o to[Other(s)]
    \o (IF stage = "closed" THEN <<>> ELSE Held(s) \o from[s])

(* s may be cut off from what the other side gets: one of them has gone or *)
(* the receiver has ended its own stream, or it has sent what the proxy    *)
(* did not read before it closed, and the kernel answers with a reset.     *)
CutOff(s) ==
  \/ peer[s] = "gone"
  \/ peer[Other(s)] # "open"
  \/ stage = "closed" /\ from[Other(s)] # <<>>

(***************************************************************************)
(* Unless it is cut off, nothing that a side sent through a tunnel is lost *)
(* on the way: it has been read, it is in the buffer of its reader, or the *)
(* session goes on and it is in the hands of the relay or before it.  This *)
(* is also so when the sender has ended its stream, and the session has    *)
(* ended because of that.                                                  *)
(***************************************************************************)
NothingLost ==
  \A s \in Sides :
    Succeeded /\ ~CutOff(s) => Data(Underway(s)) = [k \in 1 .. said[s] |-> k]

(***************************************************************************)
(* "Any TCP protocol works" (socks5.py:6) if both sides read what comes:   *)
(* then everything sent arrives, unless its sender is cut off.  A side     *)
(* that writes before it reads may have the relay wait for it while it     *)
(* waits for the relay, with a receiver ready at the other end.            *)
(***************************************************************************)
Arrives ==
  stubborn = {} =>
    \A s \in Sides : \A k \in 1 .. MaxData :
      Succeeded /\ said[s] = k
        ~> Len(Data(got[Other(s)])) >= k \/ CutOff(s)

(***************************************************************************)
(* The session, and with it the process or the thread it runs on, ends     *)
(* when a side has ended its stream, under the same condition; and no      *)
(* client can keep it in the handshake.                                    *)
(***************************************************************************)
SessionEnds ==
  /\ [](stage \in Handshaking => <>(stage \notin Handshaking))
  /\ stubborn = {} =>
       ((\E s \in Sides : peer[s] # "open") ~> stage = "closed")
=============================================================================
