----------------------------- MODULE Socks5Proofs -----------------------------
(***************************************************************************)
(* What a SOCKS5 session of socks5.py passes on.                           *)
(*                                                                         *)
(* What a side has sent lies in four places: read by the other side, in    *)
(* its buffer, in the hands of the relay, and in the buffer before the     *)
(* proxy.  Put together they are a chain that ends with all its pieces in  *)
(* their order (Flows), as long as the session lasts.  The invariant says  *)
(* beside this what the handshake has done so far (Early, OneVerdict),     *)
(* that what has come through is a beginning of what was sent (Arrived),   *)
(* and that a session which is closed has passed on everything of a side   *)
(* that is not cut off (ClosedWhole).                                      *)
(***************************************************************************)
EXTENDS Socks5, TLAPS

---------------------------------------------------------------------------
(* The inductive invariant. *)

(* x ends with the pieces 1 to n, and has no data before them. *)
Numbered(x, n) ==
  \E m \in 0 .. Len(x) :
    /\ Len(x) = m + n
    /\ \A i \in 1 .. Len(x) :
         IF i <= m THEN x[i].what # "data" ELSE x[i] = Piece(i - m)

(* What the proxy has sent on for s. *)
Stream(s) == got[Other(s)] \o to[Other(s)]

(* Before the connection to the target there is nothing but replies. *)
Early ==
  stage \in Handshaking =>
    /\ Stream("client") = <<>> /\ from["target"] = <<>>
    /\ said["target"] = 0 /\ Told = {}
    /\ Numbered(Stream("target"), 0)

OpeningFirst == opening # <<>> => said["client"] = 0

TargetSpeaksData ==
  /\ \A i \in DOMAIN from["target"] : from["target"][i].what = "data"
  /\ stage = "to_client" => \A i \in DOMAIN holding : holding[i].what = "data"

OneVerdict ==
  /\ \A i, j \in Told : i = j
  /\ stage \notin Handshaking \cup {"closed"} => Succeeded

(* As long as the session lasts, everything is somewhere on its way. *)
Flows ==
  stage # "closed" =>
    \A s \in Sides : Numbered(Stream(s) \o (Held(s) \o from[s]), said[s])

(* What has come through is a beginning of what was sent. *)
Arrived ==
  \A s \in Sides :
    \E n \in 0 .. said[s] : Numbered(Stream(s), n) /\ (n > 0 => Succeeded)

(* A tunnel that is closed has lost something only of a side cut off. *)
ClosedWhole ==
  stage = "closed" /\ Succeeded =>
    \A s \in Sides :
      \/ peer[s] = "gone" \/ peer[Other(s)] # "open"
      \/ peer[s] # "open" /\ from[s] = <<>> /\ Numbered(Stream(s), said[s])

(* What select() has reported of the target stays true. *)
Reported == targetToo /\ stage # "closed" => Readable("target")

IInv ==
  /\ TypeOK /\ Early /\ OpeningFirst /\ TargetSpeaksData /\ OneVerdict
  /\ Flows /\ Arrived /\ ClosedWhole /\ Reported

---------------------------------------------------------------------------
(* Sequences of tokens. *)

(* The next piece keeps the numbering. *)
LEMMA NumberedPiece ==
  ASSUME NEW x \in Seq(Token), NEW n \in Nat, Numbered(x, n)
  PROVE  Numbered(Append(x, Piece(n + 1)), n + 1)
<1>1. PICK m \in 0 .. Len(x) :
        /\ Len(x) = m + n
        /\ \A i \in 1 .. Len(x) :
             IF i <= m THEN x[i].what # "data" ELSE x[i] = Piece(i - m)
  BY DEF Numbered
<1> DEFINE y == Append(x, Piece(n + 1))
<1>2. /\ Len(y) = Len(x) + 1
      /\ \A i \in 1 .. Len(x) : y[i] = x[i]
      /\ y[Len(x) + 1] = Piece(n + 1)
  OBVIOUS
<1>3. Len(x) \in Nat /\ m \in Nat /\ n + 1 = Len(x) + 1 - m
  BY <1>1
<1> HIDE DEF y
<1>4. ASSUME NEW i \in 1 .. Len(y)
      PROVE  IF i <= m THEN y[i].what # "data" ELSE y[i] = Piece(i - m)
  <2>1. CASE i = Len(x) + 1
    BY <1>1, <1>2, <1>3, <2>1
  <2>2. CASE i # Len(x) + 1
    <3>1. i \in 1 .. Len(x)
      BY <1>2, <1>3, <2>2
    <3> QED
      BY <1>1, <1>2, <3>1
  <2> QED
    BY <2>1, <2>2
<1>5. Len(y) = m + (n + 1) /\ m \in 0 .. Len(y)
  BY <1>1, <1>2, <1>3
<1>6. Numbered(y, n + 1)
  BY <1>4, <1>5 DEF Numbered
<1> QED
  BY <1>6 DEF y

(* Something else does where there is no piece yet. *)
LEMMA NumberedOther ==
  ASSUME NEW x \in Seq(Token), Numbered(x, 0), NEW e, e.what # "data"
  PROVE  Numbered(Append(x, e), 0)
<1>1. \A i \in 1 .. Len(x) : x[i].what # "data"
  BY DEF Numbered
<1> DEFINE y == Append(x, e)
<1>2. /\ Len(y) = Len(x) + 1 /\ Len(x) \in Nat
      /\ \A i \in 1 .. Len(x) : y[i] = x[i]
      /\ y[Len(x) + 1] = e
  OBVIOUS
<1> HIDE DEF y
<1>3. \A i \in 1 .. Len(y) : y[i].what # "data"
  BY <1>1, <1>2
<1>4. Numbered(y, 0)
  BY <1>2, <1>3 DEF Numbered
<1> QED
  BY <1>4 DEF y

(* A field may be taken from the front. *)
LEMMA NumberedTail ==
  ASSUME NEW x \in Seq(Token), NEW n \in Nat, Numbered(x, n),
         x # <<>>, Head(x).what # "data"
  PROVE  Numbered(Tail(x), n)
<1>1. PICK m \in 0 .. Len(x) :
        /\ Len(x) = m + n
        /\ \A i \in 1 .. Len(x) :
             IF i <= m THEN x[i].what # "data" ELSE x[i] = Piece(i - m)
  BY DEF Numbered
<1>2. Len(x) \in Nat /\ Len(x) > 0 /\ Head(x) = x[1]
  OBVIOUS
<1>3. m # 0
  BY <1>1, <1>2 DEF Piece
<1> DEFINE y == Tail(x)
<1>4. Len(y) = Len(x) - 1 /\ \A i \in 1 .. Len(x) - 1 : y[i] = x[i + 1]
  OBVIOUS
<1> HIDE DEF y
<1>5. ASSUME NEW i \in 1 .. Len(y)
      PROVE  IF i <= m - 1 THEN y[i].what # "data" ELSE y[i] = Piece(i - (m - 1))
  <2>1. i + 1 \in 1 .. Len(x) /\ y[i] = x[i + 1] /\ (i + 1) - m = i - (m - 1)
    BY <1>2, <1>4
  <2>2. i + 1 <= m <=> i <= m - 1
    OBVIOUS
  <2> QED
    BY <1>1, <2>1, <2>2
<1>6. Len(y) = (m - 1) + n /\ m - 1 \in 0 .. Len(y)
  BY <1>1, <1>2, <1>3, <1>4
<1>7. Numbered(y, n)
  BY <1>5, <1>6 DEF Numbered
<1> QED
  BY <1>7 DEF y

(* A beginning of numbered pieces is numbered. *)
LEMMA NumberedPrefix ==
  ASSUME NEW x \in Seq(Token), NEW y \in Seq(Token), NEW n \in Nat, Numbered(x \o y, n)
  PROVE  \E k \in 0 .. n : Numbered(x, k)
<1> DEFINE z == x \o y
<1>1. /\ Len(z) = Len(x) + Len(y) /\ Len(x) \in Nat /\ Len(y) \in Nat
      /\ \A i \in 1 .. Len(x) : z[i] = x[i]
  OBVIOUS
<1>2. PICK m \in 0 .. Len(z) :
        /\ Len(z) = m + n
        /\ \A i \in 1 .. Len(z) :
             IF i <= m THEN z[i].what # "data" ELSE z[i] = Piece(i - m)
  BY DEF Numbered
<1> HIDE DEF z
<1>3. ASSUME NEW i \in 1 .. Len(x)
      PROVE  IF i <= m THEN x[i].what # "data" ELSE x[i] = Piece(i - m)
  <2>1. i \in 1 .. Len(z) /\ z[i] = x[i]
    BY <1>1
  <2> QED
    BY <1>2, <2>1
<1>4. CASE Len(x) <= m
  <2>1. \A i \in 1 .. Len(x) : x[i].what # "data"
    BY <1>1, <1>3, <1>4
  <2>2. Numbered(x, 0)
    BY <1>1, <2>1 DEF Numbered
  <2> QED
    BY <2>2
<1>5. CASE Len(x) > m
  <2>1. Len(x) - m \in 0 .. n /\ Len(x) = m + (Len(x) - m) /\ m \in 0 .. Len(x)
    BY <1>1, <1>2, <1>5
  <2>2. Numbered(x, Len(x) - m)
    BY <1>3, <2>1 DEF Numbered
  <2> QED
    BY <2>1, <2>2
<1> QED
  BY <1>1, <1>4, <1>5

(* Without its last token it is numbered as well. *)
LEMMA NumberedButLast ==
  ASSUME NEW x \in Seq(Token), NEW e, NEW n \in Nat, Numbered(Append(x, e), n)
  PROVE  Numbered(x, IF n = 0 THEN 0 ELSE n - 1)
<1> DEFINE z == Append(x, e)
<1>1. /\ Len(z) = Len(x) + 1 /\ Len(x) \in Nat
      /\ \A i \in 1 .. Len(x) : z[i] = x[i]
  OBVIOUS
<1>2. PICK m \in 0 .. Len(z) :
        /\ Len(z) = m + n
        /\ \A i \in 1 .. Len(z) :
             IF i <= m THEN z[i].what # "data" ELSE z[i] = Piece(i - m)
  BY DEF Numbered
<1> HIDE DEF z
<1>3. ASSUME NEW i \in 1 .. Len(x)
      PROVE  IF i <= m THEN x[i].what # "data" ELSE x[i] = Piece(i - m)
  <2>1. i \in 1 .. Len(z) /\ z[i] = x[i]
    BY <1>1
  <2> QED
    BY <1>2, <2>1
<1>4. CASE n = 0
  <2>1. \A i \in 1 .. Len(x) : x[i].what # "data"
    BY <1>1, <1>2, <1>3, <1>4
  <2>2. Numbered(x, 0)
    BY <1>1, <2>1 DEF Numbered
  <2> QED
    BY <1>4, <2>2
<1>5. CASE n # 0
  <2>1. Len(x) = m + (n - 1) /\ m \in 0 .. Len(x)
    BY <1>1, <1>2, <1>5
  <2>2. Numbered(x, n - 1)
    BY <1>3, <2>1 DEF Numbered
  <2> QED
    BY <1>5, <2>2
<1> QED
  BY <1>4, <1>5

(* Data finds the pieces. *)
LEMMA DataNumbered ==
  ASSUME NEW x \in Seq(Token), NEW n \in Nat, Numbered(x, n)
  PROVE  Data(x) = [k \in 1 .. n |-> k]
<1> DEFINE others == {0} \cup {i \in DOMAIN x : x[i].what # "data"}
<1>1. PICK m \in 0 .. Len(x) :
        /\ Len(x) = m + n
        /\ \A i \in 1 .. Len(x) :
             IF i <= m THEN x[i].what # "data" ELSE x[i] = Piece(i - m)
  BY DEF Numbered
<1>2. DOMAIN x = 1 .. Len(x) /\ Len(x) \in Nat /\ m \in Nat
  BY <1>1
<1>3. m \in others
  <2>1. m = 0 \/ m \in 1 .. Len(x)
    BY <1>1, <1>2
  <2> QED
    BY <1>1, <1>2, <2>1
<1>4. ASSUME NEW i \in others PROVE i \in Nat /\ i <= m
  <2>1. CASE i = 0
    BY <1>2, <2>1
  <2>2. CASE i \in 1 .. Len(x) /\ x[i].what # "data"
    <3>1. Piece(i - m).what = "data"
      BY DEF Piece
    <3> QED
      BY <1>1, <1>2, <2>2, <3>1
  <2> QED
    BY <1>2, <2>1, <2>2
<1> HIDE DEF others
<1>5. Max(others) = m
  <2>1. \A k \in others : (\A i \in others : k >= i) => k = m
    BY <1>2, <1>3, <1>4
  <2>2. \A i \in others : m >= i
    BY <1>2, <1>4
  <2> QED
    BY <1>3, <2>1, <2>2 DEF Max
<1>6. Data(x) = [i \in 1 .. Len(x) - m |-> x[m + i].k]
  BY <1>5 DEF Data, others
<1>7. Len(x) - m = n
  BY <1>1, <1>2
<1>8. ASSUME NEW i \in 1 .. n PROVE x[m + i].k = i
  <2>1. m + i \in 1 .. Len(x) /\ ~(m + i <= m) /\ (m + i) - m = i
    BY <1>1, <1>2
  <2>2. x[m + i] = Piece(i)
    BY <1>1, <2>1
  <2> QED
    BY <2>2 DEF Piece
<1> QED
  BY <1>6, <1>7, <1>8

(* A token moves on from one sequence to the next. *)
LEMMA MovesOn ==
  ASSUME NEW x \in Seq(Token), NEW y \in Seq(Token), y # <<>>
  PROVE  /\ Append(x, Head(y)) \o Tail(y) = x \o y
         /\ Append(x, Head(y)) \in Seq(Token) /\ Tail(y) \in Seq(Token)
OBVIOUS

(* A token is added at the end. *)
LEMMA AddedLast ==
  ASSUME NEW x \in Seq(Token), NEW y \in Seq(Token), NEW e \in Token
  PROVE  x \o Append(y, e) = Append(x \o y, e)
OBVIOUS

(* Joining sequences of tokens. *)
LEMMA Concats ==
  ASSUME NEW x \in Seq(Token), NEW y \in Seq(Token)
  PROVE  /\ x \o y \in Seq(Token)
         /\ x \o <<>> = x /\ <<>> \o x = x
OBVIOUS

(* Three are joined in either order. *)
LEMMA Regroup ==
  ASSUME NEW x \in Seq(Token), NEW y \in Seq(Token), NEW z \in Seq(Token)
  PROVE  (x \o y) \o z = x \o (y \o z)
OBVIOUS

---------------------------------------------------------------------------
(* Types. *)

(* Fields, replies and pieces are tokens. *)
LEMMA TokenTypes ==
  /\ \A f \in Fields \cup Verdicts \cup {"method"} : Tok(f) \in Token
  /\ \A k \in 0 .. MaxData : Piece(k) \in Token
BY BoundsAssumption DEF Tok, Piece, Token

(* The types hold at the start. *)
LEMMA TypesInit == Init => TypeOK
<1> SUFFICES ASSUME Init PROVE TypeOK
  OBVIOUS
<1>1. opening \in Seq(Fields)
  BY OpeningsAssumption DEF Init
<1>2. <<>> \in Seq(Token) /\ Len(<<>>) = 0 /\ 0 \in 0 .. MaxData
  BY BoundsAssumption
<1>3. said \in [Sides -> 0 .. MaxData] /\ peer \in [Sides -> {"open", "half", "gone"}]
  BY <1>2 DEF Init
<1>4. /\ from \in [Sides -> Seq(Token)] /\ to \in [Sides -> Seq(Token)]
      /\ got \in [Sides -> Seq(Token)]
      /\ \A s \in Sides : Len(from[s]) <= Cap
      /\ holding \in Seq(Token) /\ Len(holding) <= Cap
  BY <1>2, BoundsAssumption DEF Init
<1>5. /\ stage \in Handshaking /\ stage \notin {"to_target", "to_client"}
      /\ targetToo = FALSE
  BY DEF Init, Handshaking
<1>6. targetToo \in BOOLEAN
  BY <1>5, Zenon
<1>7. stubborn \subseteq Sides
  BY DEF Init
<1> QED
  BY <1>1, <1>3, <1>4, <1>5, <1>6, <1>7 DEF TypeOK

(* No peer spoils them. *)
LEMMA TypesPeers ==
  ASSUME TypeOK, Peers PROVE TypeOK'
<1> USE DEF TypeOK
<1>1. CASE SendField
  <2>1. Head(opening) \in Fields /\ Tail(opening) \in Seq(Fields)
    BY <1>1 DEF SendField
  <2>2. Tok(Head(opening)) \in Token
    BY <2>1, TokenTypes
  <2>3. from' \in [Sides -> Seq(Token)] /\ \A s \in Sides : Len(from'[s]) <= Cap
    BY <1>1, <2>2, BoundsAssumption DEF SendField, CanSend, Puts, Sides
  <2> QED
    BY <1>1, <2>1, <2>3 DEF SendField
<1>2. ASSUME NEW s \in Sides, SendData(s) PROVE TypeOK'
  <2>1. said[s] + 1 \in 0 .. MaxData
    BY <1>2, BoundsAssumption DEF SendData
  <2>2. Piece(said[s] + 1) \in Token
    BY <2>1, TokenTypes
  <2>3. from' \in [Sides -> Seq(Token)] /\ \A x \in Sides : Len(from'[x]) <= Cap
    BY <1>2, <2>2, BoundsAssumption DEF SendData, CanSend, Puts, Sides
  <2>4. said' \in [Sides -> 0 .. MaxData]
    BY <1>2, <2>1 DEF SendData
  <2> QED
    BY <1>2, <2>3, <2>4 DEF SendData
<1>3. ASSUME NEW s \in Sides, ReadData(s) PROVE TypeOK'
  <2>1. Head(to[s]) \in Token /\ Tail(to[s]) \in Seq(Token)
    BY <1>3 DEF ReadData
  <2>2. got' \in [Sides -> Seq(Token)] /\ to' \in [Sides -> Seq(Token)]
    BY <1>3, <2>1 DEF ReadData
  <2> QED
    BY <1>3, <2>2 DEF ReadData, peerVars
<1>4. ASSUME NEW s \in Sides, Ends(s) PROVE TypeOK'
  BY <1>4 DEF Ends
<1> QED
  BY <1>1, <1>2, <1>3, <1>4 DEF Peers

(* What _recv_exact leaves. *)
LEMMA TakesTypes ==
  ASSUME TypeOK, NEW fields, TakesField(fields)
  PROVE  /\ from' \in [Sides -> Seq(Token)]
         /\ \A s \in Sides : Len(from'[s]) <= Cap
<1>1. /\ from["client"] \in Seq(Token) /\ Tail(from["client"]) \in Seq(Token)
      /\ Len(Tail(from["client"])) <= Cap
  BY BoundsAssumption DEF TakesField, TypeOK, Sides
<1> QED
  BY <1>1 DEF TakesField, TypeOK, Sides

(* A reply is a token. *)
LEMMA ReplyTypes ==
  ASSUME TypeOK, NEW reply \in Verdicts \cup {"method"}, Reply(reply)
  PROVE  to' \in [Sides -> Seq(Token)]
<1>1. Tok(reply) \in Token
  BY TokenTypes
<1>2. to["client"] \in Seq(Token)
  BY DEF TypeOK, Sides
<1>3. Append(to["client"], Tok(reply)) \in Seq(Token)
  BY <1>1, <1>2
<1> QED
  BY <1>3 DEF Reply, TypeOK, Sides

(* What the handshake does, step by step. *)
LEMMA HandshakeSteps ==
  ASSUME Handshake
  PROVE  /\ stage \in Handshaking /\ Session
         /\ from' = from \/ TakesField(Fields)
         /\ \/ to' = to /\ stage' \in Handshaking \cup {"closed"}
            \/ Reply("method") /\ stage' \in Handshaking
            \/ \E v \in Verdicts \ {"ok"} : Reply(v) /\ stage' = "closed"
            \/ Reply("ok") /\ stage' = "select"
<1>1. ASSUME NEW fields \in SUBSET Fields, TakesField(fields) PROVE TakesField(Fields)
  BY <1>1 DEF TakesField
<1>2. CASE Greeting
  BY <1>1, <1>2 DEF Greeting, Field, Answers, Handshaking, Fields
<1>3. CASE ReadConnect
  <2>1. \/ \E at \in Handshaking, next \in Handshaking, fields \in SUBSET Fields :
             Field(at, fields, next)
        \/ Answers("request", {"bind"}, "bad_command", "closed")
        \/ Answers("request", {"other_type"}, "bad_type", "closed")
    BY <1>3 DEF ReadConnect, Handshaking, Fields
  <2>2. ASSUME NEW at \in Handshaking, NEW next \in Handshaking,
               NEW fields \in SUBSET Fields, Field(at, fields, next)
        PROVE  /\ stage \in Handshaking /\ Session /\ TakesField(Fields)
               /\ to' = to /\ stage' \in Handshaking
    BY <1>1, <2>2 DEF Field
  <2>3. CASE Answers("request", {"bind"}, "bad_command", "closed")
    BY <1>1, <2>3 DEF Answers, Handshaking, Fields, Verdicts
  <2>4. CASE Answers("request", {"other_type"}, "bad_type", "closed")
    BY <1>1, <2>4 DEF Answers, Handshaking, Fields, Verdicts
  <2> QED
    BY <2>1, <2>2, <2>3, <2>4
<1>4. CASE HandshakeEof
  BY <1>4 DEF HandshakeEof, Verdicts
<1>5. CASE HandshakeRaises
  BY <1>5 DEF HandshakeRaises
<1>6. CASE ConnectFails
  BY <1>6 DEF ConnectFails, Handshaking, Verdicts
<1>7. CASE ConnectTarget
  BY <1>7 DEF ConnectTarget, Handshaking
<1> QED
  BY <1>2, <1>3, <1>4, <1>5, <1>6, <1>7 DEF Handshake

(* No step of the handshake does. *)
LEMMA TypesHandshake ==
  ASSUME TypeOK, Handshake PROVE TypeOK'
<1>1. /\ from' \in [Sides -> Seq(Token)]
      /\ \A s \in Sides : Len(from'[s]) <= Cap
  BY HandshakeSteps, TakesTypes DEF TypeOK
<1>2. to' \in [Sides -> Seq(Token)]
  <2>1. "method" \in Verdicts \cup {"method"} /\ "ok" \in Verdicts
    BY DEF Verdicts
  <2> QED
    BY HandshakeSteps, ReplyTypes, <2>1 DEF TypeOK
<1>3. stage' \in Handshaking \cup {"closed", "select"} /\ stage \in Handshaking
  BY HandshakeSteps
<1>4. Session
  BY HandshakeSteps
<1>5. stage' \notin {"to_target", "to_client"} /\ targetToo' = targetToo /\ ~targetToo
  BY <1>3, <1>4 DEF Handshaking, Session, TypeOK
<1> QED
  BY <1>1, <1>2, <1>3, <1>4, <1>5 DEF TypeOK, Session, peerVars

(* recv() empties the buffer into the hands of the relay. *)
LEMMA RecvTypes ==
  ASSUME TypeOK, NEW s \in Sides, NEW writing, RelayRecv(s, writing)
  PROVE  /\ from' \in [Sides -> Seq(Token)]
         /\ \A x \in Sides : Len(from'[x]) <= Cap
         /\ holding' \in Seq(Token) /\ Len(holding') <= Cap
         /\ holding' = <<>> => stage' = "closed"
         /\ stage' \in {"closed", writing}
         /\ UNCHANGED <<opening, said, peer, stubborn, to, got>>
<1>1. <<>> \in Seq(Token) /\ Len(<<>>) = 0 /\ 0 <= Cap
  BY BoundsAssumption
<1> QED
  BY <1>1 DEF RelayRecv, TypeOK, peerVars

(* sendall() writes the first piece that the relay holds. *)
LEMMA SendTypes ==
  ASSUME TypeOK, NEW s \in Sides, RelaySend(s, Tail(holding))
  PROVE  /\ to' \in [Sides -> Seq(Token)]
         /\ holding' \in Seq(Token) /\ Len(holding') <= Cap
         /\ UNCHANGED <<opening, said, peer, stubborn, from, got, targetToo>>
<1>1. /\ Head(holding) \in Token /\ Tail(holding) \in Seq(Token)
      /\ Len(Tail(holding)) <= Cap
  BY BoundsAssumption DEF RelaySend, TypeOK
<1>2. to[s] \in Seq(Token) /\ Append(to[s], Head(holding)) \in Seq(Token)
  BY <1>1 DEF TypeOK
<1> QED
  BY <1>1, <1>2 DEF RelaySend, TypeOK, peerVars

(* No step of the relay does. *)
LEMMA TypesRelay ==
  ASSUME TypeOK, Relay PROVE TypeOK'
<1>1. "client" \in Sides /\ "target" \in Sides
  BY DEF Sides
<1>2. Readable("target") \in BOOLEAN
  BY DEF Readable
<1>3. CASE Select /\ Readable("client")
  <2>1. RelayRecv("client", "to_target") /\ targetToo' = Readable("target")
    BY <1>3 DEF Select
  <2>2. stage' \in {"closed", "to_target"}
    BY <1>1, <2>1, RecvTypes
  <2>3. targetToo' \in BOOLEAN
    BY <1>2, <2>1, Zenon
  <2> QED
    BY <1>1, <2>1, <2>2, <2>3, RecvTypes DEF TypeOK, Handshaking
<1>4. CASE Select /\ ~Readable("client")
  <2>1. RelayRecv("target", "to_client") /\ targetToo' = targetToo /\ ~targetToo
    BY <1>4 DEF Select, TypeOK
  <2> QED
    BY <1>1, <2>1, RecvTypes DEF TypeOK, Handshaking
<1>5. CASE SelectTarget /\ targetToo
  <2>1. RelayRecv("target", "to_client") /\ targetToo' = FALSE
    BY <1>5 DEF SelectTarget
  <2>2. targetToo' \in BOOLEAN
    BY <2>1, Zenon
  <2> QED
    BY <1>1, <2>1, <2>2, RecvTypes DEF TypeOK
<1>6. CASE SelectTarget /\ ~targetToo
  <2>1. /\ targetToo' = FALSE /\ stage' = "select"
        /\ UNCHANGED <<peerVars, from, to, got, holding>>
    BY <1>6 DEF SelectTarget
  <2>2. targetToo' \in BOOLEAN
    BY <2>1, Zenon
  <2> QED
    BY <2>1, <2>2 DEF TypeOK, peerVars
<1>7. CASE SendToTarget
  <2>1. /\ RelaySend("target", Tail(holding)) /\ stage = "to_target"
        /\ stage' = IF holding' = <<>> THEN "from_target" ELSE "to_target"
    BY <1>7 DEF SendToTarget, Written
  <2> QED
    BY <1>1, <2>1, SendTypes DEF TypeOK, Handshaking
<1>8. CASE SendToClient
  <2>1. /\ RelaySend("client", Tail(holding)) /\ stage = "to_client"
        /\ stage' = IF holding' = <<>> THEN "select" ELSE "to_client"
    BY <1>8 DEF SendToClient, Written
  <2> QED
    BY <1>1, <2>1, SendTypes DEF TypeOK, Handshaking
<1>9. CASE RelayRaises
  BY <1>9 DEF RelayRaises, TypeOK, Handshaking, peerVars
<1> QED
  BY <1>3, <1>4, <1>5, <1>6, <1>7, <1>8, <1>9 DEF Relay

---------------------------------------------------------------------------
(* The chain of buffers, and the verdict in what the client is sent. *)

Chain(s) == Stream(s) \o (Held(s) \o from[s])

(* The two sides, and the sequences that lie between them. *)
LEMMA ChainTypes ==
  ASSUME TypeOK, NEW s \in Sides
  PROVE  /\ Other(s) \in Sides /\ Other(Other(s)) = s /\ Other(s) # s
         /\ got[Other(s)] \in Seq(Token) /\ to[Other(s)] \in Seq(Token)
         /\ from[s] \in Seq(Token) /\ Held(s) \in Seq(Token)
         /\ Stream(s) \in Seq(Token) /\ Chain(s) \in Seq(Token)
         /\ said[s] \in Nat
<1>1. Other(s) \in Sides /\ Other(Other(s)) = s /\ Other(s) # s
  BY DEF Other, Sides
<1>2. /\ got[Other(s)] \in Seq(Token) /\ to[Other(s)] \in Seq(Token)
      /\ from[s] \in Seq(Token) /\ said[s] \in Nat
  BY <1>1, BoundsAssumption DEF TypeOK
<1>3. Held(s) \in Seq(Token)
  BY DEF Held, TypeOK
<1>4. Stream(s) \in Seq(Token)
  BY <1>2, Concats DEF Stream
<1>5. Held(s) \o from[s] \in Seq(Token)
  BY <1>2, <1>3, Concats
<1> QED
  BY <1>1, <1>2, <1>3, <1>4, <1>5, Concats DEF Chain

(* The replies are what goes to the client. *)
LEMMA RepliesAreStream == Replies = Stream("target") /\ Replies' = Stream("target")'
BY DEF Replies, Stream, Other

(* The verdict is read off the replies. *)
LEMMA VerdictKept ==
  ASSUME Stream("target")' = Stream("target")
  PROVE  Told' = Told /\ Verdict' = Verdict
<1>1. Replies' = Replies
  BY RepliesAreStream
<1>2. Told' = Told
  BY <1>1 DEF Told
<1> QED
  BY <1>1, <1>2 DEF Verdict

(* Something that is no verdict leaves it alone. *)
LEMMA VerdictOther ==
  ASSUME Stream("target") \in Seq(Token), NEW e, e.what \notin Verdicts,
         Stream("target")' = Append(Stream("target"), e)
  PROVE  Told' = Told /\ Verdict' = Verdict
<1>1. PICK x : x = Replies
  OBVIOUS
<1>2. PICK y : y = Replies'
  OBVIOUS
<1>3. x \in Seq(Token) /\ y = Append(x, e)
  BY <1>1, <1>2, RepliesAreStream
<1>4. /\ DOMAIN y = 1 .. Len(x) + 1 /\ DOMAIN x = 1 .. Len(x) /\ Len(x) \in Nat
      /\ y[Len(x) + 1] = e /\ \A i \in 1 .. Len(x) : y[i] = x[i]
  BY <1>3
<1>5. {i \in DOMAIN y : y[i].what \in Verdicts}
        = {i \in DOMAIN x : x[i].what \in Verdicts}
  <2>1. ASSUME NEW i \in DOMAIN y, y[i].what \in Verdicts PROVE i \in DOMAIN x
    BY <1>4, <2>1
  <2>2. DOMAIN x \subseteq DOMAIN y
    BY <1>4
  <2> QED
    BY <1>4, <2>1, <2>2
<1>6. Told' = Told
  BY <1>1, <1>2, <1>5 DEF Told
<1>7. ASSUME NEW i \in Told, Told = {i} PROVE Replies'[Max(Told)] = Replies[Max(Told)]
  <2>1. Max(Told) = i
    BY <1>1, <1>4, <1>7 DEF Max, Told
  <2>2. i \in 1 .. Len(x)
    BY <1>1, <1>4 DEF Told
  <2> QED
    BY <1>1, <1>2, <1>4, <2>1, <2>2
<1>8. CASE Told = {}
  BY <1>6, <1>8 DEF Verdict
<1>9. CASE Told # {} /\ \E i \in Told : Told = {i}
  BY <1>6, <1>7, <1>9 DEF Verdict
<1>10. CASE Told # {} /\ ~\E i \in Told : Told = {i}
  BY <1>6, <1>10 DEF Verdict
<1> QED
  BY <1>6, <1>8, <1>9, <1>10

(* The first verdict is the verdict. *)
LEMMA VerdictGiven ==
  ASSUME Stream("target") \in Seq(Token), Told = {}, NEW v \in Verdicts,
         Stream("target")' = Append(Stream("target"), Tok(v))
  PROVE  Verdict' = v /\ \A i, j \in Told' : i = j
<1>1. PICK x : x = Replies
  OBVIOUS
<1>2. PICK y : y = Replies'
  OBVIOUS
<1>3. x \in Seq(Token) /\ y = Append(x, Tok(v))
  BY <1>1, <1>2, RepliesAreStream
<1>4. /\ DOMAIN y = 1 .. Len(x) + 1 /\ DOMAIN x = 1 .. Len(x) /\ Len(x) \in Nat
      /\ y[Len(x) + 1] = Tok(v) /\ \A i \in 1 .. Len(x) : y[i] = x[i]
  BY <1>3
<1>5. \A i \in DOMAIN x : x[i].what \notin Verdicts
  BY <1>1 DEF Told
<1>6. {i \in DOMAIN y : y[i].what \in Verdicts} = {Len(x) + 1}
  <2>1. Tok(v).what = v
    BY DEF Tok
  <2>2. ASSUME NEW i \in DOMAIN y, y[i].what \in Verdicts PROVE i = Len(x) + 1
    BY <1>4, <1>5, <2>2
  <2>3. Len(x) + 1 \in DOMAIN y /\ y[Len(x) + 1].what \in Verdicts
    BY <1>4, <2>1
  <2> QED
    BY <2>2, <2>3
<1>7. PICK n : n = Len(x) + 1
  OBVIOUS
<1>8. Told' = {n} /\ n \in Nat
  BY <1>2, <1>4, <1>6, <1>7 DEF Told
<1>9. Max({n}) = n
  BY <1>8 DEF Max
<1>10. y[n].what = v
  BY <1>4, <1>7 DEF Tok
<1>11. Verdict' = v
  BY <1>2, <1>8, <1>9, <1>10 DEF Verdict
<1> QED
  BY <1>8, <1>11

---------------------------------------------------------------------------
(* The peers keep the invariant. *)

(* What a side reads stays in the stream to it. *)
LEMMA PeerReads ==
  ASSUME TypeOK, NEW s \in Sides, ReadData(s)
  PROVE  /\ \A x \in Sides : Stream(x)' = Stream(x)
         /\ UNCHANGED <<opening, said, peer, stubborn, from, stage, holding, targetToo>>
<1>1. got[s] \in Seq(Token) /\ to[s] \in Seq(Token) /\ to[s] # <<>>
  BY DEF TypeOK, ReadData
<1>2. /\ got' = [got EXCEPT ![s] = Append(@, Head(to[s]))]
      /\ to' = [to EXCEPT ![s] = Tail(@)]
  BY DEF ReadData
<1>3. ASSUME NEW x \in Sides PROVE got'[x] \o to'[x] = got[x] \o to[x]
  <2>1. CASE x = s
    <3>1. got'[s] = Append(got[s], Head(to[s])) /\ to'[s] = Tail(to[s])
      BY <1>2 DEF TypeOK
    <3>2. Append(got[s], Head(to[s])) \o Tail(to[s]) = got[s] \o to[s]
      BY <1>1, MovesOn
    <3> QED
      BY <2>1, <3>1, <3>2
  <2>2. CASE x # s
    BY <1>2, <2>2 DEF TypeOK
  <2> QED
    BY <2>1, <2>2
<1>4. \A x \in Sides : Stream(x)' = Stream(x)
  BY <1>3, ChainTypes DEF Stream
<1> QED
  BY <1>4 DEF ReadData, peerVars

(* ReadData keeps the invariant. *)
LEMMA ReadKeeps ==
  ASSUME IInv, TypeOK', NEW s \in Sides, ReadData(s) PROVE IInv'
<1>1. /\ \A x \in Sides : Stream(x)' = Stream(x)
      /\ UNCHANGED <<opening, said, peer, stubborn, from, stage, holding, targetToo>>
  BY PeerReads DEF IInv
<1>2. "client" \in Sides /\ "target" \in Sides
  BY DEF Sides
<1>3. Told' = Told /\ Verdict' = Verdict
  BY <1>1, <1>2, VerdictKept
<1>4. \A x : Held(x)' = Held(x)
  BY <1>1 DEF Held
<1>5. Early' /\ OpeningFirst' /\ TargetSpeaksData'
  BY <1>1, <1>2, <1>3 DEF IInv, Early, OpeningFirst, TargetSpeaksData, Numbered
<1>6. OneVerdict' /\ Reported'
  BY <1>1, <1>3 DEF IInv, OneVerdict, Succeeded, Reported, Readable
<1>7. Flows'
  BY <1>1, <1>4 DEF IInv, Flows, Numbered
<1>8. Arrived' /\ ClosedWhole'
  BY <1>1, <1>3 DEF IInv, Arrived, ClosedWhole, Succeeded
<1> QED
  BY <1>5, <1>6, <1>7, <1>8 DEF IInv

(* Ends does: a tunnel that was closed for good reason stays so. *)
LEMMA EndsKeeps ==
  ASSUME IInv, TypeOK', NEW s \in Sides, Ends(s) PROVE IInv'
<1>1. /\ UNCHANGED <<opening, said, stubborn, from, to, got, stage, holding, targetToo>>
      /\ \A x \in Sides : /\ peer[x] # "open" => peer'[x] # "open"
                          /\ peer[x] = "gone" => peer'[x] = "gone"
  BY DEF Ends, IInv, TypeOK
<1>2. /\ \A x \in Sides : Stream(x)' = Stream(x) /\ Other(x) \in Sides
      /\ \A x : Held(x)' = Held(x)
  BY <1>1, ChainTypes DEF Stream, Held, IInv
<1>3. "client" \in Sides /\ "target" \in Sides
  BY DEF Sides
<1>4. Told' = Told /\ Verdict' = Verdict
  BY <1>2, <1>3, VerdictKept
<1>5. Early' /\ OpeningFirst' /\ TargetSpeaksData'
  BY <1>1, <1>2, <1>3, <1>4 DEF IInv, Early, OpeningFirst, TargetSpeaksData, Numbered
<1>6. OneVerdict'
  BY <1>1, <1>4 DEF IInv, OneVerdict, Succeeded
<1>9. Reported'
  <2>0. peer["target"] # "open" => peer'["target"] # "open"
    BY <1>1, <1>3
  <2>1. Readable("target") => Readable("target")'
    BY <1>1, <2>0 DEF Readable
  <2> QED
    BY <1>1, <2>1 DEF IInv, Reported
<1>7. Flows' /\ Arrived'
  BY <1>1, <1>2, <1>4 DEF IInv, Flows, Arrived, Succeeded
<1>8. ClosedWhole'
  <2>1. ASSUME stage = "closed" /\ Succeeded, NEW x \in Sides
        PROVE  \/ peer'[x] = "gone" \/ peer'[Other(x)] # "open"
               \/ peer'[x] # "open" /\ from'[x] = <<>> /\ Numbered(Stream(x)', said'[x])
    <3>1. \/ peer[x] = "gone" \/ peer[Other(x)] # "open"
          \/ peer[x] # "open" /\ from[x] = <<>> /\ Numbered(Stream(x), said[x])
      BY <2>1 DEF IInv, ClosedWhole
    <3>2. CASE peer[x] = "gone"
      BY <1>1, <3>2
    <3>3. CASE peer[Other(x)] # "open"
      BY <1>1, <1>2, <3>3
    <3>4. CASE peer[x] # "open" /\ from[x] = <<>> /\ Numbered(Stream(x), said[x])
      <4>1. Numbered(Stream(x)', said'[x])
        BY <1>1, <1>2, <3>4
      <4> QED
        BY <1>1, <3>4, <4>1
    <3> QED
      BY <3>1, <3>2, <3>3, <3>4
  <2>2. stage' = stage /\ Succeeded' = Succeeded
    BY <1>1, <1>4 DEF Succeeded
  <2>3. \A x : Other(x)' = Other(x)
    BY DEF Other
  <2> QED
    BY <2>1, <2>2, <2>3 DEF ClosedWhole
<1> QED
  BY <1>5, <1>6, <1>7, <1>8, <1>9 DEF IInv

(* What a side sends joins its chain at the end. *)
LEMMA PeerSends ==
  ASSUME TypeOK, NEW s \in Sides, NEW e \in Token, Puts(s, e),
         UNCHANGED <<to, got, stage, holding>>
  PROVE  /\ Chain(s)' = Append(Chain(s), e)
         /\ \A x \in Sides : Stream(x)' = Stream(x)
         /\ \A x \in Sides \ {s} : Chain(x)' = Chain(x) /\ from'[x] = from[x]
         /\ from'[s] = Append(from[s], e)
<1>1. /\ from'[s] = Append(from[s], e)
      /\ \A x \in Sides \ {s} : from'[x] = from[x]
  BY DEF Puts, TypeOK
<1>2. /\ \A x : Stream(x)' = Stream(x)
      /\ \A x : Held(x)' = Held(x)
  BY DEF Stream, Held, Other
<1>3. /\ from[s] \in Seq(Token) /\ Held(s) \in Seq(Token) /\ Stream(s) \in Seq(Token)
      /\ Held(s) \o from[s] \in Seq(Token)
  BY ChainTypes, Concats
<1>4. Held(s) \o Append(from[s], e) = Append(Held(s) \o from[s], e)
  BY <1>3, AddedLast
<1>5. Stream(s) \o Append(Held(s) \o from[s], e)
        = Append(Stream(s) \o (Held(s) \o from[s]), e)
  BY <1>3, AddedLast
<1>6. Chain(s)' = Append(Chain(s), e)
  BY <1>1, <1>2, <1>4, <1>5 DEF Chain
<1> QED
  BY <1>1, <1>2, <1>6 DEF Chain

(* A side that sends is no reason for the end of a tunnel. *)
LEMMA SenderOpen ==
  ASSUME TypeOK, ClosedWhole, NEW s \in Sides, peer[s] = "open",
         \A x \in Sides : Stream(x)' = Stream(x),
         \A x \in Sides \ {s} : from'[x] = from[x] /\ said'[x] = said[x],
         UNCHANGED <<peer, stage>>
  PROVE  ClosedWhole'
<1>1. "target" \in Sides /\ \A x : Other(x)' = Other(x)
  BY DEF Sides, Other
<1>2. Succeeded' = Succeeded
  BY <1>1, VerdictKept DEF Succeeded
<1>3. SUFFICES ASSUME stage = "closed" /\ Succeeded, NEW x \in Sides
               PROVE  \/ peer'[x] = "gone" \/ peer'[Other(x)] # "open"
                      \/ peer'[x] # "open" /\ from'[x] = <<>>
                           /\ Numbered(Stream(x)', said'[x])
  BY <1>1, <1>2 DEF ClosedWhole
<1>4. \/ peer[x] = "gone" \/ peer[Other(x)] # "open"
      \/ peer[x] # "open" /\ from[x] = <<>> /\ Numbered(Stream(x), said[x])
  BY <1>3 DEF ClosedWhole
<1>5. CASE x = s
  BY <1>4, <1>5
<1>6. CASE x # s
  BY <1>4, <1>6
<1> QED
  BY <1>5, <1>6

(* SendField does: the fields come before any data. *)
LEMMA FieldKeeps ==
  ASSUME IInv, TypeOK', SendField PROVE IInv'
<1>1. "client" \in Sides /\ "target" \in Sides
  BY DEF Sides
<1>2. PICK e : e = Tok(Head(opening))
  OBVIOUS
<1>3. e \in Token /\ e.what # "data"
  <2>1. Head(opening) \in Fields
    BY DEF SendField, IInv, TypeOK
  <2>2. Head(opening) # "data"
    BY <2>1 DEF Fields
  <2> QED
    BY <1>2, <2>1, <2>2, TokenTypes DEF Tok
<1>4. /\ Puts("client", e) /\ peer["client"] = "open"
      /\ UNCHANGED <<said, peer, stubborn, to, got, stage, holding, targetToo>>
      /\ opening # <<>>
  BY <1>2 DEF SendField, CanSend
<1>5. /\ Chain("client")' = Append(Chain("client"), e)
      /\ \A x \in Sides : Stream(x)' = Stream(x)
      /\ \A x \in Sides \ {"client"} : Chain(x)' = Chain(x) /\ from'[x] = from[x]
  BY <1>1, <1>3, <1>4, PeerSends DEF IInv
<1>6. from'["target"] = from["target"] /\ Chain("target")' = Chain("target")
  BY <1>1, <1>5
<1>7. Told' = Told /\ Verdict' = Verdict
  BY <1>1, <1>5, VerdictKept
<1>8. Early' /\ TargetSpeaksData'
  BY <1>1, <1>4, <1>5, <1>6, <1>7 DEF IInv, Early, TargetSpeaksData
<1>9. OpeningFirst' /\ said["client"] = 0
  BY <1>4 DEF IInv, OpeningFirst
<1>10. OneVerdict'
  BY <1>4, <1>7 DEF IInv, OneVerdict, Succeeded
<1>11. Reported'
  BY <1>4, <1>6 DEF IInv, Reported, Readable
<1>12. Flows'
  <2>1. SUFFICES ASSUME stage # "closed", NEW x \in Sides
                 PROVE  Numbered(Chain(x)', said[x])
    BY <1>4 DEF Flows, Chain
  <2>2. Numbered(Chain(x), said[x])
    BY <2>1 DEF IInv, Flows, Chain
  <2>3. CASE x = "client"
    <3>1. Chain("client") \in Seq(Token)
      BY <1>1, ChainTypes DEF IInv
    <3>2. Numbered(Append(Chain("client"), e), 0)
      BY <1>3, <1>9, <2>2, <2>3, <3>1, NumberedOther
    <3> QED
      BY <1>5, <1>9, <2>3, <3>2
  <2>4. CASE x # "client"
    BY <1>5, <2>2, <2>4
  <2> QED
    BY <2>3, <2>4
<1>13. Arrived'
  BY <1>4, <1>5, <1>7 DEF IInv, Arrived, Succeeded
<1>14. ClosedWhole'
  BY <1>1, <1>4, <1>5, SenderOpen DEF IInv
<1> QED
  BY <1>8, <1>9, <1>10, <1>11, <1>12, <1>13, <1>14 DEF IInv

(* SendData does: the next piece joins the chain. *)
LEMMA DataKeeps ==
  ASSUME IInv, TypeOK', NEW s \in Sides, SendData(s) PROVE IInv'
<1>1. "client" \in Sides /\ "target" \in Sides
  BY DEF Sides
<1>2. said[s] \in Nat /\ said[s] + 1 \in 0 .. MaxData
  BY ChainTypes, BoundsAssumption DEF SendData, IInv
<1>3. PICK e : e = Piece(said[s] + 1)
  OBVIOUS
<1>4. e \in Token /\ e.what = "data"
  BY <1>2, <1>3, TokenTypes DEF Piece
<1>5. /\ Puts(s, e) /\ peer[s] = "open" /\ Connected(s)
      /\ UNCHANGED <<opening, peer, stubborn, to, got, stage, holding, targetToo>>
      /\ s = "client" => opening = <<>>
  BY <1>3 DEF SendData, CanSend
<1>6. said'[s] = said[s] + 1 /\ \A x \in Sides \ {s} : said'[x] = said[x]
  BY DEF SendData, IInv, TypeOK
<1>7. /\ Chain(s)' = Append(Chain(s), e)
      /\ \A x \in Sides : Stream(x)' = Stream(x)
      /\ \A x \in Sides \ {s} : Chain(x)' = Chain(x) /\ from'[x] = from[x]
      /\ from'[s] = Append(from[s], e)
  BY <1>4, <1>5, PeerSends DEF IInv
<1>8. Told' = Told /\ Verdict' = Verdict
  BY <1>1, <1>7, VerdictKept
<1>9. Early'
  <2>1. stage \in Handshaking => s # "target"
    BY <1>5 DEF Connected
  <2>2. stage \in Handshaking => /\ from'["target"] = from["target"]
                                 /\ said'["target"] = said["target"]
    BY <1>1, <1>6, <1>7, <2>1
  <2> QED
    BY <1>1, <1>5, <1>7, <1>8, <2>2 DEF IInv, Early
<1>10. OpeningFirst'
  <2>1. CASE s = "client"
    BY <1>5, <2>1 DEF OpeningFirst
  <2>2. CASE s # "client"
    BY <1>1, <1>5, <1>6, <2>2 DEF IInv, OpeningFirst
  <2> QED
    BY <2>1, <2>2
<1>11. TargetSpeaksData'
  <2>1. \A i \in DOMAIN from'["target"] : from'["target"][i].what = "data"
    <3>1. CASE s = "target"
      <4>1. PICK y : y = from["target"]
        OBVIOUS
      <4>2. y \in Seq(Token) /\ \A i \in DOMAIN y : y[i].what = "data"
        BY <1>1, <4>1, ChainTypes DEF IInv, TargetSpeaksData
      <4>3. \A i \in DOMAIN Append(y, e) : Append(y, e)[i].what = "data"
        BY <1>4, <4>2
      <4> QED
        BY <1>7, <3>1, <4>1, <4>3
    <3>2. CASE s # "target"
      <4>1. from'["target"] = from["target"]
        BY <1>1, <1>7, <3>2
      <4> QED
        BY <4>1 DEF IInv, TargetSpeaksData
    <3> QED
      BY <3>1, <3>2
  <2> QED
    BY <1>5, <2>1 DEF IInv, TargetSpeaksData
<1>12. OneVerdict'
  BY <1>5, <1>8 DEF IInv, OneVerdict, Succeeded
<1>13. Reported'
  <2>1. from["target"] # <<>> => from'["target"] # <<>>
    <3>1. CASE s = "target"
      <4>1. from["target"] \in Seq(Token)
        BY <1>1, ChainTypes DEF IInv
      <4>2. Append(from["target"], e) # <<>>
        BY <4>1
      <4> QED
        BY <1>7, <3>1, <4>2
    <3>2. CASE s # "target"
      BY <1>1, <1>7, <3>2
    <3> QED
      BY <3>1, <3>2
  <2> QED
    BY <1>5, <2>1 DEF IInv, Reported, Readable
<1>14. Flows'
  <2>1. SUFFICES ASSUME stage # "closed", NEW x \in Sides
                 PROVE  Numbered(Chain(x)', said'[x])
    BY <1>5 DEF Flows, Chain
  <2>2. Numbered(Chain(x), said[x])
    BY <2>1 DEF IInv, Flows, Chain
  <2>3. CASE x = s
    <3>1. Chain(s) \in Seq(Token)
      BY ChainTypes DEF IInv
    <3>2. Numbered(Append(Chain(s), Piece(said[s] + 1)), said[s] + 1)
      BY <1>2, <2>2, <2>3, <3>1, NumberedPiece
    <3> QED
      BY <1>3, <1>6, <1>7, <2>3, <3>2
  <2>4. CASE x # s
    BY <1>6, <1>7, <2>2, <2>4
  <2> QED
    BY <2>3, <2>4
<1>15. Arrived'
  <2>1. SUFFICES ASSUME NEW x \in Sides
                 PROVE  \E n \in 0 .. said'[x] :
                          Numbered(Stream(x)', n) /\ (n > 0 => Succeeded')
    BY DEF Arrived
  <2>2. PICK n \in 0 .. said[x] : Numbered(Stream(x), n) /\ (n > 0 => Succeeded)
    BY DEF IInv, Arrived
  <2>3. n \in 0 .. said'[x]
    <3>1. said[x] \in Nat
      BY ChainTypes DEF IInv
    <3>2. said'[x] \in Nat /\ said'[x] >= said[x]
      BY <1>2, <1>6, <3>1
    <3> QED
      BY <3>1, <3>2
  <2>4. Succeeded' = Succeeded
    BY <1>8 DEF Succeeded
  <2> QED
    BY <1>7, <2>2, <2>3, <2>4
<1>16. ClosedWhole'
  BY <1>5, <1>6, <1>7, SenderOpen DEF IInv
<1> QED
  BY <1>9, <1>10, <1>11, <1>12, <1>13, <1>14, <1>15, <1>16 DEF IInv

---------------------------------------------------------------------------
(* The session keeps the invariant: the handshake. *)

(* A reply is the last token on the way to the client. *)
LEMMA ReplyLast ==
  ASSUME TypeOK, NEW r, Reply(r), Tok(r) \in Token, got' = got
  PROVE  /\ Stream("target")' = Append(Stream("target"), Tok(r))
         /\ Stream("client")' = Stream("client")
<1>1. /\ "target" \in Sides /\ "client" \in Sides
      /\ Other("target") = "client" /\ Other("client") = "target"
  BY DEF Sides, Other
<1>2. /\ to'["client"] = Append(to["client"], Tok(r))
      /\ to'["target"] = to["target"]
  BY <1>1 DEF Reply, TypeOK
<1>3. got["client"] \in Seq(Token) /\ to["client"] \in Seq(Token)
  BY <1>1 DEF TypeOK
<1>4. got["client"] \o Append(to["client"], Tok(r))
        = Append(got["client"] \o to["client"], Tok(r))
  BY <1>3, AddedLast
<1> QED
  BY <1>1, <1>2, <1>4 DEF Stream, Other

(* What the handshake does to the two streams and to the verdict. *)
LEMMA HandshakeStream ==
  ASSUME IInv, Handshake
  PROVE  /\ Stream("client")' = <<>>
         /\ Numbered(Stream("target")', 0)
         /\ \/ Told' = {} /\ Verdict' = "none" /\ stage' # "select"
            \/ /\ \A i, j \in Told' : i = j
               /\ stage' = "select" /\ Verdict' = "ok"
            \/ /\ \A i, j \in Told' : i = j
               /\ stage' = "closed" /\ Verdict' \in Verdicts \ {"ok"}
<1>1. /\ stage \in Handshaking /\ Session
      /\ \/ to' = to /\ stage' \in Handshaking \cup {"closed"}
         \/ Reply("method") /\ stage' \in Handshaking
         \/ \E v \in Verdicts \ {"ok"} : Reply(v) /\ stage' = "closed"
         \/ Reply("ok") /\ stage' = "select"
  BY HandshakeSteps
<1>2. /\ Stream("client") = <<>> /\ Told = {}
      /\ Numbered(Stream("target"), 0) /\ Verdict = "none"
  BY <1>1 DEF IInv, Early, Verdict
<1>3. Stream("target") \in Seq(Token)
  BY ChainTypes DEF IInv, Sides
<1>4. got' = got /\ "select" \notin Handshaking \cup {"closed"}
  BY <1>1 DEF Session, Handshaking
<1>5. CASE to' = to /\ stage' \in Handshaking \cup {"closed"}
  <2>1. /\ Stream("target")' = Stream("target")
        /\ Stream("client")' = Stream("client")
    BY <1>4, <1>5 DEF Stream, Other
  <2> QED
    BY <1>2, <1>4, <1>5, <2>1, VerdictKept
<1>6. CASE Reply("method") /\ stage' \in Handshaking
  <2>1. /\ Tok("method") \in Token /\ Tok("method").what \notin Verdicts
        /\ Tok("method").what # "data"
    BY TokenTypes DEF Tok, Verdicts
  <2>2. /\ Stream("target")' = Append(Stream("target"), Tok("method"))
        /\ Stream("client")' = Stream("client")
    BY <1>4, <1>6, <2>1, ReplyLast DEF IInv
  <2>3. Numbered(Append(Stream("target"), Tok("method")), 0)
    BY <1>2, <1>3, <2>1, NumberedOther
  <2>4. Told' = Told /\ Verdict' = Verdict
    BY <1>3, <2>1, <2>2, VerdictOther
  <2> QED
    BY <1>2, <1>4, <1>6, <2>2, <2>3, <2>4
<1>7. ASSUME NEW v \in Verdicts, Reply(v)
      PROVE  /\ Stream("client")' = <<>> /\ Numbered(Stream("target")', 0)
             /\ Verdict' = v /\ \A i, j \in Told' : i = j
  <2>1. /\ Tok(v) \in Token /\ Tok(v).what # "data"
    BY TokenTypes DEF Tok, Verdicts
  <2>2. /\ Stream("target")' = Append(Stream("target"), Tok(v))
        /\ Stream("client")' = Stream("client")
    BY <1>4, <1>7, <2>1, ReplyLast DEF IInv
  <2>3. Numbered(Append(Stream("target"), Tok(v)), 0)
    BY <1>2, <1>3, <2>1, NumberedOther
  <2>4. Verdict' = v /\ \A i, j \in Told' : i = j
    BY <1>2, <1>3, <2>2, VerdictGiven
  <2> QED
    BY <1>2, <2>2, <2>3, <2>4
<1>8. CASE \E v \in Verdicts \ {"ok"} : Reply(v) /\ stage' = "closed"
  BY <1>7, <1>8
<1>9. CASE Reply("ok") /\ stage' = "select"
  BY <1>7, <1>9 DEF Verdicts
<1> QED
  BY <1>1, <1>5, <1>6, <1>8, <1>9

(* The handshake takes a field, answers, or gives up. *)
LEMMA HandshakeKeeps ==
  ASSUME IInv, TypeOK', Handshake PROVE IInv'
<1>1. "client" \in Sides /\ "target" \in Sides
  BY DEF Sides
<1>2. /\ stage \in Handshaking /\ stage' \in Handshaking \cup {"closed", "select"}
      /\ from' = from \/ TakesField(Fields)
      /\ UNCHANGED <<opening, said, peer, stubborn, got, holding, targetToo>>
  BY HandshakeSteps DEF Session, peerVars
<1>3. /\ Stream("client")' = <<>>
      /\ Numbered(Stream("target")', 0)
      /\ \/ Told' = {} /\ Verdict' = "none" /\ stage' # "select"
         \/ /\ \A i, j \in Told' : i = j
            /\ stage' = "select" /\ Verdict' = "ok"
         \/ /\ \A i, j \in Told' : i = j
            /\ stage' = "closed" /\ Verdict' \in Verdicts \ {"ok"}
  BY HandshakeStream
<1>4. /\ from["target"] = <<>> /\ said["target"] = 0
  BY <1>2 DEF IInv, Early
<1>5. from'["target"] = <<>>
  BY <1>1, <1>2, <1>4 DEF TakesField, IInv, TypeOK
<1>6. "select" \notin Handshaking /\ "closed" \notin Handshaking
  BY DEF Handshaking
<1>7. Early'
  BY <1>2, <1>3, <1>4, <1>5, <1>6 DEF Early
<1>8. OpeningFirst'
  BY <1>2 DEF IInv, OpeningFirst
<1>9. stage' \notin {"to_client", "to_target"} /\ ~targetToo'
  BY <1>2 DEF IInv, TypeOK, Handshaking
<1>10. TargetSpeaksData'
  BY <1>5, <1>9 DEF TargetSpeaksData
<1>11. OneVerdict'
  BY <1>2, <1>3 DEF OneVerdict, Succeeded
<1>12. Reported'
  BY <1>9 DEF Reported
<1>13. ClosedWhole'
  BY <1>3 DEF ClosedWhole, Succeeded
<1>14. Arrived'
  <2>1. Numbered(Stream("client")', 0)
    BY <1>3 DEF Numbered
  <2>2. \A x \in Sides : Numbered(Stream(x)', 0)
    BY <1>3, <2>1 DEF Sides
  <2>3. \A x \in Sides : 0 \in 0 .. said'[x]
    BY <1>2, BoundsAssumption DEF IInv, TypeOK
  <2> QED
    BY <2>2, <2>3 DEF Arrived
<1>15. Numbered(from'["client"], said["client"])
  <2>1. from["client"] \in Seq(Token) /\ said["client"] \in Nat
    BY <1>1, ChainTypes DEF IInv
  <2>2. Numbered(from["client"], said["client"])
    <3>1. Numbered(Stream("client") \o (Held("client") \o from["client"]), said["client"])
      BY <1>1, <1>2, <1>6 DEF IInv, Flows
    <3>2. Stream("client") = <<>> /\ Held("client") = <<>>
      BY <1>2 DEF IInv, Early, Held, Handshaking
    <3> QED
      BY <2>1, <3>1, <3>2, Concats
  <2>3. CASE from' = from
    BY <2>2, <2>3
  <2>4. CASE TakesField(Fields)
    <3>1. from["client"] # <<>> /\ Head(from["client"]).what # "data"
      BY <2>4 DEF TakesField, Fields
    <3>2. from'["client"] = Tail(from["client"])
      BY <1>1, <2>4 DEF TakesField, IInv, TypeOK
    <3> QED
      BY <2>1, <2>2, <3>1, <3>2, NumberedTail
  <2> QED
    BY <1>2, <2>3, <2>4
<1>16. Flows'
  <2>1. \A x \in Sides : Held(x)' = <<>>
    BY <1>9 DEF Held
  <2>2. from'["client"] \in Seq(Token) /\ Stream("target")' \in Seq(Token)
    <3>1. /\ got'["client"] \in Seq(Token) /\ to'["client"] \in Seq(Token)
          /\ from'["client"] \in Seq(Token)
      BY <1>1 DEF TypeOK
    <3> QED
      BY <3>1, Concats DEF Stream, Other
  <2>3. Stream("client")' \o (Held("client")' \o from'["client"]) = from'["client"]
    BY <1>1, <1>3, <2>1, <2>2, Concats
  <2>4. Stream("target")' \o (Held("target")' \o from'["target"]) = Stream("target")'
    BY <1>1, <1>5, <2>1, <2>2, Concats
  <2>5. Numbered(Stream("client")' \o (Held("client")' \o from'["client"]), said'["client"])
    BY <1>2, <1>15, <2>3
  <2>6. Numbered(Stream("target")' \o (Held("target")' \o from'["target"]), said'["target"])
    BY <1>2, <1>3, <1>4, <2>4
  <2> QED
    BY <2>5, <2>6 DEF Flows, Sides
<1> QED
  BY <1>7, <1>8, <1>10, <1>11, <1>12, <1>13, <1>14, <1>16 DEF IInv

---------------------------------------------------------------------------
(* The session keeps the invariant: the relay. *)

(* The stage in which the relay writes what it has read from s. *)
Writing(s) == IF s = "client" THEN "to_target" ELSE "to_client"

(* recv() moves a whole buffer along, or finds the end of a stream. *)
LEMMA RecvKeeps ==
  ASSUME IInv, TypeOK', Reported', NEW s \in Sides, RelayRecv(s, Writing(s)),
         stage \in {"select", "from_target"}
  PROVE  IInv'
<1>1. "client" \in Sides /\ "target" \in Sides
  BY DEF Sides
<1>2. /\ Readable(s) /\ holding' = from[s]
      /\ stage' = IF from[s] = <<>> THEN "closed" ELSE Writing(s)
      /\ UNCHANGED <<opening, said, peer, stubborn, to, got>>
  BY DEF RelayRecv, peerVars
<1>3. from'[s] = <<>> /\ \A x \in Sides \ {s} : from'[x] = from[x]
  BY DEF RelayRecv, IInv, TypeOK
<1>4. stage \notin Handshaking \cup {"closed"} /\ stage' \notin Handshaking
  BY <1>2 DEF Handshaking, Writing
<1>5. \A x : Stream(x)' = Stream(x)
  BY <1>2 DEF Stream, Other
<1>6. Told' = Told /\ Verdict' = Verdict /\ Succeeded' = Succeeded /\ Succeeded
  BY <1>4, <1>5, VerdictKept DEF Succeeded, IInv, OneVerdict
<1>7. \A x \in Sides : Held(x) = <<>>
  BY DEF Held
<1>8. Early' /\ OpeningFirst'
  BY <1>2, <1>4 DEF IInv, Early, OpeningFirst
<1>9. TargetSpeaksData'
  <2>1. \A i \in DOMAIN from'["target"] : from'["target"][i].what = "data"
    <3>1. CASE s = "target"
      BY <1>3, <3>1
    <3>2. CASE s # "target"
      BY <1>1, <1>3, <3>2 DEF IInv, TargetSpeaksData
    <3> QED
      BY <3>1, <3>2
  <2>2. ASSUME stage' = "to_client"
        PROVE  \A i \in DOMAIN holding' : holding'[i].what = "data"
    <3>1. s = "target"
      BY <1>2, <2>2 DEF Writing, Sides
    <3> QED
      BY <1>2, <3>1 DEF IInv, TargetSpeaksData
  <2> QED
    BY <2>1, <2>2 DEF TargetSpeaksData
<1>10. OneVerdict'
  BY <1>6 DEF IInv, OneVerdict
<1>11. \A x \in Sides : Numbered(Stream(x) \o from[x], said[x])
  <2>1. ASSUME NEW x \in Sides PROVE Numbered(Stream(x) \o from[x], said[x])
    <3>1. Numbered(Stream(x) \o (Held(x) \o from[x]), said[x])
      BY <1>4 DEF IInv, Flows
    <3>2. <<>> \o from[x] = from[x]
      BY ChainTypes, Concats DEF IInv
    <3> QED
      BY <1>7, <3>1, <3>2
  <2> QED
    BY <2>1
<1>12. Flows'
  <2>1. SUFFICES ASSUME stage' # "closed", NEW x \in Sides
                 PROVE  Numbered(Stream(x)' \o (Held(x)' \o from'[x]), said'[x])
    BY DEF Flows
  <2>2. stage' = Writing(s)
    BY <1>2, <2>1
  <2>3. from[x] \in Seq(Token)
    BY ChainTypes DEF IInv
  <2>4. Held(x)' \o from'[x] = from[x]
    <3>1. CASE x = s
      <4>1. Held(x)' = from[x]
        BY <1>2, <2>2, <3>1 DEF Held, Writing
      <4>2. from'[x] = <<>>
        BY <1>3, <3>1
      <4> QED
        BY <2>3, <4>1, <4>2, Concats
    <3>2. CASE x # s
      <4>1. Held(x)' = <<>>
        BY <2>2, <3>2 DEF Held, Writing, Sides
      <4>2. from'[x] = from[x]
        BY <1>3, <3>2
      <4> QED
        BY <2>3, <4>1, <4>2, Concats
    <3> QED
      BY <3>1, <3>2
  <2> QED
    BY <1>2, <1>5, <1>11, <2>4
<1>13. Arrived'
  BY <1>2, <1>5, <1>6 DEF IInv, Arrived
<1>14. ClosedWhole'
  <2>1. SUFFICES ASSUME stage' = "closed", NEW x \in Sides
                 PROVE  \/ peer'[x] = "gone" \/ peer'[Other(x)] # "open"
                        \/ peer'[x] # "open" /\ from'[x] = <<>>
                             /\ Numbered(Stream(x)', said'[x])
    BY DEF ClosedWhole, Other
  <2>2. from[s] = <<>>
    BY <1>2, <2>1 DEF Writing
  <2>3. peer[s] # "open"
    BY <1>2, <2>2 DEF Readable
  <2>4. CASE x = s
    <3>1. Stream(x) \o from[x] = Stream(x)
      BY <2>2, <2>4, ChainTypes, Concats DEF IInv
    <3>2. Numbered(Stream(x), said[x])
      BY <1>11, <3>1
    <3> QED
      BY <1>2, <1>3, <1>5, <2>3, <2>4, <3>2
  <2>5. CASE x # s
    <3>1. Other(x) = s
      BY <2>5 DEF Other, Sides
    <3> QED
      BY <1>2, <2>3, <3>1
  <2> QED
    BY <2>4, <2>5
<1> QED
  BY <1>8, <1>9, <1>10, <1>12, <1>13, <1>14 DEF IInv

(* The head of what the relay holds goes to the other side of s. *)
LEMMA SendStream ==
  ASSUME IInv, NEW s \in Sides, stage = Writing(s),
         RelaySend(Other(s), Tail(holding))
  PROVE  /\ Stream(s)' = Append(Stream(s), Head(holding))
         /\ Stream(Other(s))' = Stream(Other(s))
         /\ Told' = Told /\ Verdict' = Verdict
<1>1. "client" \in Sides /\ "target" \in Sides
  BY DEF Sides
<1>2. PICK r : r = Other(s)
  OBVIOUS
<1>3. r \in Sides /\ Other(r) = s /\ r # s /\ Other(s) = r
  BY <1>2, ChainTypes DEF IInv
<1>4. PICK h : h = Head(holding)
  OBVIOUS
<1>5. /\ holding # <<>> /\ holding' = Tail(holding)
      /\ to'[r] = Append(to[r], h) /\ to'[s] = to[s]
      /\ UNCHANGED <<opening, said, peer, stubborn, from, got, targetToo>>
  BY <1>3, <1>4 DEF RelaySend, peerVars, IInv, TypeOK
<1>6. /\ holding \in Seq(Token) /\ h \in Token /\ Tail(holding) \in Seq(Token)
      /\ h = holding[1] /\ 1 \in DOMAIN holding
  BY <1>4, <1>5 DEF IInv, TypeOK
<1>7. /\ got[r] \in Seq(Token) /\ to[r] \in Seq(Token) /\ from[s] \in Seq(Token)
      /\ Stream(s) \in Seq(Token)
  BY <1>3, ChainTypes DEF IInv
<1>8. Stream(s)' = Append(Stream(s), h) /\ Stream(r)' = Stream(r)
  <2>1. got[r] \o Append(to[r], h) = Append(got[r] \o to[r], h)
    BY <1>6, <1>7, AddedLast
  <2>2. Stream(s) = got[r] \o to[r] /\ Stream(s)' = got'[r] \o to'[r]
    BY <1>3 DEF Stream, Other
  <2>3. Stream(r) = got[s] \o to[s] /\ Stream(r)' = got'[s] \o to'[s]
    BY <1>3 DEF Stream, Other
  <2> QED
    BY <1>5, <2>1, <2>2, <2>3
<1>9. Told' = Told /\ Verdict' = Verdict
  <2>1. CASE s = "target"
    <3>1. h.what = "data"
      BY <1>6, <2>1 DEF IInv, TargetSpeaksData, Writing
    <3>2. h.what \notin Verdicts
      BY <3>1 DEF Verdicts
    <3> QED
      BY <1>7, <1>8, <2>1, <3>2, VerdictOther
  <2>2. CASE s = "client"
    <3>1. r = "target"
      BY <1>3, <2>2 DEF Sides
    <3> QED
      BY <1>8, <3>1, VerdictKept
  <2> QED
    BY <2>1, <2>2 DEF Sides
<1> QED
  BY <1>3, <1>4, <1>8, <1>9

(* sendall() moves the first token along. *)
LEMMA SendKeeps ==
  ASSUME IInv, TypeOK', NEW s \in Sides, stage = Writing(s),
         RelaySend(Other(s), Tail(holding)),
         NEW next \in {"select", "from_target"},
         stage' = IF holding' = <<>> THEN next ELSE stage
  PROVE  IInv'
<1>1. "client" \in Sides /\ "target" \in Sides
  BY DEF Sides
<1>2. PICK r : r = Other(s)
  OBVIOUS
<1>3. r \in Sides /\ Other(r) = s /\ r # s /\ Other(s) = r
  BY <1>2, ChainTypes DEF IInv
<1>4. PICK h : h = Head(holding)
  OBVIOUS
<1>5. /\ holding # <<>> /\ holding' = Tail(holding)
      /\ to'[r] = Append(to[r], h) /\ to'[s] = to[s]
      /\ UNCHANGED <<opening, said, peer, stubborn, from, got, targetToo>>
  BY <1>3, <1>4 DEF RelaySend, peerVars, IInv, TypeOK
<1>6. /\ holding \in Seq(Token) /\ h \in Token /\ Tail(holding) \in Seq(Token)
      /\ h = holding[1] /\ 1 \in DOMAIN holding
  BY <1>4, <1>5 DEF IInv, TypeOK
<1>7. /\ got[r] \in Seq(Token) /\ to[r] \in Seq(Token) /\ from[s] \in Seq(Token)
      /\ Stream(s) \in Seq(Token)
  BY <1>3, ChainTypes DEF IInv
<1>8. stage \notin Handshaking \cup {"closed"} /\ stage' \notin Handshaking \cup {"closed"}
  BY DEF Handshaking, Writing
<1>9. Stream(s)' = Append(Stream(s), h) /\ Stream(r)' = Stream(r)
  BY <1>3, <1>4, SendStream
<1>10. Told' = Told /\ Verdict' = Verdict
  BY SendStream
<1>11. Succeeded' = Succeeded /\ Succeeded
  BY <1>8, <1>10 DEF IInv, OneVerdict, Succeeded
<1>12. Early' /\ OpeningFirst' /\ ClosedWhole'
  BY <1>5, <1>8 DEF IInv, Early, OpeningFirst, ClosedWhole
<1>13. TargetSpeaksData'
  <2>1. ASSUME stage' = "to_client"
        PROVE  \A i \in DOMAIN holding' : holding'[i].what = "data"
    <3>1. stage = "to_client"
      BY <2>1
    <3>2. \A i \in DOMAIN holding : holding[i].what = "data"
      BY <3>1 DEF IInv, TargetSpeaksData
    <3>3. \A i \in DOMAIN Tail(holding) :
            Tail(holding)[i] = holding[i + 1] /\ i + 1 \in DOMAIN holding
      BY <1>5, <1>6
    <3> QED
      BY <1>5, <3>2, <3>3
  <2> QED
    BY <1>5, <2>1 DEF IInv, TargetSpeaksData
<1>14. OneVerdict'
  BY <1>10, <1>11 DEF IInv, OneVerdict
<1>15. Reported'
  BY <1>5, <1>8 DEF IInv, Reported, Readable
<1>16. /\ Held(s) = holding /\ Held(s)' = holding'
       /\ Held(r) = <<>> /\ Held(r)' = <<>>
  <2>1. Held(s) = holding /\ Held(r) = <<>>
    BY <1>3 DEF Held, Writing, Sides
  <2>2. CASE holding' = <<>>
    BY <2>1, <2>2 DEF Held
  <2>3. CASE holding' # <<>>
    BY <1>3, <2>1, <2>3 DEF Held, Writing, Sides
  <2> QED
    BY <2>1, <2>2, <2>3
<1>17. \A x \in Sides : Numbered(Stream(x)' \o (Held(x)' \o from'[x]), said'[x])
  <2>1. \A x \in Sides : Numbered(Stream(x) \o (Held(x) \o from[x]), said[x])
    BY <1>8 DEF IInv, Flows
  <2>2. Append(Stream(s), h) \o (Tail(holding) \o from[s])
          = Stream(s) \o (holding \o from[s])
    <3>0. PICK x, y : x = Append(Stream(s), h) /\ y = Tail(holding)
      OBVIOUS
    <3>1. x \o y = Stream(s) \o holding
      BY <1>4, <1>5, <1>6, <1>7, <3>0, MovesOn
    <3>2. x \in Seq(Token) /\ y \in Seq(Token)
      BY <1>6, <1>7, <3>0
    <3>3. (x \o y) \o from[s] = x \o (y \o from[s])
      <4>1. from[s] \in Seq(Token)
        BY <1>7
      <4> QED
        BY <3>2, <4>1, Regroup, Zenon
    <3>4. (Stream(s) \o holding) \o from[s] = Stream(s) \o (holding \o from[s])
      BY <1>6, <1>7, Regroup
    <3> QED
      BY <3>0, <3>1, <3>3, <3>4
  <2>3. Numbered(Stream(s)' \o (Held(s)' \o from'[s]), said'[s])
    BY <1>5, <1>9, <1>16, <2>1, <2>2
  <2>4. Numbered(Stream(r)' \o (Held(r)' \o from'[r]), said'[r])
    BY <1>3, <1>5, <1>9, <1>16, <2>1
  <2> QED
    BY <1>3, <2>3, <2>4 DEF Sides
<1>18. Flows'
  BY <1>17 DEF Flows
<1>19. Arrived'
  <2>1. SUFFICES ASSUME NEW x \in Sides
                 PROVE  \E n \in 0 .. said'[x] :
                          Numbered(Stream(x)', n) /\ (n > 0 => Succeeded')
    BY DEF Arrived
  <2>2. /\ Stream(x)' \in Seq(Token) /\ Held(x)' \o from'[x] \in Seq(Token)
        /\ said'[x] \in Nat
    <3>0. Other(x) \in Sides
      BY ChainTypes DEF IInv
    <3>1. /\ got'[Other(x)] \in Seq(Token) /\ to'[Other(x)] \in Seq(Token)
          /\ from'[x] \in Seq(Token) /\ said'[x] \in Nat
      BY <3>0, BoundsAssumption DEF TypeOK
    <3>2. Held(x)' \in Seq(Token)
      BY DEF TypeOK, Held
    <3> QED
      BY <3>1, <3>2, Concats DEF Stream, Other
  <2>3. \E n \in 0 .. said'[x] : Numbered(Stream(x)', n)
    BY <1>17, <2>2, NumberedPrefix
  <2> QED
    BY <1>11, <2>3
<1> QED
  BY <1>12, <1>13, <1>14, <1>15, <1>18, <1>19 DEF IInv

(* Every step of the relay is one of these, or ends the session. *)
LEMMA RelayKeeps ==
  ASSUME IInv, TypeOK', Relay PROVE IInv'
<1>1. /\ "client" \in Sides /\ "target" \in Sides
      /\ Other("client") = "target" /\ Other("target") = "client"
      /\ Writing("client") = "to_target" /\ Writing("target") = "to_client"
  BY DEF Sides, Other, Writing
<1>2. CASE Select /\ Readable("client")
  <2>1. /\ RelayRecv("client", "to_target") /\ targetToo' = Readable("target")
        /\ stage = "select"
    BY <1>2 DEF Select
  <2>2. peer' = peer /\ from'["target"] = from["target"]
    BY <1>1, <2>1 DEF RelayRecv, peerVars, IInv, TypeOK
  <2>3. Reported'
    BY <2>1, <2>2 DEF Reported, Readable
  <2> QED
    BY <1>1, <2>1, <2>3, RecvKeeps
<1>3. CASE Select /\ ~Readable("client")
  <2>1. /\ RelayRecv("target", "to_client") /\ targetToo' = targetToo
        /\ stage = "select" /\ ~targetToo
    BY <1>3 DEF Select, IInv, TypeOK
  <2>2. Reported'
    BY <2>1 DEF Reported
  <2> QED
    BY <1>1, <2>1, <2>2, RecvKeeps
<1>4. CASE SelectTarget /\ targetToo
  <2>1. RelayRecv("target", "to_client") /\ targetToo' = FALSE /\ stage = "from_target"
    BY <1>4 DEF SelectTarget
  <2>2. Reported'
    BY <2>1 DEF Reported
  <2> QED
    BY <1>1, <2>1, <2>2, RecvKeeps
<1>5. CASE SelectTarget /\ ~targetToo
  <2>1. /\ stage = "from_target" /\ stage' = "select" /\ targetToo' = FALSE
        /\ UNCHANGED <<opening, said, peer, stubborn, from, to, got, holding>>
    BY <1>5 DEF SelectTarget, peerVars
  <2>2. /\ \A x : Stream(x)' = Stream(x)
        /\ \A x \in Sides : Held(x)' = Held(x)
    BY <2>1 DEF Stream, Other, Held
  <2>3. Told' = Told /\ Verdict' = Verdict
    BY <2>2, VerdictKept
  <2>4. stage \notin Handshaking \cup {"closed"} /\ stage' \notin Handshaking \cup {"closed"}
    BY <2>1 DEF Handshaking
  <2>5. Early' /\ OpeningFirst' /\ TargetSpeaksData' /\ ClosedWhole' /\ Reported'
    BY <2>1, <2>4 DEF IInv, Early, OpeningFirst, TargetSpeaksData, ClosedWhole, Reported
  <2>6. OneVerdict' /\ Arrived'
    BY <2>1, <2>2, <2>3, <2>4 DEF IInv, OneVerdict, Succeeded, Arrived
  <2>7. Flows'
    BY <2>1, <2>2, <2>4 DEF IInv, Flows
  <2> QED
    BY <2>5, <2>6, <2>7 DEF IInv
<1>6. CASE SendToTarget
  <2>1. /\ RelaySend("target", Tail(holding)) /\ stage = "to_target"
        /\ stage' = IF holding' = <<>> THEN "from_target" ELSE stage
    BY <1>6 DEF SendToTarget, Written
  <2> QED
    BY <1>1, <2>1, SendKeeps
<1>7. CASE SendToClient
  <2>1. /\ RelaySend("client", Tail(holding)) /\ stage = "to_client"
        /\ stage' = IF holding' = <<>> THEN "select" ELSE stage
    BY <1>7 DEF SendToClient, Written
  <2> QED
    BY <1>1, <2>1, SendKeeps
<1>8. CASE RelayRaises
  <2>1. /\ peer["target"] = "gone" \/ peer["client"] = "gone"
        /\ stage' = "closed" /\ stage \notin Handshaking
        /\ UNCHANGED <<opening, said, peer, stubborn, from, to, got, holding, targetToo>>
    BY <1>8 DEF RelayRaises, peerVars, Handshaking
  <2>2. /\ \A x : Stream(x)' = Stream(x)
    BY <2>1 DEF Stream, Other
  <2>3. Told' = Told /\ Verdict' = Verdict
    BY <2>2, VerdictKept
  <2>4. Early' /\ OpeningFirst' /\ TargetSpeaksData' /\ Reported' /\ Flows'
    BY <2>1 DEF IInv, Early, OpeningFirst, TargetSpeaksData, Reported, Flows, Handshaking
  <2>5. OneVerdict' /\ Arrived'
    BY <2>1, <2>2, <2>3 DEF IInv, OneVerdict, Succeeded, Arrived
  <2>6. \A x \in Sides : peer'[x] = "gone" \/ peer'[Other(x)] # "open"
    BY <1>1, <2>1 DEF Sides
  <2>7. ClosedWhole'
    BY <2>6 DEF ClosedWhole, Other
  <2> QED
    BY <2>4, <2>5, <2>7 DEF IInv
<1> QED
  BY <1>2, <1>3, <1>4, <1>5, <1>6, <1>7, <1>8 DEF Relay

---------------------------------------------------------------------------
(* The theorems. *)

(* The invariant holds at the start. *)
LEMMA InvariantInit == Init => IInv
<1> SUFFICES ASSUME Init PROVE IInv
  OBVIOUS
<1>1. TypeOK
  BY TypesInit
<1>2. /\ stage \in Handshaking /\ stage # "closed" /\ stage # "to_client"
      /\ targetToo = FALSE /\ holding = <<>>
      /\ \A s \in Sides : /\ said[s] = 0 /\ from[s] = <<>>
                          /\ to[s] = <<>> /\ got[s] = <<>>
      /\ "client" \in Sides /\ "target" \in Sides
  BY DEF Init, Handshaking, Sides
<1>3. \A s \in Sides : Stream(s) = <<>> /\ Held(s) = <<>>
  <2>1. \A s \in Sides : Other(s) \in Sides
    BY DEF Other, Sides
  <2> QED
    BY <1>2, <2>1 DEF Stream, Held
<1>4. Numbered(<<>>, 0)
  BY DEF Numbered
<1>5. Told = {}
  <2>1. Replies = <<>>
    BY <1>2, <1>3, RepliesAreStream
  <2> QED
    BY <2>1 DEF Told
<1>6. Early /\ OpeningFirst /\ TargetSpeaksData /\ ClosedWhole /\ Reported
  BY <1>2, <1>3, <1>4, <1>5 DEF Early, OpeningFirst, TargetSpeaksData, ClosedWhole, Reported
<1>7. OneVerdict
  BY <1>2, <1>5 DEF OneVerdict
<1>8. Flows
  <2>1. <<>> \o (<<>> \o <<>>) = <<>>
    OBVIOUS
  <2> QED
    BY <1>2, <1>3, <1>4, <2>1 DEF Flows
<1>9. Arrived
  <2>1. ASSUME NEW s \in Sides PROVE 0 \in 0 .. said[s] /\ Numbered(Stream(s), 0)
    BY <1>2, <1>3, <1>4
  <2> QED
    BY <2>1 DEF Arrived
<1> QED
  BY <1>1, <1>6, <1>7, <1>8, <1>9 DEF IInv

(* Every step keeps it. *)
LEMMA InvariantStays == IInv /\ [Next]_vars => IInv'
<1> SUFFICES ASSUME IInv, [Next]_vars PROVE IInv'
  OBVIOUS
<1>1. TypeOK
  BY DEF IInv
<1>2. CASE Peers
  <2>1. TypeOK'
    BY <1>1, <1>2, TypesPeers
  <2> QED
    BY <1>2, <2>1, FieldKeeps, DataKeeps, ReadKeeps, EndsKeeps DEF Peers
<1>3. CASE Handshake
  <2>1. TypeOK'
    BY <1>1, <1>3, TypesHandshake
  <2> QED
    BY <1>3, <2>1, HandshakeKeeps
<1>4. CASE Relay
  <2>1. TypeOK'
    BY <1>1, <1>4, TypesRelay
  <2> QED
    BY <1>4, <2>1, RelayKeeps
<1>5. CASE UNCHANGED vars
  <2>1. UNCHANGED <<opening, said, peer, stubborn, from, to, got, stage, holding, targetToo>>
    BY <1>5 DEF vars, peerVars
  <2>2. /\ \A x : Stream(x)' = Stream(x)
        /\ \A x : Held(x)' = Held(x)
    BY <2>1 DEF Stream, Other, Held
  <2>3. Told' = Told /\ Verdict' = Verdict
    BY <2>2, VerdictKept
  <2>4. TypeOK'
    BY <1>1, <2>1 DEF TypeOK
  <2>5. Early' /\ OpeningFirst' /\ TargetSpeaksData' /\ OneVerdict' /\ Reported'
    BY <2>1, <2>2, <2>3 DEF IInv, Early, OpeningFirst, TargetSpeaksData, OneVerdict,
       Succeeded, Reported, Readable
  <2>6. Flows' /\ Arrived' /\ ClosedWhole'
    BY <2>1, <2>2, <2>3 DEF IInv, Flows, Arrived, ClosedWhole, Succeeded, Other
  <2> QED
    BY <2>4, <2>5, <2>6 DEF IInv
<1> QED
  BY <1>2, <1>3, <1>4, <1>5 DEF Next

(* The whole invariant, of every reachable state. *)
THEOREM TunnelInvariant == Spec => []IInv
BY InvariantInit, InvariantStays, PTL DEF Spec

(* Every variable keeps its type, and no buffer holds more than Cap. *)
THEOREM TypesCorrect == Spec => []TypeOK
<1>1. IInv => TypeOK
  BY DEF IInv
<1> QED
  BY <1>1, TunnelInvariant, PTL

(* With the whole chain numbered, nothing is missing from it. *)
LEMMA NothingLostFollows == IInv => NothingLost
<1> SUFFICES ASSUME IInv, NEW s \in Sides, Succeeded, ~CutOff(s)
             PROVE  Data(Underway(s)) = [k \in 1 .. said[s] |-> k]
  BY DEF NothingLost
<1>1. /\ Stream(s) \in Seq(Token) /\ Chain(s) \in Seq(Token) /\ said[s] \in Nat
  BY ChainTypes DEF IInv
<1>2. CASE stage # "closed"
  <2>1. Underway(s) = Chain(s)
    BY <1>2 DEF Underway, Chain, Stream
  <2>2. Numbered(Chain(s), said[s])
    BY <1>2 DEF IInv, Flows, Chain
  <2> QED
    BY <1>1, <2>1, <2>2, DataNumbered
<1>3. CASE stage = "closed"
  <2>1. Underway(s) = Stream(s)
    BY <1>1, <1>3, Concats DEF Underway, Stream
  <2>2. Numbered(Stream(s), said[s])
    BY <1>3 DEF IInv, ClosedWhole, CutOff
  <2> QED
    BY <1>1, <2>1, <2>2, DataNumbered
<1> QED
  BY <1>2, <1>3

(* Unless a side is cut off, all that it has sent through the tunnel is on *)
(* its way or has come out, whatever the peers and the relay did.          *)
THEOREM NothingIsLost == Spec => []NothingLost
BY TunnelInvariant, NothingLostFollows, PTL

---------------------------------------------------------------------------
(* The promise of TunnelContract. *)

Sent == [s \in Sides |-> [k \in 1 .. said[s] |-> k]]
Received == [s \in Sides |-> Data(got[Other(s)])]

(* A session starts where its contract does. *)
LEMMA ContractInit == Init => Contract!Init
<1> SUFFICES ASSUME Init PROVE Contract!Init
  OBVIOUS
<1>1. \A s \in Sides : said[s] = 0 /\ got[s] = <<>> /\ to[s] = <<>>
  BY DEF Init
<1>2. Verdict = "none"
  <2>1. Replies = <<>>
    BY <1>1 DEF Replies, Sides
  <2> QED
    BY <2>1 DEF Verdict, Told
<1>3. [k \in 1 .. 0 |-> k] = <<>>
  OBVIOUS
<1>4. Data(<<>>) = <<>>
  <2>1. Numbered(<<>>, 0) /\ <<>> \in Seq(Token) /\ 0 \in Nat
    BY DEF Numbered
  <2>2. Data(<<>>) = [k \in 1 .. 0 |-> k]
    BY <2>1, DataNumbered
  <2> QED
    BY <1>3, <2>2
<1>5. Sent = [s \in Sides |-> <<>>]
  BY <1>1, <1>3 DEF Sent
<1>6. Received = [s \in Sides |-> <<>>]
  <2>1. \A s \in Sides : got[Other(s)] = <<>>
    BY <1>1 DEF Other, Sides
  <2> QED
    BY <1>4, <2>1 DEF Received
<1> QED
  BY <1>2, <1>5, <1>6 DEF Contract!Init, Sent, Received

(* A step that reads nothing from the proxy changes nothing received. *)
LEMMA NothingReceived ==
  ASSUME got' = got PROVE Received' = Received
BY DEF Received, Data, Other

(* A piece sent is one more in its direction. *)
LEMMA ContractSend ==
  ASSUME IInv, NEW s \in Sides, SendData(s) PROVE Contract!Send(s)
<1>1. /\ said' = [said EXCEPT ![s] = @ + 1]
      /\ said \in [Sides -> 0 .. MaxData] /\ said[s] \in Nat /\ got' = got /\ to' = to
  BY BoundsAssumption DEF SendData, IInv, TypeOK
<1>2. Verdict' = Verdict
  BY <1>1 DEF Verdict, Told, Replies
<1>3. Append([k \in 1 .. said[s] |-> k], Len([k \in 1 .. said[s] |-> k]) + 1)
        = [k \in 1 .. said[s] + 1 |-> k]
  BY <1>1
<1>4. Sent' = [Sent EXCEPT ![s] = Append(@, Len(@) + 1)]
  <2>1. /\ Sent' = [x \in Sides |-> [k \in 1 .. said'[x] |-> k]]
        /\ Sent[s] = [k \in 1 .. said[s] |-> k]
        /\ DOMAIN Sent = Sides
    BY DEF Sent
  <2>2. Sent'[s] = Append(Sent[s], Len(Sent[s]) + 1)
    BY <1>1, <1>3, <2>1
  <2>3. \A x \in Sides \ {s} : Sent'[x] = Sent[x]
    BY <1>1 DEF Sent
  <2> QED
    BY <2>1, <2>2, <2>3 DEF Sent
<1>5. Received' = Received
  BY <1>1, NothingReceived
<1> QED
  BY <1>2, <1>4, <1>5 DEF Contract!Send, Sent, Received

(* What a side reads is the next piece of the other, or no data at all. *)
LEMMA ContractRead ==
  ASSUME IInv, IInv', NEW s \in Sides, ReadData(s)
  PROVE  Contract!Receive(Other(s)) \/ UNCHANGED <<Verdict, Sent, Received>>
<1>1. PICK d : d = Other(s)
  OBVIOUS
<1>2. d \in Sides /\ Other(d) = s /\ d # s
  BY <1>1, ChainTypes DEF IInv
<1>3. /\ \A x \in Sides : Stream(x)' = Stream(x)
      /\ said' = said
  BY PeerReads DEF IInv
<1>4. "target" \in Sides
  BY DEF Sides
<1>5. Told' = Told /\ Verdict' = Verdict
  BY <1>3, <1>4, VerdictKept
<1>6. Sent' = Sent
  BY <1>3 DEF Sent
<1>7. PICK e : e = Head(to[s])
  OBVIOUS
<1>8. /\ got'[s] = Append(got[s], e) /\ \A x \in Sides \ {s} : got'[x] = got[x]
      /\ got[s] \in Seq(Token) /\ e \in Token
  BY <1>7 DEF ReadData, IInv, TypeOK
<1>9. PICK n \in 0 .. said[d] : Numbered(Stream(d), n) /\ (n > 0 => Succeeded)
  BY <1>2 DEF IInv, Arrived
<1>10. said[d] \in Nat
  BY <1>2, ChainTypes DEF IInv
<1>11. PICK k \in 0 .. n : Numbered(got'[s], k)
  <2>1. Stream(d) = got'[s] \o to'[s]
    <3>1. Stream(d)' = got'[s] \o to'[s]
      BY <1>2 DEF Stream, Other
    <3> QED
      BY <1>2, <1>3, <3>1
  <2>2. got'[s] \in Seq(Token) /\ to'[s] \in Seq(Token)
    BY DEF IInv, TypeOK
  <2> QED
    BY <1>9, <1>10, <2>1, <2>2, NumberedPrefix
<1>12. got'[s] \in Seq(Token) /\ k \in Nat /\ k <= said[d]
  BY <1>8, <1>9, <1>10, <1>11
<1>13. Data(got'[s]) = [i \in 1 .. k |-> i]
  BY <1>11, <1>12, DataNumbered
<1>14. Numbered(got[s], IF k = 0 THEN 0 ELSE k - 1)
  BY <1>8, <1>11, <1>12, NumberedButLast
<1>15. Received' = [Received EXCEPT ![d] = Data(got'[s])] /\ Received[d] = Data(got[s])
  <2>1. \A x \in Sides : Other(x) = IF x = d THEN s ELSE d
    BY <1>2 DEF Other, Sides
  <2>2. Data(got)' = Data(got')
    BY DEF Data
  <2>3. \A x \in Sides : /\ Received'[x] = Data(got'[Other(x)])
                         /\ Received[x] = Data(got[Other(x)])
    BY DEF Received, Data, Other
  <2>4. got'[d] = got[d]
    BY <1>2, <1>8
  <2>5. Received'[d] = Data(got'[s]) /\ Received'[s] = Received[s]
    BY <1>2, <2>1, <2>3, <2>4
  <2>6. DOMAIN Received = Sides /\ DOMAIN Received' = Sides /\ Sides = {s, d}
    BY <1>2 DEF Received, Sides
  <2> QED
    BY <1>2, <2>1, <2>3, <2>5, <2>6 DEF Received
<1>16. CASE k = 0
  <2>1. Data(got[s]) = [i \in 1 .. 0 |-> i]
    BY <1>8, <1>14, <1>16, DataNumbered
  <2>2. Data(got'[s]) = Data(got[s])
    BY <1>13, <1>16, <2>1
  <2>3. Received' = Received
    BY <1>15, <2>2 DEF Received
  <2> QED
    BY <1>5, <1>6, <2>3
<1>17. CASE k # 0
  <2>1. k - 1 \in Nat /\ Numbered(got[s], k - 1)
    BY <1>12, <1>14, <1>17
  <2>2. Data(got[s]) = [i \in 1 .. k - 1 |-> i]
    BY <1>8, <2>1, DataNumbered
  <2>3. Verdict = "ok"
    BY <1>9, <1>11, <1>17 DEF Succeeded
  <2>4. Len(Received[d]) = k - 1 /\ Len(Sent[d]) = said[d] /\ Sent[d][k] = k
    <3>1. Received[d] = [i \in 1 .. k - 1 |-> i]
      BY <1>15, <2>2
    <3>2. Sent[d] = [i \in 1 .. said[d] |-> i]
      BY <1>2 DEF Sent
    <3> QED
      BY <1>10, <1>12, <1>17, <2>1, <3>1, <3>2
  <2>5. Append([i \in 1 .. k - 1 |-> i], k) = [i \in 1 .. k |-> i]
    BY <1>12, <1>17
  <2>6. Data(got'[s]) = Append(Received[d], Sent[d][Len(Received[d]) + 1])
    <3>1. (k - 1) + 1 = k
      BY <1>12
    <3> QED
      BY <1>13, <1>15, <2>2, <2>4, <2>5, <3>1
  <2>7. Received' = [Received EXCEPT ![d] = Append(@, Sent[d][Len(@) + 1])]
    BY <1>15, <2>6
  <2>8. Len(Received[d]) < Len(Sent[d])
    BY <1>10, <1>12, <2>4
  <2>9. Contract!Receive(d)
    BY <1>5, <1>6, <2>3, <2>7, <2>8 DEF Contract!Receive, Sent, Received
  <2> QED
    BY <1>1, <2>9
<1> QED
  BY <1>16, <1>17

(* Only the handshake tells a verdict. *)
LEMMA ContractSession ==
  ASSUME IInv, Handshake \/ Relay
  PROVE  Contract!Tell \/ UNCHANGED <<Verdict, Sent, Received>>
<1>1. "client" \in Sides /\ "target" \in Sides
  BY DEF Sides
<1>2. CASE Handshake
  <2>1. got' = got /\ said' = said /\ stage \in Handshaking
    BY <1>2, HandshakeSteps DEF Session, peerVars
  <2>2. Verdict = "none"
    BY <2>1 DEF IInv, Early, Verdict
  <2>3. Verdict' = "none" \/ Verdict' \in Verdicts
    BY <1>2, HandshakeStream DEF Verdicts
  <2>4. Received' = Received /\ Sent' = Sent
    BY <2>1, NothingReceived DEF Sent
  <2> QED
    BY <2>2, <2>3, <2>4 DEF Contract!Tell, Sent, Received
<1>3. CASE Relay
  <2>1. got' = got /\ said' = said
    BY <1>3 DEF Relay, Select, SelectTarget, SendToTarget, SendToClient, RelayRaises,
       RelayRecv, RelaySend, peerVars
  <2>2. Received' = Received /\ Sent' = Sent
    BY <2>1, NothingReceived DEF Sent
  <2>3. Verdict' = Verdict
    <3>1. CASE to' = to
      BY <2>1, <3>1 DEF Verdict, Told, Replies
    <3>2. CASE SendToTarget
      <4>1. stage = Writing("client") /\ RelaySend(Other("client"), Tail(holding))
        BY <3>2 DEF SendToTarget, Writing, Other
      <4> QED
        BY <1>1, <4>1, SendStream
    <3>3. CASE SendToClient
      <4>1. stage = Writing("target") /\ RelaySend(Other("target"), Tail(holding))
        BY <3>3 DEF SendToClient, Writing, Other
      <4> QED
        BY <1>1, <4>1, SendStream
    <3> QED
      BY <1>3, <3>1, <3>2, <3>3 DEF Relay, Select, SelectTarget, RelayRaises, RelayRecv
  <2> QED
    BY <2>2, <2>3
<1> QED
  BY <1>2, <1>3

(* Every step is one of the contract, or changes nothing of it. *)
LEMMA ContractStep ==
  IInv /\ IInv' /\ [Next]_vars => [Contract!Next]_<<Verdict, Sent, Received>>
<1> SUFFICES ASSUME IInv, IInv', [Next]_vars
             PROVE  Contract!Next \/ UNCHANGED <<Verdict, Sent, Received>>
  OBVIOUS
<1>1. CASE Handshake \/ Relay
  BY <1>1, ContractSession DEF Contract!Next
<1>2. ASSUME NEW s \in Sides, SendData(s) PROVE Contract!Next
  BY <1>2, ContractSend DEF Contract!Next
<1>3. ASSUME NEW s \in Sides, ReadData(s)
      PROVE  Contract!Next \/ UNCHANGED <<Verdict, Sent, Received>>
  <2>1. Other(s) \in Sides
    BY DEF Other, Sides
  <2> QED
    BY <1>3, <2>1, ContractRead DEF Contract!Next
<1>4. ASSUME UNCHANGED <<got, to, said>> PROVE UNCHANGED <<Verdict, Sent, Received>>
  BY <1>4, NothingReceived DEF Verdict, Told, Replies, Sent
<1>5. CASE SendField \/ \E s \in Sides : Ends(s)
  BY <1>4, <1>5 DEF SendField, Ends
<1>6. CASE UNCHANGED vars
  BY <1>4, <1>6 DEF vars, peerVars
<1> QED
  BY <1>1, <1>2, <1>3, <1>5, <1>6 DEF Next, Peers

(* A session implements TunnelContract: the client is given at most one    *)
(* verdict, and after "ok" each side reads what the other one sent, piece  *)
(* by piece.                                                               *)
THEOREM ContractKept == Spec => ImplementsContract
<1>1. UNCHANGED <<Verdict, Sent, Received>> => UNCHANGED Contract!vars
  BY DEF Contract!vars, Sent, Received
<1>2. IInv /\ IInv' /\ [Next]_vars => [Contract!Next]_Contract!vars
  BY <1>1, ContractStep
<1> QED
  BY <1>2, ContractInit, TunnelInvariant, PTL DEF Spec, ImplementsContract, Contract!Spec
=============================================================================
