-------------------------- MODULE HttpReaderProofs --------------------------
(***************************************************************************)
(* What the loops of read_request() find in a stream of tokens, for any    *)
(* requests and wherever the stream is cut: d stands for the bytes that    *)
(* were received and not consumed, w for those that are on their way, a    *)
(* for the number of requests that the client has begun, and u for the     *)
(* part of the last of them that it has not sent.                          *)
(*                                                                         *)
(* Contiguous(p, d \o w, a, u) says that behind the header of a request    *)
(* there is the rest of it and nothing else, up to where the client is.    *)
(* Each loop of the reader keeps this (HeaderRead, SizeLineRead,           *)
(* ChunkRead), ends with a body that is its own (LengthDone, ChunksDone),  *)
(* and has what it waits for when the client has sent it (NothingMissing). *)
(***************************************************************************)
EXTENDS HttpReader, TLAPS, SequenceTheorems, WellFoundedInduction

---------------------------------------------------------------------------
(***************************************************************************)
(* Sequences of tokens.                                                    *)
(***************************************************************************)

(* Joining is associative. *)
LEMMA Joined ==
  ASSUME NEW S, NEW a \in Seq(S), NEW b \in Seq(S), NEW c \in Seq(S)
  PROVE  (a \o b) \o c = a \o (b \o c)
OBVIOUS

(* The same, with a name for the first two. *)
LEMMA JoinedTo ==
  ASSUME NEW S, NEW a \in Seq(S), NEW b \in Seq(S), NEW c \in Seq(S), NEW d, d = a \o b
  PROVE  d \o c = a \o (b \o c)
OBVIOUS

(* The first element of a sequence that is not empty. *)
LEMMA FirstOf ==
  ASSUME NEW S, NEW a \in Seq(S), NEW b \in Seq(S), Len(a) > 0
  PROVE  (a \o b)[1] = a[1]
OBVIOUS

(* The end of a sequence. *)
LEMMA EndOf ==
  ASSUME NEW S, NEW s \in Seq(S), NEW m \in 1 .. Len(s)
  PROVE  /\ SubSeq(s, m, Len(s)) \in Seq(S)
         /\ Len(SubSeq(s, m, Len(s))) = Len(s) - m + 1
         /\ \A i \in 1 .. Len(s) - m + 1 : SubSeq(s, m, Len(s))[i] = s[m + i - 1]
<1>1. m \in Int /\ Len(s) \in Int /\ m <= Len(s) /\ \A i \in m .. Len(s) : s[i] \in S
  OBVIOUS
<1> QED
  BY <1>1, SubSeqProperties

(* A sequence is its first n elements and the others. *)
LEMMA Cut ==
  ASSUME NEW S, NEW s \in Seq(S), NEW n \in 0 .. Len(s)
  PROVE  /\ SubSeq(s, 1, n) \in Seq(S)
         /\ SubSeq(s, n + 1, Len(s)) \in Seq(S)
         /\ Len(SubSeq(s, 1, n)) = n
         /\ Len(SubSeq(s, n + 1, Len(s))) = Len(s) - n
         /\ s = SubSeq(s, 1, n) \o SubSeq(s, n + 1, Len(s))
<1> DEFINE x == SubSeq(s, 1, n)
           y == SubSeq(s, n + 1, Len(s))
<1>1. x \in Seq(S) /\ y \in Seq(S) /\ Len(x) = n /\ Len(y) = Len(s) - n
  OBVIOUS
<1>2. \A i \in 1 .. n : x[i] = s[i]
  OBVIOUS
<1>3. \A i \in 1 .. Len(s) - n : y[i] = s[i + n]
  OBVIOUS
<1> HIDE DEF x, y
<1>4. Len(x \o y) = Len(s) /\ x \o y \in Seq(S)
  BY <1>1
<1>5. \A i \in 1 .. Len(s) : (x \o y)[i] = s[i]
  BY <1>1, <1>2, <1>3
<1>6. s = x \o y
  BY <1>4, <1>5, SeqEqual
<1> QED
  BY <1>1, <1>6 DEF x, y

(* The elements of the second part of a sequence, and what begins with one. *)
LEMMA SecondPart ==
  ASSUME NEW S, NEW a \in Seq(S), NEW b \in Seq(S), NEW j \in DOMAIN b
  PROVE  /\ Len(a) + j \in DOMAIN (a \o b)
         /\ (a \o b)[Len(a) + j] = b[j]
         /\ SubSeq(a \o b, Len(a) + j, Len(a \o b)) = SubSeq(b, j, Len(b))
<1>1. PICK c, n, k : c = a \o b /\ n = Len(a) /\ k = Len(b)
  OBVIOUS
<1>2. /\ Len(c) = n + k /\ c \in Seq(S) /\ n \in Nat /\ k \in Nat
      /\ j \in 1 .. k
      /\ \A i \in 1 .. k : c[n + i] = b[i]
  BY <1>1
<1>3. n + j \in 1 .. Len(c)
  BY <1>2
<1> DEFINE x == SubSeq(c, n + j, Len(c))
           y == SubSeq(b, j, Len(b))
<1>4. /\ x \in Seq(S) /\ Len(x) = Len(c) - (n + j) + 1
      /\ \A i \in 1 .. Len(c) - (n + j) + 1 : x[i] = c[(n + j) + i - 1]
  BY <1>2, <1>3, EndOf
<1>5. /\ y \in Seq(S) /\ Len(y) = k - j + 1
      /\ \A i \in 1 .. k - j + 1 : y[i] = b[j + i - 1]
  BY <1>1, <1>2, EndOf
<1> HIDE DEF x, y
<1>6. Len(x) = Len(y) /\ Len(x) = k - j + 1
  BY <1>2, <1>4, <1>5
<1>7. ASSUME NEW i \in 1 .. Len(x) PROVE x[i] = y[i]
  <2>0. n \in Nat /\ k \in Nat /\ j \in 1 .. k /\ i \in 1 .. k - j + 1
    BY <1>2, <1>6
  <2>1. j + i - 1 \in 1 .. k /\ (n + j) + i - 1 = n + (j + i - 1)
    BY <2>0
  <2>2. c[n + (j + i - 1)] = b[j + i - 1]
    BY <1>2, <2>1
  <2>3. i \in 1 .. Len(c) - (n + j) + 1 /\ i \in 1 .. k - j + 1
    BY <1>2, <1>6
  <2> QED
    BY <1>4, <1>5, <2>1, <2>2, <2>3
<1>8. x = y
  BY <1>4, <1>5, <1>6, <1>7, SeqEqual
<1>9. n + j \in DOMAIN c /\ c[n + j] = b[j]
  BY <1>2, <1>3
<1> QED
  BY <1>1, <1>8, <1>9 DEF x, y

(* The elements of the first part of a sequence, and what begins with one. *)
LEMMA FirstPart ==
  ASSUME NEW S, NEW a \in Seq(S), NEW b \in Seq(S), NEW i \in DOMAIN a
  PROVE  /\ i \in DOMAIN (a \o b)
         /\ (a \o b)[i] = a[i]
         /\ SubSeq(a \o b, i, Len(a \o b)) = SubSeq(a, i, Len(a)) \o b
<1>0. i \in 1 .. Len(a) /\ Len(a) \in Nat
  OBVIOUS
<1>1. PICK n \in 0 .. Len(a) : n + 1 = i
  <2>1. i - 1 \in 0 .. Len(a) /\ (i - 1) + 1 = i
    BY <1>0
  <2> QED
    BY <2>1
<1> DEFINE x == SubSeq(a, 1, n)
           y == SubSeq(a, n + 1, Len(a))
<1>2. x \in Seq(S) /\ y \in Seq(S) /\ Len(x) = n /\ Len(y) = Len(a) - n /\ a = x \o y
  BY Cut
<1> HIDE DEF x, y
<1>3. a \o b = x \o (y \o b)
  <2>1. (x \o y) \o b = x \o (y \o b)
    BY <1>2, Joined
  <2> QED
    BY <1>2, <2>1
<1>4. y \o b \in Seq(S) /\ 1 \in DOMAIN (y \o b)
  BY <1>0, <1>1, <1>2
<1>5. SubSeq(x \o (y \o b), Len(x) + 1, Len(x \o (y \o b))) = SubSeq(y \o b, 1, Len(y \o b))
  BY <1>2, <1>4, SecondPart, Zenon
<1>6. SubSeq(y \o b, 1, Len(y \o b)) = y \o b
  BY <1>4, SubSeqFull, Zenon
<1>7. SubSeq(a \o b, i, Len(a \o b)) = y \o b
  BY <1>1, <1>2, <1>3, <1>5, <1>6
<1>8. y = SubSeq(a, i, Len(a))
  BY <1>1 DEF y
<1>9. i \in DOMAIN (a \o b) /\ (a \o b)[i] = a[i]
  BY <1>0
<1> QED
  BY <1>7, <1>8, <1>9

(* Every element of a sequence is in one of its two parts. *)
LEMMA EitherPart ==
  ASSUME NEW S, NEW a \in Seq(S), NEW b \in Seq(S), NEW i \in DOMAIN (a \o b)
  PROVE  \/ i \in DOMAIN a
         \/ \E j \in DOMAIN b : i = Len(a) + j
<1>1. i \in 1 .. Len(a) + Len(b)
  OBVIOUS
<1>2. CASE i <= Len(a)
  BY <1>1, <1>2
<1>3. CASE i > Len(a)
  <2>1. i - Len(a) \in DOMAIN b /\ i = Len(a) + (i - Len(a))
    BY <1>1, <1>3
  <2> QED
    BY <2>1
<1> QED
  BY <1>1, <1>2, <1>3

(* What d begins with when d and u together are l and x. *)
LEMMA BeginsWith ==
  ASSUME NEW S, NEW d \in Seq(S), NEW u \in Seq(S), NEW l \in Seq(S), NEW x \in Seq(S),
         d \o u = l \o x, Len(l) <= Len(d)
  PROVE  /\ SubSeq(d, Len(l) + 1, Len(d)) \in Seq(S)
         /\ d = l \o SubSeq(d, Len(l) + 1, Len(d))
<1> DEFINE k == SubSeq(d, 1, Len(l))
           r == SubSeq(d, Len(l) + 1, Len(d))
<1>1. k \in Seq(S) /\ r \in Seq(S) /\ d = k \o r /\ Len(k) = Len(l)
  <2>1. Len(l) \in 0 .. Len(d)
    OBVIOUS
  <2> QED
    BY <2>1, Cut
<1> HIDE DEF k, r
<1>2. k \o (r \o u) = l \o x
  <2>1. (k \o r) \o u = k \o (r \o u)
    BY <1>1, Joined
  <2> QED
    BY <1>1, <2>1
<1>3. k = l
  <2>1. ASSUME NEW i \in 1 .. Len(l) PROVE k[i] = l[i]
    <3>1. (k \o (r \o u))[i] = k[i]
      BY <1>1
    <3>2. (l \o x)[i] = l[i]
      OBVIOUS
    <3> QED
      BY <1>2, <3>1, <3>2
  <2> QED
    BY <1>1, <2>1, SeqEqual
<1> QED
  BY <1>1, <1>3 DEF r

(* And what follows. *)
LEMMA BeginsWithRest ==
  ASSUME NEW S, NEW d \in Seq(S), NEW u \in Seq(S), NEW l \in Seq(S), NEW x \in Seq(S),
         d \o u = l \o x, Len(l) <= Len(d)
  PROVE  SubSeq(d, Len(l) + 1, Len(d)) \o u = x
<1>1. PICK r : r = SubSeq(d, Len(l) + 1, Len(d))
  OBVIOUS
<1>2. r \in Seq(S)
  BY <1>1, BeginsWith
<1>3. d = l \o r
  BY <1>1, BeginsWith
<1>4. \A z \in Seq(S) : (l \o z) \o u = l \o (z \o u)
  BY Joined
<1>5. r \o u = x
  <2>1. l \o (r \o u) = l \o x
    BY <1>2, <1>3, <1>4
  <2>2. r \o u \in Seq(S)
    BY <1>2
  <2>3. \A s, t, v \in Seq(S) : s \o t = s \o v => t = v
    BY ConcatSimplifications
  <2> QED
    BY <2>1, <2>2, <2>3
<1> QED
  BY <1>1, <1>5

---------------------------------------------------------------------------
(***************************************************************************)
(* What a client sends.                                                    *)
(***************************************************************************)

(* Neither the start of a request nor of a handshake. *)
Rest(s) == \A i \in DOMAIN s : s[i].t \notin {"hdr", "hello"}

(* All the tokens of s are of request r. *)
OfRequest(s, r) == s \in Seq(Token) /\ \A i \in DOMAIN s : s[i].r = r

(* A token has its fields. *)
LEMMA TokFields ==
  ASSUME NEW r \in Nat, NEW k \in Nat
  PROVE  /\ \A t \in {"hdr", "crlf", "dat", "size", "bad_size", "zero", "trailer",
                      "hello"} : Tok(t, r, k) \in Token
         /\ \A t : Tok(t, r, k).t = t /\ Tok(t, r, k).r = r /\ Tok(t, r, k).k = k
BY DEF Tok, Token

(* Joining what belongs to a request, and what is not the start of one. *)
LEMMA JoinedRests ==
  ASSUME NEW r, NEW a \in Seq(Token), NEW b \in Seq(Token)
  PROVE  /\ OfRequest(a, r) /\ OfRequest(b, r) => OfRequest(a \o b, r)
         /\ Rest(a \o b) <=> Rest(a) /\ Rest(b)
<1>1. a \o b \in Seq(Token)
  OBVIOUS
<1>2. PICK c, n : c = a \o b /\ n = Len(a)
  OBVIOUS
<1>3. \A i \in DOMAIN a : i \in DOMAIN c /\ c[i] = a[i]
  BY <1>2, FirstPart
<1>4. \A j \in DOMAIN b : n + j \in DOMAIN c /\ c[n + j] = b[j]
  BY <1>2, SecondPart
<1>5. \A i \in DOMAIN c : i \in DOMAIN a \/ \E j \in DOMAIN b : i = n + j
  BY <1>2, EitherPart
<1>6. OfRequest(a, r) /\ OfRequest(b, r) => OfRequest(c, r)
  BY <1>1, <1>2, <1>3, <1>4, <1>5 DEF OfRequest
<1>7. Rest(c) <=> Rest(a) /\ Rest(b)
  <2>1. Rest(c) => Rest(a) /\ Rest(b)
    BY <1>3, <1>4 DEF Rest
  <2>2. Rest(a) /\ Rest(b) => Rest(c)
    BY <1>3, <1>4, <1>5 DEF Rest
  <2> QED
    BY <2>1, <2>2
<1> QED
  BY <1>2, <1>6, <1>7

(* The lines of a request, one token each. *)
LEMMA Lines ==
  ASSUME NEW r \in Nat, NEW k \in Nat,
         NEW t \in {"crlf", "dat", "size", "bad_size", "zero", "trailer"}
  PROVE  OfRequest(<<Tok(t, r, k)>>, r) /\ Rest(<<Tok(t, r, k)>>)
<1>1. <<Tok(t, r, k)>> \in Seq(Token) /\ DOMAIN <<Tok(t, r, k)>> = {1}
  BY TokFields
<1>2. <<Tok(t, r, k)>>[1] = Tok(t, r, k)
  OBVIOUS
<1> QED
  BY <1>1, <1>2, TokFields DEF OfRequest, Rest

(* The pieces of a body. *)
LEMMA PiecesSent ==
  ASSUME NEW q \in RequestShape, NEW r \in Nat
  PROVE  /\ OfRequest(Pieces(q, r), r) /\ Rest(Pieces(q, r))
         /\ Len(Pieces(q, r)) = q.size /\ q.size \in Nat
         /\ \A k \in 1 .. q.size : Pieces(q, r)[k] = Tok("dat", r, k)
<1>1. q.size \in Nat
  BY DEF RequestShape
<1>2. \A k \in 1 .. q.size : k \in Nat
  BY <1>1
<1>3. \A k \in 1 .. q.size : Tok("dat", r, k) \in Token /\ Tok("dat", r, k).r = r
                              /\ Tok("dat", r, k).t = "dat"
  BY <1>2, TokFields
<1>4. Pieces(q, r) \in Seq(Token) /\ Len(Pieces(q, r)) = q.size
  BY <1>1, <1>3 DEF Pieces
<1>5. \A k \in 1 .. q.size : Pieces(q, r)[k] = Tok("dat", r, k)
  BY DEF Pieces
<1>6. DOMAIN Pieces(q, r) = 1 .. q.size
  BY DEF Pieces
<1> QED
  BY <1>1, <1>3, <1>4, <1>5, <1>6 DEF OfRequest, Rest

(* Where a token of the chunks stands. *)
LEMMA FourEach ==
  ASSUME NEW j \in Nat \ {0}
  PROVE  /\ (j - 1) \div 4 \in Nat /\ j % 4 \in 0 .. 3
         /\ (j + 4) % 4 = j % 4
         /\ (j + 4 - 1) \div 4 = (j - 1) \div 4 + 1
OBVIOUS

(* The chunks behind the first n. *)
LEMMA ChunksSent ==
  ASSUME NEW q \in RequestShape, NEW r \in Nat, NEW n \in 0 .. q.size
  PROVE  /\ OfRequest(Chunks(q, r, n), r) /\ Rest(Chunks(q, r, n))
         /\ n = q.size => Chunks(q, r, n) = <<>>
         /\ n < q.size =>
              Chunks(q, r, n) =
                (<<Tok("size", r, n + 1)>> \o Crlf(r))
                  \o ((<<Tok("dat", r, n + 1)>> \o Crlf(r)) \o Chunks(q, r, n + 1))
<1>1. q.size \in Nat /\ n \in Nat
  BY DEF RequestShape
<1> DEFINE At(m, j) == LET k == m + 1 + (j - 1) \div 4
                       IN  CASE j % 4 = 1 -> Tok("size", r, k)
                             [] j % 4 = 3 -> Tok("dat", r, k)
                             [] OTHER -> Tok("crlf", r, 0)
<1>2. ASSUME NEW m \in Nat, NEW j \in Nat \ {0}
      PROVE  /\ At(m, j) \in Token /\ At(m, j).r = r
             /\ At(m, j).t \notin {"hdr", "hello"}
             /\ At(m, j + 4) = At(m + 1, j)
  <2>1. m + 1 + (j - 1) \div 4 \in Nat
    BY FourEach
  <2>2. \A t \in {"size", "dat", "crlf"} : \A k \in Nat :
          Tok(t, r, k) \in Token /\ Tok(t, r, k).r = r /\ Tok(t, r, k).t = t
    BY TokFields
  <2>3. At(m, j) \in Token /\ At(m, j).r = r /\ At(m, j).t \in {"size", "dat", "crlf"}
    BY <2>1, <2>2
  <2>4. (j + 4) % 4 = j % 4 /\ m + 1 + (j + 4 - 1) \div 4 = (m + 1) + 1 + (j - 1) \div 4
    BY FourEach
  <2>5. At(m, j + 4) = At(m + 1, j)
    BY <2>4
  <2> QED
    BY <2>3, <2>5
<1>3. \A m : Chunks(q, r, m) = [j \in 1 .. 4 * (q.size - m) |-> At(m, j)]
  BY DEF Chunks
<1>4. /\ At(n, 1) = Tok("size", r, n + 1) /\ At(n, 2) = Tok("crlf", r, 0)
      /\ At(n, 3) = Tok("dat", r, n + 1) /\ At(n, 4) = Tok("crlf", r, 0)
  BY <1>1
<1> HIDE DEF At
<1>5. ASSUME NEW m \in 0 .. q.size
      PROVE  /\ Chunks(q, r, m) \in Seq(Token)
             /\ Len(Chunks(q, r, m)) = 4 * (q.size - m)
             /\ DOMAIN Chunks(q, r, m) = 1 .. 4 * (q.size - m)
             /\ \A j \in 1 .. 4 * (q.size - m) : Chunks(q, r, m)[j] = At(m, j)
  <2>1. 4 * (q.size - m) \in Nat /\ m \in Nat
    BY <1>1
  <2>2. \A j \in 1 .. 4 * (q.size - m) : At(m, j) \in Token
    BY <1>2, <2>1
  <2>3. PICK z : z = 4 * (q.size - m)
    OBVIOUS
  <2> QED
    BY <1>3, <2>1, <2>2, <2>3
<1>6. OfRequest(Chunks(q, r, n), r) /\ Rest(Chunks(q, r, n))
  <2>1. PICK z : z = 1 .. 4 * (q.size - n)
    OBVIOUS
  <2>2. \A j \in z : j \in Nat \ {0}
    BY <1>1, <2>1
  <2>3. PICK c : c = Chunks(q, r, n)
    OBVIOUS
  <2>4. c \in Seq(Token) /\ DOMAIN c = z /\ \A j \in z : c[j] = At(n, j)
    BY <1>5, <2>1, <2>3
  <2>5. \A j \in z : At(n, j).r = r /\ At(n, j).t \notin {"hdr", "hello"}
    BY <1>1, <1>2, <2>2
  <2>6. OfRequest(c, r) /\ Rest(c)
    BY <2>4, <2>5 DEF OfRequest, Rest
  <2> QED
    BY <2>3, <2>6
<1>7. n = q.size => Chunks(q, r, n) = <<>>
  BY <1>1, <1>5
<1>8. ASSUME n < q.size
      PROVE  Chunks(q, r, n) =
               (<<Tok("size", r, n + 1)>> \o Crlf(r))
                 \o ((<<Tok("dat", r, n + 1)>> \o Crlf(r)) \o Chunks(q, r, n + 1))
  <2> DEFINE c == Chunks(q, r, n)
             d == Chunks(q, r, n + 1)
             e == (<<Tok("size", r, n + 1)>> \o Crlf(r))
                    \o ((<<Tok("dat", r, n + 1)>> \o Crlf(r)) \o d)
             z == 4 * (q.size - (n + 1))
  <2>1. /\ z \in Nat /\ 4 * (q.size - n) = z + 4
        /\ n \in 0 .. q.size /\ n + 1 \in 0 .. q.size
    <3>1. PICK m \in Nat : m = q.size
      BY <1>1
    <3>2. \E l \in Nat : m = n + 1 + l
      <4>1. m - (n + 1) \in Nat /\ m = n + 1 + (m - (n + 1))
        BY <1>1, <1>8, <3>1
      <4> QED
        BY <4>1
    <3>3. PICK l \in Nat : m = n + 1 + l
      BY <3>2
    <3>4. m - n = l + 1 /\ m - (n + 1) = l
      BY <1>1, <3>3
    <3>5. 4 * (l + 1) = 4 * l + 4 /\ 4 * l \in Nat
      OBVIOUS
    <3>6. n + 1 \in 0 .. m
      BY <1>1, <3>3
    <3> QED
      BY <3>1, <3>4, <3>5, <3>6
  <2>2. /\ c \in Seq(Token) /\ Len(c) = z + 4 /\ \A j \in 1 .. z + 4 : c[j] = At(n, j)
        /\ d \in Seq(Token) /\ Len(d) = z /\ \A j \in 1 .. z : d[j] = At(n + 1, j)
    BY <1>5, <2>1
  <2> HIDE DEF c, d, z
  <2>3. /\ Tok("size", r, n + 1) \in Token /\ Tok("dat", r, n + 1) \in Token
        /\ Tok("crlf", r, 0) \in Token
    BY <1>1, TokFields
  <2>4. /\ e \in Seq(Token) /\ Len(e) = z + 4
        /\ e[1] = Tok("size", r, n + 1) /\ e[2] = Tok("crlf", r, 0)
        /\ e[3] = Tok("dat", r, n + 1) /\ e[4] = Tok("crlf", r, 0)
        /\ \A j \in 1 .. z : e[j + 4] = d[j]
    BY <2>1, <2>2, <2>3 DEF Crlf
  <2> HIDE DEF e
  <2>5. ASSUME NEW i \in 1 .. z + 4 PROVE c[i] = e[i]
    <3>1. CASE i \in {1, 2, 3, 4}
      BY <1>4, <2>1, <2>2, <2>4, <3>1
    <3>2. CASE i \notin {1, 2, 3, 4}
      <4>1. PICK j \in 1 .. z : i = j + 4
        <5>1. i - 4 \in 1 .. z /\ i = (i - 4) + 4
          BY <2>1, <3>2
        <5> QED
          BY <5>1
      <4>2. c[i] = At(n, j + 4) /\ e[i] = At(n + 1, j)
        BY <2>2, <2>4, <4>1
      <4>3. n \in Nat /\ j \in Nat \ {0}
        BY <1>1, <2>1
      <4> QED
        BY <1>2, <4>2, <4>3
    <3> QED
      BY <3>1, <3>2
  <2>6. c = e
    BY <2>2, <2>4, <2>5, SeqEqual
  <2> QED
    BY <2>6 DEF c, e, d
<1> QED
  BY <1>6, <1>7, <1>8

(* What is left of a chunked body behind the last chunk. *)
TrailerLines(q, r) ==
  IF q.framing = "chunked" THEN Crlf(r)
  ELSE <<Tok("trailer", r, 0)>> \o (Crlf(r) \o Crlf(r))

(* The end of a chunked body. *)
LEMMA LastLinesSent ==
  ASSUME NEW q \in RequestShape, NEW r \in Nat, q.framing \in Chunked
  PROVE  /\ OfRequest(LastLines(q, r), r) /\ Rest(LastLines(q, r))
         /\ OfRequest(TrailerLines(q, r), r) /\ Rest(TrailerLines(q, r))
         /\ q.framing # "bad_chunk" =>
              LastLines(q, r) = (<<Tok("zero", r, 0)>> \o Crlf(r)) \o TrailerLines(q, r)
         /\ q.framing = "bad_chunk" =>
              LastLines(q, r) = <<Tok("bad_size", r, 0)>> \o Crlf(r)
<1> DEFINE Line(t) == <<Tok(t, r, 0)>>
           Good(s) == s \in Seq(Token) /\ OfRequest(s, r) /\ Rest(s)
<1>0. \A s : OfRequest(s, r) => s \in Seq(Token)
  BY DEF OfRequest
<1>1. \A t \in {"crlf", "bad_size", "zero", "trailer"} : Good(Line(t))
  <2> SUFFICES ASSUME NEW t \in {"crlf", "bad_size", "zero", "trailer"} PROVE Good(Line(t))
    OBVIOUS
  <2>1. 0 \in Nat /\ t \in {"crlf", "dat", "size", "bad_size", "zero", "trailer"}
    OBVIOUS
  <2> QED
    BY <1>0, <2>1, Lines, Zenon
<1>2. \A a, b : Good(a) /\ Good(b) => Good(a \o b)
  <2> SUFFICES ASSUME NEW a, NEW b, Good(a), Good(b) PROVE Good(a \o b)
    BY Zenon
  <2>1. OfRequest(a \o b, r) /\ Rest(a \o b)
    BY JoinedRests, Zenon
  <2> QED
    BY <1>0, <2>1
<1>3. Crlf(r) = Line("crlf")
  BY DEF Crlf
<1>4. \A a, b, c : Good(a) /\ Good(b) /\ Good(c) => (a \o b) \o c = a \o (b \o c)
  BY Joined
<1>5. /\ q.framing = "chunked" => LastLines(q, r) = (Line("zero") \o Line("crlf")) \o Line("crlf")
      /\ q.framing = "trailered" =>
           LastLines(q, r) =
             (((Line("zero") \o Line("crlf")) \o Line("trailer")) \o Line("crlf")) \o Line("crlf")
      /\ q.framing = "bad_chunk" => LastLines(q, r) = Line("bad_size") \o Line("crlf")
  BY <1>3 DEF LastLines
<1>6. /\ q.framing = "chunked" => TrailerLines(q, r) = Line("crlf")
      /\ q.framing # "chunked" =>
           TrailerLines(q, r) = Line("trailer") \o (Line("crlf") \o Line("crlf"))
  BY <1>3 DEF TrailerLines
<1> HIDE DEF Line, Good
<1>7. Good(TrailerLines(q, r))
  BY <1>1, <1>2, <1>6
<1>8. q.framing # "bad_chunk" =>
        LastLines(q, r) = (Line("zero") \o Line("crlf")) \o TrailerLines(q, r)
  <2>1. CASE q.framing = "chunked"
    BY <1>5, <1>6, <2>1
  <2>2. CASE q.framing = "trailered"
    <3> DEFINE z == Line("zero") \o Line("crlf")
               t == Line("trailer")
               c == Line("crlf")
    <3>1. Good(z) /\ Good(t) /\ Good(c) /\ Good(z \o t)
      BY <1>1, <1>2
    <3> HIDE DEF z, t, c
    <3>2. ((z \o t) \o c) \o c = (z \o t) \o (c \o c)
      BY <1>4, <3>1
    <3>3. (z \o t) \o (c \o c) = z \o (t \o (c \o c))
      BY <1>2, <1>4, <3>1
    <3>4. LastLines(q, r) = ((z \o t) \o c) \o c /\ TrailerLines(q, r) = t \o (c \o c)
      BY <1>5, <1>6, <2>2 DEF z, t, c
    <3> QED
      BY <3>2, <3>3, <3>4 DEF z
  <2> QED
    BY <2>1, <2>2 DEF Chunked
<1>9. Good(LastLines(q, r))
  <2>1. CASE q.framing = "bad_chunk"
    BY <1>1, <1>2, <1>5, <2>1
  <2>2. CASE q.framing # "bad_chunk"
    <3>1. Good(Line("zero") \o Line("crlf"))
      BY <1>1, <1>2
    <3> QED
      BY <1>2, <1>7, <1>8, <2>2, <3>1
  <2> QED
    BY <2>1, <2>2
<1> QED
  BY <1>3, <1>5, <1>7, <1>8, <1>9 DEF Line, Good

(* A body on the wire. *)
LEMMA BodySent ==
  ASSUME NEW q \in RequestShape, NEW r \in Nat
  PROVE  OfRequest(EncodedBody(q, r), r) /\ Rest(EncodedBody(q, r))
<1>1. CASE q.framing \in Chunked
  <2>1. 0 \in 0 .. q.size
    BY DEF RequestShape
  <2>2. /\ OfRequest(Chunks(q, r, 0), r) /\ Rest(Chunks(q, r, 0))
        /\ OfRequest(LastLines(q, r), r) /\ Rest(LastLines(q, r))
    BY <1>1, <2>1, ChunksSent, LastLinesSent
  <2>3. OfRequest(Chunks(q, r, 0) \o LastLines(q, r), r) /\ Rest(Chunks(q, r, 0) \o LastLines(q, r))
    <3>1. Chunks(q, r, 0) \in Seq(Token) /\ LastLines(q, r) \in Seq(Token)
      BY <2>2 DEF OfRequest
    <3> QED
      BY <2>2, <3>1, JoinedRests, Zenon
  <2> QED
    BY <1>1, <2>3 DEF EncodedBody
<1>2. CASE q.framing \notin Chunked
  BY <1>2, PiecesSent DEF EncodedBody
<1> QED
  BY <1>1, <1>2

(* A request line with its headers and the blank line behind them. *)
Header(r) == <<Tok("hdr", r, 0), Tok("crlf", r, 0), Tok("crlf", r, 0)>>

(* A request on the wire: there is one header in it, at the start. *)
LEMMA RequestSent ==
  ASSUME NEW q \in RequestShape, NEW r \in Nat
  PROVE  /\ OfRequest(Encoded(q, r), r) /\ Len(Encoded(q, r)) > 0
         /\ q.framing = "hello" => /\ Encoded(q, r) = <<Tok("hello", r, 0)>>
                                   /\ Encoded(q, r)[1].t = "hello"
                                   /\ Len(Encoded(q, r)) = 1
         /\ q.framing # "hello" => /\ Encoded(q, r) = Header(r) \o EncodedBody(q, r)
                                   /\ Encoded(q, r)[1].t = "hdr"
         /\ \A i \in DOMAIN Encoded(q, r) :
              Encoded(q, r)[i].t = "hdr" => i = 1 /\ q.framing # "hello"
<1>1. CASE q.framing = "hello"
  <2>1. /\ Encoded(q, r) = <<Tok("hello", r, 0)>> /\ Tok("hello", r, 0) \in Token
        /\ Tok("hello", r, 0).r = r /\ Tok("hello", r, 0).t = "hello"
    BY <1>1, TokFields DEF Encoded
  <2> QED
    BY <1>1, <2>1 DEF OfRequest
<1>2. CASE q.framing # "hello"
  <2> DEFINE b == EncodedBody(q, r)
             h == Header(r)
  <2>1. b \in Seq(Token) /\ OfRequest(b, r) /\ Rest(b)
    BY BodySent DEF OfRequest
  <2>2. /\ Tok("hdr", r, 0) \in Token /\ Tok("crlf", r, 0) \in Token
        /\ Tok("hdr", r, 0).t = "hdr" /\ Tok("crlf", r, 0).t = "crlf"
        /\ Tok("hdr", r, 0).r = r /\ Tok("crlf", r, 0).r = r
    BY TokFields
  <2>3. /\ h \in Seq(Token) /\ Len(h) = 3 /\ DOMAIN h = 1 .. 3
        /\ h[1] = Tok("hdr", r, 0) /\ h[2] = Tok("crlf", r, 0) /\ h[3] = Tok("crlf", r, 0)
        /\ h = <<Tok("hdr", r, 0)>> \o Crlf(r) \o Crlf(r)
    BY <2>2 DEF Header, Crlf
  <2>4. Encoded(q, r) = h \o b
    BY <1>2, <2>3 DEF Encoded
  <2>5. OfRequest(h, r)
    BY <2>2, <2>3 DEF OfRequest
  <2> HIDE DEF h, b
  <2>6. OfRequest(h \o b, r)
    BY <2>1, <2>3, <2>5, JoinedRests
  <2>7. Len(h \o b) > 0 /\ (h \o b)[1] = h[1]
    BY <2>1, <2>3
  <2>8. ASSUME NEW i \in DOMAIN (h \o b), (h \o b)[i].t = "hdr" PROVE i = 1
    <3>1. CASE i \in DOMAIN h
      <4>1. (h \o b)[i] = h[i]
        BY <2>1, <2>3, <3>1, FirstPart
      <4> QED
        BY <2>2, <2>3, <2>8, <3>1, <4>1
    <3>2. ASSUME NEW j \in DOMAIN b, i = Len(h) + j PROVE FALSE
      <4>1. (h \o b)[i] = b[j]
        BY <2>1, <2>3, <3>2, SecondPart
      <4> QED
        BY <2>1, <2>8, <4>1 DEF Rest
    <3> QED
      BY <2>1, <2>3, <3>1, <3>2, EitherPart
  <2> QED
    BY <1>2, <2>2, <2>3, <2>4, <2>6, <2>7, <2>8 DEF h, b
<1> QED
  BY <1>1, <1>2

---------------------------------------------------------------------------
(***************************************************************************)
(* What the reader has before it: s stands for the bytes it has not taken, *)
(* a for the requests that the client has begun, and u for the part of the *)
(* last one that it has not sent.                                          *)
(***************************************************************************)

(* x is what the client has put behind request r. *)
Behind(x, r, a, u) ==
  /\ a = r => x = <<>>
  /\ a # r => Len(u) <= Len(x)

(* s begins with this rest of request r. *)
Begins(s, rest, r, a, u) ==
  \E x \in Seq(Token) : s = rest \o x /\ Behind(x, r, a, u)

Numbered(s, a) == \A i \in DOMAIN s : s[i].r \in 1 .. a

(* Behind a header is the rest of its request. *)
Contiguous(p, s, a, u) ==
  \A i \in DOMAIN s :
    s[i].t = "hdr" =>
      Begins(SubSeq(s, i, Len(s)), Encoded(p[s[i].r], s[i].r), s[i].r, a, u)

(* What is taken from the front leaves the others as they are. *)
LEMMA UnreadTaken ==
  ASSUME NEW p, NEW a, NEW u, NEW x \in Seq(Token), NEW y \in Seq(Token),
         Numbered(x \o y, a), Contiguous(p, x \o y, a, u)
  PROVE  Numbered(y, a) /\ Contiguous(p, y, a, u)
<1>1. PICK s, n : s = x \o y /\ n = Len(x)
  OBVIOUS
<1>2. ASSUME NEW j \in DOMAIN y
      PROVE  /\ n + j \in DOMAIN s /\ s[n + j] = y[j]
             /\ SubSeq(s, n + j, Len(s)) = SubSeq(y, j, Len(y))
  BY <1>1, SecondPart
<1>3. Numbered(y, a)
  BY <1>1, <1>2 DEF Numbered
<1>4. ASSUME NEW j \in DOMAIN y, y[j].t = "hdr"
      PROVE  Begins(SubSeq(y, j, Len(y)), Encoded(p[y[j].r], y[j].r), y[j].r, a, u)
  <2>1. n + j \in DOMAIN s /\ s[n + j].t = "hdr"
    BY <1>2, <1>4
  <2>2. Begins(SubSeq(s, n + j, Len(s)), Encoded(p[s[n + j].r], s[n + j].r), s[n + j].r, a, u)
    BY <1>1, <2>1 DEF Contiguous
  <2> QED
    BY <1>2, <2>2
<1> QED
  BY <1>3, <1>4 DEF Contiguous

(* The client sends more of its request. *)
LEMMA BehindLess ==
  ASSUME NEW s, NEW rest, NEW r, NEW a, NEW u \in Seq(Token), u # <<>>,
         Begins(s, rest, r, a, u)
  PROVE  Begins(s, rest, r, a, Tail(u))
<1>1. Len(Tail(u)) <= Len(u) /\ Len(Tail(u)) \in Nat /\ Len(u) \in Nat
  OBVIOUS
<1>2. PICK x \in Seq(Token) : s = rest \o x /\ Behind(x, r, a, u)
  BY DEF Begins
<1>3. Len(x) \in Nat
  BY <1>2
<1>4. Behind(x, r, a, Tail(u))
  BY <1>1, <1>2, <1>3 DEF Behind
<1> QED
  BY <1>2, <1>4 DEF Begins

(* The client sends a token of the last request. *)
LEMMA UnreadLess ==
  ASSUME NEW p, NEW s, NEW a, NEW u \in Seq(Token), u # <<>>, Contiguous(p, s, a, u)
  PROVE  Contiguous(p, s, a, Tail(u))
BY BehindLess DEF Contiguous

(* The client begins another request. *)
LEMMA BehindMore ==
  ASSUME NEW s, NEW rest \in Seq(Token), NEW a \in Nat, NEW r \in 1 .. a,
         NEW e \in Seq(Token), e # <<>>, Begins(s, rest, r, a, <<>>)
  PROVE  Begins(s \o e, rest, r, a + 1, Tail(e))
<1>1. PICK x \in Seq(Token) : s = rest \o x
  BY DEF Begins
<1>2. s \o e = rest \o (x \o e) /\ x \o e \in Seq(Token)
  BY <1>1, Joined
<1>3. Len(Tail(e)) <= Len(x \o e)
  OBVIOUS
<1>4. a + 1 # r
  OBVIOUS
<1>5. Behind(x \o e, r, a + 1, Tail(e))
  BY <1>3, <1>4 DEF Behind
<1> QED
  BY <1>2, <1>5 DEF Begins

(* The client begins another request. *)
LEMMA UnreadMore ==
  ASSUME NEW p \in Seq(RequestShape), NEW a \in Nat, a + 1 \in DOMAIN p,
         NEW s \in Seq(Token), NEW e, e = Encoded(p[a + 1], a + 1),
         Numbered(s, a), Contiguous(p, s, a, <<>>)
  PROVE  Numbered(s \o e, a + 1) /\ Contiguous(p, s \o e, a + 1, Tail(e))
<1>0. p[a + 1] \in RequestShape /\ a + 1 \in Nat
  OBVIOUS
<1>1. /\ e \in Seq(Token) /\ e # <<>>
      /\ \A i \in DOMAIN e : e[i].r = a + 1
      /\ \A i \in DOMAIN e : e[i].t = "hdr" => i = 1
  <2>1. /\ OfRequest(e, a + 1) /\ Len(e) > 0
        /\ \A i \in DOMAIN e : e[i].t = "hdr" => i = 1
    BY <1>0, RequestSent
  <2> QED
    BY <2>1 DEF OfRequest
<1>2. PICK z, n : z = s \o e /\ n = Len(s)
  OBVIOUS
<1>3. \A i \in DOMAIN s : /\ i \in DOMAIN z /\ z[i] = s[i]
                          /\ SubSeq(z, i, Len(z)) = SubSeq(s, i, Len(s)) \o e
  <2>1. e \in Seq(Token)
    BY <1>1
  <2> QED
    BY <1>2, <2>1, FirstPart
<1>4. \A j \in DOMAIN e : /\ z[n + j] = e[j]
                          /\ SubSeq(z, n + j, Len(z)) = SubSeq(e, j, Len(e))
  <2>1. e \in Seq(Token)
    BY <1>1
  <2>2. ASSUME NEW j \in DOMAIN e
        PROVE  /\ (s \o e)[Len(s) + j] = e[j]
               /\ SubSeq(s \o e, Len(s) + j, Len(s \o e)) = SubSeq(e, j, Len(e))
    BY <2>1, SecondPart, Zenon
  <2> QED
    BY <1>2, <2>2
<1>5. \A i \in DOMAIN z : i \in DOMAIN s \/ \E j \in DOMAIN e : i = n + j
  BY <1>1, <1>2, EitherPart
<1>6. Numbered(z, a + 1)
  <2>1. \A i \in DOMAIN s : s[i].r \in 1 .. a + 1
    BY DEF Numbered
  <2>2. a + 1 \in 1 .. a + 1
    OBVIOUS
  <2> QED
    BY <1>1, <1>3, <1>4, <1>5, <2>1, <2>2 DEF Numbered
<1>7. ASSUME NEW i \in DOMAIN z, z[i].t = "hdr"
      PROVE  Begins(SubSeq(z, i, Len(z)), Encoded(p[z[i].r], z[i].r), z[i].r, a + 1, Tail(e))
  <2>1. CASE i \in DOMAIN s
    <3>1. s[i].t = "hdr" /\ s[i].r \in 1 .. a
      BY <1>3, <1>7, <2>1 DEF Numbered
    <3>2. Begins(SubSeq(s, i, Len(s)), Encoded(p[s[i].r], s[i].r), s[i].r, a, <<>>)
      BY <2>1, <3>1 DEF Contiguous
    <3>3. p[s[i].r] \in RequestShape /\ s[i].r \in Nat
      BY <3>1
    <3>4. Encoded(p[s[i].r], s[i].r) \in Seq(Token)
      BY <3>3, RequestSent DEF OfRequest
    <3>5. Begins(SubSeq(s, i, Len(s)) \o e, Encoded(p[s[i].r], s[i].r), s[i].r, a + 1, Tail(e))
      BY <1>1, <3>1, <3>2, <3>4, BehindMore
    <3> QED
      BY <1>3, <2>1, <3>5
  <2>2. ASSUME NEW j \in DOMAIN e, i = n + j
        PROVE  Begins(SubSeq(z, i, Len(z)), Encoded(p[z[i].r], z[i].r), z[i].r, a + 1, Tail(e))
    <3>1. j = 1 /\ z[i].r = a + 1
      BY <1>1, <1>4, <1>7, <2>2
    <3>2. SubSeq(z, i, Len(z)) = e
      BY <1>1, <1>4, <2>2, <3>1, SubSeqFull
    <3>3. e = e \o <<>> /\ Behind(<<>>, a + 1, a + 1, Tail(e)) /\ <<>> \in Seq(Token)
      BY <1>1 DEF Behind
    <3>4. Begins(e, e, a + 1, a + 1, Tail(e))
      BY <3>3 DEF Begins
    <3> QED
      BY <3>1, <3>2, <3>4
  <2> QED
    BY <1>5, <2>1, <2>2
<1> QED
  BY <1>2, <1>6, <1>7 DEF Contiguous

(* A set of natural numbers has a smallest one. *)
LEMMA Least ==
  ASSUME NEW T \in SUBSET Nat, T # {}
  PROVE  Min(T) \in T /\ \A i \in T : Min(T) <= i
<1> DEFINE R == OpToRel(<, Nat)
<1>1. IsWellFoundedOn(R, Nat)
  BY NatLessThanWellFounded
<1>2. \A i, j \in Nat : <<i, j>> \in R <=> i < j
  BY DEF OpToRel
<1> HIDE DEF R
<1>3. PICK m \in T : \A i \in T : <<i, m>> \notin R
  BY <1>1, WFMin
<1>4. \A i \in T : ~(i < m)
  BY <1>2, <1>3
<1>5. \A i \in T : m <= i
  BY <1>4
<1> QED
  BY <1>5 DEF Min

(* The smallest of a set. *)
LEMMA Smallest ==
  ASSUME NEW T \in SUBSET Nat, NEW m \in T, \A y \in T : m <= y
  PROVE  Min(T) = m
<1>1. \A x \in T : (\A y \in T : x <= y) => x = m
  OBVIOUS
<1>2. Min(T) \in T /\ \A y \in T : Min(T) <= y
  BY DEF Min
<1> QED
  BY <1>1, <1>2

(* The line ends of what was received are positions in it. *)
LEMMA LineEndPositions ==
  ASSUME NEW d \in Seq(Token)
  PROVE  /\ LineEnds(d) \in SUBSET Nat /\ BlankLines(d) \in SUBSET Nat
         /\ \A i \in LineEnds(d) : i \in 1 .. Len(d) /\ d[i].t = "crlf"
         /\ \A i \in BlankLines(d) : i \in LineEnds(d) /\ i + 1 \in LineEnds(d)
         /\ BlankLines(d) # {} =>
              /\ Min(BlankLines(d)) \in BlankLines(d)
              /\ \A i \in BlankLines(d) : Min(BlankLines(d)) <= i
<1>1. /\ LineEnds(d) \in SUBSET Nat
      /\ \A i \in LineEnds(d) : i \in 1 .. Len(d) /\ d[i].t = "crlf"
      /\ BlankLines(d) \in SUBSET LineEnds(d)
      /\ \A i \in BlankLines(d) : i \in LineEnds(d) /\ i + 1 \in LineEnds(d)
  BY DEF LineEnds, BlankLines
<1>2. BlankLines(d) \in SUBSET Nat
  BY <1>1
<1> QED
  BY <1>1, <1>2, Least

(* In d and w together, y is behind the line that e is the text of. *)
LineAt(d, w, e, r, y) == d \o w = (<<e>> \o Crlf(r)) \o y

(* The first line. *)
LEMMA LineTaken ==
  ASSUME NEW d \in Seq(Token), NEW w \in Seq(Token), NEW r \in Nat,
         NEW e \in Token, e.t # "crlf", NEW y \in Seq(Token),
         LineAt(d, w, e, r, y), Len(d) >= 2
  PROVE  /\ 2 \in LineEnds(d) /\ Min(LineEnds(d)) = 2
         /\ d[1] = e /\ SubSeq(d, 1, 1) = <<e>>
         /\ SubSeq(d, 3, Len(d)) \in Seq(Token)
         /\ SubSeq(d, 3, Len(d)) \o w = y
<1>1. PICK l : l = <<e>> \o Crlf(r)
  OBVIOUS
<1>2. /\ l \in Seq(Token) /\ Len(l) = 2 /\ l[1] = e /\ l[2] = Tok("crlf", r, 0)
      /\ Tok("crlf", r, 0).t = "crlf"
  <2>1. Tok("crlf", r, 0) \in Token /\ Tok("crlf", r, 0).t = "crlf"
    BY TokFields
  <2> QED
    BY <1>1, <2>1 DEF Crlf
<1>3. PICK x \in Seq(Token) : d = l \o x /\ x = SubSeq(d, 3, Len(d)) /\ x \o w = y
  <2>0. Len(l) <= Len(d)
    BY <1>2
  <2>1. Len(l) <= Len(d) /\ l \in Seq(Token) /\ d \o w = l \o y
    BY <1>1, <1>2, <2>0, Zenon DEF LineAt
  <2>2. Len(l) + 1 = 3
    BY <1>2
  <2>3. SubSeq(d, Len(l) + 1, Len(d)) \in Seq(Token)
    BY <2>1, BeginsWith
  <2>4. d = l \o SubSeq(d, Len(l) + 1, Len(d))
    BY <2>1, BeginsWith
  <2>5. SubSeq(d, Len(l) + 1, Len(d)) \o w = y
    BY <2>1, BeginsWithRest
  <2> QED
    BY <2>2, <2>3, <2>4, <2>5
<1>4. d[1] = e /\ d[2].t = "crlf" /\ 1 \in DOMAIN d /\ 2 \in DOMAIN d
  BY <1>2, <1>3
<1>5. 2 \in LineEnds(d) /\ 1 \notin LineEnds(d)
  BY <1>4 DEF LineEnds
<1>6. \A i \in LineEnds(d) : 2 <= i
  BY <1>5 DEF LineEnds
<1>7. Min(LineEnds(d)) = 2
  BY <1>5, <1>6, LineEndPositions, Smallest
<1>8. SubSeq(d, 1, 1) = <<e>>
  <2>1. 1 \in 0 .. Len(d)
    OBVIOUS
  <2>2. SubSeq(d, 1, 1) \in Seq(Token) /\ Len(SubSeq(d, 1, 1)) = 1
    BY <2>1, Cut
  <2>3. SubSeq(d, 1, 1)[1] = d[1]
    BY <1>4
  <2>4. <<e>> \in Seq(Token) /\ Len(<<e>>) = 1 /\ <<e>>[1] = e
    OBVIOUS
  <2>5. \A i \in 1 .. Len(SubSeq(d, 1, 1)) : SubSeq(d, 1, 1)[i] = <<e>>[i]
    BY <1>4, <2>2, <2>3, <2>4
  <2> QED
    BY <2>2, <2>4, <2>5, SeqEqual
<1> QED
  BY <1>3, <1>4, <1>5, <1>7, <1>8

(* Where a line end has arrived, there is a whole line. *)
LEMMA LineArrived ==
  ASSUME NEW d \in Seq(Token), NEW w \in Seq(Token), NEW y \in Seq(Token),
         NEW e \in Token, e.t # "crlf", d \o w = <<e>> \o y, LineEnds(d) # {}
  PROVE  Len(d) >= 2
<1>1. PICK i \in LineEnds(d) : i \in 1 .. Len(d) /\ d[i].t = "crlf"
  BY LineEndPositions
<1>2. (d \o w)[1] = d[1] /\ (<<e>> \o y)[1] = e
  BY <1>1
<1>3. i # 1
  BY <1>1, <1>2
<1> QED
  BY <1>1, <1>3

(* A header is three tokens. *)
LEMMA HeaderTokens ==
  ASSUME NEW r \in Nat
  PROVE  /\ Header(r) \in Seq(Token) /\ Len(Header(r)) = 3
         /\ Header(r)[2].t = "crlf" /\ Header(r)[3].t = "crlf"
<1>1. 0 \in Nat
  OBVIOUS
<1>2. /\ Tok("hdr", r, 0) \in Token /\ Tok("crlf", r, 0) \in Token
      /\ Tok("crlf", r, 0).t = "crlf"
  BY <1>1, TokFields
<1> QED
  BY <1>2 DEF Header

(* A sequence of two parts. *)
LEMMA TwoParts ==
  ASSUME NEW S, NEW h \in Seq(S), NEW g \in Seq(S)
  PROVE  /\ h \o g \in Seq(S)
         /\ Len(h \o g) = Len(h) + Len(g)
         /\ \A j \in DOMAIN g : (h \o g)[Len(h) + j] = g[j]
<1>1. h \o g \in Seq(S)
  OBVIOUS
<1>2. Len(h \o g) = Len(h) + Len(g)
  OBVIOUS
<1>3. \A j \in DOMAIN g : (h \o g)[Len(h) + j] = g[j]
  BY SecondPart
<1> QED
  BY <1>1, <1>2, <1>3

(* Joining, of tokens. *)
LEMMA JoinedTokens ==
  \A a, b, c \in Seq(Token) : (a \o b) \o c = a \o (b \o c)
BY Joined

(* The same, named for the provers. *)
Associate(a, b, c) == (a \o b) \o c = a \o (b \o c)

(* Joining sequences of tokens is associative. *)
LEMMA TokensAssociate == \A a, b, c \in Seq(Token) : Associate(a, b, c)
BY JoinedTokens, Zenon DEF Associate

(* What d begins with, element by element. *)
LEMMA BeginsSame ==
  ASSUME NEW S, NEW d \in Seq(S), NEW u \in Seq(S), NEW l \in Seq(S), NEW x \in Seq(S),
         Len(l) <= Len(d)
  PROVE  d \o u = l \o x => \A j \in DOMAIN l : d[j] = l[j]
<1>1. SUFFICES ASSUME d \o u = l \o x, NEW j \in DOMAIN l PROVE d[j] = l[j]
  OBVIOUS
<1>2. j \in DOMAIN d
  OBVIOUS
<1>3. (d \o u)[j] = d[j]
  BY <1>2, FirstPart
<1>4. (l \o x)[j] = l[j]
  BY FirstPart
<1> QED
  BY <1>1, <1>3, <1>4

(* A header and what follows. *)
LEMMA HeaderThen ==
  \A r \in Nat : \A b, x \in Seq(Token) : (Header(r) \o b) \o x = Header(r) \o (b \o x)
<1> SUFFICES ASSUME NEW r \in Nat
             PROVE  \A b, x \in Seq(Token) : (Header(r) \o b) \o x = Header(r) \o (b \o x)
  BY Zenon
<1>1. Header(r) \in Seq(Token)
  BY HeaderTokens
<1> QED
  BY <1>1, JoinedTokens, Zenon

(* In d and w together, y is behind a header at position i. *)
HeaderAt(d, i, w, r, y) == SubSeq(d, i, Len(d)) \o w = Header(r) \o y

(* And the blank line is in d. *)
BlankLineAt(d, i, w, y) ==
  /\ SubSeq(d, i + 3, Len(d)) \in Seq(Token)
  /\ SubSeq(d, i + 3, Len(d)) \o w = y
  /\ d[i + 1].t = "crlf" /\ d[i + 2].t = "crlf"

(* What is behind a header that was received is the body of its request. *)
LEMMA BehindHeader ==
  ASSUME NEW d \in Seq(Token), NEW w \in Seq(Token), NEW i \in DOMAIN d,
         i + 2 <= Len(d), NEW r \in Nat, NEW y \in Seq(Token), HeaderAt(d, i, w, r, y)
  PROVE  BlankLineAt(d, i, w, y)
<1>1. PICK g : g = Header(r)
  OBVIOUS
<1>2. g \in Seq(Token) /\ Len(g) = 3 /\ g[2].t = "crlf" /\ g[3].t = "crlf"
  BY <1>1, HeaderTokens
<1>3. PICK n \in 0 .. Len(d) : n + 1 = i /\ n + 3 <= Len(d)
  <2>1. i \in 1 .. Len(d) /\ Len(d) \in Nat
    OBVIOUS
  <2>2. i - 1 \in 0 .. Len(d) /\ (i - 1) + 1 = i /\ (i - 1) + 3 <= Len(d)
    BY <2>1
  <2> QED
    BY <2>2
<1>4. PICK h, f : h = SubSeq(d, 1, n) /\ f = SubSeq(d, i, Len(d))
  OBVIOUS
<1>5. h \in Seq(Token) /\ f \in Seq(Token) /\ Len(h) = n
  BY <1>3, <1>4, Cut
<1>6. d = h \o f
  <2>1. d = SubSeq(d, 1, n) \o SubSeq(d, n + 1, Len(d))
    BY Cut, Zenon
  <2> QED
    BY <1>3, <1>4, <2>1, Zenon
<1>7. d \o w = h \o (f \o w)
  <2>1. (h \o f) \o w = h \o (f \o w)
    BY <1>5, JoinedTokens, Zenon
  <2> QED
    BY <1>6, <2>1, Zenon
<1>8. PICK l : l = h \o g
  OBVIOUS
<1>9. l \in Seq(Token) /\ Len(l) = n + 3
  <2>1. g \in Seq(Token) /\ h \in Seq(Token)
    BY <1>2, <1>5
  <2>2. h \o g \in Seq(Token) /\ Len(h \o g) = Len(h) + Len(g)
    BY <2>1, TwoParts, Zenon
  <2> QED
    BY <1>2, <1>5, <1>8, <2>2, Zenon
<1>10. l \o y = h \o (g \o y)
  <2>1. g \in Seq(Token) /\ h \in Seq(Token)
    BY <1>2, <1>5
  <2>2. (h \o g) \o y = h \o (g \o y)
    BY <2>1, JoinedTokens, Zenon
  <2> QED
    BY <1>8, <2>2, Zenon
<1>11. d \o w = l \o y
  <2>1. SubSeq(d, i, Len(d)) \o w = Header(r) \o y
    BY DEF HeaderAt
  <2> QED
    BY <1>1, <1>4, <1>7, <1>10, <2>1, Zenon
<1>12. Len(l) <= Len(d) /\ Len(l) + 1 = i + 3
  BY <1>3, <1>9
<1>13. SubSeq(d, i + 3, Len(d)) \in Seq(Token)
  BY <1>9, <1>11, <1>12, BeginsWith
<1>14. SubSeq(d, i + 3, Len(d)) \o w = y
  <2>1. SubSeq(d, Len(l) + 1, Len(d)) \o w = y
    BY <1>9, <1>11, <1>12, BeginsWithRest
  <2> QED
    BY <1>12, <2>1
<1>16. l[n + 2] = g[2] /\ l[n + 3] = g[3]
  <2>1. g \in Seq(Token) /\ h \in Seq(Token) /\ DOMAIN g = 1 .. 3
    BY <1>2, <1>5
  <2>2. 2 \in DOMAIN g /\ 3 \in DOMAIN g
    BY <2>1
  <2>3. \A j \in DOMAIN g : (h \o g)[Len(h) + j] = g[j]
    BY <2>1, TwoParts, Zenon
  <2> QED
    BY <1>5, <1>8, <2>2, <2>3, Zenon
<1>17. n + 2 \in DOMAIN l /\ n + 3 \in DOMAIN l
  BY <1>3, <1>9
<1>18. d[n + 2] = l[n + 2] /\ d[n + 3] = l[n + 3]
  <2>1. l \in Seq(Token) /\ Len(l) <= Len(d) /\ d \o w = l \o y
    BY <1>9, <1>11, <1>12
  <2>2. \A j \in DOMAIN l : d[j] = l[j]
    BY <2>1, BeginsSame
  <2> QED
    BY <1>17, <2>2, Zenon
<1>19. n + 2 = i + 1 /\ n + 3 = i + 2
  BY <1>3
<1>20. d[i + 1].t = "crlf" /\ d[i + 2].t = "crlf"
  BY <1>2, <1>16, <1>18, <1>19
<1> QED
  BY <1>13, <1>14, <1>20 DEF BlankLineAt

(* The blank line of a header is the first one, and the body is behind it. *)
LEMMA HeaderFound ==
  ASSUME NEW p \in Seq(RequestShape), NEW a \in 0 .. Len(p), NEW u,
         NEW d \in Seq(Token), NEW w \in Seq(Token),
         Numbered(d \o w, a), Contiguous(p, d \o w, a, u),
         BlankLines(d) # {}, NEW i \in 1 .. Min(BlankLines(d)), d[i].t = "hdr",
         NEW r, r = d[i].r
  PROVE  /\ r \in 1 .. a /\ p[r] \in RequestShape /\ p[r].framing # "hello"
         /\ Min(BlankLines(d)) = i + 1
         /\ SubSeq(d, i + 3, Len(d)) \in Seq(Token)
         /\ Begins(SubSeq(d, i + 3, Len(d)) \o w, EncodedBody(p[r], r), r, a, u)
<1>1. PICK m : m = Min(BlankLines(d))
  OBVIOUS
<1>2. /\ m \in 1 .. Len(d) /\ m + 1 \in 1 .. Len(d) /\ d[m].t = "crlf"
      /\ \A j \in BlankLines(d) : m <= j
  BY <1>1, LineEndPositions
<1>3. m # i /\ i <= m /\ i \in 1 .. Len(d) /\ i + 2 <= Len(d)
  BY <1>1, <1>2
<1>4. i \in DOMAIN d /\ i - 1 \in 0 .. Len(d)
  BY <1>3
<1>5. PICK s : s = d \o w
  OBVIOUS
<1>6. i \in DOMAIN s /\ s[i] = d[i]
  BY <1>4, <1>5, FirstPart
<1>7. r \in 1 .. a
  BY <1>5, <1>6 DEF Numbered
<1>8. p[r] \in RequestShape /\ r \in Nat
  BY <1>7
<1> DEFINE f == SubSeq(d, i, Len(d))
           h == SubSeq(d, 1, i - 1)
           B == EncodedBody(p[r], r)
<1>9. PICK x \in Seq(Token) : f \o w = Encoded(p[r], r) \o x /\ Behind(x, r, a, u)
  <2>1. Begins(SubSeq(s, i, Len(s)), Encoded(p[r], r), r, a, u)
    BY <1>5, <1>6 DEF Contiguous
  <2>2. SubSeq(s, i, Len(s)) = f \o w
    BY <1>4, <1>5, FirstPart
  <2> QED
    BY <2>1, <2>2 DEF Begins
<1>10. h \in Seq(Token) /\ f \in Seq(Token) /\ Len(h) = i - 1 /\ d = h \o f /\ Len(f) > 0
  <2>1. PICK n \in 0 .. Len(d) : n = i - 1
    BY <1>4
  <2>2. n + 1 = i /\ Len(d) - n > 0
    BY <1>3, <2>1
  <2>3. /\ SubSeq(d, 1, n) \in Seq(Token) /\ SubSeq(d, n + 1, Len(d)) \in Seq(Token)
        /\ Len(SubSeq(d, 1, n)) = n /\ Len(SubSeq(d, n + 1, Len(d))) = Len(d) - n
        /\ d = SubSeq(d, 1, n) \o SubSeq(d, n + 1, Len(d))
    BY Cut
  <2> QED
    BY <2>1, <2>2, <2>3
<1>11. f[1] = d[i]
  BY <1>4, EndOf
<1> HIDE DEF f, h
<1>12. /\ Encoded(p[r], r) \in Seq(Token) /\ Len(Encoded(p[r], r)) > 0
       /\ p[r].framing = "hello" => Encoded(p[r], r)[1].t = "hello"
       /\ p[r].framing # "hello" => Encoded(p[r], r) = Header(r) \o B
  BY <1>8, RequestSent DEF OfRequest
<1>13. p[r].framing # "hello"
  <2>1. (f \o w)[1] = f[1]
    BY <1>10, FirstOf
  <2>2. (Encoded(p[r], r) \o x)[1] = Encoded(p[r], r)[1]
    BY <1>12, FirstOf
  <2> QED
    BY <1>9, <1>11, <1>12, <2>1, <2>2
<1>14. B \in Seq(Token) /\ Header(r) \in Seq(Token)
  BY <1>8, BodySent, HeaderTokens DEF OfRequest
<1>15. PICK y : y = B \o x
  OBVIOUS
<1>16. y \in Seq(Token)
  BY <1>14, <1>15, TwoParts
<1>17. HeaderAt(d, i, w, r, y)
  <2>1. f \o w = (Header(r) \o B) \o x
    BY <1>9, <1>12, <1>13, Zenon
  <2>2. (Header(r) \o B) \o x = Header(r) \o (B \o x)
    BY <1>8, <1>14, HeaderThen, Zenon
  <2> HIDE DEF B
  <2>3. f \o w = Header(r) \o y
    BY <1>15, <2>1, <2>2, Zenon
  <2> QED
    BY <2>3 DEF HeaderAt, f
<1>18. BlankLineAt(d, i, w, y)
  BY <1>3, <1>4, <1>8, <1>16, <1>17, BehindHeader
<1>21. i + 1 \in BlankLines(d)
  <2>1. i + 1 \in DOMAIN d /\ i + 2 \in DOMAIN d /\ i + 1 + 1 = i + 2
    BY <1>3
  <2> QED
    BY <1>18, <2>1 DEF BlankLines, LineEnds, BlankLineAt
<1>22. m = i + 1
  BY <1>2, <1>3, <1>21
<1>23. Begins(SubSeq(d, i + 3, Len(d)) \o w, B, r, a, u)
  <2> HIDE DEF B
  <2>1. SubSeq(d, i + 3, Len(d)) \o w = B \o x
    BY <1>15, <1>18, Zenon DEF BlankLineAt
  <2> QED
    BY <1>9, <2>1, Zenon DEF Begins
<1> QED
  BY <1>1, <1>7, <1>8, <1>13, <1>18, <1>22, <1>23 DEF B, BlankLineAt

---------------------------------------------------------------------------
(***************************************************************************)
(* A body on its way.                                                      *)
(***************************************************************************)

(* What is left of a chunked body behind its first n chunks. *)
Left(q, r, st, n) ==
  CASE st = "size" -> Chunks(q, r, n) \o LastLines(q, r)
    [] st = "chunk" -> (<<Tok("dat", r, n + 1)>> \o Crlf(r))
                          \o (Chunks(q, r, n + 1) \o LastLines(q, r))
    [] st = "trailers" -> TrailerLines(q, r)

Line(t, r, k) == <<Tok(t, r, k)>> \o Crlf(r)

(* A line is two tokens. *)
LEMMA LineSent ==
  ASSUME NEW r \in Nat, NEW k \in Nat,
         NEW t \in {"crlf", "dat", "size", "bad_size", "zero", "trailer"}
  PROVE  Line(t, r, k) \in Seq(Token) /\ Len(Line(t, r, k)) = 2
<1>1. Tok(t, r, k) \in Token /\ Tok("crlf", r, 0) \in Token
  BY TokFields
<1> QED
  BY <1>1 DEF Line, Crlf

(* What is left is always some lines. *)
LEMMA LeftSent ==
  ASSUME NEW q \in RequestShape, NEW r \in Nat, q.framing \in Chunked, NEW n \in 0 .. q.size
  PROVE  /\ Left(q, r, "size", n) \in Seq(Token)
         /\ Left(q, r, "trailers", n) \in Seq(Token)
         /\ n < q.size =>
              /\ Left(q, r, "chunk", n) \in Seq(Token)
              /\ Left(q, r, "size", n) = Line("size", r, n + 1) \o Left(q, r, "chunk", n)
              /\ Left(q, r, "chunk", n) = Line("dat", r, n + 1) \o Left(q, r, "size", n + 1)
         /\ n = q.size =>
              IF q.framing = "bad_chunk"
              THEN Left(q, r, "size", n) = Line("bad_size", r, 0) \o <<>>
              ELSE Left(q, r, "size", n) = Line("zero", r, 0) \o Left(q, r, "trailers", n)
<1> DEFINE c(m) == Chunks(q, r, m)
           l == LastLines(q, r)
           t == TrailerLines(q, r)
<1>1. q.size \in Nat /\ n \in Nat
  BY DEF RequestShape
<1>2. \A m \in 0 .. q.size : c(m) \in Seq(Token)
  BY ChunksSent DEF OfRequest
<1>3. l \in Seq(Token) /\ t \in Seq(Token)
  BY LastLinesSent DEF OfRequest
<1>4. /\ q.framing # "bad_chunk" => l = Line("zero", r, 0) \o t
      /\ q.framing = "bad_chunk" => l = Line("bad_size", r, 0)
  BY LastLinesSent DEF Line
<1>5. /\ n = q.size => c(n) = <<>>
      /\ n < q.size => c(n) = Line("size", r, n + 1) \o (Line("dat", r, n + 1) \o c(n + 1))
  BY ChunksSent DEF Line
<1>6. /\ Left(q, r, "size", n) = c(n) \o l
      /\ Left(q, r, "size", n + 1) = c(n + 1) \o l
      /\ Left(q, r, "trailers", n) = t
      /\ Left(q, r, "chunk", n) = Line("dat", r, n + 1) \o (c(n + 1) \o l)
  BY DEF Left, Line
<1> HIDE DEF c, l, t
<1>7. Left(q, r, "size", n) \in Seq(Token)
  <2>1. c(n) \in Seq(Token)
    BY <1>2
  <2>2. c(n) \o l \in Seq(Token)
    BY <1>3, <2>1, TwoParts, Zenon
  <2> QED
    BY <1>6, <2>2, Zenon
<1>8. ASSUME n < q.size
      PROVE  /\ Left(q, r, "chunk", n) \in Seq(Token)
             /\ Left(q, r, "size", n) = Line("size", r, n + 1) \o Left(q, r, "chunk", n)
             /\ Left(q, r, "chunk", n) = Line("dat", r, n + 1) \o Left(q, r, "size", n + 1)
  <2>1. n + 1 \in 0 .. q.size /\ n + 1 \in Nat
    BY <1>1, <1>8
  <2>2. c(n + 1) \in Seq(Token)
    BY <1>2, <2>1
  <2>3. Line("size", r, n + 1) \in Seq(Token) /\ Line("dat", r, n + 1) \in Seq(Token)
    BY <2>1, LineSent
  <2>4. c(n + 1) \o l \in Seq(Token)
    BY <1>3, <2>2, TwoParts, Zenon
  <2>5. Left(q, r, "chunk", n) \in Seq(Token)
    <3>1. Line("dat", r, n + 1) \o (c(n + 1) \o l) \in Seq(Token)
      BY <2>3, <2>4, TwoParts, Zenon
    <3> QED
      BY <1>6, <3>1, Zenon
  <2>6. Left(q, r, "chunk", n) = Line("dat", r, n + 1) \o Left(q, r, "size", n + 1)
    BY <1>6, Zenon
  <2>7. Left(q, r, "size", n) = Line("size", r, n + 1) \o Left(q, r, "chunk", n)
    <3>1. PICK s, d, e : /\ s = Line("size", r, n + 1) /\ d = Line("dat", r, n + 1)
                         /\ e = c(n + 1)
      OBVIOUS
    <3>2. s \in Seq(Token) /\ d \in Seq(Token) /\ e \in Seq(Token)
      BY <2>2, <2>3, <3>1, Zenon
    <3>3. d \o e \in Seq(Token)
      BY <3>2, TwoParts, Zenon
    <3>4. Associate(d, e, l) /\ Associate(s, d \o e, l)
      BY <1>3, <3>2, <3>3, TokensAssociate, Zenon
    <3>5. c(n) = s \o (d \o e)
      BY <1>5, <1>8, <3>1, Zenon
    <3>6. c(n) \o l = s \o (d \o (e \o l))
      BY <3>4, <3>5, Zenon DEF Associate
    <3> QED
      BY <1>6, <3>1, <3>6, Zenon
  <2> QED
    BY <2>5, <2>6, <2>7
<1>9. ASSUME n = q.size
      PROVE  IF q.framing = "bad_chunk"
             THEN Left(q, r, "size", n) = Line("bad_size", r, 0) \o <<>>
             ELSE Left(q, r, "size", n) = Line("zero", r, 0) \o Left(q, r, "trailers", n)
  <2>1. <<>> \o l = l
    BY <1>3
  <2>2. Left(q, r, "size", n) = l
    BY <1>5, <1>6, <1>9, <2>1, Zenon
  <2>3. CASE q.framing = "bad_chunk"
    <3>1. Line("bad_size", r, 0) \in Seq(Token)
      BY LineSent
    <3>2. Line("bad_size", r, 0) \o <<>> = Line("bad_size", r, 0)
      BY <3>1
    <3> QED
      BY <1>4, <2>2, <2>3, <3>2, Zenon
  <2>4. CASE q.framing # "bad_chunk"
    BY <1>4, <1>6, <2>2, <2>4, Zenon
  <2> QED
    BY <2>3, <2>4
<1>10. Left(q, r, "trailers", n) \in Seq(Token)
  BY <1>3, <1>6
<1> QED
  BY <1>7, <1>8, <1>9, <1>10, Zenon

(* The first line of d is the token t of request r, and rest is left. *)
HasLine(d, w, t, r, k, rest, a, u) ==
  /\ 2 \in LineEnds(d) /\ Min(LineEnds(d)) = 2
  /\ SubSeq(d, 1, 1) = <<Tok(t, r, k)>>
  /\ SubSeq(d, 3, Len(d)) \in Seq(Token)
  /\ Begins(SubSeq(d, 3, Len(d)) \o w, rest, r, a, u)

(* The reader has a line when it has a line end. *)
LEMMA LineRead ==
  ASSUME NEW d \in Seq(Token), NEW w \in Seq(Token), NEW rest \in Seq(Token),
         NEW r \in Nat, NEW k \in Nat, NEW t \in {"dat", "size", "bad_size", "zero"},
         NEW a, NEW u, Begins(d \o w, Line(t, r, k) \o rest, r, a, u),
         LineEnds(d) # {} \/ Len(d) >= 2
  PROVE  HasLine(d, w, t, r, k, rest, a, u)
<1>1. PICK x \in Seq(Token) : d \o w = (Line(t, r, k) \o rest) \o x /\ Behind(x, r, a, u)
  BY Zenon DEF Begins
<1>2. PICK y : y = rest \o x
  OBVIOUS
<1>3. y \in Seq(Token)
  BY <1>2, TwoParts
<1>4. PICK e : e = Tok(t, r, k)
  OBVIOUS
<1>5. e \in Token /\ e.t # "crlf"
  BY <1>4, TokFields
<1>6. Line(t, r, k) = <<e>> \o Crlf(r)
  BY <1>4 DEF Line
<1>7. LineAt(d, w, e, r, y)
  <2>1. Line(t, r, k) \in Seq(Token)
    BY LineSent
  <2>2. (Line(t, r, k) \o rest) \o x = Line(t, r, k) \o (rest \o x)
    BY <2>1, JoinedTokens, Zenon
  <2> QED
    BY <1>1, <1>2, <1>6, <2>2, Zenon DEF LineAt
<1>8. Len(d) >= 2
  <2>1. CASE LineEnds(d) # {}
    <3>1. <<e>> \in Seq(Token) /\ Crlf(r) \in Seq(Token)
      <4>1. Tok("crlf", r, 0) \in Token
        BY TokFields
      <4> QED
        BY <1>5, <4>1 DEF Crlf
    <3>2. (<<e>> \o Crlf(r)) \o y = <<e>> \o (Crlf(r) \o y)
      <4>1. PICK f, g : f = <<e>> /\ g = Crlf(r)
        OBVIOUS
      <4>2. f \in Seq(Token) /\ g \in Seq(Token)
        BY <3>1, <4>1
      <4>3. Associate(f, g, y)
        BY <1>3, <4>2, TokensAssociate, Zenon
      <4> QED
        BY <4>1, <4>3, Zenon DEF Associate
    <3>3. Crlf(r) \o y \in Seq(Token)
      BY <1>3, <3>1, TwoParts, Zenon
    <3>4. d \o w = <<e>> \o (Crlf(r) \o y)
      BY <1>7, <3>2, Zenon DEF LineAt
    <3> QED
      BY <1>5, <2>1, <3>3, <3>4, LineArrived, Zenon
  <2> QED
    BY <2>1
<1>9. /\ 2 \in LineEnds(d) /\ Min(LineEnds(d)) = 2
      /\ SubSeq(d, 1, 1) = <<e>>
      /\ SubSeq(d, 3, Len(d)) \in Seq(Token)
      /\ SubSeq(d, 3, Len(d)) \o w = y
  BY <1>3, <1>5, <1>7, <1>8, LineTaken, Zenon
<1>10. Begins(SubSeq(d, 3, Len(d)) \o w, rest, r, a, u)
  BY <1>1, <1>2, <1>9, Zenon DEF Begins
<1> QED
  BY <1>4, <1>9, <1>10, Zenon DEF HasLine

(* What is left of a request is received when the client has sent it all and *)
(* nothing is on its way.                                                    *)
LEMMA AllThere ==
  ASSUME NEW d \in Seq(Token), NEW u \in Seq(Token), NEW l \in Seq(Token),
         NEW r, NEW a, Begins(d \o u, l, r, a, u), a = r => u = <<>>
  PROVE  Len(l) <= Len(d)
<1>1. PICK x \in Seq(Token) : d \o u = l \o x /\ Behind(x, r, a, u)
  BY Zenon DEF Begins
<1>2. Len(d \o u) = Len(d) + Len(u) /\ Len(l \o x) = Len(l) + Len(x)
  OBVIOUS
<1>3. Len(d) + Len(u) = Len(l) + Len(x)
  BY <1>1, <1>2, Zenon
<1>4. Len(u) <= Len(x)
  <2>1. CASE a = r
    <3>1. Len(u) = 0 /\ Len(x) \in Nat
      BY <2>1
    <3> QED
      BY <3>1
  <2>2. CASE a # r
    BY <1>1, <2>2, Zenon DEF Behind
  <2> QED
    BY <2>1, <2>2
<1>5. Len(d) \in Nat /\ Len(u) \in Nat /\ Len(l) \in Nat /\ Len(x) \in Nat
  OBVIOUS
<1>6. PICK i, j, m, n : i = Len(d) /\ j = Len(u) /\ m = Len(l) /\ n = Len(x)
  OBVIOUS
<1>7. i \in Nat /\ j \in Nat /\ m \in Nat /\ n \in Nat /\ i + j = m + n /\ j <= n
  BY <1>3, <1>4, <1>5, <1>6, Zenon
<1>8. m <= i
  BY <1>7
<1> QED
  BY <1>6, <1>8, Zenon

(* What has come of a body is a part of it. *)
LEMMA PrefixOf ==
  ASSUME NEW d \in Seq(Token), NEW w \in Seq(Token), NEW l \in Seq(Token),
         NEW r, NEW a, NEW u, Begins(d \o w, l, r, a, u),
         NEW n \in Nat, n <= Len(d), n <= Len(l)
  PROVE  /\ SubSeq(d, 1, n) \in Seq(Token)
         /\ SubSeq(d, 1, n) = SubSeq(l, 1, n)
         /\ IsPrefix(SubSeq(d, 1, n), l)
<1>1. PICK x \in Seq(Token) : d \o w = l \o x
  BY Zenon DEF Begins
<1>2. \A i \in 1 .. n : i \in DOMAIN d /\ i \in DOMAIN l
  OBVIOUS
<1>3. \A i \in DOMAIN d : (d \o w)[i] = d[i]
  BY FirstPart
<1>4. \A i \in DOMAIN l : (l \o x)[i] = l[i]
  BY FirstPart
<1>5. \A i \in 1 .. n : d[i] = l[i]
  BY <1>1, <1>2, <1>3, <1>4, Zenon
<1> DEFINE f == SubSeq(d, 1, n)
           g == SubSeq(l, 1, n)
<1>6. /\ f \in Seq(Token) /\ Len(f) = n /\ \A i \in 1 .. n : f[i] = d[i]
      /\ g \in Seq(Token) /\ Len(g) = n /\ \A i \in 1 .. n : g[i] = l[i]
  OBVIOUS
<1> HIDE DEF f, g
<1>7. f = g
  BY <1>5, <1>6, SeqEqual
<1>8. SubSeq(f, 1, Len(f)) = f
  BY <1>6, SubSeqFull
<1>9. IsPrefix(f, l)
  BY <1>6, <1>7, <1>8 DEF IsPrefix, g
<1> QED
  BY <1>6, <1>7, <1>9 DEF f, g

---------------------------------------------------------------------------
(***************************************************************************)
(* The request that is awaited.                                            *)
(***************************************************************************)

(* Before the request b, whether it was sent or not, there is only the rest *)
(* of others that were cut short; nothing at all in a tidy stream.          *)
RestBefore(p, s, a, b, tidy) ==
  \/ a = b - 1 /\ Rest(s) /\ (tidy => s = <<>>)
  \/ /\ a = b
     /\ \E x \in Seq(Token) : s = x \o Encoded(p[b], b) /\ Rest(x) /\ (tidy => x = <<>>)

(* Only the first token of a request opens one, or a handshake. *)
LEMMA OneOpening ==
  ASSUME NEW q \in RequestShape, NEW r \in Nat, NEW i \in DOMAIN Encoded(q, r), i # 1
  PROVE  Encoded(q, r)[i].t \notin {"hdr", "hello"}
<1>1. CASE q.framing = "hello"
  <2>1. Encoded(q, r) \in Seq(Token) /\ Len(Encoded(q, r)) = 1
    BY <1>1, RequestSent DEF OfRequest
  <2> QED
    BY <2>1
<1>2. CASE q.framing # "hello"
  <2>1. Encoded(q, r) = Header(r) \o EncodedBody(q, r)
    BY <1>2, RequestSent
  <2>2. PICK e, h, b : e = Encoded(q, r) /\ h = Header(r) /\ b = EncodedBody(q, r)
    OBVIOUS
  <2>3. h \in Seq(Token) /\ h[2].t = "crlf" /\ h[3].t = "crlf" /\ DOMAIN h = 1 .. 3
    BY <2>2, HeaderTokens
  <2>4. b \in Seq(Token) /\ Rest(b)
    BY <2>2, BodySent DEF OfRequest
  <2>5. e = h \o b /\ i \in DOMAIN e
    BY <2>1, <2>2, Zenon
  <2>6. i \in DOMAIN h \/ \E j \in DOMAIN b : i = Len(h) + j
    BY <2>3, <2>4, <2>5, EitherPart
  <2>7. CASE i \in DOMAIN h
    <3>1. (h \o b)[i] = h[i]
      BY <2>3, <2>4, <2>7, FirstPart
    <3>2. i \in {2, 3}
      BY <2>3, <2>7
    <3> QED
      BY <2>2, <2>3, <2>5, <3>1, <3>2
  <2>8. ASSUME NEW j \in DOMAIN b, i = Len(h) + j
        PROVE  e[i].t \notin {"hdr", "hello"}
    <3>1. (h \o b)[Len(h) + j] = b[j]
      BY <2>3, <2>4, SecondPart
    <3>2. e[i] = b[j]
      BY <2>5, <2>8, <3>1, Zenon
    <3> QED
      BY <2>4, <3>2 DEF Rest
  <2> QED
    BY <2>2, <2>6, <2>7, <2>8, Zenon
<1> QED
  BY <1>1, <1>2

(* Where the opening of the awaited request is, and that it is the only one. *)
LEMMA OpeningAwaited ==
  ASSUME NEW p \in Seq(RequestShape), NEW a \in 0 .. Len(p), NEW b \in Nat \ {0},
         NEW tidy, NEW s \in Seq(Token), RestBefore(p, s, a, b, tidy),
         NEW i \in DOMAIN s, s[i].t \in {"hdr", "hello"}
  PROVE  /\ a = b /\ b \in DOMAIN p
         /\ s[i] = Encoded(p[b], b)[1]
         /\ tidy => i = 1
         /\ \A j \in DOMAIN s : j > i => s[j].t \notin {"hdr", "hello"}
<1>1. a = b /\ \E x \in Seq(Token) : s = x \o Encoded(p[b], b) /\ Rest(x) /\ (tidy => x = <<>>)
  BY DEF RestBefore, Rest
<1>2. b \in DOMAIN p /\ p[b] \in RequestShape /\ b \in Nat
  BY <1>1
<1>3. PICK e : e = Encoded(p[b], b)
  OBVIOUS
<1>4. PICK x \in Seq(Token) : s = x \o e /\ Rest(x) /\ (tidy => x = <<>>)
  BY <1>1, <1>3
<1>5. e \in Seq(Token) /\ \A j \in DOMAIN e : j # 1 => e[j].t \notin {"hdr", "hello"}
  <2>1. e \in Seq(Token)
    BY <1>2, <1>3, RequestSent DEF OfRequest
  <2>2. \A j \in DOMAIN e : j # 1 => e[j].t \notin {"hdr", "hello"}
    BY <1>2, <1>3, OneOpening
  <2> QED
    BY <2>1, <2>2
<1>6. PICK n : n = Len(x)
  OBVIOUS
<1>7. /\ \A j \in DOMAIN x : s[j] = x[j]
      /\ \A j \in DOMAIN e : s[n + j] = e[j]
      /\ \A j \in DOMAIN s : j \in DOMAIN x \/ \E m \in DOMAIN e : j = n + m
  <2>1. \A j \in DOMAIN x : (x \o e)[j] = x[j]
    BY <1>5, FirstPart
  <2>2. \A j \in DOMAIN e : (x \o e)[Len(x) + j] = e[j]
    <3>1. e \in Seq(Token)
      BY <1>5
    <3> QED
      BY <3>1, TwoParts, Zenon
  <2>3. \A j \in DOMAIN (x \o e) : j \in DOMAIN x \/ \E m \in DOMAIN e : j = Len(x) + m
    BY <1>5, EitherPart
  <2> QED
    BY <1>4, <1>6, <2>1, <2>2, <2>3, Zenon
<1>8. \A j \in DOMAIN x : s[j].t \notin {"hdr", "hello"}
  BY <1>4, <1>7, Zenon DEF Rest
<1>9. PICK m \in DOMAIN e : i = n + m
  BY <1>7, <1>8
<1>10. s[i] = e[m]
  BY <1>7, <1>9, Zenon
<1>11. m = 1
  BY <1>5, <1>10
<1>12. n \in Nat /\ DOMAIN e \subseteq Nat \ {0} /\ \A j \in DOMAIN x : j <= n
  BY <1>4, <1>5, <1>6
<1>13. tidy => i = 1
  <2>1. x = <<>> => n = 0
    BY <1>6
  <2> QED
    BY <1>4, <1>9, <1>11, <2>1
<1>14. ASSUME NEW j \in DOMAIN s, j > i PROVE s[j].t \notin {"hdr", "hello"}
  <2>1. CASE j \in DOMAIN x
    BY <1>8, <2>1
  <2>2. ASSUME NEW k \in DOMAIN e, j = n + k PROVE s[j].t \notin {"hdr", "hello"}
    <3>1. k # 1
      BY <1>9, <1>11, <1>12, <1>14, <2>2
    <3>2. s[j] = e[k]
      BY <1>7, <2>2, Zenon
    <3> QED
      BY <1>5, <3>1, <3>2
  <2> QED
    BY <1>7, <2>1, <2>2
<1> QED
  BY <1>1, <1>2, <1>3, <1>10, <1>11, <1>13, <1>14, Zenon

(* A tidy stream begins with its opening. *)
LEMMA TidyOpening ==
  ASSUME NEW p \in Seq(RequestShape), NEW a \in 0 .. Len(p), NEW b \in Nat \ {0},
         NEW s \in Seq(Token), RestBefore(p, s, a, b, TRUE), s # <<>>
  PROVE  /\ a = b /\ b \in DOMAIN p /\ s = Encoded(p[b], b)
<1>1. PICK x \in Seq(Token) : a = b /\ s = x \o Encoded(p[b], b) /\ x = <<>>
  BY DEF RestBefore
<1>2. b \in DOMAIN p /\ p[b] \in RequestShape /\ b \in Nat
  BY <1>1
<1>3. Encoded(p[b], b) \in Seq(Token)
  BY <1>2, RequestSent DEF OfRequest
<1>4. <<>> \o Encoded(p[b], b) = Encoded(p[b], b)
  BY <1>3
<1> QED
  BY <1>1, <1>2, <1>4, Zenon

(* The header of the awaited request. *)
LEMMA HeaderAwaited ==
  ASSUME NEW p \in Seq(RequestShape), NEW a \in 0 .. Len(p), NEW b \in Nat \ {0},
         NEW tidy, NEW d \in Seq(Token), NEW w \in Seq(Token),
         RestBefore(p, d \o w, a, b, tidy), NEW i \in DOMAIN d, d[i].t = "hdr"
  PROVE  /\ a = b /\ d[i].r = b /\ (tidy => i = 1)
         /\ Rest(w)
<1>1. PICK s, n : s = d \o w /\ n = Len(d)
  OBVIOUS
<1>2. s \in Seq(Token) /\ RestBefore(p, s, a, b, tidy)
  BY <1>1, TwoParts
<1>3. i \in DOMAIN s /\ s[i] = d[i]
  BY <1>1, FirstPart
<1>4. \A j \in DOMAIN w : n + j \in DOMAIN s /\ s[n + j] = w[j]
  BY <1>1, SecondPart
<1>5. /\ a = b /\ b \in DOMAIN p /\ s[i] = Encoded(p[b], b)[1] /\ (tidy => i = 1)
      /\ \A j \in DOMAIN s : j > i => s[j].t \notin {"hdr", "hello"}
  BY <1>2, <1>3, OpeningAwaited
<1>6. d[i].r = b
  <2>1. p[b] \in RequestShape /\ b \in Nat
    BY <1>5
  <2>2. /\ OfRequest(Encoded(p[b], b), b) /\ Len(Encoded(p[b], b)) > 0
    BY <2>1, RequestSent
  <2>3. 1 \in DOMAIN Encoded(p[b], b)
    BY <2>2 DEF OfRequest
  <2> QED
    BY <1>3, <1>5, <2>2, <2>3 DEF OfRequest
<1>7. Rest(w)
  <2>1. \A j \in DOMAIN w : n + j > i
    BY <1>1
  <2> QED
    BY <1>4, <1>5, <2>1 DEF Rest
<1> QED
  BY <1>5, <1>6, <1>7

(* The opening of the handshake. *)
LEMMA HelloAwaited ==
  ASSUME NEW p \in Seq(RequestShape), NEW a \in 0 .. Len(p), NEW b \in Nat \ {0},
         NEW tidy, NEW w \in Seq(Token), NEW u \in Seq(Token),
         RestBefore(p, w \o u, a, b, tidy), w # <<>>, w[1].t = "hello"
  PROVE  a = b /\ Tail(w) = <<>> /\ u = <<>>
<1>1. PICK s : s = w \o u
  OBVIOUS
<1>2. s \in Seq(Token) /\ RestBefore(p, s, a, b, tidy)
  BY <1>1, TwoParts
<1>3. 1 \in DOMAIN w
  OBVIOUS
<1>4. 1 \in DOMAIN s /\ s[1] = w[1]
  BY <1>1, <1>3, FirstPart
<1>5. a = b /\ b \in DOMAIN p /\ s[1] = Encoded(p[b], b)[1]
  BY <1>2, <1>4, OpeningAwaited
<1>6. p[b] \in RequestShape /\ b \in Nat
  BY <1>5
<1>7. p[b].framing = "hello"
  <2>1. p[b].framing # "hello" => Encoded(p[b], b)[1].t = "hdr"
    BY <1>6, RequestSent
  <2>2. Encoded(p[b], b)[1].t = "hello"
    BY <1>4, <1>5, Zenon
  <2> QED
    BY <2>1, <2>2
<1>8. Encoded(p[b], b) \in Seq(Token) /\ Len(Encoded(p[b], b)) = 1
  BY <1>6, <1>7, RequestSent DEF OfRequest
<1>9. PICK x \in Seq(Token) : s = x \o Encoded(p[b], b) /\ Rest(x)
  <2>1. ~Rest(s)
    BY <1>4 DEF Rest
  <2> QED
    BY <1>2, <2>1 DEF RestBefore
<1>10. Len(x) = 0
  <2>1. CASE Len(x) > 0
    <3>1. 1 \in DOMAIN x
      BY <2>1
    <3>2. (x \o Encoded(p[b], b))[1] = x[1]
      BY <1>8, <3>1, FirstPart
    <3>3. x[1].t = "hello"
      BY <1>4, <1>9, <3>2, Zenon
    <3> QED
      BY <1>9, <3>1, <3>3 DEF Rest
  <2> QED
    BY <2>1
<1>11. Len(x \o Encoded(p[b], b)) = 1
  <2>1. Len(x \o Encoded(p[b], b)) = Len(x) + Len(Encoded(p[b], b))
    BY <1>8, TwoParts, Zenon
  <2>2. Len(x \o Encoded(p[b], b)) = 0 + 1
    BY <1>8, <1>10, <2>1, Zenon
  <2> QED
    BY <2>2
<1>12. Len(w \o u) = 1
  BY <1>1, <1>9, <1>11, Zenon
<1>13. PICK i, j : i = Len(w) /\ j = Len(u)
  OBVIOUS
<1>14. i \in Nat \ {0} /\ j \in Nat
  BY <1>13
<1>15. i + j = 1
  <2>1. Len(w \o u) = Len(w) + Len(u)
    OBVIOUS
  <2> QED
    BY <1>12, <1>13, <2>1, Zenon
<1>16. i = 1 /\ j = 0
  BY <1>14, <1>15
<1>17. w = <<w[1]>> /\ u = <<>>
  <2>1. Len(w) = 1 => w = <<w[1]>>
    OBVIOUS
  <2>2. Len(u) = 0 => u = <<>>
    OBVIOUS
  <2> QED
    BY <1>13, <1>16, <2>1, <2>2, Zenon
<1>18. Tail(<<w[1]>>) = <<>>
  OBVIOUS
<1> QED
  BY <1>5, <1>17, <1>18, Zenon

---------------------------------------------------------------------------
(***************************************************************************)
(* The body readers: p is the plan, d the bytes received, b the body so    *)
(* far, h the request, and w the bytes that have not been received.        *)
(***************************************************************************)

(* A body with a length is on its way. *)
InLength(p, d, b, h, w, a, u) ==
  /\ h \in 1 .. a
  /\ p[h].framing \in {"length", "bad_length"}
  /\ d = <<>>
  /\ Begins(b \o w, Pieces(p[h], h), h, a, u)

(* A body in chunks is: st is the loop that reads it. *)
InChunks(p, st, d, b, h, w, a, u) ==
  /\ h \in 1 .. a
  /\ p[h].framing \in Chunked
  /\ Len(b) <= p[h].size
  /\ b = SubSeq(Pieces(p[h], h), 1, Len(b))
  /\ Begins(d \o w, Left(p[h], h, st, Len(b)), h, a, u)
  /\ st = "chunk" => Len(b) < p[h].size
  /\ st = "trailers" => Len(b) = p[h].size /\ p[h].framing # "bad_chunk"

(* A body was read to its end, or as far as it came. *)
Done(p, b, h, a) ==
  h # 0 =>
    /\ h \in 1 .. a
    /\ p[h].framing # "hello"
    /\ p[h].framing # "none" => IsPrefix(b, Pieces(p[h], h))

(* The requests of a plan. *)
LEMMA Planned ==
  ASSUME NEW p \in Seq(RequestShape), NEW a \in 0 .. Len(p), NEW h \in 1 .. a
  PROVE  /\ p[h] \in RequestShape /\ h \in Nat /\ p[h].size \in Nat
         /\ Pieces(p[h], h) \in Seq(Token) /\ Len(Pieces(p[h], h)) = p[h].size
<1>1. p[h] \in RequestShape /\ h \in Nat
  OBVIOUS
<1> QED
  BY <1>1, PiecesSent DEF OfRequest

(* As much as has come of a body with a length. *)
LEMMA LengthDone ==
  ASSUME NEW p \in Seq(RequestShape), NEW a \in 0 .. Len(p), NEW d, NEW b \in Seq(Token),
         NEW h, NEW w \in Seq(Token), NEW u, InLength(p, d, b, h, w, a, u),
         NEW n \in Nat, n <= Len(b), n <= p[h].size
  PROVE  SubSeq(b, 1, n) \in Seq(Token) /\ Done(p, SubSeq(b, 1, n), h, a)
<1>1. /\ h \in 1 .. a /\ p[h].framing \in {"length", "bad_length"}
      /\ Begins(b \o w, Pieces(p[h], h), h, a, u)
  BY DEF InLength
<1>2. Pieces(p[h], h) \in Seq(Token) /\ n <= Len(Pieces(p[h], h))
  BY <1>1, Planned
<1>3. SubSeq(b, 1, n) \in Seq(Token) /\ IsPrefix(SubSeq(b, 1, n), Pieces(p[h], h))
  BY <1>1, <1>2, PrefixOf
<1> QED
  BY <1>1, <1>3 DEF Done

(* As much as has come of a body in chunks. *)
LEMMA ChunksDone ==
  ASSUME NEW p \in Seq(RequestShape), NEW a \in 0 .. Len(p), NEW st, NEW d, NEW b \in Seq(Token),
         NEW h, NEW w, NEW u, InChunks(p, st, d, b, h, w, a, u)
  PROVE  /\ Done(p, b, h, a)
         /\ Len(b) = p[h].size => b = Pieces(p[h], h)
<1>1. /\ h \in 1 .. a /\ p[h].framing \in Chunked /\ Len(b) <= p[h].size
      /\ b = SubSeq(Pieces(p[h], h), 1, Len(b))
  BY DEF InChunks
<1>2. Pieces(p[h], h) \in Seq(Token) /\ Len(Pieces(p[h], h)) = p[h].size
  BY <1>1, Planned
<1>3. SubSeq(b, 1, Len(b)) = b
  BY SubSeqFull
<1>4. IsPrefix(b, Pieces(p[h], h))
  BY <1>1, <1>2, <1>3, Zenon DEF IsPrefix
<1>5. Len(b) = p[h].size => b = Pieces(p[h], h)
  <2>1. SubSeq(Pieces(p[h], h), 1, Len(Pieces(p[h], h))) = Pieces(p[h], h)
    BY <1>2, SubSeqFull, Zenon
  <2> QED
    BY <1>1, <1>2, <2>1, Zenon
<1>6. p[h].framing # "hello"
  BY <1>1 DEF Chunked
<1> QED
  BY <1>1, <1>4, <1>5, <1>6, Zenon DEF Done

(* What the first line of a chunked body leads to. *)
LeadsOn(p, d, b, h, w, a, u) ==
  /\ Min(LineEnds(d)) = 2 /\ SubSeq(d, 3, Len(d)) \in Seq(Token)
  /\ \E t \in {"size", "zero", "bad_size"} : \E k \in Nat :
       /\ SubSeq(d, 1, 1) = <<Tok(t, h, k)>>
       /\ t = "size" => InChunks(p, "chunk", SubSeq(d, 3, Len(d)), b, h, w, a, u)
       /\ t = "zero" => InChunks(p, "trailers", SubSeq(d, 3, Len(d)), b, h, w, a, u)
       /\ t = "bad_size" => p[h].framing = "bad_chunk"

(* The line that the reader finds is one that the client sent. *)
LEMMA SizeLineRead ==
  ASSUME NEW p \in Seq(RequestShape), NEW a \in 0 .. Len(p), NEW d \in Seq(Token),
         NEW b \in Seq(Token), NEW h, NEW w \in Seq(Token), NEW u,
         InChunks(p, "size", d, b, h, w, a, u), LineEnds(d) # {}
  PROVE  LeadsOn(p, d, b, h, w, a, u)
<1> DEFINE q == p[h]
           n == Len(b)
           rd == SubSeq(d, 3, Len(d))
<1>1. /\ h \in 1 .. a /\ q.framing \in Chunked /\ n <= q.size
      /\ b = SubSeq(Pieces(q, h), 1, n)
      /\ Begins(d \o w, Left(q, h, "size", n), h, a, u)
  BY DEF InChunks
<1>2. q \in RequestShape /\ h \in Nat /\ q.size \in Nat /\ n \in 0 .. q.size /\ n \in Nat
  BY <1>1, Planned
<1> HIDE DEF q, n
<1>3. CASE n < q.size
  <2>1. /\ Left(q, h, "chunk", n) \in Seq(Token)
        /\ Left(q, h, "size", n) = Line("size", h, n + 1) \o Left(q, h, "chunk", n)
    BY <1>1, <1>2, <1>3, LeftSent
  <2>2. Begins(d \o w, Line("size", h, n + 1) \o Left(q, h, "chunk", n), h, a, u)
    BY <1>1, <2>1, Zenon
  <2>3. n + 1 \in Nat
    BY <1>2
  <2>4. /\ Min(LineEnds(d)) = 2 /\ SubSeq(d, 1, 1) = <<Tok("size", h, n + 1)>>
        /\ rd \in Seq(Token)
        /\ Begins(rd \o w, Left(q, h, "chunk", n), h, a, u)
    <3>1. HasLine(d, w, "size", h, n + 1, Left(q, h, "chunk", n), a, u)
      BY <1>2, <2>1, <2>2, <2>3, LineRead, Zenon
    <3> QED
      BY <3>1, Zenon DEF HasLine
  <2>5. InChunks(p, "chunk", rd, b, h, w, a, u)
    BY <1>1, <1>3, <2>4 DEF InChunks, q, n
  <2> QED
    BY <2>3, <2>4, <2>5 DEF LeadsOn
<1>4. CASE n = q.size /\ q.framing = "bad_chunk"
  <2>1. Left(q, h, "size", n) = Line("bad_size", h, 0) \o <<>>
    BY <1>1, <1>2, <1>4, LeftSent
  <2>2. Begins(d \o w, Line("bad_size", h, 0) \o <<>>, h, a, u) /\ <<>> \in Seq(Token)
    BY <1>1, <2>1
  <2>3. 0 \in Nat
    OBVIOUS
  <2>4. /\ Min(LineEnds(d)) = 2 /\ SubSeq(d, 1, 1) = <<Tok("bad_size", h, 0)>>
        /\ rd \in Seq(Token)
    <3>1. HasLine(d, w, "bad_size", h, 0, <<>>, a, u)
      BY <1>2, <2>2, <2>3, LineRead, Zenon
    <3> QED
      BY <3>1, Zenon DEF HasLine
  <2> QED
    BY <1>4, <2>4 DEF q, LeadsOn
<1>5. CASE n = q.size /\ q.framing # "bad_chunk"
  <2>1. /\ Left(q, h, "trailers", n) \in Seq(Token)
        /\ Left(q, h, "size", n) = Line("zero", h, 0) \o Left(q, h, "trailers", n)
    BY <1>1, <1>2, <1>5, LeftSent
  <2>2. Begins(d \o w, Line("zero", h, 0) \o Left(q, h, "trailers", n), h, a, u)
    BY <1>1, <2>1, Zenon
  <2>3. 0 \in Nat
    OBVIOUS
  <2>4. /\ Min(LineEnds(d)) = 2 /\ SubSeq(d, 1, 1) = <<Tok("zero", h, 0)>>
        /\ rd \in Seq(Token)
        /\ Begins(rd \o w, Left(q, h, "trailers", n), h, a, u)
    <3>1. HasLine(d, w, "zero", h, 0, Left(q, h, "trailers", n), a, u)
      BY <1>2, <2>1, <2>2, <2>3, LineRead, Zenon
    <3> QED
      BY <3>1, Zenon DEF HasLine
  <2>5. InChunks(p, "trailers", rd, b, h, w, a, u)
    BY <1>1, <1>5, <2>4 DEF InChunks, q, n
  <2> QED
    BY <2>4, <2>5 DEF LeadsOn
<1> QED
  <2>1. n < q.size \/ n = q.size
    BY <1>2
  <2> QED
    BY <1>3, <1>4, <1>5, <2>1

(* One chunk. *)
LEMMA ChunkRead ==
  ASSUME NEW p \in Seq(RequestShape), NEW a \in 0 .. Len(p), NEW d \in Seq(Token),
         NEW b \in Seq(Token), NEW h, NEW w \in Seq(Token), NEW u,
         InChunks(p, "chunk", d, b, h, w, a, u), Len(d) >= 2
  PROVE  /\ SubSeq(d, 3, Len(d)) \in Seq(Token) /\ b \o SubSeq(d, 1, 1) \in Seq(Token)
         /\ InChunks(p, "size", SubSeq(d, 3, Len(d)), b \o SubSeq(d, 1, 1), h, w, a, u)
<1> DEFINE q == p[h]
           n == Len(b)
           rd == SubSeq(d, 3, Len(d))
<1>1. /\ h \in 1 .. a /\ q.framing \in Chunked /\ n < q.size
      /\ b = SubSeq(Pieces(q, h), 1, n)
      /\ Begins(d \o w, Left(q, h, "chunk", n), h, a, u)
  BY DEF InChunks
<1>2. /\ q \in RequestShape /\ h \in Nat /\ q.size \in Nat /\ n \in 0 .. q.size /\ n \in Nat
      /\ Pieces(q, h) \in Seq(Token) /\ Len(Pieces(q, h)) = q.size
  BY <1>1, Planned
<1> HIDE DEF q
<1>3. /\ n + 1 \in 0 .. q.size /\ n + 1 \in Nat /\ n + 1 \in DOMAIN Pieces(q, h)
  BY <1>1, <1>2
<1>4. /\ Left(q, h, "size", n + 1) \in Seq(Token)
      /\ Left(q, h, "chunk", n) = Line("dat", h, n + 1) \o Left(q, h, "size", n + 1)
  BY <1>1, <1>2, <1>3, LeftSent
<1>5. Begins(d \o w, Line("dat", h, n + 1) \o Left(q, h, "size", n + 1), h, a, u)
  BY <1>1, <1>4, Zenon
<1>6. /\ SubSeq(d, 1, 1) = <<Tok("dat", h, n + 1)>>
      /\ rd \in Seq(Token)
      /\ Begins(rd \o w, Left(q, h, "size", n + 1), h, a, u)
  <2>1. HasLine(d, w, "dat", h, n + 1, Left(q, h, "size", n + 1), a, u)
    BY <1>2, <1>3, <1>4, <1>5, LineRead, Zenon
  <2> QED
    BY <2>1, Zenon DEF HasLine
<1>7. PICK e : e = Tok("dat", h, n + 1)
  OBVIOUS
<1>8. e \in Token /\ Pieces(q, h)[n + 1] = e
  <2>1. Pieces(q, h)[n + 1] = Tok("dat", h, n + 1)
    BY <1>1, <1>2, <1>3, PiecesSent
  <2>2. Tok("dat", h, n + 1) \in Token
    BY <1>2, <1>3, TokFields
  <2> QED
    BY <1>7, <2>1, <2>2, Zenon
<1>9. /\ b \o <<e>> \in Seq(Token) /\ Len(b \o <<e>>) = n + 1
      /\ \A i \in 1 .. n : (b \o <<e>>)[i] = b[i]
      /\ (b \o <<e>>)[n + 1] = e
  BY <1>8
<1>10. \A i \in 1 .. n : b[i] = Pieces(q, h)[i]
  <2>1. PICK c, m, z : c = b /\ m = n /\ z = Pieces(q, h)
    OBVIOUS
  <2>2. \A i \in 1 .. m : SubSeq(z, 1, m)[i] = z[i]
    BY <1>2, <2>1
  <2>3. c = SubSeq(z, 1, m)
    BY <1>1, <2>1, Zenon
  <2> QED
    BY <2>1, <2>2, <2>3, Zenon
<1>11. b \o <<e>> = SubSeq(Pieces(q, h), 1, n + 1)
  <2>1. PICK c, z : c = b \o <<e>> /\ z = Pieces(q, h)
    OBVIOUS
  <2>2. PICK y : y = SubSeq(z, 1, n + 1)
    OBVIOUS
  <2>3. y \in Seq(Token) /\ Len(y) = n + 1 /\ \A i \in 1 .. n + 1 : y[i] = z[i]
    BY <1>2, <1>3, <2>1, <2>2
  <2>4. c \in Seq(Token) /\ Len(c) = n + 1
    BY <1>9, <2>1, Zenon
  <2>5. \A i \in 1 .. n : c[i] = z[i]
    BY <1>9, <1>10, <2>1, Zenon
  <2>6. c[n + 1] = z[n + 1]
    BY <1>8, <1>9, <2>1, Zenon
  <2>7. \A i \in 1 .. n + 1 : i \in 1 .. n \/ i = n + 1
    BY <1>2
  <2>8. \A i \in 1 .. n + 1 : c[i] = y[i]
    BY <2>3, <2>5, <2>6, <2>7, Zenon
  <2>9. c = y
    BY <2>3, <2>4, <2>8, SeqEqual
  <2> QED
    BY <2>1, <2>2, <2>9, Zenon
<1>12. b \o SubSeq(d, 1, 1) = b \o <<e>>
  BY <1>6, <1>7, Zenon
<1>13. PICK c : c = b \o SubSeq(d, 1, 1)
  OBVIOUS
<1>14. c \in Seq(Token) /\ Len(c) = n + 1 /\ c = SubSeq(Pieces(q, h), 1, n + 1)
  BY <1>9, <1>11, <1>12, <1>13, Zenon
<1> HIDE DEF n
<1>15. InChunks(p, "size", rd, c, h, w, a, u)
  <2>1. Len(c) <= q.size
    BY <1>2, <1>3, <1>14
  <2>2. c = SubSeq(Pieces(q, h), 1, Len(c)) /\ Begins(rd \o w, Left(q, h, "size", Len(c)), h, a, u)
    BY <1>6, <1>14, Zenon
  <2> HIDE DEF rd
  <2> QED
    BY <1>1, <2>1, <2>2 DEF InChunks, q
<1> QED
  BY <1>6, <1>13, <1>14, <1>15, Zenon

(* The body reader that the header of request r leads to, with the bytes c. *)
LeadsTo(p, c, r, w, a, u) ==
  /\ r \in 1 .. a /\ p[r] \in RequestShape /\ p[r].framing # "hello"
  /\ c \in Seq(Token)
  /\ p[r].framing \in Chunked => InChunks(p, "size", c, <<>>, r, w, a, u)
  /\ p[r].framing \in {"length", "bad_length"} => InLength(p, <<>>, c, r, w, a, u)
  /\ p[r].framing = "none" => Done(p, c, r, a)
  /\ Begins(c \o w, EncodedBody(p[r], r), r, a, u)

(* The header that the reader finds leads it to the body behind it. *)
LEMMA HeaderRead ==
  ASSUME NEW p \in Seq(RequestShape), NEW a \in 0 .. Len(p), NEW u,
         NEW d \in Seq(Token), NEW w \in Seq(Token),
         Numbered(d \o w, a), Contiguous(p, d \o w, a, u),
         BlankLines(d) # {}, NEW i \in 1 .. Min(BlankLines(d)), d[i].t = "hdr",
         NEW r, r = d[i].r, NEW c, c = SubSeq(d, Min(BlankLines(d)) + 2, Len(d))
  PROVE  LeadsTo(p, c, r, w, a, u)
<1>1. /\ r \in 1 .. a /\ p[r] \in RequestShape /\ p[r].framing # "hello"
      /\ Min(BlankLines(d)) = i + 1
      /\ SubSeq(d, i + 3, Len(d)) \in Seq(Token)
      /\ Begins(SubSeq(d, i + 3, Len(d)) \o w, EncodedBody(p[r], r), r, a, u)
  BY HeaderFound
<1>2. c = SubSeq(d, i + 3, Len(d))
  <2>1. (i + 1) + 2 = i + 3
    OBVIOUS
  <2> QED
    BY <1>1, <2>1, Zenon
<1>3. c \in Seq(Token) /\ Begins(c \o w, EncodedBody(p[r], r), r, a, u)
  BY <1>1, <1>2, Zenon
<1>4. ASSUME p[r].framing \in Chunked PROVE InChunks(p, "size", c, <<>>, r, w, a, u)
  <2>1. Len(<<>>) = 0 /\ 0 <= p[r].size
    BY <1>1, Planned
  <2>2. Pieces(p[r], r) \in Seq(Token)
    BY <1>1, Planned
  <2>3. <<>> = SubSeq(Pieces(p[r], r), 1, 0)
    BY <2>2
  <2>4. EncodedBody(p[r], r) = Left(p[r], r, "size", 0)
    BY <1>4 DEF EncodedBody, Left
  <2>5. /\ Len(<<>>) <= p[r].size
        /\ <<>> = SubSeq(Pieces(p[r], r), 1, Len(<<>>))
        /\ Begins(c \o w, Left(p[r], r, "size", Len(<<>>)), r, a, u)
    BY <1>3, <2>1, <2>3, <2>4, Zenon
  <2> QED
    BY <1>1, <1>4, <2>5 DEF InChunks
<1>5. ASSUME p[r].framing \in {"length", "bad_length"} PROVE InLength(p, <<>>, c, r, w, a, u)
  <2>1. EncodedBody(p[r], r) = Pieces(p[r], r)
    BY <1>5 DEF EncodedBody, Chunked
  <2> QED
    BY <1>1, <1>3, <1>5, <2>1 DEF InLength
<1>6. ASSUME p[r].framing = "none" PROVE Done(p, c, r, a)
  BY <1>1, <1>6 DEF Done
<1> QED
  BY <1>1, <1>3, <1>4, <1>5, <1>6 DEF LeadsTo

(* The client sends more of what it has begun. *)
LEMMA SentMore ==
  ASSUME NEW p, NEW st, NEW d, NEW b, NEW h, NEW w, NEW a, NEW u \in Seq(Token), u # <<>>
  PROVE  /\ InLength(p, d, b, h, w, a, u) => InLength(p, d, b, h, w, a, Tail(u))
         /\ InChunks(p, st, d, b, h, w, a, u) => InChunks(p, st, d, b, h, w, a, Tail(u))
<1>1. \A s, rest, r : Begins(s, rest, r, a, u) => Begins(s, rest, r, a, Tail(u))
  BY BehindLess
<1> QED
  BY <1>1, Zenon DEF InLength, InChunks

(* The client begins another request. *)
LEMMA SentNext ==
  ASSUME NEW p \in Seq(RequestShape), NEW a \in 0 .. Len(p), NEW st,
         NEW d \in Seq(Token), NEW b \in Seq(Token), NEW h, NEW w \in Seq(Token),
         NEW e \in Seq(Token), e # <<>>, st \in {"size", "chunk", "trailers"}
  PROVE  /\ InLength(p, d, b, h, w, a, <<>>) => InLength(p, d, b, h, w \o e, a + 1, Tail(e))
         /\ InChunks(p, st, d, b, h, w, a, <<>>) =>
              InChunks(p, st, d, b, h, w \o e, a + 1, Tail(e))
         /\ Done(p, b, h, a) => Done(p, b, h, a + 1)
<1>0. a \in Nat /\ \A i \in 1 .. a : i \in 1 .. a + 1
  OBVIOUS
<1>1. ASSUME NEW s \in Seq(Token), NEW rest \in Seq(Token), NEW r \in 1 .. a,
             Begins(s \o w, rest, r, a, <<>>)
      PROVE  Begins(s \o (w \o e), rest, r, a + 1, Tail(e))
  <2>1. Begins((s \o w) \o e, rest, r, a + 1, Tail(e))
    BY <1>0, <1>1, BehindMore
  <2>2. Associate(s, w, e)
    BY TokensAssociate, Zenon
  <2> QED
    BY <2>1, <2>2, Zenon DEF Associate
<1>2. ASSUME InLength(p, d, b, h, w, a, <<>>) PROVE InLength(p, d, b, h, w \o e, a + 1, Tail(e))
  <2>1. /\ h \in 1 .. a /\ p[h].framing \in {"length", "bad_length"} /\ d = <<>>
        /\ Begins(b \o w, Pieces(p[h], h), h, a, <<>>)
    BY <1>2, Zenon DEF InLength
  <2>2. Pieces(p[h], h) \in Seq(Token)
    BY <2>1, Planned
  <2>3. Begins(b \o (w \o e), Pieces(p[h], h), h, a + 1, Tail(e))
    BY <1>1, <2>1, <2>2, Zenon
  <2> QED
    BY <1>0, <2>1, <2>3, Zenon DEF InLength
<1>3. ASSUME InChunks(p, st, d, b, h, w, a, <<>>)
      PROVE  InChunks(p, st, d, b, h, w \o e, a + 1, Tail(e))
  <2>1. /\ h \in 1 .. a /\ p[h].framing \in Chunked /\ Len(b) <= p[h].size
        /\ b = SubSeq(Pieces(p[h], h), 1, Len(b))
        /\ Begins(d \o w, Left(p[h], h, st, Len(b)), h, a, <<>>)
        /\ st = "chunk" => Len(b) < p[h].size
        /\ st = "trailers" => Len(b) = p[h].size /\ p[h].framing # "bad_chunk"
    BY <1>3, Zenon DEF InChunks
  <2>2. Left(p[h], h, st, Len(b)) \in Seq(Token)
    <3>1. p[h] \in RequestShape /\ h \in Nat /\ Len(b) \in 0 .. p[h].size
      BY <2>1, Planned
    <3> QED
      BY <2>1, <3>1, LeftSent
  <2>3. Begins(d \o (w \o e), Left(p[h], h, st, Len(b)), h, a + 1, Tail(e))
    BY <1>1, <2>1, <2>2, Zenon
  <2>4. h \in 1 .. a + 1
    BY <1>0, <2>1
  <2> QED
    BY <2>1, <2>3, <2>4, Zenon DEF InChunks
<1>4. ASSUME Done(p, b, h, a) PROVE Done(p, b, h, a + 1)
  BY <1>0, <1>4 DEF Done
<1> QED
  BY <1>2, <1>3, <1>4

(* Of a request that is complete the reader misses nothing, but for the blank *)
(* line that it looks for behind a last chunk without trailers.               *)
LEMMA NothingMissing ==
  ASSUME NEW p \in Seq(RequestShape), NEW a \in 0 .. Len(p),
         NEW d \in Seq(Token), NEW b \in Seq(Token), NEW h, NEW u \in Seq(Token),
         a = h => u = <<>>
  PROVE  /\ InLength(p, d, b, h, u, a, u) => p[h].size <= Len(b)
         /\ InChunks(p, "size", d, b, h, u, a, u) => LineEnds(d) # {}
         /\ InChunks(p, "chunk", d, b, h, u, a, u) => Len(d) >= 2
         /\ InChunks(p, "trailers", d, b, h, u, a, u) =>
              BlankLines(d) # {} \/ p[h].framing = "chunked"
<1>1. ASSUME NEW l \in Seq(Token), NEW c \in Seq(Token), Begins(c \o u, l, h, a, u)
      PROVE  Len(l) <= Len(c)
  BY <1>1, AllThere, Zenon
<1>2. ASSUME NEW q \in RequestShape, NEW r \in Nat, NEW l \in Seq(Token), NEW k \in Nat,
             NEW t \in {"dat", "size", "bad_size", "zero"},
             Begins(d \o u, Line(t, r, k) \o l, h, a, u)
      PROVE  Len(d) >= 2
  <2>1. PICK m : m = Line(t, r, k)
    OBVIOUS
  <2>0. t \in {"crlf", "dat", "size", "bad_size", "zero", "trailer"} /\ 2 >= 2
    OBVIOUS
  <2>2. m \in Seq(Token) /\ Len(m) >= 2
    BY <2>0, <2>1, LineSent, Zenon
  <2>3. m \o l \in Seq(Token) /\ Len(m \o l) = Len(m) + Len(l)
    BY <2>2, TwoParts, Zenon
  <2>4. Len(m \o l) <= Len(d)
    BY <1>1, <1>2, <2>1, <2>3, Zenon
  <2>5. PICK i, j, n, z : i = Len(m) /\ j = Len(l) /\ n = Len(d) /\ z = Len(m \o l)
    OBVIOUS
  <2>6. i >= 2 /\ i \in Nat /\ j \in Nat /\ n \in Nat
    BY <2>2, <2>5
  <2>7. z = i + j /\ z <= n
    BY <2>3, <2>4, <2>5, Zenon
  <2>8. n >= 2
    BY <2>6, <2>7
  <2> QED
    BY <2>5, <2>8, Zenon
<1>3. ASSUME InLength(p, d, b, h, u, a, u) PROVE p[h].size <= Len(b)
  <2>1. h \in 1 .. a /\ Begins(b \o u, Pieces(p[h], h), h, a, u)
    BY <1>3, Zenon DEF InLength
  <2>2. Pieces(p[h], h) \in Seq(Token) /\ Len(Pieces(p[h], h)) = p[h].size
    BY <2>1, Planned
  <2>3. Len(Pieces(p[h], h)) <= Len(b)
    BY <1>1, <2>1, <2>2, Zenon
  <2> QED
    BY <2>2, <2>3, Zenon
<1>4. ASSUME NEW st \in {"size", "chunk", "trailers"}, InChunks(p, st, d, b, h, u, a, u)
      PROVE  /\ h \in 1 .. a /\ p[h].framing \in Chunked
             /\ p[h] \in RequestShape /\ h \in Nat /\ Len(b) \in 0 .. p[h].size
             /\ Begins(d \o u, Left(p[h], h, st, Len(b)), h, a, u)
             /\ st = "chunk" => Len(b) < p[h].size
             /\ st = "trailers" => p[h].framing # "bad_chunk"
  <2>1. h \in 1 .. a /\ Len(b) <= p[h].size
    BY <1>4, Zenon DEF InChunks
  <2>2. p[h] \in RequestShape /\ h \in Nat /\ Len(b) \in 0 .. p[h].size
    BY <2>1, Planned
  <2> QED
    BY <1>4, <2>2, Zenon DEF InChunks
<1>5. ASSUME InChunks(p, "chunk", d, b, h, u, a, u) PROVE Len(d) >= 2
  <2> DEFINE n == Len(b)
  <2>1. /\ h \in 1 .. a /\ p[h].framing \in Chunked /\ p[h] \in RequestShape /\ h \in Nat
        /\ n \in 0 .. p[h].size /\ n < p[h].size
        /\ Begins(d \o u, Left(p[h], h, "chunk", n), h, a, u)
    BY <1>4, <1>5, Zenon
  <2>2. p[h].size \in Nat
    BY <2>1, Planned
  <2> HIDE DEF n
  <2>3. n \in Nat /\ n + 1 \in Nat /\ n + 1 \in 0 .. p[h].size
    BY <2>1, <2>2
  <2>4. Left(p[h], h, "chunk", n) = Line("dat", h, n + 1) \o Left(p[h], h, "size", n + 1)
    BY <2>1, LeftSent
  <2>5. Left(p[h], h, "size", n + 1) \in Seq(Token)
    BY <2>1, <2>3, LeftSent
  <2>6. Begins(d \o u, Line("dat", h, n + 1) \o Left(p[h], h, "size", n + 1), h, a, u)
    BY <2>1, <2>4, Zenon
  <2> QED
    BY <1>2, <2>1, <2>3, <2>5, <2>6, Zenon
<1>6. ASSUME InChunks(p, "size", d, b, h, u, a, u) PROVE LineEnds(d) # {}
  <2> DEFINE n == Len(b)
  <2>1. /\ h \in 1 .. a /\ p[h].framing \in Chunked /\ p[h] \in RequestShape /\ h \in Nat
        /\ n \in 0 .. p[h].size
        /\ Begins(d \o u, Left(p[h], h, "size", n), h, a, u)
    BY <1>4, <1>6, Zenon
  <2>2. p[h].size \in Nat
    BY <2>1, Planned
  <2> HIDE DEF n
  <2>3. PICK t \in {"dat", "size", "bad_size", "zero"} : \E k \in Nat : \E l \in Seq(Token) :
          Left(p[h], h, "size", n) = Line(t, h, k) \o l
    <3>1. CASE n < p[h].size
      <4>1. /\ Left(p[h], h, "chunk", n) \in Seq(Token)
            /\ Left(p[h], h, "size", n) = Line("size", h, n + 1) \o Left(p[h], h, "chunk", n)
        BY <2>1, <3>1, LeftSent
      <4>2. n + 1 \in Nat
        BY <2>1, <2>2
      <4> QED
        BY <4>1, <4>2, Zenon
    <3>2. CASE n = p[h].size /\ p[h].framing = "bad_chunk"
      <4>1. Left(p[h], h, "size", n) = Line("bad_size", h, 0) \o <<>>
        BY <2>1, <3>2, LeftSent
      <4>2. 0 \in Nat /\ <<>> \in Seq(Token)
        OBVIOUS
      <4> QED
        BY <4>1, <4>2, Zenon
    <3>3. CASE n = p[h].size /\ p[h].framing # "bad_chunk"
      <4>1. /\ Left(p[h], h, "trailers", n) \in Seq(Token) /\ 0 \in Nat
            /\ Left(p[h], h, "size", n) = Line("zero", h, 0) \o Left(p[h], h, "trailers", n)
        BY <2>1, <3>3, LeftSent
      <4> QED
        BY <4>1, Zenon
    <3>4. n < p[h].size \/ n = p[h].size
      BY <2>1, <2>2
    <3> QED
      BY <3>1, <3>2, <3>3, <3>4, Zenon
  <2>4. PICK k \in Nat : \E l \in Seq(Token) : Left(p[h], h, "size", n) = Line(t, h, k) \o l
    BY <2>3, Zenon
  <2>5. PICK l \in Seq(Token) : Left(p[h], h, "size", n) = Line(t, h, k) \o l
    BY <2>4, Zenon
  <2>6. Begins(d \o u, Line(t, h, k) \o l, h, a, u)
    BY <2>1, <2>5, Zenon
  <2>7. Len(d) >= 2
    BY <1>2, <2>1, <2>6, Zenon
  <2>8. HasLine(d, u, t, h, k, l, a, u)
    BY <2>1, <2>6, <2>7, LineRead, Zenon
  <2> QED
    BY <2>8, Zenon DEF HasLine
<1>7. ASSUME InChunks(p, "trailers", d, b, h, u, a, u), p[h].framing # "chunked"
      PROVE  BlankLines(d) # {}
  <2>1. /\ h \in 1 .. a /\ p[h].framing \in Chunked /\ h \in Nat
        /\ Begins(d \o u, Left(p[h], h, "trailers", Len(b)), h, a, u)
    BY <1>4, <1>7, Zenon
  <2>2. PICK l : l = TrailerLines(p[h], h)
    OBVIOUS
  <2>3. Begins(d \o u, l, h, a, u)
    BY <2>1, <2>2 DEF Left
  <2>4. Tok("trailer", h, 0) \in Token /\ Tok("crlf", h, 0) \in Token /\ Tok("crlf", h, 0).t = "crlf"
    BY <2>1, TokFields
  <2>5. l \in Seq(Token) /\ Len(l) = 3 /\ l[2].t = "crlf" /\ l[3].t = "crlf"
    BY <1>7, <2>2, <2>4 DEF TrailerLines, Crlf
  <2>6. Len(l) <= Len(d)
    BY <1>1, <2>3, <2>5, Zenon
  <2>7. PICK x \in Seq(Token) : d \o u = l \o x
    BY <2>3, Zenon DEF Begins
  <2>8. \A j \in DOMAIN l : d[j] = l[j]
    BY <2>5, <2>6, <2>7, BeginsSame, Zenon
  <2>9. 2 \in DOMAIN l /\ 3 \in DOMAIN l
    BY <2>5
  <2>10. 2 \in DOMAIN d /\ 3 \in DOMAIN d
    BY <2>5, <2>6
  <2>11. d[2].t = "crlf" /\ d[3].t = "crlf"
    BY <2>5, <2>8, <2>9, Zenon
  <2>12. 2 + 1 = 3
    OBVIOUS
  <2> QED
    BY <2>10, <2>11, <2>12 DEF BlankLines, LineEnds
<1> QED
  BY <1>3, <1>5, <1>6, <1>7, Zenon
=============================================================================
