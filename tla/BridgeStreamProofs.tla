------------------------- MODULE BridgeStreamProofs -------------------------
(***************************************************************************)
(* The way of an answer: from a fetch through the pipe, nm_dispatch and    *)
(* the queue of the call to the client.                                    *)
(*                                                                         *)
(* What a client has received, what is in its queue, what is in the pipe   *)
(* and what its fetch will send next are four parts of one numbered        *)
(* sequence.  AnswerInv says that the parts fit together wherever the      *)
(* call, the reader thread and the fetch are, and what is known of them    *)
(* when Chrome, the fetch, the client or the clock has failed: an answer   *)
(* begins only when its whole request has gone (AskedFirst), a fetch sends *)
(* at its position (FetchesInOrder), pipe, queue and client continue one   *)
(* another (AnswersInOrder, QueueInOrder, OutInOrder), and a call that     *)
(* still reads is in the table of handlers or has been told (TableHolds).  *)
(***************************************************************************)
EXTENDS BridgeProofs

---------------------------------------------------------------------------
(* What a call reads and writes. *)

(* Nothing of the answer comes after it. *)
Final(m) == m.type \in {"end", "error"}

(* The head is number 0, the slices follow, the end comes after the last. *)
Placed(m) ==
  /\ m.type = "response" => m.k = 0
  /\ m.type = "chunk" => m.k \in 1 .. BodyLen[m.origin]
  /\ m.type = "end" => m.k = BodyLen[m.origin] + 1

AllPlaced(q) == \A i \in DOMAIN q : Placed(q[i])

(* What is not an error continues an answer of which n pieces are known. *)
Continues(q, n) == \A i \in DOMAIN q : q[i].type # "error" => q[i].k = n + i - 1

ErrorsLast(q) == \A i, j \in DOMAIN q : i < j /\ Final(q[i]) => q[j].type = "error"

OnlyErrors(q) == \A i \in DOMAIN q : q[i].type = "error"

HasHead(q) == \E i \in DOMAIN q : q[i].type = "response"

Unended(q) == \A i \in DOMAIN q : ~Final(q[i])

(* A piece of the answer, as opposed to what closes or replaces it. *)
InAnswer(w) == w.what \in {"head", "data"}

AnswerOnly(s) == \A i \in DOMAIN s : InAnswer(s[i])

(* The pieces of the answer that a client has received, n slices at most,  *)
(* come in order and without a gap.                                        *)
Ordered(s, n) ==
  \A i \in DOMAIN s :
    /\ i < Len(s) => InAnswer(s[i])
    /\ InAnswer(s[i]) => /\ s[i].k = i - 1
                         /\ s[i].k <= n
                         /\ s[i].what = "head" <=> i = 1

(* A call that takes the first item of its queue. *)
LEMMA TakeContinues ==
  ASSUME NEW q \in Seq(Item), q # <<>>, NEW n \in Nat
  PROVE  /\ AllPlaced(q) => Placed(Head(q)) /\ AllPlaced(Tail(q))
         /\ Continues(q, n) =>
              /\ Head(q).type # "error" => Head(q).k = n
              /\ Continues(Tail(q), n + 1)
         /\ ErrorsLast(q) => ErrorsLast(Tail(q))
         /\ OnlyErrors(q) => OnlyErrors(Tail(q)) /\ Head(q).type = "error"
         /\ Unended(q) => Unended(Tail(q))
         /\ Head(q).type \in {"response", "chunk"} /\ ~Unended(q)
              => ~Unended(Tail(q))
         /\ Len(Tail(q)) = Len(q) - 1
<1>1. /\ \A i \in DOMAIN Tail(q) :
           i \in Nat /\ i + 1 \in DOMAIN q /\ Tail(q)[i] = q[i + 1]
      /\ \A j \in DOMAIN q :
           j = 1 \/ (j - 1 \in DOMAIN Tail(q) /\ Tail(q)[j - 1] = q[j])
      /\ 1 \in DOMAIN q /\ Head(q) = q[1]
      /\ \A j \in DOMAIN q : j \in Nat /\ j >= 1
  BY TailShifts
<1>2. AllPlaced(q) => Placed(Head(q)) /\ AllPlaced(Tail(q))
  BY <1>1 DEF AllPlaced
<1>3. ASSUME Continues(q, n)
      PROVE  /\ Head(q).type # "error" => Head(q).k = n
             /\ Continues(Tail(q), n + 1)
  <2>1. Head(q).type # "error" => Head(q).k = n
    BY <1>1, <1>3 DEF Continues
  <2>2. ASSUME NEW i \in DOMAIN Tail(q), Tail(q)[i].type # "error"
        PROVE  Tail(q)[i].k = (n + 1) + i - 1
    BY <1>1, <1>3, <2>2 DEF Continues
  <2> QED
    BY <2>1, <2>2 DEF Continues
<1>4. ErrorsLast(q) => ErrorsLast(Tail(q))
  BY <1>1 DEF ErrorsLast
<1>5. OnlyErrors(q) => OnlyErrors(Tail(q)) /\ Head(q).type = "error"
  BY <1>1 DEF OnlyErrors
<1>6. Unended(q) => Unended(Tail(q))
  BY <1>1 DEF Unended
<1>7. Head(q).type \in {"response", "chunk"} /\ ~Unended(q) => ~Unended(Tail(q))
  BY <1>1 DEF Unended, Final
<1>8. Len(Tail(q)) = Len(q) - 1
  OBVIOUS
<1> QED
  BY <1>2, <1>3, <1>4, <1>5, <1>6, <1>7, <1>8

(* A handler that puts an item into a queue. *)
LEMMA PutContinues ==
  ASSUME NEW q \in Seq(Item), NEW e \in Item, NEW n \in Nat
  PROVE  /\ AllPlaced(q) /\ Placed(e) => AllPlaced(Append(q, e))
         /\ Continues(q, n) /\ (e.type # "error" => e.k = n + Len(q))
              => Continues(Append(q, e), n)
         /\ ErrorsLast(q) /\ (Unended(q) \/ e.type = "error")
              => ErrorsLast(Append(q, e))
         /\ OnlyErrors(q) /\ e.type = "error" => OnlyErrors(Append(q, e))
         /\ HasHead(Append(q, e)) <=> HasHead(q) \/ e.type = "response"
         /\ Unended(Append(q, e)) <=> Unended(q) /\ ~Final(e)
         /\ Len(Append(q, e)) = Len(q) + 1
<1>1. /\ DOMAIN Append(q, e) = DOMAIN q \cup {Len(q) + 1}
      /\ \A i \in DOMAIN q :
           i \in Nat /\ i < Len(q) + 1 /\ Append(q, e)[i] = q[i]
      /\ Append(q, e)[Len(q) + 1] = e
      /\ Len(q) + 1 \in Nat
  BY AppendShifts
<1>2. AllPlaced(q) /\ Placed(e) => AllPlaced(Append(q, e))
  BY <1>1 DEF AllPlaced
<1>3. Continues(q, n) /\ (e.type # "error" => e.k = n + Len(q))
        => Continues(Append(q, e), n)
  <2>1. n + (Len(q) + 1) - 1 = n + Len(q)
    OBVIOUS
  <2> QED
    BY <1>1, <2>1 DEF Continues
<1>4. ErrorsLast(q) /\ (Unended(q) \/ e.type = "error") => ErrorsLast(Append(q, e))
  <2> SUFFICES ASSUME ErrorsLast(q), Unended(q) \/ e.type = "error",
                      NEW i \in DOMAIN Append(q, e), NEW j \in DOMAIN Append(q, e),
                      i < j, Final(Append(q, e)[i])
               PROVE  Append(q, e)[j].type = "error"
    BY DEF ErrorsLast
  <2>1. i \in DOMAIN q
    BY <1>1
  <2> QED
    BY <1>1, <2>1 DEF ErrorsLast, Unended
<1>5. OnlyErrors(q) /\ e.type = "error" => OnlyErrors(Append(q, e))
  BY <1>1 DEF OnlyErrors
<1>6. HasHead(Append(q, e)) <=> HasHead(q) \/ e.type = "response"
  BY <1>1 DEF HasHead
<1>7. Unended(Append(q, e)) <=> Unended(q) /\ ~Final(e)
  BY <1>1 DEF Unended
<1>8. Len(Append(q, e)) = Len(q) + 1
  OBVIOUS
<1> QED
  BY <1>2, <1>3, <1>4, <1>5, <1>6, <1>7, <1>8

(* A client that is written the next piece of its answer. *)
LEMMA WriteOrdered ==
  ASSUME NEW s \in Seq(Written), NEW n \in Nat, Ordered(s, n), AnswerOnly(s),
         NEW w \in Written
  PROVE  /\ Len(Append(s, w)) = Len(s) + 1
         /\ InAnswer(w) /\ w.k = Len(s) /\ w.k <= n /\ (w.what = "head" <=> Len(s) = 0)
              => Ordered(Append(s, w), n) /\ AnswerOnly(Append(s, w))
         /\ ~InAnswer(w) => Ordered(Append(s, w), n)
<1>1. /\ DOMAIN Append(s, w) = DOMAIN s \cup {Len(s) + 1}
      /\ \A i \in DOMAIN s :
           i \in Nat /\ i < Len(s) + 1 /\ Append(s, w)[i] = s[i]
      /\ Append(s, w)[Len(s) + 1] = w
  BY AppendShifts
<1>2. Len(Append(s, w)) = Len(s) + 1 /\ Len(s) \in Nat
  OBVIOUS
<1>3. ASSUME InAnswer(w) => w.k = Len(s) /\ w.k <= n /\ (w.what = "head" <=> Len(s) = 0)
      PROVE  Ordered(Append(s, w), n)
  <2>1. ASSUME NEW i \in DOMAIN s
        PROVE  /\ InAnswer(s[i]) /\ s[i].k = i - 1 /\ s[i].k <= n
               /\ s[i].what = "head" <=> i = 1
    BY DEF Ordered, AnswerOnly
  <2>2. /\ ~(Len(s) + 1 < Len(s) + 1)
        /\ (Len(s) + 1) - 1 = Len(s)
        /\ Len(s) + 1 = 1 <=> Len(s) = 0
    BY <1>2
  <2> QED
    BY <1>1, <1>2, <1>3, <2>1, <2>2 DEF Ordered
<1>4. InAnswer(w) => AnswerOnly(Append(s, w))
  BY <1>1 DEF AnswerOnly
<1> QED
  BY <1>2, <1>3, <1>4

---------------------------------------------------------------------------
(* The inductive invariant of the answers. *)

(* c may still read from its queue. *)
Live(c) == pc[c] \in {"idle", "alloc", "register", "send", "header", "stream"}

(* c has enqueued its whole request. *)
Asked(c) == pc[c] \notin {"idle", "alloc", "register", "send"}

(* The number of the piece that f sends next. *)
Position(f) == IF f.responded THEN f.sent + 1 ELSE 0

(* The number of the piece that c can be given next. *)
Expected(c) == Len(out[c]) + Len(queue[c])

(* No fetch of c runs and nothing of its answer is anywhere. *)
Unanswered(c) ==
  /\ \A f \in fetches : f.origin # c
  /\ \A i \in DOMAIN stdin : stdin[i].origin # c
  /\ queue[c] = <<>>
  /\ pc[c] # "stream"

(* A part of the request of c has not reached a fetch. *)
Requesting(c) ==
  \/ ~Asked(c)
  \/ \E i \in DOMAIN Requests : Requests[i].origin = c
  \/ \E a \in assembling : a.origin = c

(* The calls whose head has been announced, or is about to be. *)
told == [c \in Calls |-> Told(c)]

(* There is an answer to a request only when all of the request has gone. *)
AskedFirst ==
  /\ \A c \in Calls : \A f \in fetches : f.origin = c => Asked(c)
  /\ \A c \in Calls : \A i \in DOMAIN stdin : stdin[i].origin = c => Asked(c)
  /\ \A c \in Calls : told[c] => Asked(c)
  /\ portOpen => \A c \in Calls : Requesting(c) => Unanswered(c)

(* f has sent everything before its position, and nothing else. *)
InPosition(f) ==
  /\ Unended(queue[f.origin])
  /\ \A i \in DOMAIN stdin :
       stdin[i].origin = f.origin => ~Final(stdin[i]) /\ stdin[i].k < Position(f)
  /\ Live(f.origin) =>
       \/ Position(f) = Expected(f.origin)
       \/ Carries(stdin, f.origin, Position(f) - 1)

FetchesInOrder ==
  /\ \A f \in fetches : f.sent <= BodyLen[f.origin] /\ (f.responded \/ f.sent = 0)
  /\ \A f, g \in fetches : f.origin = g.origin => f = g
  /\ portOpen => \A f \in fetches : InPosition(f)

(* The answers in the pipe continue what the calls have been given. *)
AnswersInOrder ==
  /\ AllPlaced(stdin)
  /\ Increasing(stdin)
  /\ \A i, j \in DOMAIN stdin :
       i < j /\ stdin[i].origin = stdin[j].origin => ~Final(stdin[i])
  /\ \A c \in Calls : \A i \in DOMAIN stdin :
       stdin[i].origin = c =>
         /\ Unended(queue[c])
         /\ Live(c) /\ stdin[i].type # "error" =>
              stdin[i].k = Expected(c) \/ Preceded(stdin, i)

QueueInOrder(c) ==
  /\ AllPlaced(queue[c])
  /\ ErrorsLast(queue[c])
  /\ Live(c) => Continues(queue[c], Len(out[c]))
  /\ pc[c] = "header" => (told[c] <=> HasHead(queue[c]))
  /\ pc[c] = "stream" => told[c]
  /\ ~Asked(c) => OnlyErrors(queue[c])

OutInOrder(c) ==
  /\ Ordered(out[c], BodyLen[c])
  /\ pc[c] \in {"idle", "alloc", "register", "send", "header", "urllib"}
       => out[c] = <<>>
  /\ pc[c] \in {"stream", "overdue", "terminate"} => out[c] # <<>>
  /\ pc[c] \in {"stream", "overdue", "terminate", "except"} => AnswerOnly(out[c])
  /\ broke[c] = "end" =>
       /\ pc[c] = "terminate" => Len(out[c]) = BodyLen[c] + 1
       /\ Closed(c) => Len(out[c]) = BodyLen[c] + 2

(* A call is in the table as long as it needs what the reader brings, and  *)
(* the reader does not go before it has told it.                           *)
TableHolds ==
  /\ reader \in {"notifying", "done"} => ~portOpen /\ stdin = <<>>
  /\ \A c \in Calls :
       reader # "done" /\ pc[c] \in {"send", "header", "stream"} => c \in pending
  /\ \A c \in Calls :
       pc[c] \in {"header", "stream"} /\ told[c] =>
         /\ reader = "notifying" => rid[c] \in notify \/ ~Unended(queue[c])
         /\ reader = "done" => ~Unended(queue[c])

AnswerInv ==
  /\ AskedFirst
  /\ FetchesInOrder
  /\ AnswersInOrder
  /\ \A c \in Calls : QueueInOrder(c) /\ OutInOrder(c)
  /\ TableHolds

(* The types of what AnswerInv speaks of. *)
LEMMA AnswerTypes ==
  ASSUME TypeOK
  PROVE  /\ stdin \in Seq(ResponseMessage)
         /\ \A i \in DOMAIN stdin :
              stdin[i] \in ResponseMessage /\ stdin[i].k \in Nat
                /\ stdin[i].origin \in Calls
         /\ pc \in [Calls -> PCs]
         /\ queue \in [Calls -> Seq(Item)] /\ out \in [Calls -> Seq(Written)]
         /\ told \in [Calls -> BOOLEAN] /\ rid \in [Calls -> Nat]
         /\ broke \in [Calls -> {"no", "end", "error", "deadline"}]
         /\ \A c \in Calls :
              /\ Len(queue[c]) \in Nat /\ Len(out[c]) \in Nat /\ BodyLen[c] \in Nat
              /\ Expected(c) \in Nat
         /\ \A f \in fetches :
              f.origin \in Calls /\ f.sent \in Nat /\ f.responded \in BOOLEAN
                /\ Position(f) \in Nat
         /\ \A a \in assembling : a.origin \in Calls
         /\ pending \subseteq Calls
<1>1. stdin \in Seq(ResponseMessage)
  BY DEF TypeOK, ChannelTypeOK
<1>2. \A i \in DOMAIN stdin : stdin[i] \in ResponseMessage
  BY <1>1
<1>3. \A m \in ResponseMessage : m.k \in Nat /\ m.origin \in Calls
  BY DEF ResponseMessage, Message
<1>4. /\ queue \in [Calls -> Seq(Item)] /\ out \in [Calls -> Seq(Written)]
      /\ pc \in [Calls -> PCs]
      /\ rid \in [Calls -> Nat]
      /\ broke \in [Calls -> {"no", "end", "error", "deadline"}]
      /\ pending \subseteq Calls
  BY DEF TypeOK, HostTypeOK
<1>9. told \in [Calls -> BOOLEAN]
  BY Zenon DEF told, Told
<1>5. \A c \in Calls :
        /\ Len(queue[c]) \in Nat /\ Len(out[c]) \in Nat /\ BodyLen[c] \in Nat
        /\ Expected(c) \in Nat
  BY <1>4, LengthsAssumption DEF Expected
<1>6. \A f \in fetches :
        f.origin \in Calls /\ f.sent \in Nat /\ f.responded \in BOOLEAN
  BY DEF TypeOK, ExtTypeOK
<1>7. \A f \in fetches : Position(f) \in Nat
  BY <1>6 DEF Position
<1>8. \A a \in assembling : a.origin \in Calls
  BY DEF TypeOK, ExtTypeOK
<1> QED
  BY <1>1, <1>2, <1>3, <1>4, <1>5, <1>6, <1>7, <1>8, <1>9

(* Who is told: the event alone does not say it. *)
LEMMA ToldMoves ==
  /\ \A c \in Calls : told[c] <=> evt[c] \/ c \in waking
  /\ \A c \in Calls : told'[c] <=> evt'[c] \/ c \in waking'
  /\ UNCHANGED <<evt, waking>> => told' = told
<1>1. \A c \in Calls : told[c] <=> evt[c] \/ c \in waking
  BY Zenon DEF told, Told
<1>2. \A c \in Calls : told'[c] <=> evt'[c] \/ c \in waking'
  BY Zenon DEF told, Told
<1>3. UNCHANGED <<evt, waking>> => told' = told
  BY DEF told, Told
<1> QED
  BY <1>1, <1>2, <1>3

(* An empty queue and an untouched client. *)
LEMMA EmptyInOrder ==
  /\ AllPlaced(<<>>) /\ ErrorsLast(<<>>) /\ OnlyErrors(<<>>) /\ Unended(<<>>)
  /\ AnswerOnly(<<>>)
  /\ \A n : Continues(<<>>, n) /\ Ordered(<<>>, n)
<1>1. DOMAIN <<>> = {}
  OBVIOUS
<1> QED
  BY <1>1 DEF AllPlaced, ErrorsLast, OnlyErrors, Unended, AnswerOnly, Continues,
              Ordered

(* The initial states satisfy the invariant. *)
LEMMA InitAnswerInv == Init => AnswerInv
<1> SUFFICES ASSUME Init PROVE AnswerInv
  OBVIOUS
<1>1. /\ DOMAIN Requests = {} /\ stdin = <<>> /\ assembling = {} /\ fetches = {}
      /\ reader = "starting"
      /\ \A c \in Calls :
           /\ pc[c] = "idle" /\ queue[c] = <<>> /\ out[c] = <<>>
           /\ ~told[c] /\ broke[c] = "no"
  BY ToldMoves DEF Init, ChannelInit, HostInit, ExtInit, Requests
<1>2. AskedFirst
  BY <1>1 DEF AskedFirst, Unanswered, Requesting
<1>3. FetchesInOrder /\ AnswersInOrder
  BY <1>1 DEF FetchesInOrder, AnswersInOrder, AllPlaced, Increasing
<1>4. \A c \in Calls : QueueInOrder(c)
  BY <1>1, EmptyInOrder DEF QueueInOrder
<1>5. \A c \in Calls : OutInOrder(c)
  BY <1>1, EmptyInOrder DEF OutInOrder
<1>6. TableHolds
  BY <1>1 DEF TableHolds
<1> QED
  BY <1>2, <1>3, <1>4, <1>5, <1>6 DEF AnswerInv

---------------------------------------------------------------------------
(* The steps of a call. *)

(* What the steps of c have in common. *)
CallMoves(c) ==
  /\ UNCHANGED <<stdin, portOpen, fetches, assembling, told, reader, notify>>
  /\ \A d \in Calls \ {c} :
       /\ pc'[d] = pc[d] /\ queue'[d] = queue[d] /\ out'[d] = out[d]
       /\ broke'[d] = broke[d] /\ rid'[d] = rid[d]
  /\ \/ Requests' = Requests
     \/ ~Asked(c) /\ \E m \in RequestMessage :
                      m.origin = c /\ Requests' = Append(Requests, m)
  /\ Asked(c) => Asked(c)'
  /\ Live(c)' => Live(c) /\ Expected(c)' = Expected(c)
  /\ queue'[c] = queue[c] \/ (queue[c] # <<>> /\ queue'[c] = Tail(queue[c]))
  /\ Live(c)' /\ queue'[c] # queue[c]
       => pc'[c] = "stream" /\ Head(queue[c]).type \in {"response", "chunk"}
  /\ pc'[c] = "send" => pc[c] = "send" \/ c \in pending'
  /\ pc'[c] = "header" => pc[c] \in {"send", "header"}
  /\ pc'[c] = "stream"
       => pc[c] = "stream" \/ (pc[c] = "header" /\ told[c] /\ queue[c] # <<>>)
  /\ pc[c] \in {"header", "stream"} => rid'[c] = rid[c]

(* A step that neither reads nor writes anything. *)
LEMMA QuietMoves ==
  ASSUME TypeOK, NEW c \in Calls, NEW from, NEW to \in PCs, Goes(c, from, to),
         UNCHANGED <<stdin, portOpen, fetches, assembling, evt, waking, reader, notify>>,
         UNCHANGED <<queue, broke, stdout, sendQueue, writerUp>>,
         \A d \in Calls \ {c} : rid'[d] = rid[d] /\ out'[d] = out[d],
         from \in {"header", "stream"} => rid'[c] = rid[c],
         out'[c] = out[c] \/ to \notin {"idle", "alloc", "register", "send", "header", "stream"},
         from \in {"idle", "alloc", "register", "send"}
           \/ to \notin {"idle", "alloc", "register", "send", "header", "stream"},
         to \notin {"header", "stream"}, to = "send" => c \in pending'
  PROVE  CallMoves(c)
<1>1. pc' = [pc EXCEPT ![c] = to] /\ pc \in [Calls -> PCs] /\ pc[c] = from
  BY DEF Goes, TypeOK, HostTypeOK
<1>2. Requests' = Requests
  BY DEF Requests
<1>3. Live(c)' => Live(c)
  BY <1>1 DEF Live
<1>4. Live(c)' => Expected(c)' = Expected(c)
  BY <1>1 DEF Expected, Live
<1>5. Asked(c) => Asked(c)'
  BY <1>1 DEF Asked
<1>6. told' = told
  BY ToldMoves
<1> QED
  BY <1>1, <1>2, <1>3, <1>4, <1>5, <1>6 DEF CallMoves

(* An item that goes from one sequence to another is still counted. *)
LEMMA MovedLen ==
  ASSUME NEW s \in Seq(Written), NEW w \in Written, NEW q \in Seq(Item), q # <<>>
  PROVE  Len(Append(s, w)) + Len(Tail(q)) = Len(s) + Len(q)
<1>1. Len(Append(s, w)) = Len(s) + 1 /\ Len(s) \in Nat
  OBVIOUS
<1>2. Len(Tail(q)) = Len(q) - 1 /\ Len(q) \in Nat
  OBVIOUS
<1> QED
  BY <1>1, <1>2

(* A step that takes an item, and writes it unless it gives up. *)
LEMMA TakingMoves ==
  ASSUME TypeOK, NEW c \in Calls, NEW from \in {"header", "stream"}, NEW to \in PCs,
         NEW types,
         Goes(c, from, to), Takes(c, types), OnlyThisCall, UNCHANGED extVars,
         to \notin {"idle", "alloc", "register", "send", "header"},
         \/ UNCHANGED out /\ to # "stream"
         \/ \E w \in Written : out' = [out EXCEPT ![c] = Append(@, w)],
         \A d \in Calls \ {c} : broke'[d] = broke[d],
         to = "stream" => types \subseteq {"response", "chunk"},
         from = "header" /\ to = "stream" => evt[c]
  PROVE  CallMoves(c)
<1>0. /\ pc \in [Calls -> PCs] /\ queue \in [Calls -> Seq(Item)]
      /\ out \in [Calls -> Seq(Written)]
  BY AnswerTypes
<1>1. /\ pc' = [pc EXCEPT ![c] = to] /\ pc[c] = from
      /\ queue' = [queue EXCEPT ![c] = Tail(@)] /\ queue[c] # <<>>
      /\ UNCHANGED <<stdin, stdout, sendQueue, writerUp, portOpen, fetches,
                     assembling, evt, waking, reader, notify, rid>>
  BY DEF Goes, Takes, OnlyThisCall, channelVars, extVars
<1>2. Requests' = Requests
  BY <1>1 DEF Requests
<1>3. Live(c)' => Live(c)
  BY <1>1 DEF Live
<1>4. Live(c)' => Expected(c)' = Expected(c)
  <2> SUFFICES ASSUME Live(c)'
               PROVE  Len(out'[c]) + Len(queue'[c]) = Len(out[c]) + Len(queue[c])
    BY DEF Expected
  <2>1. to = "stream"
    BY <1>0, <1>1 DEF Live
  <2>2. PICK w \in Written : out' = [out EXCEPT ![c] = Append(@, w)]
    BY <2>1
  <2>3. out'[c] = Append(out[c], w) /\ queue'[c] = Tail(queue[c])
    BY <1>0, <1>1, <2>2
  <2>4. out[c] \in Seq(Written) /\ queue[c] \in Seq(Item)
    BY <1>0
  <2>5. Len(Append(out[c], w)) + Len(Tail(queue[c])) = Len(out[c]) + Len(queue[c])
    BY <1>1, <2>4, MovedLen
  <2> QED
    BY <2>3, <2>5
<1>5. Asked(c) => Asked(c)'
  BY <1>0, <1>1 DEF Asked
<1>6. \A d \in Calls \ {c} :
        /\ pc'[d] = pc[d] /\ queue'[d] = queue[d] /\ out'[d] = out[d]
        /\ broke'[d] = broke[d] /\ rid'[d] = rid[d]
  BY <1>0, <1>1
<1>7. queue'[c] = Tail(queue[c]) /\ pc'[c] = to
  BY <1>0, <1>1
<1>8. Live(c)' => pc'[c] = "stream" /\ Head(queue[c]).type \in {"response", "chunk"}
  BY <1>7 DEF Live, Takes
<1>9. pc'[c] = "stream"
        => pc[c] = "stream" \/ (pc[c] = "header" /\ told[c] /\ queue[c] # <<>>)
  BY <1>1, <1>7, ToldMoves
<1>10. told' = told
  BY <1>1, ToldMoves
<1> QED
  BY <1>1, <1>2, <1>3, <1>4, <1>5, <1>6, <1>7, <1>8, <1>9, <1>10 DEF CallMoves

(* Every step of a call is such a move. *)
LEMMA CallStepMoves ==
  ASSUME TypeOK, NEW c \in Calls, Start(c) \/ CallStep(c), UNCHANGED extVars
  PROVE  CallMoves(c)
<1>0. /\ pc \in [Calls -> PCs] /\ queue \in [Calls -> Seq(Item)]
      /\ out \in [Calls -> Seq(Written)] /\ broke \in [Calls -> {"no", "end", "error", "deadline"}]
      /\ rid \in [Calls -> Nat]
  BY AnswerTypes
<1> USE DEF channelVars, extVars
<1>1. CASE Start(c)
  <2>1. Goes(c, "idle", "alloc") \/ Goes(c, "idle", "urllib")
    BY <1>1 DEF Start
  <2> QED
    BY <1>1, <2>1, QuietMoves DEF Start, PCs
<1>2. CASE Alloc(c)
  BY <1>0, <1>2, QuietMoves DEF Alloc, PCs
<1>3. CASE Register(c)
  BY <1>3, QuietMoves DEF Register, PCs
<1>4. CASE SendNext(c)
  <2> DEFINE m == ReqMessage(c, sent[c])
  <2>1. m \in RequestMessage /\ m.origin = c
    BY DEF ReqMessage, RequestMessage, Message, TypeOK, HostTypeOK
  <2>2. /\ sendQueue' = Append(sendQueue, m) /\ stdout' = stdout
        /\ writerUp' = writerUp
    BY <1>4 DEF SendNext
  <2>3. Requests' = Append(Requests, m) \/ Requests' = Requests
    <3> HIDE DEF m
    <3> QED
      BY <2>1, <2>2, RequestTypes, PipesJoined DEF Requests
  <2>4. /\ pc[c] = "send" /\ \A d \in Calls \ {c} : pc'[d] = pc[d]
        /\ pc'[c] \in {"send", "header"}
        /\ UNCHANGED <<stdin, portOpen, fetches, assembling, told, reader, notify>>
        /\ UNCHANGED <<queue, out, broke, rid>>
    BY <1>0, <1>4, ToldMoves DEF SendNext, Goes
  <2>5. ~Asked(c) /\ Live(c)
    BY <2>4 DEF Asked, Live
  <2>6. Expected(c)' = Expected(c)
    BY <2>4 DEF Expected
  <2> HIDE DEF m
  <2> QED
    BY <2>1, <2>3, <2>4, <2>5, <2>6 DEF CallMoves
<1>5. CASE HeaderTimeout(c)
  BY <1>5, QuietMoves DEF HeaderTimeout, PCs
<1>6. CASE StartResponse(c)
  <2>1. Takes(c, {"response"}) /\ Goes(c, "header", "stream") /\ OnlyThisCall
    BY <1>6 DEF StartResponse
  <2>2. [what |-> "head", origin |-> Head(queue[c]).origin, k |-> 0] \in Written
    BY <2>1, TakesType DEF Item, Written
  <2> QED
    BY <1>6, <2>1, <2>2, TakingMoves DEF StartResponse, PCs
<1>7. CASE StartFails(c)
  <2>1. PICK types : Takes(c, types)
    BY <1>7 DEF StartFails
  <2> QED
    BY <1>7, <2>1, TakingMoves DEF StartFails, PCs
<1>8. CASE StreamData(c)
  <2>1. Takes(c, {"chunk"}) /\ OnlyThisCall
    BY <1>8 DEF StreamData
  <2>2. [what |-> "data", origin |-> Head(queue[c]).origin,
         k |-> Head(queue[c]).k] \in Written
    BY <2>1, TakesType DEF Item, Written
  <2>3. Goes(c, "stream", "stream") \/ Goes(c, "stream", "overdue")
    BY <1>8 DEF StreamData
  <2>4. broke' = broke /\ \E w \in Written : out' = [out EXCEPT ![c] = Append(@, w)]
    BY <1>8, <2>2 DEF StreamData
  <2> QED
    BY <2>1, <2>3, <2>4, TakingMoves DEF PCs
<1>9. CASE StreamFails(c)
  BY <1>9, TakingMoves DEF StreamFails, PCs
<1>10. CASE StreamBreaks(c)
  BY <1>0, <1>10, TakingMoves DEF StreamBreaks, PCs
<1>11. CASE GetTimesOut(c)
  <2>1. /\ pc[c] = "stream" /\ pc'[c] = "terminate"
        /\ \A d \in Calls \ {c} : pc'[d] = pc[d] /\ broke'[d] = broke[d]
        /\ UNCHANGED <<stdin, portOpen, fetches, assembling, told, reader, notify>>
        /\ UNCHANGED <<queue, out, rid, stdout, sendQueue, writerUp>>
    BY <1>0, <1>11, ToldMoves DEF GetTimesOut, Goes, OnlyThisCall
  <2>2. ~Live(c)' /\ Asked(c)'
    BY <2>1 DEF Live, Asked
  <2>3. Requests' = Requests
    BY <2>1 DEF Requests
  <2> QED
    BY <2>1, <2>2, <2>3 DEF CallMoves
<1>12. CASE Overdue(c)
  BY <1>12, QuietMoves DEF Overdue, OnlyThisCall, PCs
<1>13. CASE Terminate(c) \/ Except(c) \/ Urllib(c)
  <2>1. PICK from \in {"terminate", "except", "urllib"}, to \in {"pop", "except", "done"} :
          Goes(c, from, to)
    BY <1>13 DEF Terminate, Except, Urllib
  <2>2. /\ UNCHANGED <<queue, broke>> /\ OnlyThisCall
        /\ \A d \in Calls \ {c} : out'[d] = out[d]
    BY <1>0, <1>13 DEF Terminate, Except, Urllib, Write
  <2> QED
    BY <2>1, <2>2, QuietMoves DEF OnlyThisCall, PCs
<1>14. CASE Pop(c)
  BY <1>14, QuietMoves DEF Pop, PCs
<1> QED
  BY <1>1, <1>2, <1>3, <1>4, <1>5, <1>6, <1>7, <1>8, <1>9, <1>10, <1>11,
     <1>12, <1>13, <1>14 DEF CallStep

(* Such a move leaves the answers on their way as they have to be. *)
LEMMA MoveKeepsAnswers ==
  ASSUME TypeOK, AskedFirst, FetchesInOrder, AnswersInOrder,
         NEW c \in Calls, CallMoves(c)
  PROVE  AskedFirst' /\ FetchesInOrder' /\ AnswersInOrder'
<1>0. /\ UNCHANGED <<stdin, portOpen, fetches, assembling, told>>
      /\ \A d \in Calls \ {c} :
           pc'[d] = pc[d] /\ queue'[d] = queue[d] /\ out'[d] = out[d]
      /\ queue'[c] = queue[c] \/ (queue[c] # <<>> /\ queue'[c] = Tail(queue[c]))
  BY DEF CallMoves
<1>1. \A d \in Calls : Asked(d) => Asked(d)'
  BY <1>0 DEF CallMoves, Asked
<1>2. \A d \in Calls : Live(d)' => Live(d) /\ Expected(d)' = Expected(d)
  BY <1>0 DEF CallMoves, Live, Expected
<1>3. \A d \in Calls : Unended(queue[d]) => Unended(queue'[d])
  <2>1. queue[c] \in Seq(Item)
    BY AnswerTypes
  <2>2. queue[c] # <<>> /\ Unended(queue[c]) => Unended(Tail(queue[c]))
    BY <2>1, TakeContinues
  <2>3. Unended(queue[c]) => Unended(queue'[c])
    BY <1>0, <2>2
  <2> QED
    BY <1>0, <2>3
<1>4. \A d \in Calls : Unanswered(d) => Unanswered(d)'
  BY <1>0 DEF CallMoves, Unanswered
<1>5. AskedFirst'
  <2>1. /\ \A d \in Calls : \A f \in fetches' : f.origin = d => Asked(d)'
        /\ \A d \in Calls : \A i \in DOMAIN stdin' : stdin'[i].origin = d => Asked(d)'
        /\ \A d \in Calls : told'[d] => Asked(d)'
    BY <1>0, <1>1 DEF AskedFirst
  <2>2. ASSUME portOpen, NEW d \in Calls, Requesting(d)'
        PROVE  Requesting(d)
    <3>1. CASE Requests' = Requests
      BY <1>0, <1>1, <2>2, <3>1 DEF Requesting
    <3>2. CASE \E m \in RequestMessage :
                 m.origin = c /\ Requests' = Append(Requests, m) /\ ~Asked(c)
      <4>1. PICK m \in RequestMessage :
              m.origin = c /\ Requests' = Append(Requests, m) /\ ~Asked(c)
        BY <3>2
      <4>2. Requests \in Seq(RequestMessage)
        BY RequestTypes
      <4>3. \A i \in DOMAIN Requests' :
              (i \in DOMAIN Requests /\ Requests'[i] = Requests[i]) \/ Requests'[i] = m
        BY <4>1, <4>2, AppendHolds
      <4> QED
        BY <1>0, <1>1, <2>2, <4>1, <4>3 DEF Requesting
    <3> QED
      BY <3>1, <3>2 DEF CallMoves
  <2> QED
    BY <1>0, <1>4, <2>1, <2>2 DEF AskedFirst
<1>6. FetchesInOrder'
  <2>1. ASSUME NEW f \in fetches, InPosition(f)
        PROVE  InPosition(f)'
    <3>1. f.origin \in Calls
      BY AnswerTypes
    <3>2. Position(f)' = Position(f)
      BY DEF Position
    <3> QED
      BY <1>0, <1>2, <1>3, <2>1, <3>1, <3>2 DEF InPosition, Carries
  <2> QED
    BY <1>0, <2>1 DEF FetchesInOrder
<1>7. AnswersInOrder'
  <2>1. AllPlaced(stdin)' /\ Increasing(stdin)'
    BY <1>0 DEF AnswersInOrder, AllPlaced, Placed, Increasing
  <2>2. \A d \in Calls : \A i \in DOMAIN stdin :
          stdin[i].origin = d =>
            /\ Unended(queue'[d])
            /\ Live(d)' /\ stdin[i].type # "error" =>
                 stdin[i].k = Expected(d)' \/ Preceded(stdin, i)
    BY <1>0, <1>2, <1>3, AnswerTypes DEF AnswersInOrder
  <2> QED
    BY <1>0, <2>1, <2>2 DEF AnswersInOrder, Preceded
<1> QED
  BY <1>5, <1>6, <1>7

(* Such a move leaves the queue and the client of another call alone. *)
LEMMA OthersKeepOrder ==
  ASSUME TypeOK, NEW c \in Calls, CallMoves(c), NEW d \in Calls \ {c},
         QueueInOrder(d), OutInOrder(d)
  PROVE  QueueInOrder(d)' /\ OutInOrder(d)'
<1>1. /\ pc'[d] = pc[d] /\ queue'[d] = queue[d] /\ out'[d] = out[d]
      /\ broke'[d] = broke[d] /\ told'[d] = told[d]
  BY DEF CallMoves
<1>2. /\ Live(d)' = Live(d) /\ Asked(d)' = Asked(d) /\ Closed(d)' = Closed(d)
  BY <1>1 DEF Live, Asked, Closed
<1>3. QueueInOrder(d)'
  BY <1>1, <1>2 DEF QueueInOrder, AllPlaced, Placed, ErrorsLast, Final, Continues,
     HasHead, OnlyErrors
<1>4. OutInOrder(d)'
  BY <1>1, <1>2 DEF OutInOrder, Ordered, AnswerOnly, InAnswer
<1> QED
  BY <1>3, <1>4

(* What is not in the queue any more has been written. *)
LEMMA SameSum ==
  \A a, b, q \in Nat :
    /\ a + q = b + q => a = b
    /\ a + (q - 1) = b + q => a = b + 1
OBVIOUS

(* What the move takes from the queue of c leaves it in order. *)
LEMMA MoveKeepsQueue ==
  ASSUME TypeOK, TypeOK', AnswerInv, NEW c \in Calls, CallMoves(c)
  PROVE  QueueInOrder(c)'
<1>0. /\ queue[c] \in Seq(Item) /\ Len(out[c]) \in Nat /\ Len(queue[c]) \in Nat
      /\ QueueInOrder(c) /\ told' = told
      /\ told[c] => Asked(c)
  BY AnswerTypes DEF AnswerInv, AskedFirst, CallMoves
<1>1. Asked(c) => Asked(c)'
  BY DEF CallMoves
<1>2. Live(c)' => Live(c) /\ Len(out'[c]) + Len(queue'[c]) = Len(out[c]) + Len(queue[c])
  BY DEF CallMoves, Expected
<1>3. Len(out'[c]) \in Nat
  BY DEF TypeOK, HostTypeOK
<1>4. CASE queue'[c] = queue[c]
  <2>1. AllPlaced(queue[c])' /\ ErrorsLast(queue[c])'
    BY <1>0, <1>4 DEF QueueInOrder, AllPlaced, Placed, ErrorsLast, Final
  <2>2. ASSUME Live(c)'
        PROVE  Continues(queue[c], Len(out[c]))'
    <3>0. Len(queue'[c]) = Len(queue[c])
      BY <1>4
    <3>1. Len(out'[c]) + Len(queue[c]) = Len(out[c]) + Len(queue[c])
      BY <1>2, <2>2, <3>0
    <3>2. Len(out'[c]) = Len(out[c])
      BY <1>0, <1>3, <3>1, SameSum
    <3> QED
      BY <1>0, <1>2, <1>4, <2>2, <3>2 DEF QueueInOrder, Continues
  <2>3. ASSUME pc'[c] = "header"
        PROVE  told'[c] <=> HasHead(queue[c])'
    <3>1. CASE pc[c] = "header"
      BY <1>0, <1>4, <3>1 DEF QueueInOrder, HasHead
    <3>2. CASE pc[c] = "send"
      <4>1. ~Asked(c)
        BY <3>2 DEF Asked
      <4>2. OnlyErrors(queue[c]) /\ ~told[c]
        BY <1>0, <4>1 DEF QueueInOrder
      <4>3. ~HasHead(queue[c])
        BY <4>2 DEF OnlyErrors, HasHead
      <4> QED
        BY <1>0, <1>4, <4>2, <4>3 DEF HasHead
    <3> QED
      BY <2>3, <3>1, <3>2 DEF CallMoves
  <2>4. pc'[c] = "stream" => told'[c]
    BY <1>0 DEF QueueInOrder, CallMoves
  <2>5. ~Asked(c)' => OnlyErrors(queue[c])'
    BY <1>0, <1>1, <1>4 DEF QueueInOrder, OnlyErrors
  <2> QED
    BY <2>1, <2>2, <2>3, <2>4, <2>5 DEF QueueInOrder
<1>5. CASE queue[c] # <<>> /\ queue'[c] = Tail(queue[c]) /\ queue'[c] # queue[c]
  <2>1. AllPlaced(Tail(queue[c])) /\ ErrorsLast(Tail(queue[c]))
    BY <1>0, <1>5, TakeContinues DEF QueueInOrder
  <2>2. AllPlaced(queue[c])' /\ ErrorsLast(queue[c])'
    BY <1>5, <2>1 DEF AllPlaced, Placed, ErrorsLast, Final
  <2>3. ASSUME Live(c)'
        PROVE  Continues(queue[c], Len(out[c]))'
    <3>0. Len(Tail(queue[c])) = Len(queue[c]) - 1
      BY <1>0, <1>5, TakeContinues
    <3>1. Len(queue'[c]) = Len(queue[c]) - 1
      BY <1>5, <3>0
    <3>2. Len(out'[c]) + (Len(queue[c]) - 1) = Len(out[c]) + Len(queue[c])
      BY <1>2, <2>3, <3>1
    <3>3. Len(out'[c]) = Len(out[c]) + 1
      BY <1>0, <1>3, <3>2, SameSum
    <3>4. Continues(Tail(queue[c]), Len(out[c]) + 1)
      BY <1>0, <1>2, <1>5, <2>3, TakeContinues DEF QueueInOrder
    <3> QED
      BY <1>5, <3>3, <3>4 DEF Continues
  <2>4. Live(c)' => pc'[c] = "stream"
    BY <1>5 DEF CallMoves
  <2>5. pc'[c] # "header" /\ (~Asked(c)' => FALSE)
    BY <2>4, AnswerTypes DEF Live, Asked, PCs
  <2>6. pc'[c] = "stream" => told'[c]
    BY <1>0 DEF QueueInOrder, CallMoves
  <2> QED
    BY <2>2, <2>3, <2>5, <2>6 DEF QueueInOrder
<1> QED
  BY <1>4, <1>5 DEF CallMoves

(* What a call writes continues its answer or closes it. *)
LEMMA CallKeepsOut ==
  ASSUME TypeOK, AnswerInv, OwnResponse, NEW c \in Calls, Start(c) \/ CallStep(c)
  PROVE  OutInOrder(c)'
<1>0. /\ queue[c] \in Seq(Item) /\ out[c] \in Seq(Written)
      /\ out \in [Calls -> Seq(Written)] /\ pc \in [Calls -> PCs]
      /\ broke \in [Calls -> {"no", "end", "error", "deadline"}]
      /\ Len(out[c]) \in Nat /\ BodyLen[c] \in Nat
      /\ QueueInOrder(c) /\ OutInOrder(c)
  BY AnswerTypes DEF AnswerInv
<1>1. ASSUME UNCHANGED out, broke'[c] # "end" \/ (broke'[c] = broke[c] /\ pc'[c] # "terminate"),
             pc'[c] \in {"idle", "alloc", "register", "send", "header", "urllib"}
               => pc[c] \in {"idle", "alloc", "register", "send", "header", "urllib"},
             pc'[c] \in {"stream", "overdue", "terminate"}
               => pc[c] \in {"stream", "overdue", "terminate"},
             pc'[c] = "except"
               => pc[c] \in {"header", "stream", "overdue", "terminate", "except"}
      PROVE  OutInOrder(c)'
  <2>1. Ordered(out[c], BodyLen[c])' /\ Closed(c)' = Closed(c)
    BY <1>0, <1>1 DEF OutInOrder, Ordered, InAnswer, Closed
  <2>2. pc'[c] \in {"stream", "overdue", "terminate", "except"} => AnswerOnly(out[c])'
    <3>1. pc[c] \in {"stream", "overdue", "terminate", "except"} => AnswerOnly(out[c])
      BY <1>0 DEF OutInOrder
    <3>2. pc[c] = "header" => AnswerOnly(out[c])
      BY <1>0, EmptyInOrder DEF OutInOrder
    <3> QED
      BY <1>1, <3>1, <3>2 DEF AnswerOnly, InAnswer
  <2> QED
    BY <1>0, <1>1, <2>1, <2>2 DEF OutInOrder
<1>2. ASSUME AnswerOnly(out[c])
      PROVE  ~Closed(c)
  BY <1>2 DEF AnswerOnly, InAnswer, Closed
<1>3. CASE Start(c)
  BY <1>0, <1>1, <1>3 DEF Start, Goes
<1>4. CASE Alloc(c)
  BY <1>0, <1>1, <1>4 DEF Alloc, Goes
<1>5. CASE Register(c)
  BY <1>0, <1>1, <1>5 DEF Register, Goes
<1>6. CASE SendNext(c)
  BY <1>0, <1>1, <1>6 DEF SendNext, Goes
<1>7. CASE HeaderTimeout(c)
  BY <1>0, <1>1, <1>7 DEF HeaderTimeout, Goes
<1>8. CASE StartFails(c)
  BY <1>0, <1>1, <1>8 DEF StartFails, Goes
<1>9. CASE StreamFails(c)
  BY <1>0, <1>1, <1>9 DEF StreamFails, Goes
<1>10. CASE GetTimesOut(c)
  BY <1>0, <1>1, <1>10 DEF GetTimesOut, Goes
<1>11. CASE Overdue(c)
  BY <1>0, <1>1, <1>11 DEF Overdue, Goes
<1>12. CASE Pop(c)
  BY <1>0, <1>1, <1>12 DEF Pop, Goes
<1>13. CASE StartResponse(c) \/ StreamData(c)
  <2>1. PICK w \in Written :
          /\ out' = [out EXCEPT ![c] = Append(@, w)]
          /\ InAnswer(w) /\ w.k = Len(out[c]) /\ w.k <= BodyLen[c]
          /\ w.what = "head" <=> Len(out[c]) = 0
    <3>1. Head(queue[c]) \in Item /\ queue[c] # <<>>
      BY <1>13, TakesType DEF StartResponse, StreamData, Takes
    <3>2. CASE StartResponse(c)
      <4>1. out[c] = <<>>
        BY <1>0, <3>2 DEF StartResponse, Goes, OutInOrder
      <4>2. PICK w : w = [what |-> "head", origin |-> Head(queue[c]).origin, k |-> 0]
        OBVIOUS
      <4>3. w \in Written /\ w.what = "head" /\ w.k = 0 /\ InAnswer(w)
        BY <3>1, <4>2 DEF Item, Written, InAnswer
      <4>4. Len(out[c]) = 0
        BY <4>1
      <4>5. out' = [out EXCEPT ![c] = Append(@, w)]
        BY <3>2, <4>2 DEF StartResponse
      <4>6. w.k = Len(out[c]) /\ w.k <= BodyLen[c] /\ (w.what = "head" <=> Len(out[c]) = 0)
        BY <1>0, <4>3, <4>4
      <4> QED
        BY <4>3, <4>5, <4>6
    <3>3. CASE StreamData(c)
      <4>0. pc[c] = "stream" /\ Head(queue[c]).type = "chunk"
        BY <3>3 DEF StreamData, Goes, Takes
      <4>1. Head(queue[c]).k = Len(out[c]) /\ Placed(Head(queue[c]))
        <5>1. Live(c)
          BY <4>0 DEF Live
        <5> QED
          BY <1>0, <3>1, <4>0, <5>1, TakeContinues DEF QueueInOrder
      <4>2. Head(queue[c]).origin = c
        <5>1. queue[c][1] = Head(queue[c]) /\ 1 \in DOMAIN queue[c]
          BY <1>0, <3>1, TailHolds
        <5> QED
          BY <5>1 DEF OwnResponse
      <4>3. Head(queue[c]).k \in 1 .. BodyLen[c]
        BY <4>0, <4>1, <4>2 DEF Placed
      <4>4. PICK w : w = [what |-> "data", origin |-> Head(queue[c]).origin,
                          k |-> Head(queue[c]).k]
        OBVIOUS
      <4>5. w \in Written /\ w.what = "data" /\ w.k = Head(queue[c]).k /\ InAnswer(w)
        BY <3>1, <4>4 DEF Item, Written, InAnswer
      <4>6. out' = [out EXCEPT ![c] = Append(@, w)]
        BY <3>3, <4>4 DEF StreamData
      <4>7. w.k = Len(out[c]) /\ w.k <= BodyLen[c] /\ Len(out[c]) # 0
        BY <1>0, <4>1, <4>3, <4>5
      <4> QED
        BY <4>5, <4>6, <4>7
    <3> QED
      BY <1>13, <3>2, <3>3
  <2>2. AnswerOnly(out[c]) /\ Ordered(out[c], BodyLen[c])
    <3>1. pc[c] \in {"header", "stream"}
      BY <1>13 DEF StartResponse, StreamData, Goes
    <3> QED
      BY <1>0, <3>1, EmptyInOrder DEF OutInOrder
  <2>3. /\ out'[c] = Append(out[c], w)
        /\ Ordered(Append(out[c], w), BodyLen[c]) /\ AnswerOnly(Append(out[c], w))
        /\ Append(out[c], w) # <<>>
    <3>1. out'[c] = Append(out[c], w)
      BY <1>0, <2>1
    <3>2. Ordered(Append(out[c], w), BodyLen[c]) /\ AnswerOnly(Append(out[c], w))
      BY <1>0, <2>1, <2>2, WriteOrdered
    <3>3. Append(out[c], w) # <<>>
      BY <1>0, <2>1
    <3> QED
      BY <3>1, <3>2, <3>3
  <2>4. pc'[c] \in {"stream", "overdue"} /\ broke'[c] = broke[c]
    BY <1>0, <1>13 DEF StartResponse, StreamData, Goes
  <2>5. Ordered(out[c], BodyLen[c])' /\ AnswerOnly(out[c])' /\ ~Closed(c)'
    BY <2>3 DEF Ordered, AnswerOnly, InAnswer, Closed
  <2> QED
    BY <2>3, <2>4, <2>5 DEF OutInOrder
<1>14. CASE StreamBreaks(c)
  <2>0. /\ pc[c] = "stream" /\ pc'[c] = "terminate" /\ out' = out
        /\ broke'[c] = Head(queue[c]).type
        /\ queue[c] # <<>>
    BY <1>0, <1>14 DEF StreamBreaks, Goes, Takes
  <2>1. AnswerOnly(out[c]) /\ Ordered(out[c], BodyLen[c]) /\ out[c] # <<>>
    BY <1>0, <2>0 DEF OutInOrder
  <2>2. Head(queue[c]).type = "end" => Len(out[c]) = BodyLen[c] + 1
    <3>1. queue[c][1] = Head(queue[c]) /\ 1 \in DOMAIN queue[c]
      BY <1>0, <2>0, TailHolds
    <3>2. Head(queue[c]).origin = c
      BY <3>1 DEF OwnResponse
    <3>3. Live(c)
      BY <2>0 DEF Live
    <3>4. /\ Placed(Head(queue[c]))
          /\ Head(queue[c]).type # "error" => Head(queue[c]).k = Len(out[c])
      BY <1>0, <2>0, <3>3, TakeContinues DEF QueueInOrder
    <3> QED
      BY <3>2, <3>4 DEF Placed
  <2>3. Ordered(out[c], BodyLen[c])' /\ AnswerOnly(out[c])' /\ ~Closed(c)'
    BY <2>0, <2>1 DEF Ordered, AnswerOnly, InAnswer, Closed
  <2> QED
    BY <2>0, <2>1, <2>2, <2>3 DEF OutInOrder
<1>15. CASE Goes(c, "terminate", "pop") /\ Write(c, "terminator", 0) /\ broke' = broke
  <2>0. PICK w : w = [what |-> "terminator", origin |-> c, k |-> 0]
    OBVIOUS
  <2>1. w \in Written /\ ~InAnswer(w)
    BY <2>0 DEF Written, InAnswer
  <2>2. /\ pc[c] = "terminate" /\ pc'[c] = "pop" /\ broke'[c] = broke[c]
        /\ out'[c] = Append(out[c], w)
    BY <1>0, <1>15, <2>0 DEF Goes, Write
  <2>3. /\ AnswerOnly(out[c]) /\ Ordered(out[c], BodyLen[c])
        /\ broke[c] = "end" => Len(out[c]) = BodyLen[c] + 1
    BY <1>0, <2>2 DEF OutInOrder
  <2>4. Ordered(out'[c], BodyLen[c]) /\ Len(out'[c]) = Len(out[c]) + 1
    BY <1>0, <2>1, <2>2, <2>3, WriteOrdered
  <2>5. Ordered(out[c], BodyLen[c])'
    BY <2>4 DEF Ordered, InAnswer
  <2>6. broke[c] = "end" => Len(out'[c]) = BodyLen[c] + 2
    BY <1>0, <2>3, <2>4
  <2> QED
    BY <2>2, <2>5, <2>6 DEF OutInOrder
<1>16. CASE Goes(c, "terminate", "except") /\ out' = out /\ broke' = broke
  BY <1>0, <1>1, <1>16 DEF Goes
<1>17. CASE Except(c) \/ Urllib(c)
  <2>1. /\ pc[c] \in {"except", "urllib"} /\ pc'[c] = "done" /\ broke'[c] = broke[c]
        /\ AnswerOnly(out[c]) /\ Ordered(out[c], BodyLen[c])
    BY <1>0, <1>17, EmptyInOrder DEF Except, Urllib, Goes, OutInOrder
  <2>2. CASE out' = out
    BY <1>0, <1>1, <2>1, <2>2
  <2>3. ASSUME NEW what \in {"bad_gateway", "direct"}, Write(c, what, 0)
        PROVE  OutInOrder(c)'
    <3>0. PICK w : w = [what |-> what, origin |-> c, k |-> 0]
      OBVIOUS
    <3>1. w \in Written /\ ~InAnswer(w) /\ w.what # "terminator"
      BY <3>0 DEF Written, InAnswer
    <3>2. out'[c] = Append(out[c], w)
      BY <1>0, <2>3, <3>0 DEF Write
    <3>3. Ordered(out'[c], BodyLen[c])
      BY <1>0, <2>1, <3>1, <3>2, WriteOrdered
    <3>4. Ordered(out[c], BodyLen[c])'
      BY <3>3 DEF Ordered, InAnswer
    <3>5. ~Closed(c)'
      <4>1. \A i \in DOMAIN Append(out[c], w) :
              (i \in DOMAIN out[c] /\ Append(out[c], w)[i] = out[c][i])
                \/ Append(out[c], w)[i] = w
        BY <1>0, <3>1, AppendHolds
      <4> QED
        BY <2>1, <3>1, <3>2, <4>1 DEF Closed, AnswerOnly, InAnswer
    <3> QED
      BY <2>1, <3>4, <3>5 DEF OutInOrder
  <2> QED
    BY <1>17, <2>2, <2>3 DEF Except, Urllib
<1> QED
  BY <1>3, <1>4, <1>5, <1>6, <1>7, <1>8, <1>9, <1>10, <1>11, <1>12, <1>13,
     <1>14, <1>15, <1>16, <1>17 DEF CallStep, Terminate

(* A step of a call removes no handler but its own. *)
LEMMA CallKeepsHandlers ==
  ASSUME TypeOK, IInv, NEW c \in Calls, Start(c) \/ CallStep(c)
  PROVE  \A d \in pending :
           d \in pending' \/ (d = c /\ pc'[c] \notin {"send", "header", "stream"})
<1>1. pending \subseteq Calls /\ pc \in [Calls -> PCs]
  BY AnswerTypes
<1>2. ASSUME NEW d \in pending, rid[c] = rid[d]
      PROVE  d = c
  BY <1>1, <1>2 DEF IInv, IdsUnique, IdsAllocated
<1>3. CASE Register(c)
  BY <1>1, <1>2, <1>3 DEF Register
<1>4. CASE Pop(c)
  BY <1>1, <1>2, <1>4 DEF Pop, Goes
<1>5. CASE UNCHANGED pending
  BY <1>5
<1> QED
  BY <1>3, <1>4, <1>5 DEF Start, CallStep, Alloc, SendNext, HeaderTimeout,
     StartResponse, StartFails, StreamData, StreamFails, StreamBreaks, GetTimesOut,
     Overdue, Terminate, Except, Urllib, OnlyThisCall

(* The table still holds the call, and what the reader told it is not lost. *)
LEMMA CallKeepsTable ==
  ASSUME TypeOK, IInv, AnswerInv, NEW c \in Calls, Start(c) \/ CallStep(c),
         CallMoves(c)
  PROVE  TableHolds'
<1>0. /\ UNCHANGED <<stdin, portOpen, told, reader, notify>>
      /\ \A d \in Calls \ {c} :
           pc'[d] = pc[d] /\ queue'[d] = queue[d] /\ rid'[d] = rid[d]
      /\ TableHolds
  BY DEF CallMoves, AnswerInv
<1>1. ASSUME reader # "done", NEW d \in Calls, pc'[d] \in {"send", "header", "stream"}
      PROVE  d \in pending'
  <2>1. d \in pending \/ d \in pending'
    <3>1. CASE d # c
      BY <1>0, <1>1, <3>1 DEF TableHolds
    <3>2. CASE d = c
      <4>1. pc[c] \in {"send", "header", "stream"} \/ c \in pending'
        BY <1>1, <3>2 DEF CallMoves
      <4> QED
        BY <1>0, <1>1, <3>2, <4>1 DEF TableHolds
    <3> QED
      BY <3>1, <3>2
  <2> QED
    BY <1>1, <2>1, CallKeepsHandlers
<1>2. ASSUME NEW d \in Calls, pc'[d] \in {"header", "stream"}, told[d]
      PROVE  /\ pc[d] \in {"header", "stream"} /\ rid'[d] = rid[d]
             /\ ~Unended(queue[d]) => ~Unended(queue'[d])
  <2>1. CASE d # c
    BY <1>0, <1>2, <2>1
  <2>2. CASE d = c
    <3>1. Asked(c)
      BY <1>2, <2>2 DEF AnswerInv, AskedFirst
    <3>2. pc[c] \in {"header", "stream"} /\ rid'[c] = rid[c] /\ Live(c)'
      BY <1>2, <2>2, <3>1 DEF CallMoves, Asked, Live
    <3>3. queue[c] \in Seq(Item)
      BY AnswerTypes
    <3>4. \/ queue'[c] = queue[c]
          \/ /\ queue[c] # <<>> /\ queue'[c] = Tail(queue[c])
             /\ Head(queue[c]).type \in {"response", "chunk"}
      BY <3>2 DEF CallMoves
    <3>5. ~Unended(queue[c]) => ~Unended(queue'[c])
      BY <3>3, <3>4, TakeContinues
    <3> QED
      BY <2>2, <3>2, <3>5
  <2> QED
    BY <2>1, <2>2
<1>3. \A d \in Calls : Unended(queue[d])' = Unended(queue'[d])
  BY DEF Unended, Final
<1> QED
  BY <1>0, <1>1, <1>2, <1>3 DEF TableHolds

(* Every step of a call keeps the invariant. *)
LEMMA CallKeepsAnswers ==
  ASSUME TypeOK, TypeOK', IInv, AnswerInv, NEW c \in Calls, Start(c) \/ CallStep(c),
         UNCHANGED extVars
  PROVE  AnswerInv'
<1>1. CallMoves(c)
  BY CallStepMoves
<1>2. AskedFirst' /\ FetchesInOrder' /\ AnswersInOrder'
  BY <1>1, MoveKeepsAnswers DEF AnswerInv
<1>3. \A d \in Calls \ {c} : QueueInOrder(d)' /\ OutInOrder(d)'
  BY <1>1, OthersKeepOrder DEF AnswerInv
<1>4. QueueInOrder(c)'
  BY <1>1, MoveKeepsQueue
<1>5. OutInOrder(c)'
  BY CallKeepsOut DEF IInv
<1>6. TableHolds'
  BY <1>1, CallKeepsTable
<1> QED
  BY <1>2, <1>3, <1>4, <1>5, <1>6 DEF AnswerInv

---------------------------------------------------------------------------
(* The steps of the threads of nm.py. *)

(* A step that no answer takes part in. *)
LEMMA NothingAnswered ==
  ASSUME AnswerInv, UNCHANGED <<stdin, fetches, pc, queue, told, out, broke>>,
         \/ ~portOpen'
         \/ /\ UNCHANGED <<portOpen, assembling>>
            /\ \A i \in DOMAIN Requests' :
                 \E j \in DOMAIN Requests : Requests'[i] = Requests[j],
         TableHolds'
  PROVE  AnswerInv'
<1>1. /\ \A c \in Calls : Asked(c)' = Asked(c) /\ Live(c)' = Live(c)
      /\ \A c \in Calls : Expected(c)' = Expected(c)
      /\ \A c \in Calls : Unanswered(c)' = Unanswered(c)
      /\ \A c \in Calls : Closed(c)' = Closed(c)
  BY DEF Asked, Live, Expected, Unanswered, Closed
<1>2. AskedFirst'
  <2>1. ASSUME portOpen'
        PROVE  portOpen /\ \A c \in Calls : Requesting(c)' => Requesting(c)
    BY <1>1, <2>1 DEF Requesting
  <2> QED
    BY <1>1, <2>1 DEF AnswerInv, AskedFirst
<1>3. FetchesInOrder'
  <2>1. \A f \in fetches : InPosition(f)' = InPosition(f)
    BY DEF InPosition, Unended, Final, Position, Live, Expected, Carries
  <2>2. portOpen' => portOpen
    OBVIOUS
  <2> QED
    BY <2>1, <2>2 DEF AnswerInv, FetchesInOrder
<1>4. AnswersInOrder'
  BY <1>1 DEF AnswerInv, AnswersInOrder, AllPlaced, Placed, Increasing, Final,
     Unended, Preceded
<1>5. \A c \in Calls : QueueInOrder(c)'
  BY <1>1 DEF AnswerInv, QueueInOrder, AllPlaced, Placed, ErrorsLast, Final,
     Continues, HasHead, OnlyErrors
<1>6. \A c \in Calls : OutInOrder(c)'
  BY <1>1 DEF AnswerInv, OutInOrder, Ordered, AnswerOnly, InAnswer
<1> QED
  BY <1>2, <1>3, <1>4, <1>5, <1>6 DEF AnswerInv

(* The writer thread, and the steps of the reader thread that touch no      *)
(* queue.                                                                   *)
LEMMA ThreadKeepsAnswers ==
  ASSUME TypeOK, AnswerInv, UNCHANGED extVars,
         \/ WriterStep \/ WriterFails \/ ReaderStart \/ ReaderStops \/ ReaderClears
         \/ \E c \in waking : SetEvent(c)
  PROVE  AnswerInv'
<1> USE DEF callVars, extVars, channelVars
<1>1. \A c \in Calls : Unended(queue[c])' = Unended(queue'[c])
  BY DEF Unended, Final
<1>2. CASE WriterStep \/ WriterFails
  <2>1. UNCHANGED <<stdin, fetches, pc, queue, told, out, broke, rid, portOpen,
                    assembling, pending, reader, notify>>
    BY <1>2, ToldMoves DEF WriterStep, WriterFails
  <2>2. TableHolds'
    BY <1>1, <2>1 DEF AnswerInv, TableHolds
  <2>3. WriterStep => Requests' = Requests
    BY RequestTypes, PipesJoined DEF WriterStep, Requests
  <2>4. WriterFails => Requests = stdout \o sendQueue /\ Requests' = stdout
    BY DEF WriterFails, Requests
  <2>5. \A i \in DOMAIN stdout :
          i \in DOMAIN (stdout \o sendQueue) /\ (stdout \o sendQueue)[i] = stdout[i]
    BY RequestTypes, PrefixInOrder
  <2>6. \A i \in DOMAIN Requests' : \E j \in DOMAIN Requests : Requests'[i] = Requests[j]
    BY <1>2, <2>3, <2>4, <2>5
  <2> QED
    BY <2>1, <2>2, <2>6, NothingAnswered
<1>3. CASE \/ ReaderStart \/ ReaderStops \/ ReaderClears
           \/ \E c \in waking : SetEvent(c)
  <2>0. UNCHANGED <<stdin, fetches, pc, queue, out, broke, rid, portOpen,
                    assembling, stdout, sendQueue, writerUp>>
    BY <1>3 DEF ReaderStart, ReaderStops, ReaderClears, SetEvent
  <2>1. told' = told
    <3>1. CASE ReaderStart \/ ReaderStops \/ ReaderClears
      BY <3>1, ToldMoves DEF ReaderStart, ReaderStops, ReaderClears
    <3>2. ASSUME NEW c \in waking, SetEvent(c)
          PROVE  told' = told
      <4>1. \A d \in Calls : evt'[d] \/ d \in waking' <=> evt[d] \/ d \in waking
        BY <3>2 DEF SetEvent, TypeOK, HostTypeOK
      <4>2. \A d \in Calls : told'[d] <=> told[d]
        BY <4>1, ToldMoves
      <4> QED
        BY <4>2, Zenon DEF told, Told
    <3> QED
      BY <1>3, <3>1, <3>2
  <2>2. ReaderStart => TableHolds'
    BY <1>1, <2>1 DEF ReaderStart, AnswerInv, TableHolds
  <2>3. ReaderStops => TableHolds'
    BY <1>1, <2>1 DEF ReaderStops, AnswerInv, TableHolds
  <2>4. ReaderClears => TableHolds'
    BY <1>1, <2>1 DEF ReaderClears, AnswerInv, TableHolds
  <2>5. (\E c \in waking : SetEvent(c)) => TableHolds'
    BY <1>1, <2>1 DEF SetEvent, AnswerInv, TableHolds
  <2>6. Requests' = Requests
    BY <2>0 DEF Requests
  <2> QED
    BY <1>3, <2>0, <2>1, <2>2, <2>3, <2>4, <2>5, <2>6, NothingAnswered
<1> QED
  BY <1>2, <1>3

(* A handler that is given what comes next. *)
LEMMA PutKeepsOrder ==
  ASSUME TypeOK, NEW c \in Calls, QueueInOrder(c), OutInOrder(c),
         NEW e \in Item, Placed(e),
         Unended(queue[c]) \/ e.type = "error",
         Live(c) /\ e.type # "error" => e.k = Expected(c),
         Asked(c) \/ e.type = "error",
         UNCHANGED <<pc, out, broke>>,
         queue'[c] = Append(queue[c], e),
         told'[c] <=> told[c] \/ e.type = "response"
  PROVE  QueueInOrder(c)' /\ OutInOrder(c)'
<1>0. queue[c] \in Seq(Item) /\ Len(out[c]) \in Nat
  BY AnswerTypes
<1>1. /\ Live(c)' = Live(c) /\ Asked(c)' = Asked(c) /\ Closed(c)' = Closed(c)
  BY DEF Live, Asked, Closed
<1>2. AllPlaced(Append(queue[c], e)) /\ ErrorsLast(Append(queue[c], e))
  BY <1>0, PutContinues DEF QueueInOrder
<1>3. Live(c) => Continues(Append(queue[c], e), Len(out[c]))
  BY <1>0, PutContinues DEF QueueInOrder, Expected
<1>4. HasHead(Append(queue[c], e)) <=> HasHead(queue[c]) \/ e.type = "response"
  BY <1>0, PutContinues
<1>5. ~Asked(c) => OnlyErrors(Append(queue[c], e))
  BY <1>0, PutContinues DEF QueueInOrder
<1>6. QueueInOrder(c)'
  <2>1. AllPlaced(queue[c])' /\ ErrorsLast(queue[c])'
    BY <1>2 DEF AllPlaced, Placed, ErrorsLast, Final
  <2>2. Live(c)' => Continues(queue[c], Len(out[c]))'
    BY <1>1, <1>3 DEF Continues
  <2>3. pc'[c] = "header" => (told'[c] <=> HasHead(queue[c])')
    BY <1>4 DEF QueueInOrder, HasHead
  <2>4. pc'[c] = "stream" => told'[c]
    BY DEF QueueInOrder
  <2>5. ~Asked(c)' => OnlyErrors(queue[c])'
    BY <1>1, <1>5 DEF OnlyErrors
  <2> QED
    BY <2>1, <2>2, <2>3, <2>4, <2>5 DEF QueueInOrder
<1>7. OutInOrder(c)'
  BY <1>1 DEF OutInOrder, Ordered, AnswerOnly, InAnswer
<1> QED
  BY <1>6, <1>7

(* What neither the handler of c nor c itself has touched is as it was. *)
LEMMA UntouchedKeepsOrder ==
  ASSUME NEW c \in Calls, QueueInOrder(c), OutInOrder(c),
         UNCHANGED <<pc, out, broke>>, queue'[c] = queue[c], told'[c] = told[c]
  PROVE  QueueInOrder(c)' /\ OutInOrder(c)'
<1>1. /\ Live(c)' = Live(c) /\ Asked(c)' = Asked(c) /\ Closed(c)' = Closed(c)
  BY DEF Live, Asked, Closed
<1>2. QueueInOrder(c)'
  BY <1>1 DEF QueueInOrder, AllPlaced, Placed, ErrorsLast, Final, Continues,
     HasHead, OnlyErrors
<1>3. OutInOrder(c)'
  BY <1>1 DEF OutInOrder, Ordered, AnswerOnly, InAnswer
<1> QED
  BY <1>2, <1>3

(* The reader thread notifies a call that the connection is gone. *)
LEMMA NotifyKeepsAnswers ==
  ASSUME TypeOK, IInv, AnswerInv, UNCHANGED extVars, NEW id \in notify, Notify(id)
  PROVE  AnswerInv'
<1>0. /\ UNCHANGED <<stdin, stdout, portOpen, fetches, assembling, sendQueue,
                     writerUp, pending, reader, pc, rid, broke, out>>
      /\ reader = "notifying" /\ ~portOpen /\ stdin = <<>>
      /\ notify' = notify \ {id}
      /\ queue \in [Calls -> Seq(Item)]
      /\ \A c \in Calls : QueueInOrder(c) /\ OutInOrder(c)
  BY AnswerTypes DEF Notify, channelVars, extVars, AnswerInv, TableHolds
<1> DEFINE found == {c \in pending : rid[c] = id}
           e(c) == [type |-> "error", origin |-> c, k |-> 0]
<1>1. \A c, d \in found : c = d
  BY AnswerTypes DEF IInv, IdsUnique, IdsAllocated
<1>2. /\ told' = told
      /\ \A c \in Calls :
           \/ c \in found /\ queue'[c] = Append(queue[c], e(c))
           \/ c \notin found /\ queue'[c] = queue[c]
  <2>1. CASE found = {} /\ UNCHANGED <<queue, waking, evt>>
    BY <2>1, ToldMoves
  <2>2. ASSUME NEW c \in found, Handler(c, [type |-> "error", id |-> id, origin |-> c, k |-> 0])
        PROVE  /\ queue' = [queue EXCEPT ![c] = Append(@, e(c))]
               /\ UNCHANGED <<evt, waking>>
    BY <2>2 DEF Handler, Queued
  <2>3. found \subseteq Calls
    BY AnswerTypes
  <2> HIDE DEF e
  <2>4. ASSUME NEW c \in found, Handler(c, [type |-> "error", id |-> id, origin |-> c, k |-> 0])
        PROVE  /\ told' = told
               /\ \A d \in Calls :
                    \/ d \in found /\ queue'[d] = Append(queue[d], e(d))
                    \/ d \notin found /\ queue'[d] = queue[d]
    <3> HIDE DEF found
    <3> QED
      BY <1>0, <1>1, <2>2, <2>3, <2>4, ToldMoves
  <2> QED
    BY <2>1, <2>4 DEF Notify
<1>3. \A c \in Calls : e(c) \in Item /\ Placed(e(c)) /\ e(c).type = "error"
  BY DEF Item, Placed
<1> HIDE DEF e
<1>4. \A c \in Calls : QueueInOrder(c)' /\ OutInOrder(c)'
  <2> SUFFICES ASSUME NEW c \in Calls
               PROVE  QueueInOrder(c)' /\ OutInOrder(c)'
    OBVIOUS
  <2>1. CASE queue'[c] = Append(queue[c], e(c))
    BY <1>0, <1>2, <1>3, <2>1, PutKeepsOrder
  <2>2. CASE queue'[c] = queue[c]
    BY <1>0, <1>2, <2>2, UntouchedKeepsOrder
  <2> QED
    BY <1>2, <2>1, <2>2
<1>5. \A c \in Calls : /\ told'[c] = told[c]
                       /\ ~Unended(queue[c]) => ~Unended(queue'[c])
                       /\ c \in found => ~Unended(queue'[c])
  <2>1. \A c \in Calls : ~Unended(Append(queue[c], e(c)))
    BY <1>0, <1>3, PutContinues DEF Final
  <2> QED
    BY <1>2, <2>1
<1>6. AskedFirst' /\ FetchesInOrder' /\ AnswersInOrder'
  BY <1>0, <1>5 DEF AnswerInv, AskedFirst, FetchesInOrder, AnswersInOrder, Asked,
     AllPlaced, Increasing
<1>7. TableHolds'
  <2>1. \A c \in Calls : Unended(queue[c])' = Unended(queue'[c])
    BY DEF Unended, Final
  <2>2. ASSUME NEW c \in Calls, pc[c] \in {"header", "stream"}, told'[c]
        PROVE  rid[c] \in notify' \/ ~Unended(queue'[c])
    <3>1. c \in pending /\ (rid[c] \in notify \/ ~Unended(queue[c]))
      BY <1>0, <1>5, <2>2 DEF AnswerInv, TableHolds
    <3> QED
      BY <1>0, <1>5, <3>1
  <2> QED
    BY <1>0, <2>1, <2>2 DEF AnswerInv, TableHolds
<1> QED
  BY <1>4, <1>6, <1>7 DEF AnswerInv

(* The reader thread takes the message e of the answer to c from the pipe  *)
(* and gives it to c, or drops it when c does not need it any more.        *)
Delivers(c, e) ==
  /\ stdin # <<>> /\ stdin' = Tail(stdin)
  /\ Head(stdin).origin = c /\ Head(stdin).k = e.k /\ Head(stdin).type = e.type
  /\ Placed(e)
  /\ Asked(c) /\ Unended(queue[c])
  /\ Live(c) /\ e.type # "error" => e.k = Expected(c)
  /\ \A d \in Calls \ {c} : queue'[d] = queue[d] /\ told'[d] = told[d]
  /\ \/ queue'[c] = Append(queue[c], e) /\ (told'[c] <=> told[c] \/ e.type = "response")
     \/ ~Live(c) /\ queue'[c] = queue[c] /\ told'[c] = told[c]
  /\ reader = "reading"
  /\ UNCHANGED <<stdout, portOpen, fetches, assembling, sendQueue, writerUp, pending,
                 reader, pc, rid, broke, out>>

(* The id of a message leads nm_dispatch to the call it is meant for. *)
LEMMA DispatchDelivers ==
  ASSUME TypeOK, IInv, AnswerInv, UNCHANGED extVars, Dispatch
  PROVE  \E c \in Calls, e \in Item : Delivers(c, e)
<1>0. /\ stdin # <<>> /\ stdin \in Seq(ResponseMessage) /\ stdin' = Tail(stdin)
      /\ queue \in [Calls -> Seq(Item)] /\ evt \in [Calls -> BOOLEAN]
      /\ pending \subseteq Calls
      /\ UNCHANGED <<stdout, portOpen, fetches, assembling, sendQueue, writerUp, pending,
                     reader, pc, rid, broke, out>>
      /\ reader = "reading"
  BY AnswerTypes DEF Dispatch, extVars, TypeOK, HostTypeOK
<1>1. PICK m : m = Head(stdin)
  OBVIOUS
<1>2. 1 \in DOMAIN stdin /\ stdin[1] = m /\ m \in ResponseMessage
  BY <1>0, <1>1, TailHolds
<1>3. PICK c : c = m.origin
  OBVIOUS
<1>4. PICK e : e = [type |-> m.type, origin |-> m.origin, k |-> m.k]
  OBVIOUS
<1>5. c \in Calls /\ e \in Item
  BY <1>2, <1>3, <1>4 DEF ResponseMessage, Message, Item
<1>6. m.id = rid[c] /\ rid[c] # 0
  BY <1>2, <1>3 DEF IInv, MessagesTagged, Tagged
<1>7. \A d \in pending : rid[d] = m.id => d = c
  BY <1>0, <1>5, <1>6 DEF IInv, IdsUnique
<1>8. Asked(c) /\ Unended(queue[c]) /\ Placed(m)
  BY <1>2, <1>3, <1>5 DEF AnswerInv, AskedFirst, AnswersInOrder, AllPlaced
<1>9. Live(c) /\ m.type # "error" => m.k = Expected(c)
  <2>1. ~Preceded(stdin, 1)
    BY <1>0, TailShifts DEF Preceded
  <2> QED
    BY <1>2, <1>3, <1>5, <2>1 DEF AnswerInv, AnswersInOrder
<1>10. Placed(e) /\ e.k = m.k /\ e.type = m.type
  BY <1>4, <1>8 DEF Placed
<1>11. /\ \A d \in Calls \ {c} : queue'[d] = queue[d] /\ told'[d] = told[d]
       /\ \/ queue'[c] = Append(queue[c], e)
             /\ (told'[c] <=> told[c] \/ e.type = "response")
          \/ ~Live(c) /\ queue'[c] = queue[c] /\ told'[c] = told[c]
  <2>1. CASE \E d \in pending : rid[d] = m.id /\ Handler(d, m)
    <3>1. Handler(c, m)
      BY <1>7, <2>1
    <3>2. /\ queue' = [queue EXCEPT ![c] = Append(@, e)]
          /\ waking' = IF m.type = "response" THEN waking \cup {c} ELSE waking
          /\ evt' = evt
      BY <1>4, <3>1 DEF Handler, Queued
    <3>3. queue'[c] = Append(queue[c], e) /\ \A d \in Calls \ {c} : queue'[d] = queue[d]
      BY <1>0, <1>5, <3>2
    <3>4. /\ \A d \in Calls \ {c} : d \in waking' <=> d \in waking
          /\ c \in waking' <=> c \in waking \/ e.type = "response"
      BY <1>10, <3>2
    <3>5. /\ \A d \in Calls \ {c} : told'[d] <=> told[d]
          /\ told'[c] <=> told[c] \/ e.type = "response"
      BY <1>5, <3>2, <3>4, ToldMoves
    <3>6. told \in [Calls -> BOOLEAN] /\ told' \in [Calls -> BOOLEAN]
      BY Zenon DEF told, Told
    <3>7. \A d \in Calls \ {c} : told'[d] = told[d]
      BY <3>5, <3>6
    <3> QED
      BY <3>3, <3>5, <3>7
  <2>2. CASE {d \in pending : rid[d] = m.id} = {} /\ UNCHANGED <<queue, waking, evt>>
    <3>1. c \notin pending
      BY <1>6, <2>2
    <3>2. ~Live(c)
      BY <1>0, <1>5, <1>8, <3>1 DEF AnswerInv, TableHolds, Live, Asked
    <3> QED
      BY <2>2, <3>2, ToldMoves
  <2> QED
    BY <1>1, <2>1, <2>2 DEF Dispatch
<1> QED
  BY <1>0, <1>1, <1>3, <1>5, <1>8, <1>9, <1>10, <1>11 DEF Delivers

(* What is behind the message that is delivered is still in its place. *)
LEMMA DeliverKeepsAnswers ==
  ASSUME TypeOK, AnswerInv, NEW c \in Calls, NEW e \in Item, Delivers(c, e)
  PROVE  AskedFirst' /\ FetchesInOrder' /\ AnswersInOrder'
<1>0. /\ stdin # <<>> /\ stdin \in Seq(ResponseMessage) /\ stdin' = Tail(stdin)
      /\ Head(stdin).origin = c /\ Head(stdin).k = e.k /\ Head(stdin).type = e.type
      /\ e.k \in Nat
      /\ UNCHANGED <<portOpen, fetches, assembling, Requests, pc, out>>
      /\ \A d \in Calls \ {c} : queue'[d] = queue[d] /\ told'[d] = told[d]
      /\ Asked(c) /\ Unended(queue[c])
      /\ queue[c] \in Seq(Item)
  BY AnswerTypes DEF Delivers, Requests, Item
<1>1. /\ \A i \in DOMAIN Tail(stdin) :
           i \in Nat /\ i + 1 \in DOMAIN stdin /\ Tail(stdin)[i] = stdin[i + 1]
      /\ 1 \in DOMAIN stdin /\ Head(stdin) = stdin[1]
  BY <1>0, TailShifts
<1>2. /\ \A d \in Calls : Asked(d)' = Asked(d) /\ Live(d)' = Live(d)
      /\ \A d \in Calls \ {c} : Expected(d)' = Expected(d)
      /\ \A d \in Calls : Requesting(d)' = Requesting(d)
  BY <1>0 DEF Asked, Live, Expected, Requesting
<1>3. Live(c) => Expected(c)' = Expected(c) + 1
  <2>1. Len(out[c]) + Len(Append(queue[c], e)) = Len(out[c]) + Len(queue[c]) + 1
    BY <1>0, AnswerTypes
  <2> QED
    BY <1>0, <2>1 DEF Delivers, Expected
<1>4. e.type \notin {"end", "error"} => Unended(queue'[c])
  <2>1. Unended(Append(queue[c], e)) <=> Unended(queue[c]) /\ ~Final(e)
    BY <1>0, PutContinues
  <2> QED
    BY <1>0, <2>1 DEF Delivers, Final
<1>5. AskedFirst'
  <2>1. \A d \in Calls : Unanswered(d) => Unanswered(d)'
    <3> SUFFICES ASSUME NEW d \in Calls, Unanswered(d)
                 PROVE  Unanswered(d)'
      OBVIOUS
    <3>1. d # c
      BY <1>0, <1>1 DEF Unanswered
    <3> QED
      BY <1>0, <1>1, <3>1 DEF Unanswered
  <2>2. \A d \in Calls : told'[d] => Asked(d)
    BY <1>0 DEF AnswerInv, AskedFirst
  <2>3. \A d \in Calls : \A i \in DOMAIN stdin' : stdin'[i].origin = d => Asked(d)
    BY <1>0, <1>1 DEF AnswerInv, AskedFirst
  <2> QED
    BY <1>0, <1>2, <2>1, <2>2, <2>3 DEF AnswerInv, AskedFirst
<1>6. ASSUME portOpen, NEW f \in fetches
      PROVE  InPosition(f)'
  <2>0. /\ f.origin \in Calls /\ Position(f) \in Nat /\ Position(f)' = Position(f)
        /\ InPosition(f) /\ Expected(f.origin) \in Nat
    BY <1>6, AnswerTypes DEF AnswerInv, FetchesInOrder, Position
  <2>1. Unended(queue'[f.origin])
    BY <1>0, <1>1, <1>4, <2>0 DEF InPosition, Final
  <2>2. \A i \in DOMAIN stdin' :
          stdin'[i].origin = f.origin => ~Final(stdin'[i]) /\ stdin'[i].k < Position(f)
    BY <1>0, <1>1, <2>0 DEF InPosition
  <2>3. ASSUME Live(f.origin)
        PROVE  \/ Position(f) = Expected(f.origin)'
               \/ Carries(Tail(stdin), f.origin, Position(f) - 1)
    <3>1. Position(f) = Expected(f.origin) \/ Carries(stdin, f.origin, Position(f) - 1)
      BY <2>0, <2>3 DEF InPosition
    <3>2. CASE f.origin # c
      <4>1. Carries(stdin, f.origin, Position(f) - 1)
              => Carries(Tail(stdin), f.origin, Position(f) - 1)
        BY <1>0, <3>2, TailCarries
      <4> QED
        BY <1>2, <2>0, <3>1, <3>2, <4>1
    <3>3. CASE f.origin = c
      <4>1. ~Final(stdin[1]) /\ stdin[1].k < Position(f)
        BY <1>0, <1>1, <2>0, <3>3 DEF InPosition
      <4>2. e.k = Expected(c) /\ e.k < Position(f)
        BY <1>0, <1>1, <2>3, <3>3, <4>1 DEF Delivers, Final
      <4>3. Carries(stdin, c, Position(f) - 1)
        BY <2>0, <3>1, <3>3, <4>2
      <4>4. Carries(Tail(stdin), c, Position(f) - 1) \/ e.k = Position(f) - 1
        BY <1>0, <4>3, TailCarries
      <4>5. e.k = Position(f) - 1 => Position(f) = Expected(c) + 1
        BY <1>0, <2>0, <4>2
      <4> QED
        BY <1>3, <2>3, <3>3, <4>4, <4>5
    <3> QED
      BY <3>2, <3>3
  <2>4. Unended(queue[f.origin])' = Unended(queue'[f.origin])
    BY DEF Unended, Final
  <2>5. Live(f.origin)' = Live(f.origin)
    BY <1>2, <2>0
  <2> QED
    BY <1>0, <2>0, <2>1, <2>2, <2>3, <2>4, <2>5 DEF InPosition, Carries, Final
<1>7. FetchesInOrder'
  BY <1>0, <1>6 DEF AnswerInv, FetchesInOrder
<1>8. AllPlaced(Tail(stdin)) /\ Increasing(Tail(stdin))
  BY <1>0, <1>1, TailInOrder DEF AnswerInv, AnswersInOrder, AllPlaced
<1>9. \A i, j \in DOMAIN Tail(stdin) :
        i < j /\ Tail(stdin)[i].origin = Tail(stdin)[j].origin => ~Final(Tail(stdin)[i])
  BY <1>1 DEF AnswerInv, AnswersInOrder
<1>10. ASSUME NEW d \in Calls, NEW i \in DOMAIN Tail(stdin), Tail(stdin)[i].origin = d
       PROVE  /\ Unended(queue'[d])
              /\ Live(d) /\ Tail(stdin)[i].type # "error" =>
                   Tail(stdin)[i].k = Expected(d)' \/ Preceded(Tail(stdin), i)
  <2>0. /\ i + 1 \in DOMAIN stdin /\ Tail(stdin)[i] = stdin[i + 1] /\ 1 < i + 1
        /\ stdin[i + 1].k \in Nat /\ Expected(d) \in Nat
    BY <1>1, AnswerTypes
  <2>1. /\ Unended(queue[d])
        /\ Live(d) /\ stdin[i + 1].type # "error" =>
             stdin[i + 1].k = Expected(d) \/ Preceded(stdin, i + 1)
    BY <1>10, <2>0 DEF AnswerInv, AnswersInOrder
  <2>2. Preceded(stdin, i + 1) =>
          Preceded(Tail(stdin), i) \/ (c = d /\ e.k = Tail(stdin)[i].k - 1)
    BY <1>0, <1>10, TailPreceded
  <2>3. CASE d # c
    BY <1>0, <1>2, <2>0, <2>1, <2>2, <2>3
  <2>4. CASE d = c
    <3>1. ~Final(stdin[1])
      BY <1>0, <1>1, <1>10, <2>0, <2>4 DEF AnswerInv, AnswersInOrder
    <3>2. Unended(queue'[c])
      BY <1>0, <1>1, <1>4, <3>1 DEF Final
    <3>3. e.k < Tail(stdin)[i].k
      BY <1>0, <1>10, <2>4, TailInOrder DEF AnswerInv, AnswersInOrder
    <3>4. Live(c) => e.k = Expected(c)
      BY <1>0, <1>1, <3>1 DEF Delivers, Final
    <3>5. ASSUME Live(c), Tail(stdin)[i].type # "error"
          PROVE  Tail(stdin)[i].k = Expected(c)' \/ Preceded(Tail(stdin), i)
      <4>1. Preceded(stdin, i + 1)
        BY <1>0, <2>0, <2>1, <2>4, <3>3, <3>4, <3>5
      <4>2. e.k = Tail(stdin)[i].k - 1 => Tail(stdin)[i].k = Expected(c) + 1
        BY <1>0, <2>0, <2>4, <3>4, <3>5
      <4> QED
        BY <1>3, <2>2, <3>5, <4>1, <4>2
    <3> QED
      BY <2>4, <3>2, <3>5
  <2> QED
    BY <2>3, <2>4
<1>11. AnswersInOrder'
  <2>1. \A d \in Calls : Unended(queue[d])' = Unended(queue'[d])
    BY DEF Unended, Final
  <2>2. AllPlaced(stdin)' /\ Increasing(stdin)'
    BY <1>0, <1>8 DEF AllPlaced, Placed, Increasing
  <2>3. \A i, j \in DOMAIN stdin' :
          i < j /\ stdin'[i].origin = stdin'[j].origin => ~Final(stdin'[i])
    BY <1>0, <1>9
  <2>4. \A d \in Calls : \A i \in DOMAIN stdin' :
          stdin'[i].origin = d =>
            /\ Unended(queue'[d])
            /\ Live(d) /\ stdin'[i].type # "error" =>
                 stdin'[i].k = Expected(d)' \/ Preceded(Tail(stdin), i)
    BY <1>0, <1>10
  <2> QED
    BY <1>0, <1>2, <2>1, <2>2, <2>3, <2>4 DEF AnswersInOrder, Preceded, Final
<1> QED
  BY <1>5, <1>7, <1>11

(* The reader thread takes a message from the pipe. *)
LEMMA DispatchKeepsAnswers ==
  ASSUME TypeOK, IInv, AnswerInv, UNCHANGED extVars, Dispatch
  PROVE  AnswerInv'
<1>1. PICK c \in Calls, e \in Item : Delivers(c, e)
  BY DispatchDelivers
<1>2. AskedFirst' /\ FetchesInOrder' /\ AnswersInOrder'
  BY <1>1, DeliverKeepsAnswers
<1>3. \A d \in Calls : QueueInOrder(d)' /\ OutInOrder(d)'
  <2>0. UNCHANGED <<pc, out, broke>> /\ \A d \in Calls : QueueInOrder(d) /\ OutInOrder(d)
    BY <1>1 DEF Delivers, AnswerInv
  <2>1. \A d \in Calls \ {c} : QueueInOrder(d)' /\ OutInOrder(d)'
    BY <1>1, <2>0, UntouchedKeepsOrder DEF Delivers
  <2>2. CASE queue'[c] = Append(queue[c], e) /\ (told'[c] <=> told[c] \/ e.type = "response")
    BY <1>1, <2>0, <2>1, <2>2, PutKeepsOrder DEF Delivers
  <2>3. CASE queue'[c] = queue[c] /\ told'[c] = told[c]
    BY <1>1, <2>0, <2>1, <2>3, UntouchedKeepsOrder
  <2> QED
    BY <1>1, <2>2, <2>3 DEF Delivers
<1>4. TableHolds'
  BY <1>1 DEF Delivers, AnswerInv, TableHolds
<1> QED
  BY <1>2, <1>3, <1>4 DEF AnswerInv

---------------------------------------------------------------------------
(* The steps of the extension. *)

(* An entry that the next message starts or grows is one of its call. *)
LEMMA AssemblyKeepsAnswers ==
  ASSUME TypeOK, IInv, RequestInv, AnswerInv, UNCHANGED hostVars,
         HandleRequestStart \/ HandleRequestChunk
  PROVE  AnswerInv'
<1>1. PICK type : Receive(type)
  BY DEF HandleRequestStart, HandleRequestChunk
<1>2. PICK h : h = Head(stdout)
  OBVIOUS
<1>3. /\ UNCHANGED <<stdin, fetches, pc, queue, told, out, broke, rid, portOpen,
                     pending, notify, reader>>
      /\ portOpen /\ sendQueue' = sendQueue /\ writerUp' = writerUp
  BY <1>1, ToldMoves DEF Receive, HandleRequestStart, HandleRequestChunk, hostVars, callVars
<1>4. Requests' = Tail(Requests) /\ Requests # <<>> /\ Requests[1] = h
  <2>1. h = Requests[1] /\ Requests \in Seq(RequestMessage) /\ 1 \in DOMAIN Requests
    BY <1>1, <1>2, ReceivedMessage, RequestTypes
  <2>2. Requests' = Tail(Requests)
    BY <1>1, <1>3, ReceivedMessage
  <2> QED
    BY <2>1, <2>2
<1>5. \A a \in assembling' :
        a.origin = h.origin \/ \E b \in assembling : a.origin = b.origin
  <2>1. CASE HandleRequestStart
    BY <1>2, <2>1 DEF HandleRequestStart
  <2>2. CASE HandleRequestChunk
    <3>1. PICK slice : slice = [origin |-> h.origin, k |-> h.k]
      OBVIOUS
    <3>2. assembling' = {a \in assembling : a.id # h.id}
            \cup {[a EXCEPT !.chunks = Append(@, slice)]
                    : a \in {b \in assembling : b.id = h.id}}
      BY <1>2, <2>2, <3>1 DEF HandleRequestChunk
    <3>3. \A a \in assembling : [a EXCEPT !.chunks = Append(@, slice)].origin = a.origin
      BY DEF TypeOK, ExtTypeOK
    <3> QED
      BY <3>2, <3>3
  <2> QED
    BY <2>1, <2>2
<1>6. \A c \in Calls : Requesting(c)' => Requesting(c)
  <2>1. \A i \in DOMAIN Tail(Requests) :
          i + 1 \in DOMAIN Requests /\ Tail(Requests)[i] = Requests[i + 1]
    BY <1>4, RequestTypes, TailShifts
  <2>2. \A c \in Calls : Asked(c)' = Asked(c)
    BY <1>3 DEF Asked
  <2>3. 1 \in DOMAIN Requests
    BY <1>4, RequestTypes
  <2> QED
    BY <1>4, <1>5, <2>1, <2>2, <2>3 DEF Requesting
<1>7. AskedFirst'
  <2>1. \A c \in Calls : Asked(c)' = Asked(c) /\ Unanswered(c)' = Unanswered(c)
    BY <1>3 DEF Asked, Unanswered
  <2> QED
    BY <1>3, <1>6, <2>1 DEF AnswerInv, AskedFirst
<1>8. FetchesInOrder'
  <2>1. \A f \in fetches : InPosition(f)' = InPosition(f)
    BY <1>3 DEF InPosition, Unended, Final, Position, Live, Expected, Carries
  <2> QED
    BY <1>3, <2>1 DEF AnswerInv, FetchesInOrder
<1>9. AnswersInOrder'
  BY <1>3 DEF AnswerInv, AnswersInOrder, AllPlaced, Placed, Increasing, Final,
     Unended, Preceded, Live, Expected
<1>10. \A c \in Calls : QueueInOrder(c)' /\ OutInOrder(c)'
  BY <1>3, UntouchedKeepsOrder DEF AnswerInv
<1>11. TableHolds'
  BY <1>3 DEF AnswerInv, TableHolds, Unended, Final
<1> QED
  BY <1>7, <1>8, <1>9, <1>10, <1>11 DEF AnswerInv

(* What the end of a request does: no part of the request is left anywhere *)
(* and its fetch, if it starts one, is the only one and has sent nothing.  *)
LEMMA EndStarts ==
  ASSUME TypeOK, IInv, RequestInv, UNCHANGED hostVars, HandleRequestEnd
  PROVE  \E c \in Calls :
           /\ Requesting(c) /\ Asked(c) /\ ~Requesting(c)'
           /\ \A d \in Calls : Requesting(d)' => Requesting(d)
           /\ \A f \in fetches' \ fetches :
                f.origin = c /\ ~f.responded /\ f.sent = 0
           /\ \A f, g \in fetches' \ fetches : f = g
           /\ fetches \subseteq fetches'
           /\ UNCHANGED <<stdin, portOpen>> /\ portOpen
<1>0. Receive("request_end")
  BY DEF HandleRequestEnd
<1>1. PICK h : h = Head(stdout)
  OBVIOUS
<1>2. /\ h = Requests[1] /\ 1 \in DOMAIN Requests /\ RequestsInOrder
      /\ h.origin \in Calls /\ h.k \in Nat /\ h.type = "request_end"
      /\ \A a \in assembling : a.id = h.id <=> a.origin = h.origin
      /\ \A i \in DOMAIN Tail(Requests) :
            /\ \E j \in DOMAIN Requests : Tail(Requests)[i] = Requests[j]
            /\ Tail(Requests)[i].origin = h.origin => h.k < Tail(Requests)[i].k
  BY <1>0, <1>1, ReceivedMessage DEF Receive
<1>3. PICK c \in Calls : c = h.origin
  BY <1>2
<1>4. /\ UNCHANGED <<stdin, pc, sent, portOpen, sendQueue>> /\ portOpen
      /\ Requests' = Tail(Requests)
  <2>1. UNCHANGED <<stdin, pc, sent, portOpen, sendQueue, writerUp>> /\ portOpen
    BY <1>0 DEF Receive, hostVars, callVars
  <2>2. Requests' = Tail(Requests)
    BY <1>0, <2>1, ReceivedMessage
  <2> QED
    BY <2>1, <2>2
<1>5. /\ h.k = ReqLen[c] + 1 /\ sent[c] = ReqLen[c] + 2
      /\ ReqLen[c] \in Nat
  <2>1. Enqueued(h) /\ sent[c] <= ReqLen[c] + 2
    BY <1>2 DEF RequestsInOrder, RequestInv, SentInStep
  <2>2. sent[c] \in Nat /\ ReqLen[c] \in Nat
    BY RequestTypes
  <2>3. h.k > ReqLen[c]
    BY <1>2, <1>3, <2>1, <2>2 DEF Enqueued, ReqMessage
  <2>4. h.k < sent[c]
    BY <1>3, <2>1 DEF Enqueued
  <2> QED
    BY <1>2, <2>1, <2>2, <2>3, <2>4
<1>6. Asked(c) /\ Asked(c)'
  <2>1. pc[c] \notin {"idle", "alloc", "register"}
    BY <1>5 DEF RequestInv, SentInStep
  <2>2. pc[c] # "send"
    BY <1>5 DEF RequestInv, SentInStep
  <2> QED
    BY <1>4, <2>1, <2>2 DEF Asked
<1>7. Requesting(c)
  BY <1>2, <1>3 DEF Requesting
<1>8. assembling' = {a \in assembling : a.origin # c}
  <2>1. assembling' = assembling \ {a \in assembling : a.id = h.id}
    BY <1>1 DEF HandleRequestEnd
  <2> QED
    BY <1>2, <1>3, <2>1
<1>9. ~Requesting(c)'
  <2>1. \A i \in DOMAIN Tail(Requests) : Tail(Requests)[i].origin # c
    <3> SUFFICES ASSUME NEW i \in DOMAIN Tail(Requests), Tail(Requests)[i].origin = c
                 PROVE  FALSE
      OBVIOUS
    <3>1. PICK j \in DOMAIN Requests : Tail(Requests)[i] = Requests[j]
      BY <1>2
    <3>2. Requests[j].k < sent[c] /\ Requests[j].k \in Nat /\ h.k < Requests[j].k
      BY <1>2, <1>3, <3>1, RequestTypes DEF RequestsInOrder, Enqueued
    <3> QED
      BY <1>5, <3>2
  <2> QED
    BY <1>4, <1>6, <1>8, <2>1 DEF Requesting
<1>10. \A d \in Calls : Requesting(d)' => Requesting(d)
  <2>1. \A d \in Calls : Asked(d)' = Asked(d)
    BY <1>4 DEF Asked
  <2>2. \A i \in DOMAIN Requests' : \E j \in DOMAIN Requests : Requests'[i] = Requests[j]
    BY <1>2, <1>4
  <2> QED
    BY <1>8, <2>1, <2>2 DEF Requesting
<1> DEFINE found == {a \in assembling : a.id = h.id}
           Started(a) == [id |-> a.id, origin |-> a.origin, body |-> a.chunks,
                          responded |-> FALSE, sent |-> 0]
<1>11. fetches' = fetches \cup {Started(a) : a \in found}
  BY <1>1 DEF HandleRequestEnd
<1>12. \A a, b \in found : a = b
  BY <1>2 DEF RequestsInOrder, AssembledInOrder
<1>13. \A a \in found : a.origin = c
  BY <1>2, <1>3
<1>14. \A a : Started(a).origin = a.origin /\ ~Started(a).responded /\ Started(a).sent = 0
  OBVIOUS
<1> HIDE DEF found, Started
<1>15. /\ \A f \in fetches' \ fetches : f.origin = c /\ ~f.responded /\ f.sent = 0
       /\ \A f, g \in fetches' \ fetches : f = g
       /\ fetches \subseteq fetches'
  BY <1>11, <1>12, <1>13, <1>14
<1> QED
  BY <1>4, <1>6, <1>7, <1>9, <1>10, <1>15

(* The end of a request starts its fetch. *)
LEMMA EndKeepsAnswers ==
  ASSUME TypeOK, IInv, RequestInv, AnswerInv, UNCHANGED hostVars, HandleRequestEnd
  PROVE  AnswerInv'
<1>1. PICK c \in Calls :
        /\ Requesting(c) /\ Asked(c) /\ ~Requesting(c)'
        /\ \A d \in Calls : Requesting(d)' => Requesting(d)
        /\ \A f \in fetches' \ fetches :
             f.origin = c /\ ~f.responded /\ f.sent = 0
        /\ \A f, g \in fetches' \ fetches : f = g
        /\ fetches \subseteq fetches'
        /\ UNCHANGED <<stdin, portOpen>> /\ portOpen
  BY EndStarts
<1>2. UNCHANGED <<stdin, pc, queue, told, out, broke, rid, portOpen, pending, notify,
                  reader>>
  BY <1>1, ToldMoves DEF hostVars, callVars
<1>3. \A d \in Calls : Asked(d)' = Asked(d) /\ Live(d)' = Live(d) /\ Expected(d)' = Expected(d)
  BY <1>2 DEF Asked, Live, Expected
<1>4. Unanswered(c)
  BY <1>1 DEF AnswerInv, AskedFirst
<1>5. AskedFirst'
  <2>1. ASSUME NEW d \in Calls, Requesting(d)'
        PROVE  Unanswered(d)'
    <3>1. d # c /\ Unanswered(d)
      BY <1>1, <2>1 DEF AnswerInv, AskedFirst
    <3> QED
      BY <1>1, <1>2, <3>1 DEF Unanswered
  <2>2. \A d \in Calls : \A f \in fetches' : f.origin = d => Asked(d)
    BY <1>1 DEF AnswerInv, AskedFirst
  <2> QED
    BY <1>2, <1>3, <2>1, <2>2 DEF AnswerInv, AskedFirst
<1>6. ASSUME NEW f \in fetches' \ fetches
      PROVE  /\ f.origin = c /\ f.sent = 0 /\ f.sent <= BodyLen[f.origin]
             /\ InPosition(f)
  <2>1. f.origin = c /\ f.sent = 0 /\ Position(f) = 0 /\ BodyLen[c] \in Nat
    BY <1>1, AnswerTypes DEF Position
  <2>2. Unended(queue[c]) /\ \A i \in DOMAIN stdin : stdin[i].origin # c
    BY <1>4, EmptyInOrder DEF Unanswered
  <2>3. Live(c) => Expected(c) = 0
    BY <1>4 DEF Unanswered, Live, Expected, AnswerInv, OutInOrder
  <2> QED
    BY <2>1, <2>2, <2>3 DEF InPosition
<1>7. FetchesInOrder'
  <2>1. \A f \in fetches' : InPosition(f)
    BY <1>1, <1>6 DEF AnswerInv, FetchesInOrder
  <2>2. \A f \in fetches' : InPosition(f)' = InPosition(f)
    BY <1>2 DEF InPosition, Unended, Final, Position, Live, Expected, Carries
  <2>3. \A f \in fetches : f.origin # c
    BY <1>4 DEF Unanswered
  <2>4. \A f \in fetches' : f.sent <= BodyLen[f.origin] /\ (f.responded \/ f.sent = 0)
    BY <1>6 DEF AnswerInv, FetchesInOrder
  <2>5. \A f, g \in fetches' : f.origin = g.origin => f = g
    BY <1>1, <1>6, <2>3 DEF AnswerInv, FetchesInOrder
  <2> QED
    BY <2>1, <2>2, <2>4, <2>5 DEF FetchesInOrder
<1>8. AnswersInOrder'
  BY <1>2 DEF AnswerInv, AnswersInOrder, AllPlaced, Placed, Increasing, Final,
     Unended, Preceded, Live, Expected
<1>9. \A d \in Calls : QueueInOrder(d)' /\ OutInOrder(d)'
  BY <1>2, UntouchedKeepsOrder DEF AnswerInv
<1>10. TableHolds'
  BY <1>2 DEF AnswerInv, TableHolds, Unended, Final
<1> QED
  BY <1>5, <1>7, <1>8, <1>9, <1>10 DEF AnswerInv

(* f sends e, the piece at its position or an error, and goes on as one of *)
(* the fetches in G, which has at most one member.                         *)
Sends(f, e, G) ==
  /\ e.origin = f.origin /\ Placed(e)
  /\ Position(f) <= e.k /\ (e.type # "error" => e.k = Position(f))
  /\ stdin' = IF portOpen THEN Append(stdin, e) ELSE stdin
  /\ fetches' = (fetches \ {f}) \cup G
  /\ \A g \in G :
       /\ g.origin = f.origin /\ g.responded /\ g.sent <= BodyLen[g.origin]
       /\ Position(g) = e.k + 1 /\ ~Final(e)
       /\ \A h \in G : g = h
  /\ UNCHANGED <<stdout, portOpen, assembling>>

(* Every step of a fetch sends one message. *)
LEMMA FetchSends ==
  ASSUME TypeOK, AnswerInv, NEW f \in fetches,
         FetchResponds(f) \/ FetchChunk(f) \/ FetchEnds(f) \/ FetchFails(f)
  PROVE  \E e \in ResponseMessage : \E G : Sends(f, e, G)
<1>0. /\ f.origin \in Calls /\ f.sent \in Nat /\ f.responded \in BOOLEAN /\ f.id \in Nat
      /\ BodyLen[f.origin] \in Nat /\ f.sent <= BodyLen[f.origin]
      /\ f.responded \/ f.sent = 0
      /\ f \in [id : Nat, origin : Calls, body : Seq(Slice), responded : BOOLEAN, sent : Nat]
  BY AnswerTypes DEF TypeOK, ExtTypeOK, AnswerInv, FetchesInOrder
<1>1. ASSUME NEW type \in {"response", "chunk", "end", "error"}, NEW k \in Nat,
             SafeSend(type, f, k)
      PROVE  \E e \in ResponseMessage :
               /\ e.type = type /\ e.origin = f.origin /\ e.k = k
               /\ stdin' = IF portOpen THEN Append(stdin, e) ELSE stdin
               /\ UNCHANGED <<stdout, portOpen>>
  <2>1. PICK e : e = [type |-> type, id |-> f.id, origin |-> f.origin, k |-> k]
    OBVIOUS
  <2>2. e \in ResponseMessage /\ e.type = type /\ e.origin = f.origin /\ e.k = k
    BY <1>0, <2>1 DEF ResponseMessage, Message
  <2>3. /\ stdin' = IF portOpen THEN Append(stdin, e) ELSE stdin
        /\ UNCHANGED <<stdout, portOpen>>
    BY <1>1, <2>1 DEF SafeSend
  <2> QED
    BY <2>2, <2>3
<1>2. CASE FetchResponds(f)
  <2>1. PICK e \in ResponseMessage :
          /\ e.type = "response" /\ e.origin = f.origin /\ e.k = 0
          /\ stdin' = IF portOpen THEN Append(stdin, e) ELSE stdin
          /\ UNCHANGED <<stdout, portOpen>>
    BY <1>1, <1>2 DEF FetchResponds
  <2>2. PICK g : g = [f EXCEPT !.responded = TRUE]
    OBVIOUS
  <2>3. g.origin = f.origin /\ g.responded /\ g.sent = f.sent
    BY <1>0, <2>2
  <2>4. fetches' = (fetches \ {f}) \cup {g} /\ assembling' = assembling
    BY <1>2, <2>2 DEF FetchResponds, Becomes
  <2>5. ~f.responded
    BY <1>2 DEF FetchResponds
  <2>6. Sends(f, e, {g})
    BY <1>0, <2>1, <2>3, <2>4, <2>5 DEF Sends, Position, Placed, Final
  <2> QED
    BY <2>6
<1>3. CASE FetchChunk(f)
  <2>1. f.responded /\ f.sent < BodyLen[f.origin]
    BY <1>3 DEF FetchChunk
  <2>2. PICK e \in ResponseMessage :
          /\ e.type = "chunk" /\ e.origin = f.origin /\ e.k = f.sent + 1
          /\ stdin' = IF portOpen THEN Append(stdin, e) ELSE stdin
          /\ UNCHANGED <<stdout, portOpen>>
    BY <1>0, <1>1, <1>3 DEF FetchChunk
  <2>3. PICK g : g = [f EXCEPT !.sent = @ + 1]
    OBVIOUS
  <2>4. g.origin = f.origin /\ g.responded = f.responded /\ g.sent = f.sent + 1
    BY <1>0, <2>3
  <2>5. fetches' = (fetches \ {f}) \cup {g} /\ assembling' = assembling
    BY <1>3, <2>3 DEF FetchChunk, Becomes
  <2>6. /\ f.sent + 1 \in 1 .. BodyLen[f.origin] /\ g.sent <= BodyLen[f.origin]
        /\ Position(f) = f.sent + 1 /\ Position(g) = (f.sent + 1) + 1
    BY <1>0, <2>1, <2>4 DEF Position
  <2>7. Placed(e) /\ ~Final(e) /\ Position(f) <= e.k
    BY <1>0, <2>2, <2>6 DEF Placed, Final
  <2>8. Sends(f, e, {g})
    BY <2>1, <2>2, <2>4, <2>5, <2>6, <2>7 DEF Sends
  <2> QED
    BY <2>8
<1>4. CASE FetchEnds(f)
  <2>1. f.responded /\ f.sent = BodyLen[f.origin]
    BY <1>4 DEF FetchEnds
  <2>2. PICK e \in ResponseMessage :
          /\ e.type = "end" /\ e.origin = f.origin /\ e.k = f.sent + 1
          /\ stdin' = IF portOpen THEN Append(stdin, e) ELSE stdin
          /\ UNCHANGED <<stdout, portOpen>>
    BY <1>0, <1>1, <1>4 DEF FetchEnds
  <2>3. fetches' = (fetches \ {f}) \cup {} /\ assembling' = assembling
    BY <1>4 DEF FetchEnds
  <2>4. Sends(f, e, {})
    BY <1>0, <2>1, <2>2, <2>3 DEF Sends, Position, Placed
  <2> QED
    BY <2>4
<1>5. CASE FetchFails(f)
  <2>1. PICK e \in ResponseMessage :
          /\ e.type = "error" /\ e.origin = f.origin /\ e.k = f.sent + 1
          /\ stdin' = IF portOpen THEN Append(stdin, e) ELSE stdin
          /\ UNCHANGED <<stdout, portOpen>>
    BY <1>0, <1>1, <1>5 DEF FetchFails
  <2>2. fetches' = (fetches \ {f}) \cup {} /\ assembling' = assembling
    BY <1>5 DEF FetchFails
  <2>3. Sends(f, e, {})
    BY <1>0, <2>1, <2>2 DEF Sends, Position, Placed
  <2> QED
    BY <2>3
<1> QED
  BY <1>2, <1>3, <1>4, <1>5

(* The message that f sends is the next one of its answer. *)
LEMMA FetchKeepsAnswers ==
  ASSUME TypeOK, AnswerInv, UNCHANGED hostVars, NEW f \in fetches,
         FetchResponds(f) \/ FetchChunk(f) \/ FetchEnds(f) \/ FetchFails(f)
  PROVE  AnswerInv'
<1>0. PICK e \in ResponseMessage : \E G : Sends(f, e, G)
  BY FetchSends
<1>1. PICK G : Sends(f, e, G)
  BY <1>0
<1>2. /\ UNCHANGED <<pc, queue, told, out, broke, rid, portOpen, pending, notify,
                     reader, assembling, Requests>>
      /\ fetches' = (fetches \ {f}) \cup G
      /\ f.origin \in Calls /\ stdin \in Seq(ResponseMessage)
      /\ \A g \in fetches' : g \in G \/ (g \in fetches /\ g # f)
      /\ \A g \in G : g.origin = f.origin
      /\ e.origin = f.origin /\ e.k \in Nat /\ Position(f) \in Nat
      /\ stdin' = IF portOpen THEN Append(stdin, e) ELSE stdin
  BY <1>1, AnswerTypes, ToldMoves
     DEF hostVars, callVars, Sends, Requests, ResponseMessage, Message
<1>3. \A d \in Calls : /\ Asked(d)' = Asked(d) /\ Live(d)' = Live(d)
                       /\ Expected(d)' = Expected(d) /\ Requesting(d)' = Requesting(d)
  BY <1>2 DEF Asked, Live, Expected, Requesting
<1>4. \A i \in DOMAIN stdin' :
        (i \in DOMAIN stdin /\ stdin'[i] = stdin[i]) \/ (portOpen /\ stdin'[i] = e)
  BY <1>2, AppendHolds
<1>5. portOpen => InPosition(f)
  BY DEF AnswerInv, FetchesInOrder
<1>6. AskedFirst'
  <2>1. ASSUME portOpen, NEW d \in Calls, Requesting(d)
        PROVE  Unanswered(d)'
    <3>1. Unanswered(d) /\ d # f.origin
      BY <2>1 DEF AnswerInv, AskedFirst, Unanswered
    <3> QED
      BY <1>2, <1>4, <3>1 DEF Unanswered
  <2>2. Asked(f.origin)
    BY <1>2 DEF AnswerInv, AskedFirst
  <2>3. \A d \in Calls : \A g \in fetches' : g.origin = d => Asked(d)
    BY <1>2, <2>2 DEF AnswerInv, AskedFirst
  <2>4. \A d \in Calls : \A i \in DOMAIN stdin' : stdin'[i].origin = d => Asked(d)
    BY <1>2, <1>4, <2>2 DEF AnswerInv, AskedFirst
  <2> QED
    BY <1>2, <1>3, <2>1, <2>3, <2>4 DEF AnswerInv, AskedFirst
<1>7. ASSUME portOpen
      PROVE  /\ stdin' = Append(stdin, e)
             /\ \A c, k : Carries(stdin, c, k) => Carries(stdin', c, k)
             /\ Carries(stdin', f.origin, e.k)
             /\ \A i \in DOMAIN stdin : Preceded(stdin, i) => Preceded(stdin', i)
             /\ Carries(stdin, f.origin, e.k - 1) => Preceded(stdin', Len(stdin) + 1)
             /\ DOMAIN stdin' = DOMAIN stdin \cup {Len(stdin) + 1}
             /\ stdin'[Len(stdin) + 1] = e
             /\ \A i \in DOMAIN stdin :
                  i \in Nat /\ i < Len(stdin) + 1 /\ stdin'[i] = stdin[i]
  <2>1. stdin' = Append(stdin, e)
    BY <1>2, <1>7
  <2> QED
    BY <1>2, <2>1, AppendCarries, AppendShifts
<1>8. ASSUME portOpen, NEW g \in fetches'
      PROVE  InPosition(g)'
  <2>0. \A d \in Calls : Unended(queue[d])' = Unended(queue[d])
    BY <1>2 DEF Unended, Final
  <2>1. CASE g \in fetches /\ g # f
    <3>1. InPosition(g) /\ g.origin # f.origin /\ g.origin \in Calls /\ Position(g)' = Position(g)
      BY <1>8, <2>1, AnswerTypes DEF AnswerInv, FetchesInOrder, Position
    <3>2. \A i \in DOMAIN stdin' :
            stdin'[i].origin = g.origin => ~Final(stdin'[i]) /\ stdin'[i].k < Position(g)
      BY <1>2, <1>4, <3>1 DEF InPosition
    <3>3. Live(g.origin)' =>
            \/ Position(g) = Expected(g.origin)'
            \/ Carries(stdin', g.origin, Position(g) - 1)
      BY <1>3, <1>7, <1>8, <3>1 DEF InPosition
    <3> QED
      BY <2>0, <3>1, <3>2, <3>3 DEF InPosition, Carries, Final
  <2>2. CASE g \in G
    <3>1. g.origin = f.origin /\ Position(g) = e.k + 1 /\ ~Final(e) /\ Position(g)' = Position(g)
          /\ Position(f) <= e.k
      BY <1>1, <2>2 DEF Sends, Position
    <3>2. \A i \in DOMAIN stdin : stdin[i].k \in Nat
      BY AnswerTypes
    <3>3. \A i \in DOMAIN stdin' :
            stdin'[i].origin = g.origin => ~Final(stdin'[i]) /\ stdin'[i].k < Position(g)
      <4>1. \A i \in DOMAIN stdin :
              stdin[i].origin = f.origin => ~Final(stdin[i]) /\ stdin[i].k < Position(f)
        BY <1>5, <1>8 DEF InPosition
      <4>2. \A n \in Nat : n < Position(f) => n < e.k + 1
        BY <1>2, <3>1
      <4>3. e.k < e.k + 1
        BY <1>2
      <4> QED
        BY <1>4, <3>1, <3>2, <4>1, <4>2, <4>3
    <3>4. Carries(stdin', g.origin, Position(g) - 1)
      <4>1. Position(g) - 1 = e.k
        BY <1>2, <3>1
      <4> QED
        BY <1>7, <1>8, <3>1, <4>1
    <3>5. Unended(queue[g.origin])'
      BY <1>2, <1>5, <1>8, <2>0, <3>1 DEF InPosition
    <3> QED
      BY <3>1, <3>3, <3>4, <3>5 DEF InPosition, Carries, Final
  <2> QED
    BY <1>2, <2>1, <2>2
<1>9. FetchesInOrder'
  <2>1. \A g \in fetches' : g.sent <= BodyLen[g.origin] /\ (g.responded \/ g.sent = 0)
    BY <1>1, <1>2 DEF AnswerInv, FetchesInOrder, Sends
  <2>2. \A g, h \in fetches' : g.origin = h.origin => g = h
    <3>1. \A g, h \in G : g = h
      BY <1>1 DEF Sends
    <3> QED
      BY <1>2, <3>1 DEF AnswerInv, FetchesInOrder
  <2> QED
    BY <1>2, <1>8, <2>1, <2>2 DEF FetchesInOrder
<1>10. AnswersInOrder'
  <2>0. \A d \in Calls : Unended(queue[d])' = Unended(queue[d])
    BY <1>2 DEF Unended, Final
  <2>1. CASE ~portOpen
    BY <1>2, <1>3, <2>0, <2>1 DEF AnswerInv, AnswersInOrder, AllPlaced, Placed,
       Increasing, Final, Preceded
  <2>2. CASE portOpen
    <3>1. AllPlaced(stdin')
      BY <1>1, <1>4 DEF AnswerInv, AnswersInOrder, AllPlaced, Sends
    <3>2. Increasing(Append(stdin, e))
      <4>1. \A i \in DOMAIN stdin : stdin[i].origin = e.origin => stdin[i].k < e.k
        <5>1. \A i \in DOMAIN stdin : stdin[i].k \in Nat
          BY AnswerTypes
        <5>2. Position(f) <= e.k
          BY <1>1 DEF Sends
        <5> QED
          BY <1>2, <1>5, <2>2, <5>1, <5>2 DEF InPosition
      <4> QED
        BY <1>2, <4>1, AppendInOrder DEF AnswerInv, AnswersInOrder
    <3>3. \A i, j \in DOMAIN stdin' :
            i < j /\ stdin'[i].origin = stdin'[j].origin => ~Final(stdin'[i])
      <4>1. \A i \in DOMAIN stdin : stdin[i].origin = e.origin => ~Final(stdin[i])
        BY <1>2, <1>5, <2>2 DEF InPosition
      <4>2. Len(stdin) + 1 \in Nat
        BY <1>2
      <4> QED
        BY <1>7, <2>2, <4>1, <4>2 DEF AnswerInv, AnswersInOrder
    <3>4. ASSUME NEW d \in Calls, NEW i \in DOMAIN stdin', stdin'[i].origin = d
          PROVE  /\ Unended(queue[d])
                 /\ Live(d) /\ stdin'[i].type # "error" =>
                      stdin'[i].k = Expected(d) \/ Preceded(stdin', i)
      <4>1. CASE i \in DOMAIN stdin
        BY <1>7, <2>2, <3>4, <4>1 DEF AnswerInv, AnswersInOrder
      <4>2. CASE i = Len(stdin) + 1
        <5>1. stdin'[i] = e /\ d = f.origin /\ Unended(queue[d])
          BY <1>2, <1>5, <1>7, <2>2, <3>4, <4>2 DEF InPosition
        <5>2. e.type # "error" => e.k = Position(f)
          BY <1>1 DEF Sends
        <5>3. Live(d) => Position(f) = Expected(d) \/ Carries(stdin, d, Position(f) - 1)
          BY <1>5, <2>2, <5>1 DEF InPosition
        <5> QED
          BY <1>7, <2>2, <4>2, <5>1, <5>2, <5>3
      <4> QED
        BY <1>7, <2>2, <4>1, <4>2
    <3>5. AllPlaced(stdin)' /\ Increasing(stdin)'
      BY <1>7, <2>2, <3>1, <3>2 DEF AllPlaced, Placed, Increasing
    <3> QED
      BY <1>3, <2>0, <3>3, <3>4, <3>5 DEF AnswersInOrder, Preceded, Final
  <2> QED
    BY <2>1, <2>2
<1>11. \A d \in Calls : QueueInOrder(d)' /\ OutInOrder(d)'
  BY <1>2, UntouchedKeepsOrder DEF AnswerInv
<1>12. TableHolds'
  BY <1>2 DEF AnswerInv, TableHolds, Unended, Final
<1> QED
  BY <1>6, <1>9, <1>10, <1>11, <1>12 DEF AnswerInv

---------------------------------------------------------------------------
(* What Bridge says of the answers. *)

(* AnswerInv follows every message of an answer from its fetch to the      *)
(* client.                                                                 *)
THEOREM AnswersFollowed == Spec => []AnswerInv
<1>1. TypeOK /\ TypeOK' /\ IInv /\ RequestInv /\ AnswerInv /\ [Next]_vars => AnswerInv'
  <2> SUFFICES ASSUME TypeOK, TypeOK', IInv, RequestInv, AnswerInv, [Next]_vars
               PROVE  AnswerInv'
    OBVIOUS
  <2>1. CASE HostNext /\ UNCHANGED extVars
    BY <2>1, CallKeepsAnswers, ThreadKeepsAnswers, DispatchKeepsAnswers,
       NotifyKeepsAnswers DEF HostNext, ReaderStep
  <2>2. CASE ExtNext /\ UNCHANGED hostVars
    BY <2>2, AssemblyKeepsAnswers, EndKeepsAnswers, FetchKeepsAnswers DEF ExtNext
  <2>3. CASE PortCloses /\ UNCHANGED <<hostVars, extVars>>
    <3>1. /\ UNCHANGED <<stdin, fetches, pc, queue, told, out, broke, rid, pending,
                         notify, reader>>
          /\ ~portOpen'
      BY <2>3, ToldMoves DEF PortCloses, hostVars, callVars, extVars
    <3>2. TableHolds'
      BY <3>1 DEF AnswerInv, TableHolds, Unended, Final
    <3> QED
      BY <3>1, <3>2, NothingAnswered
  <2>4. CASE UNCHANGED vars
    <3>1. UNCHANGED <<stdin, stdout, sendQueue, writerUp, portOpen, assembling, fetches,
                      pc, queue, told, out, broke, rid, pending, notify, reader>>
      BY <2>4, ToldMoves DEF vars, channelVars, hostVars, callVars, extVars
    <3>2. TableHolds' /\ Requests' = Requests
      BY <3>1 DEF AnswerInv, TableHolds, Unended, Final, Requests
    <3> QED
      BY <3>1, <3>2, NothingAnswered
  <2> QED
    BY <2>1, <2>2, <2>3, <2>4 DEF Next
<1> QED
  BY <1>1, InitAnswerInv, TypeCorrect, IdsFollowed, RequestsFollowed, PTL DEF Spec

(***************************************************************************)
(* Of a call that waits for the head: when header_evt is set, the head is  *)
(* the first item of the queue, so the call takes nothing else for it; and *)
(* when a head has come, the event is set or the reader thread is between  *)
(* the put and the set, which is the only time at which the call can give  *)
(* up while it has one.                                                    *)
(***************************************************************************)
THEOREM HeadAnnounced == Spec => []HeaderEvtAccurate
<1>1. TypeOK /\ AnswerInv => HeaderEvtAccurate
  <2> SUFFICES ASSUME TypeOK, AnswerInv, NEW c \in Calls, pc[c] = "header"
               PROVE  IF Told(c)
                      THEN queue[c] # <<>> /\ Head(queue[c]).type = "response"
                      ELSE \A i \in DOMAIN queue[c] : queue[c][i].type = "error"
    BY DEF HeaderEvtAccurate
  <2>0. told[c] <=> Told(c)
    BY ToldMoves DEF Told
  <2>1. /\ queue[c] \in Seq(Item) /\ Len(out[c]) = 0 /\ BodyLen[c] \in Nat
        /\ AllPlaced(queue[c]) /\ ErrorsLast(queue[c])
        /\ Continues(queue[c], 0)
        /\ told[c] <=> HasHead(queue[c])
    BY AnswerTypes DEF AnswerInv, QueueInOrder, OutInOrder, Live
  <2>2. /\ \A i \in DOMAIN queue[c] : i \in Nat /\ i >= 1 /\ queue[c][i] \in Item
        /\ queue[c] # <<>> => 1 \in DOMAIN queue[c] /\ Head(queue[c]) = queue[c][1]
        /\ \A i \in DOMAIN queue[c] : queue[c] # <<>>
    BY <2>1
  <2>3. CASE told[c]
    <3>1. PICK i \in DOMAIN queue[c] : queue[c][i].type = "response"
      BY <2>1, <2>3 DEF HasHead
    <3>2. i = 1
      BY <2>1, <2>2, <3>1 DEF AllPlaced, Placed, Continues
    <3> QED
      BY <2>0, <2>2, <2>3, <3>1, <3>2
  <2>4. CASE ~told[c]
    <3>1. ASSUME queue[c] # <<>>
          PROVE  queue[c][1].type = "error"
      <4>1. queue[c][1].type # "error" => queue[c][1].k = 0
        <5>1. queue[c][1].type # "error" => queue[c][1].k = 0 + 1 - 1
          BY <2>1, <2>2, <3>1 DEF Continues
        <5> QED
          BY <5>1
      <4>2. BodyLen[queue[c][1].origin] \in Nat
        BY <2>2, <3>1, LengthsAssumption DEF Item
      <4>3. queue[c][1].type \notin {"chunk", "end"}
        BY <2>1, <2>2, <3>1, <4>1, <4>2 DEF AllPlaced, Placed
      <4>4. queue[c][1].type # "response"
        BY <2>1, <2>2, <2>4, <3>1 DEF HasHead
      <4> QED
        BY <2>2, <3>1, <4>3, <4>4 DEF Item
    <3>2. ASSUME NEW i \in DOMAIN queue[c]
          PROVE  queue[c][i].type = "error"
      <4>1. i = 1 \/ 1 < i
        BY <2>2
      <4> QED
        BY <2>1, <2>2, <3>1, <4>1 DEF ErrorsLast, Final
    <3> QED
      BY <2>0, <2>4, <3>2
  <2> QED
    BY <2>3, <2>4
<1> QED
  BY <1>1, AnswersFollowed, TypeCorrect, PTL

(***************************************************************************)
(* When the reader thread is gone, no call streams that has not the end of *)
(* its loop in its queue: none is left to its deadline.                    *)
(***************************************************************************)
THEOREM NobodyForgotten == Spec => []StreamsTold
<1>1. AnswerInv => StreamsTold
  BY DEF AnswerInv, TableHolds, QueueInOrder, StreamsTold, Unended, Final
<1> QED
  BY <1>1, AnswersFollowed, PTL

(***************************************************************************)
(* A body that was closed because of an 'end' message is whole, whatever   *)
(* has failed on the way.                                                  *)
(***************************************************************************)
THEOREM EndIsTheEnd == Spec => []EndMeansWhole
<1>1. TypeOK /\ AnswerInv => EndMeansWhole
  <2> SUFFICES ASSUME TypeOK, AnswerInv, NEW c \in Calls, Closed(c), broke[c] = "end"
               PROVE  DataSent(c) = 1 .. BodyLen[c]
    BY DEF EndMeansWhole
  <2>1. /\ out[c] \in Seq(Written) /\ BodyLen[c] \in Nat
        /\ Len(out[c]) = BodyLen[c] + 2 /\ Ordered(out[c], BodyLen[c])
    BY AnswerTypes DEF AnswerInv, OutInOrder
  <2>2. DOMAIN out[c] = 1 .. BodyLen[c] + 2
    BY <2>1
  <2>3. ASSUME NEW i \in DOMAIN out[c], out[c][i].what = "data"
        PROVE  out[c][i].k \in 1 .. BodyLen[c]
    <3>1. /\ out[c][i].k = i - 1 /\ out[c][i].k <= BodyLen[c]
          /\ i # 1
      BY <2>1, <2>3 DEF Ordered, InAnswer
    <3> QED
      BY <2>1, <2>2, <3>1
  <2>4. ASSUME NEW k \in 1 .. BodyLen[c]
        PROVE  k + 1 \in DOMAIN out[c] /\ out[c][k + 1].what = "data" /\ out[c][k + 1].k = k
    <3>1. k + 1 \in DOMAIN out[c] /\ k + 1 < Len(out[c]) /\ k + 1 # 1 /\ (k + 1) - 1 = k
      BY <2>1, <2>2
    <3>2. InAnswer(out[c][k + 1]) /\ out[c][k + 1].what # "head" /\ out[c][k + 1].k = k
      BY <2>1, <3>1 DEF Ordered
    <3> QED
      BY <3>1, <3>2 DEF InAnswer
  <2> QED
    BY <2>3, <2>4 DEF DataSent
<1> QED
  BY <1>1, AnswersFollowed, TypeCorrect, PTL

---------------------------------------------------------------------------
(* The bridge implements StreamContract. *)

(* A client that has had nothing, or the head and the first slices. *)
LEMMA StreamingAt ==
  ASSUME TypeOK, NEW c \in Calls, Ordered(out[c], BodyLen[c]), AnswerOnly(out[c]),
         out[c] # <<>>
  PROVE  Len(out[c]) - 1 \in 0 .. BodyLen[c] /\ Contract!Streaming(c, Len(out[c]) - 1)
<1>1. out[c] \in Seq(Written) /\ Len(out[c]) \in DOMAIN out[c] /\ BodyLen[c] \in Nat
  BY AnswerTypes
<1>2. /\ InAnswer(out[c][Len(out[c])]) /\ out[c][Len(out[c])].k = Len(out[c]) - 1
      /\ Len(out[c]) - 1 <= BodyLen[c] /\ Len(out[c]) - 1 \in Nat
  BY <1>1 DEF Ordered, AnswerOnly
<1> QED
  BY <1>1, <1>2 DEF Contract!Streaming, InAnswer

(* What a step of a call writes, the contract allows. *)
LEMMA CallHonours ==
  ASSUME TypeOK, IInv, AnswerInv, NEW c \in Calls, Start(c) \/ CallStep(c)
  PROVE  Contract!Next \/ UNCHANGED out
<1>0. /\ OutInOrder(c) /\ QueueInOrder(c) /\ OwnResponse
      /\ out[c] \in Seq(Written) /\ queue[c] \in Seq(Item) /\ BodyLen[c] \in Nat
  BY AnswerTypes DEF AnswerInv, IInv
<1>1. ASSUME queue[c] # <<>>
      PROVE  Head(queue[c]).origin = c
  BY <1>0, <1>1, TailHolds DEF OwnResponse
<1>2. CASE StartResponse(c)
  <2>1. out[c] = <<>> /\ queue[c] # <<>>
    BY <1>0, <1>2 DEF StartResponse, Goes, Takes, OutInOrder
  <2>2. Contract!Receives(c, "head", 0)
    BY <1>1, <1>2, <2>1 DEF StartResponse, Contract!Receives
  <2> QED
    BY <2>1, <2>2 DEF Contract!Next, Contract!Head200, Contract!Untouched
<1>3. CASE StreamData(c)
  <2>1. pc[c] = "stream" /\ queue[c] # <<>> /\ Head(queue[c]).type = "chunk"
    BY <1>3 DEF StreamData, Goes, Takes
  <2>2. Head(queue[c]).k = Len(out[c]) /\ Placed(Head(queue[c]))
    <3>1. Live(c)
      BY <2>1 DEF Live
    <3> QED
      BY <1>0, <2>1, <3>1, TakeContinues DEF QueueInOrder
  <2>3. Len(out[c]) \in 1 .. BodyLen[c]
    BY <1>1, <2>1, <2>2 DEF Placed
  <2>4. Contract!Streaming(c, Len(out[c]) - 1)
    BY <1>0, <2>1, StreamingAt DEF OutInOrder
  <2>5. Contract!Receives(c, "data", Len(out[c]))
    BY <1>1, <1>3, <2>1, <2>2 DEF StreamData, Contract!Receives
  <2> QED
    BY <2>3, <2>4, <2>5 DEF Contract!Next, Contract!NextSlice
<1>4. CASE Terminate(c)
  <2>1. CASE out' = out
    BY <2>1
  <2>2. CASE pc[c] = "terminate" /\ Write(c, "terminator", 0)
    <3>1. \E k \in 0 .. BodyLen[c] : Contract!Streaming(c, k)
      BY <1>0, <2>2, StreamingAt DEF OutInOrder
    <3>2. Contract!Receives(c, "terminator", 0)
      BY <2>2 DEF Write, Contract!Receives
    <3> QED
      BY <3>1, <3>2 DEF Contract!Next, Contract!Close
  <2> QED
    BY <1>4, <2>1, <2>2 DEF Terminate, Goes
<1>5. CASE Except(c) \/ Urllib(c)
  <2>1. CASE out' = out
    BY <2>1
  <2>2. CASE Write(c, "bad_gateway", 0)
    <3>1. Contract!Untouched(c) \/ \E k \in 0 .. BodyLen[c] : Contract!Streaming(c, k)
      BY <1>0, <1>5, StreamingAt DEF Except, Urllib, Goes, OutInOrder, Contract!Untouched
    <3>2. Contract!Receives(c, "bad_gateway", 0)
      BY <2>2 DEF Write, Contract!Receives
    <3> QED
      BY <3>1, <3>2 DEF Contract!Next, Contract!BadGateway
  <2>3. CASE pc[c] = "urllib" /\ Write(c, "direct", 0)
    <3>1. Contract!Untouched(c)
      BY <1>0, <2>3 DEF OutInOrder, Contract!Untouched
    <3>2. Contract!Receives(c, "direct", 0)
      BY <2>3 DEF Write, Contract!Receives
    <3> QED
      BY <3>1, <3>2 DEF Contract!Next, Contract!Direct
  <2> QED
    BY <1>5, <2>1, <2>2, <2>3 DEF Except, Urllib, Goes
<1>6. CASE UNCHANGED out
  BY <1>6
<1> QED
  BY <1>2, <1>3, <1>4, <1>5, <1>6 DEF Start, CallStep, Alloc, Register, SendNext,
     HeaderTimeout, StartFails, StreamFails, StreamBreaks, GetTimesOut, Overdue, Pop

(***************************************************************************)
(* Every client receives what StreamContract promises: the answer to its   *)
(* own request, in order and without a gap, closed at most once, whatever  *)
(* the faults and the interleaving of calls, threads and fetches.          *)
(***************************************************************************)
THEOREM ContractKept == Spec => ImplementsContract
<1>1. Init => Contract!Init
  BY DEF Init, HostInit, Contract!Init
<1>2. TypeOK /\ IInv /\ AnswerInv /\ [Next]_vars => [Contract!Next]_out
  <2> SUFFICES ASSUME TypeOK, IInv, AnswerInv, [Next]_vars
               PROVE  Contract!Next \/ UNCHANGED out
    OBVIOUS
  <2>1. CASE \E c \in Calls : Start(c) \/ CallStep(c)
    BY <2>1, CallHonours
  <2>2. CASE WriterStep \/ WriterFails \/ ReaderStep
    BY <2>2 DEF WriterStep, WriterFails, ReaderStep, ReaderStart, Dispatch, ReaderStops,
       Notify, ReaderClears, SetEvent, callVars
  <2>3. CASE UNCHANGED hostVars
    BY <2>3 DEF hostVars, callVars
  <2> QED
    BY <2>1, <2>2, <2>3 DEF Next, HostNext, vars
<1> QED
  BY <1>1, <1>2, TypeCorrect, IdsFollowed, AnswersFollowed, PTL
     DEF Spec, ImplementsContract, Contract!Spec

=============================================================================
