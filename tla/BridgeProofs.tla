---------------------------- MODULE BridgeProofs ----------------------------
(***************************************************************************)
(* Theorems about Bridge, for every set of calls, all lengths and every    *)
(* combination of faults.                                                  *)
(*                                                                         *)
(* OwnResponse is not inductive: that an answer ends in the right queue    *)
(* depends on the id it carries, and the id on every message that led to   *)
(* it.  IInv follows the id from nm_request_counter through both pipes and *)
(* the extension back to the table of handlers.                            *)
(***************************************************************************)
EXTENDS Bridge, TLAPS

(* Ids are handed out once. *)
IdsUnique ==
  /\ \A c \in Calls : rid[c] < counter
  /\ \A c, d \in Calls : rid[c] # 0 /\ rid[c] = rid[d] => c = d

(* A call has its id from the moment it is past the allocation. *)
IdsAllocated ==
  /\ \A c \in Calls : pc[c] \in {"idle", "alloc"} => rid[c] = 0
  /\ \A c \in Calls : pc[c] \in {"register", "send"} => rid[c] # 0
  /\ \A c \in pending : rid[c] # 0

(* m carries the id of the call that its payload belongs to. *)
Tagged(m) == m.id # 0 /\ m.id = rid[m.origin]

MessagesTagged ==
  /\ \A i \in DOMAIN sendQueue : Tagged(sendQueue[i])
  /\ \A i \in DOMAIN stdout : Tagged(stdout[i])
  /\ \A i \in DOMAIN stdin : Tagged(stdin[i])
  /\ \A a \in assembling : Tagged(a)
  /\ \A f \in fetches : Tagged(f)

IInv == IdsUnique /\ IdsAllocated /\ MessagesTagged /\ OwnResponse

---------------------------------------------------------------------------
(* What taking from a pipe or a queue does to what it holds. *)
LEMMA TailHolds ==
  ASSUME NEW S, NEW s \in Seq(S), s # <<>>
  PROVE  /\ Head(s) \in S
         /\ Head(s) = s[1]
         /\ 1 \in DOMAIN s
         /\ Tail(s) \in Seq(S)
         /\ \A i \in DOMAIN Tail(s) : i + 1 \in DOMAIN s /\ Tail(s)[i] = s[i + 1]
OBVIOUS

(* What appending to a pipe or a queue does to what it holds. *)
LEMMA AppendHolds ==
  ASSUME NEW S, NEW s \in Seq(S), NEW e \in S
  PROVE  /\ Append(s, e) \in Seq(S)
         /\ \A i \in DOMAIN Append(s, e) :
              \/ i \in DOMAIN s /\ Append(s, e)[i] = s[i]
              \/ Append(s, e)[i] = e
OBVIOUS

---------------------------------------------------------------------------
(* The initial states have the types that TypeOK names. *)
LEMMA InitTypeOK == Init => TypeOK
BY DEF Init, ChannelInit, HostInit, ExtInit, TypeOK, ChannelTypeOK,
       HostTypeOK, ExtTypeOK, PCs

(* A call's place in the code stays one of the places. *)
LEMMA GoesType ==
  ASSUME TypeOK, NEW c \in Calls, NEW from, NEW to \in PCs, Goes(c, from, to)
  PROVE  pc' \in [Calls -> PCs]
BY DEF TypeOK, HostTypeOK, Goes

(* Taking an item from a queue. *)
LEMMA TakesType ==
  ASSUME TypeOK, NEW c \in Calls, NEW types, Takes(c, types)
  PROVE  /\ Head(queue[c]) \in Item
         /\ queue' \in [Calls -> Seq(Item)]
<1>1. queue[c] \in Seq(Item) /\ queue[c] # <<>>
  BY DEF TypeOK, HostTypeOK, Takes
<1>2. Head(queue[c]) \in Item /\ Tail(queue[c]) \in Seq(Item)
  BY <1>1, TailHolds
<1> QED
  BY <1>2 DEF TypeOK, HostTypeOK, Takes

(* Writing to a client. *)
LEMMA WriteType ==
  ASSUME TypeOK, NEW c \in Calls, NEW w \in Written,
         out' = [out EXCEPT ![c] = Append(@, w)]
  PROVE  out' \in [Calls -> Seq(Written)]
<1>1. Append(out[c], w) \in Seq(Written)
  BY DEF TypeOK, HostTypeOK
<1> QED
  BY <1>1 DEF TypeOK, HostTypeOK

(* The steps of a call keep the types. *)
LEMMA CallTypeOK ==
  ASSUME TypeOK, NEW c \in Calls, Start(c) \/ CallStep(c), UNCHANGED extVars
  PROVE  TypeOK'
<1> USE DEF TypeOK, ChannelTypeOK, HostTypeOK, ExtTypeOK, channelVars, extVars
<1>1. CASE Start(c)
  <2>1. pc' \in [Calls -> PCs]
    BY <1>1, GoesType DEF Start, PCs
  <2> QED
    BY <1>1, <2>1 DEF Start
<1>2. CASE Alloc(c)
  <2>1. pc' \in [Calls -> PCs]
    BY <1>2, GoesType DEF Alloc, PCs
  <2>2. counter' \in Nat \ {0} /\ rid' \in [Calls -> Nat]
    BY <1>2 DEF Alloc
  <2> QED
    BY <1>2, <2>1, <2>2 DEF Alloc
<1>3. CASE Register(c)
  <2>1. pc' \in [Calls -> PCs]
    BY <1>3, GoesType DEF Register, PCs
  <2> QED
    BY <1>3, <2>1 DEF Register
<1>4. CASE SendNext(c)
  <2>1. ReqMessage(c, sent[c]) \in RequestMessage
    BY DEF ReqMessage, RequestMessage, Message
  <2>2. sendQueue' \in Seq(RequestMessage)
    BY <1>4, <2>1 DEF SendNext
  <2>3. pc' \in [Calls -> PCs]
    BY <1>4, GoesType DEF SendNext, PCs
  <2>4. sent' \in [Calls -> Nat]
    BY <1>4 DEF SendNext
  <2> QED
    BY <1>4, <2>2, <2>3, <2>4 DEF SendNext
<1>5. CASE HeaderTimeout(c)
  <2>1. pc' \in [Calls -> PCs]
    BY <1>5, GoesType DEF HeaderTimeout, PCs
  <2> QED
    BY <1>5, <2>1 DEF HeaderTimeout
<1>6. CASE StartResponse(c)
  <2>1. pc' \in [Calls -> PCs]
    BY <1>6, GoesType DEF StartResponse, PCs
  <2>2. Head(queue[c]) \in Item /\ queue' \in [Calls -> Seq(Item)]
    BY <1>6, TakesType DEF StartResponse
  <2>3. out' \in [Calls -> Seq(Written)]
    <3>1. [what |-> "head", origin |-> Head(queue[c]).origin, k |-> 0] \in Written
      BY <2>2 DEF Item, Written
    <3> QED
      BY <1>6, <3>1, WriteType DEF StartResponse
  <2> QED
    BY <1>6, <2>1, <2>2, <2>3 DEF StartResponse, OnlyThisCall
<1>7. CASE StartFails(c)
  <2>1. pc' \in [Calls -> PCs]
    BY <1>7, GoesType DEF StartFails, PCs
  <2>2. queue' \in [Calls -> Seq(Item)]
    BY <1>7, TakesType DEF StartFails
  <2> QED
    BY <1>7, <2>1, <2>2 DEF StartFails, OnlyThisCall
<1>8. CASE StreamData(c)
  <2>1. pc' \in [Calls -> PCs]
    BY <1>8, GoesType DEF StreamData, PCs
  <2>2. Head(queue[c]) \in Item /\ queue' \in [Calls -> Seq(Item)]
    BY <1>8, TakesType DEF StreamData
  <2>3. out' \in [Calls -> Seq(Written)]
    <3>1. [what |-> "data", origin |-> Head(queue[c]).origin,
           k |-> Head(queue[c]).k] \in Written
      BY <2>2 DEF Item, Written
    <3> QED
      BY <1>8, <3>1, WriteType DEF StreamData
  <2> QED
    BY <1>8, <2>1, <2>2, <2>3 DEF StreamData, OnlyThisCall
<1>9. CASE StreamFails(c)
  <2>1. pc' \in [Calls -> PCs]
    BY <1>9, GoesType DEF StreamFails, PCs
  <2>2. queue' \in [Calls -> Seq(Item)]
    BY <1>9, TakesType DEF StreamFails
  <2> QED
    BY <1>9, <2>1, <2>2 DEF StreamFails, OnlyThisCall
<1>10. CASE StreamBreaks(c)
  <2>1. pc' \in [Calls -> PCs]
    BY <1>10, GoesType DEF StreamBreaks, PCs
  <2>2. queue' \in [Calls -> Seq(Item)]
    BY <1>10, TakesType DEF StreamBreaks
  <2>3. broke' \in [Calls -> {"no", "end", "error", "deadline"}]
    BY <1>10 DEF StreamBreaks, Takes
  <2> QED
    BY <1>10, <2>1, <2>2, <2>3 DEF StreamBreaks, OnlyThisCall
<1>11. CASE GetTimesOut(c)
  <2>1. pc' \in [Calls -> PCs]
    BY <1>11, GoesType DEF GetTimesOut, PCs
  <2>2. broke' \in [Calls -> {"no", "end", "error", "deadline"}]
    BY <1>11 DEF GetTimesOut
  <2> QED
    BY <1>11, <2>1, <2>2 DEF GetTimesOut, OnlyThisCall
<1>12. CASE Overdue(c)
  <2>1. pc' \in [Calls -> PCs]
    BY <1>12, GoesType DEF Overdue, PCs
  <2> QED
    BY <1>12, <2>1 DEF Overdue, OnlyThisCall
<1>13. CASE Terminate(c)
  <2>1. pc' \in [Calls -> PCs]
    BY <1>13, GoesType DEF Terminate, PCs
  <2>2. out' \in [Calls -> Seq(Written)]
    BY <1>13, WriteType DEF Terminate, Write, Written
  <2> QED
    BY <1>13, <2>1, <2>2 DEF Terminate, OnlyThisCall
<1>14. CASE Pop(c)
  <2>1. pc' \in [Calls -> PCs]
    BY <1>14, GoesType DEF Pop, PCs
  <2> QED
    BY <1>14, <2>1 DEF Pop
<1>15. CASE Except(c)
  <2>1. pc' \in [Calls -> PCs]
    BY <1>15, GoesType DEF Except, PCs
  <2>2. out' \in [Calls -> Seq(Written)]
    BY <1>15, WriteType DEF Except, Write, Written
  <2> QED
    BY <1>15, <2>1, <2>2 DEF Except, OnlyThisCall
<1>16. CASE Urllib(c)
  <2>1. pc' \in [Calls -> PCs]
    BY <1>16, GoesType DEF Urllib, PCs
  <2>2. out' \in [Calls -> Seq(Written)]
    BY <1>16, WriteType DEF Urllib, Write, Written
  <2> QED
    BY <1>16, <2>1, <2>2 DEF Urllib, OnlyThisCall
<1> QED
  BY <1>1, <1>2, <1>3, <1>4, <1>5, <1>6, <1>7, <1>8, <1>9, <1>10, <1>11,
     <1>12, <1>13, <1>14, <1>15, <1>16 DEF CallStep

(* A handler that is given a message keeps the types. *)
LEMMA HandlerType ==
  ASSUME TypeOK, NEW c \in Calls, NEW m \in ResponseMessage, Handler(c, m)
  PROVE  /\ queue' \in [Calls -> Seq(Item)]
         /\ waking' \subseteq Calls
         /\ evt' \in [Calls -> BOOLEAN]
<1>1. Queued(m) \in Item
  BY DEF ResponseMessage, Message, Item, Queued
<1>2. queue' \in [Calls -> Seq(Item)]
  BY <1>1 DEF Handler, TypeOK, HostTypeOK
<1>3. waking' \subseteq Calls /\ evt' \in [Calls -> BOOLEAN]
  BY DEF Handler, TypeOK, HostTypeOK
<1> QED
  BY <1>2, <1>3

(* The steps of the writer and the reader thread keep the types. *)
LEMMA ThreadTypeOK ==
  ASSUME TypeOK, WriterStep \/ WriterFails \/ ReaderStep, UNCHANGED extVars
  PROVE  TypeOK'
<1> USE DEF TypeOK, ChannelTypeOK, HostTypeOK, ExtTypeOK, channelVars, extVars,
            callVars
<1>1. CASE WriterStep
  <2>1. /\ Head(sendQueue) \in RequestMessage
        /\ sendQueue' \in Seq(RequestMessage)
    BY <1>1, TailHolds DEF WriterStep
  <2>2. stdout' \in Seq(RequestMessage)
    BY <1>1, <2>1 DEF WriterStep
  <2> QED
    BY <1>1, <2>1, <2>2 DEF WriterStep
<1>2. CASE WriterFails
  <2>1. sendQueue' \in Seq(RequestMessage)
    BY <1>2, TailHolds DEF WriterFails
  <2> QED
    BY <1>2, <2>1 DEF WriterFails
<1>3. CASE ReaderStart
  BY <1>3 DEF ReaderStart
<1>4. CASE Dispatch
  <2>1. Head(stdin) \in ResponseMessage /\ stdin' \in Seq(ResponseMessage)
    BY <1>4, TailHolds DEF Dispatch
  <2>2. /\ queue' \in [Calls -> Seq(Item)] /\ waking' \subseteq Calls
        /\ evt' \in [Calls -> BOOLEAN]
    BY <1>4, <2>1, HandlerType DEF Dispatch
  <2> QED
    BY <1>4, <2>1, <2>2 DEF Dispatch
<1>5. CASE ReaderStops
  <2>1. notify' \subseteq Nat
    BY <1>5 DEF ReaderStops
  <2> QED
    BY <1>5, <2>1 DEF ReaderStops
<1>6. CASE ReaderClears
  BY <1>6 DEF ReaderClears
<1>7. CASE \E id \in notify : Notify(id)
  <2> PICK id \in notify : Notify(id)
    BY <1>7
  <2>1. \A c \in Calls :
          [type |-> "error", id |-> id, origin |-> c, k |-> 0] \in ResponseMessage
    BY DEF ResponseMessage, Message
  <2>2. /\ queue' \in [Calls -> Seq(Item)] /\ waking' \subseteq Calls
        /\ evt' \in [Calls -> BOOLEAN]
    BY <2>1, HandlerType DEF Notify
  <2> QED
    BY <2>2 DEF Notify
<1>8. CASE \E c \in waking : SetEvent(c)
  <2>1. evt' \in [Calls -> BOOLEAN] /\ waking' \subseteq Calls
    BY <1>8, Zenon DEF SetEvent
  <2> QED
    BY <1>8, <2>1 DEF SetEvent
<1> QED
  BY <1>1, <1>2, <1>3, <1>4, <1>5, <1>6, <1>7, <1>8 DEF ReaderStep

(* What the extension posts keeps the types of the channel. *)
LEMMA SafeSendType ==
  ASSUME TypeOK, NEW f \in fetches, NEW k \in Nat,
         NEW type \in {"response", "chunk", "end", "error"},
         SafeSend(type, f, k)
  PROVE  ChannelTypeOK'
<1>1. [type |-> type, id |-> f.id, origin |-> f.origin, k |-> k]
        \in ResponseMessage
  BY DEF TypeOK, ExtTypeOK, ResponseMessage, Message
<1>2. stdin' \in Seq(ResponseMessage)
  BY <1>1 DEF SafeSend, TypeOK, ChannelTypeOK
<1> QED
  BY <1>2 DEF SafeSend, TypeOK, ChannelTypeOK

(* The steps of the extension keep the types. *)
LEMMA ExtTypeStep ==
  ASSUME TypeOK, ExtNext, UNCHANGED hostVars
  PROVE  TypeOK'
<1> DEFINE Entry == [id : Nat, origin : Calls, chunks : Seq(Slice)]
<1> DEFINE Fetch == [id : Nat, origin : Calls, body : Seq(Slice),
                     responded : BOOLEAN, sent : Nat]
<1>0. HostTypeOK'
  BY DEF TypeOK, HostTypeOK, hostVars, callVars
<1>1. ASSUME NEW type, Receive(type)
      PROVE  Head(stdout) \in RequestMessage /\ ChannelTypeOK'
  BY <1>1, TailHolds DEF Receive, TypeOK, ChannelTypeOK
<1>2. CASE HandleRequestStart
  <2>1. [id |-> Head(stdout).id, origin |-> Head(stdout).origin,
         chunks |-> <<>>] \in Entry
    BY <1>1, <1>2 DEF HandleRequestStart, RequestMessage, Message
  <2>2. ExtTypeOK'
    BY <1>2, <2>1 DEF HandleRequestStart, TypeOK, ExtTypeOK
  <2> QED
    BY <1>0, <1>1, <1>2, <2>2 DEF HandleRequestStart, TypeOK
<1>3. CASE HandleRequestChunk
  <2>1. [origin |-> Head(stdout).origin, k |-> Head(stdout).k] \in Slice
    BY <1>1, <1>3 DEF HandleRequestChunk, RequestMessage, Message, Slice
  <2>2. \A a \in assembling :
          [a EXCEPT !.chunks = Append(@, [origin |-> Head(stdout).origin,
                                          k |-> Head(stdout).k])] \in Entry
    BY <2>1 DEF TypeOK, ExtTypeOK
  <2>3. ExtTypeOK'
    BY <1>3, <2>2 DEF HandleRequestChunk, TypeOK, ExtTypeOK
  <2> QED
    BY <1>0, <1>1, <1>3, <2>3 DEF HandleRequestChunk, TypeOK
<1>4. CASE HandleRequestEnd
  <2>1. \A a \in assembling :
          [id |-> a.id, origin |-> a.origin, body |-> a.chunks,
           responded |-> FALSE, sent |-> 0] \in Fetch
    BY DEF TypeOK, ExtTypeOK
  <2>2. assembling' \subseteq Entry
    BY <1>4 DEF HandleRequestEnd, TypeOK, ExtTypeOK
  <2>3. fetches' \subseteq Fetch
    BY <1>4, <2>1 DEF HandleRequestEnd, TypeOK, ExtTypeOK
  <2>4. ExtTypeOK'
    BY <2>2, <2>3 DEF ExtTypeOK
  <2> QED
    BY <1>0, <1>1, <1>4, <2>4 DEF HandleRequestEnd, TypeOK
<1>5. ASSUME NEW f \in fetches,
             FetchResponds(f) \/ FetchChunk(f) \/ FetchEnds(f) \/ FetchFails(f)
      PROVE  TypeOK'
  <2>1. f.sent + 1 \in Nat /\ 0 \in Nat
    BY DEF TypeOK, ExtTypeOK
  <2>2. ChannelTypeOK'
    BY <1>5, <2>1, SafeSendType
       DEF FetchResponds, FetchChunk, FetchEnds, FetchFails
  <2>3. [f EXCEPT !.responded = TRUE] \in Fetch /\ [f EXCEPT !.sent = @ + 1] \in Fetch
    BY <2>1 DEF TypeOK, ExtTypeOK
  <2>4. fetches' \subseteq Fetch
    BY <1>5, <2>3
       DEF FetchResponds, FetchChunk, FetchEnds, FetchFails, Becomes, TypeOK,
           ExtTypeOK
  <2>5. assembling' = assembling
    BY <1>5 DEF FetchResponds, FetchChunk, FetchEnds, FetchFails
  <2>6. ExtTypeOK'
    BY <2>4, <2>5 DEF TypeOK, ExtTypeOK
  <2> QED
    BY <1>0, <2>2, <2>6 DEF TypeOK
<1> QED
  BY <1>2, <1>3, <1>4, <1>5 DEF ExtNext

(***************************************************************************)
(* Type correctness: messages, table, queues and pipes only ever hold what *)
(* the code puts there.                                                    *)
(***************************************************************************)
THEOREM TypeCorrect == Spec => []TypeOK
<1>1. TypeOK /\ [Next]_vars => TypeOK'
  <2> SUFFICES ASSUME TypeOK, [Next]_vars
               PROVE  TypeOK'
    OBVIOUS
  <2>1. CASE HostNext /\ UNCHANGED extVars
    BY <2>1, CallTypeOK, ThreadTypeOK DEF HostNext
  <2>2. CASE ExtNext /\ UNCHANGED hostVars
    BY <2>2, ExtTypeStep
  <2>3. CASE PortCloses /\ UNCHANGED <<hostVars, extVars>>
    <3>1. ChannelTypeOK'
      <4>1. PortCloses
        BY <2>3
      <4>2. stdout' = <<>> /\ stdin' = stdin /\ portOpen' = FALSE
        BY <4>1 DEF PortCloses
      <4>3. stdout' \in Seq(RequestMessage)
        BY <4>2
      <4> QED
        BY <4>2, <4>3 DEF TypeOK, ChannelTypeOK
    <3>2. HostTypeOK'
      BY <2>3 DEF TypeOK, HostTypeOK, hostVars, callVars
    <3>3. ExtTypeOK'
      BY <2>3 DEF TypeOK, ExtTypeOK, extVars
    <3> QED
      BY <3>1, <3>2, <3>3 DEF TypeOK
  <2>4. CASE UNCHANGED vars
    BY <2>4 DEF vars, TypeOK, ChannelTypeOK, HostTypeOK, ExtTypeOK,
                channelVars, hostVars, callVars, extVars
  <2> QED
    BY <2>1, <2>2, <2>3, <2>4 DEF Next
<1> QED
  BY <1>1, InitTypeOK, PTL DEF Spec

---------------------------------------------------------------------------
(* The two halves of OwnResponse. *)
QueuesOwn == \A c \in Calls : \A i \in DOMAIN queue[c] : queue[c][i].origin = c
OutsOwn == \A c \in Calls : \A i \in DOMAIN out[c] : out[c][i].origin = c

(* OwnResponse is about the queues and about the clients. *)
LEMMA OwnHalves == OwnResponse <=> QueuesOwn /\ OutsOwn
BY DEF OwnResponse, QueuesOwn, OutsOwn

(* What a call takes from its queue is its own, and so is what remains. *)
LEMMA TakesOwn ==
  ASSUME TypeOK, QueuesOwn, NEW c \in Calls, NEW types, Takes(c, types)
  PROVE  Head(queue[c]).origin = c /\ QueuesOwn'
<1>1. queue[c] \in Seq(Item) /\ queue[c] # <<>>
  BY DEF TypeOK, HostTypeOK, Takes
<1>2. Head(queue[c]).origin = c
  BY <1>1, TailHolds DEF QueuesOwn
<1>3. \A i \in DOMAIN Tail(queue[c]) : Tail(queue[c])[i].origin = c
  BY <1>1, TailHolds DEF QueuesOwn
<1>4. QueuesOwn'
  BY <1>3 DEF Takes, QueuesOwn, TypeOK, HostTypeOK
<1> QED
  BY <1>2, <1>4

(* A client that is written something of its own has only its own. *)
LEMMA WriteOwn ==
  ASSUME TypeOK, OutsOwn, NEW c \in Calls, NEW w \in Written, w.origin = c,
         out' = [out EXCEPT ![c] = Append(@, w)]
  PROVE  OutsOwn'
<1>1. out[c] \in Seq(Written)
  BY DEF TypeOK, HostTypeOK
<1>2. \A i \in DOMAIN Append(out[c], w) : Append(out[c], w)[i].origin = c
  BY <1>1, AppendHolds DEF OutsOwn
<1> QED
  BY <1>2 DEF OutsOwn, TypeOK, HostTypeOK

(* A message goes to the call whose id it carries, and that is the call    *)
(* whose payload it carries.                                               *)
LEMMA HandlerOwn ==
  ASSUME TypeOK, IdsUnique, QueuesOwn, NEW c \in Calls,
         NEW m \in ResponseMessage, Tagged(m), rid[c] = m.id, Handler(c, m)
  PROVE  QueuesOwn'
<1>1. m.origin = c
  BY DEF IdsUnique, Tagged, ResponseMessage, Message
<1> DEFINE item == Queued(m)
<1>2. item \in Item /\ item.origin = c
  BY <1>1 DEF ResponseMessage, Message, Item, Queued
<1>3. queue[c] \in Seq(Item)
  BY DEF TypeOK, HostTypeOK
<1>4. \A i \in DOMAIN Append(queue[c], item) : Append(queue[c], item)[i].origin = c
  <2> HIDE DEF item
  <2> QED
    BY <1>2, <1>3, AppendHolds DEF QueuesOwn
<1> QED
  BY <1>4 DEF Handler, QueuesOwn, TypeOK, HostTypeOK

---------------------------------------------------------------------------
(* The initial states satisfy the inductive invariant. *)
LEMMA InitIInv == Init => IInv
BY DEF Init, ChannelInit, HostInit, ExtInit, IInv, IdsUnique, IdsAllocated,
       MessagesTagged, OwnResponse

(* A new id disturbs no message: those of the call carry an id already. *)
LEMMA AllocKeeps ==
  ASSUME TypeOK, IInv, NEW c \in Calls, Alloc(c), UNCHANGED extVars
  PROVE  IInv'
<1>0. /\ rid \in [Calls -> Nat] /\ counter \in Nat \ {0}
      /\ pc \in [Calls -> PCs]
      /\ sendQueue \in Seq(RequestMessage) /\ stdout \in Seq(RequestMessage)
      /\ stdin \in Seq(ResponseMessage)
  BY DEF TypeOK, ChannelTypeOK, HostTypeOK
<1>1. /\ rid' = [rid EXCEPT ![c] = counter]
      /\ counter' = counter + 1
      /\ pc' = [pc EXCEPT ![c] = "register"]
      /\ rid[c] = 0
      /\ UNCHANGED <<stdin, stdout, sendQueue, pending, queue, out>>
      /\ UNCHANGED <<assembling, fetches>>
  BY DEF Alloc, Goes, IInv, IdsAllocated, channelVars, extVars
<1>2. IdsUnique'
  <2>1. \A d \in Calls : rid[d] < counter /\ rid[d] \in Nat
    BY <1>0 DEF IInv, IdsUnique
  <2>2. rid'[c] = counter /\ \A d \in Calls \ {c} : rid'[d] = rid[d]
    BY <1>0, <1>1
  <2>3. \A d \in Calls : rid'[d] < counter'
    BY <1>0, <1>1, <2>1, <2>2
  <2>4. \A d, e \in Calls : rid[d] # 0 /\ rid[d] = rid[e] => d = e
    BY DEF IInv, IdsUnique
  <2>5. ASSUME NEW d \in Calls, NEW e \in Calls,
               rid'[d] # 0, rid'[d] = rid'[e]
        PROVE  d = e
    <3>1. CASE d = c /\ e # c
      BY <3>1, <1>0, <2>1, <2>2, <2>5
    <3>2. CASE d # c /\ e = c
      BY <3>2, <1>0, <2>1, <2>2, <2>5
    <3>3. CASE d # c /\ e # c
      BY <3>3, <2>2, <2>4, <2>5
    <3> QED
      BY <3>1, <3>2, <3>3
  <2> QED
    BY <2>3, <2>5 DEF IdsUnique
<1>3. IdsAllocated'
  <2>1. /\ pc'[c] = "register" /\ rid'[c] = counter /\ counter # 0
        /\ \A d \in Calls \ {c} : rid'[d] = rid[d] /\ pc'[d] = pc[d]
    BY <1>0, <1>1
  <2>2. pending \subseteq Calls
    BY DEF TypeOK, HostTypeOK
  <2> QED
    BY <1>1, <2>1, <2>2 DEF IInv, IdsAllocated
<1>4. \A d \in Calls : rid[d] # 0 => rid'[d] = rid[d]
  BY <1>0, <1>1
<1>5. MessagesTagged'
  <2>0. ASSUME NEW S, NEW s \in Seq(S), \A m \in S : m.origin \in Calls,
               \A i \in DOMAIN s : Tagged(s[i])
        PROVE  \A i \in DOMAIN s : s[i].id # 0 /\ s[i].id = rid'[s[i].origin]
    <3>1. \A i \in DOMAIN s : s[i].origin \in Calls
      BY <2>0
    <3> QED
      BY <1>4, <2>0, <3>1 DEF Tagged
  <2>a. /\ \A m \in RequestMessage : m.origin \in Calls
        /\ \A m \in ResponseMessage : m.origin \in Calls
    BY DEF RequestMessage, ResponseMessage, Message
  <2>b. /\ \A i \in DOMAIN sendQueue : Tagged(sendQueue[i])
        /\ \A i \in DOMAIN stdout : Tagged(stdout[i])
        /\ \A i \in DOMAIN stdin : Tagged(stdin[i])
    BY DEF IInv, MessagesTagged
  <2>1. \A i \in DOMAIN sendQueue :
          sendQueue[i].id # 0 /\ sendQueue[i].id = rid'[sendQueue[i].origin]
    BY <1>0, <2>0, <2>a, <2>b
  <2>2. \A i \in DOMAIN stdout :
          stdout[i].id # 0 /\ stdout[i].id = rid'[stdout[i].origin]
    BY <1>0, <2>0, <2>a, <2>b
  <2>3. \A i \in DOMAIN stdin :
          stdin[i].id # 0 /\ stdin[i].id = rid'[stdin[i].origin]
    BY <1>0, <2>0, <2>a, <2>b
  <2>4. \A a \in assembling : Tagged(a)'
    BY <1>1, <1>4 DEF IInv, MessagesTagged, Tagged
  <2>5. \A f \in fetches : Tagged(f)'
    BY <1>1, <1>4 DEF IInv, MessagesTagged, Tagged
  <2> QED
    BY <1>1, <2>1, <2>2, <2>3, <2>4, <2>5 DEF MessagesTagged, Tagged
<1>6. OwnResponse'
  BY <1>1 DEF IInv, OwnResponse
<1> QED
  BY <1>2, <1>3, <1>5, <1>6 DEF IInv

(* Registering needs an id, and sends nothing. *)
LEMMA RegisterKeeps ==
  ASSUME TypeOK, IInv, NEW c \in Calls, Register(c), UNCHANGED extVars
  PROVE  IInv'
<1>1. /\ UNCHANGED <<rid, counter, stdin, stdout, sendQueue, queue, out>>
      /\ UNCHANGED <<assembling, fetches>>
  BY DEF Register, channelVars, extVars
<1>2. IdsUnique' /\ MessagesTagged' /\ OwnResponse'
  BY <1>1 DEF IInv, IdsUnique, MessagesTagged, Tagged, OwnResponse
<1>3. rid[c] # 0
  BY DEF Register, Goes, IInv, IdsAllocated
<1>4. IdsAllocated'
  BY <1>1, <1>3 DEF Register, Goes, IInv, IdsAllocated, TypeOK, HostTypeOK
<1> QED
  BY <1>2, <1>4 DEF IInv

(* A request message carries the id of its call. *)
LEMMA SendKeeps ==
  ASSUME TypeOK, IInv, NEW c \in Calls, SendNext(c), UNCHANGED extVars
  PROVE  IInv'
<1>1. /\ UNCHANGED <<rid, counter, stdin, stdout, pending, queue, out>>
      /\ UNCHANGED <<assembling, fetches>>
      /\ rid[c] # 0
      /\ sendQueue \in Seq(RequestMessage)
      /\ sendQueue' = Append(sendQueue, ReqMessage(c, sent[c]))
  BY DEF SendNext, channelVars, extVars, Goes, IInv, IdsAllocated, TypeOK,
         HostTypeOK
<1>2. ReqMessage(c, sent[c]) \in RequestMessage
  BY DEF ReqMessage, RequestMessage, Message, TypeOK, HostTypeOK
<1>3. ReqMessage(c, sent[c]).id = rid[c] /\ ReqMessage(c, sent[c]).origin = c
  BY DEF ReqMessage
<1>4. \A i \in DOMAIN sendQueue' : Tagged(sendQueue'[i])
  BY <1>1, <1>2, <1>3, AppendHolds DEF IInv, MessagesTagged, Tagged
<1>5. MessagesTagged'
  BY <1>1, <1>4 DEF IInv, MessagesTagged, Tagged
<1>6. IdsUnique' /\ OwnResponse'
  BY <1>1 DEF IInv, IdsUnique, OwnResponse
<1>7. IdsAllocated'
  BY <1>1 DEF SendNext, Goes, IInv, IdsAllocated, TypeOK, HostTypeOK
<1> QED
  BY <1>5, <1>6, <1>7 DEF IInv

(* The other steps of a call change neither ids nor messages on the way. *)
LEMMA CallKeeps ==
  ASSUME TypeOK, IInv, NEW c \in Calls, Start(c) \/ CallStep(c),
         UNCHANGED extVars
  PROVE  IInv'
<1> DEFINE Quiet == /\ UNCHANGED <<rid, counter, stdin, stdout, sendQueue>>
                    /\ UNCHANGED <<assembling, fetches>>
                    /\ pending' \subseteq pending
                    /\ pc' \in [Calls -> PCs]
                    /\ \A d \in Calls : pc'[d] \in {"register", "send"}
                                          => pc[d] \in {"register", "send"}
                    /\ \A d \in Calls : pc'[d] \in {"idle", "alloc"}
                                          => pc[d] \in {"idle", "alloc"}
<1> USE DEF Goes, channelVars, extVars
<1> USE DEF OnlyThisCall
<1>1. ASSUME Quiet, QueuesOwn', OutsOwn'
      PROVE  IInv'
  <2>1. IdsUnique' /\ MessagesTagged'
    BY <1>1 DEF IInv, IdsUnique, MessagesTagged, Tagged
  <2>2. IdsAllocated'
    BY <1>1 DEF IInv, IdsAllocated
  <2>3. OwnResponse'
    BY <1>1 DEF OwnResponse, QueuesOwn, OutsOwn
  <2> QED
    BY <2>1, <2>2, <2>3 DEF IInv
<1>2. QueuesOwn /\ OutsOwn /\ pc \in [Calls -> PCs]
  BY OwnHalves DEF IInv, TypeOK, HostTypeOK
<1>3. ASSUME UNCHANGED <<queue, out>>
      PROVE  QueuesOwn' /\ OutsOwn'
  BY <1>2, <1>3 DEF QueuesOwn, OutsOwn
<1>4. CASE Start(c) \/ HeaderTimeout(c) \/ GetTimesOut(c) \/ Overdue(c) \/ Pop(c)
  <2>1. Quiet
    BY <1>2, <1>4 DEF Start, HeaderTimeout, GetTimesOut, Overdue, Pop, PCs
  <2>2. UNCHANGED <<queue, out>>
    BY <1>4 DEF Start, HeaderTimeout, GetTimesOut, Overdue, Pop
  <2> QED
    BY <1>1, <1>3, <2>1, <2>2
<1>5. CASE StartResponse(c) \/ StreamData(c)
  <2>1. Quiet
    BY <1>2, <1>5 DEF StartResponse, StreamData, PCs
  <2>2. Head(queue[c]).origin = c /\ QueuesOwn' /\ Head(queue[c]) \in Item
    BY <1>2, <1>5, TakesOwn, TakesType DEF StartResponse, StreamData
  <2>3. CASE StartResponse(c)
    <3>1. [what |-> "head", origin |-> Head(queue[c]).origin, k |-> 0] \in Written
      BY <2>2 DEF Written
    <3>2. OutsOwn'
      BY <1>2, <2>2, <2>3, <3>1, WriteOwn DEF StartResponse
    <3> QED
      BY <1>1, <2>1, <2>2, <3>2
  <2>4. CASE StreamData(c)
    <3>1. [what |-> "data", origin |-> Head(queue[c]).origin,
           k |-> Head(queue[c]).k] \in Written
      BY <2>2 DEF Item, Written
    <3>2. OutsOwn'
      BY <1>2, <2>2, <2>4, <3>1, WriteOwn DEF StreamData
    <3> QED
      BY <1>1, <2>1, <2>2, <3>2
  <2> QED
    BY <1>5, <2>3, <2>4
<1>6. CASE StartFails(c) \/ StreamFails(c) \/ StreamBreaks(c)
  <2>1. Quiet
    BY <1>2, <1>6 DEF StartFails, StreamFails, StreamBreaks, PCs
  <2>2. QueuesOwn'
    BY <1>2, <1>6, TakesOwn DEF StartFails, StreamFails, StreamBreaks
  <2>3. OutsOwn'
    BY <1>2, <1>6 DEF StartFails, StreamFails, StreamBreaks, OutsOwn
  <2> QED
    BY <1>1, <2>1, <2>2, <2>3
<1>7. CASE Terminate(c) \/ Except(c) \/ Urllib(c)
  <2>1. Quiet
    BY <1>2, <1>7 DEF Terminate, Except, Urllib, PCs
  <2>2. QueuesOwn'
    BY <1>2, <1>7 DEF Terminate, Except, Urllib, QueuesOwn
  <2>3. \A what \in {"terminator", "bad_gateway", "direct"} :
          [what |-> what, origin |-> c, k |-> 0] \in Written
    BY DEF Written
  <2>4. OutsOwn'
    BY <1>2, <1>7, <2>3, WriteOwn DEF Terminate, Except, Urllib, Write, OutsOwn
  <2> QED
    BY <1>1, <2>1, <2>2, <2>4
<1>8. CASE Alloc(c) \/ Register(c) \/ SendNext(c)
  BY <1>8, AllocKeeps, RegisterKeeps, SendKeeps
<1> QED
  BY <1>4, <1>5, <1>6, <1>7, <1>8 DEF CallStep

(* The writer passes messages on as they are; the reader gives them to the  *)
(* call whose id they carry.                                                *)
LEMMA ThreadKeeps ==
  ASSUME TypeOK, IInv, WriterStep \/ WriterFails \/ ReaderStep,
         UNCHANGED extVars
  PROVE  IInv'
<1> USE DEF channelVars, extVars, callVars
<1>0. /\ sendQueue \in Seq(RequestMessage)
      /\ stdout \in Seq(RequestMessage)
      /\ stdin \in Seq(ResponseMessage)
  BY DEF TypeOK, ChannelTypeOK, HostTypeOK
<1>1. ASSUME UNCHANGED <<rid, counter, pc>>, pending' \subseteq pending
      PROVE  IdsUnique' /\ IdsAllocated'
  BY <1>1 DEF IInv, IdsUnique, IdsAllocated
<1>2. CASE WriterStep
  <2>1. /\ UNCHANGED <<rid, counter, pc, pending, stdin, queue, out>>
        /\ UNCHANGED <<assembling, fetches>>
    BY <1>2 DEF WriterStep
  <2>2. /\ Head(sendQueue) \in RequestMessage
        /\ Tagged(Head(sendQueue))
        /\ \A i \in DOMAIN Tail(sendQueue) : Tagged(Tail(sendQueue)[i])
    BY <1>0, <1>2, TailHolds DEF WriterStep, IInv, MessagesTagged
  <2>3. \A i \in DOMAIN Append(stdout, Head(sendQueue)) :
          Tagged(Append(stdout, Head(sendQueue))[i])
    BY <1>0, <2>2, AppendHolds DEF IInv, MessagesTagged
  <2>4. MessagesTagged'
    BY <1>2, <2>1, <2>2, <2>3 DEF WriterStep, IInv, MessagesTagged, Tagged
  <2>5. OwnResponse'
    BY <2>1 DEF IInv, OwnResponse
  <2> QED
    BY <1>1, <2>1, <2>4, <2>5 DEF IInv
<1>3. CASE WriterFails
  <2>1. /\ UNCHANGED <<rid, counter, pc, pending, stdout, stdin, queue, out>>
        /\ UNCHANGED <<assembling, fetches>>
    BY <1>3 DEF WriterFails
  <2>2. \A i \in DOMAIN Tail(sendQueue) : Tagged(Tail(sendQueue)[i])
    BY <1>0, <1>3, TailHolds DEF WriterFails, IInv, MessagesTagged
  <2>3. MessagesTagged'
    BY <1>3, <2>1, <2>2 DEF WriterFails, IInv, MessagesTagged, Tagged
  <2>4. OwnResponse'
    BY <2>1 DEF IInv, OwnResponse
  <2> QED
    BY <1>1, <2>1, <2>3, <2>4 DEF IInv
<1>4. CASE ReaderStart \/ ReaderStops \/ ReaderClears \/ \E c \in waking : SetEvent(c)
  <2>1. /\ UNCHANGED <<rid, counter, pc, stdout, stdin, sendQueue, queue, out>>
        /\ UNCHANGED <<assembling, fetches>>
        /\ pending' \subseteq pending
    BY <1>4 DEF ReaderStart, ReaderStops, ReaderClears, SetEvent
  <2>2. MessagesTagged' /\ OwnResponse'
    BY <2>1 DEF IInv, MessagesTagged, Tagged, OwnResponse
  <2> QED
    BY <1>1, <2>1, <2>2 DEF IInv
<1>5. CASE Dispatch
  <2>1. /\ UNCHANGED <<rid, counter, pc, pending, stdout, sendQueue, out>>
        /\ UNCHANGED <<assembling, fetches>>
    BY <1>5 DEF Dispatch
  <2>2. /\ Head(stdin) \in ResponseMessage
        /\ Tagged(Head(stdin))
        /\ \A i \in DOMAIN Tail(stdin) : Tagged(Tail(stdin)[i])
    BY <1>0, <1>5, TailHolds DEF Dispatch, IInv, MessagesTagged
  <2>3. MessagesTagged'
    BY <1>5, <2>1, <2>2 DEF Dispatch, IInv, MessagesTagged, Tagged
  <2>4. QueuesOwn'
    <3>1. CASE \E c \in pending : rid[c] = Head(stdin).id /\ Handler(c, Head(stdin))
      BY <2>2, <3>1, HandlerOwn, OwnHalves DEF IInv, TypeOK, HostTypeOK
    <3>2. CASE queue' = queue
      BY <3>2, OwnHalves DEF IInv, QueuesOwn
    <3> QED
      BY <1>5, <3>1, <3>2 DEF Dispatch
  <2>5. OwnResponse'
    BY <2>1, <2>4, OwnHalves DEF IInv, OwnResponse, QueuesOwn, OutsOwn
  <2> QED
    BY <1>1, <2>1, <2>3, <2>5 DEF IInv
<1>6. CASE \E id \in notify : Notify(id)
  <2> PICK id \in notify : Notify(id)
    BY <1>6
  <2>1. /\ UNCHANGED <<rid, counter, pc, pending, stdout, stdin, sendQueue, out>>
        /\ UNCHANGED <<assembling, fetches>>
    BY DEF Notify
  <2>2. MessagesTagged'
    BY <2>1 DEF IInv, MessagesTagged, Tagged
  <2>3. QueuesOwn'
    <3> DEFINE lost(c) == [type |-> "error", id |-> id, origin |-> c, k |-> 0]
    <3>1. CASE \E c \in pending : rid[c] = id /\ Handler(c, lost(c))
      <4> PICK c \in pending : rid[c] = id /\ Handler(c, lost(c))
        BY <3>1
      <4>1. c \in Calls /\ id # 0 /\ id \in Nat
        BY DEF IInv, IdsAllocated, TypeOK, HostTypeOK
      <4>2. lost(c) \in ResponseMessage /\ Tagged(lost(c)) /\ rid[c] = lost(c).id
        BY <4>1 DEF ResponseMessage, Message, Tagged
      <4> HIDE DEF lost
      <4> QED
        BY <4>1, <4>2, HandlerOwn, OwnHalves DEF IInv
    <3>2. CASE queue' = queue
      BY <3>2, OwnHalves DEF IInv, QueuesOwn
    <3> QED
      BY <3>1, <3>2 DEF Notify
  <2>4. OwnResponse'
    BY <2>1, <2>3, OwnHalves DEF IInv, OwnResponse, QueuesOwn, OutsOwn
  <2> QED
    BY <1>1, <2>1, <2>2, <2>4 DEF IInv
<1> QED
  BY <1>2, <1>3, <1>4, <1>5, <1>6 DEF ReaderStep

(* The extension answers with the id it was asked with. *)
LEMMA ExtKeeps ==
  ASSUME TypeOK, IInv, ExtNext, UNCHANGED hostVars
  PROVE  IInv'
<1>0. UNCHANGED <<rid, counter, pc, pending, sendQueue, queue, out>>
  BY DEF hostVars, callVars
<1>1. IdsUnique' /\ IdsAllocated' /\ OwnResponse'
  BY <1>0 DEF IInv, IdsUnique, IdsAllocated, OwnResponse
<1>2. stdout \in Seq(RequestMessage) /\ stdin \in Seq(ResponseMessage)
  BY DEF TypeOK, ChannelTypeOK
<1>3. ASSUME NEW type, Receive(type)
      PROVE  /\ stdin' = stdin
             /\ Tagged(Head(stdout))
             /\ \A i \in DOMAIN stdout' : Tagged(stdout'[i])
  BY <1>2, <1>3, TailHolds DEF Receive, IInv, MessagesTagged
<1>4. CASE HandleRequestStart
  <2>1. \A a \in assembling' : Tagged(a)
    BY <1>3, <1>4 DEF HandleRequestStart, IInv, MessagesTagged, Tagged
  <2>2. MessagesTagged'
    BY <1>0, <1>3, <1>4, <2>1
       DEF HandleRequestStart, IInv, MessagesTagged, Tagged
  <2> QED
    BY <1>1, <2>2 DEF IInv
<1>5. CASE HandleRequestChunk
  <2> DEFINE slice == [origin |-> Head(stdout).origin, k |-> Head(stdout).k]
             Grow(a) == [a EXCEPT !.chunks = Append(@, slice)]
  <2>1. \A a \in assembling : Grow(a).id = a.id /\ Grow(a).origin = a.origin
    BY DEF TypeOK, ExtTypeOK
  <2>a. \A a \in assembling' : \E b \in assembling : a = b \/ a = Grow(b)
    BY <1>5 DEF HandleRequestChunk
  <2>2. \A a \in assembling' : Tagged(a)
    <3> HIDE DEF Grow
    <3> QED
      BY <2>1, <2>a DEF IInv, MessagesTagged, Tagged
  <2>3. MessagesTagged'
    BY <1>0, <1>3, <1>5, <2>2
       DEF HandleRequestChunk, IInv, MessagesTagged, Tagged
  <2> QED
    BY <1>1, <2>3 DEF IInv
<1>6. CASE HandleRequestEnd
  <2>1. /\ \A a \in assembling' : Tagged(a)
        /\ \A f \in fetches' : Tagged(f)
    BY <1>6 DEF HandleRequestEnd, IInv, MessagesTagged, Tagged
  <2>2. MessagesTagged'
    BY <1>0, <1>3, <1>6, <2>1 DEF HandleRequestEnd, IInv, MessagesTagged, Tagged
  <2> QED
    BY <1>1, <2>2 DEF IInv
<1>7. ASSUME NEW f \in fetches,
             FetchResponds(f) \/ FetchChunk(f) \/ FetchEnds(f) \/ FetchFails(f)
      PROVE  IInv'
  <2> DEFINE Posted(type, k) ==
        [type |-> type, id |-> f.id, origin |-> f.origin, k |-> k]
  <2>1. \A type \in {"response", "chunk", "end", "error"} : \A k \in Nat :
          Posted(type, k) \in ResponseMessage /\ Tagged(Posted(type, k))
    BY DEF TypeOK, ExtTypeOK, ResponseMessage, Message, IInv, MessagesTagged,
           Tagged
  <2>2. f.sent + 1 \in Nat /\ 0 \in Nat
    BY DEF TypeOK, ExtTypeOK
  <2>3. /\ stdout' = stdout
        /\ assembling' = assembling
        /\ \/ stdin' = stdin
           \/ \E type \in {"response", "chunk", "end", "error"} : \E k \in Nat :
                stdin' = Append(stdin, Posted(type, k))
    BY <1>7, <2>2
       DEF FetchResponds, FetchChunk, FetchEnds, FetchFails, SafeSend
  <2>4. \A i \in DOMAIN stdin' : Tagged(stdin'[i])
    <3> HIDE DEF Posted
    <3>1. \A i \in DOMAIN stdin : Tagged(stdin[i])
      BY DEF IInv, MessagesTagged
    <3>2. ASSUME NEW m \in ResponseMessage, Tagged(m), stdin' = Append(stdin, m)
          PROVE  \A i \in DOMAIN stdin' : Tagged(stdin'[i])
      BY <1>2, <3>1, <3>2, AppendHolds
    <3> QED
      BY <2>1, <2>3, <3>1, <3>2
  <2>5. /\ [f EXCEPT !.responded = TRUE].id = f.id
        /\ [f EXCEPT !.responded = TRUE].origin = f.origin
        /\ [f EXCEPT !.sent = @ + 1].id = f.id
        /\ [f EXCEPT !.sent = @ + 1].origin = f.origin
    BY DEF TypeOK, ExtTypeOK
  <2>6. \A g \in fetches' : Tagged(g)
    <3>1. \A g \in fetches : Tagged(g)
      BY DEF IInv, MessagesTagged
    <3>2. Tagged([f EXCEPT !.responded = TRUE]) /\ Tagged([f EXCEPT !.sent = @ + 1])
      BY <2>5, <3>1 DEF Tagged
    <3> QED
      BY <1>7, <3>1, <3>2
         DEF FetchResponds, FetchChunk, FetchEnds, FetchFails, Becomes
  <2>7. MessagesTagged'
    BY <1>0, <2>3, <2>4, <2>6 DEF IInv, MessagesTagged, Tagged
  <2> QED
    BY <1>1, <2>7 DEF IInv
<1> QED
  BY <1>4, <1>5, <1>6, <1>7 DEF ExtNext

(***************************************************************************)
(* The inductive invariant holds in every reachable state.                 *)
(***************************************************************************)
THEOREM IdsFollowed == Spec => []IInv
<1>1. TypeOK /\ IInv /\ [Next]_vars => IInv'
  <2> SUFFICES ASSUME TypeOK, IInv, [Next]_vars
               PROVE  IInv'
    OBVIOUS
  <2>1. CASE HostNext /\ UNCHANGED extVars
    BY <2>1, CallKeeps, ThreadKeeps DEF HostNext
  <2>2. CASE ExtNext /\ UNCHANGED hostVars
    BY <2>2, ExtKeeps
  <2>3. CASE PortCloses /\ UNCHANGED <<hostVars, extVars>>
    <3>1. /\ UNCHANGED <<rid, counter, pc, pending, sendQueue, queue, out>>
          /\ UNCHANGED <<assembling, fetches, stdin>>
          /\ stdout' = <<>>
      BY <2>3 DEF PortCloses, hostVars, callVars, extVars
    <3>2. IdsUnique' /\ IdsAllocated' /\ OwnResponse'
      BY <3>1 DEF IInv, IdsUnique, IdsAllocated, OwnResponse
    <3>3. DOMAIN stdout' = {}
      BY <3>1
    <3>4. MessagesTagged'
      BY <3>1, <3>3 DEF IInv, MessagesTagged, Tagged
    <3> QED
      BY <3>2, <3>4 DEF IInv
  <2>4. CASE UNCHANGED vars
    <3>1. /\ UNCHANGED <<rid, counter, pc, pending, sendQueue, queue, out>>
          /\ UNCHANGED <<assembling, fetches, stdin, stdout>>
      BY <2>4 DEF vars, channelVars, hostVars, callVars, extVars
    <3> QED
      BY <3>1 DEF IInv, IdsUnique, IdsAllocated, MessagesTagged, Tagged,
                  OwnResponse
  <2> QED
    BY <2>1, <2>2, <2>3, <2>4 DEF Next
<1> QED
  BY <1>1, InitIInv, TypeCorrect, PTL DEF Spec

(***************************************************************************)
(* No client receives, and no call holds, a piece of the answer to another *)
(* request, however many requests run at once and whatever fails.          *)
(***************************************************************************)
THEOREM NeverMixedUp == Spec => []OwnResponse
<1>1. IInv => OwnResponse
  BY DEF IInv
<1> QED
  BY <1>1, IdsFollowed, PTL

---------------------------------------------------------------------------
(***************************************************************************)
(* The way of a request: from the puts of nm_send_request through the      *)
(* queue, the writer thread and the pipe into pendingRequests and into a   *)
(* fetch.                                                                  *)
(*                                                                         *)
(* BodyAssembled is not inductive: that the body of a fetch is whole when  *)
(* request_end comes depends on every slice that came before it.           *)
(* RequestInv says of both pipes and of the requests under assembly which  *)
(* messages are where: those of one call keep their order (Increasing),    *)
(* none is missing in between (NoneMissing), and what has been assembled   *)
(* is what has left the pipes (AssembledInOrder).  IInv says that an entry *)
(* of pendingRequests is found by the messages of its own call alone.      *)
(***************************************************************************)

---------------------------------------------------------------------------
(* Pipes that carry the numbered messages of several calls. *)

(* The messages of one call keep the order of their numbers. *)
Increasing(s) ==
  \A i, j \in DOMAIN s : i < j /\ s[i].origin = s[j].origin => s[i].k < s[j].k

(* The k-th message of c is in the pipe. *)
Carries(s, c, k) == \E i \in DOMAIN s : s[i].origin = c /\ s[i].k = k

(* The message before the i-th, of the same call, is ahead of it. *)
Preceded(s, i) ==
  \E j \in DOMAIN s : j < i /\ s[j].origin = s[i].origin /\ s[j].k = s[i].k - 1

(* Indices of a pipe from which the first message is taken. *)
LEMMA TailShifts ==
  ASSUME NEW S, NEW s \in Seq(S), s # <<>>
  PROVE  /\ \A i \in DOMAIN Tail(s) :
              i \in Nat /\ i + 1 \in DOMAIN s /\ Tail(s)[i] = s[i + 1]
         /\ \A j \in DOMAIN s :
              j = 1 \/ (j - 1 \in DOMAIN Tail(s) /\ Tail(s)[j - 1] = s[j])
         /\ 1 \in DOMAIN s /\ Head(s) = s[1]
         /\ \A j \in DOMAIN s : j \in Nat /\ j >= 1
OBVIOUS

(* Indices of a pipe into which a message is put. *)
LEMMA AppendShifts ==
  ASSUME NEW S, NEW s \in Seq(S), NEW e \in S
  PROVE  /\ DOMAIN Append(s, e) = DOMAIN s \cup {Len(s) + 1}
         /\ \A i \in DOMAIN s :
              i \in Nat /\ i < Len(s) + 1 /\ Append(s, e)[i] = s[i]
         /\ Append(s, e)[Len(s) + 1] = e
         /\ Len(s) + 1 \in Nat
OBVIOUS

(* Taking the first message leaves the others in order. *)
LEMMA TailInOrder ==
  ASSUME NEW S, NEW s \in Seq(S), s # <<>>, Increasing(s)
  PROVE  /\ Increasing(Tail(s))
         /\ \A i \in DOMAIN Tail(s) :
              Tail(s)[i].origin = Head(s).origin => Head(s).k < Tail(s)[i].k
<1>1. /\ \A i \in DOMAIN Tail(s) :
           i \in Nat /\ i + 1 \in DOMAIN s /\ Tail(s)[i] = s[i + 1]
      /\ 1 \in DOMAIN s /\ Head(s) = s[1]
  BY TailShifts
<1>2. Increasing(Tail(s))
  BY <1>1 DEF Increasing
<1>3. \A i \in DOMAIN Tail(s) : i + 1 > 1
  BY DEF Increasing
<1> QED
  BY <1>1, <1>2, <1>3 DEF Increasing

(* A message with a number above those of its call goes to the end. *)
LEMMA AppendInOrder ==
  ASSUME NEW S, NEW s \in Seq(S), NEW e \in S, Increasing(s),
         \A i \in DOMAIN s : s[i].origin = e.origin => s[i].k < e.k
  PROVE  Increasing(Append(s, e))
<1>1. /\ DOMAIN Append(s, e) = DOMAIN s \cup {Len(s) + 1}
      /\ \A i \in DOMAIN s :
           i \in Nat /\ i < Len(s) + 1 /\ Append(s, e)[i] = s[i]
      /\ Append(s, e)[Len(s) + 1] = e
      /\ Len(s) + 1 \in Nat
  BY AppendShifts
<1>2. ASSUME NEW i \in DOMAIN Append(s, e), NEW j \in DOMAIN Append(s, e),
             i < j, Append(s, e)[i].origin = Append(s, e)[j].origin
      PROVE  Append(s, e)[i].k < Append(s, e)[j].k
  <2>1. i \in DOMAIN s
    BY <1>1, <1>2
  <2>2. CASE j \in DOMAIN s
    BY <1>1, <1>2, <2>1, <2>2 DEF Increasing
  <2>3. CASE j = Len(s) + 1
    BY <1>1, <1>2, <2>1, <2>3
  <2> QED
    BY <1>1, <2>2, <2>3
<1> QED
  BY <1>2 DEF Increasing

(* What is in a pipe after its first message has been taken. *)
LEMMA TailCarries ==
  ASSUME NEW S, NEW s \in Seq(S), s # <<>>, NEW c, NEW k, Carries(s, c, k)
  PROVE  Carries(Tail(s), c, k) \/ (Head(s).origin = c /\ Head(s).k = k)
<1>1. PICK i \in DOMAIN s : s[i].origin = c /\ s[i].k = k
  BY DEF Carries
<1>2. i = 1 \/ (i - 1 \in DOMAIN Tail(s) /\ Tail(s)[i - 1] = s[i])
  BY TailShifts
<1>3. Head(s) = s[1]
  BY TailShifts
<1> QED
  BY <1>1, <1>2, <1>3 DEF Carries

(* Who has lost its predecessor to Tail follows the head. *)
LEMMA TailPreceded ==
  ASSUME NEW S, NEW s \in Seq(S), s # <<>>,
         NEW i \in DOMAIN Tail(s), Preceded(s, i + 1)
  PROVE  \/ Preceded(Tail(s), i)
         \/ Head(s).origin = Tail(s)[i].origin /\ Head(s).k = Tail(s)[i].k - 1
<1>1. /\ i \in Nat /\ i + 1 \in DOMAIN s /\ Tail(s)[i] = s[i + 1]
      /\ \A j \in DOMAIN s :
           j = 1 \/ (j - 1 \in DOMAIN Tail(s) /\ Tail(s)[j - 1] = s[j])
      /\ 1 \in DOMAIN s /\ Head(s) = s[1]
      /\ \A j \in DOMAIN s : j \in Nat /\ j >= 1
  BY TailShifts
<1>2. PICK j \in DOMAIN s :
        j < i + 1 /\ s[j].origin = s[i + 1].origin /\ s[j].k = s[i + 1].k - 1
  BY DEF Preceded
<1>3. CASE j = 1
  BY <1>1, <1>2, <1>3
<1>4. CASE j # 1
  <2>1. j - 1 \in DOMAIN Tail(s) /\ Tail(s)[j - 1] = s[j] /\ j - 1 < i
    BY <1>1, <1>2, <1>4
  <2> QED
    BY <1>1, <1>2, <2>1 DEF Preceded
<1> QED
  BY <1>3, <1>4

(* What is in a pipe after a message has been put into it. *)
LEMMA AppendCarries ==
  ASSUME NEW S, NEW s \in Seq(S), NEW e \in S
  PROVE  /\ \A c, k : Carries(s, c, k) => Carries(Append(s, e), c, k)
         /\ Carries(Append(s, e), e.origin, e.k)
         /\ \A i \in DOMAIN s : Preceded(s, i) => Preceded(Append(s, e), i)
         /\ Carries(s, e.origin, e.k - 1) => Preceded(Append(s, e), Len(s) + 1)
<1>1. /\ DOMAIN Append(s, e) = DOMAIN s \cup {Len(s) + 1}
      /\ \A i \in DOMAIN s :
           i \in Nat /\ i < Len(s) + 1 /\ Append(s, e)[i] = s[i]
      /\ Append(s, e)[Len(s) + 1] = e
  BY AppendShifts
<1>2. \A c, k : Carries(s, c, k) => Carries(Append(s, e), c, k)
  BY <1>1 DEF Carries
<1>3. Carries(Append(s, e), e.origin, e.k)
  BY <1>1 DEF Carries
<1>4. \A i \in DOMAIN s : Preceded(s, i) => Preceded(Append(s, e), i)
  BY <1>1 DEF Preceded
<1>5. Carries(s, e.origin, e.k - 1) => Preceded(Append(s, e), Len(s) + 1)
  BY <1>1 DEF Preceded, Carries
<1> QED
  BY <1>2, <1>3, <1>4, <1>5

---------------------------------------------------------------------------
(* Two pipes in a row: what the writer moves stays where it is. *)
LEMMA PipesJoined ==
  ASSUME NEW S, NEW s \in Seq(S), NEW t \in Seq(S)
  PROVE  /\ s \o t \in Seq(S)
         /\ t # <<>> => Append(s, Head(t)) \o Tail(t) = s \o t
         /\ s # <<>> => /\ s \o t # <<>>
                        /\ Head(s \o t) = Head(s)
                        /\ Tail(s \o t) = Tail(s) \o t
         /\ \A e \in S : s \o Append(t, e) = Append(s \o t, e)
<1>1. s \o t \in Seq(S)
  OBVIOUS
<1>2. ASSUME t # <<>>
      PROVE  Append(s, Head(t)) \o Tail(t) = s \o t
  BY <1>2
<1>3. ASSUME s # <<>>
      PROVE  /\ s \o t # <<>>
             /\ Head(s \o t) = Head(s)
             /\ Tail(s \o t) = Tail(s) \o t
  BY <1>3
<1>4. \A e \in S : s \o Append(t, e) = Append(s \o t, e)
  OBVIOUS
<1> QED
  BY <1>1, <1>2, <1>3, <1>4

---------------------------------------------------------------------------
(* The inductive invariant of the requests. *)

(* The messages of the calls that the extension can still read: what is     *)
(* queued behind a writer thread that has gone will never be sent.          *)
Requests == IF writerUp THEN stdout \o sendQueue ELSE stdout

(* nm_send_request of c has enqueued what its place in the code says. *)
SentInStep ==
  \A c \in Calls :
    /\ pc[c] \in {"idle", "alloc", "register"} => sent[c] = 0
    /\ pc[c] = "send" => sent[c] <= ReqLen[c] + 1
    /\ sent[c] <= ReqLen[c] + 2

(* A message is the one that its call has put there with this number. *)
Enqueued(m) ==
  /\ m.k < sent[m.origin]
  /\ m.type = ReqMessage(m.origin, m.k).type

(* c is under assembly in A and n slices of its body have come. *)
Assembled(A, c, n) == \E a \in A : a.origin = c /\ Len(a.chunks) = n

(* What precedes a message is in the pipes too, or has been assembled. *)
NoneMissing ==
  /\ \A i \in DOMAIN Requests :
       Requests[i].k > 0 =>
         Preceded(Requests, i) \/ Assembled(assembling, Requests[i].origin, Requests[i].k - 1)
  /\ \A c \in Calls :
       writerUp /\ pc[c] = "send" /\ sent[c] > 0 =>
         Carries(Requests, c, sent[c] - 1) \/ Assembled(assembling, c, sent[c] - 1)

(* What has been assembled are the first slices of one body. *)
Slices(a) == \A i \in DOMAIN a.chunks : a.chunks[i] = [origin |-> a.origin, k |-> i]

(* a is behind the messages of its call that are still to come. *)
Behind(a) ==
  /\ Len(a.chunks) < sent[a.origin]
  /\ \A i \in DOMAIN Requests :
       Requests[i].origin = a.origin => Len(a.chunks) < Requests[i].k

AssembledInOrder ==
  /\ \A a \in assembling : Slices(a) /\ Behind(a)
  /\ \A a, b \in assembling : a.origin = b.origin => a = b

(* When Chrome has closed the port, what is left in the pipes is lost and  *)
(* no further request is assembled.                                        *)
RequestsInOrder ==
  /\ \A i \in DOMAIN Requests : Enqueued(Requests[i])
  /\ Increasing(Requests)
  /\ NoneMissing
  /\ AssembledInOrder

RequestInv == SentInStep /\ (portOpen => RequestsInOrder) /\ BodyAssembled

(* The types of what RequestInv speaks of. *)
LEMMA RequestTypes ==
  ASSUME TypeOK
  PROVE  /\ Requests \in Seq(RequestMessage)
         /\ stdout \in Seq(RequestMessage) /\ sendQueue \in Seq(RequestMessage)
         /\ \A i \in DOMAIN Requests :
              Requests[i] \in RequestMessage /\ Requests[i].k \in Nat
                /\ Requests[i].origin \in Calls
         /\ sent \in [Calls -> Nat] /\ pc \in [Calls -> PCs]
         /\ \A c \in Calls : sent[c] \in Nat /\ ReqLen[c] \in Nat
         /\ \A a \in assembling :
              a.origin \in Calls /\ a.chunks \in Seq(Slice) /\ Len(a.chunks) \in Nat
<1>1. stdout \in Seq(RequestMessage) /\ sendQueue \in Seq(RequestMessage)
  BY DEF TypeOK, ChannelTypeOK, HostTypeOK
<1>2. Requests \in Seq(RequestMessage)
  BY <1>1, PipesJoined DEF Requests
<1>3. \A m \in RequestMessage : m.k \in Nat /\ m.origin \in Calls
  BY DEF RequestMessage, Message
<1>4. \A i \in DOMAIN Requests : Requests[i] \in RequestMessage
  BY <1>2
<1>5. \A a \in assembling :
        a.origin \in Calls /\ a.chunks \in Seq(Slice) /\ Len(a.chunks) \in Nat
  BY DEF TypeOK, ExtTypeOK
<1> QED
  BY <1>1, <1>2, <1>3, <1>4, <1>5, LengthsAssumption DEF TypeOK, HostTypeOK

(* The initial states satisfy the invariant. *)
LEMMA InitRequestInv == Init => RequestInv
<1> SUFFICES ASSUME Init PROVE RequestInv
  OBVIOUS
<1>1. SentInStep
  <2> SUFFICES ASSUME NEW c \in Calls
               PROVE  sent[c] = 0 /\ sent[c] <= ReqLen[c] + 1
                        /\ sent[c] <= ReqLen[c] + 2
    BY DEF SentInStep
  <2>1. sent[c] = 0 /\ ReqLen[c] \in Nat
    BY LengthsAssumption DEF Init, HostInit
  <2> QED
    BY <2>1
<1>2. DOMAIN Requests = {} /\ assembling = {} /\ fetches = {}
  BY DEF Init, ChannelInit, HostInit, ExtInit, Requests
<1>3. \A c \in Calls : pc[c] # "send"
  BY DEF Init, HostInit
<1> QED
  BY <1>1, <1>2, <1>3 DEF RequestInv, RequestsInOrder, NoneMissing, Increasing,
     AssembledInOrder, BodyAssembled

(* A beginning of a pipe is in order when the pipe is. *)
LEMMA PrefixInOrder ==
  ASSUME NEW S, NEW s \in Seq(S), NEW t \in Seq(S)
  PROVE  /\ \A i \in DOMAIN s : i \in DOMAIN (s \o t) /\ (s \o t)[i] = s[i]
         /\ \A i \in DOMAIN s : Preceded(s \o t, i) => Preceded(s, i)
         /\ Increasing(s \o t) => Increasing(s)
<1>1. /\ \A i \in DOMAIN s : i \in DOMAIN (s \o t) /\ (s \o t)[i] = s[i]
      /\ \A i \in DOMAIN s, j \in DOMAIN (s \o t) : j < i => j \in DOMAIN s
  OBVIOUS
<1>2. \A i \in DOMAIN s : Preceded(s \o t, i) => Preceded(s, i)
  BY <1>1 DEF Preceded
<1>3. Increasing(s \o t) => Increasing(s)
  BY <1>1 DEF Increasing
<1> QED
  BY <1>1, <1>2, <1>3

(* The writer thread leaves its loop: what it had not written is lost. *)
LEMMA WriterFailsInOrder ==
  ASSUME TypeOK, RequestInv, WriterFails, UNCHANGED extVars
  PROVE  RequestInv'
<1>1. /\ UNCHANGED <<stdout, sent, pc, assembling, portOpen, fetches>>
      /\ writerUp /\ ~writerUp'
  BY DEF WriterFails, callVars, channelVars, extVars
<1>2. SentInStep' /\ BodyAssembled'
  BY <1>1 DEF RequestInv, SentInStep, BodyAssembled, WholeRequest
<1>3. Requests' = stdout /\ Requests = stdout \o sendQueue
  BY <1>1 DEF Requests
<1>4. /\ \A i \in DOMAIN stdout : i \in DOMAIN Requests /\ Requests[i] = stdout[i]
      /\ \A i \in DOMAIN stdout : Preceded(Requests, i) => Preceded(stdout, i)
      /\ Increasing(Requests) => Increasing(stdout)
  BY <1>3, RequestTypes, PrefixInOrder
<1>5. ASSUME portOpen
      PROVE  RequestsInOrder'
  <2>0. RequestsInOrder
    BY <1>5 DEF RequestInv
  <2>1. \A i \in DOMAIN Requests' : Enqueued(Requests[i])'
    BY <1>1, <1>3, <1>4, <2>0 DEF RequestsInOrder, Enqueued, ReqMessage
  <2>2. Increasing(Requests)'
    BY <1>3, <1>4, <2>0 DEF RequestsInOrder, Increasing
  <2>3. NoneMissing'
    <3>1. \A i \in DOMAIN stdout : stdout[i].k > 0 =>
            Preceded(stdout, i) \/ Assembled(assembling, stdout[i].origin, stdout[i].k - 1)
      BY <1>4, <2>0 DEF RequestsInOrder, NoneMissing
    <3> QED
      BY <1>1, <1>3, <3>1 DEF NoneMissing, Preceded, Assembled
  <2>a. \A a \in assembling : Behind(a)'
    BY <1>1, <1>3, <1>4, <2>0 DEF RequestsInOrder, AssembledInOrder, Behind
  <2>4. AssembledInOrder'
    BY <1>1, <2>0, <2>a DEF RequestsInOrder, AssembledInOrder, Behind, Slices
  <2> QED
    BY <2>1, <2>2, <2>3, <2>4 DEF RequestsInOrder
<1> QED
  BY <1>1, <1>2, <1>5 DEF RequestInv

(* Steps that leave the requests alone.  The first disjunct is a step      *)
(* after which the port is closed.                                         *)
LEMMA RequestsAlone ==
  ASSUME TypeOK, RequestInv,
         ~portOpen' \/ UNCHANGED <<Requests, assembling, portOpen, writerUp>>,
         BodyAssembled', UNCHANGED sent,
         \A c \in Calls : pc'[c] \in {"idle", "alloc", "register"}
                             => pc[c] \in {"idle", "alloc", "register"},
         \A c \in Calls : pc'[c] = "send" => pc[c] \in {"register", "send"}
  PROVE  RequestInv'
<1>1. SentInStep'
  BY RequestTypes DEF RequestInv, SentInStep
<1>3. CASE ~portOpen'
  BY <1>1, <1>3 DEF RequestInv
<1>4. CASE portOpen' /\ UNCHANGED <<Requests, assembling, portOpen, writerUp>>
  <2>1. RequestsInOrder
    BY <1>4 DEF RequestInv
  <2>2. NoneMissing'
    <3>1. \A c \in Calls : pc'[c] = "send" /\ sent[c] > 0 => pc[c] = "send"
      BY DEF RequestInv, SentInStep
    <3> QED
      BY <1>4, <2>1, <3>1
         DEF RequestsInOrder, NoneMissing, Preceded, Carries, Assembled
  <2>3. AssembledInOrder' /\ Increasing(Requests)'
    BY <1>4, <2>1 DEF RequestsInOrder, AssembledInOrder, Behind, Slices, Increasing
  <2>4. \A i \in DOMAIN Requests' : Enqueued(Requests[i])'
    BY <1>4, <2>1 DEF RequestsInOrder, Enqueued, ReqMessage
  <2> QED
    BY <1>1, <2>2, <2>3, <2>4 DEF RequestInv, RequestsInOrder
<1> QED
  BY <1>3, <1>4

(* nm_send_request puts the message that comes next. *)
LEMMA SendInOrder ==
  ASSUME TypeOK, RequestInv, NEW c \in Calls, SendNext(c), UNCHANGED extVars
  PROVE  RequestInv'
<1> DEFINE m == ReqMessage(c, sent[c])
<1>0. /\ Requests \in Seq(RequestMessage)
      /\ \A i \in DOMAIN Requests :
           Requests[i] \in RequestMessage /\ Requests[i].k \in Nat
             /\ Requests[i].origin \in Calls
      /\ sent \in [Calls -> Nat] /\ pc \in [Calls -> PCs]
      /\ \A d \in Calls : sent[d] \in Nat /\ ReqLen[d] \in Nat
      /\ \A a \in assembling : a.origin \in Calls /\ Len(a.chunks) \in Nat
  BY RequestTypes
<1>1. m \in RequestMessage /\ m.origin = c /\ m.k = sent[c]
  BY <1>0 DEF ReqMessage, RequestMessage, Message, TypeOK, HostTypeOK
<1>2. /\ UNCHANGED <<assembling, fetches, portOpen>>
      /\ sent' = [sent EXCEPT ![c] = @ + 1]
      /\ pc[c] = "send"
      /\ pc' = [pc EXCEPT ![c] = IF sent[c] = ReqLen[c] + 1 THEN "header" ELSE "send"]
  BY DEF SendNext, Goes, channelVars, extVars
<1>3. /\ writerUp' = writerUp
      /\ writerUp => Requests' = Append(Requests, m)
      /\ ~writerUp => Requests' = Requests
  <2> HIDE DEF m
  <2>1. /\ sendQueue' = Append(sendQueue, m) /\ stdout' = stdout
        /\ writerUp' = writerUp
    BY DEF SendNext, channelVars, m
  <2> QED
    BY <1>1, <2>1, PipesJoined, RequestTypes DEF Requests
<1>4. /\ sent'[c] = sent[c] + 1
      /\ \A d \in Calls \ {c} : sent'[d] = sent[d] /\ pc'[d] = pc[d]
      /\ \A d \in Calls : sent[d] <= sent'[d] /\ sent'[d] \in Nat
  BY <1>0, <1>2
<1>5. SentInStep'
  <2>1. ASSUME NEW d \in Calls, d # c
        PROVE  /\ pc'[d] \in {"idle", "alloc", "register"} => sent'[d] = 0
               /\ pc'[d] = "send" => sent'[d] <= ReqLen[d] + 1
               /\ sent'[d] <= ReqLen[d] + 2
    BY <1>4, <2>1 DEF RequestInv, SentInStep
  <2>2. sent[c] <= ReqLen[c] + 1
    BY <1>2 DEF RequestInv, SentInStep
  <2>3. /\ pc'[c] \notin {"idle", "alloc", "register"}
        /\ pc'[c] = "send" => sent'[c] <= ReqLen[c] + 1
        /\ sent'[c] <= ReqLen[c] + 2
    BY <1>0, <1>2, <1>4, <2>2
  <2> QED
    BY <2>1, <2>3 DEF SentInStep
<1>6. BodyAssembled'
  BY <1>2 DEF RequestInv, BodyAssembled, WholeRequest
<1>8. ASSUME portOpen, ~writerUp
      PROVE  RequestsInOrder'
  <2>0. RequestsInOrder /\ Requests' = Requests /\ ~writerUp'
    BY <1>3, <1>8 DEF RequestInv
  <2>1. \A i \in DOMAIN Requests : Enqueued(Requests[i])'
    BY <1>0, <1>4, <2>0 DEF RequestsInOrder, Enqueued, ReqMessage
  <2>2. Increasing(Requests)' /\ NoneMissing'
    BY <1>2, <2>0 DEF RequestsInOrder, NoneMissing, Increasing, Preceded, Assembled
  <2>3. \A a \in assembling : Behind(a)'
    BY <1>0, <1>4, <2>0 DEF RequestsInOrder, AssembledInOrder, Behind
  <2>4. AssembledInOrder'
    BY <1>2, <2>0, <2>3 DEF RequestsInOrder, AssembledInOrder, Behind, Slices
  <2> QED
    BY <2>0, <2>1, <2>2, <2>4 DEF RequestsInOrder
<1>7. ASSUME portOpen, writerUp
      PROVE  RequestsInOrder'
  <2> HIDE DEF m
  <2>0. RequestsInOrder /\ Requests' = Append(Requests, m) /\ writerUp'
    BY <1>3, <1>7 DEF RequestInv
  <2>1. /\ DOMAIN Append(Requests, m) = DOMAIN Requests \cup {Len(Requests) + 1}
        /\ \A i \in DOMAIN Requests :
             i \in Nat /\ i < Len(Requests) + 1 /\ Append(Requests, m)[i] = Requests[i]
        /\ Append(Requests, m)[Len(Requests) + 1] = m
    BY <1>0, <1>1, AppendShifts
  <2>2. \A i \in DOMAIN Requests : Enqueued(Requests[i])
    BY <2>0 DEF RequestsInOrder
  <2>3. \A i \in DOMAIN Requests' : Enqueued(Requests[i])'
    <3>1. ASSUME NEW i \in DOMAIN Requests
          PROVE  /\ Requests'[i] = Requests[i]
                 /\ Requests[i].k < sent'[Requests[i].origin]
                 /\ Requests[i].type = ReqMessage(Requests[i].origin, Requests[i].k).type
      BY <2>0, <1>0, <1>4, <2>1, <2>2 DEF Enqueued
    <3>2. m.k < sent'[m.origin] /\ m.type = ReqMessage(m.origin, m.k).type
      BY <1>0, <1>1, <1>4 DEF m
    <3>3. \A d, k : ReqMessage(d, k).type = ReqMessage(d, k)'.type
      BY DEF ReqMessage
    <3> QED
      BY <2>0, <2>1, <3>1, <3>2, <3>3 DEF Enqueued, ReqMessage
  <2>4. Increasing(Requests)'
    <3>1. \A i \in DOMAIN Requests :
            Requests[i].origin = m.origin => Requests[i].k < m.k
      BY <1>1, <2>2 DEF Enqueued
    <3>2. Increasing(Append(Requests, m))
      BY <1>0, <1>1, <2>0, <3>1, AppendInOrder DEF RequestsInOrder
    <3> QED
      BY <2>0, <3>2 DEF Increasing
  <2>5. NoneMissing'
    <3>0. /\ \A d, k : Carries(Requests, d, k) => Carries(Append(Requests, m), d, k)
          /\ Carries(Append(Requests, m), m.origin, m.k)
          /\ \A i \in DOMAIN Requests :
               Preceded(Requests, i) => Preceded(Append(Requests, m), i)
          /\ Carries(Requests, m.origin, m.k - 1)
               => Preceded(Append(Requests, m), Len(Requests) + 1)
      BY <1>0, <1>1, AppendCarries
    <3>2. ASSUME NEW i \in DOMAIN Requests', Requests'[i].k > 0
          PROVE  \/ Preceded(Requests', i)
                 \/ Assembled(assembling, Requests'[i].origin, Requests'[i].k - 1)
      <4>1. CASE i \in DOMAIN Requests
        BY <2>0, <2>1, <3>0, <3>2, <4>1 DEF RequestsInOrder, NoneMissing
      <4>2. CASE i = Len(Requests) + 1
        BY <1>1, <1>2, <1>7, <2>0, <2>1, <3>0, <3>2, <4>2
           DEF RequestsInOrder, NoneMissing
      <4> QED
        BY <2>0, <2>1, <4>1, <4>2
    <3>3. ASSUME NEW d \in Calls, pc'[d] = "send", sent'[d] > 0
          PROVE  Carries(Requests', d, sent'[d] - 1) \/ Assembled(assembling, d, sent'[d] - 1)
      <4>1. CASE d = c
        BY <2>0, <1>0, <1>1, <1>4, <3>0, <4>1
      <4>2. CASE d # c
        BY <1>4, <1>7, <2>0, <3>0, <3>3, <4>2 DEF RequestsInOrder, NoneMissing
      <4> QED
        BY <4>1, <4>2
    <3> QED
      BY <1>2, <3>2, <3>3 DEF NoneMissing, Preceded, Carries, Assembled
  <2>6. AssembledInOrder'
    <3>1. ASSUME NEW a \in assembling
          PROVE  /\ Len(a.chunks) < sent'[a.origin]
                 /\ \A i \in DOMAIN Requests' :
                      Requests'[i].origin = a.origin => Len(a.chunks) < Requests'[i].k
      <4>1. Behind(a)
        BY <2>0 DEF RequestsInOrder, AssembledInOrder
      <4>2. sent[a.origin] \in Nat /\ sent'[a.origin] \in Nat
              /\ sent[a.origin] <= sent'[a.origin] /\ Len(a.chunks) \in Nat
        BY <1>0, <1>4
      <4>3. Len(a.chunks) < sent'[a.origin]
        BY <4>1, <4>2 DEF Behind
      <4>4. m.origin = a.origin => Len(a.chunks) < m.k
        BY <1>1, <4>1 DEF Behind
      <4> QED
        BY <2>0, <2>1, <4>1, <4>3, <4>4 DEF Behind
    <3> QED
      BY <1>2, <2>0, <3>1 DEF RequestsInOrder, AssembledInOrder, Slices, Behind
  <2> QED
    BY <2>3, <2>4, <2>5, <2>6 DEF RequestsInOrder
<1> QED
  BY <1>2, <1>5, <1>6, <1>7, <1>8 DEF RequestInv

(* dispatchMessage takes the first message; what it does to the assembled  *)
(* requests has to fit to that message.                                    *)
LEMMA ReceiveInOrder ==
  ASSUME TypeOK, RequestInv, NEW type, Receive(type), UNCHANGED hostVars,
         BodyAssembled', AssembledInOrder',
         \A a \in assembling :
           Requests[1].origin # a.origin => a \in assembling',
         Requests[1].type # "request_end" =>
           Assembled(assembling', Requests[1].origin, Requests[1].k),
         Requests[1].type = "request_end" => Requests[1].k = ReqLen[Requests[1].origin] + 1
  PROVE  RequestInv'
<1>0. /\ Requests \in Seq(RequestMessage)
      /\ stdout \in Seq(RequestMessage) /\ sendQueue \in Seq(RequestMessage)
      /\ \A i \in DOMAIN Requests :
           Requests[i] \in RequestMessage /\ Requests[i].k \in Nat
             /\ Requests[i].origin \in Calls
      /\ sent \in [Calls -> Nat]
      /\ \A d \in Calls : sent[d] \in Nat /\ ReqLen[d] \in Nat
  BY RequestTypes
<1>1. UNCHANGED <<sendQueue, sent, pc, portOpen, writerUp>>
  BY DEF hostVars, callVars, Receive
<1>2. RequestsInOrder
  BY DEF Receive, RequestInv
<1>3. /\ Requests # <<>> /\ Head(Requests) = Requests[1]
      /\ Requests' = Tail(Requests)
  <2>1. stdout # <<>> /\ stdout' = Tail(stdout)
    BY DEF Receive
  <2>2. Requests # <<>> /\ Requests' = Tail(Requests)
    <3>1. CASE writerUp
      BY <1>0, <1>1, <2>1, <3>1, PipesJoined DEF Requests
    <3>2. CASE ~writerUp
      BY <1>1, <2>1, <3>2 DEF Requests
    <3> QED
      BY <3>1, <3>2
  <2> QED
    BY <1>0, <2>2, TailShifts
<1>4. /\ \A i \in DOMAIN Tail(Requests) :
           i \in Nat /\ i + 1 \in DOMAIN Requests
             /\ Tail(Requests)[i] = Requests[i + 1]
      /\ 1 \in DOMAIN Requests
  BY <1>0, <1>3, TailShifts
<1>5. SentInStep'
  BY <1>1 DEF RequestInv, SentInStep
<1>6. \A i \in DOMAIN Requests' : Enqueued(Requests[i])'
  BY <1>1, <1>2, <1>3, <1>4 DEF RequestsInOrder, Enqueued, ReqMessage
<1>7. Increasing(Tail(Requests))
        /\ \A i \in DOMAIN Tail(Requests) :
             Tail(Requests)[i].origin = Requests[1].origin
               => Requests[1].k < Tail(Requests)[i].k
  BY <1>0, <1>2, <1>3, TailInOrder DEF RequestsInOrder
<1>8. Increasing(Requests)'
  BY <1>3, <1>7 DEF Increasing
<1>9. NoneMissing'
  <2>1. \A d, n : d # Requests[1].origin /\ Assembled(assembling, d, n) => Assembled(assembling', d, n)
    BY DEF Assembled
  <2>2. \A n : Assembled(assembling, Requests[1].origin, n) => n < Requests[1].k
    BY <1>2, <1>4 DEF RequestsInOrder, AssembledInOrder, Behind, Assembled
  <2>3. ASSUME NEW i \in DOMAIN Tail(Requests), Tail(Requests)[i].k > 0
        PROVE  \/ Preceded(Tail(Requests), i)
               \/ Assembled(assembling', Tail(Requests)[i].origin, Tail(Requests)[i].k - 1)
    <3>1. /\ Requests[i + 1] = Tail(Requests)[i]
          /\ i + 1 \in DOMAIN Requests
          /\ Requests[1].k \in Nat /\ Tail(Requests)[i].k \in Nat
      BY <1>0, <1>4
    <3>2. CASE Assembled(assembling, Requests[i + 1].origin, Requests[i + 1].k - 1)
      <4>1. Requests[i + 1].origin # Requests[1].origin
        BY <1>7, <2>2, <3>1, <3>2
      <4> QED
        BY <2>1, <3>1, <3>2, <4>1
    <3>3. CASE Preceded(Requests, i + 1)
      <4>1. CASE Preceded(Tail(Requests), i)
        BY <4>1
      <4>2. CASE /\ Requests[1].origin = Tail(Requests)[i].origin
                 /\ Requests[1].k = Tail(Requests)[i].k - 1
        <5>1. Requests[1].type # "request_end"
          <6> DEFINE d == Requests[1].origin
          <6>1. Requests[i + 1].k < sent[d] /\ Requests[i + 1].k = Requests[1].k + 1
            BY <1>0, <1>2, <3>1, <4>2 DEF RequestsInOrder, Enqueued
          <6>2. sent[d] <= ReqLen[d] + 2 /\ sent[d] \in Nat /\ ReqLen[d] \in Nat
            BY <1>0, <1>4 DEF RequestInv, SentInStep
          <6> HIDE DEF d
          <6>3. Requests[1].k # ReqLen[d] + 1
            BY <3>1, <6>1, <6>2
          <6> QED
            BY <6>3 DEF d
        <5> QED
          BY <4>2, <5>1
      <4> QED
        BY <1>0, <1>3, <3>3, <4>1, <4>2, TailPreceded
    <3> QED
      BY <1>2, <2>3, <3>1, <3>2, <3>3 DEF RequestsInOrder, NoneMissing
  <2>4. ASSUME writerUp, NEW d \in Calls, pc[d] = "send", sent[d] > 0
        PROVE  Carries(Tail(Requests), d, sent[d] - 1) \/ Assembled(assembling', d, sent[d] - 1)
    <3>1. CASE Assembled(assembling, d, sent[d] - 1)
      <4>1. d # Requests[1].origin
        <5>1. /\ Requests[1].k < sent[Requests[1].origin]
              /\ Requests[1].k \in Nat /\ sent[d] \in Nat
          BY <1>0, <1>2, <1>4 DEF RequestsInOrder, Enqueued
        <5> QED
          BY <2>2, <3>1, <5>1
      <4> QED
        BY <2>1, <3>1, <4>1
    <3>2. CASE Carries(Requests, d, sent[d] - 1)
      <4>1. CASE Requests[1].origin = d /\ Requests[1].k = sent[d] - 1
        <5>1. sent[d] <= ReqLen[d] + 1
          BY <2>4 DEF RequestInv, SentInStep
        <5>2. Requests[1].type # "request_end"
          BY <1>0, <4>1, <5>1
        <5> QED
          BY <4>1, <5>2
      <4> QED
        BY <1>0, <1>3, <3>2, <4>1, TailCarries
    <3> QED
      BY <1>2, <2>4, <3>1, <3>2 DEF RequestsInOrder, NoneMissing
  <2> QED
    BY <1>1, <1>3, <2>3, <2>4 DEF NoneMissing, Preceded, Carries, Assembled
<1> QED
  BY <1>5, <1>6, <1>8, <1>9 DEF RequestInv, RequestsInOrder

(* The message that the extension reads, and the entries of its id. *)
LEMMA ReceivedMessage ==
  ASSUME TypeOK, IInv, RequestInv, NEW type, Receive(type)
  PROVE  /\ RequestsInOrder
         /\ Head(stdout) = Requests[1] /\ 1 \in DOMAIN Requests
         /\ Head(stdout) \in RequestMessage
         /\ Head(stdout).origin \in Calls /\ Head(stdout).k \in Nat
         /\ sendQueue' = sendQueue /\ writerUp' = writerUp => Requests' = Tail(Requests)
         /\ \A i \in DOMAIN Tail(Requests) :
              /\ \E j \in DOMAIN Requests : Tail(Requests)[i] = Requests[j]
              /\ Tail(Requests)[i].origin = Head(stdout).origin
                   => Head(stdout).k < Tail(Requests)[i].k
         /\ \A a \in assembling :
              a.id = Head(stdout).id <=> a.origin = Head(stdout).origin
         /\ Head(stdout).k > 0
              => Assembled(assembling, Head(stdout).origin, Head(stdout).k - 1)
<1>0. /\ Requests \in Seq(RequestMessage)
      /\ stdout \in Seq(RequestMessage) /\ sendQueue \in Seq(RequestMessage)
      /\ \A i \in DOMAIN Requests : Requests[i].k \in Nat
  BY RequestTypes
<1>1. RequestsInOrder /\ stdout # <<>> /\ stdout' = Tail(stdout)
  BY DEF Receive, RequestInv
<1>2. /\ Requests # <<>> /\ Head(Requests) = Head(stdout)
      /\ writerUp => Tail(Requests) = Tail(stdout) \o sendQueue
      /\ ~writerUp => Tail(Requests) = Tail(stdout)
  <2>1. CASE writerUp
    BY <1>0, <1>1, <2>1, PipesJoined DEF Requests
  <2>2. CASE ~writerUp
    BY <1>1, <2>2 DEF Requests
  <2> QED
    BY <2>1, <2>2
<1>3. /\ Head(stdout) = Requests[1] /\ 1 \in DOMAIN Requests
      /\ \A i \in DOMAIN Tail(Requests) :
           \E j \in DOMAIN Requests : Tail(Requests)[i] = Requests[j]
  BY <1>0, <1>2, TailShifts
<1>4. Head(stdout) \in RequestMessage
  BY <1>0, <1>3
<1>5. Head(stdout).origin \in Calls /\ Head(stdout).k \in Nat
  BY <1>4 DEF RequestMessage, Message
<1>6. ASSUME sendQueue' = sendQueue, writerUp' = writerUp
      PROVE  Requests' = Tail(Requests)
  <2>1. CASE writerUp
    BY <1>1, <1>2, <1>6, <2>1 DEF Requests
  <2>2. CASE ~writerUp
    BY <1>1, <1>2, <1>6, <2>2 DEF Requests
  <2> QED
    BY <2>1, <2>2
<1>7. \A i \in DOMAIN Tail(Requests) :
        Tail(Requests)[i].origin = Head(stdout).origin
          => Head(stdout).k < Tail(Requests)[i].k
  BY <1>0, <1>1, <1>2, TailInOrder DEF RequestsInOrder
<1>8. \A a \in assembling :
        a.id = Head(stdout).id <=> a.origin = Head(stdout).origin
  <2>1. Tagged(Head(stdout))
    BY <1>0, <1>1, TailHolds DEF IInv, MessagesTagged
  <2>2. \A a \in assembling : Tagged(a) /\ a.origin \in Calls
    BY RequestTypes DEF IInv, MessagesTagged
  <2> QED
    BY <1>5, <2>1, <2>2 DEF IInv, IdsUnique, Tagged
<1>9. Head(stdout).k > 0
        => Assembled(assembling, Head(stdout).origin, Head(stdout).k - 1)
  <2>1. ~Preceded(Requests, 1)
    BY <1>0, <1>2, TailShifts DEF Preceded
  <2> QED
    BY <1>1, <1>3, <2>1 DEF RequestsInOrder, NoneMissing
<1> QED
  BY <1>1, <1>3, <1>4, <1>5, <1>6, <1>7, <1>8, <1>9

(* What the entries of the other calls have behind them stays so. *)
LEMMA OthersBehind ==
  ASSUME TypeOK, IInv, RequestInv, NEW type, Receive(type), UNCHANGED hostVars,
         NEW a \in assembling
  PROVE  Behind(a)'
<1>1. Requests' = Tail(Requests) /\ RequestsInOrder
  BY ReceivedMessage DEF hostVars
<1>2. \A i \in DOMAIN Tail(Requests) :
        \E j \in DOMAIN Requests : Tail(Requests)[i] = Requests[j]
  BY ReceivedMessage
<1>3. sent' = sent
  BY DEF hostVars, callVars
<1> QED
  BY <1>1, <1>2, <1>3 DEF RequestsInOrder, AssembledInOrder, Behind

(* An entry that holds everything up to the message just read. *)
LEMMA ReaderBehind ==
  ASSUME TypeOK, IInv, RequestInv, NEW type, Receive(type), UNCHANGED hostVars,
         NEW a, a.origin = Head(stdout).origin, Len(a.chunks) = Head(stdout).k
  PROVE  Behind(a)'
<1>1. Requests' = Tail(Requests) /\ RequestsInOrder
  BY ReceivedMessage DEF hostVars
<1>2. \A i \in DOMAIN Tail(Requests) :
        Tail(Requests)[i].origin = Head(stdout).origin
          => Head(stdout).k < Tail(Requests)[i].k
  BY ReceivedMessage
<1>3. Head(stdout).k < sent[Head(stdout).origin]
  BY <1>1, ReceivedMessage DEF RequestsInOrder, Enqueued
<1>4. sent' = sent
  BY DEF hostVars, callVars
<1> QED
  BY <1>1, <1>2, <1>3, <1>4 DEF Behind

(* request_start. *)
LEMMA StartInOrder ==
  ASSUME TypeOK, IInv, RequestInv, HandleRequestStart, UNCHANGED hostVars
  PROVE  RequestInv'
<1>0. Receive("request_start")
  BY DEF HandleRequestStart
<1> DEFINE h == Head(stdout)
<1>1. /\ RequestsInOrder /\ h = Requests[1] /\ 1 \in DOMAIN Requests
      /\ h.origin \in Calls /\ h.k \in Nat
      /\ \A a \in assembling : a.id = h.id <=> a.origin = h.origin
  BY <1>0, ReceivedMessage
<1>2. h.type = "request_start"
  BY <1>0 DEF Receive
<1>3. h.k = 0
  BY <1>1, <1>2 DEF RequestsInOrder, Enqueued, ReqMessage
<1>a. PICK entry : entry = [id |-> h.id, origin |-> h.origin, chunks |-> <<>>]
  OBVIOUS
<1>4. assembling' = {a \in assembling : a.origin # h.origin} \cup {entry}
  BY <1>1, <1>a DEF HandleRequestStart
<1>5. entry.origin = h.origin /\ entry.chunks = <<>> /\ Len(entry.chunks) = 0
  BY <1>a
<1> HIDE DEF h
<1>6. Behind(entry)'
  BY <1>0, <1>3, <1>5, ReaderBehind DEF h
<1>7. Slices(entry)
  <2>1. DOMAIN entry.chunks = {}
    BY <1>5
  <2> QED
    BY <2>1 DEF Slices
<1>8. AssembledInOrder'
  <2>1. \A a \in assembling : Slices(a) /\ Behind(a)'
    BY <1>0, <1>1, OthersBehind DEF RequestsInOrder, AssembledInOrder
  <2>2. \A a \in assembling' : Slices(a) /\ Behind(a)'
    BY <1>4, <1>6, <1>7, <2>1
  <2>3. \A a, b \in assembling' : a.origin = b.origin => a = b
    BY <1>1, <1>4, <1>5 DEF RequestsInOrder, AssembledInOrder
  <2> QED
    BY <2>2, <2>3 DEF AssembledInOrder, Slices, Behind
<1>9. BodyAssembled'
  BY DEF HandleRequestStart, RequestInv, BodyAssembled, WholeRequest
<1>10. /\ \A a \in assembling : h.origin # a.origin => a \in assembling'
       /\ Assembled(assembling', h.origin, h.k)
  BY <1>3, <1>4, <1>5 DEF Assembled
<1> QED
  BY <1>0, <1>1, <1>2, <1>8, <1>9, <1>10, ReceiveInOrder

(* request_chunk. *)
LEMMA ChunkInOrder ==
  ASSUME TypeOK, IInv, RequestInv, HandleRequestChunk, UNCHANGED hostVars
  PROVE  RequestInv'
<1>0. Receive("request_chunk")
  BY DEF HandleRequestChunk
<1> DEFINE h == Head(stdout)
           slice == [origin |-> h.origin, k |-> h.k]
           Grow(a) == [a EXCEPT !.chunks = Append(@, slice)]
<1>1. /\ RequestsInOrder /\ h = Requests[1] /\ 1 \in DOMAIN Requests
      /\ h.origin \in Calls /\ h.k \in Nat
      /\ \A a \in assembling : a.id = h.id <=> a.origin = h.origin
      /\ h.k > 0 => Assembled(assembling, h.origin, h.k - 1)
  BY <1>0, ReceivedMessage
<1>2. h.type = "request_chunk"
  BY <1>0 DEF Receive
<1>3. h.k > 0
  BY <1>1, <1>2 DEF RequestsInOrder, Enqueued, ReqMessage
<1>4. PICK a \in assembling : a.origin = h.origin /\ Len(a.chunks) = h.k - 1
  BY <1>1, <1>3 DEF Assembled
<1>b. PICK g : g = Grow(a)
  OBVIOUS
<1>5. assembling' = {b \in assembling : b.origin # h.origin} \cup {g}
  <2>1. \A b \in assembling : b.origin = h.origin => b = a
    BY <1>1, <1>4 DEF RequestsInOrder, AssembledInOrder
  <2>2. {b \in assembling : b.id = h.id} = {a}
    BY <1>1, <1>4, <2>1
  <2>3. {b \in assembling : b.id # h.id} = {b \in assembling : b.origin # h.origin}
    BY <1>1
  <2>4. assembling' = {b \in assembling : b.id # h.id}
                        \cup {Grow(b) : b \in {d \in assembling : d.id = h.id}}
    BY DEF HandleRequestChunk
  <2> HIDE DEF Grow, h
  <2> QED
    BY <1>b, <2>2, <2>3, <2>4
<1>6. /\ g.origin = h.origin
      /\ g.chunks = Append(a.chunks, slice)
      /\ a.chunks \in Seq(Slice) /\ slice \in Slice
  BY <1>1, <1>4, <1>b DEF TypeOK, ExtTypeOK, Slice
<1>7. Len(g.chunks) = h.k /\ Slices(g)
  <2>1. Slices(a)
    BY <1>1 DEF RequestsInOrder, AssembledInOrder
  <2>2. /\ DOMAIN Append(a.chunks, slice) = DOMAIN a.chunks \cup {Len(a.chunks) + 1}
        /\ \A i \in DOMAIN a.chunks : Append(a.chunks, slice)[i] = a.chunks[i]
        /\ Append(a.chunks, slice)[Len(a.chunks) + 1] = slice
    BY <1>6, AppendShifts
  <2>3. Len(Append(a.chunks, slice)) = h.k /\ Len(a.chunks) + 1 = h.k
    BY <1>1, <1>4, <1>6
  <2>4. slice = [origin |-> h.origin, k |-> h.k]
    OBVIOUS
  <2> HIDE DEF Grow, slice
  <2> QED
    BY <1>4, <1>6, <2>1, <2>2, <2>3, <2>4 DEF Slices
<1> HIDE DEF Grow, slice, h
<1>8. AssembledInOrder'
  <2>1. \A b \in assembling : Slices(b) /\ Behind(b)'
    BY <1>0, <1>1, OthersBehind DEF RequestsInOrder, AssembledInOrder
  <2>2. Behind(g)'
    BY <1>0, <1>6, <1>7, ReaderBehind DEF h
  <2>3. \A b \in assembling' : Slices(b) /\ Behind(b)'
    BY <1>5, <1>7, <2>1, <2>2
  <2>4. \A b, d \in assembling' : b.origin = d.origin => b = d
    BY <1>1, <1>5, <1>6 DEF RequestsInOrder, AssembledInOrder
  <2> QED
    BY <2>3, <2>4 DEF AssembledInOrder, Slices, Behind
<1>9. BodyAssembled'
  BY DEF HandleRequestChunk, RequestInv, BodyAssembled, WholeRequest
<1>10. /\ \A b \in assembling : h.origin # b.origin => b \in assembling'
       /\ Assembled(assembling', h.origin, h.k)
  BY <1>5, <1>6, <1>7 DEF Assembled
<1> QED
  BY <1>0, <1>1, <1>2, <1>8, <1>9, <1>10, ReceiveInOrder

(* request_end. *)
LEMMA EndInOrder ==
  ASSUME TypeOK, IInv, RequestInv, HandleRequestEnd, UNCHANGED hostVars
  PROVE  RequestInv'
<1>0. Receive("request_end")
  BY DEF HandleRequestEnd
<1> DEFINE h == Head(stdout)
           Started(a) == [id |-> a.id, origin |-> a.origin, body |-> a.chunks,
                          responded |-> FALSE, sent |-> 0]
<1>1. /\ RequestsInOrder /\ h = Requests[1] /\ 1 \in DOMAIN Requests
      /\ h.origin \in Calls /\ h.k \in Nat
      /\ \A a \in assembling : a.id = h.id <=> a.origin = h.origin
      /\ h.k > 0 => Assembled(assembling, h.origin, h.k - 1)
  BY <1>0, ReceivedMessage
<1>2. h.type = "request_end"
  BY <1>0 DEF Receive
<1>3. h.k = ReqLen[h.origin] + 1
  <2>1. Enqueued(h) /\ sent[h.origin] <= ReqLen[h.origin] + 2
    BY <1>1 DEF RequestsInOrder, RequestInv, SentInStep
  <2>2. sent[h.origin] \in Nat /\ ReqLen[h.origin] \in Nat
    BY <1>1, RequestTypes
  <2>3. h.k > ReqLen[h.origin]
    BY <1>1, <1>2, <2>1, <2>2 DEF Enqueued, ReqMessage
  <2>4. h.k < sent[h.origin]
    BY <2>1 DEF Enqueued
  <2> QED
    BY <1>1, <2>1, <2>2, <2>3, <2>4
<1>4. \A a \in assembling :
        a.origin = h.origin => a.chunks = WholeRequest(h.origin)
  <2> SUFFICES ASSUME NEW b \in assembling, b.origin = h.origin
               PROVE  b.chunks = WholeRequest(h.origin)
    OBVIOUS
  <2>0. ReqLen[h.origin] \in Nat
    BY <1>1, RequestTypes
  <2>1. PICK a \in assembling : a.origin = h.origin /\ Len(a.chunks) = h.k - 1
    BY <1>1, <1>3, <2>0 DEF Assembled
  <2>2. b = a /\ Slices(a) /\ a.chunks \in Seq(Slice)
    BY <1>1, <2>1, RequestTypes DEF RequestsInOrder, AssembledInOrder
  <2>3. DOMAIN a.chunks = 1 .. ReqLen[h.origin]
    BY <1>3, <2>0, <2>1, <2>2
  <2>4. \A i \in 1 .. ReqLen[h.origin] :
          a.chunks[i] = [origin |-> h.origin, k |-> i]
    BY <2>1, <2>2, <2>3 DEF Slices
  <2>5. a.chunks = [i \in DOMAIN a.chunks |-> a.chunks[i]]
    BY <2>2
  <2> QED
    BY <2>2, <2>3, <2>4, <2>5 DEF WholeRequest
<1>5. /\ assembling' = {a \in assembling : a.origin # h.origin}
      /\ \A f \in fetches' :
           f \in fetches \/ \E a \in assembling : a.origin = h.origin /\ f = Started(a)
  <2>1. LET found == {a \in assembling : a.id = h.id}
        IN  /\ assembling' = assembling \ found
            /\ fetches' = fetches \cup {Started(a) : a \in found}
    BY DEF HandleRequestEnd
  <2> HIDE DEF Started, h
  <2> QED
    BY <1>1, <2>1
<1>6. BodyAssembled'
  <2>1. \A a \in assembling : a.origin = h.origin =>
          Started(a).body = WholeRequest(Started(a).origin)
    BY <1>4
  <2> HIDE DEF Started, h
  <2> QED
    BY <1>5, <2>1 DEF RequestInv, BodyAssembled, WholeRequest
<1> HIDE DEF Started, h
<1>7. AssembledInOrder'
  <2>1. \A b \in assembling : Slices(b) /\ Behind(b)'
    BY <1>0, <1>1, OthersBehind DEF RequestsInOrder, AssembledInOrder
  <2> QED
    BY <1>1, <1>5, <2>1 DEF RequestsInOrder, AssembledInOrder, Slices, Behind
<1>8. \A b \in assembling : h.origin # b.origin => b \in assembling'
  BY <1>5
<1> QED
  BY <1>0, <1>1, <1>2, <1>3, <1>6, <1>7, <1>8, ReceiveInOrder

(* handleRequest keeps the body that it was started with. *)
LEMMA FetchKeepsBody ==
  ASSUME TypeOK, RequestInv, UNCHANGED hostVars, NEW f \in fetches,
         FetchResponds(f) \/ FetchChunk(f) \/ FetchEnds(f) \/ FetchFails(f)
  PROVE  RequestInv'
<1>1. UNCHANGED <<stdout, sendQueue, assembling, portOpen, sent, pc, writerUp>>
  BY DEF FetchResponds, FetchChunk, FetchEnds, FetchFails, SafeSend, hostVars,
         callVars
<1>2. BodyAssembled'
  <2>1. f.body = WholeRequest(f.origin)
    BY DEF RequestInv, BodyAssembled
  <2>2. PICK g, h : g = [f EXCEPT !.responded = TRUE] /\ h = [f EXCEPT !.sent = @ + 1]
    OBVIOUS
  <2>3. g.body = f.body /\ g.origin = f.origin /\ h.body = f.body /\ h.origin = f.origin
    BY <2>2 DEF TypeOK, ExtTypeOK
  <2>4. fetches' \subseteq fetches \cup {g, h}
    BY <2>2 DEF FetchResponds, FetchChunk, FetchEnds, FetchFails, Becomes
  <2> QED
    BY <2>1, <2>3, <2>4 DEF RequestInv, BodyAssembled, WholeRequest
<1>3. Requests' = Requests
  BY <1>1 DEF Requests
<1> QED
  BY <1>1, <1>2, <1>3, RequestsAlone

(* The host's steps. *)
LEMMA HostInOrder ==
  ASSUME TypeOK, RequestInv, HostNext, UNCHANGED extVars
  PROVE  RequestInv'
<1>0. BodyAssembled'
  BY DEF extVars, RequestInv, BodyAssembled, WholeRequest
<1>1. ASSUME NEW c \in Calls, Start(c) \/ CallStep(c), ~SendNext(c)
      PROVE  RequestInv'
  <2>1. UNCHANGED <<stdout, sendQueue, assembling, portOpen, sent, writerUp>>
    BY <1>1 DEF CallStep, Start, Alloc, Register, HeaderTimeout, StartResponse,
       StartFails, StreamData, StreamFails, StreamBreaks, GetTimesOut, Overdue,
       Terminate, Pop, Except, Urllib, OnlyThisCall, channelVars, extVars
  <2>2. PICK to : /\ pc' = [pc EXCEPT ![c] = to]
                  /\ to \in {"alloc", "register"} => pc[c] \in {"idle", "alloc"}
                  /\ to = "send" => pc[c] = "register"
                  /\ to # "idle"
    BY <1>1 DEF CallStep, Start, Alloc, Register, HeaderTimeout, StartResponse,
       StartFails, StreamData, StreamFails, StreamBreaks, GetTimesOut, Overdue,
       Terminate, Pop, Except, Urllib, Goes
  <2>3. \A d \in Calls :
          /\ pc'[d] \in {"idle", "alloc", "register"}
               => pc[d] \in {"idle", "alloc", "register"}
          /\ pc'[d] = "send" => pc[d] \in {"register", "send"}
    BY <2>2, RequestTypes
  <2>4. Requests' = Requests
    BY <2>1 DEF Requests
  <2> QED
    BY <1>0, <2>1, <2>3, <2>4, RequestsAlone
<1>2. CASE WriterStep
  <2>1. UNCHANGED <<sent, pc, assembling, portOpen, writerUp>>
    BY <1>2 DEF WriterStep, callVars, extVars
  <2>2. Requests' = Requests
    BY <1>2, RequestTypes, PipesJoined DEF WriterStep, Requests
  <2> QED
    BY <1>0, <2>1, <2>2, RequestsAlone
<1>3. CASE WriterFails
  BY <1>3, WriterFailsInOrder
<1>4. CASE ReaderStep
  <2>1. UNCHANGED <<stdout, sendQueue, sent, pc, assembling, portOpen, writerUp>>
    BY <1>4 DEF ReaderStep, ReaderStart, Dispatch, ReaderStops, ReaderClears,
       Notify, SetEvent, callVars, channelVars, extVars
  <2>2. Requests' = Requests
    BY <2>1 DEF Requests
  <2> QED
    BY <1>0, <2>1, <2>2, RequestsAlone
<1> QED
  BY <1>1, <1>2, <1>3, <1>4, SendInOrder DEF HostNext

(***************************************************************************)
(* The invariant of the requests holds in every reachable state.           *)
(***************************************************************************)
THEOREM RequestsFollowed == Spec => []RequestInv
<1>1. TypeOK /\ IInv /\ RequestInv /\ [Next]_vars => RequestInv'
  <2> SUFFICES ASSUME TypeOK, IInv, RequestInv, [Next]_vars
               PROVE  RequestInv'
    OBVIOUS
  <2>1. CASE HostNext /\ UNCHANGED extVars
    BY <2>1, HostInOrder
  <2>2. CASE ExtNext /\ UNCHANGED hostVars
    BY <2>2, StartInOrder, ChunkInOrder, EndInOrder, FetchKeepsBody DEF ExtNext
  <2>3. CASE PortCloses /\ UNCHANGED <<hostVars, extVars>>
    <3>1. UNCHANGED <<sent, pc, fetches>> /\ ~portOpen'
      BY <2>3 DEF PortCloses, hostVars, callVars, extVars
    <3>2. BodyAssembled'
      BY <3>1 DEF RequestInv, BodyAssembled, WholeRequest
    <3> QED
      BY <3>1, <3>2, RequestsAlone
  <2>4. CASE UNCHANGED vars
    <3>1. UNCHANGED <<stdout, sendQueue, sent, pc, assembling, fetches, portOpen, writerUp>>
      BY <2>4 DEF vars, channelVars, hostVars, callVars, extVars
    <3>2. BodyAssembled' /\ Requests' = Requests
      BY <3>1 DEF RequestInv, BodyAssembled, WholeRequest, Requests
    <3> QED
      BY <3>1, <3>2, RequestsAlone
  <2> QED
    BY <2>1, <2>2, <2>3, <2>4 DEF Next
<1> QED
  BY <1>1, InitRequestInv, TypeCorrect, IdsFollowed, PTL DEF Spec

(***************************************************************************)
(* Every fetch goes out with the whole body of its own request, in order,  *)
(* however many requests share the pipe.                                   *)
(***************************************************************************)
THEOREM BodiesWhole == Spec => []BodyAssembled
<1>1. RequestInv => BodyAssembled
  BY DEF RequestInv
<1> QED
  BY <1>1, RequestsFollowed, PTL
=============================================================================
