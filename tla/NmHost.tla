------------------------------- MODULE NmHost -------------------------------
(***************************************************************************)
(* The host side of the channel: nm.py (id allocation, the table of        *)
(* handlers, the writer and the reader thread) and upstream.py (forward(), *)
(* one execution of it per client request, each in its own thread).        *)
(*                                                                         *)
(* Every action is the code between two points where another thread can    *)
(* act on what it reads or writes.                                         *)
(***************************************************************************)
EXTENDS NmChannel

VARIABLES
  sendQueue,   \* nm_send_queue
  writerUp,    \* native_writer_thread is still in its loop
  counter,     \* nm_request_counter
  pending,     \* the calls whose handler is in nm_pending_requests
  reader,      \* where native_reader_thread is
  notify,      \* the ids it has still to notify of the disconnection
  waking,      \* the call whose head it has queued and whose header_evt it
               \* has not yet set
  pc,          \* where each call is in forward()
  rid,         \* rid of each call, 0 before it has one
  sent,        \* messages nm_send_request has enqueued
  queue,       \* chunk_queue of each call
  evt,         \* header_evt of each call
  broke,       \* what ended the streaming loop of each call
  out          \* what each call has written to its client

callVars == <<pc, rid, sent, queue, evt, broke, out>>
hostVars == <<sendQueue, writerUp, counter, pending, reader, notify, waking,
              callVars>>

Item == [type : {"response", "chunk", "end", "error"}, origin : Calls, k : Nat]

Written == [what : {"head", "data", "terminator", "bad_gateway", "direct"},
            origin : Calls, k : Nat]

PCs == {"idle", "alloc", "register", "send", "header", "stream", "overdue",
        "terminate", "pop", "except", "urllib", "done"}

HostTypeOK ==
  /\ sendQueue \in Seq(RequestMessage)
  /\ writerUp \in BOOLEAN
  /\ counter \in Nat \ {0}
  /\ pending \subseteq Calls
  /\ reader \in {"starting", "reading", "notifying", "done"}
  /\ notify \subseteq Nat
  /\ waking \subseteq Calls
  /\ pc \in [Calls -> PCs]
  /\ rid \in [Calls -> Nat]
  /\ sent \in [Calls -> Nat]
  /\ queue \in [Calls -> Seq(Item)]
  /\ evt \in [Calls -> BOOLEAN]
  /\ broke \in [Calls -> {"no", "end", "error", "deadline"}]
  /\ out \in [Calls -> Seq(Written)]

HostInit ==
  /\ sendQueue = <<>>
  /\ writerUp = TRUE
  /\ counter = 1
  /\ pending = {}
  /\ reader = "starting"
  /\ notify = {}
  /\ waking = {}
  /\ pc = [c \in Calls |-> "idle"]
  /\ rid = [c \in Calls |-> 0]
  /\ sent = [c \in Calls |-> 0]
  /\ queue = [c \in Calls |-> <<>>]
  /\ evt = [c \in Calls |-> FALSE]
  /\ broke = [c \in Calls |-> "no"]
  /\ out = [c \in Calls |-> <<>>]

(* CHROME_CONNECTED: set and cleared by the reader thread alone. *)
ChromeConnected == reader = "reading"

---------------------------------------------------------------------------
(* forward() and _forward_via_nm, in the thread of one client request. *)

Goes(c, from, to) ==
  /\ pc[c] = from
  /\ pc' = [pc EXCEPT ![c] = to]

(* sendall succeeds: the bytes join what the client has received. *)
Write(c, what, k) ==
  out' = [out EXCEPT ![c] =
            Append(@, [what |-> what, origin |-> c, k |-> k])]

(* forward() reads CHROME_CONNECTED once and commits to a path. *)
Start(c) ==
  /\ Goes(c, "idle", IF ChromeConnected THEN "alloc" ELSE "urllib")
  /\ UNCHANGED <<channelVars, sendQueue, writerUp, counter, pending, reader,
                 notify, waking, rid, sent, queue, evt, broke, out>>

(* Mutant of Alloc: without nm_lock the increment of another thread is      *)
(* overwritten.                                                             *)
AllocUnlocked(c) ==
  /\ Goes(c, "alloc", "register")
  /\ rid' = [rid EXCEPT ![c] = counter]
  /\ \/ counter' = counter + 1
     \/ counter' = counter
  /\ UNCHANGED <<channelVars, sendQueue, writerUp, pending, reader, notify,
                 waking, sent, queue, evt, broke, out>>

(* Under nm_lock: rid = nm_request_counter, then the counter grows. *)
Alloc(c) ==
  /\ Goes(c, "alloc", "register")
  /\ rid' = [rid EXCEPT ![c] = counter]
  /\ counter' = counter + 1
  /\ UNCHANGED <<channelVars, sendQueue, writerUp, pending, reader, notify,
                 waking, sent, queue, evt, broke, out>>

(* nm_pending_requests[rid] = _h: replaces a handler of the same id. *)
Register(c) ==
  /\ Goes(c, "register", "send")
  /\ pending' = {d \in pending : rid[d] # rid[c]} \cup {c}
  /\ UNCHANGED <<channelVars, sendQueue, writerUp, counter, reader, notify,
                 waking, rid, sent, queue, evt, broke, out>>

(* The i-th message of nm_send_request, counting from 0. *)
ReqMessage(c, i) ==
  [type |-> IF i = 0 THEN "request_start"
            ELSE IF i <= ReqLen[c] THEN "request_chunk" ELSE "request_end",
   id |-> rid[c], origin |-> c, k |-> i]

(* One put of nm_send_request; other calls' puts fall in between. *)
SendNext(c) ==
  /\ Goes(c, "send", IF sent[c] = ReqLen[c] + 1 THEN "header" ELSE "send")
  /\ sendQueue' = Append(sendQueue, ReqMessage(c, sent[c]))
  /\ sent' = [sent EXCEPT ![c] = @ + 1]
  /\ UNCHANGED <<channelVars, writerUp, counter, pending, reader, notify,
                 waking, rid, queue, evt, broke, out>>

(* Mutant of HeaderTimeout: header_evt.wait() has no timeout. *)
HeaderWaitsForEver(c) == FALSE /\ Goes(c, "header", "except")

(* header_evt.wait(timeout=120) returns False. *)
HeaderTimeout(c) ==
  /\ "slow" \in Faults
  /\ ~evt[c]
  /\ Goes(c, "header", "except")
  /\ UNCHANGED <<channelVars, sendQueue, writerUp, counter, pending, reader,
                 notify, waking, rid, sent, queue, evt, broke, out>>

(* The call takes the next item of chunk_queue. *)
Takes(c, types) ==
  /\ queue[c] # <<>>
  /\ Head(queue[c]).type \in types
  /\ queue' = [queue EXCEPT ![c] = Tail(@)]

OnlyThisCall ==
  UNCHANGED <<channelVars, sendQueue, writerUp, counter, pending, reader,
              notify, waking, rid, sent, evt>>

(* header_evt is set and chunk_queue.get yields the head, which is written. *)
StartResponse(c) ==
  /\ evt[c]
  /\ Goes(c, "header", "stream")
  /\ Takes(c, {"response"})
  /\ out' = [out EXCEPT ![c] = Append(@,
               [what |-> "head", origin |-> Head(queue[c]).origin, k |-> 0])]
  /\ broke' = broke
  /\ OnlyThisCall

(* The head cannot be written, or the first item is not a head. *)
StartFails(c) ==
  /\ evt[c]
  /\ Goes(c, "header", "except")
  /\ \/ "client" \in Faults /\ Takes(c, {"response"})
     \/ Takes(c, {"chunk", "end", "error"})
  /\ UNCHANGED <<out, broke>>
  /\ OnlyThisCall

(* A data item is written as one HTTP chunk.  A slow client may hold the   *)
(* write until the deadline of the call has passed.                        *)
StreamData(c) ==
  /\ Takes(c, {"chunk"})
  /\ \/ Goes(c, "stream", "stream")
     \/ "slow" \in Faults /\ Goes(c, "stream", "overdue")
  /\ out' = [out EXCEPT ![c] = Append(@,
               [what |-> "data", origin |-> Head(queue[c]).origin,
                k |-> Head(queue[c]).k])]
  /\ broke' = broke
  /\ OnlyThisCall

StreamFails(c) ==
  /\ "client" \in Faults
  /\ Takes(c, {"chunk"})
  /\ Goes(c, "stream", "except")
  /\ UNCHANGED <<out, broke>>
  /\ OnlyThisCall

(* An end item and an error item both leave the loop by break. *)
StreamBreaks(c) ==
  /\ Takes(c, {"end", "error"})
  /\ broke' = [broke EXCEPT ![c] = Head(queue[c]).type]
  /\ Goes(c, "stream", "terminate")
  /\ out' = out
  /\ OnlyThisCall

(* chunk_queue.get times out and the 600 s deadline has passed. *)
GetTimesOut(c) ==
  /\ "slow" \in Faults
  /\ queue[c] = <<>>
  /\ Goes(c, "stream", "terminate")
  /\ broke' = [broke EXCEPT ![c] = "deadline"]
  /\ UNCHANGED <<queue, out>>
  /\ OnlyThisCall

(* The deadline passed during a write: get() has a negative timeout and     *)
(* raises ValueError.                                                       *)
Overdue(c) ==
  /\ Goes(c, "overdue", "except")
  /\ UNCHANGED <<queue, broke, out>>
  /\ OnlyThisCall

(* The chunked terminator is written whatever left the loop. *)
Terminate(c) ==
  /\ \/ Goes(c, "terminate", "pop") /\ Write(c, "terminator", 0)
     \/ "client" \in Faults /\ Goes(c, "terminate", "except") /\ out' = out
  /\ UNCHANGED <<queue, broke>>
  /\ OnlyThisCall

(* Mutant of Pop: nm_pending_requests.clear(). *)
PopEverything(c) ==
  /\ Goes(c, "pop", "done")
  /\ pending' = {}
  /\ UNCHANGED <<channelVars, sendQueue, writerUp, counter, reader, notify,
                 waking, rid, sent, queue, evt, broke, out>>

(* nm_pending_requests.pop(rid, None): the only place a call unregisters. *)
Pop(c) ==
  /\ Goes(c, "pop", "done")
  /\ pending' = {d \in pending : rid[d] # rid[c]}
  /\ UNCHANGED <<channelVars, sendQueue, writerUp, counter, reader, notify,
                 waking, rid, sent, queue, evt, broke, out>>

(* except Exception: a 502 is written if the client still takes it. *)
Except(c) ==
  /\ Goes(c, "except", "done")
  /\ Write(c, "bad_gateway", 0) \/ ("client" \in Faults /\ out' = out)
  /\ UNCHANGED <<queue, broke>>
  /\ OnlyThisCall

(* _forward_via_urllib: the whole answer, a 502, or nothing at all.  An   *)
(* answer takes one step: read() at line 206 has a timeout for each       *)
(* piece and none for the whole, and a server that sends a byte now and   *)
(* then for ever is not modelled.                                         *)
Urllib(c) ==
  /\ Goes(c, "urllib", "done")
  /\ Write(c, "direct", 0) \/ Write(c, "bad_gateway", 0) \/ out' = out
  /\ UNCHANGED <<queue, broke>>
  /\ OnlyThisCall

CallStep(c) ==
  \/ Alloc(c) \/ Register(c) \/ SendNext(c)
  \/ HeaderTimeout(c) \/ StartResponse(c) \/ StartFails(c)
  \/ StreamData(c) \/ StreamFails(c) \/ StreamBreaks(c)
  \/ GetTimesOut(c) \/ Overdue(c)
  \/ Terminate(c) \/ Pop(c) \/ Except(c) \/ Urllib(c)

---------------------------------------------------------------------------
(* native_writer_thread *)

WriterStep ==
  /\ writerUp
  /\ portOpen
  /\ sendQueue # <<>>
  /\ stdout' = Append(stdout, Head(sendQueue))
  /\ sendQueue' = Tail(sendQueue)
  /\ UNCHANGED <<stdin, portOpen, writerUp, counter, pending, reader, notify,
                 waking, callVars>>

(* The write raises, the message is lost and the thread leaves its loop;    *)
(* nobody is told.  A closed port is not the only cause.                    *)
WriterFails ==
  /\ writerUp
  /\ ~portOpen \/ "writer" \in Faults
  /\ sendQueue # <<>>
  /\ sendQueue' = Tail(sendQueue)
  /\ writerUp' = FALSE
  /\ UNCHANGED <<channelVars, counter, pending, reader, notify, waking,
                 callVars>>

---------------------------------------------------------------------------
(* native_reader_thread *)

ReaderStart ==
  /\ reader = "starting"
  /\ reader' = "reading"
  /\ UNCHANGED <<channelVars, sendQueue, writerUp, counter, pending, notify,
                 waking, callVars>>

Queued(m) == [type |-> m.type, origin |-> m.origin, k |-> m.k]

(* Mutant of Handler: header_evt is set before the head is queued; this is  *)
(* what other threads see in between.                                       *)
HandlerSetsFirst(c, m) ==
  IF m.type = "response"
  THEN evt' = [evt EXCEPT ![c] = TRUE] /\ UNCHANGED <<queue, waking>>
  ELSE /\ queue' = [queue EXCEPT ![c] = Append(@, Queued(m))]
       /\ UNCHANGED <<evt, waking>>

(* Mutant of Handler: chunk_queue is a LifoQueue. *)
HandlerPushes(c, m) ==
  /\ queue' = [queue EXCEPT ![c] = <<Queued(m)>> \o @]
  /\ waking' = IF m.type = "response" THEN waking \cup {c} ELSE waking
  /\ evt' = evt

(* The closure _h of call c, given message m: the put.  A head is announced *)
(* in a step of its own, SetEvent.                                          *)
Handler(c, m) ==
  /\ queue' = [queue EXCEPT ![c] = Append(@, Queued(m))]
  /\ waking' = IF m.type = "response" THEN waking \cup {c} ELSE waking
  /\ evt' = evt

(* nm_dispatch: a message of an unknown id is dropped. *)
Dispatch ==
  /\ reader = "reading"
  /\ waking = {}
  /\ stdin # <<>>
  /\ stdin' = Tail(stdin)
  /\ LET m == Head(stdin)
         found == {c \in pending : rid[c] = m.id}
     IN  \/ \E c \in found : Handler(c, m)
         \/ found = {} /\ UNCHANGED <<queue, waking, evt>>
  /\ UNCHANGED <<stdout, portOpen, sendQueue, writerUp, counter, pending,
                 reader, notify, pc, rid, sent, broke, out>>

(* header_evt.set(), for a call that may have timed out since the put.      *)
SetEvent(c) ==
  /\ reader = "reading"
  /\ c \in waking
  /\ evt' = [evt EXCEPT ![c] = TRUE]
  /\ waking' = waking \ {c}
  /\ UNCHANGED <<channelVars, sendQueue, writerUp, counter, pending, reader,
                 notify, pc, rid, sent, queue, broke, out>>

(* Mutant of ReaderStops: the table is cleared before its keys are listed. *)
ReaderStopsEmptyHanded ==
  /\ reader = "reading"
  /\ waking = {}
  /\ ~portOpen
  /\ stdin = <<>>
  /\ reader' = "notifying"
  /\ notify' = {}
  /\ UNCHANGED <<channelVars, sendQueue, writerUp, counter, pending, waking,
                 callVars>>

(* Mutant of ReaderStops: the handlers are listed instead of their ids. *)
ReaderStopsWithHandlers ==
  /\ reader = "reading"
  /\ waking = {}
  /\ ~portOpen
  /\ stdin = <<>>
  /\ reader' = "notifying"
  /\ notify' = pending
  /\ UNCHANGED <<channelVars, sendQueue, writerUp, counter, pending, waking,
                 callVars>>

(* End of file on stdin: CHROME_CONNECTED is cleared, then the keys of the  *)
(* table are listed.                                                        *)
ReaderStops ==
  /\ reader = "reading"
  /\ waking = {}
  /\ ~portOpen
  /\ stdin = <<>>
  /\ reader' = "notifying"
  /\ notify' = {rid[c] : c \in pending}
  /\ UNCHANGED <<channelVars, sendQueue, writerUp, counter, pending, waking,
                 callVars>>

(* One turn of the loop: the handler gets an error message, unless its call *)
(* has unregistered since the keys were listed (KeyError, passed over).     *)
Notify(id) ==
  /\ reader = "notifying"
  /\ id \in notify
  /\ notify' = notify \ {id}
  /\ LET found == {c \in pending : rid[c] = id}
     IN  \/ \E c \in found :
              Handler(c, [type |-> "error", id |-> id, origin |-> c, k |-> 0])
         \/ found = {} /\ UNCHANGED <<queue, waking, evt>>
  /\ UNCHANGED <<channelVars, sendQueue, writerUp, counter, pending, reader,
                 pc, rid, sent, broke, out>>

(* nm_pending_requests.clear(), then shutdown_event.set(). *)
ReaderClears ==
  /\ reader = "notifying"
  /\ notify = {}
  /\ pending' = {}
  /\ reader' = "done"
  /\ UNCHANGED <<channelVars, sendQueue, writerUp, counter, notify, waking,
                 callVars>>

ReaderStep ==
  \/ ReaderStart \/ Dispatch \/ ReaderStops \/ ReaderClears
  \/ \E id \in notify : Notify(id)
  \/ \E c \in waking : SetEvent(c)
=============================================================================
