----------------------------- MODULE Extension -----------------------------
(***************************************************************************)
(* The service worker of extension/background.js as one host process sees  *)
(* it: requests are assembled from request_start, request_chunk and        *)
(* request_end messages, each complete request is fetched, and the answer  *)
(* is streamed back.  Fetches run concurrently and interleave at every     *)
(* await of handleRequest.                                                 *)
(***************************************************************************)
EXTENDS NmChannel

VARIABLES
  assembling,  \* pendingRequests: the requests under assembly, keyed by id
  fetches      \* the running handleRequest calls

extVars == <<assembling, fetches>>

Slice == [origin : Calls, k : Nat]

ExtTypeOK ==
  /\ assembling \subseteq [id : Nat, origin : Calls, chunks : Seq(Slice)]
  /\ fetches \subseteq [id : Nat, origin : Calls, body : Seq(Slice),
                        responded : BOOLEAN, sent : Nat]

ExtInit ==
  /\ assembling = {}
  /\ fetches = {}

(* The request body of c as nm_send_request cut it. *)
WholeRequest(c) == [i \in 1 .. ReqLen[c] |-> [origin |-> c, k |-> i]]

---------------------------------------------------------------------------
(* port.onMessage: dispatchMessage on the next message of the pipe. *)

Receive(type) ==
  /\ portOpen
  /\ stdout # <<>>
  /\ Head(stdout).type = type
  /\ stdout' = Tail(stdout)
  /\ UNCHANGED <<stdin, portOpen>>

(* pendingRequests[id] = {...}: replaces an earlier entry of that id. *)
HandleRequestStart ==
  /\ Receive("request_start")
  /\ LET m == Head(stdout)
         entry == [id |-> m.id, origin |-> m.origin, chunks |-> <<>>]
     IN  assembling' = {a \in assembling : a.id # m.id} \cup {entry}
  /\ UNCHANGED fetches

(* Mutant of HandleRequestChunk: the id of the chunk is not looked at. *)
HandleRequestChunkAnyId ==
  /\ Receive("request_chunk")
  /\ LET m == Head(stdout)
         slice == [origin |-> m.origin, k |-> m.k]
     IN  assembling' = {[a EXCEPT !.chunks = Append(@, slice)] : a \in assembling}
  /\ UNCHANGED fetches

(* A chunk of an unknown id is dropped. *)
HandleRequestChunk ==
  /\ Receive("request_chunk")
  /\ LET m == Head(stdout)
         slice == [origin |-> m.origin, k |-> m.k]
         Grow(a) == [a EXCEPT !.chunks = Append(@, slice)]
     IN  assembling' = {a \in assembling : a.id # m.id}
                         \cup {Grow(a) : a \in {b \in assembling : b.id = m.id}}
  /\ UNCHANGED fetches

(* The end of an unknown id is dropped; otherwise handleRequest starts. *)
HandleRequestEnd ==
  /\ Receive("request_end")
  /\ LET found == {a \in assembling : a.id = Head(stdout).id}
         Started(a) == [id |-> a.id, origin |-> a.origin, body |-> a.chunks,
                        responded |-> FALSE, sent |-> 0]
     IN  /\ assembling' = assembling \ found
         /\ fetches' = fetches \cup {Started(a) : a \in found}

---------------------------------------------------------------------------
(* handleRequest *)

(* safeSend: a message for a closed port is dropped silently. *)
SafeSend(type, f, k) ==
  /\ stdin' = IF portOpen
              THEN Append(stdin, [type |-> type, id |-> f.id,
                                  origin |-> f.origin, k |-> k])
              ELSE stdin
  /\ UNCHANGED <<stdout, portOpen>>

Becomes(f, g) == fetches' = (fetches \ {f}) \cup {g}

(* fetch() resolves: the head goes out. *)
FetchResponds(f) ==
  /\ ~f.responded
  /\ SafeSend("response", f, 0)
  /\ Becomes(f, [f EXCEPT !.responded = TRUE])
  /\ UNCHANGED assembling

(* reader.read() yields the next slice of the body. *)
FetchChunk(f) ==
  /\ f.responded
  /\ f.sent < BodyLen[f.origin]
  /\ SafeSend("chunk", f, f.sent + 1)
  /\ Becomes(f, [f EXCEPT !.sent = @ + 1])
  /\ UNCHANGED assembling

(* Mutant of FetchEnds: the last slice is not sent. *)
FetchEndsEarly(f) ==
  /\ f.responded
  /\ f.sent + 1 >= BodyLen[f.origin]
  /\ SafeSend("end", f, f.sent + 1)
  /\ fetches' = fetches \ {f}
  /\ UNCHANGED assembling

(* reader.read() reports done. *)
FetchEnds(f) ==
  /\ f.responded
  /\ f.sent = BodyLen[f.origin]
  /\ SafeSend("end", f, f.sent + 1)
  /\ fetches' = fetches \ {f}
  /\ UNCHANGED assembling

(* fetch() or reader.read() rejects: the catch block reports an error. *)
FetchFails(f) ==
  /\ "fetch" \in Faults
  /\ SafeSend("error", f, f.sent + 1)
  /\ fetches' = fetches \ {f}
  /\ UNCHANGED assembling

ExtNext ==
  \/ HandleRequestStart
  \/ HandleRequestChunk
  \/ HandleRequestEnd
  \/ \E f \in fetches :
       FetchResponds(f) \/ FetchChunk(f) \/ FetchEnds(f) \/ FetchFails(f)

---------------------------------------------------------------------------
(***************************************************************************)
(* A fetch goes out with exactly the body its client sent: every slice, in *)
(* order, none of another request, although the messages of concurrent     *)
(* requests interleave on the pipe and meet in one pendingRequests object. *)
(***************************************************************************)
BodyAssembled == \A f \in fetches : f.body = WholeRequest(f.origin)
=============================================================================
