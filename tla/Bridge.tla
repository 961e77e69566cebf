------------------------------- MODULE Bridge -------------------------------
(***************************************************************************)
(* One host process and the extension at the other end of its channel:     *)
(* everything that happens to a client request between the call of         *)
(* upstream.forward() and its return.                                      *)
(***************************************************************************)
EXTENDS NmHost, Extension

vars == <<channelVars, hostVars, extVars>>

Init == ChannelInit /\ HostInit /\ ExtInit

HostNext ==
  \/ \E c \in Calls : Start(c) \/ CallStep(c)
  \/ WriterStep \/ WriterFails \/ ReaderStep

Next ==
  \/ HostNext /\ UNCHANGED extVars
  \/ ExtNext /\ UNCHANGED hostVars
  \/ PortCloses /\ UNCHANGED <<hostVars, extVars>>

(***************************************************************************)
(* The threads of the host are scheduled and the service worker handles    *)
(* the messages it is given.  A client need not come, a fetch need not     *)
(* answer, and no fault has to happen, except that the timers of a call    *)
(* are part of its CallStep: when it can do nothing else, they expire.     *)
(***************************************************************************)
HostFairness ==
  /\ \A c \in Calls : WF_vars(CallStep(c) /\ UNCHANGED extVars)
  /\ WF_vars((WriterStep \/ WriterFails) /\ UNCHANGED extVars)
  /\ WF_vars(ReaderStep /\ UNCHANGED extVars)

Spec == Init /\ [][Next]_vars /\ HostFairness

(***************************************************************************)
(* The service worker also goes on with what it has begun: with no faults  *)
(* every fetch comes to its end.                                           *)
(***************************************************************************)
HealthySpec == Spec /\ WF_vars(ExtNext /\ UNCHANGED hostVars)

---------------------------------------------------------------------------
TypeOK == ChannelTypeOK /\ HostTypeOK /\ ExtTypeOK

(***************************************************************************)
(* A client is never handed, and its thread never even holds, a piece of   *)
(* the answer to somebody else's request (ids of nm.py:86-88, table of     *)
(* nm.py:20, closures of upstream.py:93-107).                              *)
(***************************************************************************)
OwnResponse ==
  \A c \in Calls :
    /\ \A i \in DOMAIN queue[c] : queue[c][i].origin = c
    /\ \A i \in DOMAIN out[c] : out[c][i].origin = c

(***************************************************************************)
(* What the queue of a call that waits for the head holds.  When           *)
(* header_evt is set (upstream.py:99), or the reader thread is about to    *)
(* set it, the head comes first, and upstream.py:117 has nothing to        *)
(* reject.  At any other time nothing but errors has come: the timeout of  *)
(* upstream.py:113 throws away errors, or an answer whose head was queued  *)
(* (upstream.py:98) and is not yet announced.                              *)
(***************************************************************************)
Told(c) == evt[c] \/ c \in waking

HeaderEvtAccurate ==
  \A c \in Calls :
    pc[c] = "header" =>
      IF Told(c)
      THEN queue[c] # <<>> /\ Head(queue[c]).type = "response"
      ELSE \A i \in DOMAIN queue[c] : queue[c][i].type = "error"

(***************************************************************************)
(* When the reader thread has gone, every call in its streaming loop has   *)
(* something in its queue that ends the loop: none of them waits for the   *)
(* 600 s deadline for an answer that cannot come (nm.py:124-129).          *)
(***************************************************************************)
StreamsTold ==
  \A c \in Calls :
    reader = "done" /\ pc[c] = "stream" =>
      \E i \in DOMAIN queue[c] : queue[c][i].type \in {"end", "error"}

DataSent(c) == {out[c][i].k : i \in {j \in DOMAIN out[c] : out[c][j].what = "data"}}

Closed(c) == \E i \in DOMAIN out[c] : out[c][i].what = "terminator"

(***************************************************************************)
(* A body that was closed because of an 'end' message is whole.            *)
(***************************************************************************)
EndMeansWhole ==
  \A c \in Calls :
    Closed(c) /\ broke[c] = "end" => DataSent(c) = 1 .. BodyLen[c]

(***************************************************************************)
(* What the clients receive, whatever the faults and the interleaving, is  *)
(* what StreamContract allows.                                             *)
(***************************************************************************)
Contract ==
  INSTANCE StreamContract WITH Calls <- Calls, BodyLen <- BodyLen, out <- out

ImplementsContract == Contract!Spec

(***************************************************************************)
(* forward() returns: no call waits for ever, whatever has become of       *)
(* Chrome, its fetch or its client.  A call that goes past Chrome counts   *)
(* on a server that ends its answer (NmHost!Urllib).                       *)
(***************************************************************************)
CallReturns == \A c \in Calls : pc[c] # "idle" ~> pc[c] = "done"

(***************************************************************************)
(* Without faults a request that found Chrome connected gets its whole     *)
(* answer and the end of it.                                               *)
(***************************************************************************)
Delivered ==
  \A c \in Calls :
    pc[c] = "alloc" ~> Closed(c) /\ DataSent(c) = 1 .. BodyLen[c]

---------------------------------------------------------------------------
(* What the documentation says and the code does not do. *)

(***************************************************************************)
(* upstream.py:66-67: streaming "avoids buffering the entire response in   *)
(* memory (fixes 184MB+ truncation)": a body that was closed properly is   *)
(* whole.                                                                  *)
(***************************************************************************)
ClosedMeansWhole ==
  \A c \in Calls : Closed(c) => DataSent(c) = 1 .. BodyLen[c]
=============================================================================
