----------------------------- MODULE NmChannel -----------------------------
(***************************************************************************)
(* The Native Messaging channel between the Python host and the Chrome     *)
(* extension: two pipes of length-prefixed JSON messages.  Framing is      *)
(* abstracted: a pipe is a FIFO sequence of whole messages.                *)
(*                                                                         *)
(* A "call" is one execution of upstream.forward(): one client request.    *)
(* Calls stand for URLs and bodies too: the URL, the k-th request slice    *)
(* and the k-th response slice of call c are all told apart by c and k.    *)
(***************************************************************************)
EXTENDS Naturals, Sequences

CONSTANTS
  Calls,     \* the requests that clients make through the proxy
  ReqLen,    \* ReqLen[c]: 512 KB slices in the request body of c
  BodyLen,   \* BodyLen[c]: 256 KB slices in the upstream's answer to c
  Faults     \* which members of AllFaults the environment is capable of

AllFaults ==
  {"port",      \* Chrome closes the port
   "writer",    \* a write to the port raises while Chrome still holds it
   "fetch",     \* a fetch, or the reading of its body, fails
   "client",    \* a client's connection fails while it is written to
   "slow"}      \* something takes longer than a timeout of the code

ASSUME LengthsAssumption ==
  /\ ReqLen \in [Calls -> Nat]
  /\ BodyLen \in [Calls -> Nat]

VARIABLES
  stdout,    \* pipe from the host's writer thread to the extension
  stdin,     \* pipe from the extension to the host's reader thread
  portOpen   \* Chrome still holds the port of this host process

channelVars == <<stdout, stdin, portOpen>>

(***************************************************************************)
(* On the wire a message carries type and id.  origin and k identify its   *)
(* payload: the url (request_start), the slice of the body (request_chunk, *)
(* chunk).  For response, end and error messages origin is the request     *)
(* whose fetch produced them; the code has no such field and never reads   *)
(* it, only the properties do.                                             *)
(***************************************************************************)
Message(types) == [type : types, id : Nat, origin : Calls, k : Nat]

RequestMessage == Message({"request_start", "request_chunk", "request_end"})
ResponseMessage == Message({"response", "chunk", "end", "error"})

ChannelTypeOK ==
  /\ stdout \in Seq(RequestMessage)
  /\ stdin \in Seq(ResponseMessage)
  /\ portOpen \in BOOLEAN

ChannelInit ==
  /\ stdout = <<>>
  /\ stdin = <<>>
  /\ portOpen = TRUE

(***************************************************************************)
(* Chrome quits or closes the port: what the extension has not read is     *)
(* lost, what it has written can still be read up to the end of file.      *)
(***************************************************************************)
PortCloses ==
  /\ "port" \in Faults
  /\ portOpen
  /\ portOpen' = FALSE
  /\ stdout' = <<>>
  /\ UNCHANGED stdin
=============================================================================
