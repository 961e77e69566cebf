--------------------------- MODULE StreamContract ---------------------------
(***************************************************************************)
(* What the bridge promises each of its clients, whatever happens on the   *)
(* way: the bytes a client receives are the head of the answer to its own  *)
(* request and a prefix of that answer's body, in order and without a gap, *)
(* closed at most once.  A 502 may take the place of the rest at any       *)
(* point before the end: upstream.py does not remember whether the head    *)
(* has gone out.                                                           *)
(***************************************************************************)
EXTENDS Naturals, Sequences

CONSTANTS
  Calls,
  BodyLen    \* BodyLen[c]: slices of the answer to c

VARIABLE
  out        \* what each client has received

Init == out = [c \in Calls |-> <<>>]

Receives(c, what, k) ==
  out' = [out EXCEPT ![c] =
            Append(@, [what |-> what, origin |-> c, k |-> k])]

Untouched(c) == out[c] = <<>>

(* The head and the first k slices of the body have been received. *)
Streaming(c, k) ==
  /\ out[c] # <<>>
  /\ out[c][Len(out[c])].what \in {"head", "data"}
  /\ out[c][Len(out[c])].k = k

Head200(c) == Untouched(c) /\ Receives(c, "head", 0)

NextSlice(c) ==
  \E k \in 1 .. BodyLen[c] : Streaming(c, k - 1) /\ Receives(c, "data", k)

Close(c) ==
  \E k \in 0 .. BodyLen[c] : Streaming(c, k) /\ Receives(c, "terminator", 0)

BadGateway(c) ==
  /\ Untouched(c) \/ \E k \in 0 .. BodyLen[c] : Streaming(c, k)
  /\ Receives(c, "bad_gateway", 0)

(* The answer fetched past Chrome, as one whole. *)
Direct(c) == Untouched(c) /\ Receives(c, "direct", 0)

Next ==
  \E c \in Calls :
    Head200(c) \/ NextSlice(c) \/ Close(c) \/ BadGateway(c) \/ Direct(c)

Spec == Init /\ [][Next]_out
=============================================================================
