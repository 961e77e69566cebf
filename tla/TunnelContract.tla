---------------------------- MODULE TunnelContract ----------------------------
(***************************************************************************)
(* What a SOCKS5 session promises: the client is given at most one verdict *)
(* on its request, and only after the verdict "ok" do bytes pass, in each  *)
(* direction exactly those that were sent, in their order and without a    *)
(* gap, those included that the client sent before it had an answer.       *)
(***************************************************************************)
EXTENDS Naturals, Sequences, SequencesExt

CONSTANTS Directions, Verdicts

VARIABLES
  verdict,     \* "none" or what the client was told
  sent,        \* bytes sent in each direction
  received     \* bytes that have come out at the other end

vars == <<verdict, sent, received>>

Init ==
  /\ verdict = "none"
  /\ sent = [d \in Directions |-> <<>>]
  /\ received = [d \in Directions |-> <<>>]

Tell ==
  /\ verdict = "none"
  /\ verdict' \in Verdicts
  /\ UNCHANGED <<sent, received>>

Send(d) ==
  /\ sent' = [sent EXCEPT ![d] = Append(@, Len(@) + 1)]
  /\ UNCHANGED <<verdict, received>>

Receive(d) ==
  /\ verdict = "ok"
  /\ Len(received[d]) < Len(sent[d])
  /\ received' = [received EXCEPT ![d] = Append(@, sent[d][Len(@) + 1])]
  /\ UNCHANGED <<verdict, sent>>

Next == Tell \/ \E d \in Directions : Send(d) \/ Receive(d)

Spec == Init /\ [][Next]_vars
=============================================================================
