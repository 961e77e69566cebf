--------------------------- MODULE MCServiceWorker ---------------------------
(***************************************************************************)
(* Two requests for the same resource, both answered with cookies, the     *)
(* second after a redirect, and other pages that load the resource and     *)
(* another one of the same url.                                            *)
(***************************************************************************)
EXTENDS ServiceWorker, TLC

CONSTANTS c1, c2

MCCalls == {c1, c2}

GetIt == [method |-> "GET", url |-> "u"]
PostIt == [method |-> "POST", url |-> "u"]
MovedIt == [method |-> "GET", url |-> "v"]

MCResource == [c \in MCCalls |-> GetIt]
MCReported == [c \in MCCalls |-> IF c = c1 THEN GetIt ELSE MovedIt]
MCElsewhere == {GetIt, PostIt}
MCSetters == {c1, c2}

\* Nothing distinguishes the host processes; no liveness is checked here.
HostSymmetry == Permutations(Hosts)
=============================================================================
