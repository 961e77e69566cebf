------------------------------ MODULE MCBridge ------------------------------
(***************************************************************************)
(* Two concurrent requests.  The first uploads a body and is answered with *)
(* two slices, so that order and truncation can go wrong; the second has   *)
(* no body, the zero of both lengths.  The short lengths are for liveness  *)
(* under faults, the long ones for the run without any fault.              *)
(***************************************************************************)
EXTENDS Bridge, TLC

CONSTANTS c1, c2

MCCalls == {c1, c2}

MCReqLen == c1 :> 1 @@ c2 :> 0
MCBodyLen == c1 :> 2 @@ c2 :> 0

LongReqLen == c1 :> 2 @@ c2 :> 1
LongBodyLen == c1 :> 2 @@ c2 :> 2

ShortReqLen == c1 :> 0 @@ c2 :> 0
ShortBodyLen == c1 :> 1 @@ c2 :> 0
=============================================================================
