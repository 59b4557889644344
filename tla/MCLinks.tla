------------------------------ MODULE MCLinks ------------------------------
(***************************************************************************)
(* Two hosts; l1 joins two interfaces of h1, l2 crosses to h2 and shares   *)
(* its source with l1: moving an interface from one link to the other.     *)
(***************************************************************************)
EXTENDS Links, TLC

CONSTANTS l1, l2, e1, e2, e3, h1, h2

MCSource == l1 :> e1 @@ l2 :> e1
MCTarget == l1 :> e2 @@ l2 :> e3
MCHost   == e1 :> h1 @@ e2 :> h1 @@ e3 :> h2
=============================================================================
