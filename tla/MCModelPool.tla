----------------------------- MODULE MCModelPool -----------------------------
EXTENDS ModelPool, TLC

CONSTANTS p0, p1, p2

(* A provider that is not ready, a metered one, and a subscription.        *)
MCRoute == <<p0, p1, p2>>
MCReservation == p0 :> 1 @@ p1 :> 2 @@ p2 :> 0
=============================================================================
