----------------------------- MODULE MCFastMap ------------------------------
(***************************************************************************)
(* FastMap on four keys that collide.  In four slots k1 and k2 share the   *)
(* last slot with k3, so that a probe wraps around; in eight slots k3 has  *)
(* a home of its own, the others again wrap.                               *)
(***************************************************************************)
EXTENDS FastMap, TLC

CONSTANTS k1, k2, k3, k4

MCKeys == {k1, k2, k3, k4}

MCHash == k1 :> 7 @@ k2 :> 7 @@ k3 :> 3 @@ k4 :> 0
=============================================================================
