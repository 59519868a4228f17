------------------------------- MODULE Powers -------------------------------
(***************************************************************************)
(* Powers of two, as the waits of an outage (src/src/backoff.rs) and the   *)
(* capacity of a broadcast channel (src/src/cache.rs) are made of them.  A *)
(* recursive function, because the provers know nothing of the operator ^. *)
(***************************************************************************)
EXTENDS Naturals

Pow2[n \in Nat] == IF n = 0 THEN 1 ELSE 2 * Pow2[n - 1]
=============================================================================
