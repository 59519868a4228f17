--------------------------- MODULE SharedResources ---------------------------
(***************************************************************************)
(* What the caches of this library promise: the users of a key share one   *)
(* resource, made on first use and retired some time later; a resource is  *)
(* never brought back, never replaced while it is current and, where       *)
(* RetireInUse is FALSE, never retired while somebody holds it.            *)
(*                                                                         *)
(* RuntimeCache, ConnectionCache and ProducerCache implement it.           *)
(***************************************************************************)
CONSTANTS
  Keys,
  Users,
  Resources,
  None,
  RetireInUse   \* whether a resource may be retired while somebody holds it

VARIABLES
  current,   \* the resource that serves each key, or None
  holding,   \* the resource each user holds, or None
  made       \* the resources made so far

vars == <<current, holding, made>>

Init ==
  /\ current = [k \in Keys |-> None]
  /\ holding = [u \in Users |-> None]
  /\ made = {}

\* A user gets the resource that serves the key.
Acquire(u, k) ==
  /\ holding[u] = None
  /\ current[k] # None
  /\ holding' = [holding EXCEPT ![u] = current[k]]
  /\ UNCHANGED <<current, made>>

\* Nothing serves the key: a user makes a new resource for it.
Make(u, k, r) ==
  /\ holding[u] = None
  /\ current[k] = None
  /\ r \notin made
  /\ current' = [current EXCEPT ![k] = r]
  /\ holding' = [holding EXCEPT ![u] = r]
  /\ made' = made \cup {r}

Release(u) ==
  /\ holding[u] # None
  /\ holding' = [holding EXCEPT ![u] = None]
  /\ UNCHANGED <<current, made>>

Retire(k) ==
  /\ current[k] # None
  /\ RetireInUse \/ \A u \in Users : holding[u] # current[k]
  /\ current' = [current EXCEPT ![k] = None]
  /\ UNCHANGED <<holding, made>>

Next ==
  \/ \E u \in Users, k \in Keys : Acquire(u, k)
  \/ \E u \in Users, k \in Keys, r \in Resources : Make(u, k, r)
  \/ \E u \in Users : Release(u)
  \/ \E k \in Keys : Retire(k)

Spec == Init /\ [][Next]_vars
=============================================================================
