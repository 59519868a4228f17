-------------------------- MODULE RuntimeCacheGrace --------------------------
(***************************************************************************)
(* The grace period of RuntimeCache.  A history variable records when each *)
(* runtime last had a listener, which the code does not: last_used is set  *)
(* when the runtime is created and by a reaper pass that finds a listener, *)
(* and neither get_stream nor dropping a stream touches it.                *)
(***************************************************************************)
EXTENDS RuntimeCache

VARIABLE lastHeard   \* the last time each runtime had a listener

graceVars == <<vars, lastHeard>>

GraceInit == Init /\ lastHeard = [r \in Runtimes |-> 0]

\* A runtime is heard by a listener, or by the caller that creates it.
Heard(r) == \E c \in Callers : handle[c] = r

GraceNext ==
  /\ Next
  /\ lastHeard' =
       [r \in Runtimes |-> IF Heard(r) \/ Heard(r)' THEN now' ELSE lastHeard[r]]

GraceSpec == GraceInit /\ [][GraceNext]_graceVars

\* "Periodically removes idle cached runtimes that have had no active
\* listeners for EVICT_AFTER_IDLE" (cache.rs, reap_unused_streams): when a
\* runtime is evicted its last listener left at least that long ago.
GracePeriodIsRespected ==
  [][\A r \in cancelled' \ cancelled :
       now - lastHeard[r] >= EVICT_AFTER_IDLE]_graceVars
=============================================================================
