--------------------------- MODULE ConnectionCache ---------------------------
(***************************************************************************)
(* HOST_MAP, the process-wide cache of Redis connections                   *)
(* (get_connection and evict_connection of src/src/redis_impls/mod.rs) and *)
(* its users: publishers, snapshots and stream runtimes.                   *)
(*                                                                         *)
(* A user that finds no connection keeps the write lock while it connects, *)
(* so that every other user, of whatever host, waits for the outcome.      *)
(***************************************************************************)
EXTENDS Naturals

CONSTANTS
  Hosts,
  Users,     \* tasks that use connections, one call at a time
  Managers,  \* identities of ConnectionManager instances, never reused
  None

VARIABLES
  map,       \* HOST_MAP: the manager of each host, or None
  writer,    \* who holds the write lock across steps, or None
  pc,        \* control point of each user
  host,      \* the host the user works with
  conn,      \* the clone of a manager the user holds
  made       \* the managers made so far

vars == <<map, writer, pc, host, conn, made>>

TypeOK ==
  /\ map \in [Hosts -> Managers \cup {None}]
  /\ writer \in Users \cup {None}
  /\ pc \in [Users -> {"idle", "read", "write", "connecting", "using", "evict", "sleep"}]
  /\ host \in [Users -> Hosts \cup {None}]
  /\ conn \in [Users -> Managers \cup {None}]
  /\ \A u \in Users : pc[u] \in {"using", "evict", "sleep"} => conn[u] # None
  /\ made \in SUBSET Managers

Init ==
  /\ map = [h \in Hosts |-> None]
  /\ writer = None
  /\ pc = [u \in Users |-> "idle"]
  /\ host = [u \in Users |-> None]
  /\ conn = [u \in Users |-> None]
  /\ made = {}

-----------------------------------------------------------------------------
(* get_connection *)

GetConnection(u, h) ==
  /\ pc[u] = "idle"
  /\ pc' = [pc EXCEPT ![u] = "read"]
  /\ host' = [host EXCEPT ![u] = h]
  /\ UNCHANGED <<map, writer, conn, made>>

\* Ok(conn): the user goes on with a clone of m.
Obtain(u, m) ==
  /\ pc' = [pc EXCEPT ![u] = "using"]
  /\ conn' = [conn EXCEPT ![u] = m]

\* The user is through with the host.
Finish(u) ==
  /\ pc' = [pc EXCEPT ![u] = "idle"]
  /\ host' = [host EXCEPT ![u] = None]
  /\ conn' = [conn EXCEPT ![u] = None]

\* The naive read.
ReadLookup(u) ==
  /\ pc[u] = "read"
  /\ writer = None
  /\ \/ /\ map[host[u]] # None
        /\ Obtain(u, map[host[u]])
     \/ /\ map[host[u]] = None
        /\ pc' = [pc EXCEPT ![u] = "write"]
        /\ UNCHANGED conn
  /\ UNCHANGED <<map, writer, host, made>>

\* Mutant of Missing: the write lock is thought to be enough.
MissingUnchecked(u) == TRUE

\* The second lookup, under the write lock, finds nothing.
Missing(u) == map[host[u]] = None

WriteLookupHit(u) ==
  /\ pc[u] = "write"
  /\ writer = None
  /\ ~Missing(u)
  /\ Obtain(u, map[host[u]])
  /\ UNCHANGED <<map, writer, host, made>>

\* The write lock is kept while ConnectionManager::new is awaited.
WriteLookupMiss(u) ==
  /\ pc[u] = "write"
  /\ writer = None
  /\ Missing(u)
  /\ writer' = u
  /\ pc' = [pc EXCEPT ![u] = "connecting"]
  /\ UNCHANGED <<map, host, conn, made>>

ConnectOk(u, m) ==
  /\ pc[u] = "connecting"
  /\ m \notin made
  /\ made' = made \cup {m}
  /\ map' = [map EXCEPT ![host[u]] = m]
  /\ Obtain(u, m)
  /\ writer' = None
  /\ UNCHANGED host

\* Mutant of LockAfterError: the error path leaves the lock behind.
LockAfterErrorHeld(u) == u

\* The guard is dropped when `?` returns.
LockAfterError(u) == None

\* Client::open or ConnectionManager::new fails, and get_connection with it.
ConnectFails(u) ==
  /\ pc[u] = "connecting"
  /\ writer' = LockAfterError(u)
  /\ Finish(u)
  /\ UNCHANGED <<map, made>>

\* The future is dropped at one of its awaits, and its guard with it.
Abandon(u) ==
  /\ pc[u] \in {"read", "write", "connecting"}
  /\ writer' = IF writer = u THEN None ELSE writer
  /\ Finish(u)
  /\ UNCHANGED <<map, made>>

-----------------------------------------------------------------------------
(* Using a connection *)

\* A publish or a snapshot is over, well or badly, a runtime is cancelled, or
\* its backoff after an eviction ends.
Release(u) ==
  /\ pc[u] \in {"using", "sleep"}
  /\ Finish(u)
  /\ UNCHANGED <<map, writer, made>>

\* XREAD fails in a stream runtime, which calls evict_connection.
XreadFails(u) ==
  /\ pc[u] = "using"
  /\ pc' = [pc EXCEPT ![u] = "evict"]
  /\ UNCHANGED <<map, writer, host, conn, made>>

\* HOST_MAP.write().await.remove(host): whatever is cached by then goes.
EvictConnection(u) ==
  /\ pc[u] = "evict"
  /\ writer = None
  /\ map' = [map EXCEPT ![host[u]] = None]
  /\ pc' = [pc EXCEPT ![u] = "sleep"]
  /\ UNCHANGED <<writer, host, conn, made>>

-----------------------------------------------------------------------------
UserStep(u) ==
  \/ ReadLookup(u)
  \/ WriteLookupHit(u)
  \/ WriteLookupMiss(u)
  \/ \E m \in Managers : ConnectOk(u, m)
  \/ ConnectFails(u)
  \/ EvictConnection(u)

Next ==
  \/ \E u \in Users, h \in Hosts : GetConnection(u, h)
  \/ \E u \in Users : UserStep(u) \/ Abandon(u) \/ Release(u) \/ XreadFails(u)

Spec == Init /\ [][Next]_vars

-----------------------------------------------------------------------------
(* Properties *)

\* Every call of get_connection and of evict_connection returns: no error
\* path and no abandoned call leaves the lock of all hosts behind.
CallsReturn ==
  \A u \in Users :
    (pc[u] \in {"read", "write", "connecting", "evict"})
    ~> (pc[u] \in {"using", "idle", "sleep"})

Abstract == INSTANCE SharedResources
  WITH Keys <- Hosts, Resources <- Managers, RetireInUse <- TRUE,
       current <- map, holding <- conn

\* The users of a host share one manager, which is not replaced before it is
\* evicted.
ImplementsSharedResources == Abstract!Spec
=============================================================================
