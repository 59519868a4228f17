---------------------------- MODULE ProducerCache ----------------------------
(***************************************************************************)
(* PRODUCER_MAP, the process-wide cache of Kafka producers                 *)
(* (src/src/kafka_impl/kafka_cache/mod.rs), the publishers that use it and *)
(* its reaper.                                                             *)
(*                                                                         *)
(* Nothing tells whether a producer is in use, so every call of            *)
(* get_kafka_producer stamps the entry.  The stamp is the time at which    *)
(* the call began; on the fast path it is stored after the read lock was   *)
(* released, into an entry that may have been evicted since.               *)
(***************************************************************************)
EXTENDS Integers

CONSTANTS
  Hosts,
  Users,             \* publishers, one call of publish at a time
  Producers,         \* identities of producers and their entries
  None,
  EVICT_AFTER_IDLE,  \* in ticks
  REAPER_INTERVAL,   \* in ticks
  MaxDelay,          \* bound: how long a call waits before it stamps
  MaxLate,           \* bound: how far the reaper falls behind the clock
  MaxTime            \* bound: the clock stops here

ASSUME ProducerAssumption ==
  /\ None \notin Hosts \cup Users \cup Producers
  /\ {EVICT_AFTER_IDLE, REAPER_INTERVAL, MaxLate} \subseteq Nat \ {0}
  /\ MaxDelay \in 0 .. EVICT_AFTER_IDLE - 1
  /\ MaxTime \in Nat

VARIABLES
  now,         \* now_secs
  map,         \* PRODUCER_MAP: the producer of each host, or None
  made,        \* the producers created so far
  lastUsed,    \* last_used_epoch_secs of each entry
  pc,          \* control point of each user
  host,        \* the host it publishes to
  stamp,       \* its local `now`
  producer,    \* the entry or the producer it cloned
  reaperPc,
  reaperTime,  \* its wake-up time asleep, its `now` awake
  todo,        \* hosts the running pass has still to visit
  lastCall     \* history: the last lookup of each producer that was stamped

userVars == <<pc, host, stamp, producer>>
reaperVars == <<reaperPc, reaperTime, todo>>
vars == <<now, map, made, lastUsed, userVars, reaperVars, lastCall>>

TypeOK ==
  /\ now \in Nat
  /\ map \in [Hosts -> Producers \cup {None}]
  /\ made \in SUBSET Producers
  /\ lastUsed \in [Producers -> Nat]
  /\ pc \in [Users -> {"idle", "read", "stamp", "write", "publish"}]
  /\ host \in [Users -> Hosts \cup {None}]
  /\ stamp \in [Users -> Nat]
  /\ producer \in [Users -> Producers \cup {None}]
  /\ reaperPc \in {"unborn", "sleep", "lock", "retain"}
  /\ reaperTime \in Nat
  /\ todo \in SUBSET Hosts
  /\ lastCall \in [Producers -> Nat]

Init ==
  /\ now = 0
  /\ map = [h \in Hosts |-> None]
  /\ made = {}
  /\ lastUsed = [p \in Producers |-> 0]
  /\ pc = [u \in Users |-> "idle"]
  /\ host = [u \in Users |-> None]
  /\ stamp = [u \in Users |-> 0]
  /\ producer = [u \in Users |-> None]
  /\ reaperPc = "unborn"
  /\ reaperTime = 0
  /\ todo = {}
  /\ lastCall = [p \in Producers |-> 0]

\* Only the reaper keeps the write lock across steps.
LockIsFree == reaperPc # "retain"

-----------------------------------------------------------------------------
(* get_kafka_producer *)

\* The clock is read before the first lock is asked for.
GetKafkaProducer(u, h) ==
  /\ pc[u] = "idle"
  /\ pc' = [pc EXCEPT ![u] = "read"]
  /\ host' = [host EXCEPT ![u] = h]
  /\ stamp' = [stamp EXCEPT ![u] = now]
  /\ UNCHANGED <<now, map, made, lastUsed, producer, reaperVars, lastCall>>

\* The entry is cloned under the read lock, which is released at once.
ReadLookup(u) ==
  /\ pc[u] = "read"
  /\ LockIsFree
  /\ pc' = [pc EXCEPT ![u] = IF map[host[u]] # None THEN "stamp" ELSE "write"]
  /\ producer' = [producer EXCEPT ![u] = map[host[u]]]
  /\ UNCHANGED <<now, map, made, lastUsed, host, stamp, reaperVars, lastCall>>

\* Mutant of Stamp: the fast path forgets to mark the entry as used.
StampForgotten(u, p) ==
  /\ lastCall' = [lastCall EXCEPT ![p] = now]
  /\ UNCHANGED lastUsed

\* The entry of p is marked with the time at which the call of u began.
Stamp(u, p) ==
  /\ lastUsed' = [lastUsed EXCEPT ![p] = stamp[u]]
  /\ lastCall' = [lastCall EXCEPT ![p] = now]

\* The fast path stamps the entry it cloned, under no lock.
StampClone(u) ==
  /\ pc[u] = "stamp"
  /\ Stamp(u, producer[u])
  /\ pc' = [pc EXCEPT ![u] = "publish"]
  /\ UNCHANGED <<now, map, made, host, stamp, producer, reaperVars>>

\* Mutant of Missing: no second lookup under the write lock.
MissingUnchecked(u) == TRUE

Missing(u) == map[host[u]] = None

WriteLookupHit(u) ==
  /\ pc[u] = "write"
  /\ LockIsFree
  /\ ~Missing(u)
  /\ Stamp(u, map[host[u]])
  /\ producer' = [producer EXCEPT ![u] = map[host[u]]]
  /\ pc' = [pc EXCEPT ![u] = "publish"]
  /\ UNCHANGED <<now, map, made, host, stamp, reaperVars>>

\* Mutant of StartReaper: the first wake-up is set in the past.
StartReaperBackdated ==
  IF reaperPc = "unborn"
  THEN /\ reaperPc' = "sleep"
       /\ reaperTime' = now - REAPER_INTERVAL
       /\ UNCHANGED todo
  ELSE UNCHANGED reaperVars

\* The first insertion starts the reaper, which first sleeps one interval.
StartReaper ==
  IF reaperPc = "unborn"
  THEN /\ reaperPc' = "sleep"
       /\ reaperTime' = now + REAPER_INTERVAL
       /\ UNCHANGED todo
  ELSE UNCHANGED reaperVars

\* Nothing is awaited between the second lookup and the insertion.
WriteLookupMiss(u, p) ==
  /\ pc[u] = "write"
  /\ LockIsFree
  /\ Missing(u)
  /\ p \notin made
  /\ made' = made \cup {p}
  /\ map' = [map EXCEPT ![host[u]] = p]
  /\ Stamp(u, p)
  /\ StartReaper
  /\ producer' = [producer EXCEPT ![u] = p]
  /\ pc' = [pc EXCEPT ![u] = "publish"]
  /\ UNCHANGED <<now, host, stamp>>

\* The user is through with this call of publish.
Finish(u) ==
  /\ pc' = [pc EXCEPT ![u] = "idle"]
  /\ host' = [host EXCEPT ![u] = None]
  /\ producer' = [producer EXCEPT ![u] = None]
  /\ stamp' = [stamp EXCEPT ![u] = 0]
  /\ UNCHANGED <<now, map, made, lastUsed, reaperVars, lastCall>>

\* ClientConfig::create fails, and the call with it.
CreateFails(u) ==
  /\ pc[u] = "write"
  /\ LockIsFree
  /\ Missing(u)
  /\ Finish(u)

\* The future is dropped while it awaits one of the locks.
Abandon(u) ==
  /\ pc[u] \in {"read", "write"}
  /\ Finish(u)

\* FutureProducer::send ends, well or badly, and the clone is dropped.
PublishEnds(u) ==
  /\ pc[u] = "publish"
  /\ Finish(u)

-----------------------------------------------------------------------------
(* The reaper and the clock *)

ReaperWake ==
  /\ reaperPc = "sleep"
  /\ now >= reaperTime
  /\ reaperPc' = "lock"
  /\ reaperTime' = now
  /\ UNCHANGED <<now, map, made, lastUsed, userVars, todo, lastCall>>

ReaperLock ==
  /\ reaperPc = "lock"
  /\ reaperPc' = "retain"
  /\ todo' = {h \in Hosts : map[h] # None}
  /\ UNCHANGED <<now, map, made, lastUsed, userVars, reaperTime, lastCall>>

\* u64::saturating_sub
SaturatingSub(a, b) == IF a > b THEN a - b ELSE 0

\* Mutant of Retained: nothing is ever let go.
RetainedAlways(p) == TRUE

Retained(p) == SaturatingSub(reaperTime, lastUsed[p]) < EVICT_AFTER_IDLE

\* One call of the closure given to retain.
ReaperVisit(h) ==
  /\ reaperPc = "retain"
  /\ h \in todo
  /\ todo' = todo \ {h}
  /\ map' = IF Retained(map[h]) THEN map ELSE [map EXCEPT ![h] = None]
  /\ UNCHANGED <<now, made, lastUsed, userVars, reaperPc, reaperTime, lastCall>>

ReaperRelease ==
  /\ reaperPc = "retain"
  /\ todo = {}
  /\ reaperPc' = "sleep"
  /\ reaperTime' = now + REAPER_INTERVAL
  /\ UNCHANGED <<now, map, made, lastUsed, userVars, todo, lastCall>>

\* Time passes, unless the reaper or a call would be too late.
Tick ==
  /\ now < MaxTime
  /\ reaperPc # "unborn" => now < reaperTime + MaxLate
  /\ \A u \in Users : pc[u] \in {"read", "stamp", "write"} => now < stamp[u] + MaxDelay
  /\ now' = now + 1
  /\ UNCHANGED <<map, made, lastUsed, userVars, reaperVars, lastCall>>

-----------------------------------------------------------------------------
UserStep(u) ==
  \/ ReadLookup(u)
  \/ StampClone(u)
  \/ WriteLookupHit(u)
  \/ \E p \in Producers : WriteLookupMiss(u, p)
  \/ CreateFails(u)

ReaperStep ==
  \/ ReaperWake
  \/ ReaperLock
  \/ \E h \in Hosts : ReaperVisit(h)
  \/ ReaperRelease

Next ==
  \/ \E u \in Users, h \in Hosts : GetKafkaProducer(u, h)
  \/ \E u \in Users : UserStep(u) \/ Abandon(u) \/ PublishEnds(u)
  \/ ReaperStep
  \/ Tick

Spec == Init /\ [][Next]_vars

-----------------------------------------------------------------------------
(* Properties *)

\* "A background reaper removes idle entries after a grace period": a
\* producer is evicted only if no call stamped it during the grace period,
\* less the time a call may take, although a slow call may overwrite the
\* stamp of a faster one that began later.
EvictionRespectsUse ==
  [][\A h \in Hosts : map[h] # None /\ map'[h] = None =>
       reaperTime + MaxDelay >= lastCall[map[h]] + EVICT_AFTER_IDLE]_vars

\* A cached producer nobody asks for is gone when the grace period and one
\* sleep of the reaper have passed, and the reaper was late in ending a pass,
\* in waking up and in getting the lock.
EvictionIsPrompt ==
  \A h \in Hosts : map[h] # None =>
    now < lastUsed[map[h]] + EVICT_AFTER_IDLE + REAPER_INTERVAL + 3 * MaxLate

Abstract == INSTANCE SharedResources
  WITH Keys <- Hosts, Resources <- Producers, RetireInUse <- TRUE,
       current <- map, holding <- producer

\* The publishers of a host share one producer, which is not replaced before
\* it is evicted.
ImplementsSharedResources == Abstract!Spec
=============================================================================
