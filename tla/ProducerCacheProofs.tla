------------------------- MODULE ProducerCacheProofs -------------------------
(***************************************************************************)
(* Proofs of the safety properties of ProducerCache, for any sets of       *)
(* hosts, users and producers and any timing constants.                    *)
(***************************************************************************)
EXTENDS ProducerCache, TLAPS

\* A user that is not idle has a host.
HostInv == \A u \in Users : pc[u] # "idle" => host[u] \in Hosts

\* A user holds a producer from the lookup that hit to the end of its call.
HeldInv ==
  \A u \in Users :
    /\ pc[u] \in {"idle", "read", "write"} => producer[u] = None
    /\ pc[u] \in {"stamp", "publish"} => producer[u] \in Producers

\* What is cached was made, and its insertion started the reaper.
MapInv ==
  \A h \in Hosts : map[h] # None => map[h] \in made /\ reaperPc # "unborn"

\* The reaper visits entries that are there.
TodoInv == reaperPc = "retain" => \A h \in todo : map[h] # None

\* A call that has still to stamp began at most MaxDelay ago.
CallInv ==
  \A u \in Users : pc[u] \in {"read", "stamp", "write"} =>
    now <= stamp[u] + MaxDelay

\* So the stamp of an entry is at most MaxDelay older than its last use,
\* even where a slow call overwrote the stamp of a faster one.
StampInv == \A p \in Producers : lastCall[p] <= lastUsed[p] + MaxDelay

\* The reaper's clock: not too far ahead asleep, not ahead at all awake, and
\* never more than MaxLate behind.
ReaperInv ==
  /\ reaperPc # "unborn" => now <= reaperTime + MaxLate
  /\ reaperPc = "sleep" => reaperTime <= now + REAPER_INTERVAL
  /\ reaperPc \in {"lock", "retain"} => reaperTime <= now

\* How far the reaper's clock may have run past the grace period of a cached
\* producer: not at all once this pass has visited it, and since then by the
\* end of the pass, one sleep and the delay of the next wake-up.
DeadlineInv ==
  \A h \in Hosts : map[h] # None =>
    LET expiry == lastUsed[map[h]] + EVICT_AFTER_IDLE IN
    /\ reaperPc = "sleep" => reaperTime < expiry + REAPER_INTERVAL + MaxLate
    /\ reaperPc \in {"lock", "retain"} =>
         reaperTime < expiry + REAPER_INTERVAL + 2 * MaxLate
    /\ reaperPc = "retain" /\ h \notin todo => reaperTime < expiry

IInv ==
  /\ TypeOK
  /\ HostInv
  /\ HeldInv
  /\ MapInv
  /\ TodoInv
  /\ CallInv
  /\ StampInv
  /\ ReaperInv
  /\ DeadlineInv

\* The timing constants as the proofs use them.
LEMMA Timing ==
  /\ EVICT_AFTER_IDLE \in Nat /\ EVICT_AFTER_IDLE > 0
  /\ REAPER_INTERVAL \in Nat
  /\ MaxLate \in Nat /\ MaxLate > 0
  /\ MaxDelay \in Nat /\ MaxDelay < EVICT_AFTER_IDLE
BY ProducerAssumption

\* A call begins: its stamp is the time it is.
LEMMA GetKafkaProducerKeeps ==
  ASSUME IInv, NEW u \in Users, NEW h \in Hosts, GetKafkaProducer(u, h)
  PROVE  IInv'
<1>1. TypeOK'
  BY DEF IInv, TypeOK, reaperVars, GetKafkaProducer
<1>2. HostInv'
  BY DEF IInv, TypeOK, HostInv, GetKafkaProducer
<1>3. HeldInv'
  BY DEF IInv, TypeOK, HeldInv, GetKafkaProducer
<1>4. CallInv'
  BY Timing DEF IInv, TypeOK, CallInv, GetKafkaProducer
<1>5. MapInv' /\ TodoInv' /\ StampInv' /\ ReaperInv' /\ DeadlineInv'
  BY DEF IInv, MapInv, TodoInv, StampInv, ReaperInv, DeadlineInv, reaperVars,
     GetKafkaProducer
<1> QED
  BY <1>1, <1>2, <1>3, <1>4, <1>5 DEF IInv

\* The first lookup: on a hit the user holds what is cached.
LEMMA ReadLookupKeeps ==
  ASSUME IInv, NEW u \in Users, ReadLookup(u)
  PROVE  IInv'
<1>1. TypeOK'
  BY DEF IInv, TypeOK, HostInv, reaperVars, ReadLookup
<1>2. HostInv'
  BY DEF IInv, TypeOK, HostInv, ReadLookup
<1>3. HeldInv'
  BY DEF IInv, TypeOK, HostInv, HeldInv, ReadLookup
<1>4. CallInv'
  BY DEF IInv, TypeOK, CallInv, ReadLookup
<1>5. MapInv' /\ TodoInv' /\ StampInv' /\ ReaperInv' /\ DeadlineInv'
  BY DEF IInv, MapInv, TodoInv, StampInv, ReaperInv, DeadlineInv, reaperVars,
     ReadLookup
<1> QED
  BY <1>1, <1>2, <1>3, <1>4, <1>5 DEF IInv

\* What a call does that is in time to stamp: the stamp may go back, but to a
\* time less than the grace period ago, so no entry becomes overdue by it.
LEMMA StampKeeps ==
  ASSUME IInv, NEW u \in Users, pc[u] \in {"stamp", "write"},
         NEW p \in Producers, Stamp(u, p), UNCHANGED <<now, map, reaperVars>>
  PROVE  StampInv' /\ DeadlineInv'
<1>1. /\ lastUsed' = [lastUsed EXCEPT ![p] = stamp[u]]
      /\ lastCall' = [lastCall EXCEPT ![p] = now]
      /\ lastUsed' \in [Producers -> Nat]
  BY DEF IInv, TypeOK, Stamp
<1>2. now <= stamp[u] + MaxDelay /\ now < stamp[u] + EVICT_AFTER_IDLE
  BY Timing DEF IInv, TypeOK, CallInv
<1>3. StampInv'
  BY <1>1, <1>2, Timing DEF IInv, TypeOK, StampInv
<1>4. DeadlineInv'
  BY <1>1, <1>2, Timing
  DEF IInv, TypeOK, ReaperInv, DeadlineInv, reaperVars
<1> QED
  BY <1>3, <1>4

\* The fast path stamps what it cloned, which may be evicted by now.
LEMMA StampCloneKeeps ==
  ASSUME IInv, NEW u \in Users, StampClone(u)
  PROVE  IInv'
<1>1. TypeOK'
  BY DEF IInv, TypeOK, HeldInv, Stamp, reaperVars, StampClone
<1>2. HostInv' /\ HeldInv' /\ CallInv'
  BY DEF IInv, TypeOK, HostInv, HeldInv, CallInv, StampClone
<1>3. MapInv' /\ TodoInv' /\ ReaperInv'
  BY DEF IInv, MapInv, TodoInv, ReaperInv, reaperVars, StampClone
<1>4. StampInv' /\ DeadlineInv'
  BY StampKeeps DEF IInv, HeldInv, reaperVars, StampClone
<1> QED
  BY <1>1, <1>2, <1>3, <1>4 DEF IInv

\* The second lookup hits: nobody makes a second producer.
LEMMA WriteLookupHitKeeps ==
  ASSUME IInv, NEW u \in Users, WriteLookupHit(u)
  PROVE  IInv'
<1>1. map[host[u]] \in Producers
  BY DEF IInv, TypeOK, HostInv, Missing, WriteLookupHit
<1>2. TypeOK'
  BY <1>1 DEF IInv, TypeOK, Stamp, reaperVars, WriteLookupHit
<1>3. HostInv' /\ HeldInv' /\ CallInv'
  BY <1>1 DEF IInv, TypeOK, HostInv, HeldInv, CallInv, WriteLookupHit
<1>4. MapInv' /\ TodoInv' /\ ReaperInv'
  BY DEF IInv, MapInv, TodoInv, ReaperInv, reaperVars, WriteLookupHit
<1>5. StampInv' /\ DeadlineInv'
  BY <1>1, StampKeeps DEF reaperVars, WriteLookupHit
<1> QED
  BY <1>2, <1>3, <1>4, <1>5 DEF IInv

\* The second lookup misses: the entry is new, and the reaper's next wake-up
\* is at most one sleep away.
LEMMA WriteLookupMissKeeps ==
  ASSUME IInv, NEW u \in Users, NEW p \in Producers, WriteLookupMiss(u, p)
  PROVE  IInv'
<1>1. TypeOK'
  BY Timing
  DEF IInv, TypeOK, HostInv, Stamp, StartReaper, reaperVars, WriteLookupMiss
<1>2. HostInv' /\ HeldInv' /\ CallInv'
  BY DEF IInv, TypeOK, HostInv, HeldInv, CallInv, WriteLookupMiss
<1>3. MapInv'
  BY DEF IInv, TypeOK, MapInv, HostInv, StartReaper, reaperVars,
     WriteLookupMiss
<1>4. TodoInv'
  BY DEF IInv, TodoInv, LockIsFree, StartReaper, reaperVars, WriteLookupMiss
<1>5. ReaperInv'
  BY Timing DEF IInv, TypeOK, ReaperInv, StartReaper, reaperVars,
     WriteLookupMiss
<1>6. now <= stamp[u] + MaxDelay /\ now < stamp[u] + EVICT_AFTER_IDLE
  BY Timing DEF IInv, TypeOK, CallInv, WriteLookupMiss
<1>7. StampInv'
  BY <1>6, Timing DEF IInv, TypeOK, StampInv, Stamp, WriteLookupMiss
<1>8. DeadlineInv'
  <2>1. lastUsed'[p] = stamp[u] /\ map' = [map EXCEPT ![host[u]] = p]
    BY DEF IInv, TypeOK, Stamp, WriteLookupMiss
  <2>2. \A h \in Hosts : map[h] # None => lastUsed'[map[h]] = lastUsed[map[h]]
    BY DEF IInv, TypeOK, MapInv, Stamp, WriteLookupMiss
  <2> QED
    BY <1>6, <2>1, <2>2, Timing
    DEF IInv, TypeOK, MapInv, ReaperInv, DeadlineInv, LockIsFree, StartReaper,
        reaperVars, WriteLookupMiss
<1> QED
  BY <1>1, <1>2, <1>3, <1>4, <1>5, <1>7, <1>8 DEF IInv

\* A call that ends, however it does, leaves the cache alone.
LEMMA FinishKeeps ==
  ASSUME IInv, NEW u \in Users, Finish(u)
  PROVE  IInv'
<1>1. TypeOK'
  BY DEF IInv, TypeOK, reaperVars, Finish
<1>2. HostInv' /\ HeldInv' /\ CallInv'
  BY DEF IInv, TypeOK, HostInv, HeldInv, CallInv, Finish
<1>3. MapInv' /\ TodoInv' /\ StampInv' /\ ReaperInv' /\ DeadlineInv'
  BY DEF IInv, MapInv, TodoInv, StampInv, ReaperInv, DeadlineInv, reaperVars,
     Finish
<1> QED
  BY <1>1, <1>2, <1>3 DEF IInv

\* The reaper wakes up at most MaxLate after it should.
LEMMA ReaperWakeKeeps ==
  ASSUME IInv, ReaperWake
  PROVE  IInv'
<1>1. TypeOK'
  BY DEF IInv, TypeOK, userVars, ReaperWake
<1>2. HostInv' /\ HeldInv' /\ CallInv' /\ StampInv'
  BY DEF IInv, HostInv, HeldInv, CallInv, StampInv, userVars, ReaperWake
<1>3. MapInv' /\ TodoInv'
  BY DEF IInv, MapInv, TodoInv, ReaperWake
<1>4. ReaperInv'
  BY Timing DEF IInv, TypeOK, ReaperInv, ReaperWake
<1>5. DeadlineInv'
  BY Timing DEF IInv, TypeOK, ReaperInv, DeadlineInv, ReaperWake
<1> QED
  BY <1>1, <1>2, <1>3, <1>4, <1>5 DEF IInv

\* The pass begins with every entry to visit.
LEMMA ReaperLockKeeps ==
  ASSUME IInv, ReaperLock
  PROVE  IInv'
<1>1. TypeOK'
  BY DEF IInv, TypeOK, userVars, ReaperLock
<1>2. HostInv' /\ HeldInv' /\ CallInv' /\ StampInv'
  BY DEF IInv, HostInv, HeldInv, CallInv, StampInv, userVars, ReaperLock
<1>3. MapInv' /\ TodoInv' /\ ReaperInv'
  BY DEF IInv, MapInv, TodoInv, ReaperInv, ReaperLock
<1>4. DeadlineInv'
  BY DEF IInv, DeadlineInv, ReaperLock
<1> QED
  BY <1>1, <1>2, <1>3, <1>4 DEF IInv

\* A visit keeps an entry whose grace period the reaper's clock has not
\* passed, and no other.
LEMMA ReaperVisitKeeps ==
  ASSUME IInv, NEW h \in Hosts, ReaperVisit(h)
  PROVE  IInv'
<1>1. TypeOK'
  BY DEF IInv, TypeOK, userVars, ReaperVisit
<1>2. HostInv' /\ HeldInv' /\ CallInv' /\ StampInv' /\ ReaperInv'
  BY DEF IInv, HostInv, HeldInv, CallInv, StampInv, ReaperInv, userVars,
     ReaperVisit
<1>3. MapInv' /\ TodoInv'
  BY DEF IInv, TypeOK, MapInv, TodoInv, ReaperVisit
<1>4. DeadlineInv'
  <2>1. map[h] \in Producers
    BY DEF IInv, TypeOK, TodoInv, ReaperVisit
  <2>2. Retained(map[h]) => reaperTime < lastUsed[map[h]] + EVICT_AFTER_IDLE
    BY <2>1, Timing DEF IInv, TypeOK, Retained, SaturatingSub
  <2> QED
    BY <2>1, <2>2 DEF IInv, TypeOK, DeadlineInv, ReaperVisit
<1> QED
  BY <1>1, <1>2, <1>3, <1>4 DEF IInv

\* The pass ends at most MaxLate after the reaper read its clock.
LEMMA ReaperReleaseKeeps ==
  ASSUME IInv, ReaperRelease
  PROVE  IInv'
<1>1. TypeOK'
  BY Timing DEF IInv, TypeOK, userVars, ReaperRelease
<1>2. HostInv' /\ HeldInv' /\ CallInv' /\ StampInv'
  BY DEF IInv, HostInv, HeldInv, CallInv, StampInv, userVars, ReaperRelease
<1>3. MapInv' /\ TodoInv'
  BY DEF IInv, MapInv, TodoInv, ReaperRelease
<1>4. ReaperInv'
  BY Timing DEF IInv, TypeOK, ReaperInv, ReaperRelease
<1>5. DeadlineInv'
  BY Timing DEF IInv, TypeOK, ReaperInv, DeadlineInv, ReaperRelease
<1> QED
  BY <1>1, <1>2, <1>3, <1>4, <1>5 DEF IInv

\* Time waits for a call that has to stamp and for a reaper that is due.
LEMMA TickKeeps ==
  ASSUME IInv, Tick
  PROVE  IInv'
<1>1. TypeOK'
  BY DEF IInv, TypeOK, userVars, reaperVars, Tick
<1>2. CallInv'
  BY Timing DEF IInv, TypeOK, CallInv, userVars, Tick
<1>3. ReaperInv'
  BY Timing DEF IInv, TypeOK, ReaperInv, reaperVars, Tick
<1>4. HostInv' /\ HeldInv' /\ MapInv' /\ TodoInv' /\ StampInv' /\ DeadlineInv'
  BY DEF IInv, HostInv, HeldInv, MapInv, TodoInv, StampInv, DeadlineInv,
     userVars, reaperVars, Tick
<1> QED
  BY <1>1, <1>2, <1>3, <1>4 DEF IInv

-----------------------------------------------------------------------------

\* IInv holds initially and every step keeps it, so it always holds.
THEOREM Invariance == Spec => []IInv
<1>1. Init => IInv
  BY ProducerAssumption
  DEF Init, IInv, TypeOK, HostInv, HeldInv, MapInv, TodoInv, CallInv, StampInv,
      ReaperInv, DeadlineInv
<1>2. IInv /\ [Next]_vars => IInv'
  <2> SUFFICES ASSUME IInv, [Next]_vars
               PROVE  IInv'
    OBVIOUS
  <2>1. ASSUME NEW u \in Users, NEW h \in Hosts, GetKafkaProducer(u, h)
        PROVE  IInv'
    BY <2>1, GetKafkaProducerKeeps
  <2>2. ASSUME NEW u \in Users, UserStep(u) \/ Abandon(u) \/ PublishEnds(u)
        PROVE  IInv'
    BY <2>2, ReadLookupKeeps, StampCloneKeeps, WriteLookupHitKeeps,
       WriteLookupMissKeeps, FinishKeeps
    DEF UserStep, CreateFails, Abandon, PublishEnds
  <2>3. CASE ReaperStep
    BY <2>3, ReaperWakeKeeps, ReaperLockKeeps, ReaperVisitKeeps,
       ReaperReleaseKeeps DEF ReaperStep
  <2>4. CASE Tick
    BY <2>4, TickKeeps
  <2>5. CASE UNCHANGED vars
    BY <2>5
    DEF vars, userVars, reaperVars, IInv, TypeOK, HostInv, HeldInv, MapInv,
        TodoInv, CallInv, StampInv, ReaperInv, DeadlineInv
  <2> QED
    BY <2>1, <2>2, <2>3, <2>4, <2>5 DEF Next
<1> QED
  BY <1>1, <1>2, PTL DEF Spec

\* Every reachable state is well-typed: in particular the fast path stamps the
\* entry of a producer, never the absence of one.
THEOREM TypeCorrect == Spec => []TypeOK
<1>1. IInv => TypeOK
  BY DEF IInv
<1> QED
  BY <1>1, Invariance, PTL

\* A cached producer that nobody asks for is gone when the grace period, one
\* sleep and three delays of the reaper have passed: whatever the calls do to
\* its stamp meanwhile, and wherever the reaper is in its pass.
THEOREM PromptEviction == Spec => []EvictionIsPrompt
<1>1. IInv => EvictionIsPrompt
  BY Timing DEF IInv, TypeOK, MapInv, ReaperInv, DeadlineInv, EvictionIsPrompt
<1> QED
  BY <1>1, Invariance, PTL

\* A producer is evicted only if no call stamped it during the grace period,
\* less the time a call may take.
THEOREM NoEarlyEviction == Spec => EvictionRespectsUse
<1> DEFINE EvictsUnused ==
      \A h \in Hosts : map[h] # None /\ map'[h] = None =>
        reaperTime + MaxDelay >= lastCall[map[h]] + EVICT_AFTER_IDLE
<1>1. IInv /\ [Next]_vars => [EvictsUnused]_vars
  <2> SUFFICES ASSUME IInv, Next
               PROVE  EvictsUnused
    OBVIOUS
  <2> SUFFICES ASSUME NEW h \in Hosts, map[h] # None, map'[h] = None
               PROVE  reaperTime + MaxDelay >= lastCall[map[h]] + EVICT_AFTER_IDLE
    OBVIOUS
  <2>1. ReaperVisit(h)
    <3>1. ASSUME NEW u \in Users, NEW p \in Producers
          PROVE  ~WriteLookupMiss(u, p)
      BY ProducerAssumption DEF IInv, TypeOK, HostInv, WriteLookupMiss
    <3>2. ASSUME NEW g \in Hosts, ReaperVisit(g)
          PROVE  g = h
      BY <3>2 DEF IInv, TypeOK, ReaperVisit
    <3> QED
      BY <3>1, <3>2
      DEF Next, GetKafkaProducer, UserStep, ReadLookup, StampClone,
          WriteLookupHit, CreateFails, Abandon, PublishEnds, Finish,
          ReaperStep, ReaperWake, ReaperLock, ReaperRelease, Tick
  <2>2. map[h] \in Producers /\ ~Retained(map[h])
    BY <2>1 DEF IInv, TypeOK, ReaperVisit
  <2>3. reaperTime >= lastUsed[map[h]] + EVICT_AFTER_IDLE
    BY <2>2, Timing DEF IInv, TypeOK, Retained, SaturatingSub
  <2> QED
    BY <2>2, <2>3, Timing DEF IInv, TypeOK, StampInv
<1> QED
  BY <1>1, Invariance, PTL DEF Spec, EvictionRespectsUse

-----------------------------------------------------------------------------

\* ProducerCache implements SharedResources: the publishers of a host share
\* one producer, which is never replaced while it is cached and never brought
\* back, although it may be evicted while somebody still sends with it.
THEOREM Refinement == Spec => ImplementsSharedResources
<1>1. Init => Abstract!Init
  BY DEF Init, Abstract!Init
<1>2. IInv /\ [Next]_vars => [Abstract!Next]_(Abstract!vars)
  <2> SUFFICES ASSUME IInv, [Next]_vars
               PROVE  [Abstract!Next]_(Abstract!vars)
    OBVIOUS
  <2>1. ASSUME UNCHANGED <<map, producer, made>>
        PROVE  [Abstract!Next]_(Abstract!vars)
    BY <2>1 DEF Abstract!vars
  <2>2. ASSUME NEW u \in Users, ReadLookup(u) \/ WriteLookupHit(u)
        PROVE  [Abstract!Next]_(Abstract!vars)
    <3>1. PICK h \in Hosts : h = host[u]
      BY <2>2 DEF IInv, HostInv, ReadLookup, WriteLookupHit
    <3>2. /\ producer[u] = None
          /\ producer' = [producer EXCEPT ![u] = map[h]]
          /\ UNCHANGED <<map, made>>
      BY <2>2, <3>1 DEF IInv, HeldInv, ReadLookup, WriteLookupHit
    <3>3. CASE map[h] # None
      <4>1. Abstract!Acquire(u, h)
        BY <3>2, <3>3 DEF Abstract!Acquire
      <4> QED
        BY <4>1 DEF Abstract!Next
    <3>4. CASE map[h] = None
      <4>1. producer' = producer
        BY <3>2, <3>4 DEF IInv, TypeOK
      <4> QED
        BY <2>1, <3>2, <4>1
    <3> QED
      BY <3>3, <3>4
  <2>3. ASSUME NEW u \in Users, NEW p \in Producers, WriteLookupMiss(u, p)
        PROVE  [Abstract!Next]_(Abstract!vars)
    <3>1. PICK h \in Hosts : h = host[u]
      BY <2>3 DEF IInv, HostInv, WriteLookupMiss
    <3>2. Abstract!Make(u, h, p)
      BY <2>3, <3>1 DEF IInv, HeldInv, Missing, WriteLookupMiss, Abstract!Make
    <3> QED
      BY <3>2 DEF Abstract!Next
  <2>4. ASSUME NEW u \in Users, CreateFails(u) \/ Abandon(u)
        PROVE  [Abstract!Next]_(Abstract!vars)
    <3>1. producer' = producer
      BY <2>4 DEF IInv, TypeOK, HeldInv, CreateFails, Abandon, Finish
    <3> QED
      BY <2>1, <2>4, <3>1 DEF CreateFails, Abandon, Finish
  <2>5. ASSUME NEW u \in Users, PublishEnds(u)
        PROVE  [Abstract!Next]_(Abstract!vars)
    <3>1. Abstract!Release(u)
      BY <2>5, ProducerAssumption
      DEF IInv, HeldInv, PublishEnds, Finish, Abstract!Release
    <3> QED
      BY <3>1 DEF Abstract!Next
  <2>6. ASSUME NEW h \in Hosts, ReaperVisit(h)
        PROVE  [Abstract!Next]_(Abstract!vars)
    <3>1. Abstract!Retire(h) \/ UNCHANGED <<map, producer, made>>
      BY <2>6 DEF IInv, TodoInv, ReaperVisit, userVars, Abstract!Retire
    <3> QED
      BY <2>1, <3>1 DEF Abstract!Next
  <2>7. ASSUME NEW u \in Users, NEW h \in Hosts, GetKafkaProducer(u, h)
        PROVE  [Abstract!Next]_(Abstract!vars)
    BY <2>1, <2>7 DEF GetKafkaProducer
  <2>8. CASE ReaperWake \/ ReaperLock \/ ReaperRelease \/ Tick \/ UNCHANGED vars
    BY <2>1, <2>8
    DEF ReaperWake, ReaperLock, ReaperRelease, Tick, vars, userVars
  <2>9. ASSUME NEW u \in Users, StampClone(u)
        PROVE  [Abstract!Next]_(Abstract!vars)
    BY <2>1, <2>9 DEF StampClone
  <2> QED
    BY <2>2, <2>3, <2>4, <2>5, <2>6, <2>7, <2>8, <2>9
    DEF Next, UserStep, ReaperStep
<1> QED
  BY <1>1, <1>2, Invariance, PTL
  DEF Spec, Abstract!Spec, ImplementsSharedResources
=============================================================================
