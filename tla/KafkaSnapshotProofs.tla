------------------------- MODULE KafkaSnapshotProofs -------------------------
(***************************************************************************)
(* Proofs of the safety properties of KafkaSnapshot, for any number of     *)
(* partitions and messages and any interleaving with Kafka.                *)
(***************************************************************************)
EXTENDS KafkaSnapshot, TLAPS

\* A partition is a range of offsets, of which the consumer delivered some.
LogInv ==
  \A p \in Partitions :
    /\ low[p] <= high[p]
    /\ pos[p] <= high[p]
    /\ ~retention => low[p] = 0

\* What the consumer has passed was delivered or is gone.
PassedInv ==
  pc # "err" =>
    \A p \in Partitions : \A o \in 0 .. MaxOffset - 1 :
      o < NextOffset(p) => <<p, o>> \in ToSet(data) \cup gone

\* Watermarks only grow, so a bound stays below its watermark.
BoundInv == \A p \in Partitions : bound[p] < high[p]

\* A bound is waited for from the moment it is found until it is passed.
AwaitInv ==
  /\ pc = "watermarks" =>
       \A p \in Partitions \ todo : offsets[p] = bound[p]
  /\ pc \in {"read", "ok"} =>
       \A p \in Partitions :
         IF offsets[p] = -1 THEN bound[p] < NextOffset(p) ELSE offsets[p] = bound[p]

\* Nothing is delivered before all bounds are known, and nothing waited for
\* is passed over unless retention deletes it.
AheadInv ==
  ~retention =>
    \A p \in Partitions :
      /\ pc \in {"configure", "metadata", "watermarks"} => pos[p] = 0
      /\ pc = "read" /\ offsets[p] # -1 => pos[p] <= offsets[p]

DoneInv == pc = "ok" => ~Waiting

IInv ==
  /\ TypeOK
  /\ LogInv
  /\ PassedInv
  /\ BoundInv
  /\ AwaitInv
  /\ AheadInv
  /\ DoneInv

\* The part of TypeOK that arithmetic is about.
RangeOK ==
  /\ low \in [Partitions -> 0 .. MaxOffset]
  /\ high \in [Partitions -> 0 .. MaxOffset]
  /\ offsets \in [Partitions -> -1 .. MaxOffset - 1]
  /\ pos \in [Partitions -> 0 .. MaxOffset]
  /\ bound \in [Partitions -> -1 .. MaxOffset - 1]

\* The rest of it.
ContentOK ==
  /\ retention \in BOOLEAN
  /\ extra \in [Partitions -> BOOLEAN]
  /\ pc \in {"configure", "metadata", "watermarks", "read", "ok", "err"}
  /\ todo \in SUBSET Partitions
  /\ data \in Seq(Partitions \X (0 .. MaxOffset - 1))
  /\ gone \in SUBSET (Partitions \X (0 .. MaxOffset - 1))
  /\ empty \in BOOLEAN

LEMMA TypeSplit == TypeOK <=> RangeOK /\ ContentOK
BY DEF TypeOK, RangeOK, ContentOK

\* What a message adds to the snapshot.
LEMMA ToSetAppend ==
  ASSUME NEW S, NEW s \in Seq(S), NEW e \in S
  PROVE  ToSet(Append(s, e)) = ToSet(s) \cup {e}
<1>1. ToSet(Append(s, e)) \subseteq ToSet(s) \cup {e}
  BY DEF ToSet
<1>2. ToSet(s) \subseteq ToSet(Append(s, e))
  BY DEF ToSet
<1>3. e \in ToSet(Append(s, e))
  <2>1. Append(s, e)[Len(s) + 1] = e /\ Len(s) + 1 \in DOMAIN Append(s, e)
    OBVIOUS
  <2> QED
    BY <2>1 DEF ToSet
<1> QED
  BY <1>1, <1>2, <1>3

\* Steps that only move the control point.
LEMMA ControlKeeps ==
  ASSUME IInv,
         ConfigureConsumer \/ OffsetsKnown \/ BrokerFails \/ TimesOut \/ AllSeen
  PROVE  IInv'
<1>1. /\ UNCHANGED <<brokerVars, todo, offsets, pos, data, bound>>
      /\ pc # "err"
  BY DEF ConfigureConsumer, OffsetsKnown, BrokerFails, TimesOut, AllSeen
<1>2. TypeOK'
  BY <1>1
  DEF IInv, TypeOK, brokerVars, ConfigureConsumer, OffsetsKnown, BrokerFails,
      TimesOut, AllSeen
<1>3. LogInv' /\ PassedInv' /\ BoundInv'
  BY <1>1 DEF IInv, LogInv, PassedInv, BoundInv, NextOffset, brokerVars
<1>4. AwaitInv'
  <2>1. CASE OffsetsKnown
    BY <1>1, <2>1
    DEF IInv, TypeOK, AwaitInv, NextOffset, brokerVars, OffsetsKnown
  <2>2. CASE ConfigureConsumer \/ BrokerFails \/ TimesOut
    BY <1>1, <2>2 DEF AwaitInv, ConfigureConsumer, BrokerFails, TimesOut
  <2>3. CASE AllSeen
    BY <1>1, <2>3 DEF IInv, AwaitInv, NextOffset, brokerVars, AllSeen
  <2> QED
    BY <2>1, <2>2, <2>3
<1>5. AheadInv'
  BY <1>1
  DEF IInv, TypeOK, AwaitInv, AheadInv, brokerVars, ConfigureConsumer,
      OffsetsKnown, BrokerFails, TimesOut, AllSeen
<1>6. DoneInv'
  BY <1>1
  DEF DoneInv, Waiting, ConfigureConsumer, OffsetsKnown, BrokerFails, TimesOut,
      AllSeen
<1> QED
  BY <1>2, <1>3, <1>4, <1>5, <1>6 DEF IInv

\* All partitions are still to be asked about.
LEMMA FetchMetadataKeeps ==
  ASSUME IInv, FetchMetadata
  PROVE  IInv'
<1>1. TypeOK'
  BY DEF IInv, TypeOK, brokerVars, FetchMetadata
<1>2. LogInv' /\ PassedInv' /\ BoundInv'
  BY DEF IInv, LogInv, PassedInv, BoundInv, NextOffset, brokerVars,
     FetchMetadata
<1>3. AwaitInv' /\ AheadInv' /\ DoneInv'
  BY DEF IInv, AwaitInv, AheadInv, DoneInv, brokerVars, FetchMetadata
<1> QED
  BY <1>1, <1>2, <1>3 DEF IInv

\* The bound of one partition is found, while the others move on.
LEMMA FetchWatermarksKeeps ==
  ASSUME IInv, NEW p \in Partitions, FetchWatermarks(p)
  PROVE  IInv'
<1>1. high[p] \in 0 .. MaxOffset /\ MaxOffsetBelow(high[p]) = high[p] - 1
  BY SnapshotAssumption DEF IInv, TypeOK, MaxOffsetBelow
<1>2. TypeOK'
  <2>1. RangeOK'
    BY <1>1, TypeSplit, SnapshotAssumption
    DEF IInv, RangeOK, brokerVars, FetchWatermarks
  <2>2. ContentOK'
    BY TypeSplit DEF IInv, ContentOK, brokerVars, FetchWatermarks
  <2> QED
    BY <2>1, <2>2 DEF TypeOK, RangeOK, ContentOK
<1>3. LogInv' /\ PassedInv'
  BY DEF IInv, LogInv, PassedInv, NextOffset, brokerVars, FetchWatermarks
<1>4. BoundInv'
  BY <1>1, SnapshotAssumption
  DEF IInv, TypeOK, BoundInv, brokerVars, FetchWatermarks
<1>5. AwaitInv'
  BY <1>1 DEF IInv, TypeOK, AwaitInv, FetchWatermarks
<1>6. AheadInv' /\ DoneInv'
  BY DEF IInv, AheadInv, DoneInv, brokerVars, FetchWatermarks
<1> QED
  BY <1>2, <1>3, <1>4, <1>5, <1>6 DEF IInv

\* A message is delivered: what the consumer passes over is gone, and the
\* bound is let go only when it is passed.
LEMMA ReceiveKeeps ==
  ASSUME IInv, NEW p \in Partitions, Receive(p)
  PROVE  IInv'
<1> DEFINE n == NextOffset(p)
<1>1. n \in 0 .. MaxOffset - 1 /\ n < high[p] /\ pos[p] <= n /\ low[p] <= n
  BY SnapshotAssumption DEF IInv, TypeOK, NextOffset, Receive
<1>2. /\ pos' = [pos EXCEPT ![p] = n + 1]
      /\ UNCHANGED <<brokerVars, todo, bound>>
  BY DEF Receive
<1>3. TypeOK'
  <2>1. RangeOK'
    BY <1>1, <1>2, TypeSplit, SnapshotAssumption
    DEF IInv, RangeOK, Awaited, brokerVars, Receive
  <2>2. <<p, n>> \in Partitions \X (0 .. MaxOffset - 1)
    BY <1>1
  <2>3. data' \in Seq(Partitions \X (0 .. MaxOffset - 1))
    <3> DEFINE T == Partitions \X (0 .. MaxOffset - 1)
    <3>1. data \in Seq(T) /\ <<p, n>> \in T
      BY <2>2, TypeSplit DEF IInv, ContentOK
    <3>2. data' = data \/ data' = Append(data, <<p, n>>)
      BY DEF Receive
    <3> HIDE DEF T, n
    <3>3. \A e \in T : Append(data, e) \in Seq(T)
      BY <3>1
    <3>4. data' \in Seq(T)
      BY <3>1, <3>2, <3>3
    <3> QED
      BY <3>4 DEF T
  <2>4. ContentOK'
    BY <1>2, <2>3, TypeSplit DEF IInv, ContentOK, brokerVars, Receive
  <2> QED
    BY <2>1, <2>4 DEF TypeOK, RangeOK, ContentOK
<1>4. LogInv'
  BY <1>1, <1>2, SnapshotAssumption DEF IInv, TypeOK, LogInv, brokerVars
<1>5. \A q \in Partitions : NextOffset(q)' = IF q = p THEN n + 1 ELSE NextOffset(q)
  BY <1>1, <1>2, SnapshotAssumption DEF IInv, TypeOK, NextOffset, brokerVars
<1>6. PassedInv'
  <2> SUFFICES ASSUME pc' # "err"
               PROVE  PassedInv'
    BY DEF PassedInv
  <2>1. pc # "err" /\ data' = Append(data, <<p, n>>)
    BY DEF Receive
  <2>2. ToSet(data)' = ToSet(data) \cup {<<p, n>>}
    <3>1. <<p, n>> \in Partitions \X (0 .. MaxOffset - 1)
      BY <1>1
    <3>2. data \in Seq(Partitions \X (0 .. MaxOffset - 1))
      BY TypeSplit DEF IInv, ContentOK
    <3> HIDE DEF n
    <3> QED
      BY <2>1, <3>1, <3>2, ToSetAppend
  <2>3. ASSUME NEW q \in Partitions, NEW o \in 0 .. MaxOffset - 1,
               o < NextOffset(q)'
        PROVE  o < NextOffset(q) \/ (q = p /\ o = n)
    BY <1>1, <1>5, <2>3, SnapshotAssumption
  <2> QED
    BY <1>2, <2>1, <2>2, <2>3 DEF IInv, PassedInv, brokerVars
<1>7. BoundInv'
  BY <1>2 DEF IInv, BoundInv, brokerVars
<1>8. AwaitInv'
  <2>1. \A q \in Partitions :
          offsets'[q] = IF q = p /\ offsets[q] <= n THEN -1 ELSE offsets[q]
    BY <1>1, SnapshotAssumption DEF IInv, TypeOK, Awaited, Receive
  <2>2. \A q \in Partitions :
          IF offsets[q] = -1 THEN bound[q] < NextOffset(q)
                             ELSE offsets[q] = bound[q]
    BY DEF IInv, AwaitInv, Receive
  <2>3. \A q \in Partitions :
          IF offsets'[q] = -1 THEN bound[q] < NextOffset(q)'
                              ELSE offsets'[q] = bound[q]
    BY <1>1, <1>5, <2>1, <2>2, SnapshotAssumption, SMTT(30) DEF IInv, TypeOK
  <2> QED
    BY <1>2, <2>3 DEF AwaitInv, Receive
<1>9. AheadInv'
  <2>1. \A q \in Partitions : pos'[q] = IF q = p THEN n + 1 ELSE pos[q]
    BY <1>2, TypeSplit DEF IInv, RangeOK
  <2>2. offsets'[p] # -1 => offsets'[p] > n
    BY <1>1, TypeSplit, SnapshotAssumption
    DEF IInv, RangeOK, Awaited, Receive
  <2>3. \A q \in Partitions : q # p => offsets'[q] = offsets[q]
    BY TypeSplit DEF IInv, RangeOK, Awaited, Receive
  <2>4. offsets'[p] \in Int
    BY <1>3 DEF TypeOK
  <2> QED
    BY <1>1, <1>2, <2>1, <2>2, <2>3, <2>4
    DEF IInv, AheadInv, brokerVars, Receive
<1>10. DoneInv'
  BY DEF DoneInv, Receive
<1> QED
  BY <1>3, <1>4, <1>6, <1>7, <1>8, <1>9, <1>10 DEF IInv

\* A message beyond the watermark is beyond the bound.
LEMMA ReceiveExtraKeeps ==
  ASSUME IInv, NEW p \in Partitions, ReceiveExtra(p)
  PROVE  IInv'
<1>1. TypeOK'
  BY SnapshotAssumption DEF IInv, TypeOK, ReceiveExtra
<1>2. LogInv' /\ PassedInv' /\ BoundInv'
  BY DEF IInv, LogInv, PassedInv, BoundInv, NextOffset, ReceiveExtra
<1>3. bound[p] < NextOffset(p)
  BY SnapshotAssumption
  DEF IInv, TypeOK, BoundInv, NextOffset, ReceiveExtra
<1>4. AwaitInv'
  BY <1>3 DEF IInv, TypeOK, AwaitInv, NextOffset, ReceiveExtra
<1>5. AheadInv' /\ DoneInv'
  BY DEF IInv, TypeOK, AheadInv, DoneInv, ReceiveExtra
<1> QED
  BY <1>1, <1>2, <1>4, <1>5 DEF IInv

\* Kafka accepts a message at any time.
LEMMA ProduceKeeps ==
  ASSUME IInv, NEW p \in Partitions, Produce(p) \/ ProduceExtra(p)
  PROVE  IInv'
<1>1. TypeOK'
  <2>1. RangeOK'
    BY TypeSplit, SnapshotAssumption DEF IInv, RangeOK, Produce, ProduceExtra
  <2>2. ContentOK'
    BY TypeSplit DEF IInv, ContentOK, Produce, ProduceExtra
  <2> QED
    BY <2>1, <2>2 DEF TypeOK, RangeOK, ContentOK
<1>2. LogInv' /\ BoundInv'
  BY TypeSplit, SnapshotAssumption
  DEF IInv, RangeOK, LogInv, BoundInv, Produce, ProduceExtra
<1>3. PassedInv' /\ AwaitInv'
  BY DEF IInv, PassedInv, AwaitInv, NextOffset, Produce, ProduceExtra
<1>4. AheadInv' /\ DoneInv'
  BY DEF IInv, AheadInv, DoneInv, Waiting, Produce, ProduceExtra
<1> QED
  BY <1>1, <1>2, <1>3, <1>4 DEF IInv

\* Retention deletes a message: it is gone unless it was delivered.
LEMMA DeleteOldestKeeps ==
  ASSUME IInv, NEW p \in Partitions, DeleteOldest(p)
  PROVE  IInv'
<1>1. low[p] \in 0 .. MaxOffset - 1 /\ low[p] < high[p]
  BY SnapshotAssumption DEF IInv, TypeOK, DeleteOldest
<1>2. TypeOK'
  <2>1. RangeOK'
    BY <1>1, TypeSplit, SnapshotAssumption DEF IInv, RangeOK, DeleteOldest
  <2>2. <<p, low[p]>> \in Partitions \X (0 .. MaxOffset - 1)
    BY <1>1
  <2>3. gone' \in SUBSET (Partitions \X (0 .. MaxOffset - 1))
    BY <2>2, TypeSplit DEF IInv, ContentOK, DeleteOldest
  <2>4. ContentOK'
    BY <2>3, TypeSplit DEF IInv, ContentOK, DeleteOldest
  <2> QED
    BY <2>1, <2>4 DEF TypeOK, RangeOK, ContentOK
<1>3. LogInv' /\ BoundInv'
  BY <1>1, SnapshotAssumption DEF IInv, TypeOK, LogInv, BoundInv, DeleteOldest
<1>4. \A q \in Partitions : NextOffset(q)' =
        IF q = p /\ pos[p] <= low[p] THEN low[p] + 1 ELSE NextOffset(q)
  BY <1>1, SnapshotAssumption DEF IInv, TypeOK, NextOffset, DeleteOldest
<1>5. pos[p] <= low[p] => NextOffset(p) = low[p] /\ <<p, low[p]>> \in gone'
  BY SnapshotAssumption DEF IInv, TypeOK, NextOffset, DeleteOldest
<1>6. PassedInv'
  <2>1. gone \subseteq gone' /\ UNCHANGED <<pc, data>>
    BY DEF DeleteOldest
  <2>2. ASSUME NEW q \in Partitions, NEW o \in 0 .. MaxOffset - 1,
               o < NextOffset(q)'
        PROVE  o < NextOffset(q) \/ (q = p /\ o = low[p] /\ pos[p] <= low[p])
    BY <1>1, <1>4, <1>5, <2>2, SnapshotAssumption
  <2> QED
    BY <1>5, <2>1, <2>2 DEF IInv, PassedInv
<1>7. AwaitInv'
  BY <1>4, <1>5, SnapshotAssumption DEF IInv, TypeOK, AwaitInv, DeleteOldest
<1>8. AheadInv' /\ DoneInv'
  BY DEF IInv, AheadInv, DoneInv, Waiting, DeleteOldest
<1> QED
  BY <1>2, <1>3, <1>6, <1>7, <1>8 DEF IInv

-----------------------------------------------------------------------------

\* IInv holds initially and every step keeps it, so it always holds.
THEOREM Invariance == Spec => []IInv
<1>1. Init => IInv
  <2> SUFFICES ASSUME Init
               PROVE  IInv
    OBVIOUS
  <2>1. empty \in BOOLEAN
    BY Zenon DEF Init
  <2>2. data \in Seq(Partitions \X (0 .. MaxOffset - 1))
    BY DEF Init
  <2>3. TypeOK
    BY <2>1, <2>2, SnapshotAssumption DEF Init, TypeOK
  <2>4. LogInv /\ BoundInv
    BY SnapshotAssumption DEF Init, LogInv, BoundInv
  <2>5. PassedInv
    BY SnapshotAssumption DEF Init, PassedInv, NextOffset
  <2>6. AwaitInv /\ AheadInv /\ DoneInv
    BY <2>4 DEF Init, LogInv, AwaitInv, AheadInv, DoneInv
  <2> QED
    BY <2>3, <2>4, <2>5, <2>6 DEF IInv
<1>2. IInv /\ [Next]_vars => IInv'
  <2> SUFFICES ASSUME IInv, [Next]_vars
               PROVE  IInv'
    OBVIOUS
  <2>1. CASE GetStep
    BY <2>1, ControlKeeps, FetchMetadataKeeps, FetchWatermarksKeeps DEF GetStep
  <2>2. CASE BrokerFails \/ TimesOut
    BY <2>2, ControlKeeps
  <2>3. ASSUME NEW p \in Partitions, Receive(p) \/ ReceiveExtra(p)
        PROVE  IInv'
    BY <2>3, ReceiveKeeps, ReceiveExtraKeeps
  <2>4. ASSUME NEW p \in Partitions,
               Produce(p) \/ ProduceExtra(p) \/ DeleteOldest(p)
        PROVE  IInv'
    BY <2>4, ProduceKeeps, DeleteOldestKeeps
  <2>5. CASE UNCHANGED vars
    BY <2>5
    DEF vars, brokerVars, IInv, TypeOK, LogInv, PassedInv, BoundInv, AwaitInv,
        AheadInv, DoneInv, NextOffset, Waiting
  <2> QED
    BY <2>1, <2>2, <2>3, <2>4, <2>5 DEF Next
<1> QED
  BY <1>1, <1>2, PTL DEF Spec

\* Every reachable state is well-typed: in particular no offset waited for is
\* one that no message can have.
THEOREM TypeCorrect == Spec => []TypeOK
<1>1. IInv => TypeOK
  BY DEF IInv
<1> QED
  BY <1>1, Invariance, PTL

\* A snapshot that succeeds has every message up to the bound found for its
\* partition, except those retention deleted before they were delivered.
THEOREM CompleteSnapshot == Spec => []SnapshotIsComplete
<1>1. IInv => SnapshotIsComplete
  <2> SUFFICES ASSUME IInv, pc = "ok", NEW p \in Partitions,
                      NEW o \in 0 .. bound[p]
               PROVE  <<p, o>> \in ToSet(data) \cup gone
    BY DEF SnapshotIsComplete
  <2>1. bound[p] \in -1 .. MaxOffset - 1 /\ bound[p] < NextOffset(p)
    BY DEF IInv, TypeOK, AwaitInv, DoneInv, Waiting
  <2>2. o \in 0 .. MaxOffset - 1 /\ o < NextOffset(p)
    BY <2>1, SnapshotAssumption DEF IInv, TypeOK, NextOffset
  <2> QED
    BY <2>2 DEF IInv, PassedInv
<1> QED
  BY <1>1, Invariance, PTL

\* As long as retention leaves the messages in place, a snapshot that waits
\* waits for a message that Kafka has and the consumer has not yet delivered.
THEOREM NoVainWait == Spec => []WaitsForWhatExists
<1>1. IInv => WaitsForWhatExists
  <2> SUFFICES ASSUME IInv, ~retention, pc = "read", NEW p \in Partitions,
                      offsets[p] # -1
               PROVE  Available(p)
    BY DEF WaitsForWhatExists, Waiting
  <2>1. pos[p] <= offsets[p] /\ offsets[p] < high[p] /\ low[p] = 0
    BY DEF IInv, LogInv, BoundInv, AwaitInv, AheadInv
  <2> QED
    BY <2>1, SnapshotAssumption DEF IInv, TypeOK, NextOffset, Available
<1> QED
  BY <1>1, Invariance, PTL
=============================================================================
