---------------------------- MODULE KafkaSnapshot ----------------------------
(***************************************************************************)
(* KafkaSnapshot::get (src/src/kafka_impl/mod.rs): subscribe a throw-away  *)
(* consumer to the topic, ask for the high watermark of each partition,    *)
(* then read until the last message below each of them has been seen.      *)
(*                                                                         *)
(* Kafka is external: a partition holds the offsets low .. high - 1, the   *)
(* watermarks of two partitions are read at different times, messages of   *)
(* one partition arrive in order and those of different partitions in any  *)
(* order, and retention deletes the oldest messages at any time.  Messages *)
(* beyond MaxOffset are not numbered: they only keep the stream busy.      *)
(***************************************************************************)
EXTENDS Integers, Sequences, SequencesExt

CONSTANTS
  Partitions,
  MaxOffset    \* bound: the numbered messages of a partition

ASSUME SnapshotAssumption == MaxOffset \in Nat

VARIABLES
  retention, \* whether Kafka deletes old messages of this topic
  low,      \* the oldest retained offset of each partition
  high,     \* its high watermark
  extra,    \* whether a message beyond MaxOffset waits in it
  pc,       \* control point of get
  todo,     \* partitions whose watermarks are still to be fetched
  offsets,  \* the offsets get waits for: -1 where there is none
  pos,      \* the next offset the consumer delivers
  data,     \* the result, as <<partition, offset>>
  bound,    \* history: the offsets get found
  gone,     \* history: messages deleted before the consumer delivered them
  empty     \* history: the topic held nothing at any time

brokerVars == <<retention, low, high, extra, gone, empty>>
vars == <<brokerVars, pc, todo, offsets, pos, data, bound>>

TypeOK ==
  /\ retention \in BOOLEAN
  /\ low \in [Partitions -> 0 .. MaxOffset]
  /\ high \in [Partitions -> 0 .. MaxOffset]
  /\ extra \in [Partitions -> BOOLEAN]
  /\ pc \in {"configure", "metadata", "watermarks", "read", "ok", "err"}
  /\ todo \in SUBSET Partitions
  /\ offsets \in [Partitions -> -1 .. MaxOffset - 1]
  /\ pos \in [Partitions -> 0 .. MaxOffset]
  /\ data \in Seq(Partitions \X (0 .. MaxOffset - 1))
  /\ bound \in [Partitions -> -1 .. MaxOffset - 1]
  /\ gone \in SUBSET (Partitions \X (0 .. MaxOffset - 1))
  /\ empty \in BOOLEAN

Init ==
  /\ retention \in BOOLEAN
  /\ high \in [Partitions -> 0 .. MaxOffset]
  /\ low \in [Partitions -> 0 .. MaxOffset]
  /\ \A p \in Partitions : low[p] <= (IF retention THEN high[p] ELSE 0)
  /\ extra = [p \in Partitions |-> FALSE]
  /\ pc = "configure"
  /\ todo = {}
  /\ offsets = [p \in Partitions |-> -1]
  /\ pos = low
  /\ data = <<>>
  /\ bound = offsets
  /\ gone = {m \in Partitions \X (0 .. MaxOffset - 1) : m[2] < low[m[1]]}
  /\ empty = (\A p \in Partitions : low[p] = high[p])

-----------------------------------------------------------------------------
(* get *)

ConfigureConsumer ==
  /\ pc = "configure"
  /\ pc' = "metadata"
  /\ UNCHANGED <<brokerVars, todo, offsets, pos, data, bound>>

FetchMetadata ==
  /\ pc = "metadata"
  /\ todo' = Partitions
  /\ pc' = "watermarks"
  /\ UNCHANGED <<brokerVars, offsets, pos, data, bound>>

\* Mutant of MaxOffsetBelow: the high watermark itself is waited for.
MaxOffsetBelowOrAt(h) == IF h > 0 THEN h ELSE -1

\* Mutant of MaxOffsetBelow: the bound is one message short.
MaxOffsetBelowByTwo(h) == IF h > 1 THEN h - 2 ELSE -1

\* The last offset below a high watermark, or nothing to wait for.
MaxOffsetBelow(h) == IF h > 0 THEN h - 1 ELSE -1

FetchWatermarks(p) ==
  /\ pc = "watermarks"
  /\ p \in todo
  /\ todo' = todo \ {p}
  /\ offsets' = [offsets EXCEPT ![p] = MaxOffsetBelow(high[p])]
  /\ bound' = [bound EXCEPT ![p] = high[p] - 1]
  /\ UNCHANGED <<brokerVars, pc, pos, data>>

\* determine_max_offsets returns.
OffsetsKnown ==
  /\ pc = "watermarks"
  /\ todo = {}
  /\ pc' = "read"
  /\ UNCHANGED <<brokerVars, todo, offsets, pos, data, bound>>

\* Creating the consumer, subscribing, fetching metadata or watermarks fails,
\* the consumer yields an error or Kafka is too slow for the timeout: the ?
\* operator returns the error.
BrokerFails ==
  /\ pc \in {"configure", "metadata", "watermarks", "read"}
  /\ pc' = "err"
  /\ UNCHANGED <<brokerVars, todo, offsets, pos, data, bound>>

Waiting == \E p \in Partitions : offsets[p] # -1

\* The next message of p the consumer can deliver; if retention overtook the
\* consumer it starts again from the earliest message.
NextOffset(p) == IF pos[p] > low[p] THEN pos[p] ELSE low[p]

Available(p) == NextOffset(p) < high[p] \/ extra[p]

\* Mutant of Awaited: the first message of a partition settles it.
AwaitedFirst(p, o) == [offsets EXCEPT ![p] = -1]

\* offsets.retain(|k, v| *k != msg.partition() || *v > msg.offset())
Awaited(p, o) == [offsets EXCEPT ![p] = IF @ > o THEN @ ELSE -1]

\* A message arrives; one without payload ends the snapshot with an error.
Receive(p) ==
  /\ pc = "read"
  /\ Waiting
  /\ NextOffset(p) < high[p]
  /\ pos' = [pos EXCEPT ![p] = NextOffset(p) + 1]
  /\ offsets' = Awaited(p, NextOffset(p))
  /\ \/ data' = Append(data, <<p, NextOffset(p)>>) /\ UNCHANGED pc
     \/ pc' = "err" /\ UNCHANGED data
  /\ UNCHANGED <<brokerVars, todo, bound>>

\* A message beyond every bound arrives.
ReceiveExtra(p) ==
  /\ pc = "read"
  /\ Waiting
  /\ NextOffset(p) >= high[p]
  /\ extra[p]
  /\ extra' = [extra EXCEPT ![p] = FALSE]
  /\ offsets' = [offsets EXCEPT ![p] = -1]
  /\ UNCHANGED <<retention, low, high, gone, empty, pc, todo, pos, data, bound>>

\* SNAPSHOT_MESSAGE_TIMEOUT passes because there is no message.
TimesOut ==
  /\ pc = "read"
  /\ Waiting
  /\ \A p \in Partitions : ~Available(p)
  /\ pc' = "err"
  /\ UNCHANGED <<brokerVars, todo, offsets, pos, data, bound>>

\* while !offsets.is_empty() ends.
AllSeen ==
  /\ pc = "read"
  /\ ~Waiting
  /\ pc' = "ok"
  /\ UNCHANGED <<brokerVars, todo, offsets, pos, data, bound>>

-----------------------------------------------------------------------------
(* Kafka *)

Produce(p) ==
  /\ high[p] < MaxOffset
  /\ high' = [high EXCEPT ![p] = @ + 1]
  /\ empty' = FALSE
  /\ UNCHANGED <<retention, low, extra, gone, pc, todo, offsets, pos, data, bound>>

ProduceExtra(p) ==
  /\ high[p] = MaxOffset
  /\ ~extra[p]
  /\ extra' = [extra EXCEPT ![p] = TRUE]
  /\ empty' = FALSE
  /\ UNCHANGED <<retention, low, high, gone, pc, todo, offsets, pos, data, bound>>

DeleteOldest(p) ==
  /\ retention
  /\ low[p] < high[p]
  /\ low' = [low EXCEPT ![p] = @ + 1]
  /\ gone' = IF pos[p] <= low[p] THEN gone \cup {<<p, low[p]>>} ELSE gone
  /\ UNCHANGED <<retention, high, extra, empty, pc, todo, offsets, pos, data, bound>>

-----------------------------------------------------------------------------
GetStep ==
  \/ ConfigureConsumer
  \/ FetchMetadata
  \/ \E p \in Partitions : FetchWatermarks(p)
  \/ OffsetsKnown
  \/ AllSeen

Next ==
  \/ GetStep
  \/ BrokerFails
  \/ \E p \in Partitions : Receive(p) \/ ReceiveExtra(p)
  \/ TimesOut
  \/ \E p \in Partitions : Produce(p) \/ ProduceExtra(p) \/ DeleteOldest(p)

Spec == Init /\ [][Next]_vars

\* The caller polls the future, its timer fires, and the consumer serves all
\* of its partitions.  Kafka need not fail, produce or delete anything.
FairSpec ==
  /\ Spec
  /\ WF_vars(GetStep)
  /\ WF_vars(TimesOut)
  /\ \A p \in Partitions : WF_vars(Receive(p)) /\ WF_vars(ReceiveExtra(p))

-----------------------------------------------------------------------------
(* Properties *)

\* "the snapshot includes messages visible up to the discovered per-partition
\* bounds": a snapshot that succeeds has every message up to the bound found
\* for its partition that retention did not delete before it was delivered,
\* whatever is produced or deleted meanwhile.
SnapshotIsComplete ==
  pc = "ok" =>
    \A p \in Partitions : \A o \in 0 .. bound[p] :
      <<p, o>> \in ToSet(data) \cup gone

\* Every call ends.  As long as retention leaves the messages waited for in
\* place, it ends however much is produced meanwhile, for each partition is
\* served; if retention deletes one, only the timeout between two messages can
\* end it, and does so once messages stop coming.
SnapshotEnds ==
  ~retention \/ <>[](\A p \in Partitions : ~extra[p]) => <>(pc \in {"ok", "err"})

\* With all of its messages there, a snapshot never waits in vain for one:
\* it fails only if Kafka does or a message has no payload.
WaitsForWhatExists ==
  ~retention /\ pc = "read" /\ Waiting => \E p \in Partitions : offsets[p] # -1 /\ Available(p)

\* "kafka_snapshot_empty_topic_returns_empty_without_hanging": the snapshot
\* of a topic that holds nothing is empty; it does not wait for a message.
EmptyTopicReturnsEmpty == empty => ~(pc = "read" /\ Waiting)
=============================================================================
