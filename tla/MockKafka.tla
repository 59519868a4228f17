------------------------------ MODULE MockKafka ------------------------------
(***************************************************************************)
(* The Kafka test harness of src/src/kafka_impl/testing_utils/mod.rs: one  *)
(* mock cluster per process, started by the first test that needs it, and  *)
(* the topics that concurrent tests ask for.                               *)
(*                                                                         *)
(* A test asks for a topic of a given name or for a new one.  The worker   *)
(* thread that owns the cluster receives names over a channel of capacity  *)
(* one and creates the topics; a caller that finds the channel full waits  *)
(* with the write lock of known_topics in its hands.  No test is stopped   *)
(* half-way through a call.  Tokio's OnceCell, RwLock and mpsc channel and *)
(* rdkafka's MockCluster are external.                                     *)
(***************************************************************************)
EXTENDS Naturals

CONSTANTS
  Callers,       \* concurrent tests
  Names,         \* topic names tests choose themselves
  TopicPrefixes  \* of the names the harness chooses

Topics == Names \cup (TopicPrefixes \X Nat)

VARIABLES
  cell,     \* MOCK_CLUSTER: "empty", "starting" or "ready"
  pc,       \* control point of each caller
  topic,    \* the topic it asks for
  nextId,   \* next_topic_id
  known,    \* known_topics
  writer,   \* who holds the write lock of known_topics, at most one
  channel,  \* the name in the channel, at most one
  taken,    \* the name the worker has received and not yet passed on
  created,  \* the topics of the cluster
  refused   \* those the cluster failed to create

vars == <<cell, pc, topic, nextId, known, writer, channel, taken, created, refused>>

TypeOK ==
  /\ cell \in {"empty", "starting", "ready"}
  /\ pc \in [Callers -> {"idle", "named", "new", "read", "write", "send"}]
  /\ topic \in [Callers -> Topics]
  /\ nextId \in Nat
  /\ known \in SUBSET Topics
  /\ writer \in SUBSET Callers
  /\ channel \in SUBSET Topics
  /\ taken \in SUBSET Topics
  /\ created \in SUBSET Topics
  /\ refused \in SUBSET Topics

Init ==
  /\ cell = "empty"
  /\ pc = [c \in Callers |-> "idle"]
  /\ topic \in [Callers -> Names]
  /\ nextId = 1
  /\ known = {}
  /\ writer = {}
  /\ channel = {}
  /\ taken = {}
  /\ created = {}
  /\ refused = {}

-----------------------------------------------------------------------------
(* Harness *)

\* with_topics comes to the next of its topics.
WithTopics(c, t) ==
  /\ pc[c] = "idle"
  /\ pc' = [pc EXCEPT ![c] = "named"]
  /\ topic' = [topic EXCEPT ![c] = t]
  /\ UNCHANGED <<cell, nextId, known, writer, channel, taken, created, refused>>

\* new_topic, called by a test or by with_new_topic and with_new_topics.
NewTopic(c) ==
  /\ pc[c] = "idle"
  /\ pc' = [pc EXCEPT ![c] = "new"]
  /\ UNCHANGED <<cell, topic, nextId, known, writer, channel, taken, created, refused>>

\* get_or_init finds the cell empty: MockKafka::new spawns the worker thread.
StartCluster(c) ==
  /\ pc[c] \in {"named", "new"}
  /\ cell = "empty"
  /\ cell' = "starting"
  /\ UNCHANGED <<pc, topic, nextId, known, writer, channel, taken, created, refused>>

\* run_cluster has the cluster up and sends its host, which fills the cell.
HostKnown ==
  /\ cell = "starting"
  /\ cell' = "ready"
  /\ UNCHANGED <<pc, topic, nextId, known, writer, channel, taken, created, refused>>

\* get_mock_cluster returns; a new topic is given its name.
GetMockCluster(c, prefix) ==
  /\ pc[c] \in {"named", "new"}
  /\ cell = "ready"
  /\ pc' = [pc EXCEPT ![c] = "read"]
  /\ IF pc[c] = "new"
     THEN topic' = [topic EXCEPT ![c] = <<prefix, nextId>>] /\ nextId' = nextId + 1
     ELSE UNCHANGED <<topic, nextId>>
  /\ UNCHANGED <<cell, known, writer, channel, taken, created, refused>>

-----------------------------------------------------------------------------
(* create_topic *)

ReadLookup(c) ==
  /\ pc[c] = "read"
  /\ writer = {}
  /\ pc' = [pc EXCEPT ![c] = IF topic[c] \in known THEN "idle" ELSE "write"]
  /\ UNCHANGED <<cell, topic, nextId, known, writer, channel, taken, created, refused>>

\* The second lookup; the write lock is kept if the topic is still missing.
WriteLookup(c) ==
  /\ pc[c] = "write"
  /\ writer = {}
  /\ IF topic[c] \in known
     THEN pc' = [pc EXCEPT ![c] = "idle"] /\ UNCHANGED writer
     ELSE pc' = [pc EXCEPT ![c] = "send"] /\ writer' = {c}
  /\ UNCHANGED <<cell, topic, nextId, known, channel, taken, created, refused>>

\* There is room in the channel.
SendTopic(c) ==
  /\ pc[c] = "send"
  /\ channel = {}
  /\ channel' = {topic[c]}
  /\ known' = known \cup {topic[c]}
  /\ writer' = {}
  /\ pc' = [pc EXCEPT ![c] = "idle"]
  /\ UNCHANGED <<cell, topic, nextId, taken, created, refused>>

-----------------------------------------------------------------------------
(* run_cluster *)

BlockingRecv ==
  /\ cell = "ready"
  /\ channel # {}
  /\ taken = {}
  /\ taken' = channel
  /\ channel' = {}
  /\ UNCHANGED <<cell, pc, topic, nextId, known, writer, created, refused>>

\* The error of the cluster's create_topic is dropped, and the topic stays known.
CreateTopic ==
  /\ taken # {}
  /\ \/ created' = created \cup taken /\ UNCHANGED refused
     \/ refused' = refused \cup taken /\ UNCHANGED created
  /\ taken' = {}
  /\ UNCHANGED <<cell, pc, topic, nextId, known, writer, channel>>

-----------------------------------------------------------------------------
Next ==
  \/ \E c \in Callers :
       \/ \E t \in Names : WithTopics(c, t)
       \/ NewTopic(c)
       \/ StartCluster(c)
       \/ \E prefix \in TopicPrefixes : GetMockCluster(c, prefix)
       \/ ReadLookup(c)
       \/ WriteLookup(c)
       \/ SendTopic(c)
  \/ HostKnown
  \/ BlockingRecv
  \/ CreateTopic

Spec == Init /\ [][Next]_vars

-----------------------------------------------------------------------------
(* Properties *)

\* Every known topic is in exactly one place: in the channel, in the hands of
\* the worker, in the cluster or among those the cluster refused.  So the cluster
\* is asked for each topic once, however many tests ask for it at the same time,
\* also if it fails, and a call that returns has its topic asked for or on the way.
EachTopicOnce ==
  /\ known = channel \cup taken \cup created \cup refused
  /\ channel \cap taken = {}
  /\ (channel \cup taken) \cap (created \cup refused) = {}
  /\ created \cap refused = {}
=============================================================================
