----------------------------- MODULE Transports -----------------------------
(***************************************************************************)
(* What becomes of a message that travels: the message types of            *)
(* src/src/lib.rs and src/src/redis_impls/stream/stream_message.rs, what   *)
(* each publisher writes, and what a subscriber or a snapshot makes of it. *)
(*                                                                         *)
(* A client holds a message, publishes it through some backend, receives   *)
(* it again as a type of its choice, and so on: a relay between topics.    *)
(* Bytes are known by what the conversions tell apart: "text" is UTF-8     *)
(* that is no JSON map of strings, "raw" is not UTF-8, "lossy" is what     *)
(* from_utf8_lossy makes of "raw", and "json" is the encoding of a map     *)
(* from strings to strings.                                                *)
(***************************************************************************)
EXTENDS Naturals, Sequences

CONSTANTS
  Words,    \* contents of text and raw byte strings
  Fields,   \* names of stream fields
  Data,     \* the field "data"
  Keys,     \* message keys, all of them UTF-8
  NoKey,    \* no key
  MaxHops,  \* bound: how often the message is published or received
  MaxMax    \* bound: the largest stream_max_len that is configured

ASSUME TransportsAssumption ==
  /\ Data \in Fields
  /\ NoKey \notin Keys
  /\ MaxHops \in Nat
  /\ MaxMax \in Nat

Bytes(form, of) == [form |-> form, of |-> of]
Text(w) == Bytes("text", w)
Raw(w) == Bytes("raw", w)

IsUtf8(b) == b.form # "raw"

\* String::from_utf8_lossy
Utf8Lossy(b) == IF IsUtf8(b) THEN b ELSE Bytes("lossy", b.of)

\* serde_json::to_vec of a map of strings
ToJson(fields) == Bytes("json", fields)

Single(b) == [f \in {Data} |-> b]

\* parse_fields
ParseFields(b) == IF b.form = "json" THEN b.of ELSE Single(Utf8Lossy(b))

-----------------------------------------------------------------------------
(* Messages: a kind, a key and a value, which is a byte string for         *)
(* ByteMessage and StringMessage and a map of strings for MapMessage.      *)

Kinds == {"byte", "string", "map"}

Message(kind, key, value) == [kind |-> kind, key |-> key, value |-> value]

\* MapMessage::into_bytes
MapIntoBytes(m) == Message("byte", m.key, ToJson(m.value))

\* Message::into_bytes
IntoBytes(m) ==
  IF m.kind = "map" THEN MapIntoBytes(m) ELSE Message("byte", m.key, m.value)

\* From<ByteMessage> for StringMessage and for MapMessage; keys are UTF-8.
StringFrom(m) == Message("string", m.key, Utf8Lossy(m.value))
MapFrom(m) == Message("map", m.key, ParseFields(m.value))

\* M::from(ByteMessage), which every stream and every snapshot ends with
FromBytes(kind, m) ==
  CASE kind = "byte"   -> m
    [] kind = "string" -> StringFrom(m)
    [] kind = "map"    -> MapFrom(m)

\* ByteMessage::from_value
FromValue(b) == Message("byte", NoKey, b)

\* KafkaPublisher::publish and convert_to_message
KafkaCarries(m) == IntoBytes(m)

\* RedisPublisher::publish for pub/sub and drain_messages
PubSubCarries(m) == FromValue(IntoBytes(m).value)

\* RedisPublisher::publish for streams
DataFields(m) == Single(IntoBytes(m).value)

\* The default of StreamMessage::into_stream_fields
DefaultStreamFields(m) == Single(IntoBytes(m).value)

\* StreamMessage::into_stream_fields, which MapMessage overrides
IntoStreamFields(m) ==
  IF m.kind = "map" THEN m.value ELSE DefaultStreamFields(m)

\* redis_value_to_byte_message fails on a field that is not UTF-8 ...
Converts(fields) == \A f \in DOMAIN fields : IsUtf8(fields[f])

\* ... and makes a JSON object of strings otherwise.
StreamEntryToByteMessage(fields) == FromValue(ToJson(fields))

-----------------------------------------------------------------------------
VARIABLES
  carried,   \* the message the client holds
  entries,   \* the entries of the stream: fields, and where they came from
  maxLen,    \* stream_max_len: its mode and the number
  snapshot,  \* what the last step was: a snapshot that is "ok" or "err", or
             \* "none" for anything else
  origin,    \* history: the content of carried by the law of Arrives, below
  healthy,   \* history: convertible entries added since the last one that
             \* was not and since maxLen was set
  hops       \* how often carried was published or received

vars == <<carried, entries, maxLen, snapshot, origin, healthy, hops>>

\* The law.  A payload is a root inside some number of {"data": ...} wrappers.
\* A trip through a single-field entry adds a wrapper; reading as a map adds
\* one to what is not yet a map; reading as text makes text of the root.
IsMap(o) == o.depth > 0 \/ o.root.form = "json"

Wrapped(o, path, kind) ==
  IF path = "data" \/ (path = "fields" /\ kind # "map")
  THEN [o EXCEPT !.depth = @ + 1] ELSE o

Arrives(o, path, kind) ==
  [root  |-> IF kind = "byte" \/ o.depth > 0 THEN o.root ELSE Utf8Lossy(o.root),
   depth |-> IF kind = "map" /\ ~IsMap(o) THEN o.depth + 1 ELSE o.depth,
   key   |-> IF path = "kafka" THEN o.key ELSE NoKey]

\* root inside n wrappers, for every n
Wraps(root) ==
  LET wrap[n \in Nat] == IF n = 0 THEN root ELSE ToJson(Single(wrap[n - 1]))
  IN  wrap

\* The byte string the law speaks of.
Payload(o) == Wraps(o.root)[o.depth]

Originals ==
  {Message("byte", k, Raw(w)) : k \in Keys \cup {NoKey}, w \in Words}
    \cup {Message("string", k, Text(w)) : k \in Keys \cup {NoKey}, w \in Words}
    \cup {Message("map", k, fields) :
            k \in Keys \cup {NoKey},
            fields \in UNION {[S -> {Text(w) : w \in Words}] : S \in SUBSET Fields}}

Init ==
  /\ carried \in Originals
  /\ entries = <<>>
  /\ maxLen = [mode |-> "approx", n |-> MaxMax]
  /\ snapshot = "none"
  /\ origin = [root |-> IntoBytes(carried).value, depth |-> 0, key |-> carried.key]
  /\ healthy = 0
  /\ hops = 0

Hop == hops < MaxHops /\ hops' = hops + 1 /\ snapshot' = "none"

\* Publish through Kafka, and read the topic as kind.
ViaKafka(kind) ==
  /\ Hop
  /\ carried' = FromBytes(kind, KafkaCarries(carried))
  /\ origin' = Arrives(origin, "kafka", kind)
  /\ UNCHANGED <<entries, maxLen, healthy>>

\* Publish through Redis pub/sub, and read the channel as kind.
ViaPubSub(kind) ==
  /\ Hop
  /\ carried' = FromBytes(kind, PubSubCarries(carried))
  /\ origin' = Arrives(origin, "pubsub", kind)
  /\ UNCHANGED <<entries, maxLen, healthy>>

\* Mutant of Kept: one entry too many survives.
KeptOneMore(len) ==
  IF maxLen.mode = "exact" THEN {maxLen.n + 1} ELSE maxLen.n .. (maxLen.n + len)

\* How many of len entries XADD MAXLEN keeps, at most: exactly the limit, or
\* any number from it upwards.
Kept(len) ==
  IF maxLen.mode = "exact" THEN {maxLen.n} ELSE maxLen.n .. (maxLen.n + len)

\* XADD, which refuses an entry without fields.
Xadd(fields, path) ==
  /\ Hop
  /\ fields # <<>>
  /\ LET added == Append(entries, [fields |-> fields,
                                   origin |-> Wrapped(origin, path, carried.kind)])
     IN  \E n \in Kept(Len(added)) :
           entries' = SubSeq(added, IF n < Len(added) THEN Len(added) - n + 1 ELSE 1,
                             Len(added))
  /\ healthy' = IF Converts(fields) THEN healthy + 1 ELSE 0
  /\ UNCHANGED <<carried, maxLen, origin>>

Publish == Xadd(DataFields(carried), "data")

PublishStream == Xadd(IntoStreamFields(carried), "fields")

\* set_exact_stream_max_len, set_approx_stream_max_len
SetStreamMaxLen(mode, n) ==
  /\ maxLen # [mode |-> mode, n |-> n]
  /\ maxLen' = [mode |-> mode, n |-> n]
  /\ healthy' = 0
  /\ snapshot' = "none"
  /\ UNCHANGED <<carried, entries, origin, hops>>

\* The client takes the message that was made of entry i.
Take(kind, i) ==
  /\ carried' = FromBytes(kind, StreamEntryToByteMessage(entries[i].fields))
  /\ origin' = Arrives(entries[i].origin, "stream", kind)

\* A subscriber receives entry i; one that does not convert is skipped.
Receive(kind, i) ==
  /\ Hop
  /\ Converts(entries[i].fields)
  /\ Take(kind, i)
  /\ UNCHANGED <<entries, maxLen, healthy>>

\* RedisSnapshot::get: every entry, in order ...
SnapshotGet(kind, i) ==
  /\ hops < MaxHops
  /\ hops' = hops + 1
  /\ \A j \in 1 .. Len(entries) : Converts(entries[j].fields)
  /\ snapshot' = "ok"
  /\ Take(kind, i)
  /\ UNCHANGED <<entries, maxLen, healthy>>

\* ... or the error of the first that does not convert.
SnapshotFails ==
  /\ \E j \in 1 .. Len(entries) : ~Converts(entries[j].fields)
  /\ snapshot' = "err"
  /\ UNCHANGED <<carried, entries, maxLen, origin, healthy, hops>>

Next ==
  \/ \E kind \in Kinds : ViaKafka(kind) \/ ViaPubSub(kind)
  \/ Publish
  \/ PublishStream
  \/ \E mode \in {"exact", "approx"}, n \in 0 .. MaxMax : SetStreamMaxLen(mode, n)
  \/ \E kind \in Kinds, i \in 1 .. Len(entries) : Receive(kind, i) \/ SnapshotGet(kind, i)
  \/ SnapshotFails

Spec == Init /\ [][Next]_vars

-----------------------------------------------------------------------------
(* Properties *)

\* However a message was passed on, through which backends and read as which
\* types, its bytes are its first content inside as many {"data": ...}
\* wrappers as the law counts: nothing is lost, doubled or unwrapped on the
\* way, and bytes that are not UTF-8 are replaced at most once.  The key
\* survives Kafka only, and no path invents one.
ContentIsKept == IntoBytes(carried) = Message("byte", origin.key, Payload(origin))

\* One entry that is not UTF-8 makes every snapshot of the topic fail, but
\* not for ever: with exact trimming it is gone as soon as stream_max_len
\* good entries were published after it (and at least one was).
SnapshotRecovers ==
  snapshot = "err" =>
    \/ maxLen.mode = "approx"
    \/ healthy = 0
    \/ healthy < maxLen.n
=============================================================================
