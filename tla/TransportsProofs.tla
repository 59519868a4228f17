-------------------------- MODULE TransportsProofs --------------------------
(***************************************************************************)
(* Proofs of the safety properties of Transports, for any contents, fields *)
(* and keys, any number of hops and any stream_max_len.                    *)
(***************************************************************************)
EXTENDS Transports, Integers, WellFoundedInduction, TLAPS

-----------------------------------------------------------------------------
(* Wrappers.  The recursive function Wraps(root) has the values its        *)
(* definition says it has only because such a function exists: tables of   *)
(* the first n values do, they agree with each other, and together they    *)
(* give a function on all of Nat.                                          *)

\* A set of naturals has a least element; induction is an argument about the
\* least counterexample.
LEMMA LeastNatural ==
  ASSUME NEW T, T \subseteq Nat, T # {}
  PROVE  \E x \in T : \A y \in T : x <= y
<1> DEFINE Less == {ss \in Nat \X Nat : ss[1] < ss[2]}
<1>1. IsWellFoundedOn(Less, Nat)
  BY NatLessThanWellFounded, Zenon DEF OpToRel
<1> HIDE DEF Less
<1>2. PICK x \in T : \A y \in T : ~ (<<y, x>> \in Less)
  BY <1>1, WFMin
<1>3. \A y \in T : x <= y
  <2> SUFFICES ASSUME NEW y \in T, y < x
               PROVE  FALSE
    OBVIOUS
  <2>1. <<y, x>> \in Less
    BY DEF Less
  <2> QED
    BY <1>2, <2>1
<1> QED
  BY <1>3

\* One more {"data": ...} wrapper
Outer(b) == ToJson(Single(b))

\* g lists root inside 0, 1, ..., n wrappers.
Table(g, root, n) ==
  /\ g[0] = root
  /\ \A i \in 0 .. n - 1 : g[i + 1] = Outer(g[i])

\* There is a table for every n: the last value has one more wrapper.
LEMMA TableExists ==
  ASSUME NEW root
  PROVE  \A n \in Nat : \E g : Table(g, root, n)
<1> SUFFICES ASSUME NEW m \in Nat, ~ \E g : Table(g, root, m)
             PROVE  FALSE
  OBVIOUS
<1> DEFINE T == {n \in Nat : ~ \E g : Table(g, root, n)}
<1>1. PICK n \in T : \A y \in T : n <= y
  <2>1. T \subseteq Nat /\ T # {}
    OBVIOUS
  <2> HIDE DEF T
  <2> QED
    BY <2>1, LeastNatural
<1>2. n # 0
  <2>1. Table([i \in 0 .. 0 |-> root], root, 0)
    BY DEF Table
  <2> QED
    BY <1>1, <2>1
<1>3. PICK g : Table(g, root, n - 1)
  <2>1. n - 1 \in Nat /\ n - 1 \notin T
    BY <1>1, <1>2
  <2> QED
    BY <2>1
<1>4. Table([i \in 0 .. n |-> IF i = n THEN Outer(g[n - 1]) ELSE g[i]], root, n)
  BY <1>1, <1>2, <1>3 DEF Table
<1> QED
  BY <1>1, <1>4

\* Two tables agree as far as both go.
LEMMA TableUnique ==
  ASSUME NEW root, NEW n \in Nat, NEW m \in Nat, NEW g, NEW h,
         Table(g, root, n), Table(h, root, m), n <= m
  PROVE  g[n] = h[n]
<1> SUFFICES \A i \in 0 .. n : g[i] = h[i]
  OBVIOUS
<1> SUFFICES ASSUME NEW j \in 0 .. n, g[j] # h[j]
             PROVE  FALSE
  OBVIOUS
<1> DEFINE T == {i \in 0 .. n : g[i] # h[i]}
<1>1. PICK i \in T : \A y \in T : i <= y
  <2>1. T \subseteq Nat /\ T # {}
    OBVIOUS
  <2> HIDE DEF T
  <2> QED
    BY <2>1, LeastNatural
<1>2. i # 0
  BY <1>1 DEF Table
<1>3. g[i - 1] = h[i - 1]
  <2>1. i - 1 \in 0 .. n /\ i - 1 \notin T
    BY <1>1, <1>2
  <2> QED
    BY <2>1
<1>4. g[(i - 1) + 1] = Outer(g[i - 1]) /\ h[(i - 1) + 1] = Outer(h[i - 1])
  BY <1>1, <1>2 DEF Table
<1> QED
  BY <1>1, <1>3, <1>4

\* What the recursive function computes, for every root.
THEOREM WrapsDef ==
  ASSUME NEW root
  PROVE  /\ Wraps(root)[0] = root
         /\ \A n \in Nat : Wraps(root)[n + 1] = Outer(Wraps(root)[n])
<1> DEFINE table(n) == CHOOSE g : Table(g, root, n)
           f == [n \in Nat |-> table(n)[n]]
           Step(h) == [n \in Nat |-> IF n = 0 THEN root ELSE Outer(h[n - 1])]
<1>1. \A n \in Nat : Table(table(n), root, n)
  BY TableExists
<1> HIDE DEF table
<1>2. f[0] = root
  BY <1>1 DEF Table
<1>3. ASSUME NEW n \in Nat
      PROVE  f[n + 1] = Outer(f[n])
  <2>1. Table(table(n), root, n) /\ Table(table(n + 1), root, n + 1)
    BY <1>1
  <2>2. table(n)[n] = table(n + 1)[n]
    BY <2>1, TableUnique
  <2>3. table(n + 1)[n + 1] = Outer(table(n + 1)[n])
    BY <2>1 DEF Table
  <2> QED
    BY <2>2, <2>3
<1>4. f = Step(f)
  <2>1. \A n \in Nat : f[n] = IF n = 0 THEN root ELSE Outer(f[n - 1])
    <3> HIDE DEF f
    <3> SUFFICES ASSUME NEW n \in Nat, n # 0
                 PROVE  f[n] = Outer(f[n - 1])
      BY <1>2
    <3>1. n - 1 \in Nat /\ n = (n - 1) + 1
      OBVIOUS
    <3> QED
      BY <1>3, <3>1
  <2>2. f = [n \in Nat |-> f[n]]
    OBVIOUS
  <2> HIDE DEF f
  <2> QED
    BY <2>1, <2>2
<1> HIDE DEF f
<1>5. Wraps(root) = Step(Wraps(root))
  BY <1>4 DEF Wraps, Outer
<1>6. \A n \in Nat : Step(Wraps(root))[n] = IF n = 0 THEN root ELSE Outer(Wraps(root)[n - 1])
  OBVIOUS
<1> HIDE DEF Step
<1>7. \A n \in Nat : Wraps(root)[n] = IF n = 0 THEN root ELSE Outer(Wraps(root)[n - 1])
  BY <1>5, <1>6
<1>8. \A n \in Nat : (n + 1) - 1 = n /\ n + 1 # 0 /\ n + 1 \in Nat
  OBVIOUS
<1> QED
  BY <1>7, <1>8

-----------------------------------------------------------------------------
(* The conversions *)

IsBytes(b) == b = Bytes(b.form, b.of)

\* origin and the origin of an entry
IsOrigin(o) ==
  /\ o = [root |-> o.root, depth |-> o.depth, key |-> o.key]
  /\ o.depth \in Nat
  /\ IsBytes(o.root)

\* The payload is the root, or inside a wrapper the encoding of a map.
LEMMA PayloadCases ==
  ASSUME NEW o, IsOrigin(o)
  PROVE  /\ o.depth = 0 => Payload(o) = o.root
         /\ o.depth > 0 => Payload(o).form = "json"
         /\ IsBytes(Payload(o))
<1>1. CASE o.depth = 0
  <2>1. Payload(o) = o.root
    BY <1>1, WrapsDef DEF Payload
  <2> QED
    BY <1>1, <2>1 DEF IsOrigin
<1>2. CASE o.depth > 0
  <2>1. o.depth - 1 \in Nat /\ o.depth = (o.depth - 1) + 1
    BY <1>2 DEF IsOrigin
  <2>2. Wraps(o.root)[(o.depth - 1) + 1] = Outer(Wraps(o.root)[o.depth - 1])
    BY <2>1, WrapsDef
  <2>3. Payload(o) = Outer(Wraps(o.root)[o.depth - 1])
    BY <2>1, <2>2 DEF Payload
  <2> QED
    BY <1>2, <2>3 DEF Outer, ToJson, Bytes, IsBytes
<1> QED
  BY <1>1, <1>2 DEF IsOrigin

\* Text of what is text already changes nothing.
LEMMA LossyIsBytes ==
  ASSUME NEW b, IsBytes(b)
  PROVE  /\ IsBytes(Utf8Lossy(b))
         /\ b.form = "json" => Utf8Lossy(b) = b
BY DEF IsBytes, Bytes, Utf8Lossy, IsUtf8

\* A payload that is read as one of the types and turned into bytes again is
\* the payload of the law.
LEMMA ReadKeepsLaw ==
  ASSUME NEW o, IsOrigin(o), NEW kind \in Kinds, NEW path, NEW key
  PROVE  /\ IsOrigin(Arrives(o, path, kind))
         /\ IntoBytes(FromBytes(kind, Message("byte", key, Payload(o))))
              = Message("byte", key, Payload(Arrives(o, path, kind)))
<1> DEFINE a == Arrives(o, path, kind)
           b == Payload(o)
<1> SUFFICES /\ IsOrigin(a)
             /\ IntoBytes(FromBytes(kind, Message("byte", key, b)))
                  = Message("byte", key, Payload(a))
  OBVIOUS
<1>1. IsBytes(o.root) /\ IsBytes(Utf8Lossy(o.root)) /\ o.depth \in Nat
  BY LossyIsBytes DEF IsOrigin
<1>2. IsOrigin(a)
  <2>1. IsBytes(a.root) /\ a.depth \in Nat
    BY <1>1 DEF Arrives
  <2>2. a = [root |-> a.root, depth |-> a.depth, key |-> a.key]
    BY DEF Arrives
  <2> HIDE DEF a
  <2> QED
    BY <2>1, <2>2 DEF IsOrigin
<1>3. Payload(a) = Wraps(a.root)[a.depth] /\ b = Wraps(o.root)[o.depth]
  BY DEF Payload
<1>4. IsBytes(b) /\ (o.depth = 0 => b = o.root) /\ (o.depth > 0 => b.form = "json")
  BY PayloadCases
<1>5. IntoBytes(FromBytes(kind, Message("byte", key, b)))
        = Message("byte", key, CASE kind = "byte" -> b
                                 [] kind = "string" -> Utf8Lossy(b)
                                 [] kind = "map" -> ToJson(ParseFields(b)))
  <2> HIDE DEF b
  <2>1. CASE kind = "byte"
    BY <2>1 DEF IntoBytes, FromBytes, Message
  <2>2. CASE kind = "string"
    BY <2>2 DEF IntoBytes, FromBytes, StringFrom, Message
  <2>3. CASE kind = "map"
    BY <2>3 DEF IntoBytes, FromBytes, MapFrom, MapIntoBytes, Message
  <2> QED
    BY <2>1, <2>2, <2>3 DEF Kinds
<1>6. CASE kind = "byte"
  <2>1. a.root = o.root /\ a.depth = o.depth
    BY <1>6 DEF Arrives
  <2> HIDE DEF a, b
  <2> QED
    BY <1>2, <1>3, <1>5, <1>6, <2>1
<1>7. CASE kind = "string"
  <2>1. a.root = (IF o.depth > 0 THEN o.root ELSE Utf8Lossy(o.root)) /\ a.depth = o.depth
    BY <1>7 DEF Arrives
  <2> HIDE DEF a, b
  <2>2. Utf8Lossy(b) = Payload(a)
    <3>1. CASE o.depth > 0
      BY <1>3, <1>4, <2>1, <3>1, LossyIsBytes
    <3>2. CASE o.depth = 0
      <4>1. Payload(a) = a.root
        BY <1>2, <2>1, <3>2, PayloadCases
      <4> QED
        BY <1>4, <2>1, <3>2, <4>1
    <3> QED
      BY <1>1, <3>1, <3>2
  <2> QED
    BY <1>2, <1>5, <1>7, <2>2
<1>8. CASE kind = "map"
  <2>1. /\ a.root = (IF o.depth > 0 THEN o.root ELSE Utf8Lossy(o.root))
        /\ a.depth = IF IsMap(o) THEN o.depth ELSE o.depth + 1
    BY <1>8 DEF Arrives
  <2> HIDE DEF a, b
  <2>2. b.form = "json" => ToJson(ParseFields(b)) = b
    BY <1>4 DEF ToJson, ParseFields, IsBytes, Bytes
  <2>3. b.form # "json" => ToJson(ParseFields(b)) = Outer(Utf8Lossy(b))
    BY DEF ParseFields, Outer
  <2>4. ToJson(ParseFields(b)) = Payload(a)
    <3>1. CASE o.depth > 0
      BY <1>3, <1>4, <2>1, <2>2, <3>1 DEF IsMap
    <3>2. CASE o.depth = 0 /\ o.root.form = "json"
      <4>1. Payload(a) = a.root /\ a.root = o.root
        BY <1>1, <1>2, <2>1, <3>2, PayloadCases, LossyIsBytes DEF IsMap
      <4> QED
        BY <1>4, <2>2, <3>2, <4>1
    <3>3. CASE o.depth = 0 /\ o.root.form # "json"
      <4>1. a.root = Utf8Lossy(o.root) /\ a.depth = 0 + 1
        BY <2>1, <3>3 DEF IsMap
      <4>2. Wraps(a.root)[0 + 1] = Outer(a.root)
        BY WrapsDef
      <4> QED
        BY <1>3, <1>4, <2>3, <3>3, <4>1, <4>2
    <3> QED
      BY <1>1, <3>1, <3>2, <3>3
  <2> QED
    BY <1>2, <1>5, <1>8, <2>4
<1> QED
  BY <1>6, <1>7, <1>8 DEF Kinds

\* A single field around the payload is one more wrapper.
LEMMA WrappedPayload ==
  ASSUME NEW o, IsOrigin(o)
  PROVE  /\ IsOrigin([o EXCEPT !.depth = @ + 1])
         /\ Payload([o EXCEPT !.depth = @ + 1]) = Outer(Payload(o))
<1> DEFINE w == [o EXCEPT !.depth = @ + 1]
<1>1. w = [root |-> o.root, depth |-> o.depth + 1, key |-> o.key]
  BY DEF IsOrigin
<1>2. w.root = o.root /\ w.depth = o.depth + 1
  BY <1>1
<1>3. IsOrigin(w)
  BY <1>1, <1>2 DEF IsOrigin
<1>4. Wraps(o.root)[o.depth + 1] = Outer(Wraps(o.root)[o.depth])
  BY WrapsDef DEF IsOrigin
<1> HIDE DEF w
<1>5. Payload(w) = Outer(Payload(o))
  BY <1>2, <1>4 DEF Payload
<1> QED
  BY <1>3, <1>5 DEF w

-----------------------------------------------------------------------------
(* The inductive invariant.  A message that is read from the stream was    *)
(* published some time before, so the law has to hold of every entry; and  *)
(* a snapshot recovers because the last entries convert, as many as were   *)
(* counted, and are all there is once they are stream_max_len.             *)

IsSeq(s) == \E S : s \in Seq(S)

EntriesKept ==
  \A i \in 1 .. Len(entries) :
    /\ IsOrigin(entries[i].origin)
    /\ ToJson(entries[i].fields) = Payload(entries[i].origin)

LastConvert ==
  \A i \in 1 .. Len(entries) : i + healthy > Len(entries) => Converts(entries[i].fields)

Trimmed == maxLen.mode = "exact" /\ healthy > 0 => Len(entries) <= maxLen.n

FailedRightly ==
  snapshot = "err" => \E i \in 1 .. Len(entries) : ~Converts(entries[i].fields)

LawInv == IsOrigin(origin) /\ ContentIsKept /\ EntriesKept

SnapshotInv == LastConvert /\ Trimmed /\ FailedRightly

IInv ==
  /\ IsSeq(entries)
  /\ healthy \in Nat
  /\ maxLen.mode \in {"exact", "approx"}
  /\ maxLen.n \in Nat
  /\ LawInv
  /\ SnapshotInv

\* The last n elements of s, or all of it
LastOf(s, n) == SubSeq(s, IF n < Len(s) THEN Len(s) - n + 1 ELSE 1, Len(s))

LEMMA CutToLast ==
  ASSUME NEW S, NEW s \in Seq(S), NEW n \in Nat, NEW t, t = LastOf(s, n)
  PROVE  /\ t \in Seq(S)
         /\ Len(t) = IF n < Len(s) THEN n ELSE Len(s)
         /\ \A i \in 1 .. Len(t) : /\ i + (Len(s) - Len(t)) \in 1 .. Len(s)
                                   /\ t[i] = s[i + (Len(s) - Len(t))]
<1>1. PICK k \in Nat : k = Len(s)
  OBVIOUS
<1>2. CASE n < k
  <2>1. k - n + 1 \in 1 .. k + 1 /\ k \in 0 .. k
    BY <1>1, <1>2
  <2>2. t = SubSeq(s, k - n + 1, k)
    BY <1>1, <1>2 DEF LastOf
  <2>3. t \in Seq(S) /\ Len(t) = n /\ \A i \in 1 .. n : t[i] = s[k - n + 1 + i - 1]
    BY <1>1, <1>2, <2>1, <2>2, SMTT(30)
  <2>4. \A i \in 1 .. n : k - n + 1 + i - 1 = i + (k - n) /\ i + (k - n) \in 1 .. k
    BY <1>1, <1>2
  <2> QED
    BY <1>1, <1>2, <2>3, <2>4
<1>3. CASE ~ (n < k)
  <2>1. t = SubSeq(s, 1, k)
    BY <1>1, <1>3 DEF LastOf
  <2>2. t \in Seq(S) /\ Len(t) = k /\ \A i \in 1 .. k : t[i] = s[i]
    BY <1>1, <2>1
  <2>3. k - k = 0 /\ \A i \in 1 .. k : i + 0 = i
    BY <1>1
  <2> QED
    BY <1>1, <1>3, <2>2, <2>3
<1> QED
  BY <1>2, <1>3

\* A message that was just made is its own origin.
LEMMA InitIInv == Init => IInv
<1> SUFFICES ASSUME Init
             PROVE  IInv
  OBVIOUS
<1>1. IsSeq(entries) /\ Len(entries) = 0
  <2>1. entries = <<>> /\ <<>> \in Seq({})
    BY DEF Init
  <2> QED
    BY <2>1 DEF IsSeq
<1>2. healthy \in Nat /\ maxLen.mode \in {"exact", "approx"} /\ maxLen.n \in Nat
  BY TransportsAssumption DEF Init
<1>3. EntriesKept /\ SnapshotInv
  BY <1>1 DEF Init, EntriesKept, SnapshotInv, LastConvert, Trimmed, FailedRightly
<1> DEFINE b == IntoBytes(carried).value
<1>4. IntoBytes(carried) = Message("byte", carried.key, b) /\ IsBytes(b)
  <2>1. CASE carried.kind = "map"
    BY <2>1 DEF IntoBytes, MapIntoBytes, Message, ToJson, Bytes, IsBytes
  <2>2. CASE carried.kind # "map"
    <3>1. \E w \in Words : carried.value = Raw(w) \/ carried.value = Text(w)
      BY <2>2 DEF Init, Originals, Message
    <3> QED
      BY <2>2, <3>1 DEF IntoBytes, Message, Raw, Text, Bytes, IsBytes
  <2> QED
    BY <2>1, <2>2
<1>5. IsOrigin(origin) /\ origin.root = b /\ origin.depth = 0 /\ origin.key = carried.key
  <2> HIDE DEF b
  <2>1. origin = [root |-> b, depth |-> 0, key |-> carried.key]
    BY DEF Init, b
  <2> QED
    BY <1>4, <2>1 DEF IsOrigin
<1>6. ContentIsKept
  <2> HIDE DEF b
  <2> QED
    BY <1>4, <1>5, PayloadCases DEF ContentIsKept
<1> QED
  BY <1>1, <1>2, <1>3, <1>5, <1>6 DEF IInv, LawInv

\* What Kafka and Redis pub/sub carry is what into_bytes made.
LEMMA ViaKeeps ==
  ASSUME IInv, NEW kind \in Kinds, ViaKafka(kind) \/ ViaPubSub(kind)
  PROVE  IInv'
<1>1. entries' = entries /\ maxLen' = maxLen /\ healthy' = healthy /\ snapshot' = "none"
  BY DEF ViaKafka, ViaPubSub, Hop
<1>2. EntriesKept' /\ SnapshotInv'
  BY <1>1 DEF IInv, LawInv, EntriesKept, SnapshotInv, LastConvert, Trimmed, FailedRightly
<1>3. PICK path \in {"kafka", "pubsub"} :
        /\ carried' = FromBytes(kind, Message("byte", Arrives(origin, path, kind).key,
                                              Payload(origin)))
        /\ origin' = Arrives(origin, path, kind)
  <2>1. IntoBytes(carried) = Message("byte", origin.key, Payload(origin))
    BY DEF IInv, LawInv, ContentIsKept
  <2>2. CASE ViaKafka(kind)
    <3>1. Arrives(origin, "kafka", kind).key = origin.key
      BY DEF Arrives
    <3> QED
      BY <2>1, <2>2, <3>1 DEF ViaKafka, KafkaCarries
  <2>3. CASE ViaPubSub(kind)
    <3>1. Arrives(origin, "pubsub", kind).key = NoKey
      BY DEF Arrives
    <3>2. PubSubCarries(carried) = Message("byte", NoKey, Payload(origin))
      BY <2>1 DEF PubSubCarries, FromValue, Message
    <3> QED
      BY <2>3, <3>1, <3>2 DEF ViaPubSub
  <2> QED
    BY <2>2, <2>3
<1>4. IsOrigin(origin)' /\ ContentIsKept'
  BY <1>3, ReadKeepsLaw DEF IInv, LawInv, ContentIsKept
<1> QED
  BY <1>1, <1>2, <1>4 DEF IInv, LawInv

\* A message that is taken from an entry has the origin of the entry.
LEMMA TakeKeeps ==
  ASSUME IInv, NEW kind \in Kinds, NEW i \in 1 .. Len(entries), Take(kind, i)
  PROVE  IsOrigin(origin)' /\ ContentIsKept'
<1> DEFINE o == entries[i].origin
<1>1. IsOrigin(o) /\ ToJson(entries[i].fields) = Payload(o)
  BY DEF IInv, LawInv, EntriesKept
<1>2. carried' = FromBytes(kind, Message("byte", NoKey, Payload(o)))
  BY <1>1 DEF Take, StreamEntryToByteMessage, FromValue
<1>3. origin' = Arrives(o, "stream", kind)
  BY DEF Take
<1>4. Arrives(o, "stream", kind).key = NoKey
  BY DEF Arrives
<1> HIDE DEF o
<1> QED
  BY <1>1, <1>2, <1>3, <1>4, ReadKeepsLaw DEF ContentIsKept

LEMMA ReceiveKeeps ==
  ASSUME IInv, NEW kind \in Kinds, NEW i \in 1 .. Len(entries),
         Receive(kind, i) \/ SnapshotGet(kind, i)
  PROVE  IInv'
<1>1. /\ entries' = entries /\ maxLen' = maxLen /\ healthy' = healthy
      /\ snapshot' # "err" /\ Take(kind, i)
  BY DEF Receive, SnapshotGet, Hop
<1>2. EntriesKept' /\ SnapshotInv'
  BY <1>1 DEF IInv, LawInv, EntriesKept, SnapshotInv, LastConvert, Trimmed, FailedRightly
<1> QED
  BY <1>1, <1>2, TakeKeeps DEF IInv, LawInv

\* What XADD does to the stream: an entry is appended and the oldest ones go.
LEMMA XaddEntries ==
  ASSUME IInv, NEW fields, NEW path, Xadd(fields, path)
  PROVE  \E d \in Nat, k \in Nat :
           /\ k = Len(entries)
           /\ IsSeq(entries)' /\ d <= k + 1 /\ Len(entries') = k + 1 - d
           /\ maxLen.mode = "exact" => Len(entries') <= maxLen.n
           /\ \A i \in 1 .. Len(entries') :
                \/ i + d \in 1 .. k /\ entries'[i] = entries[i + d]
                \/ /\ i + d = k + 1
                   /\ entries'[i] = [fields |-> fields,
                                     origin |-> Wrapped(origin, path, carried.kind)]
<1> DEFINE e == [fields |-> fields, origin |-> Wrapped(origin, path, carried.kind)]
           s == Append(entries, e)
<1>1. PICK S : entries \in Seq(S)
  BY DEF IInv, IsSeq
<1>2. PICK k \in Nat : k = Len(entries)
  BY <1>1
<1>3. s \in Seq(S \cup {e}) /\ Len(s) = k + 1 /\ s[k + 1] = e
      /\ \A i \in 1 .. k : s[i] = entries[i]
  <2> HIDE DEF e
  <2> QED
    BY <1>1, <1>2
<1>4. PICK n \in Kept(Len(s)) :
        entries' = SubSeq(s, IF n < Len(s) THEN Len(s) - n + 1 ELSE 1, Len(s))
  BY DEF Xadd
<1>5. n \in Nat /\ (maxLen.mode = "exact" => n = maxLen.n)
  BY <1>3, <1>4 DEF Kept, IInv
<1> HIDE DEF s, e
<1>6. PICK t : t = entries'
  OBVIOUS
<1>7. /\ t \in Seq(S \cup {e})
      /\ Len(t) = IF n < Len(s) THEN n ELSE Len(s)
      /\ \A i \in 1 .. Len(t) : /\ i + (Len(s) - Len(t)) \in 1 .. Len(s)
                                /\ t[i] = s[i + (Len(s) - Len(t))]
  <2>1. t = LastOf(s, n)
    BY <1>4, <1>6 DEF LastOf
  <2>2. s \in Seq(S \cup {e}) /\ n \in Nat
    BY <1>3, <1>5
  <2> QED
    BY <2>1, <2>2, CutToLast, SMTT(30)
<1>8. PICK l \in Nat : l = Len(t)
  BY <1>7
<1>9. PICK d \in Nat : d = k + 1 - l /\ l = k + 1 - d /\ d <= k + 1 /\ l <= n
  <2>1. l = IF n < k + 1 THEN n ELSE k + 1
    BY <1>3, <1>7, <1>8
  <2>2. k + 1 - l \in Nat /\ l = k + 1 - (k + 1 - l) /\ k + 1 - l <= k + 1 /\ l <= n
    BY <1>5, <2>1
  <2> QED
    BY <2>2
<1>10. \A i \in 1 .. l :
         \/ i + d \in 1 .. k /\ t[i] = entries[i + d]
         \/ i + d = k + 1 /\ t[i] = e
  <2> SUFFICES ASSUME NEW i \in 1 .. l
               PROVE  \/ i + d \in 1 .. k /\ t[i] = entries[i + d]
                      \/ i + d = k + 1 /\ t[i] = e
    OBVIOUS
  <2>1. i + d \in 1 .. k + 1 /\ t[i] = s[i + d]
    <3>1. i \in 1 .. Len(t) /\ Len(s) = k + 1 /\ Len(s) - Len(t) = d
      BY <1>3, <1>8, <1>9
    <3>2. i + (Len(s) - Len(t)) \in 1 .. Len(s) /\ t[i] = s[i + (Len(s) - Len(t))]
      BY <1>7, <3>1, Zenon
    <3> QED
      BY <3>1, <3>2, Zenon
  <2>2. i + d \in 1 .. k \/ i + d = k + 1
    BY <1>2, <2>1
  <2> QED
    BY <1>3, <2>1, <2>2
<1>11. IsSeq(t)
  BY <1>7 DEF IsSeq
<1>12. /\ IsSeq(t) /\ d <= k + 1 /\ Len(t) = k + 1 - d
       /\ maxLen.mode = "exact" => Len(t) <= maxLen.n
       /\ \A i \in 1 .. Len(t) :
            \/ i + d \in 1 .. k /\ t[i] = entries[i + d]
            \/ i + d = k + 1 /\ t[i] = e
  BY <1>5, <1>8, <1>9, <1>10, <1>11
<1> QED
  BY <1>2, <1>6, <1>12, ZenonT(40) DEF e

\* An entry whose fields obey the law may be added; the good entries at the
\* end are one more, or none if it does not convert.
LEMMA XaddKeeps ==
  ASSUME IInv, NEW fields, NEW path, Xadd(fields, path),
         IsOrigin(Wrapped(origin, path, carried.kind)),
         ToJson(fields) = Payload(Wrapped(origin, path, carried.kind))
  PROVE  IInv'
<1> DEFINE e == [fields |-> fields, origin |-> Wrapped(origin, path, carried.kind)]
<1>1. PICK d \in Nat, k \in Nat :
        /\ k = Len(entries)
        /\ IsSeq(entries)' /\ d <= k + 1 /\ Len(entries') = k + 1 - d
        /\ maxLen.mode = "exact" => Len(entries') <= maxLen.n
        /\ \A i \in 1 .. Len(entries') :
             \/ i + d \in 1 .. k /\ entries'[i] = entries[i + d]
             \/ i + d = k + 1 /\ entries'[i] = e
  BY XaddEntries
<1>2. /\ carried' = carried /\ maxLen' = maxLen /\ origin' = origin /\ snapshot' = "none"
      /\ healthy' = IF Converts(fields) THEN healthy + 1 ELSE 0
  BY DEF Xadd, Hop
<1>3. healthy \in Nat /\ healthy' \in Nat
  BY <1>2 DEF IInv
<1>4. e.fields = fields /\ IsOrigin(e.origin) /\ ToJson(e.fields) = Payload(e.origin)
  OBVIOUS
<1> HIDE DEF e
<1>5. EntriesKept'
  <2> SUFFICES ASSUME NEW i \in 1 .. Len(entries')
               PROVE  /\ IsOrigin(entries'[i].origin)
                      /\ ToJson(entries'[i].fields) = Payload(entries'[i].origin)
    BY DEF EntriesKept
  <2>1. CASE i + d \in 1 .. k /\ entries'[i] = entries[i + d]
    BY <1>1, <2>1 DEF IInv, LawInv, EntriesKept
  <2>2. CASE i + d = k + 1 /\ entries'[i] = e
    BY <1>4, <2>2
  <2> QED
    BY <1>1, <2>1, <2>2
<1>6. LastConvert'
  <2> SUFFICES ASSUME NEW i \in 1 .. Len(entries'), i + healthy' > Len(entries')
               PROVE  Converts(entries'[i].fields)
    BY DEF LastConvert
  <2>1. Converts(fields) /\ healthy' = healthy + 1
    BY <1>1, <1>2
  <2>2. CASE i + d \in 1 .. k /\ entries'[i] = entries[i + d]
    <3>1. (i + d) + healthy > k
      BY <1>1, <1>3, <2>1
    <3> QED
      BY <1>1, <2>2, <3>1 DEF IInv, SnapshotInv, LastConvert
  <2>3. CASE i + d = k + 1 /\ entries'[i] = e
    BY <1>4, <2>1, <2>3
  <2> QED
    BY <1>1, <2>2, <2>3
<1>7. Trimmed' /\ FailedRightly'
  BY <1>1, <1>2 DEF Trimmed, FailedRightly
<1>8. IsOrigin(origin)' /\ ContentIsKept'
  BY <1>2 DEF IInv, LawInv, ContentIsKept
<1> QED
  BY <1>1, <1>2, <1>3, <1>5, <1>6, <1>7, <1>8 DEF IInv, LawInv, SnapshotInv

\* Both ways of publishing to a stream obey the law.
LEMMA PublishKeeps ==
  ASSUME IInv, Publish \/ PublishStream
  PROVE  IInv'
<1>1. /\ IsOrigin(origin)
      /\ IntoBytes(carried) = Message("byte", origin.key, Payload(origin))
  BY DEF IInv, LawInv, ContentIsKept
<1>2. IntoBytes(carried).value = Payload(origin)
  BY <1>1 DEF Message
<1> DEFINE w == [origin EXCEPT !.depth = @ + 1]
<1>3. IsOrigin(w) /\ Payload(w) = ToJson(Single(IntoBytes(carried).value))
  BY <1>1, <1>2, WrappedPayload DEF Outer
<1> HIDE DEF w
<1>4. CASE Publish
  <2>1. Wrapped(origin, "data", carried.kind) = w
    BY DEF Wrapped, w
  <2> QED
    BY <1>3, <1>4, <2>1, XaddKeeps DEF Publish, DataFields
<1>5. CASE PublishStream
  <2>1. CASE carried.kind = "map"
    <3>1. Wrapped(origin, "fields", carried.kind) = origin
      BY <2>1 DEF Wrapped
    <3>2. ToJson(IntoStreamFields(carried)) = Payload(origin)
      BY <1>2, <2>1 DEF IntoStreamFields, IntoBytes, MapIntoBytes, Message
    <3> QED
      BY <1>1, <1>5, <3>1, <3>2, XaddKeeps DEF PublishStream
  <2>2. CASE carried.kind # "map"
    <3>1. Wrapped(origin, "fields", carried.kind) = w
      BY <2>2 DEF Wrapped, w
    <3>2. ToJson(IntoStreamFields(carried)) = Payload(w)
      BY <1>3, <2>2 DEF IntoStreamFields, DefaultStreamFields
    <3> QED
      BY <1>3, <1>5, <3>1, <3>2, XaddKeeps DEF PublishStream
  <2> QED
    BY <2>1, <2>2
<1> QED
  BY <1>4, <1>5

\* A new limit starts the count again; entries beyond it may stay for now.
LEMMA SetStreamMaxLenKeeps ==
  ASSUME IInv, NEW mode \in {"exact", "approx"}, NEW n \in 0 .. MaxMax,
         SetStreamMaxLen(mode, n)
  PROVE  IInv'
<1>1. /\ entries' = entries /\ healthy' = 0 /\ snapshot' = "none"
      /\ origin' = origin /\ carried' = carried
  BY DEF SetStreamMaxLen
<1>2. maxLen'.mode \in {"exact", "approx"} /\ maxLen'.n \in Nat
  BY TransportsAssumption DEF SetStreamMaxLen
<1>3. LawInv'
  BY <1>1 DEF IInv, LawInv, ContentIsKept, EntriesKept
<1>4. SnapshotInv'
  <2>1. Len(entries) \in Nat
    BY DEF IInv, IsSeq
  <2> QED
    BY <1>1, <2>1 DEF SnapshotInv, LastConvert, Trimmed, FailedRightly
<1> QED
  BY <1>1, <1>2, <1>3, <1>4 DEF IInv

\* The inductive invariant holds in every reachable state.
THEOREM Invariance == Spec => []IInv
<1>1. IInv /\ [Next]_vars => IInv'
  <2> SUFFICES ASSUME IInv, [Next]_vars
               PROVE  IInv'
    OBVIOUS
  <2>1. CASE \E kind \in Kinds : ViaKafka(kind) \/ ViaPubSub(kind)
    BY <2>1, ViaKeeps
  <2>2. CASE Publish \/ PublishStream
    BY <2>2, PublishKeeps
  <2>3. CASE \E mode \in {"exact", "approx"}, n \in 0 .. MaxMax : SetStreamMaxLen(mode, n)
    BY <2>3, SetStreamMaxLenKeeps
  <2>4. CASE \E kind \in Kinds, i \in 1 .. Len(entries) :
               Receive(kind, i) \/ SnapshotGet(kind, i)
    BY <2>4, ReceiveKeeps
  <2>5. CASE SnapshotFails
    BY <2>5 DEF SnapshotFails, IInv, LawInv, ContentIsKept, EntriesKept, SnapshotInv,
       LastConvert, Trimmed, FailedRightly
  <2>6. CASE UNCHANGED vars
    BY <2>6 DEF vars, IInv, LawInv, ContentIsKept, EntriesKept, SnapshotInv,
       LastConvert, Trimmed, FailedRightly
  <2> QED
    BY <2>1, <2>2, <2>3, <2>4, <2>5, <2>6 DEF Next
<1> QED
  BY InitIInv, <1>1, PTL DEF Spec

\* However often a message is passed on through Kafka, Redis pub/sub and
\* streams, and read as bytes, text or map in between, its bytes are its first
\* content inside as many wrappers as the law counts, and its key is lost
\* exactly where the backend has none.
THEOREM ContentKept == Spec => []ContentIsKept
<1>1. IInv => ContentIsKept
  BY DEF IInv, LawInv
<1> QED
  BY Invariance, <1>1, PTL

\* RedisSnapshot::get fails on an entry that is not UTF-8 only until exact
\* trimming has removed it, stream_max_len good entries later.
THEOREM SnapshotsRecover == Spec => []SnapshotRecovers
<1>1. IInv => SnapshotRecovers
  <2> SUFFICES ASSUME IInv, snapshot = "err", maxLen.mode = "exact",
                      healthy # 0, healthy >= maxLen.n
               PROVE  FALSE
    BY DEF IInv, SnapshotRecovers
  <2>1. PICK i \in 1 .. Len(entries) : ~Converts(entries[i].fields)
    BY DEF IInv, SnapshotInv, FailedRightly
  <2>2. Len(entries) \in Nat
    BY DEF IInv, IsSeq
  <2>3. Len(entries) <= maxLen.n /\ maxLen.n \in Nat /\ healthy \in Nat
    BY DEF IInv, SnapshotInv, Trimmed
  <2>4. i + healthy > Len(entries)
    BY <2>2, <2>3
  <2> QED
    BY <2>1, <2>4 DEF IInv, SnapshotInv, LastConvert
<1> QED
  BY Invariance, <1>1, PTL
=============================================================================
