-------------------------- MODULE RedisPubSubProofs --------------------------
(***************************************************************************)
(* Proofs of the safety properties of RedisPubSubRuntime, for any number   *)
(* of messages, kinds of errors and backoff constants.                     *)
(***************************************************************************)
EXTENDS RedisPubSubRuntime, WellFoundedInduction, TLAPS

\* There is a connection, and something in it, only while it is drained.
ConnInv == pc # "drain" => conn = "none" /\ inbox = <<>>

\* Messages go through the connection in the order of their numbers, behind
\* everything that was sent before.
OrderInv ==
  /\ \A i, j \in 1 .. Len(inbox) : i < j => inbox[i] < inbox[j]
  /\ \A i \in 1 .. Len(sent), j \in 1 .. Len(inbox) : sent[i] < inbox[j]
  /\ \A i \in 1 .. Len(inbox) : inbox[i] <= published
  /\ \A i \in 1 .. Len(sent) : sent[i] <= published

IInv ==
  /\ TypeOK
  /\ ConnInv
  /\ OrderInv
  /\ SentInOrder
  /\ NothingReceivedIsLost
  /\ BackoffIsExponential

-----------------------------------------------------------------------------
(* What Pow2 computes.  The recursive function has the value its           *)
(* definition says it has only because such a function exists, which is    *)
(* shown here: functions on 0 .. n that double at every step exist, agree  *)
(* with each other, and together give one on all of Nat.                   *)

\* A set of naturals has a least element; induction is an argument about the
\* least counterexample.
LEMMA LeastNatural ==
  ASSUME NEW T, T \subseteq Nat, T # {}
  PROVE  \E x \in T : \A y \in T : x <= y
<1> DEFINE Less == {ss \in Nat \X Nat : ss[1] < ss[2]}
<1>1. IsWellFoundedOn(Less, Nat)
  BY NatLessThanWellFounded, Zenon DEF OpToRel
<1> HIDE DEF Less
<1>2. PICK x \in T : \A y \in T : ~ (<<y, x>> \in Less)
  BY <1>1, WFMin
<1>3. \A y \in T : x <= y
  <2> SUFFICES ASSUME NEW y \in T, y < x
               PROVE  FALSE
    OBVIOUS
  <2>1. <<y, x>> \in Less
    BY DEF Less
  <2> QED
    BY <1>2, <2>1
<1> QED
  BY <1>3

\* g doubles at every step up to n.
Doubles(g, n) ==
  /\ g \in [0 .. n -> Nat]
  /\ g[0] = 1
  /\ \A i \in 0 .. n - 1 : g[i + 1] = 2 * g[i]

\* Such a function exists for every n: the last value is one more doubling.
LEMMA DoublingExists == \A n \in Nat : \E g : Doubles(g, n)
<1> SUFFICES ASSUME NEW m \in Nat, ~ \E g : Doubles(g, m)
             PROVE  FALSE
  OBVIOUS
<1> DEFINE T == {n \in Nat : ~ \E g : Doubles(g, n)}
<1>1. PICK n \in T : \A y \in T : n <= y
  <2>1. T \subseteq Nat /\ T # {}
    OBVIOUS
  <2> HIDE DEF T
  <2> QED
    BY <2>1, LeastNatural
<1>2. n # 0
  <2>1. Doubles([i \in 0 .. 0 |-> 1], 0)
    BY DEF Doubles
  <2> QED
    BY <1>1, <2>1
<1>3. PICK g : Doubles(g, n - 1)
  <2>1. n - 1 \in Nat /\ n - 1 \notin T
    BY <1>1, <1>2
  <2> QED
    BY <2>1
<1>4. Doubles([i \in 0 .. n |-> IF i = n THEN 2 * g[n - 1] ELSE g[i]], n)
  BY <1>1, <1>2, <1>3 DEF Doubles
<1> QED
  BY <1>1, <1>4

\* Two such functions agree as far as both go.
LEMMA DoublingUnique ==
  ASSUME NEW n \in Nat, NEW m \in Nat, NEW g, NEW h,
         Doubles(g, n), Doubles(h, m), n <= m
  PROVE  g[n] = h[n]
<1> SUFFICES \A i \in 0 .. n : g[i] = h[i]
  OBVIOUS
<1> SUFFICES ASSUME NEW j \in 0 .. n, g[j] # h[j]
             PROVE  FALSE
  OBVIOUS
<1> DEFINE T == {i \in 0 .. n : g[i] # h[i]}
<1>1. PICK i \in T : \A y \in T : i <= y
  <2>1. T \subseteq Nat /\ T # {}
    OBVIOUS
  <2> HIDE DEF T
  <2> QED
    BY <2>1, LeastNatural
<1>2. i # 0
  BY <1>1 DEF Doubles
<1>3. g[i - 1] = h[i - 1]
  <2>1. i - 1 \in 0 .. n /\ i - 1 \notin T
    BY <1>1, <1>2
  <2> QED
    BY <2>1
<1>4. g[(i - 1) + 1] = 2 * g[i - 1] /\ h[(i - 1) + 1] = 2 * h[i - 1]
  BY <1>1, <1>2 DEF Doubles
<1> QED
  BY <1>1, <1>3, <1>4

\* What the recursive function computes.
THEOREM Pow2Def ==
  /\ Pow2 \in [Nat -> Nat]
  /\ Pow2[0] = 1
  /\ \A n \in Nat : Pow2[n + 1] = 2 * Pow2[n]
<1> DEFINE table(n) == CHOOSE g : Doubles(g, n)
           f == [n \in Nat |-> table(n)[n]]
           Step(h) == [n \in Nat |-> IF n = 0 THEN 1 ELSE 2 * h[n - 1]]
<1>1. \A n \in Nat : Doubles(table(n), n)
  BY DoublingExists
<1> HIDE DEF table
<1>2. f \in [Nat -> Nat] /\ f[0] = 1
  BY <1>1 DEF Doubles
<1>3. ASSUME NEW n \in Nat
      PROVE  f[n + 1] = 2 * f[n]
  <2>1. Doubles(table(n), n) /\ Doubles(table(n + 1), n + 1)
    BY <1>1
  <2>2. table(n)[n] = table(n + 1)[n]
    BY <2>1, DoublingUnique
  <2>3. table(n + 1)[n + 1] = 2 * table(n + 1)[n]
    BY <2>1 DEF Doubles
  <2> QED
    BY <2>2, <2>3
<1>4. f = Step(f)
  <2>1. \A n \in Nat : f[n] = IF n = 0 THEN 1 ELSE 2 * f[n - 1]
    <3> HIDE DEF f
    <3> SUFFICES ASSUME NEW n \in Nat, n # 0
                 PROVE  f[n] = 2 * f[n - 1]
      BY <1>2
    <3>1. n - 1 \in Nat /\ n = (n - 1) + 1
      OBVIOUS
    <3> QED
      BY <1>3, <3>1
  <2> HIDE DEF f
  <2> QED
    BY <1>2, <2>1
<1> HIDE DEF f
<1>5. Pow2 = Step(Pow2)
  BY <1>4 DEF Pow2
<1>6. Pow2[0] = 1 /\ \A n \in Nat : Pow2[n + 1] = 2 * Pow2[n]
  <2>1. \A n \in Nat : Step(Pow2)[n] = IF n = 0 THEN 1 ELSE 2 * Pow2[n - 1]
    OBVIOUS
  <2> HIDE DEF Step
  <2>2. \A n \in Nat : Pow2[n] = IF n = 0 THEN 1 ELSE 2 * Pow2[n - 1]
    BY <1>5, <2>1
  <2>3. \A n \in Nat : (n + 1) - 1 = n /\ n + 1 # 0 /\ n + 1 \in Nat
    OBVIOUS
  <2> QED
    BY <2>2, <2>3
<1>7. \A n \in Nat : Pow2[n] \in Nat
  <2> SUFFICES ASSUME NEW m \in Nat, Pow2[m] \notin Nat
               PROVE  FALSE
    OBVIOUS
  <2> DEFINE T == {n \in Nat : Pow2[n] \notin Nat}
  <2>1. PICK n \in T : \A y \in T : n <= y
    <3>1. T \subseteq Nat /\ T # {}
      OBVIOUS
    <3> HIDE DEF T
    <3> QED
      BY <3>1, LeastNatural
  <2>2. n - 1 \in Nat /\ n - 1 \notin T
    BY <1>6, <2>1
  <2>3. Pow2[(n - 1) + 1] = 2 * Pow2[n - 1]
    BY <1>6, <2>2
  <2> QED
    BY <2>1, <2>2, <2>3
<1>8. Pow2 = [n \in Nat |-> Pow2[n]]
  BY <1>5
<1> QED
  BY <1>6, <1>7, <1>8

-----------------------------------------------------------------------------
(* What the queue operations do to the messages in a sequence *)

LEMMA ElementsOf ==
  ASSUME NEW S, NEW s \in Seq(S)
  PROVE  Len(s) \in Nat /\ \A i \in 1 .. Len(s) : s[i] \in S
OBVIOUS

LEMMA ToSetAppend ==
  ASSUME NEW S, NEW s \in Seq(S), NEW e \in S
  PROVE  ToSet(Append(s, e)) = ToSet(s) \cup {e}
<1>1. ToSet(Append(s, e)) \subseteq ToSet(s) \cup {e}
  BY DEF ToSet
<1>2. ToSet(s) \subseteq ToSet(Append(s, e))
  BY DEF ToSet
<1>3. e \in ToSet(Append(s, e))
  <2>1. Append(s, e)[Len(s) + 1] = e /\ Len(s) + 1 \in DOMAIN Append(s, e)
    OBVIOUS
  <2> QED
    BY <2>1 DEF ToSet
<1> QED
  BY <1>1, <1>2, <1>3

\* What is not taken is the head or stays.
LEMMA ToSetTail ==
  ASSUME NEW S, NEW s \in Seq(S), s # <<>>, NEW e \in ToSet(s)
  PROVE  e = Head(s) \/ e \in ToSet(Tail(s))
<1>1. PICK i \in 1 .. Len(s) : s[i] = e
  BY DEF ToSet
<1>2. CASE i = 1
  BY <1>1, <1>2
<1>3. CASE i > 1
  <2>1. i - 1 \in 1 .. Len(Tail(s)) /\ Tail(s)[i - 1] = s[i]
    BY <1>1, <1>3
  <2>2. i - 1 \in DOMAIN Tail(s)
    BY <2>1
  <2> QED
    BY <1>1, <2>1, <2>2 DEF ToSet
<1> QED
  BY <1>1, <1>2, <1>3

\* What is cut off is behind the cut.
LEMMA ToSetPrefix ==
  ASSUME NEW S, NEW s \in Seq(S), NEW n \in 0 .. Len(s), NEW e \in ToSet(s),
         e \notin {s[i] : i \in n + 1 .. Len(s)}
  PROVE  e \in ToSet(SubSeq(s, 1, n))
<1>1. PICK i \in 1 .. Len(s) : s[i] = e
  BY DEF ToSet
<1>2. i \in 1 .. n
  BY <1>1
<1>3. i \in DOMAIN SubSeq(s, 1, n) /\ SubSeq(s, 1, n)[i] = e
  BY <1>1, <1>2
<1> QED
  BY <1>3 DEF ToSet

-----------------------------------------------------------------------------

\* Messages are naturals, and the conversion of types the proofs share.
LEMMA MessageTypes ==
  /\ Messages \subseteq Nat
  /\ TypeOK => inbox \in Seq(Messages) /\ sent \in Seq(Messages)
BY PubSubAssumption DEF Messages, TypeOK

\* A step that leaves the messages alone and does not end the drain.
LEMMA SilentKeeps ==
  ASSUME IInv, UNCHANGED <<inbox, sent, published, received>>,
         pc = "done" => pc' = "done"
  PROVE  OrderInv' /\ SentInOrder' /\ NothingReceivedIsLost'
BY DEF IInv, OrderInv, SentInOrder, NothingReceivedIsLost

\* The next_backoff of an outage whose waits are not touched stays.
LEMMA BackoffKept ==
  ASSUME IInv, UNCHANGED waits, outage'.next_backoff = outage.next_backoff
  PROVE  BackoffIsExponential'
BY DEF IInv, BackoffIsExponential

\* The loop looks at the token.
LEMMA LoopCheckKeeps ==
  ASSUME IInv, LoopCheck
  PROVE  IInv'
<1>1. TypeOK' /\ ConnInv'
  BY DEF IInv, TypeOK, ConnInv, LoopCheck
<1>2. OrderInv' /\ SentInOrder' /\ NothingReceivedIsLost'
  BY SilentKeeps DEF LoopCheck
<1>3. BackoffIsExponential'
  BY BackoffKept DEF LoopCheck
<1> QED
  BY <1>1, <1>2, <1>3 DEF IInv

\* A recovery forgets the outage altogether.
LEMMA OnRecoveryResets ==
  ASSUME NEW o \in OutageStates
  PROVE  /\ OnRecovery(o) \in OutageStates
         /\ OnRecovery(o).next_backoff = INITIAL_BACKOFF
<1>1. INITIAL_BACKOFF \in INITIAL_BACKOFF .. MAX_BACKOFF
  BY BackoffAssumption
<1>2. [o EXCEPT !.last_error_kind = NoError] \in OutageStates
  BY DEF OutageStates
<1>3. OnRecovery(o) = [[o EXCEPT !.last_error_kind = NoError]
                          EXCEPT !.next_backoff = INITIAL_BACKOFF]
  BY DEF OnRecovery
<1> HIDE DEF OnRecovery
<1> QED
  BY <1>1, <1>2, <1>3 DEF OutageStates

\* A new connection has an empty buffer, and so had the last one.
LEMMA ConnectOkKeeps ==
  ASSUME IInv, ConnectOk
  PROVE  IInv'
<1>1. UNCHANGED <<inbox, sent, published, received>>
  BY DEF IInv, ConnInv, ConnectOk
<1>2. outage' \in OutageStates /\ outage'.next_backoff = INITIAL_BACKOFF
  <2>1. outage' = OnRecovery(outage) /\ outage \in OutageStates
    BY DEF IInv, TypeOK, ConnectOk
  <2> QED
    BY <2>1, OnRecoveryResets
<1>3. TypeOK' /\ ConnInv'
  BY <1>1, <1>2 DEF IInv, TypeOK, ConnInv, ConnectOk
<1>4. OrderInv' /\ SentInOrder' /\ NothingReceivedIsLost'
  BY <1>1, SilentKeeps DEF ConnectOk
<1>5. BackoffIsExponential'
  BY <1>2, Pow2Def, BackoffAssumption DEF BackoffIsExponential, ConnectOk
<1> QED
  BY <1>3, <1>4, <1>5 DEF IInv

\* Recording an error does not move the timer.
LEMMA RecordErrorKeeps ==
  ASSUME TypeOK, NEW kind \in ErrorKinds
  PROVE  /\ RecordError(outage, kind) \in OutageStates
         /\ RecordError(outage, kind).next_backoff = outage.next_backoff
BY DEF TypeOK, OutageStates, RecordError, RecordErrorLogs

LEMMA ConnectFailsKeeps ==
  ASSUME IInv, NEW kind \in ErrorKinds, ConnectFails(kind)
  PROVE  IInv'
<1>1. /\ outage' \in OutageStates
      /\ outage'.next_backoff = outage.next_backoff
  BY RecordErrorKeeps DEF IInv, ConnectFails
<1>2. TypeOK' /\ ConnInv'
  BY <1>1 DEF IInv, TypeOK, ConnInv, ConnectFails
<1>3. OrderInv' /\ SentInOrder' /\ NothingReceivedIsLost'
  BY SilentKeeps DEF ConnectFails
<1>4. BackoffIsExponential'
  BY <1>1, BackoffKept DEF ConnectFails
<1> QED
  BY <1>2, <1>3, <1>4 DEF IInv

\* Doubling the timer is one more factor of two, until the cap is reached.
LEMMA SleepEndsKeeps ==
  ASSUME IInv, SleepEnds
  PROVE  IInv'
<1> DEFINE nominal == INITIAL_BACKOFF * Pow2[waits]
<1>1. /\ outage' \in OutageStates
      /\ outage'.next_backoff = IF 2 * outage.next_backoff <= MAX_BACKOFF
                                THEN 2 * outage.next_backoff ELSE MAX_BACKOFF
  BY BackoffAssumption
  DEF IInv, TypeOK, OutageStates, AdvanceBackoff, SleepEnds
<1>2. TypeOK' /\ ConnInv'
  BY <1>1 DEF IInv, TypeOK, ConnInv, SleepEnds
<1>3. OrderInv' /\ SentInOrder' /\ NothingReceivedIsLost'
  BY SilentKeeps DEF SleepEnds
<1>4. BackoffIsExponential'
  <2>1. nominal \in Nat /\ INITIAL_BACKOFF * Pow2[waits + 1] = 2 * nominal
    <3>1. /\ waits \in Nat
          /\ Pow2[waits] \in Nat
          /\ Pow2[waits + 1] = 2 * Pow2[waits]
      BY Pow2Def DEF IInv, TypeOK
    <3>2. \A a, b \in Nat : a * b \in Nat /\ a * (2 * b) = 2 * (a * b)
      OBVIOUS
    <3> QED
      BY <3>1, <3>2, BackoffAssumption
  <2>2. outage.next_backoff = IF nominal <= MAX_BACKOFF THEN nominal ELSE MAX_BACKOFF
    BY DEF IInv, BackoffIsExponential
  <2>3. waits' = IF nominal < MAX_BACKOFF THEN waits + 1 ELSE waits
    BY DEF SleepEnds
  <2>4. CASE nominal < MAX_BACKOFF
    <3>1. INITIAL_BACKOFF * Pow2[waits'] = 2 * nominal
      BY <2>1, <2>3, <2>4
    <3> HIDE DEF nominal
    <3> QED
      BY <1>1, <2>1, <2>2, <2>4, <3>1, BackoffAssumption
      DEF BackoffIsExponential
  <2>5. CASE ~(nominal < MAX_BACKOFF)
    <3>1. INITIAL_BACKOFF * Pow2[waits'] = nominal
      BY <2>3, <2>5
    <3> HIDE DEF nominal
    <3> QED
      BY <1>1, <2>1, <2>2, <2>5, <3>1, BackoffAssumption
      DEF BackoffIsExponential
  <2> QED
    BY <2>4, <2>5
<1> QED
  BY <1>2, <1>3, <1>4 DEF IInv

\* A message moves from the buffer to the channel, or is skipped.
LEMMA ForwardKeeps ==
  ASSUME IInv, Forward
  PROVE  IInv'
<1>1. /\ inbox \in Seq(Messages) /\ sent \in Seq(Messages) /\ inbox # <<>>
      /\ Messages \subseteq Nat
      /\ Head(inbox) = inbox[1] /\ Head(inbox) \in Messages
  BY MessageTypes DEF IInv, Forward
<1>2. /\ inbox' = Tail(inbox) /\ inbox' \in Seq(Messages)
      /\ Len(inbox') = Len(inbox) - 1
      /\ \A i \in 1 .. Len(inbox') : inbox'[i] = inbox[i + 1]
  BY <1>1 DEF Forward, TakeMessage
<1>3. /\ sent' = sent \/ sent' = Append(sent, Head(inbox))
      /\ Head(inbox) \notin Undecodable => sent' = Append(sent, Head(inbox))
      /\ sent' \in Seq(Messages)
  BY <1>1 DEF Forward, TakeMessage
<1>4. /\ Len(sent') \in {Len(sent), Len(sent) + 1}
      /\ \A i \in 1 .. Len(sent) : sent'[i] = sent[i]
      /\ Len(sent') = Len(sent) + 1 => sent'[Len(sent) + 1] = inbox[1]
  BY <1>1, <1>3
<1>5. TypeOK' /\ ConnInv'
  BY <1>2, <1>3 DEF IInv, TypeOK, ConnInv, Forward
<1>6. SentInOrder' /\ OrderInv'
  <2>1. \A i \in 1 .. Len(inbox) : inbox[i] \in Nat
    BY <1>1, ElementsOf
  <2>2. \A i \in 1 .. Len(inbox') : i + 1 \in 1 .. Len(inbox)
    BY <1>1, <1>2
  <2>3. 1 \in 1 .. Len(inbox) /\ Len(sent) \in Nat /\ UNCHANGED published
    BY <1>1 DEF Forward
  <2>4. SentInOrder'
    BY <1>4, <2>3 DEF IInv, OrderInv, SentInOrder
  <2>5. OrderInv'
    BY <1>2, <1>4, <2>2, <2>3, SMTT(30) DEF IInv, OrderInv
  <2> QED
    BY <2>4, <2>5
<1>7. NothingReceivedIsLost'
  <2>1. ToSet(Append(sent, Head(inbox))) = ToSet(sent) \cup {Head(inbox)}
    BY <1>1, ToSetAppend
  <2>2. ToSet(sent) \subseteq ToSet(sent)'
    BY <1>1, <1>3, <2>1
  <2>3. Head(inbox) \notin Undecodable => Head(inbox) \in ToSet(sent)'
    BY <1>1, <1>3, <2>1
  <2>4. \A m \in ToSet(inbox) : m = Head(inbox) \/ m \in ToSet(inbox)'
    BY <1>1, <1>2, ToSetTail
  <2> QED
    BY <2>2, <2>3, <2>4 DEF IInv, NothingReceivedIsLost, Forward
<1>8. BackoffIsExponential'
  BY BackoffKept DEF Forward
<1> QED
  BY <1>5, <1>6, <1>7, <1>8 DEF IInv

\* The buffer of a connection that is given up has been drained.
LEMMA ConnectionDroppedKeeps ==
  ASSUME IInv, ConnectionDropped
  PROVE  IInv'
<1>1. /\ outage' \in OutageStates
      /\ outage'.next_backoff = outage.next_backoff
  BY RecordErrorKeeps, PubSubAssumption DEF IInv, ConnectionDropped
<1>2. TypeOK' /\ ConnInv'
  BY <1>1 DEF IInv, TypeOK, ConnInv, AfterDrop, ConnectionDropped
<1>3. OrderInv' /\ SentInOrder' /\ NothingReceivedIsLost'
  BY SilentKeeps DEF AfterDrop, ConnectionDropped
<1>4. BackoffIsExponential'
  BY <1>1, BackoffKept DEF ConnectionDropped
<1> QED
  BY <1>2, <1>3, <1>4 DEF IInv

\* A cancelled task may leave messages behind, but it is done.
LEMMA DrainCancelledKeeps ==
  ASSUME IInv, DrainCancelled
  PROVE  IInv'
<1>1. TypeOK'
  BY DEF IInv, TypeOK, DrainCancelled
<1>2. ConnInv' /\ NothingReceivedIsLost'
  BY DEF ConnInv, NothingReceivedIsLost, DrainCancelled
<1>3. OrderInv' /\ SentInOrder'
  BY DEF IInv, OrderInv, SentInOrder, DrainCancelled
<1>4. BackoffIsExponential'
  BY BackoffKept DEF DrainCancelled
<1> QED
  BY <1>1, <1>2, <1>3, <1>4 DEF IInv

\* A message is published behind all others.
LEMMA PublishKeeps ==
  ASSUME IInv, Publish
  PROVE  IInv'
<1>1. /\ inbox \in Seq(Messages) /\ sent \in Seq(Messages)
      /\ Messages \subseteq Nat
      /\ published \in Nat /\ published' = published + 1
      /\ published' \in Messages /\ published' \in 0 .. MaxMessages
  BY MessageTypes, PubSubAssumption DEF IInv, TypeOK, Messages, Publish
<1>2. /\ inbox' = inbox \/ (conn = "open" /\ inbox' = Append(inbox, published'))
      /\ inbox' \in Seq(Messages)
  BY <1>1 DEF Publish
<1>3. TypeOK'
  BY <1>1, <1>2 DEF IInv, TypeOK, Publish
<1>4. ConnInv'
  BY DEF IInv, ConnInv, Publish
<1>5. OrderInv'
  <2>1. /\ \A i \in 1 .. Len(inbox) : inbox[i] \in Nat /\ inbox[i] <= published
        /\ \A i \in 1 .. Len(sent) : sent[i] \in Nat /\ sent[i] <= published
        /\ UNCHANGED sent
    BY <1>1, ElementsOf DEF IInv, OrderInv, Publish
  <2>2. CASE inbox' = inbox
    BY <1>1, <2>1, <2>2 DEF IInv, OrderInv
  <2>3. CASE inbox' = Append(inbox, published')
    <3>1. /\ Len(inbox') = Len(inbox) + 1 /\ Len(inbox) \in Nat
          /\ \A i \in 1 .. Len(inbox) : inbox'[i] = inbox[i]
          /\ inbox'[Len(inbox) + 1] = published'
      BY <1>1, <2>3
    <3>2. \A i \in 1 .. Len(inbox') : i \in 1 .. Len(inbox) \/ i = Len(inbox) + 1
      BY <3>1
    <3>3. \A i \in 1 .. Len(inbox') : inbox'[i] <= published'
      BY <1>1, <2>1, <3>1, <3>2
    <3>4. \A i \in 1 .. Len(sent), j \in 1 .. Len(inbox') : sent[i] < inbox'[j]
      BY <1>1, <2>1, <3>1, <3>2 DEF IInv, OrderInv
    <3>5. ASSUME NEW i \in 1 .. Len(inbox'), NEW j \in 1 .. Len(inbox'), i < j
          PROVE  inbox'[i] < inbox'[j]
      <4>1. i \in 1 .. Len(inbox)
        BY <3>1, <3>5
      <4> QED
        BY <1>1, <2>1, <3>1, <3>2, <3>5, <4>1 DEF IInv, OrderInv
    <3> QED
      BY <1>1, <2>1, <3>3, <3>4, <3>5 DEF OrderInv
  <2> QED
    BY <1>2, <2>2, <2>3
<1>6. SentInOrder'
  BY DEF IInv, SentInOrder, Publish
<1>7. NothingReceivedIsLost'
  <2>1. CASE conn = "open"
    <3>1. ToSet(inbox)' = ToSet(inbox) \cup {published'}
      BY <1>1, <2>1, ToSetAppend DEF Publish
    <3> QED
      BY <2>1, <3>1 DEF IInv, NothingReceivedIsLost, Publish
  <2>2. CASE conn # "open"
    BY <2>2 DEF IInv, NothingReceivedIsLost, Publish
  <2> QED
    BY <2>1, <2>2
<1>8. BackoffIsExponential'
  BY BackoffKept DEF Publish
<1> QED
  BY <1>3, <1>4, <1>5, <1>6, <1>7, <1>8 DEF IInv

\* What was on the wire is lost, and counts as never received.
LEMMA ConnectionBreaksKeeps ==
  ASSUME IInv, ConnectionBreaks
  PROVE  IInv'
<1>1. inbox \in Seq(Messages) /\ sent \in Seq(Messages)
  BY MessageTypes DEF IInv
<1>2. PICK n \in 0 .. Len(inbox) :
        /\ inbox' = SubSeq(inbox, 1, n)
        /\ received' = received \ {inbox[i] : i \in n + 1 .. Len(inbox)}
  BY DEF ConnectionBreaks
<1>3. /\ inbox' \in Seq(Messages)
      /\ Len(inbox') = n
      /\ \A i \in 1 .. n : inbox'[i] = inbox[i] /\ i \in 1 .. Len(inbox)
  BY <1>1, <1>2
<1>4. TypeOK'
  BY <1>2, <1>3 DEF IInv, TypeOK, ConnectionBreaks
<1>5. ConnInv'
  BY DEF IInv, ConnInv, ConnectionBreaks
<1>6. OrderInv' /\ SentInOrder'
  BY <1>3 DEF IInv, OrderInv, SentInOrder, ConnectionBreaks
<1>7. NothingReceivedIsLost'
  <2>1. \A m \in ToSet(inbox) : m \in received' => m \in ToSet(inbox)'
    BY <1>1, <1>2, ToSetPrefix
  <2> QED
    BY <1>2, <2>1 DEF IInv, NothingReceivedIsLost, ConnectionBreaks
<1>8. BackoffIsExponential'
  BY BackoffKept DEF ConnectionBreaks
<1> QED
  BY <1>4, <1>5, <1>6, <1>7, <1>8 DEF IInv

\* Neither the token nor the server touches the task.
LEMMA EnvironmentKeeps ==
  ASSUME IInv, Cancel \/ ServerGoesDown \/ ServerComesUp \/ UNCHANGED vars
  PROVE  IInv'
<1>1. TypeOK' /\ ConnInv'
  BY DEF IInv, TypeOK, ConnInv, Cancel, ServerGoesDown, ServerComesUp, vars,
     taskVars
<1>2. OrderInv' /\ SentInOrder' /\ NothingReceivedIsLost'
  BY SilentKeeps DEF Cancel, ServerGoesDown, ServerComesUp, vars, taskVars
<1>3. BackoffIsExponential'
  BY BackoffKept DEF Cancel, ServerGoesDown, ServerComesUp, vars, taskVars
<1> QED
  BY <1>1, <1>2, <1>3 DEF IInv

-----------------------------------------------------------------------------

\* IInv holds initially and every step keeps it, so it always holds.
THEOREM Invariance == Spec => []IInv
<1>1. Init => IInv
  <2> SUFFICES ASSUME Init
               PROVE  IInv
    OBVIOUS
  <2>1. outage \in OutageStates /\ outage.next_backoff = INITIAL_BACKOFF
    BY BackoffAssumption DEF Init, Default, OutageStates
  <2>2. TypeOK
    <3>1. inbox \in Seq(Messages) /\ sent \in Seq(Messages)
      BY DEF Init
    <3>2. published \in 0 .. MaxMessages
      BY PubSubAssumption DEF Init
    <3> QED
      BY <2>1, <3>1, <3>2 DEF Init, TypeOK
  <2>3. ConnInv /\ OrderInv /\ SentInOrder /\ NothingReceivedIsLost
    BY DEF Init, ConnInv, OrderInv, SentInOrder, NothingReceivedIsLost
  <2>4. BackoffIsExponential
    BY <2>1, Pow2Def, BackoffAssumption DEF Init, BackoffIsExponential
  <2> QED
    BY <2>2, <2>3, <2>4 DEF IInv
<1>2. IInv /\ [Next]_vars => IInv'
  <2> SUFFICES ASSUME IInv, [Next]_vars
               PROVE  IInv'
    OBVIOUS
  <2>1. CASE TaskStep
    BY <2>1, LoopCheckKeeps, ConnectOkKeeps, ConnectFailsKeeps, SleepEndsKeeps,
       ForwardKeeps, ConnectionDroppedKeeps DEF TaskStep
  <2>2. CASE DrainCancelled
    BY <2>2, DrainCancelledKeeps
  <2>3. CASE Publish
    BY <2>3, PublishKeeps
  <2>4. CASE ConnectionBreaks
    BY <2>4, ConnectionBreaksKeeps
  <2>5. CASE Cancel \/ ServerGoesDown \/ ServerComesUp \/ UNCHANGED vars
    BY <2>5, EnvironmentKeeps
  <2> QED
    BY <2>1, <2>2, <2>3, <2>4, <2>5 DEF Next
<1> QED
  BY <1>1, <1>2, PTL DEF Spec

\* Every reachable state is well-typed: in particular the timer stays between
\* its initial value and its cap.
THEOREM TypeCorrect == Spec => []TypeOK
<1>1. IInv => TypeOK
  BY DEF IInv
<1> QED
  BY <1>1, Invariance, PTL

\* Messages go out in the order they were published and none goes out twice,
\* across any number of reconnections.
THEOREM OrderKept == Spec => []SentInOrder
<1>1. IInv => SentInOrder
  BY DEF IInv
<1> QED
  BY <1>1, Invariance, PTL

\* What reached a subscribed connection and can be converted is sent, or
\* still waits in the buffer of a connection that is being drained.
THEOREM NothingLost == Spec => []NothingReceivedIsLost
<1>1. IInv => NothingReceivedIsLost
  BY DEF IInv
<1> QED
  BY <1>1, Invariance, PTL

\* The n-th wait of an outage is the initial one doubled n - 1 times, up to
\* the cap, and every outage starts afresh.
THEOREM ExponentialBackoff == Spec => []BackoffIsExponential
<1>1. IInv => BackoffIsExponential
  BY DEF IInv
<1> QED
  BY <1>1, Invariance, PTL
=============================================================================
