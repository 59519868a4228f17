----------------------------- MODULE MockProofs -----------------------------
(***************************************************************************)
(* Proofs about the two mock servers of the tests: about MockRedis for     *)
(* every script, number of clients and way to cut what they send into      *)
(* chunks, and at the end about MockKafka for any number of tests, names   *)
(* and prefixes.                                                           *)
(*                                                                         *)
(* MockRedis.  None of the three properties is inductive.  What a client   *)
(* has sent is spread over the commands executed (done), those parsed      *)
(* (queue), the undecided input (pending) and the wire; Flow says that     *)
(* together they are the script, in order, and Stream that each cell of    *)
(* pending and wire is at the place where the frames of the commands put   *)
(* it (Start), halves of characters aside.  That the parser takes it apart *)
(* at those places is ParseAll.  Answers pairs responses with commands, so *)
(* that Asks can say where the XREAD that a client waits for goes on, and  *)
(* Has that it has every entry up to there.  All that is said of the       *)
(* connections that are Sound: once a character is torn, a CRLF in a       *)
(* content may be taken for the end of it.  Observed counts the payloads   *)
(* captured and not yet sent to the harness.                               *)
(*                                                                         *)
(* The library's induction theorems are of no use here, so inductions are  *)
(* arguments about a least counterexample (LeastNatural).                  *)
(***************************************************************************)
EXTENDS MockRedis, FiniteSetTheorems, WellFoundedInduction, TLAPS

-----------------------------------------------------------------------------
(* Sequences of anything *)

\* A sequence, whatever set its elements are from
IsSeq(s) == \E S : s \in Seq(S)

\* A sequence is a function on the positions it has.
LEMMA SeqFacts ==
  ASSUME NEW s, IsSeq(s)
  PROVE  Len(s) \in Nat /\ s = [i \in 1 .. Len(s) |-> s[i]]
BY DEF IsSeq

\* The empty sequence has no elements, whatever set they are from,
LEMMA EmptyIsSeq == \A s : s = <<>> => IsSeq(s) /\ Len(s) = 0
<1> SUFFICES ASSUME NEW s, s = <<>>
             PROVE  IsSeq(s) /\ Len(s) = 0
  OBVIOUS
<1>1. s \in Seq({})
  OBVIOUS
<1>2. \E S : s \in Seq(S)
  <2> WITNESS {}
  <2> QED
    BY <1>1
<1>3. IsSeq(s)
  BY <1>2, Zenon DEF IsSeq
<1>4. Len(s) = 0
  OBVIOUS
<1> QED
  BY <1>3, <1>4, Zenon

\* and is the only one without.
LEMMA NoElements ==
  ASSUME NEW s, IsSeq(s), Len(s) = 0
  PROVE  s = <<>>
BY DEF IsSeq

\* A function on 1 .. n is a sequence.
LEMMA LiteralIsSeq ==
  ASSUME NEW n \in Nat, NEW f, f = [i \in 1 .. n |-> f[i]]
  PROVE  IsSeq(f) /\ Len(f) = n
<1>1. f \in Seq({f[i] : i \in 1 .. n})
  OBVIOUS
<1>2. Len(f) = n
  OBVIOUS
<1> QED
  BY <1>1, <1>2 DEF IsSeq

\* What the operations on sequences return
Joined(r, s, t) ==
  /\ IsSeq(r)
  /\ Len(r) = Len(s) + Len(t)
  /\ \A i \in 1 .. Len(s) : r[i] = s[i]
  /\ \A i \in 1 .. Len(t) : r[Len(s) + i] = t[i]

Appended(r, s, e) ==
  /\ IsSeq(r)
  /\ Len(r) = Len(s) + 1
  /\ r[Len(s) + 1] = e
  /\ \A i \in 1 .. Len(s) : r[i] = s[i]

Sliced(r, s, m, n) ==
  /\ IsSeq(r)
  /\ Len(r) = n - m
  /\ \A i \in 1 .. n - m : r[i] = s[m + i]

\* Concatenation
LEMMA ConcatIsSeq ==
  ASSUME NEW s, IsSeq(s), NEW t, IsSeq(t)
  PROVE  Joined(s \o t, s, t)
<1>1. PICK S : s \in Seq(S)
  BY DEF IsSeq
<1>2. PICK T : t \in Seq(T)
  BY DEF IsSeq
<1>3. s \in Seq(S \cup T) /\ t \in Seq(S \cup T)
  BY <1>1, <1>2
<1>4. s \o t \in Seq(S \cup T)
  BY <1>3
<1> QED
  BY <1>1, <1>2, <1>4 DEF IsSeq, Joined

\* Append
LEMMA AppendIsSeq ==
  ASSUME NEW s, IsSeq(s), NEW e
  PROVE  Appended(Append(s, e), s, e)
<1>1. PICK S : s \in Seq(S)
  BY DEF IsSeq
<1>2. Append(s, e) \in Seq(S \cup {e})
  BY <1>1
<1> QED
  BY <1>1, <1>2 DEF IsSeq, Appended

\* Tail
LEMMA TailIsSeq ==
  ASSUME NEW s, IsSeq(s), s # <<>>
  PROVE  Len(s) > 0 /\ Head(s) = s[1] /\ Sliced(Tail(s), s, 1, Len(s))
<1>1. PICK S : s \in Seq(S)
  BY DEF IsSeq
<1>2. Len(s) \in Nat /\ Len(s) > 0 /\ Head(s) = s[1]
  BY <1>1
<1>3. Tail(s) \in Seq(S) /\ Len(Tail(s)) = Len(s) - 1
  BY <1>1
<1>4. \A i \in 1 .. Len(s) - 1 : Tail(s)[i] = s[1 + i]
  BY <1>1
<1> QED
  BY <1>2, <1>3, <1>4 DEF IsSeq, Sliced

\* SubSeq, from behind position m to n
LEMMA SliceIsSeq ==
  ASSUME NEW s, IsSeq(s), NEW m \in Nat, NEW n \in Nat, m <= n, n <= Len(s)
  PROVE  Sliced(SubSeq(s, m + 1, n), s, m, n)
<1>1. PICK S : s \in Seq(S)
  BY DEF IsSeq
<1>2. PICK t : t = SubSeq(s, m + 1, n)
  OBVIOUS
<1>3. t \in Seq(S) /\ Len(t) = n - m
  BY <1>1, <1>2
<1>4. ASSUME NEW i \in 1 .. n - m
      PROVE  t[i] = s[m + i]
  <2>1. t[i] = s[(m + 1) + i - 1]
    BY <1>1, <1>2
  <2>2. (m + 1) + i - 1 = m + i
    OBVIOUS
  <2> QED
    BY <2>1, <2>2
<1> QED
  BY <1>2, <1>3, <1>4 DEF IsSeq, Sliced

-----------------------------------------------------------------------------
(* The frames of commands *)

\* The cells of a command on the wire
FrameLen(cmd) == Len(cmd.payload) + 2

\* The first cell of a frame
Begins(cell) == cell.k \in {"head", "words"}

\* The first cell of the frame of cmd, with whatever id the client has put in
IsHead(cell, cmd) ==
  /\ cell.k = IF cmd.inline THEN "words" ELSE "head"
  /\ cell.len = Len(cmd.payload)
  /\ cell.cmd = [word |-> cmd.word, form |-> cmd.form, inline |-> cmd.inline,
                 payload |-> cmd.payload, id |-> cell.cmd.id]

\* What the parser may get to see of the cell at place a of the frame of cmd;
\* torn says whether it may be half a character.
Carries(cell, cmd, a, torn) ==
  \/ a = 1 /\ IsHead(cell, cmd)
  \/ /\ a \in 1 + 1 .. 1 + Len(cmd.payload)
     /\ \/ cell.k = cmd.payload[a - 1]
        \/ cell.k = "bad" /\ torn
  \/ a = FrameLen(cmd) /\ cell.k = "crlf"

\* The payload of a command holds nothing but characters and parts of them.
LEMMA CommandFacts ==
  ASSUME NEW cmd, IsCommand(cmd)
  PROVE  /\ IsSeq(cmd.payload) /\ Len(cmd.payload) \in Nat
         /\ FrameLen(cmd) \in Nat /\ FrameLen(cmd) > 1
         /\ \A b \in 1 .. Len(cmd.payload) :
              cmd.payload[b] \notin {"head", "words", "crlf", "bad"}
<1>1. cmd.payload \in Seq(Ascii \cup {"lead", "cont", "cr", "lf"})
  BY DEF IsCommand, IsText
<1>2. IsSeq(cmd.payload) /\ Len(cmd.payload) \in Nat
  BY <1>1 DEF IsSeq
<1>3. \A b \in 1 .. Len(cmd.payload) :
        cmd.payload[b] \in Ascii \cup {"lead", "cont", "cr", "lf"}
  BY <1>1
<1>4. \A b \in 1 .. Len(cmd.payload) :
        cmd.payload[b] \notin {"head", "words", "crlf", "bad"}
  <2>1. "head" \notin Ascii /\ "words" \notin Ascii /\ "crlf" \notin Ascii /\ "bad" \notin Ascii
    BY MockAssumption
  <2> QED
    BY <1>3, <2>1
<1>5. PICK n \in Nat : n = Len(cmd.payload)
  BY <1>2
<1>6. FrameLen(cmd) \in Nat /\ FrameLen(cmd) > 1
  BY <1>5 DEF FrameLen
<1> QED
  BY <1>2, <1>4, <1>6

\* A frame as it is sent: its length and its cells.  The first one is the only
\* place where an id is, and the second half of a character follows the first.
IsFrame(f, cmd, x) ==
  /\ IsSeq(f) /\ Len(f) = FrameLen(cmd)
  /\ \A a \in 1 .. FrameLen(cmd) :
       /\ Carries(f[a], cmd, a, FALSE)
       /\ f[a].k = "cont" => a > 1 /\ f[a - 1].k = "lead"
       /\ Begins(f[a]) => a = 1 /\ f[a].cmd = [cmd EXCEPT !.id = x]

\* What each cell of a frame is
LEMMA FrameCells ==
  ASSUME NEW cmd, IsCommand(cmd), NEW x, NEW f, f = Frame([cmd EXCEPT !.id = x])
  PROVE  IsFrame(f, cmd, x)
<1> DEFINE msg == [cmd EXCEPT !.id = x]
           kind == IF cmd.inline THEN "words" ELSE "head"
           cell == [k |-> kind, cmd |-> msg, len |-> Len(cmd.payload)]
           h == <<cell>>
           body == Cells(cmd.payload)
           crlf == <<[k |-> "crlf"]>>
<1>1. msg = [word |-> cmd.word, form |-> cmd.form, inline |-> cmd.inline,
             payload |-> cmd.payload, id |-> x]
  BY DEF IsCommand
<1>2. msg.inline = cmd.inline /\ msg.payload = cmd.payload /\ msg.id = x
  BY <1>1
<1>3. f = h \o body \o crlf
  BY <1>2 DEF Frame
<1>4. PICK n \in Nat : n = Len(cmd.payload)
  BY CommandFacts
<1>5. IsSeq(body) /\ Len(body) = n /\ \A i \in 1 .. n : body[i] = [k |-> cmd.payload[i]]
  <2>1. body = [i \in 1 .. n |-> [k |-> cmd.payload[i]]]
    BY <1>4 DEF Cells
  <2>2. \A i \in 1 .. n : body[i] = [k |-> cmd.payload[i]]
    BY <2>1
  <2>3. body = [i \in 1 .. n |-> body[i]]
    BY <2>1, <2>2
  <2> HIDE DEF body
  <2> QED
    BY <2>2, <2>3, LiteralIsSeq
<1>6. IsSeq(crlf) /\ Len(crlf) = 1 /\ crlf[1] = [k |-> "crlf"]
  <2>1. crlf \in Seq({[k |-> "crlf"]}) /\ Len(crlf) = 1 /\ crlf[1] = [k |-> "crlf"]
    OBVIOUS
  <2> QED
    BY <2>1 DEF IsSeq
<1>7. IsSeq(h) /\ Len(h) = 1 /\ h[1] = cell
  <2> HIDE DEF cell
  <2>1. h \in Seq({cell}) /\ Len(h) = 1 /\ h[1] = cell
    OBVIOUS
  <2> QED
    BY <2>1 DEF IsSeq
<1>8. /\ cell.k = kind /\ cell.cmd = msg /\ cell.len = n
      /\ kind \in {"head", "words"}
  BY <1>4
<1>9. IsHead(cell, cmd)
  <2>1. cell.cmd = [word |-> cmd.word, form |-> cmd.form, inline |-> cmd.inline,
                    payload |-> cmd.payload, id |-> cell.cmd.id]
    BY <1>1, <1>2, <1>8
  <2> QED
    BY <1>4, <1>8, <2>1 DEF IsHead
<1>10. cell.k # "cont"
  BY <1>8
<1> HIDE DEF msg, kind, cell, h, body, crlf
<1>11. PICK g : g = h \o body /\ Joined(g, h, body)
  BY <1>5, <1>7, ConcatIsSeq
<1>12. /\ IsSeq(g) /\ Len(g) = 1 + n /\ g[1] = cell
       /\ \A i \in 1 .. n : g[1 + i] = [k |-> cmd.payload[i]]
  <2>1. Len(h) = 1 /\ 1 \in 1 .. 1
    BY <1>7
  <2> QED
    BY <1>5, <1>7, <1>11, <2>1 DEF Joined
<1>13. /\ IsSeq(f) /\ Len(f) = 1 + n + 1 /\ f[1] = cell
       /\ \A i \in 1 .. n : f[1 + i] = [k |-> cmd.payload[i]]
       /\ f[1 + n + 1] = [k |-> "crlf"]
  <2>1. Joined(f, g, crlf)
    BY <1>3, <1>6, <1>11, <1>12, ConcatIsSeq
  <2>2. \A i \in 1 .. 1 + n : f[i] = g[i]
    BY <1>12, <2>1 DEF Joined
  <2>3. IsSeq(f) /\ Len(f) = 1 + n + 1 /\ f[1 + n + 1] = [k |-> "crlf"]
    <3>1. Len(g) = 1 + n /\ Len(crlf) = 1 /\ 1 \in 1 .. 1
      BY <1>6, <1>12
    <3> QED
      BY <1>6, <2>1, <3>1 DEF Joined
  <2>4. 1 \in 1 .. 1 + n /\ \A i \in 1 .. n : 1 + i \in 1 .. 1 + n
    OBVIOUS
  <2> QED
    BY <1>12, <2>2, <2>3, <2>4
<1>14. FrameLen(cmd) = n + 2 /\ 1 + n + 1 = n + 2
  BY <1>4 DEF FrameLen
<1>15. ASSUME NEW a \in 1 .. n + 2
       PROVE  /\ Carries(f[a], cmd, a, FALSE)
              /\ f[a].k = "cont" => a > 1 /\ f[a - 1].k = "lead"
              /\ Begins(f[a]) => a = 1 /\ f[a].cmd = msg
  <2>1. CASE a = 1
    BY <1>8, <1>9, <1>10, <1>13, <2>1 DEF Carries
  <2>2. CASE a \in 1 + 1 .. 1 + n
    <3>1. PICK i \in 1 .. n : a = 1 + i /\ i = a - 1
      <4>1. a - 1 \in 1 .. n /\ a = 1 + (a - 1)
        BY <2>2
      <4> QED
        BY <4>1
    <3>2. f[a].k = cmd.payload[i]
      <4>1. f[1 + i] = [k |-> cmd.payload[i]]
        BY <1>13
      <4> QED
        BY <3>1, <4>1
    <3>3. Carries(f[a], cmd, a, FALSE)
      BY <1>4, <2>2, <3>1, <3>2 DEF Carries
    <3>4. ~Begins(f[a])
      BY <1>4, <3>2, CommandFacts DEF Begins
    <3>5. ASSUME f[a].k = "cont"
          PROVE  a > 1 /\ f[a - 1].k = "lead"
      <4>1. i > 1 /\ cmd.payload[i - 1] = "lead"
        BY <1>4, <3>2, <3>5 DEF IsCommand, IsText
      <4>2. i - 1 \in 1 .. n /\ a - 1 = 1 + (i - 1) /\ a > 1
        BY <3>1, <4>1
      <4>3. f[1 + (i - 1)] = [k |-> cmd.payload[i - 1]]
        BY <1>13, <4>2
      <4> QED
        BY <4>1, <4>2, <4>3
    <3> QED
      BY <3>3, <3>4, <3>5
  <2>3. CASE a = n + 2
    <3>1. f[a].k = "crlf"
      BY <1>13, <1>14, <2>3
    <3> QED
      BY <1>14, <2>3, <3>1 DEF Carries, Begins
  <2>4. a = 1 \/ a \in 1 + 1 .. 1 + n \/ a = n + 2
    OBVIOUS
  <2> QED
    BY <2>1, <2>2, <2>3, <2>4
<1> QED
  BY <1>13, <1>14, <1>15 DEF msg, IsFrame

-----------------------------------------------------------------------------
(* parse_one *)

\* No cell has less than a byte, and only a replacement character and a CRLF
\* have more.
LEMMA SizeFacts ==
  ASSUME NEW p, NEW i \in Nat, NEW j \in Nat, i <= j
  PROVE  /\ Size(p, i, j) \in Nat /\ Size(p, i, j) >= j - i
         /\ Size(p, i, j) = j - i => \A n \in i + 1 .. j : p[n].k # "bad"
         /\ (\A n \in i + 1 .. j : p[n].k \notin {"crlf", "bad"}) => Size(p, i, j) = j - i
<1> DEFINE A == {n \in i + 1 .. j : p[n].k \in {"crlf", "bad"}}
           B == {n \in i + 1 .. j : p[n].k = "bad"}
<1>1. IsFiniteSet(i + 1 .. j)
  BY FS_Interval
<1>2. IsFiniteSet(A) /\ IsFiniteSet(B)
  <2>1. A \subseteq i + 1 .. j /\ B \subseteq i + 1 .. j
    OBVIOUS
  <2> HIDE DEF A, B
  <2> QED
    BY <1>1, <2>1, FS_Subset
<1>3. Size(p, i, j) = (j - i) + Cardinality(A) + Cardinality(B)
  BY DEF Size
<1>4. (\A n \in i + 1 .. j : p[n].k # "bad") <=> B = {}
  OBVIOUS
<1>5. (\A n \in i + 1 .. j : p[n].k \notin {"crlf", "bad"}) => A = {} /\ B = {}
  OBVIOUS
<1> HIDE DEF A, B
<1>6. PICK ca \in Nat, cb \in Nat : ca = Cardinality(A) /\ cb = Cardinality(B)
  BY <1>2, FS_CardinalityType
<1>7. (cb = 0 => B = {}) /\ (A = {} => ca = 0) /\ (B = {} => cb = 0)
  BY <1>2, <1>6, FS_EmptySet
<1> QED
  BY <1>3, <1>4, <1>5, <1>6, <1>7

\* A command that was parsed: the array is what was sent, and so is the line
\* unless a character of it was torn.
Right(got, cmd, torn) ==
  /\ got.name = Variant(cmd)
  /\ got.payload = from_parts(cmd).payload \/ (torn /\ cmd.inline)

\* From i on, as far as it goes, p holds the frame of cmd.
Holds(p, i, cmd, torn) ==
  \A a \in 1 .. FrameLen(cmd) : i + a - 1 <= Len(p) => Carries(p[i + a - 1], cmd, a, torn)

\* The first cell of the frame is there.
LEMMA HoldsHead ==
  ASSUME NEW p, IsSeq(p), NEW i \in 1 .. Len(p), NEW cmd, IsCommand(cmd), NEW torn,
         Holds(p, i, cmd, torn)
  PROVE  IsHead(p[i], cmd)
<1>1. PICK n \in Nat, l \in Nat : n = Len(cmd.payload) /\ l = Len(p)
  BY CommandFacts, SeqFacts
<1>2. FrameLen(cmd) = n + 2
  BY <1>1 DEF FrameLen
<1>3. 1 \in 1 .. FrameLen(cmd) /\ i + 1 - 1 = i /\ i <= Len(p)
  BY <1>1, <1>2
<1>4. Carries(p[i], cmd, 1, torn)
  BY <1>3 DEF Holds
<1>5. 1 \notin 1 + 1 .. 1 + n /\ 1 # n + 2
  OBVIOUS
<1> QED
  BY <1>1, <1>2, <1>4, <1>5 DEF Carries

\* A CRLF inside the frame is one in the payload.
LEMMA InnerLine ==
  ASSUME NEW p, IsSeq(p), NEW i \in 1 .. Len(p), NEW cmd, IsCommand(cmd), NEW torn,
         Holds(p, i, cmd, torn), NEW a \in 1 .. FrameLen(cmd), a # FrameLen(cmd),
         NEW e, e = i + a - 1, e <= Len(p), EndsLine(p, i, e)
  PROVE  p[e].k = "lf" /\ e > i /\ ~OneLine(cmd.payload)
<1>1. PICK n \in Nat, l \in Nat : n = Len(cmd.payload) /\ l = Len(p)
  BY CommandFacts, SeqFacts
<1>2. FrameLen(cmd) = n + 2
  BY <1>1 DEF FrameLen
<1>3. ASSUME NEW b \in 1 .. n + 1, i + b - 1 <= l, p[i + b - 1].k \in {"crlf", "cr", "lf"}
      PROVE  b - 1 \in 1 .. n /\ p[i + b - 1].k = cmd.payload[b - 1] /\ p[i + b - 1].k # "crlf"
  <2>1. Carries(p[i + b - 1], cmd, b, torn)
    BY <1>1, <1>2, <1>3 DEF Holds
  <2>2. ~IsHead(p[i + b - 1], cmd)
    BY <1>3 DEF IsHead
  <2>3. b # n + 2
    OBVIOUS
  <2>4. b \in 1 + 1 .. 1 + n /\ p[i + b - 1].k = cmd.payload[b - 1]
    BY <1>1, <1>2, <1>3, <2>1, <2>2, <2>3 DEF Carries
  <2>5. b - 1 \in 1 .. n
    BY <2>4
  <2> QED
    BY <1>1, <2>4, <2>5, CommandFacts
<1>4. a \in 1 .. n + 1 /\ e \in Nat /\ e <= l
  BY <1>1, <1>2
<1>5. p[e].k \in {"crlf", "lf"}
  BY DEF EndsLine
<1>6. a - 1 \in 1 .. n /\ p[e].k = cmd.payload[a - 1] /\ p[e].k # "crlf"
  BY <1>3, <1>4, <1>5
<1>7. p[e].k = "lf" /\ e > i /\ p[e - 1].k = "cr"
  BY <1>6 DEF EndsLine
<1>8. PICK b \in 1 .. n + 1 : b = a - 1 /\ i + b - 1 = e - 1 /\ i + b - 1 <= l
  <2>1. a - 1 \in 1 .. n + 1 /\ i + (a - 1) - 1 = e - 1 /\ i + (a - 1) - 1 <= l
    BY <1>4, <1>6
  <2> QED
    BY <2>1
<1>9. b - 1 \in 1 .. n /\ cmd.payload[b - 1] = "cr"
  BY <1>3, <1>7, <1>8
<1>10. cmd.payload[b] = "lf"
  BY <1>6, <1>7, <1>8
<1>11. b \in 2 .. n
  BY <1>6, <1>8, <1>9
<1> QED
  BY <1>1, <1>7, <1>9, <1>10, <1>11 DEF OneLine

\* The cells after i are those of payload.
Intact(p, i, payload) == \A b \in 1 .. Len(payload) : p[i + b].k = payload[b]

\* The text of a slice of characters that were not torn is what was sent.
LEMMA TextOfSlice ==
  ASSUME NEW p, IsSeq(p), NEW i \in Nat, NEW payload, IsSeq(payload),
         NEW s, Sliced(s, p, i, i + Len(payload)), Intact(p, i, payload)
  PROVE  Text(s) = payload
<1>1. PICK n \in Nat : n = Len(payload) /\ (i + n) - i = n
  BY SeqFacts
<1>2. Len(s) = n /\ \A b \in 1 .. n : s[b] = p[i + b]
  BY <1>1 DEF Sliced
<1>3. \A b \in 1 .. n : s[b].k = payload[b]
  BY <1>1, <1>2 DEF Intact
<1>4. Text(s) = [b \in 1 .. n |-> payload[b]]
  BY <1>2, <1>3 DEF Text
<1> QED
  BY <1>1, <1>4, SeqFacts

\* Where parse_one finds the end of an array: at a CRLF that comes after as many
\* bytes as the header announces.
LEMMA ArrayEnd ==
  ASSUME NEW p, NEW i, p[i].k = "head", NEW e, e = parse_one(p, i).end, e # 0
  PROVE  /\ e \in i .. Len(p) /\ EndsLine(p, i, e)
         /\ Before(p, e) \in i .. Len(p) /\ Size(p, i, Before(p, e)) = p[i].len
<1> DEFINE crlf == {j \in i .. Len(p) : EndsLine(p, i, j)}
           slice == {j \in i .. Len(p) : Size(p, i, j) = p[i].len /\ p[j].k # "lead"}
           arrived == Size(p, i, Len(p)) >= p[i].len + 2
           ends == {j \in crlf : arrived /\ Before(p, j) \in slice}
<1>1. e = IF ends = {} THEN 0 ELSE CHOOSE j \in ends : TRUE
  BY DEF parse_one
<1>2. e \in ends
  <2> HIDE DEF ends
  <2> QED
    BY <1>1
<1> QED
  BY <1>2

\* Where it finds the end of a line: at the first CRLF.
LEMMA LineEnd ==
  ASSUME NEW p, NEW i, p[i].k # "head", NEW e, e = parse_one(p, i).end, e # 0
  PROVE  /\ e \in i .. Len(p) /\ EndsLine(p, i, e)
         /\ \A m \in i .. Len(p) : EndsLine(p, i, m) => e <= m
<1> DEFINE crlf == {j \in i .. Len(p) : EndsLine(p, i, j)}
           ends == {j \in crlf : /\ \A n \in crlf : j <= n
                                 /\ \E n \in i .. Before(p, j) : p[n].k \notin {"cr", "lf"}}
<1>1. e = IF ends = {} THEN 0 ELSE CHOOSE j \in ends : TRUE
  BY DEF parse_one
<1>2. e \in ends
  <2> HIDE DEF ends
  <2> QED
    BY <1>1
<1> QED
  BY <1>2

\* The frame that begins at i ends at e, and its payload is intact, or it is a
\* line of which a character was torn.
Found(p, i, e, cmd, torn) ==
  /\ e = i + FrameLen(cmd) - 1 /\ e <= Len(p) /\ e \in Nat
  /\ p[e].k = "crlf"
  /\ Intact(p, i, cmd.payload) \/ (torn /\ cmd.inline)

\* What comes after the header is the payload, as long as nothing is torn.
LEMMA HoldsPayload ==
  ASSUME NEW p, NEW i \in Nat, NEW cmd, IsCommand(cmd), NEW torn, Holds(p, i, cmd, torn),
         NEW b \in 1 .. Len(cmd.payload), i + b <= Len(p)
  PROVE  p[i + b].k = cmd.payload[b] \/ (p[i + b].k = "bad" /\ torn)
<1>1. PICK n \in Nat : n = Len(cmd.payload)
  BY CommandFacts
<1>2. FrameLen(cmd) = n + 2
  BY <1>1 DEF FrameLen
<1>3. /\ b + 1 \in 1 .. n + 2 /\ i + (b + 1) - 1 = i + b
      /\ (b + 1) - 1 = b /\ b + 1 # 1 /\ b + 1 # n + 2
  BY <1>1
<1>4. Carries(p[i + b], cmd, b + 1, torn)
  <2>1. Carries(p[i + (b + 1) - 1], cmd, b + 1, torn)
    BY <1>2, <1>3 DEF Holds
  <2> QED
    BY <1>3, <2>1
<1> QED
  BY <1>2, <1>3, <1>4 DEF Carries

\* What comes after the payload is the CRLF.
LEMMA HoldsCrlf ==
  ASSUME NEW p, NEW i \in Nat, NEW cmd, IsCommand(cmd), NEW torn, Holds(p, i, cmd, torn),
         NEW e, e = i + FrameLen(cmd) - 1, e <= Len(p)
  PROVE  p[e].k = "crlf"
<1>1. PICK n \in Nat : n = Len(cmd.payload)
  BY CommandFacts
<1>2. FrameLen(cmd) = n + 2
  BY <1>1 DEF FrameLen
<1>3. n + 2 \in 1 .. n + 2 /\ n + 2 # 1 /\ n + 2 \notin 1 + 1 .. 1 + n
  OBVIOUS
<1>4. Carries(p[e], cmd, n + 2, torn)
  BY <1>2, <1>3 DEF Holds
<1> QED
  BY <1>1, <1>2, <1>3, <1>4 DEF Carries

\* An array is parsed only when it is complete and intact.  Its payload is never
\* shorter than announced, so a slice of the announced size cannot reach beyond
\* it.  A CRLF in the payload comes too early if nothing is torn; and the slice
\* that ends with the payload has no byte too many, hence nothing torn in it.
LEMMA ParseArray ==
  ASSUME NEW p, IsSeq(p), NEW i \in 1 .. Len(p), NEW cmd, IsCommand(cmd), NEW torn,
         Holds(p, i, cmd, torn), torn => OneLine(cmd.payload), ~cmd.inline,
         NEW e, e = parse_one(p, i).end, e # 0
  PROVE  Found(p, i, e, cmd, torn)
<1>1. PICK n \in Nat, l \in Nat : n = Len(cmd.payload) /\ l = Len(p)
  BY CommandFacts, SeqFacts
<1>2. FrameLen(cmd) = n + 2
  BY <1>1 DEF FrameLen
<1>3. p[i].k = "head" /\ p[i].len = n
  BY <1>1, HoldsHead DEF IsHead
<1>4. PICK y : y = Before(p, e)
  OBVIOUS
<1>5. e \in i .. l /\ EndsLine(p, i, e) /\ y \in i .. l /\ Size(p, i, y) = n
  BY <1>1, <1>3, <1>4, ArrayEnd
<1>6. i \in Nat /\ e \in Nat /\ y \in Nat /\ i <= y /\ y <= l /\ e <= l
  BY <1>1, <1>5
<1>7. y <= i + n
  <2>1. Size(p, i, y) >= y - i
    BY <1>6, SizeFacts
  <2> QED
    BY <1>5, <1>6, <2>1
<1>8. \/ p[e].k = "crlf" /\ y = e - 1
      \/ p[e].k # "crlf" /\ y = e - 2 /\ p[e - 1].k = "cr"
  BY <1>4, <1>5 DEF EndsLine, Before
<1>9. e <= i + n + 1
  <2> SUFFICES ASSUME e > i + n + 1
               PROVE  FALSE
    BY <1>6
  <2>1. p[e].k # "crlf" /\ e - 1 = i + n + 1 /\ p[e - 1].k = "cr"
    BY <1>6, <1>7, <1>8
  <2>2. PICK m : m = e - 1 /\ m = i + FrameLen(cmd) - 1 /\ m <= Len(p) /\ p[m].k = "cr"
    BY <1>1, <1>2, <1>6, <2>1
  <2>3. p[m].k = "crlf"
    BY <1>6, <2>2, HoldsCrlf
  <2> QED
    BY <2>2, <2>3
<1>10. e = i + n + 1
  <2> SUFFICES ASSUME e # i + n + 1
               PROVE  FALSE
    OBVIOUS
  <2>1. PICK a \in 1 .. FrameLen(cmd) : e = i + a - 1 /\ a # FrameLen(cmd)
    <3>1. /\ e - i + 1 \in 1 .. n + 2 /\ e = i + (e - i + 1) - 1 /\ e - i + 1 # n + 2
      BY <1>5, <1>6, <1>9, SMTT(30)
    <3> QED
      BY <1>2, <3>1
  <2>2. p[e].k = "lf" /\ ~OneLine(cmd.payload)
    BY <1>1, <1>5, <1>6, <2>1, InnerLine
  <2>3. y = e - 2 /\ y < i + n
    BY <1>6, <1>8, <1>9, <2>2
  <2>4. \A m \in i + 1 .. y : p[m].k \notin {"crlf", "bad"}
    <3> SUFFICES ASSUME NEW m \in i + 1 .. y
                 PROVE  p[m].k \notin {"crlf", "bad"}
      OBVIOUS
    <3>1. PICK b \in 1 .. n : m = i + b /\ i + b <= l
      <4>1. m - i \in 1 .. n /\ m = i + (m - i) /\ i + (m - i) <= l
        BY <1>6, <2>3
      <4> QED
        BY <4>1
    <3>2. p[m].k = cmd.payload[b]
      BY <1>1, <1>6, <2>2, <3>1, HoldsPayload
    <3> QED
      BY <1>1, <3>2, CommandFacts
  <2>5. Size(p, i, y) = y - i
    BY <1>6, <2>4, SizeFacts
  <2> QED
    BY <1>5, <1>6, <2>3, <2>5
<1>11. p[e].k = "crlf" /\ y = i + n
  <2>1. e = i + FrameLen(cmd) - 1 /\ e <= Len(p)
    BY <1>1, <1>2, <1>6, <1>10
  <2>2. p[e].k = "crlf"
    BY <1>6, <2>1, HoldsCrlf
  <2> QED
    BY <1>6, <1>8, <1>10, <2>2
<1>12. Intact(p, i, cmd.payload)
  <2> SUFFICES ASSUME NEW b \in 1 .. n
               PROVE  p[i + b].k = cmd.payload[b]
    BY <1>1 DEF Intact
  <2>1. i + b <= l /\ i + b \in i + 1 .. y
    BY <1>6, <1>11
  <2>2. Size(p, i, y) = y - i
    BY <1>5, <1>6, <1>11
  <2>3. p[i + b].k # "bad"
    BY <1>6, <2>1, <2>2, SizeFacts
  <2> QED
    BY <1>1, <1>6, <2>1, <2>3, HoldsPayload
<1>13. e = i + FrameLen(cmd) - 1 /\ e <= Len(p)
  BY <1>1, <1>2, <1>6, <1>10
<1> QED
  BY <1>6, <1>11, <1>12, <1>13 DEF Found

\* A line ends with its own CRLF, the first there is.
LEMMA ParseLine ==
  ASSUME NEW p, IsSeq(p), NEW i \in 1 .. Len(p), NEW cmd, IsCommand(cmd), NEW torn,
         Holds(p, i, cmd, torn), cmd.inline, NEW e, e = parse_one(p, i).end, e # 0
  PROVE  Found(p, i, e, cmd, torn)
<1>1. PICK n \in Nat, l \in Nat : n = Len(cmd.payload) /\ l = Len(p)
  BY CommandFacts, SeqFacts
<1>2. FrameLen(cmd) = n + 2
  BY <1>1 DEF FrameLen
<1>3. p[i].k # "head"
  BY HoldsHead DEF IsHead
<1>4. /\ e \in i .. l /\ EndsLine(p, i, e)
      /\ \A m \in i .. l : EndsLine(p, i, m) => e <= m
  BY <1>1, <1>3, LineEnd
<1>5. i \in Nat /\ e \in Nat /\ i <= e /\ e <= l
  BY <1>1, <1>4
<1>6. OneLine(cmd.payload)
  <2>1. \A b \in 1 .. n : cmd.payload[b] \notin {"cr", "lf"}
    BY <1>1 DEF IsCommand
  <2>2. \A b \in 2 .. n : b \in 1 .. n
    OBVIOUS
  <2> QED
    BY <1>1, <2>1, <2>2 DEF OneLine
<1>7. e >= i + n + 1
  <2> SUFFICES ASSUME e < i + n + 1
               PROVE  FALSE
    BY <1>5
  <2>1. PICK a \in 1 .. FrameLen(cmd) : e = i + a - 1 /\ a # FrameLen(cmd)
    <3>1. /\ e - i + 1 \in 1 .. n + 2 /\ e = i + (e - i + 1) - 1 /\ e - i + 1 # n + 2
      BY <1>5
    <3> QED
      BY <1>2, <3>1
  <2> QED
    BY <1>1, <1>4, <1>5, <1>6, <2>1, InnerLine
<1>8. PICK m \in i .. l : m = i + n + 1 /\ m = i + FrameLen(cmd) - 1
  <2>1. i + n + 1 \in i .. l /\ i + n + 1 = i + (n + 2) - 1
    BY <1>5, <1>7
  <2> QED
    BY <1>2, <2>1
<1>9. p[m].k = "crlf"
  <2>1. m <= Len(p)
    BY <1>1, <1>5
  <2> QED
    BY <1>5, <1>8, <2>1, HoldsCrlf
<1>10. e = m
  <2>1. e <= m
    BY <1>4, <1>9 DEF EndsLine
  <2> QED
    BY <1>5, <1>7, <1>8, <2>1
<1>11. CASE torn
  BY <1>1, <1>5, <1>8, <1>9, <1>10, <1>11 DEF Found
<1>12. CASE ~torn
  <2>1. Intact(p, i, cmd.payload)
    <3> SUFFICES ASSUME NEW b \in 1 .. n
                 PROVE  p[i + b].k = cmd.payload[b]
      BY <1>1 DEF Intact
    <3>1. i + b <= l
      BY <1>5, <1>8, <1>10
    <3> QED
      BY <1>1, <1>5, <1>12, <3>1, HoldsPayload
  <2> QED
    BY <1>1, <1>5, <1>8, <1>9, <1>10, <2>1 DEF Found
<1> QED
  BY <1>11, <1>12

\* The id of an XREAD comes from the first cell of a frame in p.
FromHead(got, p) ==
  got.name = "XREAD" =>
    \E i \in 1 .. Len(p) :
      Begins(p[i]) /\ Variant(p[i].cmd) = "XREAD" /\ got.id = p[i].cmd.id

\* A command parsed up to the end of its frame is the one that was sent.
LEMMA Builds ==
  ASSUME NEW p, IsSeq(p), NEW i \in 1 .. Len(p), NEW cmd, IsCommand(cmd), NEW torn,
         IsHead(p[i], cmd), NEW e, Found(p, i, e, cmd, torn)
  PROVE  /\ Right(build_command(p, i, e), cmd, torn)
         /\ FromHead(build_command(p, i, e), p)
<1>1. PICK n \in Nat, l \in Nat : n = Len(cmd.payload) /\ l = Len(p)
  BY CommandFacts, SeqFacts
<1>2. /\ e = i + (n + 2) - 1 /\ e <= l /\ e \in Nat /\ p[e].k = "crlf"
      /\ Intact(p, i, cmd.payload) \/ (torn /\ cmd.inline)
  BY <1>1 DEF Found, FrameLen
<1>3. PICK t : t = Text(SubSeq(p, i + 1, e - 1))
  OBVIOUS
<1>4. Before(p, e) = e - 1
  BY <1>2 DEF Before
<1>5. Begins(p[i])
  BY DEF IsHead, Begins
<1>6. PICK m : m = p[i].cmd
  OBVIOUS
<1>7. m = [word |-> cmd.word, form |-> cmd.form, inline |-> cmd.inline,
           payload |-> cmd.payload, id |-> m.id]
  BY <1>6 DEF IsHead
<1>8. PICK c : c = [m EXCEPT !.payload = t]
  OBVIOUS
<1>9. /\ m.word = cmd.word /\ m.form = cmd.form
      /\ c.word = cmd.word /\ c.form = cmd.form /\ c.payload = t /\ c.id = m.id
  <2>1. c = [word |-> cmd.word, form |-> cmd.form, inline |-> cmd.inline,
             payload |-> t, id |-> m.id]
    BY <1>7, <1>8
  <2> QED
    BY <1>7, <2>1
<1>10. build_command(p, i, e) = from_parts(c)
  <2>1. p[i].k \in {"head", "words"}
    BY <1>5 DEF Begins
  <2> QED
    BY <1>3, <1>4, <1>6, <1>8, <2>1 DEF build_command
<1>11. Variant(c) = Variant(cmd) /\ Variant(m) = Variant(cmd)
  BY <1>9 DEF Variant
<1>12. /\ from_parts(c).name = Variant(cmd) /\ from_parts(c).id = m.id
       /\ t = cmd.payload => from_parts(c).payload = from_parts(cmd).payload
  BY <1>9, <1>11 DEF from_parts
<1>13. Intact(p, i, cmd.payload) => t = cmd.payload
  <2> SUFFICES ASSUME Intact(p, i, cmd.payload)
               PROVE  t = cmd.payload
    OBVIOUS
  <2>1. i + n = e - 1 /\ i <= i + n /\ i + n <= Len(p) /\ i \in Nat /\ i + n \in Nat
    BY <1>1, <1>2
  <2>2. Sliced(SubSeq(p, i + 1, i + n), p, i, i + n)
    BY <2>1, SliceIsSeq
  <2>3. PICK s : s = SubSeq(p, i + 1, e - 1) /\ Sliced(s, p, i, i + Len(cmd.payload))
    BY <1>1, <2>1, <2>2
  <2>4. IsSeq(cmd.payload)
    BY CommandFacts
  <2>5. Text(s) = cmd.payload
    BY <2>1, <2>3, <2>4, TextOfSlice
  <2> QED
    BY <1>3, <2>3, <2>5
<1>14. Right(build_command(p, i, e), cmd, torn)
  BY <1>2, <1>10, <1>12, <1>13 DEF Right
<1>15. FromHead(build_command(p, i, e), p)
  BY <1>5, <1>6, <1>10, <1>11, <1>12 DEF FromHead
<1> QED
  BY <1>14, <1>15

\* parse_one finds the end of the frame that begins at i, if any, and
\* build_command makes the command of it that was sent.
LEMMA ParseOne ==
  ASSUME NEW p, IsSeq(p), NEW i \in 1 .. Len(p), NEW cmd, IsCommand(cmd), NEW torn,
         Holds(p, i, cmd, torn), torn => OneLine(cmd.payload),
         NEW e, e = parse_one(p, i).end, e # 0
  PROVE  /\ e = i + FrameLen(cmd) - 1 /\ e <= Len(p) /\ e \in Nat
         /\ Right(build_command(p, i, e), cmd, torn)
         /\ FromHead(build_command(p, i, e), p)
<1>1. Found(p, i, e, cmd, torn)
  BY ParseArray, ParseLine
<1>2. IsHead(p[i], cmd)
  BY HoldsHead
<1>3. /\ Right(build_command(p, i, e), cmd, torn)
      /\ FromHead(build_command(p, i, e), p)
  BY <1>1, <1>2, Builds
<1> QED
  BY <1>1, <1>3 DEF Found

-----------------------------------------------------------------------------
(* parse_resp_commands *)

\* A set of naturals that is not empty has a least element.
LEMMA LeastNatural ==
  ASSUME NEW T, T \subseteq Nat, T # {}
  PROVE  \E x \in T : \A y \in T : x <= y
<1> DEFINE Less == {ss \in Nat \X Nat : ss[1] < ss[2]}
<1>1. IsWellFoundedOn(Less, Nat)
  BY NatLessThanWellFounded, Zenon DEF OpToRel
<1> HIDE DEF Less
<1>2. PICK x \in T : \A y \in T : ~ (<<y, x>> \in Less)
  BY <1>1, WFMin
<1>3. \A y \in T : x <= y
  <2> SUFFICES ASSUME NEW y \in T, y < x
               PROVE  FALSE
    OBVIOUS
  <2>1. <<y, x>> \in Less
    BY DEF Less
  <2> QED
    BY <1>2, <2>1
<1> QED
  BY <1>3

\* parse_one from i on, also where nothing is left
OneAt(p, i) == IF i > Len(p) THEN [end |-> 0, panics |-> FALSE] ELSE parse_one(p, i)

\* One step of the recursion; next is what the next step returns.
ParseStep(p, i, next) ==
  IF OneAt(p, i).end = 0
  THEN [commands |-> <<>>, rest |-> SubSeq(p, i, Len(p)), panics |-> OneAt(p, i).panics]
  ELSE [next EXCEPT !.commands = <<build_command(p, i, OneAt(p, i).end)>> \o @]

\* parse_one finds a frame's end at or behind its beginning, within the input.
LEMMA OneAtEnd ==
  ASSUME NEW p, NEW i
  PROVE  OneAt(p, i).end = 0 \/ OneAt(p, i).end \in i .. Len(p)
<1> DEFINE arrived == Size(p, i, Len(p)) >= p[i].len + 2
           slice == {j \in i .. Len(p) : Size(p, i, j) = p[i].len /\ p[j].k # "lead"}
           crlf == {j \in i .. Len(p) : EndsLine(p, i, j)}
           ends == IF p[i].k = "head" THEN {j \in crlf : arrived /\ Before(p, j) \in slice}
                   ELSE {j \in crlf : /\ \A n \in crlf : j <= n
                                      /\ \E n \in i .. Before(p, j) : p[n].k \notin {"cr", "lf"}}
<1>1. ends \subseteq i .. Len(p)
  OBVIOUS
<1>2. parse_one(p, i).end = IF ends = {} THEN 0 ELSE CHOOSE j \in ends : TRUE
  BY DEF parse_one
<1> HIDE DEF ends
<1>3. parse_one(p, i).end = 0 \/ parse_one(p, i).end \in i .. Len(p)
  BY <1>1, <1>2
<1> QED
  BY <1>3 DEF OneAt

\* g says what parse returns from k on.
ParseTable(g, p, k) ==
  g = [i \in k .. Len(p) + 1 |-> ParseStep(p, i, g[OneAt(p, i).end + 1])]

\* The recursion of parse_resp_commands has a solution from any position on.
LEMMA ParseTableExists ==
  ASSUME NEW p, IsSeq(p)
  PROVE  \E g : ParseTable(g, p, 1)
<1>1. PICK l \in Nat : l = Len(p)
  BY SeqFacts
<1> DEFINE T == {m \in Nat : m <= l /\ ~ \E g : ParseTable(g, p, l + 1 - m)}
<1> SUFFICES ASSUME T # {}
             PROVE  FALSE
  <2>1. l \notin T => \E g : ParseTable(g, p, l + 1 - l)
    BY <1>1
  <2>2. l + 1 - l = 1
    OBVIOUS
  <2> QED
    BY <2>1, <2>2
<1>2. PICK m \in T : \A y \in T : m <= y
  <2>1. T \subseteq Nat
    OBVIOUS
  <2> HIDE DEF T
  <2> QED
    BY <2>1, LeastNatural
<1>3. PICK k \in 1 .. l + 1 : k = l + 1 - m
  BY <1>2
<1>4. ~ \E g : ParseTable(g, p, k)
  BY <1>2, <1>3
<1>5. CASE k = l + 1
  <2> DEFINE g == [i \in k .. l + 1 |-> ParseStep(p, i, <<>>)]
  <2>1. ASSUME NEW i \in k .. l + 1
        PROVE  ParseStep(p, i, g[OneAt(p, i).end + 1]) = ParseStep(p, i, <<>>)
    <3>1. i > Len(p)
      BY <1>1, <1>5
    <3> QED
      BY <3>1 DEF ParseStep, OneAt
  <2>2. g = [i \in k .. l + 1 |-> ParseStep(p, i, g[OneAt(p, i).end + 1])]
    BY <2>1, Zenon
  <2>3. ParseTable(g, p, k)
    BY <1>1, <2>2 DEF ParseTable
  <2> QED
    BY <1>4, <2>3
<1>6. CASE k # l + 1
  <2>1. PICK h : ParseTable(h, p, k + 1)
    <3>1. m - 1 \in Nat /\ m - 1 <= l /\ l + 1 - (m - 1) = k + 1 /\ ~ (m <= m - 1)
      BY <1>2, <1>3, <1>6
    <3>2. m - 1 \notin T
      BY <1>2, <3>1
    <3> QED
      BY <3>1, <3>2
  <2>2. \A i \in k + 1 .. l + 1 : h[i] = ParseStep(p, i, h[OneAt(p, i).end + 1])
    <3>1. h = [i \in k + 1 .. l + 1 |-> ParseStep(p, i, h[OneAt(p, i).end + 1])]
      BY <1>1, <2>1 DEF ParseTable
    <3> QED
      BY <3>1, Zenon
  <2> DEFINE g == [i \in k .. l + 1 |->
                     IF i = k THEN ParseStep(p, k, h[OneAt(p, k).end + 1]) ELSE h[i]]
  <2>3. ASSUME NEW i \in k .. l + 1
        PROVE  g[i] = ParseStep(p, i, g[OneAt(p, i).end + 1])
    <3>1. g[i] = ParseStep(p, i, h[OneAt(p, i).end + 1])
      <4>1. CASE i = k
        BY <4>1
      <4>2. CASE i # k
        <5>1. i \in k + 1 .. l + 1
          BY <4>2
        <5> QED
          BY <2>2, <4>2, <5>1
      <4> QED
        BY <4>1, <4>2
    <3>2. CASE OneAt(p, i).end = 0
      BY <3>1, <3>2 DEF ParseStep
    <3>3. CASE OneAt(p, i).end \in i .. l
      <4>1. PICK n \in i .. l : n = OneAt(p, i).end
        BY <3>3
      <4>2. n + 1 \in k .. l + 1 /\ n + 1 # k
        OBVIOUS
      <4>3. g[n + 1] = h[n + 1]
        BY <4>2
      <4> QED
        BY <3>1, <4>1, <4>3
    <3> QED
      BY <1>1, <3>2, <3>3, OneAtEnd
  <2>4. g = [i \in k .. l + 1 |-> ParseStep(p, i, g[OneAt(p, i).end + 1])]
    <3>1. g = [i \in k .. l + 1 |-> g[i]]
      OBVIOUS
    <3> HIDE DEF g
    <3> QED
      BY <2>3, <3>1, Zenon
  <2>5. ParseTable(g, p, k)
    BY <1>1, <2>4 DEF ParseTable
  <2> QED
    BY <1>4, <2>5
<1> QED
  BY <1>5, <1>6

\* What parse_resp_commands computes, for every input.
LEMMA ParseDef ==
  ASSUME NEW p, IsSeq(p)
  PROVE  \E g : /\ parse_resp_commands(p) = g[1]
                /\ \A i \in 1 .. Len(p) + 1 : g[i] = ParseStep(p, i, g[OneAt(p, i).end + 1])
<1> DEFINE f == CHOOSE g : ParseTable(g, p, 1)
<1>1. ParseTable(f, p, 1)
  BY ParseTableExists
<1>2. parse_resp_commands(p) = f[1]
  BY DEF parse_resp_commands, ParseTable, ParseStep, OneAt
<1> HIDE DEF f
<1>3. \A i \in 1 .. Len(p) + 1 : f[i] = ParseStep(p, i, f[OneAt(p, i).end + 1])
  BY <1>1, Zenon DEF ParseTable
<1> QED
  BY <1>2, <1>3

-----------------------------------------------------------------------------
(* Where the frames of a script lie in the stream of cells *)

\* A script
AreCommands(cmds) == Len(cmds) \in Nat /\ \A i \in 1 .. Len(cmds) : IsCommand(cmds[i])

\* None of whose contents has a CRLF
Unbroken(cmds) == \A i \in 1 .. Len(cmds) : OneLine(cmds[i].payload)

\* st[m] cells come before frame m.
Layout(st, cmds, n) ==
  /\ st[1] = 0
  /\ \A m \in 1 .. n + 1 : st[m] \in Nat
  /\ \A m \in 1 .. n : st[m + 1] = st[m] + FrameLen(cmds[m])

\* The layout of the stream, which has one place for each frame
Start(cmds) == CHOOSE st : Layout(st, cmds, Len(cmds))

\* The frames of a list of commands can be laid out one behind the other.
LEMMA LayoutExists ==
  ASSUME NEW cmds, AreCommands(cmds)
  PROVE  Layout(Start(cmds), cmds, Len(cmds))
<1> DEFINE T == {n \in Nat : n <= Len(cmds) /\ ~ \E st : Layout(st, cmds, n)}
<1> SUFFICES ASSUME T # {}
             PROVE  FALSE
  <2>1. \E st : Layout(st, cmds, Len(cmds))
    BY DEF AreCommands
  <2> QED
    BY <2>1 DEF Start
<1>1. PICK n \in T : \A y \in T : n <= y
  <2>1. T \subseteq Nat
    OBVIOUS
  <2> HIDE DEF T
  <2> QED
    BY <2>1, LeastNatural
<1>2. n # 0
  <2>1. Layout([m \in 1 .. 1 |-> 0], cmds, 0)
    BY DEF Layout
  <2> QED
    BY <1>1, <2>1
<1>3. PICK st : Layout(st, cmds, n - 1)
  <2>1. n - 1 \in Nat /\ n - 1 \notin T /\ n - 1 <= Len(cmds)
    BY <1>1, <1>2 DEF AreCommands
  <2> QED
    BY <2>1
<1>4. n \in 1 .. Len(cmds)
  BY <1>1, <1>2 DEF AreCommands
<1>5. FrameLen(cmds[n]) \in Nat
  BY <1>4, CommandFacts DEF AreCommands
<1> DEFINE new == [m \in 1 .. n + 1 |-> IF m = n + 1 THEN st[n] + FrameLen(cmds[n]) ELSE st[m]]
<1>6. /\ st[1] = 0
      /\ \A m \in 1 .. n : st[m] \in Nat
      /\ \A m \in 1 .. n - 1 : st[m + 1] = st[m] + FrameLen(cmds[m])
  <2>1. (n - 1) + 1 = n
    BY <1>4
  <2> QED
    BY <1>3, <2>1 DEF Layout
<1>7. \A m \in 1 .. n : new[m] = st[m]
  BY <1>4
<1>8. new[n + 1] = st[n] + FrameLen(cmds[n])
  BY <1>4
<1> HIDE DEF new
<1>9. \A m \in 1 .. n : new[m + 1] = new[m] + FrameLen(cmds[m])
  <2> SUFFICES ASSUME NEW m \in 1 .. n
               PROVE  new[m + 1] = new[m] + FrameLen(cmds[m])
    OBVIOUS
  <2>1. CASE m = n
    BY <1>4, <1>7, <1>8, <2>1
  <2>2. CASE m # n
    <3>1. m \in 1 .. n - 1 /\ m + 1 \in 1 .. n
      BY <1>4, <2>2
    <3> QED
      BY <1>6, <1>7, <3>1
  <2> QED
    BY <2>1, <2>2
<1>10. \A m \in 1 .. n + 1 : new[m] \in Nat
  <2> SUFFICES ASSUME NEW m \in 1 .. n + 1
               PROVE  new[m] \in Nat
    OBVIOUS
  <2>1. CASE m = n + 1
    <3>1. st[n] \in Nat
      BY <1>4, <1>6
    <3> QED
      BY <1>5, <1>8, <2>1, <3>1
  <2>2. CASE m # n + 1
    <3>1. m \in 1 .. n
      BY <1>4, <2>2
    <3> QED
      BY <1>6, <1>7, <3>1
  <2> QED
    BY <2>1, <2>2
<1>11. new[1] = 0
  <2>1. 1 \in 1 .. n
    BY <1>4
  <2> QED
    BY <1>6, <1>7, <2>1
<1>12. Layout(new, cmds, n)
  BY <1>9, <1>10, <1>11 DEF Layout
<1> QED
  BY <1>1, <1>12

\* Start is such a layout.
LEMMA StartFacts ==
  ASSUME NEW cmds, AreCommands(cmds)
  PROVE  /\ Start(cmds)[1] = 0
         /\ \A m \in 1 .. Len(cmds) + 1 : Start(cmds)[m] \in Nat
         /\ \A m \in 1 .. Len(cmds) : Start(cmds)[m + 1] = Start(cmds)[m] + FrameLen(cmds[m])
BY LayoutExists DEF Layout

\* The frames are one behind the other.
LEMMA StartGrows ==
  ASSUME NEW cmds, AreCommands(cmds), NEW m \in 1 .. Len(cmds), NEW n \in m + 1 .. Len(cmds) + 1
  PROVE  Start(cmds)[m + 1] <= Start(cmds)[n]
<1>1. PICK l \in Nat : l = Len(cmds)
  BY DEF AreCommands
<1>2. PICK st : st = Start(cmds)
  OBVIOUS
<1>3. \A i \in 1 .. l + 1 : st[i] \in Nat
  BY <1>1, <1>2, StartFacts
<1> DEFINE T == {i \in Nat : i \in m + 1 .. l + 1 /\ ~ (st[m + 1] <= st[i])}
<1> SUFFICES ASSUME T # {}
             PROVE  FALSE
  BY <1>1, <1>2
<1>4. PICK i \in T : \A y \in T : i <= y
  <2>1. T \subseteq Nat
    OBVIOUS
  <2> HIDE DEF T
  <2> QED
    BY <2>1, LeastNatural
<1>5. i # m + 1
  BY <1>1, <1>3, <1>4
<1>6. PICK j \in 1 .. l : i = j + 1 /\ j \in m + 1 .. l + 1
  <2>1. i - 1 \in 1 .. l /\ i = (i - 1) + 1 /\ i - 1 \in m + 1 .. l + 1
    BY <1>1, <1>4, <1>5
  <2> QED
    BY <2>1
<1>7. st[m + 1] <= st[j]
  BY <1>4, <1>6
<1>8. st[i] = st[j] + FrameLen(cmds[j]) /\ FrameLen(cmds[j]) \in Nat
  BY <1>1, <1>2, <1>6, StartFacts, CommandFacts DEF AreCommands
<1>9. st[m + 1] \in Nat /\ st[j] \in Nat
  BY <1>1, <1>3
<1> QED
  BY <1>4, <1>7, <1>8, <1>9

\* Every cell belongs to a frame.
LEMMA InSomeFrame ==
  ASSUME NEW cmds, AreCommands(cmds), NEW n \in 0 .. Len(cmds),
         NEW x \in 1 .. Start(cmds)[n + 1]
  PROVE  \E m \in 1 .. n : \E a \in 1 .. FrameLen(cmds[m]) : x = Start(cmds)[m] + a
<1>1. PICK l \in Nat : l = Len(cmds)
  BY DEF AreCommands
<1>2. PICK st : st = Start(cmds)
  OBVIOUS
<1>3. st[1] = 0 /\ \A i \in 1 .. l + 1 : st[i] \in Nat
  BY <1>1, <1>2, StartFacts
<1> DEFINE T == {i \in Nat : i \in 1 .. n + 1 /\ x <= st[i]}
<1>4. n + 1 \in T
  BY <1>1, <1>2, <1>3
<1>5. PICK i \in T : \A y \in T : i <= y
  <2>1. T \subseteq Nat /\ T # {}
    BY <1>4
  <2> HIDE DEF T
  <2> QED
    BY <2>1, LeastNatural
<1>6. st[n + 1] \in Nat /\ x \in Nat /\ x > 0
  BY <1>1, <1>2, <1>3
<1>7. i # 1
  BY <1>3, <1>5, <1>6
<1>8. PICK m \in 1 .. n : i = m + 1 /\ m \in 1 .. l /\ m \in 1 .. n + 1
  <2>1. i - 1 \in 1 .. n /\ i = (i - 1) + 1 /\ i - 1 \in 1 .. l /\ i - 1 \in 1 .. n + 1
    BY <1>1, <1>5, <1>7
  <2> QED
    BY <2>1
<1>9. ~ (x <= st[m])
  BY <1>5, <1>8
<1>10. PICK f \in Nat : f = FrameLen(cmds[m]) /\ st[i] = st[m] + f
  BY <1>1, <1>2, <1>8, StartFacts, CommandFacts DEF AreCommands
<1>11. PICK s \in Nat : s = st[m]
  BY <1>1, <1>3, <1>8
<1>12. x - s \in 1 .. f /\ x = s + (x - s)
  BY <1>5, <1>6, <1>9, <1>10, <1>11
<1> QED
  BY <1>2, <1>10, <1>11, <1>12

\* What the parser may get to see at place x of the stream
Fits(cell, cmds, x, torn) ==
  \A m \in 1 .. Len(cmds) : \A a \in 1 .. FrameLen(cmds[m]) :
    x = Start(cmds)[m] + a => Carries(cell, cmds[m], a, torn)

\* s holds the cells of the stream after base.
FitsFrom(s, cmds, base, torn) == \A i \in 1 .. Len(s) : Fits(s[i], cmds, base + i, torn)

\* r is what the parser makes of the cells after base from frame m + 1 on: the
\* commands m + 1, ..., and what comes after them.
Parsed(r, p, cmds, base, m, n, torn) ==
  /\ r = [commands |-> r.commands, rest |-> r.rest, panics |-> r.panics]
  /\ IsSeq(r.commands)
  /\ m + Len(r.commands) <= n
  /\ \A j \in 1 .. Len(r.commands) :
       Right(r.commands[j], cmds[m + j], torn) /\ FromHead(r.commands[j], p)
  /\ base <= Start(cmds)[m + Len(r.commands) + 1]
  /\ Start(cmds)[m + Len(r.commands) + 1] <= base + Len(p)
  /\ r.rest = SubSeq(p, Start(cmds)[m + Len(r.commands) + 1] - base + 1, Len(p))

\* Nothing is parsed from frame m + 1 on.
LEMMA ParseNone ==
  ASSUME NEW p, IsSeq(p), NEW cmds, NEW base \in Nat, NEW torn,
         NEW n \in Nat, NEW m \in 0 .. n, NEW s \in Nat, s = Start(cmds)[m + 1],
         base <= s, s <= base + Len(p), NEW pn,
         NEW r, r = [commands |-> <<>>, rest |-> SubSeq(p, s - base + 1, Len(p)), panics |-> pn]
  PROVE  Parsed(r, p, cmds, base, m, n, torn)
<1>1. r.commands = <<>> /\ r.rest = SubSeq(p, s - base + 1, Len(p)) /\ r.panics = pn
  OBVIOUS
<1>2. r = [commands |-> r.commands, rest |-> r.rest, panics |-> r.panics]
  OBVIOUS
<1>3. IsSeq(r.commands) /\ Len(r.commands) = 0
  BY <1>1, EmptyIsSeq, Zenon
<1>4. m + Len(r.commands) = m /\ m <= n /\ \A j \in 1 .. Len(r.commands) : FALSE
  BY <1>3
<1>5. s <= base + Len(p) /\ s = Start(cmds)[m + Len(r.commands) + 1]
  BY <1>4
<1> QED
  BY <1>1, <1>2, <1>3, <1>4, <1>5 DEF Parsed

\* One command more is parsed.
LEMMA ParseMore ==
  ASSUME NEW p, NEW cmds, NEW base, NEW torn, NEW n \in Nat, NEW m \in 0 .. n,
         NEW h, Parsed(h, p, cmds, base, m + 1, n, torn),
         NEW cmd, Right(cmd, cmds[m + 1], torn), FromHead(cmd, p),
         NEW r, r = [h EXCEPT !.commands = <<cmd>> \o @]
  PROVE  Parsed(r, p, cmds, base, m, n, torn)
<1>1. PICK q \in Nat : q = Len(h.commands)
  BY SeqFacts DEF Parsed
<1>2. h = [commands |-> h.commands, rest |-> h.rest, panics |-> h.panics]
  BY DEF Parsed
<1>3. r = [commands |-> <<cmd>> \o h.commands, rest |-> h.rest, panics |-> h.panics]
  BY <1>2
<1>4. PICK one : one = <<cmd>>
  OBVIOUS
<1>5. IsSeq(one) /\ Len(one) = 1 /\ one[1] = cmd
  <2>1. one \in Seq({cmd}) /\ Len(one) = 1 /\ one[1] = cmd
    BY <1>4
  <2> QED
    BY <2>1 DEF IsSeq
<1>6. PICK t : t = one \o h.commands /\ Joined(t, one, h.commands)
  BY <1>5, ConcatIsSeq DEF Parsed
<1>7. /\ r.commands = t /\ r.rest = h.rest
      /\ r = [commands |-> t, rest |-> r.rest, panics |-> r.panics]
  BY <1>3, <1>4, <1>6
<1>8. IsSeq(t) /\ Len(t) = 1 + q /\ t[1] = cmd /\ \A j \in 1 .. q : t[1 + j] = h.commands[j]
  <2>1. Len(one) = 1 /\ 1 \in 1 .. 1
    BY <1>5
  <2> QED
    BY <1>1, <1>5, <1>6, <2>1 DEF Joined
<1>9. m + (1 + q) = (m + 1) + q
  OBVIOUS
<1>10. ASSUME NEW j \in 1 .. 1 + q
       PROVE  Right(t[j], cmds[m + j], torn) /\ FromHead(t[j], p)
  <2>1. CASE j = 1
    BY <1>8, <2>1
  <2>2. CASE j # 1
    <3>1. PICK i \in 1 .. q : j = 1 + i /\ m + j = (m + 1) + i
      <4>1. j - 1 \in 1 .. q /\ j = 1 + (j - 1) /\ m + j = (m + 1) + (j - 1)
        BY <2>2
      <4> QED
        BY <4>1
    <3>2. Right(h.commands[i], cmds[(m + 1) + i], torn) /\ FromHead(h.commands[i], p)
      BY <1>1 DEF Parsed
    <3> QED
      BY <1>8, <3>1, <3>2
  <2> QED
    BY <2>1, <2>2
<1>11. /\ m + Len(t) <= n
       /\ base <= Start(cmds)[m + Len(t) + 1]
       /\ Start(cmds)[m + Len(t) + 1] <= base + Len(p)
       /\ r.rest = SubSeq(p, Start(cmds)[m + Len(t) + 1] - base + 1, Len(p))
  BY <1>1, <1>7, <1>8, <1>9 DEF Parsed
<1> QED
  BY <1>7, <1>8, <1>10, <1>11 DEF Parsed

\* However much of the stream has arrived, the parser returns the commands that
\* were sent and keeps what comes after them.
LEMMA ParseAll ==
  ASSUME NEW p, IsSeq(p), NEW cmds, AreCommands(cmds), NEW torn,
         torn => Unbroken(cmds), NEW n \in 0 .. Len(cmds), NEW d \in 0 .. n,
         FitsFrom(p, cmds, Start(cmds)[d + 1], torn),
         Start(cmds)[d + 1] + Len(p) <= Start(cmds)[n + 1]
  PROVE  Parsed(parse_resp_commands(p), p, cmds, Start(cmds)[d + 1], d, n, torn)
<1>1. PICK l \in Nat, k \in Nat : l = Len(p) /\ k = Len(cmds)
  BY SeqFacts DEF AreCommands
<1>2. PICK st : st = Start(cmds)
  OBVIOUS
<1>3. \A i \in 1 .. k + 1 : st[i] \in Nat
  BY <1>1, <1>2, StartFacts
<1>4. PICK base \in Nat : base = st[d + 1]
  BY <1>1, <1>3
<1>5. PICK g : /\ parse_resp_commands(p) = g[1]
               /\ \A i \in 1 .. l + 1 : g[i] = ParseStep(p, i, g[OneAt(p, i).end + 1])
  BY <1>1, ParseDef
<1> DEFINE T == {t \in Nat :
                   /\ t <= n - d
                   /\ st[n - t + 1] <= base + l
                   /\ ~ Parsed(g[st[n - t + 1] - base + 1], p, cmds, base, n - t, n, torn)}
<1> SUFFICES ASSUME T # {}
             PROVE  FALSE
  <2>1. n - d \in Nat /\ n - (n - d) = d /\ n - (n - d) + 1 = d + 1
    BY <1>1
  <2>2. st[d + 1] <= base + l /\ st[d + 1] - base + 1 = 1
    BY <1>4
  <2>3. n - d \notin T
    OBVIOUS
  <2>4. Parsed(g[1], p, cmds, base, d, n, torn)
    BY <2>1, <2>2, <2>3
  <2> QED
    BY <1>2, <1>4, <1>5, <2>4
<1>6. PICK t \in T : \A y \in T : t <= y
  <2>1. T \subseteq Nat
    OBVIOUS
  <2> HIDE DEF T
  <2> QED
    BY <2>1, LeastNatural
<1>7. PICK m \in d .. n : m = n - t /\ n - t + 1 = m + 1 /\ m \in 0 .. n /\ m + 1 \in 1 .. k + 1
  <2>1. n - t \in d .. n /\ n - t \in 0 .. n /\ n - t + 1 \in 1 .. k + 1
    BY <1>1, <1>6
  <2> QED
    BY <2>1
<1>8. PICK s \in Nat : s = st[m + 1] /\ s <= base + l
  BY <1>3, <1>6, <1>7
<1>9. base <= s
  <2>1. CASE m = d
    BY <1>4, <1>8, <2>1
  <2>2. CASE m # d
    <3>1. d + 1 \in 1 .. k /\ m + 1 \in (d + 1) + 1 .. k + 1
      BY <1>1, <1>7, <2>2
    <3>2. st[(d + 1) + 1] <= st[m + 1]
      BY <1>1, <1>2, <3>1, StartGrows
    <3>3. st[(d + 1) + 1] = base + FrameLen(cmds[d + 1]) /\ FrameLen(cmds[d + 1]) \in Nat
      BY <1>1, <1>2, <1>4, <3>1, StartFacts, CommandFacts DEF AreCommands
    <3>4. PICK f \in Nat : base + f <= s
      BY <1>8, <3>2, <3>3, Zenon
    <3> HIDE DEF T
    <3> QED
      BY <3>4
  <2> QED
    BY <2>1, <2>2
<1>10. PICK i \in 1 .. l + 1 : i = s - base + 1
  BY <1>8, <1>9, SMTT(30)
<1>11. ~ Parsed(g[i], p, cmds, base, m, n, torn)
  BY <1>6, <1>7, <1>8, <1>10
<1>12. g[i] = ParseStep(p, i, g[OneAt(p, i).end + 1])
  BY <1>5
<1>13. CASE OneAt(p, i).end = 0
  <2>1. g[i] = [commands |-> <<>>, rest |-> SubSeq(p, s - base + 1, Len(p)),
                panics |-> OneAt(p, i).panics]
    BY <1>10, <1>12, <1>13 DEF ParseStep
  <2>2. Parsed(g[i], p, cmds, base, m, n, torn)
    <3>1. n \in Nat
      BY <1>1
    <3> QED
      BY <1>1, <1>2, <1>7, <1>8, <1>9, <2>1, <3>1, ParseNone
  <2> QED
    BY <1>11, <2>2
<1>14. CASE OneAt(p, i).end # 0
  <2>1. i \in 1 .. l /\ OneAt(p, i) = parse_one(p, i)
    BY <1>1, <1>14 DEF OneAt
  <2>2. PICK e : e = parse_one(p, i).end /\ e # 0 /\ e = OneAt(p, i).end
    BY <1>14, <2>1
  <2>3. m + 1 \in 1 .. n
    <3>1. base + l <= st[n + 1]
      BY <1>1, <1>2, <1>4
    <3>2. s < base + l
      BY <1>10, <2>1
    <3>3. m = n => base + l <= s
      BY <1>8, <3>1
    <3>4. m # n
      BY <3>2, <3>3
    <3> QED
      BY <1>1, <3>4
  <2>4. PICK cmd : cmd = cmds[m + 1] /\ IsCommand(cmd)
    BY <1>1, <2>3, SMTT(30) DEF AreCommands
  <2>5. PICK f \in Nat : f = FrameLen(cmd) /\ st[m + 2] = s + f
    <3>1. FrameLen(cmd) \in Nat
      BY <2>4, CommandFacts
    <3>2. m + 1 \in 1 .. k /\ (m + 1) + 1 = m + 2
      BY <1>1, <2>3
    <3>3. st[(m + 1) + 1] = st[m + 1] + FrameLen(cmds[m + 1])
      BY <1>1, <1>2, <3>2, StartFacts
    <3> QED
      BY <1>8, <2>4, <3>1, <3>2, <3>3
  <2>6. Holds(p, i, cmd, torn)
    <3> SUFFICES ASSUME NEW a \in 1 .. f, i + a - 1 <= l
                 PROVE  Carries(p[i + a - 1], cmd, a, torn)
      BY <1>1, <2>5 DEF Holds
    <3>1. i + a - 1 \in 1 .. l /\ base + (i + a - 1) = s + a
      BY <1>10, <2>1
    <3>2. Fits(p[i + a - 1], cmds, s + a, torn)
      BY <1>1, <1>2, <1>4, <3>1 DEF FitsFrom
    <3>3. m + 1 \in 1 .. Len(cmds) /\ a \in 1 .. FrameLen(cmds[m + 1])
      BY <1>1, <2>3, <2>4, <2>5
    <3> QED
      BY <1>2, <1>8, <2>4, <3>2, <3>3 DEF Fits
  <2>7. /\ e = i + f - 1 /\ e <= l /\ e \in Nat
        /\ Right(build_command(p, i, e), cmd, torn)
        /\ FromHead(build_command(p, i, e), p)
    <3>1. torn => OneLine(cmd.payload)
      <4>1. m + 1 \in 1 .. Len(cmds)
        BY <1>1, <2>3
      <4> QED
        BY <2>4, <4>1 DEF Unbroken
    <3> QED
      BY <1>1, <2>1, <2>2, <2>4, <2>5, <2>6, <3>1, ParseOne, SMTT(30)
  <2>8. PICK h : h = g[e + 1] /\ Parsed(h, p, cmds, base, m + 1, n, torn)
    <3>1. /\ t - 1 \in Nat /\ n - (t - 1) = m + 1 /\ n - (t - 1) + 1 = m + 2
          /\ t - 1 <= n - d /\ ~ (t <= t - 1)
      BY <1>6, <1>7, <2>3
    <3>2. st[m + 2] <= base + l /\ st[m + 2] - base + 1 = e + 1
      <4>1. s + f <= base + l /\ (s + f) - base + 1 = e + 1
        BY <1>10, <2>7
      <4> QED
        BY <2>5, <4>1
    <3>3. t - 1 \notin T
      BY <1>6, <3>1
    <3>4. Parsed(g[e + 1], p, cmds, base, m + 1, n, torn)
      BY <3>1, <3>2, <3>3
    <3> QED
      BY <3>4
  <2>9. g[i] = [h EXCEPT !.commands = <<build_command(p, i, e)>> \o @]
    BY <1>12, <1>14, <2>2, <2>8 DEF ParseStep
  <2>10. Parsed(g[i], p, cmds, base, m, n, torn)
    <3>1. n \in Nat
      BY <1>1
    <3> QED
      BY <1>7, <2>4, <2>7, <2>8, <2>9, <3>1, ParseMore
  <2> QED
    BY <1>11, <2>10
<1> QED
  BY <1>13, <1>14

-----------------------------------------------------------------------------
(* The inductive invariant *)

\* A character that was torn has its second byte at the head of what is left.
ContOK(w, torn) ==
  \A i \in 1 .. Len(w) : w[i].k = "cont" => IF i = 1 THEN torn ELSE w[i - 1].k = "lead"

\* Of the n commands sent d are parsed; pend and w hold the frames of the others.
Stream(pend, w, cmds, d, n, torn) ==
  /\ IsSeq(pend) /\ IsSeq(w)
  /\ n \in 0 .. Len(cmds) /\ d \in 0 .. n
  /\ Start(cmds)[d + 1] + Len(pend) + Len(w) = Start(cmds)[n + 1]
  /\ FitsFrom(pend, cmds, Start(cmds)[d + 1], torn)
  /\ FitsFrom(w, cmds, Start(cmds)[d + 1] + Len(pend), FALSE)
  /\ ContOK(w, torn)

\* The responses to XREADs carry sequences.
Lists(s) == \A i \in 1 .. Len(s) : s[i].name = "XREAD" => IsSeq(s[i].entries)

\* The fields of a connection
Fields(k) ==
  k = [task |-> k.task, pending |-> k.pending, queue |-> k.queue,
       capture |-> k.capture, responses |-> k.responses, done |-> k.done,
       split |-> k.split, closed |-> k.closed, sent |-> k.sent,
       answered |-> k.answered, last |-> k.last, got |-> k.got]

\* and their types, as far as they matter
Shape(k) ==
  /\ Fields(k)
  /\ IsSeq(k.queue) /\ IsSeq(k.responses) /\ IsSeq(k.done) /\ IsSeq(k.got)
  /\ Lists(k.responses)

\* The commands of s are those of cmds after the first d.
Commands(s, cmds, d, torn) == \A i \in 1 .. Len(s) : Right(s[i], cmds[d + i], torn)

\* The task may still read or execute something.
Live(k) == k.task \in {"none", "open"}

\* The executed commands, the parsed ones and the stream make up what was sent.
Flow(k, w, cmds) ==
  /\ k.sent \in Nat /\ Len(k.done) <= k.sent
  /\ Commands(k.done, cmds, 0, k.split)
  /\ Commands(k.queue, cmds, Len(k.done), k.split)
  /\ IF Live(k)
     THEN Stream(k.pending, w, cmds, Len(k.done) + Len(k.queue), k.sent, k.split)
     ELSE k.queue = <<>> /\ k.capture = None

\* Responses are in the order of the commands, and an XREAD is the next to be
\* answered for as long as it is not.
Answers(k, cmds) ==
  /\ k.answered \in Nat
  /\ k.answered + Len(k.responses) = Len(k.done)
  /\ \A i \in 1 .. Len(k.responses) : k.responses[i].name = Variant(cmds[k.answered + i])
  /\ \A m \in k.answered + 1 .. k.sent : Variant(cmds[m]) = "XREAD" => m = k.answered + 1

\* entries are n at most and go on after last.
Continues(entries, last, n) ==
  /\ IsSeq(entries)
  /\ \A i \in 1 .. Len(entries) : entries[i] \in 1 .. n /\ entries[i] = entries[1] + i - 1
  /\ last # Dollar /\ Len(entries) > 0 => entries[1] = last + 1

\* The client has the entries from some first one up to last.
Has(got, last, n) ==
  /\ \A i \in 1 .. Len(got) : got[i] \in 1 .. n /\ got[i] = got[1] + i - 1
  /\ IF last = Dollar THEN Len(got) = 0 ELSE Len(got) > 0 /\ last = got[Len(got)]

\* The XREADs among the headers in s, and those among the commands in s, ask for
\* what comes after last; the answers among the responses in s begin there.
HeadsAsk(s, last) ==
  \A i \in 1 .. Len(s) : Begins(s[i]) /\ Variant(s[i].cmd) = "XREAD" => s[i].cmd.id = last

CommandsAsk(s, last) == \A i \in 1 .. Len(s) : s[i].name = "XREAD" => s[i].id = last

ResponsesTell(s, last, n) ==
  \A i \in 1 .. Len(s) : s[i].name = "XREAD" => Continues(s[i].entries, last, n)

\* What is on its way to the server asks for what comes after last, what is on
\* its way back tells it.
Asks(k, w, n) ==
  /\ HeadsAsk(k.pending, k.last)
  /\ HeadsAsk(w, k.last)
  /\ CommandsAsk(k.queue, k.last)
  /\ ResponsesTell(k.responses, k.last, n)

\* What is true of a connection k, of what is on its wire w and of the script
\* cmds of its client while the stream has n entries
ConnOK(k, w, cmds, n) ==
  /\ Shape(k)
  /\ Flow(k, w, cmds)
  /\ Live(k) /\ ~k.closed => Answers(k, cmds)
  /\ n < Base => Has(k.got, k.last, n)
  /\ n < Base /\ Live(k) /\ ~k.closed => Asks(k, w, n)

\* Nothing is known of a connection that was given a torn character among
\* contents with a CRLF, except its fields.
Sound(k, cmds) == ~k.split \/ Unbroken(cmds)

AnyConn(k, w, cmds, n) == Fields(k) /\ (Sound(k, cmds) => ConnOK(k, w, cmds, n))

\* The XADDs whose payload the harness was sent, and those on the way to it
Logged == {i \in 1 .. Len(log) : log[i].by = "XADD"}
Capturing == {c \in Clients : conn[c].capture # None}

\* For every one of them an entry was pushed before.
Observed ==
  /\ IsSeq(log)
  /\ IsFiniteSet(Capturing)
  /\ Cardinality(Logged) + Cardinality(Capturing) <= added

\* The inductive invariant
IInv ==
  /\ script \in Scripts
  /\ added \in Nat
  /\ conn = [c \in Clients |-> conn[c]]
  /\ wire = [c \in Clients |-> wire[c]]
  /\ Observed
  /\ \A c \in Clients : AnyConn(conn[c], wire[c], script[c], added)

-----------------------------------------------------------------------------
(* What happens to the stream of cells *)

\* A cell that is right if nothing may be torn is right if something may,
LEMMA CarriesTorn ==
  ASSUME NEW cell, NEW cmd, NEW a, NEW t, NEW u, t => u, Carries(cell, cmd, a, t)
  PROVE  Carries(cell, cmd, a, u)
BY DEF Carries

\* and so is a stream.
LEMMA FitsTorn ==
  ASSUME NEW cell, NEW cmds, NEW x, NEW t, NEW u, t => u, Fits(cell, cmds, x, t)
  PROVE  Fits(cell, cmds, x, u)
BY CarriesTorn DEF Fits

\* Half a character becomes a replacement character.
LEMMA FitsBad ==
  ASSUME NEW cell, NEW cmds, AreCommands(cmds), NEW x, Fits(cell, cmds, x, FALSE),
         cell.k \in {"lead", "cont"}, NEW new, new.k = "bad"
  PROVE  Fits(new, cmds, x, TRUE)
<1> SUFFICES ASSUME NEW m \in 1 .. Len(cmds), NEW a \in 1 .. FrameLen(cmds[m]),
                    x = Start(cmds)[m] + a
             PROVE  Carries(new, cmds[m], a, TRUE)
  BY DEF Fits
<1>1. Carries(cell, cmds[m], a, FALSE)
  BY DEF Fits
<1> QED
  BY <1>1 DEF Carries, IsHead

\* The next frame is sent.
LEMMA FrameFits ==
  ASSUME NEW cmds, AreCommands(cmds), NEW n \in 0 .. Len(cmds), n < Len(cmds), NEW x,
         NEW f, f = Frame([cmds[n + 1] EXCEPT !.id = x])
  PROVE  /\ IsFrame(f, cmds[n + 1], x)
         /\ FitsFrom(f, cmds, Start(cmds)[n + 1], FALSE)
<1>1. PICK l \in Nat : l = Len(cmds)
  BY DEF AreCommands
<1>2. PICK cmd : cmd = cmds[n + 1] /\ IsCommand(cmd)
  BY <1>1 DEF AreCommands
<1>3. PICK fl \in Nat : fl = FrameLen(cmd)
  BY <1>2, CommandFacts
<1>4. IsFrame(f, cmd, x)
  <2>1. f = Frame([cmd EXCEPT !.id = x])
    BY <1>2
  <2> QED
    BY <1>2, <2>1, FrameCells
<1>5. ASSUME NEW a \in 1 .. fl, NEW m \in 1 .. l, NEW b \in 1 .. FrameLen(cmds[m]),
             Start(cmds)[n + 1] + a = Start(cmds)[m] + b
      PROVE  Carries(f[a], cmds[m], b, FALSE)
  <2>1. PICK st : st = Start(cmds)
    OBVIOUS
  <2>2. PICK s \in Nat, r \in Nat : s = st[n + 1] /\ r = st[m]
    BY <1>1, <2>1, StartFacts
  <2>3. PICK g \in Nat : g = FrameLen(cmds[m])
    BY <1>1, CommandFacts DEF AreCommands
  <2>4. st[m + 1] = r + g /\ st[n + 1 + 1] = s + fl
    <3>1. n + 1 \in 1 .. Len(cmds) /\ m \in 1 .. Len(cmds)
      BY <1>1
    <3> QED
      BY <1>2, <1>3, <2>1, <2>2, <2>3, <3>1, StartFacts
  <2>5. CASE m = n + 1
    <3>1. a = b
      BY <1>5, <2>1, <2>2, <2>5
    <3> QED
      BY <1>2, <1>3, <1>4, <2>5, <3>1 DEF IsFrame
  <2>6. CASE m < n + 1
    <3>1. n + 1 \in m + 1 .. Len(cmds) + 1
      BY <1>1, <2>6
    <3>2. r + g <= s
      BY <1>1, <2>1, <2>2, <2>4, <3>1, StartGrows
    <3> QED
      BY <1>5, <2>1, <2>2, <2>3, <3>2
  <2>7. CASE m > n + 1
    <3>1. n + 1 \in 1 .. Len(cmds) /\ m \in (n + 1) + 1 .. Len(cmds) + 1
      BY <1>1, <2>7
    <3>2. s + fl <= r
      BY <1>1, <2>1, <2>2, <2>4, <3>1, StartGrows
    <3>3. s + a = r + b
      BY <1>5, <2>1, <2>2
    <3> QED
      BY <2>3, <3>2, <3>3
  <2>8. m = n + 1 \/ m < n + 1 \/ m > n + 1
    BY <1>1
  <2> QED
    BY <2>5, <2>6, <2>7, <2>8
<1>6. FitsFrom(f, cmds, Start(cmds)[n + 1], FALSE)
  <2>1. Len(f) = fl
    BY <1>3, <1>4 DEF IsFrame
  <2> QED
    BY <1>1, <1>5, <2>1 DEF FitsFrom, Fits
<1> QED
  BY <1>2, <1>4, <1>6

\* A client sends the next command: the stream grows by its frame.
LEMMA StreamSend ==
  ASSUME NEW cmds, AreCommands(cmds), NEW pend, NEW w, NEW d, NEW n, NEW torn,
         Stream(pend, w, cmds, d, n, torn), n < Len(cmds), NEW x,
         NEW f, f = Frame([cmds[n + 1] EXCEPT !.id = x])
  PROVE  Stream(pend, w \o f, cmds, d, n + 1, torn)
<1>1. PICK l \in Nat, lp \in Nat, lw \in Nat : l = Len(cmds) /\ lp = Len(pend) /\ lw = Len(w)
  BY SeqFacts DEF Stream, AreCommands
<1>2. n \in 0 .. l /\ d \in 0 .. n /\ n < l
  BY <1>1 DEF Stream
<1>3. PICK st : st = Start(cmds)
  OBVIOUS
<1>4. PICK base \in Nat, s \in Nat : base = st[d + 1] /\ s = st[n + 1]
  <2>1. d + 1 \in 1 .. Len(cmds) + 1 /\ n + 1 \in 1 .. Len(cmds) + 1
    BY <1>1, <1>2
  <2> QED
    BY <1>3, <2>1, StartFacts
<1>5. base + lp + lw = s
  BY <1>1, <1>3, <1>4 DEF Stream
<1>6. /\ IsSeq(f) /\ Len(f) = FrameLen(cmds[n + 1])
      /\ FitsFrom(f, cmds, s, FALSE)
      /\ \A a \in 1 .. Len(f) : f[a].k = "cont" => a > 1 /\ f[a - 1].k = "lead"
  <2>1. n \in 0 .. Len(cmds) /\ s = Start(cmds)[n + 1]
    BY <1>1, <1>2, <1>3, <1>4
  <2>2. IsFrame(f, cmds[n + 1], x) /\ FitsFrom(f, cmds, s, FALSE)
    BY <2>1, FrameFits
  <2> QED
    BY <2>2 DEF IsFrame
<1>7. PICK lf \in Nat : lf = Len(f)
  BY <1>6, SeqFacts
<1>8. st[(n + 1) + 1] = s + lf
  BY <1>1, <1>2, <1>3, <1>4, <1>6, <1>7, StartFacts, SMTT(30)
<1>9. PICK v : v = w \o f /\ Joined(v, w, f)
  BY <1>6, ConcatIsSeq DEF Stream
<1>10. /\ IsSeq(v) /\ Len(v) = lw + lf
       /\ \A i \in 1 .. lw : v[i] = w[i]
       /\ \A i \in 1 .. lf : v[lw + i] = f[i]
  BY <1>1, <1>7, <1>9 DEF Joined
<1>11. base + lp + (lw + lf) = st[(n + 1) + 1]
  BY <1>5, <1>8
<1>12. FitsFrom(w, cmds, base + lp, FALSE) /\ ContOK(w, torn)
  BY <1>1, <1>3, <1>4 DEF Stream
<1>13. ASSUME NEW i \in 1 .. lw + lf
       PROVE  /\ Fits(v[i], cmds, base + lp + i, FALSE)
              /\ v[i].k = "cont" => IF i = 1 THEN torn ELSE v[i - 1].k = "lead"
  <2>1. CASE i <= lw
    <3>1. i \in 1 .. lw /\ (i # 1 => i - 1 \in 1 .. lw)
      BY <2>1
    <3>2. v[i] = w[i] /\ (i # 1 => v[i - 1] = w[i - 1])
      BY <1>10, <3>1
    <3> QED
      BY <1>1, <1>12, <3>1, <3>2 DEF FitsFrom, ContOK
  <2>2. CASE i > lw
    <3>1. PICK a \in 1 .. lf : i = lw + a /\ base + lp + i = s + a
      <4>1. i - lw \in 1 .. lf /\ i = lw + (i - lw) /\ base + lp + i = s + (i - lw)
        BY <1>5, <2>2
      <4> QED
        BY <4>1
    <3>2. v[i] = f[a]
      BY <1>10, <3>1
    <3>3. Fits(f[a], cmds, s + a, FALSE)
      BY <1>6, <1>7 DEF FitsFrom
    <3>4. ASSUME v[i].k = "cont"
          PROVE  i # 1 /\ v[i - 1].k = "lead"
      <4>1. a > 1 /\ f[a - 1].k = "lead"
        BY <1>6, <1>7, <3>2, <3>4
      <4>2. a - 1 \in 1 .. lf /\ i - 1 = lw + (a - 1) /\ i # 1
        <5>1. a > 1 /\ i = lw + a
          BY <3>1, <4>1
        <5> QED
          BY <5>1
      <4>3. v[lw + (a - 1)] = f[a - 1]
        BY <1>10, <4>2
      <4> QED
        BY <4>1, <4>2, <4>3
    <3> QED
      BY <3>1, <3>2, <3>3, <3>4
  <2>3. i <= lw \/ i > lw
    OBVIOUS
  <2> QED
    BY <2>1, <2>2, <2>3, Zenon
<1>14. FitsFrom(v, cmds, base + lp, FALSE) /\ ContOK(v, torn)
  BY <1>10, <1>13 DEF FitsFrom, ContOK
<1>15. n + 1 \in 0 .. Len(cmds) /\ d \in 0 .. n + 1
  BY <1>1, <1>2
<1>16. IsSeq(pend) /\ FitsFrom(pend, cmds, base, torn)
  BY <1>3, <1>4 DEF Stream
<1>17. Stream(pend, v, cmds, d, n + 1, torn)
  BY <1>1, <1>3, <1>4, <1>10, <1>11, <1>14, <1>15, <1>16 DEF Stream
<1> QED
  BY <1>9, <1>17

\* A chunk of i cells as it is decoded
Decoded(s, w, i) ==
  /\ IsSeq(s) /\ Len(s) = i
  /\ \A j \in 1 .. i :
       \/ s[j] = w[j]
       \/ s[j].k = "bad" /\ ((w[j].k = "lead" /\ j = i) \/ (w[j].k = "cont" /\ j = 1))

\* Decoding a chunk keeps every cell, but for half a character at either end.
LEMMA DecodeFacts ==
  ASSUME NEW w, IsSeq(w), NEW i \in 1 .. Len(w)
  PROVE  Decoded(Decode(SubSeq(w, 1, i)), w, i)
<1>1. PICK l \in Nat : l = Len(w)
  BY SeqFacts
<1>2. PICK c : c = SubSeq(w, 0 + 1, i) /\ Sliced(c, w, 0, i)
  <2>1. 0 \in Nat /\ i \in Nat /\ 0 <= i /\ i <= Len(w)
    BY <1>1
  <2> QED
    BY <2>1, SliceIsSeq
<1>3. Len(c) = i /\ \A j \in 1 .. i : c[j] = w[j]
  <2>1. i - 0 = i /\ \A j \in 1 .. i : 0 + j = j
    BY <1>1
  <2> QED
    BY <1>2, <2>1 DEF Sliced
<1>4. PICK s : s = Decode(c)
  OBVIOUS
<1>5. s = [j \in 1 .. i |-> IF \/ c[j].k = "lead" /\ j = i
                               \/ c[j].k = "cont" /\ j = 1
                            THEN [k |-> "bad"] ELSE c[j]]
  BY <1>3, <1>4 DEF Decode
<1>6. s = [j \in 1 .. i |-> s[j]]
  BY <1>5
<1>7. IsSeq(s) /\ Len(s) = i
  BY <1>1, <1>6, LiteralIsSeq
<1>8. ASSUME NEW j \in 1 .. i
      PROVE  \/ s[j] = w[j]
             \/ s[j].k = "bad" /\ ((w[j].k = "lead" /\ j = i) \/ (w[j].k = "cont" /\ j = 1))
  <2>1. c[j] = w[j]
    BY <1>3
  <2>2. s[j] = IF \/ w[j].k = "lead" /\ j = i
                  \/ w[j].k = "cont" /\ j = 1
               THEN [k |-> "bad"] ELSE w[j]
    BY <1>5, <2>1
  <2>3. CASE (w[j].k = "lead" /\ j = i) \/ (w[j].k = "cont" /\ j = 1)
    <3>1. s[j] = [k |-> "bad"]
      BY <2>2, <2>3
    <3>2. s[j].k = "bad"
      BY <3>1
    <3> QED
      BY <2>3, <3>2
  <2>4. CASE ~ ((w[j].k = "lead" /\ j = i) \/ (w[j].k = "cont" /\ j = 1))
    <3>1. s[j] = w[j]
      BY <2>2, <2>4
    <3> QED
      BY <3>1
  <2> QED
    BY <2>3, <2>4
<1>9. Decoded(s, w, i)
  BY <1>7, <1>8 DEF Decoded
<1>10. c = SubSeq(w, 1, i)
  BY <1>2
<1> QED
  BY <1>4, <1>9, <1>10

\* What read_stream has after it decoded a chunk still fits the stream.
LEMMA ReceivedFits ==
  ASSUME NEW cmds, AreCommands(cmds), NEW pend, NEW w, NEW d, NEW n, NEW torn,
         Stream(pend, w, cmds, d, n, torn), NEW i \in 1 .. Len(w),
         NEW now, now <=> torn \/ w[i].k = "lead",
         NEW p, NEW s, Decoded(s, w, i), Joined(p, pend, s)
  PROVE  /\ IsSeq(p) /\ Len(p) = Len(pend) + i
         /\ FitsFrom(p, cmds, Start(cmds)[d + 1], now)
<1>1. PICK lp \in Nat, lw \in Nat : lp = Len(pend) /\ lw = Len(w)
  BY SeqFacts DEF Stream
<1>2. /\ IsSeq(p) /\ Len(p) = lp + i
      /\ \A j \in 1 .. lp : p[j] = pend[j]
      /\ \A j \in 1 .. i : p[lp + j] = s[j]
  BY <1>1 DEF Joined, Decoded
<1>3. PICK base \in Nat : base = Start(cmds)[d + 1]
  <2>1. PICK l \in Nat : l = Len(cmds)
    BY DEF AreCommands
  <2>2. d + 1 \in 1 .. Len(cmds) + 1
    BY <2>1 DEF Stream
  <2> QED
    BY <2>2, StartFacts
<1>4. ASSUME NEW j \in 1 .. lp + i
      PROVE  Fits(p[j], cmds, base + j, now)
  <2>1. CASE j <= lp
    <3>1. Fits(pend[j], cmds, base + j, torn)
      <4>1. j \in 1 .. Len(pend)
        BY <1>1, <2>1
      <4>2. FitsFrom(pend, cmds, base, torn)
        BY <1>3 DEF Stream
      <4> QED
        BY <4>1, <4>2 DEF FitsFrom
    <3>2. p[j] = pend[j]
      BY <1>2, <2>1
    <3> QED
      BY <3>1, <3>2, FitsTorn
  <2>2. CASE j > lp
    <3>1. PICK a \in 1 .. i : j = lp + a /\ base + j = (base + lp) + a /\ a \in 1 .. lw
      <4>1. j - lp \in 1 .. i /\ j = lp + (j - lp) /\ base + j = (base + lp) + (j - lp)
            /\ j - lp \in 1 .. lw
        BY <1>1, <2>2
      <4> QED
        BY <4>1
    <3>2. p[j] = s[a]
      BY <1>2, <3>1
    <3>3. Fits(w[a], cmds, base + j, FALSE)
      BY <1>1, <1>3, <3>1 DEF Stream, FitsFrom
    <3>4. CASE s[a] = w[a]
      <4>1. FALSE => now
        OBVIOUS
      <4> QED
        BY <3>2, <3>3, <3>4, <4>1, FitsTorn
    <3>5. CASE s[a] # w[a]
      <4>1. s[a].k = "bad" /\ ((w[a].k = "lead" /\ a = i) \/ (w[a].k = "cont" /\ a = 1))
        BY <3>5 DEF Decoded
      <4>2. w[a].k \in {"lead", "cont"}
        BY <4>1
      <4>3. Fits(s[a], cmds, base + j, TRUE)
        BY <3>3, <4>1, <4>2, FitsBad
      <4>4. w[a].k = "cont" /\ a = 1 => torn
        BY <1>1, <3>1 DEF Stream, ContOK
      <4>5. TRUE => now
        BY <4>1, <4>4
      <4> QED
        BY <3>2, <4>3, <4>5, FitsTorn
    <3> QED
      BY <3>4, <3>5
  <2>3. j <= lp \/ j > lp
    OBVIOUS
  <2> QED
    BY <2>1, <2>2, <2>3
<1>5. FitsFrom(p, cmds, base, now)
  BY <1>2, <1>4 DEF FitsFrom
<1> QED
  BY <1>1, <1>2, <1>3, <1>5

\* What of the stream is left when a chunk was read and parsed
LEMMA StreamRead ==
  ASSUME NEW cmds, AreCommands(cmds), NEW pend, NEW w, NEW d, NEW n, NEW torn,
         Stream(pend, w, cmds, d, n, torn), NEW i \in 1 .. Len(w),
         NEW now, now <=> torn \/ w[i].k = "lead",
         NEW p, NEW s, Decoded(s, w, i), Joined(p, pend, s),
         NEW v, Sliced(v, w, i, Len(w)),
         NEW r, Parsed(r, p, cmds, Start(cmds)[d + 1], d, n, now)
  PROVE  Stream(r.rest, v, cmds, d + Len(r.commands), n, now)
<1>1. PICK lp \in Nat, lw \in Nat : lp = Len(pend) /\ lw = Len(w)
  BY SeqFacts DEF Stream
<1>2. PICK q \in Nat, l \in Nat : q = Len(r.commands) /\ l = Len(cmds)
  BY SeqFacts DEF Parsed, AreCommands
<1>3. n \in 0 .. l /\ d \in 0 .. n /\ d + q <= n
  BY <1>2 DEF Stream, Parsed
<1>4. PICK st : st = Start(cmds)
  OBVIOUS
<1>5. PICK base \in Nat, b \in Nat, e \in Nat :
        base = st[d + 1] /\ b = st[d + q + 1] /\ e = st[n + 1]
  <2>1. /\ d + 1 \in 1 .. Len(cmds) + 1 /\ d + q + 1 \in 1 .. Len(cmds) + 1
        /\ n + 1 \in 1 .. Len(cmds) + 1
    BY <1>2, <1>3
  <2> QED
    BY <1>4, <2>1, StartFacts
<1>6. base + lp + lw = e
  BY <1>1, <1>4, <1>5 DEF Stream
<1>7. IsSeq(p) /\ Len(p) = lp + i /\ FitsFrom(p, cmds, base, now)
  BY <1>1, <1>4, <1>5, ReceivedFits
<1>8. base <= b /\ b <= base + (lp + i) /\ r.rest = SubSeq(p, (b - base) + 1, lp + i)
  BY <1>2, <1>4, <1>5, <1>7 DEF Parsed
<1>9. PICK m \in Nat : m = b - base /\ m <= lp + i /\ base + m = b
  BY <1>8
<1>10. Sliced(r.rest, p, m, lp + i)
  <2>1. lp + i \in Nat
    BY <1>1
  <2> QED
    BY <1>7, <1>8, <1>9, <2>1, SliceIsSeq
<1>11. /\ IsSeq(r.rest) /\ Len(r.rest) = (lp + i) - m
       /\ \A j \in 1 .. (lp + i) - m : r.rest[j] = p[m + j]
  BY <1>10 DEF Sliced
<1>12. /\ IsSeq(v) /\ Len(v) = lw - i
       /\ \A j \in 1 .. lw - i : v[j] = w[i + j]
  BY <1>1 DEF Sliced
<1>13. b + ((lp + i) - m) + (lw - i) = e /\ b + ((lp + i) - m) = base + lp + i
  BY <1>1, <1>6, <1>9
<1>14. FitsFrom(r.rest, cmds, b, now)
  <2> SUFFICES ASSUME NEW j \in 1 .. (lp + i) - m
               PROVE  Fits(r.rest[j], cmds, b + j, now)
    BY <1>11 DEF FitsFrom
  <2>1. m + j \in 1 .. lp + i /\ base + (m + j) = b + j
    BY <1>1, <1>9
  <2>2. Fits(p[m + j], cmds, base + (m + j), now)
    BY <1>7, <2>1 DEF FitsFrom
  <2> QED
    BY <1>11, <2>1, <2>2
<1>15. FitsFrom(v, cmds, b + ((lp + i) - m), FALSE)
  <2> SUFFICES ASSUME NEW j \in 1 .. lw - i
               PROVE  Fits(v[j], cmds, (base + lp + i) + j, FALSE)
    BY <1>12, <1>13 DEF FitsFrom
  <2>1. i + j \in 1 .. lw /\ (base + lp) + (i + j) = (base + lp + i) + j
    BY <1>1
  <2>2. Fits(w[i + j], cmds, (base + lp) + (i + j), FALSE)
    BY <1>1, <1>4, <1>5, <2>1 DEF Stream, FitsFrom
  <2> QED
    BY <1>12, <2>1, <2>2
<1>16. ContOK(v, now)
  <2> SUFFICES ASSUME NEW j \in 1 .. lw - i, v[j].k = "cont"
               PROVE  IF j = 1 THEN now ELSE v[j - 1].k = "lead"
    BY <1>12 DEF ContOK
  <2>1. i + j \in 1 .. lw /\ i + j # 1 /\ w[i + j].k = "cont"
    BY <1>1, <1>12
  <2>2. w[(i + j) - 1].k = "lead"
    BY <1>1, <2>1 DEF Stream, ContOK
  <2>3. CASE j = 1
    <3>1. (i + j) - 1 = i
      BY <2>3
    <3> QED
      BY <2>2, <2>3, <3>1
  <2>4. CASE j # 1
    <3>1. j - 1 \in 1 .. lw - i /\ (i + j) - 1 = i + (j - 1)
      BY <1>1, <2>4
    <3> QED
      BY <1>12, <2>2, <2>4, <3>1
  <2> QED
    BY <2>3, <2>4, Zenon
<1>17. n \in 0 .. Len(cmds) /\ d + q \in 0 .. n
  BY <1>2, <1>3
<1> QED
  BY <1>2, <1>4, <1>5, <1>11, <1>12, <1>13, <1>14, <1>15, <1>16, <1>17 DEF Stream

-----------------------------------------------------------------------------
(* What the actions do to a connection *)

\* Nothing that was true of a stream of n entries is false when there are more.
LEMMA ConnAdded ==
  ASSUME NEW k, NEW w, NEW cmds, NEW n \in Nat, ConnOK(k, w, cmds, n),
         NEW m \in Nat, n <= m
  PROVE  ConnOK(k, w, cmds, m)
<1> SUFFICES ASSUME m < Base, n < Base
             PROVE  /\ Has(k.got, k.last, m)
                    /\ Live(k) /\ ~k.closed => Asks(k, w, m)
  BY MockAssumption DEF ConnOK
<1>1. \A x : x \in 1 .. n => x \in 1 .. m
  OBVIOUS
<1>2. Has(k.got, k.last, m)
  BY <1>1 DEF ConnOK, Has
<1>3. ASSUME Live(k), ~k.closed
      PROVE  Asks(k, w, m)
  <2>1. Asks(k, w, n)
    BY <1>3 DEF ConnOK
  <2>2. ResponsesTell(k.responses, k.last, m)
    BY <1>1, <2>1 DEF Asks, ResponsesTell, Continues
  <2> QED
    BY <2>1, <2>2 DEF Asks
<1> QED
  BY <1>2, <1>3

\* The listener accepts the connection.
LEMMA ConnAccept ==
  ASSUME NEW k, NEW w, NEW cmds, NEW n, ConnOK(k, w, cmds, n), Live(k),
         NEW r, r = [k EXCEPT !.task = "open"]
  PROVE  ConnOK(r, w, cmds, n)
<1>1. r = [task |-> "open", pending |-> k.pending, queue |-> k.queue,
           capture |-> k.capture, responses |-> k.responses, done |-> k.done,
           split |-> k.split, closed |-> k.closed, sent |-> k.sent,
           answered |-> k.answered, last |-> k.last, got |-> k.got]
  BY DEF ConnOK, Shape, Fields
<1>2. Shape(r) /\ Live(r)
  BY <1>1 DEF ConnOK, Shape, Fields, Live
<1>3. /\ r.pending = k.pending /\ r.queue = k.queue /\ r.responses = k.responses
      /\ r.done = k.done /\ r.split = k.split /\ r.closed = k.closed /\ r.sent = k.sent
      /\ r.answered = k.answered /\ r.last = k.last /\ r.got = k.got
  BY <1>1
<1>4. Flow(r, w, cmds)
  BY <1>2, <1>3 DEF ConnOK, Flow
<1>5. Answers(k, cmds) => Answers(r, cmds)
  BY <1>3 DEF Answers
<1>6. Asks(k, w, n) => Asks(r, w, n)
  BY <1>3 DEF Asks
<1> QED
  BY <1>2, <1>3, <1>4, <1>5, <1>6 DEF ConnOK

\* The client closes it.
LEMMA ConnHangUp ==
  ASSUME NEW k, NEW w, NEW cmds, NEW n, ConnOK(k, w, cmds, n),
         NEW r, r = [k EXCEPT !.closed = TRUE]
  PROVE  ConnOK(r, w, cmds, n)
<1>1. r = [task |-> k.task, pending |-> k.pending, queue |-> k.queue,
           capture |-> k.capture, responses |-> k.responses, done |-> k.done,
           split |-> k.split, closed |-> TRUE, sent |-> k.sent,
           answered |-> k.answered, last |-> k.last, got |-> k.got]
  BY DEF ConnOK, Shape, Fields
<1>2. Shape(r)
  BY <1>1 DEF ConnOK, Shape, Fields
<1>3. /\ r.pending = k.pending /\ r.queue = k.queue /\ r.capture = k.capture
      /\ r.done = k.done /\ r.split = k.split /\ r.sent = k.sent
      /\ r.last = k.last /\ r.got = k.got /\ (Live(r) <=> Live(k))
  BY <1>1 DEF Live
<1>4. Flow(r, w, cmds)
  BY <1>3 DEF ConnOK, Flow
<1>5. r.closed
  BY <1>1
<1> QED
  BY <1>2, <1>3, <1>4, <1>5 DEF ConnOK

\* The task is over.
LEMMA ConnEnd ==
  ASSUME NEW k, NEW w, NEW cmds, NEW n, ConnOK(k, w, cmds, n),
         k.queue = <<>>, k.capture = None, NEW rs, IsSeq(rs), Lists(rs),
         NEW r, r = [k EXCEPT !.task = "ended", !.responses = rs]
  PROVE  ConnOK(r, w, cmds, n)
<1>1. r = [task |-> "ended", pending |-> k.pending, queue |-> k.queue,
           capture |-> k.capture, responses |-> rs, done |-> k.done,
           split |-> k.split, closed |-> k.closed, sent |-> k.sent,
           answered |-> k.answered, last |-> k.last, got |-> k.got]
  BY DEF ConnOK, Shape, Fields
<1>2. Shape(r) /\ ~Live(r)
  BY <1>1 DEF ConnOK, Shape, Fields, Live
<1>3. /\ r.queue = k.queue /\ r.capture = k.capture
      /\ r.done = k.done /\ r.split = k.split /\ r.sent = k.sent
      /\ r.last = k.last /\ r.got = k.got
  BY <1>1
<1>4. Flow(r, w, cmds)
  BY <1>2, <1>3 DEF ConnOK, Flow
<1> QED
  BY <1>2, <1>3, <1>4 DEF ConnOK

\* The payload of an XADD is sent to the harness.
LEMMA ConnFinish ==
  ASSUME NEW k, NEW w, NEW cmds, NEW n, ConnOK(k, w, cmds, n),
         NEW r, r = [k EXCEPT !.capture = None]
  PROVE  ConnOK(r, w, cmds, n)
<1>1. r = [task |-> k.task, pending |-> k.pending, queue |-> k.queue,
           capture |-> None, responses |-> k.responses, done |-> k.done,
           split |-> k.split, closed |-> k.closed, sent |-> k.sent,
           answered |-> k.answered, last |-> k.last, got |-> k.got]
  BY DEF ConnOK, Shape, Fields
<1>2. Shape(r)
  BY <1>1 DEF ConnOK, Shape, Fields
<1>3. /\ r.pending = k.pending /\ r.queue = k.queue /\ r.responses = k.responses
      /\ r.done = k.done /\ r.split = k.split /\ r.closed = k.closed /\ r.sent = k.sent
      /\ r.answered = k.answered /\ r.last = k.last /\ r.got = k.got
      /\ r.capture = None /\ (Live(r) <=> Live(k))
  BY <1>1 DEF Live
<1>4. Flow(r, w, cmds)
  BY <1>3 DEF ConnOK, Flow
<1>5. Answers(k, cmds) => Answers(r, cmds)
  BY <1>3 DEF Answers
<1>6. Asks(k, w, n) => Asks(r, w, n)
  BY <1>3 DEF Asks
<1> QED
  BY <1>2, <1>3, <1>4, <1>5, <1>6 DEF ConnOK

\* Commands that are right if nothing may be torn are right if something may.
LEMMA CommandsTorn ==
  ASSUME NEW s, NEW cmds, NEW d, NEW t, NEW u, t => u, Commands(s, cmds, d, t)
  PROVE  Commands(s, cmds, d, u)
BY DEF Commands, Right

\* The headers in two joined parts of the stream
LEMMA HeadsJoined ==
  ASSUME NEW s, IsSeq(s), NEW t, IsSeq(t), NEW r, Joined(r, s, t), NEW x,
         HeadsAsk(s, x), HeadsAsk(t, x)
  PROVE  HeadsAsk(r, x)
<1>1. PICK m \in Nat, n \in Nat : m = Len(s) /\ n = Len(t)
  BY SeqFacts
<1> SUFFICES ASSUME NEW i \in 1 .. m + n, Begins(r[i]), Variant(r[i].cmd) = "XREAD"
             PROVE  r[i].cmd.id = x
  BY <1>1 DEF HeadsAsk, Joined
<1>2. CASE i <= m
  <2>1. i \in 1 .. Len(s)
    BY <1>1, <1>2
  <2>2. r[i] = s[i]
    BY <2>1 DEF Joined
  <2> QED
    BY <2>1, <2>2 DEF HeadsAsk
<1>3. CASE i > m
  <2>1. PICK j \in 1 .. Len(t) : i = Len(s) + j
    <3>1. i - m \in 1 .. n /\ i = m + (i - m)
      BY <1>3
    <3> QED
      BY <1>1, <3>1
  <2>2. r[i] = t[j]
    BY <2>1 DEF Joined
  <2> QED
    BY <2>1, <2>2 DEF HeadsAsk
<1> QED
  BY <1>1, <1>2, <1>3

\* The client sends the next command.
LEMMA ConnSend ==
  ASSUME NEW k, NEW w, NEW cmds, AreCommands(cmds), NEW n, ConnOK(k, w, cmds, n),
         Live(k), ~k.closed, k.sent < Len(cmds),
         Variant(cmds[k.sent + 1]) = "XREAD" => k.answered = k.sent,
         NEW f, f = Frame([cmds[k.sent + 1] EXCEPT !.id = k.last]),
         NEW r, r = [k EXCEPT !.sent = @ + 1]
  PROVE  ConnOK(r, w \o f, cmds, n)
<1>1. r = [task |-> k.task, pending |-> k.pending, queue |-> k.queue,
           capture |-> k.capture, responses |-> k.responses, done |-> k.done,
           split |-> k.split, closed |-> k.closed, sent |-> k.sent + 1,
           answered |-> k.answered, last |-> k.last, got |-> k.got]
  BY DEF ConnOK, Shape, Fields
<1>2. Shape(r)
  BY <1>1 DEF ConnOK, Shape, Fields
<1>3. /\ r.pending = k.pending /\ r.queue = k.queue /\ r.responses = k.responses
      /\ r.done = k.done /\ r.split = k.split /\ r.closed = k.closed
      /\ r.answered = k.answered /\ r.last = k.last /\ r.got = k.got
      /\ r.sent = k.sent + 1 /\ (Live(r) <=> Live(k))
  BY <1>1 DEF Live
<1>4. PICK d : d = Len(k.done) + Len(k.queue)
  OBVIOUS
<1>5. PICK l \in Nat, ld \in Nat : l = Len(cmds) /\ ld = Len(k.done)
  BY SeqFacts DEF AreCommands, ConnOK, Shape, Fields
<1>6. Stream(k.pending, w, cmds, d, k.sent, k.split) /\ Len(k.done) <= k.sent
  BY <1>4 DEF ConnOK, Flow
<1>7. k.sent \in 0 .. l
  BY <1>5, <1>6 DEF Stream
<1>8. Stream(k.pending, w \o f, cmds, d, k.sent + 1, k.split)
  BY <1>6, StreamSend
<1>9. Flow(r, w \o f, cmds)
  <2>1. r.sent \in Nat /\ Len(r.done) <= r.sent
    BY <1>3, <1>5, <1>6, <1>7
  <2>2. Commands(r.done, cmds, 0, r.split) /\ Commands(r.queue, cmds, Len(r.done), r.split)
    BY <1>3 DEF ConnOK, Flow
  <2>3. Stream(r.pending, w \o f, cmds, Len(r.done) + Len(r.queue), r.sent, r.split)
    BY <1>3, <1>4, <1>8
  <2> QED
    BY <1>3, <2>1, <2>2, <2>3 DEF Flow
<1>10. Answers(r, cmds)
  <2>1. Answers(k, cmds)
    BY DEF ConnOK
  <2>2. PICK a \in Nat : a = k.answered
    BY <2>1 DEF Answers
  <2>3. ASSUME NEW m \in a + 1 .. k.sent + 1, Variant(cmds[m]) = "XREAD"
        PROVE  m = a + 1
    <3>1. CASE m = k.sent + 1
      BY <2>2, <2>3, <3>1
    <3>2. CASE m # k.sent + 1
      <4>1. m \in a + 1 .. k.sent
        BY <1>7, <3>2
      <4> QED
        BY <2>1, <2>2, <2>3, <4>1 DEF Answers
    <3> QED
      BY <3>1, <3>2
  <2> QED
    BY <1>3, <2>1, <2>2, <2>3 DEF Answers
<1>11. ASSUME Asks(k, w, n)
       PROVE  Asks(r, w \o f, n)
  <2>1. k.sent \in 0 .. Len(cmds)
    BY <1>5, <1>7
  <2>2. IsFrame(f, cmds[k.sent + 1], k.last)
    BY <2>1, FrameFits
  <2>3. IsSeq(f) /\ HeadsAsk(f, k.last)
    <3>1. IsCommand(cmds[k.sent + 1])
      BY <1>5, <1>7 DEF AreCommands
    <3>2. [cmds[k.sent + 1] EXCEPT !.id = k.last].id = k.last
      BY <3>1 DEF IsCommand
    <3> QED
      BY <2>2, <3>2 DEF IsFrame, HeadsAsk
  <2>4. IsSeq(w) /\ HeadsAsk(w, k.last)
    BY <1>6, <1>11 DEF Stream, Asks
  <2>5. HeadsAsk(w \o f, k.last)
    BY <2>3, <2>4, ConcatIsSeq, HeadsJoined
  <2> QED
    BY <1>3, <1>11, <2>5 DEF Asks
<1> QED
  BY <1>2, <1>3, <1>9, <1>10, <1>11 DEF ConnOK

\* Where read_stream finds XREADs, their ids are those the client sent.
LEMMA ReadAsks ==
  ASSUME NEW pend, IsSeq(pend), NEW w, NEW x, HeadsAsk(pend, x), HeadsAsk(w, x),
         NEW i \in 1 .. Len(w), Len(w) \in Nat,
         NEW s, Decoded(s, w, i), NEW p, Joined(p, pend, s),
         NEW v, Sliced(v, w, i, Len(w)),
         NEW r, IsSeq(r.commands), \A j \in 1 .. Len(r.commands) : FromHead(r.commands[j], p),
         NEW m \in Nat, m <= Len(p), Sliced(r.rest, p, m, Len(p))
  PROVE  /\ CommandsAsk(r.commands, x)
         /\ HeadsAsk(r.rest, x)
         /\ HeadsAsk(v, x)
<1>1. HeadsAsk(s, x)
  <2>1. \A j \in 1 .. i : s[j] = w[j] \/ ~Begins(s[j])
    BY DEF Decoded, Begins
  <2>2. Len(s) = i /\ \A j \in 1 .. i : j \in 1 .. Len(w)
    BY DEF Decoded
  <2> QED
    BY <2>1, <2>2 DEF HeadsAsk
<1>2. HeadsAsk(p, x)
  BY <1>1, HeadsJoined DEF Decoded
<1>3. CommandsAsk(r.commands, x)
  BY <1>2 DEF CommandsAsk, FromHead, HeadsAsk
<1>4. PICK l \in Nat : l = Len(p)
  BY SeqFacts DEF Joined
<1>5. HeadsAsk(r.rest, x)
  <2> SUFFICES ASSUME NEW j \in 1 .. l - m, Begins(r.rest[j]), Variant(r.rest[j].cmd) = "XREAD"
               PROVE  r.rest[j].cmd.id = x
    BY <1>4 DEF Sliced, HeadsAsk
  <2>1. m + j \in 1 .. l /\ r.rest[j] = p[m + j]
    BY <1>4 DEF Sliced
  <2> QED
    BY <1>2, <1>4, <2>1 DEF HeadsAsk
<1>6. HeadsAsk(v, x)
  <2>1. PICK lw \in Nat : lw = Len(w)
    OBVIOUS
  <2> SUFFICES ASSUME NEW j \in 1 .. lw - i, Begins(v[j]), Variant(v[j].cmd) = "XREAD"
               PROVE  v[j].cmd.id = x
    BY <2>1 DEF Sliced, HeadsAsk
  <2>2. i + j \in 1 .. lw /\ v[j] = w[i + j]
    BY <2>1 DEF Sliced
  <2> QED
    BY <2>1, <2>2 DEF HeadsAsk
<1> QED
  BY <1>3, <1>5, <1>6

\* What the parser leaves is the end of what it was given.
LEMMA RestSliced ==
  ASSUME NEW p, IsSeq(p), NEW cmds, AreCommands(cmds), NEW torn,
         NEW n \in 0 .. Len(cmds), NEW d \in 0 .. n,
         NEW g, Parsed(g, p, cmds, Start(cmds)[d + 1], d, n, torn)
  PROVE  \E m \in Nat : m <= Len(p) /\ Sliced(g.rest, p, m, Len(p))
<1>1. PICK lp \in Nat, l \in Nat, lq \in Nat :
        lp = Len(p) /\ l = Len(cmds) /\ lq = Len(g.commands)
  BY SeqFacts DEF AreCommands, Parsed
<1>2. d + lq <= n
  BY <1>1 DEF Parsed
<1>3. d + 1 \in 1 .. Len(cmds) + 1 /\ d + lq + 1 \in 1 .. Len(cmds) + 1
  <2>1. d \in 0 .. n /\ n \in 0 .. l
    BY <1>1
  <2> QED
    BY <1>1, <1>2, <2>1
<1>4. PICK b \in Nat, e \in Nat : b = Start(cmds)[d + 1] /\ e = Start(cmds)[d + lq + 1]
  BY <1>3, StartFacts
<1>5. b <= e /\ e <= b + lp /\ g.rest = SubSeq(p, (e - b) + 1, lp)
  BY <1>1, <1>4 DEF Parsed
<1>6. PICK m \in Nat : m = e - b /\ m <= lp
  BY <1>5
<1>7. Sliced(g.rest, p, m, lp)
  BY <1>1, <1>5, <1>6, SliceIsSeq
<1> QED
  BY <1>1, <1>6, <1>7

\* Where a panic of the parser leaves the queue and the task
Outcome(g, k, q, t) ==
  /\ g.panics => t = "panicked" /\ q = <<>>
  /\ ~g.panics => t = k.task /\ q = g.commands

\* now says whether a character was torn, the last one of this chunk included.
Tears(now, k, w, i) == now <=> k.split \/ w[i].k = "lead"

\* read_stream reads a chunk and parses what it has.
LEMMA ConnRead ==
  ASSUME NEW k, NEW w, NEW cmds, AreCommands(cmds), NEW n, ConnOK(k, w, cmds, n),
         Live(k), k.queue = <<>>, k.responses = <<>>, k.capture = None,
         NEW i \in 1 .. Len(w),
         NEW s, Decoded(s, w, i), NEW p, Joined(p, k.pending, s),
         NEW v, Sliced(v, w, i, Len(w)), NEW now, Tears(now, k, w, i),
         now => Unbroken(cmds),
         NEW g, g = parse_resp_commands(p), NEW q, NEW t, Outcome(g, k, q, t),
         NEW r, r = [k EXCEPT !.pending = g.rest, !.queue = q, !.task = t, !.split = now]
  PROVE  ConnOK(r, v, cmds, n)
<1>1. /\ g.panics => t = "panicked" /\ q = <<>>
      /\ ~g.panics => t = k.task /\ q = g.commands
  BY DEF Outcome
<1>2. now <=> k.split \/ w[i].k = "lead"
  BY DEF Tears
<1>3. r = [task |-> t, pending |-> g.rest, queue |-> q,
           capture |-> k.capture, responses |-> k.responses, done |-> k.done,
           split |-> now, closed |-> k.closed, sent |-> k.sent,
           answered |-> k.answered, last |-> k.last, got |-> k.got]
  BY DEF ConnOK, Shape, Fields
<1>4. PICK d \in Nat, lw \in Nat : d = Len(k.done) /\ lw = Len(w)
  BY SeqFacts DEF ConnOK, Shape, Fields, Flow, Stream
<1>5. Len(k.queue) = 0 /\ d + 0 = d
  BY <1>4
<1>6. Stream(k.pending, w, cmds, d, k.sent, k.split)
  BY <1>4, <1>5 DEF ConnOK, Flow
<1>7. IsSeq(k.pending) /\ IsSeq(w)
  BY <1>6 DEF Stream
<1>8. IsSeq(p) /\ Len(p) = Len(k.pending) + i /\ FitsFrom(p, cmds, Start(cmds)[d + 1], now)
  BY <1>6, <1>2, ReceivedFits
<1>9. k.sent \in 0 .. Len(cmds) /\ d \in 0 .. k.sent
  BY <1>6 DEF Stream
<1>10. Start(cmds)[d + 1] + Len(p) <= Start(cmds)[k.sent + 1]
  <2>1. PICK b \in Nat, lp \in Nat, e \in Nat :
          b = Start(cmds)[d + 1] /\ lp = Len(k.pending) /\ e = Start(cmds)[k.sent + 1]
    <3>1. PICK l \in Nat : l = Len(cmds)
      BY DEF AreCommands
    <3>2. d + 1 \in 1 .. Len(cmds) + 1 /\ k.sent + 1 \in 1 .. Len(cmds) + 1
      BY <1>9, <3>1
    <3> QED
      BY <1>7, <3>2, StartFacts, SeqFacts
  <2>2. b + lp + lw = e
    BY <1>4, <1>6, <2>1 DEF Stream
  <2> QED
    BY <1>4, <1>8, <2>1, <2>2
<1>11. Parsed(g, p, cmds, Start(cmds)[d + 1], d, k.sent, now)
  BY <1>8, <1>9, <1>10, ParseAll
<1>12. Stream(g.rest, v, cmds, d + Len(g.commands), k.sent, now)
  BY <1>6, <1>2, <1>11, StreamRead
<1>13. /\ IsSeq(g.commands) /\ Commands(g.commands, cmds, d, now)
       /\ \A j \in 1 .. Len(g.commands) : FromHead(g.commands[j], p)
  BY <1>11 DEF Parsed, Commands
<1>14. IsSeq(q) /\ Commands(q, cmds, d, now)
  <2>1. CASE g.panics
    <3>1. IsSeq(q) /\ Len(q) = 0
      BY <1>1, <2>1, EmptyIsSeq, Zenon
    <3> QED
      BY <3>1 DEF Commands
  <2>2. CASE ~g.panics
    BY <1>1, <1>13, <2>2
  <2> QED
    BY <2>1, <2>2
<1>15. /\ r.task = t /\ r.pending = g.rest /\ r.queue = q /\ r.responses = k.responses
       /\ r.done = k.done /\ r.split = now /\ r.closed = k.closed /\ r.sent = k.sent
       /\ r.answered = k.answered /\ r.last = k.last /\ r.got = k.got
       /\ r.capture = None
  BY <1>3
<1>16. Shape(r)
  <2>1. r = [task |-> r.task, pending |-> r.pending, queue |-> r.queue,
             capture |-> r.capture, responses |-> r.responses, done |-> r.done,
             split |-> r.split, closed |-> r.closed, sent |-> r.sent,
             answered |-> r.answered, last |-> r.last, got |-> r.got]
    BY <1>3
  <2> QED
    BY <1>14, <1>15, <2>1 DEF ConnOK, Shape, Fields
<1>17. Flow(r, v, cmds)
  <2>1. r.sent \in Nat /\ Len(r.done) <= r.sent
    BY <1>15 DEF ConnOK, Flow
  <2>2. Commands(r.done, cmds, 0, r.split)
    <3>1. Commands(k.done, cmds, 0, k.split) /\ (k.split => now)
      BY <1>2 DEF ConnOK, Flow
    <3> QED
      BY <1>15, <3>1, CommandsTorn
  <2>3. Commands(r.queue, cmds, Len(r.done), r.split)
    BY <1>4, <1>14, <1>15
  <2>4. CASE g.panics
    <3>1. ~Live(r) /\ r.queue = <<>> /\ r.capture = None
      BY <1>1, <1>15, <2>4 DEF Live
    <3> QED
      BY <2>1, <2>2, <2>3, <3>1 DEF Flow
  <2>5. CASE ~g.panics
    <3>1. Live(r) /\ r.queue = g.commands
      BY <1>1, <1>15, <2>5 DEF Live
    <3>2. Stream(r.pending, v, cmds, Len(r.done) + Len(r.queue), r.sent, r.split)
      BY <1>4, <1>12, <1>15, <3>1
    <3> QED
      BY <2>1, <2>2, <2>3, <3>1, <3>2 DEF Flow
  <2> QED
    BY <2>4, <2>5
<1>18. Answers(k, cmds) => Answers(r, cmds)
  BY <1>15 DEF Answers
<1>19. ASSUME Live(r), Asks(k, w, n)
       PROVE  Asks(r, v, n)
  <2>1. ~g.panics
    BY <1>1, <1>15, <1>19 DEF Live
  <2>2. HeadsAsk(k.pending, k.last) /\ HeadsAsk(w, k.last)
    BY <1>19 DEF Asks
  <2>3. PICK m \in Nat : m <= Len(p) /\ Sliced(g.rest, p, m, Len(p))
    BY <1>8, <1>9, <1>11, RestSliced
  <2>4. Len(w) \in Nat
    BY <1>4
  <2>5. CommandsAsk(g.commands, k.last) /\ HeadsAsk(g.rest, k.last) /\ HeadsAsk(v, k.last)
    BY <1>7, <1>13, <2>2, <2>3, <2>4, ReadAsks
  <2> QED
    BY <1>1, <1>15, <1>19, <2>1, <2>5 DEF Asks
<1>20. Live(r) => Live(k)
  BY <1>1, <1>15 DEF Live
<1> QED
  BY <1>15, <1>16, <1>17, <1>18, <1>19, <1>20 DEF ConnOK

\* A command is executed; a is the response to it.
LEMMA ConnExecute ==
  ASSUME NEW k, NEW w, NEW cmds, AreCommands(cmds), NEW n \in Nat, ConnOK(k, w, cmds, n),
         k.queue # <<>>, NEW cmd, cmd = Head(k.queue), NEW a, a.name = cmd.name,
         cmd.name = "XREAD" => IsSeq(a.entries),
         n < Base /\ cmd.name = "XREAD" /\ (cmd.id = Dollar \/ cmd.id \in 1 .. n)
           => Continues(a.entries, cmd.id, n),
         NEW cap,
         NEW r, r = [k EXCEPT !.queue = Tail(@), !.capture = cap,
                              !.responses = Append(@, a), !.done = Append(@, cmd)]
  PROVE  ConnOK(r, w, cmds, n)
<1>1. r = [task |-> k.task, pending |-> k.pending, queue |-> Tail(k.queue),
           capture |-> cap, responses |-> Append(k.responses, a), done |-> Append(k.done, cmd),
           split |-> k.split, closed |-> k.closed, sent |-> k.sent,
           answered |-> k.answered, last |-> k.last, got |-> k.got]
  BY DEF ConnOK, Shape, Fields
<1>2. IsSeq(k.queue) /\ IsSeq(k.responses) /\ IsSeq(k.done) /\ IsSeq(k.got) /\ Lists(k.responses)
  BY DEF ConnOK, Shape, Fields
<1>3. PICK d \in Nat, q \in Nat, l \in Nat :
        d = Len(k.done) /\ q = Len(k.queue) /\ l = Len(k.responses)
  BY <1>2, SeqFacts
<1>4. PICK Q, R, D : /\ Q = Tail(k.queue) /\ Sliced(Q, k.queue, 1, q) /\ q > 0
                     /\ R = Append(k.responses, a) /\ Appended(R, k.responses, a)
                     /\ D = Append(k.done, cmd) /\ Appended(D, k.done, cmd)
                     /\ cmd = k.queue[1]
  BY <1>2, <1>3, TailIsSeq, AppendIsSeq
<1>5. /\ IsSeq(Q) /\ Len(Q) = q - 1 /\ \A i \in 1 .. q - 1 : Q[i] = k.queue[1 + i]
      /\ IsSeq(R) /\ Len(R) = l + 1 /\ R[l + 1] = a /\ \A i \in 1 .. l : R[i] = k.responses[i]
      /\ IsSeq(D) /\ Len(D) = d + 1 /\ D[d + 1] = cmd /\ \A i \in 1 .. d : D[i] = k.done[i]
  BY <1>3, <1>4 DEF Sliced, Appended
<1>6. /\ r.task = k.task /\ r.pending = k.pending /\ r.queue = Q /\ r.responses = R
      /\ r.done = D /\ r.split = k.split /\ r.closed = k.closed /\ r.sent = k.sent
      /\ r.answered = k.answered /\ r.last = k.last /\ r.got = k.got
      /\ r = [task |-> r.task, pending |-> r.pending, queue |-> r.queue,
              capture |-> r.capture, responses |-> r.responses, done |-> r.done,
              split |-> r.split, closed |-> r.closed, sent |-> r.sent,
              answered |-> r.answered, last |-> r.last, got |-> r.got]
  BY <1>1, <1>4
<1>7. Lists(R)
  <2> SUFFICES ASSUME NEW i \in 1 .. l + 1, R[i].name = "XREAD"
               PROVE  IsSeq(R[i].entries)
    BY <1>5 DEF Lists
  <2>1. CASE i = l + 1
    BY <1>5, <2>1
  <2>2. CASE i # l + 1
    <3>1. i \in 1 .. l
      BY <2>2
    <3> QED
      BY <1>2, <1>3, <1>5, <3>1 DEF Lists
  <2> QED
    BY <2>1, <2>2
<1>8. Shape(r)
  BY <1>2, <1>5, <1>6, <1>7 DEF Shape, Fields
<1>9. Live(k) /\ Live(r)
  BY <1>6 DEF ConnOK, Flow, Live
<1>10. Stream(k.pending, w, cmds, d + q, k.sent, k.split)
  BY <1>3, <1>9 DEF ConnOK, Flow
<1>11. PICK s \in Nat : s = k.sent /\ d + q <= s
  <2>1. PICK lc \in Nat : lc = Len(cmds)
    BY DEF AreCommands
  <2>2. k.sent \in 0 .. lc /\ d + q \in 0 .. k.sent
    BY <1>10, <2>1 DEF Stream
  <2>3. PICK x \in 0 .. lc : x = k.sent /\ d + q \in 0 .. x
    BY <2>2
  <2>4. x \in Nat /\ d + q <= x
    BY <2>1, <2>3
  <2> QED
    BY <2>3, <2>4
<1>12. Commands(k.queue, cmds, d, k.split) /\ Commands(k.done, cmds, 0, k.split)
  BY <1>3 DEF ConnOK, Flow
<1>13. Right(cmd, cmds[d + 1], k.split)
  <2>1. 1 \in 1 .. q
    BY <1>4
  <2> QED
    BY <1>3, <1>4, <1>12, <2>1 DEF Commands
<1>14. Flow(r, w, cmds)
  <2>1. k.sent \in Nat /\ Len(D) <= k.sent
    BY <1>4, <1>5, <1>11
  <2>2. Commands(D, cmds, 0, k.split)
    <3> SUFFICES ASSUME NEW i \in 1 .. d + 1
                 PROVE  Right(D[i], cmds[0 + i], k.split)
      BY <1>5 DEF Commands
    <3>1. CASE i = d + 1
      <4>1. 0 + i = d + 1
        BY <3>1
      <4> QED
        BY <1>5, <1>13, <3>1, <4>1
    <3>2. CASE i # d + 1
      <4>1. i \in 1 .. d
        BY <3>2
      <4> QED
        BY <1>3, <1>5, <1>12, <4>1 DEF Commands
    <3> QED
      BY <3>1, <3>2
  <2>3. Commands(Q, cmds, d + 1, k.split)
    <3> SUFFICES ASSUME NEW i \in 1 .. q - 1
                 PROVE  Right(Q[i], cmds[(d + 1) + i], k.split)
      BY <1>5 DEF Commands
    <3>1. 1 + i \in 1 .. q /\ (d + 1) + i = d + (1 + i)
      OBVIOUS
    <3>2. Right(k.queue[1 + i], cmds[d + (1 + i)], k.split)
      BY <1>3, <1>12, <3>1 DEF Commands
    <3> QED
      BY <1>5, <3>1, <3>2
  <2>4. Stream(k.pending, w, cmds, Len(D) + Len(Q), k.sent, k.split)
    <3>1. Len(D) + Len(Q) = d + q
      BY <1>5
    <3> QED
      BY <1>10, <3>1
  <2> QED
    BY <1>5, <1>6, <1>9, <2>1, <2>2, <2>3, <2>4 DEF Flow
<1>15. ASSUME ~k.closed
       PROVE  Answers(r, cmds)
  <2>1. Answers(k, cmds)
    BY <1>9, <1>15 DEF ConnOK
  <2>2. PICK m \in Nat : m = k.answered /\ m + l = d
    BY <1>3, <2>1 DEF Answers
  <2>3. \A i \in 1 .. l + 1 : R[i].name = Variant(cmds[m + i])
    <3> SUFFICES ASSUME NEW i \in 1 .. l + 1
                 PROVE  R[i].name = Variant(cmds[m + i])
      OBVIOUS
    <3>1. CASE i = l + 1
      <4>1. m + i = d + 1
        BY <2>2, <3>1
      <4> QED
        BY <1>5, <1>13, <3>1, <4>1 DEF Right
    <3>2. CASE i # l + 1
      <4>1. i \in 1 .. l
        BY <3>2
      <4> QED
        BY <1>3, <1>5, <2>1, <2>2, <4>1 DEF Answers
    <3> QED
      BY <3>1, <3>2
  <2>4. m + (l + 1) = d + 1
    BY <2>2
  <2>5. \A i \in m + 1 .. k.sent : Variant(cmds[i]) = "XREAD" => i = m + 1
    BY <2>1, <2>2 DEF Answers
  <2>6. r.answered = m /\ Len(r.responses) = l + 1 /\ Len(r.done) = d + 1
    BY <1>5, <1>6, <2>2
  <2>7. \A i \in 1 .. l + 1 : r.responses[i].name = Variant(cmds[m + i])
    BY <1>6, <2>3
  <2> QED
    BY <1>6, <2>4, <2>5, <2>6, <2>7, SMTT(30) DEF Answers
<1>16. ASSUME ~k.closed, n < Base
       PROVE  Asks(r, w, n)
  <2>1. Asks(k, w, n) /\ Has(k.got, k.last, n)
    BY <1>9, <1>16 DEF ConnOK
  <2>2. CommandsAsk(Q, k.last)
    <3> SUFFICES ASSUME NEW i \in 1 .. q - 1, Q[i].name = "XREAD"
                 PROVE  Q[i].id = k.last
      BY <1>5 DEF CommandsAsk
    <3>1. 1 + i \in 1 .. q /\ Q[i] = k.queue[1 + i]
      BY <1>5
    <3> QED
      BY <1>3, <2>1, <3>1 DEF Asks, CommandsAsk
  <2>3. cmd.name = "XREAD" => cmd.id = k.last
    <3>1. 1 \in 1 .. q
      BY <1>4
    <3> QED
      BY <1>3, <1>4, <2>1, <3>1 DEF Asks, CommandsAsk
  <2>4. k.last = Dollar \/ k.last \in 1 .. n
    <3>1. PICK lg \in Nat : lg = Len(k.got)
      BY <1>2, SeqFacts
    <3>2. lg > 0 => lg \in 1 .. lg
      OBVIOUS
    <3> QED
      BY <2>1, <3>1, <3>2 DEF Has
  <2>5. ResponsesTell(R, k.last, n)
    <3> SUFFICES ASSUME NEW i \in 1 .. l + 1, R[i].name = "XREAD"
                 PROVE  Continues(R[i].entries, k.last, n)
      BY <1>5 DEF ResponsesTell
    <3>1. CASE i = l + 1
      <4>1. a.name = "XREAD" /\ R[i] = a
        BY <1>5, <3>1
      <4>2. Continues(a.entries, cmd.id, n)
        BY <1>16, <2>3, <2>4, <4>1
      <4> QED
        BY <2>3, <4>1, <4>2
    <3>2. CASE i # l + 1
      <4>1. i \in 1 .. l
        BY <3>2
      <4> QED
        BY <1>3, <1>5, <2>1, <4>1 DEF Asks, ResponsesTell
    <3> QED
      BY <3>1, <3>2
  <2> QED
    BY <1>6, <2>1, <2>2, <2>5 DEF Asks
<1> QED
  BY <1>6, <1>8, <1>14, <1>15, <1>16 DEF ConnOK

\* Among the commands after d up to n is one of this name.
Waits(name, cmds, d, n) == \E m \in d + 1 .. n : name = Variant(cmds[m])

\* A header that is still in the stream belongs to a command not yet parsed.
LEMMA HeadIsSent ==
  ASSUME NEW cmds, AreCommands(cmds), NEW n \in 0 .. Len(cmds), NEW d \in 0 .. n, NEW torn,
         NEW cell, NEW x \in Nat, Start(cmds)[d + 1] < x, x <= Start(cmds)[n + 1],
         Fits(cell, cmds, x, torn), Begins(cell)
  PROVE  Waits(Variant(cell.cmd), cmds, d, n)
<1>1. PICK l \in Nat : l = Len(cmds)
  BY DEF AreCommands
<1>2. PICK b \in Nat, e \in Nat : b = Start(cmds)[d + 1] /\ e = Start(cmds)[n + 1]
  <2>1. d + 1 \in 1 .. Len(cmds) + 1 /\ n + 1 \in 1 .. Len(cmds) + 1
    BY <1>1
  <2> QED
    BY <2>1, StartFacts
<1>3. x \in 1 .. Start(cmds)[n + 1]
  BY <1>2
<1>4. PICK m \in 1 .. n : \E a \in 1 .. FrameLen(cmds[m]) : x = Start(cmds)[m] + a
  BY <1>3, InSomeFrame
<1>5. PICK a \in 1 .. FrameLen(cmds[m]) : x = Start(cmds)[m] + a
  BY <1>4
<1>6. m \in 1 .. Len(cmds) /\ IsCommand(cmds[m])
  BY <1>1 DEF AreCommands
<1>7. PICK s \in Nat, f \in Nat : s = Start(cmds)[m] /\ f = FrameLen(cmds[m])
                                  /\ Start(cmds)[m + 1] = s + f
  <2>1. m \in 1 .. Len(cmds) + 1
    BY <1>1
  <2> QED
    BY <1>6, <2>1, StartFacts, CommandFacts
<1>8. m > d
  <2> SUFFICES ASSUME m <= d
               PROVE  FALSE
    BY <1>1
  <2>1. d + 1 \in m + 1 .. Len(cmds) + 1
    BY <1>1
  <2>2. s + f <= b
    BY <1>2, <1>6, <1>7, <2>1, StartGrows
  <2>3. x = s + a /\ a <= f /\ b < x
    BY <1>2, <1>5, <1>7
  <2> QED
    BY <1>7, <2>2, <2>3
<1>9. Carries(cell, cmds[m], a, torn)
  BY <1>5, <1>6 DEF Fits
<1>10. IsHead(cell, cmds[m])
  <2>1. \A i \in 1 .. Len(cmds[m].payload) : cmds[m].payload[i] \notin {"head", "words"}
    BY <1>6, CommandFacts
  <2>2. PICK lp \in Nat : lp = Len(cmds[m].payload)
    BY <1>6, CommandFacts
  <2>3. a \in 1 + 1 .. 1 + lp => a - 1 \in 1 .. lp
    BY <1>7
  <2> QED
    BY <1>9, <2>1, <2>2, <2>3 DEF Carries, Begins
<1>11. Variant(cell.cmd) = Variant(cmds[m])
  <2>1. PICK c : c = cell.cmd
    OBVIOUS
  <2>2. c = [word |-> cmds[m].word, form |-> cmds[m].form, inline |-> cmds[m].inline,
             payload |-> cmds[m].payload, id |-> c.id]
    BY <1>10, <2>1 DEF IsHead
  <2>3. c.word = cmds[m].word /\ c.form = cmds[m].form
    BY <2>2
  <2> QED
    BY <2>1, <2>3 DEF Variant
<1>12. m \in d + 1 .. n
  BY <1>1, <1>8
<1> QED
  BY <1>11, <1>12 DEF Waits

\* When no XREAD waits to be parsed, nothing in the stream asks for entries.
LEMMA NobodyAsks ==
  ASSUME NEW cmds, AreCommands(cmds), NEW pend, NEW w, NEW d, NEW n, NEW torn,
         Stream(pend, w, cmds, d, n, torn), \A m \in d + 1 .. n : Variant(cmds[m]) # "XREAD", NEW x
  PROVE  HeadsAsk(pend, x) /\ HeadsAsk(w, x)
<1>1. PICK l \in Nat, lp \in Nat, lw \in Nat : l = Len(cmds) /\ lp = Len(pend) /\ lw = Len(w)
  BY SeqFacts DEF Stream, AreCommands
<1>2. n \in 0 .. Len(cmds) /\ d \in 0 .. n
  BY DEF Stream
<1>3. PICK b \in Nat, e \in Nat : b = Start(cmds)[d + 1] /\ e = Start(cmds)[n + 1]
  <2>1. d + 1 \in 1 .. Len(cmds) + 1 /\ n + 1 \in 1 .. Len(cmds) + 1
    BY <1>1, <1>2
  <2> QED
    BY <2>1, StartFacts
<1>4. b + lp + lw = e
  BY <1>1, <1>3 DEF Stream
<1>5. ASSUME NEW i \in 1 .. lp, Begins(pend[i])
      PROVE  Variant(pend[i].cmd) # "XREAD"
  <2>1. b + i \in Nat /\ b < b + i /\ b + i <= e
    BY <1>1, <1>4
  <2>2. Fits(pend[i], cmds, b + i, torn)
    BY <1>1, <1>3 DEF Stream, FitsFrom
  <2>3. Waits(Variant(pend[i].cmd), cmds, d, n)
    BY <1>2, <1>3, <1>5, <2>1, <2>2, HeadIsSent
  <2> QED
    BY <2>3 DEF Waits
<1>6. ASSUME NEW i \in 1 .. lw, Begins(w[i])
      PROVE  Variant(w[i].cmd) # "XREAD"
  <2>1. (b + lp) + i \in Nat /\ b < (b + lp) + i /\ (b + lp) + i <= e
    BY <1>1, <1>4
  <2>2. Fits(w[i], cmds, (b + lp) + i, FALSE)
    BY <1>1, <1>3 DEF Stream, FitsFrom
  <2>3. Waits(Variant(w[i].cmd), cmds, d, n)
    BY <1>2, <1>3, <1>6, <2>1, <2>2, HeadIsSent
  <2> QED
    BY <2>3 DEF Waits
<1> QED
  BY <1>1, <1>5, <1>6 DEF HeadsAsk

\* The client goes on from the last entry it got.
LEMMA HasMore ==
  ASSUME NEW got, IsSeq(got), NEW last, NEW n \in Nat, Has(got, last, n),
         NEW entries, Continues(entries, last, n), entries # <<>>
  PROVE  /\ Has(got \o entries, Last(entries), n)
<1>1. IsSeq(entries)
  BY DEF Continues
<1>2. PICK lg \in Nat, le \in Nat : lg = Len(got) /\ le = Len(entries)
  BY <1>1, SeqFacts
<1>3. le > 0
  BY <1>1, <1>2, NoElements
<1>4. PICK t : t = got \o entries /\ Joined(t, got, entries)
  BY <1>1, ConcatIsSeq
<1>5. /\ Len(t) = lg + le
      /\ \A i \in 1 .. lg : t[i] = got[i]
      /\ \A i \in 1 .. le : t[lg + i] = entries[i]
  BY <1>2, <1>4 DEF Joined
<1>6. \A i \in 1 .. le : entries[i] \in 1 .. n /\ entries[i] = entries[1] + i - 1
  BY <1>2 DEF Continues
<1>7. \A i \in 1 .. lg : got[i] \in 1 .. n /\ got[i] = got[1] + i - 1
  BY <1>2 DEF Has
<1>8. PICK y \in 1 .. n : y = entries[1]
  BY <1>3, <1>6
<1>9. Last(entries) = entries[le] /\ entries[le] \in 1 .. n
  <2>1. le \in 1 .. le
    BY <1>3
  <2> QED
    BY <1>2, <1>6, <2>1 DEF Last
<1>10. entries[le] # Dollar
  BY <1>9, MockAssumption
<1>11. t[lg + le] = entries[le]
  <2>1. le \in 1 .. le
    BY <1>3
  <2> QED
    BY <1>5, <2>1
<1>12. \A i \in 1 .. lg + le : t[i] \in 1 .. n /\ t[i] = t[1] + i - 1
  <2>1. CASE last = Dollar
    <3>1. lg = 0
      BY <1>2, <2>1 DEF Has
    <3>2. \A i \in 1 .. le : t[i] = entries[i]
      BY <1>5, <3>1
    <3>3. t[1] = y
      BY <1>3, <1>8, <3>2
    <3> SUFFICES ASSUME NEW i \in 1 .. le
                 PROVE  t[i] \in 1 .. n /\ t[i] = y + i - 1
      BY <3>1, <3>3
    <3> QED
      BY <1>6, <1>8, <3>2
  <2>2. CASE last # Dollar
    <3>1. lg > 0 /\ last = got[lg]
      BY <1>2, <2>2 DEF Has
    <3>2. PICK z \in 1 .. n : z = got[1] /\ t[1] = z
      <4>1. 1 \in 1 .. lg
        BY <3>1
      <4> QED
        BY <1>5, <1>7, <4>1
    <3>3. got[lg] = z + lg - 1
      <4>1. lg \in 1 .. lg
        BY <3>1
      <4> QED
        BY <1>7, <3>2, <4>1
    <3>4. y = last + 1
      BY <1>2, <1>3, <1>8, <2>2 DEF Continues
    <3>5. y = z + lg
      BY <3>1, <3>3, <3>4
    <3> SUFFICES ASSUME NEW i \in 1 .. lg + le
                 PROVE  t[i] \in 1 .. n /\ t[i] = z + i - 1
      BY <3>2
    <3>6. CASE i <= lg
      <4>1. i \in 1 .. lg
        BY <3>6
      <4> QED
        BY <1>5, <1>7, <3>2, <4>1
    <3>7. CASE i > lg
      <4>1. PICK j \in 1 .. le : i = lg + j
        <5>1. i - lg \in 1 .. le /\ i = lg + (i - lg)
          BY <3>7
        <5> QED
          BY <5>1
      <4>2. t[i] = entries[j] /\ entries[j] \in 1 .. n /\ entries[j] = y + j - 1
        BY <1>5, <1>6, <1>8, <4>1
      <4>3. y + j - 1 = z + i - 1
        BY <3>5, <4>1
      <4> QED
        BY <4>2, <4>3
    <3> QED
      BY <3>6, <3>7
  <2> QED
    BY <2>1, <2>2
<1>13. lg + le > 0
  BY <1>3
<1> QED
  BY <1>4, <1>5, <1>9, <1>10, <1>11, <1>12, <1>13 DEF Has

\* A response is written to a client that hung up.
LEMMA ConnRespondClosed ==
  ASSUME NEW k, NEW w, NEW cmds, NEW n, ConnOK(k, w, cmds, n), k.closed,
         NEW rs, IsSeq(rs), Lists(rs), NEW r, r = [k EXCEPT !.responses = rs]
  PROVE  ConnOK(r, w, cmds, n)
<1>1. r = [task |-> k.task, pending |-> k.pending, queue |-> k.queue,
           capture |-> k.capture, responses |-> rs, done |-> k.done,
           split |-> k.split, closed |-> k.closed, sent |-> k.sent,
           answered |-> k.answered, last |-> k.last, got |-> k.got]
  BY DEF ConnOK, Shape, Fields
<1>2. Shape(r)
  BY <1>1 DEF ConnOK, Shape, Fields
<1>3. /\ r.pending = k.pending /\ r.queue = k.queue /\ r.capture = k.capture
      /\ r.done = k.done /\ r.split = k.split /\ r.sent = k.sent
      /\ r.last = k.last /\ r.got = k.got /\ r.closed = k.closed /\ (Live(r) <=> Live(k))
  BY <1>1 DEF Live
<1>4. Flow(r, w, cmds)
  BY <1>3 DEF ConnOK, Flow
<1> QED
  BY <1>2, <1>3, <1>4 DEF ConnOK

\* One response less, m of them written
LEMMA OneLess ==
  ASSUME NEW m \in Nat, NEW l \in Nat, l > 0
  PROVE  /\ (m + 1) + (l - 1) = m + l /\ (m + 1) + 1 = m + 2 /\ m + 1 \in Nat
OBVIOUS

\* The positions of those that are left
LEMMA OneLater ==
  ASSUME NEW m \in Nat, NEW l \in Nat, NEW s \in Nat, m + l <= s, NEW i \in 1 .. l - 1
  PROVE  1 + i \in 1 .. l /\ (m + 1) + i = m + (1 + i) /\ (m + 1) + i \in m + 2 .. s
OBVIOUS

\* A response is written and read: es are the entries of an XREAD's response,
\* and last is where the client goes on.
LEMMA ConnRespond ==
  ASSUME NEW k, NEW w, NEW cmds, AreCommands(cmds), NEW n \in Nat, ConnOK(k, w, cmds, n),
         Live(k), k.queue = <<>>, ~k.closed, k.responses # <<>>, NEW es, NEW last,
         NEW a, a = k.responses[1],
         a.name = "XREAD" => es = a.entries, a.name # "XREAD" => es = <<>>,
         es = <<>> => last = k.last, es # <<>> => last = Last(es),
         NEW rs, Sliced(rs, k.responses, 1, Len(k.responses)), Len(k.responses) > 0,
         NEW got, Joined(got, k.got, es),
         NEW r, r = [k EXCEPT !.responses = rs, !.answered = @ + 1,
                              !.last = last, !.got = got],
         es # <<>> => got = k.got \o es
  PROVE  ConnOK(r, w, cmds, n)
<1>1. r = [task |-> k.task, pending |-> k.pending, queue |-> k.queue,
           capture |-> k.capture, responses |-> rs, done |-> k.done,
           split |-> k.split, closed |-> k.closed, sent |-> k.sent,
           answered |-> k.answered + 1, last |-> last, got |-> got]
  BY DEF ConnOK, Shape, Fields
<1>2. /\ r.task = k.task /\ r.pending = k.pending /\ r.queue = k.queue
      /\ r.capture = k.capture /\ r.responses = rs
      /\ r.done = k.done /\ r.split = k.split /\ r.closed = k.closed /\ r.sent = k.sent
      /\ r.answered = k.answered + 1 /\ r.last = last /\ r.got = got
      /\ r = [task |-> r.task, pending |-> r.pending, queue |-> r.queue,
              capture |-> r.capture, responses |-> r.responses, done |-> r.done,
              split |-> r.split, closed |-> r.closed, sent |-> r.sent,
              answered |-> r.answered, last |-> r.last, got |-> r.got]
  BY <1>1
<1>3. IsSeq(k.queue) /\ IsSeq(k.responses) /\ IsSeq(k.done) /\ IsSeq(k.got) /\ Lists(k.responses)
  BY DEF ConnOK, Shape, Fields
<1>4. PICK d \in Nat, l \in Nat : d = Len(k.done) /\ l = Len(k.responses) /\ l > 0
  BY <1>3, SeqFacts
<1>5. IsSeq(rs) /\ Len(rs) = l - 1 /\ \A i \in 1 .. l - 1 : rs[i] = k.responses[1 + i]
  BY <1>4 DEF Sliced
<1>6. Answers(k, cmds)
  BY DEF ConnOK
<1>7. PICK m \in Nat : m = k.answered /\ m + l = d
  BY <1>4, <1>6 DEF Answers
<1>8. Stream(k.pending, w, cmds, d, k.sent, k.split)
  <2>1. Len(k.queue) = 0 /\ d + 0 = d
    BY <1>4
  <2> QED
    BY <1>4, <2>1 DEF ConnOK, Flow
<1>9. PICK s \in Nat : s = k.sent /\ d <= s
  <2>1. PICK lc \in Nat : lc = Len(cmds)
    BY DEF AreCommands
  <2>2. PICK x \in 0 .. lc : x = k.sent /\ d \in 0 .. x
    BY <1>8, <2>1 DEF Stream
  <2>3. x \in Nat /\ d <= x
    BY <2>1, <2>2
  <2> QED
    BY <2>2, <2>3
<1>10. \A i \in m + 2 .. s : Variant(cmds[i]) # "XREAD"
  <2> SUFFICES ASSUME NEW i \in m + 2 .. s, Variant(cmds[i]) = "XREAD"
               PROVE  FALSE
    OBVIOUS
  <2>1. i \in m + 1 .. s /\ i # m + 1
    OBVIOUS
  <2> QED
    BY <1>6, <1>7, <1>9, <2>1 DEF Answers
<1>11. \A i \in 1 .. l - 1 : rs[i].name = Variant(cmds[(m + 1) + i]) /\ rs[i].name # "XREAD"
  <2> SUFFICES ASSUME NEW i \in 1 .. l - 1
               PROVE  rs[i].name = Variant(cmds[(m + 1) + i]) /\ rs[i].name # "XREAD"
    OBVIOUS
  <2>1. 1 + i \in 1 .. l /\ (m + 1) + i = m + (1 + i) /\ (m + 1) + i \in m + 2 .. s
    <3>1. m + l <= s
      BY <1>7, <1>9
    <3> QED
      BY <3>1, OneLater
  <2>2. k.responses[1 + i].name = Variant(cmds[m + (1 + i)])
    BY <1>4, <1>6, <1>7, <2>1 DEF Answers
  <2> QED
    BY <1>5, <1>10, <2>1, <2>2
<1>12. Shape(r)
  <2>1. Lists(rs)
    BY <1>5, <1>11 DEF Lists
  <2>2. IsSeq(got)
    BY DEF Joined
  <2> QED
    BY <1>2, <1>3, <1>5, <2>1, <2>2 DEF Shape, Fields
<1>13. Flow(r, w, cmds)
  BY <1>2 DEF ConnOK, Flow, Live
<1>14. Answers(r, cmds)
  <2>1. (m + 1) + (l - 1) = d /\ (m + 1) + 1 = m + 2 /\ m + 1 \in Nat
    BY <1>4, <1>7, OneLess
  <2>2. r.answered = m + 1 /\ Len(r.responses) = l - 1 /\ Len(r.done) = d /\ r.sent = s
    BY <1>2, <1>4, <1>5, <1>7, <1>9
  <2>3. \A i \in 1 .. l - 1 : r.responses[i].name = Variant(cmds[(m + 1) + i])
    BY <1>2, <1>11
  <2>4. \A i \in (m + 1) + 1 .. s : Variant(cmds[i]) # "XREAD"
    BY <1>10, <2>1
  <2> QED
    BY <2>1, <2>2, <2>3, <2>4 DEF Answers
<1>15. ASSUME n < Base
       PROVE  Has(got, last, n) /\ Asks(r, w, n)
  <2>1. Has(k.got, k.last, n) /\ Asks(k, w, n)
    BY <1>15 DEF ConnOK
  <2>2. HeadsAsk(k.pending, last) /\ HeadsAsk(w, last)
    <3>1. CASE es = <<>>
      BY <2>1, <3>1 DEF Asks
    <3>2. CASE es # <<>>
      <4>1. \A i \in d + 1 .. k.sent : Variant(cmds[i]) # "XREAD"
        <5> SUFFICES ASSUME NEW i \in d + 1 .. s
                     PROVE  i \in m + 2 .. s
          BY <1>9, <1>10
        <5> QED
          BY <1>4, <1>7
      <4> QED
        BY <1>8, <4>1, NobodyAsks
    <3> QED
      BY <3>1, <3>2
  <2>3. CommandsAsk(k.queue, last)
    <3>1. Len(k.queue) = 0
      OBVIOUS
    <3> QED
      BY <3>1 DEF CommandsAsk
  <2>4. ResponsesTell(rs, last, n)
    BY <1>5, <1>11 DEF ResponsesTell
  <2>5. Asks(r, w, n)
    BY <1>2, <2>2, <2>3, <2>4 DEF Asks
  <2>6. Has(got, last, n)
    <3>1. CASE es = <<>>
      <4>1. Len(es) = 0
        BY <3>1
      <4>2. PICK lg \in Nat : lg = Len(k.got)
        BY <1>3, SeqFacts
      <4>3. Len(got) = lg /\ \A i \in 1 .. lg : got[i] = k.got[i]
        BY <4>1, <4>2 DEF Joined
      <4>4. last = k.last
        BY <3>1
      <4>5. lg > 0 => 1 \in 1 .. lg /\ lg \in 1 .. lg
        BY <4>2
      <4>6. \A i \in 1 .. lg : 1 \in 1 .. lg
        BY <4>2
      <4>7. \A i \in 1 .. lg : got[i] \in 1 .. n /\ got[i] = got[1] + i - 1
        BY <2>1, <4>2, <4>3, <4>6 DEF Has
      <4>8. IF last = Dollar THEN lg = 0 ELSE lg > 0 /\ last = got[lg]
        BY <2>1, <4>2, <4>3, <4>4, <4>5 DEF Has
      <4> QED
        BY <4>3, <4>7, <4>8 DEF Has
    <3>2. CASE es # <<>>
      <4>1. a.name = "XREAD" /\ es = a.entries
        BY <3>2
      <4>2. 1 \in 1 .. l
        BY <1>4
      <4>3. Continues(es, k.last, n)
        BY <1>4, <2>1, <4>1, <4>2 DEF Asks, ResponsesTell
      <4>4. Has(k.got \o es, Last(es), n)
        BY <1>3, <2>1, <3>2, <4>3, HasMore
      <4> QED
        BY <3>2, <4>4
    <3> QED
      BY <3>1, <3>2
  <2> QED
    BY <2>5, <2>6
<1> QED
  BY <1>2, <1>12, <1>13, <1>14, <1>15 DEF ConnOK

-----------------------------------------------------------------------------
(* StreamState *)

\* An id of two numbers
LEMMA TwoElements ==
  ASSUME NEW e \in Nat, NEW f \in Nat, NEW s, s = <<e>> \o <<f>>
  PROVE  s \in Seq(Nat) /\ Len(s) = 2 /\ s[1] = e /\ s[2] = f
<1>0. PICK g, h : g = <<e>> /\ h = <<f>>
  OBVIOUS
<1>1. /\ g \in Seq(Nat) /\ Len(g) = 1 /\ g[1] = e
      /\ h \in Seq(Nat) /\ Len(h) = 1 /\ h[1] = f
  BY <1>0
<1>2. s = g \o h
  BY <1>0
<1>3. s \in Seq(Nat) /\ Len(s) = 2
  BY <1>1, <1>2
<1>4. s[1] = g[1] /\ s[2] = h[1]
  BY <1>1, <1>2
<1> QED
  BY <1>1, <1>3, <1>4

\* Ids of one digit are ordered as their numbers are.
LEMMA AboveIsGreater ==
  ASSUME NEW m \in Nat, NEW n \in Nat, m < Base, n < Base
  PROVE  Above(m, n) <=> m > n
<1>1. Id(m) = <<m + 1>> \o <<0>> /\ Id(n) = <<n + 1>> \o <<0>>
  BY DEF Id
<1>2. m + 1 \in Nat /\ n + 1 \in Nat /\ 0 \in Nat
  OBVIOUS
<1>3. PICK x, y : x = Id(m) /\ y = Id(n)
  OBVIOUS
<1>4. /\ x \in Seq(Nat) /\ Len(x) = 2 /\ x[1] = m + 1 /\ x[2] = 0
      /\ y \in Seq(Nat) /\ Len(y) = 2 /\ y[1] = n + 1 /\ y[2] = 0
  BY <1>1, <1>2, <1>3, TwoElements
<1>5. DOMAIN x \cap DOMAIN y = {1, 2}
  BY <1>4
<1>6. Above(m, n) <=> \E i \in {1, 2} : SubSeq(x, 1, i - 1) = SubSeq(y, 1, i - 1) /\ x[i] > y[i]
  BY <1>3, <1>5 DEF Above
<1>7. SubSeq(x, 1, 0) = SubSeq(y, 1, 0)
  BY <1>4
<1> QED
  BY <1>4, <1>6, <1>7

\* The numbers of an interval in ascending order
LEMMA InOrderInterval ==
  ASSUME NEW a \in Nat, NEW b \in Nat, a <= b, NEW s, s = InOrder(a + 1 .. b)
  PROVE  /\ IsSeq(s) /\ Len(s) = b - a
         /\ \A i \in 1 .. b - a : s[i] = a + i
<1> DEFINE S == a + 1 .. b
<1>1. PICK l \in Nat : l = b - a /\ Cardinality(S) = l
  <2>1. a + 1 \in Int /\ b \in Int
    OBVIOUS
  <2>2. Cardinality(S) = IF a + 1 > b THEN 0 ELSE b - (a + 1) + 1
    BY <2>1, FS_Interval
  <2> HIDE DEF S
  <2> QED
    BY <2>2
<1>2. \A m \in S : Cardinality({n \in S : n < m}) = m - (a + 1)
  <2> SUFFICES ASSUME NEW m \in S
               PROVE  Cardinality({n \in S : n < m}) = m - (a + 1)
    OBVIOUS
  <2>1. {n \in S : n < m} = a + 1 .. m - 1
    OBVIOUS
  <2>2. a + 1 \in Int /\ m - 1 \in Int
    OBVIOUS
  <2>3. Cardinality(a + 1 .. m - 1) = IF a + 1 > m - 1 THEN 0 ELSE (m - 1) - (a + 1) + 1
    BY <2>2, FS_Interval
  <2>4. PICK c : c = Cardinality(a + 1 .. m - 1)
    OBVIOUS
  <2>5. c = m - (a + 1)
    BY <2>3, <2>4
  <2> QED
    BY <2>1, <2>4, <2>5
<1>3. s = [i \in 1 .. l |-> CHOOSE m \in S : Cardinality({n \in S : n < m}) = i - 1]
  BY <1>1 DEF InOrder
<1>4. ASSUME NEW i \in 1 .. l
      PROVE  s[i] = a + i
  <2>1. s[i] = CHOOSE m \in S : Cardinality({n \in S : n < m}) = i - 1
    BY <1>3
  <2>2. a + i \in S /\ (a + i) - (a + 1) = i - 1
    BY <1>1
  <2>3. Cardinality({n \in S : n < a + i}) = i - 1
    BY <1>2, <2>2
  <2>4. s[i] \in S /\ Cardinality({n \in S : n < s[i]}) = i - 1
    <3> HIDE DEF S
    <3> QED
      BY <2>1, <2>2, <2>3
  <2>5. s[i] - (a + 1) = i - 1
    BY <1>2, <2>4
  <2> QED
    BY <2>4, <2>5
<1>5. s = [i \in 1 .. l |-> s[i]]
  BY <1>3
<1> QED
  BY <1>1, <1>4, <1>5, LiteralIsSeq

\* What after returns is a sequence, and as long as ids have one digit all the
\* entries behind the one that was seen last.
LEMMA AfterContinues ==
  ASSUME added \in Nat, NEW id, NEW s, s = after(id)
  PROVE  /\ IsSeq(s)
         /\ added < Base /\ (id = Dollar \/ id \in 1 .. added) => Continues(s, id, added)
<1>1. PICK n \in Nat : n = added
  OBVIOUS
<1>2. CASE id = Dollar
  <2>1. s = IF n = 0 THEN <<>> ELSE <<n>>
    BY <1>1, <1>2 DEF after
  <2>2. CASE n = 0
    <3>1. s = <<>>
      BY <2>1, <2>2
    <3>2. IsSeq(s) /\ Len(s) = 0
      BY <3>1, EmptyIsSeq, Zenon
    <3> QED
      BY <3>2 DEF Continues
  <2>3. CASE n # 0
    <3>1. s \in Seq(Nat) /\ Len(s) = 1 /\ s[1] = n
      BY <2>1, <2>3
    <3>2. IsSeq(s)
      BY <3>1 DEF IsSeq
    <3>3. \A i \in 1 .. Len(s) : s[i] \in 1 .. n /\ s[i] = s[1] + i - 1
      BY <2>3, <3>1
    <3> QED
      BY <1>1, <1>2, <3>2, <3>3 DEF Continues
  <2> QED
    BY <2>2, <2>3
<1>3. CASE id # Dollar
  <2> DEFINE S == {m \in 1 .. n : Above(m, id)}
  <2>1. s = InOrder(S)
    BY <1>1, <1>3 DEF after
  <2>2. IsSeq(s)
    <3>1. IsFiniteSet(1 .. n)
      BY FS_Interval
    <3>2. Cardinality(S) \in Nat
      <4>1. S \subseteq 1 .. n
        OBVIOUS
      <4> HIDE DEF S
      <4>2. IsFiniteSet(S)
        BY <3>1, <4>1, FS_Subset
      <4> QED
        BY <4>2, FS_CardinalityType
    <3> HIDE DEF S
    <3>3. s = [i \in 1 .. Cardinality(S) |-> s[i]]
      BY <2>1 DEF InOrder
    <3> QED
      BY <3>2, <3>3, LiteralIsSeq
  <2>3. ASSUME n < Base, id \in 1 .. n
        PROVE  Continues(s, id, n)
    <3>1. S = id + 1 .. n
      <4>1. \A m \in 1 .. n : Above(m, id) <=> m > id
        <5> SUFFICES ASSUME NEW m \in 1 .. n
                     PROVE  Above(m, id) <=> m > id
          OBVIOUS
        <5>1. m \in Nat /\ id \in Nat /\ m < Base /\ id < Base
          BY <2>3, MockAssumption
        <5> QED
          BY <5>1, AboveIsGreater
      <4> QED
        BY <2>3, <4>1
    <3>2. PICK a \in Nat : a = id /\ a <= n /\ a >= 1
      BY <2>3
    <3>3. s = InOrder(a + 1 .. n)
      BY <2>1, <3>1, <3>2
    <3> HIDE DEF S
    <3>4. IsSeq(s) /\ Len(s) = n - a /\ \A i \in 1 .. n - a : s[i] = a + i
      BY <3>2, <3>3, InOrderInterval
    <3>5. ASSUME NEW i \in 1 .. n - a
          PROVE  s[i] \in 1 .. n /\ s[i] = s[1] + i - 1
      <4>1. 1 \in 1 .. n - a /\ a + i \in 1 .. n /\ a + i = (a + 1) + i - 1
        BY <3>2
      <4> QED
        BY <3>4, <4>1
    <3>6. Len(s) > 0 => s[1] = id + 1
      <4>1. n - a > 0 => 1 \in 1 .. n - a
        BY <3>2
      <4> QED
        BY <3>2, <3>4, <4>1
    <3> QED
      BY <3>4, <3>5, <3>6 DEF Continues
  <2> QED
    BY <1>1, <1>3, <2>2, <2>3
<1> QED
  BY <1>2, <1>3

-----------------------------------------------------------------------------
(* What the harness observes *)

\* What was logged is a finite set.
LEMMA LoggedFinite ==
  ASSUME Observed
  PROVE  /\ IsFiniteSet(Logged) /\ Cardinality(Logged) \in Nat
         /\ Cardinality(Capturing) \in Nat
<1>1. PICK l \in Nat : l = Len(log)
  BY SeqFacts DEF Observed
<1>2. IsFiniteSet(1 .. l)
  BY FS_Interval
<1>3. Logged \subseteq 1 .. l
  BY <1>1 DEF Logged
<1>4. IsFiniteSet(Logged)
  BY <1>2, <1>3, FS_Subset
<1> QED
  BY <1>4, FS_CardinalityType DEF Observed

\* Neither the stream nor a payload on its way to the harness is touched.
LEMMA ObservedSame ==
  ASSUME Observed, added' = added, log' = log,
         \A c \in Clients : conn'[c].capture = conn[c].capture
  PROVE  Observed'
<1>1. Capturing' = Capturing
  BY DEF Capturing
<1>2. Logged' = Logged
  BY DEF Logged
<1> QED
  BY <1>1, <1>2 DEF Observed

\* An entry was pushed before its payload is captured.
LEMMA ObservedPush ==
  ASSUME Observed, added \in Nat, added' = added + 1, log' = log, NEW c \in Clients,
         \A d \in Clients : d # c => conn'[d].capture = conn[d].capture
  PROVE  Observed'
<1>1. PICK D : D = Capturing'
  OBVIOUS
<1>2. D \subseteq Capturing \cup {c}
  BY <1>1 DEF Capturing
<1>3. Logged' = Logged
  BY DEF Logged
<1>4. PICK n \in Nat, m \in Nat : n = Cardinality(Logged) /\ m = Cardinality(Capturing)
  BY LoggedFinite
<1>5. IsFiniteSet(Capturing)
  BY DEF Observed
<1>6. PICK b \in Nat : /\ IsFiniteSet(Capturing \cup {c})
                       /\ Cardinality(Capturing \cup {c}) = b /\ b <= m + 1
  <2>1. IsFiniteSet(Capturing \cup {c})
        /\ Cardinality(Capturing \cup {c}) = IF c \in Capturing THEN m ELSE m + 1
    BY <1>4, <1>5, FS_AddElement
  <2> QED
    BY <2>1
<1>7. PICK a \in Nat : IsFiniteSet(D) /\ Cardinality(D) = a /\ a <= b
  BY <1>2, <1>6, FS_Subset, FS_CardinalityType
<1>8. n + m <= added
  BY <1>4 DEF Observed
<1>9. n + a <= added + 1
  BY <1>6, <1>7, <1>8
<1>10. IsSeq(log')
  BY DEF Observed
<1> QED
  BY <1>1, <1>3, <1>4, <1>7, <1>9, <1>10 DEF Observed

\* Another command than an XADD is executed, a PUBLISH too.
LEMMA ObservedOther ==
  ASSUME Observed, added' = added, NEW e, e.by # "XADD", log' = log \/ log' = Append(log, e),
         \A c \in Clients : conn'[c].capture = conn[c].capture
  PROVE  Observed'
<1>1. Capturing' = Capturing
  BY DEF Capturing
<1>2. CASE log' = log
  BY <1>2, ObservedSame
<1>3. CASE log' = Append(log, e)
  <2>1. PICK lg : lg = log' /\ Appended(lg, log, e)
    BY <1>3, AppendIsSeq DEF Observed
  <2>2. PICK l \in Nat : l = Len(log)
    BY SeqFacts DEF Observed
  <2>3. IsSeq(lg) /\ Len(lg) = l + 1 /\ lg[l + 1] = e /\ \A i \in 1 .. l : lg[i] = log[i]
    BY <2>1, <2>2 DEF Appended
  <2>4. {i \in 1 .. l + 1 : lg[i].by = "XADD"} = {i \in 1 .. l : log[i].by = "XADD"}
    <3>1. \A i \in 1 .. l + 1 : i \in 1 .. l \/ i = l + 1
      OBVIOUS
    <3>2. \A i \in 1 .. l : i \in 1 .. l + 1
      OBVIOUS
    <3> QED
      BY <2>3, <3>1, <3>2
  <2>5. Logged' = Logged
    BY <2>1, <2>2, <2>3, <2>4 DEF Logged
  <2>6. IsSeq(log')
    BY <2>1, <2>3
  <2> QED
    BY <1>1, <2>5, <2>6 DEF Observed
<1> QED
  BY <1>2, <1>3

\* A payload that was captured is sent to the harness.
LEMMA ObservedFinish ==
  ASSUME Observed, added \in Nat, added' = added, NEW e, log' = Append(log, e),
         NEW c \in Clients, conn[c].capture # None, conn'[c].capture = None,
         \A d \in Clients : d # c => conn'[d].capture = conn[d].capture
  PROVE  Observed'
<1>1. Capturing' = Capturing \ {c} /\ c \in Capturing
  BY DEF Capturing
<1>2. PICK n \in Nat, m \in Nat : n = Cardinality(Logged) /\ m = Cardinality(Capturing)
  BY LoggedFinite
<1>3. PICK lg : lg = log' /\ Appended(lg, log, e)
  BY AppendIsSeq DEF Observed
<1>4. PICK l \in Nat : l = Len(log)
  BY SeqFacts DEF Observed
<1>5. IsSeq(lg) /\ Len(lg) = l + 1 /\ \A i \in 1 .. l : lg[i] = log[i]
  BY <1>3, <1>4 DEF Appended
<1>6. PICK L : L = Logged'
  OBVIOUS
<1>7. L \subseteq Logged \cup {l + 1}
  <2>1. L = {i \in 1 .. l + 1 : lg[i].by = "XADD"}
    BY <1>3, <1>5, <1>6 DEF Logged
  <2>2. Logged = {i \in 1 .. l : log[i].by = "XADD"}
    BY <1>4 DEF Logged
  <2>3. \A i \in 1 .. l + 1 : i \in 1 .. l \/ i = l + 1
    OBVIOUS
  <2> QED
    BY <1>5, <2>1, <2>2, <2>3
<1>8. PICK b \in Nat : /\ IsFiniteSet(Logged \cup {l + 1})
                       /\ Cardinality(Logged \cup {l + 1}) = b /\ b <= n + 1
  <2>1. IsFiniteSet(Logged \cup {l + 1})
        /\ Cardinality(Logged \cup {l + 1}) = IF l + 1 \in Logged THEN n ELSE n + 1
    BY <1>2, LoggedFinite, FS_AddElement
  <2> QED
    BY <2>1
<1>9. PICK a \in Nat : Cardinality(L) = a /\ a <= b
  BY <1>7, <1>8, FS_Subset, FS_CardinalityType
<1>10. IsFiniteSet(Capturing \ {c}) /\ Cardinality(Capturing \ {c}) = m - 1
  BY <1>1, <1>2, FS_RemoveElement DEF Observed
<1>11. n + m <= added
  BY <1>2 DEF Observed
<1>12. a + (m - 1) <= added
  BY <1>8, <1>9, <1>11
<1>13. IsSeq(log')
  BY <1>3, <1>5
<1> QED
  BY <1>1, <1>6, <1>9, <1>10, <1>12, <1>13 DEF Observed

-----------------------------------------------------------------------------
(* The actions *)

\* What was known of a connection is, unless a character was torn.
LEMMA SameSplit ==
  ASSUME NEW k, NEW w, NEW cmds, NEW n, AnyConn(k, w, cmds, n),
         NEW r, NEW v, NEW m, Fields(r), r.split = k.split,
         ConnOK(k, w, cmds, n) => ConnOK(r, v, cmds, m)
  PROVE  AnyConn(r, v, cmds, m)
BY DEF AnyConn, Sound

\* An action of one connection, during which the stream may grow
LEMMA OneConnection ==
  ASSUME IInv, NEW c \in Clients, NEW r, NEW v, NEW n \in Nat, added <= n,
         conn' = [conn EXCEPT ![c] = r], wire' = [wire EXCEPT ![c] = v],
         script' = script, added' = n,
         AnyConn(r, v, script[c], n), Observed'
  PROVE  IInv'
<1>1. /\ conn = [d \in Clients |-> conn[d]] /\ wire = [d \in Clients |-> wire[d]]
      /\ added \in Nat /\ script \in Scripts
  BY DEF IInv
<1>2. /\ conn' = [d \in Clients |-> conn'[d]]
      /\ wire' = [d \in Clients |-> wire'[d]]
  BY <1>1
<1>3. ASSUME NEW d \in Clients
      PROVE  AnyConn(conn'[d], wire'[d], script[d], n)
  <2>1. CASE d = c
    <3>1. conn'[d] = r /\ wire'[d] = v
      BY <1>1, <2>1
    <3> QED
      BY <2>1, <3>1
  <2>2. CASE d # c
    <3>1. conn'[d] = conn[d] /\ wire'[d] = wire[d]
      BY <1>1, <2>2
    <3>2. AnyConn(conn[d], wire[d], script[d], added)
      BY DEF IInv
    <3>3. AnyConn(conn[d], wire[d], script[d], n)
      <4>1. ConnOK(conn[d], wire[d], script[d], added)
              => ConnOK(conn[d], wire[d], script[d], n)
        BY <1>1, ConnAdded
      <4> QED
        BY <3>2, <4>1 DEF AnyConn
    <3> QED
      BY <3>1, <3>3
  <2> QED
    BY <2>1, <2>2
<1>4. added' \in Nat /\ script' \in Scripts
  BY <1>1
<1>5. \A d \in Clients : AnyConn(conn'[d], wire'[d], script'[d], added')
  BY <1>3
<1> QED
  BY <1>2, <1>4, <1>5 DEF IInv

\* What the inductive invariant says of one client
LEMMA ScriptFacts ==
  ASSUME IInv, NEW c \in Clients
  PROVE  /\ AreCommands(script[c]) /\ AnyConn(conn[c], wire[c], script[c], added)
         /\ added \in Nat /\ added <= added
         /\ wire = [wire EXCEPT ![c] = wire[c]] /\ Observed
<1>1. AreCommands(script[c])
  BY MockAssumption DEF IInv, AreCommands
<1>2. added \in Nat /\ added <= added
  BY DEF IInv
<1>3. wire = [d \in Clients |-> wire[d]]
  BY DEF IInv
<1>4. wire = [wire EXCEPT ![c] = wire[c]]
  BY <1>3
<1> QED
  BY <1>1, <1>2, <1>4 DEF IInv

\* Only the connection of c changes, and not what it captures.
LEMMA OneQuiet ==
  ASSUME IInv, NEW c \in Clients, NEW r, NEW v,
         conn' = [conn EXCEPT ![c] = r], wire' = [wire EXCEPT ![c] = v],
         r.capture = conn[c].capture, script' = script, added' = added, log' = log,
         AnyConn(r, v, script[c], added)
  PROVE  IInv'
<1>1. \A d \in Clients : conn'[d].capture = conn[d].capture
  <2>1. conn = [d \in Clients |-> conn[d]]
    BY DEF IInv
  <2>2. \A d \in Clients : conn'[d] = IF d = c THEN r ELSE conn[d]
    BY <2>1
  <2> QED
    BY <2>2
<1>2. Observed'
  BY <1>1, ScriptFacts, ObservedSame
<1> QED
  BY <1>2, ScriptFacts, OneConnection

\* No command has been sent, and the stream is empty.
LEMMA InitConn ==
  ASSUME NEW cmds, AreCommands(cmds), NEW e, e = <<>>, NEW k, k = Connection
  PROVE  ConnOK(k, e, cmds, 0)
<1>1. IsSeq(e) /\ Len(e) = 0
  BY EmptyIsSeq, Zenon
<1>2. /\ k.task = "none" /\ k.pending = e /\ k.queue = e /\ k.capture = None /\ k.responses = e
      /\ k.done = e /\ k.split = FALSE /\ k.sent = 0 /\ k.answered = 0
      /\ k.last = Dollar /\ k.got = e
      /\ k = [task |-> k.task, pending |-> k.pending, queue |-> k.queue,
              capture |-> k.capture, responses |-> k.responses, done |-> k.done,
              split |-> k.split, closed |-> k.closed, sent |-> k.sent,
              answered |-> k.answered, last |-> k.last, got |-> k.got]
  BY DEF Connection
<1>3. Shape(k)
  BY <1>1, <1>2 DEF Shape, Fields, Lists
<1>4. PICK no : no = k.split
  OBVIOUS
<1>5. Flow(k, e, cmds)
  <2>1. Live(k)
    BY <1>2 DEF Live
  <2>2. Commands(e, cmds, 0, no)
    BY <1>1 DEF Commands
  <2>3. PICK b : b = Start(cmds)[0 + 1]
    OBVIOUS
  <2>4. b = 0 /\ 0 \in 0 .. Len(cmds) /\ 0 \in 0 .. 0
    BY <2>3, StartFacts DEF AreCommands
  <2>5. FitsFrom(e, cmds, b, no) /\ FitsFrom(e, cmds, b + Len(e), FALSE) /\ ContOK(e, no)
    BY <1>1 DEF FitsFrom, ContOK
  <2>6. b + Len(e) + Len(e) = b
    BY <1>1, <2>4
  <2>7. Stream(e, e, cmds, 0, 0, no)
    BY <1>1, <2>3, <2>4, <2>5, <2>6 DEF Stream
  <2>8. Len(e) + Len(e) = 0 /\ Len(e) <= 0
    BY <1>1
  <2> QED
    BY <1>1, <1>2, <1>4, <2>1, <2>2, <2>7, <2>8 DEF Flow
<1>6. Answers(k, cmds)
  BY <1>1, <1>2 DEF Answers
<1>7. Has(k.got, k.last, 0)
  BY <1>1, <1>2 DEF Has
<1>8. Asks(k, e, 0)
  BY <1>1, <1>2 DEF Asks, HeadsAsk, CommandsAsk, ResponsesTell
<1> QED
  BY <1>3, <1>5, <1>6, <1>7, <1>8 DEF ConnOK

\* The server starts with no connection, no entry and nothing observed.
LEMMA InitIInv == Init => IInv
<1> SUFFICES ASSUME Init
             PROVE  IInv
  OBVIOUS
<1>1. /\ script \in Scripts /\ added = 0
      /\ conn = [c \in Clients |-> conn[c]] /\ wire = [c \in Clients |-> wire[c]]
      /\ \A c \in Clients : conn[c] = Connection /\ wire[c] = <<>>
  BY DEF Init
<1>2. Observed
  <2>1. IsSeq(log) /\ Len(log) = 0
    BY EmptyIsSeq, Zenon DEF Init
  <2>2. Logged = {}
    BY <2>1 DEF Logged
  <2>3. Connection.capture = None
    BY DEF Connection
  <2>4. Capturing = {}
    BY <1>1, <2>3 DEF Capturing
  <2>5. IsFiniteSet({}) /\ Cardinality({}) = 0
    BY FS_EmptySet
  <2> QED
    BY <1>1, <2>1, <2>2, <2>4, <2>5 DEF Observed
<1>3. ASSUME NEW c \in Clients
      PROVE  AnyConn(conn[c], wire[c], script[c], 0)
  <2>1. AreCommands(script[c])
    BY <1>1, MockAssumption DEF AreCommands
  <2>2. ConnOK(conn[c], wire[c], script[c], 0)
    BY <1>1, <2>1, InitConn
  <2> QED
    BY <2>2 DEF AnyConn, ConnOK, Shape
<1> QED
  BY <1>1, <1>2, <1>3 DEF IInv

\* A client sends a command.
LEMMA SendKeeps ==
  ASSUME IInv, NEW c \in Clients, Send(c)
  PROVE  IInv'
<1>1. PICK k, w, cmds : k = conn[c] /\ w = wire[c] /\ cmds = script[c]
  OBVIOUS
<1>2. PICK f : f = Frame([cmds[k.sent + 1] EXCEPT !.id = k.last])
  OBVIOUS
<1>3. PICK r : r = [k EXCEPT !.sent = @ + 1]
  OBVIOUS
<1>4. /\ conn' = [conn EXCEPT ![c] = r] /\ wire' = [wire EXCEPT ![c] = w \o f]
      /\ script' = script /\ added' = added /\ log' = log
  BY <1>1, <1>2, <1>3 DEF Send, harnessVars
<1>5. /\ Live(k) /\ ~k.closed /\ k.sent < Len(cmds)
      /\ Variant(cmds[k.sent + 1]) = "XREAD" => k.answered = k.sent
  BY <1>1 DEF Send, Live
<1>6. AreCommands(cmds) /\ AnyConn(k, w, cmds, added)
  BY <1>1, ScriptFacts
<1>7. ConnOK(k, w, cmds, added) => ConnOK(r, w \o f, cmds, added)
  BY <1>2, <1>3, <1>5, <1>6, ConnSend
<1>8. Fields(r) /\ r.split = k.split /\ r.capture = k.capture
  BY <1>3, <1>6 DEF AnyConn, Fields
<1>9. AnyConn(r, w \o f, cmds, added)
  BY <1>6, <1>7, <1>8, SameSplit
<1> QED
  BY <1>1, <1>4, <1>8, <1>9, OneQuiet

\* A client closes its connection.
LEMMA HangUpKeeps ==
  ASSUME IInv, NEW c \in Clients, HangUp(c)
  PROVE  IInv'
<1>1. PICK k : k = conn[c]
  OBVIOUS
<1>2. PICK r : r = [k EXCEPT !.closed = TRUE]
  OBVIOUS
<1>3. /\ conn' = [conn EXCEPT ![c] = r] /\ wire' = wire
      /\ script' = script /\ added' = added /\ log' = log
  BY <1>1, <1>2 DEF HangUp, harnessVars
<1>4. AnyConn(k, wire[c], script[c], added) /\ wire' = [wire EXCEPT ![c] = wire[c]]
  BY <1>1, <1>3, ScriptFacts
<1>5. ConnOK(k, wire[c], script[c], added) => ConnOK(r, wire[c], script[c], added)
  BY <1>2, ConnHangUp
<1>6. Fields(r) /\ r.split = k.split /\ r.capture = k.capture
  BY <1>2, <1>4 DEF AnyConn, Fields
<1>7. AnyConn(r, wire[c], script[c], added)
  BY <1>4, <1>5, <1>6, SameSplit
<1> QED
  BY <1>1, <1>3, <1>4, <1>6, <1>7, OneQuiet

\* The listener accepts a connection.
LEMMA AcceptKeeps ==
  ASSUME IInv, NEW c \in Clients, Accept(c)
  PROVE  IInv'
<1>1. PICK k : k = conn[c]
  OBVIOUS
<1>2. PICK r : r = [k EXCEPT !.task = "open"]
  OBVIOUS
<1>3. /\ conn' = [conn EXCEPT ![c] = r] /\ wire' = wire
      /\ script' = script /\ added' = added /\ log' = log
  BY <1>1, <1>2 DEF Accept, harnessVars
<1>4. AnyConn(k, wire[c], script[c], added) /\ wire' = [wire EXCEPT ![c] = wire[c]]
  BY <1>1, <1>3, ScriptFacts
<1>5. Live(k)
  BY <1>1 DEF Accept, Live
<1>6. ConnOK(k, wire[c], script[c], added) => ConnOK(r, wire[c], script[c], added)
  BY <1>2, <1>5, ConnAccept
<1>7. Fields(r) /\ r.split = k.split /\ r.capture = k.capture
  BY <1>2, <1>4 DEF AnyConn, Fields
<1>8. AnyConn(r, wire[c], script[c], added)
  BY <1>4, <1>6, <1>7, SameSplit
<1> QED
  BY <1>1, <1>3, <1>4, <1>7, <1>8, OneQuiet

\* The task ends, by the token or because the connection was reset.
LEMMA EndKeeps ==
  ASSUME IInv, NEW c \in Clients, Stop(c) \/ Fail(c)
  PROVE  IInv'
<1>1. PICK k : k = conn[c]
  OBVIOUS
<1>2. PICK rs : rs = IF Stop(c) THEN k.responses ELSE <<>>
  OBVIOUS
<1>3. PICK r : r = [k EXCEPT !.task = "ended", !.responses = rs]
  OBVIOUS
<1>4. AnyConn(k, wire[c], script[c], added) /\ wire = [wire EXCEPT ![c] = wire[c]]
  BY <1>1, ScriptFacts
<1>5. k = [task |-> k.task, pending |-> k.pending, queue |-> k.queue,
           capture |-> k.capture, responses |-> k.responses, done |-> k.done,
           split |-> k.split, closed |-> k.closed, sent |-> k.sent,
           answered |-> k.answered, last |-> k.last, got |-> k.got]
  BY <1>4 DEF AnyConn, Fields
<1>6. /\ wire' = wire /\ script' = script /\ added' = added /\ log' = log
      /\ k.queue = <<>> /\ k.capture = None
  BY <1>1 DEF Stop, Stops, Selecting, Fail, Idle, harnessVars
<1>7. conn' = [conn EXCEPT ![c] = r]
  <2>1. CASE Stop(c)
    <3>1. conn' = [conn EXCEPT ![c] = [k EXCEPT !.task = "ended"]]
      BY <1>1, <2>1 DEF Stop
    <3>2. rs = k.responses
      BY <1>2, <2>1
    <3>3. r = [k EXCEPT !.task = "ended"]
      BY <1>3, <1>5, <3>2
    <3> QED
      BY <3>1, <3>3
  <2>2. CASE ~Stop(c)
    <3>1. rs = <<>>
      BY <1>2, <2>2
    <3>2. conn' = [conn EXCEPT ![c].task = "ended", ![c].responses = <<>>]
      BY <2>2 DEF Fail
    <3>3. conn = [d \in Clients |-> conn[d]]
      BY DEF IInv
    <3> QED
      BY <1>1, <1>3, <3>1, <3>2, <3>3
  <2> QED
    BY <2>1, <2>2
<1>8. ASSUME ConnOK(k, wire[c], script[c], added)
      PROVE  ConnOK(r, wire[c], script[c], added)
  <2>1. CASE rs = k.responses
    <3>1. IsSeq(rs) /\ Lists(rs)
      BY <1>8, <2>1 DEF ConnOK, Shape
    <3> QED
      BY <1>3, <1>6, <1>8, <3>1, ConnEnd
  <2>2. CASE rs = <<>>
    <3>1. IsSeq(rs) /\ Len(rs) = 0
      BY <2>2, EmptyIsSeq, Zenon
    <3>2. Lists(rs)
      BY <3>1 DEF Lists
    <3> QED
      BY <1>3, <1>6, <1>8, <3>1, <3>2, ConnEnd
  <2> QED
    BY <1>2, <2>1, <2>2
<1>9. Fields(r) /\ r.split = k.split /\ r.capture = k.capture
  BY <1>3, <1>5 DEF Fields
<1>10. AnyConn(r, wire[c], script[c], added)
  BY <1>4, <1>8, <1>9, SameSplit
<1>11. wire' = [wire EXCEPT ![c] = wire[c]]
  BY <1>4, <1>6
<1> QED
  BY <1>1, <1>6, <1>7, <1>9, <1>10, <1>11, OneQuiet

\* The harness is told of an XADD.
LEMMA FinishXaddKeeps ==
  ASSUME IInv, NEW c \in Clients, FinishXadd(c)
  PROVE  IInv'
<1>1. PICK k : k = conn[c]
  OBVIOUS
<1>2. PICK r : r = [k EXCEPT !.capture = None]
  OBVIOUS
<1>3. PICK e : log' = Append(log, e)
  BY DEF FinishXadd
<1>4. /\ conn' = [conn EXCEPT ![c] = r] /\ wire' = wire
      /\ script' = script /\ added' = added /\ k.capture # None
  BY <1>1, <1>2 DEF FinishXadd
<1>5. /\ AnyConn(k, wire[c], script[c], added) /\ wire' = [wire EXCEPT ![c] = wire[c]]
      /\ Observed /\ added \in Nat /\ added <= added
  BY <1>1, <1>4, ScriptFacts
<1>6. ConnOK(k, wire[c], script[c], added) => ConnOK(r, wire[c], script[c], added)
  BY <1>2, ConnFinish
<1>7. Fields(r) /\ r.split = k.split /\ r.capture = None
  BY <1>2, <1>5 DEF AnyConn, Fields
<1>8. conn'[c].capture = None /\ \A d \in Clients : d # c => conn'[d].capture = conn[d].capture
  <2>1. conn = [d \in Clients |-> conn[d]]
    BY DEF IInv
  <2>2. \A d \in Clients : conn'[d] = IF d = c THEN r ELSE conn[d]
    BY <1>4, <2>1
  <2> QED
    BY <1>7, <2>2
<1>9. Observed'
  BY <1>1, <1>3, <1>4, <1>5, <1>8, ObservedFinish
<1>10. AnyConn(r, wire[c], script[c], added)
  BY <1>5, <1>6, <1>7, SameSplit
<1> QED
  BY <1>4, <1>5, <1>9, <1>10, OneConnection

\* A chunk is read and parsed.
LEMMA ReadStreamKeeps ==
  ASSUME IInv, NEW c \in Clients, NEW n \in 1 .. Len(wire[c]), ReadStream(c, n)
  PROVE  IInv'
<1>1. PICK k, w, cmds : k = conn[c] /\ w = wire[c] /\ cmds = script[c]
  OBVIOUS
<1>2. AreCommands(cmds) /\ AnyConn(k, w, cmds, added)
  BY <1>1, ScriptFacts
<1>3. Live(k) /\ k.queue = <<>> /\ k.responses = <<>> /\ k.capture = None
  BY <1>1 DEF ReadStream, Takes, Selecting, Idle, Live
<1>4. PICK s, p, v : /\ s = Decode(SubSeq(w, 1, n)) /\ p = k.pending \o s
                     /\ v = SubSeq(w, n + 1, Len(w))
  OBVIOUS
<1>5. PICK g : g = parse_resp_commands(p)
  OBVIOUS
<1>6. PICK q, t : /\ q = IF g.panics THEN <<>> ELSE g.commands
                  /\ t = IF g.panics THEN "panicked" ELSE k.task
  OBVIOUS
<1>7. PICK now : now = (k.split \/ w[n].k = "lead")
  OBVIOUS
<1>8. PICK r : r = [k EXCEPT !.pending = g.rest, !.queue = q, !.task = t, !.split = now]
  OBVIOUS
<1>9. wire' = [wire EXCEPT ![c] = v] /\ script' = script /\ added' = added /\ log' = log
  BY <1>1, <1>4 DEF ReadStream, Takes, harnessVars
<1>10. conn' = [conn EXCEPT ![c] = r]
  <2>1. conn' = [conn EXCEPT ![c].pending = Drained(g),
                             ![c].queue = IF g.panics THEN <<>> ELSE g.commands,
                             ![c].task = IF g.panics THEN "panicked" ELSE @,
                             ![c].split = @ \/ wire[c][n].k = "lead"]
    BY <1>1, <1>4, <1>5 DEF ReadStream
  <2>2. conn = [d \in Clients |-> conn[d]]
    BY DEF IInv
  <2> QED
    BY <1>1, <1>6, <1>7, <1>8, <2>1, <2>2 DEF Drained
<1>11. ASSUME now => Unbroken(cmds), ConnOK(k, w, cmds, added)
       PROVE  ConnOK(r, v, cmds, added)
  <2>1. Stream(k.pending, w, cmds, Len(k.done) + Len(k.queue), k.sent, k.split)
    BY <1>3, <1>11 DEF ConnOK, Flow
  <2>2. IsSeq(k.pending) /\ IsSeq(w) /\ n \in 1 .. Len(w)
    BY <1>1, <2>1 DEF Stream
  <2>3. Decoded(s, w, n)
    BY <1>4, <2>2, DecodeFacts
  <2>4. Joined(p, k.pending, s)
    BY <1>4, <2>2, <2>3, ConcatIsSeq DEF Decoded
  <2>5. Sliced(v, w, n, Len(w))
    <3>1. PICK l \in Nat : l = Len(w)
      BY <2>2, SeqFacts
    <3>2. n \in Nat /\ n <= l
      BY <2>2, <3>1
    <3> QED
      BY <1>4, <2>2, <3>1, <3>2, SliceIsSeq
  <2>6. Tears(now, k, w, n)
    BY <1>7 DEF Tears
  <2>7. Outcome(g, k, q, t)
    BY <1>6 DEF Outcome
  <2> QED
    BY <1>2, <1>3, <1>5, <1>8, <1>11, <2>2, <2>3, <2>4, <2>5, <2>6, <2>7, ConnRead
<1>12. Fields(r) /\ r.split = now /\ r.capture = k.capture
  BY <1>2, <1>8 DEF AnyConn, Fields
<1>13. AnyConn(r, v, cmds, added)
  <2> SUFFICES ASSUME Sound(r, cmds)
               PROVE  ConnOK(r, v, cmds, added)
    BY <1>12 DEF AnyConn
  <2>1. now => Unbroken(cmds)
    BY <1>12 DEF Sound
  <2>2. ~k.split \/ Unbroken(cmds)
    BY <1>7, <2>1
  <2>3. ConnOK(k, w, cmds, added)
    BY <1>2, <2>2 DEF AnyConn, Sound
  <2> QED
    BY <1>11, <2>1, <2>3
<1> QED
  BY <1>1, <1>9, <1>10, <1>12, <1>13, OneQuiet

\* A command is executed.
LEMMA ExecuteKeeps ==
  ASSUME IInv, NEW c \in Clients, Execute(c)
  PROVE  IInv'
<1>1. PICK k, cmd : k = conn[c] /\ cmd = Head(k.queue)
  OBVIOUS
<1>2. PICK a, cap : /\ a = [name |-> cmd.name, entries |-> Entries(cmd)]
                    /\ cap = IF cmd.name = "XADD" THEN cmd.payload ELSE None
  OBVIOUS
<1>3. PICK r : r = [k EXCEPT !.queue = Tail(@), !.capture = cap,
                             !.responses = Append(@, a), !.done = Append(@, cmd)]
  OBVIOUS
<1>4. /\ AreCommands(script[c]) /\ AnyConn(k, wire[c], script[c], added)
      /\ wire = [wire EXCEPT ![c] = wire[c]] /\ Observed /\ added \in Nat
  BY <1>1, ScriptFacts
<1>5. /\ wire' = wire /\ script' = script /\ k.queue # <<>> /\ k.capture = None
      /\ added' = IF cmd.name = "XADD" THEN added + 1 ELSE added
      /\ log' = IF cmd.name = "PUBLISH"
                THEN Append(log, [by |-> cmd.name, text |-> cmd.payload]) ELSE log
  BY <1>1 DEF Execute, Pushes
<1>6. conn' = [conn EXCEPT ![c] = r]
  <2>1. conn' = [conn EXCEPT
              ![c].queue = Tail(@),
              ![c].capture = cap,
              ![c].responses = Append(@, a),
              ![c].done = Append(@, cmd)]
    BY <1>1, <1>2 DEF Execute
  <2>2. conn = [d \in Clients |-> conn[d]]
    BY DEF IInv
  <2> QED
    BY <1>1, <1>3, <2>1, <2>2
<1>7. a.name = cmd.name /\ a.entries = Entries(cmd)
  BY <1>2
<1>8. /\ cmd.name = "XREAD" => IsSeq(a.entries)
      /\ added < Base /\ cmd.name = "XREAD" /\ (cmd.id = Dollar \/ cmd.id \in 1 .. added)
           => Continues(a.entries, cmd.id, added)
  <2>1. cmd.name = "XREAD" => Entries(cmd) = after(cmd.id)
    BY DEF Entries
  <2> QED
    BY <1>4, <1>7, <2>1, AfterContinues
<1>9. ConnOK(k, wire[c], script[c], added) => ConnOK(r, wire[c], script[c], added)
  BY <1>1, <1>3, <1>4, <1>5, <1>7, <1>8, ConnExecute
<1>10. PICK n \in Nat : n = added' /\ added <= n
  BY <1>4, <1>5
<1>11. AnyConn(r, wire[c], script[c], n)
  <2>1. Fields(r) /\ r.split = k.split
    BY <1>3, <1>4 DEF AnyConn, Fields
  <2>2. ConnOK(k, wire[c], script[c], added) => ConnOK(r, wire[c], script[c], n)
    BY <1>4, <1>9, <1>10, ConnAdded
  <2> QED
    BY <1>4, <2>1, <2>2, SameSplit
<1>12. r.capture = cap
  BY <1>3, <1>4 DEF AnyConn, Fields
<1>13. \A d \in Clients : conn'[d] = IF d = c THEN r ELSE conn[d]
  <2>1. conn = [d \in Clients |-> conn[d]]
    BY DEF IInv
  <2> QED
    BY <1>6, <2>1
<1>14. Observed'
  <2>1. CASE cmd.name = "XADD"
    BY <1>4, <1>5, <1>13, <2>1, ObservedPush
  <2>2. CASE cmd.name # "XADD"
    <3>1. \A d \in Clients : conn'[d].capture = conn[d].capture
      BY <1>1, <1>2, <1>5, <1>12, <1>13, <2>2
    <3>2. PICK e : e = [by |-> cmd.name, text |-> cmd.payload]
      OBVIOUS
    <3>3. e.by # "XADD"
      BY <2>2, <3>2
    <3>4. added' = added /\ (log' = log \/ log' = Append(log, e))
      BY <1>5, <2>2, <3>2
    <3> QED
      BY <1>4, <3>1, <3>3, <3>4, ObservedOther
  <2> QED
    BY <2>1, <2>2
<1>15. wire' = [wire EXCEPT ![c] = wire[c]]
  BY <1>4, <1>5
<1> QED
  BY <1>5, <1>6, <1>10, <1>11, <1>14, <1>15, OneConnection

\* A response is written.
LEMMA RespondKeeps ==
  ASSUME IInv, NEW c \in Clients, Respond(c)
  PROVE  IInv'
<1>1. PICK k, a : k = conn[c] /\ a = Head(k.responses)
  OBVIOUS
<1>2. PICK es : es = IF a.name = "XREAD" /\ ~k.closed THEN a.entries ELSE <<>>
  OBVIOUS
<1>3. PICK m, last, rs, got :
        /\ m = IF k.closed THEN k.answered ELSE k.answered + 1
        /\ last = IF es = <<>> THEN k.last ELSE Last(es)
        /\ rs = Tail(k.responses) /\ got = k.got \o es
  OBVIOUS
<1>4. PICK r : r = [k EXCEPT !.responses = rs, !.answered = m, !.last = last, !.got = got]
  OBVIOUS
<1>5. /\ AreCommands(script[c]) /\ AnyConn(k, wire[c], script[c], added)
      /\ wire = [wire EXCEPT ![c] = wire[c]] /\ added \in Nat
  BY <1>1, ScriptFacts
<1>6. /\ wire' = wire /\ script' = script /\ added' = added /\ log' = log
      /\ k.responses # <<>> /\ k.queue = <<>> /\ Live(k)
  BY <1>1 DEF Respond, Idle, Live, harnessVars
<1>7. conn' = [conn EXCEPT ![c] = r]
  <2>1. conn' = [conn EXCEPT
           ![c].responses = Tail(@),
           ![c].answered = IF k.closed THEN @ ELSE @ + 1,
           ![c].last = IF es = <<>> THEN @ ELSE Last(es),
           ![c].got = @ \o es]
    BY <1>1, <1>2 DEF Respond
  <2>2. conn = [d \in Clients |-> conn[d]]
    BY DEF IInv
  <2> QED
    BY <1>1, <1>3, <1>4, <2>1, <2>2
<1>8. k = [task |-> k.task, pending |-> k.pending, queue |-> k.queue,
           capture |-> k.capture, responses |-> k.responses, done |-> k.done,
           split |-> k.split, closed |-> k.closed, sent |-> k.sent,
           answered |-> k.answered, last |-> k.last, got |-> k.got]
  BY <1>5 DEF AnyConn, Fields
<1>9. Fields(r) /\ r.split = k.split /\ r.capture = k.capture
  BY <1>4, <1>8 DEF Fields
<1>10. ASSUME ConnOK(k, wire[c], script[c], added)
       PROVE  ConnOK(r, wire[c], script[c], added)
  <2>1. IsSeq(k.responses) /\ Lists(k.responses) /\ IsSeq(k.got)
    BY <1>10 DEF ConnOK, Shape
  <2>2. PICK l \in Nat : l = Len(k.responses)
    BY <2>1, SeqFacts
  <2>3. l > 0 /\ a = k.responses[1] /\ Sliced(rs, k.responses, 1, l)
    BY <1>1, <1>3, <1>6, <2>1, <2>2, TailIsSeq
  <2>4. IsSeq(rs) /\ Lists(rs)
    <3>1. IsSeq(rs) /\ Len(rs) = l - 1 /\ \A i \in 1 .. l - 1 : rs[i] = k.responses[1 + i]
      BY <2>3 DEF Sliced
    <3>2. \A i \in 1 .. l - 1 : 1 + i \in 1 .. l
      BY <2>2
    <3> QED
      BY <2>1, <2>2, <3>1, <3>2 DEF Lists
  <2>5. IsSeq(es) /\ Joined(got, k.got, es)
    <3>1. CASE a.name = "XREAD" /\ ~k.closed
      <4>1. 1 \in 1 .. Len(k.responses)
        BY <2>2, <2>3
      <4>2. IsSeq(es)
        BY <1>2, <2>1, <2>3, <3>1, <4>1 DEF Lists
      <4> QED
        BY <1>3, <2>1, <4>2, ConcatIsSeq
    <3>2. CASE ~ (a.name = "XREAD" /\ ~k.closed)
      <4>1. es = <<>>
        BY <1>2, <3>2
      <4>2. IsSeq(es)
        BY <4>1, EmptyIsSeq, Zenon
      <4> QED
        BY <1>3, <2>1, <4>2, ConcatIsSeq
    <3> QED
      BY <3>1, <3>2
  <2> QED
    <3>1. CASE k.closed
      <4>1. es = <<>> /\ m = k.answered
        BY <1>2, <1>3, <3>1
      <4>2. last = k.last
        BY <1>3, <4>1
      <4>3. got = k.got
        <5>1. PICK S : k.got \in Seq(S)
          BY <2>1 DEF IsSeq
        <5> QED
          BY <1>3, <4>1, <5>1
      <4>4. r = [k EXCEPT !.responses = rs]
        BY <1>4, <1>8, <4>1, <4>2, <4>3
      <4> QED
        BY <1>5, <1>10, <2>4, <3>1, <4>4, ConnRespondClosed
    <3>2. CASE ~k.closed
      <4>1. r = [k EXCEPT !.responses = rs, !.answered = @ + 1, !.last = last, !.got = got]
        BY <1>3, <1>4, <3>2
      <4>2. /\ a.name = "XREAD" => es = a.entries
            /\ a.name # "XREAD" => es = <<>>
            /\ es = <<>> => last = k.last
            /\ es # <<>> => last = Last(es)
            /\ es # <<>> => got = k.got \o es
        BY <1>2, <1>3, <3>2
      <4>3. Sliced(rs, k.responses, 1, Len(k.responses)) /\ Len(k.responses) > 0
        BY <2>2, <2>3
      <4> QED
        BY <1>5, <1>6, <1>10, <2>3, <2>5, <3>2, <4>1, <4>2, <4>3, ConnRespond, ZenonT(40)
    <3> QED
      BY <3>1, <3>2
<1>11. AnyConn(r, wire[c], script[c], added)
  BY <1>5, <1>9, <1>10, SameSplit
<1>12. wire' = [wire EXCEPT ![c] = wire[c]]
  BY <1>5, <1>6
<1> QED
  BY <1>1, <1>6, <1>7, <1>9, <1>11, <1>12, OneQuiet

\* The listener and the harness touch no connection.
LEMMA HarnessKeeps ==
  ASSUME IInv, UNCHANGED <<script, wire, conn, added, log>>
  PROVE  IInv'
BY DEF IInv, Observed, Logged, Capturing

\* The inductive invariant holds in every reachable state of the server.
THEOREM Invariance == Spec => []IInv
<1>1. IInv /\ [Next]_vars => IInv'
  <2> SUFFICES ASSUME IInv, [Next]_vars
               PROVE  IInv'
    OBVIOUS
  <2>1. ASSUME NEW c \in Clients,
               \/ Send(c) \/ HangUp(c) \/ Accept(c) \/ Stop(c) \/ Fail(c)
               \/ Continue(c) \/ \E n \in 1 .. Len(wire[c]) : ReadStream(c, n)
        PROVE  IInv'
    BY <2>1, SendKeeps, HangUpKeeps, AcceptKeeps, EndKeeps, ExecuteKeeps,
       FinishXaddKeeps, RespondKeeps, ReadStreamKeeps DEF Continue
  <2>2. ASSUME NEW c \in Clients, ReadEof(c)
        PROVE  IInv'
    BY <2>2, HarnessKeeps DEF ReadEof, vars, harnessVars
  <2>3. CASE StopListening \/ (\E payload \in Expected : Check(payload)) \/ Poll
             \/ CheckTimesOut \/ DropHarness
    BY <2>3, HarnessKeeps
       DEF StopListening, Check, Poll, CheckTimesOut, DropHarness, harnessVars
  <2>4. CASE UNCHANGED vars
    BY <2>4, HarnessKeeps DEF vars, harnessVars
  <2> QED
    BY <2>1, <2>2, <2>3, <2>4 DEF Next
<1> QED
  BY InitIInv, <1>1, PTL DEF Spec

\* read_stream may be given the bytes in any chunks: what it executes is what
\* the client sent, for every script and every way to cut it, unless a chunk
\* ends inside a character.  That never alters an array, only a line, if no
\* content of the script has a CRLF; nothing is claimed if one has.
THEOREM Executes == Spec => []ExecutesWhatWasSent
<1>1. IInv => ExecutesWhatWasSent
  <2> SUFFICES ASSUME IInv, NEW c \in Clients, Framed(c), NEW i \in 1 .. Len(conn[c].done)
               PROVE  /\ i <= conn[c].sent
                      /\ conn[c].done[i].name = Variant(script[c][i])
                      /\ \/ conn[c].done[i].payload = from_parts(script[c][i]).payload
                         \/ conn[c].split /\ script[c][i].inline
    BY DEF ExecutesWhatWasSent
  <2>1. ConnOK(conn[c], wire[c], script[c], added)
    BY DEF IInv, AnyConn, Sound, Framed, Unbroken
  <2>2. Flow(conn[c], wire[c], script[c])
    BY <2>1 DEF ConnOK
  <2>3. PICK d \in Nat : d = Len(conn[c].done)
    BY <2>1, SeqFacts DEF ConnOK, Shape
  <2>4. Right(conn[c].done[i], script[c][0 + i], conn[c].split) /\ 0 + i = i
    BY <2>2, <2>3 DEF Flow, Commands
  <2>5. d <= conn[c].sent
    BY <2>2, <2>3 DEF Flow
  <2>6. i <= conn[c].sent
    <3>1. conn[c].sent \in Nat
      BY <2>2 DEF Flow
    <3> QED
      BY <2>3, <2>5, <3>1
  <2> QED
    BY <2>4, <2>6 DEF Right
<1> QED
  BY Invariance, <1>1, PTL

\* A client that follows the stream misses no entry and gets none twice while
\* ids have one digit, whatever else is read, executed and answered meanwhile,
\* under the same condition on its connection.
THEOREM Follows == Spec => []FollowsStream
<1>1. IInv => FollowsStream
  <2> SUFFICES ASSUME IInv, added < Base, NEW c \in Clients, Framed(c),
                      NEW i \in 1 .. Len(conn[c].got)
               PROVE  conn[c].got[i] = conn[c].got[1] + i - 1
    BY DEF FollowsStream
  <2>1. ConnOK(conn[c], wire[c], script[c], added)
    BY DEF IInv, AnyConn, Sound, Framed, Unbroken
  <2> QED
    BY <2>1 DEF ConnOK, Has
<1> QED
  BY Invariance, <1>1, PTL

\* The payload of an XADD reaches the harness after its entry is in the stream,
\* although the lock of the stream is released in between.
THEOREM Stored == Spec => []ObservedIsStored
<1>1. IInv => ObservedIsStored
  <2> SUFFICES ASSUME IInv
               PROVE  Cardinality(Logged) <= added
    BY DEF ObservedIsStored, Logged
  <2>1. PICK n \in Nat, m \in Nat : n = Cardinality(Logged) /\ m = Cardinality(Capturing)
    BY LoggedFinite DEF IInv
  <2>2. n + m <= added /\ added \in Nat
    BY <2>1 DEF IInv, Observed
  <2> QED
    BY <2>1, <2>2
<1> QED
  BY Invariance, <1>1, PTL

-----------------------------------------------------------------------------
(***************************************************************************)
(* MockKafka.  EachTopicOnce is not inductive: SendTopic adds to the       *)
(* channel what it takes to be unknown, which the lookup of an earlier     *)
(* step found.  It is still unknown because the caller has kept the write  *)
(* lock since, and is the only one to hold it (SenderHasLock).             *)
(***************************************************************************)

\* The constants and variables of MockKafka, renamed where MockRedis has the name
CONSTANTS Tests, TopicNames, TopicPrefixes

VARIABLES mockCluster, test, asked, nextTopic, topics, holder, toWorker, inWork, made, failed

Kafka ==
  INSTANCE MockKafka WITH
    Callers <- Tests, Names <- TopicNames,
    cell <- mockCluster, pc <- test, topic <- asked, nextId <- nextTopic,
    known <- topics, writer <- holder, channel <- toWorker,
    taken <- inWork, created <- made, refused <- failed

\* Only the holder of the write lock is about to send, and a topic nobody knows.
SenderHasLock ==
  \A c \in Tests : test[c] = "send" => holder = {c} /\ asked[c] \notin topics

\* The inductive invariant
KafkaInv == Kafka!TypeOK /\ SenderHasLock /\ Kafka!EachTopicOnce

\* The harness starts with no topic known and nobody in create_topic.
LEMMA InitKafkaInv == Kafka!Init => KafkaInv
  BY DEF Kafka!Init, KafkaInv, Kafka!TypeOK, SenderHasLock, Kafka!EachTopicOnce,
         Kafka!Topics

\* with_topics asks for one of the names, new_topic for none yet.
LEMMA AskKeeps ==
  ASSUME KafkaInv, NEW c \in Tests,
         (\E t \in TopicNames : Kafka!WithTopics(c, t)) \/ Kafka!NewTopic(c)
  PROVE  KafkaInv'
<1>1. Kafka!TypeOK'
  BY DEF KafkaInv, Kafka!TypeOK, Kafka!WithTopics, Kafka!NewTopic, Kafka!Topics
<1>2. SenderHasLock'
  BY DEF KafkaInv, Kafka!TypeOK, SenderHasLock, Kafka!WithTopics, Kafka!NewTopic
<1>3. Kafka!EachTopicOnce'
  BY DEF KafkaInv, Kafka!EachTopicOnce, Kafka!WithTopics, Kafka!NewTopic
<1> QED
  BY <1>1, <1>2, <1>3 DEF KafkaInv

\* The start of the cluster touches neither the lock nor the topics.
LEMMA StartKeeps ==
  ASSUME KafkaInv, (\E c \in Tests : Kafka!StartCluster(c)) \/ Kafka!HostKnown
  PROVE  KafkaInv'
BY DEF KafkaInv, Kafka!TypeOK, SenderHasLock, Kafka!EachTopicOnce,
       Kafka!StartCluster, Kafka!HostKnown

\* A caller that is given its name is not yet in create_topic.
LEMMA GetMockClusterKeeps ==
  ASSUME KafkaInv, NEW c \in Tests, NEW prefix \in TopicPrefixes,
         Kafka!GetMockCluster(c, prefix)
  PROVE  KafkaInv'
<1>1. Kafka!TypeOK'
  <2>1. <<prefix, nextTopic>> \in Kafka!Topics
    BY DEF KafkaInv, Kafka!TypeOK, Kafka!Topics
  <2> QED
    BY <2>1 DEF KafkaInv, Kafka!TypeOK, Kafka!GetMockCluster
<1>2. SenderHasLock'
  BY DEF KafkaInv, Kafka!TypeOK, SenderHasLock, Kafka!GetMockCluster
<1>3. Kafka!EachTopicOnce'
  BY DEF KafkaInv, Kafka!EachTopicOnce, Kafka!GetMockCluster
<1> QED
  BY <1>1, <1>2, <1>3 DEF KafkaInv

\* The first lookup, under the read lock, changes nothing but the caller.
LEMMA ReadLookupKeeps ==
  ASSUME KafkaInv, NEW c \in Tests, Kafka!ReadLookup(c)
  PROVE  KafkaInv'
<1>1. Kafka!TypeOK'
  BY DEF KafkaInv, Kafka!TypeOK, Kafka!ReadLookup
<1>2. SenderHasLock'
  BY DEF KafkaInv, Kafka!TypeOK, SenderHasLock, Kafka!ReadLookup
<1>3. Kafka!EachTopicOnce'
  BY DEF KafkaInv, Kafka!EachTopicOnce, Kafka!ReadLookup
<1> QED
  BY <1>1, <1>2, <1>3 DEF KafkaInv

\* The write lock is taken when nobody holds it, so nobody else is sending.
LEMMA WriteLookupKeeps ==
  ASSUME KafkaInv, NEW c \in Tests, Kafka!WriteLookup(c)
  PROVE  KafkaInv'
<1>1. Kafka!TypeOK'
  BY DEF KafkaInv, Kafka!TypeOK, Kafka!WriteLookup
<1>2. SenderHasLock'
  <2>1. \A d \in Tests : test[d] # "send"
    BY DEF KafkaInv, SenderHasLock, Kafka!WriteLookup
  <2> QED
    BY <2>1 DEF KafkaInv, Kafka!TypeOK, SenderHasLock, Kafka!WriteLookup
<1>3. Kafka!EachTopicOnce'
  BY DEF KafkaInv, Kafka!EachTopicOnce, Kafka!WriteLookup
<1> QED
  BY <1>1, <1>2, <1>3 DEF KafkaInv

\* What is sent is not known, hence nowhere yet; no second caller is sending.
LEMMA SendTopicKeeps ==
  ASSUME KafkaInv, NEW c \in Tests, Kafka!SendTopic(c)
  PROVE  KafkaInv'
<1>1. holder = {c} /\ asked[c] \notin topics
  BY DEF KafkaInv, SenderHasLock, Kafka!SendTopic
<1>2. Kafka!TypeOK'
  BY DEF KafkaInv, Kafka!TypeOK, Kafka!SendTopic
<1>3. SenderHasLock'
  <2>1. \A d \in Tests : d # c => test[d] # "send"
    BY <1>1 DEF KafkaInv, SenderHasLock
  <2> QED
    BY <2>1 DEF KafkaInv, Kafka!TypeOK, SenderHasLock, Kafka!SendTopic
<1>4. Kafka!EachTopicOnce'
  BY <1>1 DEF KafkaInv, Kafka!EachTopicOnce, Kafka!SendTopic
<1> QED
  BY <1>2, <1>3, <1>4 DEF KafkaInv

\* The worker passes a topic on from the channel to the cluster.
LEMMA WorkerKeeps ==
  ASSUME KafkaInv, Kafka!BlockingRecv \/ Kafka!CreateTopic
  PROVE  KafkaInv'
<1>1. Kafka!TypeOK'
  BY DEF KafkaInv, Kafka!TypeOK, Kafka!BlockingRecv, Kafka!CreateTopic
<1>2. SenderHasLock'
  BY DEF KafkaInv, SenderHasLock, Kafka!BlockingRecv, Kafka!CreateTopic
<1>3. Kafka!EachTopicOnce'
  BY DEF KafkaInv, Kafka!EachTopicOnce, Kafka!BlockingRecv, Kafka!CreateTopic
<1> QED
  BY <1>1, <1>2, <1>3 DEF KafkaInv

\* The inductive invariant holds in every reachable state of the harness.
THEOREM KafkaInvariance == Kafka!Spec => []KafkaInv
<1>1. KafkaInv /\ [Kafka!Next]_(Kafka!vars) => KafkaInv'
  <2> SUFFICES ASSUME KafkaInv, [Kafka!Next]_(Kafka!vars)
               PROVE  KafkaInv'
    OBVIOUS
  <2>1. ASSUME NEW c \in Tests,
               \/ \E t \in TopicNames : Kafka!WithTopics(c, t)
               \/ Kafka!NewTopic(c)
               \/ Kafka!StartCluster(c)
               \/ \E prefix \in TopicPrefixes : Kafka!GetMockCluster(c, prefix)
               \/ Kafka!ReadLookup(c)
               \/ Kafka!WriteLookup(c)
               \/ Kafka!SendTopic(c)
        PROVE  KafkaInv'
    BY <2>1, AskKeeps, StartKeeps, GetMockClusterKeeps, ReadLookupKeeps,
       WriteLookupKeeps, SendTopicKeeps
  <2>2. CASE Kafka!HostKnown
    BY <2>2, StartKeeps
  <2>3. CASE Kafka!BlockingRecv \/ Kafka!CreateTopic
    BY <2>3, WorkerKeeps
  <2>4. CASE UNCHANGED Kafka!vars
    BY <2>4 DEF Kafka!vars, KafkaInv, Kafka!TypeOK, SenderHasLock, Kafka!EachTopicOnce
  <2> QED
    BY <2>1, <2>2, <2>3, <2>4 DEF Kafka!Next
<1> QED
  BY InitKafkaInv, <1>1, PTL DEF Kafka!Spec

\* The double-checked lookup of create_topic, whose write lock is held until
\* the channel has room, asks the cluster for each topic once, whether or not it
\* can create it, and what the harness takes for known was asked for or is on its
\* way to the worker thread.
THEOREM TopicsOnce == Kafka!Spec => [](Kafka!TypeOK /\ Kafka!EachTopicOnce)
<1>1. KafkaInv => Kafka!TypeOK /\ Kafka!EachTopicOnce
  BY DEF KafkaInv
<1> QED
  BY KafkaInvariance, <1>1, PTL
=============================================================================
