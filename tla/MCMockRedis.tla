----------------------------- MODULE MCMockRedis -----------------------------
(* Scripts for the model checker: see MockRedis. *)
EXTENDS MockRedis

CONSTANTS c1, c2

Array(word, form, payload) ==
  [word |-> word, form |-> form, inline |-> FALSE, payload |-> payload, id |-> None]

Line(word, form, payload) == [Array(word, form, payload) EXCEPT !.inline = TRUE]

\* Both clients add entries, one with a character of two bytes, and one follows
\* the stream.
AddAndFollow ==
  c1 :> <<Array("XADD", "odd", <<>>), Array("XADD", "full", <<"lead", "cont">>)>>
  @@ c2 :> <<Array("XREAD", "full", <<>>), Array("XADD", "full", <<>>),
             Array("XREAD", "full", <<>>)>>

\* A torn character makes the content end at its CRLF.
Misread ==
  c1 :> <<Array("PUBLISH", "full", <<"lead", "cont", "cr", "lf", "a", "a">>),
          Array("PUBLISH", "short", <<>>)>>
  @@ c2 :> <<Line("XRANGE", "full", <<>>)>>

\* A torn character makes one content too long and spoils a line.
Spoilt ==
  c1 :> <<Array("PUBLISH", "full", <<"lead", "cont", "a">>), Array("SUBSCRIBE", "full", <<>>)>>
  @@ c2 :> <<Line("PUBLISH", "full", <<"lead", "cont">>), Line("XREAD", "short", <<>>)>>

MCScripts == {AddAndFollow, Misread, Spoilt}

MCExpected == {<<"lead", "cont">>}
=============================================================================
