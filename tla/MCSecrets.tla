------------------------------ MODULE MCSecrets ------------------------------
(* The scans of the run of Secrets: every text that a journal of one or two *)
(* short lines can be cut into blocks at, then the ways a scan is asked for.*)
EXTENDS Secrets

CONSTANTS journal, sidecar, old, s, t, turns, threads

Text(n) == [1..n -> Letters]
Line(bytes) == [step |-> TRUE, bytes |-> bytes]
Meta(bytes) == [step |-> FALSE, bytes |-> bytes]
Cell(table, hints, bytes) == [table |-> table, hints |-> hints, bytes |-> bytes]

(* Two values share the needle "ab", another needle overlaps it, one has a *)
(* character of two bytes, and one is too short.                           *)
Two == [token |-> << <<"a", "b">> >>, key |-> << <<"x">>, <<"a", "b">> >>]
Many == [token |-> << <<"a", "b">> >>, key |-> << <<"x">>, <<"a", "b">> >>,
         pin |-> << <<"a">> >>, long |-> << <<"b", "x", "a">> >>, wide |-> << <<"a", "wide">> >>]
Short == [pin |-> << <<"a">> >>]

OwnerOf == (journal :> journal) @@ (sidecar :> journal) @@ (old :> old)
Everything == {journal, old, s, t}

Ask(keyring, useGrep, maxFiles, period, in, j, side, o, held) ==
  [keyring |-> keyring, useGrep |-> useGrep, maxFiles |-> maxFiles, period |-> period,
   inPeriod |-> in,
   file |-> (journal :> j) @@ (sidecar :> side) @@ (old :> o), cells |-> held]

(* Cut everywhere: the journal alone.                                      *)
Cuts ==
  {Ask(Many, FALSE, 0, FALSE, Everything, <<Line(head), Meta(rest)>>, <<>>, <<>>, <<>>)
     : head \in Text(5), rest \in Text(1)}
  \cup
  {Ask(Many, g, 0, FALSE, Everything, <<Line(<<"x", "a", "hi", "lo">> \o rest)>>, <<>>, <<>>, <<>>)
     : g \in BOOLEAN, rest \in Text(3)}

(* Asked in every way: a value in a step, in a sidecar, in a session of    *)
(* the database, in a row of no session.                                   *)
Ways ==
  {Ask(k, g, max, in # Everything, in, <<Meta(<<"x">>), Line(<<"x", "a", "b">>)>>, side, o,
       <<Cell(turns, <<"row", s>>, <<"a", "b">>), Cell(turns, <<t>>, <<"x", "a", "b">>),
         Cell(threads, <<"row">>, c)>>)
     : k \in {Two, Many, Short}, g \in BOOLEAN, max \in {0, 2},
       in \in {Everything, {journal, s}, {old, t}},
       side \in {<<>>, <<Meta(<<"b", "x", "a">>)>>}, o \in {<<Line(<<"a", "b">>)>>},
       c \in {<<"x">>, <<"a", "b", "a", "b">>}}

Usual == Cuts \cup Ways
Appended == {Line(<<"b", "a", "b">>)}
Inserted == {Cell(turns, <<t>>, <<"a", "b">>)}

(* What a search misses: needles that overlap, one of two bytes cut in two *)
(* blocks, and a row that sqlite does not give.                            *)
One(keyring, useGrep, bytes, held) ==
  {Ask(keyring, useGrep, 0, FALSE, Everything, <<Line(bytes)>>, <<>>, <<>>, held)}
Overlapping ==
  One([token |-> << <<"a", "b">> >>, key |-> << <<"x", "a">> >>], TRUE, <<"x", "a", "b">>, <<>>)
Straddling == One([key |-> << <<"a", "wide">> >>], FALSE, <<"x", "x", "a", "hi", "lo">>, <<>>)
Stored == One([token |-> << <<"a", "b">> >>], FALSE, <<"x">>, <<Cell(turns, <<s>>, <<"a", "b">>)>>)
=============================================================================
