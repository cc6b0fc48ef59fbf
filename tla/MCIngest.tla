------------------------------ MODULE MCIngest ------------------------------
(***************************************************************************)
(* Streams of two tables with at most one record of each kind of trouble,  *)
(* over a ceiling smaller than a chunk.                                    *)
(***************************************************************************)
EXTENDS Ingest

CONSTANTS ta, tb

TwoTables == {ta, tb}

\* Short streams: every placing of two tables and of the fates over three
\* records, the second of which is the large one.
Sized(f, g) == [n \in DOMAIN f |-> [table |-> g[n], size |-> IF n = 2 THEN 2 ELSE 1, fate |-> f[n]]]
ShortStreams == {Sized(f, g) : f \in [1..3 -> Fates], g \in [1..3 -> TwoTables]}

\* Longer ones: four records, the first of table ta, with the writer's refusals.
LongStreams ==
    {Sized(f, g) : f \in [1..4 -> {"good", "refused"}],
                   g \in {g \in [1..4 -> TwoTables] : g[1] = ta}}

MixedStreams == ShortStreams \union LongStreams
=============================================================================
