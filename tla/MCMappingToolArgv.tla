------------------------- MODULE MCMappingToolArgv -------------------------
(* Model-checking instances of MappingToolArgv: the map texts each run    *)
(* feeds to try_mapping_tool.                                              *)
EXTENDS MappingToolArgv

\* A number of one or two digits.
Num == {<<"d">>, <<"d", "d">>}

\* One mapping as the runtime formats it: "%d %d %d\n".
Lines == {a \o <<"sp">> \o b \o <<"sp">> \o c \o <<"nl">> : a, b, c \in Num}
ShortLine == <<"d", "sp", "d", "sp", "d", "nl">>

RECURSIVE Repeat(_, _)
Repeat(l, k) == IF k = 0 THEN <<>> ELSE l \o Repeat(l, k - 1)

\* Maps of one to three mappings with every digit count, and of four and
\* five short mappings (fifteen words: up to argv[16], NULL in argv[17]).
FormattedMaps ==
    Lines \cup {x \o y : x, y \in Lines} \cup {x \o y \o z : x, y, z \in Lines}
          \cup {Repeat(ShortLine, 4), Repeat(ShortLine, 5)}

\* The spec's Scenario C: "0 100000 65536\n1 200000 1", no final newline.
ScenarioCMaps == {<<"d", "sp", "d", "sp", "d", "nl", "d", "sp", "d", "sp", "d">>}

\* Six mappings: eighteen words, as many as argv[2..19] can take.
SixMappingMaps == {Repeat(ShortLine, 6)}

\* The two maps that leave argv without its NULL terminator.
UnterminatedMaps == ScenarioCMaps \cup SixMappingMaps

\* Every text of up to seven characters that does not start with a
\* separator, and maps of six and seven mappings (eighteen and more words).
AnyMaps ==
    { m \in UNION {[1..n -> Chars] : n \in 0..7} : m = <<>> \/ m[1] \notin Sep }
    \cup {Repeat(ShortLine, 6), Repeat(ShortLine, 7)}

MCMaxArgv == 20
=============================================================================
