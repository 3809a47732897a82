-------------------------- MODULE MappingToolArgv --------------------------
(***************************************************************************)
(* The argument vector try_mapping_tool (nsexec.c) builds in its forked    *)
(* child before execve(newuidmap/newgidmap): argv[0] is the tool, argv[1]  *)
(* the pid, and the map text is cut in place into one argument per run of  *)
(* non-blank characters, into the fixed array argv[MAX_ARGV].              *)
(*                                                                         *)
(* The map text is a sequence of characters: "d" stands for any character  *)
(* of a number, "sp" and "nl" for the two separators of strpbrk(map,       *)
(* "\n "), and "nul" for a NUL the loop has written; the text ends in NUL  *)
(* after its last character.  An argv slot is Slot("app"), Slot("pid"),   *)
(* Slot("NULL"), Slot("unset") (never written: stack contents) or         *)
(* Arg(i), a pointer to the character at index i.                         *)
(***************************************************************************)
EXTENDS Integers, Sequences, SequencesExt, FiniteSets

CONSTANTS
    MaxArgv,    \* MAX_ARGV, the size of the argv array
    Maps        \* the map texts the orchestrator may send

Chars == {"d", "sp", "nl"}
Sep == {"sp", "nl"}

ASSUME MaxArgv \in Nat /\ MaxArgv >= 2 /\ Maps \subseteq Seq(Chars)

VARIABLES
    map,    \* the map text as sent (the argument of try_mapping_tool)
    buf,    \* the map buffer, with the NULs the loop has written
    pos,    \* the index the pointer `map` of the loop points at
    argv,   \* argv[0..MAX_ARGV-1]
    argc,
    pc      \* "loop" in the while loop, "exec" at execve

vars == <<map, buf, pos, argv, argc, pc>>

Slot(kind) == [kind |-> kind, at |-> 0]
Arg(i) == [kind |-> "arg", at |-> i]

\* *p: the character at index i, NUL past the end of the text.
CharAt(i) == IF i <= Len(buf) THEN buf[i] ELSE "nul"

StrpbrkSpaceOnly(i) == SelectInSubSeq(buf, i, Len(buf), LAMBDA c : c = "sp")

\* strpbrk(p, "\n "): the first separator at or after i, 0 if NUL comes
\* first (the loop only writes NULs before the pointer).
Strpbrk(i) == SelectInSubSeq(buf, i, Len(buf), LAMBDA c : c \in Sep)

SkipSepsPastOne(i) ==
    LET j == SelectInSubSeq(buf, i, Len(buf), LAMBDA c : c \notin Sep)
    IN IF j = 0 THEN Len(buf) + 2 ELSE j + 1

\* p + strspn(p, "\n "): the first index at or after i that is not a
\* separator.
SkipSeps(i) == LET j == SelectInSubSeq(buf, i, Len(buf), LAMBDA c : c \notin Sep)
               IN IF j = 0 THEN Len(buf) + 1 ELSE j

RoomInclusive == argc <= MaxArgv

\* The loop condition, argc < MAX_ARGV.
Room == argc < MaxArgv

-----------------------------------------------------------------------------

Init ==
    /\ map \in Maps
    /\ buf = map
    /\ pos = 1
    /\ argv = [i \in 0..MaxArgv - 1 |-> CASE i = 0 -> Slot("app") [] i = 1 -> Slot("pid")
                                          [] OTHER -> Slot("unset")]
    /\ argc = 2
    /\ pc = "loop"

\* The loop ends at the NUL that ends the text: argv[argc++] = NULL.
ArgvEnd ==
    /\ pc = "loop" /\ Room
    /\ CharAt(pos) = "nul"
    /\ argv' = [argv EXCEPT ![argc] = Slot("NULL")]
    /\ argc' = argc + 1
    /\ pc' = "exec"
    /\ UNCHANGED <<map, buf, pos>>

\* argv[argc++] = map; then cut the argument at the next separator and
\* skip the separators after it, or leave the loop when there is none.
ArgvToken ==
    /\ pc = "loop" /\ Room
    /\ CharAt(pos) # "nul"
    /\ argv' = [argv EXCEPT ![argc] = Arg(pos)]
    /\ argc' = argc + 1
    /\ LET next == Strpbrk(pos)
       IN IF next = 0
          THEN /\ pc' = "exec"
               /\ UNCHANGED <<buf, pos>>
          ELSE /\ buf' = [buf EXCEPT ![next] = "nul"]
               /\ pos' = SkipSeps(next + 1)
               /\ UNCHANGED pc
    /\ UNCHANGED map

\* while (argc < MAX_ARGV) fails: the array is full.
ArgvFull ==
    /\ pc = "loop" /\ ~Room
    /\ pc' = "exec"
    /\ UNCHANGED <<map, buf, pos, argv, argc>>

\* execve(app, argv, envp): the child is replaced by the tool.
Exec == pc = "exec" /\ UNCHANGED vars

Next == ArgvEnd \/ ArgvToken \/ ArgvFull \/ Exec

Spec == Init /\ [][Next]_vars /\ WF_vars(Next)

-----------------------------------------------------------------------------
(* Properties *)

\* Every variable keeps to its type.
TypeOK ==
    /\ map \in Maps
    /\ buf \in Seq(Chars \cup {"nul"}) /\ Len(buf) = Len(map)
    /\ pos \in 1..Len(map) + 1
    /\ argv \in [0..MaxArgv - 1 -> {Slot(k) : k \in {"app", "pid", "NULL", "unset"}}
                                   \cup {Arg(i) : i \in 1..Len(map)}]
    /\ argc \in Nat
    /\ pc \in {"loop", "exec"}

\* argv[argc++] never writes past argv[MAX_ARGV - 1]: however many words the
\* map has, the next free slot argc stays within one past the array's end.
ArgvWritesInBounds == argc <= MaxArgv

\* The words of a text: its maximal runs of non-separators, in order (the
\* reference: spec, try_mapping_tool, "splitting map_text on whitespace").
RECURSIVE Words(_)
Words(s) ==
    LET i == SelectInSeq(s, LAMBDA c : c \in Sep)
    IN CASE s = <<>> -> <<>>
         [] i = 0 -> <<s>>
         [] i = 1 -> Words(Tail(s))
         [] OTHER -> <<SubSeq(s, 1, i - 1)>> \o Words(SubSeq(s, i + 1, Len(s)))

\* The string an argv slot starting at index s points to, in the final buffer.
StrAt(s) ==
    LET e == SelectInSubSeq(buf, s, Len(buf), LAMBDA c : c = "nul")
    IN SubSeq(buf, s, IF e = 0 THEN Len(buf) ELSE e - 1)

\* The arguments the loop stored after the pid, as strings.
Args == LET n == Cardinality({i \in 2..MaxArgv - 1 : argv[i].kind = "arg"})
        IN [k \in 1..n |-> StrAt(argv[k + 1].at)]

\* At execve, every argument the loop stored after the pid is the next word
\* of the map: cutting in place never merges, splits or corrupts a word,
\* whatever the spacing between them.
ArgsArePrefixOfWords == pc = "exec" => IsPrefix(Args, Words(map))

\* At execve, the vector try_mapping_tool built is NULL-terminated right
\* after its last argument, and its arguments after the pid are exactly
\* the words of the map: the tool is given every mapping and nothing else.
ExecArgvIsMapWords ==
    pc = "exec" =>
        /\ argc - 1 \in DOMAIN argv /\ argv[argc - 1] = Slot("NULL")
        /\ Args = Words(map)

=============================================================================
