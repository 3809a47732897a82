----------------------------- MODULE MCNlParse -----------------------------
(* Model values for NlParse: the messages the orchestrator may write.      *)
EXTENDS NlParse

\* Sample attributes: clone flags 5, rootless 1 and 0, a three-byte uid
\* map, an empty oom_score_adj, and a type outside the switch.
CloneFlags == [type |-> 27281, value |-> <<5, 0, 0, 0>>]
Rootless1 == [type |-> 27287, value |-> <<1>>]
Rootless0 == [type |-> 27287, value |-> <<0>>]
UidMap == [type |-> 27283, value |-> <<48, 32, 49>>]
OomEmpty == [type |-> 27286, value |-> <<>>]
UnknownAttr == [type |-> 27296, value |-> <<>>]
Samples == {CloneFlags, Rootless1, Rootless0, UidMap, OomEmpty, UnknownAttr}

Lists(S, n) == UNION {[1..k -> S] : k \in 0..n}

\* A message as the orchestrator writes it, with hlen header bytes.
Msg(as, hlen, type, len) ==
    [attrs |-> as, hlen |-> hlen, type |-> type, len |-> len, payload |-> Serialize(as)]
Good(as) == Msg(as, NLMSG_HDRLEN, INIT_MSG, NLMSG_HDRLEN + Len(Serialize(as)))

\* Every list of up to three sample attributes, well encoded; and one list
\* under each broken header: cut short, an error message, a wrong type, a
\* length below the header (u32 wrap) and a length beyond the payload.
WellFormedMsgs ==
    {Good(as) : as \in Lists(Samples, 3)}
    \cup {Msg(<<CloneFlags>>, 8, INIT_MSG, 24), Msg(<<CloneFlags>>, 16, NLMSG_ERROR, 24),
          Msg(<<CloneFlags>>, 16, 3, 24), Msg(<<CloneFlags>>, 16, INIT_MSG, 8),
          Msg(<<CloneFlags>>, 16, INIT_MSG, 28)}

\* Well-encoded lists of one or two known attributes whose first nla_len
\* byte is replaced by 0..12.
CorruptedMsgs ==
    {[m EXCEPT !.payload[1] = n] :
        m \in {Good(as) : as \in Lists({CloneFlags, Rootless1, UidMap, OomEmpty}, 2) \ {<<>>}},
        n \in 0..12}

\* A CLONE_FLAGS and a ROOTFS_PROP attribute whose payload is shorter than
\* the four bytes readint32 takes, encoded as the reference serializer
\* encodes any payload: alone, and after a uid map.
ShortU32 == {[type |-> 27281, value |-> <<>>], [type |-> 27292, value |-> <<7, 0>>]}
ShortFieldMsgs == {Good(<<a>>) : a \in ShortU32} \cup {Good(<<UidMap, a>>) : a \in ShortU32}

MCSizeMod == 2^20
MCU32Mod == 2^24
MCJunk == {0}
=============================================================================
