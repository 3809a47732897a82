------------------------------ MODULE NlParse ------------------------------
(***************************************************************************)
(* nl_parse (nsexec.c): P0 reads the netlink header of the bootstrap       *)
(* message from the init pipe, allocates the declared payload, reads it,   *)
(* and walks the attributes (nla_len:u16, nla_type:u16, payload) at 4-byte *)
(* alignment, setting one field of the configuration per attribute.        *)
(*                                                                         *)
(* The payload is a sequence of bytes (integers 0..255, little-endian) and *)
(* `cur` is the offset of the pointer `current` in the allocation.  size_t *)
(* and the u32 nlmsg_len arithmetic wrap modulo SizeMod and U32Mod.  A     *)
(* read past the allocation is undefined; it yields a byte of Junk.        *)
(***************************************************************************)
EXTENDS Integers, Sequences, SequencesExt

CONSTANTS
    Msgs,       \* what the orchestrator writes to the init pipe
    SizeMod,    \* 2^(width of size_t)
    U32Mod,     \* 2^32
    Junk        \* the byte values a read past the allocation may return

INIT_MSG == 62000
NLMSG_ERROR == 2
NLMSG_HDRLEN == 16
NLA_HDRLEN == 4

\* The attribute types of the switch, CLONE_FLAGS_ATTR (27281) to
\* SHIFTFS_MOUNTS_ATTR (27295), and the configuration field each sets.
FieldNames == <<"cloneflags", "namespaces", "uidmap", "gidmap", "is_setgroup",
                "oom_score_adj", "is_rootless_euid", "uidmappath", "gidmappath",
                "prep_rootfs", "make_parent_priv", "rootfs_prop", "rootfs",
                "parent_mount", "shiftfs_mounts">>
AttrTypes == 27281..27295
FieldOf(t) == FieldNames[t - 27280]
U32Fields == {"cloneflags", "rootfs_prop"}
U8Fields == {"is_setgroup", "is_rootless_euid", "prep_rootfs", "make_parent_priv"}
TextFields == Range(FieldNames) \ (U32Fields \cup U8Fields)

\* A text field: a pointer into the payload (at -1 is NULL) and a length.
Text(at, len) == [at |-> at, len |-> len]

VARIABLES
    msg,        \* the bytes on the init pipe: header fields and payload
    pc,         \* "header", "alloc", "read", "parse", "done" or "bail"
    why,        \* the check that bailed
    size,       \* size = NLMSG_PAYLOAD(&hdr, 0)
    buf,        \* the allocation data[0..size-1] once read
    cur,        \* current - data
    config,     \* struct nlconfig_t
    oob         \* some read of the attribute loop went past data + size

vars == <<msg, pc, why, size, buf, cur, config, oob>>

\* readint8 / readint32: the little-endian value of the w bytes of the
\* memory mem at offset k.
ReadInt(mem, k, w) == LET val[i \in 0..w] == IF i = 0 THEN 0
                                             ELSE val[i - 1] + mem[k + i - 1] * 256^(i - 1)
                      IN val[w]

AlignUnrounded(n) == n

\* NLA_ALIGN(len): (len + 3) & ~3 on a size_t.
Align(n) == (((n + 3) % SizeMod) \div 4) * 4

AdvancePayloadOnly(c, pl) == (c + Align(pl)) % SizeMod

\* current += NLA_HDRLEN; ... current += NLA_ALIGN(payload_len).
Advance(c, pl) == (c + NLA_HDRLEN + Align(pl)) % SizeMod

PayloadSizeSigned(len) == len - NLMSG_HDRLEN

\* NLMSG_PAYLOAD(&hdr, 0): the u32 nlmsg_len minus the header length.
PayloadSize(len) == (len - NLMSG_HDRLEN) % U32Mod

\* The bytes readint32 / readint8 read for a field of type t.
Width(t) == CASE FieldOf(t) \in U32Fields -> 4
              [] FieldOf(t) \in U8Fields  -> 1
              [] OTHER                    -> 0

\* The value an attribute of type t with payload_len pl at offset k stores.
FieldValue(mem, t, k, pl) ==
    CASE FieldOf(t) \in U32Fields -> ReadInt(mem, k, 4)
      [] FieldOf(t) \in U8Fields  -> ReadInt(mem, k, 1)
      [] OTHER                    -> Text(k, pl)

Bail(reason) ==
    /\ pc' = "bail" /\ why' = reason
    /\ UNCHANGED <<msg, size, buf, cur, config, oob>>

-----------------------------------------------------------------------------

Init ==
    /\ msg \in Msgs
    /\ pc = "header" /\ why = "none"
    /\ size = 0 /\ buf = <<>> /\ cur = 0
    /\ config = [f \in Range(FieldNames) |-> IF f \in TextFields THEN Text(-1, 0) ELSE 0]
    /\ oob = FALSE

\* read(fd, &hdr, NLMSG_HDRLEN) and the checks of the header.
ReadHeader ==
    /\ pc = "header"
    /\ \/ msg.hlen # NLMSG_HDRLEN /\ Bail("header")
       \/ msg.hlen = NLMSG_HDRLEN /\ msg.type = NLMSG_ERROR /\ Bail("error")
       \/ msg.hlen = NLMSG_HDRLEN /\ msg.type \notin {NLMSG_ERROR, INIT_MSG} /\ Bail("type")
       \/ /\ msg.hlen = NLMSG_HDRLEN /\ msg.type = INIT_MSG
          /\ size' = PayloadSize(msg.len)
          /\ pc' = "alloc"
          /\ UNCHANGED <<msg, why, buf, cur, config, oob>>

\* malloc(size), which may return NULL.
Alloc ==
    /\ pc = "alloc"
    /\ \/ Bail("malloc")
       \/ pc' = "read" /\ UNCHANGED <<msg, why, size, buf, cur, config, oob>>

\* read(fd, data, size) returns what the orchestrator wrote, up to size.
ReadPayload ==
    /\ pc = "read"
    /\ \/ Len(msg.payload) < size /\ Bail("short")
       \/ /\ Len(msg.payload) >= size
          /\ buf' = SubSeq(msg.payload, 1, size)
          /\ pc' = "parse"
          /\ UNCHANGED <<msg, why, size, cur, config, oob>>

\* One turn of while (current < data + size): read the attribute header at
\* current, skip it, store the field its type selects (or bail on an
\* unknown type), and advance by NLA_ALIGN(payload_len).
ParseAttr ==
    /\ pc = "parse" /\ cur < size
    /\ \E j \in Junk :
         LET mem == [k \in cur..cur + 2 * NLA_HDRLEN |-> IF k < size THEN buf[k + 1] ELSE j]
             nlaLen == ReadInt(mem, cur, 2)
             nlaType == ReadInt(mem, cur + 2, 2)
             payloadLen == (nlaLen - NLA_HDRLEN) % SizeMod
             at == cur + NLA_HDRLEN
         IN \/ /\ nlaType \notin AttrTypes
               /\ pc' = "bail" /\ why' = "attr"
               /\ oob' = (oob \/ cur + NLA_HDRLEN > size)
               /\ UNCHANGED <<msg, size, buf, cur, config>>
            \/ /\ nlaType \in AttrTypes
               /\ config' = [config EXCEPT ![FieldOf(nlaType)] =
                                 FieldValue(mem, nlaType, at, payloadLen)]
               /\ cur' = Advance(cur, payloadLen)
               /\ oob' = (oob \/ cur + NLA_HDRLEN > size \/ at + Width(nlaType) > size)
               /\ UNCHANGED <<msg, pc, why, size, buf>>

\* The loop ends: current >= data + size.
ParseEnd ==
    /\ pc = "parse" /\ cur >= size
    /\ pc' = "done"
    /\ UNCHANGED <<msg, why, size, buf, cur, config, oob>>

\* After "done", nsexec goes on with the configuration; after "bail", P0
\* exits 1.
Stop == pc \in {"done", "bail"} /\ UNCHANGED vars

Next == ReadHeader \/ Alloc \/ ReadPayload \/ ParseAttr \/ ParseEnd \/ Stop

Spec == Init /\ [][Next]_vars /\ WF_vars(Next)

-----------------------------------------------------------------------------
(* Properties *)

\* Every variable keeps to its type.
TypeOK ==
    /\ msg \in Msgs
    /\ pc \in {"header", "alloc", "read", "parse", "done", "bail"}
    /\ why \in {"none", "header", "error", "type", "malloc", "short", "attr"}
    /\ size \in 0..U32Mod - 1 /\ cur \in 0..SizeMod - 1
    /\ buf \in Seq(0..255)
    /\ DOMAIN config = Range(FieldNames)
    /\ oob \in BOOLEAN

\* The reference encoding of an attribute list (spec 4.2): each attribute
\* is nla_len = 4 + payload length, nla_type, the payload, and zero padding
\* to a multiple of 4.
PadLen(n) == ((n + 3) \div 4) * 4
Encode(a) == LET l == NLA_HDRLEN + Len(a.value)
             IN <<l % 256, l \div 256, a.type % 256, a.type \div 256>> \o a.value
                  \o [i \in 1..PadLen(Len(a.value)) - Len(a.value) |-> 0]
Serialize(as) == FlattenSeq([i \in DOMAIN as |-> Encode(as[i])])

\* The reference decoding: the field of each attribute takes the value of
\* the last attribute of its type; a text points at its payload.
LittleEndian(v) == LET val[i \in 0..Len(v)] == IF i = 0 THEN 0
                                                ELSE val[i - 1] + v[i] * 256^(i - 1)
                   IN val[Len(v)]
RECURSIVE DecodeFrom(_, _, _)
DecodeFrom(as, off, cf) ==
    IF as = <<>> THEN cf
    ELSE LET a == Head(as)
             f == FieldOf(a.type)
             v == IF f \in TextFields THEN Text(off + NLA_HDRLEN, Len(a.value))
                  ELSE LittleEndian(a.value)
         IN DecodeFrom(Tail(as), off + Len(Encode(a)), [cf EXCEPT ![f] = v])
Decoded(as) ==
    DecodeFrom(as, 0, [f \in Range(FieldNames) |-> IF f \in TextFields THEN Text(-1, 0) ELSE 0])
HasUnknown(as) == \E i \in DOMAIN as : as[i].type \notin AttrTypes

\* The orchestrator sent the encoding of msg.attrs under a valid header.
WellFormedMsg(m) ==
    /\ m.hlen = NLMSG_HDRLEN /\ m.type = INIT_MSG
    /\ m.len = NLMSG_HDRLEN + Len(m.payload) /\ m.payload = Serialize(m.attrs)

\* Round trip (spec 8): for every message the reference serializer
\* produces, nl_parse either finishes with exactly the configuration the
\* attributes encode, or bails because one attribute type is unknown (or
\* malloc failed); it never skips, merges or misreads an attribute.
ParseMatchesReference ==
    WellFormedMsg(msg) =>
        /\ pc = "done" => ~HasUnknown(msg.attrs) /\ config = Decoded(msg.attrs)
        /\ pc = "bail" => why = "malloc" \/ (why = "attr" /\ HasUnknown(msg.attrs))

\* Spec 4.2: the parser never copies payloads, its pointers reference into
\* the single allocation.  No read of the attribute loop (nla_len and
\* nla_type, readint32, readint8) goes past data + size, and every text
\* field the parse stores lies inside the payload.
InsideAllocation ==
    /\ ~oob
    /\ \A f \in TextFields : config[f].at >= 0 => config[f].at + config[f].len <= size

\* Whatever the orchestrator writes, nl_parse ends: it bails or finishes
\* the attribute loop.
ParseTerminates == <>(pc \in {"done", "bail"})
=============================================================================
