--------------------------- MODULE JoinNamespaces ---------------------------
(***************************************************************************)
(* join_namespaces (nsexec.c), called by stage 1 when the config carries   *)
(* NS_PATHS_ATTR: split the "kind:path,kind:path" list with strtok_r, open *)
(* every path, then setns(2) into each in the order given.                 *)
(*                                                                         *)
(* The list is a sequence of comma-separated segments; a segment is a      *)
(* record [name, sep, path] ("" name and no sep for an empty segment).     *)
(* A path is resolved in the mount namespace the process is in when it     *)
(* opens it; an fd names one namespace object.  setns applies the kernel's *)
(* rules: the fd's kind must match a non-zero nstype, joining another      *)
(* namespace needs CAP_SYS_ADMIN in its owning user namespace and in the   *)
(* caller's own, and a process cannot rejoin its current user namespace.   *)
(***************************************************************************)
EXTENDS Integers, Sequences, SequencesExt

CONSTANTS
    Kinds,      \* the namespace kinds nsflag knows
    Objs,       \* the namespace objects
    KindOf,     \* KindOf[o]: the kind of namespace object o
    Owner,      \* Owner[o]: the user namespace that owns o
    HostUser,   \* the initial user namespace
    Start,      \* Start[k]: the namespace of kind k stage 1 starts in
    Resolve,    \* Resolve[m][p]: what path p opens in mount namespace m
    NoFile,     \* Resolve's value for a path that does not exist
    Lists       \* the NS_PATHS lists the orchestrator may send

VARIABLES
    list,       \* config.namespaces
    priv,       \* stage 1 has all capabilities in HostUser (not rootless)
    pc,         \* "tokenize", "open", "setns", "done" or "bail"
    why,        \* the bail message
    tokens,     \* the non-empty segments strtok_r returns, in order
    i,          \* the loop index (num - 1 while opening, i while joining)
    fds,        \* namespaces[]: [obj |-> the open fd's object, flag |-> nstype]
    cur         \* cur[k]: the namespace of kind k the process is in

vars == <<list, priv, pc, why, tokens, i, fds, cur>>

Empty == [name |-> "", sep |-> FALSE, path |-> ""]

\* nsflag(name): the clone flag of a kind name; 0 (here AnyKind, which setns
\* takes as "any kind") for any other name.
AnyKind == "any"
NsFlagRaw(name) == name
NsFlag(name) == IF name \in Kinds THEN name ELSE AnyKind

\* The process has CAP_SYS_ADMIN in user namespace u: it is in u and u is
\* not the host's for a rootless stage 1, or it is in HostUser, the parent
\* and owner of every other user namespace.
CapIn(c, p, u) == IF u = c["user"] THEN u # HostUser \/ p ELSE c["user"] = HostUser

\* setns(fd, flag) succeeds from namespaces c with privilege p.
SetnsOk(c, p, o, flag) ==
    /\ flag \in {AnyKind, KindOf[o]}
    /\ IF KindOf[o] = "user" THEN o # c["user"] /\ CapIn(c, p, o)
       ELSE CapIn(c, p, Owner[o]) /\ CapIn(c, p, c["user"])

Bail(reason) ==
    /\ pc' = "bail" /\ why' = reason
    /\ UNCHANGED <<list, priv, tokens, i, fds, cur>>

-----------------------------------------------------------------------------

Init ==
    /\ list \in Lists /\ priv \in BOOLEAN
    /\ pc = "tokenize" /\ why = "none"
    /\ tokens = <<>> /\ i = 0 /\ fds = <<>>
    /\ cur = Start

\* The first strtok_r and the check "ns paths are empty": strtok_r skips
\* empty segments and returns NULL when no other is left.
Tokenize ==
    /\ pc = "tokenize"
    /\ tokens' = SelectSeq(list, LAMBDA s : s # Empty)
    /\ \/ tokens' = <<>> /\ pc' = "bail" /\ why' = "empty" /\ UNCHANGED i
       \/ tokens' # <<>> /\ pc' = "open" /\ i' = 1 /\ UNCHANGED why
    /\ UNCHANGED <<list, priv, fds, cur>>

\* The mutant's single loop: open each path and setns into it at once.
OpenAndJoin ==
    /\ pc = "open"
    /\ LET t == tokens[i]
           o == Resolve[cur["mnt"]][t.path]
       IN \/ Bail("realloc")
          \/ ~t.sep /\ Bail("parse")
          \/ t.sep /\ o = NoFile /\ Bail("open")
          \/ t.sep /\ o # NoFile /\ ~SetnsOk(cur, priv, o, NsFlag(t.name)) /\ Bail("setns")
          \/ /\ t.sep /\ o # NoFile /\ SetnsOk(cur, priv, o, NsFlag(t.name))
             /\ fds' = Append(fds, [obj |-> o, flag |-> NsFlag(t.name)])
             /\ cur' = [cur EXCEPT ![KindOf[o]] = o]
             /\ IF i = Len(tokens) THEN pc' = "done" /\ i' = i
                ELSE i' = i + 1 /\ UNCHANGED pc
             /\ UNCHANGED <<list, priv, why, tokens>>

\* One turn of the do-while: grow the array (realloc may fail), split the
\* token at its first ':', open the path (in the current mount namespace),
\* and take the next token; after the last, go to the setns loop.
OpenEntry ==
    /\ pc = "open"
    /\ LET t == tokens[i]
           o == Resolve[cur["mnt"]][t.path]
       IN \/ Bail("realloc")
          \/ ~t.sep /\ Bail("parse")
          \/ t.sep /\ o = NoFile /\ Bail("open")
          \/ /\ t.sep /\ o # NoFile
             /\ fds' = Append(fds, [obj |-> o, flag |-> NsFlag(t.name)])
             /\ IF i = Len(tokens) THEN pc' = "setns" /\ i' = 1
                ELSE i' = i + 1 /\ UNCHANGED pc
             /\ UNCHANGED <<list, priv, why, tokens, cur>>

\* for (i = 0; i < num; i++): setns(ns.fd, ns.ns) or bail; close(ns.fd).
\* After the last, free(namespaces) and return.
JoinEntry ==
    /\ pc = "setns"
    /\ LET e == fds[i]
       IN \/ ~SetnsOk(cur, priv, e.obj, e.flag) /\ Bail("setns")
          \/ /\ SetnsOk(cur, priv, e.obj, e.flag)
             /\ cur' = [cur EXCEPT ![KindOf[e.obj]] = e.obj]
             /\ IF i = Len(fds) THEN pc' = "done" /\ i' = i
                ELSE i' = i + 1 /\ UNCHANGED pc
             /\ UNCHANGED <<list, priv, why, tokens, fds>>

\* After "done" stage 1 goes on; after "bail" it exits 1.
Stop == pc \in {"done", "bail"} /\ UNCHANGED vars

Next == Tokenize \/ OpenEntry \/ JoinEntry \/ Stop

Spec == Init /\ [][Next]_vars /\ WF_vars(Next)

-----------------------------------------------------------------------------
(* Properties *)

\* Every variable keeps to its type.
TypeOK ==
    /\ list \in Lists /\ priv \in BOOLEAN
    /\ pc \in {"tokenize", "open", "setns", "done", "bail"}
    /\ why \in {"none", "empty", "realloc", "parse", "open", "setns"}
    /\ i \in 0..Len(tokens) /\ Len(fds) <= Len(tokens)
    /\ \A n \in DOMAIN fds : fds[n].obj \in Objs /\ fds[n].flag \in Kinds \cup {AnyKind}
    /\ \A k \in Kinds : cur[k] \in Objs /\ KindOf[cur[k]] = k

\* The reference (spec 3, invariant 2 and 4.3 P1 step 2): every path of the
\* list names the namespace it names in the mount namespace stage 1 starts
\* in; the joins then take effect one after the other in the list's order.
\* The result is [ok, ns]: whether the list can be joined, and the final
\* namespaces.
Fail == [ok |-> FALSE, ns |-> Start]
RECURSIVE JoinAll(_, _, _)
JoinAll(es, c, p) ==
    IF es = <<>> THEN [ok |-> TRUE, ns |-> c]
    ELSE LET e == Head(es) IN
         IF SetnsOk(c, p, e.obj, e.flag) THEN JoinAll(Tail(es), [c EXCEPT ![KindOf[e.obj]] = e.obj], p)
         ELSE Fail
Reference(l, p) ==
    LET ts == SelectSeq(l, LAMBDA s : s # Empty)
        es == [n \in DOMAIN ts |-> [obj |-> Resolve[Start["mnt"]][ts[n].path],
                                   flag |-> NsFlag(ts[n].name)]]
    IN IF ts = <<>> \/ \E n \in DOMAIN ts : ~ts[n].sep \/ es[n].obj = NoFile
       THEN Fail ELSE JoinAll(es, Start, p)

\* join_namespaces ends in exactly the namespaces the list names, resolved
\* before any setns, and bails only when the list itself cannot be joined
\* (or realloc failed): joining the mount namespace never changes what a
\* later path of the list opens.
JoinMatchesReference ==
    /\ pc = "done" => Reference(list, priv) = [ok |-> TRUE, ns |-> cur]
    /\ pc = "bail" /\ why # "realloc" => ~Reference(list, priv).ok
=============================================================================
