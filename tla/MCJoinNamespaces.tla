------------------------- MODULE MCJoinNamespaces -------------------------
(* A model-checking instance of JoinNamespaces: a host (H) and a container *)
(* (C) with user, mount and network namespaces.  Stage 1 starts in H; the  *)
(* container's /proc/<pid>/ns files are visible only from H's mount        *)
(* namespace, as after setns(mnt) the host's /proc is gone.                *)
EXTENDS JoinNamespaces

MCKinds == {"user", "mnt", "net"}
MCObjs == {"userH", "mntH", "netH", "userC", "mntC", "netC"}
MCKindOf == [o \in MCObjs |-> CASE o \in {"userH", "userC"} -> "user"
                                [] o \in {"mntH", "mntC"} -> "mnt"
                                [] OTHER -> "net"]
MCOwner == [o \in MCObjs |-> IF o \in {"mntC", "netC"} THEN "userC" ELSE "userH"]
MCStart == [user |-> "userH", mnt |-> "mntH", net |-> "netH"]

\* The paths: the container's ns files, a host network namespace bound
\* under /run/netns, and "" (an empty path after the ':').
Files == [p \in {"/proc/C/ns/user", "/proc/C/ns/mnt", "/proc/C/ns/net", "/run/netns/h"} |->
            CASE p = "/proc/C/ns/user" -> "userC"
              [] p = "/proc/C/ns/mnt" -> "mntC"
              [] p = "/proc/C/ns/net" -> "netC"
              [] OTHER -> "netH"]
Paths == DOMAIN Files \cup {""}
MCResolve == [m \in {"mntH", "mntC"} |->
                [p \in Paths |-> IF m = "mntH" /\ p \in DOMAIN Files THEN Files[p] ELSE "nofile"]]

\* Segments: "kind:path" with a kind nsflag knows or "time", which it does
\* not; a kind without ':'; and the empty segment of ",,".
Segments == {[name |-> n, sep |-> TRUE, path |-> p] : n \in MCKinds \cup {"time"}, p \in DOMAIN Files}
            \cup {[name |-> n, sep |-> FALSE, path |-> ""] : n \in {"net"}}
            \cup {[name |-> "net", sep |-> TRUE, path |-> ""], Empty}
MCLists == UNION {[1..n -> Segments] : n \in 0..3}
=============================================================================
