-------------------------- MODULE BootstrapHandoff --------------------------
(***************************************************************************)
(* What the nsexec bootstrap promises the orchestrator (spec sections 2,  *)
(* 4.3 and 8), with the three stages and their sockets hidden.             *)
(*                                                                         *)
(* The bootstrap creates the user and mount namespaces, gets the requested *)
(* id maps written, creates the remaining namespaces together with the     *)
(* container init, reports the pids, and, once the orchestrator has sent  *)
(* its cgroup byte, lets init create the cgroup namespace and return.  At  *)
(* any point the bootstrap may fail; the orchestrator judges it "ok" only  *)
(* if init returned.  Nothing that happened ever un-happens.               *)
(***************************************************************************)
EXTENDS FiniteSets

CONSTANTS
    NS,         \* the namespace kinds of clone_flags
    Configs     \* the requests: [flags: SUBSET NS, wanted: SUBSET {"uid", "gid"}]

VARIABLES
    flags,      \* the namespaces requested
    wanted,     \* the id maps requested
    ns,         \* the namespaces created so far
    maps,       \* the id maps written so far
    init,       \* the container init: "none", "running", "returned", "gone"
    reported,   \* the pid report has reached the orchestrator
    cgroupSent, \* the orchestrator has sent its cgroup byte
    outcome     \* the orchestrator's verdict: "none", "ok", "failed"

avars == <<flags, wanted, ns, maps, init, reported, cgroupSent, outcome>>

Init ==
    /\ \E c \in Configs : flags = c.flags /\ wanted = c.wanted
    /\ ns = {} /\ maps = {}
    /\ init = "none" /\ reported = FALSE /\ cgroupSent = FALSE
    /\ outcome = "none"

\* The first namespaces: user and mount.
CreateFirstNs ==
    /\ ns = {} /\ init = "none"
    /\ flags \cap {"user", "mnt"} # {}
    /\ ns' = flags \cap {"user", "mnt"}
    /\ UNCHANGED <<flags, wanted, maps, init, reported, cgroupSent, outcome>>

\* Id maps are written into the new user namespace, before init exists.
WriteMaps ==
    /\ "user" \in ns /\ init = "none"
    /\ \E S \in SUBSET (wanted \ maps) : S # {} /\ maps' = maps \cup S
    /\ UNCHANGED <<flags, wanted, ns, init, reported, cgroupSent, outcome>>

\* Every namespace but cgroup exists once init does, and with a new user
\* namespace only after all its requested maps are written.
Spawn ==
    /\ init = "none"
    /\ "user" \in flags => wanted \subseteq maps
    /\ ns' = ns \cup (flags \ {"cgroup"})
    /\ init' = "running"
    /\ UNCHANGED <<flags, wanted, maps, reported, cgroupSent, outcome>>

\* The pids reach the orchestrator once init exists.
Report ==
    /\ init # "none" /\ ~reported
    /\ reported' = TRUE
    /\ UNCHANGED <<flags, wanted, ns, maps, init, cgroupSent, outcome>>

\* The orchestrator, having the pids, sends the cgroup byte.
SendCgroup ==
    /\ reported /\ "cgroup" \in flags /\ ~cgroupSent
    /\ cgroupSent' = TRUE
    /\ UNCHANGED <<flags, wanted, ns, maps, init, reported, outcome>>

\* Init creates the cgroup namespace (only after the byte) and returns,
\* only after the pids were reported; or it dies on the way.
Return ==
    /\ init = "running" /\ reported
    /\ "cgroup" \in flags => cgroupSent
    /\ ns' \in {ns, ns \cup (flags \cap {"cgroup"})}
    /\ init' \in {"returned", "gone"}
    /\ UNCHANGED <<flags, wanted, maps, reported, cgroupSent, outcome>>

\* Init dies before returning.
Die ==
    /\ init = "running"
    /\ init' = "gone"
    /\ UNCHANGED <<flags, wanted, ns, maps, reported, cgroupSent, outcome>>

\* The orchestrator's verdict: "ok" only once init has returned.
Judge ==
    /\ outcome = "none"
    /\ outcome' \in IF init = "returned" THEN {"ok", "failed"} ELSE {"failed"}
    /\ UNCHANGED <<flags, wanted, ns, maps, init, reported, cgroupSent>>

Next == CreateFirstNs \/ WriteMaps \/ Spawn \/ Report \/ SendCgroup \/ Return
        \/ Die \/ Judge

\* The orchestrator always reaches a verdict.
Spec == Init /\ [][Next]_avars /\ WF_avars(Judge)

=============================================================================
