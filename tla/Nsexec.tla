------------------------------- MODULE Nsexec -------------------------------
(***************************************************************************)
(* The container-init bootstrap of libcontainer/nsenter/nsexec.c.          *)
(*                                                                         *)
(* Three processes run the bootstrap: stage 0 ("P0", the parent, which     *)
(* writes the child's id maps and reports pids), stage 1 ("P1", which      *)
(* joins and unshares namespaces and prepares the rootfs) and stage 2      *)
(* ("P2", the container init, the only one that returns to the runtime).   *)
(* They talk over two socketpairs, sync_child_pipe (ends c0, c1) and       *)
(* sync_grandchild_pipe (ends g0, g1), and over the init pipe with the     *)
(* orchestrator (the Go runtime, modelled from the spec: its code is not   *)
(* part of this repository).                                               *)
(*                                                                         *)
(* A socket end stays open while any live process holds it, so a read     *)
(* sees EOF only when no process holds the peer end, and a write to a      *)
(* socket whose peer end nobody holds raises SIGPIPE, which kills the      *)
(* writer before it can run its own error path.                            *)
(*                                                                         *)
(* Each action runs one process from one blocking read to the next; the    *)
(* syscalls in between only touch that process's own state.  A failing    *)
(* syscall (bail: exit(1)) is a fault, at most MaxFaults per behaviour.    *)
(***************************************************************************)
EXTENDS Integers, Sequences, SequencesExt, FiniteSets

CONSTANTS
    Configs,     \* the bootstrap configurations the orchestrator may send
    Paths,       \* the paths that may appear in the shiftfs mount list
    MaxFaults    \* the number of failing syscalls allowed in one behaviour

Procs == {"P0", "P1", "P2"}
Ends == {"c0", "c1", "g0", "g1"}
Peer == [e \in Ends |-> CASE e = "c0" -> "c1" [] e = "c1" -> "c0"
                          [] e = "g0" -> "g1" [] e = "g1" -> "g0"]
\* The namespaces of clone_flags; "pid" stands for every namespace stage 1
\* unshares in its final unshare(2) (pid, net, ipc, uts).
NS == {"user", "mnt", "pid", "cgroup"}
Tokens == {"USERMAP_PLS", "USERMAP_ACK", "RECVPID_PLS", "pid", "RECVPID_ACK",
           "GRANDCHILD", "CHILD_READY"}
Gone == {"none", "exit0", "exit1", "killed"}
MountOps == {"propagation", "private", "bind", "shiftfs"}

\* The fields of struct nlconfig_t the bootstrap's control flow depends on.
ConfigType ==
    [flags: SUBSET NS, rootless: BOOLEAN, setgroup: BOOLEAN, multiMap: BOOLEAN,
     uidmap: BOOLEAN, gidmap: BOOLEAN, uidmappath: BOOLEAN, gidmappath: BOOLEAN,
     prepRootfs: BOOLEAN, makeParentPriv: BOOLEAN, shiftfs: Seq(Paths)]

ASSUME Configs \subseteq ConfigType /\ Configs # {} /\ MaxFaults \in Nat

VARIABLES
    cfg,        \* the parsed configuration (the same in every process)
    pc,         \* the point each process has reached
    p0child,    \* stage 0's variable `child`: stage 1, then stage 2's pid
    chan,       \* chan[e]: bytes written at socket end e, unread at Peer[e]
    holds,      \* the socket ends each process holds open
    toBoot,     \* init pipe, orchestrator to bootstrap
    toOrch,     \* init pipe, bootstrap to orchestrator
    idmap,      \* stage 1's new user namespace: setgroups, uid_map, gid_map
    p1,         \* stage 1's locals: new_userns, its copy of cloneflags,
                \* make_parent_priv_done, shiftfs_mounts_done, and the
                \* shiftfs list buffer strtok_r cuts in place
    mounts,     \* the mount(2) calls stage 1 has made, in order
    nsOwner,    \* which stage unshared each namespace
    orch,       \* the orchestrator
    faults      \* failing syscalls so far

vars == <<cfg, pc, p0child, chan, holds, toBoot, toOrch, idmap, p1, mounts,
          nsOwner, orch, faults>>

-----------------------------------------------------------------------------
(* Helpers *)

HeldIn(h, e) == \E p \in Procs : e \in h[p]
CanRead(e) == chan[Peer[e]] # <<>>
AtEOF(e) == chan[Peer[e]] = <<>> /\ ~HeldIn(holds, Peer[e])
Live(p) == pc[p] \notin Gone
\* A write(2) at end e finds a reader only while some process holds the
\* peer end; otherwise it raises SIGPIPE, which kills the writer.
Writable(h, e) == HeldIn(h, Peer[e])

\* bail(): a failing syscall logs and exits with status 1.
Fault == faults < MaxFaults /\ faults' = faults + 1

\* Process p ends as `how`; the live processes in ks are SIGKILLed with it.
Finish(p, how, ks) ==
    /\ pc' = [q \in Procs |-> IF q = p THEN how
                              ELSE IF q \in ks /\ Live(q) THEN "killed" ELSE pc[q]]
    /\ holds' = [q \in Procs |-> IF q = p \/ (q \in ks /\ Live(q)) THEN {} ELSE holds[q]]

\* The number of tokens strtok_r(list, ",") yields: it stops at the first
\* separator an earlier walk has overwritten with NUL.
StrtokCount(n, buf) ==
    IF n = 0 THEN 0
    ELSE LET k == SelectInSeq(buf, LAMBDA s : s = "nul") IN IF k = 0 THEN n ELSE k

\* A walk that returned tokens 1..k has overwritten the separators after them.
StrtokCut(buf, k) == [i \in DOMAIN buf |-> IF i <= k THEN "nul" ELSE buf[i]]

\* mount_shiftfs: mount every listed path in turn, stopping at the first
\* mount that fails (fail = 0: none fails); returns the new mount log and
\* list buffer.
MountShiftfs(log, buf, fail) ==
    LET n == StrtokCount(Len(cfg.shiftfs), buf)
        last == IF fail = 0 THEN n ELSE fail - 1
    IN [log |-> log \o [i \in 1..last |-> [op |-> "shiftfs", path |-> i]],
        buf |-> StrtokCut(buf, IF fail = 0 THEN n ELSE fail)]

MapResultsIgnoreStatus(present, direct, toolPath) ==
    IF ~present THEN {[mapped |-> FALSE, bail |-> FALSE, fault |-> 0]}
    ELSE IF direct \/ toolPath THEN {[mapped |-> TRUE, bail |-> FALSE, fault |-> 0],
                                     [mapped |-> FALSE, bail |-> FALSE, fault |-> 1]}
    ELSE {[mapped |-> FALSE, bail |-> TRUE, fault |-> 0]}

MapResultsNoFallback(present, direct, toolPath) ==
    IF ~present THEN {[mapped |-> FALSE, bail |-> FALSE, fault |-> 0]}
    ELSE IF direct THEN {[mapped |-> TRUE, bail |-> FALSE, fault |-> 0],
                         [mapped |-> FALSE, bail |-> TRUE, fault |-> 1]}
    ELSE {[mapped |-> FALSE, bail |-> TRUE, fault |-> 0]}

\* update_uidmap / update_gidmap: the outcomes of writing one id map, given
\* whether the kernel lets stage 0 write it directly.
MapResults(present, direct, toolPath) ==
    IF ~present THEN {[mapped |-> FALSE, bail |-> FALSE, fault |-> 0]}
    ELSE IF direct THEN {[mapped |-> TRUE, bail |-> FALSE, fault |-> 0],
                         [mapped |-> FALSE, bail |-> TRUE, fault |-> 1]}
    ELSE IF ~toolPath THEN {[mapped |-> FALSE, bail |-> TRUE, fault |-> 0]}
    ELSE {[mapped |-> TRUE, bail |-> FALSE, fault |-> 0],
          [mapped |-> FALSE, bail |-> TRUE, fault |-> 1]}

\* The kernel accepts a direct write of uid_map from an unprivileged writer
\* only for a single mapping of its own id, and of gid_map only once
\* setgroups is "deny".
UidDirect == ~(cfg.rootless /\ cfg.multiMap)
GidDirect(setgroups) == ~(cfg.rootless /\ (cfg.multiMap \/ setgroups # "deny"))

\* The namespaces stage 1 unshares last: all of its flags but the cgroup one.
UnshareRemaining(flags) == flags \ {"cgroup"}

-----------------------------------------------------------------------------
(* The orchestrator (process_linux.go, not in this repository) *)

OrchSendConfig ==
    /\ orch.pc = "start"
    /\ toBoot' = Append(toBoot, "config")
    /\ orch' = [orch EXCEPT !.pc = "read_pid"]
    /\ UNCHANGED <<cfg, pc, p0child, chan, holds, toOrch, idmap, p1, mounts, nsOwner, faults>>

\* Read the pid JSON line; EOF once no bootstrap process holds the pipe.
OrchReadPid ==
    /\ orch.pc = "read_pid"
    /\ \/ /\ toOrch # <<>>
          /\ toOrch' = Tail(toOrch)
          /\ orch' = [orch EXCEPT !.pc = IF "cgroup" \in cfg.flags THEN "send_cgroup"
                                                                   ELSE "wait_exit",
                                  !.pids = TRUE]
       \/ /\ toOrch = <<>> /\ \A p \in Procs : ~Live(p)
          /\ orch' = [orch EXCEPT !.pc = "done", !.result = "failed"]
          /\ UNCHANGED toOrch
    /\ UNCHANGED <<cfg, pc, p0child, chan, holds, toBoot, idmap, p1, mounts, nsOwner, faults>>

\* Once cgroup membership is applied, hand over the createCgroupns byte.
OrchSendCgroup ==
    /\ orch.pc = "send_cgroup"
    /\ toBoot' = Append(toBoot, "CREATECGROUPNS")
    /\ orch' = [orch EXCEPT !.pc = "wait_exit", !.cgroupSent = TRUE]
    /\ UNCHANGED <<cfg, pc, p0child, chan, holds, toOrch, idmap, p1, mounts, nsOwner, faults>>

\* The orchestrator's error path when applying cgroup membership fails:
\* it sends no byte, closes its end of the init pipe and waits for stage 0.
OrchAbortCgroup ==
    /\ orch.pc = "send_cgroup"
    /\ Fault
    /\ orch' = [orch EXCEPT !.pc = "wait_exit"]
    /\ UNCHANGED <<cfg, pc, p0child, chan, holds, toBoot, toOrch, idmap, p1, mounts, nsOwner>>

\* Wait for stage 0 and judge the bootstrap by its exit status.
OrchWaitExit ==
    /\ orch.pc = "wait_exit"
    /\ pc["P0"] \in {"exit0", "exit1", "killed"}
    /\ orch' = [orch EXCEPT !.pc = "done",
                            !.result = IF pc["P0"] = "exit0" THEN "ok" ELSE "failed"]
    /\ UNCHANGED <<cfg, pc, p0child, chan, holds, toBoot, toOrch, idmap, p1, mounts, nsOwner, faults>>

\* A bootstrap process is SIGKILLed from outside (the OOM killer, an
\* operator) before it is done; nsexec.c:727 notes that child deaths are
\* not dealt with, so only the socket EOFs tell the others.
Crash(p) ==
    /\ Live(p) /\ pc[p] # "returned"
    /\ Fault
    /\ Finish(p, "killed", {})
    /\ UNCHANGED <<cfg, p0child, chan, toBoot, toOrch, idmap, p1, mounts, nsOwner, orch>>

-----------------------------------------------------------------------------
(* Stage 0: the parent *)

\* nsexec() up to the stage-0 loop: log and init pipes, the cloned-binary
\* guard, nl_parse (a blocking read of the config), oom_score_adj "-999",
\* non-dumpable, the two socketpairs and clone_parent(JUMP_CHILD); stage 1
\* inherits all four socket ends, then stage 0 closes c0.
ParentStart ==
    /\ pc["P0"] = "start"
    /\ toBoot # <<>>
    /\ toBoot' = Tail(toBoot)
    /\ \/ /\ pc' = [pc EXCEPT !["P0"] = "sync_child", !["P1"] = "start"]
          /\ holds' = [holds EXCEPT !["P0"] = Ends \ {"c0"}, !["P1"] = Ends]
          /\ UNCHANGED faults
       \/ /\ Fault
          /\ Finish("P0", "exit1", {})
    /\ UNCHANGED <<cfg, p0child, chan, toOrch, idmap, p1, mounts, nsOwner, orch>>

\* SYNC_USERMAP_PLS: setgroups "deny" for a rootless single mapping, then
\* uid_map and gid_map (through the mapping tool when the kernel refuses a
\* direct write), then SYNC_USERMAP_ACK.  A failed write of setgroups is a
\* bail before either map (ENOENT, a kernel without the file, is not).

\* update_setgroups(child, SETGROUPS_DENY) is called for a rootless
\* container with a single-entry mapping.
SetgroupsDeny == cfg.rootless /\ ~cfg.setgroup

ParentUsermap ==
    /\ pc["P0"] = "sync_child"
    /\ CanRead("c1") /\ Head(chan["c0"]) = "USERMAP_PLS"
    /\ \E sgFail \in IF SetgroupsDeny THEN BOOLEAN ELSE {FALSE} :
       LET sg == IF SetgroupsDeny /\ ~sgFail THEN "deny" ELSE idmap.setgroups
       IN \E u \in MapResults(cfg.uidmap, UidDirect, cfg.uidmappath),
             g \in MapResults(cfg.gidmap, GidDirect(sg), cfg.gidmappath) :
            LET f == IF sgFail THEN 1 ELSE IF u.bail THEN u.fault ELSE u.fault + g.fault
                stop == sgFail \/ u.bail \/ g.bail
            IN /\ faults + f <= MaxFaults
               /\ faults' = faults + f
               /\ idmap' = [setgroups |-> sg,
                            uid |-> idmap.uid \/ (~sgFail /\ u.mapped),
                            gid |-> idmap.gid \/ (~sgFail /\ ~u.bail /\ g.mapped)]
               /\ IF stop
                  THEN /\ chan' = [chan EXCEPT !["c0"] = Tail(@)]
                       /\ Finish("P0", "exit1", {})
                  ELSE IF Writable(holds, "c1")
                  THEN /\ chan' = [chan EXCEPT !["c0"] = Tail(@),
                                               !["c1"] = Append(@, "USERMAP_ACK")]
                       /\ UNCHANGED <<pc, holds>>
                  ELSE /\ chan' = [chan EXCEPT !["c0"] = Tail(@)]
                       /\ Finish("P0", "killed", {})
    /\ UNCHANGED <<cfg, p0child, toBoot, toOrch, p1, mounts, nsOwner, orch>>

\* SYNC_RECVPID_PLS: read stage 2's pid (stage 1 wrote it with the request),
\* SYNC_RECVPID_ACK, then the pid JSON line to the orchestrator; if that
\* dprintf fails, kill stage 2 and bail.  With stage 1 gone the ACK raises
\* SIGPIPE, so the kill(2) calls of that error path never run.
ParentRecvPid ==
    /\ pc["P0"] = "sync_child"
    /\ CanRead("c1") /\ Head(chan["c0"]) = "RECVPID_PLS"
    /\ chan' = [chan EXCEPT !["c0"] = Tail(Tail(@)), !["c1"] = Append(@, "RECVPID_ACK")]
    /\ p0child' = "P2"
    /\ IF Writable(holds, "c1")
       THEN \/ /\ toOrch' = Append(toOrch, "pids")
               /\ UNCHANGED <<pc, holds, faults>>
            \/ /\ Fault
               /\ Finish("P0", "exit1", {"P2"})
               /\ UNCHANGED toOrch
       ELSE /\ Finish("P0", "killed", {})
            /\ UNCHANGED <<toOrch, faults>>
    /\ UNCHANGED <<cfg, toBoot, idmap, p1, mounts, nsOwner, orch>>

\* SYNC_CHILD_READY from stage 1: switch to the grandchild socket (closing
\* g0) and write SYNC_GRANDCHILD.
ParentChildReady ==
    /\ pc["P0"] = "sync_child"
    /\ CanRead("c1") /\ Head(chan["c0"]) = "CHILD_READY"
    /\ LET h == [holds EXCEPT !["P0"] = @ \ {"g0"}]
       IN IF HeldIn(h, "g0")
          THEN /\ chan' = [chan EXCEPT !["c0"] = Tail(@), !["g1"] = Append(@, "GRANDCHILD")]
               /\ pc' = [pc EXCEPT !["P0"] = "sync_grandchild"]
               /\ holds' = h
          ELSE \* SIGPIPE: stage 2 is gone and nobody reads the socket
               /\ chan' = [chan EXCEPT !["c0"] = Tail(@)]
               /\ pc' = [pc EXCEPT !["P0"] = "killed"]
               /\ holds' = [h EXCEPT !["P0"] = {}]
    /\ UNCHANGED <<cfg, p0child, toBoot, toOrch, idmap, p1, mounts, nsOwner, orch, faults>>

\* The read of the next state from stage 1 sees EOF: bail.
ParentChildGone ==
    /\ pc["P0"] = "sync_child"
    /\ AtEOF("c1")
    /\ Finish("P0", "exit1", {})
    /\ UNCHANGED <<cfg, p0child, chan, toBoot, toOrch, idmap, p1, mounts, nsOwner, orch, faults>>

ParentGrandchildReadyEOFOk ==
    /\ pc["P0"] = "sync_grandchild"
    /\ \/ /\ CanRead("g1") /\ Head(chan["g0"]) = "CHILD_READY"
          /\ chan' = [chan EXCEPT !["g0"] = Tail(@)]
          /\ Finish("P0", "exit0", {})
       \/ /\ AtEOF("g1")
          /\ Finish("P0", "exit0", {})
          /\ UNCHANGED chan
    /\ UNCHANGED <<cfg, p0child, toBoot, toOrch, idmap, p1, mounts, nsOwner, orch, faults>>

\* The read of SYNC_CHILD_READY from stage 2: exit(0), or bail on EOF.
ParentGrandchildReady ==
    /\ pc["P0"] = "sync_grandchild"
    /\ \/ /\ CanRead("g1") /\ Head(chan["g0"]) = "CHILD_READY"
          /\ chan' = [chan EXCEPT !["g0"] = Tail(@)]
          /\ Finish("P0", "exit0", {})
       \/ /\ AtEOF("g1")
          /\ Finish("P0", "exit1", {})
          /\ UNCHANGED chan
    /\ UNCHANGED <<cfg, p0child, toBoot, toOrch, idmap, p1, mounts, nsOwner, orch, faults>>

-----------------------------------------------------------------------------
(* Stage 1: the child *)

Mount(op) == [op |-> op, path |-> 0]

\* The `if (config.prep_rootfs)` block, run before the id maps exist: the
\* propagation of "/", the parent mount made private (which may fail for
\* lack of search permission: privOk), and only if that worked or was not
\* asked for, the bind-to-self mount and a first mount_shiftfs, whose
\* failure at the fail-th path is left for later (shiftfs_mounts_done).
FirstRootfsPrep(q, privOk, fail) ==
    LET done == cfg.makeParentPriv /\ privOk
        l1 == Append(mounts, Mount("propagation")) \o
                (IF done THEN <<Mount("private")>> ELSE <<>>)
        sh == MountShiftfs(Append(l1, Mount("bind")), q.buf, fail)
    IN IF ~cfg.prepRootfs THEN [p1 |-> q, log |-> mounts]
       ELSE IF ~cfg.makeParentPriv \/ done
       THEN [p1 |-> [q EXCEPT !.privDone = done, !.shiftfsDone = (fail = 0), !.buf = sh.buf],
             log |-> sh.log]
       ELSE [p1 |-> q, log |-> l1]

\* Stage 1 after its id maps are in place: the deferred parent-private and
\* bind-to-self mounts, the retried mount_shiftfs, unshare(2) of the
\* remaining namespaces, clone_parent(JUMP_INIT) (stage 2 inherits c0, g0
\* and g1), then SYNC_RECVPID_PLS and the pid; if stage 0 has died the
\* write raises SIGPIPE and stage 2 is left running.  A failing syscall
\* here (setresuid, mount, unshare, clone) is a bail before stage 2 exists.
DeferredMountsNoBind == <<Mount("private")>>
DeferredMountsSwapped == <<Mount("bind"), Mount("private")>>

\* The retry after the id maps when the parent mount could not be made
\* private before them: make it private, then the bind-to-self mount.
DeferredMounts == <<Mount("private"), Mount("bind")>>

ChildFinishSetup(q, log, own, h, c) ==
    LET deferred == cfg.makeParentPriv /\ ~q.privDone
        l1 == IF deferred THEN log \o DeferredMounts ELSE log
        retry == cfg.prepRootfs /\ ~q.shiftfsDone
        sh == MountShiftfs(l1, q.buf, 0)
    IN \/ /\ Fault
          /\ pc' = [pc EXCEPT !["P1"] = "exit1"]
          /\ holds' = [h EXCEPT !["P1"] = {}]
          /\ chan' = c /\ p1' = q /\ mounts' = log /\ nsOwner' = own
       \/ /\ p1' = IF retry THEN [q EXCEPT !.buf = sh.buf] ELSE q
          /\ mounts' = IF retry THEN sh.log ELSE l1
          /\ nsOwner' = [n \in NS |-> IF n \in UnshareRemaining(q.flags) THEN "P1" ELSE own[n]]
          /\ UNCHANGED faults
          /\ IF Writable(h, "c0")
             THEN /\ chan' = [c EXCEPT !["c0"] = @ \o <<"RECVPID_PLS", "pid">>]
                  /\ pc' = [pc EXCEPT !["P1"] = "wait_recvpid", !["P2"] = "start"]
                  /\ holds' = [h EXCEPT !["P2"] = h["P1"]]
             ELSE /\ chan' = c
                  /\ pc' = [pc EXCEPT !["P1"] = "killed", !["P2"] = "start"]
                  /\ holds' = [h EXCEPT !["P1"] = {}, !["P2"] = h["P1"]]

\* Stage 1 up to its first blocking read: close c1, join_namespaces,
\* unshare(CLONE_NEWUSER) and unshare(CLONE_NEWNS) (clearing them from its
\* copy of cloneflags), the first rootfs preparation, then SYNC_USERMAP_PLS;
\* without a new user namespace it runs on through ChildFinishSetup.
ChildStart ==
    /\ pc["P1"] = "start"
    /\ LET h == [holds EXCEPT !["P1"] = @ \ {"c1"}]
           own == [n \in NS |-> IF n \in cfg.flags \cap {"user", "mnt"} THEN "P1"
                                ELSE nsOwner[n]]
           q == [p1 EXCEPT !.newUserns = "user" \in cfg.flags,
                           !.flags = cfg.flags \ {"user", "mnt"}]
       IN \/ /\ Fault
             /\ Finish("P1", "exit1", {})
             /\ UNCHANGED <<chan, p1, mounts, nsOwner>>
          \/ \E privOk \in BOOLEAN, fail \in 0..Len(cfg.shiftfs) :
               LET r == FirstRootfsPrep(q, privOk, fail)
               IN IF q.newUserns
                  THEN /\ p1' = r.p1 /\ mounts' = r.log /\ nsOwner' = own
                       /\ UNCHANGED faults
                       /\ IF Writable(h, "c0")
                          THEN /\ chan' = [chan EXCEPT !["c0"] = Append(@, "USERMAP_PLS")]
                               /\ pc' = [pc EXCEPT !["P1"] = "wait_usermap"]
                               /\ holds' = h
                          ELSE /\ Finish("P1", "killed", {})
                               /\ UNCHANGED chan
                  ELSE ChildFinishSetup(r.p1, r.log, own, h, chan)
    /\ UNCHANGED <<cfg, p0child, toBoot, toOrch, idmap, orch>>

\* The read of SYNC_USERMAP_ACK; EOF is a bail.
ChildMapped ==
    /\ pc["P1"] = "wait_usermap"
    /\ \/ /\ CanRead("c0") /\ Head(chan["c1"]) = "USERMAP_ACK"
          /\ ChildFinishSetup(p1, mounts, nsOwner, holds, [chan EXCEPT !["c1"] = Tail(@)])
       \/ /\ AtEOF("c0")
          /\ Finish("P1", "exit1", {})
          /\ UNCHANGED <<chan, p1, mounts, nsOwner, faults>>
    /\ UNCHANGED <<cfg, p0child, toBoot, toOrch, idmap, orch>>

\* The read of SYNC_RECVPID_ACK, then SYNC_CHILD_READY and exit(0).  On EOF
\* stage 1 kills stage 2 and bails; a write to a closed socket is SIGPIPE.
ChildPidAcked ==
    /\ pc["P1"] = "wait_recvpid"
    /\ \/ /\ CanRead("c0") /\ Head(chan["c1"]) = "RECVPID_ACK"
          /\ IF HeldIn(holds, "c1")
             THEN /\ chan' = [chan EXCEPT !["c1"] = Tail(@), !["c0"] = Append(@, "CHILD_READY")]
                  /\ Finish("P1", "exit0", {})
             ELSE /\ chan' = [chan EXCEPT !["c1"] = Tail(@)]
                  /\ Finish("P1", "killed", {})
       \/ /\ AtEOF("c0")
          /\ Finish("P1", "exit1", {"P2"})
          /\ UNCHANGED chan
    /\ UNCHANGED <<cfg, p0child, toBoot, toOrch, idmap, p1, mounts, nsOwner, orch, faults>>

-----------------------------------------------------------------------------
(* Stage 2: the container init *)

\* SYNC_CHILD_READY to stage 0, close g0, free the config and return to the
\* runtime; with nobody left holding g1 the write raises SIGPIPE.
InitReturn(c) ==
    /\ holds' = [holds EXCEPT !["P2"] = {}]
    /\ IF Writable(holds, "g0")
       THEN /\ chan' = [c EXCEPT !["g0"] = Append(@, "CHILD_READY")]
            /\ pc' = [pc EXCEPT !["P2"] = "returned"]
       ELSE /\ chan' = c
            /\ pc' = [pc EXCEPT !["P2"] = "killed"]

InitStartKeepsG1 ==
    /\ pc["P2"] = "start"
    /\ \/ /\ pc' = [pc EXCEPT !["P2"] = "wait_grandchild"]
          /\ holds' = [holds EXCEPT !["P2"] = {"g0", "g1"}]
          /\ UNCHANGED faults
       \/ /\ Fault
          /\ Finish("P2", "exit1", {})
    /\ UNCHANGED <<cfg, p0child, chan, toBoot, toOrch, idmap, p1, mounts, nsOwner, orch>>

\* Keep g0, close g1, c0 and c1; oom_score_adj under a dumpable window.
InitStart ==
    /\ pc["P2"] = "start"
    /\ \/ /\ pc' = [pc EXCEPT !["P2"] = "wait_grandchild"]
          /\ holds' = [holds EXCEPT !["P2"] = {"g0"}]
          /\ UNCHANGED faults
       \/ /\ Fault
          /\ Finish("P2", "exit1", {})
    /\ UNCHANGED <<cfg, p0child, chan, toBoot, toOrch, idmap, p1, mounts, nsOwner, orch>>

\* The read of SYNC_GRANDCHILD, then setsid, setuid(0), setgid(0) and
\* setgroups; with CLONE_NEWCGROUP wait for the orchestrator's byte.
InitGrandchild ==
    /\ pc["P2"] = "wait_grandchild"
    /\ \/ /\ CanRead("g0") /\ Head(chan["g1"]) = "GRANDCHILD"
          /\ LET c == [chan EXCEPT !["g1"] = Tail(@)]
             IN \/ /\ Fault
                   /\ Finish("P2", "exit1", {})
                   /\ chan' = c
                \/ /\ "cgroup" \in cfg.flags
                   /\ pc' = [pc EXCEPT !["P2"] = "wait_cgroup"]
                   /\ chan' = c
                   /\ UNCHANGED <<holds, faults>>
                \/ /\ "cgroup" \notin cfg.flags
                   /\ InitReturn(c)
                   /\ UNCHANGED faults
          /\ UNCHANGED nsOwner
       \/ /\ AtEOF("g0")
          /\ Finish("P2", "exit1", {})
          /\ UNCHANGED <<chan, nsOwner, faults>>
    /\ UNCHANGED <<cfg, p0child, toBoot, toOrch, idmap, p1, mounts, orch>>

\* The read of the createCgroupns byte from the init pipe, then
\* unshare(CLONE_NEWCGROUP) and the return; a read that sees EOF (the
\* orchestrator closed the pipe without sending it) is a bail.
InitCgroup ==
    /\ pc["P2"] = "wait_cgroup"
    /\ \/ /\ toBoot # <<>>
          /\ toBoot' = Tail(toBoot)
          /\ \/ /\ Fault
                /\ Finish("P2", "exit1", {})
                /\ UNCHANGED <<chan, nsOwner>>
             \/ /\ nsOwner' = [nsOwner EXCEPT !["cgroup"] = "P2"]
                /\ InitReturn(chan)
                /\ UNCHANGED faults
       \/ /\ toBoot = <<>> /\ orch.pc \in {"wait_exit", "done"}
          /\ Finish("P2", "exit1", {})
          /\ UNCHANGED <<toBoot, chan, nsOwner, faults>>
    /\ UNCHANGED <<cfg, p0child, toOrch, idmap, p1, mounts, orch>>

-----------------------------------------------------------------------------
(* The specification *)

Init ==
    /\ cfg \in Configs
    /\ pc = [p \in Procs |-> IF p = "P0" THEN "start" ELSE "none"]
    /\ p0child = "P1"
    /\ chan = [e \in Ends |-> <<>>]
    /\ holds = [p \in Procs |-> {}]
    /\ toBoot = <<>>
    /\ toOrch = <<>>
    /\ idmap = [setgroups |-> "allow", uid |-> FALSE, gid |-> FALSE]
    /\ p1 = [newUserns |-> FALSE, flags |-> cfg.flags, privDone |-> FALSE,
             shiftfsDone |-> FALSE, buf |-> [i \in 1..Len(cfg.shiftfs) - 1 |-> "comma"]]
    /\ mounts = <<>>
    /\ nsOwner = [n \in NS |-> "none"]
    /\ orch = [pc |-> "start", result |-> "none", cgroupSent |-> FALSE, pids |-> FALSE]
    /\ faults = 0

\* Every bootstrap process has ended or returned and the orchestrator is done.
Finished ==
    /\ \A p \in Procs : pc[p] \in Gone \cup {"returned"}
    /\ orch.pc = "done"

Terminated == Finished /\ UNCHANGED vars

Parent == ParentStart \/ ParentUsermap \/ ParentRecvPid \/ ParentChildReady
          \/ ParentChildGone \/ ParentGrandchildReady
Child == ChildStart \/ ChildMapped \/ ChildPidAcked
InitProc == InitStart \/ InitGrandchild \/ InitCgroup
Orchestrator == OrchSendConfig \/ OrchReadPid \/ OrchSendCgroup \/ OrchAbortCgroup \/ OrchWaitExit

Next == Parent \/ Child \/ InitProc \/ Orchestrator \/ (\E p \in Procs : Crash(p))
        \/ Terminated

\* The kernel runs every runnable process eventually: each is weakly fair.
Spec == Init /\ [][Next]_vars
        /\ WF_vars(Parent) /\ WF_vars(Child) /\ WF_vars(InitProc) /\ WF_vars(Orchestrator)

-----------------------------------------------------------------------------
(* Properties *)

\* The orchestrator's side of the contract for a rootless container (the
\* comment at nsexec.c:816-823): is_setgroup is set exactly for a
\* multi-entry mapping, which comes with newuidmap/newgidmap paths.
RootlessContract ==
    cfg.rootless => /\ cfg.setgroup = cfg.multiMap
                    /\ cfg.multiMap => cfg.uidmappath /\ cfg.gidmappath

\* The container init never returns to the runtime when stage 0 reports a
\* failure, and the orchestrator is told of success only when it has
\* returned.  (A stage 0 killed from outside after stage 2 returned is a
\* failure the orchestrator must clean up after: that race is not the
\* code's.)
InitIffSuccess ==
    /\ pc["P2"] = "returned" => pc["P0"] # "exit1"
    /\ orch.result = "ok" => pc["P2"] = "returned"

\* With no syscall failing and a configuration the orchestrator may send,
\* the bootstrap succeeds: the id-map writes, setgroups and the protocol
\* never make it fail on their own.
SucceedsWithoutFaults ==
    (orch.pc = "done" /\ faults = 0 /\ RootlessContract) => orch.result = "ok"

\* Every bootstrap process ends or returns, and the orchestrator learns the
\* outcome: nobody waits forever on a socket somebody else keeps open.
BootstrapTerminates == <>Finished

\* Before stage 2 exists, a prepared rootfs has its bind-to-self mount, and
\* a parent mount asked to be private is private.
RootfsReadyBeforeInit ==
    (cfg.prepRootfs /\ pc["P2"] # "none") =>
        /\ \E i \in DOMAIN mounts : mounts[i].op = "bind"
        /\ cfg.makeParentPriv => \E i \in DOMAIN mounts : mounts[i].op = "private"

\* The mounts come in the order the rootfs needs: bind-to-self only after
\* the parent mount is private (when asked), shiftfs only over the bind.
RootfsMountOrder ==
    \A i \in DOMAIN mounts :
        /\ (mounts[i].op = "bind" /\ cfg.makeParentPriv) =>
                \E k \in 1..i-1 : mounts[k].op = "private"
        /\ mounts[i].op = "shiftfs" => \E k \in 1..i-1 : mounts[k].op = "bind"

\* Before stage 2 exists, every path of the shiftfs list has been mounted
\* exactly once (spec 4.3 step 7: the retry mounts what the first attempt
\* left undone).
ShiftfsMountedOnce ==
    (cfg.prepRootfs /\ pc["P2"] # "none") =>
        \A j \in 1..Len(cfg.shiftfs) :
            Cardinality({i \in DOMAIN mounts : mounts[i] = [op |-> "shiftfs", path |-> j]}) = 1

\* The rootfs is left alone unless prep_rootfs is set (spec 4.3, P1 step
\* 5: rootfs prep "runs only if prep_rootfs"; step 7 retries only steps
\* that were deferred).
RootfsUntouchedWithoutPrep == ~cfg.prepRootfs => mounts = <<>>

\* A stage that bails SIGKILLs the children it knows of before it exits
\* (spec 4.3): when stage 0 exits with status 1 after learning stage 2's
\* pid, stage 2 dies with it.
BailKillsKnownChild ==
    [][(pc'["P0"] = "exit1" /\ pc["P0"] # "exit1" /\ p0child' = "P2") =>
          pc'["P2"] \in Gone]_vars

\* The refinement mapping onto BootstrapHandoff: the namespaces some stage
\* has unshared, the id maps stage 0 has written, stage 2 as the container
\* init, and the pid report as sent once it is on the init pipe.
InitState ==
    CASE pc["P2"] = "none" -> "none"
      [] pc["P2"] = "returned" -> "returned"
      [] pc["P2"] \in Gone -> "gone"
      [] OTHER -> "running"

Handoff == INSTANCE BootstrapHandoff WITH
    Configs <- {[flags |-> c.flags,
                 wanted |-> {m \in {"uid", "gid"} : IF m = "uid" THEN c.uidmap ELSE c.gidmap}]
                : c \in Configs},
    flags <- cfg.flags,
    wanted <- {m \in {"uid", "gid"} : IF m = "uid" THEN cfg.uidmap ELSE cfg.gidmap},
    ns <- {n \in NS : nsOwner[n] # "none"},
    maps <- {m \in {"uid", "gid"} : IF m = "uid" THEN idmap.uid ELSE idmap.gid},
    init <- InitState,
    reported <- toOrch # <<>> \/ orch.pids,
    cgroupSent <- orch.cgroupSent,
    outcome <- orch.result

\* The three stages implement the hand-off the orchestrator relies on: the
\* first namespaces, then every requested id map, then the remaining
\* namespaces together with init, the pid report, the cgroup namespace
\* only after the orchestrator's byte, init's return only after the
\* report, and a verdict of "ok" only for a returned init; nothing that
\* happened is undone, and a verdict is always reached.
RefinesHandoff == Handoff!Spec

=============================================================================
