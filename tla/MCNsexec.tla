------------------------------ MODULE MCNsexec ------------------------------
(* Model-checking instances of Nsexec: the configurations each run covers. *)
EXTENDS Nsexec

CONSTANTS pathA, pathB

MCPaths == {pathA, pathB}

\* A configuration with everything off but what the arguments set.
Conf(flags, rootless, setgroup, multi, tool, prep, priv, list) ==
    [flags |-> flags, rootless |-> rootless, setgroup |-> setgroup, multiMap |-> multi,
     uidmap |-> TRUE, gidmap |-> TRUE, uidmappath |-> tool, gidmappath |-> tool,
     prepRootfs |-> prep, makeParentPriv |-> priv, shiftfs |-> list]

\* The id-map and namespace protocol: with and without a new user and
\* cgroup namespace, privileged and rootless, single and multi-entry
\* mappings, with and without the mapping tools.
BootstrapConfigs ==
    { Conf(f, r, s, m, t, FALSE, FALSE, <<>>) :
        f \in {{"mnt", "pid"}, {"user", "mnt", "pid"}, {"user", "mnt", "pid", "cgroup"}},
        r \in BOOLEAN, s \in BOOLEAN, m \in BOOLEAN, t \in BOOLEAN }

\* Rootfs preparation: with and without a private parent mount, shiftfs
\* lists of zero to two paths.
RootfsConfigs ==
    { Conf({"user", "mnt", "pid"}, FALSE, TRUE, FALSE, TRUE, TRUE, priv, l) :
        priv \in BOOLEAN, l \in {<<>>, <<pathA>>, <<pathA, pathB>>} }

\* Both sets, checked together.
BootstrapAndRootfsConfigs == BootstrapConfigs \cup RootfsConfigs

\* A shiftfs list of two paths.
ShiftfsConfigs ==
    { Conf({"user", "mnt", "pid"}, FALSE, TRUE, FALSE, TRUE, TRUE, priv, <<pathA, pathB>>) :
        priv \in BOOLEAN }
\* make_parent_priv without prep_rootfs.
ParentPrivOnlyConfigs ==
    { Conf({"user", "mnt", "pid"}, FALSE, TRUE, FALSE, TRUE, FALSE, TRUE, <<>>) }
=============================================================================
