# TLA+ models of sysbox-runc's container bootstrap

This directory holds TLA+ models of the parts of sysbox-runc that are in
`src/`. The core is `libcontainer/nsenter/nsexec.c`, the C bootstrap that runs
before the Go runtime of `runc init`. The TLC configurations here check those
models.

## The system

`nsexec()` turns one process into three. They synchronise over two
`socketpair`s and over the init pipe to the orchestrator.

| Stage | Process | What it does |
|---|---|---|
| 0 | `P0`, parent, `JUMP_PARENT` | Reads the netlink config (`nl_parse`). Creates `sync_child_pipe` (ends `c0`/`c1`) and `sync_grandchild_pipe` (`g0`/`g1`). Clones stage 1. Answers `SYNC_USERMAP_PLS` by writing `setgroups`, `uid_map` and `gid_map`, falling back to `newuidmap`/`newgidmap` when the kernel refuses a direct write. Answers `SYNC_RECVPID_PLS` by reporting both pids as JSON. After `SYNC_CHILD_READY` it switches to the grandchild socket, writes `SYNC_GRANDCHILD`, and exits 0 when stage 2 reports `SYNC_CHILD_READY`. |
| 1 | `P1`, child, `JUMP_CHILD` | Closes `c1`. Joins namespaces and unshares the user and mount namespaces. Prepares the rootfs: mount propagation, then the parent mount made private, the bind-to-self mount and the shiftfs mounts. Asks stage 0 for its id maps. Retries the rootfs steps that failed. Unshares the remaining namespaces, except cgroup. Clones stage 2 and hands its pid to stage 0. |
| 2 | `P2`, init, `JUMP_INIT` | Keeps only `g0`. Sets `oom_score_adj`. Waits for `SYNC_GRANDCHILD`. Sets its credentials. If `CLONE_NEWCGROUP` is set, it waits for the orchestrator's `CREATECGROUPNS` byte and unshares the cgroup namespace. It then writes `SYNC_CHILD_READY` and returns to Go. |
| — | orchestrator (`process_linux.go`, not in `src/`) | Sends the config and reads the pid JSON. Sends `CREATECGROUPNS` once cgroups are applied. Judges the bootstrap by stage 0's exit status. |

Every process keeps each socket end it inherited until it closes that end or
dies. A read returns EOF only when no live process holds the peer end. A write
to a socket whose peer nobody holds raises SIGPIPE, which kills the writer
before its `kill(child)`/`bail` error path can run.

The other sources are not part of the bootstrap:

- `src/restore.go` is the `restore` CLI command. It registers with sysbox-mgr and sysbox-fs, then starts the container from a CRIU image.
- `src/libcontainer/container_linux_test.go` holds Go unit tests and mocks.

## Modules

- **`Nsexec.tla`** models all three stages and the orchestrator's side of the
  init pipe.
  - `CONSTANTS`:
    - `Configs`: the configurations the orchestrator may send, as records of the `nlconfig_t` fields that steer control flow;
    - `Paths`: the shiftfs path values;
    - `MaxFaults`: a bound on failing syscalls and external kills.
  - Variables:
    - `pc`: each process's position between two blocking reads;
    - `chan[e]`: the tokens written at end `e` and not yet read;
    - `holds`: the socket ends each process holds open;
    - `toBoot`/`toOrch`: the init pipe;
    - `idmap`: stage 1's user namespace, meaning its setgroups value and whether `uid_map`/`gid_map` are written;
    - `p1`: stage 1's locals `new_userns`, `cloneflags`, `make_parent_priv_done` and `shiftfs_mounts_done`, plus the shiftfs list buffer that `strtok_r` cuts in place;
    - `mounts`: the log of stage 1's `mount(2)` calls, in order;
    - `nsOwner`: which stage unshared each namespace;
    - `orch`: the orchestrator;
    - `faults`: failing syscalls so far.
  - Actions. Each one runs a process from one blocking read to the next.
    - Stage 0: `ParentStart`, `ParentUsermap`, `ParentRecvPid`, `ParentChildReady`, `ParentChildGone`, `ParentGrandchildReady`.
    - Stage 1: `ChildStart`, `ChildMapped`, `ChildPidAcked`.
    - Stage 2: `InitStart`, `InitGrandchild`, `InitCgroup`.
    - Orchestrator: `OrchSendConfig`, `OrchReadPid`, `OrchSendCgroup`, `OrchAbortCgroup` (its error path when applying cgroups fails: no byte, the init pipe closed), `OrchWaitExit`.
    - Environment: `Crash(p)`, an external SIGKILL.
  - Shared steps are operators:
    - `ChildFinishSetup`: everything stage 1 does after its maps;
    - `FirstRootfsPrep`;
    - `MountShiftfs` with `StrtokCount`/`StrtokCut`;
    - `MapResults`: `update_uidmap`/`update_gidmap` and `try_mapping_tool`.
  - Any syscall that can fail is a `Fault` disjunct, which ends the process with `exit1` as `bail()` does. In `ParentUsermap` that includes the write of `setgroups` (`update_setgroups`, nsexec.c:219-245), which bails before either map is written.
  - `Nsexec` has no type invariant in its run. Every variable takes its values from fixed sets in every action, so no plausible bug in a handler could produce a value of the wrong type; only the model's own fault budget could. The setgroups ordering (nsexec.c:826) is checked through its effect instead: with setgroups not denied first, the kernel refuses the direct `gid_map` write of a rootless single mapping, which has no tool to fall back to, and `SucceedsWithoutFaults` fails (the inverted guard is caught that way).
- **`MappingToolArgv.tla`** models the loop in `try_mapping_tool`'s forked
  child (nsexec.c:272-303). The loop cuts the map text in place into
  `argv[MAX_ARGV]` before `execve(newuidmap)`.
  - The text is a sequence of characters: `"d"` for any non-blank, `"sp"`, `"nl"`, plus the NULs the loop writes.
  - Variables: the buffer, the loop pointer `pos`, `argv` (slots that are unset, NULL, `app`, `pid` or a pointer into the buffer), `argc`, and `pc`.
  - Actions, one per branch of the loop: `ArgvEnd` (`*map == '\0'`), `ArgvToken` (store, `strpbrk`, cut, `strspn`) and `ArgvFull` (the loop condition fails).
  - The reference is `Words`, a recursive whitespace split.
  - `MCMappingToolArgv.tla` builds the input sets: maps formatted as the runtime formats them, all short texts, and the two unterminated maps (the spec's Scenario C map and six mappings).
- **`JoinNamespaces.tla`** models `join_namespaces` and `nsflag` (nsexec.c:413-432, 553-617), which stage 1 calls first when the config has `NS_PATHS_ATTR`.
  - `CONSTANTS`:
    - the namespace objects with their kind and owning user namespace;
    - `Start`: the namespaces stage 1 starts in;
    - `Resolve[m][p]`: what path `p` opens in mount namespace `m`;
    - `Lists`: the lists the orchestrator may send.
  - The list is a sequence of comma-separated segments `[name, sep, path]`, including empty ones.
  - Variables: `pc`, `why`, the tokens `strtok_r` returns, the index `i`, the open `fds` with their `nsflag` value, `cur` (the namespace of each kind the process is in), and `priv` (whether stage 1 is privileged or rootless).
  - Actions:
    - `Tokenize`: the first `strtok_r` and the "ns paths are empty" bail;
    - `OpenEntry`: `realloc`, the split at `':'`, and `open` in the *current* mount namespace;
    - `JoinEntry`: `setns(fd, flag)` in list order.
  - `SetnsOk` states the kernel's `setns` rules:
    - a non-zero flag must match the fd's kind;
    - `CAP_SYS_ADMIN` is needed in the target's owning user namespace and in the caller's own;
    - the current user namespace cannot be rejoined.

    These rules are the environment, not code of the repository, so the map does not list them.
  - The reference is `Reference`/`JoinAll`. It resolves every path in the starting mount namespace, then folds the joins over the list.
  - `MCJoinNamespaces.tla` builds a host (`H`) and a container (`C`), each with user, mount and network namespaces. The container's `/proc/<pid>/ns` files resolve only in the host's mount namespace.
- **`RestoreCmd.tla`** models the Action of the `restore` command
  (restore.go:101-187) as a sequence of fallible calls.
  - The calls are `checkArgs`, `setupSpec`, `sysMgr.Register`, `sysFs.GetConfig`, `ConvertSpec`, `criuOptions` and `setEmptyNsMask`, then `startContainer`.
  - `defers` holds the closure deferred after `Register`, which unregisters if `err` is set. `Return` runs it.
  - `criuOptions`' `fatal()` and the final `os.Exit(status)` run no deferred closure.
- **`NlParse.tla`** models `nl_parse` (nsexec.c:445-546) at the byte level.
  - `CONSTANTS`: `Msgs` (header fields and payload bytes the orchestrator writes), `SizeMod` and `U32Mod` (the moduli of `size_t` and `u32` arithmetic), and `Junk` (the bytes a read past the allocation returns, which is undefined behaviour).
  - Variables: `pc`, the bail reason `why`, `size`, the allocation `buf`, the offset `cur` of `current`, `config` (the fields of `struct nlconfig_t`; a text field is a pointer offset and a `size_t` length), and `oob` (a read of the attribute loop has gone past `data + size`).
  - Actions: `ReadHeader` (short header, `NLMSG_ERROR`, wrong type), `Alloc` (`malloc` may fail), `ReadPayload`, `ParseAttr` (one turn of the loop: read `nla_len`/`nla_type`, store the field or bail on an unknown type; `Width` gives the bytes `readint32`/`readint8` read whatever `nla_len` says, and `oob` records a header or value read past the allocation; advance by `NLA_HDRLEN + NLA_ALIGN(payload_len)` modulo `SizeMod`), and `ParseEnd`.
  - The reference is `Serialize`/`Decoded`, an encoder and decoder written from spec 4.2. They are independent of the parser's operators.
  - `MCNlParse.tla` builds the input sets: every list of up to three sample attributes, five broken headers, and one- and two-attribute lists whose first `nla_len` is replaced by 0..12, and `ShortFieldMsgs`: a `CLONE_FLAGS`/`ROOTFS_PROP` attribute whose payload is 0 or 2 bytes, alone or after a uid map.
- **`BootstrapHandoff.tla`** is the abstract specification of what the bootstrap promises the orchestrator (spec 2, 4.3, 8). Its variables are the namespaces created, the id maps written, the init (`none`, `running`, `returned`, `gone`), the pid report, the cgroup byte and the verdict. Its actions are `CreateFirstNs`, `WriteMaps`, `Spawn`, `Report`, `SendCgroup`, `Return`, `Die` and `Judge`, and `Judge` is weakly fair. `Nsexec` instantiates it as `Handoff`, with a refinement mapping:
  - `ns`: the namespaces whose `nsOwner` is set;
  - `maps`: from `idmap`;
  - `init`: stage 2's `pc`;
  - `reported`: the pid line on the init pipe, or read by the orchestrator (`orch.pids`).

  `RefinesHandoff == Handoff!Spec` is checked in the bootstrap run.
- **`MCNsexec.tla`** instantiates `Nsexec` with model values `pathA`, `pathB`.
  It defines the configuration sets of its runs; the bootstrap run takes `BootstrapAndRootfsConfigs`, the bootstrap configurations together with the rootfs ones.

`PROJECT.json` maps every definition to the source lines it models.

## Runs

| Run | Config | Expect | What it shows |
|---|---|---|---|
| `bootstrap` | `MCNsexec_bootstrap.cfg` | pass | Covers 48 configurations: {no user ns, user ns, user+cgroup ns} × rootless × setgroup × multi-entry mapping × mapping tools present, with `MaxFaults = 3`. `RefinesHandoff`: the three stages implement `BootstrapHandoff`. That means the first namespaces come first, then every requested id map, then the remaining namespaces together with init. The pid report follows, and the cgroup namespace comes only after the orchestrator's byte. Init returns only after the report, and "ok" is only given for a returned init. Nothing is undone, and a verdict is always reached. `InitIffSuccess`: init returns only if stage 0 did not fail, and "ok" implies init returned. `SucceedsWithoutFaults`: a valid rootless/privileged config with no failing syscall succeeds. `BootstrapTerminates`: all processes end and the orchestrator learns the result, even after crashes or an orchestrator that aborts before the cgroup byte. The same run adds the rootfs configurations: `prep_rootfs` with and without `make_parent_priv`, and shiftfs lists of 0, 1 and 2 paths, where the first parent-private mount and any shiftfs mount may fail before the maps. `RootfsReadyBeforeInit`: the bind-to-self mount (and private parent) exist before stage 2. `RootfsMountOrder`: private before bind, bind before shiftfs. |
| `shiftfs_retry` | `MCNsexec_shiftfs.cfg` | violation | `ShiftfsMountedOnce` fails; see below. |
| `parent_priv_only` | `MCNsexec_privonly.cfg` | violation | `RootfsUntouchedWithoutPrep` fails. With `make_parent_priv` and without `prep_rootfs`, the retry block (nsexec.c:1050) still mounts the parent private and binds the rootfs. Spec 4.3 runs rootfs prep only with `prep_rootfs`. |
| `bail_without_kill` | `MCNsexec_bailkill.cfg` | violation | `BailKillsKnownChild` fails. Stage 1 dies after the pid hand-off. Stage 0's read then hits EOF, and it bails (nsexec.c:811) without `kill(child)`. Spec 4.3 says every fatal path SIGKILLs known children. Stage 2 still exits on its own through EOF, as `BootstrapTerminates` shows. |
| `restore_fatal` | `RestoreCmd_fatal.cfg` | violation | `NoMgrLeakOnFailure` fails: a restore that registered with sysbox-mgr, then fails `os.MkdirAll` of the image path in `criuOptions`, exits through `fatal()` without unregistering. |
| `argv_formatted` | `MCMappingToolArgv_formatted.cfg` | pass | Inputs: every map of 1–3 `"%d %d %d\n"` lines with 1- and 2-digit numbers, and maps of 4 and 5 lines. `ExecArgvIsMapWords`: at `execve`, argv is NULL-terminated right after the last argument, and its arguments are exactly the map's words. |
| `argv_words` | `MCMappingToolArgv_words.cfg` | pass | Inputs: every text of ≤ 7 characters that does not start with a blank, plus 6 and 7 mappings. `ArgsArePrefixOfWords`: the stored arguments are the map's leading words, never merged or split, even when the array fills up. `ArgvWritesInBounds`: `argv[argc++]` never writes past `argv[MAX_ARGV - 1]`. |
| `nlparse_roundtrip` | `MCNlParse_roundtrip.cfg` | pass | Inputs: 259 attribute lists plus 5 broken headers. `ParseMatchesReference`: a well-encoded message ends "done" with exactly the decoded configuration (the last attribute of a type wins, texts point at their payloads), or bails because an attribute type is unknown or `malloc` failed. `InsideAllocation`: no header or value read goes past the allocation, and every text field lies inside it. `ParseTerminates`: every message ends the parse. |
| `nlparse_malformed_hang` | `MCNlParse_hang.cfg` | violation | `ParseTerminates` fails: an attribute with `nla_len` 0 keeps `current` on itself forever; see below. |
| `nlparse_overread` | `MCNlParse_overread.cfg` | violation | `InsideAllocation` fails: a `CLONE_FLAGS` attribute with an empty payload, as the only attribute, makes `readint32` read four bytes past a 4-byte allocation; see below. |
| `argv_unterminated` | `MCMappingToolArgv_unterminated.cfg` | violation | The inputs are the spec's Scenario C map `"0 100000 65536\n1 200000 1"` and a map of six mappings. `ExecArgvIsMapWords` fails. TLC reports Scenario C, the shorter trace: the map has no final newline, and the loop leaves through the `strpbrk == NULL` break without storing NULL. Six mappings (18 words) fill `argv[2..19]`, and the loop ends with no NULL inside the array. With `Maps <- SixMappingMaps`, the same run shows that trace. |
| `join_namespaces` | `MCJoinNamespaces.cfg` | pass | Inputs: every list of up to three segments, privileged and rootless. Segments are container and host namespace files, the unknown kind `time`, a kind without `':'`, `"net:"` and empty segments. `JoinMatchesReference`: `join_namespaces` ends in exactly the namespaces the list names, with every path resolved before any `setns`. It bails only when the reference cannot join the list (an empty list, a missing `':'` or file, a kind mismatch, missing capabilities such as a rootless list that does not start with `user`), or when `realloc` fails. |

Each property of a passing run has a mutant in `PROJECT.json`. The mutant is
a plausible code bug that TLC catches with that property:

- ignoring the mapping tool's exit status;
- dropping the fallback to the tool;
- treating EOF from stage 2 as ready;
- stage 2 keeping `g1` open;
- dropping or reordering the deferred mounts;
- `strpbrk` without `"\n"`;
- an off-by-one `strspn` skip;
- `argc <= MAX_ARGV` as the loop condition (caught by `ArgvWritesInBounds`);
- `NLA_ALIGN` left out (caught by `ParseMatchesReference` and by `InsideAllocation`);
- advancing without the attribute header;
- a signed `NLMSG_PAYLOAD`;
- opening and joining in one loop (`OpenAndJoin`): a path listed after `mnt` then opens in the container's mount namespace;
- `nsflag` without its fallback to 0.

### Finding: the shiftfs retry walks a list the first attempt cut

`mount_shiftfs` (nsexec.c:620-646) tokenises `config->shiftfs_mounts` with
`strtok_r`, which overwrites each separator it passes with NUL. Suppose the
first call (line 1004) fails at path *k*. The list then ends after path 1. The
retry after the id maps (line 1058) mounts path 1 a second time, never mounts
paths 2..n, and returns success. The counterexample has two paths, and the
first mount fails at path 1 or 2 while the parent-private mount succeeds or is
not asked for.

### Finding: the mapping-tool argv is not always NULL-terminated

`try_mapping_tool` stores `NULL` only when the loop reaches the map's
terminating NUL at the start of an iteration. This goes wrong in two cases:

- **No trailing blank.** If the last word is not followed by a blank,
  `strpbrk` returns NULL and the loop breaks at line 296. The spec's Scenario C
  has exactly such a map.
- **Six or more mappings.** Eighteen or more words make `argc` reach
  `MAX_ARGV` at line 289.

In both cases `execve` reads uninitialised stack, or reads past the array. In
the second case, every mapping after the sixth is also lost. The runtime's own
maps end in `"\n"`, which is why `argv_formatted` passes up to five mappings.

### Finding: `restore` leaks its sysbox-mgr registration on `fatal`

Every failure after `sysMgr.Register` (restore.go:130) returns `err`, so the
deferred closure unregisters the container. The exception is the `fatal(err)`
in `criuOptions` (line 171). It calls `os.Exit(1)`, which skips deferred
closures. The Action is a straight line of calls with one deferred
closure, so this violation is the only run on it.

### Finding: `nl_parse` spins on an attribute with `nla_len` 0

`payload_len = nla_len - NLA_HDRLEN` (nsexec.c:476) is a `size_t`, so
`nla_len` 0 gives `-4`. `NLA_ALIGN(-4)` is `-4` again. The loop adds 4 at
line 478 and `-4` at line 544, so `current` never moves and `nl_parse` never
returns. Spec 7 says a malformed message is fatal. The same unchecked
subtraction also lets `nla_len` 1..3 through, with a text length of
`(size_t)-1..-3`. An `nla_len` past the payload ends the loop with a field
that points past the allocation. The orchestrator is trusted and encodes
correctly (the round-trip run), so this is a robustness gap in the wire
contract, not an exploit path.

### Finding: `readint32` reads past a short payload

`readint32` and `readint8` (nsexec.c:434-443) read 4 and 1 bytes at the
payload and are called from nsexec.c:484 on (`readint8` at 487, 514, 519, 522) without comparing
`payload_len` with the width. A `CLONE_FLAGS` attribute with `nla_len` 4 (an
empty payload) as the last attribute of a 4-byte message reads `data[4..7]`,
outside the `malloc`ed buffer, and those bytes become `config.cloneflags`.
Spec 4.2 says the parser's pointers all reference into the single
allocation. As with the finding above, the orchestrator is trusted and never
encodes such an attribute, so the round-trip run shows `InsideAllocation`
holds for every well-encoded message.

## Bounds and why they are enough

- **Processes.** There are exactly three, as in the code.
- **Faults.** The bootstrap run uses `MaxFaults = 3`, so every process can be killed or fail once, and an orchestrator abort can combine with a crash. One fault already reaches every error path and every EOF/SIGPIPE branch, and TLC's coverage shows each action and disjunct. Three faults add the compound cases, such as stage 1 dying after stage 0 has died. The rootfs configurations run under the same bound: their extra faults are mount failures that end stage 1.
- **Shiftfs paths.** Two paths are the fewest that show the retry bug. Cutting at any position is enumerated.
- **Argv.** `MAX_ARGV` keeps the code's value, 20. The inputs reach it: six and seven mappings. Short texts cover every spacing pattern up to seven characters: several blanks in a row, trailing blanks, none at the end.
- **Id maps.** The id maps are abstracted to "written or not". The kernel rules that matter are modelled in `UidDirect`/`GidDirect`:
  - EPERM for an unprivileged multi-entry write;
  - `gid_map` needs `setgroups=deny`.

- **Namespaces to join.** Lists go up to three segments, so every ordering of two joins occurs, including `mnt` before a later path. Three kinds suffice: `user` (capabilities), `mnt` (path resolution) and `net` (an ordinary namespace with a host and a container instance).
- **Netlink.** Attribute samples cover a `u32`, a `u8` (with padding), a three-byte text, an empty text, a repeated type and an unknown type. Lists go up to three attributes, so every pair of consecutive kinds occurs. `SizeMod = 2^20` and `U32Mod = 2^24` stand in for `2^64` and `2^32`. The payloads are under 40 bytes, so a value wraps in the model exactly when it wraps in the code. Corrupted lengths 0..12 cover below the header, inside, and past the payload.

## Fairness

`BootstrapHandoff` assumes weak fairness only of `Judge`: the orchestrator always reaches a verdict. `Nsexec` meets this because of the fairness below and `BootstrapTerminates`.

Each process group is weakly fair: the kernel schedules runnable processes.
The orchestrator is also weakly fair: it runs as the Go runtime's goroutine
and waits for the bootstrap. `Crash` is not fair, since nothing forces a kill. `nl_parse` is one
sequential process that never waits once its reads have returned, so
`NlParse`'s `Next` is weakly fair. The same holds for `join_namespaces`, whose `Next` is weakly fair in `JoinNamespaces`.

## Not modelled (yet)

- **`nl_parse` inside `Nsexec`.** `Nsexec` takes the parsed config as a choice from `Configs`. `NlParse` checks the parser on its own. Partial reads of the init pipe are not modelled: the orchestrator writes the message in one `write`.
- **Maps starting with a blank.** These give an empty first argument. Spec 9 asks for exactly this tokenization, and the runtime never sends such a map, so the argv runs leave them out.
- **Absent attributes.** Examples are `SHIFTFS_MOUNTS` or `ROOTFS` with `prep_rootfs` set, where `strtok_r`/`strcmp` dereference NULL. Whether the runtime ever omits them is decided by the Go encoder outside `src/`, so no reachable configuration is known to trigger this.
- **`oom_score_adj` and dumpability.** `Nsexec` abstracts the `oom_score_adj` writes and `PR_SET_DUMPABLE` away. When the config has no `OOM_SCORE_ADJ`, `update_oom_score_adj` returns at nsexec.c:349 and init keeps the `-999` stage 0 wrote (nsexec.c:699). Spec invariant 5 says the value is written twice. This is recorded as a hazard; it is not checked, since it needs no interleaving and the project has no run slot for it.
- **`restore` flags.** restore.go:20-100 declares the CLI flags. No control flow in `src/` depends on their values beyond what `RestoreCmd` takes as choices.
- **Outside `src/`.** The cloned-binary guard (`cloned_binary.c`) and the Go orchestrator are not in `src/`. The orchestrator is modelled from the spec.
- **Tests.** `container_linux_test.go` is unit tests and is not modelled.

- **Unknown kind names.** `nsflag` gives 0 for a name it does not know, and `setns(fd, 0)` joins whatever the fd refers to. The model exercises this through the kind `time`, but the spec names only known kinds, so there is no stated expectation to check it against.
- **`join_namespaces` inside `Nsexec`.** The `Nsexec` configurations join no namespaces. `JoinNamespaces` checks the join on its own, and its failures are `bail`s, like the stage-1 faults `Nsexec` already has.

## Next steps

- The setgroups "allow" path of Scenario A, against `update_setgroups`.
