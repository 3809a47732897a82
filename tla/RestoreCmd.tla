----------------------------- MODULE RestoreCmd -----------------------------
(***************************************************************************)
(* The Action of sysbox-runc's `restore` command (restore.go): register    *)
(* the container with sysbox-mgr, fetch the sysbox-fs config, convert the  *)
(* spec, build the CRIU options and start the container from its image.    *)
(*                                                                         *)
(* Every call that returns an error may fail; the function then returns    *)
(* that error and its deferred functions run.  Two calls leave the process *)
(* without running them: fatal() inside criuOptions and the final          *)
(* os.Exit(status).  The registration with sysbox-fs happens inside        *)
(* startContainer (libcontainer), which may fail before or after it.       *)
(***************************************************************************)
EXTENDS Sequences, SequencesExt

VARIABLES
    pc,         \* the next statement of the Action
    mgrOn,      \* sysMgr.Enabled() (the --no-sysbox-mgr flag)
    fsOn,       \* sysFs.Enabled() (the --no-sysbox-fs flag)
    err,        \* the Action's variable err, which the deferred closure reads
    mgr,        \* the container's registration with sysbox-mgr
    fs,         \* the container's registration with sysbox-fs
    defers,     \* the deferred closures, in the order they were deferred
    exit        \* how the command ended

vars == <<pc, mgrOn, fsOn, err, mgr, fs, defers, exit>>

Reg == {"none", "registered", "unregistered"}
Steps == {"checkArgs", "setupSpec", "register", "getConfig", "convertSpec",
          "criuOptions", "setEmptyNsMask", "startContainer", "done"}

\* The closure deferred after sysMgr.Register: unregister if err is set.
RunDefers(e) ==
    mgr' = IF "mgrUnregister" \in Range(defers) /\ e /\ mgr = "registered"
           THEN "unregistered" ELSE mgr

\* `return err`: the Action returns, running its deferred closures; e is
\* the value of err they see.
Return(e) ==
    /\ err' = e
    /\ RunDefers(e)
    /\ defers' = <<>>
    /\ pc' = "done"
    /\ exit' = "error"

\* A call that may fail and whose failure is returned at once.
Call(from, to) ==
    /\ pc = from
    /\ \/ /\ pc' = to
          /\ UNCHANGED <<err, mgr, defers, exit>>
       \/ Return(TRUE)
    /\ UNCHANGED <<mgrOn, fsOn, fs>>

-----------------------------------------------------------------------------

Init ==
    /\ pc = "checkArgs"
    /\ mgrOn \in BOOLEAN /\ fsOn \in BOOLEAN
    /\ err = FALSE
    /\ mgr = "none" /\ fs = "none"
    /\ defers = <<>>
    /\ exit = "running"

CheckArgs == Call("checkArgs", "setupSpec")

SetupSpec == Call("setupSpec", "register")

\* if sysMgr.Enabled(): Register, then defer the unregister-on-error.
Register ==
    /\ pc = "register"
    /\ IF mgrOn
       THEN \/ /\ mgr' = "registered"
               /\ defers' = Append(defers, "mgrUnregister")
               /\ pc' = "getConfig"
               /\ UNCHANGED <<err, exit>>
            \/ Return(TRUE)
       ELSE /\ pc' = "getConfig"
            /\ UNCHANGED <<err, mgr, defers, exit>>
    /\ UNCHANGED <<mgrOn, fsOn, fs>>

\* if sysFs.Enabled(): GetConfig.
GetConfig ==
    /\ pc = "getConfig"
    /\ IF fsOn THEN Call("getConfig", "convertSpec")
       ELSE /\ pc' = "convertSpec"
            /\ UNCHANGED <<mgrOn, fsOn, err, mgr, fs, defers, exit>>

\* syscont.ConvertSpec; its error is wrapped with fmt.Errorf and returned.
ConvertSpec == Call("convertSpec", "criuOptions")

\* criuOptions: os.MkdirAll of the image path, or fatal(err), which exits
\* the process with status 1 without running the deferred closures.
CriuOptions ==
    /\ pc = "criuOptions"
    /\ \/ /\ pc' = "setEmptyNsMask"
          /\ UNCHANGED exit
       \/ /\ pc' = "done"
          /\ exit' = "fatal"
    /\ UNCHANGED <<mgrOn, fsOn, err, mgr, fs, defers>>

SetEmptyNsMask == Call("setEmptyNsMask", "startContainer")

\* startContainer registers with sysbox-fs (when enabled) and runs the
\* container; on its error sysFs.Unregister() is called before returning.
\* Its success ends in os.Exit(status), which runs no deferred closure.
StartContainer ==
    /\ pc = "startContainer"
    /\ \E fsReg \in {"none"} \cup (IF fsOn THEN {"registered"} ELSE {}) :
         \/ /\ fs' = fsReg
            /\ pc' = "done"
            /\ exit' = "status"
            /\ UNCHANGED <<err, mgr, defers>>
         \/ /\ fs' = IF fsReg = "registered" THEN "unregistered" ELSE fs
            /\ Return(TRUE)
    /\ UNCHANGED <<mgrOn, fsOn>>

Done == pc = "done" /\ UNCHANGED vars

Next == CheckArgs \/ SetupSpec \/ Register \/ GetConfig \/ ConvertSpec
        \/ CriuOptions \/ SetEmptyNsMask \/ StartContainer \/ Done

Spec == Init /\ [][Next]_vars /\ WF_vars(Next)

-----------------------------------------------------------------------------
(* Properties *)

\* Every variable keeps to its type.
TypeOK ==
    /\ pc \in Steps
    /\ mgrOn \in BOOLEAN /\ fsOn \in BOOLEAN /\ err \in BOOLEAN
    /\ mgr \in Reg /\ fs \in Reg
    /\ defers \in Seq({"mgrUnregister"})
    /\ exit \in {"running", "error", "fatal", "status"}

\* However the restore command fails (a returned error or a fatal exit),
\* sysbox-mgr is not left holding a registration for a container that
\* never started.
NoMgrLeakOnFailure ==
    exit \in {"error", "fatal"} => mgr # "registered"

=============================================================================
