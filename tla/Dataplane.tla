----------------------------- MODULE Dataplane -----------------------------
(***************************************************************************)
(* The data-plane manager, internal/dataplane/mihomo/manager.go: it turns  *)
(* the desired state of the database into the configuration a running      *)
(* Mihomo serves.  Manager.Apply is a transaction over three places that   *)
(* can fail independently: the files active.yaml and active.yaml.previous, *)
(* the Mihomo process, and the manager's own memory (lastCompiled, status).*)
(*                                                                         *)
(* Apply runs under the manager's mutex, so one Apply is in progress at a  *)
(* time (pc); what interleaves with its steps is everything outside the    *)
(* mutex: administrators editing the database and queueing for the lock,   *)
(* the caller's context being cancelled, Mihomo dying or being restarted   *)
(* by systemd, a reload request served after its client gave up, and the   *)
(* control plane itself crashing.                                          *)
(*                                                                         *)
(* A configuration is a value of Configs: the compiled YAML together with  *)
(* the endpoints and the proxy count compiled with it.                     *)
(***************************************************************************)
EXTENDS Naturals

CONSTANTS Configs,      \* the configurations the database can compile to
          Valid,        \* those mihomo -t accepts
          Empty,        \* the one with no endpoint and no proxy
          Bootstrap,    \* the file install.sh puts in place
          None,         \* no file, no configuration
          Modes,        \* values of WithExternalProcess that are explored
          MaxWaiting,   \* bound: callers queued for the manager's mutex
          Faults        \* which of AllFaults are explored

\* cancel: the context ends; io: a file, database or process operation fails;
\* refuse: Mihomo refuses a reload; late: a reload outlives its client.
AllFaults == {"cancel", "io", "refuse", "late", "planecrash", "crash"}

ASSUME ConfigsAssumption ==
    /\ Valid \subseteq Configs
    /\ Empty \in Configs
    /\ Bootstrap \in Valid \ {Empty}
    /\ None \notin Configs

ASSUME BoundsAssumption ==
    /\ Modes \subseteq BOOLEAN
    /\ MaxWaiting \in Nat \ {0}
    /\ Faults \subseteq AllFaults

VARIABLES
    external,   \* Manager.externalProcess: Mihomo is a systemd unit
    desired,    \* what the database compiles to now
    waiting,    \* callers of Apply queued on Manager.mu
    active,     \* content of active.yaml
    previous,   \* content of active.yaml.previous
    dpUp,       \* the Mihomo process runs
    dpCfg,      \* the configuration it serves
    late,       \* a reload request Mihomo has not handled yet, its client gone
    proc,       \* Manager.process # nil
    last,       \* Manager.lastCompiled
    state,      \* Manager.status.State
    running,    \* Manager.status.Running
    pc,         \* step of the Apply in progress
    target,     \* its compiled configuration
    hadOld,     \* its hadOldConfig
    ctxDone,    \* its context is cancelled or past its deadline
    outcome,    \* history: how the last Apply of this process ended
    clean       \* history: no rollback failed since the last full publication

database == <<external, desired>>
files == <<active, previous>>
plane == <<dpUp, dpCfg, late>>
memory == <<proc, last, state, running>>
apply == <<target, hadOld>>
vars == <<external, desired, waiting, active, previous, dpUp, dpCfg, late,
          proc, last, state, running, pc, target, hadOld, ctxDone, outcome, clean>>

Quiet == {"idle", "down"}
BeforePublish == {"compile", "idlestop", "validate", "preserve", "publish"}
AfterPublish == {"reload", "waitready", "start", "waitstart"}
RollingBack == {"rollback", "rbreload", "rbstop", "rbrestart", "rbstart", "rbwait"}
Steps == Quiet \cup BeforePublish \cup AfterPublish \cup RollingBack

TypeOK ==
    /\ external \in BOOLEAN
    /\ desired \in Configs
    /\ waiting \in 0..MaxWaiting
    /\ active \in Configs \cup {None}
    /\ previous \in Configs \cup {None}
    /\ dpUp \in BOOLEAN
    /\ dpCfg \in Configs \cup {None}
    /\ late \in BOOLEAN
    /\ proc \in BOOLEAN
    /\ last \in Configs \cup {None}
    /\ state \in {"idle", "running", "failed"}
    /\ running \in BOOLEAN
    /\ pc \in Steps
    /\ target \in Configs \cup {None}
    /\ hadOld \in BOOLEAN
    /\ ctxDone \in BOOLEAN
    /\ outcome \in {"none", "applied", "noop", "refused", "restored", "withdrawn", "stuck"}
    /\ clean \in BOOLEAN

-----------------------------------------------------------------------------
(* The system before the control plane first starts.  Under systemd the   *)
(* installer has written a bootstrap active.yaml; run.sh starts from an    *)
(* empty runtime directory.                                                *)
Init ==
    /\ external \in Modes
    /\ desired \in Configs \ {Bootstrap}
    /\ waiting = 0
    /\ active = IF external THEN Bootstrap ELSE None
    /\ previous = None
    /\ dpUp = external
    /\ dpCfg = active
    /\ late = FALSE
    /\ proc = FALSE /\ last = None /\ state = "idle" /\ running = FALSE
    /\ pc = "down"
    /\ target = None /\ hadOld = FALSE /\ ctxDone = FALSE
    /\ outcome = "none" /\ clean = TRUE

\* Manager.refreshProcessLocked.
RefreshProcess ==
    IF external
    THEN /\ running' = dpUp
         /\ state' = IF dpUp /\ state = "failed" THEN "running" ELSE state
         /\ proc' = proc
    ELSE IF proc /\ ~dpUp
         THEN proc' = FALSE /\ running' = FALSE /\ state' = "failed"
         ELSE UNCHANGED <<proc, running, state>>

\* Every return of Apply.
Return(o) ==
    /\ pc' = "idle"
    /\ outcome' = o
    /\ target' = None
    /\ hadOld' = FALSE
    /\ ctxDone' = FALSE

\* failLocked / recordFailureLocked, then the return.  The manager keeps no
\* record of a rollback that failed; the history variable clean does.
Fail(o) ==
    /\ Return(o)
    /\ state' = "failed"
    /\ clean' = (clean /\ o # "stuck")

\* The tail of a successful full publication.
Succeed ==
    /\ Return("applied")
    /\ last' = target
    /\ state' = "running"
    /\ running' = TRUE
    /\ clean' = TRUE

Goto(step) ==
    /\ pc' = step
    /\ UNCHANGED <<ctxDone, outcome>>

-----------------------------------------------------------------------------
(* Callers of Apply.                                                       *)

\* A service commits a change to the database and calls Apply (POST
\* /dataplane/apply calls it without a change).
Edit ==
    /\ pc # "down"
    /\ waiting < MaxWaiting
    /\ desired' \in Configs \ {Bootstrap}
    /\ waiting' = waiting + 1
    /\ UNCHANGED <<external, files, plane, memory, pc, apply, ctxDone, outcome, clean>>

\* Mutant: the mutex is taken on behalf of nobody.
LockUnasked ==
    /\ pc = "idle"
    /\ waiting' = waiting - 1
    /\ RefreshProcess
    /\ Goto("compile")
    /\ UNCHANGED <<database, files, plane, last, apply, clean>>

\* One caller gets the mutex.
Lock ==
    /\ pc = "idle"
    /\ waiting > 0
    /\ waiting' = waiting - 1
    /\ RefreshProcess
    /\ Goto("compile")
    /\ UNCHANGED <<database, files, plane, last, apply, clean>>

\* The request is abandoned, or the deadline of its context passes.
Cancel ==
    /\ "cancel" \in Faults
    /\ pc \notin Quiet
    /\ ~ctxDone
    /\ ctxDone' = TRUE
    /\ UNCHANGED <<database, waiting, files, plane, memory, pc, apply, outcome, clean>>

\* Status() by the API or the alert detector.
Status ==
    /\ pc = "idle"
    /\ RefreshProcess
    /\ UNCHANGED <<database, waiting, files, plane, last, pc, apply, ctxDone, outcome, clean>>

-----------------------------------------------------------------------------
(* Apply up to the publication.  These steps change no file that Mihomo    *)
(* reads and do not touch a running data plane.                            *)

CompileFails ==
    /\ pc = "compile"
    /\ "io" \in Faults \/ ctxDone
    /\ Fail("refused")
    /\ UNCHANGED <<database, waiting, files, plane, proc, last, running>>

\* Mutant: a running data plane is enough.
CompileUncompared ==
    /\ pc = "compile"
    /\ running
    /\ Return("noop")
    /\ UNCHANGED <<database, waiting, files, plane, memory, clean>>

\* The compiled configuration is the one applied last and the data plane was
\* running when the mutex was taken.  State is left as it is.
CompileUnchanged ==
    /\ pc = "compile"
    /\ running /\ desired = last
    /\ Return("noop")
    /\ UNCHANGED <<database, waiting, files, plane, memory, clean>>

CompileChanged ==
    /\ pc = "compile"
    /\ ~(running /\ desired = last)
    /\ target' = desired
    /\ Goto(IF ~external /\ desired = Empty THEN "idlestop" ELSE "validate")
    /\ UNCHANGED <<database, waiting, files, plane, memory, hadOld, clean>>

\* Nothing to serve: the local process is stopped.  active.yaml stays.
IdleStop ==
    /\ pc = "idlestop"
    /\ proc' = FALSE /\ dpUp' = FALSE /\ late' = FALSE /\ running' = FALSE
    /\ Return("applied")
    /\ last' = target
    /\ state' = "idle"
    /\ UNCHANGED <<database, waiting, files, dpCfg, clean>>

\* stopLocked(ctx) with a cancelled context kills the process and reports
\* the context's error.
IdleStopCancelled ==
    /\ pc = "idlestop"
    /\ ctxDone /\ proc /\ dpUp
    /\ proc' = FALSE /\ dpUp' = FALSE /\ late' = FALSE /\ running' = FALSE
    /\ Fail("refused")
    /\ UNCHANGED <<database, waiting, files, dpCfg, last>>

\* Mihomo binary missing, a port taken, the candidate not written, or
\* mihomo -t rejecting it (or killed with the context).
ValidateFails ==
    /\ pc = "validate"
    /\ target \notin Valid \/ "io" \in Faults \/ ctxDone
    /\ Fail("refused")
    /\ UNCHANGED <<database, waiting, files, plane, proc, last, running>>

\* Mutant: the validator's verdict is ignored.
ValidateIgnored ==
    /\ pc = "validate"
    /\ Goto("preserve")
    /\ UNCHANGED <<database, waiting, files, plane, memory, apply, clean>>

ValidatePasses ==
    /\ pc = "validate"
    /\ target \in Valid
    /\ Goto("preserve")
    /\ UNCHANGED <<database, waiting, files, plane, memory, apply, clean>>

\* copyFileAtomic(active, previous); its error may come after the rename.
PreserveFails ==
    /\ pc = "preserve"
    /\ "io" \in Faults /\ active # None
    /\ previous' \in {previous, active}
    /\ Fail("refused")
    /\ UNCHANGED <<database, waiting, active, plane, proc, last, running>>

Preserve ==
    /\ pc = "preserve"
    /\ hadOld' = (active # None)
    /\ previous' = IF active # None THEN active ELSE previous
    /\ Goto("publish")
    /\ UNCHANGED <<database, waiting, active, plane, memory, target, clean>>

PublishFails ==
    /\ pc = "publish"
    /\ "io" \in Faults
    /\ Fail("refused")
    /\ UNCHANGED <<database, waiting, files, plane, proc, last, running>>

\* publishCandidate renames, then syncs the directory: when only the sync
\* fails, the new file is in place and Apply returns without a rollback.
PublishUnsynced ==
    /\ pc = "publish"
    /\ "io" \in Faults
    /\ active' = target
    /\ Fail("stuck")
    /\ UNCHANGED <<database, waiting, previous, plane, proc, last, running>>

\* Mutant: the former content is preserved after the rename.
PublishThenPreserve ==
    /\ pc = "publish"
    /\ active' = target
    /\ previous' = target
    /\ Goto(IF external \/ proc THEN "reload" ELSE "start")
    /\ UNCHANGED <<database, waiting, plane, memory, apply, clean>>

\* Mutant: lastCompiled is set before Mihomo has taken the configuration.
PublishRemembered ==
    /\ pc = "publish"
    /\ active' = target
    /\ last' = target
    /\ Goto(IF external \/ proc THEN "reload" ELSE "start")
    /\ UNCHANGED <<database, waiting, previous, plane, proc, state, running, apply, clean>>

Publish ==
    /\ pc = "publish"
    /\ active' = target
    /\ Goto(IF external \/ proc THEN "reload" ELSE "start")
    /\ UNCHANGED <<database, waiting, previous, plane, memory, apply, clean>>

-----------------------------------------------------------------------------
(* The reload request, PUT /configs?force=true on the controller socket.   *)
(* It names the file, so Mihomo serves what the file holds when it handles *)
(* the request.                                                            *)

ReloadAnswered ==
    /\ dpUp /\ ~ctxDone
    /\ dpCfg' = active
    /\ UNCHANGED <<dpUp, late>>

\* The client sees an error: nothing was delivered, Mihomo refused, the
\* answer was lost, or Mihomo will only get to it later.
ReloadFailed ==
    \/ /\ ctxDone \/ ~dpUp \/ "refuse" \in Faults
       /\ UNCHANGED plane
    \/ /\ dpUp /\ "late" \in Faults
       /\ dpCfg' = active
       /\ UNCHANGED <<dpUp, late>>
    \/ /\ dpUp /\ "late" \in Faults
       /\ late' = TRUE
       /\ UNCHANGED <<dpUp, dpCfg>>

Reload ==
    /\ pc = "reload"
    /\ ReloadAnswered
    /\ Goto("waitready")
    /\ UNCHANGED <<database, waiting, files, memory, apply, clean>>

ReloadRejected ==
    /\ pc = "reload"
    /\ ReloadFailed
    /\ Goto("rollback")
    /\ UNCHANGED <<database, waiting, files, memory, apply, clean>>

\* waitReadyLocked: every endpoint and the controller answer.
Ready ==
    /\ pc \in {"waitready", "waitstart"}
    /\ dpUp
    /\ Succeed
    /\ UNCHANGED <<database, waiting, files, plane, proc>>

\* The process exited, the context ended or eight seconds passed.
NotReady ==
    /\ pc = "waitready"
    /\ RefreshProcess
    /\ Goto("rollback")
    /\ UNCHANGED <<database, waiting, files, plane, last, apply, clean>>

\* No local process: startLocked(active).
Start ==
    /\ pc = "start"
    /\ proc' = TRUE /\ dpUp' = TRUE /\ dpCfg' = active
    /\ Goto("waitstart")
    /\ UNCHANGED <<database, waiting, files, late, last, state, running, apply, clean>>

StartFails ==
    /\ pc = "start"
    /\ "io" \in Faults
    /\ Goto("rollback")
    /\ UNCHANGED <<database, waiting, files, plane, memory, apply, clean>>

\* The started process is not ready: it is stopped, then rolled back.
StartedNotReady ==
    /\ pc = "waitstart"
    /\ proc' = FALSE /\ dpUp' = FALSE /\ late' = FALSE /\ running' = FALSE
    /\ Goto("rollback")
    /\ UNCHANGED <<database, waiting, files, dpCfg, last, state, apply, clean>>

-----------------------------------------------------------------------------
(* rollbackAndRestartLocked.  It runs under the context of the request     *)
(* that failed.                                                            *)

\* Former content back in place; with no former file that is all.
RollbackConfig ==
    /\ pc = "rollback"
    /\ active' = IF hadOld THEN previous ELSE None
    /\ IF hadOld
       THEN /\ Goto(IF external \/ proc THEN "rbreload" ELSE "rbstart")
            /\ UNCHANGED <<state, apply, clean>>
       ELSE Fail("withdrawn")
    /\ UNCHANGED <<database, waiting, previous, plane, proc, last, running>>

\* rollbackConfigLocked fails, before or after its rename.
RollbackConfigFails ==
    /\ pc = "rollback"
    /\ "io" \in Faults
    /\ active' \in {active, IF hadOld THEN previous ELSE None}
    /\ Fail("stuck")
    /\ UNCHANGED <<database, waiting, previous, plane, proc, last, running>>

\* Mutant: the restored file is not reloaded.
RollbackUnloaded ==
    /\ pc = "rbreload"
    /\ Goto("rbwait")
    /\ UNCHANGED <<database, waiting, files, plane, memory, apply, clean>>

RollbackReload ==
    /\ pc = "rbreload"
    /\ ReloadAnswered
    /\ Goto("rbwait")
    /\ UNCHANGED <<database, waiting, files, memory, apply, clean>>

\* A systemd-managed Mihomo is left alone; a local one is restarted.
RollbackReloadRejected ==
    /\ pc = "rbreload"
    /\ ReloadFailed
    /\ IF external
       THEN Fail("stuck")
       ELSE Goto("rbstop") /\ UNCHANGED <<state, apply, clean>>
    /\ UNCHANGED <<database, waiting, files, proc, last, running>>

RollbackStop ==
    /\ pc = "rbstop"
    /\ proc' = FALSE /\ dpUp' = FALSE /\ late' = FALSE /\ running' = FALSE
    /\ Goto("rbrestart")
    /\ UNCHANGED <<database, waiting, files, dpCfg, last, state, apply, clean>>

\* The context is done: the process is killed and nothing starts it again.
RollbackStopCancelled ==
    /\ pc = "rbstop"
    /\ ctxDone /\ dpUp
    /\ proc' = FALSE /\ dpUp' = FALSE /\ late' = FALSE /\ running' = FALSE
    /\ Fail("stuck")
    /\ UNCHANGED <<database, waiting, files, dpCfg, last>>

\* No local process was running: startLocked(active).  With neither endpoints
\* nor proxies in lastCompiled there is nothing to wait for.
RollbackStart ==
    /\ pc = "rbstart"
    /\ proc' = TRUE /\ dpUp' = TRUE /\ dpCfg' = active
    /\ IF last \in {None, Empty}
       THEN Fail("restored") /\ running' = TRUE
       ELSE Goto("rbwait") /\ UNCHANGED <<state, running, apply, clean>>
    /\ UNCHANGED <<database, waiting, files, late, last>>

\* After a refused reload the restarted process is waited for.
RollbackRestart ==
    /\ pc = "rbrestart"
    /\ proc' = TRUE /\ dpUp' = TRUE /\ dpCfg' = active
    /\ Goto("rbwait")
    /\ UNCHANGED <<database, waiting, files, late, last, state, running, apply, clean>>

RollbackStartFails ==
    /\ pc \in {"rbrestart", "rbstart"}
    /\ "io" \in Faults
    /\ Fail("stuck")
    /\ UNCHANGED <<database, waiting, files, plane, proc, last, running>>

\* waitReadyLocked(oldEndpoints).
RollbackReady ==
    /\ pc = "rbwait"
    /\ dpUp
    /\ running' = TRUE
    /\ Fail("restored")
    /\ UNCHANGED <<database, waiting, files, plane, proc, last>>

RollbackNotReady ==
    /\ pc = "rbwait"
    /\ IF external
       THEN running' = dpUp /\ proc' = proc
       ELSE IF proc /\ ~dpUp
            THEN running' = FALSE /\ proc' = FALSE
            ELSE UNCHANGED <<running, proc>>
    /\ Fail("stuck")
    /\ UNCHANGED <<database, waiting, files, plane, last>>

-----------------------------------------------------------------------------
(* Mihomo, systemd and the life of the control plane.                      *)

\* Mihomo handles the reload request whose client is gone.
LateReload ==
    /\ late
    /\ late' = FALSE
    /\ dpCfg' = IF active # None THEN active ELSE dpCfg
    /\ UNCHANGED <<database, waiting, files, dpUp, memory, pc, apply, ctxDone, outcome, clean>>

PlaneCrash ==
    /\ "planecrash" \in Faults
    /\ dpUp
    /\ dpUp' = FALSE
    /\ late' = FALSE
    /\ UNCHANGED <<database, waiting, files, dpCfg, memory, pc, apply, ctxDone, outcome, clean>>

\* hx-proxygroup-dataplane.service: ExecStartPre validates, Restart=on-failure.
PlaneRestart ==
    /\ external
    /\ ~dpUp
    /\ active \in Valid
    /\ dpUp' = TRUE
    /\ dpCfg' = active
    /\ UNCHANGED <<database, waiting, files, late, memory, pc, apply, ctxDone, outcome, clean>>

\* run(): a fresh Manager, then the startup Apply.
ControlStart ==
    /\ pc = "down"
    /\ proc' = FALSE /\ last' = None /\ state' = "idle"
    /\ running' = (external /\ dpUp)
    /\ Goto("compile")
    /\ UNCHANGED <<database, waiting, files, plane, apply, clean>>

Halt ==
    /\ pc' = "down"
    /\ waiting' = 0
    /\ target' = None /\ hadOld' = FALSE /\ ctxDone' = FALSE
    /\ outcome' = "none" /\ clean' = TRUE
    /\ last' = None /\ state' = "idle" /\ running' = FALSE /\ proc' = FALSE

\* The control plane dies at any step; its unit restarts it.  Queued callers
\* are gone, what they committed is in the database.
Crash ==
    /\ "crash" \in Faults
    /\ external
    /\ pc # "down"
    /\ Halt
    /\ UNCHANGED <<database, files, plane>>

\* SIGTERM with no Apply in progress: Close stops a local Mihomo and leaves
\* a systemd-managed one running.
Shutdown ==
    /\ "crash" \in Faults
    /\ pc = "idle"
    /\ Halt
    /\ dpUp' = (external /\ dpUp)
    /\ late' = (external /\ late)
    /\ UNCHANGED <<database, files, dpCfg>>

-----------------------------------------------------------------------------
ApplyStep ==
    \/ CompileFails \/ CompileUnchanged \/ CompileChanged
    \/ IdleStop \/ IdleStopCancelled
    \/ ValidateFails \/ ValidatePasses
    \/ PreserveFails \/ Preserve
    \/ PublishFails \/ PublishUnsynced \/ Publish
    \/ Reload \/ ReloadRejected \/ Ready \/ NotReady
    \/ Start \/ StartFails \/ StartedNotReady
    \/ RollbackConfig \/ RollbackConfigFails
    \/ RollbackReload \/ RollbackReloadRejected
    \/ RollbackStop \/ RollbackStopCancelled
    \/ RollbackRestart \/ RollbackStart \/ RollbackStartFails
    \/ RollbackReady \/ RollbackNotReady

Environment ==
    \/ Edit \/ Cancel \/ Status
    \/ LateReload \/ PlaneCrash \/ PlaneRestart
    \/ ControlStart \/ Crash \/ Shutdown

Next == ApplyStep \/ Lock \/ Environment

Spec == Init /\ [][Next]_vars

-----------------------------------------------------------------------------
(* What the manager promises.                                              *)

\* No file Mihomo can be started or reloaded from, and no running Mihomo, ever
\* holds a configuration the validator rejects, whatever fails and whenever
\* the control plane dies (validateLocked runs before publishCandidate).
OnlyValidated ==
    /\ active \in Valid \cup {None}
    /\ previous \in Valid \cup {None}
    /\ dpCfg \in Valid \cup {None}

\* lastCompiled stands for what is published.  It does not for a local manager
\* that has stopped its process: active.yaml keeps the former content.
Known == last # None /\ (external \/ last # Empty)

\* Between two Applies, as long as no rollback has failed, the three places
\* agree: the file a restart would load, the configuration Mihomo serves and
\* the one lastCompiled compares the next Apply with.
MemoryAgrees ==
    pc \in Quiet /\ clean /\ Known =>
        /\ active = last
        /\ dpUp => dpCfg = last

\* An Apply whose rollback reported no error has put back the content that was
\* active before it, and a Mihomo that runs serves it.
FailedApplyRestores ==
    pc = "idle" /\ outcome = "restored" =>
        /\ active = previous /\ active # None
        /\ dpUp => dpCfg = active

\* Compile runs under the mutex: when nobody is queued, a successful last
\* Apply has published the newest committed state, whoever committed it.
NoLostEdit ==
    pc = "idle" /\ waiting = 0 /\ outcome \in {"applied", "noop"} =>
        last = desired

\* The publication of the file implements ConfigPublication.
Publication == INSTANCE ConfigPublication WITH
    file <- active,
    base <- IF pc \in {"publish"} \cup AfterPublish \cup RollingBack
            THEN IF hadOld THEN previous ELSE None
            ELSE active,
    staged <- IF pc \in {"publish"} \cup AfterPublish \cup RollingBack
              THEN target ELSE None,
    confirmed <- IF clean /\ Known THEN last ELSE None

PublicationSpec == Publication!Spec

\* An Apply that returned success serves what it compiled: also when it
\* returned early because it found nothing changed.
SuccessServes ==
    pc = "idle" /\ outcome \in {"applied", "noop"} /\ dpUp => dpCfg = last

=============================================================================
