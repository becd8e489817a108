----------------------------- MODULE Supervisor -----------------------------
(***************************************************************************)
(* The lifecycle of one service instance in internal/supervisor: its row   *)
(* in the instances table, the process the supervisor tracks for it, the   *)
(* goroutines that watch and restart that process, and the operations that *)
(* serialize on the instance's gate.                                       *)
(*                                                                         *)
(* Every lifecycle operation holds the gate for its whole body, so at most *)
(* one is in progress; it is cut into steps where it blocks (waiting for a *)
(* process to stop, spawning, waiting for health) because processes exit,  *)
(* requests release, the daemon shuts down or is killed between them.      *)
(*                                                                         *)
(* Abstractions.  s.generations[id] is only ever compared for equality     *)
(* with the current value, so the model keeps who carries the current      *)
(* value (the tracked process, a backoff timer) instead of the number;     *)
(* incrementing it leaves nobody current.  A timer with an old generation  *)
(* stands down without any effect and is not represented.  lastActivity is *)
(* reduced to what the scan compares it with: whether the instance was     *)
(* touched since the scan sampled it.  A port is named by the process it   *)
(* was allocated for.  Config, secret, name and logging carry no control.  *)
(***************************************************************************)

CONSTANTS
    Proc,     \* processes; one may be reused once nothing refers to it
    Req,      \* requests that may hold a warm process
    None,     \* no process, no request
    Faults    \* which of AllFaults the environment may produce

\* A stop that times out, a caller that disconnects, a start that fails before
\* the spawn, at the spawn or at the health check, a daemon that dies, and a
\* service import that may change the service's mode.
AllFaults == {"stop", "caller", "early", "spawn", "health", "crash", "import"}

ASSUME NoneAssumption == None \notin Proc /\ None \notin Req
ASSUME FaultsAssumption == Faults \subseteq AllFaults

LR  == "long-running"
OD  == "on-demand"
STZ == "scale-to-zero"
Modes     == {LR, OD, STZ}
Overrides == Modes \union {"inherit"}
Statuses  == {"starting", "running", "degraded", "stopped", "failed", "absent"}
MaybeProc == Proc \union {None}

VARIABLES
    row,      \* the instances row; status "absent" when there is none
    svcMode,  \* services.runtime_mode of the instance's service
    gate,     \* the operation that holds the instance gate, and its progress
    tracked,  \* s.procs[id]
    stz,      \* tracked.scaleToZero
    current,  \* tracked.generation = s.generations[id]
    backoff,  \* a backoff timer carries the current generation
    sampled,  \* the scale-to-zero scan chose the instance; untouched since
    refs,     \* the process whose state a request's ref is counted on
    alive,    \* running OS processes of this instance
    killed,   \* sent SIGKILL and given up on, still alive
    waiters,  \* processes with a wait() goroutine that has not finished
    leaked,   \* history: alive processes the daemon stopped tracking
    reload,   \* progress of an import towards this instance
    daemon,   \* life of the daemon process
    toStop    \* Shutdown's stop set contains this instance

procVars == <<tracked, stz, current, sampled>>
osVars   == <<alive, killed, waiters, leaked>>
lifeVars == <<daemon, toStop>>
vars == <<row, svcMode, gate, procVars, backoff, refs, osVars, reload, lifeVars>>

Row == [enabled: BOOLEAN, status: Statuses, pid: MaybeProc, addr: MaybeProc,
        mode: Overrides]

ClientOps     == {"Start", "Stop", "Restart", "UpdateConfig", "SetRuntimeMode",
                  "ApplyServiceRuntimeMode", "Create", "Delete", "EnsureStarted"}
BackgroundOps == {"Backoff", "Park", "Reconcile", "Recover", "Shutdown"}

\* then: what the operation does once the process is stopped, or on a failed start.
Gate == [op: ClientOps \union BackgroundOps \union {"none"},
         pc: {"free", "stop", "start", "spawn", "register", "health", "rollback"},
         proc: MaybeProc,
         then: {"done", "start", "onDemand", "delete", "rollback"},
         enabled: BOOLEAN,
         mode: Overrides,
         req: Req \union {None},
         addr: MaybeProc,
         stz: BOOLEAN,
         gone: BOOLEAN]

FreeGate == [op |-> "none", pc |-> "free", proc |-> None, then |-> "done",
             enabled |-> FALSE, mode |-> "inherit", req |-> None, addr |-> None,
             stz |-> FALSE, gone |-> FALSE]

\* One type invariant for the module.
TypeOK ==
    /\ row \in Row
    /\ svcMode \in Modes
    /\ gate \in Gate
    /\ tracked \in MaybeProc
    /\ stz \in BOOLEAN /\ current \in BOOLEAN /\ backoff \in BOOLEAN
    /\ sampled \in BOOLEAN /\ toStop \in BOOLEAN
    /\ refs \in [Req -> MaybeProc]
    /\ alive \subseteq Proc /\ waiters \subseteq Proc
    /\ killed \subseteq alive /\ leaked \subseteq alive
    /\ gate.pc = "free" => gate = FreeGate
    /\ reload \in {"none", "imported", "apply"} \union Modes
    /\ daemon \in {"booting", "up", "draining", "stopping", "down"}

-----------------------------------------------------------------------------
(* Reading the state                                                        *)

Exists == row.status # "absent"
EffectiveRuntimeMode(override) == IF override = "inherit" THEN svcMode ELSE override
Mode == EffectiveRuntimeMode(row.mode)

\* A faulty variant: scale-to-zero does not count as resident.
residentModeLongRunningOnly == Mode = LR

residentMode == Mode \in {LR, STZ}

\* A faulty variant: a failed row is not a missing one.
claimsLivenessButFailed == row.status \in {"starting", "running", "degraded"}

claimsLiveness == row.status \in {"starting", "running", "degraded", "failed"}

\* A faulty variant: only rows that claim to run are stopped.
shouldStopRunningOnly == Exists /\ residentMode /\ row.enabled /\ row.status = "running"

shouldStopOnShutdown ==
    Exists /\ residentMode /\ (row.pid # None \/ (row.enabled /\ claimsLiveness))

\* liveProcessLocked: tracked and its done channel still open.
liveProcess == tracked \in alive
RefsHeld == tracked # None /\ \E r \in Req : refs[r] = tracked
\* pidAlive and pidOwnedByInstance: the row's pid is a live process of this instance.
PidLive == row.pid \in alive

\* lifecycleCtx is cancelled.
Cancelled == daemon \in {"draining", "stopping"}
\* The context of a start: beginOperation ties it to the lifecycle, and
\* EnsureStarted detaches it from its caller.
StartCtxDone == Cancelled \/ (gate.gone /\ gate.op # "EnsureStarted")
\* The context of the operation outside the start.
OpCtxDone ==
    gate.gone \/ (Cancelled /\ gate.op \in {"SetRuntimeMode", "ApplyServiceRuntimeMode",
                                             "Reconcile", "Park"})

GateFree == gate.pc = "free"
\* An operation takes the gate.
Enter == GateFree /\ daemon = "up"

\* A process name nothing refers to, for the next spawn.
Fresh(p) ==
    /\ p \notin alive \union waiters
    /\ p \notin {tracked, row.pid, row.addr, gate.proc, gate.addr}
    /\ \A r \in Req : refs[r] # p

-----------------------------------------------------------------------------
(* Building blocks                                                          *)

\* A faulty variant: the pid is left in the row.
StoppedRowKeepingPid(on) == [row EXCEPT !.enabled = on, !.status = "stopped"]

StoppedRow(on) ==
    [row EXCEPT !.enabled = on, !.status = "stopped", !.pid = None, !.addr = None]

\* A faulty variant: the status is left as it was.
OnDemandRowKeepingStatus(override) ==
    [row EXCEPT !.enabled = TRUE, !.pid = None, !.addr = None, !.mode = override]

OnDemandRow(override) ==
    [row EXCEPT !.enabled = TRUE, !.status = "running", !.pid = None, !.addr = None,
                !.mode = override]

\* A faulty variant: the pending timer keeps its generation.
nextGenerationKeepingTimer == current' = FALSE /\ UNCHANGED backoff

nextGeneration == current' = FALSE /\ backoff' = FALSE

\* A faulty variant: the process is left for its exit watcher to remove.
stopProcessKeepingEntry(op, on, next, override) ==
    /\ gate' = [FreeGate EXCEPT !.op = op, !.pc = "stop", !.proc = tracked,
                                !.enabled = on, !.then = next, !.mode = override]
    /\ UNCHANGED <<tracked, stz, sampled>>
    /\ nextGeneration

\* stopProcess up to the signal: the process leaves procs first, so its exit
\* watcher will find that it owns nothing.
stopProcess(op, on, next, override) ==
    /\ gate' = [FreeGate EXCEPT !.op = op, !.pc = "stop", !.proc = tracked,
                                !.enabled = on, !.then = next, !.mode = override]
    /\ tracked' = None /\ stz' = FALSE /\ sampled' = FALSE
    /\ nextGeneration

\* startLocked: a new generation, then startWithAttempt.
startLocked(op, next, override, r) ==
    /\ gate' = [FreeGate EXCEPT !.op = op, !.pc = "start", !.then = next,
                                !.mode = override, !.req = r]
    /\ nextGeneration

\* A faulty variant: enabled is not read again after the stop.
stopThenAlwaysStart(op) == stopProcess(op, TRUE, "start", row.mode)

\* The gated body of Restart, and of restartLocked when it does restart.
stopThenStart(op) ==
    stopProcess(op, row.enabled, IF row.enabled THEN "start" ELSE "done", row.mode)

\* A cold scale-to-zero instance is not woken by a reload; a row that still
\* claims a process is landed cold.  The caller may have written a new override
\* and flag first.
restartLocked(op, override, flag) ==
    IF ~liveProcess /\ EffectiveRuntimeMode(override) = STZ
    THEN LET landed == IF \/ row.pid # None \/ row.addr # None
                          \/ row.status \in {"running", "starting"}
                       THEN StoppedRow(row.enabled) ELSE row
         IN  /\ row' = [landed EXCEPT !.mode = override]
             /\ stz' = flag
             /\ UNCHANGED <<gate, tracked, current, sampled, backoff>>
    ELSE /\ stopThenStart(op)
         /\ row' = [row EXCEPT !.mode = override]

-----------------------------------------------------------------------------
(* stopProcess, after the signal                                            *)

\* A faulty variant: an error path keeps the gate.
ReleaseForgotten == UNCHANGED gate

\* A faulty variant: the operation is not cleared.
ReleaseKeepingOperation == gate' = [gate EXCEPT !.pc = "free"]

\* The deferred unlock.
Release == gate' = FreeGate

\* The process is gone (or there was none): the row is stopped and the
\* operation continues.
StopDone ==
    /\ gate.pc = "stop"
    /\ gate.proc \notin alive
    /\ CASE gate.then = "start" ->
              /\ row' = StoppedRow(gate.enabled)
              /\ gate' = [gate EXCEPT !.pc = "start", !.proc = None, !.then = "done"]
         [] gate.then = "onDemand" ->
              /\ row' = IF OpCtxDone THEN StoppedRow(gate.enabled)
                        ELSE OnDemandRow(gate.mode)
              /\ Release
         [] gate.then = "delete" ->
              /\ row' = IF OpCtxDone THEN StoppedRow(gate.enabled)
                        ELSE [StoppedRow(FALSE) EXCEPT !.status = "absent",
                                                       !.mode = "inherit"]
              /\ Release
         [] OTHER -> row' = StoppedRow(gate.enabled) /\ Release
    /\ UNCHANGED <<svcMode, procVars, backoff, refs, osVars, reload, lifeVars>>

\* SIGINT and SIGKILL both timed out, or the caller's context ended the wait.
\* The row is stopped all the same; only a mode switch and the surplus pass go
\* on to land the on-demand row, with the context they were called with.
StopFail ==
    /\ gate.pc = "stop"
    /\ gate.proc # None
    /\ OpCtxDone \/ ("stop" \in Faults /\ gate.proc \in alive)
    /\ row' = IF /\ gate.then = "onDemand"
                 /\ gate.op # "ApplyServiceRuntimeMode"
                 /\ ~OpCtxDone
              THEN OnDemandRow(gate.mode) ELSE StoppedRow(gate.enabled)
    /\ killed' = killed \union ({gate.proc} \intersect alive)
    /\ leaked' = leaked \union ({gate.proc} \intersect alive)
    /\ Release
    /\ UNCHANGED <<svcMode, procVars, backoff, refs, alive, waiters, reload, lifeVars>>

-----------------------------------------------------------------------------
(* startWithAttempt                                                         *)

\* A start that failed and left the row as r.  The backoff loop writes the row
\* back degraded from the snapshot it took before the attempt and schedules
\* itself again; a switch to long-running rolls back to on-demand.
failStart(r) ==
    IF gate.op = "Backoff" /\ ~Cancelled
    THEN /\ row' = [r EXCEPT !.enabled = TRUE, !.status = "degraded", !.pid = None,
                             !.addr = gate.addr]
         /\ backoff' = TRUE
         /\ Release
    ELSE /\ row' = r
         /\ UNCHANGED backoff
         /\ gate' = IF gate.then = "rollback"
                    THEN [gate EXCEPT !.pc = "rollback", !.proc = None]
                    ELSE FreeGate

\* A faulty variant: the process of the failed start is left alive.
cleanupWithoutKill(p) ==
    /\ tracked' = None /\ stz' = FALSE /\ current' = FALSE /\ sampled' = FALSE
    /\ UNCHANGED <<alive, killed, waiters, leaked>>

\* cleanupFailedStart: untracked, killed and reaped before the start returns.
cleanupFailedStart(p) ==
    /\ tracked' = None /\ stz' = FALSE /\ current' = FALSE
    /\ alive' = alive \ {p}
    /\ sampled' = FALSE
    /\ UNCHANGED <<killed, waiters, leaked>>

\* beginOperation to the write of the starting row, with a port for process p.
StartBegin(p) ==
    /\ gate.pc = "start"
    /\ Exists /\ Mode # OD /\ ~StartCtxDone
    /\ Fresh(p)
    /\ row' = [row EXCEPT !.enabled = TRUE, !.status = "starting", !.addr = p]
    /\ gate' = [gate EXCEPT !.pc = "spawn", !.proc = p, !.stz = (Mode = STZ)]
    /\ UNCHANGED <<svcMode, procVars, backoff, refs, osVars, reload, lifeVars>>

\* A return before the starting row is written: the daemon is stopping, the
\* caller has gone, the instance is on-demand, or the runtime entry, the config
\* file, the port or a log file is not to be had.
StartEarlyFail ==
    /\ gate.pc = "start"
    /\ ~Exists \/ Mode = OD \/ StartCtxDone \/ "early" \in Faults
    /\ failStart(row)
    /\ UNCHANGED <<svcMode, procVars, refs, osVars, reload, lifeVars>>

Spawn ==
    /\ gate.pc = "spawn"
    /\ alive' = alive \union {gate.proc}
    /\ gate' = [gate EXCEPT !.pc = "register"]
    /\ UNCHANGED <<row, svcMode, procVars, backoff, refs, killed, waiters, leaked,
                   reload, lifeVars>>

SpawnFail ==
    /\ gate.pc = "spawn"
    /\ "spawn" \in Faults
    /\ failStart(IF StartCtxDone THEN row ELSE [row EXCEPT !.status = "failed"])
    /\ UNCHANGED <<svcMode, procVars, refs, osVars, reload, lifeVars>>

\* A faulty variant: the lifecycle is not checked again once the process runs.
RegisterAnyway ==
    /\ gate.pc = "register" /\ ~liveProcess
    /\ row' = [row EXCEPT !.status = "running", !.pid = gate.proc]
    /\ tracked' = gate.proc /\ stz' = gate.stz /\ current' = TRUE /\ sampled' = FALSE
    /\ gate' = [gate EXCEPT !.pc = "health"]
    /\ UNCHANGED <<svcMode, backoff, refs, osVars, reload, lifeVars>>

\* The row names the process and the process becomes tracked, taking the slot
\* of one that exited.
Register ==
    /\ gate.pc = "register"
    /\ ~StartCtxDone /\ ~liveProcess
    /\ row' = [row EXCEPT !.status = "running", !.pid = gate.proc]
    /\ tracked' = gate.proc
    /\ stz' = gate.stz
    /\ current' = TRUE
    /\ sampled' = FALSE
    /\ gate' = [gate EXCEPT !.pc = "health"]
    /\ UNCHANGED <<svcMode, backoff, refs, osVars, reload, lifeVars>>

\* The slot holds a live process: that one is killed and no longer tracked, its
\* reaping left to its exit watcher, and the start fails.
RegisterReplaced ==
    /\ gate.pc = "register"
    /\ ~StartCtxDone /\ liveProcess
    /\ killed' = killed \union {tracked}
    /\ leaked' = leaked \union {tracked}
    /\ alive' = alive \ {gate.proc}
    /\ tracked' = None /\ stz' = FALSE /\ current' = FALSE /\ sampled' = FALSE
    /\ failStart(StoppedRow(TRUE))
    /\ UNCHANGED <<svcMode, refs, waiters, reload, lifeVars>>

\* The row write fails with the context, or the lifecycle check after it does.
RegisterFail ==
    /\ gate.pc = "register"
    /\ StartCtxDone
    /\ \/ failStart(row)
       \/ Cancelled /\ failStart(StoppedRow(TRUE))
    /\ alive' = alive \ {gate.proc}
    /\ UNCHANGED <<svcMode, procVars, refs, killed, waiters, leaked, reload, lifeVars>>

\* Healthy: the exit watcher starts and the operation returns.  EnsureStarted
\* counts a ref unless its caller gave up.
Healthy ==
    /\ gate.pc = "health"
    /\ gate.proc \in alive
    /\ ~Cancelled
    /\ waiters' = waiters \union {gate.proc}
    /\ refs' = IF gate.op = "EnsureStarted" /\ ~gate.gone
               THEN [refs EXCEPT ![gate.req] = tracked] ELSE refs
    /\ Release
    /\ UNCHANGED <<row, svcMode, procVars, backoff, alive, killed, leaked, reload, lifeVars>>

\* The failed row is written with the start's own context: when that context is
\* what ended the wait, the write is lost.  Only a shutdown has a fresh one.
HealthFail ==
    /\ gate.pc = "health"
    /\ StartCtxDone \/ gate.proc \notin alive \/ "health" \in Faults
    /\ failStart(IF Cancelled THEN StoppedRow(TRUE)
                 ELSE IF StartCtxDone THEN row
                 ELSE [row EXCEPT !.status = "failed", !.pid = None, !.addr = None])
    /\ cleanupFailedStart(gate.proc)
    /\ UNCHANGED <<svcMode, refs, reload, lifeVars>>

\* A failed switch to long-running restores the previous override;
\* SetRuntimeMode first stops whatever the start left behind.
RollBack ==
    /\ gate.pc = "rollback"
    /\ IF OpCtxDone
       THEN Release /\ UNCHANGED <<row, procVars, backoff>>
       ELSE IF gate.op = "SetRuntimeMode" /\ (tracked # None \/ row.pid # None)
       THEN stopProcess(gate.op, TRUE, "onDemand", gate.mode) /\ UNCHANGED row
       ELSE /\ row' = OnDemandRow(gate.mode)
            /\ Release
            /\ UNCHANGED <<procVars, backoff>>
    /\ UNCHANGED <<svcMode, refs, osVars, reload, lifeVars>>

-----------------------------------------------------------------------------
(* Operator calls through the admin API                                     *)

\* A faulty variant: no look for a live process.
StartEvenIfRunning ==
    /\ Enter /\ Exists
    /\ startLocked("Start", "done", row.mode, None)
    /\ UNCHANGED <<row, svcMode, tracked, stz, sampled, refs, osVars, reload, lifeVars>>

Start ==
    /\ Enter /\ Exists /\ ~liveProcess
    /\ startLocked("Start", "done", row.mode, None)
    /\ UNCHANGED <<row, svcMode, tracked, stz, sampled, refs, osVars, reload, lifeVars>>

Stop ==
    /\ Enter /\ Exists /\ Mode # OD
    /\ stopProcess("Stop", FALSE, "done", row.mode)
    /\ UNCHANGED <<row, svcMode, refs, osVars, reload, lifeVars>>

Restart ==
    /\ Enter /\ Exists /\ Mode # OD
    /\ stopThenStart("Restart")
    /\ UNCHANGED <<row, svcMode, refs, osVars, reload, lifeVars>>

\* UpdateConfig and UpdateSecret with restart.
UpdateConfig ==
    /\ Enter /\ Exists /\ Mode # OD
    /\ restartLocked("UpdateConfig", row.mode, stz)
    /\ UNCHANGED <<svcMode, refs, osVars, reload, lifeVars>>

\* CreateInstance of an id that has no row.
Create(override, start) ==
    /\ Enter /\ ~Exists
    /\ LET mode == EffectiveRuntimeMode(override)
           run  == start /\ mode = LR
       IN  /\ row' = [enabled |-> run \/ mode # LR,
                      status |-> IF mode = OD THEN "running"
                                 ELSE IF run THEN "starting" ELSE "stopped",
                      pid |-> None, addr |-> None, mode |-> override]
           /\ IF run THEN startLocked("Create", "done", override, None)
              ELSE UNCHANGED <<gate, current, backoff>>
    /\ UNCHANGED <<svcMode, tracked, stz, sampled, refs, osVars, reload, lifeVars>>

-----------------------------------------------------------------------------
(* CreateInstance of an id that has a row: a sync updates what the package  *)
(* defines and never flips what the operator decided.                       *)

sync(before, after, override) ==
    Enter /\ Exists /\ Mode = before /\ EffectiveRuntimeMode(override) = after

claimsProcess == liveProcess \/ row.pid # None

\* Nothing changed: the sync only repairs a row that could not serve.
SyncUnchanged ==
    /\ Enter /\ Exists
    /\ IF Mode = LR /\ row.enabled /\ row.status = "failed" /\ ~liveProcess
       THEN startLocked("Create", "done", row.mode, None) /\ UNCHANGED row
       ELSE /\ row' = CASE Mode = OD /\ (row.status # "running" \/ row.pid # None
                                          \/ row.addr # None) -> OnDemandRow(row.mode)
                       [] Mode = STZ /\ row.enabled /\ row.status = "failed"
                             /\ ~liveProcess -> StoppedRow(TRUE)
                       [] OTHER -> row
            /\ UNCHANGED <<gate, current, backoff>>
    /\ UNCHANGED <<svcMode, tracked, stz, sampled, refs, osVars, reload, lifeVars>>

SyncOnDemand(override) ==
    /\ \E m \in Modes : sync(m, OD, override)
    /\ IF claimsProcess
       THEN /\ stopProcess("Create", TRUE, "onDemand", override)
            /\ row' = IF Mode = OD THEN [row EXCEPT !.mode = override] ELSE row
       ELSE /\ row' = OnDemandRow(override)
            /\ stz' = FALSE
            /\ IF Mode = OD THEN UNCHANGED <<current, backoff>> ELSE nextGeneration
            /\ UNCHANGED <<gate, tracked, sampled>>
    /\ UNCHANGED <<svcMode, refs, osVars, reload, lifeVars>>

SyncFromOnDemand(override) ==
    /\ \E m \in {LR, STZ} : sync(OD, m, override)
    /\ LET after == EffectiveRuntimeMode(override)
       IN  /\ row' = [IF after = STZ THEN StoppedRow(row.enabled) ELSE row
                         EXCEPT !.mode = override]
           /\ stz' = (tracked # None /\ after = STZ)
           /\ IF after = LR /\ row.enabled
              THEN startLocked("Create", "rollback", row.mode, None)
              ELSE UNCHANGED <<gate, current, backoff>>
    /\ UNCHANGED <<svcMode, tracked, sampled, refs, osVars, reload, lifeVars>>

\* Between resident modes: new content restarts a process the row claims; a
\* failed row is recovered, and a cold instance that becomes long-running starts.
SyncResident(override, contentChanged) ==
    /\ \E b, a \in {LR, STZ} : sync(b, a, override)
    /\ LET after  == EffectiveRuntimeMode(override)
           flag   == tracked # None /\ after = STZ
           reloads == contentChanged /\ claimsProcess /\ (row.enabled \/ Mode = after)
           recovers == /\ row.enabled /\ ~claimsProcess
                       /\ \/ Mode = STZ /\ after = LR
                          \/ /\ Mode = after /\ contentChanged
                             /\ row.status \in {"failed", "degraded"}
           landed == IF recovers /\ after = STZ THEN StoppedRow(TRUE) ELSE row
       IN  IF reloads
           THEN restartLocked("Create", override, flag)
           ELSE /\ row' = [landed EXCEPT !.mode = override]
                /\ stz' = flag
                /\ IF recovers /\ after = LR
                   THEN startLocked("Create", "done", override, None)
                   ELSE UNCHANGED <<gate, current, backoff>>
                /\ sampled' = (sampled /\ ~(Mode = LR /\ after = STZ /\ row.enabled
                                              /\ claimsProcess))
                /\ UNCHANGED tracked
    /\ UNCHANGED <<svcMode, refs, osVars, reload, lifeVars>>

Sync(override) ==
    \/ SyncOnDemand(override) \/ SyncFromOnDemand(override)
    \/ \E contentChanged \in BOOLEAN : SyncResident(override, contentChanged)

-----------------------------------------------------------------------------
(* Deletion                                                                 *)

Delete ==
    /\ Enter /\ Exists
    /\ IF Mode = OD /\ ~liveProcess
       THEN /\ row' = [StoppedRow(FALSE) EXCEPT !.status = "absent", !.mode = "inherit"]
            /\ nextGeneration
            /\ UNCHANGED <<gate, tracked, stz, sampled>>
       ELSE /\ stopProcess("Delete", FALSE, "delete", row.mode)
            /\ UNCHANGED row
    /\ UNCHANGED <<svcMode, refs, osVars, reload, lifeVars>>

-----------------------------------------------------------------------------
(* SetRuntimeMode, by the effective modes before and after                  *)

setMode(before, after, override) ==
    Enter /\ Exists /\ Mode = before /\ EffectiveRuntimeMode(override) = after

\* before = after, resident: only the override changes, and a long-running
\* instance without a process is started again.
SetModeSameResident(override) ==
    /\ \E m \in {LR, STZ} : setMode(m, m, override)
    /\ row' = [row EXCEPT !.mode = override]
    /\ stz' = (tracked # None /\ Mode = STZ)
    /\ IF Mode = LR /\ row.enabled /\ ~liveProcess /\ row.status # "starting"
       THEN startLocked("SetRuntimeMode", "done", override, None)
       ELSE UNCHANGED <<gate, current, backoff>>
    /\ UNCHANGED <<svcMode, tracked, sampled, refs, osVars, reload, lifeVars>>

\* Into on-demand: from a resident mode the process is always stopped first;
\* an on-demand row that has a process is repaired the same way.
SetModeOnDemand(override) ==
    /\ \E m \in Modes : setMode(m, OD, override)
    /\ IF Mode # OD \/ row.pid # None \/ liveProcess
       THEN /\ stopProcess("SetRuntimeMode", TRUE, "onDemand", override)
            /\ row' = IF Mode = OD THEN [row EXCEPT !.mode = override] ELSE row
       ELSE /\ row' = OnDemandRow(override)
            /\ stz' = FALSE
            /\ UNCHANGED <<gate, tracked, current, sampled, backoff>>
    /\ UNCHANGED <<svcMode, refs, osVars, reload, lifeVars>>

\* On-demand to long-running: an enabled instance is started, and a failed
\* start goes back to the previous override.
SetModeOnDemandToLongRunning(override) ==
    /\ setMode(OD, LR, override)
    /\ row' = [row EXCEPT !.mode = override]
    /\ stz' = FALSE
    /\ IF row.enabled THEN startLocked("SetRuntimeMode", "rollback", row.mode, None)
       ELSE UNCHANGED <<gate, current, backoff>>
    /\ UNCHANGED <<svcMode, tracked, sampled, refs, osVars, reload, lifeVars>>

\* Long-running to scale-to-zero: the process is kept and its idle clock is
\* reset.  The generation is not touched.
SetModeToScaleToZero(override) ==
    /\ setMode(LR, STZ, override)
    /\ row' = [row EXCEPT !.mode = override]
    /\ stz' = (tracked # None)
    /\ sampled' = FALSE
    /\ UNCHANGED <<svcMode, gate, tracked, current, backoff, refs, osVars, reload,
                   lifeVars>>

\* Scale-to-zero to long-running: a cold enabled instance is started.
SetModeToLongRunning(override) ==
    /\ setMode(STZ, LR, override)
    /\ row' = [row EXCEPT !.mode = override]
    /\ stz' = FALSE
    /\ IF row.enabled /\ ~liveProcess
       THEN startLocked("SetRuntimeMode", "done", override, None)
       ELSE UNCHANGED <<gate, current, backoff>>
    /\ UNCHANGED <<svcMode, tracked, sampled, refs, osVars, reload, lifeVars>>

\* On-demand to scale-to-zero enters cold.
SetModeOnDemandToScaleToZero(override) ==
    /\ setMode(OD, STZ, override)
    /\ row' = [StoppedRow(TRUE) EXCEPT !.mode = override]
    /\ stz' = (tracked # None)
    /\ UNCHANGED <<svcMode, gate, tracked, current, sampled, backoff, refs, osVars,
                   reload, lifeVars>>

SetRuntimeMode(override) ==
    \/ SetModeSameResident(override)
    \/ SetModeOnDemand(override)
    \/ SetModeOnDemandToLongRunning(override)
    \/ SetModeToScaleToZero(override)
    \/ SetModeToLongRunning(override)
    \/ SetModeOnDemandToScaleToZero(override)

-----------------------------------------------------------------------------
(* A service import: the service row changes, then each enabled instance is *)
(* reloaded according to the mode it had when the list was read.            *)

ImportService(mode) ==
    /\ "import" \in Faults
    /\ daemon = "up" /\ reload = "none"
    /\ svcMode' = mode
    /\ reload' = "imported"
    /\ UNCHANGED <<row, gate, procVars, backoff, refs, osVars, lifeVars>>

restartEnabledServiceInstances ==
    /\ daemon = "up" /\ reload = "imported"
    /\ reload' = IF Exists /\ row.enabled
                 THEN IF Mode = OD THEN "apply" ELSE Mode
                 ELSE "none"
    /\ UNCHANGED <<row, svcMode, gate, procVars, backoff, refs, osVars, lifeVars>>

\* The client of the import disconnects: with its context cancelled, no step
\* that has not begun gets past its first read.
ReloadAbandoned ==
    /\ "caller" \in Faults
    /\ reload # "none"
    /\ reload' = "none"
    /\ UNCHANGED <<row, svcMode, gate, procVars, backoff, refs, osVars, lifeVars>>

\* The step for an instance listed as long-running is Restart.
ImportRestart ==
    /\ Enter /\ reload = LR
    /\ reload' = "none"
    /\ IF Exists /\ Mode # OD THEN stopThenStart("Restart")
       ELSE UNCHANGED <<gate, procVars, backoff>>
    /\ UNCHANGED <<row, svcMode, refs, osVars, lifeVars>>

RestartIfWarm ==
    /\ Enter /\ reload = STZ
    /\ IF Exists /\ Mode # OD /\ liveProcess
       THEN stopThenStart("Restart") /\ reload' = "none"
       ELSE /\ reload' = IF Exists /\ Mode # OD THEN "apply" ELSE "none"
            /\ UNCHANGED <<gate, procVars, backoff>>
    /\ UNCHANGED <<row, svcMode, refs, osVars, lifeVars>>

ApplyServiceRuntimeMode ==
    /\ Enter /\ reload = "apply"
    /\ reload' = "none"
    /\ IF ~Exists \/ Mode = LR
       THEN UNCHANGED <<row, gate, procVars, backoff>>
       ELSE IF liveProcess
       THEN /\ IF Mode = STZ THEN stopThenStart("ApplyServiceRuntimeMode")
               ELSE stopProcess("ApplyServiceRuntimeMode", row.enabled,
                                IF row.enabled THEN "onDemand" ELSE "done", row.mode)
            /\ UNCHANGED row
       ELSE /\ row' = IF Mode = STZ THEN StoppedRow(row.enabled)
                      ELSE IF row.enabled THEN OnDemandRow(row.mode) ELSE row
            /\ nextGeneration
            /\ UNCHANGED <<gate, tracked, stz, sampled>>
    /\ UNCHANGED <<svcMode, refs, osVars, lifeVars>>

-----------------------------------------------------------------------------
(* Requests                                                                 *)

EnsureStarted(r) ==
    /\ Enter /\ refs[r] = None
    /\ \/ /\ liveProcess
          /\ refs' = [refs EXCEPT ![r] = tracked]
          /\ UNCHANGED <<gate, current, backoff>>
       \/ /\ ~liveProcess /\ Exists /\ row.enabled
          /\ startLocked("EnsureStarted", "done", row.mode, r)
          /\ UNCHANGED refs
    /\ sampled' = FALSE
    /\ UNCHANGED <<row, svcMode, tracked, stz, osVars, reload, lifeVars>>

releaseRef(r) ==
    /\ refs[r] # None
    /\ refs' = [refs EXCEPT ![r] = None]
    /\ UNCHANGED <<row, svcMode, gate, procVars, backoff, osVars, reload, lifeVars>>

\* A streamed message refreshes the activity clock, without the gate.
TouchInstance ==
    /\ tracked # None /\ sampled
    /\ \E r \in Req : refs[r] # None
    /\ sampled' = FALSE
    /\ UNCHANGED <<row, svcMode, gate, tracked, stz, current, backoff, refs, osVars,
                   reload, lifeVars>>

\* The client of a gated call disconnects.
CallerGone ==
    /\ "caller" \in Faults
    /\ ~GateFree /\ gate.op \in ClientOps /\ ~gate.gone
    /\ gate' = [gate EXCEPT !.gone = TRUE]
    /\ UNCHANGED <<row, svcMode, procVars, backoff, refs, osVars, reload, lifeVars>>

-----------------------------------------------------------------------------
(* Processes exit; wait() and the backoff timer                             *)

ProcExit(p) ==
    /\ p \in alive
    /\ alive' = alive \ {p}
    /\ killed' = killed \ {p}
    /\ leaked' = leaked \ {p}
    /\ UNCHANGED <<row, svcMode, gate, procVars, backoff, refs, waiters, reload, lifeVars>>

\* A faulty variant: the exit is not matched against the tracked process.
OwnsAnyExit(p) == ~Cancelled /\ Exists /\ row.enabled

\* The exit of p is still the supervisor's to record: nothing stopped or
\* replaced p, and the row does not name another process.
OwnsExit(p) ==
    /\ tracked = p /\ ~Cancelled
    /\ Exists /\ row.enabled
    /\ row.pid \in {None, p}

\* wait(), from the closed done channel through the gate.
Wait(p) ==
    /\ GateFree /\ daemon # "down"
    /\ p \in waiters /\ p \notin alive
    /\ waiters' = waiters \ {p}
    /\ IF OwnsExit(p)
       THEN IF Mode = STZ
            THEN /\ row' = [row EXCEPT !.status = "degraded", !.pid = None, !.addr = None]
                 /\ UNCHANGED backoff
            ELSE /\ row' = [row EXCEPT !.status = "degraded", !.pid = None]
                 /\ backoff' = (backoff \/ current)
       ELSE UNCHANGED <<row, backoff>>
    /\ IF tracked = p
       THEN tracked' = None /\ stz' = FALSE /\ current' = FALSE /\ sampled' = FALSE
       ELSE UNCHANGED procVars
    /\ UNCHANGED <<svcMode, gate, refs, alive, killed, leaked, reload, lifeVars>>

\* restartAfterBackoff: the timer elapses, its generation is still current, and
\* the attempt runs with that same generation.
restartAfterBackoff ==
    /\ Enter /\ backoff
    /\ backoff' = FALSE
    /\ gate' = IF Exists /\ row.enabled
               THEN [FreeGate EXCEPT !.op = "Backoff", !.pc = "start", !.addr = row.addr]
               ELSE gate
    /\ UNCHANGED <<row, svcMode, procVars, refs, osVars, reload, lifeVars>>

-----------------------------------------------------------------------------
(* The scale-to-zero scan                                                   *)

\* The scan lists the instance: idle past its TTL, or the oldest of a pool over
\* its cap.
scanScaleToZero ==
    /\ daemon = "up"
    /\ tracked # None /\ stz /\ ~RefsHeld /\ ~sampled
    /\ sampled' = TRUE
    /\ UNCHANGED <<row, svcMode, gate, tracked, stz, current, backoff, refs, osVars,
                   reload, lifeVars>>

\* A faulty variant: the scan's verdict is not checked again under the gate.
parkWithoutRecheck ==
    /\ Enter /\ sampled /\ tracked # None
    /\ Exists /\ Mode = STZ
    /\ stopProcess("Park", TRUE, "done", row.mode)
    /\ UNCHANGED <<row, svcMode, refs, osVars, reload, lifeVars>>

parkIfStillIdle ==
    /\ Enter /\ sampled
    /\ tracked # None /\ ~RefsHeld
    /\ Exists /\ Mode = STZ
    /\ stopProcess("Park", TRUE, "done", row.mode)
    /\ UNCHANGED <<row, svcMode, refs, osVars, reload, lifeVars>>

-----------------------------------------------------------------------------
(* ReconcileProcesses                                                       *)

\* A faulty variant: orphans are looked for only beside a tracked process.
ReconcileOrphanOfTracked(p) ==
    /\ daemon = "up" /\ tracked # None
    /\ p \in alive \ killed /\ p # tracked
    /\ ~(gate.pc = "register" /\ gate.proc = p)
    /\ killed' = killed \union {p}
    /\ UNCHANGED <<row, svcMode, gate, procVars, backoff, refs, alive, waiters, leaked,
                   reload, lifeVars>>

\* An untracked live process older than the grace window, which is far longer
\* than the instant between a spawn and its registration.
ReconcileOrphan(p) ==
    /\ daemon = "up"
    /\ p \in alive \ killed /\ p # tracked
    /\ ~(gate.pc = "register" /\ gate.proc = p)
    /\ killed' = killed \union {p}
    /\ UNCHANGED <<row, svcMode, gate, procVars, backoff, refs, alive, waiters, leaked,
                   reload, lifeVars>>

ReconcileSurplus ==
    /\ Enter /\ Exists
    /\ tracked # None /\ ~(row.enabled /\ residentMode)
    /\ stopProcess("Reconcile", row.enabled, IF Mode = OD THEN "onDemand" ELSE "done",
                   row.mode)
    /\ UNCHANGED <<row, svcMode, refs, osVars, reload, lifeVars>>

\* A row that claims a process which neither the supervisor nor the OS knows.
staleClaim(mode) ==
    row.enabled /\ claimsLiveness /\ Mode = mode /\ tracked = None /\ ~PidLive

\* A faulty variant: only rows with a pid are repaired.
ReconcileStaleWithPid ==
    /\ Enter /\ staleClaim(STZ) /\ row.pid # None
    /\ row' = StoppedRow(TRUE)
    /\ UNCHANGED <<svcMode, gate, procVars, backoff, refs, osVars, reload, lifeVars>>

ReconcileStale ==
    /\ Enter /\ staleClaim(STZ)
    /\ row' = StoppedRow(TRUE)
    /\ UNCHANGED <<svcMode, gate, procVars, backoff, refs, osVars, reload, lifeVars>>

ReconcileMissing ==
    /\ Enter /\ staleClaim(LR)
    /\ row' = IF row.pid # None THEN StoppedRow(TRUE) ELSE row
    /\ startLocked("Reconcile", "done", row.mode, None)
    /\ UNCHANGED <<svcMode, tracked, stz, sampled, refs, osVars, reload, lifeVars>>

\* An instance listed as missing has a process by the time the gate is free, and
\* that one has exited too: the row is cleared, and nothing is started beside the
\* exit watcher.  When the pass listed the instance is left open.
ReconcileMissingTracked ==
    /\ Enter /\ tracked # None
    /\ row.enabled /\ claimsLiveness /\ Mode = LR
    /\ row.pid # None /\ ~PidLive
    /\ row' = StoppedRow(TRUE)
    /\ UNCHANGED <<svcMode, gate, procVars, backoff, refs, osVars, reload, lifeVars>>

-----------------------------------------------------------------------------
(* Shutdown, death and boot of the daemon                                   *)

BeginShutdown ==
    /\ daemon = "up"
    /\ daemon' = "draining"
    /\ toStop' = (tracked # None)
    /\ nextGeneration
    /\ UNCHANGED <<row, svcMode, gate, tracked, stz, sampled, refs, osVars, reload>>

ShutdownList ==
    /\ daemon = "draining"
    /\ daemon' = "stopping"
    /\ toStop' = (toStop \/ shouldStopOnShutdown)
    /\ UNCHANGED <<row, svcMode, gate, procVars, backoff, refs, osVars, reload>>

ShutdownStop ==
    /\ daemon = "stopping" /\ toStop /\ GateFree
    /\ toStop' = FALSE
    /\ IF Exists /\ residentMode THEN stopProcess("Shutdown", row.enabled, "done", row.mode)
       ELSE UNCHANGED <<gate, procVars, backoff>>
    /\ UNCHANGED <<row, svcMode, refs, osVars, reload, daemon>>

\* The daemon's memory is gone.
forget ==
    /\ daemon' = "down"
    /\ gate' = FreeGate
    /\ tracked' = None /\ stz' = FALSE /\ current' = FALSE /\ sampled' = FALSE
    /\ backoff' = FALSE /\ toStop' = FALSE /\ waiters' = {}
    /\ refs' = [r \in Req |-> None]
    /\ reload' = "none"

\* wg drained: every operation, timer and exit watcher has finished.
ShutdownDone ==
    /\ daemon = "stopping" /\ ~toStop
    /\ GateFree /\ waiters = {}
    /\ forget
    /\ UNCHANGED <<row, svcMode, alive, killed, leaked>>

\* kill -9, or the exit after Shutdown's context expired.
Crash ==
    /\ daemon # "down"
    /\ "crash" \in Faults
    /\ forget
    /\ leaked' = alive
    /\ UNCHANGED <<row, svcMode, alive, killed>>

\* RecoverEnabled starts every enabled long-running row before the daemon
\* serves.
Boot ==
    /\ daemon = "down"
    /\ daemon' = "booting"
    /\ gate' = IF Exists /\ row.enabled /\ Mode = LR
               THEN [FreeGate EXCEPT !.op = "Recover", !.pc = "start"] ELSE gate
    /\ UNCHANGED <<row, svcMode, procVars, backoff, refs, osVars, reload, toStop>>

BootDone ==
    /\ daemon = "booting" /\ GateFree
    /\ daemon' = "up"
    /\ UNCHANGED <<row, svcMode, gate, procVars, backoff, refs, osVars, reload, toStop>>

-----------------------------------------------------------------------------

\* A data directory with one imported service and no instance.
Init ==
    /\ row = [enabled |-> FALSE, status |-> "absent", pid |-> None, addr |-> None,
              mode |-> "inherit"]
    /\ svcMode \in Modes
    /\ gate = FreeGate
    /\ tracked = None /\ stz = FALSE /\ current = FALSE /\ sampled = FALSE
    /\ backoff = FALSE
    /\ refs = [r \in Req |-> None]
    /\ alive = {} /\ killed = {} /\ waiters = {} /\ leaked = {}
    /\ reload = "none"
    /\ daemon = "up" /\ toStop = FALSE

\* The steps of the operation that holds the gate.
OperationStep ==
    \/ StopDone \/ StopFail
    \/ \E p \in Proc : StartBegin(p)
    \/ StartEarlyFail \/ Spawn \/ SpawnFail \/ Register \/ RegisterReplaced \/ RegisterFail
    \/ Healthy \/ HealthFail \/ RollBack

Operator ==
    \/ Start \/ Stop \/ Restart \/ UpdateConfig \/ Delete
    \/ \E m \in Overrides, s \in BOOLEAN : Create(m, s)
    \/ SyncUnchanged
    \/ \E m \in Overrides : SetRuntimeMode(m) \/ Sync(m)

Import ==
    \/ \E m \in Modes : ImportService(m)
    \/ restartEnabledServiceInstances \/ ImportRestart \/ RestartIfWarm
    \/ ApplyServiceRuntimeMode \/ ReloadAbandoned

Requests == \E r \in Req : EnsureStarted(r) \/ releaseRef(r)

Background ==
    \/ \E p \in Proc : Wait(p)
    \/ restartAfterBackoff \/ TouchInstance \/ scanScaleToZero \/ parkIfStillIdle

Reconcile ==
    \/ \E p \in Proc : ReconcileOrphan(p)
    \/ ReconcileSurplus \/ ReconcileStale \/ ReconcileMissing \/ ReconcileMissingTracked

Lifecycle ==
    \/ BeginShutdown \/ ShutdownList \/ ShutdownStop \/ ShutdownDone
    \/ Crash \/ Boot \/ BootDone

Next ==
    \/ OperationStep \/ Operator \/ Import \/ Requests \/ Background \/ Reconcile
    \/ Lifecycle
    \/ CallerGone
    \/ \E p \in Proc : ProcExit(p)

Spec == Init /\ [][Next]_vars

\* A step of the operation that holds the gate is bounded by a timeout of the
\* code.  SIGKILL, and the SIGKILL that follows an interrupt, end a process.  A
\* contender for the gate is served sooner or later: a Go mutex hands itself to
\* a waiter of more than a millisecond.  The reconcile ticker and the backoff
\* timer keep coming back.
Fairness ==
    /\ WF_vars(OperationStep)
    /\ \A p \in Proc :
          /\ WF_vars(p \in killed /\ ProcExit(p))
          /\ WF_vars(gate.pc = "stop" /\ gate.proc = p /\ ProcExit(p))
          /\ SF_vars(Wait(p))
          /\ WF_vars(ReconcileOrphan(p))
    /\ SF_vars(restartAfterBackoff)
    /\ SF_vars(ReconcileStale) /\ SF_vars(ReconcileMissing)
    /\ WF_vars(ShutdownList) /\ SF_vars(ShutdownStop) /\ WF_vars(ShutdownDone)

-----------------------------------------------------------------------------
(* Safety                                                                   *)

\* Every process still running is the tracked one, the one the operation at
\* the gate holds, or one the daemon knowingly gave up on: no early return of a
\* start, a stop or a shutdown drops a live process on the floor.  And while an
\* operation still starts a process, nobody else kills it or gives it up: not the
\* reconcile pass, to which a process before its registration looks like an orphan.
NoStrayProcess ==
    /\ alive \subseteq {tracked, gate.proc} \union leaked
    /\ gate.pc \in {"register", "health"} => gate.proc \notin killed \union leaked

\* What makes that claim inductive.  Only an operation that spawned a process
\* names it; until the process is registered nobody else knows it, and a
\* tracked process has an exit watcher as soon as its start has returned.
OperationOwnsProcess ==
    /\ gate.pc \in {"free", "start", "rollback"} => gate.proc = None
    /\ gate.pc \in {"spawn", "register", "health"} => gate.proc \in Proc
    /\ gate.pc = "spawn" => gate.proc \notin alive
    /\ gate.pc \in {"spawn", "register"} => gate.proc # tracked
    /\ gate.pc = "health" => gate.proc = tracked
    /\ gate.pc # "health" => tracked \in waiters \union {None}
    /\ daemon = "down" => gate.pc = "free"

\* The gate's reason to exist: no interleaving of operations, exit watchers,
\* timers, scans and reconcile passes has two processes of one instance running
\* that the daemon has not given up on.
SingleProcess == \A p, q \in alive \ leaked : p = q

\* Between operations the row tells the gateway the truth about a live process:
\* a stale exit watcher or a late failure never overwrites it.
RowDescribesTracked ==
    GateFree /\ liveProcess /\ reload = "none" =>
        row.enabled /\ row.status = "running" /\ row.pid = tracked /\ row.addr = tracked

\* A crash restart never races a process that something else started: every
\* start, stop and mode switch cancels the backoff timer it may overtake.
NoTimerOverLive == liveProcess => ~backoff

\* The idle stopper never stops a process under a request that holds it, even
\* when the request came between the scan and the stop.
ParkRespectsRefs == gate.op = "Park" => \A r \in Req : refs[r] \in {None} \union (Proc \ {gate.proc})

reEnabled == Exists /\ ~row.enabled /\ row'.enabled

\* A sync never undoes an operator's stop.
SyncKeepsOperatorStop ==
    [][reEnabled => gate.op # "Create" /\ \A m \in Overrides : ~Sync(m)]_vars

\* The reload that follows an import never undoes a stop that overtook it.
StopBeatsReload ==
    [][reEnabled => ~ApplyServiceRuntimeMode
                    /\ gate.op \notin {"ApplyServiceRuntimeMode", "Restart"}]_vars

\* A drained shutdown leaves no process but those given up on, and no resident
\* row that claims a process.
CleanShutdown ==
    [][ShutdownDone => alive \subseteq leaked
                       /\ (Exists /\ residentMode => row.pid = None)]_vars

\* The instance as its callers see it: whether the daemon starts processes, the
\* one that serves, who uses it, the address that the row tells, and whether the
\* idle stopper is at work.
accepting == daemon \in {"booting", "up"}
serving   == IF liveProcess THEN tracked ELSE None
users     == {r \in Req : serving # None /\ refs[r] = serving}
tells(r)  == IF r.status = "running" THEN r.addr ELSE None
told      == tells(row)
parking   == gate.op = "Park"

Served == INSTANCE ServedInstance WITH Process <- Proc, Call <- Req

\* Whatever starts, stops, restarts, parks, fails or switches an instance, its
\* callers see one process at a time: announced by the row from its registration
\* until it is gone and not after, lost to the idle stopper only when nobody holds
\* it, and not started once the daemon is on its way down (startWithAttempt,
\* stopProcess, parkLocked, EnsureStarted, wait).
IsServedInstance == Served!Spec

\* Nothing is under way: what the row says now is what it will go on saying.
Settled == GateFree /\ daemon = "up" /\ reload = "none" /\ waiters \subseteq alive

\* An enabled long-running instance without a process is in somebody's care:
\* the backoff timer's, or the reconcile pass's.
NoLostRestart ==
    Settled /\ Exists /\ row.enabled /\ Mode = LR /\ ~liveProcess =>
        backoff \/ claimsLiveness

\* An on-demand instance that may be called, and the row of one that can serve.
onDemand == Exists /\ row.enabled /\ Mode = OD
servable == row.status = "running" /\ row.pid = None /\ row.addr = None

\* The exit watcher of a process that has no generation any more, and so may not
\* restart anything.
lateExit == ~current /\ \E p \in Proc : tracked = p /\ Wait(p)

\* No switch, rollback, sync, failed stop, reconcile pass or timer leaves an
\* enabled on-demand row in a shape that the gateway does not serve, and none
\* spoils one that has landed, but for one: the exit watcher of a process that
\* nobody stopped before the row landed (wait; see OnDemandRowServes).
OnDemandLanded ==
    [][daemon = "up" /\ row' # row /\ onDemand' => servable' \/ lateExit]_vars

\* A row that has become on-demand rests enabled, running and without a pid.
OnDemandRowServes == Settled /\ onDemand => servable

\* A failed start, a failed stop, an exit or the death of the daemon leaves no dead
\* pid in a row that rests, unless the next reconcile pass clears it.
NoDeadPid == Settled => row.pid \in alive \union {None} \/ staleClaim(LR) \/ staleClaim(STZ)

-----------------------------------------------------------------------------
(* Liveness                                                                 *)

\* Every operation gives the gate back.
GateReleased == ~GateFree ~> GateFree

needsProcess == daemon = "up" /\ Exists /\ row.enabled /\ Mode = LR /\ ~liveProcess

\* A long-running instance that lost its process, by a crash, a failed start or
\* the death of the daemon, is started again for as long as it is wanted.
CrashIsRetried == needsProcess ~> (gate.pc = "spawn" \/ ~needsProcess)

\* A scale-to-zero row that claims a process nobody has is repaired to cold.
StaleRepaired == staleClaim(STZ) ~> (~staleClaim(STZ) \/ daemon # "up")

\* A process that outlived its daemon is killed by the next one.
OrphansDie ==
    \A p \in Proc : p \in leaked /\ daemon = "up" ~> (p \notin leaked \/ daemon # "up")

\* A shutdown that began ends, with everything it waits for drained.
ShutdownCompletes == daemon = "draining" ~> daemon = "down"
=============================================================================
