# A verification of OctoBus in TLA+

OctoBus is a daemon that imports service packages, runs instances of them as
local processes and exposes their methods through a gateway. This directory
models the parts of it whose correctness depends on interleavings, failures and
restarts, checks them with TLC on small instances and proves all of the safety
properties with TLAPS for every instance. Among them are three refinements: to
its callers an instance is one process that is announced while it serves, imports
happen at once or not at all, and a proxied stream is one call.

Every definition names, in `PROJECT.json` under `map`, the lines of the
repository it stands for.

## The system

| Part | State | Operations | Hard because |
|---|---|---|---|
| Instance supervisor (`internal/supervisor`) | rows of `instances`; in memory `procs`, `generations`, `lastActivity`, the per-instance gates | Start, Stop, Restart, CreateInstance (create or sync), UpdateConfig/Secret, SetRuntimeMode, ApplyServiceRuntimeMode, RestartIfWarm, DeleteInstance, EnsureStarted and its release, exit watchers, backoff timers, the scale-to-zero scan, the reconcile pass, Shutdown, RecoverEnabled | all of it runs concurrently; processes exit, ignore signals or never become healthy; clients disconnect; the daemon dies |
| Package importer (`internal/packageimport`) | service directories, their backups, staging trees, the shared tree store; rows of `services` | Import, ImportRecursive, RecoverServiceDirs, SweepOrphanedTrees | directory and row change in separate steps; crashes in between; trees shared by services |
| Gateway (`internal/protocol/gateway.go`) | on-demand slots, cached backend connections, the references its calls hold | resolve, invoke by effective mode, warm, dial, run on demand, invalidate | rows are read before the gate and used after it; ports are reused; references and slots must be returned on every path |
| Stream proxies (`internal/protocol/grpc.go`, `warmStream`) | two goroutines, a result channel and a reference per call | open, relay each way, join | the two directions end in either order, each may fail, and either peer may leave |
| Admin API (`internal/admin`) | none of its own | handlers that call the store, the importer and the supervisor | several calls per request: import, then reload of each instance |
| Store (`internal/store`) | SQLite | one statement per call; debounced last-use writes of tokens | callers read and write in separate statements |
| Daemon (`cmd/octobus`) | listener, lifecycle context | bind, recover directories, recover instances, start loops, sweep, serve; on a signal drain, close, shut the supervisor down | the order of these against requests still running |
| Domain, descriptors, hardening, egress rules, logs, CLI, SDK | | pure functions, configuration or clients | |

How they interact. The Admin API calls the importer, which takes the import lock
of the process, and then the supervisor for every instance of the service. The
gateway calls `EnsureStarted`, which takes a reference on the tracked process,
and drops it when the call ends. Every lifecycle operation, exit watcher, timer,
scan and reconcile pass of an instance takes its gate. The supervisor tells the
gateway when an instance changed. All state that survives the daemon is in the
store, in the artifacts directory, and in the processes themselves.

What makes each part correct.

* Supervisor: one process per instance; the row says what is true of it; what
  the operator stopped stays stopped; what should run is started again; a
  process in use is not parked; nothing outlives a shutdown unnoticed.
* Importer: the version named by a row is on disk at every moment and served as
  soon as nobody changes it; a shared tree lives as long as a link to it.
* Gateway: each slot is returned exactly once; a call that holds a reference
  talks to the process it references; no connection is lost or cut for nothing.
* Stream proxies: the reference lasts exactly as long as the call; success is
  reported only if it happened; a call that can end does.
* Warm pool: a scan leaves the pool within its limit and evicts the idlest.
* Store and Admin: a check and the write it allows agree.

## Modules

| Module | What it is |
|---|---|
| `Supervisor` | one instance and everything that acts on it |
| `MCSupervisor` | its instances for TLC: symmetry, the daemon that stays up, the bounded next-state relation for liveness |
| `SupervisorHistory` | `Supervisor` with a history variable, for the property that needs to know what a deleted instance left behind |
| `MCSupervisorHistory` | its instance for TLC |
| `SupervisorProofs` | the theorems about `Supervisor` that concern its processes |
| `SupervisorRowProofs` | those that concern what the row says, who may enable an instance, and what its callers see |
| `SupervisorRestProofs` | those that concern what a row rests in when nothing is under way |
| `ServedInstance` | the abstract specification of an instance for those who call it; `Supervisor` implements it |
| `ServiceArtifacts` | services on disk and in the store, imports, recovery, sweep, deletion, any number of daemons |
| `MCServiceArtifacts` | its instances for TLC: which packages share a descriptor and a tree |
| `ServiceArtifactsProofs` | the theorems about `ServiceArtifacts` |
| `AtomicImport` | the abstract specification of an import: one step or nothing |
| `AtomicImportProofs` | `ServiceArtifacts` implements it |
| `Gateway` | unary calls of every mode against instances that start, stop, park and switch |
| `MCGateway`, `GatewayProofs` | its instance for TLC and its theorems |
| `StreamProxy` | one streaming call through the gateway |
| `MCStreamProxy`, `StreamProxyProofs` | its instance for TLC and its theorems |
| `ForwardedStream` | the abstract specification of a streaming call; `StreamProxy` implements it |
| `WarmPool` | several scale-to-zero instances, the calls that use them, and the scan that bounds them |
| `MCWarmPool`, `WarmPoolProofs` | its instance for TLC and its theorems |

A definition preceded by "A faulty variant" is no part of a model: it is the next
definition with a plausible bug, and the mutation runs of `PROJECT.json` show
that the property named there notices it.

The modules overlap where components meet. `Supervisor` has one instance in every
detail and the gateway only as a holder of references. `Gateway` has the
supervisor only as far as a call can see it: the process goes before the row
says so, and the row says running before the gateway is told. `StreamProxy` is
what one streaming call does between `newBackendStream` and its return, with the
life of the process reduced to the end of the backend. `WarmPool` keeps of an
instance whether it has a process, since when it has been idle, and who is using it.

### Supervisor

The variables are those of the code for one instance: its `row`, the mode of its
service (`svcMode`), the gate with the operation that holds it (`gate`), the
entry of `procs` (`tracked`, with `stz` and `current` for its fields), a pending
`backoff` timer, the scan's decision (`sampled`), the references of requests
(`refs`), the processes of the operating system (`alive`, `killed`) and their
exit watchers (`waiters`), an import on its way to the instance (`reload`) and
the daemon (`daemon`, `toStop`). `leaked` is a history variable: the live
processes of which the daemon knowingly let go. `SupervisorHistory` adds `left`,
the process that was in the table when its instance was deleted, as long as the
table or the operation at the gate holds it.

An operation enters when the gate is free and runs in steps. It is cut where the
code blocks: waiting for a process to die (`StopDone`, `StopFail`), before the
fork (`StartBegin`, `StartEarlyFail`), the fork (`Spawn`, `SpawnFail`), the
registration (`Register`, `RegisterReplaced`, `RegisterFail`) and the health wait
(`Healthy`, `HealthFail`). What the code does between two such points is one
step, its writes to the store included. `gate.then` is the code that follows the
stop; `gate.gone` says that the client has disconnected, from when on the
operation's context is cancelled and its writes fail.

Generations are only compared with the current one, so the model keeps who holds
the current one. A timer of an older generation does nothing and is not kept.
`lastActivity` is reduced to what the scan asks of it.

An import writes the row of the service and then visits the instances: `reload`
is `imported` between the two, then the mode the import found or `apply`, as in
`restartEnabledServiceInstances`; the visit can be abandoned at any point by a
client that disconnects or a daemon that dies.

`EnsureStarted` is allowed in every mode: the gateway looks the mode up before it
calls, so its view may be old.

`Served` instantiates `ServedInstance` with a refinement mapping: whether the
daemon starts processes (`accepting`), the live tracked process (`serving`), the
requests that hold it (`users`), the address that a reader of the row would dial
(`told`, as `backendStream` reads it), and whether the idle stopper holds the
gate (`parking`). `ServedInstance` has no gate, row, generation, timer or exit
watcher, so `IsServedInstance` says that they never show: a process is announced
in the step that registers it, only when none serves and never by a daemon on its
way down; its address is withdrawn after it is gone and not before; a request
uses the process that serves and loses it only to an exit, an operation or the
end of the daemon; and the idle stopper takes it from nobody. Under `import` it
does not hold: a sync of an instance whose service has become on-demand withdraws
the address of a process that still serves.

### ServiceArtifacts

A directory is the package it was staged from, the shared tree its entries link
to, and whether it is complete. `row`, `dir`, `backup`, `staging` hold one per
service; `trees` and `aged` are the shared store. `job` is what each daemon does
under its import lock, cut at each operation on the file system and the store:

    tree -> stage -> clear -> aside -> install -> upsert -> cleanup
                                                  upsert -> rollback -> restore
    scan -> discard | undo -> redo                (RecoverServiceDirs)
    sweep                                         (SweepOrphanedTrees)

Boot, drain and stop follow `main.go`: the port is bound first, so at most one
daemon is past its bind and not draining, but a draining daemon has closed the
listener and still answers the calls it accepted. A package's descriptor is a
function of the package, so two packages may share one: that is why recovery
compares both hashes. Whether an import may share its tree (`sharingEligible`) is
chosen per import.

`Atomic` instantiates `AtomicImport` with a refinement mapping: the version of a
service is its row's, as long as its live directory or its backup holds it, and
an import is pending until its row is written. `AtomicImport` has neither
directories nor daemons, so `ImportIsAtomic` says that swapping, rolling back,
crashing and recovering never change the version of a service, and that a step
that writes a row is the import of the package it had staged.

### Gateway

`row`, `proc` and `op` are the instances: a row, the port its process listens on
and the operation at its gate. `call` holds for each call what it has read so
far: the row's mode when it was resolved (`Resolve`), whether it holds a
reference, and the address it will dial. `cached` is `g.conns`, `slots` the
tokens in `g.onDemandSlots`.

A call is dispatched by the mode it read. One to a scale-to-zero instance warms
it (`WarmHit`, or `ColdStart` and the operation at the gate), reads the row again
(`Reread`), looks up its connection (`Dial`) and ends (`Finish`), dropping its
reference; one to a long-running instance goes from the row it read to `Dial`
(`Backend`), without a reference; one to an on-demand instance takes a slot
(`AcquireOnDemandSlot`) and gives it back when its set-up fails (`SetUpFail`) or,
if not, when the process it runs (`RunOnDemand`) is gone (`FinishOnDemand`).

Ports are few and are handed out again as soon as no process listens on them
(`FreePort`), to another instance or to a new process of the same one: an address
read earlier may lead to another process. A connection is named by its port.
`Dial` evicts connections to other addresses of the instance and
`InvalidateInstance` those to any, under the calls that use them (`Closed`). What
the address column says while nothing runs is left out, as it is never read: the
code clears it or keeps it, depending on the mode.

### StreamProxy

The two legs are the goroutines of `proxyBidiStream`; `proxyServerStream` and
`proxyClientStream` run the same legs one after the other. A leg takes a message
and passes it on, and what it ends with goes into `errc` for `Join`, or is
returned. The client and the backend are peers that may send, read, half close,
give up, answer or disappear at any point. Messages are counted: streams keep
their order, and at most `Window` are in flight on a hop, so that a slow reader
holds its sender up. `releaseOnce` is `warmStream`'s: whichever of a failed
send, a failed receive, the end of the responses and the deferred release comes
first drops the reference.

What grpc-go does when a stream is over is external and stated at the head of the
module: `SendMsg` fails with `io.EOF` and says nothing of the status; `RecvMsg`
drains the responses and then tells the status; `io.EOF` itself becomes Unknown
at the client.

`Forwarded` instantiates `ForwardedStream` with a refinement mapping: what the
peers have sent, what has been passed on each way, whether the call's reference
is held or over (`reference`), and what the client is told (`told`). The legs, the
channel and the messages in flight are not in `ForwardedStream`, so
`IsForwardedStream` says that they never show: whichever leg ends first and
however often `releaseOnce` is called, the call takes its reference before it
opens the backend stream and gives it back once, ends once, fails only when the
client has left, the backend has ended or no stream could be had, and passes
nothing on after that.

### WarmPool

`lru` is the set of instances with a process, in the order of `lastActivity`.
A scan takes a snapshot and parks what has been idle for too long, then parks the
least recently used until the pool is within `MaxWarm`, taking each gate in turn
and looking again at what it decided without it (`stillIdle`). Between the
decision and the gate a call may arrive, end, or start a process, an operator may
switch a mode (`SwitchBegin`, `SwitchEnd`), or a process may exit. `used`, a
history variable, holds what changed after the scan began.

## Faults and bounds

`Faults` selects what the environment may do, so that each run can say exactly
under which faults its properties hold.

Supervisor: `stop` a process outlives its SIGKILL wait; `caller` a client
disconnects; `early`, `spawn`, `health` a start fails before the fork, at it, or
at the health check; `crash` the daemon dies; `import` the service is imported
again with any mode.

ServiceArtifacts: `crash` a daemon dies; `fail` an import or its row write fails;
`torn` a removal is cut short by a crash; `race` a service is deleted while it is
imported.

| Run | Instance | Distinct states |
|---|---|---|
| `supervisor_faults` | 3 processes, 1 request, all faults but `import` | 697 thousand |
| `supervisor_import` | 2 processes, 1 request, all faults | 1.5 million |
| `supervisor_live` | 4 processes, `crash`, weak and strong fairness | 20 thousand |
| `artifacts` | 1 daemon, 2 services, 3 packages, 2 trees, `crash` and `fail` | 205 thousand |
| `artifacts_live` | 1 daemon, 1 service, every fault, fairness | 263 thousand |
| `gateway` | 1 instance, 3 calls, 2 ports, 1 slot | 251 thousand |
| `stream_proxy` | every kind of stream, 2 messages each way, 1 in flight on a hop | 21 thousand |
| `warm_pool` | 3 instances, 1 call, a limit of 1, one instance whose mode is switched | 119 thousand |

Three processes are the one tracked, one that outlived a stop or a daemon, and
one being started; a process is reused once nothing refers to it, so runs are
unbounded in time. With imports two suffice for the properties of that run, each
of which speaks about one process and the operation at the gate. One request is
enough for the references, since requests only interact through the process they
hold. Two services and two trees let one service release a tree another one
links; three packages contain two that differ in code but not in descriptor.

In `gateway`, three calls are one that evicts a connection, one that loses it and
one that holds the gate or the slot; calls of different instances share only the
slots, so one instance is enough, and two ports let a process take the one of its
predecessor. In `stream_proxy`, two messages and a window of one fill a hop and
leave one waiting. It does not check for deadlock, because a call that has
returned stops. In `warm_pool`, three instances and a limit of one make the scan
evict twice, choosing among two the second time.

`MCSupervisor!LiveNext` limits the liveness run further, without symmetry: the
next spawn takes a fixed fresh process, at most `MaxLeaked` processes outlive the
daemon at a time, no operation overtakes an exit watcher waiting for the gate,
and of the operator's calls start, stop, restart, mode switch and create are
kept. No other counter is bounded: the state is finite by itself.

## What is checked

| Property | Says |
|---|---|
| `SingleProcess` | no two processes of an instance run that the daemon has not given up on |
| `NoStrayProcess` | no return of a start, stop or shutdown drops a live process, and what an operation starts nobody else kills |
| `RowDescribesTracked` | between operations the row is true of a live process |
| `NoTimerOverLive` | no restart timer that would act beside a live process |
| `ParkRespectsRefs` | the idle stopper never stops a process in use |
| `StopWins`, `StopBeatsReload` | only the operator enables a stopped instance; not a crash, a timer, a request, an idle scan, a boot or a reload |
| `CleanShutdown` | a shutdown that ends has left no process and no row with a pid |
| `IsServedInstance` | start, stop, restart, park, failure and boot with all their steps implement `ServedInstance` |
| `OnDemandLanded` | every write that leaves an enabled on-demand row, but a late exit watcher's, leaves it running, without pid and address, which is what the gateway serves |
| `NoDeadPid` | no row that rests names a dead process, but an enabled one that the reconcile pass will find |
| `NoLostRestart`, `CrashIsRetried` | a long-running instance without a process is in somebody's care, and started again |
| `GateReleased`, `StaleRepaired`, `OrphansDie`, `ShutdownCompletes` | operations end, stale rows and leaked processes go, a shutdown ends |
| `VersionOnDisk` | at each step of import, rollback, recovery and through crashes, the version a row names is on disk |
| `RowServed` | with nobody changing it, a service is served in the version of its row |
| `NoBackupLeft` | no backup survives the step that had to decide about it |
| `LinksHold` | no directory links to a collected tree |
| `ImportLockReleased` | every import, recovery and sweep ends |
| `ImportIsAtomic` | imports with all their steps, failures and crashes implement `AtomicImport` |
| `ReferencedCallReachesItsProcess` | a call with a reference talks to the process it holds, whoever has its old port |
| `NoConnectionLeft` | an open connection is in the cache, so somebody will close it |
| `SlotsAccounted` | the slots taken are those of the calls that set up or run a process |
| `WarmDialSparesOthers` | a warm call's look-up never closes another warm call's connection |
| `RefExact` | the reference of a stream lasts until its proxy returns and is dropped once |
| `IsForwardedStream` | a proxied stream with its legs and releases implements `ForwardedStream`; in particular a client is told success only if every message went through and the backend said so |
| `ProxyEnds` | a call whose client has left, or whose peers are both done, ends |
| `BothWaysFlow` | neither direction of a stream waits for the other |
| `LegsEnd` | no goroutine outlives its call |
| `EvictsOldest` | an eviction passes over nothing that was idle for longer through the whole scan |
| `PoolWithinLimit` | a scan ends with the pool within its limit, or full of instances in use |
| `ScanEnds` | a scan ends, whatever calls and failed stops do meanwhile |

`RowDescribesTracked`, `SingleProcess`, `NoLostRestart` and the other properties
of `supervisor_faults` and `supervisor_live` are not claimed
under `import`: between the write of the service row and the reload the code
really is in other states.

`StopWins` has one exception besides the operator's own calls. `parkLocked` does
not look at `Enabled`, and `DeleteInstance` of an on-demand instance stops
nothing: a process that has exited, and whose exit watcher still waits for the
gate, can outlive its instance in the table, and a scan that parks it enables a
disabled instance created under the same id in between. The exception names that
process (`left`); a park of any other process may not enable anything.

### What the code does not keep

Four runs expect a violation: a claim of a comment or a document that the code
does not keep.

* `find_sync_intent`: "it never flips operator intent" (`supervisor.go:140`).
  Syncing a stopped instance with an on-demand override enables it.
* `find_late_exit`: "row becomes enabled/running/no pid"
  (`instance-scale-to-zero-runtime.md:138`, `:142`). A process exits; before its
  exit watcher has the gate, a sync with new content makes the instance
  scale-to-zero, which clears the row and leaves the entry of the dead process in
  the table (`lifecycle.go:68-84`), and another makes it on-demand, finds nothing to
  stop and lands the row. The watcher takes a row without a pid for its own
  (`supervisor.go:1619`) and writes degraded over it. The gateway answers no call to
  such a row (`gateway.go:1771`) and "no other pass repairs it"
  (`supervisor.go:1275-1277`). `OnDemandLanded` says that nothing else does this.
* `find_idled_stream`: "a live stream therefore cannot be idled out"
  (`instance-scale-to-zero-runtime.md`). A call that read its instance as
  long-running holds no reference; when a sync makes the instance scale-to-zero
  and keeps its process (`supervisor.go:407`), the idle stopper parks it under
  the call.
* `find_status`: the gateway "returns the standard gRPC status code directly"
  (`error-model.md:9`), `UNIMPLEMENTED` for a method the package does not
  implement (`:17`) and `UNKNOWN` for unknown internal errors (`:21`). When a
  backend answers while requests still arrive, the send fails with `io.EOF` and
  the proxy returns that, not the status it could have received (`grpc.go:125`,
  `:165`).

Other statements of the source that the modules show to be too strong, for which
there is no run of their own:

* "a live entry here means a caller bypassed the gate" (`supervisor.go:737`): a
  mode switch between an import and its reload meets a live entry while it holds
  the gate (`RegisterReplaced` is taken in `supervisor_import`).
* `reconcile.go:30` calls the reconcile pass the backstop for a stop that timed
  out. A restart whose stop times out rests enabled and stopped, which
  `claimsLiveness` leaves out, and so does one whose start then fails before it
  writes the row: with the fault `stop` or `early`, `NoLostRestart` fails.
* "a stale pid would read as warm" (`supervisor.go:790`): the write that clears
  the pid uses the context whose end made the health wait fail. With the fault
  `caller` the dead pid stays until the reconcile pass comes, which is the case
  `NoDeadPid` leaves out (`staleClaim`).
* "either complete or absent, never partial" (`shared_tree.go:334`): a sweep
  killed within a removal leaves a part under the whole name (`CrashInTree`).
* "defends against every shape of that window" (`gc.go:28`): a reused tree is as
  old as its publication, so with two daemons the sweep of one collects a tree
  the other is about to link, and `LinksHold` fails. With one daemon it holds.

## Fairness

`Supervisor!Fairness`: a goroutine that can run does (weak fairness of the
operation at the gate, of a stop's process dying after SIGKILL, of the shutdown);
a Go mutex serves a waiter of more than a millisecond, so an exit watcher that can
take the gate again and again does (strong fairness); the reconcile ticker and
the backoff timer come back (strong fairness). Processes are not assumed to exit
by themselves, clients not to call, and the daemon may die at any time.

`ServiceArtifacts!Fairness`: the goroutine that holds the import lock runs on.
Nothing is assumed about daemons being started, drained or stopped.

`StreamProxy!FairSpec`: goroutines run on, and a peer that stays reads what has
arrived. Peers need not send, half close, answer or leave; each clause of
`ProxyEnds` says what it takes of them. `WarmPool!FairSpec`: starts and mode
switches end, and the scan gets each gate in the end (strong fairness, as above).
`Gateway` claims no liveness: what it waits for is the supervisor's.

## What is proved

`SupervisorProofs` proves, for any sets of processes and requests and any
`Faults`, from the two assumptions of `Supervisor` only (`None` is no process and
no request; `Faults` are known):

* `TypeCorrect`: `Spec => []TypeOK`
* `NoProcessDropped`: `Spec => []NoStrayProcess`
* `TimerStandsDown`: `Spec => []NoTimerOverLive`
* `ParkIsSafe`: `Spec => []ParkRespectsRefs`
* `ShutdownIsClean`: `Spec => CleanShutdown`

The argument. `NoStrayProcess` is not inductive: a process between its fork and
its registration is known only to the operation at the gate, so the invariant
must say which process an operation holds at each point, and that nobody tracks
it yet. That is `OperationOwnsProcess`; with it `Owned` is inductive, and the proof has one lemma
per group of actions (`OperationOwned`, `BackgroundOwned`, `ReconcileOwned`,
`LifecycleOwned`, `EnvironmentOwned`). The operator's calls are reduced by
`OperatorEntry` to one fact, `Entry`: a call that enters the gate either moves the
tracked process to the gate or leaves it tracked. Types are proved by the same
grouping.

`NoTimerOverLive` needs `TimerCancelled`: whoever holds the gate has cancelled the
timer, and a daemon that is down has none. `ParkRespectsRefs` is inductive with
`Owned`: references are taken under the gate. `CleanShutdown` rests on
`ShutdownCoversRow`: once the shutdown has read the rows, a resident row that
still has a pid is the one it is about to stop.

`SupervisorRowProofs` builds on it:

* `OneProcess`: `Spec => []SingleProcess`
* `RowIsTrue`: `Spec => []RowDescribesTracked`
* `StopIsFinal`: `HistorySpec => StopWins`
* `ReloadRespectsStop`: `Spec => StopBeatsReload`
* `InstanceIsServed`: `Spec => IsServedInstance`

All but `ReloadRespectsStop` assume `NoImport`: between an import that changes the
mode of a service and its reload, a process may run under a mode it was not
started for, and the four properties do not hold. The invariant of the first three
is `Tended`: a live tracked process is the one the row describes
(`TrackedServes`), a start has written the row of the process it holds
(`StartDescribes`), a stop or a start leaves enabled only what was enabled or what
the operator asked for (`StopIntended`, `StartIntended`), and a disabled instance
is in a resident mode (`DisabledRests`), since on-demand rows are always enabled.
For `StopIsFinal` there is `Inherits`: a process in the table, or in the hands of
the idle stopper, belongs to an enabled instance or is the one in `left`. Whoever
disables an instance takes its process out of the table first and cannot do so
while a park holds the gate; only a delete leaves one behind. Whatever an action
does, it stops a process, starts one, or leaves the gate free (`Stops`, `Starts`,
`Rests`), and `OutcomeTended` says that each of the three keeps `Tended`.
`ReloadRespectsStop` holds under every fault, with the invariant `ReloadIntended`:
a reload that stops a disabled instance ends there.

For the refinement the invariant is `Ready`: to what precedes it adds that the
idle stopper's operation is a stop and nothing else (`ParkStops`), and that nobody
refers to a process before its registration (`Unclaimed`), or it would have users
in the step that launches it. Most steps announce nothing: by `Fading` a step that
brings no process and no address, and leaves the requests alone, is a `Gone`, a
`Withdraw` or a stutter, because a live process is told (`TrackedServes`);
`SteadyStep` says it of the table of processes, and every call of the operator is
such a step (`OperatorServes`). What is left is a lemma for each step with a name
of its own in `ServedInstance`: the registration is a `Launch` (`RegisterServes`),
a request's a `Use` or a `Leave` (`UseServes`, `RequestsServe`), the stopper's a
`Park` and a `Parked` (`BackgroundServes`, `StopServes`), and the daemon's a
`Close`, an `End` and an `Open` (`LifecycleServes`).

`SupervisorRestProofs` goes on with what rows rest in:

* `DeadPidsAreCleared`: `Spec => []NoDeadPid`, without `import`
* `OnDemandRowsLand`: `Spec => OnDemandLanded`, without `import`
* `NobodyIsForgotten`: `Spec => []NoLostRestart`, without `stop`, `early`, `caller`
  and `import`

The faults that `NobodyIsForgotten` excludes are those that break the property, as
"What the code does not keep" says; it is wider than the run `supervisor_live`, as
it goes through failed starts.

The invariants are `PidClaims` (a pid stands only in a resident, enabled row: so one
that rests and is dead is a claim that the reconcile pass finds), `StoppedIsClean`
(a stopped row has no pid) and `Wanted` (an enabled long-running row is stopped
only while an operation is at work on it). For the first two, `GoneIsClient` says that
only a client's call can lose its context. Every call is again of one of three
kinds, this time with what it does to the row (`Stopping`, `Starting`, `Resting`),
and `OutcomeSettles` covers them; the steps of an operation follow in `StopSettles`,
`StartSettles`, `FailureSettles` and `RollBackSettles`.

`OnDemandLanded` is an action property, and the danger to a row that has landed is
what was under way before: the invariant is `Cold`. An instance that is on-demand, or
no more, has no generation and no timer; a stop that finds it on-demand is a
reconcile pass's over a process that has exited, and goes on to land the row; and
a start that would roll back to on-demand has not made the row on-demand yet. Each
call and step has a lemma for its row and for `Cold` (`CoolStop`, `CoolStart`,
`CoolRest` and those named after the actions), `NextCools` puts them together. The
exception is only used by the lemma about exit watchers, for a watcher whose process
has lost its generation.

`ServiceArtifactsProofs` proves, for any sets of services, packages and trees,
from the assumptions `ServiceArtifacts` makes on its constants:

* `TypeCorrect`: `Spec => []TypeOK`, for any number of daemons
* `CollectedTreesAreUnlinked`: `Spec => []LinksHold`, for one daemon
* `VersionsStayOnDisk`: `Spec => []VersionOnDisk`
* `RowsAreServed`: `Spec => []RowServed`
* `NoBackupOutlives`: `Spec => []NoBackupLeft`

`OneDaemon` is an assumption of the last four because `LinksHold` really fails
with two, and because two daemons that import one service destroy each other's
work. `VersionsStayOnDisk` and `RowsAreServed` also assume `Orderly`: no removal is
cut short, or a directory with files missing is on disk; and no service is
deleted while it is imported, or the row that the import writes comes back after
its directory is gone. `NoBackupOutlives` needs no more than `OneDaemon`: a
removal that is cut short leaves its backup to the next boot.

The argument. With types goes `Control`: which jobs go with which life of a
daemon. `LinksHold` is not inductive: the invariant `TreesKept` adds that the
tree an import is about to link is in the store, and that the sweep's remaining
candidates are linked by nothing. Almost every step only moves directories, and
`MovesLinks` and `FewerReferences` say that this links nothing anew. For versions
the invariant is `AllWhole` and `VersionKept`: the row's version is live or put
aside (`Live(s) \/ Saved(s)`), and for each place of a commit, a rollback or a
recovery `CommitAt` says which of the two it is. A service that is neither being
worked on nor waiting for recovery is `Decided`. `RowDecides` is the core of the
recovery: comparing both hashes with the row tells the two cases apart.
`ImportStepKept`, `RecoveryStepKept` and `UntouchedKept` reduce an action to what
it does to its own service. For backups the invariant is `Backups`, which does not
ask what is in them: each backup is accounted for (`Accounted`) by the import or
rollback that has its service at hand, or by a boot that has not come to it.

`AtomicImportProofs` proves `ImportsAreAtomic`: under `OneDaemon` and `Orderly`,
`Spec => ImportIsAtomic`. `VersionOnDisk` makes the mapping simple: the version
of a service is its row's at every moment (`VersionsAreRows`). Then every action
is of one of five kinds: it begins an import, goes on with one, commits it, ends
it without a commit, or deletes a service (`ImportKinds`, `RecoveryKinds`,
`DaemonKinds`), and each kind is a step of `AtomicImport` or a stutter
(`StepRefines`).

`GatewayProofs` proves, for any sets of instances, ports and finitely many calls
and slots:

* `GatewayTyped`: `Spec => []TypeOK`
* `ReferencesReach`: `Spec => []ReferencedCallReachesItsProcess`
* `ConnectionsClosed`: `Spec => []NoConnectionLeft`
* `SlotsBalance`: `Spec => []SlotsAccounted`
* `WarmCallsShare`: `Spec => WarmDialSparesOthers`

The invariant has three parts. `OpOK` says what an operation at a gate has done to
the process and the row so far, `OpCallOK` ties an operation to the call that
waits for it, and `CallOK` says what a call may rely on: one with a reference
that has read the row again has the address of the process, since nothing that
ends the process lets it keep the reference. The slots are counted by a lemma per
way a call comes to a slot and gives it back (`AcquireSlots`, `FinishSlots`).

`StreamProxyProofs` proves, for any number of messages and any window:

* `ProxyTyped`: `Spec => []TypeOK`
* `ReferencesExact`: `Spec => []RefExact`
* `SuccessIsTrue`: `Spec => []NoFalseSuccess`, the part of `IsForwardedStream` that
  speaks of success, proved by itself

Its invariant says where each leg can be (`UpOK`, `DownOK`, `OpenOK`), that the
reference is held exactly from the warm-up to the first release (`RefOK`), and
that the successes reported but not yet received plus those received are the legs
that ended well (`OksOK`): so the second success that `Join` receives is the
second leg's. Every action has a lemma that states its effect, and the parts of
the invariant are proved from those.

The same module proves `ProxyForwards`: `Spec => IsForwardedStream`. To the
invariant it adds that no more is taken or relayed than was sent (`FlowOK`), that
a proxy without goroutines has no leg at work when it has returned (`OnceOK`), and
that a failure that waits in the channel has a cause: the client left or the
backend ended (`CauseOK`). Every action of the proxy is then a step of `ForwardedStream` of its
own name, a failure (`FailStep`), the success (`SucceedStep`), a release
(`ReleaseStep`) or a stutter (`Unseen`).

`WarmPoolProofs` proves, for any finite set of instances, any calls and any
limit, from the assumptions of `WarmPool`:

* `TypeCorrect`: `Spec => []TypeOK`
* `OldestIsEvicted`: `Spec => EvictsOldest`
* `PoolStaysWithinLimit`: `Spec => PoolWithinLimit`

A scan chooses its victim under one lock and parks it under another, so what it
chose by is old when it acts, and neither property follows from the step that it
is about. `PassedOver` says what the scan may rely on: what it has passed over,
because it was referenced or could not be parked, is in `used`.
`VictimOldest` says that a victim nobody has touched since it was chosen is still
the oldest of those left alone. The lemmas about `lru` say what a touch and a
removal do to the order of the other instances (`OrderTouch`, `OrderRemove`).

What TLC alone stands behind is liveness, which is out of the prover's reach:
`GateReleased`, `CrashIsRetried`, `StaleRepaired`, `OrphansDie`,
`ShutdownCompletes`, `ImportLockReleased`, `ProxyEnds`, `BothWaysFlow`, `LegsEnd`
and `ScanEnds`; and the four runs that expect a violation.

## What is not modelled

* Supervisor: renaming, rebinding an instance to another service, the one-second
  cache of start failures, the service row that `CreateInstance` reads before it
  has the gate, the fallback of an exit watcher whose service lookup fails.
  `Shutdown` whose ten seconds expire is the crash that follows. Requests queued
  on the gate when the shutdown begins are gone: the HTTP server is drained before.
* ServiceArtifacts: I/O errors other than a failed build and a failed row write
  (a rollback or a removal that returns an error leaves a backup that the next
  import deletes); two daemons that import the same service at once, which
  destroys each other's staging tree as `importer.go:30-40` says (they may import
  different services at once, as the lock is a process's own); a sweep that
  reads a tree's age and removes it in one step; the shared staging tree of a
  recursive import, which is modelled as imports of its services.
* Gateway: routes, authentication, JSON transcoding, the command line of an
  on-demand run and the status it may report (`gateway.go:2076`).
* StreamProxy: time; an error that grpc-go itself makes up on the client's side.
  `proxyClientStream` and `proxyBidiStream` do not pass on an answer that comes
  while the client stays silent and keeps its stream open; no property asks for it.
* WarmPool: on-demand instances, which have no process to bound; a switch to
  on-demand ends the process, which `Exit` stands for.
* Tokens and capability sets: verification is one statement, and the last-use
  writes it debounces are shown and never decide anything. The catalogue looks
  methods up again whenever it is read.
* Reflection, descriptors, hardening, egress rules, logs, CLI, SDK: pure functions,
  configuration of the operating system, or clients without a state of their own.
* The bundled services, which are most of the repository's lines: adapters of
  third-party APIs in JavaScript, each a pure mapping of requests. To the daemon
  they are processes that become healthy or do not. The daemon's own concurrent
  and persistent core, which these modules cover, is a small part of the whole.
