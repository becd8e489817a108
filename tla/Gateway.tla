------------------------------ MODULE Gateway ------------------------------
(***************************************************************************)
(* How the gateway of internal/protocol serves calls while the supervisor  *)
(* starts, stops, parks and switches the instances under them: dispatch by *)
(* the mode a call read when it arrived, references on warm instances, the *)
(* cache of backend connections and the slots of the on-demand runtime.    *)
(*                                                                         *)
(* An instance is its row, its process (named by the port it listens on)   *)
(* and the operation that holds its gate.  Supervisor describes these in   *)
(* full; here an operation is what the gateway can see of it: the process  *)
(* goes before the row says so, and the row says running before the        *)
(* gateway's connections are invalidated.                                  *)
(*                                                                         *)
(* Abstractions.  A connection is named by its port: backendConn keeps at  *)
(* most one per instance, so it is the cached one while it is open.        *)
(* Payloads, metadata and the mapping of errors are left out; which idle   *)
(* instance is parked, and when, is the subject of WarmPool.               *)
(***************************************************************************)
EXTENDS Naturals, FiniteSets

CONSTANTS
    Inst,       \* instances
    Call,       \* calls that may be in progress at once
    Port,       \* ports of 127.0.0.1 the operating system hands out
    None,       \* no instance, call or port
    Slots       \* OnDemandMaxConcurrency

ASSUME NoneAssumption == None \notin Inst /\ None \notin Call /\ None \notin Port
ASSUME CallAssumption == IsFiniteSet(Call)
ASSUME SlotsAssumption == Slots \in Nat \ {0}

LR  == "long-running"
OD  == "on-demand"
STZ == "scale-to-zero"
Modes     == {LR, OD, STZ}
MaybePort == Port \union {None}

VARIABLES
    row,     \* per instance: effective mode, enabled, status, listen_addr
    proc,    \* the port its tracked, live process listens on
    op,      \* the operation that holds its gate, and what comes next in it
    cached,  \* g.conns: the port its cached connection leads to
    call,    \* the calls
    slots    \* tokens in g.onDemandSlots

instVars == <<row, proc, op>>
vars == <<instVars, cached, call, slots>>

Row == [mode: Modes, enabled: BOOLEAN, running: BOOLEAN, addr: MaybePort]

\* Free, stopping a process, about to start one, or started and not announced.
Op == [pc: {"free", "stop", "start", "announce"},
       next: {"done", "disabled", "restart", "onDemand", "park"},
       call: Call \union {None}]
FreeGate == [pc |-> "free", next |-> "done", call |-> None]

\* A call holds the row it resolved, then the address it read and whether the
\* connection it uses has been closed under it.
CallState == [pc: {"idle", "resolved", "warming", "warmed", "dial", "flight",
                   "slot", "run"},
              inst: Inst \union {None}, mode: Modes, addr: MaybePort,
              ref: BOOLEAN, open: BOOLEAN]
NoCall == [pc |-> "idle", inst |-> None, mode |-> LR, addr |-> None,
           ref |-> FALSE, open |-> FALSE]

\* One type invariant for the module.
TypeOK ==
    /\ row \in [Inst -> Row]
    /\ proc \in [Inst -> MaybePort]
    /\ op \in [Inst -> Op]
    /\ cached \in [Inst -> MaybePort]
    /\ call \in [Call -> CallState]
    /\ slots \in 0..Slots

-----------------------------------------------------------------------------
(* Reading the state                                                        *)

GateFree(i) == op[i].pc = "free"
Live(i)     == proc[i] # None
RefHeld(i)  == \E c \in Call : call[c].inst = i /\ call[c].ref

\* freeLocalPort: a port that no process listens on, whoever had it before and
\* whoever still carries it.
FreePort(p) == \A i \in Inst : proc[i] # p

-----------------------------------------------------------------------------
(* Connections and references                                               *)

\* A faulty variant: the cache forgets a connection without closing it.
Forgotten(calls, i) == calls

\* Every connection of i is closed: the calls that use one will fail.
Closed(calls, i) ==
    [c \in Call |-> IF calls[c].inst = i /\ calls[c].pc = "flight"
                    THEN [calls[c] EXCEPT !.open = FALSE] ELSE calls[c]]

\* InvalidateInstance, called by the supervisor through OnInstanceChanged.
InvalidateInstance(i) == cached' = [cached EXCEPT ![i] = None]

\* A process that leaves procs takes the references counted on it along.
Unreferenced(i) ==
    [c \in Call |-> IF call[c].inst = i THEN [call[c] EXCEPT !.ref = FALSE] ELSE call[c]]

ColdRow(i, on) == [row[i] EXCEPT !.enabled = on, !.running = FALSE, !.addr = None]
OnDemandRow == [mode |-> OD, enabled |-> TRUE, running |-> TRUE, addr |-> None]

-----------------------------------------------------------------------------
(* The supervisor, as the gateway sees it                                   *)

\* stopProcess up to the end of the process.
stopProcess(i, next) ==
    /\ op' = [op EXCEPT ![i] = [FreeGate EXCEPT !.pc = "stop", !.next = next]]
    /\ proc' = [proc EXCEPT ![i] = None]
    /\ call' = Unreferenced(i)

\* The row is written, then the gateway is told; a restart goes on to the start.
StopDone(i) ==
    /\ op[i].pc = "stop"
    /\ row' = [row EXCEPT ![i] = CASE op[i].next = "disabled" -> ColdRow(i, FALSE)
                                   [] op[i].next = "onDemand" -> OnDemandRow
                                   [] OTHER -> ColdRow(i, row[i].enabled)]
    /\ InvalidateInstance(i)
    /\ call' = Closed(call, i)
    /\ op' = [op EXCEPT ![i] = IF op[i].next = "restart"
                               THEN [FreeGate EXCEPT !.pc = "start"] ELSE FreeGate]
    /\ UNCHANGED <<proc, slots>>

\* The process is spawned and tracked, and its row says so.
StartProc(i, p) ==
    /\ op[i].pc = "start" /\ FreePort(p)
    /\ proc' = [proc EXCEPT ![i] = p]
    /\ row' = [row EXCEPT ![i].running = TRUE, ![i].addr = p]
    /\ op' = [op EXCEPT ![i].pc = "announce"]
    /\ UNCHANGED <<cached, call, slots>>

\* Healthy: connections are invalidated, and the call that started the instance
\* takes its reference, unless its caller gave up meanwhile.
Announce(i) ==
    /\ op[i].pc = "announce"
    /\ InvalidateInstance(i)
    /\ \E gaveUp \in BOOLEAN :
        call' = [c \in Call |->
                    IF c # op[i].call THEN Closed(call, i)[c]
                    ELSE IF gaveUp THEN NoCall
                    ELSE [call[c] EXCEPT !.pc = "warmed", !.ref = TRUE]]
    /\ op' = [op EXCEPT ![i] = FreeGate]
    /\ UNCHANGED <<row, proc, slots>>

\* It could not be started or is not healthy.  Nobody tells the gateway, unless a
\* switch from on-demand to long-running is rolled back.
StartFail(i) ==
    LET failed == [c \in Call |-> IF c = op[i].call THEN NoCall ELSE call[c]] IN
    /\ op[i].pc \in {"start", "announce"}
    /\ proc' = [proc EXCEPT ![i] = None]
    /\ op' = [op EXCEPT ![i] = FreeGate]
    /\ IF op[i].next = "onDemand"
       THEN /\ row' = [row EXCEPT ![i] = OnDemandRow]
            /\ InvalidateInstance(i) /\ call' = Closed(failed, i)
       ELSE /\ row' = [row EXCEPT ![i] = ColdRow(i, row[i].enabled)]
            /\ call' = failed /\ UNCHANGED cached
    /\ UNCHANGED slots

\* The operator starts, stops or restarts a resident instance, a crashed one is
\* restarted, or an import reloads it.
Start(i) ==
    /\ GateFree(i) /\ ~Live(i) /\ row[i].mode # OD
    /\ row' = [row EXCEPT ![i].enabled = TRUE]
    /\ op' = [op EXCEPT ![i] = [FreeGate EXCEPT !.pc = "start"]]
    /\ UNCHANGED <<proc, cached, call, slots>>

Stop(i) ==
    /\ GateFree(i) /\ row[i].mode # OD
    /\ stopProcess(i, "disabled")
    /\ UNCHANGED <<row, cached, slots>>

Restart(i) ==
    /\ GateFree(i) /\ Live(i) /\ row[i].enabled /\ row[i].mode # OD
    /\ stopProcess(i, "restart")
    /\ UNCHANGED <<row, cached, slots>>

\* Between the resident modes the process stays.  SetRuntimeMode towards
\* scale-to-zero invalidates the connections; a sync, and a switch back, do not.
SetModeResident(i, mode) ==
    /\ GateFree(i) /\ Live(i)
    /\ {row[i].mode, mode} = {LR, STZ}
    /\ row' = [row EXCEPT ![i].mode = mode]
    /\ \/ mode = STZ /\ InvalidateInstance(i) /\ call' = Closed(call, i)
       \/ UNCHANGED <<cached, call>>
    /\ UNCHANGED <<proc, op, slots>>

SetModeCold(i, mode) ==
    /\ GateFree(i) /\ ~Live(i)
    /\ mode \in {LR, STZ} /\ row[i].mode # mode
    /\ row' = [row EXCEPT ![i] = [ColdRow(i, row[i].enabled) EXCEPT !.mode = mode]]
    /\ op' = IF mode = LR /\ row[i].enabled
             THEN [op EXCEPT ![i] = [FreeGate EXCEPT !.pc = "start",
                        !.next = IF row[i].mode = OD THEN "onDemand" ELSE "done"]]
             ELSE op
    /\ InvalidateInstance(i) /\ call' = Closed(call, i)
    /\ UNCHANGED <<proc, slots>>

\* Also the reconcile pass over an on-demand row that has a process.
SetModeOnDemand(i) ==
    /\ GateFree(i) /\ (row[i].mode # OD \/ Live(i))
    /\ stopProcess(i, "onDemand")
    /\ UNCHANGED <<row, cached, slots>>

\* parkLocked, by the idle stopper or an eviction: a warm instance that no call
\* references.
Park(i) ==
    /\ GateFree(i) /\ Live(i) /\ row[i].mode = STZ
    /\ ~RefHeld(i)
    /\ stopProcess(i, "park")
    /\ UNCHANGED <<row, cached, slots>>

\* The process exits; its exit watcher has yet to take the gate.
ProcExit(i) ==
    /\ Live(i) /\ GateFree(i)
    /\ proc' = [proc EXCEPT ![i] = None]
    /\ call' = Unreferenced(i)
    /\ UNCHANGED <<row, op, cached, slots>>

\* The exit watcher of a process that nothing has replaced.
Wait(i) ==
    /\ GateFree(i) /\ ~Live(i) /\ row[i].addr # None
    /\ row' = [row EXCEPT ![i] = ColdRow(i, row[i].enabled)]
    /\ InvalidateInstance(i) /\ call' = Closed(call, i)
    /\ UNCHANGED <<proc, op, slots>>

-----------------------------------------------------------------------------
(* Calls                                                                    *)

\* The call ends: with a response, an error or a caller that gave up, and on
\* every path the deferred release drops its reference.
End(c) == call' = [call EXCEPT ![c] = NoCall]

\* FindExposedMethodByInstance: the instance as it is now.
Resolve(c, i) ==
    /\ call[c].pc = "idle"
    /\ call' = [call EXCEPT ![c] =
           [NoCall EXCEPT !.pc = "resolved", !.inst = i, !.mode = row[i].mode,
                          !.addr = IF row[i].running THEN row[i].addr ELSE None]]
    /\ UNCHANGED <<instVars, cached, slots>>

\* A faulty variant: the call runs whether or not there is a slot.
RunRegardless(c) ==
    /\ call[c].pc = "resolved" /\ call[c].mode = OD
    /\ slots' = slots + 1
    /\ call' = [call EXCEPT ![c].pc = "slot"]
    /\ UNCHANGED <<instVars, cached>>

\* invokeOnDemand: no slot, no call.  A row resolved as on-demand is running and
\* enabled, or the call fails.
AcquireOnDemandSlot(c) ==
    /\ call[c].pc = "resolved" /\ call[c].mode = OD
    /\ IF slots < Slots
       THEN /\ slots' = slots + 1
            /\ call' = [call EXCEPT ![c].pc = "slot"]
       ELSE End(c) /\ UNCHANGED slots
    /\ UNCHANGED <<instVars, cached>>

\* releaseOnDemandSlot, deferred as soon as the slot is taken.
releaseOnDemandSlot == slots' = slots - 1

\* A faulty variant: the slot is given back only by a call that got to run.
SetUpFailKeepingSlot(c) ==
    /\ call[c].pc = "slot"
    /\ End(c)
    /\ UNCHANGED <<instVars, cached, slots>>

\* No temporary directory, metadata file, row, runtime entry, secret pipe or hardening:
\* the call ends before its process begins.
SetUpFail(c) ==
    /\ call[c].pc = "slot"
    /\ releaseOnDemandSlot
    /\ End(c)
    /\ UNCHANGED <<instVars, cached>>

\* The process begins.
RunOnDemand(c) ==
    /\ call[c].pc = "slot"
    /\ call' = [call EXCEPT ![c].pc = "run"]
    /\ UNCHANGED <<instVars, cached, slots>>

\* It could not be started, has exited, or was killed at its deadline or when its
\* caller left.
FinishOnDemand(c) ==
    /\ call[c].pc = "run"
    /\ releaseOnDemandSlot
    /\ End(c)
    /\ UNCHANGED <<instVars, cached>>

\* EnsureStarted of a tracked process.
WarmHit(c) ==
    LET i == call[c].inst IN
    /\ call[c].pc = "resolved" /\ call[c].mode = STZ
    /\ GateFree(i) /\ Live(i)
    /\ call' = [call EXCEPT ![c].pc = "warmed", ![c].ref = TRUE]
    /\ UNCHANGED <<instVars, cached, slots>>

\* EnsureStarted of a cold one, in whatever mode the row is by now.
ColdStart(c) ==
    LET i == call[c].inst IN
    /\ call[c].pc = "resolved" /\ call[c].mode = STZ
    /\ GateFree(i) /\ ~Live(i) /\ row[i].enabled
    /\ op' = [op EXCEPT ![i] = [FreeGate EXCEPT !.pc = "start", !.call = c]]
    /\ call' = [call EXCEPT ![c].pc = "warming"]
    /\ UNCHANGED <<row, proc, cached, slots>>

\* A faulty variant: the address of the snapshot is used.
RereadNothing(c) ==
    /\ call[c].pc = "warmed"
    /\ IF call[c].addr # None THEN call' = [call EXCEPT ![c].pc = "dial"] ELSE End(c)
    /\ UNCHANGED <<instVars, cached, slots>>

\* invokeBackend and newWarmStream read the row again once they hold the ref.
Reread(c) ==
    LET i == call[c].inst IN
    /\ call[c].pc = "warmed"
    /\ IF row[i].running /\ row[i].addr # None
       THEN call' = [call EXCEPT ![c].pc = "dial", ![c].addr = row[i].addr]
       ELSE End(c)
    /\ UNCHANGED <<instVars, cached, slots>>

\* A long-running call reads the row again only if its snapshot has no address.
Backend(c) ==
    LET i == call[c].inst
        addr == IF call[c].addr # None THEN call[c].addr
                ELSE IF row[i].running THEN row[i].addr ELSE None
    IN
    /\ call[c].pc = "resolved" /\ call[c].mode = LR
    /\ IF addr # None THEN call' = [call EXCEPT ![c].pc = "dial", ![c].addr = addr]
       ELSE End(c)
    /\ UNCHANGED <<instVars, cached, slots>>

\* A faulty variant: no connection is ever reused.
DialAnew(c) ==
    LET i == call[c].inst IN
    /\ call[c].pc = "dial"
    /\ cached' = [cached EXCEPT ![i] = call[c].addr]
    /\ call' = [Closed(call, i) EXCEPT ![c].pc = "flight", ![c].open = TRUE]
    /\ UNCHANGED <<instVars, slots>>

\* backendConn: the cached connection to this address, or a new one in place of
\* every other of the instance.
Dial(c) ==
    LET i == call[c].inst
        p == call[c].addr
    IN
    /\ call[c].pc = "dial"
    /\ cached' = [cached EXCEPT ![i] = p]
    /\ call' = [(IF cached[i] = p THEN call ELSE Closed(call, i)) EXCEPT
                    ![c].pc = "flight", ![c].open = TRUE]
    /\ UNCHANGED <<instVars, slots>>

\* Any other end of a call: not found, refused, answered, failed, cancelled.
Finish(c) ==
    /\ call[c].pc \in {"resolved", "warmed", "dial", "flight"}
    /\ End(c)
    /\ UNCHANGED <<instVars, cached, slots>>

-----------------------------------------------------------------------------

Init ==
    /\ row \in [Inst -> {[mode |-> m, enabled |-> TRUE, running |-> m = OD, addr |-> None] :
                         m \in Modes}]
    /\ proc = [i \in Inst |-> None]
    /\ op = [i \in Inst |-> FreeGate]
    /\ cached = [i \in Inst |-> None]
    /\ call = [c \in Call |-> NoCall]
    /\ slots = 0

Operation(i) ==
    \/ StopDone(i) \/ Announce(i) \/ StartFail(i)
    \/ \E p \in Port : StartProc(i, p)

Operator(i) ==
    \/ Start(i) \/ Stop(i) \/ Restart(i) \/ SetModeOnDemand(i)
    \/ \E mode \in Modes : SetModeResident(i, mode) \/ SetModeCold(i, mode)

CallStep(c) ==
    \/ \E i \in Inst : Resolve(c, i)
    \/ AcquireOnDemandSlot(c) \/ SetUpFail(c) \/ RunOnDemand(c) \/ FinishOnDemand(c)
    \/ WarmHit(c) \/ ColdStart(c) \/ Reread(c) \/ Backend(c)
    \/ Dial(c) \/ Finish(c)

Next ==
    \/ \E i \in Inst : Operation(i) \/ Operator(i) \/ Park(i) \/ ProcExit(i) \/ Wait(i)
    \/ \E c \in Call : CallStep(c)

Spec == Init /\ [][Next]_vars

-----------------------------------------------------------------------------
(* Properties                                                               *)

\* A call that holds a reference talks to the process the reference is counted
\* on, never to one that took over a stale port: why invokeBackend and
\* newWarmStream read the row again after warming (gateway.go:1621).
ReferencedCallReachesItsProcess ==
    \A c \in Call : call[c].ref /\ call[c].pc = "flight" => call[c].addr = proc[call[c].inst]

\* Whether c is being served by the process of its instance.
Served(c) ==
    call[c].pc = "flight" /\ call[c].open /\ call[c].addr = proc[call[c].inst]

ParksNow(i) == op[i].pc = "free" /\ op'[i].pc = "stop" /\ op'[i].next = "park"

\* "A live stream therefore cannot be idled out"
\* (instance-scale-to-zero-runtime.md): no call is cut by the idle stopper or an
\* eviction.  The code does not keep it: see the README.
LiveStreamNotIdledOut ==
    [][\A i \in Inst : ParksNow(i) =>
          \A c \in Call : call[c].inst = i => ~Served(c)]_vars

\* Looking up a connection for one warm call never closes the connection under
\* another: backendConn evicts by address (gateway.go:2127).
WarmDialSparesOthers ==
    [][\A c, d \in Call :
          /\ call[d].pc = "dial" /\ call'[d].pc = "flight" /\ call[d].ref
          /\ call[c].inst = call[d].inst /\ call[c].ref /\ call[c].open
          => call'[c].open]_vars

\* An open connection is the cached one: what the cache drops is closed, so no
\* connection is left that nobody will close (gateway.go:2127, :2143).
NoConnectionLeft ==
    \A c \in Call : call[c].pc = "flight" /\ call[c].open => cached[call[c].inst] = call[c].addr

\* The on-demand slots taken are those of the calls that set up or run a process:
\* none is lost by a call that fails on the way to its process, is refused, is
\* killed or answers (gateway.go:1786).
SlotsAccounted == slots = Cardinality({c \in Call : call[c].pc \in {"slot", "run"}})

=============================================================================
