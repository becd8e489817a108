-------------------------- MODULE SupervisorProofs --------------------------
(***************************************************************************)
(* Proofs about Supervisor, for every set of processes, requests and       *)
(* faults.                                                                 *)
(***************************************************************************)
EXTENDS Supervisor, TLAPS

\* The operations, and what may follow a stop.
Ops   == ClientOps \union BackgroundOps \union {"none"}
Nexts == {"done", "start", "onDemand", "delete", "rollback"}

-----------------------------------------------------------------------------
(* Types of the building blocks                                             *)

\* The record of a free gate is a gate.
LEMMA FreeGateType == FreeGate \in Gate /\ FreeGate.pc = "free"
    BY DEF FreeGate, Gate, MaybeProc, Overrides, Modes

\* The fields of the row and of the gate, one by one.
LEMMA FieldTypes ==
    ASSUME TypeOK
    PROVE  /\ row.enabled \in BOOLEAN /\ row.mode \in Overrides
           /\ row.pid \in MaybeProc /\ row.addr \in MaybeProc
           /\ gate.enabled \in BOOLEAN /\ gate.mode \in Overrides
           /\ gate.proc \in MaybeProc /\ gate.addr \in MaybeProc
           /\ gate.req \in Req \union {None} /\ gate.op \in Ops
           /\ gate.then \in Nexts /\ gate.stz \in BOOLEAN
    BY DEF TypeOK, Row, Gate, Ops, Nexts

\* The rows the supervisor writes are rows.
LEMMA RowTypes ==
    ASSUME row \in Row, NEW on \in BOOLEAN, NEW m \in Overrides
    PROVE  /\ StoppedRow(on) \in Row
           /\ OnDemandRow(m) \in Row
           /\ [StoppedRow(on) EXCEPT !.mode = m] \in Row
           /\ [row EXCEPT !.mode = m] \in Row
           /\ [StoppedRow(FALSE) EXCEPT !.status = "absent", !.mode = "inherit"] \in Row
    BY DEF Row, StoppedRow, OnDemandRow, Statuses, MaybeProc, Overrides

\* Stopping a process takes the gate and leaves nothing tracked.
LEMMA StopProcessTypes ==
    ASSUME TypeOK, NEW op \in Ops, NEW on \in BOOLEAN, NEW m \in Overrides,
           NEW next \in Nexts, stopProcess(op, on, next, m)
    PROVE  /\ gate' \in Gate /\ gate'.pc = "stop"
           /\ tracked' \in MaybeProc
           /\ stz' = FALSE /\ sampled' = FALSE /\ current' = FALSE /\ backoff' = FALSE
<1>1. gate' = [FreeGate EXCEPT !.op = op, !.pc = "stop", !.proc = tracked,
                               !.enabled = on, !.then = next, !.mode = m]
  BY DEF stopProcess
<1> tracked \in MaybeProc
  BY DEF TypeOK
<1>2. gate' \in Gate
  BY <1>1, FreeGateType DEF Gate, FreeGate, Ops, Nexts
<1>3. gate'.pc = "stop"
  BY <1>1 DEF FreeGate
<1>4. tracked' \in MaybeProc
  BY DEF stopProcess, MaybeProc
<1>5. stz' = FALSE /\ sampled' = FALSE /\ current' = FALSE /\ backoff' = FALSE
  BY DEF stopProcess, nextGeneration
<1> QED BY <1>2, <1>3, <1>4, <1>5

\* Starting takes the gate with no process yet.
LEMMA StartLockedTypes ==
    ASSUME TypeOK, NEW op \in Ops, NEW m \in Overrides, NEW next \in Nexts,
           NEW r \in Req \union {None}, startLocked(op, next, m, r)
    PROVE  /\ gate' \in Gate /\ gate'.pc = "start"
           /\ current' = FALSE /\ backoff' = FALSE
<1>1. gate' = [FreeGate EXCEPT !.op = op, !.pc = "start", !.then = next, !.mode = m,
                               !.req = r]
  BY DEF startLocked
<1>2. gate' \in Gate
  BY <1>1, FreeGateType DEF Gate, FreeGate, Ops, Nexts
<1>3. gate'.pc = "start"
  BY <1>1 DEF FreeGate
<1>4. current' = FALSE /\ backoff' = FALSE
  BY DEF startLocked, nextGeneration
<1> QED BY <1>2, <1>3, <1>4

\* An operation that starts the instance, or returns at once.
LEMMA MaybeStartTypes ==
    ASSUME TypeOK, NEW op \in Ops, NEW m \in Overrides, NEW next \in Nexts,
           startLocked(op, next, m, None) \/ UNCHANGED <<gate, current, backoff>>
    PROVE  /\ gate' \in Gate /\ (gate'.pc = "free" => gate' = FreeGate)
           /\ current' \in BOOLEAN /\ backoff' \in BOOLEAN
<1>1. CASE startLocked(op, next, m, None)
  BY <1>1, StartLockedTypes
<1>2. CASE UNCHANGED <<gate, current, backoff>>
  BY <1>2 DEF TypeOK
<1> QED BY <1>1, <1>2

\* Restart begins with a stop.
LEMMA StopThenStartTypes ==
    ASSUME TypeOK, NEW op \in Ops, stopThenStart(op)
    PROVE  /\ gate' \in Gate /\ gate'.pc = "stop"
           /\ tracked' \in MaybeProc
           /\ stz' = FALSE /\ sampled' = FALSE /\ current' = FALSE /\ backoff' = FALSE
<1>1. stopProcess(op, row.enabled, IF row.enabled THEN "start" ELSE "done", row.mode)
  BY DEF stopThenStart
<1>2. (IF row.enabled THEN "start" ELSE "done") \in Nexts
  BY DEF Nexts
<1> QED BY <1>1, <1>2, FieldTypes, StopProcessTypes

\* A reload either restarts the process or lands the row cold.
LEMMA RestartLockedTypes ==
    ASSUME TypeOK, GateFree, NEW op \in Ops, NEW m \in Overrides, NEW flag \in BOOLEAN,
           restartLocked(op, m, flag)
    PROVE  /\ row' \in Row
           /\ gate' \in Gate /\ (gate'.pc = "free" => gate' = FreeGate)
           /\ tracked' \in MaybeProc
           /\ stz' \in BOOLEAN /\ sampled' \in BOOLEAN
           /\ current' \in BOOLEAN /\ backoff' \in BOOLEAN
<1>1. CASE ~liveProcess /\ EffectiveRuntimeMode(m) = STZ
  <2>1. PICK landed \in {row, StoppedRow(row.enabled)} :
           row' = [landed EXCEPT !.mode = m]
    BY <1>1 DEF restartLocked
  <2>2. row' \in Row
    BY <2>1, FieldTypes, RowTypes DEF TypeOK
  <2>3. stz' = flag /\ UNCHANGED <<gate, tracked, current, sampled, backoff>>
    BY <1>1 DEF restartLocked
  <2> QED BY <2>2, <2>3 DEF TypeOK
<1>2. CASE ~(~liveProcess /\ EffectiveRuntimeMode(m) = STZ)
  <2>1. stopThenStart(op) /\ row' = [row EXCEPT !.mode = m]
    BY <1>2 DEF restartLocked
  <2>2. row' \in Row
    BY <2>1, RowTypes DEF TypeOK
  <2> QED BY <2>1, <2>2, StopThenStartTypes
<1> QED BY <1>1, <1>2

\* A released gate is the free gate.
LEMMA ReleaseTypes ==
    ASSUME Release
    PROVE  gate' \in Gate /\ (gate'.pc = "free" => gate' = FreeGate)
    BY FreeGateType DEF Release

\* A failed start releases the gate or goes on to the rollback.
LEMMA FailStartTypes ==
    ASSUME TypeOK, NEW r \in Row, failStart(r)
    PROVE  /\ row' \in Row
           /\ gate' \in Gate /\ (gate'.pc = "free" => gate' = FreeGate)
           /\ backoff' \in BOOLEAN
<1>1. CASE gate.op = "Backoff" /\ ~Cancelled
  <2>1. row' = [r EXCEPT !.enabled = TRUE, !.status = "degraded", !.pid = None,
                         !.addr = gate.addr]
        /\ backoff' = TRUE /\ Release
    BY <1>1 DEF failStart
  <2>2. row' \in Row
    BY <2>1, FieldTypes DEF Row, Statuses, MaybeProc
  <2> QED BY <2>1, <2>2, ReleaseTypes
<1>2. CASE ~(gate.op = "Backoff" /\ ~Cancelled)
  <2>1. row' = r /\ backoff' = backoff
    BY <1>2 DEF failStart
  <2>2. gate' = [gate EXCEPT !.pc = "rollback", !.proc = None] \/ gate' = FreeGate
    BY <1>2 DEF failStart
  <2>3. gate' \in Gate /\ (gate'.pc = "free" => gate' = FreeGate)
    BY <2>2, FreeGateType DEF TypeOK, Gate, MaybeProc
  <2> QED BY <2>1, <2>3 DEF TypeOK
<1> QED BY <1>1, <1>2

-----------------------------------------------------------------------------
(* Types through each group of actions                                      *)

\* Steps of the operation at the gate.
LEMMA OperationTypes ==
    ASSUME TypeOK, OperationOwnsProcess, NoStrayProcess, OperationStep
    PROVE  TypeOK'
<1> USE FieldTypes, FreeGateType
<1>1. CASE StopDone
  <2>1. row' \in Row
    <3>1. \/ row' = StoppedRow(gate.enabled) \/ row' = OnDemandRow(gate.mode)
          \/ row' = [StoppedRow(FALSE) EXCEPT !.status = "absent", !.mode = "inherit"]
      BY <1>1 DEF StopDone
    <3> QED BY <3>1, RowTypes DEF TypeOK
  <2>2. gate' = FreeGate \/ gate' = [gate EXCEPT !.pc = "start", !.proc = None, !.then = "done"]
    BY <1>1 DEF StopDone, Release
  <2>3. gate' \in Gate /\ (gate'.pc = "free" => gate' = FreeGate)
    BY <2>2 DEF TypeOK, Gate, MaybeProc
  <2> QED BY <1>1, <2>1, <2>3 DEF TypeOK, StopDone, procVars, osVars, lifeVars
<1>2. CASE StopFail
  <2>1. row' = StoppedRow(gate.enabled) \/ row' = OnDemandRow(gate.mode)
    BY <1>2 DEF StopFail
  <2>2. row' \in Row
    BY <2>1, RowTypes DEF TypeOK
  <2>3. killed' \subseteq alive' /\ leaked' \subseteq alive'
    BY <1>2 DEF StopFail, TypeOK
  <2>4. gate' \in Gate /\ (gate'.pc = "free" => gate' = FreeGate)
    BY <1>2, ReleaseTypes DEF StopFail
  <2> QED BY <1>2, <2>2, <2>3, <2>4 DEF TypeOK, StopFail, procVars, lifeVars
<1>3. ASSUME NEW p \in Proc, StartBegin(p) PROVE TypeOK'
  <2>1. row' \in Row
    BY <1>3 DEF StartBegin, TypeOK, Row, Statuses, MaybeProc
  <2>2. gate' \in Gate /\ gate'.pc = "spawn"
    <3> DEFINE b == Mode = STZ
    <3>1. gate' = [gate EXCEPT !.pc = "spawn", !.proc = p, !.stz = b]
      BY <1>3 DEF StartBegin
    <3>2. b \in BOOLEAN
      OBVIOUS
    <3> HIDE DEF b
    <3> QED BY <3>1, <3>2 DEF TypeOK, Gate, MaybeProc
  <2> QED BY <1>3, <2>1, <2>2 DEF TypeOK, StartBegin, procVars, osVars, lifeVars
<1>4. CASE StartEarlyFail
  <2>1. failStart(row)
    BY <1>4 DEF StartEarlyFail
  <2>2. row' \in Row /\ gate' \in Gate /\ (gate'.pc = "free" => gate' = FreeGate)
        /\ backoff' \in BOOLEAN
    BY <2>1, FailStartTypes DEF TypeOK
  <2> QED BY <1>4, <2>2 DEF TypeOK, StartEarlyFail, procVars, osVars, lifeVars
<1>5. CASE Spawn
  <2>1. gate' \in Gate /\ gate'.pc = "register"
    BY <1>5 DEF Spawn, TypeOK, Gate
  <2>2. gate.proc \in Proc
    BY <1>5 DEF Spawn, OperationOwnsProcess
  <2> QED BY <1>5, <2>1, <2>2 DEF TypeOK, Spawn, procVars, lifeVars
<1>6. CASE SpawnFail
  <2>1. PICK r \in {row, [row EXCEPT !.status = "failed"]} : failStart(r)
    BY <1>6 DEF SpawnFail
  <2>2. r \in Row
    BY <2>1 DEF TypeOK, Row, Statuses
  <2>3. row' \in Row /\ gate' \in Gate /\ (gate'.pc = "free" => gate' = FreeGate)
        /\ backoff' \in BOOLEAN
    BY <2>1, <2>2, FailStartTypes
  <2> QED BY <1>6, <2>3 DEF TypeOK, SpawnFail, procVars, osVars, lifeVars
<1>7. CASE Register
  <2>1. row' \in Row
    BY <1>7 DEF Register, TypeOK, Row, Statuses
  <2>2. gate' \in Gate /\ gate'.pc = "health"
    BY <1>7 DEF Register, TypeOK, Gate
  <2> QED BY <1>7, <2>1, <2>2 DEF TypeOK, Register, osVars, lifeVars
<1>8. CASE RegisterReplaced
  <2>1. PICK r \in {StoppedRow(TRUE)} : failStart(r)
    BY <1>8 DEF RegisterReplaced
  <2>2. r \in Row
    BY <2>1, RowTypes DEF TypeOK
  <2>3. row' \in Row /\ gate' \in Gate /\ (gate'.pc = "free" => gate' = FreeGate)
        /\ backoff' \in BOOLEAN
    BY <2>1, <2>2, FailStartTypes
  <2>4. gate.proc # tracked /\ gate.proc \notin killed \union leaked /\ tracked \in alive
    BY <1>8 DEF RegisterReplaced, OperationOwnsProcess, NoStrayProcess, liveProcess
  <2>5. killed' \subseteq alive' /\ leaked' \subseteq alive' /\ alive' \subseteq Proc
    BY <1>8, <2>4 DEF RegisterReplaced, TypeOK
  <2> QED BY <1>8, <2>3, <2>5 DEF TypeOK, RegisterReplaced, lifeVars, MaybeProc
<1>9. CASE RegisterFail
  <2>1. PICK r \in {row, StoppedRow(TRUE)} : failStart(r)
    BY <1>9 DEF RegisterFail
  <2>2. r \in Row
    BY <2>1, RowTypes DEF TypeOK
  <2>3. row' \in Row /\ gate' \in Gate /\ (gate'.pc = "free" => gate' = FreeGate)
        /\ backoff' \in BOOLEAN
    BY <2>1, <2>2, FailStartTypes
  <2>4. killed' \subseteq alive' /\ leaked' \subseteq alive' /\ alive' \subseteq Proc
    BY <1>9 DEF RegisterFail, NoStrayProcess, TypeOK
  <2> QED BY <1>9, <2>3, <2>4 DEF TypeOK, RegisterFail, procVars, lifeVars
<1>10. CASE Healthy
  <2>1. gate' \in Gate /\ (gate'.pc = "free" => gate' = FreeGate)
    BY <1>10, ReleaseTypes DEF Healthy
  <2>2. waiters' \subseteq Proc /\ refs' \in [Req -> MaybeProc]
    BY <1>10 DEF Healthy, TypeOK
  <2> QED BY <1>10, <2>1, <2>2 DEF TypeOK, Healthy, procVars, lifeVars
<1>11. CASE HealthFail
  <2>1. PICK r \in {row, StoppedRow(TRUE),
                    [row EXCEPT !.status = "failed", !.pid = None, !.addr = None]} :
           failStart(r)
    BY <1>11 DEF HealthFail
  <2>2. r \in Row
    <3>1. [row EXCEPT !.status = "failed", !.pid = None, !.addr = None] \in Row
      BY DEF TypeOK, Row, Statuses, MaybeProc
    <3> QED BY <2>1, <3>1, RowTypes DEF TypeOK
  <2>3. row' \in Row /\ gate' \in Gate /\ (gate'.pc = "free" => gate' = FreeGate)
        /\ backoff' \in BOOLEAN
    BY <2>1, <2>2, FailStartTypes
  <2>4. killed' \subseteq alive' /\ leaked' \subseteq alive' /\ alive' \subseteq Proc
    BY <1>11 DEF HealthFail, cleanupFailedStart, NoStrayProcess, TypeOK
  <2> QED BY <1>11, <2>3, <2>4 DEF TypeOK, HealthFail, cleanupFailedStart, lifeVars, MaybeProc
<1>12. CASE RollBack
  <2>1. CASE stopProcess(gate.op, TRUE, "onDemand", gate.mode) /\ UNCHANGED row
    <3>1. gate' \in Gate /\ gate'.pc = "stop" /\ tracked' \in MaybeProc
          /\ stz' = FALSE /\ sampled' = FALSE /\ current' = FALSE /\ backoff' = FALSE
      BY <2>1, StopProcessTypes DEF Nexts
    <3> QED BY <1>12, <2>1, <3>1 DEF TypeOK, RollBack, osVars, lifeVars
  <2>2. CASE row' \in {row, OnDemandRow(gate.mode)} /\ Release
             /\ UNCHANGED <<procVars, backoff>>
    <3>1. row' \in Row
      BY <2>2, RowTypes DEF TypeOK
    <3> QED BY <1>12, <2>2, <3>1, ReleaseTypes
            DEF TypeOK, RollBack, procVars, osVars, lifeVars
  <2> QED BY <1>12, <2>1, <2>2 DEF RollBack
<1> QED BY <1>1, <1>2, <1>3, <1>4, <1>5, <1>6, <1>7, <1>8, <1>9, <1>10, <1>11, <1>12
        DEF OperationStep

\* Calls of the admin API.
LEMMA OperatorTypes ==
    ASSUME TypeOK, Operator
    PROVE  TypeOK'
<1> USE FieldTypes, RowTypes
<1>f. Operator => GateFree
  BY DEF Operator, Start, Stop, Restart, UpdateConfig, Delete, Create, SyncUnchanged,
         SetRuntimeMode, SetModeSameResident, SetModeOnDemand,
         SetModeOnDemandToLongRunning, SetModeToScaleToZero, SetModeToLongRunning,
         SetModeOnDemandToScaleToZero, setMode, Sync, SyncOnDemand, SyncFromOnDemand,
         SyncResident, sync, Enter
<1>1. CASE Start
  <2>1. startLocked("Start", "done", row.mode, None)
    BY <1>1 DEF Start
  <2>2. gate' \in Gate /\ gate'.pc = "start" /\ current' = FALSE /\ backoff' = FALSE
    BY <2>1, StartLockedTypes DEF Ops, ClientOps, Nexts
  <2> QED BY <1>1, <2>2 DEF TypeOK, Start, osVars, lifeVars
<1>2. CASE Stop
  <2>1. stopProcess("Stop", FALSE, "done", row.mode)
    BY <1>2 DEF Stop
  <2>2. /\ gate' \in Gate /\ gate'.pc = "stop" /\ tracked' \in MaybeProc
        /\ stz' = FALSE /\ sampled' = FALSE /\ current' = FALSE /\ backoff' = FALSE
    BY <2>1, StopProcessTypes DEF Ops, ClientOps, Nexts
  <2> QED BY <1>2, <2>2 DEF TypeOK, Stop, osVars, lifeVars
<1>3. CASE Restart
  <2>1. /\ gate' \in Gate /\ gate'.pc = "stop" /\ tracked' \in MaybeProc
        /\ stz' = FALSE /\ sampled' = FALSE /\ current' = FALSE /\ backoff' = FALSE
    BY <1>3, StopThenStartTypes DEF Restart, Ops, ClientOps
  <2> QED BY <1>3, <2>1 DEF TypeOK, Restart, osVars, lifeVars
<1>4. CASE UpdateConfig
  <2>1. restartLocked("UpdateConfig", row.mode, stz) /\ GateFree
    BY <1>4, <1>f DEF UpdateConfig, Enter
  <2>2. stz \in BOOLEAN
    BY DEF TypeOK
  <2>3. /\ row' \in Row /\ gate' \in Gate /\ (gate'.pc = "free" => gate' = FreeGate)
        /\ tracked' \in MaybeProc /\ stz' \in BOOLEAN /\ sampled' \in BOOLEAN
        /\ current' \in BOOLEAN /\ backoff' \in BOOLEAN
    BY <2>1, <2>2, RestartLockedTypes DEF Ops, ClientOps
  <2> QED BY <1>4, <2>3 DEF TypeOK, UpdateConfig, osVars, lifeVars
<1>5. CASE Delete
  <2>1. CASE Mode = OD /\ ~liveProcess
    <3>1. row' \in Row
      BY <1>5, <2>1 DEF Delete, TypeOK
    <3> QED BY <1>5, <2>1, <3>1 DEF TypeOK, Delete, nextGeneration, osVars, lifeVars
  <2>2. CASE ~(Mode = OD /\ ~liveProcess)
    <3>1. stopProcess("Delete", FALSE, "delete", row.mode) /\ UNCHANGED row
      BY <1>5, <2>2 DEF Delete
    <3>2. /\ gate' \in Gate /\ gate'.pc = "stop" /\ tracked' \in MaybeProc
          /\ stz' = FALSE /\ sampled' = FALSE /\ current' = FALSE /\ backoff' = FALSE
      BY <3>1, StopProcessTypes DEF Ops, ClientOps, Nexts
    <3> QED BY <1>5, <3>1, <3>2 DEF TypeOK, Delete, osVars, lifeVars
  <2> QED BY <2>1, <2>2
<1>6. ASSUME NEW m \in Overrides, NEW s \in BOOLEAN, Create(m, s) PROVE TypeOK'
  <2> DEFINE mode == EffectiveRuntimeMode(m)
             run  == s /\ mode = LR
  <2>1. row' = [enabled |-> run \/ mode # LR,
                status |-> IF mode = OD THEN "running"
                           ELSE IF run THEN "starting" ELSE "stopped",
                pid |-> None, addr |-> None, mode |-> m]
    BY <1>6 DEF Create
  <2>2. row' \in Row
    <3> DEFINE on == run \/ mode # LR
               st == IF mode = OD THEN "running" ELSE IF run THEN "starting" ELSE "stopped"
    <3>1. on \in BOOLEAN /\ st \in Statuses
      BY DEF Statuses
    <3>2. row' = [enabled |-> on, status |-> st, pid |-> None, addr |-> None, mode |-> m]
      BY <2>1
    <3> HIDE DEF on, st
    <3> QED BY <3>1, <3>2 DEF Row, MaybeProc
  <2>3. \/ startLocked("Create", "done", m, None)
        \/ UNCHANGED <<gate, current, backoff>>
    BY <1>6 DEF Create
  <2>4. /\ gate' \in Gate /\ (gate'.pc = "free" => gate' = FreeGate)
        /\ current' \in BOOLEAN /\ backoff' \in BOOLEAN
    BY <2>3, MaybeStartTypes DEF Ops, ClientOps, Nexts
  <2> QED BY <1>6, <2>2, <2>4 DEF TypeOK, Create, osVars, lifeVars
<1>7. CASE SyncUnchanged
  <2>1. CASE startLocked("Create", "done", row.mode, None) /\ UNCHANGED row
    <3>1. gate' \in Gate /\ gate'.pc = "start" /\ current' = FALSE /\ backoff' = FALSE
      BY <2>1, StartLockedTypes DEF Ops, ClientOps, Nexts
    <3> QED BY <1>7, <2>1, <3>1 DEF TypeOK, SyncUnchanged, osVars, lifeVars
  <2>2. CASE /\ row' \in {row, OnDemandRow(row.mode), StoppedRow(TRUE)}
             /\ UNCHANGED <<gate, current, backoff>>
    <3>1. row' \in Row
      BY <2>2 DEF TypeOK
    <3> QED BY <1>7, <2>2, <3>1 DEF TypeOK, SyncUnchanged, osVars, lifeVars
  <2> QED BY <1>7, <2>1, <2>2 DEF SyncUnchanged
<1>8. ASSUME NEW m \in Overrides, SyncOnDemand(m) PROVE TypeOK'
  <2>1. CASE claimsProcess
    <3>1. /\ stopProcess("Create", TRUE, "onDemand", m)
          /\ row' \in {row, [row EXCEPT !.mode = m]}
      BY <1>8, <2>1 DEF SyncOnDemand
    <3>2. /\ gate' \in Gate /\ gate'.pc = "stop" /\ tracked' \in MaybeProc
          /\ stz' = FALSE /\ sampled' = FALSE /\ current' = FALSE /\ backoff' = FALSE
      BY <3>1, StopProcessTypes DEF Ops, ClientOps, Nexts
    <3>3. row' \in Row
      BY <3>1 DEF TypeOK
    <3> QED BY <1>8, <3>2, <3>3 DEF TypeOK, SyncOnDemand, osVars, lifeVars
  <2>2. CASE ~claimsProcess
    <3>1. row' = OnDemandRow(m) /\ stz' = FALSE /\ UNCHANGED <<gate, tracked, sampled>>
      BY <1>8, <2>2 DEF SyncOnDemand
    <3>2. UNCHANGED <<current, backoff>> \/ (current' = FALSE /\ backoff' = FALSE)
      BY <1>8, <2>2 DEF SyncOnDemand, nextGeneration
    <3>3. row' \in Row
      BY <3>1 DEF TypeOK
    <3> QED BY <1>8, <3>1, <3>2, <3>3 DEF TypeOK, SyncOnDemand, osVars, lifeVars
  <2> QED BY <2>1, <2>2
<1>9. ASSUME NEW m \in Overrides, SyncFromOnDemand(m) PROVE TypeOK'
  <2>1. /\ row' \in {[StoppedRow(row.enabled) EXCEPT !.mode = m], [row EXCEPT !.mode = m]}
        /\ stz' = (tracked # None /\ EffectiveRuntimeMode(m) = STZ)
        /\ \/ startLocked("Create", "rollback", row.mode, None)
           \/ UNCHANGED <<gate, current, backoff>>
    BY <1>9 DEF SyncFromOnDemand
  <2>2. row' \in Row /\ stz' \in BOOLEAN
    <3>1. row \in Row /\ row.enabled \in BOOLEAN
      BY DEF TypeOK, Row
    <3>2. row' \in Row
      BY <2>1, <3>1, RowTypes
    <3>3. stz' \in BOOLEAN
      BY <2>1
    <3> QED BY <3>2, <3>3
  <2>3. /\ gate' \in Gate /\ (gate'.pc = "free" => gate' = FreeGate)
        /\ current' \in BOOLEAN /\ backoff' \in BOOLEAN
    BY <2>1, MaybeStartTypes DEF Ops, ClientOps, Nexts
  <2> QED BY <1>9, <2>2, <2>3 DEF TypeOK, SyncFromOnDemand, osVars, lifeVars
<1>10. ASSUME NEW m \in Overrides, NEW c \in BOOLEAN, SyncResident(m, c) PROVE TypeOK'
  <2> DEFINE flag == tracked # None /\ EffectiveRuntimeMode(m) = STZ
  <2>1. \/ restartLocked("Create", m, flag)
        \/ /\ row' \in {[StoppedRow(TRUE) EXCEPT !.mode = m], [row EXCEPT !.mode = m]}
           /\ stz' = flag
           /\ \/ startLocked("Create", "done", m, None)
              \/ UNCHANGED <<gate, current, backoff>>
           /\ sampled' \in {sampled, FALSE}
           /\ UNCHANGED tracked
    BY <1>10 DEF SyncResident
  <2>2. flag \in BOOLEAN
    OBVIOUS
  <2>3. GateFree
    BY <1>10 DEF SyncResident, sync, Enter
  <2> HIDE DEF flag
  <2>4. CASE restartLocked("Create", m, flag)
    <3>1. /\ row' \in Row /\ gate' \in Gate /\ (gate'.pc = "free" => gate' = FreeGate)
          /\ tracked' \in MaybeProc /\ stz' \in BOOLEAN /\ sampled' \in BOOLEAN
          /\ current' \in BOOLEAN /\ backoff' \in BOOLEAN
      BY <2>2, <2>3, <2>4, RestartLockedTypes DEF Ops, ClientOps
    <3> QED BY <1>10, <3>1 DEF TypeOK, SyncResident, osVars, lifeVars
  <2>5. CASE /\ row' \in {[StoppedRow(TRUE) EXCEPT !.mode = m], [row EXCEPT !.mode = m]}
             /\ stz' = flag
             /\ \/ startLocked("Create", "done", m, None)
                \/ UNCHANGED <<gate, current, backoff>>
             /\ sampled' \in {sampled, FALSE}
             /\ UNCHANGED tracked
    <3>1. row' \in Row /\ stz' \in BOOLEAN /\ sampled' \in BOOLEAN
      BY <2>2, <2>5 DEF TypeOK
    <3>2. /\ gate' \in Gate /\ (gate'.pc = "free" => gate' = FreeGate)
          /\ current' \in BOOLEAN /\ backoff' \in BOOLEAN
      BY <2>5, MaybeStartTypes DEF Ops, ClientOps, Nexts
    <3> QED BY <1>10, <2>5, <3>1, <3>2 DEF TypeOK, SyncResident, osVars, lifeVars
  <2> QED BY <2>1, <2>4, <2>5
<1>11. ASSUME NEW m \in Overrides, SetModeSameResident(m) PROVE TypeOK'
  <2>1. /\ row' = [row EXCEPT !.mode = m]
        /\ stz' = (tracked # None /\ Mode = STZ)
        /\ \/ startLocked("SetRuntimeMode", "done", m, None)
           \/ UNCHANGED <<gate, current, backoff>>
    BY <1>11 DEF SetModeSameResident
  <2>2. row' \in Row /\ stz' \in BOOLEAN
    <3>1. row \in Row /\ row.enabled \in BOOLEAN
      BY DEF TypeOK, Row
    <3>2. row' \in Row
      BY <2>1, <3>1, RowTypes
    <3>3. stz' \in BOOLEAN
      BY <2>1
    <3> QED BY <3>2, <3>3
  <2>3. /\ gate' \in Gate /\ (gate'.pc = "free" => gate' = FreeGate)
        /\ current' \in BOOLEAN /\ backoff' \in BOOLEAN
    BY <2>1, MaybeStartTypes DEF Ops, ClientOps, Nexts
  <2> QED BY <1>11, <2>2, <2>3 DEF TypeOK, SetModeSameResident, osVars, lifeVars
<1>12. ASSUME NEW m \in Overrides, SetModeOnDemand(m) PROVE TypeOK'
  <2>1. CASE /\ stopProcess("SetRuntimeMode", TRUE, "onDemand", m)
             /\ row' \in {row, [row EXCEPT !.mode = m]}
    <3>1. /\ gate' \in Gate /\ gate'.pc = "stop" /\ tracked' \in MaybeProc
          /\ stz' = FALSE /\ sampled' = FALSE /\ current' = FALSE /\ backoff' = FALSE
      BY <2>1, StopProcessTypes DEF Ops, ClientOps, Nexts
    <3>2. row' \in Row
      BY <2>1 DEF TypeOK
    <3> QED BY <1>12, <3>1, <3>2 DEF TypeOK, SetModeOnDemand, osVars, lifeVars
  <2>2. CASE /\ row' = OnDemandRow(m) /\ stz' = FALSE
             /\ UNCHANGED <<gate, tracked, current, sampled, backoff>>
    <3>1. row' \in Row
      BY <2>2 DEF TypeOK
    <3> QED BY <1>12, <2>2, <3>1 DEF TypeOK, SetModeOnDemand, osVars, lifeVars
  <2> QED BY <1>12, <2>1, <2>2 DEF SetModeOnDemand
<1>13. ASSUME NEW m \in Overrides, SetModeOnDemandToLongRunning(m) PROVE TypeOK'
  <2>1. /\ row' = [row EXCEPT !.mode = m] /\ stz' = FALSE
        /\ \/ startLocked("SetRuntimeMode", "rollback", row.mode, None)
           \/ UNCHANGED <<gate, current, backoff>>
    BY <1>13 DEF SetModeOnDemandToLongRunning
  <2>2. row' \in Row
    BY <2>1 DEF TypeOK
  <2>3. /\ gate' \in Gate /\ (gate'.pc = "free" => gate' = FreeGate)
        /\ current' \in BOOLEAN /\ backoff' \in BOOLEAN
    BY <2>1, MaybeStartTypes DEF Ops, ClientOps, Nexts
  <2> QED BY <1>13, <2>1, <2>2, <2>3
          DEF TypeOK, SetModeOnDemandToLongRunning, osVars, lifeVars
<1>14. ASSUME NEW m \in Overrides, SetModeToScaleToZero(m) PROVE TypeOK'
  <2>1. row' = [row EXCEPT !.mode = m] /\ stz' = (tracked # None) /\ sampled' = FALSE
    BY <1>14 DEF SetModeToScaleToZero
  <2>2. row' \in Row /\ stz' \in BOOLEAN
    BY <2>1 DEF TypeOK
  <2> QED BY <1>14, <2>1, <2>2 DEF TypeOK, SetModeToScaleToZero, osVars, lifeVars
<1>15. ASSUME NEW m \in Overrides, SetModeToLongRunning(m) PROVE TypeOK'
  <2>1. /\ row' = [row EXCEPT !.mode = m] /\ stz' = FALSE
        /\ \/ startLocked("SetRuntimeMode", "done", m, None)
           \/ UNCHANGED <<gate, current, backoff>>
    BY <1>15 DEF SetModeToLongRunning
  <2>2. row' \in Row
    BY <2>1 DEF TypeOK
  <2>3. /\ gate' \in Gate /\ (gate'.pc = "free" => gate' = FreeGate)
        /\ current' \in BOOLEAN /\ backoff' \in BOOLEAN
    BY <2>1, MaybeStartTypes DEF Ops, ClientOps, Nexts
  <2> QED BY <1>15, <2>1, <2>2, <2>3 DEF TypeOK, SetModeToLongRunning, osVars, lifeVars
<1>16. ASSUME NEW m \in Overrides, SetModeOnDemandToScaleToZero(m) PROVE TypeOK'
  <2>1. row' = [StoppedRow(TRUE) EXCEPT !.mode = m] /\ stz' = (tracked # None)
    BY <1>16 DEF SetModeOnDemandToScaleToZero
  <2>2. row' \in Row /\ stz' \in BOOLEAN
    BY <2>1 DEF TypeOK
  <2> QED BY <1>16, <2>2 DEF TypeOK, SetModeOnDemandToScaleToZero, osVars, lifeVars
<1>17. ASSUME NEW m \in Overrides, SetRuntimeMode(m) PROVE TypeOK'
  BY <1>11, <1>12, <1>13, <1>14, <1>15, <1>16, <1>17 DEF SetRuntimeMode
<1>18. ASSUME NEW m \in Overrides, Sync(m) PROVE TypeOK'
  BY <1>8, <1>9, <1>10, <1>18 DEF Sync
<1> QED BY <1>1, <1>2, <1>3, <1>4, <1>5, <1>6, <1>7, <1>17, <1>18 DEF Operator

\* The reload that follows a service import.
LEMMA ImportTypes ==
    ASSUME TypeOK, Import
    PROVE  TypeOK'
<1> USE FieldTypes, RowTypes
<1>1. ASSUME NEW m \in Modes, ImportService(m) PROVE TypeOK'
  BY <1>1 DEF TypeOK, ImportService, procVars, osVars, lifeVars
<1>2. CASE restartEnabledServiceInstances
  <2>1. Mode \in Modes
    BY DEF TypeOK, Mode, EffectiveRuntimeMode, Overrides
  <2>2. reload' \in {"none", "apply"} \union Modes
    BY <1>2, <2>1 DEF restartEnabledServiceInstances
  <2> QED BY <1>2, <2>2 DEF TypeOK, restartEnabledServiceInstances, procVars, osVars, lifeVars
<1>3. CASE ReloadAbandoned
  BY <1>3 DEF TypeOK, ReloadAbandoned, procVars, osVars, lifeVars
<1>4. CASE ImportRestart
  <2>1. CASE stopThenStart("Restart")
    <3>1. /\ gate' \in Gate /\ gate'.pc = "stop" /\ tracked' \in MaybeProc
          /\ stz' = FALSE /\ sampled' = FALSE /\ current' = FALSE /\ backoff' = FALSE
      BY <2>1, StopThenStartTypes DEF Ops, ClientOps
    <3> QED BY <1>4, <3>1 DEF TypeOK, ImportRestart, osVars, lifeVars
  <2>2. CASE UNCHANGED <<gate, procVars, backoff>>
    BY <1>4, <2>2 DEF TypeOK, ImportRestart, procVars, osVars, lifeVars
  <2> QED BY <1>4, <2>1, <2>2 DEF ImportRestart
<1>5. CASE RestartIfWarm
  <2>1. CASE stopThenStart("Restart") /\ reload' = "none"
    <3>1. /\ gate' \in Gate /\ gate'.pc = "stop" /\ tracked' \in MaybeProc
          /\ stz' = FALSE /\ sampled' = FALSE /\ current' = FALSE /\ backoff' = FALSE
      BY <2>1, StopThenStartTypes DEF Ops, ClientOps
    <3> QED BY <1>5, <2>1, <3>1 DEF TypeOK, RestartIfWarm, osVars, lifeVars
  <2>2. CASE reload' \in {"apply", "none"} /\ UNCHANGED <<gate, procVars, backoff>>
    BY <1>5, <2>2 DEF TypeOK, RestartIfWarm, procVars, osVars, lifeVars
  <2> QED BY <1>5, <2>1, <2>2 DEF RestartIfWarm
<1>6. CASE ApplyServiceRuntimeMode
  <2>1. CASE UNCHANGED <<row, gate, procVars, backoff>>
    BY <1>6, <2>1 DEF TypeOK, ApplyServiceRuntimeMode, procVars, osVars, lifeVars
  <2>2. CASE stopThenStart("ApplyServiceRuntimeMode") /\ UNCHANGED row
    <3>1. /\ gate' \in Gate /\ gate'.pc = "stop" /\ tracked' \in MaybeProc
          /\ stz' = FALSE /\ sampled' = FALSE /\ current' = FALSE /\ backoff' = FALSE
      BY <2>2, StopThenStartTypes DEF Ops, ClientOps
    <3> QED BY <1>6, <2>2, <3>1 DEF TypeOK, ApplyServiceRuntimeMode, osVars, lifeVars
  <2>3. CASE /\ stopProcess("ApplyServiceRuntimeMode", row.enabled,
                            IF row.enabled THEN "onDemand" ELSE "done", row.mode)
             /\ UNCHANGED row
    <3>1. (IF row.enabled THEN "onDemand" ELSE "done") \in Nexts
      BY DEF Nexts
    <3>2. /\ gate' \in Gate /\ gate'.pc = "stop" /\ tracked' \in MaybeProc
          /\ stz' = FALSE /\ sampled' = FALSE /\ current' = FALSE /\ backoff' = FALSE
      BY <2>3, <3>1, StopProcessTypes DEF Ops, ClientOps
    <3> QED BY <1>6, <2>3, <3>2 DEF TypeOK, ApplyServiceRuntimeMode, osVars, lifeVars
  <2>4. CASE /\ row' \in {StoppedRow(row.enabled), OnDemandRow(row.mode), row}
             /\ nextGeneration
             /\ UNCHANGED <<gate, tracked, stz, sampled>>
    <3>1. row' \in Row
      BY <2>4 DEF TypeOK
    <3> QED BY <1>6, <2>4, <3>1
            DEF TypeOK, ApplyServiceRuntimeMode, nextGeneration, osVars, lifeVars
  <2> QED BY <1>6, <2>1, <2>2, <2>3, <2>4 DEF ApplyServiceRuntimeMode
<1> QED BY <1>1, <1>2, <1>3, <1>4, <1>5, <1>6 DEF Import

\* Requests that take or release a reference.
LEMMA RequestTypes ==
    ASSUME TypeOK, Requests
    PROVE  TypeOK'
<1>1. ASSUME NEW r \in Req, EnsureStarted(r) PROVE TypeOK'
  <2>1. CASE /\ refs' = [refs EXCEPT ![r] = tracked]
             /\ UNCHANGED <<gate, current, backoff>>
    <3>1. refs' \in [Req -> MaybeProc]
      BY <2>1 DEF TypeOK
    <3> QED BY <1>1, <2>1, <3>1 DEF TypeOK, EnsureStarted, osVars, lifeVars
  <2>2. CASE startLocked("EnsureStarted", "done", row.mode, r) /\ UNCHANGED refs
    <3>1. gate' \in Gate /\ gate'.pc = "start" /\ current' = FALSE /\ backoff' = FALSE
      BY <2>2, FieldTypes, StartLockedTypes DEF Ops, ClientOps, Nexts
    <3> QED BY <1>1, <2>2, <3>1 DEF TypeOK, EnsureStarted, osVars, lifeVars
  <2> QED BY <1>1, <2>1, <2>2 DEF EnsureStarted
<1>2. ASSUME NEW r \in Req, releaseRef(r) PROVE TypeOK'
  <2>1. refs' \in [Req -> MaybeProc]
    BY <1>2 DEF releaseRef, TypeOK, MaybeProc
  <2> QED BY <1>2, <2>1 DEF TypeOK, releaseRef, procVars, osVars, lifeVars
<1> QED BY <1>1, <1>2 DEF Requests

\* Exit watchers, timers and the scale-to-zero scan.
LEMMA BackgroundTypes ==
    ASSUME TypeOK, Background
    PROVE  TypeOK'
<1> USE FieldTypes, RowTypes
<1>1. ASSUME NEW p \in Proc, Wait(p) PROVE TypeOK'
  <2>1. row' \in Row
    <3>1. \/ row' = [row EXCEPT !.status = "degraded", !.pid = None, !.addr = None]
          \/ row' = [row EXCEPT !.status = "degraded", !.pid = None]
          \/ row' = row
      BY <1>1 DEF Wait
    <3>2. row \in Row
      BY DEF TypeOK
    <3>3. [row EXCEPT !.status = "degraded", !.pid = None, !.addr = None] \in Row
      BY <3>2 DEF Row, Statuses, MaybeProc
    <3>4. [row EXCEPT !.status = "degraded", !.pid = None] \in Row
      BY <3>2 DEF Row, Statuses, MaybeProc
    <3> QED BY <3>1, <3>2, <3>3, <3>4
  <2>2. backoff' \in BOOLEAN
    <3>1. backoff' = backoff \/ backoff' = (backoff \/ current)
      BY <1>1 DEF Wait
    <3>2. backoff \in BOOLEAN /\ (backoff \/ current) \in BOOLEAN
      BY DEF TypeOK
    <3> QED BY <3>1, <3>2
  <2>3. /\ tracked' \in MaybeProc /\ stz' \in BOOLEAN
        /\ current' \in BOOLEAN /\ sampled' \in BOOLEAN
    BY <1>1 DEF Wait, TypeOK, procVars, MaybeProc
  <2>4. waiters' \subseteq Proc /\ alive' = alive /\ killed' = killed /\ leaked' = leaked
    BY <1>1 DEF Wait, TypeOK
  <2> QED BY <1>1, <2>1, <2>2, <2>3, <2>4 DEF TypeOK, Wait, lifeVars
<1>2. CASE restartAfterBackoff
  <2>1. gate' \in {gate, [FreeGate EXCEPT !.op = "Backoff", !.pc = "start", !.addr = row.addr]}
    BY <1>2 DEF restartAfterBackoff
  <2>2. gate' \in Gate /\ (gate'.pc = "free" => gate' = FreeGate)
    <3>1. [FreeGate EXCEPT !.op = "Backoff", !.pc = "start", !.addr = row.addr] \in Gate
      BY FreeGateType DEF Gate, BackgroundOps
    <3>2. [FreeGate EXCEPT !.op = "Backoff", !.pc = "start", !.addr = row.addr].pc = "start"
      BY DEF FreeGate
    <3> QED BY <2>1, <3>1, <3>2 DEF TypeOK
  <2> QED BY <1>2, <2>2 DEF TypeOK, restartAfterBackoff, procVars, osVars, lifeVars
<1>3. CASE TouchInstance
  BY <1>3 DEF TypeOK, TouchInstance, osVars, lifeVars
<1>4. CASE scanScaleToZero
  BY <1>4 DEF TypeOK, scanScaleToZero, osVars, lifeVars
<1>5. CASE parkIfStillIdle
  <2>1. stopProcess("Park", TRUE, "done", row.mode)
    BY <1>5 DEF parkIfStillIdle
  <2>2. /\ gate' \in Gate /\ gate'.pc = "stop" /\ tracked' \in MaybeProc
        /\ stz' = FALSE /\ sampled' = FALSE /\ current' = FALSE /\ backoff' = FALSE
    BY <2>1, StopProcessTypes DEF Ops, BackgroundOps, Nexts
  <2> QED BY <1>5, <2>2 DEF TypeOK, parkIfStillIdle, osVars, lifeVars
<1> QED BY <1>1, <1>2, <1>3, <1>4, <1>5 DEF Background

\* The reconcile pass.
LEMMA ReconcileTypes ==
    ASSUME TypeOK, Reconcile
    PROVE  TypeOK'
<1> USE FieldTypes, RowTypes
<1>1. ASSUME NEW p \in Proc, ReconcileOrphan(p) PROVE TypeOK'
  <2>1. killed' \subseteq alive'
    BY <1>1 DEF ReconcileOrphan, TypeOK
  <2> QED BY <1>1, <2>1 DEF TypeOK, ReconcileOrphan, procVars, lifeVars
<1>2. CASE ReconcileSurplus
  <2>1. stopProcess("Reconcile", row.enabled, IF Mode = OD THEN "onDemand" ELSE "done",
                    row.mode)
    BY <1>2 DEF ReconcileSurplus
  <2>2. (IF Mode = OD THEN "onDemand" ELSE "done") \in Nexts
    BY DEF Nexts
  <2>3. /\ gate' \in Gate /\ gate'.pc = "stop" /\ tracked' \in MaybeProc
        /\ stz' = FALSE /\ sampled' = FALSE /\ current' = FALSE /\ backoff' = FALSE
    BY <2>1, <2>2, StopProcessTypes DEF Ops, BackgroundOps
  <2> QED BY <1>2, <2>3 DEF TypeOK, ReconcileSurplus, osVars, lifeVars
<1>3. CASE ReconcileStale \/ ReconcileMissingTracked
  <2>1. row' \in Row
    BY <1>3 DEF ReconcileStale, ReconcileMissingTracked, TypeOK
  <2> QED BY <1>3, <2>1
          DEF TypeOK, ReconcileStale, ReconcileMissingTracked, procVars, osVars, lifeVars
<1>4. CASE ReconcileMissing
  <2>1. row' \in {row, StoppedRow(TRUE)}
        /\ startLocked("Reconcile", "done", row.mode, None)
    BY <1>4 DEF ReconcileMissing
  <2>2. row' \in Row
    BY <2>1 DEF TypeOK
  <2>3. gate' \in Gate /\ gate'.pc = "start" /\ current' = FALSE /\ backoff' = FALSE
    BY <2>1, StartLockedTypes DEF Ops, BackgroundOps, Nexts
  <2> QED BY <1>4, <2>2, <2>3 DEF TypeOK, ReconcileMissing, osVars, lifeVars
<1> QED BY <1>1, <1>2, <1>3, <1>4 DEF Reconcile

\* A daemon that ends leaves the state of one that has nothing in memory.
LEMMA ForgetTypes ==
    ASSUME forget
    PROVE  /\ gate' = FreeGate /\ tracked' \in MaybeProc
           /\ stz' = FALSE /\ current' = FALSE /\ sampled' = FALSE
           /\ backoff' = FALSE /\ toStop' = FALSE /\ waiters' = {}
           /\ refs' \in [Req -> MaybeProc]
           /\ reload' = "none" /\ daemon' = "down"
    BY DEF forget, MaybeProc

\* Shutdown, death and boot.
LEMMA LifecycleTypes ==
    ASSUME TypeOK, Lifecycle
    PROVE  TypeOK'
<1> USE FieldTypes, FreeGateType
<1>1. CASE BeginShutdown
  <2>1. toStop' \in BOOLEAN
    BY <1>1 DEF BeginShutdown
  <2> QED BY <1>1, <2>1 DEF TypeOK, BeginShutdown, nextGeneration, osVars
<1>2. CASE ShutdownList
  <2>1. toStop' \in BOOLEAN
    BY <1>2 DEF ShutdownList
  <2> QED BY <1>2, <2>1 DEF TypeOK, ShutdownList, procVars, osVars
<1>3. CASE ShutdownStop
  <2>1. CASE stopProcess("Shutdown", row.enabled, "done", row.mode)
    <3>1. /\ gate' \in Gate /\ gate'.pc = "stop" /\ tracked' \in MaybeProc
          /\ stz' = FALSE /\ sampled' = FALSE /\ current' = FALSE /\ backoff' = FALSE
      BY <2>1, StopProcessTypes DEF Ops, BackgroundOps, Nexts
    <3> QED BY <1>3, <3>1 DEF TypeOK, ShutdownStop, osVars
  <2>2. CASE UNCHANGED <<gate, procVars, backoff>>
    BY <1>3, <2>2 DEF TypeOK, ShutdownStop, procVars, osVars
  <2> QED BY <1>3, <2>1, <2>2 DEF ShutdownStop
<1>4. CASE ShutdownDone
  BY <1>4, ForgetTypes DEF TypeOK, ShutdownDone
<1>5. CASE Crash
  BY <1>5, ForgetTypes DEF TypeOK, Crash
<1>6. CASE Boot
  <2>1. gate' \in {gate, [FreeGate EXCEPT !.op = "Recover", !.pc = "start"]}
    BY <1>6 DEF Boot
  <2>2. gate' \in Gate /\ (gate'.pc = "free" => gate' = FreeGate)
    <3>1. [FreeGate EXCEPT !.op = "Recover", !.pc = "start"] \in Gate
      BY DEF Gate, BackgroundOps
    <3>2. [FreeGate EXCEPT !.op = "Recover", !.pc = "start"].pc = "start"
      BY DEF FreeGate
    <3> QED BY <2>1, <3>1, <3>2 DEF TypeOK
  <2> QED BY <1>6, <2>2 DEF TypeOK, Boot, procVars, osVars
<1>7. CASE BootDone
  BY <1>7 DEF TypeOK, BootDone, procVars, osVars
<1> QED BY <1>1, <1>2, <1>3, <1>4, <1>5, <1>6, <1>7 DEF Lifecycle

-----------------------------------------------------------------------------
(* What a step does to the process of the instance.  An operation that      *)
(* takes the gate does one of two things to it, whatever its reason.        *)

TakesGateToStop(op) ==
    /\ gate'.op = op /\ gate'.pc = "stop" /\ gate'.proc = tracked
    /\ tracked' = None /\ backoff' = FALSE

TakesGateToStart(op) ==
    /\ gate'.op = op /\ gate'.pc = "start" /\ gate'.proc = None
    /\ tracked' = tracked /\ backoff' = FALSE

LeavesGate == UNCHANGED <<gate, tracked>> /\ backoff' \in {backoff, FALSE}

\* The entry of an operation, or one that returns at once.
Entry ==
    /\ GateFree /\ daemon = "up" /\ daemon' = daemon
    /\ UNCHANGED osVars
    /\ \/ LeavesGate
       \/ \E op \in Ops \ {"Backoff", "Park"} : TakesGateToStop(op) \/ TakesGateToStart(op)

\* stopProcess is the one way an operation begins with a stop.
LEMMA StopProcessTakes ==
    ASSUME NEW op, NEW on, NEW next, NEW m, stopProcess(op, on, next, m)
    PROVE  TakesGateToStop(op)
    BY DEF stopProcess, FreeGate, nextGeneration, TakesGateToStop

\* startLocked is the one way an operation begins with a start.
LEMMA StartLockedTakes ==
    ASSUME NEW op, NEW next, NEW m, NEW r, startLocked(op, next, m, r), tracked' = tracked
    PROVE  TakesGateToStart(op)
    BY DEF startLocked, FreeGate, nextGeneration, TakesGateToStart

\* Restart and its kin begin with a stop.
LEMMA StopThenStartTakes ==
    ASSUME NEW op, stopThenStart(op)
    PROVE  TakesGateToStop(op)
    BY StopProcessTakes DEF stopThenStart

\* A reload stops the process or does not touch it.
LEMMA RestartLockedTakes ==
    ASSUME NEW op, NEW m, NEW flag, restartLocked(op, m, flag)
    PROVE  LeavesGate \/ TakesGateToStop(op)
    BY StopThenStartTakes DEF restartLocked, LeavesGate

\* Every call of the admin API enters through the gate.
LEMMA OperatorEntry ==
    ASSUME Operator
    PROVE  Entry
<1>1. Operator => GateFree /\ daemon = "up" /\ daemon' = daemon /\ UNCHANGED osVars
  <2>1. Start \/ Stop \/ Restart \/ UpdateConfig \/ Delete \/ SyncUnchanged
        \/ (\E m \in Overrides, s \in BOOLEAN : Create(m, s))
        => GateFree /\ daemon = "up" /\ daemon' = daemon /\ UNCHANGED osVars
    BY DEF Start, Stop, Restart, UpdateConfig, Delete, SyncUnchanged, Create, Enter, osVars,
           lifeVars
  <2>2. ASSUME NEW m \in Overrides, SetRuntimeMode(m)
        PROVE  GateFree /\ daemon = "up" /\ daemon' = daemon /\ UNCHANGED osVars
    BY <2>2 DEF SetRuntimeMode, SetModeSameResident, SetModeOnDemand,
         SetModeOnDemandToLongRunning, SetModeToScaleToZero, SetModeToLongRunning,
         SetModeOnDemandToScaleToZero, setMode, Enter, osVars, lifeVars
  <2>3. ASSUME NEW m \in Overrides, Sync(m)
        PROVE  GateFree /\ daemon = "up" /\ daemon' = daemon /\ UNCHANGED osVars
    BY <2>3 DEF Sync, SyncOnDemand, SyncFromOnDemand, SyncResident, sync, Enter, osVars, lifeVars
  <2> QED BY <2>1, <2>2, <2>3 DEF Operator
<1> USE StopProcessTakes, StartLockedTakes, StopThenStartTakes
        DEF Enter, osVars, lifeVars
<1> DEFINE Takes == LeavesGate \/ \E op \in {"Start", "Stop", "Restart", "UpdateConfig", "Create",
                        "Delete", "SetRuntimeMode"} : TakesGateToStop(op) \/ TakesGateToStart(op)
<1>2. Start \/ Stop \/ Restart => Takes
  BY DEF Start, Stop, Restart
<1>3. UpdateConfig => Takes
  BY RestartLockedTakes DEF UpdateConfig
<1>4. Delete => Takes
  BY DEF Delete, nextGeneration, LeavesGate
<1>5. ASSUME NEW m \in Overrides, NEW s \in BOOLEAN, Create(m, s) PROVE Takes
  BY <1>5 DEF Create, LeavesGate
<1>6. SyncUnchanged => Takes
  BY DEF SyncUnchanged, LeavesGate
<1>7. ASSUME NEW m \in Overrides, SetRuntimeMode(m) PROVE Takes
  <2>1. CASE SetModeSameResident(m)
    BY <2>1 DEF SetModeSameResident, LeavesGate
  <2>2. CASE SetModeOnDemand(m)
    BY <2>2 DEF SetModeOnDemand, LeavesGate
  <2>3. CASE SetModeOnDemandToLongRunning(m)
    BY <2>3 DEF SetModeOnDemandToLongRunning, LeavesGate
  <2>4. CASE SetModeToScaleToZero(m)
    BY <2>4 DEF SetModeToScaleToZero, LeavesGate
  <2>5. CASE SetModeToLongRunning(m)
    BY <2>5 DEF SetModeToLongRunning, LeavesGate
  <2>6. CASE SetModeOnDemandToScaleToZero(m)
    BY <2>6 DEF SetModeOnDemandToScaleToZero, LeavesGate
  <2> QED BY <1>7, <2>1, <2>2, <2>3, <2>4, <2>5, <2>6 DEF SetRuntimeMode
<1>8. ASSUME NEW m \in Overrides, Sync(m) PROVE Takes
  <2>1. CASE SyncOnDemand(m)
    BY <2>1 DEF SyncOnDemand, nextGeneration, LeavesGate
  <2>2. CASE SyncFromOnDemand(m)
    BY <2>2 DEF SyncFromOnDemand, LeavesGate
  <2>3. ASSUME NEW c \in BOOLEAN, SyncResident(m, c) PROVE Takes
    BY <2>3, RestartLockedTakes DEF SyncResident, LeavesGate
  <2> QED BY <1>8, <2>1, <2>2, <2>3 DEF Sync
<1>9. Takes
  BY <1>2, <1>3, <1>4, <1>5, <1>6, <1>7, <1>8 DEF Operator
<1> QED BY <1>1, <1>9 DEF Entry, Ops, ClientOps

\* A step that leaves the process and whoever works on it alone.
Quiet == UNCHANGED <<gate, tracked, backoff, osVars, daemon>>

\* Every step of a reload enters through the gate or touches no process.
LEMMA ImportEntry ==
    ASSUME Import
    PROVE  Entry \/ Quiet
<1> USE StopProcessTakes, StopThenStartTakes DEF osVars, lifeVars, procVars
<1>1. ASSUME NEW m \in Modes, ImportService(m) PROVE Quiet
  BY <1>1 DEF ImportService, Quiet
<1>2. CASE restartEnabledServiceInstances
  BY <1>2 DEF restartEnabledServiceInstances, Quiet
<1>3. CASE ReloadAbandoned
  BY <1>3 DEF ReloadAbandoned, Quiet
<1>4. ASSUME ImportRestart \/ RestartIfWarm \/ ApplyServiceRuntimeMode PROVE Entry
  <2>1. GateFree /\ daemon = "up" /\ daemon' = daemon /\ UNCHANGED osVars
    BY <1>4 DEF ImportRestart, RestartIfWarm, ApplyServiceRuntimeMode, Enter
  <2>2. LeavesGate \/ TakesGateToStop("Restart") \/ TakesGateToStop("ApplyServiceRuntimeMode")
    BY <1>4 DEF ImportRestart, RestartIfWarm, ApplyServiceRuntimeMode, nextGeneration,
                LeavesGate
  <2> QED BY <2>1, <2>2 DEF Entry, Ops, ClientOps
<1> QED BY <1>1, <1>2, <1>3, <1>4 DEF Import

\* A request enters through the gate; its release touches no process.
LEMMA RequestEntry ==
    ASSUME Requests
    PROVE  Entry \/ Quiet
<1>1. ASSUME NEW r \in Req, EnsureStarted(r) PROVE Entry
  <2>1. LeavesGate \/ TakesGateToStart("EnsureStarted")
    BY <1>1, StartLockedTakes DEF EnsureStarted, LeavesGate
  <2> QED BY <1>1, <2>1 DEF EnsureStarted, Enter, Entry, osVars, lifeVars, Ops, ClientOps
<1>2. ASSUME NEW r \in Req, releaseRef(r) PROVE Quiet
  BY <1>2 DEF releaseRef, Quiet, procVars, osVars, lifeVars
<1> QED BY <1>1, <1>2 DEF Requests

\* The gated categories of the reconcile pass.
LEMMA ReconcileEntry ==
    ASSUME ReconcileSurplus \/ ReconcileStale \/ ReconcileMissing \/ ReconcileMissingTracked
    PROVE  Entry
<1>1. GateFree /\ daemon = "up" /\ daemon' = daemon /\ UNCHANGED osVars
  BY DEF ReconcileSurplus, ReconcileStale, ReconcileMissing, ReconcileMissingTracked, Enter,
         lifeVars, osVars
<1>2. LeavesGate \/ TakesGateToStop("Reconcile") \/ TakesGateToStart("Reconcile")
  BY StopProcessTakes, StartLockedTakes
     DEF ReconcileSurplus, ReconcileStale, ReconcileMissing, ReconcileMissingTracked,
         LeavesGate, procVars
<1> QED BY <1>1, <1>2 DEF Entry, Ops, BackgroundOps

\* A failed start leaves nothing at the gate but the rollback of a mode switch,
\* and only the backoff loop sets a timer.
LEMMA FailStartLeaves ==
    ASSUME NEW r, failStart(r), gate \in Gate
    PROVE  /\ gate'.pc \in {"free", "rollback"} /\ gate'.proc = None
           /\ gate'.pc = "rollback" => gate'.op = gate.op /\ backoff' = backoff
           /\ gate'.pc = "free" => gate'.op = "none"
           /\ backoff' = backoff \/ (gate.op = "Backoff" /\ gate'.pc = "free")
<1>1. CASE gate.op = "Backoff" /\ ~Cancelled
  <2>1. gate' = FreeGate
    BY <1>1 DEF failStart, Release
  <2> QED BY <1>1, <2>1 DEF FreeGate
<1>2. CASE ~(gate.op = "Backoff" /\ ~Cancelled)
  <2>1. backoff' = backoff
    BY <1>2 DEF failStart
  <2>2. CASE gate.then = "rollback"
    BY <1>2, <2>1, <2>2 DEF failStart, Gate
  <2>3. CASE gate.then # "rollback"
    BY <1>2, <2>1, <2>3 DEF failStart, FreeGate
  <2> QED BY <2>2, <2>3
<1> QED BY <1>1, <1>2

-----------------------------------------------------------------------------
(* No process is dropped                                                    *)

\* The invariant behind NoStrayProcess.
Owned == OperationOwnsProcess /\ NoStrayProcess

\* Entering an operation moves the tracked process to the gate or keeps it.
LEMMA EntryOwned ==
    ASSUME TypeOK, Owned, Entry
    PROVE  Owned'
<1> USE DEF Owned, OperationOwnsProcess, NoStrayProcess
<1>0. /\ gate.pc = "free" /\ gate.proc = None /\ daemon' = "up"
      /\ UNCHANGED <<alive, killed, waiters, leaked>>
  BY DEF Entry, GateFree, osVars
<1>1. None \notin alive
  BY NoneAssumption DEF TypeOK
<1>2. CASE LeavesGate
  BY <1>0, <1>2 DEF LeavesGate
<1>3. ASSUME NEW op \in Ops, TakesGateToStop(op) PROVE Owned'
  BY <1>0, <1>1, <1>3 DEF TakesGateToStop
<1>4. ASSUME NEW op \in Ops, TakesGateToStart(op) PROVE Owned'
  BY <1>0, <1>1, <1>4 DEF TakesGateToStart
<1> QED BY <1>2, <1>3, <1>4 DEF Entry

\* A step that touches no process changes no owner.
LEMMA QuietOwned ==
    ASSUME Owned, Quiet
    PROVE  Owned'
    BY DEF Owned, OperationOwnsProcess, NoStrayProcess, Quiet, osVars

\* The operation at the gate steps only while the daemon lives.
LEMMA OperationRuns ==
    ASSUME OperationOwnsProcess, OperationStep
    PROVE  daemon' = daemon /\ daemon # "down" /\ gate.pc # "free"
<1>1. ASSUME NEW p \in Proc, StartBegin(p) PROVE daemon' = daemon /\ gate.pc # "free"
  BY <1>1 DEF StartBegin, lifeVars
<1>2. StopDone \/ StopFail => daemon' = daemon /\ gate.pc # "free"
  BY DEF StopDone, StopFail, lifeVars
<1>3. StartEarlyFail \/ Spawn \/ SpawnFail => daemon' = daemon /\ gate.pc # "free"
  BY DEF StartEarlyFail, Spawn, SpawnFail, lifeVars
<1>4. Register \/ RegisterReplaced \/ RegisterFail => daemon' = daemon /\ gate.pc # "free"
  BY DEF Register, RegisterReplaced, RegisterFail, lifeVars
<1>5. Healthy \/ HealthFail \/ RollBack => daemon' = daemon /\ gate.pc # "free"
  BY DEF Healthy, HealthFail, RollBack, lifeVars
<1> QED BY <1>1, <1>2, <1>3, <1>4, <1>5 DEF OperationStep, OperationOwnsProcess

\* Each step of an operation hands its process on, reaps it or gives it up.
LEMMA OperationOwned ==
    ASSUME TypeOK, Owned, OperationStep
    PROVE  Owned'
<1> USE DEF Owned, OperationOwnsProcess, NoStrayProcess
<1>0. gate \in Gate /\ None \notin alive
  BY NoneAssumption DEF TypeOK
<1>d. daemon' = daemon /\ daemon # "down"
  BY OperationRuns
<1>1. CASE StopDone
  <2>1. gate'.pc \in {"free", "start"} /\ gate'.proc = None
    <3>1. \/ gate' = FreeGate
          \/ gate' = [gate EXCEPT !.pc = "start", !.proc = None, !.then = "done"]
      BY <1>1 DEF StopDone, Release
    <3>2. CASE gate' = FreeGate
      BY <3>2 DEF FreeGate
    <3>3. CASE gate' = [gate EXCEPT !.pc = "start", !.proc = None, !.then = "done"]
      BY <1>0, <3>3 DEF Gate
    <3> QED BY <3>1, <3>2, <3>3
  <2>2. gate.pc = "stop" /\ gate.proc \notin alive
        /\ UNCHANGED <<tracked, alive, killed, waiters, leaked>>
    BY <1>1 DEF StopDone, procVars, osVars
  <2> QED BY <1>d, <2>1, <2>2
<1>2. CASE StopFail
  <2>1. gate'.pc = "free" /\ gate'.proc = None
    BY <1>2 DEF StopFail, Release, FreeGate
  <2>2. /\ gate.pc = "stop" /\ UNCHANGED <<tracked, alive, waiters>>
        /\ leaked' = leaked \union ({gate.proc} \intersect alive)
    BY <1>2 DEF StopFail, procVars
  <2> QED BY <1>d, <2>1, <2>2
<1>3. ASSUME NEW p \in Proc, StartBegin(p) PROVE Owned'
  <2>1. gate'.pc = "spawn" /\ gate'.proc = p
    BY <1>0, <1>3 DEF StartBegin, Gate
  <2>2. /\ gate.pc = "start" /\ UNCHANGED <<tracked, alive, killed, waiters, leaked>>
        /\ p \notin alive /\ p # tracked
    BY <1>3 DEF StartBegin, Fresh, procVars, osVars
  <2> QED BY <1>d, <1>0, <2>1, <2>2
<1>4. CASE StartEarlyFail
  <2>1. gate'.pc \in {"free", "rollback"} /\ gate'.proc = None
    BY <1>0, <1>4, FailStartLeaves DEF StartEarlyFail
  <2>2. gate.pc = "start" /\ UNCHANGED <<tracked, alive, killed, waiters, leaked>>
    BY <1>4 DEF StartEarlyFail, procVars, osVars
  <2> QED BY <1>d, <2>1, <2>2
<1>5. CASE Spawn
  <2>1. gate'.pc = "register" /\ gate'.proc = gate.proc
    BY <1>0, <1>5 DEF Spawn, Gate
  <2>2. /\ gate.pc = "spawn" /\ UNCHANGED <<tracked, killed, waiters, leaked>>
        /\ alive' = alive \union {gate.proc}
    BY <1>5 DEF Spawn, procVars
  <2>3. gate.proc \notin killed \union leaked
    BY <2>2 DEF TypeOK
  <2> QED BY <1>d, <2>1, <2>2, <2>3
<1>6. CASE SpawnFail
  <2>1. gate'.pc \in {"free", "rollback"} /\ gate'.proc = None
    BY <1>0, <1>6, FailStartLeaves DEF SpawnFail
  <2>2. gate.pc = "spawn" /\ UNCHANGED <<tracked, alive, killed, waiters, leaked>>
    BY <1>6 DEF SpawnFail, procVars, osVars
  <2> QED BY <1>d, <2>1, <2>2
<1>7. CASE Register
  <2>1. gate'.pc = "health" /\ gate'.proc = gate.proc
    BY <1>0, <1>7 DEF Register, Gate
  <2>2. /\ gate.pc = "register" /\ tracked' = gate.proc /\ tracked \notin alive
        /\ UNCHANGED <<alive, killed, waiters, leaked>>
    BY <1>7 DEF Register, liveProcess, osVars
  <2> QED BY <1>d, <2>1, <2>2
<1>8. CASE RegisterReplaced
  <2>1. gate'.pc \in {"free", "rollback"} /\ gate'.proc = None
    BY <1>0, <1>8, FailStartLeaves DEF RegisterReplaced
  <2>2. /\ gate.pc = "register" /\ tracked' = None
        /\ alive' = alive \ {gate.proc} /\ leaked' = leaked \union {tracked}
    BY <1>8 DEF RegisterReplaced
  <2> QED BY <1>d, <2>1, <2>2
<1>9. CASE RegisterFail
  <2>1. gate'.pc \in {"free", "rollback"} /\ gate'.proc = None
    BY <1>0, <1>9, FailStartLeaves DEF RegisterFail
  <2>2. /\ gate.pc = "register" /\ alive' = alive \ {gate.proc}
        /\ UNCHANGED <<tracked, killed, waiters, leaked>>
    BY <1>9 DEF RegisterFail, procVars
  <2> QED BY <1>d, <2>1, <2>2
<1>10. CASE Healthy
  <2>1. gate'.pc = "free" /\ gate'.proc = None
    BY <1>10 DEF Healthy, Release, FreeGate
  <2>2. /\ gate.pc = "health" /\ waiters' = waiters \union {gate.proc}
        /\ UNCHANGED <<tracked, alive, killed, leaked>>
    BY <1>10 DEF Healthy, procVars
  <2> QED BY <1>d, <2>1, <2>2
<1>11. CASE HealthFail
  <2>1. gate'.pc \in {"free", "rollback"} /\ gate'.proc = None
    BY <1>0, <1>11, FailStartLeaves DEF HealthFail
  <2>2. /\ gate.pc = "health" /\ tracked' = None /\ alive' = alive \ {gate.proc}
        /\ UNCHANGED <<killed, waiters, leaked>>
    BY <1>11 DEF HealthFail, cleanupFailedStart
  <2> QED BY <1>d, <2>1, <2>2
<1>12. CASE RollBack
  <2>0. gate.pc = "rollback" /\ UNCHANGED <<alive, killed, waiters, leaked>>
    BY <1>12 DEF RollBack, osVars
  <2>1. CASE TakesGateToStop(gate.op)
    BY <1>0, <1>d, <2>0, <2>1 DEF TakesGateToStop
  <2>2. CASE Release /\ tracked' = tracked
    BY <1>d, <2>0, <2>2 DEF Release, FreeGate
  <2> QED BY <1>12, <2>1, <2>2, StopProcessTakes DEF RollBack, procVars
<1> QED BY <1>1, <1>2, <1>3, <1>4, <1>5, <1>6, <1>7, <1>8, <1>9, <1>10, <1>11, <1>12
        DEF OperationStep

\* An exit watcher forgets only a process that has ended.
LEMMA BackgroundOwned ==
    ASSUME TypeOK, Owned, Background
    PROVE  Owned'
<1> USE DEF Owned, OperationOwnsProcess, NoStrayProcess
<1>1. ASSUME NEW p \in Proc, Wait(p) PROVE Owned'
  <2>1. /\ gate.pc = "free" /\ gate' = gate
        /\ p \notin alive /\ waiters' = waiters \ {p}
        /\ UNCHANGED <<alive, killed, leaked, daemon>>
    BY <1>1 DEF Wait, GateFree, lifeVars
  <2>2. tracked' = IF tracked = p THEN None ELSE tracked
    BY <1>1 DEF Wait, procVars
  <2> QED BY <2>1, <2>2
<1>2. CASE restartAfterBackoff
  <2>1. /\ GateFree /\ daemon = "up" /\ daemon' = daemon
        /\ UNCHANGED <<tracked, alive, killed, waiters, leaked>>
    BY <1>2 DEF restartAfterBackoff, Enter, procVars, osVars, lifeVars
  <2>2. gate' = gate \/ (gate'.pc = "start" /\ gate'.proc = None)
    BY <1>2 DEF restartAfterBackoff, FreeGate
  <2> QED BY <2>1, <2>2 DEF GateFree
<1>3. CASE TouchInstance \/ scanScaleToZero
  <2>1. UNCHANGED <<gate, tracked, alive, killed, waiters, leaked, daemon>>
    BY <1>3 DEF TouchInstance, scanScaleToZero, osVars, lifeVars
  <2> QED BY <2>1
<1>4. CASE parkIfStillIdle
  <2>1. /\ GateFree /\ TakesGateToStop("Park") /\ daemon = "up" /\ daemon' = daemon
        /\ UNCHANGED <<alive, killed, waiters, leaked>>
    BY <1>4, StopProcessTakes DEF parkIfStillIdle, Enter, osVars, lifeVars
  <2>2. None \notin alive
    BY NoneAssumption DEF TypeOK
  <2> QED BY <2>1, <2>2 DEF GateFree, TakesGateToStop
<1> QED BY <1>1, <1>2, <1>3, <1>4 DEF Background

\* The reconcile pass never picks the process being registered.
LEMMA ReconcileOwned ==
    ASSUME TypeOK, Owned, Reconcile
    PROVE  Owned'
<1>1. ASSUME NEW p \in Proc, ReconcileOrphan(p) PROVE Owned'
  <2>1. /\ UNCHANGED <<gate, tracked, alive, waiters, leaked, daemon>>
        /\ killed' = killed \union {p} /\ p # tracked
        /\ ~(gate.pc = "register" /\ gate.proc = p)
    BY <1>1 DEF ReconcileOrphan, procVars, lifeVars
  <2> QED BY <2>1 DEF Owned, OperationOwnsProcess, NoStrayProcess
<1> QED BY <1>1, EntryOwned, ReconcileEntry DEF Reconcile

\* A drained daemon owns nothing; a dead one gives up what still runs.
LEMMA LifecycleOwned ==
    ASSUME TypeOK, Owned, Lifecycle
    PROVE  Owned'
<1> USE DEF Owned, OperationOwnsProcess, NoStrayProcess
<1>1. CASE BeginShutdown \/ ShutdownList \/ BootDone
  <2>1. UNCHANGED <<gate, tracked, alive, killed, waiters, leaked>> /\ daemon' # "down"
    BY <1>1 DEF BeginShutdown, ShutdownList, BootDone, procVars, osVars
  <2> QED BY <2>1
<1>2. CASE ShutdownStop
  <2>1. GateFree /\ daemon' = "stopping" /\ UNCHANGED <<alive, killed, waiters, leaked>>
    BY <1>2 DEF ShutdownStop, osVars
  <2>2. TakesGateToStop("Shutdown") \/ UNCHANGED <<gate, tracked>>
    BY <1>2, StopProcessTakes DEF ShutdownStop, procVars
  <2>3. None \notin alive
    BY NoneAssumption DEF TypeOK
  <2> QED BY <2>1, <2>2, <2>3 DEF GateFree, TakesGateToStop
<1>3. CASE ShutdownDone
  <2>1. /\ GateFree /\ waiters = {} /\ UNCHANGED <<alive, killed, leaked>>
        /\ gate' = FreeGate /\ tracked' = None
    BY <1>3 DEF ShutdownDone, forget
  <2>2. tracked = None /\ None \notin alive
    BY <2>1, NoneAssumption DEF GateFree, TypeOK
  <2> QED BY <2>1, <2>2 DEF GateFree, FreeGate
<1>4. CASE Crash
  <2>1. leaked' = alive /\ alive' = alive /\ gate' = FreeGate /\ tracked' = None
    BY <1>4 DEF Crash, forget
  <2> QED BY <2>1 DEF FreeGate
<1>5. CASE Boot
  <2>1. /\ UNCHANGED <<tracked, alive, killed, waiters, leaked>>
        /\ daemon = "down" /\ daemon' = "booting"
        /\ gate' = gate \/ (gate'.pc = "start" /\ gate'.proc = None)
    BY <1>5 DEF Boot, FreeGate, procVars, osVars
  <2> QED BY <2>1
<1> QED BY <1>1, <1>2, <1>3, <1>4, <1>5 DEF Lifecycle

\* The steps that are no part of a group: a process exits, a caller goes.
LEMMA EnvironmentOwned ==
    ASSUME TypeOK, Owned, CallerGone \/ \E p \in Proc : ProcExit(p)
    PROVE  Owned'
<1> USE DEF Owned, OperationOwnsProcess, NoStrayProcess
<1>1. CASE CallerGone
  <2>1. gate'.pc = gate.pc /\ gate'.proc = gate.proc
    BY <1>1 DEF CallerGone, TypeOK, Gate
  <2>2. UNCHANGED <<tracked, alive, killed, waiters, leaked, daemon>>
    BY <1>1 DEF CallerGone, procVars, osVars, lifeVars
  <2> QED BY <2>1, <2>2
<1>2. ASSUME NEW p \in Proc, ProcExit(p) PROVE Owned'
  BY <1>2 DEF ProcExit, procVars, lifeVars
<1> QED BY <1>1, <1>2

\* Types through the exit of a process and the loss of a caller.
LEMMA EnvironmentTypes ==
    ASSUME TypeOK, CallerGone \/ \E p \in Proc : ProcExit(p)
    PROVE  TypeOK'
<1>1. CASE CallerGone
  <2>1. gate' \in Gate /\ gate'.pc = gate.pc
    BY <1>1 DEF CallerGone, TypeOK, Gate
  <2> QED BY <1>1, <2>1 DEF CallerGone, GateFree, TypeOK, procVars, osVars, lifeVars
<1>2. ASSUME NEW p \in Proc, ProcExit(p) PROVE TypeOK'
  <2>1. alive' \subseteq Proc /\ killed' \subseteq alive' /\ leaked' \subseteq alive'
    BY <1>2 DEF ProcExit, TypeOK
  <2> QED BY <1>2, <2>1 DEF ProcExit, TypeOK, procVars, lifeVars
<1> QED BY <1>1, <1>2

\* The inductive step of types and ownership.
LEMMA NextOwned ==
    ASSUME TypeOK, Owned, [Next]_vars
    PROVE  TypeOK' /\ Owned'
<1>1. CASE OperationStep
  BY <1>1, OperationTypes, OperationOwned DEF Owned
<1>2. CASE Operator
  BY <1>2, OperatorTypes, OperatorEntry, EntryOwned
<1>3. CASE Import
  BY <1>3, ImportTypes, ImportEntry, EntryOwned, QuietOwned
<1>4. CASE Requests
  BY <1>4, RequestTypes, RequestEntry, EntryOwned, QuietOwned
<1>5. CASE Background
  BY <1>5, BackgroundTypes, BackgroundOwned
<1>6. CASE Reconcile
  BY <1>6, ReconcileTypes, ReconcileOwned
<1>7. CASE Lifecycle
  BY <1>7, LifecycleTypes, LifecycleOwned
<1>8. CASE CallerGone \/ \E p \in Proc : ProcExit(p)
  BY <1>8, EnvironmentTypes, EnvironmentOwned
<1>9. CASE UNCHANGED vars
  <2>1. TypeOK'
    BY <1>9 DEF vars, procVars, osVars, lifeVars, TypeOK
  <2>2. Quiet
    BY <1>9 DEF vars, procVars, osVars, lifeVars, Quiet
  <2> QED BY <2>1, <2>2, QuietOwned
<1> QED BY <1>1, <1>2, <1>3, <1>4, <1>5, <1>6, <1>7, <1>8, <1>9 DEF Next

\* An empty data directory owns nothing.
LEMMA InitOwned == Init => TypeOK /\ Owned
<1> SUFFICES ASSUME Init PROVE TypeOK /\ Owned
  OBVIOUS
<1>1. gate = FreeGate /\ gate.pc = "free" /\ gate.proc = None
  BY DEF Init, FreeGate
<1>2. row \in Row
  BY DEF Init, Row, Statuses, MaybeProc, Overrides
<1>3. refs \in [Req -> MaybeProc]
  BY DEF Init, MaybeProc
<1>4. TypeOK
  BY <1>1, <1>2, <1>3, FreeGateType DEF Init, TypeOK, MaybeProc
<1>5. Owned
  BY <1>1 DEF Init, Owned, OperationOwnsProcess, NoStrayProcess
<1> QED BY <1>4, <1>5

\* Every reachable state has the shape the code gives its row, its gate and its
\* maps.
THEOREM TypeCorrect == Spec => []TypeOK
<1>1. TypeOK /\ Owned /\ [Next]_vars => (TypeOK /\ Owned)'
  BY NextOwned
<1> QED BY <1>1, InitOwned, PTL DEF Spec

\* No early return of a start, a stop, a timed-out stop or a shutdown drops a
\* live process: whatever the interleaving, it is the tracked one, the one the
\* operation at the gate holds, or one the daemon knowingly gave up on.  And what
\* an operation still starts is its own: the reconcile pass never takes it for an
\* orphan.
THEOREM NoProcessDropped == Spec => []NoStrayProcess
<1>1. TypeOK /\ Owned /\ [Next]_vars => (TypeOK /\ Owned)'
  BY NextOwned
<1>2. Owned => NoStrayProcess
  BY DEF Owned
<1> QED BY <1>1, <1>2, InitOwned, PTL DEF Spec

-----------------------------------------------------------------------------
(* The backoff timer                                                        *)

\* NoTimerOverLive made inductive: an operation at work has cancelled the
\* timer, and the attempt of the backoff loop has no process to compete with.
TimerCancelled ==
    /\ gate.pc # "free" => ~backoff
    /\ daemon = "down" => ~backoff
    /\ gate.op = "Backoff" /\ gate.pc # "health" => ~liveProcess

\* The invariant behind NoTimerOverLive.
Timer == TimerCancelled /\ NoTimerOverLive

\* The entry of an operation cancels the timer or leaves everything as it was.
LEMMA EntryTimer ==
    ASSUME TypeOK, Timer, Entry
    PROVE  Timer'
<1> USE DEF Timer, TimerCancelled, NoTimerOverLive, liveProcess
<1>0. gate.pc = "free" /\ daemon' = "up" /\ alive' = alive /\ None \notin alive
  BY NoneAssumption DEF Entry, GateFree, osVars, TypeOK
<1>2. CASE LeavesGate
  <2>1. gate' = gate /\ tracked' = tracked
    BY <1>2 DEF LeavesGate
  <2>2. CASE backoff' = backoff
    BY <1>0, <2>1, <2>2
  <2>3. CASE backoff' = FALSE
    BY <1>0, <2>1, <2>3
  <2> QED BY <1>2, <2>2, <2>3 DEF LeavesGate
<1>3. ASSUME NEW op \in Ops \ {"Backoff", "Park"}, TakesGateToStop(op) PROVE Timer'
  BY <1>0, <1>3 DEF TakesGateToStop
<1>4. ASSUME NEW op \in Ops \ {"Backoff", "Park"}, TakesGateToStart(op) PROVE Timer'
  BY <1>0, <1>4 DEF TakesGateToStart
<1> QED BY <1>2, <1>3, <1>4 DEF Entry

\* A step that touches no process sets no timer.
LEMMA QuietTimer ==
    ASSUME Timer, Quiet
    PROVE  Timer'
    BY DEF Timer, TimerCancelled, NoTimerOverLive, liveProcess, Quiet, osVars

\* Only the start at the gate spawns, and it never spawns the tracked process.
LEMMA OperationTimer ==
    ASSUME TypeOK, Owned, Timer, OperationStep
    PROVE  Timer'
<1> USE DEF Timer, TimerCancelled, NoTimerOverLive, liveProcess
<1>0. gate \in Gate /\ None \notin alive /\ ~backoff
  BY NoneAssumption, OperationRuns DEF TypeOK, Owned
<1>d. daemon' = daemon /\ daemon # "down"
  BY OperationRuns DEF Owned
<1>1. CASE StopDone \/ StopFail
  <2>1. UNCHANGED <<tracked, alive, backoff>> /\ gate.pc = "stop"
    BY <1>1 DEF StopDone, StopFail, procVars, osVars
  <2>2. \/ gate' = FreeGate
        \/ gate' = [gate EXCEPT !.pc = "start", !.proc = None, !.then = "done"]
    BY <1>1 DEF StopDone, StopFail, Release
  <2>3. gate'.op \in {gate.op, "none"}
    <3>1. CASE gate' = FreeGate
      BY <3>1 DEF FreeGate
    <3>2. CASE gate' = [gate EXCEPT !.pc = "start", !.proc = None, !.then = "done"]
      BY <1>0, <3>2 DEF Gate
    <3> QED BY <2>2, <3>1, <3>2
  <2> QED BY <1>0, <1>d, <2>1, <2>3
<1>2. ASSUME NEW p \in Proc, StartBegin(p) PROVE Timer'
  <2>1. gate'.op = gate.op /\ gate.pc = "start"
    BY <1>0, <1>2 DEF StartBegin, Gate
  <2>2. UNCHANGED <<tracked, alive, backoff>>
    BY <1>2 DEF StartBegin, procVars, osVars
  <2> QED BY <1>0, <1>d, <2>1, <2>2
<1>3. CASE Spawn
  <2>1. gate'.op = gate.op /\ gate.pc = "spawn" /\ gate.proc # tracked
    BY <1>0, <1>3 DEF Spawn, Gate, Owned, OperationOwnsProcess
  <2>2. UNCHANGED <<tracked, backoff>> /\ alive' = alive \union {gate.proc}
    BY <1>3 DEF Spawn, procVars
  <2> QED BY <1>0, <1>d, <2>1, <2>2
<1>4. ASSUME NEW r, failStart(r), gate.pc # "health" \/ tracked' \notin alive,
             tracked' \in {tracked, None}, alive' \subseteq alive
      PROVE  Timer'
  <2>1. tracked' \in alive' => tracked \in alive /\ tracked' = tracked /\ gate.pc # "health"
    BY <1>0, <1>4
  <2>2. /\ gate'.pc \in {"free", "rollback"}
        /\ gate'.pc = "rollback" => gate'.op = gate.op /\ backoff' = backoff
        /\ gate'.pc = "free" => gate'.op = "none"
        /\ backoff' = backoff \/ gate.op = "Backoff"
    BY <1>0, <1>4, FailStartLeaves
  <2>3. gate.op = "Backoff" => ~(tracked' \in alive')
    BY <2>1
  <2>4. backoff' => gate.op = "Backoff" /\ gate'.pc = "free"
    BY <1>0, <2>2
  <2>5. gate'.op = "Backoff" => gate.op = "Backoff"
    BY <2>2
  <2> QED BY <1>d, <2>3, <2>4, <2>5
<1>5. CASE StartEarlyFail
  <2>1. failStart(row) /\ gate.pc = "start" /\ tracked' = tracked /\ alive' = alive
    BY <1>5 DEF StartEarlyFail, procVars, osVars
  <2> QED BY <2>1, <1>4
<1>6. CASE SpawnFail
  <2>1. PICK r \in {row, [row EXCEPT !.status = "failed"]} : failStart(r)
    BY <1>6 DEF SpawnFail
  <2>2. gate.pc = "spawn" /\ tracked' = tracked /\ alive' = alive
    BY <1>6 DEF SpawnFail, procVars, osVars
  <2> QED BY <2>1, <2>2, <1>4
<1>7. CASE Register
  <2>1. gate'.pc = "health" /\ backoff' = backoff
    BY <1>0, <1>7 DEF Register, Gate
  <2> QED BY <1>0, <1>d, <2>1
<1>8. CASE RegisterReplaced
  <2>1. failStart(StoppedRow(TRUE)) /\ tracked' = None /\ alive' \subseteq alive
    BY <1>8 DEF RegisterReplaced
  <2> QED BY <1>0, <2>1, <1>4
<1>9. CASE RegisterFail
  <2>1. PICK r \in {row, StoppedRow(TRUE)} : failStart(r)
    BY <1>9 DEF RegisterFail
  <2>2. gate.pc = "register" /\ tracked' = tracked /\ alive' \subseteq alive
    BY <1>9 DEF RegisterFail, procVars
  <2> QED BY <2>1, <2>2, <1>4
<1>10. CASE Healthy
  <2>1. gate' = FreeGate /\ UNCHANGED <<tracked, alive, backoff>>
    BY <1>10 DEF Healthy, Release, procVars
  <2> QED BY <1>0, <1>d, <2>1 DEF FreeGate
<1>11. CASE HealthFail
  <2>1. PICK r \in {row, StoppedRow(TRUE),
                    [row EXCEPT !.status = "failed", !.pid = None, !.addr = None]} :
           failStart(r)
    BY <1>11 DEF HealthFail
  <2>2. tracked' = None /\ alive' \subseteq alive
    BY <1>11 DEF HealthFail, cleanupFailedStart
  <2> QED BY <1>0, <2>1, <2>2, <1>4
<1>12. CASE RollBack
  <2>0. alive' = alive
    BY <1>12 DEF RollBack, osVars
  <2>1. CASE TakesGateToStop(gate.op)
    BY <1>0, <1>d, <2>0, <2>1 DEF TakesGateToStop
  <2>2. CASE Release /\ UNCHANGED <<tracked, backoff>>
    BY <1>0, <1>d, <2>0, <2>2 DEF Release, FreeGate
  <2> QED BY <1>12, <2>1, <2>2, StopProcessTakes DEF RollBack, procVars
<1> QED BY <1>1, <1>2, <1>3, <1>5, <1>6, <1>7, <1>8, <1>9, <1>10, <1>11, <1>12
        DEF OperationStep

\* An exit watcher sets the timer only for the process it has just untracked.
LEMMA BackgroundTimer ==
    ASSUME TypeOK, Owned, Timer, Background
    PROVE  Timer'
<1> USE DEF Timer, TimerCancelled, NoTimerOverLive, liveProcess
<1>0. None \notin alive
  BY NoneAssumption DEF TypeOK
<1>1. ASSUME NEW p \in Proc, Wait(p) PROVE Timer'
  <2>1. /\ gate.pc = "free" /\ gate' = gate /\ daemon' = daemon /\ daemon # "down"
        /\ p \notin alive /\ alive' = alive
    BY <1>1 DEF Wait, GateFree, lifeVars
  <2>2. tracked' = IF tracked = p THEN None ELSE tracked
    BY <1>1 DEF Wait, procVars
  <2>3. backoff' = backoff \/ tracked = p
    BY <1>1 DEF Wait, OwnsExit
  <2>4. tracked' \in alive' => tracked' = tracked /\ tracked # p
    BY <1>0, <2>1, <2>2
  <2>5. tracked' \in alive' => ~backoff'
    BY <2>1, <2>3, <2>4
  <2>6. gate'.op = "Backoff" /\ gate'.pc # "health" => tracked' \notin alive'
    BY <2>1, <2>4
  <2> QED BY <2>1, <2>5, <2>6
<1>2. CASE restartAfterBackoff
  <2>1. /\ gate.pc = "free" /\ backoff /\ ~backoff' /\ daemon' = daemon
        /\ tracked' = tracked /\ alive' = alive
    BY <1>2 DEF restartAfterBackoff, Enter, GateFree, procVars, osVars, lifeVars
  <2> QED BY <2>1
<1>3. CASE TouchInstance \/ scanScaleToZero
  <2>1. UNCHANGED <<gate, tracked, alive, daemon, backoff>>
    BY <1>3 DEF TouchInstance, scanScaleToZero, osVars, lifeVars
  <2> QED BY <2>1
<1>4. CASE parkIfStillIdle
  <2>1. TakesGateToStop("Park") /\ alive' = alive
    BY <1>4, StopProcessTakes DEF parkIfStillIdle, osVars
  <2> QED BY <1>0, <2>1 DEF TakesGateToStop
<1> QED BY <1>1, <1>2, <1>3, <1>4 DEF Background

\* Shutdown cancels the timer, and a dead daemon has none.
LEMMA LifecycleTimer ==
    ASSUME TypeOK, Timer, Lifecycle
    PROVE  Timer'
<1> USE DEF Timer, TimerCancelled, NoTimerOverLive, liveProcess
<1>0. None \notin alive
  BY NoneAssumption DEF TypeOK
<1>1. CASE BeginShutdown
  BY <1>1 DEF BeginShutdown, nextGeneration, osVars
<1>2. CASE ShutdownList \/ BootDone
  <2>1. UNCHANGED <<gate, tracked, alive, backoff>> /\ daemon' # "down"
    BY <1>2 DEF ShutdownList, BootDone, procVars, osVars
  <2> QED BY <2>1
<1>3. CASE ShutdownStop
  <2>1. daemon' = "stopping" /\ alive' = alive
    BY <1>3 DEF ShutdownStop, osVars
  <2>2. TakesGateToStop("Shutdown") \/ UNCHANGED <<gate, tracked, backoff>>
    BY <1>3, StopProcessTakes DEF ShutdownStop, procVars
  <2> QED BY <1>0, <2>1, <2>2 DEF TakesGateToStop
<1>4. CASE ShutdownDone \/ Crash
  <2>1. alive' = alive /\ gate' = FreeGate /\ tracked' = None /\ ~backoff'
    BY <1>4 DEF ShutdownDone, Crash, forget
  <2> QED BY <1>0, <2>1 DEF FreeGate
<1>5. CASE Boot
  <2>1. /\ UNCHANGED <<tracked, alive, backoff>> /\ daemon = "down"
        /\ gate' = gate \/ gate'.op = "Recover"
    BY <1>5 DEF Boot, FreeGate, procVars, osVars
  <2> QED BY <2>1
<1> QED BY <1>1, <1>2, <1>3, <1>4, <1>5 DEF Lifecycle

\* The inductive step of the timer invariant.
LEMMA NextTimer ==
    ASSUME TypeOK, Owned, Timer, [Next]_vars
    PROVE  Timer'
<1>1. CASE OperationStep
  BY <1>1, OperationTimer
<1>2. CASE Operator
  BY <1>2, OperatorEntry, EntryTimer
<1>3. CASE Import
  BY <1>3, ImportEntry, EntryTimer, QuietTimer
<1>4. CASE Requests
  BY <1>4, RequestEntry, EntryTimer, QuietTimer
<1>5. CASE Background
  BY <1>5, BackgroundTimer
<1>6. CASE Reconcile
  <2>1. ASSUME NEW p \in Proc, ReconcileOrphan(p) PROVE Timer'
    BY <2>1 DEF ReconcileOrphan, procVars, lifeVars, Timer, TimerCancelled,
                NoTimerOverLive, liveProcess
  <2> QED BY <1>6, <2>1, EntryTimer, ReconcileEntry DEF Reconcile
<1>7. CASE Lifecycle
  BY <1>7, LifecycleTimer
<1>8. CASE CallerGone
  <2>1. gate'.pc = gate.pc /\ gate'.op = gate.op
    BY <1>8 DEF CallerGone, TypeOK, Gate
  <2> QED BY <1>8, <2>1 DEF CallerGone, procVars, osVars, lifeVars, Timer, TimerCancelled,
                           NoTimerOverLive, liveProcess
<1>9. ASSUME NEW p \in Proc, ProcExit(p) PROVE Timer'
  BY <1>9 DEF ProcExit, procVars, lifeVars, Timer, TimerCancelled, NoTimerOverLive,
              liveProcess
<1>10. CASE UNCHANGED vars
  BY <1>10, QuietTimer DEF vars, procVars, osVars, lifeVars, Quiet
<1> QED BY <1>1, <1>2, <1>3, <1>4, <1>5, <1>6, <1>7, <1>8, <1>9, <1>10 DEF Next

\* A crash restart never races a process that something else started: every
\* start, stop, mode switch and shutdown cancels the timer it may overtake.
THEOREM TimerStandsDown == Spec => []NoTimerOverLive
<1>1. Init => TypeOK /\ Owned /\ Timer
  BY InitOwned DEF Init, FreeGate, Timer, TimerCancelled, NoTimerOverLive, liveProcess
<1>2. TypeOK /\ Owned /\ Timer /\ [Next]_vars => (TypeOK /\ Owned /\ Timer)'
  BY NextOwned, NextTimer
<1>3. Timer => NoTimerOverLive
  BY DEF Timer
<1> QED BY <1>1, <1>2, <1>3, PTL DEF Spec

-----------------------------------------------------------------------------
(* The idle stopper and the requests                                        *)

\* Nothing but the idle stopper's own entry puts "Park" at the gate.
LEMMA NoPark ==
    ASSUME gate'.op # "Park"
    PROVE  ParkRespectsRefs'
    BY DEF ParkRespectsRefs

\* A step that keeps the operation and adds no request to its process.
LEMMA ParkKept ==
    ASSUME TypeOK, ParkRespectsRefs, gate'.op = gate.op,
           gate'.proc = gate.proc \/ gate'.proc = None
              \/ \A r \in Req : refs[r] # gate'.proc,
           \A r \in Req : refs'[r] \in {refs[r], None}
    PROVE  ParkRespectsRefs'
<1> SUFFICES ASSUME gate.op = "Park", NEW r \in Req
             PROVE  refs'[r] \in {None} \union (Proc \ {gate'.proc})
  BY DEF ParkRespectsRefs
<1>1. refs[r] \in {None} \union Proc
  BY DEF TypeOK, MaybeProc
<1>2. refs[r] \in {None} \union (Proc \ {gate.proc})
  BY DEF ParkRespectsRefs
<1> QED BY <1>1, <1>2, NoneAssumption

\* No entry but the idle stopper's own parks.
LEMMA EntryPark ==
    ASSUME TypeOK, Entry
    PROVE  ParkRespectsRefs'
<1>1. gate.op = "none"
  BY DEF Entry, GateFree, TypeOK, FreeGate
<1>2. gate'.op # "Park"
  BY <1>1 DEF Entry, LeavesGate, TakesGateToStop, TakesGateToStart
<1> QED BY <1>2, NoPark

\* The steps of a stop add no reference, and a spawn takes a fresh process.
LEMMA OperationPark ==
    ASSUME TypeOK, ParkRespectsRefs, OperationStep
    PROVE  ParkRespectsRefs'
<1>0. gate \in Gate
  BY DEF TypeOK
<1> DEFINE Frees == gate'.op = "none"
           Keeps == /\ gate'.op = gate.op
                    /\ gate'.proc \in {gate.proc, None}
                       \/ \A r \in Req : refs[r] # gate'.proc
                    /\ refs' = refs
<1>1. Frees \/ Keeps => ParkRespectsRefs'
  BY NoPark, ParkKept
<1> HIDE DEF Frees, Keeps
<1>2. CASE StopDone \/ StopFail
  <2>1. \/ gate' = FreeGate
        \/ gate' = [gate EXCEPT !.pc = "start", !.proc = None, !.then = "done"]
    BY <1>2 DEF StopDone, StopFail, Release
  <2>2. CASE gate' = FreeGate
    BY <1>1, <2>2 DEF FreeGate, Frees
  <2>3. CASE gate' = [gate EXCEPT !.pc = "start", !.proc = None, !.then = "done"]
    <3>1. gate'.op = gate.op /\ gate'.proc = None
      BY <1>0, <2>3 DEF Gate
    <3>2. refs' = refs
      BY <1>2 DEF StopDone, StopFail
    <3> QED BY <1>1, <3>1, <3>2 DEF Keeps
  <2> QED BY <2>1, <2>2, <2>3
<1>3. ASSUME NEW p \in Proc, StartBegin(p) PROVE ParkRespectsRefs'
  <2>1. gate'.op = gate.op /\ gate'.proc = p
    BY <1>0, <1>3 DEF StartBegin, Gate
  <2>2. refs' = refs /\ \A r \in Req : refs[r] # p
    BY <1>3 DEF StartBegin, Fresh
  <2> QED BY <1>1, <2>1, <2>2 DEF Keeps
<1>4. ASSUME NEW r, failStart(r), refs' = refs PROVE ParkRespectsRefs'
  <2>1. /\ gate'.pc \in {"free", "rollback"} /\ gate'.proc = None
        /\ gate'.pc = "rollback" => gate'.op = gate.op
        /\ gate'.pc = "free" => gate'.op = "none"
    BY <1>0, <1>4, FailStartLeaves
  <2> QED BY <1>1, <1>4, <2>1 DEF Frees, Keeps
<1>5. CASE StartEarlyFail
  BY <1>4, <1>5 DEF StartEarlyFail
<1>6. CASE Spawn \/ Register
  <2>1. refs' = refs
    BY <1>6 DEF Spawn, Register
  <2>2. gate'.op = gate.op /\ gate'.proc = gate.proc
    BY <1>0, <1>6 DEF Spawn, Register, Gate
  <2> QED BY <1>1, <2>1, <2>2 DEF Keeps
<1>7. CASE SpawnFail
  <2>1. PICK r \in {row, [row EXCEPT !.status = "failed"]} : failStart(r)
    BY <1>7 DEF SpawnFail
  <2> QED BY <1>4, <1>7, <2>1 DEF SpawnFail
<1>8. CASE RegisterReplaced
  BY <1>4, <1>8 DEF RegisterReplaced
<1>9. CASE RegisterFail
  <2>1. PICK r \in {row, StoppedRow(TRUE)} : failStart(r)
    BY <1>9 DEF RegisterFail
  <2> QED BY <1>4, <1>9, <2>1 DEF RegisterFail
<1>10. CASE Healthy
  BY <1>1, <1>10 DEF Healthy, Release, FreeGate, Frees
<1>11. CASE HealthFail
  <2>1. PICK r \in {row, StoppedRow(TRUE),
                    [row EXCEPT !.status = "failed", !.pid = None, !.addr = None]} :
           failStart(r)
    BY <1>11 DEF HealthFail
  <2> QED BY <1>4, <1>11, <2>1 DEF HealthFail
<1>12. CASE RollBack
  <2>1. CASE Release
    BY <1>1, <2>1 DEF Release, FreeGate, Frees
  <2>2. CASE gate.op = "SetRuntimeMode" /\ TakesGateToStop(gate.op)
    BY <2>2, NoPark DEF TakesGateToStop
  <2> QED BY <1>12, <2>1, <2>2, StopProcessTakes DEF RollBack
<1> QED BY <1>2, <1>3, <1>5, <1>6, <1>7, <1>8, <1>9, <1>10, <1>11, <1>12
        DEF OperationStep

\* The inductive step of ParkRespectsRefs.
LEMMA NextPark ==
    ASSUME TypeOK, ParkRespectsRefs, [Next]_vars
    PROVE  ParkRespectsRefs'
<1> DEFINE Free == GateFree /\ gate' = gate
<1>0. Free => ParkRespectsRefs'
  BY NoPark DEF GateFree, TypeOK, FreeGate
<1> HIDE DEF Free
<1>1. CASE OperationStep
  BY <1>1, OperationPark
<1>2. CASE Operator
  BY <1>2, OperatorEntry, EntryPark
<1>3. CASE Import
  <2>1. CASE Entry
    BY <2>1, EntryPark
  <2>2. CASE Quiet
    <3>1. refs' = refs
      BY <1>3 DEF Import, ImportService, restartEnabledServiceInstances, ReloadAbandoned,
                  ImportRestart, RestartIfWarm, ApplyServiceRuntimeMode
    <3> QED BY <2>2, <3>1, ParkKept DEF Quiet
  <2> QED BY <1>3, <2>1, <2>2, ImportEntry
<1>4. CASE Requests
  <2>1. ASSUME NEW r \in Req, EnsureStarted(r) PROVE ParkRespectsRefs'
    <3>1. Entry \/ Quiet
      BY <1>4, RequestEntry
    <3>2. GateFree
      BY <2>1 DEF EnsureStarted, Enter
    <3> QED BY <1>0, <3>1, <3>2, EntryPark DEF Quiet, Free
  <2>2. ASSUME NEW r \in Req, releaseRef(r) PROVE ParkRespectsRefs'
    <3>1. gate' = gate /\ refs' = [refs EXCEPT ![r] = None]
      BY <2>2 DEF releaseRef
    <3>2. \A q \in Req : refs'[q] \in {refs[q], None}
      BY <3>1 DEF TypeOK
    <3> QED BY <3>1, <3>2, ParkKept
  <2> QED BY <1>4, <2>1, <2>2 DEF Requests
<1>5. CASE Background
  <2>1. ASSUME NEW p \in Proc, Wait(p) PROVE ParkRespectsRefs'
    BY <1>0, <2>1 DEF Wait, Free
  <2>2. CASE restartAfterBackoff
    <3>1. GateFree /\ (gate' = gate \/ gate'.op = "Backoff")
      BY <2>2 DEF restartAfterBackoff, Enter, FreeGate
    <3> QED BY <1>0, <3>1, NoPark DEF Free
  <2>3. CASE TouchInstance \/ scanScaleToZero
    <3>1. gate' = gate /\ refs' = refs
      BY <2>3 DEF TouchInstance, scanScaleToZero
    <3> QED BY <3>1, ParkKept
  <2>4. CASE parkIfStillIdle
    <3>1. gate'.proc = tracked /\ refs' = refs /\ ~RefsHeld /\ tracked # None
      BY <2>4, StopProcessTakes DEF parkIfStillIdle, TakesGateToStop
    <3>2. \A r \in Req : refs'[r] \in {None} \union (Proc \ {gate'.proc})
      BY <3>1 DEF RefsHeld, TypeOK, MaybeProc
    <3> QED BY <3>2 DEF ParkRespectsRefs
  <2> QED BY <1>5, <2>1, <2>2, <2>3, <2>4 DEF Background
<1>6. CASE Reconcile
  <2>1. ASSUME NEW p \in Proc, ReconcileOrphan(p) PROVE ParkRespectsRefs'
    <3>1. gate' = gate /\ refs' = refs
      BY <2>1 DEF ReconcileOrphan
    <3> QED BY <3>1, ParkKept
  <2> QED BY <1>6, <2>1, EntryPark, ReconcileEntry DEF Reconcile
<1>7. CASE Lifecycle
  <2>1. CASE BeginShutdown \/ ShutdownList \/ BootDone
    <3>1. gate' = gate /\ refs' = refs
      BY <2>1 DEF BeginShutdown, ShutdownList, BootDone
    <3> QED BY <3>1, ParkKept
  <2>2. CASE ShutdownStop
    <3>1. GateFree /\ (gate' = gate \/ gate'.op = "Shutdown")
      BY <2>2, StopProcessTakes DEF ShutdownStop, TakesGateToStop
    <3> QED BY <1>0, <3>1, NoPark DEF Free
  <2>3. CASE ShutdownDone \/ Crash
    <3>1. gate'.op = "none"
      BY <2>3 DEF ShutdownDone, Crash, forget, FreeGate
    <3> QED BY <3>1, NoPark
  <2>4. CASE Boot
    <3>1. refs' = refs /\ (gate' = gate \/ gate'.op = "Recover")
      BY <2>4 DEF Boot, FreeGate
    <3> QED BY <3>1, NoPark, ParkKept
  <2> QED BY <1>7, <2>1, <2>2, <2>3, <2>4 DEF Lifecycle
<1>8. CASE CallerGone
  <2>1. gate'.op = gate.op /\ gate'.proc = gate.proc /\ refs' = refs
    BY <1>8 DEF CallerGone, TypeOK, Gate
  <2> QED BY <2>1, ParkKept
<1>9. ASSUME NEW p \in Proc, ProcExit(p) PROVE ParkRespectsRefs'
  <2>1. gate' = gate /\ refs' = refs
    BY <1>9 DEF ProcExit
  <2> QED BY <2>1, ParkKept
<1>10. CASE UNCHANGED vars
  <2>1. gate' = gate /\ refs' = refs
    BY <1>10 DEF vars
  <2> QED BY <2>1, ParkKept
<1> QED BY <1>1, <1>2, <1>3, <1>4, <1>5, <1>6, <1>7, <1>8, <1>9, <1>10 DEF Next

\* The idle stopper never stops a process under a request that holds it: the
\* refs it checks under the gate cannot grow until it lets go of the gate.
THEOREM ParkIsSafe == Spec => []ParkRespectsRefs
<1>1. Init => ParkRespectsRefs
  BY DEF Init, FreeGate, ParkRespectsRefs
<1>2. TypeOK /\ Owned /\ ParkRespectsRefs /\ [Next]_vars
         => (TypeOK /\ Owned /\ ParkRespectsRefs)'
  BY NextOwned, NextPark
<1> QED BY <1>1, <1>2, InitOwned, PTL DEF Spec

-----------------------------------------------------------------------------
(* Shutdown                                                                 *)

\* CleanShutdown made inductive: once the daemon is stopping, a resident row
\* that claims a process is going to be stopped or is being stopped.
ShutdownCoversRow ==
    daemon = "stopping" /\ ~toStop /\ gate.pc # "stop" =>
        ~(Exists /\ residentMode /\ row.pid # None)

\* What can happen to the row while the daemon is stopping: it is left alone,
\* or it no longer claims a process, or it is going to be stopped.
LEMMA CoveredByStep ==
    ASSUME ShutdownCoversRow,
           \/ daemon' # "stopping"
           \/ row'.pid = None
           \/ gate'.pc = "stop"
           \/ /\ UNCHANGED <<row, svcMode, toStop, daemon>>
              /\ gate.pc = "stop" => gate'.pc = "stop"
    PROVE  ShutdownCoversRow'
    BY DEF ShutdownCoversRow, Exists, residentMode, Mode, EffectiveRuntimeMode

\* A start that fails while the daemon is stopping leaves the row as given.
LEMMA StoppingFailStart ==
    ASSUME NEW r, failStart(r), daemon = "stopping"
    PROVE  row' = r
    BY DEF failStart, Cancelled

\* An operation caught by the shutdown leaves no claim behind.
LEMMA OperationCovers ==
    ASSUME TypeOK, Owned, ShutdownCoversRow, OperationStep
    PROVE  ShutdownCoversRow'
<1> SUFFICES ASSUME daemon = "stopping", daemon' = "stopping" PROVE ShutdownCoversRow'
  BY CoveredByStep, OperationRuns DEF Owned
<1>0. /\ Cancelled /\ StartCtxDone /\ gate \in Gate /\ row \in Row
  BY DEF Cancelled, StartCtxDone, TypeOK
<1> DEFINE Kept == UNCHANGED <<row, svcMode, toStop, daemon>> /\ gate.pc # "stop"
           NoPid == row'.pid = None
<1>1. Kept \/ NoPid => ShutdownCoversRow'
  BY CoveredByStep
<1>p. (\A on : StoppedRow(on).pid = None) /\ (\A m : OnDemandRow(m).pid = None)
  BY <1>0 DEF StoppedRow, OnDemandRow, Row
<1> HIDE DEF Kept, NoPid
<1>2. CASE StopDone
  <2>1. \/ row' = StoppedRow(gate.enabled) \/ row' = OnDemandRow(gate.mode)
        \/ row' = [StoppedRow(FALSE) EXCEPT !.status = "absent", !.mode = "inherit"]
    BY <1>2 DEF StopDone
  <2>2. [StoppedRow(FALSE) EXCEPT !.status = "absent", !.mode = "inherit"].pid = None
    <3> DEFINE r == StoppedRow(FALSE)
    <3>1. r \in Row /\ r.pid = None
      BY <1>0, <1>p, RowTypes DEF Overrides
    <3> HIDE DEF r
    <3>2. [r EXCEPT !.status = "absent", !.mode = "inherit"].pid = None
      BY <3>1 DEF Row
    <3> QED BY <3>2 DEF r
  <2>3. CASE row' = [StoppedRow(FALSE) EXCEPT !.status = "absent", !.mode = "inherit"]
    <3>1. row'.pid = None
      BY ONLY <2>2, <2>3
    <3> QED BY <1>1, <3>1 DEF NoPid
  <2>4. CASE row' = StoppedRow(gate.enabled) \/ row' = OnDemandRow(gate.mode)
    BY <1>1, <1>p, <2>4 DEF NoPid
  <2> QED BY <2>1, <2>3, <2>4
<1>3. CASE StopFail
  <2>1. row' = StoppedRow(gate.enabled) \/ row' = OnDemandRow(gate.mode)
    BY <1>3 DEF StopFail
  <2> QED BY <1>1, <1>p, <2>1 DEF NoPid
<1>4. ASSUME NEW p \in Proc, StartBegin(p) PROVE FALSE
  BY <1>0, <1>4 DEF StartBegin
<1>5. CASE StartEarlyFail
  <2>1. row' = row
    BY <1>5, StoppingFailStart DEF StartEarlyFail
  <2> QED BY <1>1, <1>5, <2>1 DEF StartEarlyFail, Kept, lifeVars
<1>6. CASE Spawn
  BY <1>1, <1>6 DEF Spawn, Kept, lifeVars
<1>7. CASE SpawnFail
  <2>1. row' = row
    BY <1>0, <1>7, StoppingFailStart DEF SpawnFail
  <2> QED BY <1>1, <1>7, <2>1 DEF SpawnFail, Kept, lifeVars
<1>8. ~Register /\ ~RegisterReplaced /\ ~Healthy
  BY <1>0 DEF Register, RegisterReplaced, Healthy
<1>9. CASE RegisterFail
  <2>1. failStart(row) \/ failStart(StoppedRow(TRUE))
    BY <1>9 DEF RegisterFail
  <2>2. row' = row \/ row' = StoppedRow(TRUE)
    BY <2>1, StoppingFailStart
  <2> QED BY <1>1, <1>9, <1>p, <2>2 DEF RegisterFail, Kept, NoPid, lifeVars
<1>10. CASE HealthFail
  <2>1. failStart(StoppedRow(TRUE))
    BY <1>0, <1>10 DEF HealthFail
  <2>2. row' = StoppedRow(TRUE)
    BY <2>1, StoppingFailStart
  <2> QED BY <1>1, <1>p, <2>2 DEF NoPid
<1>11. CASE RollBack
  <2>1. CASE TakesGateToStop(gate.op)
    BY <2>1, CoveredByStep DEF TakesGateToStop
  <2>2. CASE row' \in {row, OnDemandRow(gate.mode)}
    BY <1>1, <1>11, <1>p, <2>2 DEF RollBack, Kept, NoPid, lifeVars
  <2> QED BY <1>11, <2>1, <2>2, StopProcessTakes DEF RollBack
<1> QED BY <1>2, <1>3, <1>4, <1>5, <1>6, <1>7, <1>8, <1>9, <1>10, <1>11
        DEF OperationStep

\* The inductive step of ShutdownCoversRow.
LEMMA NextCovers ==
    ASSUME TypeOK, Owned, ShutdownCoversRow, [Next]_vars
    PROVE  ShutdownCoversRow'
<1> DEFINE Calm == UNCHANGED <<row, svcMode, toStop, daemon>> /\ gate'.pc = gate.pc
           Away == daemon' # "stopping"
<1>0. Calm \/ Away => ShutdownCoversRow'
  BY CoveredByStep
<1> HIDE DEF Calm, Away
<1>e. Entry => ShutdownCoversRow'
  BY <1>0 DEF Entry, Away
<1>1. CASE OperationStep
  BY <1>1, OperationCovers
<1>2. CASE Operator
  BY <1>2, <1>e, OperatorEntry
<1>3. CASE Import
  <2>1. ASSUME NEW m \in Modes, ImportService(m) PROVE Away
    BY <2>1 DEF ImportService, lifeVars, Away
  <2>2. restartEnabledServiceInstances => Away
    BY DEF restartEnabledServiceInstances, lifeVars, Away
  <2>3. ReloadAbandoned => Calm
    BY DEF ReloadAbandoned, lifeVars, Calm
  <2>4. ImportRestart \/ RestartIfWarm \/ ApplyServiceRuntimeMode => Away
    BY DEF ImportRestart, RestartIfWarm, ApplyServiceRuntimeMode, Enter, lifeVars, Away
  <2> QED BY <1>0, <1>3, <2>1, <2>2, <2>3, <2>4 DEF Import
<1>4. CASE Requests
  <2>1. ASSUME NEW r \in Req, EnsureStarted(r) PROVE Away
    BY <2>1 DEF EnsureStarted, Enter, lifeVars, Away
  <2>2. ASSUME NEW r \in Req, releaseRef(r) PROVE Calm
    BY <2>2 DEF releaseRef, lifeVars, Calm
  <2> QED BY <1>0, <1>4, <2>1, <2>2 DEF Requests
<1>5. CASE Background
  <2>1. ASSUME NEW p \in Proc, Wait(p) PROVE ShutdownCoversRow'
    <3>1. CASE daemon = "stopping"
      <4>1. ~OwnsExit(p)
        BY <3>1 DEF OwnsExit, Cancelled
      <4> QED BY <1>0, <2>1, <4>1 DEF Wait, lifeVars, Calm
    <3>2. CASE daemon # "stopping"
      BY <1>0, <2>1, <3>2 DEF Wait, lifeVars, Away
    <3> QED BY <3>1, <3>2
  <2>2. restartAfterBackoff \/ parkIfStillIdle \/ scanScaleToZero => Away
    BY DEF restartAfterBackoff, parkIfStillIdle, scanScaleToZero, Enter, lifeVars, Away
  <2>3. TouchInstance => Calm
    BY DEF TouchInstance, lifeVars, Calm
  <2> QED BY <1>0, <1>5, <2>1, <2>2, <2>3 DEF Background
<1>6. CASE Reconcile
  <2>1. ASSUME NEW p \in Proc, ReconcileOrphan(p) PROVE Away
    BY <2>1 DEF ReconcileOrphan, lifeVars, Away
  <2> QED BY <1>0, <1>6, <1>e, <2>1, ReconcileEntry DEF Reconcile
<1>7. CASE Lifecycle
  <2>1. BeginShutdown \/ Boot \/ BootDone => Away
    BY DEF BeginShutdown, Boot, BootDone, Away
  <2>2. ShutdownDone \/ Crash => Away
    BY DEF ShutdownDone, Crash, forget, Away
  <2>3. CASE ShutdownList
    BY <2>3 DEF ShutdownList, ShutdownCoversRow, shouldStopOnShutdown, Exists, residentMode,
                Mode, EffectiveRuntimeMode
  <2>4. CASE ShutdownStop
    <3>1. CASE Exists /\ residentMode
      BY <2>4, <3>1, StopProcessTakes, CoveredByStep DEF ShutdownStop, TakesGateToStop
    <3>2. CASE ~(Exists /\ residentMode)
      BY <2>4, <3>2 DEF ShutdownStop, ShutdownCoversRow, Exists, residentMode, Mode,
                        EffectiveRuntimeMode
    <3> QED BY <3>1, <3>2
  <2> QED BY <1>0, <1>7, <2>1, <2>2, <2>3, <2>4 DEF Lifecycle
<1>8. CASE CallerGone
  <2>1. gate'.pc = gate.pc
    BY <1>8 DEF CallerGone, TypeOK, Gate
  <2> QED BY <1>0, <1>8, <2>1 DEF CallerGone, lifeVars, Calm
<1>9. ASSUME NEW p \in Proc, ProcExit(p) PROVE ShutdownCoversRow'
  BY <1>0, <1>9 DEF ProcExit, lifeVars, Calm
<1>10. CASE UNCHANGED vars
  BY <1>0, <1>10 DEF vars, lifeVars, Calm
<1> QED BY <1>1, <1>2, <1>3, <1>4, <1>5, <1>6, <1>7, <1>8, <1>9, <1>10 DEF Next

\* When the drain ends nobody holds the gate and no exit watcher is left, so
\* nobody holds a process, and every resident row has been through a stop.
LEMMA DrainIsClean ==
    ASSUME TypeOK, Owned, ShutdownCoversRow, ShutdownDone
    PROVE  alive \subseteq leaked /\ (Exists /\ residentMode => row.pid = None)
<1>1. gate.pc = "free" /\ waiters = {} /\ daemon = "stopping" /\ ~toStop
  BY DEF ShutdownDone, GateFree
<1>2. gate.proc = None /\ tracked = None /\ None \notin alive
  BY <1>1, NoneAssumption DEF Owned, OperationOwnsProcess, TypeOK
<1>3. alive \subseteq leaked
  BY <1>2 DEF Owned, NoStrayProcess
<1> QED BY <1>1, <1>3 DEF ShutdownCoversRow

\* A shutdown that drains leaves no process but those a stop gave up on, and no
\* resident row that claims one.
THEOREM ShutdownIsClean == Spec => CleanShutdown
<1> DEFINE Inv == TypeOK /\ Owned /\ ShutdownCoversRow
<1>1. Init => Inv
  BY InitOwned DEF Init, ShutdownCoversRow
<1>2. Inv /\ [Next]_vars => Inv'
  BY NextOwned, NextCovers
<1>3. Inv /\ ShutdownDone =>
         alive \subseteq leaked /\ (Exists /\ residentMode => row.pid = None)
  BY DrainIsClean
<1> HIDE DEF Inv
<1> QED BY <1>1, <1>2, <1>3, PTL DEF Spec, CleanShutdown

=============================================================================
