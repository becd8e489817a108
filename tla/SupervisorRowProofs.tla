------------------------ MODULE SupervisorRowProofs ------------------------
(***************************************************************************)
(* What the row of an instance may say, who may change its mind, and what  *)
(* its callers see of it: proofs about Supervisor that rest on the         *)
(* ownership of processes.  All but one suppose that no import changes the *)
(* mode of the service between two operations: then a mode and a process   *)
(* always go together.                                                     *)
(***************************************************************************)
EXTENDS SupervisorProofs, SupervisorHistory

NoImport == "import" \notin Faults

\* The operations by which the operator may enable an instance.
Enablers == {"Start", "SetRuntimeMode", "Create"}

\* A live tracked process is the one the row describes, in a resident mode, and
\* only its own start, at its health check, holds the gate beside it.
TrackedServes ==
    liveProcess =>
        /\ gate.pc \in {"free", "health"} /\ Mode # OD
        /\ row.enabled /\ row.status = "running" /\ row.pid = tracked /\ row.addr = tracked

\* A start has written the row of the process it holds.
StartDescribes ==
    /\ gate.pc \in {"spawn", "register"} => Mode # OD /\ row.enabled /\ row.addr = gate.proc
    /\ gate.pc = "health" =>
          /\ Mode # OD /\ row.enabled /\ row.status = "running"
          /\ row.pid = gate.proc /\ row.addr = gate.proc

\* A stop leaves a row enabled only if it was, or if the operator asked for it,
\* or if it parks, which does not look at it.
StopIntended ==
    gate.pc = "stop" =>
        /\ tracked = None
        /\ ~gate.enabled => Exists /\ Mode # OD
        /\ gate.then \in {"start", "onDemand"} => gate.enabled
        /\ gate.enabled => \/ row.enabled \/ gate.op \in Enablers
                           \/ gate.op = "Park"

\* Nothing but the operator starts a disabled instance.
StartIntended ==
    gate.pc \in {"start", "rollback"} => row.enabled \/ gate.op \in Enablers

\* A disabled instance is in a resident mode.
DisabledRests == Exists /\ ~row.enabled => Mode # OD

\* No reload is under way, and a dead daemon tracks nothing.
NoReload == reload = "none" /\ (daemon = "down" => tracked = None)

\* The invariant behind SingleProcess, RowDescribesTracked and StopWins.
Tended == /\ TrackedServes /\ StartDescribes /\ StopIntended /\ StartIntended
          /\ DisabledRests /\ NoReload

-----------------------------------------------------------------------------
(* What the building blocks leave in the row and at the gate                *)

\* The fields of a stopped row.
LEMMA StoppedFields ==
    ASSUME TypeOK, NEW on \in BOOLEAN
    PROVE  /\ StoppedRow(on).enabled = on /\ StoppedRow(on).status = "stopped"
           /\ StoppedRow(on).pid = None /\ StoppedRow(on).addr = None
           /\ StoppedRow(on).mode = row.mode
    BY DEF TypeOK, Row, StoppedRow

\* The fields of an on-demand row.
LEMMA OnDemandFields ==
    ASSUME TypeOK, NEW m \in Overrides
    PROVE  OnDemandRow(m).enabled /\ OnDemandRow(m).status = "running"
    BY DEF TypeOK, Row, OnDemandRow

\* A new override changes nothing else in the row.
LEMMA OverrideFields ==
    ASSUME NEW r \in Row, NEW m \in Overrides
    PROVE  LET s == [r EXCEPT !.mode = m]
           IN  /\ s.enabled = r.enabled /\ s.status = r.status /\ s.pid = r.pid
               /\ s.addr = r.addr /\ s.mode = m
    BY DEF Row

\* What a stop at the gate remembers.
LEMMA StopEffect ==
    ASSUME NEW op, NEW on, NEW next, NEW m, stopProcess(op, on, next, m)
    PROVE  /\ gate'.pc = "stop" /\ gate'.op = op /\ gate'.enabled = on
           /\ gate'.then = next /\ gate'.proc = tracked /\ tracked' = None
    BY DEF stopProcess, FreeGate

\* What a start at the gate remembers.
LEMMA StartEffect ==
    ASSUME NEW op, NEW next, NEW m, NEW r, startLocked(op, next, m, r)
    PROVE  gate'.pc = "start" /\ gate'.op = op
    BY DEF startLocked, FreeGate

-----------------------------------------------------------------------------
(* How an operation may leave the gate and the row it found                 *)

Stops ==
    /\ gate'.pc = "stop" /\ tracked' = None
    /\ ~gate'.enabled => (Exists /\ Mode # OD)'
    /\ gate'.then \in {"start", "onDemand"} => gate'.enabled
    /\ gate'.enabled => \/ row'.enabled \/ gate'.op \in Enablers
                        \/ gate'.op = "Park"
    /\ DisabledRests'

Starts ==
    /\ gate'.pc \in {"start", "rollback"} /\ ~liveProcess'
    /\ row'.enabled \/ gate'.op \in Enablers
    /\ DisabledRests'

Rests == gate'.pc = "free" /\ TrackedServes' /\ DisabledRests'

\* The three ways an operation goes on.
LEMMA OutcomeTended ==
    ASSUME Stops \/ Starts \/ Rests, NoReload', None \notin alive'
    PROVE  Tended'
<1> USE DEF Tended, StartDescribes, StopIntended, StartIntended
<1>1. CASE Stops
  BY <1>1 DEF Stops, TrackedServes, liveProcess
<1>2. CASE Starts
  BY <1>2 DEF Starts, TrackedServes
<1>3. CASE Rests
  BY <1>3 DEF Rests
<1> QED BY <1>1, <1>2, <1>3

-----------------------------------------------------------------------------
(* The operator's calls                                                     *)

\* What an operation that finds the gate free may rely on.
LEMMA Found ==
    ASSUME TypeOK, Tended, Enter
    PROVE  /\ gate = FreeGate /\ gate.pc = "free" /\ daemon = "up" /\ reload = "none"
           /\ row \in Row /\ None \notin alive
           /\ liveProcess => /\ Mode # OD /\ row.enabled /\ row.status = "running"
                             /\ row.pid = tracked /\ row.addr = tracked
           /\ Exists /\ ~row.enabled => Mode # OD
    BY NoneAssumption DEF TypeOK, Tended, Enter, GateFree, TrackedServes, DisabledRests, NoReload

\* A stop that goes on with a start, of a row that keeps its process.
LEMMA StopThenStarts ==
    ASSUME TypeOK, NEW op \in Ops, stopThenStart(op), row' \in Row,
           row'.enabled = row.enabled, Exists', Mode' # OD
    PROVE  Stops
<1>1. /\ gate'.pc = "stop" /\ gate'.enabled = row.enabled /\ tracked' = None
      /\ gate'.then = IF row.enabled THEN "start" ELSE "done"
  BY StopEffect DEF stopThenStart
<1> QED BY <1>1, FieldTypes DEF Stops, DisabledRests

\* A reload stops and starts what runs, and lands cold what does not.
LEMMA RestartsOrLands ==
    ASSUME TypeOK, Tended, Enter, Exists, NEW op \in Ops, NEW m \in Overrides,
           NEW flag \in BOOLEAN, restartLocked(op, m, flag),
           EffectiveRuntimeMode(m) # OD, svcMode' = svcMode, alive' = alive
    PROVE  Stops \/ Rests
<1>0. /\ gate = FreeGate /\ gate.pc = "free" /\ row \in Row
  BY Found
<1>1. CASE ~liveProcess /\ EffectiveRuntimeMode(m) = STZ
  <2>1. PICK r \in {row, StoppedRow(row.enabled)} : row' = [r EXCEPT !.mode = m]
    BY <1>1 DEF restartLocked
  <2>2. row'.mode = m
    BY <1>0, <2>1, RowTypes, FieldTypes, OverrideFields
  <2>3. Mode' # OD
    BY <2>2 DEF Mode, EffectiveRuntimeMode
  <2>4. UNCHANGED <<gate, tracked>>
    BY <1>1 DEF restartLocked
  <2>5. ~liveProcess'
    BY <1>1, <2>4 DEF liveProcess
  <2> QED BY <1>0, <2>3, <2>4, <2>5 DEF Rests, TrackedServes, DisabledRests
<1>2. CASE ~(~liveProcess /\ EffectiveRuntimeMode(m) = STZ)
  <2>1. stopThenStart(op) /\ row' = [row EXCEPT !.mode = m]
    BY <1>2 DEF restartLocked
  <2>2. row' \in Row /\ row'.enabled = row.enabled /\ row'.status = row.status /\ row'.mode = m
    BY <1>0, <2>1, RowTypes, OverrideFields, FieldTypes
  <2>3. Exists' /\ Mode' # OD
    BY <2>2 DEF Exists, Mode, EffectiveRuntimeMode
  <2> QED BY <2>1, <2>2, <2>3, StopThenStarts
<1> QED BY <1>1, <1>2

\* Start, stop, restart, the configuration and the deletion of an instance.
LEMMA SimpleCalls ==
    ASSUME TypeOK, Tended, Start \/ Stop \/ Restart \/ UpdateConfig \/ Delete
    PROVE  Stops \/ Starts \/ Rests
<1>0. /\ Enter /\ Exists /\ UNCHANGED <<svcMode, alive>>
  BY DEF Start, Stop, Restart, UpdateConfig, Delete, osVars
<1>f. /\ gate = FreeGate /\ gate.pc = "free" /\ row \in Row
      /\ liveProcess => Mode # OD
      /\ ~row.enabled => Mode # OD
  BY <1>0, Found
<1>s. row' = row => Exists' /\ Mode' = Mode
  BY <1>0 DEF Exists, Mode, EffectiveRuntimeMode
<1>1. CASE Start
  <2>1. gate'.pc = "start" /\ gate'.op = "Start" /\ row' = row /\ ~liveProcess'
    BY <1>1, <1>0, StartEffect DEF Start, liveProcess
  <2> QED BY <1>f, <1>s, <2>1 DEF Starts, Enablers, DisabledRests
<1>2. CASE Stop
  <2>1. /\ gate'.pc = "stop" /\ gate'.enabled = FALSE /\ gate'.then = "done"
        /\ tracked' = None /\ row' = row /\ Mode # OD
    BY <1>2, StopEffect DEF Stop
  <2> QED BY <1>s, <2>1 DEF Stops, DisabledRests
<1>3. CASE Restart
  <2>1. stopThenStart("Restart") /\ row' = row /\ Mode # OD
    BY <1>3 DEF Restart
  <2> QED BY <1>f, <1>s, <2>1, StopThenStarts DEF Ops, ClientOps
<1>4. CASE UpdateConfig
  <2>1. restartLocked("UpdateConfig", row.mode, stz) /\ EffectiveRuntimeMode(row.mode) # OD
    BY <1>4 DEF UpdateConfig, Mode
  <2>2. stz \in BOOLEAN /\ row.mode \in Overrides
    BY FieldTypes DEF TypeOK
  <2> QED BY <1>0, <2>1, <2>2, RestartsOrLands DEF Ops, ClientOps
<1>5. CASE Delete
  <2>1. CASE Mode = OD /\ ~liveProcess
    <3>1. /\ row' = [StoppedRow(FALSE) EXCEPT !.status = "absent", !.mode = "inherit"]
          /\ UNCHANGED <<gate, tracked>>
      BY <1>5, <2>1 DEF Delete
    <3>2. row'.status = "absent"
      BY <1>f, <3>1 DEF StoppedRow, Row
    <3> QED BY <1>0, <1>f, <2>1, <3>1, <3>2
        DEF Rests, TrackedServes, DisabledRests, liveProcess, Exists
  <2>2. CASE ~(Mode = OD /\ ~liveProcess)
    <3>1. /\ gate'.pc = "stop" /\ gate'.enabled = FALSE /\ gate'.then = "delete"
          /\ tracked' = None /\ row' = row
      BY <1>5, <2>2, StopEffect DEF Delete
    <3> QED BY <1>f, <1>s, <2>2, <3>1 DEF Stops, DisabledRests
  <2> QED BY <2>1, <2>2
<1> QED BY <1>1, <1>2, <1>3, <1>4, <1>5

\* A new instance, and a sync that finds nothing to change.
LEMMA CreateCalls ==
    ASSUME TypeOK, Tended,
           SyncUnchanged \/ \E m \in Overrides, s \in BOOLEAN : Create(m, s)
    PROVE  Starts \/ Rests
<1>0. /\ Enter /\ UNCHANGED <<svcMode, alive, tracked>>
  BY DEF SyncUnchanged, Create, osVars
<1>f. /\ gate = FreeGate /\ gate.pc = "free" /\ row \in Row
      /\ liveProcess => /\ Mode # OD /\ row.enabled /\ row.status = "running"
                        /\ row.pid = tracked /\ row.addr = tracked
      /\ Exists /\ ~row.enabled => Mode # OD
  BY <1>0, Found
<1>s. row' = row => Exists' = Exists /\ Mode' = Mode
  BY <1>0 DEF Exists, Mode, EffectiveRuntimeMode
<1>1. ASSUME NEW m \in Overrides, NEW s \in BOOLEAN, Create(m, s) PROVE Starts \/ Rests
  <2>0. ~liveProcess /\ ~liveProcess'
    BY <1>0, <1>1, <1>f DEF Create, Exists, liveProcess
  <2>1. /\ row'.enabled = ((s /\ EffectiveRuntimeMode(m) = LR) \/ EffectiveRuntimeMode(m) # LR)
        /\ row'.mode = m
    BY <1>1 DEF Create
  <2>2. DisabledRests'
    BY <1>0, <2>1 DEF DisabledRests, Mode, EffectiveRuntimeMode, LR, OD
  <2>3. CASE s /\ EffectiveRuntimeMode(m) = LR
    <3>1. gate'.pc = "start" /\ gate'.op = "Create"
      BY <1>1, <2>3, StartEffect DEF Create
    <3> QED BY <2>0, <2>2, <3>1 DEF Starts, Enablers
  <2>4. CASE ~(s /\ EffectiveRuntimeMode(m) = LR)
    <3>1. gate' = gate
      BY <1>1, <2>4 DEF Create
    <3> QED BY <1>f, <2>0, <2>2, <3>1 DEF Rests, TrackedServes
  <2> QED BY <2>3, <2>4
<1>2. CASE SyncUnchanged
  <2>0. Exists
    BY <1>2 DEF SyncUnchanged
  <2>1. CASE Mode = LR /\ row.enabled /\ row.status = "failed" /\ ~liveProcess
    <3>1. gate'.pc = "start" /\ gate'.op = "Create" /\ row' = row
      BY <1>2, <2>1, StartEffect DEF SyncUnchanged
    <3> QED BY <1>0, <1>s, <2>1, <3>1 DEF Starts, DisabledRests, liveProcess
  <2>2. CASE ~(Mode = LR /\ row.enabled /\ row.status = "failed" /\ ~liveProcess)
    <3>1. gate' = gate
      BY <1>2, <2>2 DEF SyncUnchanged
    <3>2. \/ Mode = OD /\ row' = OnDemandRow(row.mode)
          \/ ~liveProcess /\ row' = StoppedRow(TRUE)
          \/ row' = row
      BY <1>2, <2>2 DEF SyncUnchanged
    <3>3. CASE row' = row
      BY <1>0, <1>f, <1>s, <2>0, <3>1, <3>3 DEF Rests, TrackedServes, DisabledRests, liveProcess
    <3>4. CASE ~liveProcess /\ (row' = OnDemandRow(row.mode) \/ row' = StoppedRow(TRUE))
      <4>1. row'.enabled
        BY <3>4, FieldTypes, StoppedFields, OnDemandFields
      <4> QED BY <1>0, <1>f, <3>1, <3>4, <4>1 DEF Rests, TrackedServes, DisabledRests, liveProcess
    <3> QED BY <1>f, <3>2, <3>3, <3>4
  <2> QED BY <2>1, <2>2
<1> QED BY <1>1, <1>2

\* The row with a new override, as the mode switches write it.
LEMMA Overridden ==
    ASSUME TypeOK, NEW m \in Overrides, svcMode' = svcMode, Exists,
           row' = [row EXCEPT !.mode = m]
    PROVE  /\ row'.enabled = row.enabled /\ row'.status = row.status
           /\ row'.pid = row.pid /\ row'.addr = row.addr
           /\ Mode' = EffectiveRuntimeMode(m) /\ Exists'
    BY OverrideFields DEF TypeOK, Mode, EffectiveRuntimeMode, Exists

\* A stop on the way to on-demand: the row is enabled by then.
LEMMA StopsForOnDemand ==
    ASSUME TypeOK, Tended, Enter, Exists, NEW op \in Enablers, NEW m \in Overrides,
           stopProcess(op, TRUE, "onDemand", m), svcMode' = svcMode,
           row' = IF Mode = OD THEN [row EXCEPT !.mode = m] ELSE row
    PROVE  Stops
<1>1. /\ gate'.pc = "stop" /\ gate'.enabled = TRUE /\ gate'.op = op /\ tracked' = None
  BY StopEffect
<1>2. Exists /\ ~row.enabled => Mode # OD
  BY Found
<1>3. row'.enabled = row.enabled
  BY Overridden
<1>4. DisabledRests'
  BY <1>2, <1>3 DEF DisabledRests, Mode, EffectiveRuntimeMode
<1> QED BY <1>1, <1>4 DEF Stops

\* A row landed in on-demand, with no live process.
LEMMA RestsOnDemand ==
    ASSUME TypeOK, GateFree, ~liveProcess, NEW m \in Overrides, row' = OnDemandRow(m),
           UNCHANGED <<gate, tracked, alive>>
    PROVE  Rests
    BY OnDemandFields DEF Rests, TrackedServes, DisabledRests, liveProcess, GateFree

\* A switch between resident modes: a process is kept with its row, and one that
\* is wanted is started.
LEMMA ResidentSwitch ==
    ASSUME TypeOK, Tended, Enter, Exists, NEW m \in Overrides, NEW op \in Enablers, NEW next,
           NEW n, row' = [row EXCEPT !.mode = m], EffectiveRuntimeMode(m) # OD,
           UNCHANGED <<svcMode, tracked, alive>>,
           \/ gate' = gate
           \/ startLocked(op, next, n, None) /\ ~liveProcess
    PROVE  Starts \/ Rests
<1>1. /\ gate.pc = "free"
      /\ liveProcess => /\ row.enabled /\ row.status = "running"
                        /\ row.pid = tracked /\ row.addr = tracked
  BY Found
<1>2. /\ row'.enabled = row.enabled /\ row'.status = row.status
      /\ row'.pid = row.pid /\ row'.addr = row.addr /\ Mode' # OD
  BY Overridden DEF EffectiveRuntimeMode
<1>3. CASE gate' = gate
  BY <1>1, <1>2, <1>3 DEF Rests, TrackedServes, DisabledRests, liveProcess
<1>4. CASE startLocked(op, next, n, None) /\ ~liveProcess
  <2>1. gate'.pc = "start" /\ gate'.op = op
    BY <1>4, StartEffect
  <2> QED BY <1>2, <1>4, <2>1 DEF Starts, DisabledRests, liveProcess
<1> QED BY <1>3, <1>4

\* A mode switch, by the modes before and after.
LEMMA SwitchCalls ==
    ASSUME TypeOK, Tended, NEW m \in Overrides, SetRuntimeMode(m)
    PROVE  Stops \/ Starts \/ Rests
<1>0. /\ Enter /\ Exists /\ UNCHANGED <<svcMode, alive>>
  BY DEF SetRuntimeMode, SetModeSameResident, SetModeOnDemand,
         SetModeOnDemandToLongRunning, SetModeToScaleToZero, SetModeToLongRunning,
         SetModeOnDemandToScaleToZero, setMode, osVars
<1>f. /\ gate.pc = "free" /\ row \in Row /\ (liveProcess => Mode # OD) /\ GateFree
  BY <1>0, Found DEF Enter
<1> USE DEF Enablers
<1>1. CASE SetModeSameResident(m)
  <2>1. /\ row' = [row EXCEPT !.mode = m] /\ EffectiveRuntimeMode(m) # OD
        /\ tracked' = tracked
        /\ \/ gate' = gate
           \/ startLocked("SetRuntimeMode", "done", m, None) /\ ~liveProcess
    BY <1>1 DEF SetModeSameResident, setMode, LR, STZ, OD
  <2> QED BY <1>0, <2>1, ResidentSwitch
<1>2. CASE SetModeOnDemand(m)
  <2>1. CASE Mode # OD \/ row.pid # None \/ liveProcess
    <3>1. /\ stopProcess("SetRuntimeMode", TRUE, "onDemand", m)
          /\ row' = IF Mode = OD THEN [row EXCEPT !.mode = m] ELSE row
      BY <1>2, <2>1 DEF SetModeOnDemand
    <3> QED BY <1>0, <3>1, StopsForOnDemand
  <2>2. CASE ~(Mode # OD \/ row.pid # None \/ liveProcess)
    <3>1. row' = OnDemandRow(m) /\ UNCHANGED <<gate, tracked>> /\ ~liveProcess
      BY <1>2, <2>2 DEF SetModeOnDemand
    <3> QED BY <1>0, <1>f, <3>1, RestsOnDemand
  <2> QED BY <2>1, <2>2
<1>3. CASE SetModeOnDemandToLongRunning(m)
  <2>1. /\ row' = [row EXCEPT !.mode = m] /\ EffectiveRuntimeMode(m) # OD
        /\ tracked' = tracked /\ Mode = OD
        /\ \/ gate' = gate
           \/ startLocked("SetRuntimeMode", "rollback", row.mode, None)
    BY <1>3 DEF SetModeOnDemandToLongRunning, setMode, LR, OD
  <2> QED BY <1>0, <1>f, <2>1, ResidentSwitch
<1>4. CASE SetModeToScaleToZero(m)
  <2>1. /\ row' = [row EXCEPT !.mode = m] /\ EffectiveRuntimeMode(m) # OD
        /\ tracked' = tracked /\ gate' = gate
    BY <1>4 DEF SetModeToScaleToZero, setMode, STZ, OD
  <2> QED BY <1>0, <2>1, ResidentSwitch
<1>5. CASE SetModeToLongRunning(m)
  <2>1. /\ row' = [row EXCEPT !.mode = m] /\ EffectiveRuntimeMode(m) # OD
        /\ tracked' = tracked
        /\ \/ gate' = gate
           \/ startLocked("SetRuntimeMode", "done", m, None) /\ ~liveProcess
    BY <1>5 DEF SetModeToLongRunning, setMode, LR, OD
  <2> QED BY <1>0, <2>1, ResidentSwitch
<1>6. CASE SetModeOnDemandToScaleToZero(m)
  <2>1. /\ row' = [StoppedRow(TRUE) EXCEPT !.mode = m] /\ UNCHANGED <<gate, tracked>>
        /\ Mode = OD
    BY <1>6 DEF SetModeOnDemandToScaleToZero, setMode
  <2>2. row'.enabled
    BY <1>f, <2>1, RowTypes, StoppedFields, OverrideFields
  <2> QED BY <1>0, <1>f, <2>1, <2>2 DEF Rests, TrackedServes, DisabledRests, liveProcess
<1> QED BY <1>1, <1>2, <1>3, <1>4, <1>5, <1>6 DEF SetRuntimeMode

\* A sync, by the modes before and after.
LEMMA SyncCalls ==
    ASSUME TypeOK, Tended, NEW m \in Overrides, Sync(m)
    PROVE  Stops \/ Starts \/ Rests
<1>0. /\ Enter /\ Exists /\ UNCHANGED <<svcMode, alive>>
  BY DEF Sync, SyncOnDemand, SyncFromOnDemand, SyncResident, sync, osVars
<1>f. /\ gate.pc = "free" /\ row \in Row /\ (liveProcess => Mode # OD) /\ GateFree
  BY <1>0, Found DEF Enter
<1> USE DEF Enablers
<1>1. CASE SyncOnDemand(m)
  <2>1. CASE claimsProcess
    <3>1. /\ stopProcess("Create", TRUE, "onDemand", m)
          /\ row' = IF Mode = OD THEN [row EXCEPT !.mode = m] ELSE row
      BY <1>1, <2>1 DEF SyncOnDemand
    <3> QED BY <1>0, <3>1, StopsForOnDemand
  <2>2. CASE ~claimsProcess
    <3>1. row' = OnDemandRow(m) /\ UNCHANGED <<gate, tracked>> /\ ~liveProcess
      BY <1>1, <2>2 DEF SyncOnDemand, claimsProcess
    <3> QED BY <1>0, <1>f, <3>1, RestsOnDemand
  <2> QED BY <2>1, <2>2
<1>2. CASE SyncFromOnDemand(m)
  <2>1. /\ Mode = OD /\ EffectiveRuntimeMode(m) # OD /\ tracked' = tracked
        /\ \/ gate' = gate
           \/ startLocked("Create", "rollback", row.mode, None)
    BY <1>2 DEF SyncFromOnDemand, sync, LR, STZ, OD
  <2>2. PICK r \in {row, StoppedRow(row.enabled)} : row' = [r EXCEPT !.mode = m]
    BY <1>2 DEF SyncFromOnDemand
  <2>3. row'.mode = m
    BY <1>f, <2>2, RowTypes, FieldTypes, OverrideFields
  <2>4. Mode' # OD /\ ~liveProcess'
    BY <1>0, <1>f, <2>1, <2>3 DEF Mode, EffectiveRuntimeMode, liveProcess
  <2>5. CASE gate' = gate
    BY <1>f, <2>4, <2>5 DEF Rests, TrackedServes, DisabledRests
  <2>6. CASE startLocked("Create", "rollback", row.mode, None)
    <3>1. gate'.pc = "start" /\ gate'.op = "Create"
      BY <2>6, StartEffect
    <3> QED BY <2>4, <3>1 DEF Starts, DisabledRests
  <2> QED BY <2>1, <2>5, <2>6
<1>3. ASSUME NEW c \in BOOLEAN, SyncResident(m, c) PROVE Stops \/ Starts \/ Rests
  <2> DEFINE flag  == tracked # None /\ EffectiveRuntimeMode(m) = STZ
             cold  == row.enabled /\ ~claimsProcess
  <2>1. EffectiveRuntimeMode(m) # OD
    BY <1>3 DEF SyncResident, sync, LR, STZ, OD
  <2>2. \/ restartLocked("Create", m, flag)
        \/ /\ row' = [row EXCEPT !.mode = m] /\ tracked' = tracked
           /\ gate' = gate \/ (startLocked("Create", "done", m, None) /\ ~claimsProcess)
        \/ /\ cold /\ row' = [StoppedRow(TRUE) EXCEPT !.mode = m]
           /\ UNCHANGED <<gate, tracked>>
    BY <1>3 DEF SyncResident, LR, STZ
  <2>3. CASE restartLocked("Create", m, flag)
    BY <1>0, <2>1, <2>3, RestartsOrLands DEF Ops, ClientOps
  <2>4. CASE /\ row' = [row EXCEPT !.mode = m] /\ tracked' = tracked
             /\ gate' = gate \/ (startLocked("Create", "done", m, None) /\ ~claimsProcess)
    BY <1>0, <2>1, <2>4, ResidentSwitch DEF claimsProcess
  <2>5. CASE /\ cold /\ row' = [StoppedRow(TRUE) EXCEPT !.mode = m]
             /\ UNCHANGED <<gate, tracked>>
    <3>1. row'.enabled
      BY <1>f, <2>5, RowTypes, StoppedFields, OverrideFields
    <3> QED BY <1>0, <1>f, <2>5, <3>1
            DEF Rests, TrackedServes, DisabledRests, liveProcess, claimsProcess
  <2> QED BY <2>2, <2>3, <2>4, <2>5
<1> QED BY <1>1, <1>2, <1>3 DEF Sync

-----------------------------------------------------------------------------
(* The steps of an operation                                                *)

\* A start that fails leaves no live process, and enables only for the operator
\* or what was enabled.
LEMMA FailStartIntended ==
    ASSUME TypeOK, NEW r \in Row, failStart(r), ~liveProcess', svcMode' = svcMode,
           r.enabled \/ gate.op \in Enablers,
           r.status # "absent" /\ ~r.enabled => EffectiveRuntimeMode(r.mode) # OD
    PROVE  Starts \/ Rests
<1>1. CASE gate.op = "Backoff" /\ ~Cancelled
  <2>1. row'.enabled /\ gate' = FreeGate
    BY <1>1 DEF failStart, Row, Release
  <2> QED BY <2>1 DEF Rests, TrackedServes, DisabledRests, FreeGate
<1>2. CASE ~(gate.op = "Backoff" /\ ~Cancelled)
  <2>1. row' = r
    BY <1>2 DEF failStart
  <2>2. DisabledRests'
    BY <2>1 DEF DisabledRests, Exists, Mode, EffectiveRuntimeMode
  <2>3. \/ gate'.pc = "rollback" /\ gate'.op = gate.op
        \/ gate'.pc = "free"
    <3>1. \/ gate' = [gate EXCEPT !.pc = "rollback", !.proc = None]
          \/ gate' = FreeGate
      BY <1>2 DEF failStart
    <3>2. gate \in Gate
      BY DEF TypeOK
    <3>3. CASE gate' = [gate EXCEPT !.pc = "rollback", !.proc = None]
      BY <3>2, <3>3 DEF Gate
    <3>4. CASE gate' = FreeGate
      BY <3>4 DEF FreeGate
    <3> QED BY <3>1, <3>3, <3>4
  <2> QED BY <2>1, <2>2, <2>3 DEF Starts, Rests, TrackedServes
<1> QED BY <1>1, <1>2

\* What a start under way may rely on.
LEMMA UnderWay ==
    ASSUME TypeOK, Owned, Tended, gate.pc \in {"start", "spawn", "register", "health"}
    PROVE  /\ row.enabled \/ gate.op \in Enablers
           /\ row.status # "absent" /\ ~row.enabled => EffectiveRuntimeMode(row.mode) # OD
           /\ gate.pc # "health" => ~liveProcess
           /\ gate.pc = "health" => gate.proc = tracked
           /\ gate.pc \in {"spawn", "register"} => gate.proc # tracked
           /\ gate.pc # "start" => Mode # OD /\ row.enabled
           /\ row \in Row /\ gate \in Gate /\ None \notin alive
    BY NoneAssumption
    DEF Tended, TrackedServes, StartDescribes, StartIntended, DisabledRests, Owned, TypeOK,
        OperationOwnsProcess, Mode, Exists

\* A stop that is over.
LEMMA StopsIntended ==
    ASSUME TypeOK, Tended, StopDone \/ StopFail
    PROVE  Starts \/ Rests
<1>0. /\ gate.pc = "stop" /\ row \in Row /\ gate \in Gate /\ None \notin alive
      /\ UNCHANGED <<svcMode, tracked, alive>>
  BY NoneAssumption DEF StopDone, StopFail, TypeOK, procVars, osVars
<1>1. /\ tracked = None
      /\ ~gate.enabled => Exists /\ Mode # OD
      /\ gate.then \in {"start", "onDemand"} => gate.enabled
  BY <1>0 DEF Tended, StopIntended
<1>2. ~liveProcess'
  BY <1>0, <1>1 DEF liveProcess
<1>t. gate.enabled \in BOOLEAN /\ gate.mode \in Overrides
  BY FieldTypes
<1>3. ASSUME row' \in {StoppedRow(gate.enabled), OnDemandRow(gate.mode)} PROVE DisabledRests'
  <2>1. CASE row' = OnDemandRow(gate.mode)
    BY <1>t, <2>1, OnDemandFields DEF DisabledRests
  <2>2. CASE row' = StoppedRow(gate.enabled)
    <3>1. row'.enabled = gate.enabled /\ row'.mode = row.mode
      BY <1>t, <2>2, StoppedFields
    <3> QED BY <1>0, <1>1, <3>1 DEF DisabledRests, Mode, EffectiveRuntimeMode
  <2> QED BY <1>3, <2>1, <2>2
<1>4. CASE StopFail
  <2>1. gate' = FreeGate /\ row' \in {StoppedRow(gate.enabled), OnDemandRow(gate.mode)}
    BY <1>4 DEF StopFail, Release
  <2> QED BY <1>2, <1>3, <2>1 DEF Rests, TrackedServes, FreeGate
<1>5. CASE StopDone /\ gate.then = "start"
  <2>1. /\ row' = StoppedRow(gate.enabled)
        /\ gate' = [gate EXCEPT !.pc = "start", !.proc = None, !.then = "done"]
    BY <1>5 DEF StopDone
  <2>2. gate'.pc = "start" /\ row'.enabled
    BY <1>0, <1>1, <1>5, <1>t, <2>1, StoppedFields DEF Gate
  <2> QED BY <1>2, <1>3, <2>1, <2>2 DEF Starts
<1>6. CASE StopDone /\ gate.then # "start"
  <2>1. /\ gate' = FreeGate
        /\ \/ row' \in {StoppedRow(gate.enabled), OnDemandRow(gate.mode)}
           \/ row' = [StoppedRow(FALSE) EXCEPT !.status = "absent", !.mode = "inherit"]
    BY <1>6 DEF StopDone, Release
  <2>2. CASE row' = [StoppedRow(FALSE) EXCEPT !.status = "absent", !.mode = "inherit"]
    <3>1. row'.status = "absent"
      BY <1>0, <2>2 DEF StoppedRow, Row
    <3> QED BY <1>2, <2>1, <3>1 DEF Rests, TrackedServes, DisabledRests, Exists, FreeGate
  <2> QED BY <1>2, <1>3, <2>1, <2>2 DEF Rests, TrackedServes, FreeGate
<1> QED BY <1>4, <1>5, <1>6

\* The fork and the registration: the row is the process's.
LEMMA StartsDescribe ==
    ASSUME TypeOK, Owned, Tended, NoReload',
           Spawn \/ Register \/ Healthy \/ \E p \in Proc : StartBegin(p)
    PROVE  Tended'
<1> USE DEF Tended, TrackedServes, StartDescribes, StopIntended, StartIntended, DisabledRests
<1>1. ASSUME NEW p \in Proc, StartBegin(p) PROVE Tended'
  <2>0. gate'.pc = "spawn" /\ gate'.proc = p
    BY <1>1 DEF StartBegin, TypeOK, Gate
  <2>1. row'.enabled /\ row'.addr = p /\ row'.mode = row.mode
    BY <1>1 DEF StartBegin, TypeOK, Row
  <2>2. /\ gate.pc = "start" /\ Mode # OD /\ svcMode' = svcMode
        /\ UNCHANGED <<tracked, alive>>
    BY <1>1 DEF StartBegin, procVars, osVars
  <2>3. ~liveProcess'
    BY <2>2, UnderWay DEF liveProcess
  <2>4. Mode' # OD
    BY <2>1, <2>2 DEF Mode, EffectiveRuntimeMode
  <2> QED BY <2>0, <2>1, <2>3, <2>4
<1>2. CASE Spawn
  <2>1. /\ gate'.pc = "register" /\ gate'.proc = gate.proc /\ gate.pc = "spawn"
        /\ UNCHANGED <<row, svcMode>>
    BY <1>2 DEF Spawn, TypeOK, Gate
  <2>2. ~liveProcess'
    BY <1>2, <2>1, UnderWay DEF Spawn, liveProcess, procVars
  <2>3. Mode' = Mode /\ Exists' = Exists
    BY <2>1 DEF Mode, EffectiveRuntimeMode, Exists
  <2> QED BY <2>1, <2>2, <2>3
<1>3. CASE Register
  <2>1. /\ gate'.pc = "health" /\ gate'.proc = gate.proc /\ gate.pc = "register"
        /\ row'.status = "running" /\ row'.pid = gate.proc /\ row'.addr = row.addr
        /\ row'.enabled = row.enabled /\ row'.mode = row.mode
        /\ tracked' = gate.proc /\ svcMode' = svcMode
    BY <1>3 DEF Register, TypeOK, Gate, Row
  <2>2. Mode' = Mode
    BY <2>1 DEF Mode, EffectiveRuntimeMode
  <2> QED BY <2>1, <2>2 DEF liveProcess
<1>4. CASE Healthy
  <2>1. /\ gate.pc = "health" /\ gate'.pc = "free" /\ UNCHANGED <<row, svcMode, tracked, alive>>
    BY <1>4 DEF Healthy, Release, FreeGate, procVars
  <2>2. Mode' = Mode /\ Exists' = Exists /\ gate.proc = tracked
    BY <2>1, UnderWay DEF Mode, EffectiveRuntimeMode, Exists
  <2> QED BY <2>1, <2>2
<1> QED BY <1>1, <1>2, <1>3, <1>4

\* The failures of a start.
LEMMA FailuresIntended ==
    ASSUME TypeOK, Owned, Tended,
           StartEarlyFail \/ SpawnFail \/ RegisterReplaced \/ RegisterFail \/ HealthFail
    PROVE  Starts \/ Rests
<1>0. gate.pc \in {"start", "spawn", "register", "health"} /\ svcMode' = svcMode
  BY DEF StartEarlyFail, SpawnFail, RegisterReplaced, RegisterFail, HealthFail
<1>u. /\ row.enabled \/ gate.op \in Enablers
      /\ row.status # "absent" /\ ~row.enabled => EffectiveRuntimeMode(row.mode) # OD
      /\ gate.pc # "health" => ~liveProcess
      /\ gate.pc # "start" => Mode # OD /\ row.enabled
      /\ row \in Row /\ None \notin alive
  BY <1>0, UnderWay
<1>s. StoppedRow(TRUE) \in Row /\ StoppedRow(TRUE).enabled
  BY <1>u, RowTypes, StoppedFields, FieldTypes
<1>1. CASE StartEarlyFail
  <2>1. failStart(row) /\ ~liveProcess'
    BY <1>1, <1>u DEF StartEarlyFail, liveProcess, procVars, osVars
  <2> QED BY <1>0, <1>u, <2>1, FailStartIntended
<1>2. CASE SpawnFail
  <2>1. PICK r \in {row, [row EXCEPT !.status = "failed"]} : failStart(r)
    BY <1>2 DEF SpawnFail
  <2>2. r \in Row /\ r.enabled
    BY <1>2, <1>u DEF SpawnFail, Row, Statuses
  <2>3. ~liveProcess'
    BY <1>2, <1>u DEF SpawnFail, liveProcess, procVars, osVars
  <2> QED BY <1>0, <2>1, <2>2, <2>3, FailStartIntended
<1>3. CASE RegisterReplaced
  <2>1. failStart(StoppedRow(TRUE)) /\ ~liveProcess'
    BY <1>3, <1>u DEF RegisterReplaced, liveProcess
  <2> QED BY <1>0, <1>s, <2>1, FailStartIntended
<1>4. CASE RegisterFail
  <2>1. PICK r \in {row, StoppedRow(TRUE)} : failStart(r)
    BY <1>4 DEF RegisterFail
  <2>2. r \in Row /\ r.enabled
    BY <1>4, <1>u, <1>s, <2>1 DEF RegisterFail
  <2>3. ~liveProcess'
    BY <1>4, <1>u DEF RegisterFail, liveProcess, procVars
  <2> QED BY <1>0, <2>1, <2>2, <2>3, FailStartIntended
<1>5. CASE HealthFail
  <2>1. PICK r \in {row, StoppedRow(TRUE),
                    [row EXCEPT !.status = "failed", !.pid = None, !.addr = None]} : failStart(r)
    BY <1>5 DEF HealthFail
  <2>2. r \in Row /\ r.enabled
    <3>1. row.enabled
      BY <1>5, <1>u DEF HealthFail
    <3>2. [row EXCEPT !.status = "failed", !.pid = None, !.addr = None] \in Row
      BY <1>u DEF Row, Statuses, MaybeProc
    <3>3. [row EXCEPT !.status = "failed", !.pid = None, !.addr = None].enabled
      BY <1>u, <3>1 DEF Row
    <3> QED BY <1>u, <1>s, <3>1, <3>2, <3>3
  <2>3. ~liveProcess'
    BY <1>5, <1>u DEF HealthFail, cleanupFailedStart, liveProcess
  <2> QED BY <1>0, <2>1, <2>2, <2>3, FailStartIntended
<1> QED BY <1>1, <1>2, <1>3, <1>4, <1>5

\* A rollback to on-demand.
LEMMA RollBackIntended ==
    ASSUME TypeOK, Owned, Tended, RollBack
    PROVE  Stops \/ Rests
<1>0. /\ gate.pc = "rollback" /\ UNCHANGED <<svcMode, alive>> /\ None \notin alive
      /\ row \in Row
  BY NoneAssumption DEF RollBack, osVars, TypeOK
<1>1. ~liveProcess /\ DisabledRests
  BY <1>0 DEF Tended, TrackedServes
<1>d. row' = row => DisabledRests'
  BY <1>0, <1>1 DEF DisabledRests, Exists, Mode, EffectiveRuntimeMode
<1>2. CASE Release /\ UNCHANGED <<row, tracked>>
  BY <1>0, <1>1, <1>2, <1>d DEF Rests, TrackedServes, Release, FreeGate, liveProcess
<1>3. CASE gate.op = "SetRuntimeMode" /\ stopProcess(gate.op, TRUE, "onDemand", gate.mode)
           /\ row' = row
  <2>1. /\ gate'.pc = "stop" /\ gate'.op = "SetRuntimeMode" /\ gate'.enabled = TRUE
        /\ tracked' = None
    BY <1>3, StopEffect
  <2> QED BY <1>3, <1>d, <2>1 DEF Stops, Enablers
<1>4. CASE Release /\ row' = OnDemandRow(gate.mode) /\ tracked' = tracked
  <2>1. row'.enabled
    BY <1>4, FieldTypes, OnDemandFields
  <2> QED BY <1>0, <1>1, <1>4, <2>1
          DEF Rests, TrackedServes, DisabledRests, Release, FreeGate, liveProcess
<1> QED BY <1>2, <1>3, <1>4 DEF RollBack, procVars

-----------------------------------------------------------------------------
(* Everything else that happens to an instance                              *)

\* Requests and the loss of a caller leave the row alone; a request starts only
\* what is enabled.
LEMMA RequestsTended ==
    ASSUME TypeOK, Tended, Requests
    PROVE  Tended'
<1>1. ASSUME NEW r \in Req, releaseRef(r) PROVE Tended'
  <2>1. UNCHANGED <<row, svcMode, gate, tracked, alive, reload, daemon>>
    BY <1>1 DEF releaseRef, procVars, osVars, lifeVars
  <2> QED BY <2>1 DEF Tended, TrackedServes, StartDescribes, StopIntended, StartIntended,
             DisabledRests, NoReload, liveProcess, Exists, Mode, EffectiveRuntimeMode
<1>2. ASSUME NEW r \in Req, EnsureStarted(r) PROVE Tended'
  <2>1. /\ Enter /\ UNCHANGED <<row, svcMode, tracked, alive, reload, daemon>>
        /\ \/ gate' = gate
           \/ /\ ~liveProcess /\ row.enabled
              /\ startLocked("EnsureStarted", "done", row.mode, r)
    BY <1>2 DEF EnsureStarted, osVars, lifeVars
  <2>2. CASE gate' = gate
    BY <2>1, <2>2 DEF Tended, TrackedServes, StartDescribes, StopIntended, StartIntended,
             DisabledRests, NoReload, liveProcess, Exists, Mode, EffectiveRuntimeMode
  <2>3. CASE ~liveProcess /\ row.enabled /\ startLocked("EnsureStarted", "done", row.mode, r)
    <3>1. gate'.pc = "start"
      BY <2>3, StartEffect
    <3>2. Starts
      BY <2>1, <2>3, <3>1 DEF Starts, DisabledRests, liveProcess
    <3>3. NoReload' /\ None \notin alive'
      BY <2>1, NoneAssumption DEF Tended, NoReload, TypeOK
    <3> QED BY <3>2, <3>3, OutcomeTended
  <2> QED BY <2>1, <2>2, <2>3
<1> QED BY <1>1, <1>2 DEF Requests

\* Nothing of an import happens.
LEMMA ImportsNothing ==
    ASSUME NoImport, NoReload
    PROVE  ~Import
    BY DEF NoImport, NoReload, Import, ImportService, restartEnabledServiceInstances,
           ImportRestart, RestartIfWarm, ApplyServiceRuntimeMode, ReloadAbandoned, LR, STZ

\* An exit watcher, a timer and the scan act on what the row still allows.
LEMMA BackgroundTended ==
    ASSUME TypeOK, Owned, Timer, Tended, Background
    PROVE  Tended'
<1>n. /\ None \notin alive /\ row \in Row
  BY NoneAssumption DEF TypeOK
<1>1. ASSUME NEW p \in Proc, Wait(p) PROVE Tended'
  <2>1. /\ gate.pc = "free" /\ gate' = gate /\ p \notin alive
        /\ UNCHANGED <<svcMode, alive, reload, daemon>> /\ daemon # "down"
        /\ tracked' = IF tracked = p THEN None ELSE tracked
    BY <1>1 DEF Wait, GateFree, procVars, lifeVars
  <2>a. /\ \/ row' = row
           \/ row' = [row EXCEPT !.status = "degraded", !.pid = None, !.addr = None]
           \/ row' = [row EXCEPT !.status = "degraded", !.pid = None]
        /\ tracked # p => row' = row
        /\ row' # row => Exists
    BY <1>1 DEF Wait, OwnsExit
  <2>2. /\ row'.enabled = row.enabled /\ row'.mode = row.mode
        /\ Exists' = Exists
        /\ tracked # p => row' = row
    BY <2>a, <1>n DEF Row, Exists
  <2>3. Mode' = Mode
    BY <2>1, <2>2 DEF Mode, EffectiveRuntimeMode
  <2>4. liveProcess' => liveProcess /\ row' = row /\ tracked' = tracked
    BY <1>n, <2>1, <2>2 DEF liveProcess
  <2> QED BY <2>1, <2>2, <2>3, <2>4
          DEF Tended, TrackedServes, StartDescribes, StopIntended, StartIntended,
              DisabledRests, NoReload
<1>2. CASE restartAfterBackoff
  <2>1. /\ Enter /\ backoff /\ UNCHANGED <<row, svcMode, tracked, alive, reload, daemon>>
        /\ \/ gate' = gate
           \/ gate'.pc = "start" /\ row.enabled
    BY <1>2 DEF restartAfterBackoff, FreeGate, procVars, osVars, lifeVars
  <2>2. CASE gate' = gate
    BY <2>1, <2>2 DEF Tended, TrackedServes, StartDescribes, StopIntended, StartIntended,
             DisabledRests, NoReload, liveProcess, Exists, Mode, EffectiveRuntimeMode
  <2>3. CASE gate'.pc = "start" /\ row.enabled
    <3>1. ~liveProcess
      BY <2>1 DEF Timer, NoTimerOverLive
    <3>2. Starts
      BY <2>1, <2>3, <3>1 DEF Starts, DisabledRests, liveProcess
    <3>3. NoReload' /\ None \notin alive'
      BY <2>1, <1>n DEF Tended, NoReload
    <3> QED BY <3>2, <3>3, OutcomeTended
  <2> QED BY <2>1, <2>2, <2>3
<1>3. CASE TouchInstance \/ scanScaleToZero
  <2>1. UNCHANGED <<row, svcMode, gate, tracked, alive, reload, daemon>>
    BY <1>3 DEF TouchInstance, scanScaleToZero, osVars, lifeVars
  <2> QED BY <2>1 DEF Tended, TrackedServes, StartDescribes, StopIntended, StartIntended,
             DisabledRests, NoReload, liveProcess, Exists, Mode, EffectiveRuntimeMode
<1>4. CASE parkIfStillIdle
  <2>1. /\ Enter /\ Exists /\ Mode = STZ /\ UNCHANGED <<row, svcMode, alive, reload, daemon>>
        /\ stopProcess("Park", TRUE, "done", row.mode)
    BY <1>4 DEF parkIfStillIdle, osVars, lifeVars
  <2>2. /\ gate'.pc = "stop" /\ gate'.enabled = TRUE /\ gate'.then = "done" /\ gate'.op = "Park"
        /\ tracked' = None
    BY <2>1, StopEffect
  <2>4. Stops
    BY <2>1, <2>2 DEF Stops, DisabledRests, Exists, Mode, EffectiveRuntimeMode, STZ, OD
  <2>5. NoReload' /\ None \notin alive'
    BY <2>1, <2>2, <1>n DEF Tended, NoReload
  <2> QED BY <2>4, <2>5, OutcomeTended
<1> QED BY <1>1, <1>2, <1>3, <1>4 DEF Background

\* The reconcile pass stops what is not wanted and starts what is enabled.
LEMMA ReconcileTended ==
    ASSUME TypeOK, Tended, Reconcile
    PROVE  Tended'
<1>n. /\ None \notin alive /\ row \in Row
  BY NoneAssumption DEF TypeOK
<1>1. ASSUME NEW p \in Proc, ReconcileOrphan(p) PROVE Tended'
  <2>1. UNCHANGED <<row, svcMode, gate, tracked, alive, reload, daemon>>
    BY <1>1 DEF ReconcileOrphan, procVars, lifeVars
  <2> QED BY <2>1 DEF Tended, TrackedServes, StartDescribes, StopIntended, StartIntended,
             DisabledRests, NoReload, liveProcess, Exists, Mode, EffectiveRuntimeMode
<1>r. ASSUME ReconcileSurplus \/ ReconcileStale \/ ReconcileMissing
      PROVE  /\ Enter /\ UNCHANGED <<svcMode, alive, reload, daemon>>
             /\ Exists /\ ~row.enabled => Mode # OD
  BY <1>r, Found DEF ReconcileSurplus, ReconcileStale, ReconcileMissing, osVars, lifeVars
<1>2. CASE ReconcileSurplus
  <2>1. /\ stopProcess("Reconcile", row.enabled, IF Mode = OD THEN "onDemand" ELSE "done",
                       row.mode)
        /\ Exists /\ row' = row
    BY <1>2 DEF ReconcileSurplus
  <2>2. /\ gate'.pc = "stop" /\ gate'.enabled = row.enabled /\ tracked' = None
        /\ gate'.then = IF Mode = OD THEN "onDemand" ELSE "done"
    BY <2>1, StopEffect
  <2>3. Mode' = Mode /\ Exists'
    BY <1>2, <1>r, <2>1 DEF Mode, EffectiveRuntimeMode, Exists
  <2>4. Stops
    BY <1>2, <1>r, <2>1, <2>2, <2>3, FieldTypes DEF Stops, DisabledRests
  <2>5. NoReload' /\ None \notin alive'
    BY <1>2, <1>r, <1>n, <2>2 DEF Tended, NoReload
  <2> QED BY <2>4, <2>5, OutcomeTended
<1>s. ASSUME ReconcileStale \/ ReconcileMissing
      PROVE  tracked = None /\ tracked' = None /\ ~liveProcess' /\ row'.enabled
  <2>1. tracked = None /\ tracked' = None /\ row.enabled /\ row' \in {row, StoppedRow(TRUE)}
    BY <1>s DEF ReconcileStale, ReconcileMissing, staleClaim, procVars
  <2> QED BY <1>n, <1>r, <1>s, <2>1, StoppedFields DEF liveProcess
<1>3. CASE ReconcileStale
  <2>1. Rests
    BY <1>3, <1>r, <1>s DEF ReconcileStale, Rests, TrackedServes, DisabledRests, Enter, GateFree
  <2>2. NoReload' /\ None \notin alive'
    BY <1>3, <1>r, <1>s, <1>n DEF Tended, NoReload
  <2> QED BY <2>1, <2>2, OutcomeTended
<1>4. CASE ReconcileMissing
  <2>1. startLocked("Reconcile", "done", row.mode, None)
    BY <1>4 DEF ReconcileMissing
  <2>2. Starts
    BY <1>4, <1>s, <2>1, StartEffect DEF Starts, DisabledRests
  <2>3. NoReload' /\ None \notin alive'
    BY <1>4, <1>r, <1>s, <1>n DEF Tended, NoReload
  <2> QED BY <2>2, <2>3, OutcomeTended
<1>5. CASE ReconcileMissingTracked
  <2>1. /\ Enter /\ row.pid \notin alive /\ row' = StoppedRow(TRUE)
        /\ UNCHANGED <<gate, tracked, alive, reload, daemon>>
    BY <1>5 DEF ReconcileMissingTracked, PidLive, procVars, osVars, lifeVars
  <2>2. gate.pc = "free" /\ daemon = "up" /\ reload = "none" /\ ~liveProcess
    BY <2>1, Found DEF liveProcess
  <2>3. row'.enabled /\ ~liveProcess'
    BY <2>1, <2>2, StoppedFields DEF liveProcess
  <2>4. Rests
    BY <2>1, <2>2, <2>3 DEF Rests, TrackedServes, DisabledRests
  <2>5. NoReload' /\ None \notin alive'
    BY <1>n, <2>1, <2>2 DEF NoReload
  <2> QED BY <2>4, <2>5, OutcomeTended
<1> QED BY <1>1, <1>2, <1>3, <1>4, <1>5 DEF Reconcile

\* A shutdown stops resident instances only; a daemon that boots starts enabled
\* ones, with nothing tracked.
LEMMA LifecycleTended ==
    ASSUME TypeOK, Tended, Lifecycle
    PROVE  Tended'
<1>n. /\ None \notin alive /\ row \in Row
  BY NoneAssumption DEF TypeOK
<1>0. UNCHANGED <<row, svcMode, alive>> /\ DisabledRests'
  <2>1. UNCHANGED <<row, svcMode, alive>>
    BY DEF Lifecycle, BeginShutdown, ShutdownList, ShutdownStop, ShutdownDone, Crash, Boot,
           BootDone, osVars
  <2> QED BY <2>1 DEF Tended, DisabledRests, Exists, Mode, EffectiveRuntimeMode
<1>1. CASE BeginShutdown \/ ShutdownList \/ BootDone
  <2>1. UNCHANGED <<gate, tracked, reload>> /\ daemon' # "down"
    BY <1>1 DEF BeginShutdown, ShutdownList, BootDone, procVars
  <2> QED BY <1>0, <2>1 DEF Tended, TrackedServes, StartDescribes, StopIntended, StartIntended,
             DisabledRests, NoReload, liveProcess, Exists, Mode, EffectiveRuntimeMode
<1>2. CASE ShutdownStop
  <2>1. GateFree /\ reload' = reload /\ daemon' = daemon /\ daemon # "down"
    BY <1>2 DEF ShutdownStop
  <2>2. CASE Exists /\ residentMode
    <3>1. /\ gate'.pc = "stop" /\ gate'.enabled = row.enabled /\ tracked' = None
          /\ gate'.then = "done"
      BY <1>2, <2>2, StopEffect DEF ShutdownStop
    <3>2. (Exists /\ Mode # OD)'
      BY <1>0, <2>2 DEF residentMode, Exists, Mode, EffectiveRuntimeMode, LR, STZ, OD
    <3>3. Stops
      BY <1>0, <3>1, <3>2 DEF Stops
    <3>4. NoReload' /\ None \notin alive'
      BY <1>0, <1>n, <2>1, <3>1 DEF Tended, NoReload
    <3> QED BY <3>3, <3>4, OutcomeTended
  <2>3. CASE ~(Exists /\ residentMode)
    <3>1. UNCHANGED <<gate, tracked>>
      BY <1>2, <2>3 DEF ShutdownStop, procVars
    <3> QED BY <1>0, <2>1, <3>1 DEF Tended, TrackedServes, StartDescribes, StopIntended,
             StartIntended, DisabledRests, NoReload, liveProcess, Exists, Mode,
             EffectiveRuntimeMode
  <2> QED BY <2>2, <2>3
<1>3. CASE ShutdownDone \/ Crash
  <2>1. gate'.pc = "free" /\ tracked' = None /\ reload' = "none"
    BY <1>3 DEF ShutdownDone, Crash, forget, FreeGate
  <2>2. Rests
    BY <1>0, <1>n, <2>1 DEF Rests, TrackedServes, liveProcess
  <2> QED BY <1>0, <1>n, <2>1, <2>2, OutcomeTended DEF NoReload
<1>4. CASE Boot
  <2>1. /\ daemon = "down" /\ UNCHANGED <<tracked, reload>> /\ daemon' = "booting"
        /\ \/ gate' = gate
           \/ gate'.pc = "start" /\ row.enabled
    BY <1>4 DEF Boot, FreeGate, procVars
  <2>2. NoReload' /\ ~liveProcess'
    BY <1>0, <1>n, <2>1 DEF Tended, NoReload, liveProcess
  <2>3. CASE gate' = gate
    BY <1>0, <2>2, <2>3, <2>1 DEF Tended, TrackedServes, StartDescribes, StopIntended,
             StartIntended, Exists, Mode, EffectiveRuntimeMode
  <2>4. CASE gate'.pc = "start" /\ row.enabled
    <3>1. Starts
      BY <1>0, <2>2, <2>4 DEF Starts
    <3> QED BY <1>0, <1>n, <2>2, <3>1, OutcomeTended
  <2> QED BY <2>1, <2>3, <2>4
<1> QED BY <1>1, <1>2, <1>3, <1>4 DEF Lifecycle

\* An exit takes a process away; a caller that leaves changes nothing but that.
LEMMA EnvironmentTended ==
    ASSUME TypeOK, Tended, CallerGone \/ \E p \in Proc : ProcExit(p)
    PROVE  Tended'
<1>1. /\ UNCHANGED <<row, svcMode, tracked, reload, daemon>> /\ alive' \subseteq alive
      /\ gate'.pc = gate.pc /\ gate'.proc = gate.proc /\ gate'.op = gate.op
      /\ gate'.enabled = gate.enabled /\ gate'.then = gate.then
  <2>1. CASE CallerGone
    BY <2>1 DEF CallerGone, TypeOK, Gate, procVars, osVars, lifeVars
  <2>2. ASSUME NEW p \in Proc, ProcExit(p)
        PROVE  /\ UNCHANGED <<row, svcMode, gate, tracked, reload, daemon>>
               /\ alive' \subseteq alive
    BY <2>2 DEF ProcExit, procVars, lifeVars
  <2> QED BY <2>1, <2>2
<1> QED BY <1>1 DEF Tended, TrackedServes, StartDescribes, StopIntended, StartIntended,
             DisabledRests, NoReload, liveProcess, Exists, Mode, EffectiveRuntimeMode

\* The inductive step, while nothing is imported.
LEMMA NextTended ==
    ASSUME NoImport, TypeOK, TypeOK', Owned, Timer, Tended, [Next]_vars
    PROVE  Tended'
<1>n. None \notin alive'
  BY NoneAssumption DEF TypeOK
<1>1. CASE OperationStep
  <2>1. NoReload'
    <3>1. daemon' = daemon /\ daemon # "down"
      BY <1>1, OperationRuns DEF Owned
    <3>2. reload' = reload
      BY <1>1 DEF OperationStep, StopDone, StopFail, StartBegin, StartEarlyFail, Spawn,
         SpawnFail, Register, RegisterReplaced, RegisterFail, Healthy, HealthFail, RollBack
    <3> QED BY <3>1, <3>2 DEF Tended, NoReload
  <2>2. CASE StopDone \/ StopFail
    BY <1>n, <2>1, <2>2, StopsIntended, OutcomeTended
  <2>3. CASE Spawn \/ Register \/ Healthy \/ \E p \in Proc : StartBegin(p)
    BY <2>1, <2>3, StartsDescribe
  <2>4. CASE StartEarlyFail \/ SpawnFail \/ RegisterReplaced \/ RegisterFail \/ HealthFail
    BY <1>n, <2>1, <2>4, FailuresIntended, OutcomeTended
  <2>5. CASE RollBack
    BY <1>n, <2>1, <2>5, RollBackIntended, OutcomeTended
  <2> QED BY <1>1, <2>2, <2>3, <2>4, <2>5 DEF OperationStep
<1>2. CASE Operator
  <2>1. Stops \/ Starts \/ Rests
    BY <1>2, SimpleCalls, CreateCalls, SwitchCalls, SyncCalls DEF Operator
  <2>2. daemon = "up" /\ daemon' = daemon
    BY <1>2, OperatorEntry DEF Entry
  <2>3. reload' = reload
    BY <1>2 DEF Operator, Start, Stop, Restart, UpdateConfig, Delete, Create, SyncUnchanged,
       SetRuntimeMode, SetModeSameResident, SetModeOnDemand,
       SetModeOnDemandToLongRunning, SetModeToScaleToZero, SetModeToLongRunning,
       SetModeOnDemandToScaleToZero, Sync, SyncOnDemand, SyncFromOnDemand, SyncResident
  <2> QED BY <1>n, <2>1, <2>2, <2>3, OutcomeTended DEF Tended, NoReload
<1>3. CASE Import
  BY <1>3, ImportsNothing DEF Tended
<1>4. CASE Requests
  BY <1>4, RequestsTended
<1>5. CASE Background
  BY <1>5, BackgroundTended
<1>6. CASE Reconcile
  BY <1>6, ReconcileTended
<1>7. CASE Lifecycle
  BY <1>7, LifecycleTended
<1>8. CASE CallerGone \/ \E p \in Proc : ProcExit(p)
  BY <1>8, EnvironmentTended
<1>9. CASE UNCHANGED vars
  BY <1>9 DEF vars, procVars, osVars, lifeVars, Tended, TrackedServes, StartDescribes,
     StopIntended, StartIntended, DisabledRests, NoReload, liveProcess, Exists, Mode,
     EffectiveRuntimeMode
<1> QED BY <1>1, <1>2, <1>3, <1>4, <1>5, <1>6, <1>7, <1>8, <1>9 DEF Next

\* An empty data directory is tended to.
LEMMA InitTended == Init => Tended
    BY NoneAssumption DEF Init, FreeGate, Tended, TrackedServes, StartDescribes, StopIntended,
       StartIntended, DisabledRests, NoReload, liveProcess, Exists

-----------------------------------------------------------------------------
(* Processes and rows, while nothing is imported                            *)

\* The invariants together.
Sound == TypeOK /\ Owned /\ Timer /\ Tended

\* They hold at first.
LEMMA InitSound == Init => Sound
<1>1. Init => Timer
  BY DEF Init, FreeGate, Timer, TimerCancelled, NoTimerOverLive, liveProcess
<1> QED BY <1>1, InitOwned, InitTended DEF Sound

\* They are inductive.
LEMMA NextSound ==
    ASSUME NoImport, Sound, [Next]_vars
    PROVE  Sound'
    BY NextOwned, NextTimer, NextTended DEF Sound

\* Two processes that run are the tracked one and the one at the gate, which are
\* one as long as the tracked one runs.
LEMMA SoundSingle == ASSUME Sound PROVE SingleProcess
<1> SUFFICES ASSUME NEW p \in alive \ leaked, NEW q \in alive \ leaked PROVE p = q
  BY DEF SingleProcess
<1>1. p \in {tracked, gate.proc} /\ q \in {tracked, gate.proc} /\ None \notin alive
  BY NoneAssumption DEF Sound, Owned, NoStrayProcess, TypeOK
<1>2. tracked \in alive => gate.proc = None \/ gate.proc = tracked
  BY DEF Sound, Tended, TrackedServes, liveProcess, Owned, OperationOwnsProcess
<1> QED BY <1>1, <1>2

\* One instance never has two processes that the daemon has not given up on,
\* whatever faults happen and however operations, watchers, timers, scans and
\* reconcile passes interleave, as long as no import changes the service's mode.
THEOREM OneProcess == ASSUME NoImport PROVE Spec => []SingleProcess
<1>1. Sound /\ [Next]_vars => Sound'
  BY NextSound
<1>2. Sound => SingleProcess
  BY SoundSingle
<1> QED BY <1>1, <1>2, InitSound, PTL DEF Spec

\* Between operations the row describes the live process of the instance, as no
\* late write of an exit watcher, a failed start or a park overtakes a new start.
THEOREM RowIsTrue == ASSUME NoImport PROVE Spec => []RowDescribesTracked
<1>1. Sound /\ [Next]_vars => Sound'
  BY NextSound
<1>2. Sound => RowDescribesTracked
  BY DEF Sound, Tended, TrackedServes, RowDescribesTracked
<1> QED BY <1>1, <1>2, InitSound, PTL DEF Spec

-----------------------------------------------------------------------------
(* While an operation is at the gate                                        *)

\* Who waits for the gate does not write the row.
LEMMA OthersWait ==
    ASSUME gate.pc # "free", [Next]_vars, ~OperationStep
    PROVE  row' = row
<1>1. ~Operator
  BY OperatorEntry DEF Entry, GateFree
<1>2. CASE Import
  BY <1>2 DEF Import, ImportService, restartEnabledServiceInstances, ImportRestart,
     RestartIfWarm, ApplyServiceRuntimeMode, ReloadAbandoned, Enter, GateFree
<1>3. CASE Requests
  BY <1>3 DEF Requests, EnsureStarted, releaseRef
<1>4. CASE Background
  BY <1>4 DEF Background, Wait, restartAfterBackoff, TouchInstance, scanScaleToZero,
     parkIfStillIdle, Enter, GateFree
<1>5. CASE Reconcile
  BY <1>5 DEF Reconcile, ReconcileOrphan, ReconcileSurplus, ReconcileStale,
     ReconcileMissing, ReconcileMissingTracked, Enter, GateFree
<1>6. CASE Lifecycle
  BY <1>6 DEF Lifecycle, BeginShutdown, ShutdownList, ShutdownStop, ShutdownDone, Crash,
     Boot, BootDone
<1>7. CASE CallerGone \/ (\E p \in Proc : ProcExit(p)) \/ UNCHANGED vars
  BY <1>7 DEF CallerGone, ProcExit, vars
<1> QED BY <1>1, <1>2, <1>3, <1>4, <1>5, <1>6, <1>7 DEF Next

\* A stop that is over enables what it was told to.
LEMMA StopEnables ==
    ASSUME TypeOK, StopDone \/ StopFail, row'.enabled
    PROVE  gate.pc = "stop" /\ (gate.enabled \/ gate.then = "onDemand")
<1>1. /\ gate.pc = "stop" /\ row \in Row /\ gate.enabled \in BOOLEAN
  BY FieldTypes DEF StopDone, StopFail, TypeOK
<1>2. \/ gate.then = "onDemand"
      \/ row' = StoppedRow(gate.enabled)
      \/ row' = [StoppedRow(FALSE) EXCEPT !.status = "absent", !.mode = "inherit"]
  BY DEF StopDone, StopFail
<1>3. CASE row' = StoppedRow(gate.enabled)
  BY <1>1, <1>3, StoppedFields
<1>4. row' # [StoppedRow(FALSE) EXCEPT !.status = "absent", !.mode = "inherit"]
  BY <1>1 DEF StoppedRow, Row
<1> QED BY <1>1, <1>2, <1>3, <1>4

-----------------------------------------------------------------------------
(* The reload that follows an import                                        *)

Reloads == {"ApplyServiceRuntimeMode", "Restart"}

\* A reload, or a restart, at work on an instance found it enabled, or stops it
\* for good.
ReloadIntended ==
    gate.op \in Reloads =>
        /\ gate.pc = "stop" /\ ~gate.enabled => gate.then = "done"
        /\ gate.pc # "stop" \/ gate.enabled => row.enabled

\* A stop and start enters as ReloadIntended says.
LEMMA StopThenStartReloads ==
    ASSUME TypeOK, NEW op, stopThenStart(op), row' = row
    PROVE  ReloadIntended'
<1>1. /\ gate'.pc = "stop" /\ gate'.enabled = row.enabled
      /\ gate'.then = IF row.enabled THEN "start" ELSE "done"
  BY StopEffect DEF stopThenStart
<1> QED BY <1>1, FieldTypes DEF ReloadIntended

\* A step of an operation keeps it.
LEMMA OperationReloads ==
    ASSUME TypeOK, ReloadIntended, OperationStep, gate.op \in Reloads,
           gate'.op \in Reloads
    PROVE  ReloadIntended'
<1>0. row \in Row /\ gate \in Gate
  BY DEF TypeOK
<1>1. gate' # FreeGate
  BY DEF FreeGate, Reloads
<1>2. CASE StopDone
  <2>1. /\ gate.pc = "stop" /\ gate.then = "start" /\ row' = StoppedRow(gate.enabled)
        /\ gate' = [gate EXCEPT !.pc = "start", !.proc = None, !.then = "done"]
    BY <1>1, <1>2 DEF StopDone, Release
  <2>2. gate.enabled /\ gate'.pc = "start"
    BY <1>0, <2>1 DEF ReloadIntended, Gate
  <2> QED BY <2>1, <2>2, FieldTypes, StoppedFields DEF ReloadIntended
<1>3. CASE StopFail
  BY <1>1, <1>3 DEF StopFail, Release
<1>4. ASSUME NEW p \in Proc, StartBegin(p) PROVE ReloadIntended'
  <2>1. row'.enabled /\ gate'.pc = "spawn"
    BY <1>0, <1>4 DEF StartBegin, Row, Gate
  <2> QED BY <2>1 DEF ReloadIntended
<1>5. CASE Spawn \/ Register
  <2>1. /\ row'.enabled = row.enabled /\ gate.pc # "stop" /\ gate'.pc # "stop"
    BY <1>0, <1>5 DEF Spawn, Register, Row, Gate
  <2> QED BY <2>1 DEF ReloadIntended
<1>6. CASE Healthy
  BY <1>1, <1>6 DEF Healthy, Release
<1>7. ASSUME NEW r, failStart(r), r.enabled PROVE ReloadIntended'
  <2>1. row' = r /\ gate' = [gate EXCEPT !.pc = "rollback", !.proc = None]
    BY <1>1, <1>7 DEF failStart, Reloads
  <2>2. gate'.pc = "rollback"
    BY <1>0, <2>1 DEF Gate
  <2> QED BY <1>7, <2>1, <2>2 DEF ReloadIntended
<1>s. StoppedRow(TRUE).enabled
  BY StoppedFields
<1>8. CASE StartEarlyFail \/ SpawnFail \/ RegisterReplaced \/ RegisterFail \/ HealthFail
  <2>1. row.enabled
    BY <1>8 DEF StartEarlyFail, SpawnFail, RegisterReplaced, RegisterFail, HealthFail,
       ReloadIntended
  <2>2. PICK r \in {row, StoppedRow(TRUE), [row EXCEPT !.status = "failed"],
                    [row EXCEPT !.status = "failed", !.pid = None, !.addr = None]} : failStart(r)
    BY <1>8 DEF StartEarlyFail, SpawnFail, RegisterReplaced, RegisterFail, HealthFail
  <2>3. [row EXCEPT !.status = "failed"].enabled
        /\ [row EXCEPT !.status = "failed", !.pid = None, !.addr = None].enabled
    BY <1>0, <2>1 DEF Row
  <2> QED BY <1>7, <1>s, <2>1, <2>2, <2>3
<1>9. CASE RollBack
  <2>1. gate.op # "SetRuntimeMode"
    BY DEF Reloads
  <2> QED BY <1>1, <1>9, <2>1 DEF RollBack, Release
<1> QED BY <1>2, <1>3, <1>4, <1>5, <1>6, <1>8, <1>9 DEF OperationStep

\* An operation keeps its name.
LEMMA OperationKeepsName ==
    ASSUME TypeOK, OperationStep
    PROVE  gate'.op \in {gate.op, "none"}
<1>0. gate \in Gate
  BY DEF TypeOK
<1>1. CASE gate' = FreeGate
  BY <1>1 DEF FreeGate
<1>2. ASSUME StopDone \/ StopFail \/ Spawn \/ Register \/ Healthy
             \/ \E p \in Proc : StartBegin(p)
      PROVE  gate' = FreeGate \/ gate'.op = gate.op
  BY <1>0, <1>2 DEF StopDone, StopFail, Spawn, Register, Healthy, StartBegin, Release, Gate
<1>3. ASSUME StartEarlyFail \/ SpawnFail \/ RegisterReplaced \/ RegisterFail \/ HealthFail
      PROVE  gate'.op \in {gate.op, "none"}
  <2>1. PICK r : failStart(r)
    BY <1>3 DEF StartEarlyFail, SpawnFail, RegisterReplaced, RegisterFail, HealthFail
  <2> QED BY <1>0, <2>1, FailStartLeaves
<1>4. ASSUME RollBack PROVE gate' = FreeGate \/ gate'.op = gate.op
  BY <1>4, StopEffect DEF RollBack, Release
<1> QED BY <1>1, <1>2, <1>3, <1>4 DEF OperationStep

\* What takes the gate for another reason, or leaves it as it was with the row.
LEMMA OthersReload ==
    ASSUME ReloadIntended,
           \/ gate'.op \notin Reloads
           \/ /\ gate'.op = gate.op /\ gate'.pc = gate.pc /\ row' = row
              /\ gate'.enabled = gate.enabled /\ gate'.then = gate.then
    PROVE  ReloadIntended'
    BY DEF ReloadIntended

\* An operation that finds the gate free: a reload enters with the row it found.
LEMMA EntryReloads ==
    ASSUME TypeOK, ReloadIntended, Operator \/ Import \/ Requests \/ Background \/ Reconcile
    PROVE  ReloadIntended'
<1> USE DEF Reloads
<1>r. ASSUME stopThenStart("Restart") \/ stopThenStart("ApplyServiceRuntimeMode"), row' = row
      PROVE  ReloadIntended'
  BY <1>r, StopThenStartReloads
<1>o. ASSUME NEW op \in Ops \ Reloads,
             \/ \E on, next, m : stopProcess(op, on, next, m)
             \/ \E next, m, r : startLocked(op, next, m, r)
      PROVE  gate'.op \notin Reloads
  BY <1>o, StopEffect, StartEffect
<1>l. ASSUME NEW op \in Ops \ Reloads, NEW m, NEW flag, restartLocked(op, m, flag)
      PROVE  gate' = gate \/ gate'.op \notin Reloads
  BY <1>l, <1>o DEF restartLocked, stopThenStart
<1>g. GateFree => gate.op = "none"
  BY DEF GateFree, TypeOK, FreeGate
<1>e. ASSUME GateFree, gate' = gate \/ gate'.op \notin Reloads PROVE ReloadIntended'
  BY <1>e, <1>g, OthersReload
<1> DEFINE Away == gate' = gate \/ gate'.op \notin Reloads
<1>1. CASE Operator
  <2>0. GateFree
    BY <1>1, OperatorEntry DEF Entry
  <2>1. CASE Restart
    BY <1>r, <2>1 DEF Restart
  <2>2. CASE Start \/ Stop \/ UpdateConfig \/ Delete \/ SyncUnchanged
    <3>1. Away
      BY <1>o, <1>l, <2>2 DEF Start, Stop, UpdateConfig, Delete, SyncUnchanged, Ops, ClientOps
    <3> QED BY <1>e, <2>0, <3>1
  <2>3. ASSUME NEW m \in Overrides, NEW s \in BOOLEAN, Create(m, s) PROVE ReloadIntended'
    <3>1. Away
      BY <1>o, <2>3 DEF Create, Ops, ClientOps
    <3> QED BY <1>e, <2>0, <3>1
  <2>4. ASSUME NEW m \in Overrides, SetRuntimeMode(m) PROVE ReloadIntended'
    <3>1. Away
      BY <1>o, <2>4 DEF SetRuntimeMode, SetModeSameResident, SetModeOnDemand,
         SetModeOnDemandToLongRunning, SetModeToScaleToZero, SetModeToLongRunning,
         SetModeOnDemandToScaleToZero, Ops, ClientOps
    <3> QED BY <1>e, <2>0, <3>1
  <2>5. ASSUME NEW m \in Overrides, Sync(m) PROVE ReloadIntended'
    <3>1. Away
      BY <1>o, <1>l, <2>5 DEF Sync, SyncOnDemand, SyncFromOnDemand, SyncResident, Ops, ClientOps
    <3> QED BY <1>e, <2>0, <3>1
  <2> QED BY <1>1, <2>1, <2>2, <2>3, <2>4, <2>5 DEF Operator
<1>2. CASE Import
  <2>1. CASE \/ \E m \in Modes : ImportService(m)
             \/ restartEnabledServiceInstances \/ ReloadAbandoned
    <3>1. UNCHANGED <<row, gate>>
      BY <2>1 DEF ImportService, restartEnabledServiceInstances, ReloadAbandoned
    <3> QED BY <3>1, OthersReload
  <2>2. ASSUME ImportRestart \/ RestartIfWarm \/ ApplyServiceRuntimeMode PROVE GateFree
    BY <2>2 DEF ImportRestart, RestartIfWarm, ApplyServiceRuntimeMode, Enter
  <2>3. CASE ImportRestart \/ RestartIfWarm
    <3>1. row' = row /\ (stopThenStart("Restart") \/ gate' = gate)
      BY <2>3 DEF ImportRestart, RestartIfWarm
    <3> QED BY <1>r, <1>e, <2>2, <2>3, <3>1
  <2>4. CASE ApplyServiceRuntimeMode
    <3>1. \/ gate' = gate
          \/ row' = row /\ stopThenStart("ApplyServiceRuntimeMode")
          \/ /\ row' = row
             /\ stopProcess("ApplyServiceRuntimeMode", row.enabled,
                            IF row.enabled THEN "onDemand" ELSE "done", row.mode)
      BY <2>4 DEF ApplyServiceRuntimeMode
    <3>2. CASE row' = row
               /\ stopProcess("ApplyServiceRuntimeMode", row.enabled,
                              IF row.enabled THEN "onDemand" ELSE "done", row.mode)
      <4>1. /\ gate'.pc = "stop" /\ gate'.enabled = row.enabled
            /\ gate'.then = IF row.enabled THEN "onDemand" ELSE "done"
        BY <3>2, StopEffect
      <4> QED BY <3>2, <4>1, FieldTypes DEF ReloadIntended
    <3> QED BY <1>r, <1>e, <2>2, <2>4, <3>1, <3>2
  <2> QED BY <1>2, <2>1, <2>3, <2>4 DEF Import
<1>3. CASE Requests
  <2>1. row' = row /\ Away
    BY <1>3, <1>o DEF Requests, EnsureStarted, releaseRef, Ops, ClientOps
  <2> QED BY <2>1, OthersReload
<1>4. CASE Background
  <2>1. ASSUME NEW p \in Proc, Wait(p) PROVE ReloadIntended'
    BY <1>e, <2>1 DEF Wait
  <2>2. CASE restartAfterBackoff
    <3>1. GateFree /\ (gate' = gate \/ gate'.op = "Backoff")
      BY <2>2 DEF restartAfterBackoff, Enter, FreeGate
    <3> QED BY <1>e, <3>1
  <2>3. CASE TouchInstance \/ scanScaleToZero
    BY <2>3, OthersReload DEF TouchInstance, scanScaleToZero
  <2>4. CASE parkIfStillIdle
    <3>1. GateFree /\ gate'.op = "Park"
      BY <2>4, StopEffect DEF parkIfStillIdle, Enter
    <3> QED BY <1>e, <3>1
  <2> QED BY <1>4, <2>1, <2>2, <2>3, <2>4 DEF Background
<1>5. CASE Reconcile
  <2>1. ASSUME NEW p \in Proc, ReconcileOrphan(p) PROVE ReloadIntended'
    BY <2>1, OthersReload DEF ReconcileOrphan
  <2>2. ASSUME \/ ReconcileSurplus \/ ReconcileStale
               \/ ReconcileMissing \/ ReconcileMissingTracked
        PROVE  GateFree /\ Away
    BY <1>o, <2>2 DEF ReconcileSurplus, ReconcileStale, ReconcileMissing,
       ReconcileMissingTracked, Enter, Ops, BackgroundOps
  <2> QED BY <1>5, <1>e, <2>1, <2>2 DEF Reconcile
<1> QED BY <1>1, <1>2, <1>3, <1>4, <1>5

\* The inductive step.
LEMMA NextReloads ==
    ASSUME TypeOK, ReloadIntended, [Next]_vars
    PROVE  ReloadIntended'
<1>1. CASE OperationStep
  <2>1. CASE gate'.op \in Reloads
    <3>1. gate.op \in Reloads
      BY <1>1, <2>1, OperationKeepsName DEF Reloads
    <3> QED BY <1>1, <2>1, <3>1, OperationReloads
  <2> QED BY <2>1 DEF ReloadIntended
<1>2. CASE Operator \/ Import \/ Requests \/ Background \/ Reconcile
  BY <1>2, EntryReloads
<1>3. CASE Lifecycle
  <2>1. row' = row /\ (gate' = gate \/ gate'.op \notin Reloads)
    <3>1. ASSUME ShutdownStop PROVE gate' = gate \/ gate'.op = "Shutdown"
      BY <3>1, StopEffect DEF ShutdownStop
    <3>2. row' = row
      BY <1>3 DEF Lifecycle, BeginShutdown, ShutdownList, ShutdownStop, ShutdownDone, Crash,
         Boot, BootDone
    <3>3. CASE BeginShutdown \/ ShutdownList \/ BootDone
      BY <3>2, <3>3 DEF BeginShutdown, ShutdownList, BootDone
    <3>4. ASSUME ShutdownDone \/ Crash PROVE gate'.op = "none"
      BY <3>4 DEF ShutdownDone, Crash, forget, FreeGate
    <3>5. ASSUME Boot PROVE gate' = gate \/ gate'.op = "Recover"
      BY <3>5 DEF Boot, FreeGate
    <3> QED BY <1>3, <3>1, <3>2, <3>3, <3>4, <3>5 DEF Lifecycle, Reloads
  <2> QED BY <2>1, OthersReload
<1>4. CASE CallerGone
  <2>1. /\ gate'.op = gate.op /\ gate'.pc = gate.pc /\ row' = row
        /\ gate'.enabled = gate.enabled /\ gate'.then = gate.then
    BY <1>4 DEF CallerGone, TypeOK, Gate
  <2> QED BY <2>1, OthersReload
<1>5. CASE (\E p \in Proc : ProcExit(p)) \/ UNCHANGED vars
  <2>1. UNCHANGED <<row, gate>>
    BY <1>5 DEF ProcExit, vars
  <2> QED BY <2>1, OthersReload
<1> QED BY <1>1, <1>2, <1>3, <1>4, <1>5 DEF Next

\* A reload at work enables nothing.
LEMMA ReloadEnablesNothing ==
    ASSUME TypeOK, Owned, ReloadIntended, [Next]_vars, ~row.enabled, row'.enabled
    PROVE  ~ApplyServiceRuntimeMode /\ gate.op \notin Reloads
<1>1. ~ApplyServiceRuntimeMode
  <2> SUFFICES ASSUME ApplyServiceRuntimeMode PROVE FALSE
    OBVIOUS
  <2>1. row' = row \/ row' = StoppedRow(row.enabled) \/ row.enabled
    BY DEF ApplyServiceRuntimeMode
  <2> QED BY <2>1, FieldTypes, StoppedFields
<1>2. gate.op \notin Reloads
  <2> SUFFICES ASSUME gate.op \in Reloads PROVE FALSE
    OBVIOUS
  <2>1. gate.pc = "stop" /\ ~gate.enabled /\ gate.then = "done"
    BY DEF ReloadIntended
  <2>2. OperationStep
    BY <2>1, OthersWait
  <2>3. StopDone \/ StopFail
    BY <2>1, <2>2 DEF OperationStep, StartBegin, StartEarlyFail, Spawn, SpawnFail, Register,
       RegisterReplaced, RegisterFail, Healthy, HealthFail, RollBack
  <2> QED BY <2>1, <2>3, StopEnables
<1> QED BY <1>1, <1>2

\* The reload that follows an import never enables what a stop has disabled in
\* the meantime, whatever mode the import gave the service.
THEOREM ReloadRespectsStop == Spec => StopBeatsReload
<1>1. Init => ReloadIntended
  BY DEF Init, FreeGate, ReloadIntended, Reloads
<1>2. /\ TypeOK /\ Owned /\ ReloadIntended /\ [Next]_vars
      => (TypeOK /\ Owned /\ ReloadIntended)'
  BY NextOwned, NextReloads
<1>3. TypeOK /\ Owned /\ ReloadIntended /\ [Next]_vars =>
        [reEnabled => ~ApplyServiceRuntimeMode
                      /\ gate.op \notin {"ApplyServiceRuntimeMode", "Restart"}]_vars
  BY ReloadEnablesNothing DEF reEnabled, Reloads
<1> QED BY <1>1, <1>2, <1>3, InitOwned, PTL DEF Spec, StopBeatsReload

-----------------------------------------------------------------------------
(* The instance as its callers see it                                       *)

\* What the two mapped rows tell.
LEMMA RowTells ==
    ASSUME TypeOK, NEW on \in BOOLEAN, NEW m \in Overrides
    PROVE  /\ tells(StoppedRow(on)) = None /\ tells(OnDemandRow(m)) = None
           /\ tells([StoppedRow(on) EXCEPT !.mode = m]) = None
           /\ tells([row EXCEPT !.mode = m]) = told
<1>1. row \in Row /\ StoppedRow(on) \in Row
  BY RowTypes DEF TypeOK
<1>2. tells(StoppedRow(on)) = None
  BY StoppedFields DEF tells
<1>3. tells(OnDemandRow(m)) = None
  BY <1>1 DEF OnDemandRow, Row, tells
<1>4. tells([StoppedRow(on) EXCEPT !.mode = m]) = None
  BY <1>1, <1>2, OverrideFields DEF tells
<1>5. tells([row EXCEPT !.mode = m]) = told
  BY <1>1, OverrideFields DEF tells, told
<1> QED BY <1>2, <1>3, <1>4, <1>5

\* A row that is no more tells nothing.
LEMMA AbsentTells ==
    ASSUME TypeOK
    PROVE  tells([StoppedRow(FALSE) EXCEPT !.status = "absent", !.mode = "inherit"]) = None
    BY DEF TypeOK, Row, StoppedRow, tells

\* What serves goes with its process or its place in the table.
LEMMA ServingFades ==
    ASSUME None \notin alive, None \notin alive', tracked' \in {tracked, None},
           alive' \cap {tracked} \subseteq alive
    PROVE  serving' \in {serving, None}
    BY DEF serving, liveProcess

\* A step that the abstract instance allows.
Serves == [Served!Next]_(Served!vars)

\* Nothing is announced and nothing begins to serve: the process goes, or the
\* address does after it, or neither.
LEMMA Fading ==
    ASSUME None \notin alive, None \notin alive', TrackedServes, TrackedServes',
           told' \in {told, None}, serving' \in {serving, None},
           UNCHANGED <<refs, accepting, parking>>
    PROVE  Serves
<1> USE DEF Serves
<1>1. liveProcess => told = serving /\ serving # None
  BY DEF TrackedServes, told, tells, serving, liveProcess
<1>2. liveProcess' => told' = serving' /\ serving' # None
  BY DEF TrackedServes, told, tells, serving, liveProcess
<1>3. CASE serving' = serving
  <2>1. users' = users
    BY <1>3 DEF users
  <2>2. CASE serving = None
    <3>1. Served!Withdraw \/ UNCHANGED Served!vars
      BY <1>3, <2>1, <2>2 DEF Served!Withdraw, Served!vars
    <3> QED BY <3>1 DEF Served!Next
  <2>3. CASE serving # None
    <3>1. told' = told
      BY <1>1, <1>2, <1>3, <2>3 DEF serving
    <3> QED BY <1>3, <2>1, <3>1 DEF Served!vars
  <2> QED BY <2>2, <2>3
<1>4. CASE serving' # serving
  <2>1. serving # None /\ serving' = None
    BY <1>4
  <2>2. users' = {}
    BY <2>1 DEF users
  <2>3. Served!Gone
    BY <2>1, <2>2 DEF Served!Gone
  <2> QED BY <2>3 DEF Served!Next
<1> QED BY <1>3, <1>4

\* Only the idle stopper's own stop has its name, and it ends with the stop.
ParkStops == gate.op = "Park" => gate.pc = "stop" /\ gate.then = "done"

\* Nobody uses a process before it is registered.
Unclaimed == gate.pc \in {"spawn", "register"} => \A r \in Req : refs[r] # gate.proc

\* The invariant behind IsServedInstance.
Ready == Sound /\ ParkStops /\ Unclaimed

\* What a step that is neither seen to start nor to end anything leaves alone.
Steady == UNCHANGED <<refs, accepting, parking>> /\ told' \in {told, None}

\* A steady step of the table of processes.
LEMMA SteadyStep ==
    ASSUME Ready, Ready', Steady, tracked' \in {tracked, None},
           alive' \cap {tracked} \subseteq alive
    PROVE  Serves
<1>1. None \notin alive /\ None \notin alive' /\ TrackedServes /\ TrackedServes'
  BY NoneAssumption DEF Ready, Sound, TypeOK, Tended
<1> QED BY <1>1, ServingFades, Fading DEF Steady

\* A step that keeps the operation and adds no request to its process.
LEMMA ReadyKept ==
    ASSUME Ready, gate'.op = gate.op, gate'.pc = gate.pc, gate'.proc = gate.proc,
           gate'.then = gate.then, \A r \in Req : refs'[r] \in {refs[r], None}
    PROVE  (ParkStops /\ Unclaimed)'
<1>1. gate.pc \in {"spawn", "register"} => gate.proc # None
  BY NoneAssumption DEF Ready, Sound, Owned, OperationOwnsProcess
<1> QED BY <1>1 DEF Ready, ParkStops, Unclaimed

\* A step after which no start is under way, and no stop but the idle stopper's own
\* has its name.
LEMMA ReadyEntered ==
    ASSUME gate'.pc \notin {"spawn", "register"},
           gate'.op = "Park" => gate'.pc = "stop" /\ gate'.then = "done"
    PROVE  (ParkStops /\ Unclaimed)'
    BY DEF ParkStops, Unclaimed

\* An operation's entry is not the idle stopper's.
LEMMA EntryReady ==
    ASSUME TypeOK, Entry
    PROVE  (ParkStops /\ Unclaimed)' /\ parking' = parking
<1>1. gate.op = "none" /\ gate.pc = "free"
  BY DEF Entry, GateFree, TypeOK, FreeGate
<1>2. gate'.op # "Park" /\ gate'.pc \notin {"spawn", "register"}
  BY <1>1 DEF Entry, LeavesGate, TakesGateToStop, TakesGateToStart
<1> QED BY <1>1, <1>2, ReadyEntered DEF parking

\* The steps of an operation keep its name to themselves.
LEMMA OperationReady ==
    ASSUME Ready, OperationStep
    PROVE  (ParkStops /\ Unclaimed)'
<1>0. gate \in Gate
  BY DEF Ready, Sound, TypeOK
<1>s. gate.op = "Park" => gate.pc = "stop" /\ gate.then = "done"
  BY DEF Ready, ParkStops
<1>1. CASE StopDone \/ StopFail
  <2>1. \/ gate' = FreeGate
        \/ /\ gate' = [gate EXCEPT !.pc = "start", !.proc = None, !.then = "done"]
           /\ gate.then = "start"
    BY <1>1 DEF StopDone, StopFail, Release
  <2>2. gate'.pc \in {"free", "start"} /\ gate'.op # "Park"
    <3>1. CASE gate' = FreeGate
      BY <3>1 DEF FreeGate
    <3>2. CASE /\ gate' = [gate EXCEPT !.pc = "start", !.proc = None, !.then = "done"]
               /\ gate.then = "start"
      BY <1>0, <1>s, <3>2 DEF Gate
    <3> QED BY <2>1, <3>1, <3>2
  <2> QED BY <2>2, ReadyEntered
<1>2. ASSUME NEW p \in Proc, StartBegin(p) PROVE (ParkStops /\ Unclaimed)'
  <2>1. gate'.op = gate.op /\ gate'.proc = p /\ gate.pc = "start"
    BY <1>0, <1>2 DEF StartBegin, Gate
  <2>2. \A r \in Req : refs'[r] # p
    BY <1>2 DEF StartBegin, Fresh
  <2> QED BY <1>s, <2>1, <2>2 DEF ParkStops, Unclaimed
<1>3. ASSUME NEW r, failStart(r), gate.pc # "stop" PROVE (ParkStops /\ Unclaimed)'
  <2>1. /\ gate'.pc \in {"free", "rollback"}
        /\ gate'.pc = "rollback" => gate'.op = gate.op
        /\ gate'.pc = "free" => gate'.op = "none"
    BY <1>0, <1>3, FailStartLeaves
  <2> QED BY <1>3, <1>s, <2>1, ReadyEntered
<1>4. CASE StartEarlyFail \/ SpawnFail \/ RegisterReplaced \/ RegisterFail \/ HealthFail
  <2>1. gate.pc # "stop"
    BY <1>4 DEF StartEarlyFail, SpawnFail, RegisterReplaced, RegisterFail, HealthFail
  <2>2. PICK r \in {row, StoppedRow(TRUE), [row EXCEPT !.status = "failed"],
                    [row EXCEPT !.status = "failed", !.pid = None, !.addr = None]} :
           failStart(r)
    BY <1>4 DEF StartEarlyFail, SpawnFail, RegisterReplaced, RegisterFail, HealthFail
  <2> QED BY <1>3, <2>1, <2>2
<1>5. CASE Spawn \/ Register
  <2>1. /\ gate.pc \in {"spawn", "register"} /\ gate'.pc \in {"register", "health"}
        /\ gate'.op = gate.op /\ gate'.proc = gate.proc /\ refs' = refs
    BY <1>0, <1>5 DEF Spawn, Register, Gate
  <2> QED BY <1>s, <2>1 DEF Ready, ParkStops, Unclaimed
<1>6. CASE Healthy
  BY <1>6, ReadyEntered DEF Healthy, Release, FreeGate
<1>7. CASE RollBack
  <2>1. CASE Release
    BY <2>1, ReadyEntered DEF Release, FreeGate
  <2>2. CASE gate.op = "SetRuntimeMode" /\ TakesGateToStop(gate.op)
    BY <2>2, ReadyEntered DEF TakesGateToStop
  <2> QED BY <1>7, <2>1, <2>2, StopProcessTakes DEF RollBack
<1> QED BY <1>1, <1>2, <1>4, <1>5, <1>6, <1>7 DEF OperationStep

\* The inductive step of Ready.
LEMMA NextReady ==
    ASSUME NoImport, Ready, [Next]_vars
    PROVE  Ready'
<1> USE DEF Ready
<1> SUFFICES (ParkStops /\ Unclaimed)'
  BY NextSound
<1>t. TypeOK /\ gate \in Gate /\ (GateFree => gate = FreeGate)
  BY DEF Sound, TypeOK, GateFree
<1> DEFINE Kept == UNCHANGED <<gate, refs>>
<1>k. Kept => (ParkStops /\ Unclaimed)'
  BY ReadyKept
<1>e. Entry => (ParkStops /\ Unclaimed)'
  BY <1>t, EntryReady
<1> HIDE DEF Kept
<1>1. CASE OperationStep
  BY <1>1, OperationReady
<1>2. CASE Operator
  BY <1>2, <1>e, OperatorEntry
<1>3. CASE Import
  BY <1>3, ImportsNothing DEF Sound, Tended
<1>4. CASE Requests
  <2>1. ASSUME NEW r \in Req, EnsureStarted(r) PROVE (ParkStops /\ Unclaimed)'
    <3>1. gate' = gate \/ (gate'.pc = "start" /\ gate'.op = "EnsureStarted")
      BY <2>1, StartEffect DEF EnsureStarted
    <3>2. gate.pc = "free" /\ gate.op = "none"
      BY <2>1, <1>t DEF EnsureStarted, Enter, FreeGate
    <3> QED BY <3>1, <3>2, ReadyEntered
  <2>2. ASSUME NEW r \in Req, releaseRef(r) PROVE (ParkStops /\ Unclaimed)'
    <3>1. gate' = gate /\ refs' = [refs EXCEPT ![r] = None] /\ refs \in [Req -> MaybeProc]
      BY <2>2, <1>t DEF releaseRef, TypeOK
    <3> QED BY <3>1, ReadyKept
  <2> QED BY <1>4, <2>1, <2>2 DEF Requests
<1>5. CASE Background
  <2>1. ASSUME NEW p \in Proc, Wait(p) PROVE (ParkStops /\ Unclaimed)'
    BY <1>k, <2>1 DEF Wait, Kept
  <2>2. CASE restartAfterBackoff
    <3>1. gate' = gate \/ (gate'.pc = "start" /\ gate'.op = "Backoff")
      BY <2>2 DEF restartAfterBackoff, FreeGate
    <3>2. gate.pc = "free" /\ gate.op = "none"
      BY <2>2, <1>t DEF restartAfterBackoff, Enter, FreeGate
    <3> QED BY <3>1, <3>2, ReadyEntered
  <2>3. CASE TouchInstance \/ scanScaleToZero
    BY <1>k, <2>3 DEF TouchInstance, scanScaleToZero, Kept
  <2>4. CASE parkIfStillIdle
    BY <2>4, StopEffect, ReadyEntered DEF parkIfStillIdle
  <2> QED BY <1>5, <2>1, <2>2, <2>3, <2>4 DEF Background
<1>6. CASE Reconcile
  <2>1. ASSUME NEW p \in Proc, ReconcileOrphan(p) PROVE (ParkStops /\ Unclaimed)'
    BY <1>k, <2>1 DEF ReconcileOrphan, Kept
  <2> QED BY <1>6, <1>e, <2>1, ReconcileEntry DEF Reconcile
<1>7. CASE Lifecycle
  <2>1. CASE BeginShutdown \/ ShutdownList \/ BootDone
    BY <1>k, <2>1 DEF BeginShutdown, ShutdownList, BootDone, Kept
  <2>2. CASE ShutdownStop
    <3>1. gate.pc = "free" /\ gate.op = "none"
      BY <2>2, <1>t DEF ShutdownStop, FreeGate
    <3>2. gate' = gate \/ (gate'.pc = "stop" /\ gate'.op = "Shutdown")
      BY <2>2, StopEffect DEF ShutdownStop
    <3> QED BY <3>1, <3>2, ReadyEntered
  <2>3. CASE ShutdownDone \/ Crash
    BY <2>3, ReadyEntered DEF ShutdownDone, Crash, forget, FreeGate
  <2>4. CASE Boot
    <3>1. (gate' = gate \/ (gate'.pc = "start" /\ gate'.op = "Recover")) /\ refs' = refs
      BY <2>4 DEF Boot, FreeGate
    <3> QED BY <1>k, <3>1, ReadyEntered DEF Kept
  <2> QED BY <1>7, <2>1, <2>2, <2>3, <2>4 DEF Lifecycle
<1>8. CASE CallerGone
  <2>1. /\ gate'.op = gate.op /\ gate'.pc = gate.pc /\ gate'.proc = gate.proc
        /\ gate'.then = gate.then /\ refs' = refs
    BY <1>8, <1>t DEF CallerGone, Gate
  <2> QED BY <2>1, ReadyKept
<1>9. CASE (\E p \in Proc : ProcExit(p)) \/ UNCHANGED vars
  BY <1>9, <1>k DEF ProcExit, vars, Kept
<1> QED BY <1>1, <1>2, <1>3, <1>4, <1>5, <1>6, <1>7, <1>8, <1>9 DEF Next

\* An empty data directory is ready.
LEMMA InitReady == Init => Ready
    BY InitSound DEF Init, FreeGate, Ready, ParkStops, Unclaimed

-----------------------------------------------------------------------------
(* Who enables a stopped instance                                           *)

\* What StopWins allows to enable a row.
ByOperator ==
    \/ gate.op \in Enablers
    \/ gate.op = "Park" /\ gate.proc = left
    \/ \E m \in Overrides : SetRuntimeMode(m) \/ Sync(m)

\* A process that is in the table, or that the idle stopper took from it, belongs
\* to an enabled instance or was left there by one that is no more.
Inherits ==
    /\ tracked # None => tracked = left \/ (Exists /\ row.enabled)
    /\ gate.op = "Park" => gate.proc = left \/ (Exists /\ row.enabled)

\* Only a start that gets as far as the registration puts a process into the table.
LEMMA OnlyStartsTrack ==
    ASSUME NoImport, Sound, [Next]_vars, tracked' \notin {tracked, None}
    PROVE  Exists' /\ row'.enabled
<1> DEFINE Lets == tracked' \in {tracked, None}
<1>1. CASE OperationStep
  <2>1. ASSUME \/ StopDone \/ StopFail \/ (\E p \in Proc : StartBegin(p))
               \/ StartEarlyFail \/ Spawn \/ SpawnFail \/ RegisterReplaced \/ RegisterFail
               \/ Healthy \/ HealthFail \/ RollBack
        PROVE  Lets
    BY <2>1, StopEffect DEF StopDone, StopFail, StartBegin, StartEarlyFail, Spawn, SpawnFail,
       RegisterReplaced, RegisterFail, Healthy, HealthFail, RollBack, cleanupFailedStart,
       procVars
  <2>2. Register
    BY <1>1, <2>1 DEF OperationStep
  <2>3. gate.pc = "register" /\ row' = [row EXCEPT !.status = "running", !.pid = gate.proc]
    BY <2>2 DEF Register
  <2>4. row.enabled /\ row \in Row
    BY <2>3, UnderWay DEF Sound
  <2> QED BY <2>3, <2>4 DEF Row, Exists
<1>2. CASE Operator \/ Import \/ Reconcile
  <2>1. ASSUME Entry PROVE Lets
    BY <2>1 DEF Entry, LeavesGate, TakesGateToStop, TakesGateToStart
  <2>2. ASSUME NEW p \in Proc, ReconcileOrphan(p) PROVE Lets
    BY <2>2 DEF ReconcileOrphan, procVars
  <2>3. ~Import
    BY ImportsNothing DEF Sound, Tended
  <2> QED BY <1>2, <2>1, <2>2, <2>3, OperatorEntry, ReconcileEntry DEF Reconcile
<1>3. CASE Requests \/ Background
  BY <1>3, StopEffect DEF Requests, EnsureStarted, releaseRef, Background, Wait,
     restartAfterBackoff, TouchInstance, scanScaleToZero, parkIfStillIdle, procVars
<1>4. CASE Lifecycle
  BY <1>4, StopEffect DEF Lifecycle, BeginShutdown, ShutdownList, ShutdownStop, ShutdownDone,
     Crash, forget, Boot, BootDone, procVars
<1>5. CASE CallerGone \/ (\E p \in Proc : ProcExit(p)) \/ UNCHANGED vars
  BY <1>5 DEF CallerGone, ProcExit, vars, procVars
<1> QED BY <1>1, <1>2, <1>3, <1>4, <1>5 DEF Next

\* A call that leaves an instance enables it or leaves it as it was.
LEMMA CallKeepsEnabled ==
    ASSUME TypeOK, Operator, row.enabled, Exists, Exists'
    PROVE  row'.enabled
<1>0. row \in Row /\ row.enabled = TRUE /\ row.mode \in Overrides
  BY FieldTypes DEF TypeOK
<1> DEFINE Keeps == \/ row' \in {row, StoppedRow(TRUE)}
                    \/ \E m \in Overrides : row' \in {OnDemandRow(m), [row EXCEPT !.mode = m],
                                                      [StoppedRow(TRUE) EXCEPT !.mode = m]}
<1>1. Keeps => row'.enabled
  BY <1>0 DEF Row, StoppedRow, OnDemandRow
<1> HIDE DEF Keeps
<1>2. CASE Start \/ Stop \/ Restart
  BY <1>2, <1>1 DEF Start, Stop, Restart, Keeps
<1>3. ASSUME NEW op, NEW m \in Overrides, NEW flag, restartLocked(op, m, flag) PROVE Keeps
  BY <1>0, <1>3 DEF restartLocked, Keeps
<1>4. CASE UpdateConfig
  BY <1>0, <1>1, <1>3, <1>4 DEF UpdateConfig
<1>5. CASE Delete
  <2>1. \/ row' = row
        \/ row' = [StoppedRow(FALSE) EXCEPT !.status = "absent", !.mode = "inherit"]
    BY <1>5 DEF Delete
  <2>2. row' # [StoppedRow(FALSE) EXCEPT !.status = "absent", !.mode = "inherit"]
    BY <1>0 DEF StoppedRow, Row, Exists
  <2> QED BY <1>0, <2>1, <2>2
<1>6. ~ \E m \in Overrides, s \in BOOLEAN : Create(m, s)
  BY DEF Create
<1>7. CASE SyncUnchanged
  BY <1>0, <1>1, <1>7 DEF SyncUnchanged, Keeps
<1>8. ASSUME NEW m \in Overrides, SetRuntimeMode(m) PROVE Keeps
  BY <1>8 DEF SetRuntimeMode, SetModeSameResident, SetModeOnDemand,
     SetModeOnDemandToLongRunning, SetModeToScaleToZero, SetModeToLongRunning,
     SetModeOnDemandToScaleToZero, Keeps
<1>9. ASSUME NEW m \in Overrides, Sync(m) PROVE Keeps
  BY <1>0, <1>3, <1>9 DEF Sync, SyncOnDemand, SyncFromOnDemand, SyncResident, Keeps
<1> QED BY <1>1, <1>2, <1>4, <1>5, <1>6, <1>7, <1>8, <1>9 DEF Operator

\* An instance with a process in the table is not disabled: its process is taken
\* out first.
LEMMA EnabledKept ==
    ASSUME NoImport, Sound, [Next]_vars, Exists, row.enabled, Exists', tracked' # None
    PROVE  row'.enabled
<1> USE DEF Sound
<1>0. row \in Row /\ row.enabled = TRUE
  BY FieldTypes DEF TypeOK
<1>1. CASE OperationStep
  <2>1. CASE StopDone \/ StopFail
    BY <2>1 DEF StopDone, StopFail, Tended, StopIntended, procVars
  <2>2. ASSUME NEW p \in Proc, StartBegin(p) PROVE row'.enabled
    BY <1>0, <2>2 DEF StartBegin, Row
  <2>3. CASE Spawn \/ Register \/ Healthy
    BY <1>0, <2>3 DEF Spawn, Register, Healthy, Row
  <2>4. CASE StartEarlyFail \/ SpawnFail \/ RegisterReplaced \/ RegisterFail \/ HealthFail
    <3>1. PICK r \in {row, StoppedRow(TRUE), [row EXCEPT !.status = "failed"],
                      [row EXCEPT !.status = "failed", !.pid = None, !.addr = None]} :
             failStart(r)
      BY <2>4 DEF StartEarlyFail, SpawnFail, RegisterReplaced, RegisterFail, HealthFail
    <3>2. r.enabled /\ r = [r EXCEPT !.enabled = TRUE]
      BY <1>0, <3>1 DEF StoppedRow, Row
    <3>3. \/ row' = r
          \/ row' = [r EXCEPT !.enabled = TRUE, !.status = "degraded", !.pid = None,
                              !.addr = gate.addr]
      BY <3>1 DEF failStart
    <3>4. \E e, st, pd, ad, md : r = [enabled |-> e, status |-> st, pid |-> pd,
                                      addr |-> ad, mode |-> md]
      BY <1>0, <3>1 DEF StoppedRow, Row
    <3> QED BY <3>2, <3>3, <3>4
  <2>5. CASE RollBack
    BY <1>0, <2>5 DEF RollBack, OnDemandRow, Row
  <2> QED BY <1>1, <2>1, <2>2, <2>3, <2>4, <2>5 DEF OperationStep
<1>2. CASE Operator
  BY <1>2, CallKeepsEnabled
<1>3. ~Import
  BY ImportsNothing DEF Tended
<1>4. CASE Requests \/ Lifecycle \/ CallerGone \/ (\E p \in Proc : ProcExit(p)) \/ UNCHANGED vars
  BY <1>4 DEF Requests, EnsureStarted, releaseRef, Lifecycle, BeginShutdown, ShutdownList,
     ShutdownStop, ShutdownDone, Crash, Boot, BootDone, CallerGone, ProcExit, vars
<1>5. CASE Background
  <2>1. ASSUME NEW p \in Proc, Wait(p) PROVE row'.enabled
    BY <1>0, <2>1 DEF Wait, Row
  <2> QED BY <1>5, <2>1 DEF Background, restartAfterBackoff, TouchInstance, scanScaleToZero,
             parkIfStillIdle
<1>6. CASE Reconcile
  <2>1. row' \in {row, StoppedRow(TRUE)}
    BY <1>6 DEF Reconcile, ReconcileOrphan, ReconcileSurplus, ReconcileStale,
       ReconcileMissing, ReconcileMissingTracked
  <2> QED BY <1>0, <2>1, StoppedFields
<1> QED BY <1>1, <1>2, <1>3, <1>4, <1>5, <1>6 DEF Next

\* The idle stopper stops what is in the table, and the row waits for it.
LEMMA ParkTakes ==
    ASSUME NoImport, Ready, [Next]_vars, gate'.op = "Park"
    PROVE  /\ row' = row
           /\ \/ gate'.proc = tracked /\ tracked # None
              \/ gate.op = "Park" /\ gate'.proc = gate.proc
<1> USE DEF Ready, Sound
<1>t. gate \in Gate /\ (GateFree => gate.op = "none")
  BY DEF TypeOK, GateFree, FreeGate
<1>e. ~Entry
  BY <1>t DEF Entry, LeavesGate, TakesGateToStop, TakesGateToStart
<1>1. ~OperationStep
  <2> SUFFICES ASSUME OperationStep PROVE FALSE
    OBVIOUS
  <2>1. gate.op = "Park"
    BY OperationKeepsName
  <2>2. gate.pc = "stop" /\ gate.then = "done"
    BY <2>1 DEF ParkStops
  <2>3. StopDone \/ StopFail
    BY <2>2 DEF OperationStep, StartBegin, StartEarlyFail, Spawn, SpawnFail, Register,
       RegisterReplaced, RegisterFail, Healthy, HealthFail, RollBack
  <2>4. gate' = FreeGate
    BY <2>2, <2>3 DEF StopDone, StopFail, Release
  <2> QED BY <2>4 DEF FreeGate
<1>2. ~Operator /\ ~Import
  BY <1>e, OperatorEntry, ImportsNothing DEF Tended
<1> DEFINE Same == row' = row /\ gate' = gate
<1>3. CASE parkIfStillIdle
  BY <1>3, StopEffect DEF parkIfStillIdle
<1>4. CASE Reconcile
  <2>1. ASSUME NEW p \in Proc, ReconcileOrphan(p) PROVE Same
    BY <2>1 DEF ReconcileOrphan
  <2> QED BY <1>4, <1>e, <2>1, ReconcileEntry DEF Reconcile
<1>5. CASE Requests
  BY <1>5, StartEffect DEF Requests, EnsureStarted, releaseRef
<1>6. CASE Background /\ ~parkIfStillIdle
  <2>1. ASSUME NEW p \in Proc, Wait(p) PROVE FALSE
    BY <1>t, <2>1 DEF Wait
  <2>2. ~restartAfterBackoff
    BY <1>t DEF restartAfterBackoff, Enter, FreeGate
  <2>3. TouchInstance \/ scanScaleToZero => Same
    BY DEF TouchInstance, scanScaleToZero
  <2> QED BY <1>6, <2>1, <2>2, <2>3 DEF Background
<1>7. CASE Lifecycle
  <2>1. BeginShutdown \/ ShutdownList \/ BootDone => Same
    BY DEF BeginShutdown, ShutdownList, BootDone
  <2>2. ~ShutdownStop
    BY <1>t, StopEffect DEF ShutdownStop
  <2>3. ~(ShutdownDone \/ Crash)
    BY DEF ShutdownDone, Crash, forget, FreeGate
  <2>4. Boot => Same
    BY DEF Boot, FreeGate
  <2> QED BY <1>7, <2>1, <2>2, <2>3, <2>4 DEF Lifecycle
<1>8. CASE CallerGone
  <2>1. row' = row /\ gate'.op = gate.op /\ gate'.proc = gate.proc
    BY <1>8, <1>t DEF CallerGone, Gate
  <2> QED BY <2>1
<1>9. CASE (\E p \in Proc : ProcExit(p)) \/ UNCHANGED vars
  BY <1>9 DEF ProcExit, vars
<1> QED BY <1>1, <1>2, <1>3, <1>4, <1>5, <1>6, <1>7, <1>8, <1>9 DEF Next

\* The inductive step.
LEMMA NextInherits ==
    ASSUME NoImport, Ready, Inherits, [Next /\ remember]_historyVars
    PROVE  Inherits'
<1>1. CASE UNCHANGED historyVars
  BY <1>1 DEF historyVars, vars, procVars, Inherits, Exists
<1>2. CASE Next /\ remember
  <2>s. Sound
    BY DEF Ready
  <2>1. ASSUME tracked' # None, ~(Exists /\ row.enabled)' PROVE tracked' = left'
    <3>1. tracked' = tracked
      BY <1>2, <2>1, <2>s, OnlyStartsTrack
    <3>2. ~deletes => ~(Exists /\ row.enabled)
      BY <1>2, <2>1, <2>s, EnabledKept DEF deletes
    <3> QED BY <1>2, <2>1, <3>1, <3>2 DEF remember, Inherits
  <2>2. ASSUME gate'.op = "Park" PROVE gate'.proc = left' \/ (Exists /\ row.enabled)'
    <3>1. row' = row /\ (\/ gate'.proc = tracked /\ tracked # None
                         \/ gate.op = "Park" /\ gate'.proc = gate.proc)
      BY <1>2, <2>2, ParkTakes
    <3>2. ~deletes
      BY <3>1 DEF deletes, Exists
    <3> QED BY <1>2, <3>1, <3>2 DEF remember, Inherits, Exists
  <2> QED BY <2>1, <2>2 DEF Inherits
<1> QED BY <1>1, <1>2

\* An operation enables only for the operator.
LEMMA OperationEnables ==
    ASSUME Sound, Inherits, OperationStep, ~row.enabled, row'.enabled
    PROVE  ByOperator
<1> USE DEF Sound
<1>1. gate.pc \in {"stop", "start", "spawn", "register", "health", "rollback"}
  BY OperationRuns DEF Owned, TypeOK, Gate
<1>2. CASE gate.pc = "stop"
  <2>1. StopDone \/ StopFail
    BY <1>2 DEF OperationStep, StartBegin, StartEarlyFail, Spawn, SpawnFail, Register,
       RegisterReplaced, RegisterFail, Healthy, HealthFail, RollBack
  <2>2. gate.enabled
    BY <2>1, <1>2, StopEnables DEF Tended, StopIntended
  <2> QED BY <1>2, <2>2 DEF Tended, StopIntended, Inherits, ByOperator
<1>3. CASE gate.pc # "stop"
  BY <1>1, <1>3 DEF Tended, StartDescribes, StartIntended, ByOperator
<1> QED BY <1>2, <1>3

\* A call enables only if it is a mode switch or a sync that changes something.
LEMMA CallEnables ==
    ASSUME Sound, Operator, Exists, ~row.enabled, row'.enabled
    PROVE  ByOperator
<1> USE DEF Sound
<1>0. row \in Row /\ row.enabled \in BOOLEAN
  BY FieldTypes DEF TypeOK
<1>1. ~(Start \/ Stop \/ Restart)
  BY DEF Start, Stop, Restart
<1>2. ~UpdateConfig
  <2> SUFFICES ASSUME UpdateConfig PROVE FALSE
    OBVIOUS
  <2>1. PICK r \in {row, StoppedRow(row.enabled)} : row' = [r EXCEPT !.mode = row.mode]
    BY DEF UpdateConfig, restartLocked
  <2>2. r \in Row /\ ~r.enabled
    BY <1>0, <2>1, RowTypes, StoppedFields, FieldTypes
  <2> QED BY <2>1, <2>2, OverrideFields, FieldTypes
<1>3. ~Delete
  <2>1. ASSUME row' = [StoppedRow(FALSE) EXCEPT !.status = "absent", !.mode = "inherit"]
        PROVE  FALSE
    BY <1>0, <2>1 DEF StoppedRow, Row
  <2> QED BY <2>1 DEF Delete
<1>4. ~ \E m \in Overrides, s \in BOOLEAN : Create(m, s)
  BY DEF Create
<1>5. ~SyncUnchanged
  <2> SUFFICES ASSUME SyncUnchanged PROVE FALSE
    OBVIOUS
  <2>1. row' = row \/ row.enabled \/ Mode = OD
    BY DEF SyncUnchanged
  <2> QED BY <2>1 DEF Tended, DisabledRests
<1> QED BY <1>1, <1>2, <1>3, <1>4, <1>5 DEF Operator, ByOperator

\* What runs by itself enables nothing.
LEMMA OthersEnableNothing ==
    ASSUME NoImport, Sound, ~row.enabled, [Next]_vars, ~OperationStep, ~Operator
    PROVE  ~row'.enabled
<1> USE DEF Sound
<1>0. row \in Row
  BY DEF TypeOK
<1>1. ~Import
  BY ImportsNothing DEF Tended
<1>2. CASE Requests \/ Lifecycle \/ CallerGone \/ (\E p \in Proc : ProcExit(p)) \/ UNCHANGED vars
  BY <1>2 DEF Requests, EnsureStarted, releaseRef, Lifecycle, BeginShutdown, ShutdownList,
     ShutdownStop, ShutdownDone, Crash, Boot, BootDone, CallerGone, ProcExit, vars
<1>3. CASE Background
  <2>1. ASSUME NEW p \in Proc, Wait(p) PROVE row' = row
    BY <2>1 DEF Wait, OwnsExit
  <2> QED BY <1>3, <2>1 DEF Background, restartAfterBackoff, TouchInstance, scanScaleToZero,
             parkIfStillIdle
<1>4. CASE Reconcile
  BY <1>4 DEF Reconcile, ReconcileOrphan, ReconcileSurplus, ReconcileStale, ReconcileMissing,
     ReconcileMissingTracked, staleClaim
<1> QED BY <1>1, <1>2, <1>3, <1>4 DEF Next

\* What the operator has stopped stays stopped, through crashes of processes and
\* of the daemon, timers, requests, scans and reconcile passes, until a call of
\* the operator enables it; a scan may wake it only over a process that an earlier
\* instance of the same id left in the table.
THEOREM StopIsFinal == ASSUME NoImport PROVE HistorySpec => StopWins
<1> DEFINE Inv == Ready /\ Inherits
<1>1. Init /\ left = None => Inv
  BY InitReady DEF Init, FreeGate, Inherits
<1>2. Inv /\ [Next /\ remember]_historyVars => Inv'
  <2>1. [Next /\ remember]_historyVars => [Next]_vars
    BY DEF historyVars
  <2> QED BY <2>1, NextReady, NextInherits
<1>3. Inv /\ [Next /\ remember]_historyVars =>
        [reEnabled => \/ gate.op \in {"Start", "SetRuntimeMode", "Create"}
                      \/ gate.op = "Park" /\ gate.proc = left
                      \/ \E m \in Overrides : SetRuntimeMode(m) \/ Sync(m)]_historyVars
  <2> SUFFICES ASSUME Inv, [Next]_vars, reEnabled PROVE ByOperator
    BY DEF historyVars, ByOperator, Enablers
  <2>1. Exists /\ ~row.enabled /\ row'.enabled
    BY DEF reEnabled
  <2> QED BY <2>1, OperationEnables, CallEnables, OthersEnableNothing DEF Ready
<1> QED BY <1>1, <1>2, <1>3, PTL DEF HistorySpec, StopWins

-----------------------------------------------------------------------------
(* Each step as the callers of the instance see it                          *)

\* A call never makes the row tell an address.
LEMMA OperatorTells ==
    ASSUME TypeOK, Operator
    PROVE  told' \in {told, None}
<1> DEFINE Gone  == [StoppedRow(FALSE) EXCEPT !.status = "absent", !.mode = "inherit"]
           Shape == \/ row' \in {row, Gone}
                    \/ \E m \in Overrides, on \in BOOLEAN :
                          row' \in {[row EXCEPT !.mode = m], OnDemandRow(m), StoppedRow(on),
                                    [StoppedRow(on) EXCEPT !.mode = m]}
<1>0. /\ row.enabled \in BOOLEAN /\ row.mode \in Overrides
      /\ TRUE \in BOOLEAN /\ FALSE \in BOOLEAN
  BY FieldTypes
<1>1. Shape => told' \in {told, None}
  <2>1. CASE row' \in {row, Gone}
    BY <2>1, AbsentTells DEF told
  <2>2. ASSUME NEW m \in Overrides, NEW on \in BOOLEAN,
               row' \in {[row EXCEPT !.mode = m], OnDemandRow(m), StoppedRow(on),
                         [StoppedRow(on) EXCEPT !.mode = m]}
        PROVE  told' \in {told, None}
    BY <2>2, RowTells DEF told
  <2> QED BY <2>1, <2>2
<1> DEFINE Landed(m) == \E on \in BOOLEAN :
                           row' \in {[row EXCEPT !.mode = m], [StoppedRow(on) EXCEPT !.mode = m]}
<1>2. ASSUME NEW op, NEW m \in Overrides, NEW flag, restartLocked(op, m, flag) PROVE Landed(m)
  BY <1>0, <1>2 DEF restartLocked
<1>3. ASSUME NEW m \in Overrides, Landed(m) PROVE Shape
  BY <1>3
<1> HIDE DEF Landed
<1>4. Start \/ Stop \/ Restart \/ Delete => Shape
  BY DEF Start, Stop, Restart, Delete
<1>5. UpdateConfig => Shape
  BY <1>0, <1>2, <1>3 DEF UpdateConfig
<1>6. SyncUnchanged => Shape
  BY <1>0 DEF SyncUnchanged
<1>7. ASSUME NEW m \in Overrides, NEW s \in BOOLEAN, Create(m, s) PROVE told' \in {told, None}
  BY <1>7 DEF Create, told, tells
<1>8. ASSUME NEW m \in Overrides, SetRuntimeMode(m) PROVE Shape
  BY <1>0, <1>8 DEF SetRuntimeMode, SetModeSameResident, SetModeOnDemand,
     SetModeOnDemandToLongRunning, SetModeToScaleToZero, SetModeToLongRunning,
     SetModeOnDemandToScaleToZero
<1>9. ASSUME NEW m \in Overrides, Sync(m) PROVE Shape
  <2>1. SyncOnDemand(m) => Shape
    BY DEF SyncOnDemand
  <2>2. SyncFromOnDemand(m) => Landed(m)
    BY <1>0 DEF SyncFromOnDemand, Landed
  <2>3. ASSUME NEW c \in BOOLEAN, SyncResident(m, c) PROVE Landed(m)
    <3> DEFINE flag == tracked # None /\ EffectiveRuntimeMode(m) = STZ
    <3>1. \/ restartLocked("Create", m, flag)
          \/ \E r \in {row, StoppedRow(TRUE)} : row' = [r EXCEPT !.mode = m]
      BY <2>3 DEF SyncResident
    <3> QED BY <1>0, <1>2, <3>1 DEF Landed
  <2> QED BY <1>3, <1>9, <2>1, <2>2, <2>3 DEF Sync
<1> QED BY <1>1, <1>4, <1>5, <1>6, <1>7, <1>8, <1>9 DEF Operator

\* A call of the operator is steady: what it starts is not there yet.
LEMMA OperatorServes ==
    ASSUME Ready, Ready', Operator
    PROVE  Serves
<1>1. TypeOK /\ Entry
  BY OperatorEntry DEF Ready, Sound
<1>2. refs' = refs
  BY DEF Operator, Start, Stop, Restart, UpdateConfig, Delete, Create, SyncUnchanged,
     SetRuntimeMode, SetModeSameResident, SetModeOnDemand,
     SetModeOnDemandToLongRunning, SetModeToScaleToZero, SetModeToLongRunning,
     SetModeOnDemandToScaleToZero, Sync, SyncOnDemand, SyncFromOnDemand, SyncResident
<1>3. accepting' = accepting /\ parking' = parking /\ alive' = alive
  BY <1>1, EntryReady DEF Entry, accepting, osVars
<1>4. tracked' \in {tracked, None}
  BY <1>1 DEF Entry, LeavesGate, TakesGateToStop, TakesGateToStart
<1>5. told' \in {told, None}
  BY <1>1, OperatorTells
<1> QED BY <1>2, <1>3, <1>4, <1>5, SteadyStep DEF Steady

\* A stop withdraws the address last; the idle stopper's is over with it.
LEMMA StopServes ==
    ASSUME Ready, Ready', StopDone \/ StopFail
    PROVE  Serves
<1>0. /\ TypeOK /\ gate \in Gate /\ gate.pc = "stop" /\ tracked = None /\ None \notin alive
      /\ gate.enabled \in BOOLEAN /\ gate.mode \in Overrides
  BY NoneAssumption, FieldTypes
     DEF Ready, Sound, TypeOK, StopDone, StopFail, Tended, StopIntended
<1>1. UNCHANGED <<tracked, alive, refs, accepting>>
  BY DEF StopDone, StopFail, procVars, osVars, lifeVars, accepting
<1>2. told' = None
  <2>1. row' \in {StoppedRow(gate.enabled), OnDemandRow(gate.mode),
                  [StoppedRow(FALSE) EXCEPT !.status = "absent", !.mode = "inherit"]}
    BY DEF StopDone, StopFail
  <2> QED BY <1>0, <2>1, RowTells, AbsentTells DEF told
<1>3. CASE gate.op = "Park"
  <2>1. gate' = FreeGate
    BY <1>3 DEF Ready, ParkStops, StopDone, StopFail, Release
  <2>2. parking /\ parking' = FALSE
    BY <1>3, <2>1 DEF parking, FreeGate
  <2>3. serving' = serving /\ users' = users
    BY <1>1 DEF serving, liveProcess, users
  <2>4. Served!Parked
    BY <1>1, <1>2, <2>2, <2>3 DEF Served!Parked
  <2> QED BY <2>4 DEF Serves, Served!Next
<1>4. CASE gate.op # "Park"
  <2>1. \/ gate' = FreeGate
        \/ gate' = [gate EXCEPT !.pc = "start", !.proc = None, !.then = "done"]
    BY DEF StopDone, StopFail, Release
  <2>2. gate'.op \in {gate.op, "none"}
    <3>1. CASE gate' = FreeGate
      BY <3>1 DEF FreeGate
    <3>2. CASE gate' = [gate EXCEPT !.pc = "start", !.proc = None, !.then = "done"]
      BY <1>0, <3>2 DEF Gate
    <3> QED BY <2>1, <3>1, <3>2
  <2>3. parking' = parking
    BY <1>4, <2>2 DEF parking
  <2> QED BY <1>1, <1>2, <2>3, SteadyStep DEF Steady
<1> QED BY <1>3, <1>4

\* A start that fails tells no more than the row it leaves.
LEMMA FailStartTells ==
    ASSUME Ready, gate.pc # "stop", NEW r \in Row, failStart(r)
    PROVE  told' \in {tells(r), None} /\ parking' = parking
<1>1. gate \in Gate /\ gate.op # "Park"
  BY DEF Ready, Sound, TypeOK, ParkStops
<1>2. gate'.op \in {gate.op, "none"}
  BY <1>1, FailStartLeaves
<1>3. told' \in {tells(r), None}
  <2>1. CASE gate.op = "Backoff" /\ ~Cancelled
    BY <2>1 DEF failStart, Row, told, tells
  <2>2. CASE ~(gate.op = "Backoff" /\ ~Cancelled)
    BY <2>2 DEF failStart, told
  <2> QED BY <2>1, <2>2
<1> QED BY <1>1, <1>2, <1>3 DEF parking

\* A failed start announces nothing: its process goes, or was never seen.
LEMMA FailureServes ==
    ASSUME Ready, Ready',
           StartEarlyFail \/ SpawnFail \/ RegisterReplaced \/ RegisterFail \/ HealthFail
    PROVE  Serves
<1>0. TypeOK /\ row \in Row
  BY DEF Ready, Sound, TypeOK
<1>1. gate.pc # "stop" /\ UNCHANGED <<refs, accepting>>
  BY DEF StartEarlyFail, SpawnFail, RegisterReplaced, RegisterFail, HealthFail, lifeVars,
         accepting
<1>2. tracked' \in {tracked, None} /\ alive' \subseteq alive
  BY DEF StartEarlyFail, SpawnFail, RegisterReplaced, RegisterFail, HealthFail, procVars,
         osVars, cleanupFailedStart
<1> DEFINE Failed   == [row EXCEPT !.status = "failed"]
           Unhealthy == [row EXCEPT !.status = "failed", !.pid = None, !.addr = None]
<1>3. PICK r \in {row, StoppedRow(TRUE), Failed, Unhealthy} : failStart(r)
  BY DEF StartEarlyFail, SpawnFail, RegisterReplaced, RegisterFail, HealthFail
<1>4. r \in Row
  <2>1. Failed \in Row /\ Unhealthy \in Row
    BY <1>0 DEF Row, Statuses, MaybeProc
  <2> QED BY <1>0, <1>3, <2>1, RowTypes, FieldTypes
<1>5. tells(r) \in {told, None}
  <2>1. tells(Failed) = None /\ tells(Unhealthy) = None
    BY <1>0 DEF Row, tells
  <2>2. tells(StoppedRow(TRUE)) = None
    BY <1>0, RowTells, FieldTypes
  <2> QED BY <1>3, <2>1, <2>2 DEF told
<1>6. told' \in {told, None} /\ parking' = parking
  BY <1>1, <1>3, <1>4, <1>5, FailStartTells
<1> QED BY <1>1, <1>2, <1>6, SteadyStep DEF Steady

\* A process is announced when it is registered; nobody holds it yet.
LEMMA RegisterServes ==
    ASSUME Ready, Ready', Register
    PROVE  Serves
<1>0. /\ TypeOK /\ row \in Row /\ gate \in Gate /\ gate.pc = "register"
      /\ gate.proc \in Proc /\ row.addr = gate.proc /\ ~liveProcess
      /\ UNCHANGED <<daemon, refs, alive>> /\ tracked' = gate.proc
  BY DEF Ready, Sound, TypeOK, Register, Owned, OperationOwnsProcess, Tended,
         StartDescribes, lifeVars, osVars
<1>1. accepting /\ accepting'
  BY <1>0 DEF Register, StartCtxDone, Cancelled, Ready, Sound, TypeOK, Owned,
              OperationOwnsProcess, accepting
<1>2. ~parking /\ ~parking'
  <2>1. gate'.op = gate.op /\ gate.op # "Park"
    BY <1>0 DEF Register, Gate, Ready, ParkStops
  <2> QED BY <2>1 DEF parking
<1>3. serving = None /\ serving' \in {gate.proc, None}
  BY <1>0 DEF serving, liveProcess
<1>4. told' = gate.proc
  BY <1>0 DEF Register, Row, told, tells
<1>5. users = {} /\ users' = {}
  BY <1>0, <1>3 DEF users, Ready, Unclaimed
<1>6. Served!Launch(gate.proc)
  BY <1>1, <1>2, <1>3, <1>4, <1>5 DEF Served!Launch, accepting, parking
<1> QED BY <1>0, <1>6 DEF Serves, Served!Next

\* A request that is let to the process uses it.
LEMMA UseServes ==
    ASSUME TypeOK, liveProcess, accepting, NEW r \in Req,
           refs' = [refs EXCEPT ![r] = tracked],
           UNCHANGED <<row, daemon, tracked, alive, parking>>
    PROVE  Serves
<1>1. serving = tracked /\ tracked # None /\ serving' = serving
  BY NoneAssumption DEF TypeOK, liveProcess, serving
<1>2. users' = users \union {r}
  BY <1>1 DEF users, TypeOK
<1>3. UNCHANGED <<accepting, told>>
  BY DEF accepting, told
<1>4. Served!Use(r)
  BY <1>1, <1>2, <1>3 DEF Served!Use
<1> QED BY <1>4 DEF Serves, Served!Next

\* The other steps of an operation: a port and a fork that nobody sees, a healthy
\* process handed to the request that asked for it, a rollback.
LEMMA StartServes ==
    ASSUME Ready, Ready', Spawn \/ Healthy \/ RollBack \/ \E p \in Proc : StartBegin(p)
    PROVE  Serves
<1>0. TypeOK /\ row \in Row /\ gate \in Gate /\ (gate.pc # "stop" => gate.op # "Park")
  BY DEF Ready, Sound, TypeOK, ParkStops
<1>1. ASSUME NEW p \in Proc, StartBegin(p) PROVE Serves
  <2>1. UNCHANGED <<refs, accepting, tracked, alive>>
    BY <1>1 DEF StartBegin, procVars, osVars, lifeVars, accepting
  <2>2. parking' = parking
    BY <1>0, <1>1 DEF StartBegin, Gate, parking
  <2>3. told' = None
    BY <1>0, <1>1 DEF StartBegin, Row, told, tells
  <2> QED BY <2>1, <2>2, <2>3, SteadyStep DEF Steady
<1>2. CASE Spawn
  <2>1. UNCHANGED <<refs, accepting, told, tracked>>
    BY <1>2 DEF Spawn, procVars, lifeVars, accepting, told
  <2>2. parking' = parking
    BY <1>0, <1>2 DEF Spawn, Gate, parking
  <2>3. alive' = alive \union {gate.proc} /\ gate.proc # tracked
    BY <1>2 DEF Spawn, Ready, Sound, Owned, OperationOwnsProcess
  <2> QED BY <2>1, <2>2, <2>3, SteadyStep DEF Steady
<1>3. CASE Healthy
  <2>1. /\ UNCHANGED <<row, daemon, tracked, alive>> /\ gate.pc = "health"
        /\ liveProcess
    BY <1>3 DEF Healthy, procVars, lifeVars, Ready, Sound, Owned, OperationOwnsProcess,
                liveProcess
  <2>2. accepting
    BY <1>0, <1>3 DEF Healthy, Cancelled, Ready, Sound, TypeOK, Owned, OperationOwnsProcess,
                      accepting
  <2>3. parking' = parking
    BY <1>0, <1>3, <2>1 DEF Healthy, Release, FreeGate, parking
  <2>4. CASE gate.req \in Req /\ refs' = [refs EXCEPT ![gate.req] = tracked]
    BY <1>0, <2>1, <2>2, <2>3, <2>4, UseServes
  <2>5. CASE refs' = refs
    <3>1. accepting' = accepting /\ told' = told
      BY <2>1 DEF accepting, told
    <3> QED BY <2>1, <2>3, <2>5, <3>1, SteadyStep DEF Steady
  <2>6. gate.req \notin Req => [refs EXCEPT ![gate.req] = tracked] = refs
    BY <1>0 DEF TypeOK
  <2> QED BY <1>3, <2>4, <2>5, <2>6 DEF Healthy
<1>4. CASE RollBack
  <2>1. UNCHANGED <<refs, accepting, alive>> /\ gate.pc = "rollback"
    BY <1>4 DEF RollBack, osVars, lifeVars, accepting
  <2>2. \/ Release /\ tracked' = tracked /\ row' \in {row, OnDemandRow(gate.mode)}
        \/ /\ gate.op = "SetRuntimeMode" /\ row' = row
           /\ stopProcess(gate.op, TRUE, "onDemand", gate.mode)
    BY <1>4 DEF RollBack, procVars
  <2>3. tracked' \in {tracked, None} /\ gate'.op \in {gate.op, "none"}
    <3>1. CASE Release /\ tracked' = tracked
      BY <3>1 DEF Release, FreeGate
    <3>2. CASE stopProcess(gate.op, TRUE, "onDemand", gate.mode)
      BY <3>2, StopEffect
    <3> QED BY <2>2, <3>1, <3>2
  <2>4. parking' = parking
    BY <1>0, <2>1, <2>3 DEF parking
  <2>5. told' \in {told, None}
    BY <1>0, <2>2, FieldTypes, RowTells DEF told
  <2> QED BY <2>1, <2>3, <2>4, <2>5, SteadyStep DEF Steady
<1> QED BY <1>1, <1>2, <1>3, <1>4

\* A request uses the process, leaves it, or waits for one to be started.
LEMMA RequestsServe ==
    ASSUME Ready, Ready', Requests
    PROVE  Serves
<1>0. TypeOK /\ (GateFree => gate.op = "none")
  BY DEF Ready, Sound, TypeOK, GateFree, FreeGate
<1>1. ASSUME NEW r \in Req, EnsureStarted(r) PROVE Serves
  <2>1. UNCHANGED <<row, daemon, tracked, alive>> /\ GateFree /\ accepting
    BY <1>1 DEF EnsureStarted, Enter, osVars, lifeVars, accepting
  <2>2. CASE liveProcess /\ refs' = [refs EXCEPT ![r] = tracked] /\ gate' = gate
    BY <1>0, <2>1, <2>2, UseServes DEF parking
  <2>3. CASE startLocked("EnsureStarted", "done", row.mode, r) /\ refs' = refs
    <3>1. UNCHANGED <<accepting, told>>
      BY <2>1 DEF accepting, told
    <3>2. parking' = parking
      BY <1>0, <2>1, <2>3, StartEffect DEF parking
    <3> QED BY <2>1, <2>3, <3>1, <3>2, SteadyStep DEF Steady
  <2> QED BY <1>1, <2>2, <2>3 DEF EnsureStarted
<1>2. ASSUME NEW r \in Req, releaseRef(r) PROVE Serves
  <2>1. /\ refs' = [refs EXCEPT ![r] = None]
        /\ UNCHANGED <<row, gate, daemon, tracked, alive>>
    BY <1>2 DEF releaseRef, procVars, osVars, lifeVars
  <2>2. UNCHANGED <<accepting, serving, told, parking>>
    BY <2>1 DEF accepting, serving, liveProcess, told, parking
  <2>3. users' = users \ {r}
    BY <1>0, <2>1, <2>2 DEF users, TypeOK
  <2>4. Served!Leave(r)
    BY <2>2, <2>3 DEF Served!Leave
  <2> QED BY <2>4 DEF Serves, Served!Next
<1> QED BY <1>1, <1>2 DEF Requests

\* Exit watchers, timers and the scan announce nothing; the idle stopper parks
\* what nobody uses.
LEMMA BackgroundServes ==
    ASSUME Ready, Ready', Background
    PROVE  Serves
<1>0. TypeOK /\ row \in Row /\ (GateFree => gate.op = "none") /\ None \notin alive
  BY NoneAssumption DEF Ready, Sound, TypeOK, GateFree, FreeGate
<1>1. ASSUME NEW p \in Proc, Wait(p) PROVE Serves
  <2>1. UNCHANGED <<refs, accepting, parking, alive>> /\ tracked' \in {tracked, None}
    BY <1>1 DEF Wait, procVars, lifeVars, accepting, parking
  <2>2. \/ row' = row
        \/ row' = [row EXCEPT !.status = "degraded", !.pid = None, !.addr = None]
        \/ row' = [row EXCEPT !.status = "degraded", !.pid = None]
    BY <1>1 DEF Wait
  <2>3. told' \in {told, None}
    BY <1>0, <2>2 DEF Row, told, tells
  <2> QED BY <2>1, <2>3, SteadyStep DEF Steady
<1>2. CASE restartAfterBackoff \/ TouchInstance \/ scanScaleToZero
  <2>1. UNCHANGED <<row, refs, daemon, tracked, alive>>
    BY <1>2 DEF restartAfterBackoff, TouchInstance, scanScaleToZero, procVars, osVars, lifeVars
  <2>2. gate' = gate \/ (GateFree /\ gate'.op = "Backoff")
    BY <1>2 DEF restartAfterBackoff, TouchInstance, scanScaleToZero, Enter, FreeGate
  <2>3. UNCHANGED <<accepting, told, parking>>
    BY <1>0, <2>1, <2>2 DEF accepting, told, parking
  <2> QED BY <2>1, <2>3, SteadyStep DEF Steady
<1>3. CASE parkIfStillIdle
  <2>1. /\ UNCHANGED <<row, refs, daemon, alive>> /\ daemon = "up" /\ GateFree
        /\ tracked # None /\ ~RefsHeld
    BY <1>3 DEF parkIfStillIdle, Enter, osVars, lifeVars
  <2>2. gate'.op = "Park" /\ tracked' = None
    BY <1>3, StopEffect DEF parkIfStillIdle
  <2>3. accepting /\ accepting' /\ ~parking /\ parking' /\ told' = told
    BY <1>0, <2>1, <2>2 DEF accepting, parking, told
  <2>4. serving' = None /\ users' = {}
    BY <1>0, <2>1, <2>2 DEF serving, liveProcess, users
  <2>5. users = {}
    BY <2>1 DEF users, serving, RefsHeld
  <2>6. Served!Park
    BY <2>3, <2>4, <2>5 DEF Served!Park, accepting, parking
  <2> QED BY <2>6 DEF Serves, Served!Next
<1> QED BY <1>1, <1>2, <1>3 DEF Background

\* The reconcile pass withdraws what it finds untrue.
LEMMA ReconcileServes ==
    ASSUME Ready, Ready', Reconcile
    PROVE  Serves
<1>0. TypeOK
  BY DEF Ready, Sound
<1>1. ASSUME NEW p \in Proc, ReconcileOrphan(p) PROVE Serves
  <2>1. UNCHANGED <<refs, accepting, told, parking, tracked, alive>>
    BY <1>1 DEF ReconcileOrphan, procVars, lifeVars, accepting, told, parking
  <2> QED BY <2>1, SteadyStep DEF Steady
<1>2. CASE \/ ReconcileSurplus \/ ReconcileStale
           \/ ReconcileMissing \/ ReconcileMissingTracked
  <2>1. Entry
    BY <1>2, ReconcileEntry
  <2>2. UNCHANGED <<refs, accepting, parking, alive>> /\ tracked' \in {tracked, None}
    BY <1>0, <1>2, <2>1, EntryReady
       DEF ReconcileSurplus, ReconcileStale, ReconcileMissing, ReconcileMissingTracked, Entry,
           accepting, osVars, LeavesGate, TakesGateToStop, TakesGateToStart
  <2>3. row' \in {row, StoppedRow(TRUE)}
    BY <1>2 DEF ReconcileSurplus, ReconcileStale, ReconcileMissing, ReconcileMissingTracked
  <2>4. told' \in {told, None}
    BY <1>0, <2>3, FieldTypes, RowTells DEF told
  <2> QED BY <2>2, <2>4, SteadyStep DEF Steady
<1> QED BY <1>1, <1>2 DEF Reconcile

\* A shutdown closes the daemon, its end or a crash ends what was served, and the
\* next daemon opens with nothing served.
LEMMA LifecycleServes ==
    ASSUME Ready, Ready', Lifecycle
    PROVE  Serves
<1>0. /\ TypeOK /\ None \notin alive /\ (GateFree => gate.op = "none")
      /\ daemon = "down" => tracked = None /\ gate.op = "none"
  BY NoneAssumption DEF Ready, Sound, TypeOK, GateFree, FreeGate, Tended, NoReload, Owned,
                        OperationOwnsProcess
<1>1. CASE BeginShutdown
  <2>1. UNCHANGED <<row, gate, tracked, refs, alive>>
    BY <1>1 DEF BeginShutdown, osVars
  <2>2. UNCHANGED <<serving, users, told, parking>>
    BY <2>1 DEF serving, liveProcess, users, told, parking
  <2>3. accepting /\ accepting' = FALSE
    BY <1>1 DEF BeginShutdown, accepting
  <2>4. Served!Close
    BY <2>2, <2>3 DEF Served!Close
  <2> QED BY <2>4 DEF Serves, Served!Next
<1>2. CASE ShutdownList \/ BootDone
  <2>1. UNCHANGED <<row, gate, tracked, refs, alive, accepting>>
    BY <1>2 DEF ShutdownList, BootDone, procVars, osVars, accepting
  <2> QED BY <2>1, SteadyStep DEF Steady, told, parking
<1>3. CASE ShutdownStop
  <2>1. UNCHANGED <<row, refs, alive, accepting>> /\ GateFree
    BY <1>3 DEF ShutdownStop, osVars, accepting
  <2>2. \/ gate' = gate /\ tracked' = tracked
        \/ gate'.op = "Shutdown" /\ tracked' = None
    BY <1>3, StopEffect DEF ShutdownStop, procVars
  <2>3. parking' = parking
    BY <1>0, <2>1, <2>2 DEF parking
  <2> QED BY <2>1, <2>2, <2>3, SteadyStep DEF Steady, told
<1>4. CASE ShutdownDone \/ Crash
  <2>1. /\ UNCHANGED <<row, alive>> /\ daemon' = "down" /\ tracked' = None
        /\ gate'.op = "none"
    BY <1>4 DEF ShutdownDone, Crash, forget, FreeGate
  <2>2. accepting' = FALSE /\ parking' = FALSE /\ told' = told
    BY <2>1 DEF accepting, parking, told
  <2>3. serving' = None /\ users' = {}
    BY <1>0, <2>1 DEF serving, liveProcess, users
  <2>4. Served!End
    BY <2>2, <2>3 DEF Served!End
  <2> QED BY <2>4 DEF Serves, Served!Next
<1>5. CASE Boot
  <2>1. /\ UNCHANGED <<row, tracked, refs, alive>> /\ daemon = "down" /\ daemon' = "booting"
        /\ gate' = gate \/ gate'.op = "Recover"
    BY <1>5 DEF Boot, FreeGate, procVars, osVars
  <2>2. UNCHANGED <<serving, users, told>> /\ serving = None
    BY <1>0, <2>1 DEF serving, liveProcess, users, told
  <2>3. ~parking /\ ~parking' /\ ~accepting /\ accepting'
    BY <1>0, <2>1 DEF parking, accepting
  <2>4. Served!Open
    BY <2>2, <2>3 DEF Served!Open, parking, accepting
  <2> QED BY <2>4 DEF Serves, Served!Next
<1> QED BY <1>1, <1>2, <1>3, <1>4, <1>5 DEF Lifecycle

\* Every step of the supervisor is one that the abstract instance allows.
LEMMA NextServes ==
    ASSUME NoImport, Ready, Ready', [Next]_vars
    PROVE  Serves
<1>0. gate \in Gate
  BY DEF Ready, Sound, TypeOK
<1>1. CASE OperationStep
  BY <1>1, StopServes, FailureServes, RegisterServes, StartServes DEF OperationStep
<1>2. CASE Import
  BY <1>2, ImportsNothing DEF Ready, Sound, Tended
<1>3. CASE CallerGone
  <2>1. UNCHANGED <<row, tracked, refs, alive, accepting>> /\ gate'.op = gate.op
    BY <1>0, <1>3 DEF CallerGone, Gate, procVars, osVars, lifeVars, accepting
  <2> QED BY <2>1, SteadyStep DEF Steady, told, parking
<1>4. ASSUME NEW p \in Proc, ProcExit(p) PROVE Serves
  <2>1. UNCHANGED <<row, gate, tracked, refs, accepting>> /\ alive' \subseteq alive
    BY <1>4 DEF ProcExit, procVars, lifeVars, accepting
  <2> QED BY <2>1, SteadyStep DEF Steady, told, parking
<1>5. CASE UNCHANGED vars
  <2>1. UNCHANGED <<row, gate, tracked, refs, alive, accepting>>
    BY <1>5 DEF vars, procVars, osVars, lifeVars, accepting
  <2> QED BY <2>1, SteadyStep DEF Steady, told, parking
<1> QED BY <1>1, <1>2, <1>3, <1>4, <1>5, OperatorServes, RequestsServe, BackgroundServes,
           ReconcileServes, LifecycleServes DEF Next

\* To those who call it, the instance that operations, watchers, timers, scans and
\* faults make is the abstract one: one process at a time, announced as long as it
\* serves and not after, never parked under a call that uses it, and none started
\* by a daemon on its way down.
THEOREM InstanceIsServed == ASSUME NoImport PROVE Spec => IsServedInstance
<1>1. Init => Served!Init
  BY DEF Init, Served!Init, FreeGate, accepting, parking, serving, liveProcess, users, told,
         tells
<1>2. Ready /\ [Next]_vars => Ready'
  BY NextReady
<1>3. Ready /\ Ready' /\ [Next]_vars => [Served!Next]_(Served!vars)
  BY NextServes DEF Serves
<1> QED BY <1>1, <1>2, <1>3, InitReady, PTL DEF Spec, IsServedInstance, Served!Spec

=============================================================================
