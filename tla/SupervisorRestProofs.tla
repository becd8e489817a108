----------------------- MODULE SupervisorRestProofs ------------------------
(***************************************************************************)
(* What a row rests in when nothing is under way: proofs about Supervisor  *)
(* while no import changes the mode of the service.  Which faults each of  *)
(* them excludes is part of its statement.                                 *)
(***************************************************************************)
EXTENDS SupervisorRowProofs

\* No client disconnects in the middle of a call.
NoCaller == "caller" \notin Faults

\* A stopped row names no process.
StoppedIsClean == row.status = "stopped" => row.pid = None

\* A row with a pid is one that the reconcile pass looks at.
PidClaims == row.pid # None => Exists /\ Mode # OD /\ row.enabled

\* An enabled long-running row is stopped only while an operation is at work on
\* it, the daemon is on its way out, or the exit watcher of its process has still
\* to come; a stop that leaves it enabled and stopped is one of those.
Wanted ==
    /\ Exists /\ row.enabled /\ Mode = LR /\ row.status = "stopped" =>
           \/ Cancelled \/ daemon = "down" \/ tracked # None
           \/ gate.pc \in {"stop", "start", "rollback"}
    /\ gate.pc = "stop" /\ gate.enabled /\ gate.then \notin {"start", "onDemand"} =>
           Mode = STZ \/ Cancelled

\* What a step keeps of all this.
Settles ==
    /\ StoppedIsClean'
    /\ PidClaims => PidClaims'
    /\ Wanted => Wanted'

-----------------------------------------------------------------------------
(* How a call may leave the row and the gate it found free                  *)

\* The row as it was, but for its override.
RowKept ==
    /\ row'.enabled = row.enabled /\ row'.status = row.status /\ row'.pid = row.pid
    /\ Exists' = Exists

\* The operation waits for the process to die; a wanted one goes on.
Stopping ==
    /\ RowKept /\ (Mode' = Mode \/ Mode' # OD)
    /\ gate'.pc = "stop"
    /\ gate'.enabled /\ gate'.then \notin {"start", "onDemand"} => Mode' = STZ

\* The operation is about to start a process.
Starting ==
    /\ RowKept \/ row'.pid = None
    /\ Mode' = Mode \/ Mode' # OD
    /\ Exists' /\ Mode' = OD => RowKept
    /\ tracked' = tracked /\ gate'.pc = "start"

\* The call is over.
Resting ==
    /\ \/ RowKept /\ Mode' = Mode
       \/ RowKept /\ Mode' # OD
          /\ (Mode' = LR => Mode = LR \/ row.status # "stopped" \/ ~row.enabled)
       \/ /\ row'.pid = None
          /\ \/ ~Exists' \/ ~row'.enabled \/ row'.status = "running"
             \/ row'.status = "stopped" /\ (Mode' = STZ \/ tracked # None)
    /\ tracked' = tracked /\ gate'.pc = "free"

\* Each of them settles.
LEMMA OutcomeSettles ==
    ASSUME StoppedIsClean, gate.pc = "free", daemon = "up", daemon' = "up",
           Stopping \/ Starting \/ Resting
    PROVE  Settles
<1> USE DEF Settles, StoppedIsClean, PidClaims, Wanted, RowKept, Cancelled
<1>1. CASE Stopping
  BY <1>1 DEF Stopping
<1>2. CASE Starting
  BY <1>2 DEF Starting
<1>3. CASE Resting
  BY <1>3 DEF Resting, STZ, OD, LR
<1> QED BY <1>1, <1>2, <1>3

\* What a call that finds the gate free may rely on.
LEMMA FoundFree ==
    ASSUME TypeOK, Tended, Enter
    PROVE  /\ gate.pc = "free" /\ daemon = "up" /\ row \in Row
           /\ liveProcess => /\ Mode # OD /\ row.enabled /\ row.status = "running"
                             /\ row.pid = tracked /\ row.addr = tracked
           /\ Exists /\ ~row.enabled => Mode # OD
    BY Found

\* The row is untouched.
LEMMA SameRow ==
    ASSUME row' = row, svcMode' = svcMode
    PROVE  RowKept /\ Mode' = Mode
    BY DEF RowKept, Mode, EffectiveRuntimeMode, Exists

\* A new override.
LEMMA NewOverride ==
    ASSUME TypeOK, NEW m \in Overrides, svcMode' = svcMode, Exists,
           row' = [row EXCEPT !.mode = m]
    PROVE  RowKept /\ Mode' = EffectiveRuntimeMode(m)
    BY Overridden DEF RowKept

\* A row that has landed on-demand.
LEMMA LandedOnDemand ==
    ASSUME TypeOK, NEW m \in Overrides, row' = OnDemandRow(m)
    PROVE  row'.pid = None /\ row'.status = "running" /\ row'.enabled
    BY DEF TypeOK, Row, OnDemandRow

\* A row that has been stopped and given an override.
LEMMA StoppedOverride ==
    ASSUME TypeOK, NEW on \in BOOLEAN, NEW m \in Overrides, svcMode' = svcMode,
           row' = [StoppedRow(on) EXCEPT !.mode = m]
    PROVE  /\ row'.pid = None /\ row'.status = "stopped" /\ row'.enabled = on
           /\ Mode' = EffectiveRuntimeMode(m)
    BY DEF TypeOK, Row, StoppedRow, Mode, EffectiveRuntimeMode

\* A stop and start of the row as it is, or with an override for a resident mode.
LEMMA StopThenStartStopping ==
    ASSUME RowKept, NEW op, Mode' # OD, stopThenStart(op)
    PROVE  Stopping
<1>1. /\ gate'.pc = "stop" /\ gate'.op = op /\ gate'.enabled = row.enabled
      /\ gate'.then = IF row.enabled THEN "start" ELSE "done"
  BY StopEffect DEF stopThenStart
<1> QED BY <1>1 DEF Stopping

\* A reload of what runs, or of what a cold row claims.
LEMMA RestartsOrRests ==
    ASSUME TypeOK, Tended, Enter, Exists, svcMode' = svcMode, NEW m \in Overrides, NEW flag,
           NEW op, EffectiveRuntimeMode(m) # OD,
           restartLocked(op, m, flag)
    PROVE  Stopping \/ Resting
<1>f. gate.pc = "free" /\ row \in Row /\ row.enabled \in BOOLEAN
  BY FoundFree, FieldTypes
<1>1. CASE ~liveProcess /\ EffectiveRuntimeMode(m) = STZ
  <2>1. /\ UNCHANGED <<gate, tracked>>
        /\ \/ row' = [StoppedRow(row.enabled) EXCEPT !.mode = m]
           \/ row' = [row EXCEPT !.mode = m]
    BY <1>1 DEF restartLocked
  <2>2. CASE row' = [StoppedRow(row.enabled) EXCEPT !.mode = m]
    BY <1>1, <1>f, <2>1, <2>2, StoppedOverride DEF Resting
  <2>3. CASE row' = [row EXCEPT !.mode = m]
    BY <1>1, <1>f, <2>1, <2>3, NewOverride DEF Resting, LR, STZ
  <2> QED BY <2>1, <2>2, <2>3
<1>2. CASE ~(~liveProcess /\ EffectiveRuntimeMode(m) = STZ)
  <2>1. stopThenStart(op) /\ row' = [row EXCEPT !.mode = m]
    BY <1>2 DEF restartLocked
  <2> QED BY <2>1, NewOverride, StopThenStartStopping
<1> QED BY <1>1, <1>2

\* Start, stop, restart, the configuration and the deletion of an instance.
LEMMA SimpleCallsSettle ==
    ASSUME TypeOK, Tended, Start \/ Stop \/ Restart \/ UpdateConfig \/ Delete
    PROVE  Stopping \/ Starting \/ Resting
<1>0. /\ Enter /\ Exists /\ svcMode' = svcMode
  BY DEF Start, Stop, Restart, UpdateConfig, Delete
<1>f. /\ gate.pc = "free" /\ row \in Row
      /\ liveProcess => Mode # OD
      /\ Exists /\ ~row.enabled => Mode # OD
  BY <1>0, FoundFree
<1>1. CASE Start
  <2>1. gate'.pc = "start" /\ row' = row /\ tracked' = tracked
    BY <1>1, StartEffect DEF Start
  <2> QED BY <1>0, <2>1, SameRow DEF Starting
<1>2. CASE Stop
  <2>1. /\ gate'.pc = "stop" /\ gate'.enabled = FALSE /\ gate'.op = "Stop"
        /\ row' = row /\ Mode # OD
    BY <1>2, StopEffect DEF Stop
  <2> QED BY <1>0, <2>1, SameRow DEF Stopping
<1>3. CASE Restart
  <2>1. stopThenStart("Restart") /\ row' = row /\ Mode # OD
    BY <1>3 DEF Restart
  <2> QED BY <1>0, <2>1, SameRow, StopThenStartStopping
<1>4. CASE UpdateConfig
  <2>1. restartLocked("UpdateConfig", row.mode, stz) /\ EffectiveRuntimeMode(row.mode) # OD
    BY <1>4 DEF UpdateConfig, Mode
  <2>2. row.mode \in Overrides
    BY FieldTypes
  <2> QED BY <1>0, <2>1, <2>2, RestartsOrRests
<1>5. CASE Delete
  <2>1. CASE Mode = OD /\ ~liveProcess
    <3>1. /\ row' = [StoppedRow(FALSE) EXCEPT !.status = "absent", !.mode = "inherit"]
          /\ UNCHANGED <<gate, tracked>>
      BY <1>5, <2>1 DEF Delete
    <3>2. row'.status = "absent" /\ row'.pid = None
      BY <1>f, <3>1 DEF StoppedRow, Row
    <3> QED BY <1>f, <3>1, <3>2 DEF Resting, Exists
  <2>2. CASE ~(Mode = OD /\ ~liveProcess)
    <3>1. /\ gate'.pc = "stop" /\ gate'.enabled = FALSE /\ gate'.op = "Delete" /\ row' = row
      BY <1>5, <2>2, StopEffect DEF Delete
    <3> QED BY <1>0, <1>f, <2>2, <3>1, SameRow DEF Stopping
  <2> QED BY <2>1, <2>2
<1> QED BY <1>1, <1>2, <1>3, <1>4, <1>5

\* A new instance, and a sync that finds nothing to change.
LEMMA CreateCallsSettle ==
    ASSUME TypeOK, Tended,
           SyncUnchanged \/ \E m \in Overrides, s \in BOOLEAN : Create(m, s)
    PROVE  Starting \/ Resting
<1>0. /\ Enter /\ UNCHANGED <<svcMode, tracked>>
  BY DEF SyncUnchanged, Create
<1>f. gate.pc = "free" /\ row \in Row
  BY <1>0, FoundFree
<1>1. ASSUME NEW m \in Overrides, NEW s \in BOOLEAN, Create(m, s) PROVE Starting \/ Resting
  <2>1. /\ row'.pid = None /\ row'.mode = m
        /\ row'.enabled = ((s /\ EffectiveRuntimeMode(m) = LR) \/ EffectiveRuntimeMode(m) # LR)
        /\ row'.status = IF EffectiveRuntimeMode(m) = OD THEN "running"
                         ELSE IF s /\ EffectiveRuntimeMode(m) = LR THEN "starting"
                         ELSE "stopped"
    BY <1>1 DEF Create
  <2>2. Mode' = EffectiveRuntimeMode(m) /\ Mode' \in Modes
    BY <1>0, <2>1 DEF Mode, EffectiveRuntimeMode, TypeOK, Overrides
  <2>3. CASE s /\ EffectiveRuntimeMode(m) = LR
    <3>1. gate'.pc = "start"
      BY <1>1, <2>3, StartEffect DEF Create
    <3> QED BY <1>0, <2>1, <2>2, <2>3, <3>1 DEF Starting, LR, OD
  <2>4. CASE ~(s /\ EffectiveRuntimeMode(m) = LR)
    <3>1. gate' = gate
      BY <1>1, <2>4 DEF Create
    <3> QED BY <1>0, <1>f, <2>1, <2>2, <2>4, <3>1 DEF Resting, Modes, LR, OD, STZ
  <2> QED BY <2>3, <2>4
<1>2. CASE SyncUnchanged
  <2>1. CASE Mode = LR /\ row.enabled /\ row.status = "failed" /\ ~liveProcess
    <3>1. gate'.pc = "start" /\ row' = row
      BY <1>2, <2>1, StartEffect DEF SyncUnchanged
    <3> QED BY <1>0, <3>1, SameRow DEF Starting
  <2>2. CASE ~(Mode = LR /\ row.enabled /\ row.status = "failed" /\ ~liveProcess)
    <3>1. gate' = gate
      BY <1>2, <2>2 DEF SyncUnchanged
    <3>2. \/ row' = OnDemandRow(row.mode)
          \/ Mode = STZ /\ row' = StoppedRow(TRUE)
          \/ row' = row
      BY <1>2, <2>2 DEF SyncUnchanged
    <3>3. CASE row' = row
      BY <1>0, <1>f, <3>1, <3>3, SameRow DEF Resting
    <3>4. CASE row' = OnDemandRow(row.mode)
      BY <1>0, <1>f, <3>1, <3>4, FieldTypes, LandedOnDemand DEF Resting
    <3>5. CASE Mode = STZ /\ row' = StoppedRow(TRUE)
      <4>1. row'.pid = None /\ row'.status = "stopped" /\ row'.mode = row.mode
        BY <3>5, StoppedFields
      <4> QED BY <1>0, <1>f, <3>1, <3>5, <4>1 DEF Resting, Mode, EffectiveRuntimeMode
    <3> QED BY <3>2, <3>3, <3>4, <3>5
  <2> QED BY <2>1, <2>2
<1> QED BY <1>1, <1>2

\* A stop on the way to on-demand.
LEMMA LandingStops ==
    ASSUME TypeOK, Exists, NEW op \in {"SetRuntimeMode", "Create"}, NEW m \in Overrides,
           EffectiveRuntimeMode(m) = OD, stopProcess(op, TRUE, "onDemand", m),
           svcMode' = svcMode, row' = IF Mode = OD THEN [row EXCEPT !.mode = m] ELSE row
    PROVE  Stopping
<1>1. gate'.pc = "stop" /\ gate'.op = op /\ gate'.then = "onDemand"
  BY StopEffect
<1>2. RowKept /\ Mode' = Mode
  BY NewOverride, SameRow
<1> QED BY <1>1, <1>2 DEF Stopping

\* A switch between resident modes, of a row that is not left cold in long-running.
LEMMA ResidentSwitchSettles ==
    ASSUME TypeOK, Exists, NEW m \in Overrides, NEW op, NEW next, NEW n, svcMode' = svcMode,
           row' = [row EXCEPT !.mode = m], EffectiveRuntimeMode(m) # OD, tracked' = tracked,
           gate.pc = "free",
           \/ /\ gate' = gate
              /\ EffectiveRuntimeMode(m) = LR =>
                     Mode = LR \/ row.status # "stopped" \/ ~row.enabled
           \/ startLocked(op, next, n, None)
    PROVE  Starting \/ Resting
<1>1. RowKept /\ Mode' = EffectiveRuntimeMode(m)
  BY NewOverride
<1>2. CASE gate' = gate /\ ~startLocked(op, next, n, None)
  BY <1>1, <1>2 DEF Resting
<1>3. CASE startLocked(op, next, n, None)
  <2>1. gate'.pc = "start"
    BY <1>3, StartEffect
  <2> QED BY <1>1, <2>1 DEF Starting
<1> QED BY <1>2, <1>3

\* A mode switch, by the modes before and after.
LEMMA SwitchCallsSettle ==
    ASSUME TypeOK, Tended, NEW m \in Overrides, SetRuntimeMode(m)
    PROVE  Stopping \/ Starting \/ Resting
<1>0. /\ Enter /\ Exists /\ svcMode' = svcMode
  BY DEF SetRuntimeMode, SetModeSameResident, SetModeOnDemand,
         SetModeOnDemandToLongRunning, SetModeToScaleToZero, SetModeToLongRunning,
         SetModeOnDemandToScaleToZero, setMode
<1>f. gate.pc = "free" /\ row \in Row /\ (liveProcess => row.status = "running")
  BY <1>0, FoundFree
<1>1. CASE SetModeSameResident(m)
  <2>1. /\ row' = [row EXCEPT !.mode = m] /\ EffectiveRuntimeMode(m) # OD
        /\ tracked' = tracked /\ Mode = EffectiveRuntimeMode(m)
        /\ gate' = gate \/ startLocked("SetRuntimeMode", "done", m, None)
    BY <1>1 DEF SetModeSameResident, setMode, LR, STZ, OD
  <2> QED BY <1>0, <1>f, <2>1, ResidentSwitchSettles
<1>2. CASE SetModeOnDemand(m)
  <2>0. EffectiveRuntimeMode(m) = OD
    BY <1>2 DEF SetModeOnDemand, setMode
  <2>1. CASE Mode # OD \/ row.pid # None \/ liveProcess
    <3>1. /\ stopProcess("SetRuntimeMode", TRUE, "onDemand", m)
          /\ row' = IF Mode = OD THEN [row EXCEPT !.mode = m] ELSE row
      BY <1>2, <2>1 DEF SetModeOnDemand
    <3> QED BY <1>0, <2>0, <3>1, LandingStops
  <2>2. CASE ~(Mode # OD \/ row.pid # None \/ liveProcess)
    <3>1. row' = OnDemandRow(m) /\ UNCHANGED <<gate, tracked>>
      BY <1>2, <2>2 DEF SetModeOnDemand
    <3> QED BY <1>f, <3>1, LandedOnDemand DEF Resting
  <2> QED BY <2>1, <2>2
<1>3. CASE SetModeOnDemandToLongRunning(m)
  <2>1. /\ row' = [row EXCEPT !.mode = m] /\ EffectiveRuntimeMode(m) # OD
        /\ tracked' = tracked
        /\ \/ gate' = gate /\ ~row.enabled
           \/ startLocked("SetRuntimeMode", "rollback", row.mode, None)
    BY <1>3 DEF SetModeOnDemandToLongRunning, setMode, LR, OD
  <2> QED BY <1>0, <1>f, <2>1, ResidentSwitchSettles
<1>4. CASE SetModeToScaleToZero(m)
  <2>1. /\ row' = [row EXCEPT !.mode = m] /\ EffectiveRuntimeMode(m) = STZ
        /\ tracked' = tracked /\ gate' = gate
    BY <1>4 DEF SetModeToScaleToZero, setMode
  <2> QED BY <1>0, <1>f, <2>1, ResidentSwitchSettles DEF LR, STZ, OD
<1>5. CASE SetModeToLongRunning(m)
  <2>1. /\ row' = [row EXCEPT !.mode = m] /\ EffectiveRuntimeMode(m) # OD
        /\ tracked' = tracked
        /\ \/ gate' = gate /\ (liveProcess \/ ~row.enabled)
           \/ startLocked("SetRuntimeMode", "done", m, None)
    BY <1>5 DEF SetModeToLongRunning, setMode, LR, OD
  <2> QED BY <1>0, <1>f, <2>1, ResidentSwitchSettles
<1>6. CASE SetModeOnDemandToScaleToZero(m)
  <2>1. /\ row' = [StoppedRow(TRUE) EXCEPT !.mode = m] /\ UNCHANGED <<gate, tracked>>
        /\ EffectiveRuntimeMode(m) = STZ
    BY <1>6 DEF SetModeOnDemandToScaleToZero, setMode
  <2> QED BY <1>0, <1>f, <2>1, StoppedOverride DEF Resting
<1> QED BY <1>1, <1>2, <1>3, <1>4, <1>5, <1>6 DEF SetRuntimeMode

\* A sync, by the modes before and after.
LEMMA SyncCallsSettle ==
    ASSUME TypeOK, Tended, StoppedIsClean, NEW m \in Overrides, Sync(m)
    PROVE  Stopping \/ Starting \/ Resting
<1>0. /\ Enter /\ Exists /\ svcMode' = svcMode
  BY DEF Sync, SyncOnDemand, SyncFromOnDemand, SyncResident, sync
<1>f. gate.pc = "free" /\ row \in Row /\ (liveProcess => row.status = "running")
  BY <1>0, FoundFree
<1>1. CASE SyncOnDemand(m)
  <2>0. EffectiveRuntimeMode(m) = OD
    BY <1>1 DEF SyncOnDemand, sync
  <2>1. CASE claimsProcess
    <3>1. /\ stopProcess("Create", TRUE, "onDemand", m)
          /\ row' = IF Mode = OD THEN [row EXCEPT !.mode = m] ELSE row
      BY <1>1, <2>1 DEF SyncOnDemand
    <3> QED BY <1>0, <2>0, <3>1, LandingStops
  <2>2. CASE ~claimsProcess
    <3>1. row' = OnDemandRow(m) /\ UNCHANGED <<gate, tracked>>
      BY <1>1, <2>2 DEF SyncOnDemand
    <3> QED BY <1>f, <3>1, LandedOnDemand DEF Resting
  <2> QED BY <2>1, <2>2
<1>2. CASE SyncFromOnDemand(m)
  <2>1. tracked' = tracked
    BY <1>2 DEF SyncFromOnDemand
  <2>2. CASE EffectiveRuntimeMode(m) = STZ
    <3>1. row' = [StoppedRow(row.enabled) EXCEPT !.mode = m] /\ gate' = gate
      BY <1>2, <2>2 DEF SyncFromOnDemand, LR, STZ
    <3> QED BY <1>0, <1>f, <2>1, <2>2, <3>1, FieldTypes, StoppedOverride DEF Resting
  <2>3. CASE EffectiveRuntimeMode(m) # STZ
    <3>1. /\ row' = [row EXCEPT !.mode = m] /\ EffectiveRuntimeMode(m) # OD
          /\ \/ gate' = gate /\ ~row.enabled
             \/ startLocked("Create", "rollback", row.mode, None)
      BY <1>2, <2>3 DEF SyncFromOnDemand, sync, LR, STZ, OD
    <3> QED BY <1>0, <1>f, <2>1, <3>1, ResidentSwitchSettles
  <2> QED BY <2>2, <2>3
<1>3. ASSUME NEW c \in BOOLEAN, SyncResident(m, c) PROVE Stopping \/ Starting \/ Resting
  <2> DEFINE after == EffectiveRuntimeMode(m)
             flag  == tracked # None /\ after = STZ
             stays == after = LR => Mode = LR \/ claimsProcess \/ ~row.enabled
  <2>1. after \in {LR, STZ}
    BY <1>3 DEF SyncResident, sync
  <2>2. \/ restartLocked("Create", m, flag)
        \/ /\ row' = [row EXCEPT !.mode = m] /\ tracked' = tracked
           /\ (gate' = gate /\ stays) \/ startLocked("Create", "done", m, None)
        \/ /\ after = STZ /\ row' = [StoppedRow(TRUE) EXCEPT !.mode = m]
           /\ UNCHANGED <<gate, tracked>>
    BY <1>3, <2>1 DEF SyncResident, sync, LR, STZ
  <2>3. CASE restartLocked("Create", m, flag)
    BY <1>0, <2>1, <2>3, RestartsOrRests DEF LR, STZ, OD
  <2>4. CASE /\ row' = [row EXCEPT !.mode = m] /\ tracked' = tracked
             /\ (gate' = gate /\ stays) \/ startLocked("Create", "done", m, None)
    <3>1. claimsProcess => row.status # "stopped"
      BY <1>f DEF claimsProcess, StoppedIsClean
    <3> QED BY <1>0, <1>f, <2>1, <2>4, <3>1, ResidentSwitchSettles DEF LR, STZ, OD
  <2>5. CASE /\ after = STZ /\ row' = [StoppedRow(TRUE) EXCEPT !.mode = m]
             /\ UNCHANGED <<gate, tracked>>
    BY <1>0, <1>f, <2>5, StoppedOverride DEF Resting
  <2> QED BY <2>2, <2>3, <2>4, <2>5
<1> QED BY <1>1, <1>2, <1>3 DEF Sync

\* Every call of the operator settles.
LEMMA OperatorSettles ==
    ASSUME TypeOK, Tended, StoppedIsClean, Operator
    PROVE  Settles
<1>1. Stopping \/ Starting \/ Resting
  BY SimpleCallsSettle, CreateCallsSettle, SwitchCallsSettle, SyncCallsSettle DEF Operator
<1>2. gate.pc = "free" /\ daemon = "up" /\ daemon' = "up"
  BY OperatorEntry DEF Entry, GateFree
<1> QED BY <1>1, <1>2, OutcomeSettles

-----------------------------------------------------------------------------
(* Everything else that finds the gate free                                 *)

\* Nothing that matters here has changed.
Untouched ==
    /\ UNCHANGED <<row, svcMode, tracked, daemon>>
    /\ gate'.pc = gate.pc /\ gate'.op = gate.op /\ gate'.then = gate.then
    /\ gate'.enabled = gate.enabled

\* Then it settles.
LEMMA UntouchedSettles ==
    ASSUME StoppedIsClean, Untouched
    PROVE  Settles
    BY DEF Settles, Untouched, StoppedIsClean, PidClaims, Wanted, Exists, Mode,
           EffectiveRuntimeMode, Cancelled

\* Requests.
LEMMA RequestsSettle ==
    ASSUME TypeOK, Tended, StoppedIsClean, Requests
    PROVE  Settles
<1>1. ASSUME NEW r \in Req, EnsureStarted(r) PROVE Settles
  <2>1. /\ gate.pc = "free" /\ daemon = "up" /\ daemon' = "up"
        /\ row' = row /\ svcMode' = svcMode /\ tracked' = tracked
        /\ gate' = gate \/ startLocked("EnsureStarted", "done", row.mode, r)
    BY <1>1 DEF EnsureStarted, Enter, GateFree, lifeVars
  <2>2. CASE gate' = gate
    BY <2>1, <2>2, SameRow, OutcomeSettles DEF Resting
  <2>3. CASE startLocked("EnsureStarted", "done", row.mode, r)
    <3>1. gate'.pc = "start"
      BY <2>3, StartEffect
    <3> QED BY <2>1, <3>1, SameRow, OutcomeSettles DEF Starting
  <2> QED BY <2>1, <2>2, <2>3
<1>2. ASSUME NEW r \in Req, releaseRef(r) PROVE Settles
  BY <1>2, UntouchedSettles DEF releaseRef, Untouched, procVars, lifeVars
<1> QED BY <1>1, <1>2 DEF Requests

\* An exit watcher, a timer and the scan.
LEMMA BackgroundSettles ==
    ASSUME TypeOK, Tended, StoppedIsClean, Background
    PROVE  Settles
<1>1. ASSUME NEW p \in Proc, Wait(p) PROVE Settles
  <2>1. /\ gate.pc = "free" /\ gate' = gate /\ UNCHANGED <<svcMode, daemon>>
        /\ tracked' = IF tracked = p THEN None ELSE tracked
    BY <1>1 DEF Wait, GateFree, procVars, lifeVars
  <2>2. CASE OwnsExit(p)
    <3>1. \/ row' = [row EXCEPT !.status = "degraded", !.pid = None, !.addr = None]
          \/ row' = [row EXCEPT !.status = "degraded", !.pid = None]
      BY <1>1, <2>2 DEF Wait
    <3>2. row'.status = "degraded" /\ row'.pid = None
      BY <3>1 DEF TypeOK, Row
    <3> QED BY <2>1, <3>2 DEF Settles, StoppedIsClean, PidClaims, Wanted
  <2>3. CASE ~OwnsExit(p)
    <3>1. row' = row
      BY <1>1, <2>3 DEF Wait
    <3>2. CASE tracked # p
      BY <2>1, <3>1, <3>2, UntouchedSettles DEF Untouched
    <3>3. CASE tracked = p
      <4>1. Cancelled \/ ~Exists \/ ~row.enabled \/ row.pid \notin {None, p}
        BY <2>3, <3>3 DEF OwnsExit
      <4> QED BY <2>1, <3>1, <4>1 DEF Settles, StoppedIsClean, PidClaims, Wanted, Exists, Mode,
                EffectiveRuntimeMode, Cancelled
    <3> QED BY <3>2, <3>3
  <2> QED BY <2>2, <2>3
<1>2. CASE restartAfterBackoff
  <2>1. /\ gate.pc = "free" /\ daemon = "up" /\ daemon' = "up"
        /\ row' = row /\ svcMode' = svcMode /\ tracked' = tracked
        /\ gate' = gate \/ gate'.pc = "start"
    BY <1>2 DEF restartAfterBackoff, Enter, GateFree, FreeGate, procVars, lifeVars
  <2> QED BY <2>1, SameRow, OutcomeSettles DEF Resting, Starting
<1>3. CASE TouchInstance \/ scanScaleToZero
  BY <1>3, UntouchedSettles DEF TouchInstance, scanScaleToZero, Untouched, lifeVars
<1>4. CASE parkIfStillIdle
  <2>1. /\ gate.pc = "free" /\ daemon = "up" /\ daemon' = "up" /\ Mode = STZ
        /\ row' = row /\ svcMode' = svcMode /\ stopProcess("Park", TRUE, "done", row.mode)
    BY <1>4 DEF parkIfStillIdle, Enter, GateFree, lifeVars
  <2>2. gate'.pc = "stop" /\ gate'.op = "Park"
    BY <2>1, StopEffect
  <2> QED BY <2>1, <2>2, SameRow, OutcomeSettles DEF Stopping, STZ, OD
<1> QED BY <1>1, <1>2, <1>3, <1>4 DEF Background

\* The reconcile pass.
LEMMA ReconcileSettles ==
    ASSUME TypeOK, Tended, StoppedIsClean, Reconcile
    PROVE  Settles
<1>1. ASSUME NEW p \in Proc, ReconcileOrphan(p) PROVE Settles
  BY <1>1, UntouchedSettles DEF ReconcileOrphan, Untouched, procVars, lifeVars
<1>2. CASE \/ ReconcileSurplus \/ ReconcileStale
           \/ ReconcileMissing \/ ReconcileMissingTracked
  <2>0. gate.pc = "free" /\ daemon = "up" /\ daemon' = "up" /\ svcMode' = svcMode
    BY <1>2 DEF ReconcileSurplus, ReconcileStale, ReconcileMissing, ReconcileMissingTracked,
       Enter, GateFree, lifeVars
  <2>1. CASE ReconcileSurplus
    <3>1. /\ ~(row.enabled /\ residentMode) /\ row' = row
          /\ stopProcess("Reconcile", row.enabled, IF Mode = OD THEN "onDemand" ELSE "done",
                         row.mode)
      BY <2>1 DEF ReconcileSurplus
    <3>2. /\ gate'.pc = "stop" /\ gate'.op = "Reconcile" /\ gate'.enabled = row.enabled
          /\ gate'.then = IF Mode = OD THEN "onDemand" ELSE "done"
      BY <3>1, StopEffect
    <3>3. Mode \in Modes
      BY FieldTypes DEF Mode, EffectiveRuntimeMode, TypeOK, Overrides
    <3> QED BY <2>0, <3>1, <3>2, <3>3, SameRow, OutcomeSettles
            DEF Stopping, residentMode, Modes, LR, STZ, OD
  <2>2. CASE ReconcileStale
    <3>1. Mode = STZ /\ row' = StoppedRow(TRUE) /\ UNCHANGED <<gate, tracked>>
      BY <2>2 DEF ReconcileStale, staleClaim, procVars
    <3>2. row'.pid = None /\ row'.status = "stopped" /\ row'.mode = row.mode
      BY <3>1, StoppedFields
    <3> QED BY <2>0, <3>1, <3>2, OutcomeSettles DEF Resting, Mode, EffectiveRuntimeMode
  <2>3. CASE ReconcileMissing
    <3>1. /\ Mode = LR /\ tracked' = tracked
          /\ row' = row \/ row' = StoppedRow(TRUE)
          /\ startLocked("Reconcile", "done", row.mode, None)
      BY <2>3 DEF ReconcileMissing, staleClaim
    <3>2. gate'.pc = "start"
      BY <3>1, StartEffect
    <3>3. CASE row' = row
      BY <2>0, <3>1, <3>2, <3>3, SameRow, OutcomeSettles DEF Starting
    <3>4. CASE row' = StoppedRow(TRUE)
      <4>1. row'.pid = None /\ Mode' = Mode
        BY <2>0, <3>4, StoppedFields DEF Mode, EffectiveRuntimeMode
      <4> QED BY <2>0, <3>1, <3>2, <4>1, OutcomeSettles DEF Starting, LR, OD
    <3> QED BY <3>1, <3>3, <3>4
  <2>4. CASE ReconcileMissingTracked
    <3>1. /\ tracked # None /\ row' = StoppedRow(TRUE) /\ UNCHANGED <<gate, tracked>>
      BY <2>4 DEF ReconcileMissingTracked, procVars
    <3>2. row'.pid = None /\ row'.status = "stopped"
      BY <3>1, StoppedFields
    <3> QED BY <2>0, <3>1, <3>2, OutcomeSettles DEF Resting
  <2> QED BY <1>2, <2>1, <2>2, <2>3, <2>4
<1> QED BY <1>1, <1>2 DEF Reconcile

\* Callers and processes that go.
LEMMA EnvironmentSettles ==
    ASSUME TypeOK, StoppedIsClean, CallerGone \/ \E p \in Proc : ProcExit(p)
    PROVE  Settles
<1>1. CASE CallerGone
  <2>1. /\ gate'.pc = gate.pc /\ gate'.op = gate.op /\ gate'.then = gate.then
        /\ gate'.enabled = gate.enabled
    BY <1>1 DEF CallerGone, TypeOK, Gate
  <2> QED BY <1>1, <2>1, UntouchedSettles DEF CallerGone, Untouched, procVars, lifeVars
<1>2. ASSUME NEW p \in Proc, ProcExit(p) PROVE Settles
  BY <1>2, UntouchedSettles DEF ProcExit, Untouched, procVars, lifeVars
<1> QED BY <1>1, <1>2

\* The end of the daemon leaves the row as it is; one that boots starts what
\* should run.
LEMMA LifecycleSettles ==
    ASSUME TypeOK, Owned, Tended, StoppedIsClean, Lifecycle
    PROVE  Settles
<1> USE DEF Settles
<1>0. row' = row /\ svcMode' = svcMode
  BY DEF Lifecycle, BeginShutdown, ShutdownList, ShutdownStop, ShutdownDone, Crash, Boot,
         BootDone
<1>s. /\ StoppedIsClean' /\ Exists' = Exists /\ Mode' = Mode
  BY <1>0 DEF StoppedIsClean, Exists, Mode, EffectiveRuntimeMode
<1>1. CASE BeginShutdown \/ ShutdownList
  <2>1. UNCHANGED <<gate, tracked>> /\ Cancelled'
    BY <1>1 DEF BeginShutdown, ShutdownList, procVars, Cancelled
  <2> QED BY <1>0, <1>s, <2>1 DEF PidClaims, Wanted
<1>2. CASE ShutdownStop
  <2>1. /\ daemon' = daemon /\ Cancelled
        /\ \/ UNCHANGED <<gate, tracked>>
           \/ Mode # OD /\ stopProcess("Shutdown", row.enabled, "done", row.mode)
    BY <1>2 DEF ShutdownStop, Cancelled, residentMode, procVars, LR, STZ, OD
  <2>2. CASE UNCHANGED <<gate, tracked>>
    BY <1>0, <1>s, <2>1, <2>2 DEF PidClaims, Wanted, Cancelled
  <2>3. CASE Mode # OD /\ stopProcess("Shutdown", row.enabled, "done", row.mode)
    <3>1. gate'.pc = "stop" /\ gate'.then = "done" /\ Cancelled'
      BY <2>1, <2>3, StopEffect DEF Cancelled
    <3> QED BY <1>0, <1>s, <2>3, <3>1 DEF PidClaims, Wanted
  <2> QED BY <2>1, <2>2, <2>3
<1>3. CASE ShutdownDone \/ Crash
  <2>1. gate'.pc = "free" /\ daemon' = "down"
    BY <1>3 DEF ShutdownDone, Crash, forget, FreeGate
  <2> QED BY <1>0, <1>s, <2>1 DEF PidClaims, Wanted
<1>4. CASE Boot
  <2>1. /\ gate.pc = "free" /\ tracked = None /\ daemon = "down" /\ daemon' = "booting"
        /\ tracked' = tracked
    BY <1>4 DEF Boot, Owned, OperationOwnsProcess, Tended, NoReload, procVars
  <2>2. IF Exists /\ row.enabled /\ Mode = LR THEN gate'.pc = "start" ELSE gate' = gate
    BY <1>4 DEF Boot, FreeGate
  <2> QED BY <1>0, <1>s, <2>1, <2>2 DEF PidClaims, Wanted, Cancelled
<1>5. CASE BootDone
  BY <1>0, <1>s, <1>5 DEF BootDone, PidClaims, Wanted, Cancelled, procVars
<1> QED BY <1>1, <1>2, <1>3, <1>4, <1>5 DEF Lifecycle

-----------------------------------------------------------------------------
(* The steps of an operation                                                *)

\* Without callers that leave, a cancelled context is a shutdown's.
LEMMA OnlyShutdownCancels ==
    ASSUME ~gate.gone
    PROVE  (StartCtxDone => Cancelled) /\ (OpCtxDone => Cancelled)
    BY DEF StartCtxDone, OpCtxDone

\* A stop that is over has cleared the row.
LEMMA StopLeaves ==
    ASSUME TypeOK, StopDone \/ StopFail
    PROVE  /\ gate.pc = "stop" /\ UNCHANGED <<svcMode, tracked, daemon>>
           /\ row'.pid = None /\ gate'.pc \in {"free", "start"}
           /\ \/ ~Exists'
              \/ row'.status = "running" /\ gate.then = "onDemand"
              \/ /\ row'.status = "stopped" /\ row'.enabled = gate.enabled
                 /\ row'.mode = row.mode /\ row'.status # "absent"
                 /\ gate.then = "onDemand" =>
                        OpCtxDone \/ (gate.op = "ApplyServiceRuntimeMode" /\ StopFail)
                 /\ StopDone /\ gate.then = "start" => gate'.pc = "start"
<1>0. gate.enabled \in BOOLEAN /\ gate.mode \in Overrides /\ row \in Row
  BY FieldTypes DEF TypeOK
<1>1. gate.pc = "stop" /\ UNCHANGED <<svcMode, tracked, daemon>>
  BY DEF StopDone, StopFail, procVars, lifeVars
<1>2. /\ gate'.pc \in {"free", "start"}
      /\ StopDone /\ gate.then = "start" => gate'.pc = "start"
  <2>1. \/ gate' = FreeGate /\ ~(StopDone /\ gate.then = "start")
        \/ gate' = [gate EXCEPT !.pc = "start", !.proc = None, !.then = "done"]
        \/ gate' = FreeGate /\ StopFail /\ ~StopDone
    <3>1. CASE StopDone
      BY <3>1 DEF StopDone, Release
    <3>2. CASE StopFail /\ ~StopDone
      BY <3>2 DEF StopFail, Release
    <3> QED BY <3>1, <3>2
  <2>2. gate' = FreeGate => gate'.pc = "free"
    BY FreeGateType
  <2>3. gate' = [gate EXCEPT !.pc = "start", !.proc = None, !.then = "done"] =>
            gate'.pc = "start"
    BY DEF TypeOK, Gate
  <2> QED BY <2>1, <2>2, <2>3
<1>3. \/ /\ row' = [StoppedRow(FALSE) EXCEPT !.status = "absent", !.mode = "inherit"]
      \/ row' = OnDemandRow(gate.mode) /\ gate.then = "onDemand"
      \/ /\ row' = StoppedRow(gate.enabled)
         /\ gate.then = "onDemand" =>
                OpCtxDone \/ (gate.op = "ApplyServiceRuntimeMode" /\ StopFail)
  <2>1. CASE StopDone
    BY <2>1 DEF StopDone
  <2>2. CASE StopFail
    BY <2>2 DEF StopFail
  <2> QED BY <2>1, <2>2
<1>4. CASE row' = [StoppedRow(FALSE) EXCEPT !.status = "absent", !.mode = "inherit"]
  <2>1. row'.status = "absent" /\ row'.pid = None
    BY <1>0, <1>4 DEF StoppedRow, Row
  <2> QED BY <1>1, <1>2, <2>1 DEF Exists
<1>5. CASE row' = OnDemandRow(gate.mode) /\ gate.then = "onDemand"
  BY <1>0, <1>1, <1>2, <1>5, LandedOnDemand
<1>6. CASE /\ row' = StoppedRow(gate.enabled)
           /\ gate.then = "onDemand" =>
                  OpCtxDone \/ (gate.op = "ApplyServiceRuntimeMode" /\ StopFail)
  BY <1>0, <1>1, <1>2, <1>6, StoppedFields
<1> QED BY <1>3, <1>4, <1>5, <1>6

\* What an operation keeps, and what of it only as long as a shutdown alone can
\* cancel it and no stop and no early step of a start fails.
OperationSettles ==
    /\ StoppedIsClean'
    /\ PidClaims => PidClaims'
    /\ ~gate.gone /\ {"stop", "early"} \intersect Faults = {} /\ Wanted => Wanted'

\* A stop.
LEMMA StopSettles ==
    ASSUME TypeOK, StopDone \/ StopFail
    PROVE  OperationSettles
<1> USE DEF OperationSettles
<1>1. /\ gate.pc = "stop" /\ UNCHANGED <<svcMode, daemon>> /\ row'.pid = None
      /\ gate'.pc \in {"free", "start"}
  BY StopLeaves
<1>2. /\ OpCtxDone /\ ~gate.gone => Cancelled
      /\ StopFail /\ ~gate.gone /\ "stop" \notin Faults => Cancelled
      /\ Cancelled' = Cancelled
  BY <1>1, OnlyShutdownCancels DEF StopFail, Cancelled
<1>3. CASE ~Exists' \/ row'.status = "running"
  BY <1>1, <1>3 DEF StoppedIsClean, PidClaims, Wanted
<1>4. CASE Exists' /\ row'.status # "running"
  <2>1. /\ row'.status = "stopped" /\ row'.enabled = gate.enabled /\ row'.mode = row.mode
        /\ gate.then = "onDemand" =>
               OpCtxDone \/ (gate.op = "ApplyServiceRuntimeMode" /\ StopFail)
        /\ StopDone /\ gate.then = "start" => gate'.pc = "start"
    BY <1>4, StopLeaves
  <2>2. Mode' = Mode
    BY <1>1, <2>1 DEF Mode, EffectiveRuntimeMode
  <2>3. ~gate.gone /\ Wanted /\ "stop" \notin Faults => Wanted'
    BY <1>1, <1>2, <2>1, <2>2 DEF Wanted, LR, STZ
  <2> QED BY <1>1, <2>3 DEF StoppedIsClean, PidClaims
<1> QED BY <1>3, <1>4

\* A start that fails writes the row it was given, or the backoff loop's.
LEMMA FailStartRow ==
    ASSUME TypeOK, NEW r \in Row, failStart(r)
    PROVE  /\ gate'.pc \in {"free", "rollback"}
           /\ \/ row' = r
              \/ row'.status = "degraded" /\ row'.pid = None /\ ~Cancelled
<1>1. CASE gate.op = "Backoff" /\ ~Cancelled
  <2>1. row'.status = "degraded" /\ row'.pid = None /\ gate' = FreeGate
    BY <1>1 DEF failStart, Release, Row
  <2> QED BY <1>1, <2>1, FreeGateType
<1>2. CASE ~(gate.op = "Backoff" /\ ~Cancelled)
  <2>1. /\ row' = r
        /\ gate' = [gate EXCEPT !.pc = "rollback", !.proc = None] \/ gate' = FreeGate
    BY <1>2 DEF failStart
  <2>2. gate' = FreeGate => gate'.pc = "free"
    BY FreeGateType
  <2>3. gate' = [gate EXCEPT !.pc = "rollback", !.proc = None] => gate'.pc = "rollback"
    BY DEF TypeOK, Gate
  <2> QED BY <2>1, <2>2, <2>3
<1> QED BY <1>1, <1>2

\* What a failed start leaves in the row: it is as it was, as when the start's own
\* context has ended, failed, or, at a shutdown, stopped.
LEMMA FailureLeaves ==
    ASSUME TypeOK, Owned, Tended,
           StartEarlyFail \/ SpawnFail \/ RegisterReplaced \/ RegisterFail \/ HealthFail
    PROVE  /\ gate.pc \in {"start", "spawn", "register", "health"}
           /\ gate'.pc \in {"free", "rollback"} /\ UNCHANGED <<svcMode, daemon>>
           /\ \/ row' = row /\ (\/ Cancelled \/ gate.gone
                                 \/ ~Exists \/ Mode = OD \/ "early" \in Faults)
              \/ /\ row'.pid = row.pid /\ row'.status = "failed" /\ row'.enabled = row.enabled
                 /\ row'.mode = row.mode /\ gate.pc = "spawn"
              \/ row'.pid = None /\ row'.status \in {"failed", "degraded"}
              \/ row'.pid = None /\ row'.status = "stopped" /\ Cancelled
<1>0. row \in Row /\ (StartCtxDone => Cancelled \/ gate.gone)
  BY OnlyShutdownCancels DEF TypeOK
<1>1. CASE StartEarlyFail
  <2>1. /\ gate.pc = "start" /\ failStart(row) /\ UNCHANGED <<svcMode, daemon>>
        /\ ~Exists \/ Mode = OD \/ StartCtxDone \/ "early" \in Faults
    BY <1>1 DEF StartEarlyFail, procVars, lifeVars
  <2>2. /\ gate'.pc \in {"free", "rollback"}
        /\ row' = row \/ (row'.status = "degraded" /\ row'.pid = None)
    BY <1>0, <2>1, FailStartRow
  <2> QED BY <1>0, <1>1, <2>1, <2>2
<1>2. CASE SpawnFail
  <2> DEFINE r == IF StartCtxDone THEN row ELSE [row EXCEPT !.status = "failed"]
  <2>1. /\ gate.pc = "spawn" /\ failStart(r) /\ UNCHANGED <<svcMode, daemon>>
    BY <1>2 DEF SpawnFail, procVars, lifeVars
  <2>2. r \in Row
    BY <1>0 DEF Row, Statuses
  <2>3. /\ gate'.pc \in {"free", "rollback"}
        /\ row' = r \/ (row'.status = "degraded" /\ row'.pid = None)
    BY <2>1, <2>2, FailStartRow
  <2>4. /\ r.pid = row.pid /\ r.enabled = row.enabled /\ r.mode = row.mode
        /\ (r = row /\ (Cancelled \/ gate.gone)) \/ r.status = "failed"
    BY <1>0 DEF Row
  <2> HIDE DEF r
  <2>5. CASE row' = r
    BY <2>1, <2>3, <2>4, <2>5
  <2>6. CASE row'.status = "degraded" /\ row'.pid = None
    BY <2>1, <2>3, <2>6
  <2> QED BY <2>3, <2>5, <2>6
<1>3. CASE RegisterReplaced
  BY <1>3, UnderWay DEF RegisterReplaced
<1>4. CASE RegisterFail
  <2>1. /\ gate.pc = "register" /\ UNCHANGED <<svcMode, daemon>> /\ (Cancelled \/ gate.gone)
        /\ failStart(row) \/ (Cancelled /\ failStart(StoppedRow(TRUE)))
    BY <1>0, <1>4 DEF RegisterFail, procVars, lifeVars
  <2>2. CASE failStart(row)
    BY <1>0, <2>1, <2>2, FailStartRow
  <2>3. CASE Cancelled /\ failStart(StoppedRow(TRUE))
    <3>1. /\ StoppedRow(TRUE) \in Row /\ StoppedRow(TRUE).pid = None
          /\ StoppedRow(TRUE).status = "stopped"
      BY <1>0, RowTypes, FieldTypes, StoppedFields
    <3> QED BY <2>1, <2>3, <3>1, FailStartRow
  <2> QED BY <2>1, <2>2, <2>3
<1>5. CASE HealthFail
  <2> DEFINE r == IF Cancelled THEN StoppedRow(TRUE)
                  ELSE IF StartCtxDone THEN row
                  ELSE [row EXCEPT !.status = "failed", !.pid = None, !.addr = None]
  <2>1. /\ gate.pc = "health" /\ failStart(r) /\ UNCHANGED <<svcMode, daemon>>
    BY <1>0, <1>5 DEF HealthFail, lifeVars
  <2>2. /\ r \in Row
        /\ \/ r = row /\ gate.gone
           \/ r.pid = None /\ r.status = "stopped" /\ Cancelled
           \/ r.pid = None /\ r.status = "failed"
    <3>1. CASE Cancelled
      BY <1>0, <3>1, RowTypes, FieldTypes, StoppedFields
    <3>2. CASE ~Cancelled
      BY <1>0, <3>2 DEF Row, Statuses, MaybeProc
    <3> QED BY <3>1, <3>2
  <2>3. /\ gate'.pc \in {"free", "rollback"}
        /\ row' = r \/ (row'.status = "degraded" /\ row'.pid = None)
    BY <2>1, <2>2, FailStartRow
  <2> HIDE DEF r
  <2>4. CASE row' = r
    BY <2>1, <2>2, <2>3, <2>4
  <2>5. CASE row'.status = "degraded" /\ row'.pid = None
    BY <2>1, <2>3, <2>5
  <2> QED BY <2>3, <2>4, <2>5
<1> QED BY <1>1, <1>2, <1>3, <1>4, <1>5

\* A start that fails.
LEMMA FailureSettles ==
    ASSUME TypeOK, Owned, Tended, StoppedIsClean,
           StartEarlyFail \/ SpawnFail \/ RegisterReplaced \/ RegisterFail \/ HealthFail
    PROVE  OperationSettles
<1> USE DEF OperationSettles, StoppedIsClean, PidClaims, Wanted
<1>1. /\ gate.pc \in {"start", "spawn", "register", "health"}
      /\ gate'.pc \in {"free", "rollback"} /\ svcMode' = svcMode /\ Cancelled' = Cancelled
  BY FailureLeaves DEF Cancelled
<1>2. CASE row' = row /\ (\/ Cancelled \/ gate.gone
                          \/ ~Exists \/ Mode = OD \/ "early" \in Faults)
  <2>1. Exists' = Exists /\ Mode' = Mode
    BY <1>1, <1>2 DEF Exists, Mode, EffectiveRuntimeMode
  <2> QED BY <1>1, <1>2, <2>1 DEF OD, LR
<1>3. CASE /\ row'.pid = row.pid /\ row'.status = "failed" /\ row'.enabled = row.enabled
           /\ row'.mode = row.mode /\ gate.pc = "spawn"
  <2>1. Exists' /\ Mode' = Mode /\ Mode # OD
    BY <1>1, <1>3, UnderWay DEF Exists, Mode, EffectiveRuntimeMode
  <2> QED BY <1>1, <1>3, <2>1
<1>4. CASE row'.pid = None /\ row'.status \in {"failed", "degraded"}
  BY <1>1, <1>4
<1>5. CASE row'.pid = None /\ row'.status = "stopped" /\ Cancelled
  BY <1>1, <1>5
<1> QED BY <1>2, <1>3, <1>4, <1>5, FailureLeaves

\* A start that gets further.
LEMMA StartSettles ==
    ASSUME TypeOK, Owned, Tended, StoppedIsClean,
           Spawn \/ Register \/ Healthy \/ \E p \in Proc : StartBegin(p)
    PROVE  OperationSettles
<1> USE DEF OperationSettles, StoppedIsClean, PidClaims, Wanted
<1>0. daemon' = daemon /\ svcMode' = svcMode /\ Cancelled' = Cancelled
  BY DEF Spawn, Register, Healthy, StartBegin, lifeVars, Cancelled
<1>1. ASSUME NEW p \in Proc, StartBegin(p) PROVE OperationSettles
  <2>1. /\ gate.pc = "start" /\ Exists /\ Mode # OD /\ tracked' = tracked
        /\ row' = [row EXCEPT !.enabled = TRUE, !.status = "starting", !.addr = p]
    BY <1>1 DEF StartBegin, procVars
  <2>2. gate'.pc = "spawn"
    BY <1>1 DEF StartBegin, TypeOK, Gate
  <2>3. /\ row'.enabled /\ row'.status = "starting" /\ row'.pid = row.pid
        /\ row'.mode = row.mode
    BY <2>1 DEF TypeOK, Row
  <2>4. Exists' /\ Mode' # OD
    BY <1>0, <2>1, <2>3 DEF Exists, Mode, EffectiveRuntimeMode
  <2> QED BY <1>0, <2>1, <2>2, <2>3, <2>4
<1>2. CASE Spawn \/ Healthy
  <2>1. /\ row' = row /\ tracked' = tracked /\ gate.pc \in {"spawn", "health"}
        /\ gate.pc = "health" => row.status = "running"
    BY <1>2 DEF Spawn, Healthy, procVars, Tended, StartDescribes
  <2>2. gate'.pc \in {"register", "free"} /\ (gate'.pc = "free" => gate.pc = "health")
    BY <1>2 DEF Spawn, Healthy, Release, FreeGate, TypeOK, Gate
  <2>3. Exists' = Exists /\ Mode' = Mode
    BY <1>0, <2>1 DEF Exists, Mode, EffectiveRuntimeMode
  <2> QED BY <1>0, <2>1, <2>2, <2>3
<1>3. CASE Register
  <2>1. /\ gate.pc = "register" /\ tracked' = gate.proc
        /\ row' = [row EXCEPT !.status = "running", !.pid = gate.proc]
    BY <1>3 DEF Register
  <2>2. gate'.pc = "health"
    BY <1>3 DEF Register, TypeOK, Gate
  <2>3. /\ row'.enabled = row.enabled /\ row'.status = "running" /\ row'.pid = gate.proc
        /\ row'.mode = row.mode
    BY <2>1 DEF TypeOK, Row
  <2>4. Exists' /\ Mode' # OD /\ row.enabled
    BY <1>0, <2>1, <2>3, UnderWay DEF Exists, Mode, EffectiveRuntimeMode
  <2> QED BY <1>0, <2>1, <2>2, <2>3, <2>4
<1> QED BY <1>1, <1>2, <1>3

\* A rollback to on-demand.
LEMMA RollBackSettles ==
    ASSUME TypeOK, StoppedIsClean, RollBack
    PROVE  OperationSettles
<1> USE DEF OperationSettles, StoppedIsClean, PidClaims, Wanted
<1>0. /\ gate.pc = "rollback" /\ daemon' = daemon /\ svcMode' = svcMode
      /\ Cancelled' = Cancelled /\ (OpCtxDone => Cancelled \/ gate.gone)
  BY OnlyShutdownCancels DEF RollBack, lifeVars, Cancelled
<1>s. row' = row => Exists' = Exists /\ Mode' = Mode
  BY <1>0 DEF Exists, Mode, EffectiveRuntimeMode
<1>1. CASE OpCtxDone
  <2>1. row' = row /\ tracked' = tracked /\ gate' = FreeGate
    BY <1>1 DEF RollBack, Release, procVars
  <2> QED BY <1>0, <1>1, <1>s, <2>1, FreeGateType
<1>2. CASE ~OpCtxDone /\ gate.op = "SetRuntimeMode" /\ (tracked # None \/ row.pid # None)
  <2>1. row' = row /\ stopProcess("SetRuntimeMode", TRUE, "onDemand", gate.mode)
    BY <1>2 DEF RollBack
  <2>2. gate'.pc = "stop" /\ gate'.then = "onDemand" /\ gate'.op = "SetRuntimeMode"
    BY <2>1, StopEffect
  <2> QED BY <1>0, <1>s, <2>1, <2>2
<1>3. CASE ~OpCtxDone /\ ~(gate.op = "SetRuntimeMode" /\ (tracked # None \/ row.pid # None))
  <2>1. row' = OnDemandRow(gate.mode) /\ gate' = FreeGate
    BY <1>3 DEF RollBack, Release
  <2>2. row'.pid = None /\ row'.status = "running"
    BY <2>1, FieldTypes, LandedOnDemand
  <2> QED BY <2>1, <2>2, FreeGateType
<1> QED BY <1>1, <1>2, <1>3

-----------------------------------------------------------------------------
(* The inductive step, and the theorems                                     *)

\* Only the client of a call may leave it, and only one that disconnects.
GoneIsClient == gate.gone => "caller" \in Faults /\ gate.op \in ClientOps

\* Nobody else is told that it has.
LEMMA NextGone ==
    ASSUME TypeOK, GoneIsClient, [Next]_vars
    PROVE  GoneIsClient'
<1>0. FreeGate.gone = FALSE /\ gate \in Gate
  BY DEF FreeGate, TypeOK
<1> DEFINE Keeps == gate' = gate \/ ~gate'.gone \/ (gate'.gone = gate.gone /\ gate'.op = gate.op)
<1>k. ASSUME Keeps PROVE GoneIsClient'
  BY <1>k DEF GoneIsClient
<1>s. ASSUME NEW op, NEW on, NEW next, NEW m, stopProcess(op, on, next, m) PROVE Keeps
  BY <1>s DEF stopProcess, FreeGate
<1>t. ASSUME NEW op, NEW next, NEW m, NEW r, startLocked(op, next, m, r) PROVE Keeps
  BY <1>t DEF startLocked, FreeGate
<1>u. ASSUME NEW op, stopThenStart(op) PROVE Keeps
  BY <1>s, <1>u DEF stopThenStart
<1>v. ASSUME NEW op, NEW m, NEW flag, restartLocked(op, m, flag) PROVE Keeps
  BY <1>u, <1>v DEF restartLocked
<1>f. ASSUME gate' = FreeGate PROVE Keeps
  BY <1>0, <1>f
<1>1. ASSUME OperationStep PROVE Keeps
  <2>1. CASE StopDone \/ StopFail
    <3>1. \/ gate' = FreeGate
          \/ gate' = [gate EXCEPT !.pc = "start", !.proc = None, !.then = "done"]
      BY <2>1 DEF StopDone, StopFail, Release
    <3> QED BY <1>0, <3>1 DEF Gate
  <2>2. ASSUME NEW p \in Proc, StartBegin(p) PROVE Keeps
    BY <2>2 DEF StartBegin, TypeOK, Gate
  <2>3. CASE Spawn \/ Register \/ Healthy
    <3>1. gate' = FreeGate \/ \E pc \in {"register", "health"} : gate' = [gate EXCEPT !.pc = pc]
      BY <2>3 DEF Spawn, Register, Healthy, Release
    <3> QED BY <1>0, <3>1 DEF Gate
  <2>4. ASSUME NEW r, failStart(r) PROVE Keeps
    <3>1. \/ gate' = FreeGate
          \/ gate' = [gate EXCEPT !.pc = "rollback", !.proc = None]
      BY <2>4 DEF failStart, Release
    <3> QED BY <1>0, <3>1 DEF Gate
  <2> HIDE DEF Keeps
  <2>5. CASE StartEarlyFail \/ SpawnFail \/ RegisterReplaced \/ RegisterFail \/ HealthFail
    BY <2>4, <2>5 DEF StartEarlyFail, SpawnFail, RegisterReplaced, RegisterFail, HealthFail
  <2>6. CASE RollBack
    BY <1>s, <1>f, <2>6 DEF RollBack, Release
  <2> QED BY <1>1, <2>1, <2>2, <2>3, <2>5, <2>6 DEF OperationStep
<1>c. ASSUME CallerGone PROVE GoneIsClient'
  <2>1. "caller" \in Faults /\ gate.op \in ClientOps /\ gate'.op = gate.op
    BY <1>0, <1>c DEF CallerGone, Gate
  <2> QED BY <2>1 DEF GoneIsClient
<1>7. ASSUME Lifecycle PROVE Keeps
  <2>1. CASE BeginShutdown \/ ShutdownList \/ BootDone \/ ShutdownStop
    BY <1>s, <2>1 DEF BeginShutdown, ShutdownList, ShutdownStop, BootDone
  <2>2. CASE ShutdownDone \/ Crash
    BY <1>0, <2>2 DEF ShutdownDone, Crash, forget
  <2>3. CASE Boot
    BY <2>3 DEF Boot, FreeGate
  <2> QED BY <1>7, <2>1, <2>2, <2>3 DEF Lifecycle
<1>8. ASSUME Background PROVE Keeps
  BY <1>s, <1>8 DEF Background, Wait, restartAfterBackoff, TouchInstance, scanScaleToZero,
     parkIfStillIdle, FreeGate
<1>9. ASSUME (\E p \in Proc : ProcExit(p)) \/ UNCHANGED vars PROVE Keeps
  BY <1>9 DEF ProcExit, vars
<1> HIDE DEF Keeps
<1>e. ASSUME gate' = gate PROVE Keeps
  BY <1>e DEF Keeps
<1>2. ASSUME Operator PROVE Keeps
  <2>1. ASSUME Start \/ Stop \/ Restart \/ UpdateConfig \/ Delete PROVE Keeps
    BY <1>e, <1>s, <1>t, <1>u, <1>v, <2>1 DEF Start, Stop, Restart, UpdateConfig, Delete
  <2>2. ASSUME SyncUnchanged \/ \E m \in Overrides, s \in BOOLEAN : Create(m, s)
        PROVE  Keeps
    BY <1>e, <1>t, <2>2 DEF SyncUnchanged, Create
  <2>3. ASSUME NEW m \in Overrides, SetRuntimeMode(m) PROVE Keeps
    BY <1>e, <1>s, <1>t, <2>3 DEF SetRuntimeMode, SetModeSameResident, SetModeOnDemand,
       SetModeOnDemandToLongRunning, SetModeToScaleToZero, SetModeToLongRunning,
       SetModeOnDemandToScaleToZero
  <2>4. ASSUME NEW m \in Overrides, Sync(m) PROVE Keeps
    BY <1>e, <1>s, <1>t, <1>v, <2>4 DEF Sync, SyncOnDemand, SyncFromOnDemand, SyncResident
  <2> QED BY <1>2, <2>1, <2>2, <2>3, <2>4 DEF Operator
<1>3. ASSUME Import PROVE Keeps
  <2>1. ASSUME \/ \E m \in Modes : ImportService(m)
               \/ restartEnabledServiceInstances \/ ReloadAbandoned
        PROVE  Keeps
    BY <1>e, <2>1 DEF ImportService, restartEnabledServiceInstances, ReloadAbandoned
  <2>2. ASSUME ImportRestart \/ RestartIfWarm \/ ApplyServiceRuntimeMode PROVE Keeps
    BY <1>e, <1>s, <1>u, <2>2 DEF ImportRestart, RestartIfWarm, ApplyServiceRuntimeMode
  <2> QED BY <1>3, <2>1, <2>2 DEF Import
<1>4. ASSUME Requests PROVE Keeps
  BY <1>e, <1>t, <1>4 DEF Requests, EnsureStarted, releaseRef
<1>6. ASSUME Reconcile PROVE Keeps
  BY <1>e, <1>s, <1>t, <1>6 DEF Reconcile, ReconcileOrphan, ReconcileSurplus, ReconcileStale,
     ReconcileMissing, ReconcileMissingTracked
<1> QED BY <1>k, <1>c, <1>1, <1>2, <1>3, <1>4, <1>6, <1>7, <1>8, <1>9 DEF Next

\* What the theorems below rest on.
Quietly == Sound /\ GoneIsClient /\ StoppedIsClean

\* It holds at first, and so do the others.
LEMMA InitQuietly == Init => Quietly /\ PidClaims /\ Wanted
    BY InitSound DEF Init, Quietly, GoneIsClient, FreeGate, StoppedIsClean, PidClaims, Wanted,
       Exists

\* What each of them needs of a step.
LEMMA NextSettles ==
    ASSUME NoImport, Quietly, [Next]_vars
    PROVE  /\ Quietly'
           /\ PidClaims => PidClaims'
           /\ NoCaller /\ {"stop", "early"} \intersect Faults = {} /\ Wanted => Wanted'
<1> USE DEF Settles
<1>0. Sound' /\ GoneIsClient' /\ (NoCaller => ~gate.gone)
  BY NextSound, NextGone DEF Quietly, Sound, GoneIsClient, NoCaller
<1>f. TypeOK /\ Owned /\ Tended /\ StoppedIsClean
  BY DEF Quietly, Sound
<1> DEFINE Goal == /\ StoppedIsClean'
                   /\ PidClaims => PidClaims'
                   /\ ~gate.gone /\ {"stop", "early"} \intersect Faults = {} /\ Wanted =>
                          Wanted'
<1>s. ASSUME Settles PROVE Goal
  BY <1>s
<1>1. ASSUME OperationStep PROVE Goal
  <2> USE DEF OperationSettles
  <2>1. ASSUME StopDone \/ StopFail PROVE Goal
    BY <1>f, <2>1, StopSettles
  <2>2. ASSUME Spawn \/ Register \/ Healthy \/ \E p \in Proc : StartBegin(p) PROVE Goal
    BY <1>f, <2>2, StartSettles
  <2>3. ASSUME StartEarlyFail \/ SpawnFail \/ RegisterReplaced \/ RegisterFail \/ HealthFail
        PROVE  Goal
    BY <1>f, <2>3, FailureSettles
  <2>4. ASSUME RollBack PROVE Goal
    BY <1>f, <2>4, RollBackSettles
  <2> QED BY <1>1, <2>1, <2>2, <2>3, <2>4 DEF OperationStep
<1>2. ASSUME Operator \/ Requests \/ Background \/ Reconcile \/ CallerGone
             \/ \E p \in Proc : ProcExit(p)
      PROVE  Goal
  BY <1>2, <1>f, <1>s, OperatorSettles, RequestsSettle, BackgroundSettles, ReconcileSettles,
     EnvironmentSettles
<1>3. ASSUME Lifecycle PROVE Goal
  BY <1>3, <1>f, <1>s, LifecycleSettles
<1>4. ASSUME UNCHANGED vars PROVE Goal
  BY <1>4, <1>f, <1>s, UntouchedSettles DEF vars, procVars, lifeVars, Untouched
<1>5. ~Import
  BY <1>f, ImportsNothing DEF Tended
<1>6. Goal
  BY <1>1, <1>2, <1>3, <1>4, <1>5 DEF Next
<1> QED BY <1>0, <1>6 DEF Quietly

\* When nothing is under way a row that names a dead process is one that the next
\* reconcile pass clears: whatever stops, fails to start, exits or dies, with the
\* daemon or alone, no pid is left in a row that is disabled, on-demand or deleted.
THEOREM DeadPidsAreCleared ==
    ASSUME NoImport
    PROVE  Spec => []NoDeadPid
<1> DEFINE Inv == Quietly /\ PidClaims
<1>1. Inv /\ [Next]_vars => Inv'
  BY NextSettles
<1>2. Inv => NoDeadPid
  <2> SUFFICES ASSUME Inv, Settled, row.pid \notin alive, row.pid # None
               PROVE  staleClaim(LR) \/ staleClaim(STZ)
    BY DEF NoDeadPid
  <2>1. gate.pc = "free" /\ Exists /\ Mode # OD /\ row.enabled /\ row.status # "stopped"
    BY DEF Settled, GateFree, PidClaims, Quietly, StoppedIsClean
  <2>2. ~liveProcess
    BY DEF Quietly, Sound, Tended, TrackedServes, liveProcess
  <2>3. tracked = None
    BY <2>1, <2>2 DEF Settled, Quietly, Sound, Owned, OperationOwnsProcess, liveProcess
  <2>4. row.status \in Statuses /\ Mode \in Modes
    BY FieldTypes DEF Quietly, Sound, TypeOK, Row, Mode, EffectiveRuntimeMode, Overrides
  <2> QED BY <2>1, <2>3, <2>4
          DEF staleClaim, claimsLiveness, PidLive, Statuses, Modes, Exists
<1> QED BY <1>1, <1>2, InitQuietly, PTL DEF Spec

\* An enabled long-running instance without a process always has someone to start
\* it again, the timer or the reconcile pass, through crashes of processes and of
\* the daemon and failed starts.
THEOREM NobodyIsForgotten ==
    ASSUME NoImport, NoCaller, {"stop", "early"} \intersect Faults = {}
    PROVE  Spec => []NoLostRestart
<1> DEFINE Inv == Quietly /\ Wanted
<1>1. Inv /\ [Next]_vars => Inv'
  BY NextSettles
<1>2. Inv => NoLostRestart
  <2> SUFFICES ASSUME Inv, Settled, Exists, row.enabled, Mode = LR, ~liveProcess
               PROVE  claimsLiveness
    BY DEF NoLostRestart
  <2>1. gate.pc = "free" /\ daemon = "up" /\ tracked = None
    BY DEF Settled, GateFree, Quietly, Sound, Owned, OperationOwnsProcess, liveProcess
  <2>2. row.status # "stopped" /\ row.status \in Statuses
    BY <2>1 DEF Wanted, Cancelled, Quietly, Sound, TypeOK, Row
  <2> QED BY <2>2 DEF Statuses, Exists, claimsLiveness
<1> QED BY <1>1, <1>2, InitQuietly, PTL DEF Spec

-----------------------------------------------------------------------------
(* The row of an on-demand instance                                         *)

\* Nothing that could still write a row is left of an instance once it is deleted or
\* on-demand: no generation, no timer, no attempt to start it.  A stop that finds it
\* on-demand already is a reconcile pass's, over a process that has exited.
Cold ==
    /\ ~Exists \/ Mode = OD => ~current /\ ~backoff
    /\ gate.pc = "stop" =>
          /\ ~current
          /\ Mode = OD => /\ gate.op = "Reconcile" /\ gate.then = "onDemand"
                          /\ gate.proc \notin alive
    /\ gate.pc = "start" /\ gate.op = "Backoff" => Mode # OD
    /\ gate.pc = "rollback" => gate.then = "rollback"
    /\ gate.then = "rollback" => Mode # OD /\ (gate.pc = "health" \/ ~current)

\* A write that leaves an enabled on-demand row leaves one that has landed.
Lands == daemon = "up" /\ row' # row /\ onDemand' => servable'
Cools == Cold' /\ Lands

\* What a call that finds the gate free may rely on.
LEMMA FoundCold ==
    ASSUME TypeOK, Tended, PidClaims, Cold, Enter
    PROVE  /\ gate = FreeGate /\ gate.pc = "free" /\ gate.then = "done" /\ row \in Row
           /\ ~Exists \/ Mode = OD => ~current /\ ~backoff /\ ~claimsProcess /\ ~liveProcess
<1>1. gate = FreeGate /\ row \in Row /\ (liveProcess => Mode # OD /\ row.status = "running")
  BY Found
<1> QED BY <1>1 DEF FreeGate, Cold, claimsProcess, PidClaims, Exists

\* A stop that goes on in a resident mode.
LEMMA CoolStop ==
    ASSUME NEW op, NEW on, NEW next, NEW m, stopProcess(op, on, next, m), next # "rollback",
           Mode' # OD
    PROVE  Cools
    BY DEF stopProcess, FreeGate, nextGeneration, Cools, Cold, Lands, onDemand

\* A start.
LEMMA CoolStart ==
    ASSUME NEW op, NEW next, NEW m, NEW r, startLocked(op, next, m, r), op # "Backoff",
           next = "rollback" => Mode' # OD, row' = row \/ Mode' # OD
    PROVE  Cools
    BY DEF startLocked, FreeGate, nextGeneration, Cools, Cold, Lands, onDemand

\* A call that is over at once.
LEMMA CoolRest ==
    ASSUME gate' = FreeGate,
           \/ Exists' /\ Mode' # OD
           \/ ~current' /\ ~backoff' /\ (row' = row \/ ~Exists' \/ servable')
    PROVE  Cools
    BY DEF FreeGate, Cools, Cold, Lands, onDemand

\* A step that leaves the row alone, and no more behind it than there was.
LEMMA CoolKept ==
    ASSUME Cold, UNCHANGED <<row, svcMode>>, gate'.pc = gate.pc, gate'.op = gate.op,
           gate'.then = gate.then, gate'.proc = gate.proc, alive' \subseteq alive,
           current' => current, backoff' => backoff
    PROVE  Cools
<1>1. Exists' = Exists /\ Mode' = Mode
  BY DEF Exists, Mode, EffectiveRuntimeMode
<1> QED BY <1>1 DEF Cools, Cold, Lands

\* A row in on-demand that has landed.
LEMMA OnDemandLands ==
    ASSUME TypeOK, NEW m \in Overrides, row' = OnDemandRow(m)
    PROVE  servable'
    BY DEF TypeOK, Row, OnDemandRow, servable

\* The row, or a stopped one, with a new override for a resident mode.
LEMMA StaysResident ==
    ASSUME TypeOK, Exists, svcMode' = svcMode, NEW m \in Overrides, NEW on \in BOOLEAN,
           EffectiveRuntimeMode(m) # OD,
           \/ row' = [row EXCEPT !.mode = m]
           \/ row' = [StoppedRow(on) EXCEPT !.mode = m]
    PROVE  Exists' /\ Mode' # OD
<1>1. row' = [row EXCEPT !.mode = m] => Exists' /\ Mode' # OD
  BY Overridden
<1>2. row' = [StoppedRow(on) EXCEPT !.mode = m] => Exists' /\ Mode' # OD
  BY StoppedOverride DEF Exists
<1> QED BY <1>1, <1>2

\* A reload.
LEMMA RestartCools ==
    ASSUME TypeOK, Tended, Enter, Exists, svcMode' = svcMode, NEW m \in Overrides, NEW flag,
           NEW op, EffectiveRuntimeMode(m) # OD, restartLocked(op, m, flag)
    PROVE  Cools
<1>0. gate = FreeGate /\ row.enabled \in BOOLEAN
  BY Found, FieldTypes
<1>1. CASE ~liveProcess /\ EffectiveRuntimeMode(m) = STZ
  <2>1. /\ gate' = gate
        /\ \/ row' = [StoppedRow(row.enabled) EXCEPT !.mode = m]
           \/ row' = [row EXCEPT !.mode = m]
    BY <1>1 DEF restartLocked
  <2> QED BY <1>0, <2>1, StaysResident, CoolRest
<1>2. CASE ~(~liveProcess /\ EffectiveRuntimeMode(m) = STZ)
  <2>1. stopThenStart(op) /\ row' = [row EXCEPT !.mode = m]
    BY <1>2 DEF restartLocked
  <2>2. Mode' # OD
    BY <1>0, <2>1, StaysResident
  <2> QED BY <2>1, <2>2, CoolStop DEF stopThenStart
<1> QED BY <1>1, <1>2

\* A switch to a resident mode that starts nothing.
LEMMA RestCools ==
    ASSUME TypeOK, gate = FreeGate, Exists, NEW m \in Overrides, NEW on \in BOOLEAN,
           svcMode' = svcMode, EffectiveRuntimeMode(m) # OD,
           \/ row' = [row EXCEPT !.mode = m]
           \/ row' = [StoppedRow(on) EXCEPT !.mode = m],
           gate' = gate
    PROVE  Cools
    BY StaysResident, CoolRest

\* A switch to a resident mode, at rest or with a start.
LEMMA SwitchCools ==
    ASSUME TypeOK, gate = FreeGate, Exists, NEW m \in Overrides, NEW on \in BOOLEAN,
           svcMode' = svcMode, EffectiveRuntimeMode(m) # OD,
           \/ row' = [row EXCEPT !.mode = m]
           \/ row' = [StoppedRow(on) EXCEPT !.mode = m],
           NEW op, op # "Backoff", NEW next, NEW n,
           gate' = gate \/ startLocked(op, next, n, None)
    PROVE  Cools
<1>1. Exists' /\ Mode' # OD
  BY StaysResident
<1> QED BY <1>1, CoolRest, CoolStart

\* Start, stop, restart, the configuration and the deletion of an instance.
LEMMA SimpleCallsCool ==
    ASSUME TypeOK, Tended, PidClaims, Cold, Start \/ Stop \/ Restart \/ UpdateConfig \/ Delete
    PROVE  Cools
<1>0. Enter /\ Exists /\ svcMode' = svcMode
  BY DEF Start, Stop, Restart, UpdateConfig, Delete
<1>f. gate = FreeGate /\ row \in Row /\ (Mode = OD => ~liveProcess)
  BY <1>0, FoundCold
<1>s. row' = row => Exists' = Exists /\ Mode' = Mode
  BY <1>0 DEF Exists, Mode, EffectiveRuntimeMode
<1>1. CASE Start
  BY <1>1, CoolStart DEF Start
<1>2. CASE Stop
  BY <1>2, <1>s, CoolStop DEF Stop
<1>3. CASE Restart
  BY <1>3, <1>s, CoolStop DEF Restart, stopThenStart
<1>4. CASE UpdateConfig
  <2>1. restartLocked("UpdateConfig", row.mode, stz) /\ EffectiveRuntimeMode(row.mode) # OD
    BY <1>4 DEF UpdateConfig, Mode
  <2> QED BY <1>0, <2>1, FieldTypes, RestartCools
<1>5. CASE Delete
  <2>1. CASE Mode = OD /\ ~liveProcess
    <3>1. /\ row' = [StoppedRow(FALSE) EXCEPT !.status = "absent", !.mode = "inherit"]
          /\ gate' = gate /\ nextGeneration
      BY <1>5, <2>1 DEF Delete
    <3>2. row'.status = "absent"
      BY <1>f, <3>1 DEF StoppedRow, Row
    <3> QED BY <1>f, <3>1, <3>2, CoolRest DEF Exists, nextGeneration
  <2>2. CASE ~(Mode = OD /\ ~liveProcess)
    BY <1>5, <1>f, <1>s, <2>2, CoolStop DEF Delete
  <2> QED BY <2>1, <2>2
<1> QED BY <1>1, <1>2, <1>3, <1>4, <1>5

\* A new instance, and a sync that finds nothing to change.
LEMMA CreateCallsCool ==
    ASSUME TypeOK, Tended, PidClaims, Cold,
           SyncUnchanged \/ \E m \in Overrides, s \in BOOLEAN : Create(m, s)
    PROVE  Cools
<1>0. Enter /\ svcMode' = svcMode
  BY DEF SyncUnchanged, Create
<1>f. /\ gate = FreeGate /\ row \in Row
      /\ ~Exists \/ Mode = OD => ~current /\ ~backoff
  BY <1>0, FoundCold
<1>1. ASSUME NEW m \in Overrides, NEW s \in BOOLEAN, Create(m, s) PROVE Cools
  <2> DEFINE mode == EffectiveRuntimeMode(m)
             run  == s /\ mode = LR
  <2>1. /\ ~Exists
        /\ row' = [enabled |-> run \/ mode # LR,
                   status |-> IF mode = OD THEN "running"
                              ELSE IF run THEN "starting" ELSE "stopped",
                   pid |-> None, addr |-> None, mode |-> m]
        /\ IF run THEN startLocked("Create", "done", m, None)
           ELSE UNCHANGED <<gate, current, backoff>>
    BY <1>1 DEF Create
  <2>2. Mode' = mode /\ (mode = OD => servable')
    BY <1>0, <2>1 DEF Mode, EffectiveRuntimeMode, servable
  <2>3. mode # OD => Exists'
    BY <2>1 DEF Exists
  <2>4. CASE run
    BY <2>1, <2>2, <2>4, CoolStart DEF LR, OD
  <2>5. CASE ~run
    BY <1>f, <2>1, <2>2, <2>3, <2>5, CoolRest
  <2> QED BY <2>4, <2>5
<1>2. CASE SyncUnchanged
  <2>1. CASE Mode = LR /\ row.enabled /\ row.status = "failed" /\ ~liveProcess
    BY <1>2, <2>1, CoolStart DEF SyncUnchanged
  <2>2. CASE ~(Mode = LR /\ row.enabled /\ row.status = "failed" /\ ~liveProcess)
    <3>1. /\ UNCHANGED <<gate, current, backoff>> /\ Exists
          /\ \/ Mode = OD /\ row' = OnDemandRow(row.mode)
             \/ Mode = STZ /\ row' = StoppedRow(TRUE)
             \/ row' = row
      BY <1>2, <2>2 DEF SyncUnchanged
    <3>2. CASE row' = row
      BY <1>0, <1>f, <3>1, <3>2, CoolRest DEF Exists, Mode, EffectiveRuntimeMode
    <3>3. CASE Mode = OD /\ row' = OnDemandRow(row.mode)
      BY <1>f, <3>1, <3>3, FieldTypes, OnDemandLands, CoolRest
    <3>4. CASE Mode = STZ /\ row' = StoppedRow(TRUE)
      <4>1. row'.status = "stopped" /\ row'.mode = row.mode
        BY <3>4, StoppedFields
      <4> QED BY <1>0, <1>f, <3>1, <3>4, <4>1, CoolRest
              DEF Exists, Mode, EffectiveRuntimeMode, STZ, OD
    <3> QED BY <3>1, <3>2, <3>3, <3>4
  <2> QED BY <2>1, <2>2
<1> QED BY <1>1, <1>2

\* A mode switch, by the modes before and after.
LEMMA SwitchCallsCool ==
    ASSUME TypeOK, Tended, PidClaims, Cold, NEW m \in Overrides, SetRuntimeMode(m)
    PROVE  Cools
<1>0. /\ Enter /\ Exists /\ svcMode' = svcMode
  BY DEF SetRuntimeMode, SetModeSameResident, SetModeOnDemand,
         SetModeOnDemandToLongRunning, SetModeToScaleToZero, SetModeToLongRunning,
         SetModeOnDemandToScaleToZero, setMode
<1>f. /\ gate = FreeGate /\ row \in Row
      /\ Mode = OD => ~current /\ ~backoff /\ row.pid = None /\ ~liveProcess
  BY <1>0, FoundCold DEF claimsProcess
<1>1. CASE SetModeSameResident(m)
  <2>1. /\ row' = [row EXCEPT !.mode = m] /\ EffectiveRuntimeMode(m) # OD
        /\ gate' = gate \/ startLocked("SetRuntimeMode", "done", m, None)
    BY <1>1 DEF SetModeSameResident, setMode, LR, STZ, OD
  <2> QED BY <1>0, <1>f, <2>1, SwitchCools
<1>2. CASE SetModeOnDemand(m)
  <2>1. CASE Mode # OD
    <3>1. row' = row /\ stopProcess("SetRuntimeMode", TRUE, "onDemand", m)
      BY <1>2, <2>1 DEF SetModeOnDemand
    <3>2. Mode' # OD
      BY <1>0, <2>1, <3>1 DEF Mode, EffectiveRuntimeMode
    <3> QED BY <3>1, <3>2, CoolStop
  <2>2. CASE Mode = OD
    <3>1. row' = OnDemandRow(m) /\ UNCHANGED <<gate, current, backoff>>
      BY <1>2, <1>f, <2>2 DEF SetModeOnDemand
    <3> QED BY <1>f, <2>2, <3>1, OnDemandLands, CoolRest
  <2> QED BY <2>1, <2>2
<1>3. CASE SetModeOnDemandToLongRunning(m)
  <2>1. /\ row' = [row EXCEPT !.mode = m] /\ EffectiveRuntimeMode(m) # OD
        /\ gate' = gate \/ startLocked("SetRuntimeMode", "rollback", row.mode, None)
    BY <1>3 DEF SetModeOnDemandToLongRunning, setMode, LR, OD
  <2> QED BY <1>0, <1>f, <2>1, SwitchCools
<1>4. CASE SetModeToScaleToZero(m)
  <2>1. row' = [row EXCEPT !.mode = m] /\ EffectiveRuntimeMode(m) # OD /\ gate' = gate
    BY <1>4 DEF SetModeToScaleToZero, setMode, STZ, OD
  <2> QED BY <1>0, <1>f, <2>1, RestCools
<1>5. CASE SetModeToLongRunning(m)
  <2>1. /\ row' = [row EXCEPT !.mode = m] /\ EffectiveRuntimeMode(m) # OD
        /\ gate' = gate \/ startLocked("SetRuntimeMode", "done", m, None)
    BY <1>5 DEF SetModeToLongRunning, setMode, LR, OD
  <2> QED BY <1>0, <1>f, <2>1, SwitchCools
<1>6. CASE SetModeOnDemandToScaleToZero(m)
  <2>1. /\ row' = [StoppedRow(TRUE) EXCEPT !.mode = m] /\ EffectiveRuntimeMode(m) # OD
        /\ gate' = gate
    BY <1>6 DEF SetModeOnDemandToScaleToZero, setMode, STZ, OD
  <2> QED BY <1>0, <1>f, <2>1, RestCools
<1> QED BY <1>1, <1>2, <1>3, <1>4, <1>5, <1>6 DEF SetRuntimeMode

\* A sync, by the modes before and after.
LEMMA SyncCallsCool ==
    ASSUME TypeOK, Tended, PidClaims, Cold, NEW m \in Overrides, Sync(m)
    PROVE  Cools
<1>0. /\ Enter /\ Exists /\ svcMode' = svcMode
  BY DEF Sync, SyncOnDemand, SyncFromOnDemand, SyncResident, sync
<1>f. /\ gate = FreeGate /\ row \in Row /\ row.enabled \in BOOLEAN
      /\ Mode = OD => ~current /\ ~backoff /\ ~claimsProcess
  BY <1>0, FoundCold, FieldTypes
<1>1. CASE SyncOnDemand(m)
  <2>1. CASE claimsProcess
    <3>1. row' = row /\ stopProcess("Create", TRUE, "onDemand", m)
      BY <1>1, <1>f, <2>1 DEF SyncOnDemand
    <3>2. Mode' # OD
      BY <1>0, <1>f, <2>1, <3>1 DEF Mode, EffectiveRuntimeMode
    <3> QED BY <3>1, <3>2, CoolStop
  <2>2. CASE ~claimsProcess
    <3>1. /\ row' = OnDemandRow(m) /\ gate' = gate
          /\ IF Mode = OD THEN UNCHANGED <<current, backoff>> ELSE nextGeneration
      BY <1>1, <2>2 DEF SyncOnDemand
    <3> QED BY <1>f, <3>1, OnDemandLands, CoolRest DEF nextGeneration
  <2> QED BY <2>1, <2>2
<1>2. CASE SyncFromOnDemand(m)
  <2>1. /\ \/ row' = [row EXCEPT !.mode = m]
           \/ row' = [StoppedRow(row.enabled) EXCEPT !.mode = m]
        /\ EffectiveRuntimeMode(m) # OD
        /\ gate' = gate \/ startLocked("Create", "rollback", row.mode, None)
    BY <1>2 DEF SyncFromOnDemand, sync, LR, STZ, OD
  <2> QED BY <1>0, <1>f, <2>1, SwitchCools
<1>3. ASSUME NEW c \in BOOLEAN, SyncResident(m, c) PROVE Cools
  <2> DEFINE after == EffectiveRuntimeMode(m)
             flag  == tracked # None /\ after = STZ
  <2>1. /\ after # OD
        /\ \/ restartLocked("Create", m, flag)
           \/ /\ \/ row' = [row EXCEPT !.mode = m]
                 \/ row' = [StoppedRow(TRUE) EXCEPT !.mode = m]
              /\ gate' = gate \/ startLocked("Create", "done", m, None)
    BY <1>3 DEF SyncResident, sync, LR, STZ, OD
  <2>2. CASE restartLocked("Create", m, flag)
    BY <1>0, <2>1, <2>2, RestartCools
  <2>3. CASE ~restartLocked("Create", m, flag)
    BY <1>0, <1>f, <2>1, <2>3, SwitchCools
  <2> QED BY <2>2, <2>3
<1> QED BY <1>1, <1>2, <1>3 DEF Sync

\* Requests, the timer and the scan.
LEMMA BackgroundCools ==
    ASSUME TypeOK, Tended, PidClaims, Cold, Requests \/ Background
    PROVE  Cold' /\ (Lands \/ lateExit)
<1> USE DEF Cools
<1>1. ASSUME NEW r \in Req, EnsureStarted(r) PROVE Cools
  <2>1. /\ UNCHANGED <<row, svcMode, alive>>
        /\ UNCHANGED <<gate, current, backoff>>
           \/ startLocked("EnsureStarted", "done", row.mode, r)
    BY <1>1 DEF EnsureStarted, osVars
  <2> QED BY <2>1, CoolKept, CoolStart
<1>2. ASSUME NEW r \in Req, releaseRef(r) PROVE Cools
  BY <1>2, CoolKept DEF releaseRef, procVars, osVars
<1>3. CASE restartAfterBackoff
  <2>1. /\ Enter /\ backoff /\ UNCHANGED <<row, svcMode, alive, current>> /\ ~backoff'
        /\ \/ gate' = gate
           \/ gate' = [FreeGate EXCEPT !.op = "Backoff", !.pc = "start", !.addr = row.addr]
    BY <1>3 DEF restartAfterBackoff, procVars, osVars
  <2>2. CASE gate' = gate
    BY <2>1, <2>2, CoolKept
  <2>3. CASE gate' = [FreeGate EXCEPT !.op = "Backoff", !.pc = "start", !.addr = row.addr]
    <3>1. gate'.pc = "start" /\ gate'.then = "done" /\ Exists /\ Mode # OD
      BY <2>1, <2>3, FoundCold DEF FreeGate
    <3>2. Exists' = Exists /\ Mode' = Mode
      BY <2>1 DEF Exists, Mode, EffectiveRuntimeMode
    <3> QED BY <2>1, <3>1, <3>2 DEF Cold, Lands
  <2> QED BY <2>1, <2>2, <2>3
<1>4. CASE TouchInstance \/ scanScaleToZero
  BY <1>4, CoolKept DEF TouchInstance, scanScaleToZero, osVars
<1>5. CASE parkIfStillIdle
  <2>1. Mode' # OD /\ stopProcess("Park", TRUE, "done", row.mode)
    BY <1>5 DEF parkIfStillIdle, Mode, EffectiveRuntimeMode, STZ, OD
  <2> QED BY <2>1, CoolStop
<1>6. ASSUME NEW p \in Proc, Wait(p) PROVE Cold' /\ (Lands \/ lateExit)
  <2>1. /\ UNCHANGED <<gate, svcMode, alive>> /\ gate.pc = "free"
        /\ tracked # p => UNCHANGED current
        /\ tracked = p => ~current'
    BY <1>6 DEF Wait, GateFree, procVars
  <2>g. gate = FreeGate
    BY <2>1 DEF TypeOK
  <2>2. CASE OwnsExit(p)
    <3>1. /\ tracked = p /\ Exists
          /\ \/ row' = [row EXCEPT !.status = "degraded", !.pid = None, !.addr = None]
             \/ row' = [row EXCEPT !.status = "degraded", !.pid = None]
          /\ backoff' => backoff \/ current
      BY <1>6, <2>2 DEF Wait, OwnsExit
    <3>2. row'.status = "degraded" /\ row'.mode = row.mode
      BY <3>1 DEF TypeOK, Row
    <3>3. Exists' /\ Mode' = Mode
      BY <2>1, <3>2 DEF Exists, Mode, EffectiveRuntimeMode
    <3>4. CASE Mode # OD
      BY <2>1, <2>g, <3>3, <3>4, CoolRest
    <3>5. CASE Mode = OD
      <4>1. ~current /\ ~backoff' /\ lateExit
        BY <1>6, <3>1, <3>5 DEF Cold, lateExit
      <4> QED BY <2>1, <2>g, <3>1, <4>1 DEF Cold, FreeGate
    <3> QED BY <3>4, <3>5
  <2>3. CASE ~OwnsExit(p)
    <3>1. UNCHANGED <<row, backoff>>
      BY <1>6, <2>3 DEF Wait
    <3> QED BY <2>1, <3>1, CoolKept
  <2> QED BY <2>2, <2>3
<1> QED BY <1>1, <1>2, <1>3, <1>4, <1>5, <1>6 DEF Requests, Background

\* The reconcile pass.
LEMMA ReconcileCools ==
    ASSUME TypeOK, Tended, PidClaims, Cold, Reconcile
    PROVE  Cools
<1>1. ASSUME NEW p \in Proc, ReconcileOrphan(p) PROVE Cools
  BY <1>1, CoolKept DEF ReconcileOrphan, procVars
<1>2. CASE ReconcileSurplus
  <2>1. /\ UNCHANGED <<row, svcMode, alive>> /\ Enter
        /\ stopProcess("Reconcile", row.enabled, IF Mode = OD THEN "onDemand" ELSE "done",
                       row.mode)
    BY <1>2 DEF ReconcileSurplus, osVars
  <2>2. Mode' = Mode /\ Exists' = Exists
    BY <2>1 DEF Mode, Exists, EffectiveRuntimeMode
  <2>3. CASE Mode # OD
    BY <2>1, <2>2, <2>3, CoolStop
  <2>4. CASE Mode = OD
    <3>1. tracked \notin alive
      BY <2>1, <2>4, FoundCold DEF liveProcess
    <3>2. /\ gate'.pc = "stop" /\ gate'.op = "Reconcile" /\ gate'.then = "onDemand"
          /\ gate'.proc = tracked /\ ~current' /\ ~backoff'
      BY <2>1, <2>4 DEF stopProcess, FreeGate, nextGeneration
    <3> QED BY <2>1, <3>1, <3>2 DEF Cools, Cold, Lands
  <2> QED BY <2>3, <2>4
<1>3. CASE ReconcileMissing
  <2>1. /\ startLocked("Reconcile", "done", row.mode, None) /\ Mode # OD /\ svcMode' = svcMode
        /\ row' = row \/ row' = StoppedRow(TRUE)
    BY <1>3 DEF ReconcileMissing, staleClaim, LR, OD
  <2>2. Mode' # OD
    BY <2>1, StoppedFields DEF Mode, EffectiveRuntimeMode
  <2> QED BY <2>1, <2>2, CoolStart
<1>4. CASE ReconcileStale \/ ReconcileMissingTracked
  <2>1. /\ Enter /\ row' = StoppedRow(TRUE) /\ UNCHANGED <<svcMode, gate>> /\ Mode # OD
    BY <1>4 DEF ReconcileStale, ReconcileMissingTracked, staleClaim, STZ, LR, OD
  <2>2. row'.status = "stopped" /\ row'.mode = row.mode
    BY <2>1, StoppedFields
  <2>3. Exists' /\ Mode' # OD
    BY <2>1, <2>2 DEF Exists, Mode, EffectiveRuntimeMode
  <2> QED BY <2>1, <2>3, FoundCold, CoolRest
<1> QED BY <1>1, <1>2, <1>3, <1>4 DEF Reconcile

\* The life of the daemon, its callers and its processes.
LEMMA OthersCool ==
    ASSUME TypeOK, Cold,
           Lifecycle \/ CallerGone \/ (\E p \in Proc : ProcExit(p)) \/ UNCHANGED vars
    PROVE  Cools
<1>1. CASE Lifecycle
  <2>0. UNCHANGED <<row, svcMode, alive>>
    BY <1>1 DEF Lifecycle, BeginShutdown, ShutdownList, ShutdownStop, ShutdownDone, Crash,
       Boot, BootDone, osVars
  <2>s. Exists' = Exists /\ Mode' = Mode
    BY <2>0 DEF Exists, Mode, EffectiveRuntimeMode
  <2>1. CASE BeginShutdown \/ ShutdownList \/ BootDone
    BY <2>0, <2>1, CoolKept DEF BeginShutdown, ShutdownList, BootDone, nextGeneration, procVars
  <2>2. CASE ShutdownStop
    <3>1. CASE Exists /\ residentMode
      <4>1. stopProcess("Shutdown", row.enabled, "done", row.mode)
        BY <2>2, <3>1 DEF ShutdownStop
      <4>2. Mode' # OD
        BY <2>s, <3>1 DEF residentMode, LR, STZ, OD
      <4> QED BY <4>1, <4>2, CoolStop
    <3>2. CASE ~(Exists /\ residentMode)
      BY <2>0, <2>2, <3>2, CoolKept DEF ShutdownStop, procVars
    <3> QED BY <3>1, <3>2
  <2>3. CASE ShutdownDone \/ Crash
    BY <2>0, <2>3, CoolRest DEF ShutdownDone, Crash, forget
  <2>4. CASE Boot
    <3>1. /\ UNCHANGED <<current, backoff>>
          /\ \/ gate' = gate
             \/ gate' = [FreeGate EXCEPT !.op = "Recover", !.pc = "start"]
      BY <2>4 DEF Boot, procVars
    <3>2. CASE gate' = gate
      BY <2>0, <3>1, <3>2, CoolKept
    <3>3. CASE gate' = [FreeGate EXCEPT !.op = "Recover", !.pc = "start"]
      BY <2>0, <2>s, <3>1, <3>3 DEF FreeGate, Cools, Cold, Lands
    <3> QED BY <3>1, <3>2, <3>3
  <2> QED BY <1>1, <2>1, <2>2, <2>3, <2>4 DEF Lifecycle
<1>2. CASE CallerGone
  BY <1>2, CoolKept DEF CallerGone, procVars, osVars, TypeOK, Gate
<1>3. ASSUME NEW p \in Proc, ProcExit(p) PROVE Cools
  BY <1>3, CoolKept DEF ProcExit, procVars
<1>4. CASE UNCHANGED vars
  BY <1>4, CoolKept DEF vars, procVars, osVars
<1> QED BY <1>1, <1>2, <1>3, <1>4

\* A stop.
LEMMA StopCools ==
    ASSUME TypeOK, Timer, GoneIsClient, Cold, StopDone \/ StopFail
    PROVE  Cools
<1>0. /\ gate.pc = "stop" /\ UNCHANGED <<svcMode, current, backoff>> /\ ~current /\ ~backoff
      /\ gate.enabled \in BOOLEAN /\ gate.mode \in Overrides /\ row \in Row /\ gate \in Gate
  BY FieldTypes DEF StopDone, StopFail, procVars, Cold, Timer, TimerCancelled, TypeOK
<1>1. row' = StoppedRow(gate.enabled) => row'.mode = row.mode /\ Mode' = Mode
  BY <1>0, StoppedFields DEF Mode, EffectiveRuntimeMode
<1>2. OpCtxDone /\ daemon = "up" => gate.op # "Reconcile"
  BY DEF OpCtxDone, Cancelled, GoneIsClient, ClientOps
<1>3. \/ gate' = FreeGate
      \/ /\ gate' = [gate EXCEPT !.pc = "start", !.proc = None, !.then = "done"]
         /\ gate.then = "start" /\ row' = StoppedRow(gate.enabled)
  BY DEF StopDone, StopFail, Release
<1>4. \/ row' = StoppedRow(gate.enabled) /\ (Mode = OD => daemon # "up")
      \/ row' = OnDemandRow(gate.mode)
      \/ row' = [StoppedRow(FALSE) EXCEPT !.status = "absent", !.mode = "inherit"]
  <2>1. CASE StopDone
    BY <1>0, <1>2, <2>1 DEF StopDone, Cold
  <2>2. CASE StopFail
    BY <1>0, <1>2, <2>2 DEF StopFail, Cold
  <2> QED BY <2>1, <2>2
<1>5. Lands
  <2>1. CASE row' = StoppedRow(gate.enabled) /\ (Mode = OD => daemon # "up")
    BY <1>1, <2>1 DEF Lands, onDemand
  <2>2. CASE row' = OnDemandRow(gate.mode)
    BY <1>0, <2>2, OnDemandLands DEF Lands
  <2>3. CASE row' = [StoppedRow(FALSE) EXCEPT !.status = "absent", !.mode = "inherit"]
    <3>1. row'.status = "absent"
      BY <1>0, <2>3 DEF StoppedRow, Row
    <3> QED BY <3>1 DEF Lands, onDemand, Exists
  <2> QED BY <1>4, <2>1, <2>2, <2>3
<1>6. Cold'
  <2>1. CASE gate' = FreeGate
    BY <1>0, <2>1 DEF Cold, FreeGate
  <2>2. CASE /\ gate' = [gate EXCEPT !.pc = "start", !.proc = None, !.then = "done"]
             /\ gate.then = "start" /\ row' = StoppedRow(gate.enabled)
    <3>1. Mode' # OD
      BY <1>0, <1>1, <2>2 DEF Cold
    <3>2. gate'.pc = "start" /\ gate'.then = "done"
      BY <1>0, <2>2 DEF Gate
    <3> QED BY <1>0, <3>1, <3>2 DEF Cold
  <2> QED BY <1>3, <2>1, <2>2
<1> QED BY <1>5, <1>6 DEF Cools

\* A start that fails writes the row it found, or one in a resident mode.
LEMMA FailStartCools ==
    ASSUME TypeOK, Cold, NEW r \in Row, failStart(r), svcMode' = svcMode,
           gate.op = "Backoff" => Mode # OD,
           r = row \/ (Mode # OD /\ r.mode = row.mode /\ r.status # "absent"),
           current' => current, gate.then = "rollback" => ~current'
    PROVE  Cools
<1>0. gate \in Gate
  BY DEF TypeOK
<1>1. CASE gate.op = "Backoff" /\ ~Cancelled
  <2>1. /\ row' = [r EXCEPT !.enabled = TRUE, !.status = "degraded", !.pid = None,
                            !.addr = gate.addr]
        /\ gate' = FreeGate
    BY <1>1 DEF failStart, Release
  <2>2. row'.status = "degraded" /\ row'.mode = row.mode
    BY <2>1 DEF Row
  <2>3. Exists' /\ Mode' # OD
    BY <1>1, <2>2 DEF Exists, Mode, EffectiveRuntimeMode
  <2> QED BY <2>1, <2>3, CoolRest
<1>2. CASE ~(gate.op = "Backoff" /\ ~Cancelled)
  <2>1. /\ row' = r /\ backoff' = backoff
        /\ gate' = IF gate.then = "rollback"
                   THEN [gate EXCEPT !.pc = "rollback", !.proc = None] ELSE FreeGate
    BY <1>2 DEF failStart
  <2>2. \/ row' = row /\ Exists' = Exists /\ Mode' = Mode
        \/ Exists' /\ Mode' # OD
    BY <2>1 DEF Exists, Mode, EffectiveRuntimeMode
  <2>3. Lands /\ (~Exists' \/ Mode' = OD => ~current' /\ ~backoff')
    BY <2>1, <2>2 DEF Lands, onDemand, Cold
  <2>4. CASE gate.then = "rollback"
    <3>1. gate'.pc = "rollback" /\ gate'.then = "rollback"
      BY <1>0, <2>1, <2>4 DEF Gate
    <3>2. Mode' # OD
      BY <2>2, <2>4 DEF Cold
    <3> QED BY <2>3, <2>4, <3>1, <3>2 DEF Cools, Cold
  <2>5. CASE gate.then # "rollback"
    BY <2>1, <2>3, <2>5 DEF Cools, Cold, FreeGate
  <2> QED BY <2>4, <2>5
<1> QED BY <1>1, <1>2

\* A start that fails.
LEMMA FailureCools ==
    ASSUME TypeOK, Owned, Tended, Cold,
           StartEarlyFail \/ SpawnFail \/ RegisterReplaced \/ RegisterFail \/ HealthFail
    PROVE  Cools
<1>0. /\ row \in Row /\ svcMode' = svcMode
      /\ gate.pc \in {"start", "spawn", "register", "health"}
      /\ StoppedRow(TRUE) \in Row /\ StoppedRow(TRUE).mode = row.mode
      /\ StoppedRow(TRUE).status = "stopped"
  BY RowTypes, FieldTypes, StoppedFields
  DEF TypeOK, StartEarlyFail, SpawnFail, RegisterReplaced, RegisterFail, HealthFail
<1>1. gate.pc # "start" => Mode # OD
  BY <1>0, UnderWay
<1>2. gate.op = "Backoff" => Mode # OD
  BY <1>0, <1>1 DEF Cold
<1>3. /\ current' => current
      /\ gate.then = "rollback" => ~current'
  <2>1. CASE StartEarlyFail \/ SpawnFail \/ RegisterFail
    <3>1. current' = current /\ gate.pc # "health"
      BY <2>1 DEF StartEarlyFail, SpawnFail, RegisterFail, procVars
    <3> QED BY <3>1 DEF Cold
  <2>2. CASE RegisterReplaced \/ HealthFail
    BY <2>2 DEF RegisterReplaced, HealthFail, cleanupFailedStart
  <2> QED BY <2>1, <2>2
<1>4. PICK r \in Row : /\ failStart(r)
                       /\ r = row \/ (Mode # OD /\ r.mode = row.mode /\ r.status # "absent")
  <2>1. CASE StartEarlyFail
    BY <1>0, <2>1 DEF StartEarlyFail
  <2>2. CASE SpawnFail
    <3> DEFINE f == [row EXCEPT !.status = "failed"]
    <3>1. f \in Row /\ f.mode = row.mode /\ f.status = "failed"
      BY <1>0 DEF Row, Statuses
    <3>2. (failStart(row) \/ failStart(f)) /\ gate.pc = "spawn"
      BY <2>2 DEF SpawnFail
    <3> HIDE DEF f
    <3> QED BY <1>0, <1>1, <3>1, <3>2
  <2>3. CASE RegisterReplaced
    BY <1>0, <1>1, <2>3 DEF RegisterReplaced
  <2>4. CASE RegisterFail
    BY <1>0, <1>1, <2>4 DEF RegisterFail
  <2>5. CASE HealthFail
    <3> DEFINE f == [row EXCEPT !.status = "failed", !.pid = None, !.addr = None]
    <3>1. f \in Row /\ f.mode = row.mode /\ f.status = "failed"
      BY <1>0 DEF Row, Statuses, MaybeProc
    <3>2. /\ failStart(row) \/ failStart(f) \/ failStart(StoppedRow(TRUE))
          /\ gate.pc = "health"
      BY <2>5 DEF HealthFail
    <3> HIDE DEF f
    <3> QED BY <1>0, <1>1, <3>1, <3>2
  <2> QED BY <2>1, <2>2, <2>3, <2>4, <2>5
<1> QED BY <1>0, <1>2, <1>3, <1>4, FailStartCools

\* A start that gets further.
LEMMA StartCools ==
    ASSUME TypeOK, Owned, Tended, Cold,
           Spawn \/ Register \/ Healthy \/ \E p \in Proc : StartBegin(p)
    PROVE  Cools
<1>0. svcMode' = svcMode /\ row \in Row /\ gate \in Gate
  BY DEF Spawn, Register, Healthy, StartBegin, TypeOK
<1>1. ASSUME NEW p \in Proc, StartBegin(p) PROVE Cools
  <2>1. /\ gate.pc = "start" /\ Exists /\ Mode # OD /\ UNCHANGED <<current, backoff>>
        /\ row' = [row EXCEPT !.enabled = TRUE, !.status = "starting", !.addr = p]
        /\ gate' = [gate EXCEPT !.pc = "spawn", !.proc = p, !.stz = (Mode = STZ)]
    BY <1>1 DEF StartBegin, procVars
  <2>2. gate'.pc = "spawn" /\ gate'.then = gate.then
    BY <1>0, <2>1 DEF Gate
  <2>3. row'.status = "starting" /\ row'.mode = row.mode
    BY <1>0, <2>1 DEF Row
  <2>4. Exists' /\ Mode' # OD
    BY <1>0, <2>1, <2>3 DEF Exists, Mode, EffectiveRuntimeMode
  <2> QED BY <2>1, <2>2, <2>4 DEF Cools, Cold, Lands, onDemand
<1>2. CASE Spawn
  <2>1. /\ gate.pc = "spawn" /\ UNCHANGED <<row, current, backoff>>
        /\ gate'.pc = "register" /\ gate'.then = gate.then
    BY <1>0, <1>2 DEF Spawn, procVars, Gate
  <2>2. Exists' = Exists /\ Mode' = Mode
    BY <1>0, <2>1 DEF Exists, Mode, EffectiveRuntimeMode
  <2> QED BY <2>1, <2>2 DEF Cools, Cold, Lands
<1>3. CASE Register
  <2>1. /\ gate.pc = "register" /\ row' = [row EXCEPT !.status = "running", !.pid = gate.proc]
        /\ gate'.pc = "health" /\ gate'.then = gate.then
    BY <1>0, <1>3 DEF Register, Gate
  <2>2. row'.status = "running" /\ row'.mode = row.mode
    BY <1>0, <2>1 DEF Row
  <2>3. Exists' /\ Mode' # OD
    BY <1>0, <2>1, <2>2, UnderWay DEF Exists, Mode, EffectiveRuntimeMode
  <2> QED BY <2>1, <2>3 DEF Cools, Cold, Lands, onDemand
<1>4. CASE Healthy
  <2>1. gate.pc = "health" /\ row' = row /\ gate' = FreeGate
    BY <1>4 DEF Healthy, Release
  <2>2. Exists' /\ Mode' # OD
    BY <1>0, <2>1 DEF Tended, StartDescribes, Exists, Mode, EffectiveRuntimeMode
  <2> QED BY <2>1, <2>2, CoolRest
<1> QED BY <1>1, <1>2, <1>3, <1>4

\* A rollback to on-demand.
LEMMA RollBackCools ==
    ASSUME TypeOK, Timer, Cold, RollBack
    PROVE  Cools
<1>0. /\ gate.pc = "rollback" /\ svcMode' = svcMode /\ Mode # OD /\ ~current /\ ~backoff
      /\ gate.mode \in Overrides
  BY FieldTypes DEF RollBack, Cold, Timer, TimerCancelled
<1>1. CASE OpCtxDone
  BY <1>0, <1>1, CoolRest DEF RollBack, Release, procVars
<1>2. CASE ~OpCtxDone /\ gate.op = "SetRuntimeMode" /\ (tracked # None \/ row.pid # None)
  <2>1. row' = row /\ stopProcess(gate.op, TRUE, "onDemand", gate.mode)
    BY <1>2 DEF RollBack
  <2>2. Mode' # OD
    BY <1>0, <2>1 DEF Mode, EffectiveRuntimeMode
  <2> QED BY <2>1, <2>2, CoolStop
<1>3. CASE ~OpCtxDone /\ ~(gate.op = "SetRuntimeMode" /\ (tracked # None \/ row.pid # None))
  BY <1>0, <1>3, OnDemandLands, CoolRest DEF RollBack, Release, procVars
<1> QED BY <1>1, <1>2, <1>3

\* Every step cools, but for the exit watcher that comes too late.
LEMMA NextCools ==
    ASSUME NoImport, Quietly, PidClaims, Cold, [Next]_vars
    PROVE  Cold' /\ (Lands \/ lateExit)
<1> DEFINE Goal == Cold' /\ (Lands \/ lateExit)
<1>f. TypeOK /\ Owned /\ Timer /\ Tended /\ GoneIsClient
  BY DEF Quietly, Sound
<1>c. Cools => Goal
  BY DEF Cools
<1>1. ASSUME OperationStep PROVE Goal
  <2> HIDE DEF Goal
  <2> QED BY <1>1, <1>c, <1>f, StopCools, StartCools, FailureCools, RollBackCools
          DEF OperationStep
<1>2. ASSUME Operator PROVE Goal
  <2> HIDE DEF Goal
  <2> QED BY <1>2, <1>c, <1>f, SimpleCallsCool, CreateCallsCool, SwitchCallsCool, SyncCallsCool
          DEF Operator
<1>3. ASSUME Requests \/ Background PROVE Goal
  BY <1>3, <1>f, BackgroundCools
<1>4. ASSUME Reconcile \/ Lifecycle \/ CallerGone \/ (\E p \in Proc : ProcExit(p))
             \/ UNCHANGED vars
      PROVE  Goal
  BY <1>4, <1>c, <1>f, ReconcileCools, OthersCool
<1>5. ~Import
  BY <1>f, ImportsNothing DEF Tended
<1> HIDE DEF Goal
<1>6. Goal
  BY <1>1, <1>2, <1>3, <1>4, <1>5 DEF Next
<1> QED BY <1>6 DEF Goal

\* No switch, rollback, sync, failed stop, timer or reconcile pass of a daemon that is
\* up writes an enabled on-demand row that the gateway would refuse: it says running,
\* with neither pid nor address.  The exception is the exit watcher of a process that
\* died before the switch, which may still write it degraded.
THEOREM OnDemandRowsLand == ASSUME NoImport PROVE Spec => OnDemandLanded
<1> DEFINE Inv == Quietly /\ PidClaims /\ Cold
<1>1. Init => Inv
  BY InitQuietly DEF Init, FreeGate, Cold
<1>2. Inv /\ [Next]_vars => Inv'
  BY NextSettles, NextCools
<1>3. Inv /\ [Next]_vars => [daemon = "up" /\ row' # row /\ onDemand' => servable' \/ lateExit]_vars
  BY NextCools DEF Lands
<1> QED BY <1>1, <1>2, <1>3, PTL DEF Spec, OnDemandLanded

=============================================================================
