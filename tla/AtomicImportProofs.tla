------------------------- MODULE AtomicImportProofs -------------------------
(***************************************************************************)
(* ServiceArtifacts implements AtomicImport, for any sets of services and  *)
(* packages, one daemon at a time whose removals are not cut short and     *)
(* that deletes no service it is importing.                                *)
(*                                                                         *)
(* As every row's version is on disk (VersionsStayOnDisk), the mapped      *)
(* version of a service is its row, and as there is one daemon, the mapped *)
(* imports are its own.  Each step is then a commit, a deletion, or one of *)
(* three things an import does without touching a row.                     *)
(***************************************************************************)
EXTENDS ServiceArtifactsProofs

\* The versions and the imports that the refinement maps to.
versions == [s \in Service |-> Served(s)]
imports  == {<<job[d].svc, job[d].pkg>> : d \in {e \in Daemon : Uncommitted(e)}}

\* The import of one daemon.
own(d) == <<job[d].svc, job[d].pkg>>

\* When nothing is lost, the mapped versions are the rows.
LEMMA VersionsAreRows ==
    ASSUME TypeOK, VersionOnDisk
    PROVE  versions = row
<1>1. \A s \in Service : Served(s) = row[s]
  BY DEF Served, VersionOnDisk
<1> QED BY <1>1 DEF versions, TypeOK

\* With one daemon there is at most one import.
LEMMA ImportsAreOwn ==
    ASSUME OneDaemon, NEW d \in Daemon
    PROVE  /\ Uncommitted(d) => imports = {own(d)}
           /\ ~Uncommitted(d) => imports = {}
<1>1. Daemon = {d}
  BY DEF OneDaemon
<1> QED BY <1>1 DEF imports, own

\* The same after a step.
LEMMA ImportsAreOwnNext ==
    ASSUME OneDaemon, NEW d \in Daemon
    PROVE  /\ Uncommitted(d)' => imports' = {own(d)'}
           /\ ~Uncommitted(d)' => imports' = {}
<1>1. Daemon = {d}
  BY DEF OneDaemon
<1> QED BY <1>1 DEF imports, own

\* An import under way names a service and a package.
LEMMA OwnTypes ==
    ASSUME Control, NEW d \in Daemon, Uncommitted(d)
    PROVE  job[d].svc \in Service /\ job[d].pkg \in Package
BY DEF Control, Disciplined, Uncommitted, Importing, importing

\* What a step does to the row and to the daemon's import.
Continues(d) == row' = row /\ Uncommitted(d)' = Uncommitted(d) /\ own(d)' = own(d)
Begins(d)    == row' = row /\ ~Uncommitted(d) /\ Uncommitted(d)'
Ends(d)      == row' = row /\ ~Uncommitted(d)'
Commits(d)   == /\ Uncommitted(d) /\ ~Uncommitted(d)'
                /\ row' = [row EXCEPT ![job[d].svc] = job[d].pkg]

\* An import's steps.
LEMMA ImportKinds ==
    ASSUME TypeOK, Control, NEW d \in Daemon, ImportStep(d)
    PROVE  Continues(d) \/ Ends(d) \/ Commits(d)
<1>1. CASE Finish(d) /\ row' = row
  <2>1. job'[d] = Idle
    BY <1>1 DEF Finish, TypeOK
  <2> QED BY <1>1, <2>1, IdleJob DEF Ends, Uncommitted
<1>2. ASSUME NEW pc \in {"stage", "clear", "aside", "upsert"}, Goto(d, pc), row' = row,
             Uncommitted(d)
      PROVE  Continues(d)
  <2>1. job'[d].pc = pc /\ job'[d].svc = job[d].svc /\ job'[d].pkg = job[d].pkg
    BY <1>2, GotoJob DEF pcs
  <2>2. Uncommitted(d)'
    BY <2>1 DEF Uncommitted
  <2> QED BY <1>2, <2>1, <2>2 DEF Continues, own
<1>3. ASSUME NEW pc \in {"rollback", "restore"}, Goto(d, pc), row' = row
      PROVE  Ends(d)
  <2>1. job'[d].pc = pc
    BY <1>3, GotoJob DEF pcs
  <2> QED BY <1>3, <2>1 DEF Ends, Uncommitted
<1>4. CASE PrepareRuntime(d)
  BY <1>2, <1>4 DEF PrepareRuntime, At, Uncommitted
<1>5. CASE StageCommit(d)
  BY <1>2, <1>5 DEF StageCommit, At, Uncommitted
<1>6. CASE ImportFail(d)
  BY <1>1, <1>6 DEF ImportFail
<1>7. CASE ClearBackup(d)
  BY <1>2, <1>7 DEF ClearBackup, At, Uncommitted
<1>8. CASE MoveAside(d)
  <2> DEFINE s == job[d].svc
  <2>1. CASE dir[s] # None /\ backup[s] # None
    BY <1>1, <1>8, <2>1 DEF MoveAside
  <2>2. CASE ~(dir[s] # None /\ backup[s] # None)
    <3>1. job' = [job EXCEPT ![d].pc = "install", ![d].had = (dir[s] # None)]
      BY <1>8, <2>2 DEF MoveAside
    <3>2. job \in [Daemon -> Job] /\ job[d] \in Job
      BY DEF TypeOK
    <3>3. job'[d] = [job[d] EXCEPT !.pc = "install", !.had = (dir[s] # None)]
      BY <3>1, <3>2
    <3>4. job'[d].pc = "install" /\ job'[d].svc = job[d].svc /\ job'[d].pkg = job[d].pkg
      BY <3>2, <3>3 DEF Job
    <3>5. Uncommitted(d) /\ Uncommitted(d)' /\ row' = row
      BY <1>8, <3>4 DEF MoveAside, At, Uncommitted
    <3> QED BY <3>4, <3>5 DEF Continues, own
  <2> QED BY <2>1, <2>2
<1>9. CASE Install(d)
  <2> DEFINE s == job[d].svc
  <2>1. CASE staging[s] \in Dir /\ dir[s] = None
    <3>1. Goto(d, "upsert") /\ row' = row
      BY <1>9, <2>1 DEF Install
    <3> QED BY <1>2, <1>9, <3>1 DEF Install, At, Uncommitted
  <2>2. CASE ~(staging[s] \in Dir /\ dir[s] = None)
    BY <1>1, <1>9, <2>2 DEF Install
  <2> QED BY <2>1, <2>2
<1>10. CASE UpsertService(d)
  <2>1. job'[d].pc = "cleanup"
    BY <1>10, GotoJob DEF UpsertService, pcs
  <2> QED BY <1>10, <2>1 DEF UpsertService, Commits, At, Uncommitted
<1>11. CASE UpsertFail(d) \/ RollbackRemove(d)
  BY <1>3, <1>11 DEF UpsertFail, RollbackRemove
<1>12. CASE Cleanup(d) \/ RollbackRestore(d)
  BY <1>1, <1>12 DEF Cleanup, RollbackRestore
<1> QED BY <1>4, <1>5, <1>6, <1>7, <1>8, <1>9, <1>10, <1>11, <1>12 DEF ImportStep

\* The steps of a recovery and of a sweep: no import is under way after them.
LEMMA RecoveryKinds ==
    ASSUME TypeOK, Control, NEW d \in Daemon, RecoveryStep(d)
    PROVE  Ends(d)
<1>1. row' = row
  BY DEF RecoveryStep, RecoverService, DiscardBackup, RecoverRemove, RecoverRename, SweepWalk,
         SweepDone, SweepRemove
<1>2. SUFFICES job'[d].pc \in {"scan", "discard", "undo", "redo", "sweep", "idle"}
  BY <1>1 DEF Ends, Uncommitted
<1>3. CASE \E s \in Service : RecoverService(d, s)
  <2>1. PICK s \in Service, intact \in BOOLEAN :
           job' = [job EXCEPT ![d].pc = IF needsRollback(s, intact) THEN "undo" ELSE "discard",
                              ![d].svc = s, ![d].todo = @ \ {s}]
    BY <1>3 DEF RecoverService
  <2>2. job \in [Daemon -> Job] /\ job[d] \in Job
    BY DEF TypeOK
  <2>3. job'[d] = [job[d] EXCEPT !.pc = IF needsRollback(s, intact) THEN "undo" ELSE "discard",
                                 !.svc = s, !.todo = @ \ {s}]
    BY <2>1, <2>2
  <2>4. job'[d].pc = IF needsRollback(s, intact) THEN "undo" ELSE "discard"
    BY <2>2, <2>3 DEF Job
  <2> QED BY <2>4
<1>4. CASE DiscardBackup(d) \/ RecoverRename(d)
  BY <1>4, GotoJob DEF DiscardBackup, RecoverRename, pcs
<1>5. CASE RecoverRemove(d)
  BY <1>5, GotoJob DEF RecoverRemove, pcs
<1>6. CASE SweepWalk(d)
  <2>1. job'[d] = [Idle EXCEPT !.pc = "sweep", !.cand = stored \ referencedSharedTrees]
    BY <1>6 DEF SweepWalk, TypeOK
  <2> QED BY <2>1 DEF Idle
<1>7. CASE SweepDone(d)
  BY <1>7, IdleJob DEF SweepDone, TypeOK
<1>8. CASE \E t \in Tree : SweepRemove(d, t)
  <2>1. PICK t \in Tree : job' = [job EXCEPT ![d].cand = @ \ {t}] /\ job[d].pc = "sweep"
    BY <1>8 DEF SweepRemove, At
  <2>2. job \in [Daemon -> Job] /\ job[d] \in Job
    BY DEF TypeOK
  <2>3. job'[d] = [job[d] EXCEPT !.cand = @ \ {t}]
    BY <2>1, <2>2
  <2>4. job'[d].pc = job[d].pc
    BY <2>2, <2>3 DEF Job
  <2> QED BY <2>1, <2>4
<1> QED BY <1>3, <1>4, <1>5, <1>6, <1>7, <1>8 DEF RecoveryStep

\* A daemon that starts, stops or dies has no import under way that could still
\* commit, or goes on with the one it has.
LEMMA DaemonKinds ==
    ASSUME TypeOK, NEW d \in Daemon, Boot(d) \/ Drain(d) \/ Stop(d) \/ crash(d)
    PROVE  Continues(d) \/ Ends(d)
<1>1. CASE Boot(d)
  <2>1. job'[d] = [Idle EXCEPT !.pc = "scan", !.todo = {s \in Service : backup[s] # None}]
    BY <1>1 DEF Boot, TypeOK
  <2>2. job'[d].pc = "scan"
    BY <2>1 DEF Idle
  <2> QED BY <1>1, <2>2 DEF Boot, Ends, Uncommitted
<1>2. CASE Drain(d) \/ Stop(d)
  BY <1>2 DEF Drain, Stop, Continues, own, Uncommitted
<1>3. CASE crash(d)
  <2>1. Die(d) /\ row' = row
    BY <1>3 DEF crash, Crash, CrashInDir, CrashInBackup, CrashInTree
  <2>2. job'[d] = Idle
    BY <2>1 DEF Die, TypeOK
  <2> QED BY <2>1, <2>2, IdleJob DEF Ends, Uncommitted
<1> QED BY <1>1, <1>2, <1>3

\* A new import.
LEMMA BeginKind ==
    ASSUME TypeOK, NEW d \in Daemon, NEW s \in Service, NEW p \in Package,
           NEW t \in Tree \union {None}, BeginImport(d, s, p, t)
    PROVE  Begins(d) /\ own(d)' = <<s, p>>
<1>1. job'[d] = [Idle EXCEPT !.pc = "tree", !.svc = s, !.pkg = p, !.tree = t]
  BY DEF BeginImport, TypeOK
<1>2. job'[d].pc = "tree" /\ job'[d].svc = s /\ job'[d].pkg = p
  BY <1>1 DEF Idle
<1> QED BY <1>2 DEF BeginImport, At, Begins, own, Uncommitted

-----------------------------------------------------------------------------
(* The refinement                                                           *)

\* An empty data directory maps to no version and no import.
LEMMA InitRefines == Init => Atomic!Init
<1> SUFFICES ASSUME Init PROVE Atomic!Init
  OBVIOUS
<1>1. \A s \in Service : Served(s) = None
  BY DEF Init, Served
<1>2. imports = {}
  BY IdleJob DEF Init, imports, Uncommitted
<1> QED BY <1>1, <1>2 DEF Atomic!Init, imports

\* A step that keeps the rows and the daemon's import, or ends that import, maps
\* to nothing or to an import that came to nothing.
LEMMA QuietRefines ==
    ASSUME OneDaemon, Control, NEW d \in Daemon, Continues(d) \/ Ends(d), versions' = versions
    PROVE  Atomic!Next \/ UNCHANGED Atomic!vars
<1>1. CASE imports' = imports
  BY <1>1 DEF Atomic!vars, versions, imports
<1>2. CASE imports' # imports
  <2>1. Ends(d) /\ Uncommitted(d) /\ ~Uncommitted(d)'
    BY <1>2, ImportsAreOwn, ImportsAreOwnNext DEF Continues, Ends
  <2>2. imports = {own(d)} /\ imports' = {}
    BY <2>1, ImportsAreOwn, ImportsAreOwnNext
  <2>3. job[d].svc \in Service /\ job[d].pkg \in Package
    BY <2>1, OwnTypes
  <2>4. PICK s \in Service, p \in Package : s = job[d].svc /\ p = job[d].pkg
    BY <2>3
  <2>5. own(d) = <<s, p>>
    BY <2>4 DEF own
  <2>6. Atomic!Abort(s, p)
    BY <2>2, <2>5 DEF Atomic!Abort, versions, imports
  <2> QED BY <2>6 DEF Atomic!Next
<1> QED BY <1>1, <1>2

\* Every step maps to a step of AtomicImport or to none.
LEMMA StepRefines ==
    ASSUME TypeOK, Control, VersionOnDisk, VersionOnDisk', OneDaemon, [Next]_vars
    PROVE  [Atomic!Next]_(Atomic!vars)
<1>1. versions = row /\ TypeOK' /\ versions' = row'
  <2>1. TypeOK'
    BY NextTypes
  <2>2. \A s \in Service : Served(s)' = row'[s]
    BY DEF Served, VersionOnDisk
  <2>3. versions' = [s \in Service |-> row'[s]]
    BY <2>2 DEF versions
  <2> QED BY <2>1, <2>3, VersionsAreRows DEF TypeOK
<1>2. CASE UNCHANGED <<row, job>>
  <2>1. imports' = imports
    BY <1>2 DEF imports, Uncommitted
  <2> QED BY <1>1, <1>2, <2>1 DEF Atomic!vars, versions, imports
<1>3. CASE UNCHANGED vars \/ \E t \in Tree : Age(t)
  BY <1>2, <1>3 DEF vars, Age
<1>4. ASSUME NEW d \in Daemon, Continues(d) \/ Ends(d)
      PROVE  Atomic!Next \/ UNCHANGED Atomic!vars
  BY <1>1, <1>4, QuietRefines DEF Continues, Ends
<1>5. ASSUME NEW d \in Daemon, Commits(d)
      PROVE  Atomic!Next
  <2>1. imports = {own(d)} /\ imports' = {}
    BY <1>5, ImportsAreOwn, ImportsAreOwnNext DEF Commits
  <2>2. versions' = [versions EXCEPT ![job[d].svc] = job[d].pkg]
    BY <1>1, <1>5 DEF Commits
  <2>3. job[d].svc \in Service /\ job[d].pkg \in Package
    BY <1>5, OwnTypes DEF Commits
  <2>4. PICK s \in Service, p \in Package : s = job[d].svc /\ p = job[d].pkg
    BY <2>3
  <2>5. own(d) = <<s, p>> /\ versions' = [versions EXCEPT ![s] = p]
    BY <2>2, <2>4 DEF own
  <2>6. Atomic!Commit(s, p)
    BY <2>1, <2>5 DEF Atomic!Commit, versions, imports
  <2> QED BY <2>6 DEF Atomic!Next
<1>6. ASSUME NEW d \in Daemon, NEW s \in Service, NEW p \in Package,
             NEW t \in Tree \union {None}, BeginImport(d, s, p, t)
      PROVE  Atomic!Next
  <2>1. Begins(d) /\ own(d)' = <<s, p>>
    BY <1>6, BeginKind
  <2>2. imports = {} /\ imports' = {<<s, p>>}
    BY <2>1, ImportsAreOwn, ImportsAreOwnNext DEF Begins
  <2>3. versions' = versions
    BY <1>1, <2>1 DEF Begins
  <2>4. Atomic!Begin(s, p)
    BY <2>2, <2>3 DEF Atomic!Begin, versions, imports
  <2> QED BY <2>4 DEF Atomic!Next
<1>7. ASSUME NEW d \in Daemon, NEW s \in Service, DeleteService(d, s)
      PROVE  Atomic!Next
  <2>1. imports' = imports
    BY <1>7 DEF DeleteService, imports, Uncommitted
  <2>2. versions' = [versions EXCEPT ![s] = None]
    BY <1>1, <1>7 DEF DeleteService
  <2>3. Atomic!Delete(s)
    BY <2>1, <2>2 DEF Atomic!Delete, versions, imports
  <2> QED BY <2>3 DEF Atomic!Next
<1>8. ASSUME NEW d \in Daemon, ImportStep(d)
      PROVE  Atomic!Next \/ UNCHANGED Atomic!vars
  BY <1>4, <1>5, <1>8, ImportKinds
<1>9. ASSUME NEW d \in Daemon,
             RecoveryStep(d) \/ Boot(d) \/ Drain(d) \/ Stop(d) \/ crash(d)
      PROVE  Atomic!Next \/ UNCHANGED Atomic!vars
  BY <1>4, <1>9, RecoveryKinds, DaemonKinds
<1>10. ASSUME NEW d \in Daemon, DeleteDir(d) PROVE UNCHANGED <<row, job>>
  BY <1>10 DEF DeleteDir
<1> QED BY <1>2, <1>3, <1>6, <1>7, <1>8, <1>9, <1>10, Steps

\* An import takes effect at the write of its row or not at all, and crashes,
\* rollbacks and recoveries change no service's version.
THEOREM ImportsAreAtomic == ASSUME OneDaemon, Orderly PROVE Spec => ImportIsAtomic
<1>1. TypeOK /\ Control /\ Versions /\ [Next]_vars => (TypeOK /\ Control /\ Versions)'
  BY NextTypes, NextVersions
<1>2. Versions => VersionOnDisk
  BY DEF Versions, AllWhole, VersionKept, Live, Saved, VersionOnDisk, Holds
<1>3. TypeOK /\ Control /\ VersionOnDisk /\ VersionOnDisk' /\ [Next]_vars
         => [Atomic!Next]_(Atomic!vars)
  BY StepRefines
<1> QED BY <1>1, <1>2, <1>3, InitTypes, InitVersions, InitRefines, PTL
        DEF Spec, ImportIsAtomic, Atomic!Spec
=============================================================================
