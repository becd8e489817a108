-------------------------- MODULE ServiceArtifacts --------------------------
(***************************************************************************)
(* Imported service packages on disk and in the store: the directory a     *)
(* service runs from, the row that names its version, and the shared       *)
(* runtime trees both link to (internal/packageimport).                    *)
(*                                                                         *)
(* An import builds in a staging tree, publishes or reuses a shared        *)
(* runtime tree, swaps the service directory through a backup and then     *)
(* updates the row.  A daemon that starts finishes or rolls back the swaps *)
(* an earlier one left half done, and collects the trees nothing links to. *)
(*                                                                         *)
(* Imports, recovery and the sweep take the import lock, which is a lock   *)
(* of the process: each daemon does one of them at a time (job), two       *)
(* daemons on one data directory exclude each other only by the port.      *)
(* Deleting a service takes no lock.                                       *)
(***************************************************************************)

CONSTANTS
    Service,       \* service ids
    Package,       \* packages, by artifact hash
    Descriptor,    \* descriptor hashes
    DescriptorOf,  \* the descriptor a package compiles to
    Tree,          \* runtime trees, by content key
    TreeOf,        \* the tree a package shares when its import is eligible
    Daemon,        \* daemons started on the data directory
    None,          \* no package, no tree, no service, nothing at a path
    Work,          \* a staging tree with no directory to commit
    Faults         \* which of AllFaults the environment may produce

\* A daemon that dies; a call whose client disconnects or whose build fails; a
\* removal that is interrupted half way; a deletion of a service that is being
\* imported.
AllFaults == {"crash", "fail", "torn", "race"}

ASSUME NoneAssumption ==
    /\ None \notin Service \union Package \union Tree
    /\ Work # None
ASSUME FunctionsAssumption ==
    DescriptorOf \in [Package -> Descriptor] /\ TreeOf \in [Package -> Tree]
ASSUME FaultsAssumption == Faults \subseteq AllFaults

\* A service directory: the package it was staged from, the shared tree its
\* package and runtime entries link to, and whether nothing is missing from it.
Dir == [pkg: Package, tree: Tree \union {None}, whole: BOOLEAN]

ASSUME DirAssumption == None \notin Dir /\ Work \notin Dir

VARIABLES
    row,      \* the services row: the package it describes
    dir,      \* artifacts/services/<id>
    backup,   \* artifacts/services/.<id>.previous
    staging,  \* artifacts/services/.staging-<id>: gone, being built, or staged
    trees,    \* the shared tree store: which trees are there, and how
    aged,     \* trees untouched for longer than OrphanTreeMinAge
    daemon,   \* life of each daemon
    job,      \* what each daemon does under its import lock
    deleting  \* the service whose directory a daemon's delete call removes

diskVars == <<dir, backup, staging>>
treeVars == <<trees, aged>>
vars == <<row, diskVars, treeVars, daemon, job, deleting>>

Job == [pc: {"idle", "tree", "stage", "clear", "aside", "install", "upsert", "cleanup",
             "rollback", "restore", "scan", "discard", "undo", "redo", "sweep"},
        svc: Service \union {None},
        pkg: Package \union {None},
        tree: Tree \union {None},
        had: BOOLEAN,
        todo: SUBSET Service,
        cand: SUBSET Tree]

Idle == [pc |-> "idle", svc |-> None, pkg |-> None, tree |-> None, had |-> FALSE,
         todo |-> {}, cand |-> {}]

\* One type invariant for the module.
TypeOK ==
    /\ row \in [Service -> Package \union {None}]
    /\ dir \in [Service -> Dir \union {None}]
    /\ backup \in [Service -> Dir \union {None}]
    /\ staging \in [Service -> Dir \union {Work, None}]
    /\ trees \in [Tree -> {"none", "whole", "torn"}]
    /\ aged \subseteq {t \in Tree : trees[t] # "none"}
    /\ daemon \in [Daemon -> {"off", "recovering", "sweeping", "up", "draining"}]
    /\ job \in [Daemon -> Job]
    /\ deleting \in [Daemon -> Service \union {None}]
    /\ \A d \in Daemon : job[d].pc = "idle" => job[d] = Idle

-----------------------------------------------------------------------------
(* Reading the state                                                        *)

importing == {"tree", "stage", "clear", "aside", "install", "upsert", "cleanup", "rollback",
              "restore"}
Importing(d) == job[d].pc \in importing
\* The daemon accepted calls before it was told to stop, and answers those.
Serving(d) == daemon[d] \in {"up", "draining"}
HoldsPort(d) == daemon[d] \in {"recovering", "sweeping", "up"}

At(d, pc) == job[d].pc = pc
Goto(d, pc) == job' = [job EXCEPT ![d].pc = pc]

Links(content) == IF content \in Dir THEN {content.tree} \ {None} ELSE {}
\* referencedSharedTrees: services, crash backups and imports in flight.
referencedSharedTrees ==
    UNION {Links(dir[s]) \union Links(backup[s]) \union Links(staging[s]) : s \in Service}

\* A faulty variant: the package's own hash is not compared.
needsRollbackByDescriptor(s, intact) ==
    \/ dir[s] = None \/ row[s] = None
    \/ DescriptorOf[dir[s].pkg] # DescriptorOf[row[s]]
    \/ ~dir[s].whole /\ ~intact

\* interruptedCommitNeedsRollback: the row decides whether the directory is the
\* committed one.  One that lost files verifies only if both hashed files are
\* among those left (intact).
needsRollback(s, intact) ==
    \/ dir[s] = None \/ row[s] = None
    \/ DescriptorOf[dir[s].pkg] # DescriptorOf[row[s]]
    \/ dir[s].pkg # row[s]
    \/ ~dir[s].whole /\ ~intact

-----------------------------------------------------------------------------
(* Import                                                                   *)

\* A faulty variant: the deferred removal is missing.
FinishKeepingStaging(d) == Goto(d, "idle") /\ UNCHANGED staging

\* The deferred removal of the staging tree, and the release of the lock.
Finish(d) ==
    /\ job' = [job EXCEPT ![d] = Idle]
    /\ staging' = [staging EXCEPT ![job[d].svc] = None]

\* The lock, which is the process's own, and an empty staging tree.  Two daemons
\* may import at once, but not the same service: staging holds one tree for each.
\* A package whose runtime needs an install, or an import that asks for one, does
\* not share its tree.
BeginImport(d, s, p, t) ==
    /\ Serving(d) /\ At(d, "idle")
    /\ \A e \in Daemon : ~(Importing(e) /\ job[e].svc = s)
    /\ "race" \in Faults \/ \A e \in Daemon : deleting[e] # s
    /\ job' = [job EXCEPT ![d] = [Idle EXCEPT !.pc = "tree", !.svc = s, !.pkg = p, !.tree = t]]
    /\ staging' = [staging EXCEPT ![s] = Work]
    /\ UNCHANGED <<row, dir, backup, treeVars, daemon, deleting>>

\* A tree already published under the key is used as it is; else the build is
\* renamed into the store.
PrepareRuntime(d) ==
    /\ At(d, "tree") /\ staging[job[d].svc] = Work
    /\ LET t == job[d].tree
       IN  IF t # None /\ trees[t] = "none"
           THEN trees' = [trees EXCEPT ![t] = "whole"]
           ELSE UNCHANGED trees
    /\ Goto(d, "stage")
    /\ UNCHANGED <<row, diskVars, aged, daemon, deleting>>

\* The directory to commit, linked to its tree.
StageCommit(d) ==
    /\ At(d, "stage") /\ staging[job[d].svc] = Work
    /\ staging' = [staging EXCEPT ![job[d].svc] =
                      [pkg |-> job[d].pkg, tree |-> job[d].tree, whole |-> TRUE]]
    /\ Goto(d, "clear")
    /\ UNCHANGED <<row, dir, backup, treeVars, daemon, deleting>>

\* A return before the commit: the source, the build, a schema, the client, or
\* a staging tree that somebody removed.
ImportFail(d) ==
    /\ job[d].pc \in {"tree", "stage", "clear"}
    /\ \/ "fail" \in Faults
       \/ job[d].pc # "clear" /\ staging[job[d].svc] # Work
    /\ Finish(d)
    /\ UNCHANGED <<row, dir, backup, treeVars, daemon, deleting>>

\* replaceServiceDir removes an old backup, moves the live directory aside and
\* renames the staged one into place.
ClearBackup(d) ==
    /\ At(d, "clear")
    /\ backup' = [backup EXCEPT ![job[d].svc] = None]
    /\ Goto(d, "aside")
    /\ UNCHANGED <<row, dir, staging, treeVars, daemon, deleting>>

MoveAside(d) ==
    /\ At(d, "aside")
    /\ LET s == job[d].svc
       IN  IF dir[s] # None /\ backup[s] # None
           THEN Finish(d) /\ UNCHANGED <<dir, backup>>
           ELSE /\ backup' = [backup EXCEPT ![s] = IF dir[s] # None THEN dir[s] ELSE @]
                /\ dir' = [dir EXCEPT ![s] = None]
                /\ job' = [job EXCEPT ![d].pc = "install", ![d].had = (dir[s] # None)]
                /\ UNCHANGED staging
    /\ UNCHANGED <<row, treeVars, daemon, deleting>>

Install(d) ==
    /\ At(d, "install")
    /\ LET s == job[d].svc
       IN  IF staging[s] \in Dir /\ dir[s] = None
           THEN /\ dir' = [dir EXCEPT ![s] = staging[s]]
                /\ staging' = [staging EXCEPT ![s] = Work]
                /\ Goto(d, "upsert")
                /\ UNCHANGED backup
           ELSE /\ IF job[d].had /\ dir[s] = None /\ backup[s] # None
                   THEN /\ dir' = [dir EXCEPT ![s] = backup[s]]
                        /\ backup' = [backup EXCEPT ![s] = None]
                   ELSE UNCHANGED <<dir, backup>>
                /\ Finish(d)
    /\ UNCHANGED <<row, treeVars, daemon, deleting>>

UpsertService(d) ==
    /\ At(d, "upsert")
    /\ row' = [row EXCEPT ![job[d].svc] = job[d].pkg]
    /\ Goto(d, "cleanup")
    /\ UNCHANGED <<diskVars, treeVars, daemon, deleting>>

\* The write fails, by a cancelled request most of all.
UpsertFail(d) ==
    /\ At(d, "upsert") /\ "fail" \in Faults
    /\ Goto(d, "rollback")
    /\ UNCHANGED <<row, diskVars, treeVars, daemon, deleting>>

RollbackRemove(d) ==
    /\ At(d, "rollback")
    /\ dir' = [dir EXCEPT ![job[d].svc] = None]
    /\ Goto(d, "restore")
    /\ UNCHANGED <<row, backup, staging, treeVars, daemon, deleting>>

restoreBackup(s) ==
    IF dir[s] = None /\ backup[s] # None
    THEN /\ dir' = [dir EXCEPT ![s] = backup[s]]
         /\ backup' = [backup EXCEPT ![s] = None]
    ELSE UNCHANGED <<dir, backup>>

\* A faulty variant: the lock is not given back.
RollbackKeepingLock(d) ==
    /\ At(d, "restore")
    /\ IF job[d].had THEN restoreBackup(job[d].svc) ELSE UNCHANGED <<dir, backup>>
    /\ UNCHANGED <<row, staging, treeVars, daemon, job, deleting>>

\* A faulty variant: the rollback returns without the rename.
RollbackForgotten(d) ==
    /\ At(d, "restore")
    /\ Finish(d)
    /\ UNCHANGED <<row, dir, backup, treeVars, daemon, deleting>>

RollbackRestore(d) ==
    /\ At(d, "restore")
    /\ IF job[d].had THEN restoreBackup(job[d].svc) ELSE UNCHANGED <<dir, backup>>
    /\ Finish(d)
    /\ UNCHANGED <<row, treeVars, daemon, deleting>>

\* A faulty variant: the backup is left behind.
CleanupForgotten(d) ==
    /\ At(d, "cleanup")
    /\ Finish(d)
    /\ UNCHANGED <<row, dir, backup, treeVars, daemon, deleting>>

Cleanup(d) ==
    /\ At(d, "cleanup")
    /\ backup' = [backup EXCEPT ![job[d].svc] = None]
    /\ Finish(d)
    /\ UNCHANGED <<row, dir, treeVars, daemon, deleting>>

-----------------------------------------------------------------------------
(* Deletion of a service, which takes no lock                               *)

DeleteService(d, s) ==
    /\ Serving(d) /\ deleting[d] = None /\ row[s] # None
    /\ "race" \in Faults \/ \A e \in Daemon : ~(Importing(e) /\ job[e].svc = s)
    /\ row' = [row EXCEPT ![s] = None]
    /\ deleting' = [deleting EXCEPT ![d] = s]
    /\ UNCHANGED <<diskVars, treeVars, daemon, job>>

DeleteDir(d) ==
    /\ deleting[d] # None
    /\ dir' = [dir EXCEPT ![deleting[d]] = None]
    /\ deleting' = [deleting EXCEPT ![d] = None]
    /\ UNCHANGED <<row, backup, staging, treeVars, daemon, job>>

-----------------------------------------------------------------------------
(* A daemon starts: RecoverServiceDirs, then SweepOrphanedTrees             *)

\* The port comes first.  Then every staging tree goes, and every backup is
\* looked at.
Boot(d) ==
    /\ daemon[d] = "off" /\ \A e \in Daemon : ~HoldsPort(e)
    /\ daemon' = [daemon EXCEPT ![d] = "recovering"]
    /\ staging' = [s \in Service |-> None]
    /\ job' = [job EXCEPT ![d] = [Idle EXCEPT !.pc = "scan",
                                     !.todo = {s \in Service : backup[s] # None}]]
    /\ UNCHANGED <<row, dir, backup, treeVars, deleting>>

RecoverService(d, s) ==
    /\ At(d, "scan") /\ s \in job[d].todo
    /\ \E intact \in BOOLEAN :
          job' = [job EXCEPT ![d].pc = IF needsRollback(s, intact) THEN "undo" ELSE "discard",
                             ![d].svc = s, ![d].todo = @ \ {s}]
    /\ UNCHANGED <<row, diskVars, treeVars, daemon, deleting>>

DiscardBackup(d) ==
    /\ At(d, "discard")
    /\ backup' = [backup EXCEPT ![job[d].svc] = None]
    /\ Goto(d, "scan")
    /\ UNCHANGED <<row, dir, staging, treeVars, daemon, deleting>>

\* The half-installed directory is removed, then the backup is renamed back.
RecoverRemove(d) ==
    /\ At(d, "undo")
    /\ dir' = [dir EXCEPT ![job[d].svc] = None]
    /\ Goto(d, "redo")
    /\ UNCHANGED <<row, backup, staging, treeVars, daemon, deleting>>

RecoverRename(d) ==
    /\ At(d, "redo")
    /\ restoreBackup(job[d].svc)
    /\ Goto(d, "scan")
    /\ UNCHANGED <<row, staging, treeVars, daemon, deleting>>

\* The walk: what is in the store and linked by nothing.
stored == {t \in Tree : trees[t] # "none"}

\* A faulty variant: the age alone decides.
SweepWithoutWalk(d) ==
    /\ At(d, "scan") /\ job[d].todo = {}
    /\ daemon' = [daemon EXCEPT ![d] = "sweeping"]
    /\ job' = [job EXCEPT ![d] = [Idle EXCEPT !.pc = "sweep", !.cand = stored]]
    /\ UNCHANGED <<row, diskVars, treeVars, deleting>>

SweepWalk(d) ==
    /\ At(d, "scan") /\ job[d].todo = {}
    /\ daemon' = [daemon EXCEPT ![d] = "sweeping"]
    /\ job' = [job EXCEPT ![d] = [Idle EXCEPT !.pc = "sweep",
                                     !.cand = stored \ referencedSharedTrees]]
    /\ UNCHANGED <<row, diskVars, treeVars, deleting>>

\* The age is read when the tree's turn comes.
SweepRemove(d, t) ==
    /\ At(d, "sweep") /\ t \in job[d].cand \intersect aged
    /\ trees' = [trees EXCEPT ![t] = "none"]
    /\ aged' = aged \ {t}
    /\ job' = [job EXCEPT ![d].cand = @ \ {t}]
    /\ UNCHANGED <<row, diskVars, daemon, deleting>>

SweepDone(d) ==
    /\ At(d, "sweep") /\ job[d].cand \intersect aged = {}
    /\ daemon' = [daemon EXCEPT ![d] = "up"]
    /\ job' = [job EXCEPT ![d] = Idle]
    /\ UNCHANGED <<row, diskVars, treeVars, deleting>>

\* A tree has been there for an hour.
Age(t) ==
    /\ trees[t] # "none" /\ t \notin aged
    /\ aged' = aged \union {t}
    /\ UNCHANGED <<row, diskVars, trees, daemon, job, deleting>>

-----------------------------------------------------------------------------
(* A daemon stops or dies                                                   *)

\* The listener closes at once; calls already accepted run to their end.
Drain(d) ==
    /\ daemon[d] = "up"
    /\ daemon' = [daemon EXCEPT ![d] = "draining"]
    /\ UNCHANGED <<row, diskVars, treeVars, job, deleting>>

Stop(d) ==
    /\ daemon[d] = "draining" /\ At(d, "idle") /\ deleting[d] = None
    /\ daemon' = [daemon EXCEPT ![d] = "off"]
    /\ UNCHANGED <<row, diskVars, treeVars, job, deleting>>

Die(d) ==
    /\ "crash" \in Faults
    /\ daemon[d] # "off"
    /\ daemon' = [daemon EXCEPT ![d] = "off"]
    /\ job' = [job EXCEPT ![d] = Idle]
    /\ deleting' = [deleting EXCEPT ![d] = None]

Crash(d) ==
    /\ Die(d)
    /\ UNCHANGED <<row, diskVars, treeVars>>

\* A removal cut short leaves a part of what it removes.  An entry taken out of
\* the top of a tree renews its modification time, one taken out below does not.
CrashInDir(d) ==
    /\ Die(d) /\ "torn" \in Faults
    /\ \E s \in {job[d].svc, deleting[d]} \ {None} :
          /\ job[d].pc \in {"rollback", "undo"} \/ s = deleting[d]
          /\ dir[s] # None
          /\ dir' = [dir EXCEPT ![s].whole = FALSE]
    /\ UNCHANGED <<row, backup, staging, treeVars>>

CrashInBackup(d) ==
    /\ Die(d) /\ "torn" \in Faults
    /\ job[d].pc \in {"clear", "cleanup", "discard"}
    /\ backup[job[d].svc] # None
    /\ backup' = [backup EXCEPT ![job[d].svc].whole = FALSE]
    /\ UNCHANGED <<row, dir, staging, treeVars>>

CrashInTree(d, t) ==
    /\ Die(d) /\ "torn" \in Faults
    /\ job[d].pc = "sweep" /\ t \in job[d].cand \intersect aged
    /\ trees' = [trees EXCEPT ![t] = "torn"]
    /\ aged' \in {aged, aged \ {t}}
    /\ UNCHANGED <<row, diskVars>>

-----------------------------------------------------------------------------

\* An empty data directory and no daemon.
Init ==
    /\ row = [s \in Service |-> None]
    /\ dir = [s \in Service |-> None]
    /\ backup = [s \in Service |-> None]
    /\ staging = [s \in Service |-> None]
    /\ trees = [t \in Tree |-> "none"] /\ aged = {}
    /\ daemon = [d \in Daemon |-> "off"]
    /\ job = [d \in Daemon |-> Idle]
    /\ deleting = [d \in Daemon |-> None]

ImportStep(d) ==
    \/ PrepareRuntime(d) \/ StageCommit(d) \/ ImportFail(d)
    \/ ClearBackup(d) \/ MoveAside(d) \/ Install(d)
    \/ UpsertService(d) \/ UpsertFail(d) \/ Cleanup(d)
    \/ RollbackRemove(d) \/ RollbackRestore(d)

RecoveryStep(d) ==
    \/ \E s \in Service : RecoverService(d, s)
    \/ DiscardBackup(d) \/ RecoverRemove(d) \/ RecoverRename(d)
    \/ SweepWalk(d) \/ SweepDone(d)
    \/ \E t \in Tree : SweepRemove(d, t)

Next ==
    \/ \E d \in Daemon :
          \/ \E s \in Service, p \in Package, t \in Tree \union {None} :
                t \in {TreeOf[p], None} /\ BeginImport(d, s, p, t)
          \/ ImportStep(d) \/ RecoveryStep(d)
          \/ \E s \in Service : DeleteService(d, s)
          \/ DeleteDir(d)
          \/ Boot(d) \/ Drain(d) \/ Stop(d)
          \/ Crash(d) \/ CrashInDir(d) \/ CrashInBackup(d)
          \/ \E t \in Tree : CrashInTree(d, t)
    \/ \E t \in Tree : Age(t)

Spec == Init /\ [][Next]_vars

\* The goroutine that holds the import lock runs on.
Fairness ==
    \A d \in Daemon : WF_vars(ImportStep(d)) /\ WF_vars(RecoveryStep(d))

FairSpec == Spec /\ Fairness

-----------------------------------------------------------------------------
(* Safety                                                                   *)

Holds(content, p) == content # None /\ content.pkg = p /\ content.whole

\* At every moment of an import, a rollback and a recovery, through any number
\* of crashes, the version the row names is on disk, live or as the backup.
VersionOnDisk ==
    \A s \in Service : row[s] # None => Holds(dir[s], row[s]) \/ Holds(backup[s], row[s])

\* Nobody is changing the service: no import or delete of it, no daemon on its
\* way up, and one that serves.
Quiescent(s) ==
    /\ \E d \in Daemon : Serving(d)
    /\ \A d \in Daemon : /\ daemon[d] \notin {"recovering", "sweeping"}
                         /\ ~(Importing(d) /\ job[d].svc = s)
                         /\ deleting[d] # s

\* What the daemon serves from is what its row describes.
RowServed ==
    \A s \in Service : Quiescent(s) /\ row[s] # None => Holds(dir[s], row[s])

\* No backup survives the daemon's start, a rollback or a commit: a later import
\* never finds one whose fate was not decided.
NoBackupLeft == \A s \in Service : Quiescent(s) => backup[s] = None

\* No service directory, backup or staged commit links to a tree that has been
\* collected.
LinksHold == \A t \in referencedSharedTrees : trees[t] # "none"

-----------------------------------------------------------------------------
(* The abstract specification                                               *)

\* The version of a service: what its row names, if the disk still has it.
Served(s) ==
    IF row[s] = None \/ Holds(dir[s], row[s]) \/ Holds(backup[s], row[s])
    THEN row[s] ELSE "lost"

\* Until its row is written an import may come to nothing.
Uncommitted(d) == job[d].pc \in {"tree", "stage", "clear", "aside", "install", "upsert"}

Atomic == INSTANCE AtomicImport WITH
              served  <- [s \in Service |-> Served(s)],
              pending <- {<<job[d].svc, job[d].pkg>> : d \in {e \in Daemon : Uncommitted(e)}}

\* An import takes effect at once or not at all, at the write of its row: the
\* swap of directories before it, its rollback, a crash at any point of either
\* and the recovery after it change no service's version (importer.go:446).
ImportIsAtomic == Atomic!Spec

-----------------------------------------------------------------------------
(* Liveness                                                                 *)

\* The import lock is always given back: every import, recovery and sweep ends,
\* whatever fails, whoever disconnects and whatever was removed under it.
ImportLockReleased == \A d \in Daemon : ~At(d, "idle") ~> At(d, "idle")
=============================================================================
