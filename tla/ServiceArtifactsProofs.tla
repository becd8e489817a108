----------------------- MODULE ServiceArtifactsProofs -----------------------
(***************************************************************************)
(* Theorems about ServiceArtifacts: for any sets of services, packages,    *)
(* trees and faults.  Types and the discipline of the daemons hold for any *)
(* number of daemons.  That links hold and that no backup outlives its     *)
(* decision is proved for one daemon at a time, and that versions are kept *)
(* for one daemon whose removals are not cut short and that deletes no     *)
(* service it is importing.                                                *)
(***************************************************************************)
EXTENDS ServiceArtifacts, TLAPS

-----------------------------------------------------------------------------
(* The invariants                                                           *)

\* Who is at work: a daemon that is off does nothing, imports and deletions are
\* those of a daemon that serves, recovery and sweep those of one that starts,
\* and whoever works on a service knows which.
Disciplined(d) ==
    /\ daemon[d] = "off" => job[d] = Idle /\ deleting[d] = None
    /\ Importing(d) => Serving(d) /\ job[d].svc \in Service /\ job[d].pkg \in Package
    /\ job[d].pc \in {"scan", "discard", "undo", "redo"} <=> daemon[d] = "recovering"
    /\ job[d].pc \in {"discard", "undo", "redo"} => job[d].svc \in Service
    /\ job[d].pc = "sweep" <=> daemon[d] = "sweeping"
    /\ deleting[d] # None => Serving(d)
Control == \A d \in Daemon : Disciplined(d)

\* One daemon at a time uses the data directory.
OneDaemon == \A d, e \in Daemon : d = e

\* The invariant behind LinksHold: a tree an import is about to link is in the
\* store, and one the sweep is about to remove is not linked.
TreesKept ==
    /\ LinksHold
    /\ \A d \in Daemon : /\ At(d, "stage") => job[d].tree \in stored \union {None}
                         /\ At(d, "sweep") => job[d].cand \intersect referencedSharedTrees = {}

\* No directory has files missing.
AllWhole ==
    \A s \in Service :
        /\ dir[s] # None => dir[s].whole
        /\ backup[s] # None => backup[s].whole
        /\ staging[s] \in Dir => staging[s].whole

\* The version the row names is the live one; it is the one put aside.
Live(s)  == row[s] # None => dir[s] # None /\ dir[s].pkg = row[s]
Saved(s) == row[s] # None => backup[s] # None /\ backup[s].pkg = row[s]
Decided(s) == Live(s) /\ backup[s] = None

WorksOn(d, s) == ~At(d, "scan") /\ job[d].svc = s

\* How far a commit of s has come tells where its versions are.
CommitAt(d, s) ==
    /\ job[d].pc # "sweep"
    /\ job[d].pc \in {"tree", "stage", "clear", "aside"} => Decided(s)
    /\ job[d].pc \in {"clear", "aside", "install"} =>
          staging[s] \in Dir /\ staging[s].pkg = job[d].pkg
    /\ job[d].pc \in {"install", "upsert", "rollback", "restore"} =>
          Saved(s) /\ (job[d].had <=> backup[s] # None)
    /\ job[d].pc \in {"install", "restore"} => dir[s] = None
    /\ job[d].pc = "upsert" => dir[s] # None /\ dir[s].pkg = job[d].pkg
    /\ job[d].pc \in {"cleanup", "discard"} => Live(s)
    /\ job[d].pc \in {"undo", "redo"} => Saved(s) /\ backup[s] # None
    /\ job[d].pc = "redo" => dir[s] = None

\* How the daemon's work on s, the recovery to come and a deletion bear on it.
Kept(d, s) ==
    /\ WorksOn(d, s) => CommitAt(d, s)
    /\ s \in job[d].todo => daemon[d] = "recovering" /\ backup[s] # None /\ ~WorksOn(d, s)
    /\ daemon[d] # "off" /\ ~WorksOn(d, s) /\ s \notin job[d].todo => Decided(s)
    /\ deleting[d] = s => row[s] = None /\ ~WorksOn(d, s)

\* The invariant behind VersionOnDisk and RowServed.
VersionKept == \A s \in Service : /\ Live(s) \/ Saved(s)
                                /\ \A d \in Daemon : Kept(d, s)

-----------------------------------------------------------------------------
(* Types                                                                    *)

pcs == {"idle", "tree", "stage", "clear", "aside", "install", "upsert", "cleanup",
        "rollback", "restore", "scan", "discard", "undo", "redo", "sweep"}

\* The idle job.
LEMMA IdleJob ==
    Idle \in Job /\ Idle.pc = "idle" /\ Idle.svc = None /\ Idle.todo = {} /\ Idle.tree = None
BY DEF Idle, Job

\* The fields of a job.
LEMMA JobTypes ==
    ASSUME TypeOK, NEW d \in Daemon
    PROVE  /\ job[d] \in Job
           /\ job[d].pc \in pcs
           /\ job[d].svc \in Service \union {None}
           /\ job[d].pkg \in Package \union {None}
           /\ job[d].tree \in Tree \union {None}
           /\ job[d].had \in BOOLEAN
           /\ job[d].todo \subseteq Service
           /\ job[d].cand \subseteq Tree
BY DEF TypeOK, Job, pcs

\* A job that goes on keeps all but its place.
LEMMA GotoJob ==
    ASSUME TypeOK, NEW d \in Daemon, NEW pc \in pcs \ {"idle"}, Goto(d, pc)
    PROVE  /\ job' \in [Daemon -> Job]
           /\ \A e \in Daemon : job'[e].pc = "idle" => job'[e] = Idle
           /\ \A e \in Daemon : e # d => job'[e] = job[e]
           /\ job'[d].pc = pc /\ job'[d].svc = job[d].svc /\ job'[d].pkg = job[d].pkg
           /\ job'[d].tree = job[d].tree /\ job'[d].had = job[d].had
           /\ job'[d].todo = job[d].todo /\ job'[d].cand = job[d].cand
<1>1. job' = [job EXCEPT ![d].pc = pc] /\ job \in [Daemon -> Job]
  BY DEF Goto, TypeOK
<1>2. job[d] \in Job
  BY <1>1
<1>3. [job[d] EXCEPT !.pc = pc] \in Job
  BY <1>2 DEF Job, pcs
<1>4. job' = [job EXCEPT ![d] = [job[d] EXCEPT !.pc = pc]]
  BY <1>1
<1>5. job' \in [Daemon -> Job]
  BY <1>1, <1>3, <1>4
<1>6. job'[d] = [job[d] EXCEPT !.pc = pc] /\ \A e \in Daemon : e # d => job'[e] = job[e]
  BY <1>1, <1>4
<1>7. /\ job'[d].pc = pc /\ job'[d].svc = job[d].svc /\ job'[d].pkg = job[d].pkg
      /\ job'[d].tree = job[d].tree /\ job'[d].had = job[d].had
      /\ job'[d].todo = job[d].todo /\ job'[d].cand = job[d].cand
  BY <1>2, <1>6 DEF Job
<1>8. \A e \in Daemon : job'[e].pc = "idle" => job'[e] = Idle
  BY <1>6, <1>7 DEF TypeOK
<1> QED BY <1>5, <1>6, <1>7, <1>8

\* A job that is replaced by another.
LEMMA SetJob ==
    ASSUME TypeOK, NEW d \in Daemon, NEW j \in Job, j.pc = "idle" => j = Idle,
           job' = [job EXCEPT ![d] = j]
    PROVE  /\ job' \in [Daemon -> Job]
           /\ \A e \in Daemon : job'[e].pc = "idle" => job'[e] = Idle
           /\ \A e \in Daemon : e # d => job'[e] = job[e]
           /\ job'[d] = j
BY DEF TypeOK

\* A step that leaves the daemons and deletions alone and moves one job within
\* an import or within a recovery.
LEMMA GotoControl ==
    ASSUME TypeOK, Control, NEW d \in Daemon, NEW pc \in pcs, Goto(d, pc),
           UNCHANGED <<daemon, deleting>>,
           \/ Importing(d) /\ pc \in importing
           \/ /\ job[d].pc \in {"scan", "discard", "undo", "redo"}
              /\ pc \in {"scan", "redo"}
              /\ pc = "redo" => job[d].pc = "undo"
    PROVE  Control'
<1>1. pc # "idle"
  BY DEF importing
<1>2. \A e \in Daemon : e # d => job'[e] = job[e]
  BY <1>1, GotoJob
<1>3. job'[d].pc = pc /\ job'[d].svc = job[d].svc /\ job'[d].pkg = job[d].pkg
  BY <1>1, GotoJob
<1>4. ASSUME NEW e \in Daemon, e # d PROVE Disciplined(e)'
  BY <1>2, <1>4 DEF Control, Disciplined, Importing, Serving
<1>5. Disciplined(d)'
  BY <1>3 DEF Control, Disciplined, Importing, Serving, importing, Idle
<1> QED BY <1>4, <1>5 DEF Control

\* The end of an import.
LEMMA IdleControl ==
    ASSUME TypeOK, Control, NEW d \in Daemon, Importing(d),
           job' = [job EXCEPT ![d] = Idle], UNCHANGED <<daemon, deleting>>
    PROVE  /\ job' \in [Daemon -> Job]
           /\ \A e \in Daemon : job'[e].pc = "idle" => job'[e] = Idle
           /\ Control'
<1>1. job' \in [Daemon -> Job] /\ job'[d] = Idle
  BY SetJob, IdleJob
<1>2. \A e \in Daemon : e # d => job'[e] = job[e]
  BY SetJob, IdleJob
<1>3. \A e \in Daemon : job'[e].pc = "idle" => job'[e] = Idle
  BY SetJob, IdleJob
<1>4. ASSUME NEW e \in Daemon, e # d PROVE Disciplined(e)'
  BY <1>2, <1>4 DEF Control, Disciplined, Importing, Serving
<1>5. Disciplined(d)'
  BY <1>1, IdleJob DEF Control, Disciplined, Importing, Serving, importing
<1> QED BY <1>1, <1>3, <1>4, <1>5 DEF Control

\* A directory, a backup or a staging tree is replaced by one that was there.
LEMMA DirTypes ==
    ASSUME TypeOK, NEW s \in Service
    PROVE  /\ dir[s] \in Dir \union {None}
           /\ backup[s] \in Dir \union {None}
           /\ staging[s] \in Dir \union {Work, None}
           /\ \A c \in Dir \union {None} : [dir EXCEPT ![s] = c] \in [Service -> Dir \union {None}]
           /\ \A c \in Dir \union {None} :
                 [backup EXCEPT ![s] = c] \in [Service -> Dir \union {None}]
           /\ \A c \in Dir \union {Work, None} :
                 [staging EXCEPT ![s] = c] \in [Service -> Dir \union {Work, None}]
BY DEF TypeOK

\* Every step of an import.
LEMMA ImportTypes ==
    ASSUME TypeOK, Control, NEW d \in Daemon, ImportStep(d)
    PROVE  TypeOK' /\ Control'
<1> DEFINE s == job[d].svc
<1>1. Importing(d) /\ s \in Service /\ job[d].pkg \in Package /\ job[d].pc \in importing
  BY DEF ImportStep, PrepareRuntime, StageCommit, ImportFail, ClearBackup, MoveAside, Install,
         UpsertService, UpsertFail, Cleanup, RollbackRemove, RollbackRestore, At, Importing,
         importing, Control, Disciplined
<1>2. /\ dir[s] \in Dir \union {None} /\ backup[s] \in Dir \union {None}
      /\ staging[s] \in Dir \union {Work, None}
      /\ \A c \in Dir \union {None} : [dir EXCEPT ![s] = c] \in [Service -> Dir \union {None}]
      /\ \A c \in Dir \union {None} : [backup EXCEPT ![s] = c] \in [Service -> Dir \union {None}]
      /\ \A c \in Dir \union {Work, None} :
            [staging EXCEPT ![s] = c] \in [Service -> Dir \union {Work, None}]
  BY <1>1, DirTypes
<1>3. UNCHANGED <<daemon, deleting>> /\ aged' = aged
  BY DEF ImportStep, PrepareRuntime, StageCommit, ImportFail, ClearBackup, MoveAside, Install,
         UpsertService, UpsertFail, Cleanup, RollbackRemove, RollbackRestore, treeVars
<1>4. ASSUME NEW pc \in importing, Goto(d, pc)
      PROVE  /\ job' \in [Daemon -> Job] /\ Control'
             /\ \A e \in Daemon : job'[e].pc = "idle" => job'[e] = Idle
  BY <1>1, <1>3, <1>4, GotoJob, GotoControl DEF importing, pcs
<1>5. ASSUME Finish(d)
      PROVE  /\ job' \in [Daemon -> Job] /\ Control'
             /\ \A e \in Daemon : job'[e].pc = "idle" => job'[e] = Idle
             /\ staging' \in [Service -> Dir \union {Work, None}]
  BY <1>1, <1>2, <1>3, <1>5, IdleControl DEF Finish
<1> HIDE DEF s
<1>6. CASE PrepareRuntime(d)
  <2>1. Goto(d, "stage") /\ UNCHANGED <<row, diskVars>>
    BY <1>6 DEF PrepareRuntime
  <2>2. /\ trees' \in [Tree -> {"none", "whole", "torn"}]
        /\ aged' \subseteq {t \in Tree : trees'[t] # "none"}
    BY <1>3, <1>6, JobTypes DEF PrepareRuntime, TypeOK
  <2> QED BY <1>3, <1>4, <2>1, <2>2 DEF TypeOK, importing, diskVars
<1>7. CASE StageCommit(d)
  <2>1. Goto(d, "clear") /\ UNCHANGED <<row, dir, backup, treeVars>>
    BY <1>7 DEF StageCommit
  <2>2. [pkg |-> job[d].pkg, tree |-> job[d].tree, whole |-> TRUE] \in Dir
    BY <1>1, JobTypes DEF Dir
  <2>3. staging' \in [Service -> Dir \union {Work, None}]
    BY <1>2, <1>7, <2>2 DEF StageCommit, s
  <2> QED BY <1>3, <1>4, <2>1, <2>3 DEF TypeOK, importing, treeVars
<1>8. CASE ImportFail(d)
  <2>1. Finish(d) /\ UNCHANGED <<row, dir, backup, treeVars>>
    BY <1>8 DEF ImportFail
  <2> QED BY <1>3, <1>5, <2>1 DEF TypeOK, treeVars
<1>9. CASE ClearBackup(d)
  <2>1. Goto(d, "aside") /\ UNCHANGED <<row, dir, staging, treeVars>>
    BY <1>9 DEF ClearBackup
  <2>2. backup' \in [Service -> Dir \union {None}]
    BY <1>2, <1>9 DEF ClearBackup, s
  <2> QED BY <1>3, <1>4, <2>1, <2>2 DEF TypeOK, importing, treeVars
<1>10. CASE MoveAside(d)
  <2>1. UNCHANGED <<row, treeVars>>
    BY <1>10 DEF MoveAside
  <2>2. CASE dir[s] # None /\ backup[s] # None
    <3>1. Finish(d) /\ UNCHANGED <<dir, backup>>
      BY <1>10, <2>2 DEF MoveAside, s
    <3> QED BY <1>3, <1>5, <2>1, <3>1 DEF TypeOK, treeVars
  <2>3. CASE ~(dir[s] # None /\ backup[s] # None)
    <3>1. /\ backup' = [backup EXCEPT ![s] = IF dir[s] # None THEN dir[s] ELSE @]
          /\ dir' = [dir EXCEPT ![s] = None]
          /\ job' = [job EXCEPT ![d].pc = "install", ![d].had = (dir[s] # None)]
          /\ UNCHANGED staging
      BY <1>10, <2>3 DEF MoveAside, s
    <3>2. dir' \in [Service -> Dir \union {None}] /\ backup' \in [Service -> Dir \union {None}]
      BY <1>2, <3>1
    <3> DEFINE j == [job[d] EXCEPT !.pc = "install", !.had = (dir[s] # None)]
    <3>3. j \in Job /\ j.pc = "install" /\ j.svc = job[d].svc /\ j.pkg = job[d].pkg
      BY JobTypes DEF Job
    <3>4. job' = [job EXCEPT ![d] = j]
      BY <3>1 DEF TypeOK
    <3> HIDE DEF j
    <3>5. /\ job' \in [Daemon -> Job] /\ job'[d] = j
          /\ \A e \in Daemon : job'[e].pc = "idle" => job'[e] = Idle
          /\ \A e \in Daemon : e # d => job'[e] = job[e]
      BY <3>3, <3>4, SetJob
    <3>6. Control'
      <4>1. ASSUME NEW e \in Daemon, e # d PROVE Disciplined(e)'
        BY <1>3, <3>5, <4>1 DEF Control, Disciplined, Importing, Serving
      <4>2. Disciplined(d)'
        BY <1>1, <1>3, <3>3, <3>5 DEF Control, Disciplined, Importing, Serving, importing, Idle
      <4> QED BY <4>1, <4>2 DEF Control
    <3> QED BY <1>3, <2>1, <3>1, <3>2, <3>5, <3>6 DEF TypeOK, treeVars
  <2> QED BY <2>2, <2>3
<1>11. CASE Install(d)
  <2>1. UNCHANGED <<row, treeVars>>
    BY <1>11 DEF Install
  <2>2. CASE staging[s] \in Dir /\ dir[s] = None
    <3>1. /\ dir' = [dir EXCEPT ![s] = staging[s]]
          /\ staging' = [staging EXCEPT ![s] = Work]
          /\ Goto(d, "upsert") /\ UNCHANGED backup
      BY <1>11, <2>2 DEF Install, s
    <3>2. /\ dir' \in [Service -> Dir \union {None}]
          /\ staging' \in [Service -> Dir \union {Work, None}]
      BY <1>2, <2>2, <3>1
    <3> QED BY <1>3, <1>4, <2>1, <3>1, <3>2 DEF TypeOK, importing, treeVars
  <2>3. CASE ~(staging[s] \in Dir /\ dir[s] = None)
    <3>1. Finish(d)
      BY <1>11, <2>3 DEF Install, s
    <3>2. \/ UNCHANGED <<dir, backup>>
          \/ /\ dir' = [dir EXCEPT ![s] = backup[s]]
             /\ backup' = [backup EXCEPT ![s] = None]
      BY <1>11, <2>3 DEF Install, s
    <3>3. dir' \in [Service -> Dir \union {None}] /\ backup' \in [Service -> Dir \union {None}]
      BY <1>2, <3>2 DEF TypeOK
    <3> QED BY <1>3, <1>5, <2>1, <3>1, <3>3 DEF TypeOK, treeVars
  <2> QED BY <2>2, <2>3
<1>12. CASE UpsertService(d)
  <2>1. Goto(d, "cleanup") /\ UNCHANGED <<diskVars, treeVars>>
    BY <1>12 DEF UpsertService
  <2>2. row' \in [Service -> Package \union {None}]
    BY <1>1, <1>12 DEF UpsertService, TypeOK
  <2> QED BY <1>3, <1>4, <2>1, <2>2 DEF TypeOK, importing, diskVars, treeVars
<1>13. CASE UpsertFail(d)
  <2>1. Goto(d, "rollback") /\ UNCHANGED <<row, diskVars, treeVars>>
    BY <1>13 DEF UpsertFail
  <2> QED BY <1>3, <1>4, <2>1 DEF TypeOK, importing, diskVars, treeVars
<1>14. CASE Cleanup(d)
  <2>1. Finish(d) /\ UNCHANGED <<row, dir, treeVars>>
    BY <1>14 DEF Cleanup
  <2>2. backup' \in [Service -> Dir \union {None}]
    BY <1>2, <1>14 DEF Cleanup, s
  <2> QED BY <1>3, <1>5, <2>1, <2>2 DEF TypeOK, treeVars
<1>15. CASE RollbackRemove(d)
  <2>1. Goto(d, "restore") /\ UNCHANGED <<row, backup, staging, treeVars>>
    BY <1>15 DEF RollbackRemove
  <2>2. dir' \in [Service -> Dir \union {None}]
    BY <1>2, <1>15 DEF RollbackRemove, s
  <2> QED BY <1>3, <1>4, <2>1, <2>2 DEF TypeOK, importing, treeVars
<1>16. CASE RollbackRestore(d)
  <2>1. Finish(d) /\ UNCHANGED <<row, treeVars>>
    BY <1>16 DEF RollbackRestore
  <2>2. \/ UNCHANGED <<dir, backup>>
        \/ dir' = [dir EXCEPT ![s] = backup[s]] /\ backup' = [backup EXCEPT ![s] = None]
    BY <1>16 DEF RollbackRestore, restoreBackup, s
  <2>3. dir' \in [Service -> Dir \union {None}] /\ backup' \in [Service -> Dir \union {None}]
    BY <1>2, <2>2 DEF TypeOK
  <2> QED BY <1>3, <1>5, <2>1, <2>3 DEF TypeOK, treeVars
<1> QED BY <1>6, <1>7, <1>8, <1>9, <1>10, <1>11, <1>12, <1>13, <1>14, <1>15, <1>16 DEF ImportStep

\* A step that gives one daemon another job keeps the discipline of the others.
LEMMA SetControl ==
    ASSUME TypeOK, Control, NEW d \in Daemon,
           \A e \in Daemon : e # d => /\ job'[e] = job[e] /\ daemon'[e] = daemon[e]
                                      /\ deleting'[e] = deleting[e],
           Disciplined(d)'
    PROVE  Control'
BY DEF Control, Disciplined, Importing, Serving

\* Every step of a recovery or a sweep.
LEMMA RecoveryTypes ==
    ASSUME TypeOK, Control, NEW d \in Daemon, RecoveryStep(d)
    PROVE  TypeOK' /\ Control'
<1> DEFINE s == job[d].svc
<1>1. ASSUME s \in Service
      PROVE  /\ backup[s] \in Dir \union {None}
             /\ \A c \in Dir \union {None} :
                   /\ [dir EXCEPT ![s] = c] \in [Service -> Dir \union {None}]
                   /\ [backup EXCEPT ![s] = c] \in [Service -> Dir \union {None}]
  BY <1>1, DirTypes
<1>2. job[d].pc \in {"discard", "undo", "redo"} => s \in Service
  BY DEF Control, Disciplined
<1>3. ASSUME NEW pc \in {"scan", "redo"}, Goto(d, pc), UNCHANGED <<daemon, deleting>>,
             job[d].pc \in {"discard", "undo", "redo"}, pc = "redo" => job[d].pc = "undo"
      PROVE  /\ job' \in [Daemon -> Job] /\ Control'
             /\ \A e \in Daemon : job'[e].pc = "idle" => job'[e] = Idle
  BY <1>3, GotoJob, GotoControl DEF pcs
<1> HIDE DEF s
<1>4. CASE \E r \in Service : RecoverService(d, r)
  <2>1. PICK r \in Service : RecoverService(d, r)
    BY <1>4
  <2>2. PICK intact \in BOOLEAN :
          job' = [job EXCEPT ![d].pc = IF needsRollback(r, intact) THEN "undo" ELSE "discard",
                             ![d].svc = r, ![d].todo = @ \ {r}]
    BY <2>1 DEF RecoverService
  <2>3. PICK pc \in {"undo", "discard"} :
          job' = [job EXCEPT ![d].pc = pc, ![d].svc = r, ![d].todo = @ \ {r}]
    BY <2>2
  <2> DEFINE j == [job[d] EXCEPT !.pc = pc, !.svc = r, !.todo = @ \ {r}]
  <2>4. j \in Job /\ j.pc = pc /\ j.svc = r
    BY JobTypes DEF Job
  <2>5. job' = [job EXCEPT ![d] = j]
    BY <2>3 DEF TypeOK
  <2> HIDE DEF j
  <2>6. /\ job' \in [Daemon -> Job] /\ job'[d] = j
        /\ \A e \in Daemon : job'[e].pc = "idle" => job'[e] = Idle
        /\ \A e \in Daemon : e # d => job'[e] = job[e]
    BY <2>4, <2>5, SetJob
  <2>7. UNCHANGED <<row, diskVars, treeVars, daemon, deleting>> /\ job[d].pc = "scan"
    BY <2>1 DEF RecoverService, At
  <2>8. Disciplined(d)'
    BY <2>4, <2>6, <2>7 DEF Control, Disciplined, Importing, importing, Idle, Serving
  <2>9. Control'
    BY <2>6, <2>7, <2>8, SetControl
  <2> QED BY <2>6, <2>7, <2>9 DEF TypeOK, diskVars, treeVars
<1>5. CASE DiscardBackup(d)
  <2>1. /\ job[d].pc = "discard" /\ Goto(d, "scan")
        /\ UNCHANGED <<row, dir, staging, treeVars, daemon, deleting>>
    BY <1>5 DEF DiscardBackup, At
  <2>2. backup' \in [Service -> Dir \union {None}]
    BY <1>1, <1>2, <1>5, <2>1 DEF DiscardBackup, s
  <2> QED BY <1>3, <2>1, <2>2 DEF TypeOK, treeVars
<1>6. CASE RecoverRemove(d)
  <2>1. /\ job[d].pc = "undo" /\ Goto(d, "redo")
        /\ UNCHANGED <<row, backup, staging, treeVars, daemon, deleting>>
    BY <1>6 DEF RecoverRemove, At
  <2>2. dir' \in [Service -> Dir \union {None}]
    BY <1>1, <1>2, <1>6, <2>1 DEF RecoverRemove, s
  <2> QED BY <1>3, <2>1, <2>2 DEF TypeOK, treeVars
<1>7. CASE RecoverRename(d)
  <2>1. /\ job[d].pc = "redo" /\ Goto(d, "scan")
        /\ UNCHANGED <<row, staging, treeVars, daemon, deleting>>
    BY <1>7 DEF RecoverRename, At
  <2>2. \/ UNCHANGED <<dir, backup>>
        \/ dir' = [dir EXCEPT ![s] = backup[s]] /\ backup' = [backup EXCEPT ![s] = None]
    BY <1>7 DEF RecoverRename, restoreBackup, s
  <2>3. dir' \in [Service -> Dir \union {None}] /\ backup' \in [Service -> Dir \union {None}]
    BY <1>1, <1>2, <2>1, <2>2 DEF TypeOK
  <2> QED BY <1>3, <2>1, <2>3 DEF TypeOK, treeVars
<1>8. CASE SweepWalk(d)
  <2> DEFINE j == [Idle EXCEPT !.pc = "sweep", !.cand = stored \ referencedSharedTrees]
  <2>1. j \in Job /\ j.pc = "sweep"
    BY DEF Idle, Job, stored
  <2>2. /\ job' = [job EXCEPT ![d] = j] /\ daemon' = [daemon EXCEPT ![d] = "sweeping"]
        /\ UNCHANGED <<row, diskVars, treeVars, deleting>> /\ job[d].pc = "scan"
    BY <1>8 DEF SweepWalk, At
  <2> HIDE DEF j
  <2>3. /\ job' \in [Daemon -> Job] /\ job'[d] = j
        /\ \A e \in Daemon : job'[e].pc = "idle" => job'[e] = Idle
        /\ \A e \in Daemon : e # d => job'[e] = job[e]
    BY <2>1, <2>2, SetJob
  <2>4. /\ daemon' \in [Daemon -> {"off", "recovering", "sweeping", "up", "draining"}]
        /\ daemon'[d] = "sweeping" /\ \A e \in Daemon : e # d => daemon'[e] = daemon[e]
    BY <2>2 DEF TypeOK
  <2>5. Disciplined(d)'
    BY <2>1, <2>2, <2>3, <2>4 DEF Control, Disciplined, Importing, importing, Serving
  <2>6. Control'
    BY <2>2, <2>3, <2>4, <2>5, SetControl
  <2> QED BY <2>2, <2>3, <2>4, <2>6 DEF TypeOK, diskVars, treeVars
<1>9. CASE SweepDone(d)
  <2>1. /\ job' = [job EXCEPT ![d] = Idle] /\ daemon' = [daemon EXCEPT ![d] = "up"]
        /\ UNCHANGED <<row, diskVars, treeVars, deleting>> /\ job[d].pc = "sweep"
    BY <1>9 DEF SweepDone, At
  <2>2. /\ job' \in [Daemon -> Job] /\ job'[d] = Idle
        /\ \A e \in Daemon : job'[e].pc = "idle" => job'[e] = Idle
        /\ \A e \in Daemon : e # d => job'[e] = job[e]
    BY <2>1, IdleJob, SetJob
  <2>3. /\ daemon' \in [Daemon -> {"off", "recovering", "sweeping", "up", "draining"}]
        /\ daemon'[d] = "up" /\ \A e \in Daemon : e # d => daemon'[e] = daemon[e]
    BY <2>1 DEF TypeOK
  <2>4. Disciplined(d)'
    BY <2>1, <2>2, <2>3, IdleJob DEF Control, Disciplined, Importing, importing, Serving
  <2>5. Control'
    BY <2>1, <2>2, <2>3, <2>4, SetControl
  <2> QED BY <2>1, <2>2, <2>3, <2>5 DEF TypeOK, diskVars, treeVars
<1>10. CASE \E t \in Tree : SweepRemove(d, t)
  <2>1. PICK t \in Tree : SweepRemove(d, t)
    BY <1>10
  <2> DEFINE j == [job[d] EXCEPT !.cand = @ \ {t}]
  <2>2. j \in Job /\ j.pc = job[d].pc
    BY JobTypes DEF Job
  <2>3. /\ job' = [job EXCEPT ![d] = j] /\ job[d].pc = "sweep"
        /\ UNCHANGED <<row, diskVars, daemon, deleting>>
    BY <2>1 DEF SweepRemove, At, TypeOK
  <2> HIDE DEF j
  <2>4. /\ job' \in [Daemon -> Job] /\ job'[d] = j
        /\ \A e \in Daemon : job'[e].pc = "idle" => job'[e] = Idle
        /\ \A e \in Daemon : e # d => job'[e] = job[e]
    BY <2>2, <2>3, SetJob
  <2>5. Disciplined(d)'
    BY <2>2, <2>3, <2>4 DEF Control, Disciplined, Importing, importing, Serving, Idle
  <2>6. Control'
    BY <2>3, <2>4, <2>5, SetControl
  <2>7. /\ trees' \in [Tree -> {"none", "whole", "torn"}]
        /\ aged' \subseteq {u \in Tree : trees'[u] # "none"}
    BY <2>1 DEF SweepRemove, TypeOK
  <2> QED BY <2>3, <2>4, <2>6, <2>7 DEF TypeOK, diskVars
<1> QED BY <1>4, <1>5, <1>6, <1>7, <1>8, <1>9, <1>10 DEF RecoveryStep

\* An import begins, a service is deleted.
LEMMA CallTypes ==
    ASSUME TypeOK, Control, NEW d \in Daemon,
           \/ \E s \in Service, p \in Package, t \in Tree \union {None} : BeginImport(d, s, p, t)
           \/ \E s \in Service : DeleteService(d, s)
           \/ DeleteDir(d)
    PROVE  TypeOK' /\ Control'
<1>1. CASE \E s \in Service, p \in Package, t \in Tree \union {None} : BeginImport(d, s, p, t)
  <2>1. PICK s \in Service, p \in Package, t \in Tree \union {None} : BeginImport(d, s, p, t)
    BY <1>1
  <2> DEFINE j == [Idle EXCEPT !.pc = "tree", !.svc = s, !.pkg = p, !.tree = t]
  <2>2. j \in Job /\ j.pc = "tree" /\ j.svc = s /\ j.pkg = p
    BY DEF Idle, Job
  <2>3. /\ job' = [job EXCEPT ![d] = j] /\ Serving(d)
        /\ staging' = [staging EXCEPT ![s] = Work]
        /\ UNCHANGED <<row, dir, backup, treeVars, daemon, deleting>>
    BY <2>1 DEF BeginImport
  <2> HIDE DEF j
  <2>4. /\ job' \in [Daemon -> Job] /\ job'[d] = j
        /\ \A e \in Daemon : job'[e].pc = "idle" => job'[e] = Idle
        /\ \A e \in Daemon : e # d => job'[e] = job[e]
    BY <2>2, <2>3, SetJob
  <2>5. Disciplined(d)'
    BY <2>2, <2>3, <2>4 DEF Control, Disciplined, Importing, importing, Serving, Idle
  <2>6. Control'
    BY <2>3, <2>4, <2>5, SetControl
  <2>7. staging' \in [Service -> Dir \union {Work, None}]
    BY <2>3, DirTypes
  <2> QED BY <2>3, <2>4, <2>6, <2>7 DEF TypeOK, treeVars
<1>2. CASE \E s \in Service : DeleteService(d, s)
  <2>1. PICK s \in Service : DeleteService(d, s)
    BY <1>2
  <2>2. /\ row' = [row EXCEPT ![s] = None] /\ deleting' = [deleting EXCEPT ![d] = s]
        /\ UNCHANGED <<diskVars, treeVars, daemon, job>> /\ Serving(d)
    BY <2>1 DEF DeleteService
  <2>3. /\ row' \in [Service -> Package \union {None}]
        /\ deleting' \in [Daemon -> Service \union {None}]
        /\ \A e \in Daemon : e # d => deleting'[e] = deleting[e]
    BY <2>2 DEF TypeOK
  <2>4. Disciplined(d)'
    BY <2>2 DEF Control, Disciplined, Importing, Serving
  <2>5. Control'
    BY <2>2, <2>3, <2>4, SetControl
  <2> QED BY <2>2, <2>3, <2>5 DEF TypeOK, diskVars, treeVars
<1>3. CASE DeleteDir(d)
  <2>1. /\ deleting[d] \in Service /\ dir' = [dir EXCEPT ![deleting[d]] = None]
        /\ deleting' = [deleting EXCEPT ![d] = None]
        /\ UNCHANGED <<row, backup, staging, treeVars, daemon, job>>
    BY <1>3 DEF DeleteDir, TypeOK
  <2>2. /\ deleting' \in [Daemon -> Service \union {None}] /\ deleting'[d] = None
        /\ \A e \in Daemon : e # d => deleting'[e] = deleting[e]
    BY <2>1 DEF TypeOK
  <2>3. dir' \in [Service -> Dir \union {None}]
    BY <2>1, DirTypes
  <2>4. Disciplined(d)'
    BY <2>1, <2>2 DEF Control, Disciplined, Importing, Serving
  <2>5. Control'
    BY <2>1, <2>2, <2>4, SetControl
  <2> QED BY <2>1, <2>2, <2>3, <2>5 DEF TypeOK, treeVars
<1> QED BY <1>1, <1>2, <1>3

crash(d) ==
    Crash(d) \/ CrashInDir(d) \/ CrashInBackup(d) \/ \E t \in Tree : CrashInTree(d, t)

\* A daemon that dies leaves no job and no deletion behind.
LEMMA DieTypes ==
    ASSUME TypeOK, Control, NEW d \in Daemon, Die(d)
    PROVE  /\ daemon' \in [Daemon -> {"off", "recovering", "sweeping", "up", "draining"}]
           /\ job' \in [Daemon -> Job]
           /\ deleting' \in [Daemon -> Service \union {None}]
           /\ \A e \in Daemon : job'[e].pc = "idle" => job'[e] = Idle
           /\ Control'
<1>1. /\ daemon' = [daemon EXCEPT ![d] = "off"] /\ job' = [job EXCEPT ![d] = Idle]
      /\ deleting' = [deleting EXCEPT ![d] = None]
  BY DEF Die
<1>2. /\ job' \in [Daemon -> Job] /\ job'[d] = Idle
      /\ \A e \in Daemon : job'[e].pc = "idle" => job'[e] = Idle
      /\ \A e \in Daemon : e # d => job'[e] = job[e]
  BY <1>1, IdleJob, SetJob
<1>3. /\ daemon' \in [Daemon -> {"off", "recovering", "sweeping", "up", "draining"}]
      /\ deleting' \in [Daemon -> Service \union {None}]
      /\ daemon'[d] = "off" /\ deleting'[d] = None
      /\ \A e \in Daemon : e # d => daemon'[e] = daemon[e] /\ deleting'[e] = deleting[e]
  BY <1>1 DEF TypeOK
<1>4. Disciplined(d)'
  BY <1>2, <1>3, IdleJob DEF Disciplined, Importing, importing
<1> QED BY <1>2, <1>3, <1>4, SetControl

\* A daemon starts, drains, stops or dies; a tree ages.
LEMMA DaemonTypes ==
    ASSUME TypeOK, Control, NEW d \in Daemon, Boot(d) \/ Drain(d) \/ Stop(d) \/ crash(d)
    PROVE  TypeOK' /\ Control'
<1>1. CASE Boot(d)
  <2> DEFINE j == [Idle EXCEPT !.pc = "scan", !.todo = {s \in Service : backup[s] # None}]
  <2>1. j \in Job /\ j.pc = "scan"
    BY DEF Idle, Job
  <2>2. /\ job' = [job EXCEPT ![d] = j] /\ daemon' = [daemon EXCEPT ![d] = "recovering"]
        /\ staging' = [s \in Service |-> None] /\ daemon[d] = "off"
        /\ UNCHANGED <<row, dir, backup, treeVars, deleting>>
    BY <1>1 DEF Boot
  <2> HIDE DEF j
  <2>3. /\ job' \in [Daemon -> Job] /\ job'[d] = j
        /\ \A e \in Daemon : job'[e].pc = "idle" => job'[e] = Idle
        /\ \A e \in Daemon : e # d => job'[e] = job[e]
    BY <2>1, <2>2, SetJob
  <2>4. /\ daemon' \in [Daemon -> {"off", "recovering", "sweeping", "up", "draining"}]
        /\ daemon'[d] = "recovering" /\ \A e \in Daemon : e # d => daemon'[e] = daemon[e]
    BY <2>2 DEF TypeOK
  <2>5. Disciplined(d)'
    BY <2>1, <2>2, <2>3, <2>4 DEF Control, Disciplined, Importing, importing, Serving
  <2>6. Control'
    BY <2>2, <2>3, <2>4, <2>5, SetControl
  <2>7. staging' \in [Service -> Dir \union {Work, None}]
    BY <2>2
  <2> QED BY <2>2, <2>3, <2>4, <2>6, <2>7 DEF TypeOK, treeVars
<1>2. CASE Drain(d)
  <2>1. /\ daemon' = [daemon EXCEPT ![d] = "draining"] /\ daemon[d] = "up"
        /\ UNCHANGED <<row, diskVars, treeVars, job, deleting>>
    BY <1>2 DEF Drain
  <2>2. /\ daemon' \in [Daemon -> {"off", "recovering", "sweeping", "up", "draining"}]
        /\ daemon'[d] = "draining" /\ \A e \in Daemon : e # d => daemon'[e] = daemon[e]
    BY <2>1 DEF TypeOK
  <2>3. Disciplined(d)'
    BY <2>1, <2>2 DEF Control, Disciplined, Importing, Serving
  <2>4. Control'
    BY <2>1, <2>2, <2>3, SetControl
  <2> QED BY <2>1, <2>2, <2>4 DEF TypeOK, diskVars, treeVars
<1>3. CASE Stop(d)
  <2>1. /\ daemon' = [daemon EXCEPT ![d] = "off"] /\ job[d].pc = "idle" /\ deleting[d] = None
        /\ UNCHANGED <<row, diskVars, treeVars, job, deleting>>
    BY <1>3 DEF Stop, At
  <2>2. /\ daemon' \in [Daemon -> {"off", "recovering", "sweeping", "up", "draining"}]
        /\ daemon'[d] = "off" /\ \A e \in Daemon : e # d => daemon'[e] = daemon[e]
    BY <2>1 DEF TypeOK
  <2>3. job[d] = Idle
    BY <2>1 DEF TypeOK
  <2>4. Disciplined(d)'
    BY <2>1, <2>2, <2>3 DEF Disciplined, Importing, importing
  <2>5. Control'
    BY <2>1, <2>2, <2>4, SetControl
  <2> QED BY <2>1, <2>2, <2>5 DEF TypeOK, diskVars, treeVars
<1>4. CASE crash(d)
  <2>1. Die(d) /\ row' = row
    BY <1>4 DEF crash, Crash, CrashInDir, CrashInBackup, CrashInTree
  <2>2. CASE Crash(d)
    BY <2>1, <2>2, DieTypes DEF Crash, TypeOK, diskVars, treeVars
  <2>3. CASE CrashInDir(d)
    <3>1. PICK s \in Service : dir[s] # None /\ dir' = [dir EXCEPT ![s].whole = FALSE]
      BY <2>3 DEF CrashInDir, TypeOK, Job
    <3>2. dir[s] \in Dir
      BY <3>1, DirTypes
    <3>3. [dir[s] EXCEPT !.whole = FALSE] \in Dir
      BY <3>2 DEF Dir
    <3>4. dir' \in [Service -> Dir \union {None}]
      BY <3>1, <3>3 DEF TypeOK
    <3> QED BY <2>1, <2>3, <3>4, DieTypes DEF CrashInDir, TypeOK, treeVars
  <2>4. CASE CrashInBackup(d)
    <3> DEFINE s == job[d].svc
    <3>1. /\ backup[s] # None /\ backup' = [backup EXCEPT ![s].whole = FALSE]
          /\ job[d].pc \in {"clear", "cleanup", "discard"}
      BY <2>4 DEF CrashInBackup
    <3>2. s \in Service
      BY <3>1 DEF Control, Disciplined, Importing, importing
    <3> HIDE DEF s
    <3>3. backup[s] \in Dir
      BY <3>1, <3>2, DirTypes
    <3>4. [backup[s] EXCEPT !.whole = FALSE] \in Dir
      BY <3>3 DEF Dir
    <3>5. backup' \in [Service -> Dir \union {None}]
      BY <3>1, <3>4 DEF TypeOK
    <3> QED BY <2>1, <2>4, <3>5, DieTypes DEF CrashInBackup, TypeOK, treeVars
  <2>5. CASE \E t \in Tree : CrashInTree(d, t)
    <3>1. PICK t \in Tree : CrashInTree(d, t)
      BY <2>5
    <3>2. /\ trees' \in [Tree -> {"none", "whole", "torn"}]
          /\ aged' \subseteq {u \in Tree : trees'[u] # "none"}
      BY <3>1 DEF CrashInTree, TypeOK
    <3> QED BY <2>1, <3>1, <3>2, DieTypes DEF CrashInTree, TypeOK, diskVars
  <2> QED BY <1>4, <2>2, <2>3, <2>4, <2>5 DEF crash
<1> QED BY <1>1, <1>2, <1>3, <1>4

\* Every step, sorted by whose it is.
LEMMA Steps ==
    ASSUME Next
    PROVE  \/ \E d \in Daemon :
                 \/ \E s \in Service, p \in Package, t \in Tree \union {None} :
                       BeginImport(d, s, p, t)
                 \/ ImportStep(d) \/ RecoveryStep(d)
                 \/ \E s \in Service : DeleteService(d, s)
                 \/ DeleteDir(d)
                 \/ Boot(d) \/ Drain(d) \/ Stop(d) \/ crash(d)
           \/ \E t \in Tree : Age(t)
BY DEF Next, crash

\* The inductive step of types and discipline.
LEMMA NextTypes ==
    ASSUME TypeOK, Control, [Next]_vars
    PROVE  TypeOK' /\ Control'
<1>1. CASE UNCHANGED vars
  BY <1>1 DEF vars, diskVars, treeVars, TypeOK, Control, Disciplined, Importing, Serving
<1>2. CASE \E t \in Tree : Age(t)
  <2>1. UNCHANGED <<row, diskVars, trees, daemon, job, deleting>>
    BY <1>2 DEF Age
  <2>2. aged' \subseteq {t \in Tree : trees[t] # "none"}
    BY <1>2 DEF Age, TypeOK
  <2> QED BY <2>1, <2>2 DEF TypeOK, Control, Disciplined, Importing, Serving, diskVars
<1>3. ASSUME NEW d \in Daemon, ImportStep(d) PROVE TypeOK' /\ Control'
  BY <1>3, ImportTypes
<1>4. ASSUME NEW d \in Daemon, RecoveryStep(d) PROVE TypeOK' /\ Control'
  BY <1>4, RecoveryTypes
<1>5. ASSUME NEW d \in Daemon,
             \/ \E s \in Service, p \in Package, t \in Tree \union {None} : BeginImport(d, s, p, t)
             \/ \E s \in Service : DeleteService(d, s)
             \/ DeleteDir(d)
      PROVE  TypeOK' /\ Control'
  BY <1>5, CallTypes
<1>6. ASSUME NEW d \in Daemon, Boot(d) \/ Drain(d) \/ Stop(d) \/ crash(d)
      PROVE  TypeOK' /\ Control'
  BY <1>6, DaemonTypes
<1> QED BY <1>1, <1>2, <1>3, <1>4, <1>5, <1>6, Steps

\* An empty data directory is of its type.
LEMMA InitTypes == Init => TypeOK /\ Control
<1> SUFFICES ASSUME Init PROVE TypeOK /\ Control
  OBVIOUS
<1>1. job \in [Daemon -> Job]
  BY IdleJob DEF Init
<1>2. TypeOK
  BY <1>1 DEF Init, TypeOK
<1>3. Control
  BY IdleJob DEF Init, Control, Disciplined, Importing, importing
<1> QED BY <1>2, <1>3

\* Every reachable state has the shape the code gives its rows, directories and
\* locks, however many daemons share the data directory.
THEOREM TypeCorrect == Spec => []TypeOK
<1>1. TypeOK /\ Control /\ [Next]_vars => (TypeOK /\ Control)'
  BY NextTypes
<1> QED BY <1>1, InitTypes, PTL DEF Spec

-----------------------------------------------------------------------------
(* Links                                                                    *)

LinksOf(s) == Links(dir[s]) \union Links(backup[s]) \union Links(staging[s])

\* No link appears that the service did not have.
LinksOnlyMove ==
    \A s \in Service : /\ Links(dir'[s]) \subseteq LinksOf(s)
                       /\ Links(backup'[s]) \subseteq LinksOf(s)
                       /\ Links(staging'[s]) \subseteq LinksOf(s)

\* What links where.
LEMMA LinkFacts ==
    /\ Links(None) = {} /\ Links(Work) = {}
    /\ \A c \in Dir : Links(c) = {c.tree} \ {None}
BY DirAssumption DEF Links

\* A tree is referenced by some service.
LEMMA Referenced ==
    /\ \A t : t \in referencedSharedTrees <=> \E s \in Service : t \in LinksOf(s)
    /\ (\A t : t \in referencedSharedTrees <=> \E s \in Service : t \in LinksOf(s))'
BY DEF referencedSharedTrees, LinksOf

\* Links that only move reference no tree anew.
LEMMA FewerReferences ==
    ASSUME LinksOnlyMove
    PROVE  referencedSharedTrees' \subseteq referencedSharedTrees
<1> SUFFICES ASSUME NEW t, t \in referencedSharedTrees' PROVE t \in referencedSharedTrees
  OBVIOUS
<1>1. PICK s \in Service : t \in LinksOf(s)'
  BY Referenced
<1>2. t \in LinksOf(s)
  BY <1>1 DEF LinksOnlyMove, LinksOf
<1> QED BY <1>2, Referenced

\* LinksHold, in terms of the trees in the store.
LEMMA HoldStored ==
    ASSUME TypeOK, TypeOK'
    PROVE  /\ LinksHold <=> referencedSharedTrees \subseteq stored
           /\ LinksHold' <=> referencedSharedTrees' \subseteq stored'
<1>1. \A c : c \in Dir => c.tree \in Tree \union {None}
  BY DEF Dir
<1>2. referencedSharedTrees \subseteq Tree
  BY <1>1 DEF referencedSharedTrees, Links
<1>3. referencedSharedTrees' \subseteq Tree
  BY <1>1 DEF referencedSharedTrees, Links
<1> QED BY <1>2, <1>3 DEF LinksHold, stored

\* A step that links nothing anew and removes nothing.
LEMMA KeepTrees ==
    ASSUME TypeOK, TypeOK', TreesKept, LinksOnlyMove, stored \subseteq stored',
           \A d \in Daemon : At(d, "stage")' => job'[d].tree \in stored' \union {None},
           \A d \in Daemon : At(d, "sweep")' =>
               At(d, "sweep") /\ job'[d].cand \subseteq job[d].cand
    PROVE  TreesKept'
<1>1. referencedSharedTrees' \subseteq referencedSharedTrees
  BY FewerReferences
<1>2. LinksHold'
  BY <1>1, HoldStored DEF TreesKept
<1>3. \A d \in Daemon : At(d, "sweep")' => job'[d].cand \intersect referencedSharedTrees' = {}
  BY <1>1 DEF TreesKept
<1> QED BY <1>2, <1>3 DEF TreesKept, At

\* Directories, backups and staging trees are moved and removed.
OnlyMoves ==
    \A s \in Service : /\ dir'[s] \in {dir[s], backup[s], staging[s], None}
                       /\ backup'[s] \in {dir[s], backup[s], None}
                       /\ staging'[s] \in {staging[s], Work, None}

\* Which moves no link.
LEMMA MovesLinks ==
    ASSUME OnlyMoves
    PROVE  LinksOnlyMove
BY LinkFacts DEF OnlyMoves, LinksOnlyMove, LinksOf

\* What an import does to the directories.
LEMMA ImportMoves ==
    ASSUME TypeOK, Control, NEW d \in Daemon, ImportStep(d), ~StageCommit(d)
    PROVE  /\ OnlyMoves
           /\ \/ PrepareRuntime(d)
              \/ trees' = trees /\ job'[d].pc \notin {"stage", "sweep"}
<1>1. ASSUME NEW pc \in importing, Goto(d, pc) PROVE job'[d].pc = pc
  BY <1>1, GotoJob DEF importing, pcs
<1>2. ASSUME Finish(d)
      PROVE  /\ job'[d].pc = "idle"
             /\ \A s \in Service : staging'[s] \in {staging[s], None}
  BY <1>2, SetJob, IdleJob DEF Finish, TypeOK
<1>3. CASE PrepareRuntime(d)
  <2>1. dir' = dir /\ backup' = backup /\ staging' = staging
    BY <1>3 DEF PrepareRuntime, diskVars
  <2> QED BY <1>3, <2>1 DEF OnlyMoves
<1>4. CASE ImportFail(d)
  BY <1>2, <1>4 DEF ImportFail, OnlyMoves, treeVars
<1>5. CASE ClearBackup(d)
  <2>1. job'[d].pc = "aside"
    BY <1>1, <1>5 DEF ClearBackup, importing
  <2> QED BY <1>5, <2>1 DEF ClearBackup, OnlyMoves, treeVars, TypeOK
<1>6. CASE MoveAside(d)
  <2>1. CASE Finish(d) /\ UNCHANGED <<dir, backup>>
    BY <1>2, <1>6, <2>1 DEF MoveAside, OnlyMoves, treeVars
  <2>2. CASE ~(Finish(d) /\ UNCHANGED <<dir, backup>>)
    <3>1. /\ backup' = [backup EXCEPT ![job[d].svc] = IF dir[job[d].svc] # None
                                                      THEN dir[job[d].svc] ELSE @]
          /\ dir' = [dir EXCEPT ![job[d].svc] = None]
          /\ job' = [job EXCEPT ![d].pc = "install", ![d].had = (dir[job[d].svc] # None)]
          /\ UNCHANGED staging
      BY <1>6, <2>2 DEF MoveAside
    <3>2. job'[d].pc = "install"
      BY <3>1, JobTypes DEF TypeOK, Job
    <3>3. OnlyMoves
      BY <3>1 DEF OnlyMoves, TypeOK
    <3> QED BY <1>6, <3>2, <3>3 DEF MoveAside, treeVars
  <2> QED BY <2>1, <2>2
<1>7. CASE Install(d)
  <2>1. CASE staging[job[d].svc] \in Dir /\ dir[job[d].svc] = None
    <3>1. job'[d].pc = "upsert"
      BY <1>1, <1>7, <2>1 DEF Install, importing
    <3>2. OnlyMoves
      BY <1>7, <2>1 DEF Install, OnlyMoves, TypeOK
    <3> QED BY <1>7, <3>1, <3>2 DEF Install, treeVars
  <2>2. CASE ~(staging[job[d].svc] \in Dir /\ dir[job[d].svc] = None)
    <3>1. Finish(d)
      BY <1>7, <2>2 DEF Install
    <3>2. OnlyMoves
      BY <1>2, <1>7, <2>2, <3>1 DEF Install, OnlyMoves, TypeOK
    <3> QED BY <1>2, <1>7, <3>1, <3>2 DEF Install, treeVars
  <2> QED BY <2>1, <2>2
<1>8. CASE UpsertService(d)
  <2>1. job'[d].pc = "cleanup"
    BY <1>1, <1>8 DEF UpsertService, importing
  <2> QED BY <1>8, <2>1 DEF UpsertService, OnlyMoves, diskVars, treeVars
<1>9. CASE UpsertFail(d)
  <2>1. job'[d].pc = "rollback"
    BY <1>1, <1>9 DEF UpsertFail, importing
  <2> QED BY <1>9, <2>1 DEF UpsertFail, OnlyMoves, diskVars, treeVars
<1>10. CASE Cleanup(d)
  BY <1>2, <1>10 DEF Cleanup, OnlyMoves, treeVars, TypeOK
<1>11. CASE RollbackRemove(d)
  <2>1. job'[d].pc = "restore"
    BY <1>1, <1>11 DEF RollbackRemove, importing
  <2> QED BY <1>11, <2>1 DEF RollbackRemove, OnlyMoves, treeVars, TypeOK
<1>12. CASE RollbackRestore(d)
  BY <1>2, <1>12 DEF RollbackRestore, restoreBackup, OnlyMoves, treeVars, TypeOK
<1> QED BY <1>3, <1>4, <1>5, <1>6, <1>7, <1>8, <1>9, <1>10, <1>11, <1>12 DEF ImportStep

\* The tree to link is in the store, whether it was built or found there.
LEMMA PrepareKeepsTrees ==
    ASSUME TypeOK, TypeOK', OneDaemon, TreesKept, NEW d \in Daemon, PrepareRuntime(d)
    PROVE  TreesKept'
<1>1. dir' = dir /\ backup' = backup /\ staging' = staging
  BY DEF PrepareRuntime, diskVars
<1>2. LinksOnlyMove
  BY <1>1 DEF LinksOnlyMove, LinksOf
<1>3. job'[d].pc = "stage" /\ job'[d].tree = job[d].tree /\ job[d].tree \in Tree \union {None}
  BY GotoJob, JobTypes DEF PrepareRuntime, pcs
<1>4. stored \subseteq stored'
  BY DEF PrepareRuntime, stored, TypeOK
<1>5. job[d].tree \in stored' \union {None}
  BY <1>3 DEF PrepareRuntime, stored, TypeOK
<1>6. \A e \in Daemon : e = d
  BY DEF OneDaemon
<1> QED BY <1>2, <1>3, <1>4, <1>5, <1>6, KeepTrees DEF At

\* The staged commit links the tree that was prepared.
LEMMA StageKeepsTrees ==
    ASSUME TypeOK, TypeOK', Control, OneDaemon, TreesKept, NEW d \in Daemon, StageCommit(d)
    PROVE  TreesKept'
<1> DEFINE s == job[d].svc
           c == [pkg |-> job[d].pkg, tree |-> job[d].tree, whole |-> TRUE]
<1>1. /\ staging' = [staging EXCEPT ![s] = c]
      /\ dir' = dir /\ backup' = backup /\ trees' = trees
      /\ job[d].pc = "stage" /\ Goto(d, "clear")
  BY DEF StageCommit, At, treeVars
<1>2. c \in Dir /\ c.tree \in stored \union {None}
  BY <1>1, JobTypes DEF Dir, TreesKept, At, Control, Disciplined, Importing, importing
<1> HIDE DEF c
<1>3. stored' = stored
  BY <1>1 DEF stored
<1>4. Links(c) \subseteq stored
  BY <1>2, LinkFacts
<1>5. referencedSharedTrees' \subseteq stored'
  <2> SUFFICES ASSUME NEW t, t \in referencedSharedTrees' PROVE t \in stored'
    OBVIOUS
  <2>1. PICK r \in Service : t \in LinksOf(r)'
    BY Referenced
  <2>2. staging'[r] = staging[r] \/ staging'[r] = c
    BY <1>1 DEF TypeOK
  <2>3. t \in LinksOf(r) \/ t \in Links(c)
    BY <1>1, <2>1, <2>2 DEF LinksOf
  <2> QED BY <1>3, <1>4, <2>3, Referenced, HoldStored DEF TreesKept
<1>6. job'[d].pc = "clear" /\ \A e \in Daemon : e = d
  BY <1>1, GotoJob DEF pcs, OneDaemon
<1> QED BY <1>5, <1>6, HoldStored DEF TreesKept, At

\* Every step of an import.
LEMMA ImportKeepsTrees ==
    ASSUME TypeOK, TypeOK', Control, OneDaemon, TreesKept, NEW d \in Daemon, ImportStep(d)
    PROVE  TreesKept'
<1>1. CASE PrepareRuntime(d)
  BY <1>1, PrepareKeepsTrees
<1>2. CASE StageCommit(d)
  BY <1>2, StageKeepsTrees
<1>3. CASE ~PrepareRuntime(d) /\ ~StageCommit(d)
  <2>1. OnlyMoves /\ trees' = trees /\ job'[d].pc \notin {"stage", "sweep"}
    BY <1>3, ImportMoves
  <2>2. LinksOnlyMove
    BY <2>1, MovesLinks
  <2>3. \A e \in Daemon : e = d
    BY DEF OneDaemon
  <2> QED BY <2>1, <2>2, <2>3, KeepTrees DEF At, stored
<1> QED BY <1>1, <1>2, <1>3

\* The sweep removes what nothing links, and nothing is linked meanwhile.
LEMMA RecoveryKeepsTrees ==
    ASSUME TypeOK, TypeOK', Control, OneDaemon, TreesKept, NEW d \in Daemon, RecoveryStep(d)
    PROVE  TreesKept'
<1>0. \A e \in Daemon : e = d
  BY DEF OneDaemon
<1>1. CASE \E r \in Service : RecoverService(d, r)
  <2>1. PICK r \in Service : RecoverService(d, r)
    BY <1>1
  <2>2. PICK pc \in {"undo", "discard"} :
          job' = [job EXCEPT ![d].pc = pc, ![d].svc = r, ![d].todo = @ \ {r}]
    BY <2>1 DEF RecoverService
  <2>3. job'[d].pc = pc
    BY <2>2, JobTypes DEF TypeOK, Job
  <2>4. dir' = dir /\ backup' = backup /\ staging' = staging /\ trees' = trees
    BY <2>1 DEF RecoverService, diskVars, treeVars
  <2>5. LinksOnlyMove
    BY <2>4 DEF LinksOnlyMove, LinksOf
  <2> QED BY <1>0, <2>3, <2>4, <2>5, KeepTrees DEF At, stored
<1>2. CASE DiscardBackup(d) \/ RecoverRemove(d) \/ RecoverRename(d)
  <2>1. trees' = trees /\ (Goto(d, "scan") \/ Goto(d, "redo"))
    BY <1>2 DEF DiscardBackup, RecoverRemove, RecoverRename, treeVars
  <2>2. job'[d].pc \in {"scan", "redo"}
    BY <2>1, GotoJob DEF pcs
  <2>3. OnlyMoves
    <3>1. CASE DiscardBackup(d)
      BY <3>1 DEF DiscardBackup, OnlyMoves, TypeOK
    <3>2. CASE RecoverRemove(d)
      BY <3>2 DEF RecoverRemove, OnlyMoves, TypeOK
    <3>3. CASE RecoverRename(d)
      BY <3>3 DEF RecoverRename, restoreBackup, OnlyMoves, TypeOK
    <3> QED BY <1>2, <3>1, <3>2, <3>3
  <2>4. LinksOnlyMove
    BY <2>3, MovesLinks
  <2> QED BY <1>0, <2>1, <2>2, <2>4, KeepTrees DEF At, stored
<1>3. CASE SweepWalk(d)
  <2>1. dir' = dir /\ backup' = backup /\ staging' = staging /\ trees' = trees
    BY <1>3 DEF SweepWalk, diskVars, treeVars
  <2>2. /\ job'[d].pc = "sweep" /\ job'[d].cand = stored \ referencedSharedTrees
    BY <1>3 DEF SweepWalk, TypeOK, Idle
  <2>3. referencedSharedTrees' = referencedSharedTrees /\ stored' = stored
    BY <2>1 DEF referencedSharedTrees, stored
  <2>4. LinksHold'
    BY <2>3, HoldStored DEF TreesKept
  <2> QED BY <1>0, <2>2, <2>3, <2>4 DEF TreesKept, At
<1>4. CASE SweepDone(d)
  <2>1. dir' = dir /\ backup' = backup /\ staging' = staging /\ trees' = trees
    BY <1>4 DEF SweepDone, diskVars, treeVars
  <2>2. job'[d].pc = "idle"
    BY <1>4, IdleJob DEF SweepDone, TypeOK
  <2>3. LinksOnlyMove
    BY <2>1 DEF LinksOnlyMove, LinksOf
  <2> QED BY <1>0, <2>1, <2>2, <2>3, KeepTrees DEF At, stored
<1>5. CASE \E t \in Tree : SweepRemove(d, t)
  <2>1. PICK t \in Tree : SweepRemove(d, t)
    BY <1>5
  <2>2. /\ dir' = dir /\ backup' = backup /\ staging' = staging
        /\ trees' = [trees EXCEPT ![t] = "none"] /\ job[d].pc = "sweep" /\ t \in job[d].cand
    BY <2>1 DEF SweepRemove, diskVars, At
  <2>3. job'[d].pc = "sweep" /\ job'[d].cand = job[d].cand \ {t}
    BY <2>1, JobTypes DEF SweepRemove, At, TypeOK, Job
  <2>4. referencedSharedTrees' = referencedSharedTrees /\ stored' = stored \ {t}
    BY <2>2 DEF referencedSharedTrees, stored, TypeOK
  <2>5. job[d].cand \intersect referencedSharedTrees = {}
    BY <2>2 DEF TreesKept, At
  <2>6. LinksHold'
    BY <2>2, <2>4, <2>5, HoldStored DEF TreesKept
  <2> QED BY <1>0, <2>3, <2>4, <2>5, <2>6 DEF TreesKept, At
<1> QED BY <1>1, <1>2, <1>3, <1>4, <1>5 DEF RecoveryStep

\* Calls and the life of the daemon link nothing and collect nothing.
LEMMA OthersKeepTrees ==
    ASSUME TypeOK, TypeOK', Control, OneDaemon, TreesKept, NEW d \in Daemon,
           \/ \E s \in Service, p \in Package, t \in Tree \union {None} : BeginImport(d, s, p, t)
           \/ \E s \in Service : DeleteService(d, s)
           \/ DeleteDir(d)
           \/ Boot(d) \/ Drain(d) \/ Stop(d) \/ crash(d)
    PROVE  TreesKept'
<1>0. \A e \in Daemon : e = d
  BY DEF OneDaemon
<1>1. CASE \E s \in Service, p \in Package, t \in Tree \union {None} : BeginImport(d, s, p, t)
  <2>1. PICK s \in Service, p \in Package, t \in Tree \union {None} : BeginImport(d, s, p, t)
    BY <1>1
  <2>2. OnlyMoves /\ trees' = trees
    BY <2>1 DEF BeginImport, OnlyMoves, treeVars, TypeOK
  <2>3. job'[d].pc = "tree"
    BY <2>1 DEF BeginImport, Idle, TypeOK
  <2>4. LinksOnlyMove
    BY <2>2, MovesLinks
  <2> QED BY <1>0, <2>2, <2>3, <2>4, KeepTrees DEF At, stored
<1>2. CASE (\E s \in Service : DeleteService(d, s)) \/ DeleteDir(d) \/ Drain(d) \/ Stop(d)
  <2>1. job' = job /\ trees' = trees /\ UNCHANGED <<backup, staging>>
    BY <1>2 DEF DeleteService, DeleteDir, Drain, Stop, diskVars, treeVars
  <2>2. OnlyMoves
    <3>1. CASE DeleteDir(d)
      BY <2>1, <3>1 DEF DeleteDir, OnlyMoves, TypeOK
    <3>2. CASE ~DeleteDir(d)
      <4>1. dir' = dir
        BY <1>2, <3>2 DEF DeleteService, Drain, Stop, diskVars
      <4> QED BY <2>1, <4>1 DEF OnlyMoves
    <3> QED BY <3>1, <3>2
  <2>3. LinksOnlyMove
    BY <2>2, MovesLinks
  <2>4. \A e \in Daemon : At(e, "stage") => job[e].tree \in stored \union {None}
    BY DEF TreesKept
  <2> QED BY <2>1, <2>3, <2>4, KeepTrees DEF At, stored
<1>3. CASE Boot(d)
  <2>1. job'[d].pc = "scan"
    BY <1>3 DEF Boot, Idle, TypeOK
  <2>2. OnlyMoves /\ trees' = trees
    BY <1>3 DEF Boot, OnlyMoves, treeVars
  <2>3. LinksOnlyMove
    BY <2>2, MovesLinks
  <2> QED BY <1>0, <2>1, <2>2, <2>3, KeepTrees DEF At, stored
<1>4. CASE crash(d)
  <2>1. job'[d].pc = "idle"
    BY <1>4, IdleJob DEF crash, Crash, CrashInDir, CrashInBackup, CrashInTree, Die, TypeOK
  <2>2. stored \subseteq stored'
    BY <1>4 DEF crash, Crash, CrashInDir, CrashInBackup, CrashInTree, treeVars, stored, TypeOK
  <2>3. LinksOnlyMove
    <3>1. CASE dir' = dir /\ backup' = backup /\ staging' = staging
      BY <3>1 DEF LinksOnlyMove, LinksOf
    <3>2. CASE CrashInDir(d)
      <4>1. PICK s \in Service : dir[s] # None /\ dir' = [dir EXCEPT ![s].whole = FALSE]
        BY <3>2 DEF CrashInDir, TypeOK, Job
      <4>2. dir[s] \in Dir
        BY <4>1, DirTypes
      <4> DEFINE c == [dir[s] EXCEPT !.whole = FALSE]
      <4>3. c \in Dir /\ c.tree = dir[s].tree
        BY <4>2 DEF Dir
      <4>4. dir' = [dir EXCEPT ![s] = c] /\ backup' = backup /\ staging' = staging
        BY <3>2, <4>1 DEF CrashInDir, TypeOK
      <4> HIDE DEF c
      <4>5. Links(c) = Links(dir[s])
        BY <4>2, <4>3, LinkFacts
      <4> QED BY <4>4, <4>5 DEF LinksOnlyMove, LinksOf, TypeOK
    <3>3. CASE CrashInBackup(d)
      <4>1. PICK s \in Service : backup[s] # None /\ backup' = [backup EXCEPT ![s].whole = FALSE]
        BY <3>3 DEF CrashInBackup, Control, Disciplined, Importing, importing
      <4>2. backup[s] \in Dir
        BY <4>1, DirTypes
      <4> DEFINE c == [backup[s] EXCEPT !.whole = FALSE]
      <4>3. c \in Dir /\ c.tree = backup[s].tree
        BY <4>2 DEF Dir
      <4>4. backup' = [backup EXCEPT ![s] = c] /\ dir' = dir /\ staging' = staging
        BY <3>3, <4>1 DEF CrashInBackup, TypeOK
      <4> HIDE DEF c
      <4>5. Links(c) = Links(backup[s])
        BY <4>2, <4>3, LinkFacts
      <4> QED BY <4>4, <4>5 DEF LinksOnlyMove, LinksOf, TypeOK
    <3> QED BY <1>4, <3>1, <3>2, <3>3 DEF crash, Crash, CrashInTree, diskVars
  <2> QED BY <1>0, <2>1, <2>2, <2>3, KeepTrees DEF At
<1> QED BY <1>1, <1>2, <1>3, <1>4

\* The inductive step of the links.
LEMMA NextTrees ==
    ASSUME TypeOK, Control, OneDaemon, TreesKept, [Next]_vars
    PROVE  TreesKept'
<1>0. TypeOK'
  BY NextTypes
<1>1. CASE UNCHANGED <<dir, backup, staging, trees, job>>
  <2>1. LinksOnlyMove
    BY <1>1 DEF LinksOnlyMove, LinksOf
  <2>2. \A e \in Daemon : At(e, "stage") => job[e].tree \in stored \union {None}
    BY DEF TreesKept
  <2> QED BY <1>0, <1>1, <2>1, <2>2, KeepTrees DEF At, stored
<1>2. CASE UNCHANGED vars \/ \E t \in Tree : Age(t)
  BY <1>1, <1>2 DEF vars, diskVars, treeVars, Age
<1>3. ASSUME NEW d \in Daemon, ImportStep(d) PROVE TreesKept'
  BY <1>0, <1>3, ImportKeepsTrees
<1>4. ASSUME NEW d \in Daemon, RecoveryStep(d) PROVE TreesKept'
  BY <1>0, <1>4, RecoveryKeepsTrees
<1>5. ASSUME NEW d \in Daemon,
             \/ \E s \in Service, p \in Package, t \in Tree \union {None} : BeginImport(d, s, p, t)
             \/ \E s \in Service : DeleteService(d, s)
             \/ DeleteDir(d)
             \/ Boot(d) \/ Drain(d) \/ Stop(d) \/ crash(d)
      PROVE  TreesKept'
  BY <1>0, <1>5, OthersKeepTrees
<1> QED BY <1>2, <1>3, <1>4, <1>5, Steps

\* As long as one daemon at a time uses the data directory, no service directory,
\* backup or staged commit ever links to a tree the sweep has collected, through
\* crashes, removals cut short and deletes that race imports.
THEOREM CollectedTreesAreUnlinked == ASSUME OneDaemon PROVE Spec => []LinksHold
<1>1. Init => TreesKept
  BY IdleJob, LinkFacts DEF Init, TreesKept, LinksHold, referencedSharedTrees, At
<1>2. TypeOK /\ Control /\ TreesKept /\ [Next]_vars => (TypeOK /\ Control /\ TreesKept)'
  BY NextTypes, NextTrees
<1>3. TreesKept => LinksHold
  BY DEF TreesKept
<1> QED BY <1>1, <1>2, <1>3, InitTypes, PTL DEF Spec

-----------------------------------------------------------------------------
(* Versions                                                                 *)

\* Removals are not cut short, and no service is deleted while it is imported.
Orderly == "torn" \notin Faults /\ "race" \notin Faults

\* Directories that are whole stay whole when they are only moved.
LEMMA MovesKeepWhole ==
    ASSUME TypeOK', OnlyMoves, AllWhole
    PROVE  AllWhole'
<1> SUFFICES ASSUME NEW s \in Service
             PROVE  /\ dir'[s] # None => dir'[s].whole
                    /\ backup'[s] # None => backup'[s].whole
                    /\ staging'[s] \in Dir => staging'[s].whole
  BY DEF AllWhole
<1>1. dir'[s] \in Dir \union {None}
  BY DEF TypeOK
<1> QED BY <1>1, DirAssumption DEF OnlyMoves, AllWhole

\* A service the step of d does not touch.
Untouched(d, s) ==
    /\ row'[s] = row[s] /\ dir'[s] = dir[s] /\ backup'[s] = backup[s]
    /\ ~WorksOn(d, s) /\ ~WorksOn(d, s)'
    /\ s \in job'[d].todo <=> s \in job[d].todo
    /\ s \in job[d].todo => daemon'[d] = "recovering"
    /\ deleting'[d] = s => deleting[d] = s

\* What is untouched is as well kept as before.
LEMMA UntouchedKept ==
    ASSUME OneDaemon, VersionKept, NEW d \in Daemon, NEW s \in Service, Untouched(d, s),
           daemon'[d] # "off" => daemon[d] # "off"
    PROVE  (Live(s) \/ Saved(s))' /\ \A e \in Daemon : Kept(e, s)'
<1>1. Kept(d, s) /\ (Live(s) \/ Saved(s))
  BY DEF VersionKept
<1>2. (Live(s) <=> Live(s)') /\ (Saved(s) <=> Saved(s)') /\ (Decided(s) <=> Decided(s)')
  BY DEF Live, Saved, Decided, Untouched
<1>3. Kept(d, s)'
  BY <1>1, <1>2 DEF Kept, Untouched
<1>4. \A e \in Daemon : e = d
  BY DEF OneDaemon
<1> QED BY <1>1, <1>2, <1>3, <1>4

\* What an import knows of its service.
LEMMA ImportKnows ==
    ASSUME TypeOK, Control, VersionKept, NEW d \in Daemon, Importing(d)
    PROVE  LET s == job[d].svc
           IN  /\ s \in Service /\ job[d].pkg \in Package
               /\ daemon[d] \in {"up", "draining"} /\ job[d].todo = {} /\ deleting[d] # s
               /\ WorksOn(d, s) /\ CommitAt(d, s) /\ (Live(s) \/ Saved(s))
<1> DEFINE s == job[d].svc
<1>1. s \in Service /\ job[d].pkg \in Package /\ daemon[d] \in {"up", "draining"}
  BY DEF Control, Disciplined, Serving
<1>2. WorksOn(d, s)
  BY DEF WorksOn, At, Importing, importing
<1>3. \A r \in Service : Kept(d, r)
  BY DEF VersionKept
<1>4. job[d].todo = {}
  BY <1>1, <1>3, JobTypes DEF Kept
<1> QED BY <1>1, <1>2, <1>3, <1>4 DEF Kept, VersionKept

\* A step of an import that leaves the other services alone and its own where
\* the next step, or the next import, expects it.
LEMMA ImportStepKept ==
    ASSUME TypeOK, Control, OneDaemon, VersionKept, NEW d \in Daemon, Importing(d),
           UNCHANGED <<daemon, deleting>>,
           NEW s \in Service, s = job[d].svc,
           \A r \in Service : r # s => /\ row'[r] = row[r] /\ dir'[r] = dir[r]
                                       /\ backup'[r] = backup[r],
           \/ job'[d] = Idle /\ Decided(s)'
           \/ WorksOn(d, s)' /\ job'[d].todo = job[d].todo /\ CommitAt(d, s)',
           Live(s)' \/ Saved(s)'
    PROVE  VersionKept'
<1>1. /\ daemon[d] \in {"up", "draining"} /\ job[d].todo = {} /\ deleting[d] # s
  BY ImportKnows
<1>2. ASSUME NEW r \in Service, r # s
      PROVE  (Live(r) \/ Saved(r))' /\ \A e \in Daemon : Kept(e, r)'
  <2>1. Untouched(d, r)
    <3>1. ~WorksOn(d, r) /\ ~WorksOn(d, r)'
      BY <1>2, IdleJob, NoneAssumption DEF WorksOn
    <3> QED BY <1>1, <1>2, <3>1, IdleJob DEF Untouched
  <2> QED BY <2>1, UntouchedKept
<1>3. Kept(d, s)'
  <2>1. CASE job'[d] = Idle /\ Decided(s)'
    BY <1>1, <2>1, IdleJob, NoneAssumption DEF Kept, WorksOn
  <2>2. CASE WorksOn(d, s)' /\ job'[d].todo = job[d].todo /\ CommitAt(d, s)'
    <3>1. s \notin job'[d].todo /\ deleting'[d] # s
      BY <1>1, <2>2
    <3> QED BY <2>2, <3>1 DEF Kept
  <2> QED BY <2>1, <2>2
<1>4. \A e \in Daemon : e = d
  BY DEF OneDaemon
<1> QED BY <1>2, <1>3, <1>4 DEF VersionKept

\* Every step of an import keeps directories whole.
LEMMA ImportKeepsWhole ==
    ASSUME TypeOK, TypeOK', Control, AllWhole, NEW d \in Daemon, ImportStep(d)
    PROVE  AllWhole'
<1>1. CASE StageCommit(d)
  <2> DEFINE c == [pkg |-> job[d].pkg, tree |-> job[d].tree, whole |-> TRUE]
  <2>1. staging' = [staging EXCEPT ![job[d].svc] = c] /\ dir' = dir /\ backup' = backup
    BY <1>1 DEF StageCommit
  <2>2. c.whole
    OBVIOUS
  <2> HIDE DEF c
  <2> QED BY <2>1, <2>2 DEF AllWhole, TypeOK
<1>2. CASE ~StageCommit(d)
  BY <1>2, ImportMoves, MovesKeepWhole
<1> QED BY <1>1, <1>2

\* Every step of an import keeps the version of the service it imports.
LEMMA ImportKeepsVersions ==
    ASSUME TypeOK, TypeOK', Control, OneDaemon, VersionKept, NEW d \in Daemon, ImportStep(d)
    PROVE  VersionKept'
<1>1. Importing(d)
  BY DEF ImportStep, PrepareRuntime, StageCommit, ImportFail, ClearBackup, MoveAside, Install,
         UpsertService, UpsertFail, Cleanup, RollbackRemove, RollbackRestore, At, Importing,
         importing
<1>0. PICK s \in Service : s = job[d].svc
  BY <1>1, ImportKnows
<1>2. /\ s \in Service /\ job[d].pkg \in Package
      /\ WorksOn(d, s) /\ CommitAt(d, s) /\ (Live(s) \/ Saved(s))
  BY <1>0, <1>1, ImportKnows
<1>3. UNCHANGED <<daemon, deleting>>
  BY DEF ImportStep, PrepareRuntime, StageCommit, ImportFail, ClearBackup, MoveAside, Install,
         UpsertService, UpsertFail, Cleanup, RollbackRemove, RollbackRestore
<1>4. ASSUME NEW pc \in importing, Goto(d, pc)
      PROVE  /\ WorksOn(d, s)' /\ job'[d].pc = pc /\ job'[d].pkg = job[d].pkg
             /\ job'[d].todo = job[d].todo /\ job'[d].had = job[d].had
  BY <1>0, <1>2, <1>4, GotoJob DEF importing, pcs, WorksOn, At
<1>5. ASSUME Finish(d) PROVE job'[d] = Idle
  BY <1>5 DEF Finish, TypeOK
<1>6. /\ row \in [Service -> Package \union {None}]
      /\ dir \in [Service -> Dir \union {None}] /\ backup \in [Service -> Dir \union {None}]
      /\ staging \in [Service -> Dir \union {Work, None}]
  BY DEF TypeOK
<1>7. CASE PrepareRuntime(d)
  <2>1. job[d].pc = "tree" /\ Goto(d, "stage") /\ UNCHANGED <<row, dir, backup>>
    BY <1>7 DEF PrepareRuntime, At, diskVars
  <2>2. job'[d].pc = "stage"
    BY <1>4, <2>1 DEF importing
  <2>3. Decided(s)'
    BY <1>2, <2>1 DEF CommitAt, Decided, Live
  <2>4. CommitAt(d, s)'
    BY <2>2, <2>3 DEF CommitAt
  <2> QED BY <1>0, <1>1, <1>2, <1>3, <1>4, <2>1, <2>3, <2>4, ImportStepKept DEF importing, Decided
<1>8. CASE StageCommit(d)
  <2> DEFINE c == [pkg |-> job[d].pkg, tree |-> job[d].tree, whole |-> TRUE]
  <2>1. /\ job[d].pc = "stage" /\ Goto(d, "clear") /\ UNCHANGED <<row, dir, backup>>
        /\ staging' = [staging EXCEPT ![s] = c]
    BY <1>0, <1>8 DEF StageCommit, At
  <2>2. c.pkg = job[d].pkg /\ c \in Dir
    BY <1>2, JobTypes DEF Dir
  <2> HIDE DEF c
  <2>3. job'[d].pc = "clear" /\ job'[d].pkg = job[d].pkg
    BY <1>4, <2>1 DEF importing
  <2>4. Decided(s)'
    BY <1>2, <2>1 DEF CommitAt, Decided, Live
  <2>5. staging'[s] \in Dir /\ staging'[s].pkg = job'[d].pkg
    BY <1>2, <1>6, <2>1, <2>2, <2>3
  <2>6. CommitAt(d, s)'
    BY <2>3, <2>4, <2>5 DEF CommitAt
  <2> QED BY <1>0, <1>1, <1>2, <1>3, <1>4, <2>1, <2>4, <2>6, ImportStepKept DEF importing, Decided
<1>9. CASE ImportFail(d)
  <2>1. /\ job[d].pc \in {"tree", "stage", "clear"} /\ Finish(d)
        /\ UNCHANGED <<row, dir, backup>>
    BY <1>9 DEF ImportFail
  <2>2. Decided(s)'
    BY <1>2, <2>1 DEF CommitAt, Decided, Live
  <2> QED BY <1>0, <1>1, <1>2, <1>3, <1>5, <2>1, <2>2, ImportStepKept DEF Decided
<1>10. CASE ClearBackup(d)
  <2>1. /\ job[d].pc = "clear" /\ Goto(d, "aside") /\ UNCHANGED <<row, dir, staging>>
        /\ backup' = [backup EXCEPT ![s] = None]
    BY <1>0, <1>10 DEF ClearBackup, At
  <2>2. job'[d].pc = "aside" /\ job'[d].pkg = job[d].pkg
    BY <1>4, <2>1 DEF importing
  <2>3. Decided(s)'
    BY <1>2, <1>6, <2>1 DEF CommitAt, Decided, Live
  <2>4. CommitAt(d, s)'
    BY <1>2, <2>1, <2>2, <2>3 DEF CommitAt
  <2> QED BY <1>0, <1>1, <1>2, <1>3, <1>4, <1>6, <2>1, <2>3, <2>4, ImportStepKept
          DEF importing, Decided
<1>11. CASE MoveAside(d)
  <2>1. job[d].pc = "aside" /\ row' = row
    BY <1>11 DEF MoveAside, At
  <2>2. backup[s] = None /\ Live(s) /\ staging[s] \in Dir /\ staging[s].pkg = job[d].pkg
    BY <1>2, <2>1 DEF CommitAt, Decided
  <2>3. /\ backup' = [backup EXCEPT ![s] = IF dir[s] # None THEN dir[s] ELSE @]
        /\ dir' = [dir EXCEPT ![s] = None] /\ staging' = staging
        /\ job' = [job EXCEPT ![d].pc = "install", ![d].had = (dir[s] # None)]
    BY <1>0, <1>11, <2>2 DEF MoveAside
  <2>4. /\ job'[d].pc = "install" /\ job'[d].svc = s /\ job'[d].pkg = job[d].pkg
        /\ job'[d].todo = job[d].todo /\ job'[d].had = (dir[s] # None)
    BY <1>0, <2>3, JobTypes DEF TypeOK, Job
  <2>5. dir'[s] = None
    BY <1>6, <2>3
  <2>6. backup'[s] = dir[s]
    BY <1>6, <2>2, <2>3
  <2>7. Saved(s)'
    BY <2>1, <2>2, <2>6 DEF Live, Saved
  <2>8. CommitAt(d, s)'
    BY <2>2, <2>3, <2>4, <2>5, <2>6, <2>7 DEF CommitAt
  <2>9. WorksOn(d, s)'
    BY <2>4 DEF WorksOn, At
  <2> QED BY <1>0, <1>1, <1>2, <1>3, <1>6, <2>1, <2>3, <2>4, <2>7, <2>8, <2>9, ImportStepKept
<1>12. CASE Install(d)
  <2>1. job[d].pc = "install" /\ row' = row
    BY <1>12 DEF Install, At
  <2>2. /\ Saved(s) /\ dir[s] = None /\ (job[d].had <=> backup[s] # None)
        /\ staging[s] \in Dir /\ staging[s].pkg = job[d].pkg
    BY <1>2, <2>1 DEF CommitAt
  <2>3. dir' = [dir EXCEPT ![s] = staging[s]] /\ Goto(d, "upsert") /\ backup' = backup
    BY <1>0, <1>12, <2>2 DEF Install
  <2>4. job'[d].pc = "upsert" /\ job'[d].pkg = job[d].pkg /\ job'[d].had = job[d].had
    BY <1>4, <2>3 DEF importing
  <2>5. dir'[s] # None /\ dir'[s].pkg = job'[d].pkg
    BY <1>2, <1>6, <2>2, <2>3, <2>4, DirAssumption
  <2>6. Saved(s)'
    BY <2>1, <2>2, <2>3 DEF Saved
  <2>7. CommitAt(d, s)'
    BY <2>2, <2>3, <2>4, <2>5, <2>6 DEF CommitAt
  <2> QED BY <1>0, <1>1, <1>2, <1>3, <1>4, <1>6, <2>1, <2>3, <2>6, <2>7, ImportStepKept
          DEF importing
<1>13. CASE UpsertService(d)
  <2>1. /\ job[d].pc = "upsert" /\ row' = [row EXCEPT ![s] = job[d].pkg] /\ Goto(d, "cleanup")
        /\ dir' = dir /\ backup' = backup
    BY <1>0, <1>13 DEF UpsertService, At, diskVars
  <2>2. dir'[s] # None /\ dir'[s].pkg = row'[s]
    BY <1>2, <1>6, <2>1 DEF CommitAt
  <2>3. job'[d].pc = "cleanup"
    BY <1>4, <2>1 DEF importing
  <2>4. Live(s)' /\ CommitAt(d, s)'
    BY <2>2, <2>3 DEF Live, CommitAt
  <2> QED BY <1>0, <1>1, <1>2, <1>3, <1>4, <1>6, <2>1, <2>4, ImportStepKept DEF importing
<1>14. CASE UpsertFail(d)
  <2>1. /\ job[d].pc = "upsert" /\ Goto(d, "rollback")
        /\ row' = row /\ dir' = dir /\ backup' = backup
    BY <1>14 DEF UpsertFail, At, diskVars
  <2>2. job'[d].pc = "rollback" /\ job'[d].had = job[d].had
    BY <1>4, <2>1 DEF importing
  <2>3. Saved(s)' /\ CommitAt(d, s)'
    BY <1>2, <2>1, <2>2 DEF Saved, CommitAt
  <2> QED BY <1>0, <1>1, <1>2, <1>3, <1>4, <2>1, <2>3, ImportStepKept DEF importing
<1>15. CASE Cleanup(d)
  <2>1. /\ job[d].pc = "cleanup" /\ Finish(d) /\ backup' = [backup EXCEPT ![s] = None]
        /\ row' = row /\ dir' = dir
    BY <1>0, <1>15 DEF Cleanup, At
  <2>2. Decided(s)'
    BY <1>2, <1>6, <2>1 DEF CommitAt, Decided, Live
  <2> QED BY <1>0, <1>1, <1>2, <1>3, <1>5, <1>6, <2>1, <2>2, ImportStepKept DEF Decided
<1>16. CASE RollbackRemove(d)
  <2>1. /\ job[d].pc = "rollback" /\ Goto(d, "restore") /\ dir' = [dir EXCEPT ![s] = None]
        /\ row' = row /\ backup' = backup
    BY <1>0, <1>16 DEF RollbackRemove, At
  <2>2. job'[d].pc = "restore" /\ job'[d].had = job[d].had
    BY <1>4, <2>1 DEF importing
  <2>3. Saved(s)' /\ CommitAt(d, s)'
    BY <1>2, <1>6, <2>1, <2>2 DEF Saved, CommitAt
  <2> QED BY <1>0, <1>1, <1>2, <1>3, <1>4, <1>6, <2>1, <2>3, ImportStepKept DEF importing
<1>17. CASE RollbackRestore(d)
  <2>1. job[d].pc = "restore" /\ Finish(d) /\ row' = row
    BY <1>17 DEF RollbackRestore, At
  <2>2. Saved(s) /\ dir[s] = None /\ (job[d].had <=> backup[s] # None)
    BY <1>2, <2>1 DEF CommitAt
  <2>3. \/ /\ dir' = [dir EXCEPT ![s] = backup[s]] /\ backup' = [backup EXCEPT ![s] = None]
           /\ job[d].had
        \/ ~job[d].had /\ UNCHANGED <<dir, backup>>
    BY <1>0, <1>17, <2>2 DEF RollbackRestore, restoreBackup
  <2>4. dir'[s] = backup[s] /\ backup'[s] = None
    BY <1>2, <1>6, <2>2, <2>3
  <2>5. Decided(s)'
    BY <2>1, <2>2, <2>4 DEF Decided, Live, Saved
  <2> QED BY <1>0, <1>1, <1>2, <1>3, <1>5, <1>6, <2>1, <2>3, <2>5, ImportStepKept DEF Decided
<1> QED BY <1>7, <1>8, <1>9, <1>10, <1>11, <1>12, <1>13, <1>14, <1>15, <1>16, <1>17 DEF ImportStep

\* A step of a recovery on service s.
LEMMA RecoveryStepKept ==
    ASSUME TypeOK, Control, OneDaemon, VersionKept, NEW d \in Daemon, NEW s \in Service,
           daemon[d] = "recovering", UNCHANGED <<row, daemon, deleting>>,
           \A r \in Service : r # s =>
               /\ dir'[r] = dir[r] /\ backup'[r] = backup[r]
               /\ r \in job'[d].todo <=> r \in job[d].todo
               /\ ~WorksOn(d, r) /\ ~WorksOn(d, r)',
           s \notin job'[d].todo,
           \/ ~WorksOn(d, s)' /\ Decided(s)'
           \/ WorksOn(d, s)' /\ CommitAt(d, s)',
           Live(s)' \/ Saved(s)'
    PROVE  VersionKept'
<1>1. \A e \in Daemon : e = d
  BY DEF OneDaemon
<1>2. ASSUME NEW r \in Service, r # s
      PROVE  (Live(r) \/ Saved(r))' /\ \A e \in Daemon : Kept(e, r)'
  <2>1. Untouched(d, r)
    BY <1>2 DEF Untouched
  <2> QED BY <2>1, UntouchedKept
<1>3. deleting'[d] # s
  BY NoneAssumption DEF Control, Disciplined, Serving
<1>4. Kept(d, s)'
  BY <1>3 DEF Kept
<1> QED BY <1>1, <1>2, <1>4 DEF VersionKept

\* The row decides a commit that was interrupted.
LEMMA RowDecides ==
    ASSUME TypeOK, AllWhole, NEW s \in Service, NEW intact \in BOOLEAN, Live(s) \/ Saved(s)
    PROVE  /\ needsRollback(s, intact) => Saved(s)
           /\ ~needsRollback(s, intact) => Live(s)
BY DEF AllWhole, needsRollback, Live, Saved

\* Every step of a recovery and of a sweep.
LEMMA RecoveryKeepsVersions ==
    ASSUME TypeOK, Control, OneDaemon, AllWhole, VersionKept, NEW d \in Daemon, RecoveryStep(d)
    PROVE  VersionKept'
<1>1. \A r \in Service : Kept(d, r) /\ (Live(r) \/ Saved(r))
  BY DEF VersionKept
<1>2. UNCHANGED <<row, deleting>>
  BY DEF RecoveryStep, RecoverService, DiscardBackup, RecoverRemove, RecoverRename, SweepWalk,
         SweepDone, SweepRemove
<1>3. \A e \in Daemon : e = d
  BY DEF OneDaemon
<1>4. CASE \E s \in Service : RecoverService(d, s)
  <2>1. PICK s \in Service : RecoverService(d, s)
    BY <1>4
  <2>2. PICK intact \in BOOLEAN :
          job' = [job EXCEPT ![d].pc = IF needsRollback(s, intact) THEN "undo" ELSE "discard",
                             ![d].svc = s, ![d].todo = @ \ {s}]
    BY <2>1 DEF RecoverService
  <2>3. /\ job'[d].pc = IF needsRollback(s, intact) THEN "undo" ELSE "discard"
        /\ job'[d].svc = s /\ job'[d].todo = job[d].todo \ {s}
    BY <2>2, JobTypes DEF TypeOK, Job
  <2>4. /\ s \in job[d].todo /\ job[d].pc = "scan" /\ daemon' = daemon
        /\ dir' = dir /\ backup' = backup
    BY <2>1 DEF RecoverService, At, diskVars
  <2>5. daemon[d] = "recovering" /\ backup[s] # None
    BY <1>1, <2>4 DEF Kept
  <2>6. /\ Live(s)' <=> Live(s)
        /\ Saved(s)' <=> Saved(s)
    BY <1>2, <2>4 DEF Live, Saved
  <2>7. CommitAt(d, s)'
    BY <1>1, <2>3, <2>4, <2>5, <2>6, RowDecides DEF CommitAt
  <2>8. WorksOn(d, s)' /\ \A r \in Service : r # s => ~WorksOn(d, r) /\ ~WorksOn(d, r)'
    BY <2>3, <2>4 DEF WorksOn, At
  <2> QED BY <1>1, <1>2, <2>3, <2>4, <2>5, <2>6, <2>7, <2>8, RecoveryStepKept
<1>5. ASSUME job[d].pc \in {"discard", "undo", "redo"}
      PROVE  /\ daemon[d] = "recovering"
             /\ \E s \in Service :
                   /\ s = job[d].svc /\ WorksOn(d, s) /\ CommitAt(d, s) /\ s \notin job[d].todo
                   /\ \A r \in Service : r # s => ~WorksOn(d, r)
  <2>1. daemon[d] = "recovering" /\ job[d].svc \in Service
    BY <1>5 DEF Control, Disciplined
  <2> QED BY <1>1, <1>5, <2>1 DEF WorksOn, At, Kept
<1>6. CASE DiscardBackup(d)
  <2>1. job[d].pc = "discard" /\ Goto(d, "scan") /\ dir' = dir /\ daemon' = daemon
    BY <1>6 DEF DiscardBackup, At
  <2>2. PICK s \in Service :
          /\ s = job[d].svc /\ WorksOn(d, s) /\ CommitAt(d, s) /\ s \notin job[d].todo
          /\ \A r \in Service : r # s => ~WorksOn(d, r)
    BY <1>5, <2>1
  <2>3. backup' = [backup EXCEPT ![s] = None]
    BY <1>6, <2>2 DEF DiscardBackup
  <2>4. job'[d].pc = "scan" /\ job'[d].todo = job[d].todo
    BY <2>1, GotoJob DEF pcs
  <2>5. Decided(s)'
    BY <1>2, <2>1, <2>2, <2>3 DEF CommitAt, Decided, Live, TypeOK
  <2>6. \A r \in Service : ~WorksOn(d, r)'
    BY <2>4 DEF WorksOn, At
  <2>7. \A r \in Service : r # s => backup'[r] = backup[r]
    BY <2>3 DEF TypeOK
  <2> QED BY <1>2, <1>5, <2>1, <2>2, <2>4, <2>5, <2>6, <2>7, RecoveryStepKept DEF Decided
<1>7. CASE RecoverRemove(d)
  <2>1. job[d].pc = "undo" /\ Goto(d, "redo") /\ backup' = backup /\ daemon' = daemon
    BY <1>7 DEF RecoverRemove, At
  <2>2. PICK s \in Service :
          /\ s = job[d].svc /\ WorksOn(d, s) /\ CommitAt(d, s) /\ s \notin job[d].todo
          /\ \A r \in Service : r # s => ~WorksOn(d, r)
    BY <1>5, <2>1
  <2>3. dir' = [dir EXCEPT ![s] = None]
    BY <1>7, <2>2 DEF RecoverRemove
  <2>4. job'[d].pc = "redo" /\ job'[d].svc = s /\ job'[d].todo = job[d].todo
    BY <2>1, <2>2, GotoJob DEF pcs
  <2>5. Saved(s)' /\ backup'[s] # None /\ dir'[s] = None
    BY <1>2, <2>1, <2>2, <2>3 DEF CommitAt, Saved, TypeOK
  <2>6. CommitAt(d, s)' /\ WorksOn(d, s)' /\ \A r \in Service : r # s => ~WorksOn(d, r)'
    BY <2>4, <2>5 DEF CommitAt, WorksOn, At
  <2>7. \A r \in Service : r # s => dir'[r] = dir[r]
    BY <2>3 DEF TypeOK
  <2> QED BY <1>2, <1>5, <2>1, <2>2, <2>4, <2>5, <2>6, <2>7, RecoveryStepKept
<1>8. CASE RecoverRename(d)
  <2>1. job[d].pc = "redo" /\ Goto(d, "scan") /\ daemon' = daemon
    BY <1>8 DEF RecoverRename, At
  <2>2. PICK s \in Service :
          /\ s = job[d].svc /\ WorksOn(d, s) /\ CommitAt(d, s) /\ s \notin job[d].todo
          /\ \A r \in Service : r # s => ~WorksOn(d, r)
    BY <1>5, <2>1
  <2>3. Saved(s) /\ backup[s] # None /\ dir[s] = None
    BY <2>1, <2>2 DEF CommitAt
  <2>4. dir' = [dir EXCEPT ![s] = backup[s]] /\ backup' = [backup EXCEPT ![s] = None]
    BY <1>8, <2>2, <2>3 DEF RecoverRename, restoreBackup
  <2>5. job'[d].pc = "scan" /\ job'[d].todo = job[d].todo
    BY <2>1, GotoJob DEF pcs
  <2>6. dir'[s] = backup[s] /\ backup'[s] = None
    BY <2>4 DEF TypeOK
  <2>7. Decided(s)'
    BY <1>2, <2>3, <2>6 DEF Decided, Live, Saved
  <2>8. \A r \in Service : ~WorksOn(d, r)'
    BY <2>5 DEF WorksOn, At
  <2>9. \A r \in Service : r # s => dir'[r] = dir[r] /\ backup'[r] = backup[r]
    BY <2>4 DEF TypeOK
  <2> QED BY <1>2, <1>5, <2>1, <2>2, <2>5, <2>7, <2>8, <2>9, RecoveryStepKept DEF Decided
<1>9. CASE SweepWalk(d) \/ SweepDone(d) \/ \E t \in Tree : SweepRemove(d, t)
  <2>1. dir' = dir /\ backup' = backup /\ (At(d, "scan") \/ At(d, "sweep")) /\ daemon[d] # "off"
    BY <1>9 DEF SweepWalk, SweepDone, SweepRemove, diskVars, Control, Disciplined, At
  <2>2. job[d].todo = {}
    <3>1. CASE SweepWalk(d)
      BY <3>1 DEF SweepWalk
    <3>2. CASE ~SweepWalk(d)
      <4>1. daemon[d] = "sweeping"
        BY <1>9, <3>2 DEF SweepDone, SweepRemove, Control, Disciplined, At
      <4> QED BY <1>1, <4>1, JobTypes DEF Kept
    <3> QED BY <3>1, <3>2
  <2>3. At(d, "sweep") => job[d].svc \notin Service
    BY <1>1 DEF Kept, WorksOn, CommitAt, At
  <2>4. job'[d].svc \notin Service /\ job'[d].todo = {}
    <3>1. CASE SweepWalk(d)
      BY <3>1, NoneAssumption DEF SweepWalk, TypeOK, Idle
    <3>2. CASE SweepDone(d)
      BY <3>2, IdleJob, NoneAssumption DEF SweepDone, TypeOK
    <3>3. CASE \E t \in Tree : SweepRemove(d, t)
      <4>1. job'[d].svc = job[d].svc /\ job'[d].todo = job[d].todo
        BY <3>3, JobTypes DEF SweepRemove, TypeOK, Job
      <4> QED BY <2>2, <2>3, <3>3, <4>1 DEF SweepRemove
    <3> QED BY <1>9, <3>1, <3>2, <3>3
  <2>5. \A r \in Service : ~WorksOn(d, r) /\ ~WorksOn(d, r)'
    BY <2>1, <2>3, <2>4 DEF WorksOn, At
  <2>6. \A r \in Service : Untouched(d, r)
    BY <1>2, <2>1, <2>2, <2>4, <2>5 DEF Untouched
  <2>7. \A r \in Service : (Live(r) \/ Saved(r))' /\ \A e \in Daemon : Kept(e, r)'
    BY <2>1, <2>6, UntouchedKept
  <2> QED BY <2>7 DEF VersionKept
<1> QED BY <1>4, <1>6, <1>7, <1>8, <1>9 DEF RecoveryStep

\* Calls, and the life of the daemon, keep directories whole.
LEMMA OthersKeepWhole ==
    ASSUME TypeOK, TypeOK', Orderly, AllWhole, NEW d \in Daemon,
           \/ \E s \in Service, p \in Package, t \in Tree \union {None} : BeginImport(d, s, p, t)
           \/ \E s \in Service : DeleteService(d, s)
           \/ DeleteDir(d)
           \/ Boot(d) \/ Drain(d) \/ Stop(d) \/ crash(d)
    PROVE  AllWhole'
<1>1. OnlyMoves
  <2>1. CASE \E s \in Service, p \in Package, t \in Tree \union {None} : BeginImport(d, s, p, t)
    BY <2>1 DEF BeginImport, OnlyMoves, TypeOK
  <2>2. CASE \E s \in Service : DeleteService(d, s)
    BY <2>2 DEF DeleteService, OnlyMoves, diskVars
  <2>3. CASE DeleteDir(d)
    BY <2>3 DEF DeleteDir, OnlyMoves, TypeOK
  <2>4. CASE Boot(d)
    BY <2>4 DEF Boot, OnlyMoves
  <2>5. CASE Drain(d) \/ Stop(d) \/ crash(d)
    BY <2>5 DEF Drain, Stop, crash, Crash, CrashInDir, CrashInBackup, CrashInTree, Orderly,
                OnlyMoves, diskVars
  <2> QED BY <2>1, <2>2, <2>3, <2>4, <2>5
<1> QED BY <1>1, MovesKeepWhole

\* Calls, and the life of the daemon, keep every version.
LEMMA OthersKeepVersions ==
    ASSUME TypeOK, TypeOK', Control, OneDaemon, Orderly, VersionKept, NEW d \in Daemon,
           \/ \E s \in Service, p \in Package, t \in Tree \union {None} : BeginImport(d, s, p, t)
           \/ \E s \in Service : DeleteService(d, s)
           \/ DeleteDir(d)
           \/ Boot(d) \/ Drain(d) \/ Stop(d) \/ crash(d)
    PROVE  VersionKept'
<1>1. \A r \in Service : Kept(d, r) /\ (Live(r) \/ Saved(r))
  BY DEF VersionKept
<1>2. \A e \in Daemon : e = d
  BY DEF OneDaemon
<1>3. ASSUME UNCHANGED <<row, dir, backup>>
      PROVE  /\ \A r \in Service : (Live(r) \/ Saved(r))'
             /\ \A r \in Service : Decided(r) => Decided(r)'
  BY <1>1, <1>3 DEF Live, Saved, Decided
<1>4. ASSUME Serving(d)
      PROVE  daemon[d] \notin {"off", "recovering"} /\ job[d].todo = {}
  BY <1>1, <1>4, JobTypes DEF Serving, Kept
<1>5. CASE \E s \in Service, p \in Package, t \in Tree \union {None} : BeginImport(d, s, p, t)
  <2>1. PICK s \in Service, p \in Package, t \in Tree \union {None} : BeginImport(d, s, p, t)
    BY <1>5
  <2>2. /\ Serving(d) /\ job[d] = Idle /\ deleting[d] # s
        /\ UNCHANGED <<row, dir, backup, daemon, deleting>>
    BY <2>1 DEF BeginImport, At, Orderly, TypeOK
  <2>3. job'[d].pc = "tree" /\ job'[d].svc = s /\ job'[d].todo = {}
    BY <2>1 DEF BeginImport, TypeOK, Idle
  <2>4. \A r \in Service : ~WorksOn(d, r)
    BY <2>2, IdleJob, NoneAssumption DEF WorksOn
  <2>5. \A r \in Service : Decided(r) /\ Decided(r)'
    BY <1>1, <1>3, <1>4, <2>2, <2>4 DEF Kept
  <2>6. \A r \in Service : Kept(d, r)'
    BY <1>1, <2>2, <2>3, <2>4, <2>5 DEF Kept, WorksOn, CommitAt
  <2> QED BY <1>2, <1>3, <2>2, <2>6 DEF VersionKept
<1>6. CASE \E s \in Service : DeleteService(d, s)
  <2>1. PICK s \in Service : DeleteService(d, s)
    BY <1>6
  <2>2. /\ Serving(d) /\ row' = [row EXCEPT ![s] = None] /\ deleting' = [deleting EXCEPT ![d] = s]
        /\ ~(Importing(d) /\ job[d].svc = s)
        /\ UNCHANGED <<dir, backup, daemon, job>>
    BY <2>1 DEF DeleteService, Orderly, diskVars
  <2>3. \A r \in Service : WorksOn(d, r) <=> WorksOn(d, r)'
    BY <2>2 DEF WorksOn, At
  <2>4. ~WorksOn(d, s)
    <3>1. job[d].pc \in importing \union {"idle"} \/ job[d].pc \in {"sweep", "scan"}
      BY <2>2, JobTypes DEF pcs, importing, Serving, Control, Disciplined
    <3> QED BY <1>1, <2>2, <3>1, IdleJob, NoneAssumption
            DEF Kept, CommitAt, WorksOn, At, Importing, TypeOK
  <2>5. row'[s] = None /\ deleting'[d] = s /\ \A r \in Service : r # s => row'[r] = row[r]
    BY <2>2 DEF TypeOK
  <2>6. \A r \in Service : r # s => Untouched(d, r) \/ WorksOn(d, r)
    BY <1>4, <2>2, <2>3, <2>5 DEF Untouched
  <2>7. ASSUME NEW r \in Service, r # s
        PROVE  (Live(r) \/ Saved(r))' /\ Kept(d, r)'
    <3>1. CASE ~WorksOn(d, r)
      BY <2>2, <2>6, <2>7, <3>1, UntouchedKept
    <3>2. CASE WorksOn(d, r)
      <4>1. CommitAt(d, r) /\ (Live(r) \/ Saved(r))
        BY <1>1, <3>2 DEF Kept
      <4>2. staging' = staging
        BY <2>1 DEF DeleteService, diskVars
      <4>3. CommitAt(d, r)' /\ (Live(r) \/ Saved(r))'
        BY <2>2, <2>5, <2>7, <4>1, <4>2 DEF CommitAt, Decided, Live, Saved
      <4> QED BY <1>4, <2>2, <2>3, <2>5, <2>7, <3>2, <4>3 DEF Kept
    <3> QED BY <3>1, <3>2
  <2>8. Decided(s)' /\ Live(s)'
    BY <1>1, <1>4, <2>2, <2>4, <2>5 DEF Kept, Decided, Live
  <2>9. Kept(d, s)'
    BY <1>4, <2>2, <2>3, <2>4, <2>5, <2>8 DEF Kept
  <2> QED BY <1>2, <2>7, <2>8, <2>9 DEF VersionKept
<1>7. CASE DeleteDir(d)
  <2>1. PICK s \in Service : s = deleting[d]
    BY <1>7 DEF DeleteDir, TypeOK
  <2>2. /\ dir' = [dir EXCEPT ![s] = None] /\ deleting' = [deleting EXCEPT ![d] = None]
        /\ UNCHANGED <<row, backup, staging, daemon, job>>
    BY <1>7, <2>1 DEF DeleteDir
  <2>3. Serving(d)
    BY <2>1, NoneAssumption DEF Control, Disciplined
  <2>4. /\ dir'[s] = None /\ deleting'[d] = None
        /\ \A r \in Service : r # s => dir'[r] = dir[r]
    BY <2>2 DEF TypeOK
  <2>5. \A r \in Service : WorksOn(d, r) <=> WorksOn(d, r)'
    BY <2>2 DEF WorksOn, At
  <2>6. row[s] = None /\ ~WorksOn(d, s)
    BY <1>1, <2>1 DEF Kept
  <2>7. ASSUME NEW r \in Service, r # s
        PROVE  (Live(r) \/ Saved(r))' /\ Kept(d, r)'
    <3>1. dir'[r] = dir[r]
      BY <2>4, <2>7
    <3>2. (Live(r) <=> Live(r)') /\ (Saved(r) <=> Saved(r)') /\ (Decided(r) <=> Decided(r)')
      BY <2>2, <3>1 DEF Live, Saved, Decided
    <3>3. CommitAt(d, r) <=> CommitAt(d, r)'
      BY <2>2, <3>1, <3>2 DEF CommitAt
    <3>4. deleting'[d] # r
      BY <2>4, NoneAssumption
    <3> QED BY <1>1, <2>2, <2>5, <3>2, <3>3, <3>4 DEF Kept
  <2>8. Live(s)' /\ Decided(s)'
    BY <1>1, <1>4, <2>2, <2>3, <2>6 DEF Kept, Decided, Live
  <2>9. Kept(d, s)'
    BY <1>4, <2>2, <2>3, <2>4, <2>5, <2>6, <2>8, NoneAssumption DEF Kept
  <2> QED BY <1>2, <2>7, <2>8, <2>9 DEF VersionKept
<1>8. CASE Boot(d)
  <2>1. /\ daemon[d] = "off" /\ UNCHANGED <<row, dir, backup, deleting>>
        /\ daemon' = [daemon EXCEPT ![d] = "recovering"]
    BY <1>8 DEF Boot
  <2>2. /\ job'[d].pc = "scan"
        /\ \A r \in Service : r \in job'[d].todo <=> backup[r] # None
    BY <1>8 DEF Boot, TypeOK, Idle
  <2>3. deleting'[d] = None /\ daemon'[d] = "recovering"
    BY <2>1 DEF Control, Disciplined, TypeOK
  <2>4. \A r \in Service : ~WorksOn(d, r)'
    BY <2>2 DEF WorksOn, At
  <2>5. \A r \in Service : backup'[r] = None => Decided(r)'
    BY <1>1, <1>3, <2>1 DEF Decided, Live, Saved
  <2>6. \A r \in Service : Kept(d, r)'
    BY <2>1, <2>2, <2>3, <2>4, <2>5, NoneAssumption DEF Kept
  <2> QED BY <1>2, <1>3, <2>1, <2>6 DEF VersionKept
<1>9. CASE Drain(d) \/ Stop(d) \/ crash(d)
  <2>1. UNCHANGED <<row, dir, backup>>
    BY <1>9 DEF Drain, Stop, crash, Crash, CrashInDir, CrashInBackup, CrashInTree, Orderly, diskVars
  <2>2. CASE Drain(d)
    <3>1. /\ daemon'[d] = "draining" /\ daemon[d] = "up"
          /\ UNCHANGED <<job, deleting, staging>>
      BY <2>2 DEF Drain, TypeOK, diskVars
    <3>2. ASSUME NEW r \in Service PROVE Kept(d, r)'
      <4>1. (WorksOn(d, r) <=> WorksOn(d, r)') /\ (Decided(r) <=> Decided(r)')
        BY <2>1, <3>1 DEF WorksOn, At, Decided, Live
      <4>2. CommitAt(d, r) <=> CommitAt(d, r)'
        BY <2>1, <3>1 DEF CommitAt, Decided, Live, Saved
      <4> QED BY <1>1, <2>1, <3>1, <4>1, <4>2 DEF Kept
    <3> QED BY <1>2, <1>3, <2>1, <3>2 DEF VersionKept
  <2>3. CASE Stop(d) \/ crash(d)
    <3>1. job'[d] = Idle /\ daemon'[d] = "off" /\ deleting'[d] = None
      <4>1. CASE Stop(d)
        BY <4>1 DEF Stop, TypeOK, At
      <4>2. CASE crash(d)
        BY <4>2 DEF crash, Crash, CrashInDir, CrashInBackup, CrashInTree, Die, TypeOK
      <4> QED BY <2>3, <4>1, <4>2
    <3>2. \A r \in Service : Kept(d, r)'
      BY <3>1, IdleJob, NoneAssumption DEF Kept, WorksOn
    <3> QED BY <1>2, <1>3, <2>1, <3>2 DEF VersionKept
  <2> QED BY <1>9, <2>2, <2>3
<1> QED BY <1>5, <1>6, <1>7, <1>8, <1>9

\* The invariant of the versions.
Versions == AllWhole /\ VersionKept

\* Its inductive step.
LEMMA NextVersions ==
    ASSUME TypeOK, Control, OneDaemon, Orderly, Versions, [Next]_vars
    PROVE  Versions'
<1>0. TypeOK' /\ AllWhole /\ VersionKept
  BY NextTypes DEF Versions
<1>1. CASE UNCHANGED <<row, dir, backup, staging, daemon, job, deleting>>
  <2>1. AllWhole'
    BY <1>0, <1>1 DEF AllWhole
  <2>2. ASSUME NEW s \in Service PROVE (Live(s) <=> Live(s)') /\ (Saved(s) <=> Saved(s)')
    BY <1>1 DEF Live, Saved
  <2>3. ASSUME NEW s \in Service, NEW d \in Daemon PROVE Kept(d, s) <=> Kept(d, s)'
    BY <1>1 DEF Kept, WorksOn, At, CommitAt, Decided, Live, Saved
  <2> QED BY <1>0, <2>1, <2>2, <2>3 DEF Versions, VersionKept
<1>2. CASE UNCHANGED vars \/ \E t \in Tree : Age(t)
  BY <1>1, <1>2 DEF vars, diskVars, treeVars, Age
<1>3. ASSUME NEW d \in Daemon, ImportStep(d) PROVE Versions'
  BY <1>0, <1>3, ImportKeepsWhole, ImportKeepsVersions DEF Versions
<1>4. ASSUME NEW d \in Daemon, RecoveryStep(d) PROVE Versions'
  <2>1. OnlyMoves
    <3>1. CASE RecoverRename(d)
      BY <3>1 DEF RecoverRename, restoreBackup, OnlyMoves, TypeOK
    <3>2. CASE DiscardBackup(d) \/ RecoverRemove(d)
      BY <3>2 DEF DiscardBackup, RecoverRemove, OnlyMoves, TypeOK
    <3>3. CASE \/ \E s \in Service : RecoverService(d, s)
               \/ SweepWalk(d) \/ SweepDone(d)
               \/ \E t \in Tree : SweepRemove(d, t)
      BY <3>3 DEF RecoverService, SweepWalk, SweepDone, SweepRemove, OnlyMoves, diskVars
    <3> QED BY <1>4, <3>1, <3>2, <3>3 DEF RecoveryStep
  <2> QED BY <1>0, <1>4, <2>1, MovesKeepWhole, RecoveryKeepsVersions DEF Versions
<1>5. ASSUME NEW d \in Daemon,
             \/ \E s \in Service, p \in Package, t \in Tree \union {None} : BeginImport(d, s, p, t)
             \/ \E s \in Service : DeleteService(d, s)
             \/ DeleteDir(d)
             \/ Boot(d) \/ Drain(d) \/ Stop(d) \/ crash(d)
      PROVE  Versions'
  BY <1>0, <1>5, OthersKeepWhole, OthersKeepVersions DEF Versions
<1> QED BY <1>2, <1>3, <1>4, <1>5, Steps

\* Between two calls on a service its row and its directory agree.
LEMMA QuietDecided ==
    ASSUME TypeOK, Control, Versions, NEW s \in Service, Quiescent(s)
    PROVE  Decided(s)
<1>1. PICK d \in Daemon : Serving(d)
  BY DEF Quiescent
<1>2. Kept(d, s) /\ ~(Importing(d) /\ job[d].svc = s) /\ daemon[d] \in {"up", "draining"}
  BY <1>1 DEF Quiescent, Versions, VersionKept, Serving
<1>3. job[d].pc \in importing \union {"idle"}
  BY <1>2, JobTypes DEF pcs, importing, Control, Disciplined
<1>4. ~WorksOn(d, s)
  BY <1>2, <1>3, IdleJob, NoneAssumption DEF WorksOn, Importing, TypeOK
<1> QED BY <1>2, <1>4 DEF Kept

\* The invariant, from the start.
LEMMA InitVersions == Init => Versions
  BY IdleJob, NoneAssumption, DirAssumption
     DEF Init, Versions, AllWhole, VersionKept, Live, Saved, Kept, WorksOn

\* With one daemon at a time, removals that are not cut short and no deletion of
\* a service being imported: the version a row names is on disk, whole, live or
\* as the backup, at every moment of imports, rollbacks and recoveries, through
\* any number of crashes and failures.
THEOREM VersionsStayOnDisk == ASSUME OneDaemon, Orderly PROVE Spec => []VersionOnDisk
<1>1. TypeOK /\ Control /\ Versions /\ [Next]_vars => (TypeOK /\ Control /\ Versions)'
  BY NextTypes, NextVersions
<1>2. Versions => VersionOnDisk
  BY DEF Versions, AllWhole, VersionKept, Live, Saved, VersionOnDisk, Holds
<1> QED BY <1>1, <1>2, InitTypes, InitVersions, PTL DEF Spec

\* And the daemon that serves runs each service from the package its row names.
THEOREM RowsAreServed == ASSUME OneDaemon, Orderly PROVE Spec => []RowServed
<1>1. TypeOK /\ Control /\ Versions /\ [Next]_vars => (TypeOK /\ Control /\ Versions)'
  BY NextTypes, NextVersions
<1>2. TypeOK /\ Control /\ Versions => RowServed
  BY QuietDecided DEF Versions, AllWhole, Decided, Live, RowServed, Holds
<1> QED BY <1>1, <1>2, InitTypes, InitVersions, PTL DEF Spec

-----------------------------------------------------------------------------
(* Backups, whatever fails                                                  *)

\* A backup has somebody to decide its fate: the recovery that will come to it, or
\* the commit or recovery at work on its service, which finds the place of the
\* directory as the rename back needs it.
Accounted(d, s) ==
    /\ daemon[d] # "off" /\ backup[s] # None =>
          \/ daemon[d] = "recovering" /\ s \in job[d].todo
          \/ /\ WorksOn(d, s)
             /\ job[d].pc \in {"install", "upsert", "cleanup", "rollback", "restore", "discard",
                               "undo", "redo"}
    /\ WorksOn(d, s) =>
          /\ job[d].pc \in {"install", "upsert", "rollback", "restore"} =>
                (job[d].had <=> backup[s] # None)
          /\ job[d].pc \in {"install", "restore", "redo"} => dir[s] = None

\* The invariant behind NoBackupLeft.
Backups == \A d \in Daemon, s \in Service : Accounted(d, s)

\* A step of d that accounts for the service it works on and makes no backup of
\* another.
LEMMA AccountedStep ==
    ASSUME OneDaemon, Backups, NEW d \in Daemon, NEW s \in Service,
           daemon'[d] # "off" => daemon[d] # "off",
           \A r \in Service : r # s =>
               /\ backup'[r] # None => backup[r] # None
               /\ daemon'[d] # "off" => ~WorksOn(d, r)
               /\ ~WorksOn(d, r)'
               /\ daemon'[d] # "off" /\ daemon[d] = "recovering" /\ r \in job[d].todo =>
                     daemon'[d] = "recovering" /\ r \in job'[d].todo,
           Accounted(d, s)'
    PROVE  Backups'
<1>1. ASSUME NEW r \in Service, r # s PROVE Accounted(d, r)'
  BY <1>1 DEF Backups, Accounted
<1>2. \A e \in Daemon : e = d
  BY DEF OneDaemon
<1> QED BY <1>1, <1>2 DEF Backups

\* Every step of an import accounts for the backup it makes.
LEMMA ImportKeepsBackups ==
    ASSUME TypeOK, TypeOK', Control, OneDaemon, Backups, NEW d \in Daemon, ImportStep(d)
    PROVE  Backups'
<1>1. Importing(d) /\ UNCHANGED <<daemon, deleting>>
  BY DEF ImportStep, PrepareRuntime, StageCommit, ImportFail, ClearBackup, MoveAside, Install,
         UpsertService, UpsertFail, Cleanup, RollbackRemove, RollbackRestore, At, Importing,
         importing
<1>2. PICK s \in Service : s = job[d].svc
  BY <1>1 DEF Control, Disciplined
<1>3. /\ daemon[d] \in {"up", "draining"} /\ WorksOn(d, s) /\ Accounted(d, s)
      /\ dir \in [Service -> Dir \union {None}] /\ backup \in [Service -> Dir \union {None}]
      /\ dir' \in [Service -> Dir \union {None}] /\ backup' \in [Service -> Dir \union {None}]
  BY <1>1, <1>2 DEF Control, Disciplined, Serving, Importing, importing, WorksOn, At, Backups, TypeOK
<1>4. ASSUME NEW pc \in importing, Goto(d, pc)
      PROVE  WorksOn(d, s)' /\ job'[d].pc = pc /\ job'[d].had = job[d].had /\ job'[d].svc = s
  BY <1>2, <1>3, <1>4, GotoJob DEF importing, pcs, WorksOn, At
<1>5. ASSUME Finish(d) PROVE job'[d] = Idle
  BY <1>5 DEF Finish, TypeOK
<1>6. ASSUME \A r \in Service : r # s => backup'[r] = backup[r],
             job'[d] = Idle \/ job'[d].svc = s,
             Accounted(d, s)'
      PROVE  Backups'
  <2>1. \A r \in Service : r # s => ~WorksOn(d, r) /\ ~WorksOn(d, r)'
    BY <1>2, <1>6, IdleJob, NoneAssumption DEF WorksOn
  <2> QED BY <1>1, <1>3, <1>6, <2>1, AccountedStep
<1>7. ASSUME job'[d] = Idle, backup'[s] = None PROVE Accounted(d, s)'
  BY <1>7, IdleJob, NoneAssumption DEF Accounted, WorksOn
<1>8. CASE PrepareRuntime(d)
  <2>1. job[d].pc = "tree" /\ Goto(d, "stage") /\ UNCHANGED <<dir, backup>>
    BY <1>8 DEF PrepareRuntime, At, diskVars
  <2>2. job'[d].pc = "stage" /\ job'[d].svc = s /\ backup[s] = None
    BY <1>3, <1>4, <2>1 DEF importing, Accounted
  <2> QED BY <1>6, <2>1, <2>2 DEF Accounted
<1>9. CASE StageCommit(d)
  <2>1. job[d].pc = "stage" /\ Goto(d, "clear") /\ UNCHANGED <<dir, backup>>
    BY <1>9 DEF StageCommit, At
  <2>2. job'[d].pc = "clear" /\ job'[d].svc = s /\ backup[s] = None
    BY <1>3, <1>4, <2>1 DEF importing, Accounted
  <2> QED BY <1>6, <2>1, <2>2 DEF Accounted
<1>10. CASE ImportFail(d)
  <2>1. job[d].pc \in {"tree", "stage", "clear"} /\ Finish(d) /\ UNCHANGED <<dir, backup>>
    BY <1>10 DEF ImportFail
  <2>2. backup[s] = None
    BY <1>3, <2>1 DEF Accounted
  <2> QED BY <1>5, <1>6, <1>7, <2>1, <2>2
<1>11. CASE ClearBackup(d)
  <2>1. /\ job[d].pc = "clear" /\ Goto(d, "aside")
        /\ backup' = [backup EXCEPT ![s] = None]
    BY <1>2, <1>11 DEF ClearBackup, At
  <2>2. job'[d].pc = "aside" /\ job'[d].svc = s
    BY <1>4, <2>1 DEF importing
  <2>3. backup'[s] = None /\ \A r \in Service : r # s => backup'[r] = backup[r]
    BY <1>3, <2>1
  <2> QED BY <1>6, <2>2, <2>3 DEF Accounted
<1>12. CASE MoveAside(d)
  <2>1. job[d].pc = "aside" /\ backup[s] = None
    BY <1>3, <1>12 DEF MoveAside, At, Accounted
  <2>2. /\ backup' = [backup EXCEPT ![s] = IF dir[s] # None THEN dir[s] ELSE @]
        /\ dir' = [dir EXCEPT ![s] = None]
        /\ job' = [job EXCEPT ![d].pc = "install", ![d].had = (dir[s] # None)]
    BY <1>2, <1>12, <2>1 DEF MoveAside
  <2>3. job'[d].pc = "install" /\ job'[d].svc = s /\ job'[d].had = (dir[s] # None)
    BY <1>2, <2>2, JobTypes DEF TypeOK, Job
  <2>4. /\ dir'[s] = None /\ backup'[s] = dir[s]
        /\ \A r \in Service : r # s => backup'[r] = backup[r]
    BY <1>3, <2>1, <2>2
  <2>5. WorksOn(d, s)'
    BY <2>3 DEF WorksOn, At
  <2>6. Accounted(d, s)'
    BY <2>3, <2>4, <2>5 DEF Accounted
  <2> QED BY <1>6, <2>3, <2>4, <2>6
<1>13. CASE Install(d)
  <2>1. job[d].pc = "install" /\ dir[s] = None /\ (job[d].had <=> backup[s] # None)
    BY <1>3, <1>13 DEF Install, At, Accounted
  <2>2. CASE staging[s] \in Dir
    <3>1. dir' = [dir EXCEPT ![s] = staging[s]] /\ Goto(d, "upsert") /\ backup' = backup
      BY <1>2, <1>13, <2>1, <2>2 DEF Install
    <3>2. /\ job'[d].pc = "upsert" /\ job'[d].had = job[d].had /\ job'[d].svc = s
          /\ WorksOn(d, s)'
      BY <1>4, <3>1 DEF importing
    <3>3. Accounted(d, s)'
      BY <2>1, <3>1, <3>2 DEF Accounted
    <3> QED BY <1>6, <3>1, <3>2, <3>3
  <2>3. CASE staging[s] \notin Dir
    <3>1. /\ Finish(d)
          /\ IF job[d].had /\ dir[s] = None /\ backup[s] # None
             THEN backup' = [backup EXCEPT ![s] = None] ELSE backup' = backup
      BY <1>2, <1>13, <2>3 DEF Install
    <3>2. backup'[s] = None /\ \A r \in Service : r # s => backup'[r] = backup[r]
      BY <1>3, <2>1, <3>1
    <3> QED BY <1>5, <1>6, <1>7, <3>1, <3>2
  <2> QED BY <2>2, <2>3
<1>14. CASE UpsertService(d)
  <2>1. job[d].pc = "upsert" /\ Goto(d, "cleanup") /\ UNCHANGED <<dir, backup>>
    BY <1>14 DEF UpsertService, At, diskVars
  <2>2. job'[d].pc = "cleanup" /\ job'[d].svc = s /\ WorksOn(d, s)'
    BY <1>4, <2>1 DEF importing
  <2>3. Accounted(d, s)'
    BY <2>2 DEF Accounted
  <2> QED BY <1>6, <2>1, <2>2, <2>3
<1>15. CASE UpsertFail(d)
  <2>1. job[d].pc = "upsert" /\ Goto(d, "rollback") /\ UNCHANGED <<dir, backup>>
    BY <1>15 DEF UpsertFail, At, diskVars
  <2>2. /\ job'[d].pc = "rollback" /\ job'[d].svc = s /\ job'[d].had = job[d].had
        /\ WorksOn(d, s)'
    BY <1>4, <2>1 DEF importing
  <2>3. Accounted(d, s)'
    BY <1>3, <2>1, <2>2 DEF Accounted
  <2> QED BY <1>6, <2>1, <2>2, <2>3
<1>16. CASE RollbackRemove(d)
  <2>1. /\ job[d].pc = "rollback" /\ Goto(d, "restore") /\ backup' = backup
        /\ dir' = [dir EXCEPT ![s] = None]
    BY <1>2, <1>16 DEF RollbackRemove, At
  <2>2. /\ job'[d].pc = "restore" /\ job'[d].svc = s /\ job'[d].had = job[d].had
        /\ WorksOn(d, s)'
    BY <1>4, <2>1 DEF importing
  <2>3. dir'[s] = None
    BY <1>3, <2>1
  <2>4. Accounted(d, s)'
    BY <1>3, <2>1, <2>2, <2>3 DEF Accounted
  <2> QED BY <1>6, <2>1, <2>2, <2>4
<1>17. CASE RollbackRestore(d)
  <2>1. /\ job[d].pc = "restore" /\ Finish(d)
        /\ IF job[d].had THEN restoreBackup(s) ELSE UNCHANGED <<dir, backup>>
    BY <1>2, <1>17 DEF RollbackRestore, At
  <2>2. dir[s] = None /\ (job[d].had <=> backup[s] # None)
    BY <1>3, <2>1 DEF Accounted
  <2>3. backup'[s] = None /\ \A r \in Service : r # s => backup'[r] = backup[r]
    BY <1>3, <2>1, <2>2 DEF restoreBackup
  <2> QED BY <1>5, <1>6, <1>7, <2>1, <2>3
<1>18. CASE Cleanup(d)
  <2>1. Finish(d) /\ backup' = [backup EXCEPT ![s] = None]
    BY <1>2, <1>18 DEF Cleanup
  <2>2. backup'[s] = None /\ \A r \in Service : r # s => backup'[r] = backup[r]
    BY <1>3, <2>1
  <2> QED BY <1>5, <1>6, <1>7, <2>1, <2>2
<1> QED BY <1>8, <1>9, <1>10, <1>11, <1>12, <1>13, <1>14, <1>15, <1>16, <1>17, <1>18
        DEF ImportStep

\* Recovery decides every backup it found before the sweep starts.
LEMMA RecoveryKeepsBackups ==
    ASSUME TypeOK, TypeOK', Control, OneDaemon, Backups, NEW d \in Daemon, RecoveryStep(d)
    PROVE  Backups'
<1>1. \A e \in Daemon : e = d
  BY DEF OneDaemon
<1>2. \A r \in Service : Accounted(d, r)
  BY DEF Backups
<1>3. /\ dir \in [Service -> Dir \union {None}] /\ backup \in [Service -> Dir \union {None}]
  BY DEF TypeOK
<1>4. CASE \E s \in Service : RecoverService(d, s)
  <2>1. PICK s \in Service : RecoverService(d, s)
    BY <1>4
  <2>2. PICK intact \in BOOLEAN :
          job' = [job EXCEPT ![d].pc = IF needsRollback(s, intact) THEN "undo" ELSE "discard",
                             ![d].svc = s, ![d].todo = @ \ {s}]
    BY <2>1 DEF RecoverService
  <2>3. /\ job'[d].pc \in {"undo", "discard"}
        /\ job'[d].svc = s /\ job'[d].todo = job[d].todo \ {s}
    BY <2>2, JobTypes DEF TypeOK, Job
  <2>4. job[d].pc = "scan" /\ UNCHANGED <<daemon, dir, backup>>
    BY <2>1 DEF RecoverService, At, diskVars
  <2>5. WorksOn(d, s)' /\ \A r \in Service : r # s => ~WorksOn(d, r) /\ ~WorksOn(d, r)'
    BY <2>3, <2>4 DEF WorksOn, At
  <2>6. Accounted(d, s)'
    BY <2>3, <2>5 DEF Accounted
  <2> QED BY <2>3, <2>4, <2>5, <2>6, AccountedStep
<1>5. ASSUME NEW pc \in {"scan", "redo"}, Goto(d, pc), daemon' = daemon, NEW s \in Service,
             s = job[d].svc, job[d].pc # "scan",
             \A r \in Service : r # s => backup'[r] = backup[r],
             Accounted(d, s)'
      PROVE  Backups'
  <2>1. /\ job'[d].pc = pc /\ job'[d].svc = s /\ job'[d].todo = job[d].todo
    BY <1>5, GotoJob DEF pcs
  <2>2. \A r \in Service : r # s => ~WorksOn(d, r) /\ ~WorksOn(d, r)'
    BY <1>5, <2>1 DEF WorksOn
  <2> QED BY <1>5, <2>1, <2>2, AccountedStep
<1>6. CASE DiscardBackup(d)
  <2>1. PICK s \in Service : s = job[d].svc
    BY <1>6 DEF DiscardBackup, At, Control, Disciplined
  <2>2. /\ job[d].pc = "discard" /\ Goto(d, "scan") /\ daemon' = daemon
        /\ backup' = [backup EXCEPT ![s] = None]
    BY <1>6, <2>1 DEF DiscardBackup, At
  <2>3. backup'[s] = None /\ \A r \in Service : r # s => backup'[r] = backup[r]
    BY <1>3, <2>2
  <2>4. ~WorksOn(d, s)'
    BY <2>2, GotoJob DEF pcs, WorksOn, At
  <2>5. Accounted(d, s)'
    BY <2>3, <2>4 DEF Accounted
  <2> QED BY <1>5, <2>1, <2>2, <2>3, <2>5
<1>7. CASE RecoverRemove(d)
  <2>1. PICK s \in Service : s = job[d].svc
    BY <1>7 DEF RecoverRemove, At, Control, Disciplined
  <2>2. /\ job[d].pc = "undo" /\ Goto(d, "redo") /\ daemon' = daemon /\ backup' = backup
        /\ dir' = [dir EXCEPT ![s] = None]
    BY <1>7, <2>1 DEF RecoverRemove, At
  <2>3. dir'[s] = None
    BY <1>3, <2>2
  <2>4. job'[d].pc = "redo" /\ job'[d].svc = s
    BY <2>1, <2>2, GotoJob DEF pcs
  <2>5. WorksOn(d, s)'
    BY <2>4 DEF WorksOn, At
  <2>6. Accounted(d, s)'
    BY <2>3, <2>4, <2>5 DEF Accounted
  <2> QED BY <1>5, <2>1, <2>2, <2>6
<1>8. CASE RecoverRename(d)
  <2>1. PICK s \in Service : s = job[d].svc
    BY <1>8 DEF RecoverRename, At, Control, Disciplined
  <2>2. job[d].pc = "redo" /\ Goto(d, "scan") /\ daemon' = daemon /\ restoreBackup(s)
    BY <1>8, <2>1 DEF RecoverRename, At
  <2>3. WorksOn(d, s)
    BY <2>1, <2>2 DEF WorksOn, At
  <2>4. dir[s] = None
    BY <1>2, <2>2, <2>3 DEF Accounted
  <2>5. backup'[s] = None /\ \A r \in Service : r # s => backup'[r] = backup[r]
    BY <1>3, <2>2, <2>4 DEF restoreBackup
  <2>6. ~WorksOn(d, s)'
    BY <2>2, GotoJob DEF pcs, WorksOn, At
  <2>7. Accounted(d, s)'
    BY <2>5, <2>6 DEF Accounted
  <2> QED BY <1>5, <2>1, <2>2, <2>5, <2>7
<1>9. ASSUME SweepWalk(d) \/ SweepDone(d) \/ \E t \in Tree : SweepRemove(d, t)
      PROVE  Backups'
  <2>1. UNCHANGED backup /\ daemon[d] # "off"
    BY <1>9 DEF SweepWalk, SweepDone, SweepRemove, diskVars, Control, Disciplined, At, Idle
  <2>2. \A r \in Service : backup[r] = None
    <3>1. CASE SweepWalk(d)
      BY <1>2, <2>1, <3>1 DEF SweepWalk, Accounted, WorksOn, At
    <3>2. CASE ~SweepWalk(d)
      <4>1. daemon[d] = "sweeping" /\ job[d].pc = "sweep"
        BY <1>9, <3>2 DEF SweepDone, SweepRemove, Control, Disciplined, At
      <4> QED BY <1>2, <4>1 DEF Accounted
    <3> QED BY <3>1, <3>2
  <2>3. job'[d].pc \in {"idle", "sweep"}
    <3> DEFINE walk == [Idle EXCEPT !.pc = "sweep", !.cand = stored \ referencedSharedTrees]
    <3>1. walk.pc = "sweep"
      BY DEF Idle
    <3> HIDE DEF walk
    <3>2. CASE SweepWalk(d)
      <4>1. job' = [job EXCEPT ![d] = walk]
        BY <3>2 DEF SweepWalk, walk
      <4> QED BY <3>1, <4>1 DEF TypeOK
    <3>3. CASE SweepDone(d)
      BY <3>3, IdleJob DEF SweepDone, TypeOK
    <3>4. CASE \E t \in Tree : SweepRemove(d, t)
      BY <3>4, JobTypes DEF SweepRemove, At, TypeOK, Job
    <3> QED BY <1>9, <3>2, <3>3, <3>4
  <2>4. \A r \in Service : Accounted(d, r)'
    BY <2>1, <2>2, <2>3 DEF Accounted
  <2> QED BY <1>1, <2>4 DEF Backups
<1> QED BY <1>4, <1>6, <1>7, <1>8, <1>9 DEF RecoveryStep

\* Calls make no backup; a daemon that starts takes over those it finds, and one
\* that is off answers for none.
LEMMA OthersKeepBackups ==
    ASSUME TypeOK, TypeOK', Control, OneDaemon, Backups, NEW d \in Daemon,
           \/ \E s \in Service, p \in Package, t \in Tree \union {None} : BeginImport(d, s, p, t)
           \/ \E s \in Service : DeleteService(d, s)
           \/ DeleteDir(d)
           \/ Boot(d) \/ Drain(d) \/ Stop(d) \/ crash(d)
    PROVE  Backups'
<1>1. \A e \in Daemon : e = d
  BY DEF OneDaemon
<1>2. \A r \in Service : Accounted(d, r)
  BY DEF Backups
<1>3. ASSUME \A r \in Service : Accounted(d, r)' PROVE Backups'
  BY <1>1, <1>3 DEF Backups
<1>4. CASE \E s \in Service, p \in Package, t \in Tree \union {None} : BeginImport(d, s, p, t)
  <2>1. PICK s \in Service, p \in Package, t \in Tree \union {None} : BeginImport(d, s, p, t)
    BY <1>4
  <2>2. job[d] = Idle /\ daemon[d] # "off" /\ UNCHANGED <<backup, daemon>>
    BY <2>1 DEF BeginImport, At, TypeOK, Serving
  <2>3. job'[d].pc = "tree"
    BY <2>1 DEF BeginImport, TypeOK, Idle
  <2>4. \A r \in Service : backup[r] = None
    BY <1>2, <2>2, IdleJob DEF Accounted
  <2> QED BY <1>3, <2>2, <2>3, <2>4 DEF Accounted
<1>5. CASE \/ \E s \in Service : DeleteService(d, s)
           \/ Drain(d)
  <2>1. /\ UNCHANGED <<dir, backup, job>> /\ daemon[d] # "off"
        /\ daemon[d] = "recovering" => daemon'[d] = "recovering"
    BY <1>5 DEF DeleteService, Drain, diskVars, Serving
  <2> QED BY <1>2, <1>3, <2>1 DEF Accounted, WorksOn, At
<1>6. CASE DeleteDir(d)
  <2>1. /\ dir' = [dir EXCEPT ![deleting[d]] = None]
        /\ UNCHANGED <<backup, job, daemon>>
    BY <1>6 DEF DeleteDir
  <2>2. \A r \in Service : dir'[r] \in {dir[r], None}
    BY <2>1 DEF TypeOK
  <2> QED BY <1>2, <1>3, <2>1, <2>2 DEF Accounted, WorksOn, At
<1>7. CASE Boot(d)
  <2>1. backup' = backup /\ daemon' = [daemon EXCEPT ![d] = "recovering"]
    BY <1>7 DEF Boot
  <2>2. /\ job'[d].pc = "scan"
        /\ \A r \in Service : r \in job'[d].todo <=> backup[r] # None
    BY <1>7 DEF Boot, TypeOK, Idle
  <2>3. daemon'[d] = "recovering" /\ \A r \in Service : ~WorksOn(d, r)'
    BY <2>1, <2>2 DEF WorksOn, At, TypeOK
  <2> QED BY <1>3, <2>1, <2>2, <2>3 DEF Accounted
<1>8. CASE Stop(d) \/ crash(d)
  <2>1. job'[d] = Idle /\ daemon'[d] = "off"
    <3>1. CASE Stop(d)
      BY <3>1 DEF Stop, TypeOK, At
    <3>2. CASE crash(d)
      BY <3>2 DEF crash, Crash, CrashInDir, CrashInBackup, CrashInTree, Die, TypeOK
    <3> QED BY <1>8, <3>1, <3>2
  <2> QED BY <1>3, <2>1, IdleJob, NoneAssumption DEF Accounted, WorksOn
<1> QED BY <1>4, <1>5, <1>6, <1>7, <1>8

\* The inductive step.
LEMMA NextBackups ==
    ASSUME TypeOK, Control, OneDaemon, Backups, [Next]_vars
    PROVE  Backups'
<1>1. TypeOK'
  BY NextTypes
<1>2. CASE UNCHANGED vars \/ \E t \in Tree : Age(t)
  <2>1. UNCHANGED <<dir, backup, daemon, job>>
    BY <1>2 DEF vars, diskVars, treeVars, Age
  <2> QED BY <2>1 DEF Backups, Accounted, WorksOn, At
<1>3. ASSUME NEW d \in Daemon, ImportStep(d) PROVE Backups'
  BY <1>1, <1>3, ImportKeepsBackups
<1>4. ASSUME NEW d \in Daemon, RecoveryStep(d) PROVE Backups'
  BY <1>1, <1>4, RecoveryKeepsBackups
<1>5. ASSUME NEW d \in Daemon,
             \/ \E s \in Service, p \in Package, t \in Tree \union {None} : BeginImport(d, s, p, t)
             \/ \E s \in Service : DeleteService(d, s)
             \/ DeleteDir(d)
             \/ Boot(d) \/ Drain(d) \/ Stop(d) \/ crash(d)
      PROVE  Backups'
  BY <1>1, <1>5, OthersKeepBackups
<1> QED BY <1>2, <1>3, <1>4, <1>5, Steps

\* With one daemon at a time, and whatever fails - crashes, removals cut short,
\* failed writes, deletions that race the import - no backup outlives the import
\* or the recovery that made or found it (importer.go:446, recovery.go:59).
THEOREM NoBackupOutlives == ASSUME OneDaemon PROVE Spec => []NoBackupLeft
<1>1. Init => Backups
  BY IdleJob, NoneAssumption DEF Init, Backups, Accounted, WorksOn
<1>2. TypeOK /\ Control /\ Backups /\ [Next]_vars => (TypeOK /\ Control /\ Backups)'
  BY NextTypes, NextBackups
<1>3. TypeOK /\ Control /\ Backups => NoBackupLeft
  <2> SUFFICES ASSUME TypeOK, Control, Backups, NEW s \in Service, Quiescent(s)
               PROVE  backup[s] = None
    BY DEF NoBackupLeft
  <2>1. PICK d \in Daemon : Serving(d)
    BY DEF Quiescent
  <2>2. /\ Accounted(d, s) /\ ~(Importing(d) /\ job[d].svc = s)
        /\ daemon[d] \in {"up", "draining"}
    BY <2>1 DEF Quiescent, Backups, Serving
  <2>3. job[d].pc \notin {"discard", "undo", "redo"}
    BY <2>2 DEF Control, Disciplined
  <2> QED BY <2>2, <2>3 DEF Accounted, WorksOn, Importing, importing
<1> QED BY <1>1, <1>2, <1>3, InitTypes, PTL DEF Spec

=============================================================================
