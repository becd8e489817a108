-------------------------- MODULE SupervisorHistory --------------------------
(***************************************************************************)
(* Supervisor with a history variable, for what cannot be said of its      *)
(* state alone: which process was in the table when its instance was       *)
(* deleted.  DeleteInstance of an on-demand instance stops nothing, so a   *)
(* process that has exited and whose exit watcher still waits for the gate *)
(* outlives its instance there, and the id may be created again.           *)
(***************************************************************************)
EXTENDS Supervisor

VARIABLE left   \* the process that a deleted instance left in the table

historyVars == <<vars, left>>

deletes == Exists /\ ~Exists'

\* It is remembered while the table or the operation at the gate holds it.
remember ==
    left' = IF deletes THEN tracked'
            ELSE IF left \in {tracked', gate'.proc} THEN left ELSE None

HistorySpec == Init /\ left = None /\ [][Next /\ remember]_historyVars

\* What the operator disabled stays disabled through crashes, timers, requests,
\* scans, reconcile passes and boots, until an operator call enables it.  One
\* exception: parkLocked does not look at enabled, so the scan that parks what a
\* deleted instance left in the table enables a disabled successor.
StopWins ==
    [][reEnabled => \/ gate.op \in {"Start", "SetRuntimeMode", "Create"}
                    \/ gate.op = "Park" /\ gate.proc = left
                    \/ \E m \in Overrides : SetRuntimeMode(m) \/ Sync(m)]_historyVars
=============================================================================
