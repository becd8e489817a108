---------------------------- MODULE MCSupervisor ----------------------------
(***************************************************************************)
(* Instances of Supervisor for TLC.                                        *)
(***************************************************************************)
EXTENDS Supervisor, Naturals, FiniteSets, TLC

\* Processes and requests are interchangeable.
Symmetry == Permutations(Proc) \union Permutations(Req)

\* Liveness, where symmetry is not used: of the fresh processes the next spawn
\* takes a fixed one; at most MaxLeaked processes outlive a daemon at a time;
\* and no operation takes the gate past an exit watcher that waits for it, which
\* a Go mutex serves in order once it has starved for a millisecond.  The
\* operator calls left out go on in the same steps as the ones kept.
MaxLeaked == 1

LiveOperator ==
    \/ Start \/ Stop \/ Restart
    \/ \E m \in {"inherit", OD, STZ} :
          SetRuntimeMode(m) \/ \E s \in BOOLEAN : Create(m, s)

LiveNext ==
    /\ \/ OperationStep \/ LiveOperator \/ Background \/ Reconcile \/ Lifecycle
       \/ \E p \in Proc : ProcExit(p)
    /\ gate.pc = "start" /\ gate'.pc = "spawn" =>
          gate'.proc = CHOOSE p \in Proc : Fresh(p)
    /\ Cardinality(leaked') <= MaxLeaked
    /\ GateFree /\ gate'.pc # "free" => waiters \subseteq alive

LiveInit == Init /\ svcMode = LR
FairSpec == LiveInit /\ [][LiveNext]_vars /\ Fairness

=============================================================================
