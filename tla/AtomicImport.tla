---------------------------- MODULE AtomicImport ----------------------------
(***************************************************************************)
(* What the importer promises, with no directory, backup or daemon in      *)
(* sight: a service has one version at a time, an import replaces it in    *)
(* one step or not at all, and nothing else touches it but a deletion.  A  *)
(* crash is an import that did not happen; a recovery is nothing at all.   *)
(* ServiceArtifacts implements it.                                         *)
(***************************************************************************)

CONSTANTS
    Service,    \* service ids
    Package,    \* packages, by artifact hash
    None        \* no version

VARIABLES
    served,     \* the version of each service
    pending     \* imports that are neither committed nor over

vars == <<served, pending>>

Init == served = [s \in Service |-> None] /\ pending = {}

Begin(s, p) ==
    /\ pending' = pending \union {<<s, p>>}
    /\ UNCHANGED served

\* The commit, after which the import cannot fail any more.
Commit(s, p) ==
    /\ <<s, p>> \in pending
    /\ served' = [served EXCEPT ![s] = p]
    /\ pending' = pending \ {<<s, p>>}

\* The import failed, or its daemon died.
Abort(s, p) ==
    /\ <<s, p>> \in pending
    /\ pending' = pending \ {<<s, p>>}
    /\ UNCHANGED served

Delete(s) ==
    /\ served' = [served EXCEPT ![s] = None]
    /\ UNCHANGED pending

Next ==
    \E s \in Service :
        \/ Delete(s)
        \/ \E p \in Package : Begin(s, p) \/ Commit(s, p) \/ Abort(s, p)

Spec == Init /\ [][Next]_vars

=============================================================================
