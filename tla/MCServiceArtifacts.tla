------------------------- MODULE MCServiceArtifacts -------------------------
(***************************************************************************)
(* Instances of ServiceArtifacts for TLC.                                  *)
(***************************************************************************)
EXTENDS ServiceArtifacts, TLC

CONSTANTS p1, p2, p3, t1, t2, d1

\* Two packages that differ in their code and share a proto surface, and a
\* third with another one; the first two with a runtime tree each.
Packages     == {p1, p2, p3}
Descriptors  == {"v1", "v2"}
Descriptions == (p1 :> "v1") @@ (p2 :> "v1") @@ (p3 :> "v2")
Trees        == {t1, t2}
TreesOf      == (p1 :> t1) @@ (p2 :> t2) @@ (p3 :> t2)

Symmetry == Permutations(Service)
=============================================================================
