------------------------- MODULE MCSupervisorHistory -------------------------
(***************************************************************************)
(* The instance of SupervisorHistory for TLC.                              *)
(***************************************************************************)
EXTENDS SupervisorHistory, TLC

\* Processes and requests are interchangeable.
Symmetry == Permutations(Proc) \union Permutations(Req)

=============================================================================
