----------------------------- MODULE MCGateway -----------------------------
(***************************************************************************)
(* Instances of Gateway for TLC.                                           *)
(***************************************************************************)
EXTENDS Gateway, TLC

Symmetry == Permutations(Inst) \union Permutations(Call) \union Permutations(Port)

=============================================================================
