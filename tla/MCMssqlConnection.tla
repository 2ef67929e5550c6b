-------------------------- MODULE MCMssqlConnection --------------------------
(* Instances of MssqlConnection for TLC. *)
EXTENDS MssqlConnection, TLC

\* Writes differ only by identity.
WriteSymmetry == Permutations(Write)

=============================================================================
