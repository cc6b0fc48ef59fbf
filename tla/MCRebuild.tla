----------------------------- MODULE MCRebuild -----------------------------
(***************************************************************************)
(* Small instances of Rebuild.                                             *)
(***************************************************************************)
EXTENDS Rebuild, TLC

CONSTANTS ta, tb

\* Every step but the last.
ButRename == Steps \ {"rename"}

\* Nothing tells one table from the other.
EitherTable == Permutations({ta, tb})

=============================================================================
