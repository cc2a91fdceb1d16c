---------------------------- MODULE MCReviewGold ----------------------------
(* Instances of ReviewGold and GoldExport for TLC. *)
EXTENDS GoldExport, TLC

\* Reviewers do the same things, and no invariant tells them apart.
Symmetry == Permutations(Reviewers)
=============================================================================
