-------------------------- MODULE MCSectionLineage --------------------------
(* An instance of SectionLineage for TLC. *)
EXTENDS SectionLineage, TLC

CONSTANTS r1, r2, r3, v1, v2

\* Two releases of the parser side by side, one of them in two processes.
ThreeRunners == (r1 :> v1) @@ (r2 :> v2) @@ (r3 :> v2)
=============================================================================
