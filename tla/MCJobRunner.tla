---------------------------- MODULE MCJobRunner ----------------------------
(* Instances of JobRunner and AuditedRunner for TLC. *)
EXTENDS AuditedRunner, TLC

CONSTANTS r1, r2, v1, v2

\* A runner of each of two releases.
TwoReleases == (r1 :> v1) @@ (r2 :> v2)

OneRunner == r1 :> v1

\* v2 is the newer release.
NewerSecond == (v1 :> 1) @@ (v2 :> 2)

OneRelease == v1 :> 1

\* One document of one section with two records.
OneSection == <<<<2>>>>

\* A document with two sections and one with an unrecognised layout.
TwoDocuments == <<<<1, 1>>, <<>>>>
=============================================================================
