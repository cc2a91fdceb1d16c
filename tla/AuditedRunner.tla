--------------------------- MODULE AuditedRunner ---------------------------
(***************************************************************************)
(* tools/db_audit.py on the database of JobRunner: the audit opens it read *)
(* only, at any moment, and each of its checks is one statement.  What a   *)
(* check reports as an error must not exist in any state, so it does not   *)
(* matter that two checks of one audit may see two states.                 *)
(***************************************************************************)
EXTENDS JobRunner, Audit

CONSTANT
    Released   \* parser_versions.released_at: the order of the releases

ASSUME ReleasedType == Released \in [Versions -> Nat]

-----------------------------------------------------------------------------
\* The job of a process that is gone; the others end before they are reported.
Dangling(j) == jobs[j].status = "running" /\ \A r \in Runners : run[r].job # j

\* The tables the audit reads.  There is one layout.
Database ==
    [pdfs            |-> Pdfs,
     layouts         |-> {"layout"},
     parser_versions |-> {[id |-> v, released_at |-> Released[v]] : v \in Versions},
     sections        |->
        {[slot |-> x[1], version |-> x[2], layout |-> "layout",
          status |-> IF x[2] = active[x[1]] THEN "parsed" ELSE "superseded"] :
            x \in {y \in Slots \X Versions : HasSection(y[1], y[2])}},
     candidates      |->
        {[slot |-> c[1], section_version |-> c[2], index |-> c[3],
          version |-> candidate[c].version, status |-> candidate[c].status] :
            c \in {d \in Records : candidate[d].status # "absent"}},
     jobs            |->
        {[id |-> j, pdf |-> jobs[j].pdf, version |-> jobs[j].version,
          status |-> jobs[j].status, finished_at |-> jobs[j].finished,
          stale |-> Dangling(j)] : j \in DOMAIN jobs}]

-----------------------------------------------------------------------------
(***************************************************************************)
(* Properties                                                              *)
(***************************************************************************)

\* docs/operations/db_audit.md: whatever crashes, escapes and interleavings the
\* pipeline goes through, the audit has nothing to report but warnings.
AuditFindsNoError == ExitCode(RunAudit(Database)) < 2

\* db_audit.md on Q2, "does not happen in a normal Case C": a newer release's
\* section is superseded by an older one's only if a job of the older release was
\* still at the document when the newer release's first job had begun.
InversionIsExplained(x) ==
    \E a, b \in DOMAIN jobs :
        /\ jobs[a].pdf = x[1].slot[1] /\ jobs[a].version = x[1].version
        /\ jobs[b].pdf = x[1].slot[1] /\ jobs[b].version = x[2].version
        /\ jobs[a].finished = 0 \/ jobs[a].finished >= b

\* db_audit.md on Q6: a pending record under a superseded section is one the
\* Normalizer was unsure about, or a job of its release counted a failure on the
\* document, or is still running or died there: none is left by a job that
\* reported success.
GhostIsExplained(cr) ==
    \/ candidate[<<cr.slot, cr.section_version, cr.index>>].judgedBy # 0
    \/ \E j \in DOMAIN jobs :
          /\ jobs[j].pdf = cr.slot[1]
          /\ jobs[j].version = cr.section_version
          /\ jobs[j].status = "running" \/ jobs[j].failed > 0

\* The warnings of the audit tell what has happened and nothing else: Q2 and Q6
\* as above, and Q8, a job in status running that nobody runs, appears once for
\* each process that was killed or left by an exception.
WarningsAreExplained ==
    LET db == Database IN
    /\ \A x \in Q2(db) : InversionIsExplained(x)
    /\ \A cr \in Q6(db) : GhostIsExplained(cr)
    /\ Cardinality(Q8(db)) <= spent.crashes + spent.escapes
=============================================================================
