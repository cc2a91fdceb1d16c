------------------------------- MODULE Audit -------------------------------
(***************************************************************************)
(* The checks of tools/db_audit.py that are about the pipeline's tables,   *)
(* as operators on the contents of a database.  db is a record of tables,  *)
(* a table a set of rows:                                                  *)
(*   pdfs, layouts    sets of ids                                          *)
(*   parser_versions  [id, released_at]                                    *)
(*   sections         [slot, version, status, layout]                      *)
(*   candidates       [slot, section_version, index, version, status]      *)
(*   jobs             [id, pdf, version, status, finished_at, stale]       *)
(* A section's key is its slot and version, so a candidate refers to one   *)
(* by slot and section_version.  Each check is one SELECT, the rows it     *)
(* returns are what it finds.                                              *)
(***************************************************************************)
EXTENDS Naturals

Ids(table) == {row.id : row \in table}

Parsed(db)     == {s \in db.sections : s.status = "parsed"}
Superseded(db) == {s \in db.sections : s.status = "superseded"}

ReleasedAt(db, v) == (CHOOSE pv \in db.parser_versions : pv.id = v).released_at

\* The section a candidate record belongs to, as a set of none or one.
SectionOf(db, cr) ==
    {s \in db.sections : s.slot = cr.slot /\ s.version = cr.section_version}

\* Two sections of one slot are in force.
Q1(db) == {s \in Parsed(db) : \E t \in Parsed(db) : t # s /\ t.slot = s.slot}

\* A newer release's section is superseded where an older one's is in force.
Q2(db) ==
    {x \in Parsed(db) \X Superseded(db) :
        /\ x[1].slot = x[2].slot
        /\ ReleasedAt(db, x[2].version) > ReleasedAt(db, x[1].version)}

\* A superseded section without a successor in force.
Q3(db) == {s \in Superseded(db) : \A p \in Parsed(db) : p.slot # s.slot}

\* A section of a PDF, a version or a layout that does not exist.
Q4(db) ==
    {s \in db.sections :
        \/ s.slot[1] \notin db.pdfs
        \/ s.version \notin Ids(db.parser_versions)
        \/ s.layout  \notin db.layouts}

\* A candidate record of a section that does not exist.
Q5(db) == {cr \in db.candidates : SectionOf(db, cr) = {}}

\* A pending record under a superseded section.
Q6(db) ==
    {cr \in db.candidates :
        cr.status = "pending" /\ \E s \in SectionOf(db, cr) : s.status = "superseded"}

\* A record of another version than its section.
Q7(db) ==
    {cr \in db.candidates : \E s \in SectionOf(db, cr) : s.version # cr.version}

\* A job that has been running for too long.
Q8(db) == {j \in db.jobs : j.status = "running" /\ j.stale}

\* A running job that has an end, or a finished one that has none.
Q9(db) ==
    {j \in db.jobs :
        \/ j.status = "running" /\ j.finished_at # 0
        \/ j.status \in {"succeeded", "failed"} /\ j.finished_at = 0}

\* A job of a PDF or a version that does not exist.
Q10(db) ==
    {j \in db.jobs : j.pdf \notin db.pdfs \/ j.version \notin Ids(db.parser_versions)}

\* run_audit(build_checks()).
RunAudit(db) ==
    {[check |-> "Q1",  severity |-> "error",   rows |-> Q1(db)],
     [check |-> "Q2",  severity |-> "warning", rows |-> Q2(db)],
     [check |-> "Q3",  severity |-> "error",   rows |-> Q3(db)],
     [check |-> "Q4",  severity |-> "error",   rows |-> Q4(db)],
     [check |-> "Q5",  severity |-> "error",   rows |-> Q5(db)],
     [check |-> "Q6",  severity |-> "warning", rows |-> Q6(db)],
     [check |-> "Q7",  severity |-> "error",   rows |-> Q7(db)],
     [check |-> "Q8",  severity |-> "warning", rows |-> Q8(db)],
     [check |-> "Q9",  severity |-> "error",   rows |-> Q9(db)],
     [check |-> "Q10", severity |-> "error",   rows |-> Q10(db)]}

\* determine_exit_code().
ExitCode(results) ==
    LET found == {r.severity : r \in {x \in results : x.rows # {}}}
    IN IF "error" \in found THEN 2 ELSE IF "warning" \in found THEN 1 ELSE 0
=============================================================================
