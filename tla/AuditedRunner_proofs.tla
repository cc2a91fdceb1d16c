------------------------ MODULE AuditedRunner_proofs ------------------------
(***************************************************************************)
(* tools/db_audit.py finds no error in any state JobRunner reaches, for any *)
(* number of runners, versions and documents and any kills: each check that *)
(* would be one is a consequence of TablesInv or of the types.  And what it *)
(* warns of has happened: ExplainedInv names the job that a warning is due  *)
(* to, while it is running, finished or left behind.                        *)
(***************************************************************************)
EXTENDS AuditedRunner, JobRunner_proofs

\* The row of a section.
SectionRow(s, v) ==
    [slot |-> s, version |-> v, layout |-> "layout",
     status |-> IF v = active[s] THEN "parsed" ELSE "superseded"]

\* The rows of the tables the audit reads, as far as its errors are about them.
LEMMA DatabaseRows ==
  /\ Database.pdfs = Pdfs /\ Database.layouts = {"layout"}
  /\ Ids(Database.parser_versions) = Versions
  /\ \A x \in Database.sections :
        \E s \in Slots, v \in Versions : HasSection(s, v) /\ x = SectionRow(s, v)
  /\ \A s \in Slots, v \in Versions :
        HasSection(s, v) => SectionRow(s, v) \in Database.sections
  /\ \A x \in Database.candidates :
        \E c \in Records : /\ candidate[c].status # "absent"
                           /\ x.slot = c[1] /\ x.section_version = c[2]
                           /\ x.index = c[3]
                           /\ x.version = candidate[c].version
                           /\ x.status = candidate[c].status
  /\ \A x \in Database.jobs :
        \E j \in DOMAIN jobs : /\ x.pdf = jobs[j].pdf /\ x.version = jobs[j].version
                               /\ x.status = jobs[j].status
                               /\ x.finished_at = jobs[j].finished
<1>1. Database.pdfs = Pdfs /\ Database.layouts = {"layout"}
  BY DEF Database
<1>2. Ids(Database.parser_versions) = Versions
  <2> DEFINE row(v) == [id |-> v, released_at |-> Released[v]]
             table == {row(v) : v \in Versions}
  <2>1. Database.parser_versions = table
    BY DEF Database
  <2>2. \A v \in Versions : row(v).id = v
    OBVIOUS
  <2> HIDE DEF row
  <2>3. {x.id : x \in table} = Versions
    BY <2>2
  <2> QED
    BY <2>1, <2>3 DEF Ids
<1>3. Database.sections =
         {[slot |-> x[1], version |-> x[2], layout |-> "layout",
           status |-> IF x[2] = active[x[1]] THEN "parsed" ELSE "superseded"] :
             x \in {y \in Slots \X Versions : HasSection(y[1], y[2])}}
  BY DEF Database
<1>4. \A x \in Database.sections :
         \E s \in Slots, v \in Versions : HasSection(s, v) /\ x = SectionRow(s, v)
  <2> TAKE x \in Database.sections
  <2>1. PICK y \in Slots \X Versions :
           /\ HasSection(y[1], y[2])
           /\ x = [slot |-> y[1], version |-> y[2], layout |-> "layout",
                   status |-> IF y[2] = active[y[1]] THEN "parsed" ELSE "superseded"]
    BY <1>3
  <2>2. x = SectionRow(y[1], y[2])
    BY <2>1 DEF SectionRow
  <2> QED
    BY <2>1, <2>2
<1>5. ASSUME NEW s \in Slots, NEW v \in Versions, HasSection(s, v)
      PROVE  SectionRow(s, v) \in Database.sections
  <2> DEFINE y == <<s, v>>
  <2>1. y \in Slots \X Versions /\ y[1] = s /\ y[2] = v
    OBVIOUS
  <2>2. HasSection(y[1], y[2])
    BY <1>5, <2>1
  <2>3. [slot |-> y[1], version |-> y[2], layout |-> "layout",
         status |-> IF y[2] = active[y[1]] THEN "parsed" ELSE "superseded"]
        \in Database.sections
    <3> HIDE DEF y
    <3> QED
      BY <1>3, <2>1, <2>2
  <2> QED
    BY <2>1, <2>3 DEF SectionRow
<1>6. \A x \in Database.candidates :
         \E c \in Records : /\ candidate[c].status # "absent"
                            /\ x.slot = c[1] /\ x.section_version = c[2]
                            /\ x.index = c[3]
                            /\ x.version = candidate[c].version
                            /\ x.status = candidate[c].status
  <2>1. Database.candidates =
           {[slot |-> c[1], section_version |-> c[2], index |-> c[3],
             version |-> candidate[c].version, status |-> candidate[c].status] :
               c \in {d \in Records : candidate[d].status # "absent"}}
    BY DEF Database
  <2> QED
    BY <2>1
<1>7. \A x \in Database.jobs :
         \E j \in DOMAIN jobs : /\ x.pdf = jobs[j].pdf /\ x.version = jobs[j].version
                                /\ x.status = jobs[j].status
                                /\ x.finished_at = jobs[j].finished
  <2>1. Database.jobs =
           {[id |-> j, pdf |-> jobs[j].pdf, version |-> jobs[j].version,
             status |-> jobs[j].status, finished_at |-> jobs[j].finished,
             stale |-> Dangling(j)] : j \in DOMAIN jobs}
    BY DEF Database
  <2> QED
    BY <2>1
<1> QED
  BY <1>1, <1>2, <1>4, <1>5, <1>6, <1>7

\* A result that is an error has no rows.
LEMMA NoErrors ==
  ASSUME JobInv, TablesInv
  PROVE  AuditFindsNoError
<1> DEFINE db == Database
<1>1. /\ db.pdfs = Pdfs /\ db.layouts = {"layout"} /\ Ids(db.parser_versions) = Versions
      /\ \A x \in db.sections :
            \E s \in Slots, v \in Versions : HasSection(s, v) /\ x = SectionRow(s, v)
      /\ \A s \in Slots, v \in Versions : HasSection(s, v) => SectionRow(s, v) \in db.sections
  BY DatabaseRows
<1>2. \A x \in db.candidates :
         \E c \in Records : /\ candidate[c].status # "absent"
                            /\ x.slot = c[1] /\ x.section_version = c[2]
                            /\ x.version = candidate[c].version
  BY DatabaseRows
<1>3. \A x \in db.jobs :
         \E j \in DOMAIN jobs : /\ x.pdf = jobs[j].pdf /\ x.version = jobs[j].version
                                /\ x.status = jobs[j].status
                                /\ x.finished_at = jobs[j].finished
  BY DatabaseRows
<1> HIDE DEF db
<1>4. \A s, v : /\ SectionRow(s, v).slot = s /\ SectionRow(s, v).version = v
                /\ SectionRow(s, v).layout = "layout"
                /\ SectionRow(s, v).status = (IF v = active[s] THEN "parsed" ELSE "superseded")
  BY DEF SectionRow
<1>5. /\ active \in [Slots -> Versions \union {NoVersion}]
      /\ \A j \in DOMAIN jobs : jobs[j] \in JobRows
      /\ RecordsHaveSections /\ SupersededHaveSuccessor /\ FinishedHaveEnd
  BY JobTypes DEF JobInv, TypeOK, TablesInv
<1>6. Q1(db) = {}
  BY <1>1, <1>4 DEF Q1, Parsed
<1>7. Q3(db) = {}
  <2> SUFFICES ASSUME NEW x \in db.sections, x.status = "superseded"
               PROVE  \E p \in Parsed(db) : p.slot = x.slot
    BY DEF Q3, Superseded
  <2>1. PICK s \in Slots, v \in Versions : HasSection(s, v) /\ x = SectionRow(s, v)
    BY <1>1
  <2>2. v # active[s] /\ v \in retired[s]
    BY <1>4, <2>1 DEF HasSection
  <2>3. active[s] \in Versions
    BY <1>5, <2>2 DEF SupersededHaveSuccessor
  <2>4. SectionRow(s, active[s]) \in db.sections
    BY <1>1, <2>3 DEF HasSection
  <2> QED
    BY <1>4, <2>1, <2>4 DEF Parsed
<1>8. Q4(db) = {}
  <2>1. \A s \in Slots : s[1] \in Pdfs
    BY SlotFacts
  <2> QED
    BY <1>1, <1>4, <2>1 DEF Q4
<1>9. ASSUME NEW x \in db.candidates
      PROVE  /\ SectionOf(db, x) # {}
             /\ \A s \in SectionOf(db, x) : s.version = x.version
  <2>1. PICK c \in Records : /\ candidate[c].status # "absent"
                             /\ x.slot = c[1] /\ x.section_version = c[2]
                             /\ x.version = candidate[c].version
    BY <1>2
  <2>2. candidate[c].version = c[2] /\ HasSection(c[1], c[2])
    BY <1>5, <2>1 DEF RecordsHaveSections
  <2>3. SectionRow(c[1], c[2]) \in db.sections
    BY <1>1, <2>2, RecordFacts
  <2>4. SectionRow(c[1], c[2]) \in SectionOf(db, x)
    BY <1>4, <2>1, <2>3 DEF SectionOf
  <2> QED
    BY <2>1, <2>2, <2>4 DEF SectionOf
<1>10. Q5(db) = {} /\ Q7(db) = {}
  BY <1>9 DEF Q5, Q7
<1>11. Q9(db) = {} /\ Q10(db) = {}
  <2> SUFFICES ASSUME NEW x \in db.jobs
               PROVE  /\ x.status = "running" => x.finished_at = 0
                      /\ x.status \in {"succeeded", "failed"} => x.finished_at # 0
                      /\ x.pdf \in db.pdfs /\ x.version \in Ids(db.parser_versions)
    BY DEF Q9, Q10
  <2>1. PICK j \in DOMAIN jobs : /\ x.pdf = jobs[j].pdf /\ x.version = jobs[j].version
                                 /\ x.status = jobs[j].status
                                 /\ x.finished_at = jobs[j].finished
    BY <1>3
  <2>2. jobs[j].pdf \in Pdfs /\ jobs[j].version \in Versions
    BY <1>5 DEF JobRows
  <2> QED
    BY <1>1, <1>5, <2>1, <2>2 DEF FinishedHaveEnd
<1>12. \A x \in RunAudit(db) : x.severity = "error" => x.rows = {}
  BY <1>6, <1>7, <1>8, <1>10, <1>11 DEF RunAudit
<1>13. ExitCode(RunAudit(db)) < 2
  <2>1. "error" \notin {x.severity : x \in {y \in RunAudit(db) : y.rows # {}}}
    BY <1>12
  <2> QED
    BY <2>1 DEF ExitCode
<1> QED
  BY <1>13 DEF AuditFindsNoError, db

\* Whatever the pipeline goes through, the audit's exit code is not 2.
THEOREM AuditIsClean == Spec => []AuditFindsNoError
<1>1. JobInv /\ TablesInv => AuditFindsNoError
  BY NoErrors
<1> QED
  BY <1>1, JobInvariant, TablesInvariant, PTL
-----------------------------------------------------------------------------
(* What the audit's warnings tell.                                         *)

\* Jobs in status running that nobody runs.
Danglings == {j \in DOMAIN jobs : Dangling(j)}

\* A runner that is about to write the status of its PDF has finished its job.
EndsWithJob(r) == run[r].pc = "update_pdf" => jobs[run[r].job].status # "running"

\* The versions a section was adopted by, by jobs of theirs: where a version was
\* superseded by the one in force, the job of the latter ended after the former's
\* began.
SectionsHaveJobs ==
    \A s \in Slots, v \in Versions : HasSection(s, v) =>
        \E b \in DOMAIN jobs :
            /\ jobs[b].pdf = s[1] /\ jobs[b].version = v
            /\ v # active[s] =>
                   \E a \in DOMAIN jobs :
                       /\ jobs[a].pdf = s[1] /\ jobs[a].version = active[s]
                       /\ jobs[a].finished = 0 \/ jobs[a].finished >= b

\* The runner has c still to do.
Working(r) ==
    {c \in Records :
        /\ run[r].pc \in InRecord
        /\ c[1] = Slot(r) /\ c[2] = VersionOf[r] /\ c[3] \in run[r].todo}

\* Job j explains that c is pending: it failed, or is left behind, or its runner
\* has failed at something or has c still to do.
Explains(j, c) ==
    /\ jobs[j].pdf = c[1][1] /\ jobs[j].version = c[2]
    /\ \/ jobs[j].status # "running" /\ jobs[j].failed > 0
       \/ Dangling(j)
       \/ \E r \in Runners : /\ run[r].job = j /\ run[r].pc \in WithJob \ {"update_pdf"}
                             /\ run[r].failed > 0 \/ c \in Working(r)

PendingIsExplained ==
    \A c \in Records :
        candidate[c].status = "pending" /\ candidate[c].judgedBy = 0
            => \E j \in DOMAIN jobs : Explains(j, c)

ExplainedInv ==
    /\ \A r \in Runners : EndsWithJob(r)
    /\ SectionsHaveJobs
    /\ PendingIsExplained
    /\ Cardinality(Danglings) <= Lost


\* The number of processes lost only grows.
LEMMA LostGrows ==
  ASSUME JobInv, Next
  PROVE  Lost \in Nat /\ Lost' \in Nat /\ Lost' >= Lost
<1>1. PICK r \in Runners : \/ StartBatch(r)
                           \/ \E p \in Pdfs : RunJob(r, p)
                           \/ Step(r)
                           \/ LoadKnowledgeRaises(r)
                           \/ Crash(r)
  BY DEF Next
<1>2. spent.crashes \in Nat /\ spent.escapes \in Nat /\ spent \in SpentRecords
  BY BoundsType DEF JobInv, TypeOK, SpentRecords
<1>3. CASE \E p \in Pdfs : RunJob(r, p)
  BY <1>2, <1>3 DEF RunJob, SpentRecords, Lost
<1>4. CASE LoadKnowledgeRaises(r)
  BY <1>2, <1>4 DEF LoadKnowledgeRaises, SpentRecords, Lost
<1>5. CASE Crash(r)
  BY <1>2, <1>5 DEF Crash, SpentRecords, Lost
<1>6. CASE StartBatch(r) \/ Step(r)
  <2>1. spent' = spent
    BY <1>6
       DEF Step, StartBatch, AddJob, LoadKnowledge, DocumentStages, DocumentStagesFail,
           FindSection, AddSection, AddSectionFails, Extract, ExtractFails, FindCandidate,
           AddRaw, Normalize, NormalizeUnsure, NormalizeFails, Validate, ValidateFails,
           UpdateJob, UpdatePdf
  <2> QED
    BY <1>2, <2>1 DEF Lost
<1> QED
  BY <1>1, <1>3, <1>4, <1>5, <1>6

\* A job that was running is so still, or its runner finishes it now, after every
\* job there is has begun.
LEMMA JobsGoOn ==
  ASSUME JobInv, NEW r \in Runners, Moves(r), NEW j \in DOMAIN jobs
  PROVE  /\ Len(jobs) \in Nat /\ DOMAIN jobs = 1 .. Len(jobs)
         /\ j \in DOMAIN jobs' /\ jobs'[j].pdf = jobs[j].pdf /\ jobs'[j].version = jobs[j].version
         /\ \/ jobs'[j] = jobs[j]
            \/ /\ Finishes(r) /\ j = run[r].job
               /\ jobs'[j].status # "running" /\ jobs'[j].finished = Len(jobs)
<1>1. TypeOK /\ Driven(r) /\ JobsStay(r) /\ Len(jobs) \in Nat /\ DOMAIN jobs = 1 .. Len(jobs)
  BY RunnerTypes DEF JobInv, Moves, Grows
<1>2. CASE Finishes(r) /\ j = run[r].job
  <2>1. jobs'[j].status # "running"
    BY <1>2, FinishesRow
  <2>2. jobs \in Seq(JobRows) /\ jobs[j] \in JobRows
    BY <1>1, JobTypes
  <2>3. jobs'[j] = [jobs[j] EXCEPT
             !.status    = IF run[r].failed = 0 THEN "succeeded" ELSE "failed",
             !.processed = run[r].processed,
             !.failed    = run[r].failed,
             !.finished  = Len(jobs)]
    BY <1>2, <2>2 DEF Finishes
  <2>4. jobs'[j].finished = Len(jobs)
    BY ONLY <2>2, <2>3 DEF JobRows
  <2> QED
    BY <1>1, <1>2, <2>1, <2>4 DEF JobsStay
<1>3. CASE ~Finishes(r)
  <2>1. CASE Begins(r)
    BY <1>1, <2>1 DEF Begins, JobsStay, TypeOK
  <2>2. CASE Leaves(r) \/ Advances(r)
    BY <1>1, <2>2 DEF Leaves, Advances, JobsStay
  <2> QED
    BY <1>3, <2>1, <2>2 DEF Moves
<1> QED
  BY <1>1, <1>2, <1>3 DEF JobsStay

\* The runner comes to write the status of its PDF by finishing its job.
LEMMA MoverEndsWithJob ==
  ASSUME JobInv, ExplainedInv, NEW r \in Runners, Moves(r), NEW q \in Runners
  PROVE  EndsWithJob(q)'
<1> SUFFICES ASSUME run'[q].pc = "update_pdf"
             PROVE  jobs'[run'[q].job].status # "running"
  BY DEF EndsWithJob
<1>1. CASE q = r
  <2>1. Finishes(r)
    BY <1>1 DEF Moves, Leaves, Begins, Advances
  <2>2. jobs'[run[r].job].status # "running"
    BY <2>1, FinishesRow
  <2> QED
    BY <1>1, <2>1, <2>2 DEF Finishes, SameJob
<1>2. CASE q # r
  <2>1. run'[q] = run[q] /\ EndsWithJob(q)
    BY <1>2 DEF Moves, Grows, OthersStay, ExplainedInv
  <2>2. run[q].job \in DOMAIN jobs
    BY <2>1 DEF JobInv, Driven, HoldsJob, WithJob, Location
  <2> QED
    BY <2>1, <2>2, JobsGoOn DEF EndsWithJob
<1> QED
  BY <1>1, <1>2

\* A section is adopted by a job, and a job that had not ended before another
\* began does not end before it did.
LEMMA AdoptedByJobs ==
  ASSUME JobInv, TablesInv, ExplainedInv, Next
  PROVE  SectionsHaveJobs'
<1>1. PICK r \in Runners : Moves(r)
  BY NextMoves
<1>t. /\ active \in [Slots -> Versions \union {NoVersion}]
      /\ retired \in [Slots -> SUBSET Versions]
      /\ Len(jobs) \in Nat /\ DOMAIN jobs = 1 .. Len(jobs)
      /\ \A j \in DOMAIN jobs : jobs[j] \in JobRows
  <2>1. TypeOK /\ Driven(r)
    BY DEF JobInv
  <2>2. Len(jobs) \in Nat /\ DOMAIN jobs = 1 .. Len(jobs)
    BY <2>1, RunnerTypes
  <2>3. \A j \in DOMAIN jobs : jobs[j] \in JobRows
    BY <2>1, JobTypes
  <2> QED
    BY <2>1, <2>2, <2>3 DEF TypeOK
<1>2. ASSUME NEW s \in Slots, NEW v \in Versions, HasSection(s, v)
      PROVE  \E b \in DOMAIN jobs' :
                /\ jobs'[b].pdf = s[1] /\ jobs'[b].version = v
                /\ v # active[s] =>
                       \E a \in DOMAIN jobs' :
                           /\ jobs'[a].pdf = s[1] /\ jobs'[a].version = active[s]
                           /\ jobs'[a].finished = 0 \/ jobs'[a].finished >= b
  <2>1. PICK b \in DOMAIN jobs :
           /\ jobs[b].pdf = s[1] /\ jobs[b].version = v
           /\ v # active[s] =>
                  \E a \in DOMAIN jobs :
                      /\ jobs[a].pdf = s[1] /\ jobs[a].version = active[s]
                      /\ jobs[a].finished = 0 \/ jobs[a].finished >= b
    BY <1>2 DEF ExplainedInv, SectionsHaveJobs
  <2>2. b \in DOMAIN jobs' /\ jobs'[b].pdf = s[1] /\ jobs'[b].version = v
    BY <1>1, <2>1, JobsGoOn
  <2>3. ASSUME v # active[s]
        PROVE  \E a \in DOMAIN jobs' :
                  /\ jobs'[a].pdf = s[1] /\ jobs'[a].version = active[s]
                  /\ jobs'[a].finished = 0 \/ jobs'[a].finished >= b
    <3>1. PICK a \in DOMAIN jobs :
             /\ jobs[a].pdf = s[1] /\ jobs[a].version = active[s]
             /\ jobs[a].finished = 0 \/ jobs[a].finished >= b
      BY <2>1, <2>3
    <3>2. /\ a \in DOMAIN jobs' /\ jobs'[a].pdf = s[1] /\ jobs'[a].version = active[s]
          /\ jobs'[a].finished = jobs[a].finished \/ jobs'[a].finished = Len(jobs)
      BY <1>1, <3>1, JobsGoOn
    <3> QED
      BY <1>t, <3>1, <3>2
  <2> QED
    BY <2>2, <2>3
<1>3. CASE active' = active /\ retired' = retired
  BY <1>2, <1>3 DEF SectionsHaveJobs, HasSection
<1>4. CASE \E q \in Runners : AddSection(q)
  <2>1. PICK q \in Runners : AddSection(q)
    BY <1>4
  <2> DEFINE s == Slot(q)
             u == VersionOf[q]
             a == run[q].job
  <2>2. s \in Slots /\ u \in Versions /\ s[1] = run[q].pdf /\ jobs' = jobs
    BY <2>1, RunnerTypes DEF AddSection, At, JobInv, InSection, Slot
  <2>3. /\ a \in DOMAIN jobs /\ jobs[a].pdf = s[1] /\ jobs[a].version = u
        /\ jobs[a].finished = 0
    BY <2>1, <2>2 DEF AddSection, At, JobInv, Driven, HoldsJob, WithJob, Location,
                      TablesInv, FinishedHaveEnd
  <2>4. /\ active' = [active EXCEPT ![s] = u]
        /\ retired' = [retired EXCEPT ![s] = @ \union ({active[s]} \ {NoVersion})]
    BY <2>1 DEF AddSection, Ledger!Adopt
  <2> HIDE DEF s, u, a
  <2>5. ASSUME NEW t \in Slots, NEW v \in Versions, HasSection(t, v)'
        PROVE  \E b \in DOMAIN jobs :
                  /\ jobs[b].pdf = t[1] /\ jobs[b].version = v
                  /\ v # active'[t] =>
                         \E d \in DOMAIN jobs :
                             /\ jobs[d].pdf = t[1] /\ jobs[d].version = active'[t]
                             /\ jobs[d].finished = 0 \/ jobs[d].finished >= b
    <3>1. CASE t = s /\ v = u
      <4>1. active'[t] = v
        BY <1>t, <2>2, <2>4, <3>1
      <4> QED
        BY <2>3, <3>1, <4>1
    <3>2. CASE t = s /\ v # u
      <4>1. active'[t] = u /\ HasSection(t, v)
        BY <1>t, <2>2, <2>4, <2>5, <3>2 DEF HasSection
      <4>2. PICK b \in DOMAIN jobs : jobs[b].pdf = t[1] /\ jobs[b].version = v
        BY <4>1 DEF ExplainedInv, SectionsHaveJobs
      <4> QED
        BY <2>3, <3>2, <4>1, <4>2
    <3>3. CASE t # s
      <4>1. active'[t] = active[t] /\ HasSection(t, v)
        BY <1>t, <2>2, <2>4, <2>5, <3>3 DEF HasSection
      <4> QED
        BY <4>1 DEF ExplainedInv, SectionsHaveJobs
    <3> QED
      BY <3>1, <3>2, <3>3
  <2> QED
    BY <2>2, <2>5 DEF SectionsHaveJobs
<1>5. CASE ~(\E q \in Runners : AddSection(q))
  <2>1. active' = active /\ retired' = retired
    <3>1. PICK q \in Runners : \/ StartBatch(q)
                               \/ \E p \in Pdfs : RunJob(q, p)
                               \/ Step(q)
                               \/ LoadKnowledgeRaises(q)
                               \/ Crash(q)
      BY DEF Next
    <3> QED
      BY <1>5, <3>1
         DEF Step, StartBatch, RunJob, LoadKnowledgeRaises, Crash, AddJob, LoadKnowledge,
             DocumentStages, DocumentStagesFail, FindSection, AddSectionFails, Extract,
             ExtractFails, FindCandidate, AddRaw, Normalize, NormalizeUnsure, NormalizeFails,
             Validate, ValidateFails, UpdateJob, UpdatePdf, dbVars
  <2> QED
    BY <1>3, <2>1
<1> QED
  BY <1>4, <1>5

\* What a step changes of a pending record leaves it explained: the runner that
\* gave up on it has counted a failure, and one that is killed leaves its job.
LEMMA PendingStaysExplained ==
  ASSUME JobInv, TablesInv, ExplainedInv, NEW r \in Runners, Moves(r),
         NEW c \in Records, candidate[c].status = "pending", candidate[c].judgedBy = 0,
         ~(c = Record(r) /\ run[r].pc \in InRecord /\ candidate'[c].judgedBy # 0)
  PROVE  \E j \in DOMAIN jobs' : Explains(j, c)'
<1>1. PICK j \in DOMAIN jobs : Explains(j, c)
  BY DEF ExplainedInv, PendingIsExplained
<1>2. /\ Len(jobs) \in Nat /\ DOMAIN jobs = 1 .. Len(jobs) /\ j \in Nat /\ j # 0
      /\ j \in DOMAIN jobs' /\ jobs'[j].pdf = c[1][1] /\ jobs'[j].version = c[2]
  BY <1>1, JobsGoOn DEF Explains
<1>3. /\ TypeOK /\ Driven(r) /\ OthersStay(r) /\ JobsStay(r)
      /\ run[r].failed \in Nat /\ run[r].sec \in Nat
  BY RunnerTypes DEF JobInv, Moves, Grows
<1>4. SUFFICES \/ jobs'[j].status # "running" /\ jobs'[j].failed > 0
               \/ jobs'[j].status = "running" /\ \A q \in Runners : run'[q].job # j
               \/ \E q \in Runners : /\ run'[q].job = j
                                     /\ run'[q].pc \in WithJob \ {"update_pdf"}
                                     /\ run'[q].failed > 0 \/ c \in Working(q)'
  BY <1>2 DEF Explains, Dangling
<1>5. CASE j # run[r].job
  <2>1. jobs'[j] = jobs[j]
    BY <1>3, <1>5 DEF JobsStay
  <2>2. CASE Dangling(j)
    <3>1. run'[r].job # j
      BY <1>2, <1>5 DEF Moves, Leaves, Begins, Advances, Finishes, SameJob
    <3> QED
      BY <1>3, <2>1, <2>2, <3>1 DEF Dangling, OthersStay
  <2>3. CASE \E q \in Runners : /\ run[q].job = j /\ run[q].pc \in WithJob \ {"update_pdf"}
                                /\ run[q].failed > 0 \/ c \in Working(q)
    <3>1. PICK q \in Runners : /\ run[q].job = j /\ run[q].pc \in WithJob \ {"update_pdf"}
                               /\ run[q].failed > 0 \/ c \in Working(q)
      BY <2>3
    <3>2. run'[q] = run[q] /\ Working(q)' = Working(q)
      BY <1>3, <1>5, <3>1 DEF OthersStay, Working, Slot
    <3> QED
      BY <3>1, <3>2
  <2> QED
    BY <1>1, <2>1, <2>2, <2>3 DEF Explains
<1>6. CASE j = run[r].job
  <2>1. \A q \in Runners : q # r => run[q].job # j /\ run'[q].job # j
    BY <1>2, <1>3, <1>6 DEF JobInv, JobsAreOwn, OthersStay
  <2>2. run[r].pc \in WithJob
    BY <1>2, <1>3, <1>6 DEF Driven, HoldsJob
  <2>3. \/ run[r].pc = "update_pdf" /\ jobs[j].status # "running" /\ jobs[j].failed > 0
        \/ /\ run[r].pc \in WithJob \ {"update_pdf"} /\ jobs[j].status = "running"
           /\ run[r].failed > 0 \/ c \in Working(r)
    <3>1. run[r].pc \in WithJob \ {"update_pdf"} => jobs[j].status = "running"
      BY <1>3, <1>6 DEF Driven, HoldsJob
    <3> QED
      BY <1>1, <1>6, <2>1, <2>2, <3>1 DEF Explains, Dangling
  <2>4. CASE run[r].pc = "update_pdf" /\ jobs[j].status # "running" /\ jobs[j].failed > 0
    <3>1. jobs' = jobs
      BY <2>4 DEF Moves, Leaves, Begins, Advances, Finishes
    <3> QED
      BY <2>4, <3>1
  <2>5. CASE /\ run[r].pc \in WithJob \ {"update_pdf"} /\ jobs[j].status = "running"
             /\ run[r].failed > 0 \/ c \in Working(r)
    <3>1. CASE Leaves(r)
      BY <1>2, <2>1, <2>5, <3>1 DEF Leaves
    <3>2. CASE Finishes(r)
      <4>1. run[r].failed > 0
        BY <2>5, <3>2 DEF Finishes, Working, InRecord
      <4>2. jobs'[j].status = "failed" /\ jobs'[j].failed = run[r].failed
        BY <1>6, <3>2, <4>1, FinishesRow
      <4> QED
        BY <4>1, <4>2
    <3>3. CASE Advances(r)
      <4>1. /\ run'[r].job = j /\ run'[r].pc \in WithJob \ {"update_pdf"}
            /\ run'[r].pdf = run[r].pdf
        BY <1>6, <3>3 DEF Advances, SameJob
      <4>2. CASE run[r].failed > 0 \/ run'[r].failed = run[r].failed + 1
        BY <1>3, <3>3, <4>1, <4>2 DEF Advances
      <4>3. CASE c \in Working(r) /\ run'[r].failed # run[r].failed + 1
        <5>1. /\ run[r].pc \in InRecord /\ c[1] = Slot(r) /\ c[2] = VersionOf[r]
              /\ c[3] \in run[r].todo
          BY <4>3 DEF Working
        <5>2. c \in Ahead(r)
          BY <3>3, <5>1 DEF Ahead, Advances, Slot
        <5>3. c \in Ahead(r)'
          <6>1. ASSUME c \notin Ahead(r)' PROVE FALSE
            <7>1. c = Record(r) /\ Judges(r)
              BY <3>3, <4>3, <5>1, <5>2, <6>1 DEF Advances, Skips, InRecord, Decided
            <7>2. candidate'[c].judgedBy = run[r].job
              BY <7>1, JudgesFacts
            <7> QED
              BY <1>2, <1>6, <5>1, <7>1, <7>2
          <6> QED
            BY <6>1
        <5>4. run'[r].pc \in InRecord /\ Slot(r)' = Slot(r)
          BY <3>3, <5>1, <5>3 DEF Advances, StaysInSection
        <5>5. run'[r].sec = c[1][2]
          BY <5>1, <5>4 DEF Slot
        <5>6. c[3] \in run'[r].todo
          <6>1. ~(run[r].sec > run[r].sec)
            BY <1>3
          <6>2. run'[r].sec = run[r].sec
            BY <5>4 DEF Slot
          <6> QED
            BY <5>3, <5>4, <5>5, <6>1, <6>2 DEF Ahead
        <5>7. c \in Working(r)'
          BY <5>1, <5>4, <5>6 DEF Working
        <5> QED
          BY <4>1, <5>7
      <4> QED
        BY <2>5, <4>2, <4>3
    <3>4. CASE Begins(r)
      BY <2>2, <3>4 DEF Begins, WithJob
    <3> QED
      BY <3>1, <3>2, <3>3, <3>4 DEF Moves
  <2> QED
    BY <2>3, <2>4, <2>5
<1> QED
  BY <1>5, <1>6

\* A pending record was pending before, or is the one a runner inserts and has
\* still to do.
LEMMA MoverExplainsPending ==
  ASSUME JobInv, TablesInv, ExplainedInv, NEW r \in Runners, Moves(r)
  PROVE  PendingIsExplained'
<1> SUFFICES ASSUME NEW c \in Records, candidate'[c].status = "pending",
                    candidate'[c].judgedBy = 0
             PROVE  \E j \in DOMAIN jobs' : Explains(j, c)'
  BY DEF PendingIsExplained
<1>1. /\ TypeOK /\ Driven(r) /\ Len(jobs) \in Nat /\ DOMAIN jobs = 1 .. Len(jobs)
      /\ VersionOf[r] \in Versions
      /\ candidate \in [Records -> CandidateRows(Len(jobs))]
  BY RunnerTypes, TypesHere DEF JobInv
<1>2. run[r].pc \in WithJob => run[r].job \in DOMAIN jobs /\ run[r].job # 0
  BY <1>1 DEF Driven, HoldsJob
<1>3. CASE Inserts(r) /\ c = Record(r)
  <2>1. Advances(r) /\ run[r].pc \in InRecord /\ run'[r].pc = "normalize"
    BY <1>3 DEF Inserts, Moves, Leaves, Begins, Finishes, InRecord
  <2>2. /\ c = <<Slot(r), VersionOf[r], Min(run[r].todo)>>
        /\ run[r].pdf \in Pdfs /\ run[r].job \in DOMAIN jobs
        /\ jobs[run[r].job].pdf = run[r].pdf /\ jobs[run[r].job].version = VersionOf[r]
    BY <1>1, <1>3, <2>1, RunnerTypes DEF Driven, HoldsJob, WithJob, Location, InRecord
  <2>3. c = <<Slot(r)', run'[r].section, Min(run'[r].todo)>>
    BY <1>3 DEF Inserts, Record
  <2>4. Min(run'[r].todo) \in run'[r].todo
    <3>1. IsLocated(r)' /\ run'[r].pdf = run[r].pdf
      BY <2>1 DEF Advances, SameJob
    <3>2. PICK s : s = Slot(r)'
      OBVIOUS
    <3>3. /\ s = <<run[r].pdf, run'[r].sec>> /\ run'[r].sec \in DOMAIN Layout[run[r].pdf]
          /\ run'[r].todo # {} /\ run'[r].todo \subseteq RecordsIn(s)
      BY <2>1, <3>1, <3>2 DEF Slot, IsLocated, InSection, InRecord, RecordsIn
    <3>4. run'[r].todo \in SUBSET Nat
      BY <2>2, <3>3, SlotFacts
    <3> QED
      BY <3>3, <3>4, Lowest
  <2>5. c \in Working(r)'
    BY <2>1, <2>2, <2>3, <2>4 DEF Working, InRecord
  <2>6. PICK j \in DOMAIN jobs : j = run[r].job
    BY <2>2
  <2>7. /\ j \in DOMAIN jobs' /\ jobs'[j].pdf = c[1][1] /\ jobs'[j].version = c[2]
        /\ run'[r].job = j /\ run'[r].pc \in WithJob \ {"update_pdf"}
    BY <2>1, <2>2, <2>6 DEF Advances, SameJob, Slot, WithJob, Location
  <2> QED
    BY <2>5, <2>7 DEF Explains
<1>4. CASE ~(Inserts(r) /\ c = Record(r))
  <2>1. candidate[c].status = "pending" /\ candidate[c].judgedBy = 0
    <3>1. CASE Leaves(r) \/ Begins(r) \/ Finishes(r) \/ Reads(r)
      BY <3>1 DEF Leaves, Begins, Finishes, Reads
    <3>2. CASE Inserts(r)
      BY <1>1, <1>4, <3>2 DEF Inserts
    <3>3. CASE Attaches(r)
      <4>1. Record(r) \in Records
        BY <1>1, <3>3, RunnerTypes DEF Attaches, InRecord
      <4> QED
        BY <1>1, <3>3, <4>1 DEF Attaches, CandidateRows
    <3>4. CASE Judges(r)
      <4>1. run[r].job # 0
        BY <1>2, <3>4 DEF Judges, WithJob, Location
      <4> QED
        BY <3>4, <4>1, JudgesFacts
    <3> QED
      BY <3>1, <3>2, <3>3, <3>4 DEF Moves, Advances
  <2> QED
    BY <2>1, PendingStaysExplained
<1> QED
  BY <1>3, <1>4

\* A job is left behind by the step that loses its process.
LEMMA DanglingsAreLost ==
  ASSUME JobInv, TablesInv, ExplainedInv, Next
  PROVE  Cardinality(Danglings') <= Lost'
<1>1. PICK r \in Runners : Moves(r)
  BY NextMoves
<1>2. TypeOK /\ Driven(r) /\ OthersStay(r) /\ Len(jobs) \in Nat /\ DOMAIN jobs = 1 .. Len(jobs)
  BY <1>1, RunnerTypes DEF JobInv, Moves, Grows
<1>3. Lost \in Nat /\ Lost' \in Nat /\ Lost' >= Lost
  BY LostGrows
<1>4. /\ IsFiniteSet(Danglings) /\ Cardinality(Danglings) \in Nat
      /\ Cardinality(Danglings) <= Lost
  <2>1. Danglings \in SUBSET (1 .. Len(jobs)) /\ IsFiniteSet(1 .. Len(jobs))
    BY <1>2, FS_Interval DEF Danglings
  <2>2. IsFiniteSet(Danglings)
    BY <2>1, FS_Subset
  <2> QED
    BY <2>2, FS_CardinalityType DEF ExplainedInv
\* It was the job of the runner that leaves it.
<1>5. ASSUME NEW j \in Danglings', j \notin Danglings
      PROVE  Leaves(r) /\ j = run[r].job /\ run[r].pc \in WithJob \ {"update_pdf"}
  <2>1. j \in DOMAIN jobs' /\ jobs'[j].status = "running" /\ \A q \in Runners : run'[q].job # j
    BY <1>5 DEF Danglings, Dangling
  <2>2. j \in DOMAIN jobs
    <3>1. CASE Begins(r)
      BY <1>2, <2>1, <3>1 DEF Begins, TypeOK
    <3>2. CASE Leaves(r) \/ Advances(r) \/ Finishes(r)
      BY <1>2, <2>1, <3>2 DEF Leaves, Advances, Finishes, TypeOK
    <3> QED
      BY <1>1, <3>1, <3>2 DEF Moves
  <2>3. jobs[j].status = "running" /\ j # 0
    BY <1>1, <1>2, <2>1, <2>2, JobsGoOn
  <2>4. j = run[r].job
    BY <1>2, <1>5, <2>1, <2>2, <2>3 DEF Danglings, Dangling, OthersStay
  <2>5. run[r].pc \in WithJob /\ run[r].pc # "update_pdf"
    BY <1>2, <2>3, <2>4 DEF Driven, HoldsJob, ExplainedInv, EndsWithJob
  <2>6. Leaves(r)
    BY <1>1, <2>1, <2>4, <2>5 DEF Moves, Begins, Advances, Finishes, SameJob, WithJob
  <2> QED
    BY <2>4, <2>5, <2>6
<1>6. CASE Danglings' \subseteq Danglings
  <2>1. Cardinality(Danglings') <= Cardinality(Danglings) /\ Cardinality(Danglings') \in Nat
    BY <1>4, <1>6, FS_Subset, FS_CardinalityType
  <2> QED
    BY <1>3, <1>4, <2>1
<1>7. CASE ~(Danglings' \subseteq Danglings)
  <2> DEFINE D == Danglings \union {run[r].job}
  <2>1. Danglings' \subseteq D /\ Lost' = Lost + 1
    BY <1>5, <1>7 DEF Leaves
  <2>2. IsFiniteSet(D) /\ Cardinality(D) <= Cardinality(Danglings) + 1 /\ Cardinality(D) \in Nat
    <3>1. IsFiniteSet(D) /\ Cardinality(D) = (IF run[r].job \in Danglings
                                             THEN Cardinality(Danglings)
                                             ELSE Cardinality(Danglings) + 1)
      BY <1>4, FS_AddElement
    <3> QED
      BY <1>4, <3>1
  <2> HIDE DEF D
  <2>3. Cardinality(Danglings') <= Cardinality(D) /\ Cardinality(Danglings') \in Nat
    BY <2>1, <2>2, FS_Subset, FS_CardinalityType
  <2> QED
    BY <1>3, <1>4, <2>1, <2>2, <2>3
<1> QED
  BY <1>6, <1>7

\* ExplainedInv holds with the invariants of the driver, for any number of runners
\* of a version.
THEOREM ExplainedInvariant == Spec => []ExplainedInv
<1>1. Init => ExplainedInv
  <2> SUFFICES ASSUME Init PROVE ExplainedInv
    OBVIOUS
  <2>1. /\ DOMAIN jobs = {} /\ \A r \in Runners : run[r].pc = "idle"
        /\ Danglings = {} /\ Lost = 0
    BY DEF Init, Idle, Danglings, Lost
  <2>2. \A s \in Slots, v \in Versions : ~HasSection(s, v)
    BY NoVersionNotVersion DEF Init, Ledger!LedgerInit, HasSection
  <2>3. \A c \in Records : candidate[c].status = "absent"
    BY DEF Init, Absent
  <2>4. Cardinality(Danglings) = 0
    BY <2>1, FS_EmptySet
  <2> QED
    BY <2>1, <2>2, <2>3, <2>4 DEF ExplainedInv, EndsWithJob, SectionsHaveJobs, PendingIsExplained
<1>2. ASSUME JobInv, TablesInv, ExplainedInv, [Next]_vars PROVE ExplainedInv'
  <2>1. CASE Next
    <3>1. PICK r \in Runners : Moves(r)
      BY <1>2, <2>1, NextMoves
    <3>2. \A q \in Runners : EndsWithJob(q)'
      BY <1>2, <3>1, MoverEndsWithJob
    <3>3. SectionsHaveJobs' /\ Cardinality(Danglings') <= Lost'
      BY <1>2, <2>1, AdoptedByJobs, DanglingsAreLost
    <3>4. PendingIsExplained'
      BY <1>2, <3>1, MoverExplainsPending
    <3> QED
      BY <3>2, <3>3, <3>4 DEF ExplainedInv
  <2>2. CASE UNCHANGED vars
    <3>1. /\ run' = run /\ candidate' = candidate /\ jobs' = jobs /\ active' = active
          /\ retired' = retired /\ spent' = spent
      BY <2>2 DEF vars, dbVars
    <3>2. Danglings' = Danglings /\ Lost' = Lost /\ \A q \in Runners : EndsWithJob(q)'
      BY <1>2, <3>1 DEF Danglings, Dangling, Lost, ExplainedInv, EndsWithJob
    <3>3. SectionsHaveJobs'
      BY <1>2, <3>1 DEF ExplainedInv, SectionsHaveJobs, HasSection
    <3>4. PendingIsExplained'
      BY <1>2, <3>1
         DEF ExplainedInv, PendingIsExplained, Explains, Dangling, Working, Slot
    <3> QED
      BY <1>2, <3>2, <3>3, <3>4 DEF ExplainedInv
  <2> QED
    BY <1>2, <2>1, <2>2
<1> QED
  BY <1>1, <1>2, JobInvariant, TablesInvariant, PTL DEF Spec

\* A warning on the releases of two sections (Q2).
LEMMA InversionsExplained ==
  ASSUME JobInv, ExplainedInv, NEW x \in Q2(Database)
  PROVE  InversionIsExplained(x)
<1>1. /\ x[1] \in Database.sections /\ x[1].status = "parsed"
      /\ x[2] \in Database.sections /\ x[2].status = "superseded"
      /\ x[1].slot = x[2].slot
  BY DEF Q2, Parsed, Superseded
<1>2. PICK s \in Slots, u \in Versions : HasSection(s, u) /\ x[1] = SectionRow(s, u)
  BY <1>1, DatabaseRows
<1>3. PICK t \in Slots, v \in Versions : HasSection(t, v) /\ x[2] = SectionRow(t, v)
  BY <1>1, DatabaseRows
<1>4. /\ x[1].slot = s /\ x[1].version = u /\ u = active[s]
      /\ x[2].slot = s /\ x[2].version = v /\ v # active[s] /\ s = t
  BY <1>1, <1>2, <1>3 DEF SectionRow
<1> QED
  BY <1>3, <1>4 DEF ExplainedInv, SectionsHaveJobs, InversionIsExplained

\* A warning on a pending record (Q6).
LEMMA GhostsExplained ==
  ASSUME JobInv, ExplainedInv, NEW cr \in Q6(Database)
  PROVE  GhostIsExplained(cr)
<1>1. PICK c \in Records : /\ candidate[c].status = "pending"
                           /\ cr.slot = c[1] /\ cr.section_version = c[2] /\ cr.index = c[3]
  BY DatabaseRows DEF Q6
<1>2. candidate[<<cr.slot, cr.section_version, cr.index>>] = candidate[c]
  BY <1>1, RecordFacts
<1>3. CASE candidate[c].judgedBy = 0
  <2>1. PICK j \in DOMAIN jobs : Explains(j, c)
    BY <1>1, <1>3 DEF ExplainedInv, PendingIsExplained
  <2>2. jobs[j].status = "running" \/ jobs[j].failed > 0
    BY <2>1 DEF Explains, Dangling, JobInv, Driven, HoldsJob
  <2> QED
    BY <1>1, <2>1, <2>2 DEF GhostIsExplained, Explains
<1> QED
  BY <1>2, <1>3 DEF GhostIsExplained

\* A warning on a job that nobody runs (Q8) for each of them.
LEMMA DanglingsCounted ==
  ASSUME JobInv, ExplainedInv, Lost \in Nat
  PROVE  Cardinality(Q8(Database)) <= Lost
<1> DEFINE row(j) == [id |-> j, pdf |-> jobs[j].pdf, version |-> jobs[j].version,
                      status |-> jobs[j].status, finished_at |-> jobs[j].finished,
                      stale |-> Dangling(j)]
           Q == Q8(Database)
           f == [j \in Danglings |-> row(j)]
<1>1. /\ IsFiniteSet(Danglings) /\ Cardinality(Danglings) \in Nat
      /\ Cardinality(Danglings) <= Lost
  <2>1. Len(jobs) \in Nat /\ DOMAIN jobs = 1 .. Len(jobs)
    BY DEF JobInv, TypeOK
  <2>2. Danglings \in SUBSET (1 .. Len(jobs)) /\ IsFiniteSet(1 .. Len(jobs))
    BY <2>1, FS_Interval DEF Danglings
  <2>3. IsFiniteSet(Danglings)
    BY <2>2, FS_Subset
  <2> QED
    BY <2>3, FS_CardinalityType DEF ExplainedInv
<1>2. Database.jobs = {row(j) : j \in DOMAIN jobs}
  BY DEF Database
<1>3. \A j : row(j).status = jobs[j].status /\ row(j).stale = Dangling(j)
  OBVIOUS
<1> HIDE DEF row
<1>4. \A x : x \in Q <=> \E j \in Danglings : x = row(j)
  BY <1>2, <1>3 DEF Q8, Danglings, Dangling
<1>5. f \in Surjection(Danglings, Q)
  BY <1>4 DEF Surjection
<1>6. IsFiniteSet(Q) /\ Cardinality(Q) <= Cardinality(Danglings)
  BY ONLY <1>1, <1>5, FS_Surjection
<1>7. Cardinality(Q) \in Nat
  BY <1>6, FS_CardinalityType
<1> QED
  BY <1>1, <1>6, <1>7

\* Each warning of the audit is due to a job it names: to one that was at the
\* document when a newer one began, that failed, is running or was left behind.
THEOREM WarningsExplained == Spec => []WarningsAreExplained
<1>1. ASSUME JobInv, ExplainedInv PROVE WarningsAreExplained
  <2>1. Lost \in Nat
    BY <1>1, BoundsType DEF JobInv, TypeOK, Lost
  <2> QED
    BY <1>1, <2>1, InversionsExplained, GhostsExplained, DanglingsCounted
       DEF WarningsAreExplained, Lost
<1> QED
  BY <1>1, JobInvariant, ExplainedInvariant, PTL
=============================================================================
