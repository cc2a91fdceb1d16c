----------------------------- MODULE JobRunner -----------------------------
(***************************************************************************)
(* The pipeline driver (pipeline/job_runner.py): a batch takes the PDFs    *)
(* that are 'fetched' one after the other, and for each of them writes a   *)
(* job, its sections, its candidate records with their validation results, *)
(* learning records for what failed, and the final status of job and PDF.  *)
(*                                                                         *)
(* Every repository call commits by itself, so every call is a step and a  *)
(* runner may die between any two.  Several runners share the database.    *)
(* The find/add/supersede transaction on personnel_sections is the single  *)
(* step Adopt of SectionLedger, which SectionLineage implements.  What a   *)
(* stage computes is abstracted to its outcomes; a stage has no effect but *)
(* through the repository call that follows it, and is one step with it.   *)
(***************************************************************************)
EXTENDS Naturals, Sequences, FiniteSets, FiniteSetsExt

CONSTANTS
    Runners,     \* JobRunner processes
    Versions,    \* parser_versions.id
    VersionOf,   \* the parser version each runner is bound to
    NoVersion,   \* no section in force
    Layout,      \* Layout[p][i] is the number of records in section i of PDF p;
                 \* a PDF whose layout is not recognised has no sections
    Verdicts,    \* what the Validator says of records; no step tells passed from
                 \* failed, so an instance may have one of them only
    MaxCrashes,  \* bound: runners killed
    MaxFailures, \* bound: failures recorded for learning
    MaxEscapes,  \* bound: loads of the knowledge that raise
    MaxManual    \* bound: run_job commands

ASSUME VersionOfType == VersionOf \in [Runners -> Versions]
ASSUME NoVersionNotVersion == NoVersion \notin Versions
ASSUME LayoutType    == Layout \in Seq(Seq(Nat))
ASSUME VerdictsType  == Verdicts # {} /\ Verdicts \subseteq {"passed", "failed"}
ASSUME BoundsType    == {MaxCrashes, MaxFailures, MaxEscapes, MaxManual} \subseteq Nat

Pdfs == DOMAIN Layout

\* A slot is a (pdf_id, section_index).
Slots == UNION {{p} \X DOMAIN Layout[p] : p \in Pdfs}

RecordsIn(s) == 1 .. Layout[s[1]][s[2]]

\* A candidate record is a slot, the version of its section, and its index.
Records == UNION {{s} \X Versions \X RecordsIn(s) : s \in Slots}

VARIABLES
    pdfStatus,   \* pdfs.status
    jobs,        \* the table jobs; a job's id is its place, and its finished_at is
                 \* the last job there was when it finished, 0 for NULL
    active,      \* personnel_sections, as SectionLedger sees the table
    retired,
    candidate,   \* candidate_records, with the jobs that wrote each part
    learned,     \* per job, the learning records it has written
    run,         \* what each runner is doing: its local variables
    spent        \* how much of each bound has been used

dbVars == <<pdfStatus, jobs, active, retired, candidate, learned>>
vars   == <<dbVars, run, spent>>

Ledger == INSTANCE SectionLedger

Decided == {"passed", "failed"}

\* version is the parser_version_id of the row, normalizedBy wrote the normalized
\* fields, judgedBy is the last job that went through the record without an error;
\* 0 stands for no job.
Absent == [status |-> "absent", version |-> NoVersion,
           normalizedBy |-> 0, judgedBy |-> 0]
Raw(v) == [Absent EXCEPT !.status = "pending", !.version = v]

\* Lists are in ascending order in the code, and nothing is added to one: here they
\* are sets of which the lowest element is next.
Idle == [pc |-> "idle", queue |-> {}, pdf |-> 0, job |-> 0, sec |-> 0,
         section |-> NoVersion, todo |-> {}, processed |-> 0, failed |-> 0,
         cached |-> FALSE]

Location == {"idle", "add_job", "load_knowledge", "document", "find_section",
             "add_section", "extract", "find_candidate", "add_raw", "normalize",
             "validate", "update_job", "update_pdf"}

At(r, location) == run[r].pc = location
Slot(r)   == <<run[r].pdf, run[r].sec>>
Record(r) == <<Slot(r), run[r].section, Min(run[r].todo)>>

HasSection(s, v) == v = active[s] \/ v \in retired[s]

\* The three _Outcome counters a unit of work can add to.
Processed(x) == [x EXCEPT !.processed = @ + 1]
Failed(x)    == [x EXCEPT !.failed = @ + 1]

\* The loops of run_pending(), _coordinate() and _process_section(): what x
\* does after this section, after this record, and when this PDF is finished.
AfterSection(x) ==
    LET y == [x EXCEPT !.section = NoVersion, !.todo = {}] IN
    IF x.sec < Len(Layout[x.pdf])
    THEN [y EXCEPT !.pc = "find_section", !.sec = @ + 1]
    ELSE [y EXCEPT !.pc = "update_job", !.sec = 0]

ProcessRecords(x, records) ==
    IF records = {}
    THEN AfterSection(x)
    ELSE [x EXCEPT !.pc = "find_candidate", !.todo = records]

AfterRecord(x) == ProcessRecords(x, x.todo \ {Min(x.todo)})

NextPdf(queue, cached) ==
    IF queue = {}
    THEN Idle
    ELSE [Idle EXCEPT !.pc = "add_job", !.pdf = Min(queue),
                      !.queue = queue \ {Min(queue)}, !.cached = cached]

Become(r, x) == run' = [run EXCEPT ![r] = x]

Goto(r, location) == Become(r, [run[r] EXCEPT !.pc = location])

Learn(r) == learned' = [learned EXCEPT ![run[r].job] = @ + 1]

\* A stage or a repository call may still fail.
MayFail == MapThenSumSet(LAMBDA j : learned[j], DOMAIN learned) < MaxFailures

-----------------------------------------------------------------------------
(***************************************************************************)
(* Faulty variants of some steps, one for each way the code could have been *)
(* written wrong.  They are not part of Spec: each shows that a property    *)
(* below fails when the step it replaces is wrong in that way.              *)
(***************************************************************************)

\* run_pending() leaves out the PDFs that have a job in status running.
PendingWithoutRunningJob ==
    {p \in Pdfs : /\ pdfStatus[p] = "fetched"
                  /\ \A j \in DOMAIN jobs :
                        jobs[j].pdf = p => jobs[j].status # "running"}

\* find_section() looks for a section of any parser version.
FindSectionOfAnyVersion(r) ==
    LET s == Slot(r)
        v == IF active[s] = NoVersion THEN VersionOf[r] ELSE active[s]
        status(k) == candidate[<<s, v, k>>].status
    IN
    /\ At(r, "find_section")
    /\ IF ~HasSection(s, v) THEN Goto(r, "add_section")
       ELSE IF \A k \in RecordsIn(s) : status(k) = "absent"
       THEN Become(r, [run[r] EXCEPT !.pc = "extract", !.section = v])
       ELSE Become(r, ProcessRecords([run[r] EXCEPT !.section = v],
                          {k \in RecordsIn(s) : status(k) = "pending"}))
    /\ UNCHANGED <<dbVars, spent>>

\* A section that is skipped is counted as processed.
FindSectionCountsSkipped(r) ==
    LET s == Slot(r)
        v == VersionOf[r]
        status(k) == candidate[<<s, v, k>>].status
    IN
    /\ At(r, "find_section")
    /\ IF ~HasSection(s, v) THEN Goto(r, "add_section")
       ELSE IF \A k \in RecordsIn(s) : status(k) = "absent"
       THEN Become(r, [run[r] EXCEPT !.pc = "extract", !.section = v])
       ELSE IF \A k \in RecordsIn(s) : status(k) \in Decided
       THEN Become(r, AfterSection(Processed(run[r])))
       ELSE Become(r, ProcessRecords([run[r] EXCEPT !.section = v],
                          {k \in RecordsIn(s) : status(k) = "pending"}))
    /\ UNCHANGED <<dbVars, spent>>

\* A section that could not be added is skipped and not counted as failed.
AddSectionFailsUncounted(r) ==
    /\ At(r, "add_section")
    /\ Learn(r)
    /\ Become(r, AfterSection(run[r]))
    /\ UNCHANGED <<pdfStatus, jobs, active, retired, candidate, spent>>

\* An extraction that failed is not counted.
ExtractFailsUncounted(r) ==
    /\ At(r, "extract")
    /\ Learn(r)
    /\ Become(r, AfterSection(run[r]))
    /\ UNCHANGED <<pdfStatus, jobs, active, retired, candidate, spent>>

\* A Normalizer failure is counted but not recorded for learning.
NormalizeFailsUnlearned(r) ==
    /\ At(r, "normalize")
    /\ Become(r, AfterRecord(Failed(run[r])))
    /\ UNCHANGED <<dbVars, spent>>

\* Fields an earlier job attached are kept when the record is resumed.
NormalizeKeepsAttached(r) ==
    /\ At(r, "normalize")
    /\ candidate' = [candidate EXCEPT ![Record(r)].normalizedBy =
                        IF @ = 0 THEN run[r].job ELSE @]
    /\ Goto(r, "validate")
    /\ UNCHANGED <<pdfStatus, jobs, active, retired, learned, spent>>

\* A Validator failure is recorded for learning but not counted.
ValidateFailsUncounted(r) ==
    /\ At(r, "validate")
    /\ Learn(r)
    /\ Become(r, AfterRecord(run[r]))
    /\ UNCHANGED <<pdfStatus, jobs, active, retired, candidate, spent>>

\* The status of the PDF is written to the job.
UpdateJobWithPdfStatus(r) ==
    /\ At(r, "update_job")
    /\ jobs' = [jobs EXCEPT ![run[r].job] =
                   [@ EXCEPT !.status    = IF run[r].failed = 0 THEN "validated" ELSE "failed",
                             !.processed = run[r].processed,
                             !.failed    = run[r].failed,
                             !.finished  = Len(jobs)]]
    /\ Goto(r, "update_pdf")
    /\ UNCHANGED <<pdfStatus, active, retired, candidate, learned, spent>>

-----------------------------------------------------------------------------
Init ==
    /\ pdfStatus = [p \in Pdfs |-> "fetched"]
    /\ jobs      = <<>>
    /\ Ledger!LedgerInit
    /\ candidate = [c \in Records |-> Absent]
    /\ learned   = <<>>
    /\ run       = [r \in Runners |-> Idle]
    /\ spent     = [crashes |-> 0, escapes |-> 0, manual |-> 0]

\* list_by_status("fetched"), ordered by id.
Pending == {p \in Pdfs : pdfStatus[p] = "fetched"}

\* run_pending(): the list is read once, before the first PDF is processed.
StartBatch(r) ==
    /\ At(r, "idle")
    /\ Become(r, NextPdf(Pending, FALSE))
    /\ UNCHANGED <<dbVars, spent>>

\* The run_job command: any one PDF, whatever its status.
RunJob(r, p) ==
    /\ At(r, "idle")
    /\ spent.manual < MaxManual
    /\ spent' = [spent EXCEPT !.manual = @ + 1]
    /\ Become(r, NextPdf({p}, FALSE))
    /\ UNCHANGED dbVars

\* run_for_pdf() starts by inserting a running job.
AddJob(r) ==
    /\ At(r, "add_job")
    /\ jobs' = Append(jobs, [pdf |-> run[r].pdf, version |-> VersionOf[r],
                             status |-> "running", processed |-> 0, failed |-> 0,
                             finished |-> 0])
    /\ learned' = Append(learned, 0)
    /\ Become(r, [run[r] EXCEPT !.pc = "load_knowledge", !.job = Len(jobs) + 1])
    /\ UNCHANGED <<pdfStatus, active, retired, candidate, spent>>

\* load_snapshot() reads the YAML files once per process and caches the items.
LoadKnowledge(r) ==
    /\ At(r, "load_knowledge")
    /\ Become(r, [run[r] EXCEPT !.pc = "document", !.cached = TRUE])
    /\ UNCHANGED <<dbVars, spent>>

\* The first load_snapshot() of a process raises KnowledgeLoadError, which
\* nothing in run_for_pdf() or run_pending() catches: the rest of the batch is
\* gone with the call.
LoadKnowledgeRaises(r) ==
    /\ At(r, "load_knowledge")
    /\ ~run[r].cached
    /\ spent.escapes < MaxEscapes
    /\ spent' = [spent EXCEPT !.escapes = @ + 1]
    /\ Become(r, Idle)
    /\ UNCHANGED dbVars

\* The document analyzer, the layout detector and the section parser yield the
\* sections of the document.
DocumentStages(r) ==
    /\ At(r, "document")
    /\ Become(r, AfterSection(run[r]))
    /\ UNCHANGED <<dbVars, spent>>

\* One of them raises: the whole document is one failure.  The analyzer is no
\* PipelineStageName, so its failures are not recorded for learning.
DocumentStagesFail(r) ==
    /\ At(r, "document")
    /\ MayFail
    /\ \/ Learn(r)
       \/ UNCHANGED learned
    /\ Become(r, Failed([run[r] EXCEPT !.pc = "update_job"]))
    /\ UNCHANGED <<pdfStatus, jobs, active, retired, candidate, spent>>

\* _process_section(): find_section() and list_by_section() decide between a
\* new section, extraction into an empty one, a skip, and a resume that only
\* looks at the records that exist and are pending.
FindSection(r) ==
    LET s == Slot(r)
        v == VersionOf[r]
        status(k) == candidate[<<s, v, k>>].status
    IN
    /\ At(r, "find_section")
    /\ IF ~HasSection(s, v) THEN Goto(r, "add_section")
       ELSE IF \A k \in RecordsIn(s) : status(k) = "absent"
       THEN Become(r, [run[r] EXCEPT !.pc = "extract", !.section = v])
       ELSE Become(r, ProcessRecords([run[r] EXCEPT !.section = v],
                          {k \in RecordsIn(s) : status(k) = "pending"}))
    /\ UNCHANGED <<dbVars, spent>>

\* _add_section_and_process(): the transaction of SectionLineage commits.
AddSection(r) ==
    /\ At(r, "add_section")
    /\ Ledger!Adopt(Slot(r), VersionOf[r])
    /\ Become(r, [run[r] EXCEPT !.pc = "extract", !.section = VersionOf[r]])
    /\ UNCHANGED <<pdfStatus, jobs, candidate, learned, spent>>

\* The transaction is rolled back with a RepositoryError: the lock was not
\* granted, the row exists by now, or no layout is active.
AddSectionFails(r) ==
    /\ At(r, "add_section")
    /\ MayFail
    /\ Learn(r)
    /\ Become(r, AfterSection(Failed(run[r])))
    /\ UNCHANGED <<pdfStatus, jobs, active, retired, candidate, spent>>

\* The FieldExtractor yields the records of the section, in order.
Extract(r) ==
    /\ At(r, "extract")
    /\ Become(r, ProcessRecords(run[r], RecordsIn(Slot(r))))
    /\ UNCHANGED <<dbVars, spent>>

ExtractFails(r) ==
    /\ At(r, "extract")
    /\ MayFail
    /\ Learn(r)
    /\ Become(r, AfterSection(Failed(run[r])))
    /\ UNCHANGED <<pdfStatus, jobs, active, retired, candidate, spent>>

\* _process_record(): find_candidate() and get(); a decided record is skipped.
FindCandidate(r) ==
    /\ At(r, "find_candidate")
    /\ CASE candidate[Record(r)].status = "absent"  -> Goto(r, "add_raw")
         [] candidate[Record(r)].status = "pending" -> Goto(r, "normalize")
         [] candidate[Record(r)].status \in Decided -> Become(r, AfterRecord(run[r]))
    /\ UNCHANGED <<dbVars, spent>>

\* add_raw() inserts the record, or violates its UNIQUE key because another
\* runner of the same version inserted it since find_candidate().
AddRaw(r) ==
    /\ At(r, "add_raw")
    /\ IF candidate[Record(r)] = Absent
       THEN /\ candidate' = [candidate EXCEPT ![Record(r)] = Raw(VersionOf[r])]
            /\ Goto(r, "normalize")
            /\ UNCHANGED learned
       ELSE /\ Learn(r)
            /\ Become(r, AfterRecord(Failed(run[r])))
            /\ UNCHANGED candidate
    /\ UNCHANGED <<pdfStatus, jobs, active, retired, spent>>

\* The Normalizer is confident: attach_normalized() stores its fields.
Normalize(r) ==
    /\ At(r, "normalize")
    /\ candidate' = [candidate EXCEPT ![Record(r)].normalizedBy = run[r].job]
    /\ Goto(r, "validate")
    /\ UNCHANGED <<pdfStatus, jobs, active, retired, learned, spent>>

\* It is not: nothing is stored, the record stays pending and counts as
\* processed.
NormalizeUnsure(r) ==
    /\ At(r, "normalize")
    /\ candidate' = [candidate EXCEPT ![Record(r)].judgedBy = run[r].job]
    /\ Become(r, AfterRecord(Processed(run[r])))
    /\ UNCHANGED <<pdfStatus, jobs, active, retired, learned, spent>>

NormalizeFails(r) ==
    /\ At(r, "normalize")
    /\ MayFail
    /\ Learn(r)
    /\ Become(r, AfterRecord(Failed(run[r])))
    /\ UNCHANGED <<pdfStatus, jobs, active, retired, candidate, spent>>

\* The Validator's verdict is stored by update_validation(), whatever the
\* record's status is by now.
Validate(r) ==
    /\ At(r, "validate")
    /\ \E verdict \in Verdicts :
          candidate' = [candidate EXCEPT ![Record(r)].status   = verdict,
                                         ![Record(r)].judgedBy = run[r].job]
    /\ Become(r, AfterRecord(Processed(run[r])))
    /\ UNCHANGED <<pdfStatus, jobs, active, retired, learned, spent>>

ValidateFails(r) ==
    /\ At(r, "validate")
    /\ MayFail
    /\ Learn(r)
    /\ Become(r, AfterRecord(Failed(run[r])))
    /\ UNCHANGED <<pdfStatus, jobs, active, retired, candidate, spent>>

\* _finalize() and jobs.update_status(): succeeded when nothing failed.
UpdateJob(r) ==
    /\ At(r, "update_job")
    /\ jobs' = [jobs EXCEPT ![run[r].job] =
                   [@ EXCEPT !.status    = IF run[r].failed = 0 THEN "succeeded" ELSE "failed",
                             !.processed = run[r].processed,
                             !.failed    = run[r].failed,
                             !.finished  = Len(jobs)]]
    /\ Goto(r, "update_pdf")
    /\ UNCHANGED <<pdfStatus, active, retired, candidate, learned, spent>>

\* pdfs.update_status(), then the next PDF of the batch.
UpdatePdf(r) ==
    /\ At(r, "update_pdf")
    /\ pdfStatus' = [pdfStatus EXCEPT ![run[r].pdf] =
                        IF run[r].failed = 0 THEN "validated" ELSE "failed"]
    /\ Become(r, NextPdf(run[r].queue, run[r].cached))
    /\ UNCHANGED <<jobs, active, retired, candidate, learned, spent>>

\* The process is killed, or an sqlite3.OperationalError that no repository
\* converts unwinds it.
Crash(r) ==
    /\ ~At(r, "idle")
    /\ spent.crashes < MaxCrashes
    /\ spent' = [spent EXCEPT !.crashes = @ + 1]
    /\ Become(r, Idle)
    /\ UNCHANGED dbVars

Step(r) ==
    \/ AddJob(r)
    \/ LoadKnowledge(r)
    \/ DocumentStages(r)
    \/ DocumentStagesFail(r)
    \/ FindSection(r)
    \/ AddSection(r)
    \/ AddSectionFails(r)
    \/ Extract(r)
    \/ ExtractFails(r)
    \/ FindCandidate(r)
    \/ AddRaw(r)
    \/ Normalize(r)
    \/ NormalizeUnsure(r)
    \/ NormalizeFails(r)
    \/ Validate(r)
    \/ ValidateFails(r)
    \/ UpdateJob(r)
    \/ UpdatePdf(r)

Next ==
    \E r \in Runners :
        \/ StartBatch(r)
        \/ \E p \in Pdfs : RunJob(r, p)
        \/ Step(r)
        \/ LoadKnowledgeRaises(r)
        \/ Crash(r)

Spec == Init /\ [][Next]_vars

\* The scheduler starts batches again and again, and a runner that has started
\* goes on; killing it is never required.
FairSpec ==
    /\ Spec
    /\ \A r \in Runners : WF_vars(StartBatch(r)) /\ WF_vars(Step(r))

-----------------------------------------------------------------------------
(***************************************************************************)
(* Properties                                                              *)
(***************************************************************************)

Finished == {j \in DOMAIN jobs : jobs[j].status # "running"}

SectionsOf(j) == {<<jobs[j].pdf, i>> : i \in DOMAIN Layout[jobs[j].pdf]}

\* Every variable keeps its type.
TypeOK ==
    /\ pdfStatus \in [Pdfs -> {"fetched", "validated", "failed"}]
    /\ jobs \in Seq([pdf : Pdfs, version : Versions, processed : Nat, failed : Nat,
                     finished : Nat, status : {"running", "succeeded", "failed"}])
    /\ active  \in [Slots -> Versions \union {NoVersion}]
    /\ retired \in [Slots -> SUBSET Versions]
    /\ candidate \in [Records ->
           [status : {"absent", "pending"} \union Decided,
            version : Versions \union {NoVersion},
            normalizedBy : 0 .. Len(jobs), judgedBy : 0 .. Len(jobs)]]
    /\ learned \in [DOMAIN jobs -> Nat]
    /\ run \in [Runners ->
           [pc : Location, queue : SUBSET Pdfs, pdf : Pdfs \union {0},
            job : 0 .. Len(jobs), sec : Nat, section : Versions \union {NoVersion},
            todo : SUBSET Nat, processed : Nat, failed : Nat, cached : BOOLEAN]]
    /\ spent \in [crashes : 0 .. MaxCrashes, escapes : 0 .. MaxEscapes,
                  manual : 0 .. MaxManual]

\* ADR-0047, table of section 1: a record that is passed or failed is skipped by
\* every later run, whatever crashed in between: no stage runs on it again and
\* nothing of it is written again.
VerdictIsFinal ==
    [][\A c \in Records :
          candidate[c].status \in Decided => candidate'[c] = candidate[c]]_vars

\* The verdict stored with a record was reached on the normalized fields stored
\* with it, also when one job attached fields and died and another resumed.
VerdictMatchesNormalized ==
    \A c \in Records :
        candidate[c].status \in Decided
            => candidate[c].judgedBy = candidate[c].normalizedBy

\* A job that succeeded has a section of its own version for every section of
\* its document, added by itself or found, even if an earlier run crashed.
SucceededCoversSections ==
    \A j \in DOMAIN jobs :
        jobs[j].status = "succeeded"
            => \A s \in SectionsOf(j) : HasSection(s, jobs[j].version)

\* ADR-0047 section 6: resuming is safe.  A job that succeeded leaves no record
\* of its document behind: each one is in candidate_records.
SucceededIsComplete ==
    \A j \in DOMAIN jobs :
        jobs[j].status = "succeeded"
            => \A s \in SectionsOf(j) : \A k \in RecordsIn(s) :
                   candidate[<<s, jobs[j].version, k>>].status # "absent"

\* ADR-0047 section 1: processed_count is the work of this job alone.  When a
\* job is about to be finished, it has counted every record it went through and
\* none that it skipped.
CountsOwnWork ==
    \A r \in Runners :
        At(r, "update_job")
            => run[r].processed =
                   Cardinality({c \in Records : candidate[c].judgedBy = run[r].job})

\* Every failure a job counts is recorded for learning, unless the document
\* analyzer failed and nothing else happened.
EveryFailureLearned ==
    \A j \in Finished :
        \/ learned[j] = jobs[j].failed
        \/ learned[j] = 0 /\ jobs[j].failed = 1 /\ jobs[j].processed = 0

\* Every PDF that was fetched gets a final status, although runners are killed
\* and exceptions cut batches short.
EveryPdfSettles ==
    \A p \in Pdfs : pdfStatus[p] = "fetched" ~> pdfStatus[p] # "fetched"
=============================================================================
