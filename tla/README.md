# A TLA+ model of MOD_Personnel_DB

MOD_Personnel_DB reads the personnel orders that the Ministry of Defense
publishes as PDFs, runs them through a pipeline of six stages into an SQLite
database, lets people review what the pipeline got wrong, promotes reviewed
records to a gold table, and moves the database to and from an FTP server
between scheduled runs. This directory holds TLA+ modules of the parts of it
whose correctness depends on the order of things: several processes on one
database, crashes between two repository calls, checks that are stale when they
are used, and file transfers that break off.

Paths below are relative to the repository; Python packages are in
`src/mod_personnel_db/`.

## 1. The system

| Part | State it keeps | Operations | What is hard about it |
|---|---|---|---|
| Section lineage: `repositories/sqlite/candidate.py`, `pipeline/job_runner.py` | table `personnel_sections` | `find_section`, the transaction `find_active_section` / `add_section` / `supersede_section` | releases of the parser run side by side; rollback, lock timeout, crash |
| Pipeline driver: `pipeline/job_runner.py` | `jobs`, `candidate_records`, `learning_dataset`, `pdfs.status` | `run_pending`, `run_for_pdf`, resume of sections and records | every repository call commits by itself, a process may die between any two; partial failure |
| Pipeline runner: `pipeline/runner.py` | events of one call | `run` | order of events, stages after a failed one |
| Document analyzer: `document/analyzer.py` | none | `run` | what a damaged file is taken for |
| Stages: `layout`, `sections`, `extractors`, `normalizers`, `validators` | none | one `run` each | pure algorithms, and two readings of the date |
| Knowledge: `knowledge/`, `repositories/sqlite/knowledge.py` | YAML files, cache per process, `parser_versions`, `knowledge_items` | `load_snapshot`, `reload`, `record_parser_version`, `upsert_item` | stale cache, effective ranges, files that change under a running process |
| Review and gold: `review/`, `learning/`, `repositories/sqlite/{learning,gold}.py` | `learning_dataset.status`, `gold_records` | `start_review`, `approve`, `reject`, `transition`, `add_version` | check-then-update by several reviewers, two writes in one command |
| Orchestrator and fetch: `services/orchestrator.py`, `fetch/` | `pdfs`, the PDF files | `fetch_and_stage`, `run_workflow`, `export_and_publish` | check-then-insert, file before row, a path the caller chooses, one phase failing |
| Scheduler: `services/scheduler.py` | none | `trigger_now`, `next_run_at` | boundaries of the interval |
| Database transfer: `ftp/client.py`, `cli/commands.py`, `.github/workflows/scheduler.yml` | files on the server and on each machine | `download-db`, `schedule-now`, `upload-db` | transfers that break off, three files and their renames, a shared temporary name |
| Export: `export/` | a file | exports of all, since a moment, of a person | as-of query while reviewers promote |
| Audit: `tools/db_audit.py` | none | queries Q1 to Q15 | which of them may find something in a state the program can reach |
| Composition and command line: `cli/`, `repositories/sqlite/layout_sync.py` | `parser_versions`, `layouts` | twelve commands; the session each of them builds | every command writes before its own work begins; processes that start together on a new database |

The parts interact through the database. The scheduler (or an operator) starts a
batch; the driver takes the PDFs that staging left as `fetched`, asks the stages,
and writes sections, candidate records and learning records; review takes the
open learning records and writes gold records; export reads the current gold
records. Between two scheduled runs the database file lives on the FTP server.

What makes each part correct:

- *Lineage*: one version of a section in force at a time; a replaced version has
  a successor; readers see the replacement in one step; no runner keeps the lock.
- *Session*: the layouts are registered together or not at all, a command whose
  own work begins has everything in the database it refers to, and no command
  keeps the write lock.
- *Staging*: a row of `pdfs` has its document, and results are results of the
  document their row names.
- *Driver*: a verdict is final and belongs to the fields stored with it; a job
  that succeeded has dealt with its whole document; counters describe one job's
  own work; failures are reported; every PDF gets a final status.
- *Review*: an entry's status follows its lifecycle; gold versions are numbered
  without gaps.
- *Export*: what was exported of a moment in the past is what will be exported of
  it for ever.
- *Audit*: in no reachable state it reports an error, and its warnings say what
  has happened.
- *Stages*: an unknown layout is reported and a tie too, every row of the document
  becomes one record whose numbers name its place, and what is stored follows
  from the knowledge in force on the day of processing.
- *Transfer*: what is published is a database, the published file is never gone
  without its backup, and published results do not disappear.

## 2. The modules

### SectionLedger, SectionLineage, SectionLineage_proofs

`SectionLedger` is what `personnel_sections` promises its readers: per slot (a
`pdf_id` and a `section_index`) the version in force and the versions replaced,
and one step, `Adopt`. `SectionLineage` is how the code keeps the promise. A row
is identified by its slot and version, because the UNIQUE key of the table says
so; `row` is the committed table, `work` the table as the connection with an
open transaction sees it, `lock` SQLite's write lock, `pc` the statement each
`JobRunner` is at and `old` the local variable `old_section_id`.

| Action | Code |
|---|---|
| `ProcessSection`, `FindSection`, `Return` | `_process_section()`; `find_section()` outside the transaction |
| `Begin`, `BeginTimesOut` | `BEGIN IMMEDIATE` and its `busy_timeout` |
| `FindActiveSection`, `AddSection`, `SupersedeSection`, `Commit` | the body of `_add_section_and_process()` |
| `Rollback` | every `except` branch of `transaction()` |
| `Crash` | a killed process; SQLite discards what was not committed |

The substitution in `Ledger` reads the ledger off the committed table: in force
is what is `parsed`, retired is what is `superseded`.

### JobRunner, JobRunner_proofs

A runner walks through `run_pending()` and `run_for_pdf()`; the record `run[r]`
holds its local variables (the batch, the PDF, the job, the section, the records
still to do, the two counters, and whether the process has its knowledge
cached). One action is one repository call together with the stage call before
it: a stage has no other effect. Stages are abstracted to their outcomes: a
number of sections and records (`Layout`), success, an error, a Normalizer that
is confident or not, a verdict. The section transaction is the one step
`Ledger!Adopt`, which `SectionLineage` is proved to implement. `candidate` holds
the job that wrote the normalized fields and the job that passed its judgement
last, `learned` counts the learning records per job; both exist so that
properties can relate what was written to who wrote it. A `Crash` also stands for
an `sqlite3.OperationalError`, which no repository converts and which unwinds
the process.

The lists of the code, the batch and the records of a section, are ascending and
nothing is ever added to one: here they are sets, of which the lowest element is
next.

Extraction is deterministic for a section, so the number of records of a section
is a constant and the same for every version. A job keeps the number of the last
job there was when it finished, which stands for `finished_at`: the order of
beginnings and ends is all the audit looks at. `MaxFailures` and `Verdicts` bound
an instance: a failing stage and a failing repository call count against the
first, and no step distinguishes a record that passed from one that did not, so
one verdict is enough where two runners are composed.

### Audit, AuditedRunner, AuditedRunner_proofs

`Audit` has the checks Q1 to Q10 of `tools/db_audit.py` as operators on a
database, a record of tables whose rows have the columns the SELECTs use, and
`RunAudit` and `ExitCode` for `run_audit()` and `determine_exit_code()`. It knows
nothing of the pipeline. `AuditedRunner` reads the tables off the variables of
`JobRunner` (`Database`) and states what an audit at any moment finds.

### ReviewGold

`task[w]` is the command a reviewer's process executes: `StartTransition` and
`Approve` are the entry points of `review/service.py` (and `transition()` to
verified, which only the service offers), `Get` and `Update` the two repository
calls of `LearningService.transition()`, `MaxVersion` and `AddVersion` the two
statements of `add_version()`. An exception ends the command where it is, as
`Kill` does. `trail` remembers every status an entry has had and each gold row
remembers its entry and reviewer; both serve the properties only.

### GoldExport, GoldExport_proofs

The composition of the review commands with the exports. It refines the step
`AddVersion` of `ReviewGold` into the INSERT, which takes the write lock and the
time (`valid_from`), and the commit, which makes the row visible; the steps of
`ReviewGold` that write wait meanwhile, those that read do not. `Tick` is the
clock, `ExportAll`, `ExportSince` and `ExportPerson` are the three readings of
`export/service.py`, with the public form of a record (`ToPersonnelRecord`) and
the record count of the metadata. `exports` remembers what was answered.

### Session, Staging, Staging_proofs

`Session` is what a process does between its command line and the command's own
work; `Staging` extends it with that work as far as PDFs are concerned. The two
are one state machine: `Session` leaves `job`, what a command is asked for, open,
and `Staging` gives it (`Idle`, `Job`).

| Action | Code |
|---|---|
| `Dispatch`, `OptionIsMissing`, `DateIsMalformed` | `main()`, `_dispatch()` and what they refuse |
| `CreateTable` | `init-db`: `executescript()`, table by table |
| `BuildVersion`, `ShowVersion` | `version`, which builds no application |
| `GetParserVersion`, `LoadSnapshot`, `RecordParserVersion` | `_resolve_parser_version_id()` |
| `LoadDefinitions`, `FindLayout`, `InsertLayout`, `CommitLayouts` | `load_layout_definitions()`, `sync_layout_definitions()` |
| `FileIsUnusable`, `LockTimesOut`, `Kill` | exceptions of the loaders, `busy_timeout`, a killed process |
| `EditKnowledge`, `EditManifest` | the files of the repository change |
| `Midnight` | `date.today()` changes |
| `Fetch`, `FetchFails`, `FetchBreaks` | `HTTPFetchClient.fetch()`; only a `FetchError` is collected by `_fetch_all()` |
| `GetByHash`, `Truncate`, `Fill`, `WriteFails`, `AddPdf` | `fetch_and_stage()` |
| `ListPending`, `ReadPdf`, `Analyze`, `Detect`, `EndBatch` | `run_pending()`, `run_job()`: the two readings of a PDF file and the final status |
| `EndFetchStage`, `Rest` | the ends of the other commands |

`writer` is SQLite's write lock. Python opens a transaction at the first INSERT of
the layout loop, so the lock is held from there to the commit behind the loop,
while statements that commit at once are one step. Of the tables four stand for
all, in the order of the script.

The knowledge service caches the files and asks for the date again with every
snapshot, and a checksum is one of the items in force on that day. So a process
has the revision of the files it has read (`cached`) and the day of its last
snapshot (`asOf`), `today` is the calendar, and the constant `Digest` gives each
revision and day their checksum, equal or not; `run_for_pdf()` takes a new day
with each document (`Analyze`). `recorded` is the day of the snapshot whose
checksum the process has put into `parser_versions`. `World` is what changes under
the processes: the files and the day. A midnight falls only behind a process that has
asked for the date, so the first snapshot of all is of day 1.

The pipeline between `Analyze` and `Detect` is the subject of `JobRunner`, promotions
that of `ReviewGold`. `RowsHaveTheirFile` is about runs without a kill or a failing write: after one of those a row may be left
with a torn file, because a second fetch of the document had begun to write.

### DbTransfer, DbTransfer_proofs

A file is missing, empty, torn, or a database, which is the set of the pipeline
runs that have worked on it. `remote` has the three names `upload()` uses,
`local` the file of each machine, `pc` the next FTP command or local step.
Machines in `Workflows` execute the chain of `scheduler.yml` on a fresh disk and
stop at the first failure; machines in `Operators` execute single commands in
any order and keep their file; those in `Holders` have a copy of the database to
begin with. `Fail` is a broken connection or a killed process
at any step, `Refused` a server that refuses because of the files it has,
`FindMisreports` a refused `SIZE`, which `_remote_file_exists()` takes for a
missing file. That the server refuses a rename onto an existing name is taken
from the notes in `ftp/client.py`.

### DocumentAnalysis, LayoutDetection, Normalization, Stages, Stages_proofs

`DocumentAnalysis`, `LayoutDetection` and `Normalization` are operators: what
the Document Analyzer notices about a file and the Layout Detector makes of the
evidence of a PDF, and what the knowledge service, the Normalizer
and the Validator make of knowledge items, a day and a record. `Stages` drives
them over one document the way `run_for_pdf()` does, from its two loads of the
knowledge to the verdict of the last record.

| Action | Code |
|---|---|
| `LoadSnapshot`, `LoadRules` | the two arguments of `_KnowledgeInputs(...)`; each call asks for the date itself |
| `Midnight` | the calendar, while a load is still to come |
| `Analyze`, `ReadDocument` | DocumentAnalyzer, then LayoutDetector with SectionParser, which opens the file again: one call of the pipeline runner |
| `DocumentStageFails` | a file that is not there or cannot be opened: `PipelineRunner.run()` stops at the stage that failed |
| `ExtractFields`, `NextSection` | FieldExtractor, once per section |
| `ProcessRecord` | Normalizer, and Validator when the Normalizer is confident |
| `Finish` | the end of the document |

Tuples that the code goes through in order are sets of numbered things of which
the lowest is taken first: the items of a snapshot and of a rule set are their
places in the order of loading, so that a lookup, which returns the first match,
takes the lowest place; `sections` and `records` carry their index; and
`Candidates` keeps the first two of the sorted candidates, the only ones
`_assemble_result()` looks at, each the first of those with the highest score, as a
stable sort has it. Of the length of a text only whether there is any is used.

A line is the sequence of its columns and blank lines are left out, as `_lines()`
does; a pattern or a typography item applies to a whole column instead of to a
part of it, and a layout key is a pair of layout and column. Indices start at 1,
those of the code at 0. Scores are cut off to whole per cent; the code adds and
divides floats. Scores less than one per cent apart may thus be equal in the model,
and where two are equal a rounding error may order them in the code; the weights of
the checked instance make every score a whole per cent. Errors of the later stages and
crashes are in `JobRunner`, not here.

A file may be missing, refused, without a page count, encrypted, of an old version
or large, and single pages may be unreadable; a damaged page is read as an empty
one by the Layout Detector and only a warning of the Document Analyzer tells. Nothing
reads that warning: `JobRunner` keeps no analysis, so in the results the missing
records leave no trace.
That a page whose images cannot be listed counts as unreadable, and that a file
whose text length is unknown counts as one of images only, is as the code has it.

The properties do not repeat the operators they are about: `SilenceIsWarned` asks
that whoever gets fewer lines than were written gets a warning or an error too;
`DetectionIsExplained` compares the result with all the other layouts, where the
code sorts and looks at two candidates; `VerdictFollowsRules` goes from the loaded items to the
verdict, where the code passes through a snapshot, a semantic name and the set of
allowed values; `ValuesAreInForce` uses the service's reading of `effective_to`,
the Normalizer the other one. Both take the days of the two loads as they are: a
document that is normalized with the knowledge of one day and validated with the
rules of the next satisfies them, and no document of the repository forbids it.

### Schedule

`NextRunAt` is `JobSchedule.next_run_at()` on integers, `RunAt` the runs a
schedule has. There is no state; the module consists of a definition and the
theorem about it.

### Faulty variants

Each module has a section of operators that are not part of its specification:
variants of a step with a plausible mistake (a forgotten rollback, a lookup
without its version, a file stored under its final name). Replacing the step by
its variant makes the property named in `PROJECT.json` fail, which shows that
the property depends on that step being right.

## 3. The runs

| Run | Expectation | Instance and bounds | What it shows |
|---|---|---|---|
| `SectionLineage` | holds | 3 runners of 2 releases, 2 slots, unlimited crashes; fair | type, uniqueness, successor, extraction into committed sections, atomic handover, refinement of `SectionLedger`, inductive invariant, release of the lock |
| `JobRunner_resume` | holds | a runner of each of 2 releases, a document with 2 records, 1 crash, 1 failure, one verdict | final verdicts, verdicts that match the stored fields, coverage of sections, counters, learning records, an audit without errors and with explained warnings |
| `JobRunner_settles` | holds | 1 runner, 2 documents (two sections; unrecognised), 1 crash, 1 exception, 1 manual `run_job`, failures of every step, both verdicts; fair | every PDF gets a final status; no record is lost when sections have one record |
| `JobRunner_lost` | violated | 1 runner, a section with 2 records, 1 crash | records lost by a resume |
| `ReviewGold_race` | holds | 2 reviewers, 1 entry, 1 key, 2 versions, 1 kill, 2 seconds, 1 export; symmetric in reviewers | contiguous versions, no stage skipped, as-of exports that stay true |
| `ReviewGold_toctou` | violated | 2 reviewers, 1 entry | the status check is stale when the status is updated |
| `CommandLine` | holds | 2 processes, 2 commands out of `init-db`, `version`, `fetch-stage`, `run-workflow`, `schedule-now`, `run-job` and `review`, on no database, a new one or a used one; 2 layouts, 1 document, 1 change of the files, 1 midnight, an item that expires then, 1 kill or failing write; fair | whole registration, complete sessions, a checksum that is true until midnight, rows with their files, every command ends |
| `CommandLine_provenance` | violated | 1 process, 2 documents staged to one path, 3 commands | results under the id of another document |
| `Stages` | holds | every document of at most 2 pages of at most 3 lines out of 4, 2 choices of fonts, a choice of damaged files, 2 layouts, 11 items, 2 days | warnings, detections, places, records, values and verdicts |
| `DbTransfer_workflow` | holds | the scheduled workflow, 3 pipeline runs, 4 faults | published file is a database, backup stands in, published results stay |
| `DbTransfer_byhand` | holds | an operator, 2 pipeline runs, 3 faults | nothing torn is ever published or kept as the backup; the published file only leaves for the backup |
| `DbTransfer_operator` | violated | an operator with a copy of the database, no pipeline run, 1 fault | a download that breaks off leaves an empty file, which is published |

Why the bounds are enough. Two slots and three runners, of which two share a
version, let every pair of statements of two transactions meet, with a third
party reading between them; the theorems then remove the bounds. In `JobRunner`
one crash separates two jobs on the same rows, and two records are the least for
which a crash can fall between them. In `ReviewGold` two processes suffice
because a command has only one check and one update per row, and two seconds tell
a promotion before a moment from one after it. In `CommandLine` two processes
meet at every statement that one of them checks and the other writes, and one
change of the files and one midnight fall between any two readings of one process; a third
process would only wait for the same lock. In `DbTransfer`
four faults are enough to break a download, an upload, the next upload and its
successor, each at a different command. In `Stages` three lines are the least for
a page that counts, two pages let the first one not count, and one midnight
separates the days before and after every change of the knowledge; the weights
of the two layouts put scores below both thresholds, between them, exactly on the
upper one, and within the ambiguity margin.

Symmetry is used in `ReviewGold_race` only, which checks invariants only.

Runners, reviewers and the workflow never stop for lack of a step: a free
reviewer, an idle runner or a scheduled workflow can always start again, so
deadlock is checked there. `Stages` ends with its document and `CommandLine` with
the last of its commands; `EveryCommandEnds` says that they get there.

### Fairness

`SectionLineage!FairSpec` is weak fairness of the steps of a runner that is in a
section: the process goes on unless it is killed, and the busy timeout sees to it
that nobody waits for the lock for ever. `JobRunner!FairSpec` adds weak fairness
of `StartBatch`, which `scheduler.yml` starts every day. `Staging!Spec` is weak
fairness of the steps of each process, `Step`: a command that can go on does,
and nobody gives it. Neither a kill nor a timeout is part of `Step`, so a command
that waits for the lock ends only if the one that has it ends too. Crashes are
bounded but never required, no outcome of a stage is required, and nothing is assumed of
operators and reviewers.

### Disagreements between code and documents

The violated runs each check a statement of the repository's documents, comments
or docstrings that the code does not keep. They are listed with their quotations
under `findings` in `PROJECT.json`: a resume that loses records (ADR-0047), a
lifecycle check that two reviewers can both pass, an empty file that a broken
download leaves and the integrity check lets through, and results that name another PDF than the one they
come from, because a second document was staged to the same path
(`docs/database/schema.md`).

More are known and not in a run:

- A record that the Normalizer is unsure about is said to be treated as one for
  review (`pipeline/job_runner.py`, lines 461-462), and no queue that anybody
  reads has it.
- `approve()` adds the gold record before it asks for the transition, so a refused
  or killed approval leaves one without an approval
  (`docs/architecture/architecture-contract.md`, line 112), and the export calls
  every gold record verified.
- A second gold version of a key leaves the first one current, because nothing
  calls `supersede()`; Q11 of the audit reports that as an error, and an export of
  all records contains both.
- `docs/operations/db_audit.md` (line 105) says that Q2 finds nothing in normal
  operation. It does when an older release is still at a document a newer one
  has begun, or is run on it later; `WarningsAreExplained` shows that nothing else
  leads to it.
- A `KnowledgeLoadError` ends a whole batch, although the orchestrator's
  docstring says `run_pending()` raises nothing (`LoadKnowledgeRaises` models it,
  and `JobRunner_settles` shows that the PDFs are picked up later).
- `fetch_and_stage()` returns `None` for a document whose hash is known, says its
  docstring (`services/orchestrator.py`, line 76); of two processes that stage one
  document at once, one ends with an `IntegrityError` instead (`AddPdf`). The row
  and its file are right all the same, which is `RowsHaveTheirFile`.
- Two runners of one release rewrite each other's verdicts.
- `docs/knowledge/schema.md` (line 613) narrows organizations, positions and ranks
  by the day of issue of the order (発令日). The code takes the day of processing,
  `date.today()`, for all items, as ADR-0040 (line 105) and `docs/api/models.md`
  (line 255) say, and reads no day of issue: an order processed late is read with
  the names of the later day. `ValuesAreInForce` and `VerdictFollowsRules` are about
  the day of processing and say nothing of the day of issue.
- `docs/database/schema.md` (line 544) wants every section and record traced to the
  snapshot of the knowledge it was made with, and `docs/operations/release.md` (line
  199) checks by `knowledge_snapshot_checksum` that changed knowledge is used. The
  checksum is that of the first run of a release, on its day: later runs read
  changed files, and every run reads the items of its own days, under the same row.
  Only the process that recorded it works with what it recorded, and only until
  midnight (`RecordedIsUsed`).

## 4. The proofs

TLC looks at the instances of section 3; the theorems below hold for every value
of the constants: any number of processes, releases, documents, records, reviewers
and runs, and every bound. They rest on the ASSUMEs of the modules, which say what
kind of value a constant is (`VersionOfType`, `LayoutType`, `PlaceType`, `DigestType`,
`LastDayType`, ...), that
a value for "none" is none of the others (`NoVersionNotVersion`, `NoKeyNotKey`,
`NoRunnerNotRunner`, `ProcessesType`), that there are finitely many reviewers
(`ReviewersFinite`), that only operators begin with a copy of the database
(`HoldersAreOperators`), and that a layout definition has rules and a rule a positive
weight (`RulesHaveWeight`), which the constructors of `LayoutDefinition` and
`LayoutRule` check. Where a theorem needs more, the hypothesis is in its statement
and in the tables.

### SectionLineage_proofs

| Theorem | Statement |
|---|---|
| `LineageInvariant` | `Spec => []LineageInv` |
| `LineageTypeCorrect` | `Spec => []TypeOK` |
| `LineageUnique` | `Spec => []AtMostOneParsed` |
| `LineageSuccessor` | `Spec => []SupersededHasSuccessor` |
| `LineageExtract` | `Spec => []ExtractsIntoCommittedSection` |
| `LineageHandover` | `Spec => HandoverIsAtomic` |
| `LineageRefinesLedger` | `Spec => ImplementsLedger` |

The safety properties are not inductive by themselves: that a commit keeps one
parsed section per slot depends on what the transaction has read and written.
`LineageInv` adds two things: a runner holds the lock exactly while it is in the
transaction (`LockMatchesTransaction`), and for each statement of the
transaction what `work` and `old` contain (`TransactionSoFar`). Since there is
one runner in the transaction (`OneTransaction`), nobody else writes the table,
and what the runner read is still true when it commits (`OldIsCurrent`). Only
`Commit` changes the committed table (`OnlyCommitWrites`), and `CommitEffect`
says how; uniqueness, succession, atomicity and the refinement all follow from
that one lemma.

### JobRunner_proofs

| Theorem | Statement | Hypothesis |
|---|---|---|
| `JobInvariant` | `Spec => []JobInv` | |
| `JobTypeCorrect` | `Spec => []TypeOK` | |
| `FailuresLearned` | `Spec => []EveryFailureLearned` | |
| `SuccessCoversSections` | `Spec => []SucceededCoversSections` | |
| `JudgeInvariant` | `Spec => []JudgeInv` | `OneRunnerPerVersion` |
| `VerdictsStay` | `Spec => VerdictIsFinal` | `OneRunnerPerVersion` |
| `VerdictsMatch` | `Spec => []VerdictMatchesNormalized` | `OneRunnerPerVersion` |
| `ProcessedIsOwnWork` | `Spec => []CountsOwnWork` | `OneRunnerPerVersion` |
| `TablesInvariant` | `Spec => []TablesInv` | |
| `SectionsFollowLedger` | `Spec => Ledger!LedgerSpec` | |
| `CompleteInvariant` | `Spec => []CompleteInv` | `AloneAndNeverKilled \/ SingleRecords` |
| `SuccessIsComplete` | `Spec => []SucceededIsComplete` | `AloneAndNeverKilled \/ SingleRecords` |

The twenty steps of the program are four kinds of move of one runner: it leaves a
job (finished, killed or by an exception), begins one, advances in it, or finishes
it. `Moves` says of each kind what it writes and what it leaves alone: sections
stay, jobs are changed by their own runner only, the other runners' variables are
theirs. `NextMoves`, with a lemma per step, shows that every step is such a move,
and from there on no proof looks at a step again. Three facts make the
safety properties inductive, each a part of an invariant:

- `JobInv`: a runner in a job is the only one with that job, the job is `running`
  until it finishes it, its learning records are the failures counted so far, and
  while nothing has failed each section it is past exists.
- `JudgeInv`: the record a runner has in hand is still pending, and its fields are
  the runner's own from `attach_normalized()` on; `processed` is the number of
  records whose last judgement is the job's.
- `CompleteInv`: every section has all of its records or none, or a runner is among
  them that has the missing ones still to do (`ExtractedWhole`); a runner that has
  counted no failure has behind it no record that is absent (`LeavesNothing`).

The hypotheses mark the limits of the code. Two runners of one release may
hold the same pending record, and the second verdict overwrites the first, so
final verdicts need `OneRunnerPerVersion`, which nothing in the code enforces;
within the scheduled workflow the concurrency group does. A record is lost when a
run finds some records of a section and not the others. `AloneAndNeverKilled` and
`SingleRecords` are the two ways of excluding that, and `JobRunner_lost` is the
case they exclude.

### AuditedRunner_proofs

| Theorem | Statement |
|---|---|
| `AuditIsClean` | `Spec => []AuditFindsNoError` |
| `ExplainedInvariant` | `Spec => []ExplainedInv` |
| `WarningsExplained` | `Spec => []WarningsAreExplained` |

That no error is found follows from `TablesInv`. The warnings need a history:
`ExplainedInv` names for every adopted section the job that adopted it
(`SectionsHaveJobs`), and for every pending record that nobody was unsure about a job
of its document and release that failed, was left behind, has failed so far or has
the record still to do (`PendingIsExplained`). The number of jobs left behind is
compared with the processes lost (`DanglingsAreLost`): only the step that loses a
process leaves a job. All of it holds with any number of runners of a release.

### GoldExport_proofs

The reviewers first, then the exports among them.

| Theorem | Statement |
|---|---|
| `ReviewInvariant` | `Spec => []ReviewInv` |
| `ReviewTypeCorrect` | `Spec => []TypeOK` |
| `GoldVersionsContiguous` | `Spec => []VersionsAreContiguous` |
| `LifecycleHasNoShortcut` | `Spec => []NoStageIsSkipped` |
| `ExportInvariant` | `ExportSpec => []ExportInv` |
| `ExportRefinesReview` | `ExportSpec => Spec` (of `ReviewGold`) |
| `ExportTypeCorrect` | `ExportSpec => []ExportTypeOK` |
| `ExportsStable` | `ExportSpec => []ExportsAreStable` |

What a command has read may be stale when it writes, and the invariants say how
stale. A version computed from `MAX(version)` is at most one above the highest
there is now, and the UNIQUE key refuses every other one than the next
(`NextIsNearby`). A transition that was found legal is legal from a status the
entry has had (`TransitionWasLegal`), which is enough for `NoStageIsSkipped` and not
for `OnlyLegalTransitions`, which `ReviewGold_toctou` violates.

With INSERT and commit apart, the number in an open INSERT is still free, because
one INSERT is open at a time (`OneOpenInsert`, `OpenInsertIsFree`). That gives the
refinement: an INSERT is a stutter of `ReviewGold`, a commit its `AddVersion`. An
answer about the past is final because every row still to come is stamped with a
time that is not before it (`AnswersPrecedeInserts`), although the time is taken at
the INSERT and the row is seen at the commit.

### DbTransfer_proofs

| Theorem | Statement | Hypothesis |
|---|---|---|
| `TransferTypeCorrect` | `Spec => []TypeOK` | |
| `UploadKeepsBackup` | `Spec => RemovedIntoBackup` | |
| `UploadNeverTears` | `Spec => []NeverTorn` | `OneMachine` |
| `WorkflowInvariant` | `Spec => []WorkflowInv` | `ScheduledAlone` |
| `WorkflowPublishesDatabase` | `Spec => []PublishedIsDatabase` | `ScheduledAlone` |
| `WorkflowLeavesBackup` | `Spec => []BackupStandsIn` | `ScheduledAlone` |
| `WorkflowKeepsRuns` | `Spec => PublishedRunsStay` | `ScheduledAlone` |

Two machines that upload share the names `.uploading` and `.bak`, hence
`OneMachine`. `ScheduledAlone` is the case the concurrency group of `scheduler.yml`
ensures; with an operator an empty file may be published: the one a broken download
leaves (`DbTransfer_operator`), or the one `schedule-now` creates where there is no
database.
`UploadInv` carries the integrity check from the local file to the temporary one:
what is renamed has passed it. `WorkflowInv` adds that while the machine works, its
file contains every run a reader can find on the server, and that the backup is
removed only while the published file exists.

### Staging_proofs

| Theorem | Statement | Hypothesis |
|---|---|---|
| `StagingInvariant` | `Spec => []StagingInv` | |
| `StagingTypeCorrect` | `Spec => []TypeOK` | |
| `LayoutsRegisteredWhole` | `Spec => []RegistrationIsWhole` | |
| `CommandsStartRegistered` | `Spec => []StartsRegistered` | |
| `RecorderUsesRecorded` | `Spec => []RecordedIsUsed` | |
| `FilesInvariant` | `Spec => []FilesInv` | `PlacesApart` |
| `RowsKeepTheirFile` | `Spec => []RowsHaveTheirFile` | `PlacesApart` |

A process changes its own record and the tables only grow, so what it knows of them
(`Knows`: its parser version is recorded, its layouts are committed or pending)
stays true while others work. The rows a process has pending are those of the eras
before its place in the loop, and only the process with the write lock has any;
when it commits, all eras have a row. A process that has recorded a checksum keeps
its cached files until it ends, and the day it asks for only moves on; `Digest` is
any function of files and day, so the theorem does not rest on which items expire
when. `PlacesApart` is the caller's duty: the code
writes a document to whatever path it is given, and `CommandLine_provenance` shows
what two documents of one path lead to.

### Stages_proofs

| Theorem | Statement |
|---|---|
| `StagesInvariant` | `Spec => []StagesInv` |
| `SilenceWarned` | `Spec => []SilenceIsWarned` |
| `DetectionIsSound` | `Spec => []DetectionIsExplained` |
| `IndexesNamePlaces` | `Spec => []IndexNamesPlace` |
| `RowsProcessedOnce` | `Spec => []EveryRowIsProcessedOnce` |
| `ValuesInForce` | `Spec => []ValuesAreInForce` |
| `VerdictsFollowRules` | `Spec => []VerdictFollowsRules` |

Any layout definitions, any items with any periods, any document within any
bounds. Half of the work is about the operators, half about the steps.

- Two operators compute from place to place: the weight of the rules that hold and
  the text that the typography items leave. They are recursive functions, and what
  is said of them (a weight is a number and that of all rules is positive; only items
  of the snapshot are used) is shown up to the last place by `UpTo`, which excludes a
  least counterexample; `Recursion` shows that such a function exists. From the
  first follows that scores can be compared and that one is the highest (`Highest`),
  so that `BestIsBest` and `DetectionExplained` hold: no candidate from the third on
  needs to be looked at.
- A lookup of the stages accepts an item on its last day and the snapshot does not
  contain it; every item of the snapshot is acceptable to the lookups
  (`EffectiveIsWithin`), so the two definitions of "in force" come to the same
  (`VerdictExplained`).
- A page that cannot be read is an empty page, and an empty page does not count
  (`CountingIs`). So the sections are pages of the PDF as it was written, and their
  rows lines of it (`SectionFacts`).
- `StagesInv` then says where each row is: it is processed, waits as a record or is on
  a page whose section waits, one of the three (`Accounted`), and the number of
  processed records is the number of processed rows. `ReadingAccounts`,
  `ExtractionAccounts` and `ProcessingAccounts` keep it up at the three steps that
  move rows.

### Schedule

`NextRunIsNext`: for every anchor, positive interval and time, `next_run_at()`
returns a run of the schedule that is not before now and that no earlier one is. It
rests on the defining inequalities of the division with remainder and on
`RunsAreOrdered`: from them follows that the run before the chosen one is earlier
than now, and every run not before now comes after it.

### What is only model-checked

- Liveness under fairness: `LockIsReleased`, `EveryPdfSettles`,
  `EveryCommandEnds`. The prover cannot reason about ENABLED.
- What `FoldLeft` computes: whether the Normalizer is confident is an undetermined
  condition in the proofs, so that the theorems hold whatever the scores are.
- The four properties that do not hold.

## 5. What is not modelled

- Multi-threaded use of one connection: the composition creates one connection
  per command.
- Text below the level of a column: patterns, typography and NFKC are applied to
  whole values. PDF parsing and the confidence bands, which nothing reads; the
  text of errors, reports and logs; the events of the pipeline runner, which only
  tests read.
- The checks Q11 to Q15 of the audit. Q12, Q13 and Q14 are about columns and
  tables nothing writes to, Q15 is SQLite's own check, and Q11 fails as soon as a
  key is promoted twice.
- The writers of export formats and the upload of an export by FTP after
  `run_workflow()`; the settings file and the environment.
- Two simultaneous uploads: the workflow's concurrency group excludes them for
  scheduled runs. `.uploading` and `.bak` are shared names, so an operator who
  uploads meanwhile can lose both files.
- Review sessions, the feature store, `knowledge_items.upsert_item()` and
  `gold_records.supersede()`: nothing calls them. What `upsert_item()` leaves open
  when its INSERT fails is listed as a hazard.

## 6. Plan

1. Done: `SectionLedger`, `SectionLineage`, `JobRunner` on top of the ledger, with
   the audit; `ReviewGold` and `GoldExport`; `Session` and `Staging`; `DbTransfer`;
   `DocumentAnalysis`, `LayoutDetection`, `Normalization` and `Stages`; `Schedule`.
2. Done: all safety properties that hold as theorems, and three refinements: the
   lineage of the ledger, the driver of the ledger, the exports of the reviews.
3. Next: the driver with `Staging` in place of the constant set of PDFs, and `Stages`
   as what the outcomes of the driver's stages stand for.
