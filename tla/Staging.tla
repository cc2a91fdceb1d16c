------------------------------- MODULE Staging -------------------------------
(***************************************************************************)
(* What commands do with PDFs once their session is built (Session):       *)
(* fetch_and_stage() of services/orchestrator.py looks the content hash    *)
(* up, writes the file and adds the row; the pipeline takes the rows that  *)
(* are fetched and reads each file twice, in the Document Analyzer and in  *)
(* the Layout Detector.  The files lie on a storage all processes share.   *)
(* How the pipeline processes a document in detail is in JobRunner; here   *)
(* it ends in a status that other stages decide.                           *)
(***************************************************************************)
EXTENDS Session, FiniteSetsExt

CONSTANTS
    Documents,      \* what the web server offers, told apart by content
    Paths,          \* files on the storage
    Place,          \* the paths a document may be staged to
    WorkflowItems   \* what callers of run_workflow() ask it to fetch; the CLI passes <<>>

ASSUME PlaceType == Place \in [Documents -> SUBSET Paths]
ASSUME WorkflowItemsType == WorkflowItems \subseteq Seq(Documents)

VARIABLES
    pdfs,    \* rows in the order of their ids: [doc, path, status, source]
    files    \* what each path holds

vars == <<sessionVars, pdfs, files>>

\* A file may be missing, or written in part.
Missing == "missing"
Torn    == "torn"

\* source is what the pipeline read, Missing until it has.
Staged(doc, path) == [doc |-> doc, path |-> path, status |-> "fetched", source |-> Missing]

\* The work of a command: what is still to be fetched, the rows still in the
\* batch of the pipeline, lowest id first, and the destination of the document
\* in hand.
Job(items, batch, dest) == [items |-> items, batch |-> batch, dest |-> dest]

Idle == Job(<<>>, {}, Missing)

ASSUME NoJobIsIdle == NoJob = Idle

\* _fetch_all() collects a FetchError, fetch-stage does not.
Collects(p) == proc[p].cmd = "run-workflow"

Fetching(p) == proc[p].cmd \in OrchestratorCommands /\ proc[p].job.items # <<>>

Continue(p, location, job) ==
    Become(p, [proc[p] EXCEPT !.pc = location, !.job = job])

InHand(p) == Head(proc[p].job.items)

NextItem(p) == [proc[p].job EXCEPT !.items = Tail(@), !.dest = Missing]

InTable(doc) == \E id \in DOMAIN pdfs : pdfs[id].doc = doc

Others == <<schema, versions, layouts, knowledge, manifest, today, starts, faults>>

-----------------------------------------------------------------------------
(* Faulty variants of some steps, not part of Spec.                        *)

\* The row is added before the file is written.
GetByHashRowFirst(p) ==
    /\ At(p, "check")
    /\ IF InTable(InHand(p)) THEN Continue(p, "body", NextItem(p)) /\ UNCHANGED pdfs
       ELSE /\ Goto(p, "write")
            /\ pdfs' = Append(pdfs, Staged(InHand(p), proc[p].job.dest))
    /\ UNCHANGED <<Others, writer, files>>

\* The destination of a document is given up before its row is added.
AddPdfWithoutPath(p) ==
    /\ At(p, "add") /\ Unlocked(p)
    /\ pdfs' = Append(pdfs, Staged(InHand(p), NextItem(p).dest))
    /\ Continue(p, "body", NextItem(p))
    /\ UNCHANGED <<Others, writer, files>>

\* Each document of a batch is processed with the files of the moment.
AnalyzeReloading(p) ==
    /\ At(p, "batch") /\ proc[p].job.batch # {}
    /\ Become(p, [proc[p] EXCEPT !.pc = "detect", !.cached = knowledge, !.asOf = today])
    /\ UNCHANGED <<Others, writer, pdfs, files>>

-----------------------------------------------------------------------------
Init ==
    /\ SessionInit
    /\ \/ /\ pdfs  = <<>>
          /\ files = [f \in Paths |-> Missing]
       \/ \E d \in Documents : \E path \in Place[d] :
             /\ layouts # {}
             /\ pdfs  = <<Staged(d, path)>>
             /\ files = [[f \in Paths |-> Missing] EXCEPT ![path] = d]

\* The arguments of a command: a document to fetch, or those of run_workflow().
Arguments(c) ==
    CASE c = "fetch-stage"  -> {Job(<<d>>, {}, Missing) : d \in Documents}
      [] c = "run-workflow" -> {Job(items, {}, Missing) : items \in WorkflowItems}
      [] OTHER              -> {Idle}

Dispatch(p) ==
    /\ \E c \in Commands, code \in Codes : \E job \in Arguments(c) : Start(p, c, code, job)
    /\ UNCHANGED <<pdfs, files>>

\* HTTPFetchClient.fetch(): the answer is a document.
Fetch(p) ==
    /\ At(p, "body") /\ Fetching(p)
    /\ \E path \in Place[InHand(p)] :
          Continue(p, "check", [proc[p].job EXCEPT !.dest = path])
    /\ UNCHANGED <<Others, writer, pdfs, files>>

\* A FetchError: the scheme, the network, a timeout, the status or the content
\* type.
FetchFails(p) ==
    /\ At(p, "body") /\ Fetching(p)
    /\ IF Collects(p)
       THEN Continue(p, "body", NextItem(p)) /\ UNCHANGED writer
       ELSE Leave(p, "error")
    /\ UNCHANGED <<Others, pdfs, files>>

\* The connection breaks while the answer is read: an exception that is no
\* URLError and that nothing converts or collects.
FetchBreaks(p) ==
    /\ At(p, "body") /\ Fetching(p)
    /\ Leave(p, "error")
    /\ UNCHANGED <<Others, pdfs, files>>

\* A document whose hash has a row is not stored again.
GetByHash(p) ==
    /\ At(p, "check")
    /\ IF InTable(InHand(p)) THEN Continue(p, "body", NextItem(p)) ELSE Goto(p, "write")
    /\ UNCHANGED <<Others, writer, pdfs, files>>

\* write_bytes() truncates the file, whatever it holds, and then fills it.
Truncate(p) ==
    /\ At(p, "write")
    /\ files' = [files EXCEPT ![proc[p].job.dest] = Torn]
    /\ Goto(p, "fill")
    /\ UNCHANGED <<Others, writer, pdfs>>

Fill(p) ==
    /\ At(p, "fill")
    /\ files' = [files EXCEPT ![proc[p].job.dest] = InHand(p)]
    /\ Goto(p, "add")
    /\ UNCHANGED <<Others, writer, pdfs>>

\* OSError: the disk is full or the directory does not exist.
WriteFails(p) ==
    /\ proc[p].pc \in {"write", "fill"}
    /\ faults < MaxFaults
    /\ faults' = faults + 1
    /\ Leave(p, "error")
    /\ UNCHANGED <<schema, versions, layouts, knowledge, manifest, today, starts, pdfs, files>>

\* add(): content_hash is UNIQUE.  The IntegrityError of a document that was
\* added since is not caught, neither here nor by _fetch_all().
AddPdf(p) ==
    /\ At(p, "add") /\ Unlocked(p)
    /\ IF InTable(InHand(p))
       THEN /\ Leave(p, "error")
            /\ UNCHANGED pdfs
       ELSE /\ pdfs' = Append(pdfs, Staged(InHand(p), proc[p].job.dest))
            /\ Continue(p, "body", NextItem(p))
            /\ UNCHANGED writer
    /\ UNCHANGED <<Others, files>>

Fetched == {id \in DOMAIN pdfs : pdfs[id].status = "fetched"}

\* list_by_status("fetched").  A scheduled run without work is no error.
ListPending(p) ==
    /\ At(p, "body")
    /\ proc[p].cmd \in {"run-pending", "schedule-now", "run-workflow"}
    /\ proc[p].job.items = <<>>
    /\ IF Fetched = {} /\ proc[p].cmd = "schedule-now"
       THEN Leave(p, "success")
       ELSE /\ Continue(p, "batch", [proc[p].job EXCEPT !.batch = Fetched])
            /\ UNCHANGED writer
    /\ UNCHANGED <<Others, pdfs, files>>

\* run-job takes the document it is told, whatever its status.
ReadPdf(p) ==
    /\ At(p, "body") /\ proc[p].cmd = "run-job"
    /\ \/ /\ Leave(p, "error")
       \/ /\ \E id \in DOMAIN pdfs : Continue(p, "batch", [proc[p].job EXCEPT !.batch = {id}])
          /\ UNCHANGED writer
    /\ UNCHANGED <<Others, pdfs, files>>

\* The first read of the file, by DocumentAnalyzer: it reports what it sees of
\* a broken file and goes on.  Nobody compares the hash of what it read with
\* the row.  Before, run_for_pdf() asks for the snapshot of the day; the knowledge
\* files are read when the process has not read them before.
Analyze(p) ==
    /\ At(p, "batch") /\ proc[p].job.batch # {}
    /\ Become(p, [proc[p] EXCEPT !.pc = "detect", !.asOf = today,
                                 !.cached = IF @ = 0 THEN knowledge ELSE @])
    /\ UNCHANGED <<Others, writer, pdfs, files>>

\* The second read, by LayoutDetector, which refuses most torn files; the
\* results are stored under the id of the row.
Detect(p) ==
    /\ At(p, "detect")
    /\ LET id == Min(proc[p].job.batch)
       IN  \E status \in {"validated", "failed"} :
              pdfs' = [pdfs EXCEPT ![id].status = status, ![id].source = files[pdfs[id].path]]
    /\ Continue(p, "batch", [proc[p].job EXCEPT !.batch = @ \ {Min(@)}])
    /\ UNCHANGED <<Others, writer, files>>

\* The batch is done.  run-workflow goes on to list reviews and to export,
\* where FTP may fail.
EndBatch(p) ==
    /\ At(p, "batch") /\ proc[p].job.batch = {}
    /\ \/ Leave(p, "success")
       \/ proc[p].cmd = "run-workflow" /\ Leave(p, "error")
    /\ UNCHANGED <<Others, pdfs, files>>

EndFetchStage(p) ==
    /\ At(p, "body") /\ proc[p].cmd = "fetch-stage" /\ proc[p].job.items = <<>>
    /\ Leave(p, "success")
    /\ UNCHANGED <<Others, pdfs, files>>

\* review, export and list-schedule: what they do to learning and gold records
\* is in ReviewGold; an illegal review step raises.
Rest(p) ==
    /\ At(p, "body") /\ proc[p].cmd \in {"review", "export", "list-schedule"}
    /\ \/ Leave(p, "success")
       \/ proc[p].cmd = "review" /\ Leave(p, "error")
    /\ UNCHANGED <<Others, pdfs, files>>

Body(p) ==
    \/ Fetch(p) \/ FetchFails(p) \/ FetchBreaks(p) \/ GetByHash(p)
    \/ Truncate(p) \/ Fill(p) \/ WriteFails(p) \/ AddPdf(p) \/ EndFetchStage(p)
    \/ ListPending(p) \/ ReadPdf(p) \/ Analyze(p) \/ Detect(p) \/ EndBatch(p)
    \/ Rest(p)

\* A command goes on by itself; it is neither killed nor saved by a timeout.
Step(p) == (Build(p) /\ UNCHANGED <<pdfs, files>>) \/ Body(p)

Next ==
    \/ \E p \in Processes :
          \/ Dispatch(p)
          \/ Step(p)
          \/ (Refused(p) \/ Fault(p)) /\ UNCHANGED <<pdfs, files>>
    \/ World /\ UNCHANGED <<pdfs, files>>

Spec == Init /\ [][Next]_vars /\ \A p \in Processes : WF_vars(Step(p))

-----------------------------------------------------------------------------
(* Properties.                                                             *)

Contents == Documents \union {Missing, Torn}

\* The variables have their types.
TypeOK ==
    /\ SessionTypeOK
    /\ \A id \in DOMAIN pdfs :
          /\ pdfs[id].doc \in Documents /\ pdfs[id].path \in Place[pdfs[id].doc]
          /\ pdfs[id].status \in {"fetched", "validated", "failed"}
          /\ pdfs[id].source \in Contents
    /\ files \in [Paths -> Contents]
    /\ \A p \in Processes :
          proc[p].job.dest \in Paths \union {Missing} /\ proc[p].job.batch \subseteq DOMAIN pdfs

\* Unless a process has died at it, a row of pdfs has its document: its file is
\* whole, or another fetch of the same document is just writing it again.
RowsHaveTheirFile ==
    faults = 0 =>
        \A id \in DOMAIN pdfs :
            \/ files[pdfs[id].path] = pdfs[id].doc
            \/ \E p \in Processes : At(p, "fill") /\ proc[p].job.dest = pdfs[id].path

\* Every command ends, also when it waits for the lock of another one that
\* fails: no session keeps the lock.
EveryCommandEnds ==
    \A p \in Processes : ~At(p, "free") ~> At(p, "free")

\* docs/database/schema.md on pdfs: every later stage can be traced to the PDF
\* it comes from, by the content hash of its row.
ResultsNameTheirSource ==
    \A id \in DOMAIN pdfs : pdfs[id].source \in {Missing, pdfs[id].doc}
=============================================================================
