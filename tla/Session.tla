------------------------------- MODULE Session -------------------------------
(***************************************************************************)
(* The start of a command: what cli/app.py checks first, the session it    *)
(* opens (cli/bootstrap.py) and what building the application writes to    *)
(* the database before the command itself does anything: the parser        *)
(* version of the release and the layouts of the repository.               *)
(*                                                                         *)
(* Commands are operating system processes on one database file.  A        *)
(* statement is a step.  An INSERT outside BEGIN IMMEDIATE opens a         *)
(* transaction of its own, so a session that registers layouts keeps the   *)
(* write lock from its first INSERT to the commit behind the loop; when    *)
(* anything raises in between, closing the connection rolls back.          *)
(* What the commands do once they are started is in Staging.               *)
(***************************************************************************)
EXTENDS Naturals, FiniteSets, Sequences

CONSTANTS
    Processes,   \* processes that execute commands, one after another
    Commands,    \* the commands given, of the command line's twelve
    Codes,       \* values of --parser-code-version
    Eras,        \* layouts/<era_id>, in the order of their paths
    NoJob,       \* the work of a process that has not reached its command
    Digest,      \* Digest[<<r, d>>]: what _checksum() makes of the items of revision
                 \* r of the knowledge that are in force on day d
    MaxEdits,    \* bound: changes of the files of the repository
    LastDay,     \* bound: the calendar, which starts at 1
    MaxStarts,   \* bound: commands given
    MaxFaults    \* bound: processes killed and file writes that fail

Nobody == "nobody"

\* Revisions of the files under knowledge/, and days.
Revision == 1..(MaxEdits + 1)
Day      == 1..LastDay

ASSUME BoundsType     == {MaxEdits, MaxStarts, MaxFaults} \subseteq Nat
ASSUME LastDayType    == LastDay \in Nat \ {0}
ASSUME DigestType     == Digest \in [Revision \X Day -> Nat \ {0}]
ASSUME ProcessesType  == Nobody \notin Processes
ASSUME ErasType       == Eras \in Seq({Eras[i] : i \in DOMAIN Eras})
ASSUME ErasAreDistinct ==
    \A i, j \in DOMAIN Eras : Eras[i] = Eras[j] => i = j

VARIABLES
    schema,     \* how many of Tables exist
    versions,   \* parser_versions: knowledge_snapshot_checksum of each code, or 0
    layouts,    \* committed rows of layouts: [era, version]
    writer,     \* who holds SQLite's write lock
    knowledge,  \* the revision of the files under knowledge/
    manifest,   \* the version each manifest.yaml names
    today,      \* date.today()
    proc,       \* the processes
    starts, faults

sessionVars == <<schema, versions, layouts, writer, knowledge, manifest, today, proc, starts, faults>>

\* The tables a command meets first, in the order in which they are created.
Tables == <<"pdfs", "layouts", "parser_versions", "jobs">>

Exists(table) == \E n \in 1..schema : Tables[n] = table

\* The commands that open an application_session(), a job_orchestrator_session()
\* or a scheduler_session(): all three build the same application.
ApplicationCommands  == {"run-pending", "run-job", "review", "export"}
OrchestratorCommands == {"fetch-stage", "run-workflow"}
SchedulerCommands    == {"schedule-now", "list-schedule"}
Composed == ApplicationCommands \union OrchestratorCommands \union SchedulerCommands

\* download-db and upload-db open no session: see DbTransfer.
Command == Composed \union {"init-db", "version"}

ASSUME CommandsExist == Commands \subseteq Command

\* How the last command of a process ended: main() returns 0 or, for a
\* CliCommandError, 1, and the status is 1 as well when an exception escapes it.
Outcomes == {"none", "success", "error"}

\* cached is the revision the knowledge service has read and keeps, asOf the day
\* of the last snapshot it was asked for, recorded the day of the snapshot whose
\* checksum the process has recorded; 0 stands for none.
Ended(outcome) ==
    [pc |-> "free", cmd |-> "none", code |-> "none", cached |-> 0, asOf |-> 0,
     recorded |-> 0, loaded |-> [e \in {} |-> 0], at |-> 1, pending |-> {},
     job |-> NoJob, outcome |-> outcome]

At(p, location) == proc[p].pc = location

Become(p, r) == proc' = [proc EXCEPT ![p] = r]

Goto(p, location) == Become(p, [proc[p] EXCEPT !.pc = location])

Unlocked(p) == writer \in {Nobody, p}

\* Faulty: the connection is left open when a command ends.
LeaveOpen(p, outcome) ==
    /\ Become(p, Ended(outcome))
    /\ UNCHANGED writer

\* The end of the with block: close() rolls an open transaction back.
Leave(p, outcome) ==
    /\ Become(p, Ended(outcome))
    /\ writer' = IF writer = p THEN Nobody ELSE writer

\* load_snapshot(): the items of the cached files that are in force on the day
\* of the call, and their checksum.
SnapshotChecksum(p) == Digest[<<proc[p].cached, proc[p].asOf>>]

Row(era, version) == [era |-> era, version |-> version]

\* The n-th definition p has loaded has a row, as p sees the table.
Registered(p, n) ==
    Row(Eras[n], proc[p].loaded[Eras[n]]) \in layouts \union proc[p].pending

-----------------------------------------------------------------------------
(* Faulty variants of some steps, not part of the specification.           *)

\* The loop over the definitions ends at the first that is registered.
CommitLayoutsEarly(p) ==
    /\ At(p, "sync")
    /\ proc[p].at \in DOMAIN Eras => \E n \in proc[p].at..Len(Eras) : Registered(p, n)
    /\ layouts' = layouts \union proc[p].pending
    /\ writer' = IF writer = p THEN Nobody ELSE writer
    /\ Become(p, [proc[p] EXCEPT !.pc = "body", !.pending = {}])
    /\ UNCHANGED <<schema, versions, knowledge, manifest, today, starts, faults>>

\* Every layout is committed by itself.
InsertLayoutAndCommit(p) ==
    /\ At(p, "insert") /\ Unlocked(p)
    /\ LET era == Eras[proc[p].at]
           row == Row(era, proc[p].loaded[era])
       IN  IF row \in layouts
           THEN /\ Leave(p, "error")
                /\ UNCHANGED layouts
           ELSE /\ layouts' = layouts \union {row}
                /\ Become(p, [proc[p] EXCEPT !.pc = "sync", !.at = @ + 1])
                /\ UNCHANGED writer
    /\ UNCHANGED <<schema, versions, knowledge, manifest, today, starts, faults>>

-----------------------------------------------------------------------------
\* No database, one that init-db has made, or one a session has worked on.
SessionInit ==
    /\ \/ /\ schema \in {0, Len(Tables)}
          /\ versions = [c \in Codes |-> 0]
          /\ layouts  = {}
       \/ /\ schema   = Len(Tables)
          /\ versions = [c \in Codes |-> Digest[<<1, 1>>]]
          /\ layouts  = {Row(Eras[i], 1) : i \in DOMAIN Eras}
    /\ writer    = Nobody
    /\ knowledge = 1
    /\ manifest  = [e \in {Eras[i] : i \in DOMAIN Eras} |-> 1]
    /\ today     = 1
    /\ proc      = [p \in Processes |-> Ended("none")]
    /\ starts    = 0
    /\ faults    = 0

\* A command with its options complete and its arguments well-formed.  job is
\* what its arguments ask for.
Start(p, c, code, job) ==
    /\ At(p, "free")
    /\ starts < MaxStarts
    /\ starts' = starts + 1
    /\ Become(p, [Ended("none") EXCEPT
                    !.pc = CASE c = "init-db" -> "schema"
                             [] c = "version" -> "version"
                             [] OTHER         -> "lookup",
                    !.cmd = c, !.code = code, !.job = job])
    /\ UNCHANGED <<schema, versions, layouts, writer, knowledge, manifest, today, faults>>

\* A command that is refused before anything is opened.
Refuse(p) ==
    /\ At(p, "free")
    /\ starts < MaxStarts
    /\ starts' = starts + 1
    /\ Become(p, Ended("error"))
    /\ UNCHANGED <<schema, versions, layouts, writer, knowledge, manifest, today, faults>>

\* _require_settings(): a path is missing.
OptionIsMissing(p) == Refuse(p)

\* _parse_since(), _parse_date(): the arguments are evaluated before the call.
DateIsMalformed(p) == Refuse(p)

\* apply_schema(): executescript() commits every CREATE TABLE by itself.
CreateTable(p) ==
    /\ At(p, "schema") /\ Unlocked(p)
    /\ LET n == proc[p].at
       IN  IF n <= schema
           THEN /\ Leave(p, "error")
                /\ UNCHANGED schema
           ELSE /\ schema' = n
                /\ IF n = Len(Tables) THEN Leave(p, "success")
                   ELSE /\ Become(p, [proc[p] EXCEPT !.at = n + 1])
                        /\ UNCHANGED writer
    /\ UNCHANGED <<versions, layouts, knowledge, manifest, today, starts, faults>>

\* version builds no application and writes nothing: it reads the knowledge
\* files ...
BuildVersion(p) ==
    /\ At(p, "version")
    /\ Become(p, [proc[p] EXCEPT !.pc = "show", !.cached = knowledge, !.asOf = today])
    /\ UNCHANGED <<schema, versions, layouts, writer, knowledge, manifest, today, starts, faults>>

\* ... and the latest parser version.
ShowVersion(p) ==
    /\ At(p, "show")
    /\ Leave(p, IF Exists("parser_versions") THEN "success" ELSE "error")
    /\ UNCHANGED <<schema, versions, layouts, knowledge, manifest, today, starts, faults>>

\* _resolve_parser_version_id(): a code that has a row keeps its checksum ...
GetParserVersion(p) ==
    /\ At(p, "lookup")
    /\ IF ~Exists("parser_versions") THEN Leave(p, "error")
       ELSE /\ Goto(p, IF versions[proc[p].code] = 0 THEN "snapshot" ELSE "load")
            /\ UNCHANGED writer
    /\ UNCHANGED <<schema, versions, layouts, knowledge, manifest, today, starts, faults>>

\* ... and a new one gets the checksum of the files as they are now and of the
\* items in force today.  The service keeps the files, not the day.
LoadSnapshot(p) ==
    /\ At(p, "snapshot")
    /\ Become(p, [proc[p] EXCEPT !.pc = "record", !.cached = knowledge, !.asOf = today])
    /\ UNCHANGED <<schema, versions, layouts, writer, knowledge, manifest, today, starts, faults>>

RecordParserVersion(p) ==
    /\ At(p, "record") /\ Unlocked(p)
    /\ IF versions[proc[p].code] # 0
       THEN /\ Leave(p, "error")
            /\ UNCHANGED versions
       ELSE /\ versions' = [versions EXCEPT ![proc[p].code] = SnapshotChecksum(p)]
            /\ Become(p, [proc[p] EXCEPT !.pc = "load", !.recorded = proc[p].asOf])
            /\ UNCHANGED writer
    /\ UNCHANGED <<schema, layouts, knowledge, manifest, today, starts, faults>>

\* load_layout_definitions().
LoadDefinitions(p) ==
    /\ At(p, "load")
    /\ Become(p, [proc[p] EXCEPT !.pc = "sync", !.loaded = manifest])
    /\ UNCHANGED <<schema, versions, layouts, writer, knowledge, manifest, today, starts, faults>>

\* sync_layout_definitions(): _is_already_registered() skips what has a row.
\* Rows stay, so skipping several layouts is one step.
FindLayout(p) ==
    /\ At(p, "sync")
    /\ \E n \in DOMAIN Eras :
          /\ n >= proc[p].at
          /\ ~Registered(p, n)
          /\ \A m \in proc[p].at..(n - 1) : Registered(p, m)
          /\ Become(p, [proc[p] EXCEPT !.pc = "insert", !.at = n])
    /\ UNCHANGED <<schema, versions, layouts, writer, knowledge, manifest, today, starts, faults>>

\* ... the INSERT, which UNIQUE (era_id, version) refuses when another process
\* has registered the layout since ...
InsertLayout(p) ==
    /\ At(p, "insert") /\ Unlocked(p)
    /\ LET era == Eras[proc[p].at]
           row == Row(era, proc[p].loaded[era])
       IN  IF row \in layouts THEN Leave(p, "error")
           ELSE /\ writer' = p
                /\ Become(p, [proc[p] EXCEPT !.pc = "sync", !.at = @ + 1,
                                             !.pending = @ \union {row}])
    /\ UNCHANGED <<schema, versions, layouts, knowledge, manifest, today, starts, faults>>

\* ... and the commit behind the loop; the application is complete.
CommitLayouts(p) ==
    /\ At(p, "sync")
    /\ \A n \in proc[p].at..Len(Eras) : Registered(p, n)
    /\ layouts' = layouts \union proc[p].pending
    /\ writer' = IF writer = p THEN Nobody ELSE writer
    /\ Become(p, [proc[p] EXCEPT !.pc = "body", !.pending = {}])
    /\ UNCHANGED <<schema, versions, knowledge, manifest, today, starts, faults>>

\* KnowledgeLoadError, LayoutDetectorError or OSError: a file is missing or is
\* not what the loader expects.
FileIsUnusable(p) ==
    /\ proc[p].pc \in {"snapshot", "load", "insert", "version"}
    /\ Leave(p, "error")
    /\ UNCHANGED <<schema, versions, layouts, knowledge, manifest, today, starts, faults>>

\* "database is locked" after busy_timeout.
LockTimesOut(p) ==
    /\ proc[p].pc \in {"schema", "record", "insert", "add"}
    /\ ~Unlocked(p)
    /\ Leave(p, "error")
    /\ UNCHANGED <<schema, versions, layouts, knowledge, manifest, today, starts, faults>>

Kill(p) ==
    /\ ~At(p, "free")
    /\ faults < MaxFaults
    /\ faults' = faults + 1
    /\ Leave(p, "error")
    /\ UNCHANGED <<schema, versions, layouts, knowledge, manifest, today, starts>>

\* The repository is updated: knowledge files change in place, a changed
\* manifest has a new version.
Edits == knowledge - 1 + Cardinality({x \in (DOMAIN manifest) \X (2..(MaxEdits + 1)) :
                                          x[2] <= manifest[x[1]]})

EditKnowledge ==
    /\ Edits < MaxEdits
    /\ knowledge' = knowledge + 1
    /\ UNCHANGED <<schema, versions, layouts, writer, manifest, today, proc, starts, faults>>

EditManifest(e) ==
    /\ Edits < MaxEdits
    /\ manifest' = [manifest EXCEPT ![e] = @ + 1]
    /\ UNCHANGED <<schema, versions, layouts, writer, knowledge, today, proc, starts, faults>>

\* A day begins.  Bound: midnights fall behind a process that has asked for the
\* date, so the first of several snapshots is of the first day.
Midnight ==
    /\ today < LastDay
    /\ \E p \in Processes : proc[p].asOf # 0
    /\ today' = today + 1
    /\ UNCHANGED <<schema, versions, layouts, writer, knowledge, manifest, proc, starts, faults>>

\* A process that builds its session, without the faults.
Build(p) ==
    \/ CreateTable(p) \/ BuildVersion(p) \/ ShowVersion(p)
    \/ GetParserVersion(p) \/ LoadSnapshot(p) \/ RecordParserVersion(p)
    \/ LoadDefinitions(p) \/ FindLayout(p) \/ InsertLayout(p) \/ CommitLayouts(p)

Refused(p) == OptionIsMissing(p) \/ DateIsMalformed(p)

Fault(p) == FileIsUnusable(p) \/ LockTimesOut(p) \/ Kill(p)

Edit == EditKnowledge \/ \E e \in DOMAIN manifest : EditManifest(e)

\* What changes under the processes.
World == Edit \/ Midnight

-----------------------------------------------------------------------------
(* Properties.                                                             *)

LayoutRows == [era : {Eras[i] : i \in DOMAIN Eras}, version : Revision]

Checksums == {Digest[x] : x \in Revision \X Day}

SessionTypeOK ==
    /\ schema \in 0..Len(Tables)
    /\ versions \in [Codes -> Checksums \union {0}]
    /\ layouts \subseteq LayoutRows
    /\ writer \in Processes \union {Nobody}
    /\ knowledge \in Revision /\ today \in Day
    /\ \A e \in DOMAIN manifest : manifest[e] \in Revision
    /\ \A p \in Processes :
          /\ proc[p].cmd \in Commands \union {"none"}
          /\ proc[p].code \in Codes \union {"none"}
          /\ proc[p].cached \in Revision \union {0}
          /\ {proc[p].asOf, proc[p].recorded} \subseteq Day \union {0}
          /\ proc[p].at \in 1..(Len(Eras) + Len(Tables))
          /\ proc[p].pending \subseteq LayoutRows
          /\ proc[p].outcome \in Outcomes
    /\ starts \in 0..MaxStarts
    /\ faults \in 0..MaxFaults

\* The layouts of the repository are registered together or not at all, even
\* when registering processes race, fail half-way or are killed: no era is
\* without a row once another one has its row.
RegistrationIsWhole ==
    layouts # {} => \A i \in DOMAIN Eras : \E row \in layouts : row.era = Eras[i]

\* When a command begins its own work, whatever else runs, the release it
\* names and every layout definition it has loaded have committed rows: every
\* section it parses can be stored (SqliteCandidateRepository looks layouts up
\* by era).
StartsRegistered ==
    \A p \in Processes :
        proc[p].pc \notin {"free", "schema", "version", "show", "lookup", "snapshot",
                           "record", "load", "sync", "insert"}
            => /\ versions[proc[p].code] # 0
               /\ \A i \in DOMAIN Eras : Row(Eras[i], proc[p].loaded[Eras[i]]) \in layouts

\* The process that records a parser version works with the files whose checksum
\* it recorded, although they may change meanwhile, and so with the very snapshot
\* as long as the day is the same: a snapshot it uses has another checksum than
\* the row only when a midnight has passed since it asked for the recorded one
\* (run_for_pdf() asks for the day again for each document).
RecordedIsUsed ==
    \A p \in Processes :
        LET row == versions[proc[p].code]
        IN  proc[p].recorded # 0 =>
              /\ row = Digest[<<proc[p].cached, proc[p].recorded>>]
              /\ SnapshotChecksum(p) # row => proc[p].recorded < proc[p].asOf
=============================================================================
