----------------------------- MODULE DbTransfer -----------------------------
(***************************************************************************)
(* The database file between the FTP server and the machines that work on  *)
(* it: download-db, schedule-now and upload-db as .github/workflows/       *)
(* scheduler.yml chains them, and as an operator calls them one by one     *)
(* (cli/commands.py, ftp/client.py).                                       *)
(*                                                                         *)
(* A file is empty, torn (a transfer that broke off), or a database, which *)
(* is the set of the pipeline runs it has been through.  Every FTP command *)
(* is a step and may fail; a process may die after any of them.            *)
(***************************************************************************)
EXTENDS Naturals, FiniteSets

CONSTANTS
    Workflows,    \* machines of scheduler.yml runs: the concurrency group has one
    Operators,    \* workstations on which the commands are called by hand
    Holders,      \* the workstations that have a copy of the published database
    MaxRuns,      \* bound: pipeline runs
    MaxFaults     \* bound: FTP commands that fail and processes that die

ASSUME BoundsType == {MaxRuns, MaxFaults} \subseteq Nat
ASSUME WorkflowIsNoOperator == Workflows \intersect Operators = {}
ASSUME HoldersAreOperators  == Holders \subseteq Operators

Hosts == Workflows \union Operators

\* The names upload() uses: remote_path, remote_path.uploading, remote_path.bak.
Names == {"db", "uploading", "bak"}

Db(runs) == [kind |-> "db", runs |-> runs]
NoFile   == [kind |-> "none",  runs |-> {}]
Empty    == [kind |-> "empty", runs |-> {}]
Torn     == [kind |-> "torn",  runs |-> {}]

VARIABLES
    remote,  \* the files on the server
    local,   \* settings.db_path on each machine
    pc,      \* the next step of the command each machine executes
    runs,    \* how many pipeline runs there have been
    faults

vars == <<remote, local, pc, runs, faults>>

Exists(name) == remote[name] # NoFile

Goto(h, from, to) ==
    /\ pc[h] = from
    /\ pc' = [pc EXCEPT ![h] = to]

\* Where a command leaves its machine: the workflow goes on to its next command,
\* an operator to whatever comes to mind.
After(h, next) == IF h \in Workflows THEN next ELSE "free"

\* A rename on the server; it refuses to overwrite (553 already exist).
Rename(from, to) ==
    /\ Exists(from)
    /\ ~Exists(to)
    /\ remote' = [remote EXCEPT ![to] = remote[from], ![from] = NoFile]

-----------------------------------------------------------------------------
(* Faulty variants of some steps, not part of Spec (see the properties).   *)

\* The file is stored under its final name.
StoreInPlace(h) ==
    /\ Goto(h, "store", "storing")
    /\ remote' = [remote EXCEPT !["db"] = Torn]
    /\ UNCHANGED <<local, runs, faults>>

\* The integrity check is skipped.
CheckNothing(h) ==
    /\ Goto(h, "check", "store")
    /\ UNCHANGED <<remote, local, runs, faults>>

\* The published file is deleted to make room for the new one.
DeleteInsteadOfBackup(h) ==
    /\ Goto(h, "back_up", "publish")
    /\ remote' = [remote EXCEPT !["db"] = NoFile]
    /\ UNCHANGED <<local, runs, faults>>

\* A download that finds no published file goes on with a new database.
RetrieveOrStartAfresh(h) ==
    /\ ~Exists("db")
    /\ Goto(h, "retrieve", After(h, "trigger"))
    /\ local' = [local EXCEPT ![h] = Db({})]
    /\ UNCHANGED <<remote, runs, faults>>

\* STOR is given the name of the file instead of its content.
StoredName(h) ==
    /\ Goto(h, "storing", "find_db")
    /\ remote' = [remote EXCEPT !["uploading"] = [kind |-> "name", runs |-> {}]]
    /\ UNCHANGED <<local, runs, faults>>

-----------------------------------------------------------------------------
Init ==
    /\ remote = [n \in Names |-> IF n = "db" THEN Db({}) ELSE NoFile]
    /\ local  = [h \in Hosts |-> IF h \in Holders THEN Db({}) ELSE NoFile]
    /\ pc     = [h \in Hosts |-> "free"]
    /\ runs   = 0
    /\ faults = 0

\* A scheduler.yml run starts on a fresh machine.
StartWorkflow(h) ==
    /\ Goto(h, "free", "connect_down")
    /\ local' = [local EXCEPT ![h] = NoFile]
    /\ UNCHANGED <<remote, runs, faults>>

\* An operator calls one of the three commands.
StartCommand(h) ==
    /\ \E first \in {"connect_down", "trigger", "check"} : Goto(h, "free", first)
    /\ UNCHANGED <<remote, local, runs, faults>>

\* download(): the local file is opened for writing, and so truncated, before
\* the server is asked for anything.
Open(h) ==
    /\ Goto(h, "connect_down", "retrieve")
    /\ local' = [local EXCEPT ![h] = Empty]
    /\ UNCHANGED <<remote, runs, faults>>

Retrieve(h) ==
    /\ Exists("db")
    /\ Goto(h, "retrieve", After(h, "trigger"))
    /\ local' = [local EXCEPT ![h] = remote["db"]]
    /\ UNCHANGED <<remote, runs, faults>>

\* There is no such file, or the transfer breaks off: download-db fails with
\* what has arrived.
RetrieveFails(h) ==
    /\ \/ ~Exists("db") /\ UNCHANGED <<local, faults>>
       \/ /\ Exists("db")
          /\ faults < MaxFaults
          /\ faults' = faults + 1
          /\ local' = [local EXCEPT ![h] = Torn]
    /\ Goto(h, "retrieve", "free")
    /\ UNCHANGED <<remote, runs>>

\* schedule-now: the pipeline works on the local database, or finds no pending
\* PDF, which the command line turns into a success.
RunPipeline(h) ==
    /\ local[h].kind = "db"
    /\ Goto(h, "trigger", After(h, "check"))
    /\ \/ /\ runs < MaxRuns
          /\ runs' = runs + 1
          /\ local' = [local EXCEPT ![h] = Db(@.runs \union {runs'})]
       \/ UNCHANGED <<runs, local>>
    /\ UNCHANGED <<remote, faults>>

\* Anything else is no database with tables; sqlite3 creates a missing file.
RunPipelineFails(h) ==
    /\ local[h].kind # "db"
    /\ Goto(h, "trigger", "free")
    /\ local' = [local EXCEPT ![h] = IF @ = NoFile THEN Empty ELSE @]
    /\ UNCHANGED <<remote, runs, faults>>

\* _check_database_integrity(): no file and a torn file are refused; for an
\* empty file integrity_check answers ok.
Check(h) ==
    /\ Goto(h, "check", IF local[h] \in {NoFile, Torn} THEN "free" ELSE "store")
    /\ UNCHANGED <<remote, local, runs, faults>>

\* upload(): STOR to the temporary name, ...
Store(h) ==
    /\ Goto(h, "store", "storing")
    /\ remote' = [remote EXCEPT !["uploading"] = Torn]
    /\ UNCHANGED <<local, runs, faults>>

Stored(h) ==
    /\ Goto(h, "storing", "find_db")
    /\ remote' = [remote EXCEPT !["uploading"] = local[h]]
    /\ UNCHANGED <<local, runs, faults>>

\* ... ask with SIZE for the published file and its backup, ...
FindDb(h) ==
    /\ Goto(h, "find_db", IF Exists("db") THEN "find_bak" ELSE "publish")
    /\ UNCHANGED <<remote, local, runs, faults>>

FindBak(h) ==
    /\ Goto(h, "find_bak", IF Exists("bak") THEN "delete_bak" ELSE "back_up")
    /\ UNCHANGED <<remote, local, runs, faults>>

\* ... delete the old backup, ...
DeleteBak(h) ==
    /\ Exists("bak")
    /\ Goto(h, "delete_bak", "back_up")
    /\ remote' = [remote EXCEPT !["bak"] = NoFile]
    /\ UNCHANGED <<local, runs, faults>>

\* ... make the published file the backup, and publish the temporary one.
BackUp(h) ==
    /\ Rename("db", "bak")
    /\ Goto(h, "back_up", "publish")
    /\ UNCHANGED <<local, runs, faults>>

Publish(h) ==
    /\ Rename("uploading", "db")
    /\ Goto(h, "publish", "free")
    /\ UNCHANGED <<local, runs, faults>>

\* The server refuses a command of upload() because of the files it has: another
\* machine renamed or deleted them meanwhile.
Refused(h) ==
    /\ \/ pc[h] = "delete_bak" /\ ~Exists("bak")
       \/ pc[h] = "back_up" /\ (~Exists("db") \/ Exists("bak"))
       \/ pc[h] = "publish" /\ (~Exists("uploading") \/ Exists("db"))
    /\ Goto(h, pc[h], "free")
    /\ UNCHANGED <<remote, local, runs, faults>>

\* SIZE is refused with another 5xx reply than 550: the file counts as missing.
FindMisreports(h) ==
    /\ faults < MaxFaults
    /\ faults' = faults + 1
    /\ \/ Exists("db")  /\ Goto(h, "find_db", "publish")
       \/ Exists("bak") /\ Goto(h, "find_bak", "back_up")
    /\ UNCHANGED <<remote, local, runs>>

\* The connection breaks or the process dies: the command ends where it is, and
\* with it the workflow, which does not execute a step after a failed one.
Fail(h) ==
    /\ pc[h] # "free"
    /\ faults < MaxFaults
    /\ faults' = faults + 1
    /\ pc' = [pc EXCEPT ![h] = "free"]
    /\ UNCHANGED <<remote, local, runs>>

Step(h) ==
    \/ Open(h)
    \/ Retrieve(h)
    \/ RetrieveFails(h)
    \/ RunPipeline(h)
    \/ RunPipelineFails(h)
    \/ Check(h)
    \/ Store(h)
    \/ Stored(h)
    \/ FindDb(h)
    \/ FindBak(h)
    \/ DeleteBak(h)
    \/ BackUp(h)
    \/ Publish(h)
    \/ Refused(h)

Next ==
    \/ \E h \in Workflows : StartWorkflow(h)
    \/ \E h \in Operators : StartCommand(h)
    \/ \E h \in Hosts : Step(h) \/ FindMisreports(h) \/ Fail(h)

Spec == Init /\ [][Next]_vars

-----------------------------------------------------------------------------
(***************************************************************************)
(* Properties                                                              *)
(***************************************************************************)

Files == {NoFile, Empty, Torn} \union {Db(s) : s \in SUBSET (1 .. MaxRuns)}

\* Every variable keeps its type.
TypeOK ==
    /\ remote \in [Names -> Files]
    /\ local  \in [Hosts -> Files]
    /\ pc \in [Hosts -> {"free", "connect_down", "retrieve", "trigger", "check",
                         "store", "storing", "find_db", "find_bak", "delete_bak",
                         "back_up", "publish"}]
    /\ runs   \in 0 .. MaxRuns
    /\ faults \in 0 .. MaxFaults

\* The docstring of _check_database_integrity(): a broken file is never written
\* back.  What is published is a database, however a scheduler.yml run ends.
PublishedIsDatabase == remote["db"].kind \in {"none", "db"}

\* The docstring of upload(): a transfer that breaks off destroys neither the
\* published file nor its backup, whatever was uploaded before.
NeverTorn == remote["db"] # Torn /\ remote["bak"] # Torn

\* docs/operations/release.md, atomic upload: should the published file be gone,
\* a database to recover from is in the backup.
BackupStandsIn == remote["db"] = NoFile => remote["bak"].kind = "db"

\* The published file leaves its name only for the backup's, with its content.
RemovedIntoBackup ==
    [][Exists("db") /\ remote'["db"] # remote["db"]
          => /\ remote'["db"]  = NoFile
             /\ remote'["bak"] = remote["db"]]_vars

\* The results of a pipeline run that has been published are in everything that
\* is published later, and in the backup while nothing is.
PublishedRunsStay ==
    [][\A n \in remote["db"].runs \union (IF Exists("db") THEN {} ELSE remote["bak"].runs) :
          \/ n \in remote'["db"].runs
          \/ remote'["db"] = NoFile /\ n \in remote'["bak"].runs]_vars
=============================================================================
