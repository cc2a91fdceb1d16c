--------------------------- MODULE SectionLineage ---------------------------
(***************************************************************************)
(* The table personnel_sections under several JobRunner processes, each on *)
(* its own SQLite connection and bound to one parser version               *)
(* (pipeline/job_runner.py, repositories/sqlite/candidate.py).             *)
(*                                                                         *)
(* A slot stands for a (pdf_id, section_index).  The UNIQUE key            *)
(* (pdf_id, section_index, parser_version_id) makes a row the same thing   *)
(* as a slot and a version, so the table is a function and a row id is its *)
(* version.  Every statement on the table is a step of its own: the        *)
(* find_section() of _process_section() reads outside any transaction, the *)
(* three statements of _add_section_and_process() run between BEGIN        *)
(* IMMEDIATE and COMMIT, and a runner may die between any two.             *)
(***************************************************************************)
CONSTANTS
    Runners,     \* JobRunner processes, one connection each
    Slots,       \* (pdf_id, section_index) pairs
    Versions,    \* parser_versions.id
    VersionOf,   \* the parser version each runner is bound to
    NoRunner,    \* nobody holds the write lock
    NoVersion    \* find_active_section() returned None

ASSUME VersionOfType     == VersionOf \in [Runners -> Versions]
ASSUME NoRunnerNotRunner == NoRunner \notin Runners
ASSUME NoVersionNotVersion == NoVersion \notin Versions

VARIABLES
    row,    \* personnel_sections.status as committed, "absent" for no row
    work,   \* the same table as the connection in a transaction sees it
    lock,   \* the runner whose transaction holds SQLite's write lock
    pc,     \* the statement each runner is at
    slot,   \* the section each runner is processing
    old     \* old_section_id of _add_section_and_process()

vars == <<row, work, lock, pc, slot, old>>

Status == {"absent", "parsed", "superseded"}

\* The statements executed with the write lock held.
InTransaction == {"find_active", "add", "supersede", "commit"}

Location == {"idle", "find", "begin", "extract", "failed"} \union InTransaction

Table == [Slots -> [Versions -> Status]]

ActiveVersions(table, s) == {v \in Versions : table[s][v] = "parsed"}

Goto(r, from, to) ==
    /\ pc[r] = from
    /\ pc' = [pc EXCEPT ![r] = to]

-----------------------------------------------------------------------------
(***************************************************************************)
(* Faulty variants of some steps, one for each way the code could have been *)
(* written wrong.  They are not part of Spec: each shows that a property    *)
(* below fails when the step it replaces is wrong in that way.              *)
(***************************************************************************)

\* A deferred BEGIN: the transaction starts without the write lock.
BeginDeferred(r) ==
    /\ Goto(r, "begin", "find_active")
    /\ lock' = r
    /\ work' = row
    /\ UNCHANGED <<row, slot, old>>

\* The search for the active section is restricted to the runner's version.
FindActiveOfOwnVersion(r) ==
    /\ Goto(r, "find_active", "add")
    /\ old' = [old EXCEPT ![r] =
                  IF VersionOf[r] \in ActiveVersions(work, slot[r])
                  THEN VersionOf[r] ELSE NoVersion]
    /\ UNCHANGED <<row, work, lock, slot>>

\* INSERT OR IGNORE instead of INSERT: a duplicate row goes unnoticed.
AddSectionOrIgnore(r) ==
    /\ Goto(r, "add", "supersede")
    /\ work' = IF work[slot[r]][VersionOf[r]] = "absent"
               THEN [work EXCEPT ![slot[r]][VersionOf[r]] = "parsed"]
               ELSE work
    /\ UNCHANGED <<row, lock, slot, old>>

\* add_section() commits although a transaction is open.
AddSectionCommits(r) ==
    /\ work[slot[r]][VersionOf[r]] = "absent"
    /\ Goto(r, "add", "supersede")
    /\ work' = [work EXCEPT ![slot[r]][VersionOf[r]] = "parsed"]
    /\ row'  = work'
    /\ UNCHANGED <<lock, slot, old>>

\* The old section is looked up but never superseded.
SupersedeForgotten(r) ==
    /\ Goto(r, "supersede", "commit")
    /\ UNCHANGED <<row, work, lock, slot, old>>

\* The RepositoryError of the transaction is swallowed by the caller.
RollbackSwallowed(r) ==
    /\ pc[r] \in {"find_active", "add", "supersede"}
    /\ Goto(r, pc[r], "extract")
    /\ lock' = NoRunner
    /\ work' = row
    /\ UNCHANGED <<row, slot, old>>

\* The error path leaves transaction() without a rollback.
RollbackMissing(r) ==
    /\ pc[r] \in {"find_active", "add", "supersede"}
    /\ Goto(r, pc[r], "failed")
    /\ UNCHANGED <<row, work, lock, slot, old>>

\* find_active_section() hands on the whole result row instead of its id.
FindActiveUnconverted(r) ==
    /\ Goto(r, "find_active", "add")
    /\ old' = [old EXCEPT ![r] = ActiveVersions(work, slot[r])]
    /\ UNCHANGED <<row, work, lock, slot>>

-----------------------------------------------------------------------------
Init ==
    /\ row  = [s \in Slots |-> [v \in Versions |-> "absent"]]
    /\ work = row
    /\ lock = NoRunner
    /\ pc   = [r \in Runners |-> "idle"]
    /\ slot \in [Runners -> Slots]
    /\ old  = [r \in Runners |-> NoVersion]

\* _process_section() is called for a section of the document.
ProcessSection(r, s) ==
    /\ Goto(r, "idle", "find")
    /\ slot' = [slot EXCEPT ![r] = s]
    /\ UNCHANGED <<row, work, lock, old>>

\* find_section(): a committed row of the runner's own version, in any status,
\* is reused; otherwise the section has to be added.
FindSection(r) ==
    /\ Goto(r, "find",
            IF row[slot[r]][VersionOf[r]] = "absent" THEN "begin" ELSE "extract")
    /\ UNCHANGED <<row, work, lock, slot, old>>

\* BEGIN IMMEDIATE takes the write lock before anything is read.
Begin(r) ==
    /\ lock = NoRunner
    /\ Goto(r, "begin", "find_active")
    /\ lock' = r
    /\ work' = row
    /\ UNCHANGED <<row, slot, old>>

\* busy_timeout runs out while another connection holds the lock: transaction()
\* raises RepositoryError before its body is entered.
BeginTimesOut(r) ==
    /\ lock # NoRunner
    /\ Goto(r, "begin", "failed")
    /\ UNCHANGED <<row, work, lock, slot, old>>

\* find_active_section() looks at every version and fetches one parsed row.
FindActiveSection(r) ==
    /\ Goto(r, "find_active", "add")
    /\ \/ \E v \in ActiveVersions(work, slot[r]) : old' = [old EXCEPT ![r] = v]
       \/ /\ ActiveVersions(work, slot[r]) = {}
          /\ old' = [old EXCEPT ![r] = NoVersion]
    /\ UNCHANGED <<row, work, lock, slot>>

\* add_section() inserts the row, uncommitted, with the default status.
AddSection(r) ==
    /\ work[slot[r]][VersionOf[r]] = "absent"
    /\ Goto(r, "add", "supersede")
    /\ work' = [work EXCEPT ![slot[r]][VersionOf[r]] = "parsed"]
    /\ UNCHANGED <<row, lock, slot, old>>

\* supersede_section(old), skipped when there is no old section or the old
\* section is the new one; the UPDATE only touches a row that is still parsed.
SupersedeSection(r) ==
    /\ Goto(r, "supersede", "commit")
    /\ work' = IF /\ old[r] \notin {NoVersion, VersionOf[r]}
                  /\ work[slot[r]][old[r]] = "parsed"
               THEN [work EXCEPT ![slot[r]][old[r]] = "superseded"]
               ELSE work
    /\ UNCHANGED <<row, lock, slot, old>>

\* The body ended normally: the transaction is committed and the runner goes
\* on to the FieldExtractor with the new section.
Commit(r) ==
    /\ Goto(r, "commit", "extract")
    /\ row'  = work
    /\ lock' = NoRunner
    /\ UNCHANGED <<work, slot, old>>

\* A statement of the body raises (UNIQUE violated by a row another runner of
\* the same version added since find_section(), no active layout, an SQLite
\* error): rollback, and RepositoryError becomes a failed section.
Rollback(r) ==
    /\ pc[r] \in {"find_active", "add", "supersede"}
    /\ Goto(r, pc[r], "failed")
    /\ lock' = NoRunner
    /\ work' = row
    /\ UNCHANGED <<row, slot, old>>

\* _process_section() returns its _Outcome to _coordinate().
Return(r) ==
    /\ pc[r] \in {"extract", "failed"}
    /\ Goto(r, pc[r], "idle")
    /\ UNCHANGED <<row, work, lock, slot, old>>

\* The process is killed, or an exception that nothing converts unwinds it:
\* its connection is closed and SQLite discards what it had not committed.
Crash(r) ==
    /\ pc[r] # "idle"
    /\ pc' = [pc EXCEPT ![r] = "idle"]
    /\ IF lock = r
       THEN lock' = NoRunner /\ work' = row
       ELSE UNCHANGED <<lock, work>>
    /\ UNCHANGED <<row, slot, old>>

Step(r) ==
    \/ FindSection(r)
    \/ Begin(r)
    \/ BeginTimesOut(r)
    \/ FindActiveSection(r)
    \/ AddSection(r)
    \/ SupersedeSection(r)
    \/ Commit(r)
    \/ Rollback(r)
    \/ Return(r)

Next ==
    \E r \in Runners :
        \/ \E s \in Slots : ProcessSection(r, s)
        \/ Step(r)
        \/ Crash(r)

Spec == Init /\ [][Next]_vars

\* A runner that is in a section goes on by itself; nothing obliges it to take
\* another section, and a crash is never required.
FairSpec == Spec /\ \A r \in Runners : WF_vars(Step(r))

-----------------------------------------------------------------------------
(***************************************************************************)
(* Properties                                                              *)
(***************************************************************************)

\* Every variable keeps its type.
TypeOK ==
    /\ row  \in Table
    /\ work \in Table
    /\ lock \in Runners \union {NoRunner}
    /\ pc   \in [Runners -> Location]
    /\ slot \in [Runners -> Slots]
    /\ old  \in [Runners -> Versions \union {NoVersion}]

\* ADR-0047 section 5 and check Q1 of tools/db_audit.py: a slot never has two
\* committed sections with status 'parsed', however the runners interleave
\* their find_active_section / add_section / supersede_section.
AtMostOneParsed ==
    \A s \in Slots : \A v, w \in Versions :
        row[s][v] = "parsed" /\ row[s][w] = "parsed" => v = w

\* Check Q3 of tools/db_audit.py: a slot with a superseded section has a parsed
\* one too, even after rollbacks and crashes between the two statements.
SupersededHasSuccessor ==
    \A s \in Slots :
        (\E v \in Versions : row[s][v] = "superseded")
            => \E w \in Versions : row[s][w] = "parsed"

\* A runner goes on to extract records only into a section of its own version
\* that is committed, whichever path (reuse or new) led it there.
ExtractsIntoCommittedSection ==
    \A r \in Runners :
        pc[r] = "extract" => row[slot[r]][VersionOf[r]] # "absent"

\* Readers see a handover in one step: a section stops being parsed only by
\* becoming superseded, in the very commit in which a section of a version the
\* slot never had becomes parsed.
HandoverIsAtomic ==
    [][\A s \in Slots, v \in Versions :
          row[s][v] = "parsed" /\ row'[s][v] # "parsed"
              => /\ row'[s][v] = "superseded"
                 /\ \E w \in Versions :
                        row[s][w] = "absent" /\ row'[s][w] = "parsed"]_row

\* The write lock never stays with a runner: every path out of transaction(),
\* the rollbacks included, gives it back.
LockIsReleased == \A r \in Runners : (lock = r) ~> (lock # r)

-----------------------------------------------------------------------------
(***************************************************************************)
(* The inductive invariant behind the safety properties.                   *)
(***************************************************************************)

\* A runner holds the write lock exactly while it executes the transaction.
LockMatchesTransaction ==
    \A r \in Runners : lock = r <=> pc[r] \in InTransaction

\* old_section_id is still the answer find_active_section() gave: nobody else
\* could write the table meanwhile.
OldIsCurrent(r) ==
    IF old[r] = NoVersion
    THEN \A v \in Versions : row[slot[r]][v] # "parsed"
    ELSE row[slot[r]][old[r]] = "parsed"

\* What the transaction has written so far, statement by statement.
TransactionSoFar(r) ==
    /\ pc[r] = "find_active" => work = row
    /\ pc[r] = "add" => work = row /\ OldIsCurrent(r)
    /\ pc[r] = "supersede" =>
          /\ OldIsCurrent(r)
          /\ row[slot[r]][VersionOf[r]] = "absent"
          /\ work = [row EXCEPT ![slot[r]][VersionOf[r]] = "parsed"]
    /\ pc[r] = "commit" =>
          /\ OldIsCurrent(r)
          /\ row[slot[r]][VersionOf[r]] = "absent"
          /\ work = [s \in Slots |-> [v \in Versions |->
                        IF s # slot[r] THEN row[s][v]
                        ELSE IF v = VersionOf[r] THEN "parsed"
                        ELSE IF v = old[r] THEN "superseded"
                        ELSE row[s][v]]]

\* The strengthening that every step preserves: the safety invariants, the lock
\* discipline and the contents of the open transaction.
LineageInv ==
    /\ TypeOK
    /\ AtMostOneParsed
    /\ SupersededHasSuccessor
    /\ ExtractsIntoCommittedSection
    /\ LockMatchesTransaction
    /\ \A r \in Runners : TransactionSoFar(r)

-----------------------------------------------------------------------------
(***************************************************************************)
(* Refinement: the committed table is a SectionLedger.                     *)
(***************************************************************************)

InForce(s) ==
    IF \E v \in Versions : row[s][v] = "parsed"
    THEN CHOOSE v \in Versions : row[s][v] = "parsed"
    ELSE NoVersion

activeBar  == [s \in Slots |-> InForce(s)]
retiredBar == [s \in Slots |-> {v \in Versions : row[s][v] = "superseded"}]

Ledger == INSTANCE SectionLedger WITH active <- activeBar, retired <- retiredBar

\* Whatever the runners do, what is committed changes only as SectionLedger
\* says: a version that was never in force adopts the slot, or nothing changes.
ImplementsLedger == Ledger!LedgerSpec
=============================================================================
