----------------------------- MODULE GoldExport -----------------------------
(***************************************************************************)
(* The export of gold records while reviewers promote new ones             *)
(* (export/service.py, export/mapper.py, and the reading side of           *)
(* sqlite/gold.py), composed with the review commands of ReviewGold.       *)
(*                                                                         *)
(* An as-of export asks for the versions in force at a moment t.  The      *)
(* moment a version comes into force is the second at which its INSERT was *)
(* executed, the moment it can be read is the commit, so add_version() is  *)
(* two steps here, and the write lock is held between them.  The clock     *)
(* counts seconds and does not go back.                                    *)
(***************************************************************************)
EXTENDS ReviewGold

CONSTANTS
    People,     \* the keys that share a person_key, one set for each person
    MaxClock,   \* bound: seconds
    MaxExports  \* bound: exports whose answer is remembered

ASSUME ExportBounds  == MaxClock \in Nat \ {0} /\ MaxExports \in Nat
ASSUME PeopleAreKeys == UNION People = Keys

VARIABLES
    clock,
    stamped,  \* the valid_from of the INSERT a reviewer has not committed, or 0
    from,     \* valid_from of the committed versions: [key, version, at]
    exports   \* answers given: what was asked, when, and the public records

exportVars == <<vars, clock, stamped, from, exports>>

InsertOpen == \E w \in Reviewers : stamped[w] # 0

\* The rows of gold_records with their valid_from; valid_to is NULL and
\* is_current 1 in all of them, because nothing calls supersede().
GoldRows ==
    UNION {{[key |-> f.key, row |-> r, at |-> f.at] :
               r \in {x \in gold[f.key] : x.version = f.version}} : f \in from}

\* list_current(), list_current(as_of) and get_history().
ListCurrent       == GoldRows
ListCurrentAsOf(t) == {g \in GoldRows : g.at <= t}
GetHistory(person) == {g \in GoldRows : g.key \in person}

\* to_personnel_record(): a gold record is public as verified, whatever the
\* status of its entry; who wrote it and from when it is valid stay inside.
ToPersonnelRecord(g) ==
    [key |-> g.key, version |-> g.row.version, is_current |-> TRUE,
     superseded_by |-> {}, band |-> "verified"]

Public(rows) == {ToPersonnelRecord(g) : g \in rows}

\* The public form of the rows that were asked for, with record_count of
\* write_with_metadata().
Answer(question, rows) ==
    [question     |-> question,
     asked        |-> clock,
     settled      |-> ~InsertOpen,
     records      |-> Public(rows),
     record_count |-> Cardinality(rows)]

All           == [kind |-> "all"]
Since(t)      == [kind |-> "since", as_of |-> t]
Person(person) == [kind |-> "person", person |-> person]

-----------------------------------------------------------------------------
(* Faulty variants, not part of ExportSpec (see the properties).           *)

\* The validity begins when the process was told to promote, not at the INSERT:
\* here, at the first second.
InsertBackdated(w) ==
    /\ At(w, "add_version")
    /\ ~InsertOpen
    /\ task[w].next \notin Versions(task[w].key)
    /\ stamped' = [stamped EXCEPT ![w] = 1]
    /\ UNCHANGED <<vars, clock, from, exports>>

-----------------------------------------------------------------------------
ExportInit ==
    /\ Init
    /\ clock   = 1
    /\ stamped = [w \in Reviewers |-> 0]
    /\ from    = {}
    /\ exports = {}

Tick ==
    /\ clock < MaxClock
    /\ clock' = clock + 1
    /\ UNCHANGED <<vars, stamped, from, exports>>

\* The INSERT of add_version() takes the write lock and the time.
Insert(w) ==
    /\ At(w, "add_version")
    /\ ~InsertOpen
    /\ task[w].next \notin Versions(task[w].key)
    /\ stamped' = [stamped EXCEPT ![w] = clock]
    /\ UNCHANGED <<vars, clock, from, exports>>

\* Its commit makes the version readable.
Commit(w) ==
    /\ stamped[w] # 0
    /\ AddVersion(w)
    /\ from' = from \union
           {[key |-> task[w].key, version |-> task[w].next, at |-> stamped[w]]}
    /\ stamped' = [stamped EXCEPT ![w] = 0]
    /\ UNCHANGED <<clock, exports>>

\* The INSERT violates the UNIQUE key: the command ends.
InsertRefused(w) ==
    /\ ~InsertOpen
    /\ At(w, "add_version")
    /\ task[w].next \in Versions(task[w].key)
    /\ AddVersion(w)
    /\ UNCHANGED <<clock, stamped, from, exports>>

\* A killed process takes its uncommitted row along.
KillReviewer(w) ==
    /\ Kill(w)
    /\ stamped' = [stamped EXCEPT ![w] = 0]
    /\ UNCHANGED <<clock, from, exports>>

\* The steps that write wait for the write lock, those that read do not.
Reviewing ==
    /\ \/ ~InsertOpen /\ \E e \in Entries : RecordError(e)
       \/ ~InsertOpen /\ \E w \in Reviewers : Update(w)
       \/ \E w \in Reviewers, e \in Entries, t \in Statuses : StartTransition(w, e, t)
       \/ \E w \in Reviewers, e \in Entries, k \in Keys \union {NoKey} : Approve(w, e, k)
       \/ \E w \in Reviewers : MaxVersion(w)
       \/ \E w \in Reviewers : Get(w)
    /\ UNCHANGED <<clock, stamped, from, exports>>

Export(question, rows) ==
    /\ Cardinality(exports) < MaxExports
    /\ exports' = exports \union {Answer(question, rows)}
    /\ UNCHANGED <<vars, clock, stamped, from>>

ExportAll == Export(All, ListCurrent)

ExportSince == \E t \in 1 .. MaxClock : Export(Since(t), ListCurrentAsOf(t))

ExportPerson == \E p \in People : Export(Person(p), GetHistory(p))

ExportNext ==
    \/ Tick
    \/ Reviewing
    \/ \E w \in Reviewers :
          \/ Insert(w)
          \/ Commit(w)
          \/ InsertRefused(w)
          \/ KillReviewer(w)
    \/ ExportAll
    \/ ExportSince
    \/ ExportPerson

ExportSpec == ExportInit /\ [][ExportNext]_exportVars

-----------------------------------------------------------------------------
(***************************************************************************)
(* Properties                                                              *)
(***************************************************************************)

\* Every variable keeps its type, those of ReviewGold included, and every
\* version there is has exactly one moment from which it is valid.
ExportTypeOK ==
    /\ TypeOK
    /\ clock \in 1 .. MaxClock
    /\ stamped \in [Reviewers -> 0 .. MaxClock]
    /\ \A w \in Reviewers : stamped[w] # 0 => At(w, "add_version")
    /\ from \subseteq [key : Keys, version : 1 .. MaxVersions, at : 1 .. MaxClock]
    /\ \A k \in Keys : {f.version : f \in {g \in from : g.key = k}} = Versions(k)
    /\ Cardinality(GoldRows) = Cardinality(from)

\* export_since() of a moment that is past is answered the same for ever,
\* whoever promotes, dies or retries since, provided no promotion was on its way
\* to its commit when it was asked.  No export is ever taken back: what it named
\* stays in gold_records, without a hole in the versions of a key, and every
\* as-of answer is a part of what is current.
ExportsAreStable ==
    \A a \in exports :
        /\ a.question.kind = "since" /\ a.question.as_of < a.asked /\ a.settled
              => a.records = Public(ListCurrentAsOf(a.question.as_of))
        /\ a.records \subseteq Public(ListCurrent)
        /\ a.record_count = Cardinality(a.records)
        /\ \A r \in a.records : \A v \in 1 .. r.version :
              \E s \in a.records : s.key = r.key /\ s.version = v
=============================================================================
