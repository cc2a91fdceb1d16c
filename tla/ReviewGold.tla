----------------------------- MODULE ReviewGold -----------------------------
(***************************************************************************)
(* Human review: the lifecycle of learning_dataset records and the         *)
(* promotion of corrected records to gold_records (review/service.py,      *)
(* learning/service.py, repositories/sqlite/learning.py and gold.py).      *)
(*                                                                         *)
(* A command is what one reviewer's process does.  transition() reads the  *)
(* record, checks the change against a table and writes it with an UPDATE  *)
(* that does not repeat the check; approve() adds the gold version first.  *)
(* Every repository call is a step, so commands of several reviewers       *)
(* interleave between them, and a command may be killed.                   *)
(***************************************************************************)
EXTENDS Naturals, FiniteSets

CONSTANTS
    Reviewers,    \* processes that execute review commands
    Entries,      \* learning_dataset rows that may come to exist
    Keys,         \* (person_key, effective_date) pairs
    NoKey,        \* approve() without a gold promotion
    MaxVersions,  \* bound: gold versions per key
    MaxKills      \* bound: commands killed

ASSUME BoundsType  == {MaxVersions, MaxKills} \subseteq Nat
ASSUME NoKeyNotKey == NoKey \notin Keys
ASSUME ReviewersFinite == IsFiniteSet(Reviewers)

VARIABLES
    status,  \* learning_dataset.status, "absent" for no row
    gold,    \* gold_records per key, each row with the entry it was approved for
    task,    \* the command each reviewer is executing
    trail,   \* per entry, every status it has had
    kills

vars == <<status, gold, task, trail, kills>>

Statuses == {"open", "in_review", "reflected", "verified", "wontfix"}

\* _LEGAL_TRANSITIONS.
Legal(from) ==
    CASE from = "open"      -> {"in_review"}
      [] from = "in_review" -> {"reflected", "wontfix"}
      [] from = "reflected" -> {"verified", "in_review"}
      [] OTHER              -> {}

Free == [pc |-> "free"]

Versions(k) == {row.version : row \in gold[k]}

Highest(numbers) ==
    IF numbers = {} THEN 0 ELSE CHOOSE n \in numbers : \A m \in numbers : m <= n

At(w, location) == task[w].pc = location

\* The gold versions of k there are or may soon be.
Promotions(k) ==
    Cardinality(gold[k])
    + Cardinality({w \in Reviewers :
                     task[w].pc \in {"max_version", "add_version"} /\ task[w].key = k})

Become(w, t) == task' = [task EXCEPT ![w] = t]

-----------------------------------------------------------------------------
(* Faulty variants of some steps, not part of Spec (see the properties).   *)

\* The legality of a transition is not checked.
GetUnchecked(w) ==
    /\ At(w, "get")
    /\ IF status[task[w].entry] # "absent"
       THEN Become(w, [task[w] EXCEPT !.pc = "update"])
       ELSE Become(w, Free)
    /\ UNCHANGED <<status, gold, trail, kills>>

\* gold_records without UNIQUE (person_key, effective_date, version).
AddVersionNotUnique(w) ==
    /\ At(w, "add_version")
    /\ gold' = [gold EXCEPT ![task[w].key] = @ \union
                   {[version |-> task[w].next, entry |-> task[w].entry, by |-> w]}]
    /\ Become(w, [task[w] EXCEPT !.pc = "get"])
    /\ UNCHANGED <<status, trail, kills>>

\* The first version of a key is 0.
MaxVersionFromZero(w) ==
    /\ At(w, "max_version")
    /\ Become(w, [task[w] EXCEPT
                     !.pc = "add_version",
                     !.next = IF Versions(task[w].key) = {} THEN 0
                              ELSE Highest(Versions(task[w].key)) + 1])
    /\ UNCHANGED <<status, gold, trail, kills>>

-----------------------------------------------------------------------------
Init ==
    /\ status = [e \in Entries |-> "absent"]
    /\ gold   = [k \in Keys |-> {}]
    /\ task   = [w \in Reviewers |-> Free]
    /\ trail  = [e \in Entries |-> {}]
    /\ kills  = 0

\* record_error(): the pipeline adds an entry; any status but open is refused.
RecordError(e) ==
    /\ status[e] = "absent"
    /\ status' = [status EXCEPT ![e] = "open"]
    /\ trail'  = [trail EXCEPT ![e] = {"open"}]
    /\ UNCHANGED <<gold, task, kills>>

\* start_review(), reject(), and LearningService.transition() to verified: the
\* command is the transition.
StartTransition(w, e, target) ==
    /\ At(w, "free")
    /\ target \in {"in_review", "wontfix", "verified"}
    /\ Become(w, [pc |-> "get", entry |-> e, target |-> target,
                  key |-> NoKey, next |-> 0])
    /\ UNCHANGED <<status, gold, trail, kills>>

\* approve(), with a gold promotion or without: the promotion goes first.
Approve(w, e, k) ==
    /\ At(w, "free")
    /\ k # NoKey => Promotions(k) < MaxVersions
    /\ Become(w, [pc |-> IF k = NoKey THEN "get" ELSE "max_version",
                  entry |-> e, target |-> "reflected", key |-> k, next |-> 0])
    /\ UNCHANGED <<status, gold, trail, kills>>

\* add_version(): SELECT MAX(version) ...
MaxVersion(w) ==
    /\ At(w, "max_version")
    /\ Become(w, [task[w] EXCEPT !.pc = "add_version",
                                 !.next = Highest(Versions(task[w].key)) + 1])
    /\ UNCHANGED <<status, gold, trail, kills>>

\* ... then INSERT; no earlier version is touched, all of them stay current.  If
\* another reviewer took the number since, the UNIQUE key is violated and the
\* exception ends the command.
AddVersion(w) ==
    /\ At(w, "add_version")
    /\ IF task[w].next \in Versions(task[w].key)
       THEN /\ Become(w, Free)
            /\ UNCHANGED gold
       ELSE /\ gold' = [gold EXCEPT ![task[w].key] = @ \union
                           {[version |-> task[w].next, entry |-> task[w].entry, by |-> w]}]
            /\ Become(w, [task[w] EXCEPT !.pc = "get"])
    /\ UNCHANGED <<status, trail, kills>>

\* transition() reads the record and checks the change; LearningServiceError
\* for a missing record or an illegal change ends the command.
Get(w) ==
    /\ At(w, "get")
    /\ IF task[w].target \in Legal(status[task[w].entry])
       THEN Become(w, [task[w] EXCEPT !.pc = "update"])
       ELSE Become(w, Free)
    /\ UNCHANGED <<status, gold, trail, kills>>

\* UPDATE learning_dataset SET status = ... WHERE id = ...
Update(w) ==
    /\ At(w, "update")
    /\ status' = [status EXCEPT ![task[w].entry] = task[w].target]
    /\ trail'  = [trail EXCEPT ![task[w].entry] = @ \union {task[w].target}]
    /\ Become(w, Free)
    /\ UNCHANGED <<gold, kills>>

Kill(w) ==
    /\ ~At(w, "free")
    /\ kills < MaxKills
    /\ kills' = kills + 1
    /\ Become(w, Free)
    /\ UNCHANGED <<status, gold, trail>>

Next ==
    \/ \E e \in Entries : RecordError(e)
    \/ \E w \in Reviewers :
          \/ \E e \in Entries, t \in Statuses : StartTransition(w, e, t)
          \/ \E e \in Entries, k \in Keys \union {NoKey} : Approve(w, e, k)
          \/ MaxVersion(w)
          \/ AddVersion(w)
          \/ Get(w)
          \/ Update(w)
          \/ Kill(w)

Spec == Init /\ [][Next]_vars

-----------------------------------------------------------------------------
(***************************************************************************)
(* Properties                                                              *)
(***************************************************************************)

Rows == [version : 1 .. MaxVersions, entry : Entries, by : Reviewers]

\* Every variable keeps its type.
TypeOK ==
    /\ status \in [Entries -> Statuses \union {"absent"}]
    /\ gold \in [Keys -> SUBSET Rows]
    /\ task \in [Reviewers ->
           {Free} \union
           [pc : {"max_version", "add_version", "get", "update"}, entry : Entries,
            target : Statuses, key : Keys \union {NoKey},
            next : 0 .. MaxVersions]]
    /\ trail \in [Entries -> SUBSET Statuses]
    /\ kills \in 0 .. MaxKills

\* The versions of a key are 1, 2, ... without a gap and without a duplicate,
\* although reviewers compute MAX(version) + 1 outside a transaction and die.
VersionsAreContiguous ==
    \A k \in Keys :
        /\ Versions(k) = 1 .. Cardinality(gold[k])
        /\ Cardinality(Versions(k)) = Cardinality(gold[k])

\* Whatever commands race, no entry skips a stage of its lifecycle: it was open
\* before it was reviewed, reviewed before it was decided, and reflected before
\* it was verified.
NoStageIsSkipped ==
    \A e \in Entries :
        /\ "in_review" \in trail[e] => "open" \in trail[e]
        /\ trail[e] \intersect {"reflected", "wontfix"} # {} => "in_review" \in trail[e]
        /\ "verified" \in trail[e] => "reflected" \in trail[e]

\* learning/service.py and the lifecycle of docs/architecture/learning_dataset.md:
\* the status of an entry only ever changes along a legal transition, so verified
\* and wontfix are final.
OnlyLegalTransitions ==
    [][\A e \in Entries :
          status[e] # "absent" /\ status'[e] # status[e]
              => status'[e] \in Legal(status[e])]_vars
=============================================================================
