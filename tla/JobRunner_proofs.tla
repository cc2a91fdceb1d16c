-------------------------- MODULE JobRunner_proofs --------------------------
(***************************************************************************)
(* What JobRunner keeps, for every layout, number of runners and bound.    *)
(*                                                                         *)
(* The 20 steps of the program are four kinds of move of one runner, which *)
(* goes in or out of a job, begins one, advances in it or finishes it; what *)
(* a move reads, writes and leaves alone is Moves.  One lemma per step      *)
(* shows that it is such a move (NextMoves), and the invariants are proved  *)
(* of moves.  There are four, each resting on the ones before it:          *)
(*                                                                         *)
(*   JobInv       every runner holds a job of its own, its counters agree  *)
(*                with what it has learned and seen of the sections        *)
(*   JudgeInv     a runner's count is the records it judged; verdicts and  *)
(*                fields are of one job (a version has one runner)         *)
(*   TablesInv    the tables agree: rows have their section, a finished    *)
(*                job its end                                              *)
(*   CompleteInv  a runner that counted no failure has left no record out  *)
(*                (no runner dies among the records of a section)          *)
(***************************************************************************)
EXTENDS JobRunner, FiniteSetTheorems, TLAPS

USE VersionOfType, NoVersionNotVersion

-----------------------------------------------------------------------------
(* Numbers, slots and records.                                             *)

\* A set of numbers that is not empty has a lowest one.
LEMMA Lowest ==
  ASSUME NEW S \in SUBSET Nat, S # {}
  PROVE  Min(S) \in S /\ \A n \in S : Min(S) <= n
<1>1. OpToRel(<, Nat) = {ss \in Nat \X Nat : ss[1] < ss[2]}
  BY Zenon DEF OpToRel
<1>2. IsWellFoundedOn({ss \in Nat \X Nat : ss[1] < ss[2]}, Nat)
  BY Zenon, <1>1, NatLessThanWellFounded
<1>3. PICK m \in S : \A n \in S : <<n, m>> \notin {ss \in Nat \X Nat : ss[1] < ss[2]}
  BY <1>2, WFMin
<1>4. \A n \in S : m <= n
  <2> TAKE n \in S
  <2>1. <<n, m>> \in Nat \X Nat /\ <<n, m>>[1] = n /\ <<n, m>>[2] = m /\ n \in Nat /\ m \in Nat
    OBVIOUS
  <2>2. ~(n < m)
    BY <1>3, <2>1
  <2> QED
    BY <2>1, <2>2
<1> QED
  BY <1>4 DEF Min

\* Documents and their sections are numbered from 1.
LEMMA LayoutFacts ==
  /\ Pdfs = 1 .. Len(Layout) /\ Len(Layout) \in Nat /\ Pdfs \subseteq Nat
  /\ \A p \in Pdfs : /\ Len(Layout[p]) \in Nat
                     /\ DOMAIN Layout[p] = 1 .. Len(Layout[p])
                     /\ \A i \in DOMAIN Layout[p] : Layout[p][i] \in Nat
BY LayoutType DEF Pdfs

\* A slot is a document and the number of a section of it.
LEMMA SlotFacts ==
  /\ \A p \in Pdfs : \A i \in DOMAIN Layout[p] : <<p, i>> \in Slots
  /\ \A s \in Slots : /\ s[1] \in Pdfs /\ s[2] \in DOMAIN Layout[s[1]]
                      /\ s = <<s[1], s[2]>>
                      /\ RecordsIn(s) \subseteq Nat
<1>1. \A s : s \in Slots <=> \E p \in Pdfs : s \in {p} \X DOMAIN Layout[p]
  BY DEF Slots
<1> QED
  BY <1>1, LayoutFacts DEF RecordsIn

\* A record is a slot, a version and a number of a record of the slot.
LEMMA RecordFacts ==
  /\ \A s \in Slots, v \in Versions : \A k \in RecordsIn(s) : <<s, v, k>> \in Records
  /\ \A c \in Records : /\ c[1] \in Slots /\ c[2] \in Versions /\ c[3] \in RecordsIn(c[1])
                        /\ c = <<c[1], c[2], c[3]>>
<1>1. \A c : c \in Records <=> \E s \in Slots : c \in {s} \X Versions \X RecordsIn(s)
  BY DEF Records
<1> QED
  BY <1>1

-----------------------------------------------------------------------------
(* What the operators on a runner's local variables do.                    *)

\* The local variables of a runner when there are n jobs.
RunRecords(n) ==
    [pc : Location, queue : SUBSET Pdfs, pdf : Pdfs \union {0},
     job : 0 .. n, sec : Nat, section : Versions \union {NoVersion},
     todo : SUBSET Nat, processed : Nat, failed : Nat, cached : BOOLEAN]

\* y goes on with the document of x, in its job.
SameJob(x, y) == y.queue = x.queue /\ y.pdf = x.pdf /\ y.job = x.job

SameCounts(x, y) == y.processed = x.processed /\ y.failed = x.failed

\* y is at the section after the one of x, or at the end of the document.
NextSection(x, y) ==
    \/ y.pc = "find_section" /\ y.sec = x.sec + 1 /\ y.sec \in DOMAIN Layout[y.pdf]
    \/ y.pc = "update_job" /\ x.sec >= Len(Layout[y.pdf])

\* y goes through the records R of the section x is in.
GoesThrough(x, y, R) ==
    \/ /\ R # {} /\ y.todo = R
       /\ y.pc = "find_candidate" /\ y.sec = x.sec /\ y.section = x.section
    \/ R = {} /\ NextSection(x, y)

\* A runner goes to another place in its program.
LEMMA GotoFacts ==
  ASSUME NEW n \in Nat, NEW x \in RunRecords(n), NEW l \in Location
  PROVE  LET y == [x EXCEPT !.pc = l] IN
         /\ y \in RunRecords(n) /\ SameJob(x, y) /\ SameCounts(x, y)
         /\ y.pc = l /\ y.sec = x.sec /\ y.section = x.section /\ y.todo = x.todo
BY DEF RunRecords, SameJob, SameCounts

\* It finds its section.
LEMMA SectionFacts ==
  ASSUME NEW n \in Nat, NEW x \in RunRecords(n), NEW v \in Versions \union {NoVersion}
  PROVE  LET y == [x EXCEPT !.section = v] IN
         /\ y \in RunRecords(n) /\ SameJob(x, y) /\ SameCounts(x, y)
         /\ y.pc = x.pc /\ y.sec = x.sec /\ y.section = v /\ y.todo = x.todo
BY DEF RunRecords, SameJob, SameCounts

\* It has records to go through.
LEMMA TodoFacts ==
  ASSUME NEW n \in Nat, NEW x \in RunRecords(n), NEW R \in SUBSET Nat
  PROVE  LET y == [x EXCEPT !.todo = R] IN
         /\ y \in RunRecords(n) /\ SameJob(x, y) /\ SameCounts(x, y)
         /\ y.pc = x.pc /\ y.sec = x.sec /\ y.section = x.section /\ y.todo = R
BY DEF RunRecords, SameJob, SameCounts

\* It comes to a section.
LEMMA SecFacts ==
  ASSUME NEW n \in Nat, NEW x \in RunRecords(n), NEW i \in Nat
  PROVE  LET y == [x EXCEPT !.sec = i] IN
         /\ y \in RunRecords(n) /\ SameJob(x, y) /\ SameCounts(x, y)
         /\ y.pc = x.pc /\ y.sec = i /\ y.section = x.section /\ y.todo = x.todo
BY DEF RunRecords, SameJob, SameCounts

\* It counts a unit of work that went well, ...
LEMMA ProcessedFacts ==
  ASSUME NEW n \in Nat, NEW x \in RunRecords(n)
  PROVE  LET y == Processed(x) IN
         /\ y \in RunRecords(n) /\ SameJob(x, y)
         /\ y.processed = x.processed + 1 /\ y.failed = x.failed
         /\ y.pc = x.pc /\ y.sec = x.sec /\ y.section = x.section /\ y.todo = x.todo
BY DEF RunRecords, SameJob, Processed

\* ... and one that did not.
LEMMA FailedFacts ==
  ASSUME NEW n \in Nat, NEW x \in RunRecords(n)
  PROVE  LET y == Failed(x) IN
         /\ y \in RunRecords(n) /\ SameJob(x, y)
         /\ y.processed = x.processed /\ y.failed = x.failed + 1
         /\ y.pc = x.pc /\ y.sec = x.sec /\ y.section = x.section /\ y.todo = x.todo
BY DEF RunRecords, SameJob, Failed

\* After a section comes the next one, or the end of the document.
LEMMA AfterSectionFacts ==
  ASSUME NEW n \in Nat, NEW x \in RunRecords(n), x.pdf \in Pdfs
  PROVE  LET y == AfterSection(x) IN
         /\ y \in RunRecords(n) /\ SameJob(x, y) /\ SameCounts(x, y)
         /\ NextSection(x, y)
<1> DEFINE a == [x EXCEPT !.section = NoVersion]
           b == [a EXCEPT !.todo = {}]
           l == IF x.sec < Len(Layout[x.pdf]) THEN "find_section" ELSE "update_job"
           i == IF x.sec < Len(Layout[x.pdf]) THEN x.sec + 1 ELSE 0
           c == [b EXCEPT !.pc = l]
           d == [c EXCEPT !.sec = i]
<1>1. x.sec \in Nat /\ l \in Location /\ i \in Nat
  BY DEF RunRecords, Location
<1>2. AfterSection(x) = d
  BY <1>1 DEF AfterSection, RunRecords
<1>0. /\ x.sec < Len(Layout[x.pdf]) => l = "find_section" /\ i = x.sec + 1
      /\ ~(x.sec < Len(Layout[x.pdf])) => l = "update_job"
  OBVIOUS
<1> HIDE DEF a, b, c, d, l, i
<1>3. a \in RunRecords(n) /\ SameJob(x, a) /\ SameCounts(x, a) /\ a.pc = x.pc /\ a.sec = x.sec
  BY SectionFacts DEF a
<1>4. b \in RunRecords(n) /\ SameJob(a, b) /\ SameCounts(a, b) /\ b.pc = a.pc /\ b.sec = a.sec
  BY <1>3 DEF b, RunRecords, SameJob, SameCounts
<1>5. c \in RunRecords(n) /\ SameJob(b, c) /\ SameCounts(b, c) /\ c.pc = l /\ c.sec = b.sec
  BY <1>1, <1>4, GotoFacts DEF c
<1>6. d \in RunRecords(n) /\ SameJob(c, d) /\ SameCounts(c, d) /\ d.pc = c.pc /\ d.sec = i
  BY <1>1, <1>5, SecFacts DEF d
<1>7. SameJob(x, d) /\ SameCounts(x, d) /\ d.pc = l /\ d.sec = i
  BY <1>3, <1>4, <1>5, <1>6 DEF SameJob, SameCounts
<1>8. d.pdf = x.pdf /\ (x.sec < Len(Layout[x.pdf]) => x.sec + 1 \in DOMAIN Layout[x.pdf])
  BY <1>1, <1>7, LayoutFacts DEF SameJob
<1> QED
  BY <1>0, <1>1, <1>2, <1>6, <1>7, <1>8, LayoutFacts DEF NextSection

\* The records of a section are gone through, if there are any.
LEMMA ProcessRecordsFacts ==
  ASSUME NEW n \in Nat, NEW x \in RunRecords(n), x.pdf \in Pdfs, NEW R \in SUBSET Nat
  PROVE  LET y == ProcessRecords(x, R) IN
         /\ y \in RunRecords(n) /\ SameJob(x, y) /\ SameCounts(x, y)
         /\ GoesThrough(x, y, R)
<1>1. CASE R = {}
  BY <1>1, AfterSectionFacts DEF ProcessRecords, GoesThrough
<1>2. CASE R # {}
  <2> DEFINE a == [x EXCEPT !.pc = "find_candidate"]
             y == [a EXCEPT !.todo = R]
  <2>1. "find_candidate" \in Location
    BY DEF Location
  <2>2. y = ProcessRecords(x, R)
    BY <1>2 DEF ProcessRecords, RunRecords
  <2>3. a \in RunRecords(n) /\ SameJob(x, a) /\ SameCounts(x, a)
        /\ a.pc = "find_candidate" /\ a.sec = x.sec /\ a.section = x.section
    BY <2>1, GotoFacts
  <2> HIDE DEF a
  <2>4. y \in RunRecords(n) /\ SameJob(a, y) /\ SameCounts(a, y)
        /\ y.pc = a.pc /\ y.sec = a.sec /\ y.section = a.section /\ y.todo = R
    BY <2>3, TodoFacts
  <2> HIDE DEF y
  <2> QED
    BY <1>2, <2>2, <2>3, <2>4 DEF SameJob, SameCounts, GoesThrough
<1> QED
  BY <1>1, <1>2

\* After a record come the others.
LEMMA AfterRecordFacts ==
  ASSUME NEW n \in Nat, NEW x \in RunRecords(n), x.pdf \in Pdfs
  PROVE  LET y == AfterRecord(x) IN
         /\ y \in RunRecords(n) /\ SameJob(x, y) /\ SameCounts(x, y)
         /\ GoesThrough(x, y, x.todo \ {Min(x.todo)})
<1>1. x.todo \ {Min(x.todo)} \in SUBSET Nat
  BY DEF RunRecords
<1> QED
  BY <1>1, ProcessRecordsFacts DEF AfterRecord

\* After a document comes the lowest of the others, or the end of the batch.
LEMMA NextPdfFacts ==
  ASSUME NEW n \in Nat, NEW queue \in SUBSET Pdfs, NEW cached \in BOOLEAN
  PROVE  LET y == NextPdf(queue, cached) IN
         /\ y \in RunRecords(n)
         /\ y.job = 0 /\ y.sec = 0 /\ y.processed = 0 /\ y.failed = 0
         /\ y.pc = "idle" \/ (y.pc = "add_job" /\ y.pdf \in Pdfs)
<1>1. Idle \in RunRecords(n)
  BY DEF Idle, RunRecords, Location
<1>2. CASE queue = {}
  <2>1. NextPdf(queue, cached) = Idle
    BY <1>2 DEF NextPdf
  <2>2. /\ Idle.job = 0 /\ Idle.sec = 0 /\ Idle.processed = 0 /\ Idle.failed = 0
        /\ Idle.pc = "idle"
    BY DEF Idle
  <2> QED
    BY <1>1, <2>1, <2>2
<1>3. CASE queue # {}
  <2>1. Min(queue) \in queue
    BY <1>3, Lowest, LayoutFacts
  <2> DEFINE y == [pc |-> "add_job", queue |-> queue \ {Min(queue)}, pdf |-> Min(queue),
                   job |-> 0, sec |-> 0, section |-> NoVersion, todo |-> {},
                   processed |-> 0, failed |-> 0, cached |-> cached]
  <2>2. NextPdf(queue, cached) = y
    BY <1>3 DEF NextPdf, Idle
  <2>3. y \in RunRecords(n)
    BY <2>1 DEF RunRecords, Location
  <2> QED
    BY <2>1, <2>2, <2>3
<1> QED
  BY <1>2, <1>3

-----------------------------------------------------------------------------
(* The inductive invariant.                                                *)

\* The parts of a runner's program.
Starting  == {"add_job", "load_knowledge", "document"}
InRecord  == {"find_candidate", "add_raw", "normalize", "validate"}
InSection == {"find_section", "add_section", "extract"} \union InRecord
WithJob   == Location \ {"idle", "add_job"}

\* A runner has a job of its own document and version, which is running until
\* the runner finishes it.
HoldsJob(r) ==
    /\ run[r].pc \notin WithJob => run[r].job = 0
    /\ run[r].pc # "idle" => run[r].pdf \in Pdfs
    /\ run[r].pc \in WithJob =>
           /\ run[r].job \in DOMAIN jobs
           /\ jobs[run[r].job].pdf = run[r].pdf
           /\ jobs[run[r].job].version = VersionOf[r]
    /\ run[r].pc \in WithJob \ {"update_pdf"} => jobs[run[r].job].status = "running"

\* Nothing is counted before the first section; from then on the runner is in a
\* section of the layout, and from "extract" on that section exists and it is in
\* one of the section's records.
IsLocated(r) ==
    /\ run[r].pc \in Starting =>
           run[r].sec = 0 /\ run[r].processed = 0 /\ run[r].failed = 0
    /\ run[r].pc \in InSection => run[r].sec \in DOMAIN Layout[run[r].pdf]
    /\ run[r].pc \in InRecord \union {"extract"} =>
           run[r].section = VersionOf[r] /\ HasSection(Slot(r), VersionOf[r])
    /\ run[r].pc \in InRecord =>
           run[r].todo # {} /\ run[r].todo \subseteq RecordsIn(Slot(r))

\* As EveryFailureLearned, for the counters of a job that is not finished yet.
LearnsFailures(r) ==
    run[r].pc \in WithJob \ {"update_pdf"} =>
        \/ learned[run[r].job] = run[r].failed
        \/ /\ run[r].pc = "update_job" /\ learned[run[r].job] = 0
           /\ run[r].failed = 1 /\ run[r].processed = 0

\* While nothing has failed, the sections the runner has been through exist.
CoversSections(r) ==
    run[r].pc \in WithJob \ {"update_pdf"} /\ run[r].failed = 0 =>
        \A i \in DOMAIN Layout[run[r].pdf] :
            i < run[r].sec \/ run[r].pc = "update_job"
                => HasSection(<<run[r].pdf, i>>, VersionOf[r])

Driven(r) == HoldsJob(r) /\ IsLocated(r) /\ LearnsFailures(r) /\ CoversSections(r)

JobsAreOwn ==
    \A q, r \in Runners : q # r => run[q].job # run[r].job \/ run[q].job = 0

LearnedPerJob == learned \in Seq(Nat) /\ Len(learned) = Len(jobs)

JobInv ==
    /\ TypeOK
    /\ LearnedPerJob
    /\ \A r \in Runners : Driven(r)
    /\ JobsAreOwn
    /\ EveryFailureLearned
    /\ SucceededCoversSections
-----------------------------------------------------------------------------
(* What a step of one runner does to the rest.                             *)

\* A section never goes away: it is at most superseded.
SectionsStay ==
    \A s \in Slots, v \in Versions : HasSection(s, v) => HasSection(s, v)'

\* Jobs are never taken away, and a runner writes to its own only.
JobsStay(r) ==
    /\ DOMAIN jobs \subseteq DOMAIN jobs'
    /\ \A j \in DOMAIN jobs :
          /\ jobs'[j].pdf = jobs[j].pdf
          /\ jobs'[j].version = jobs[j].version
          /\ j # run[r].job => jobs'[j] = jobs[j] /\ learned'[j] = learned[j]

OthersStay(r) == \A q \in Runners \ {r} : run'[q] = run[q]

Grows(r) == SectionsStay /\ JobsStay(r) /\ OthersStay(r)

\* The records a runner has not been through in its job.
Ahead(r) ==
    {c \in Records :
        /\ c[1][1] = run[r].pdf /\ c[2] = VersionOf[r]
        /\ run[r].pc \in WithJob \ {"update_job", "update_pdf"}
        /\ \/ c[1][2] > run[r].sec
           \/ c[1][2] = run[r].sec /\ (run[r].pc \in InRecord => c[3] \in run[r].todo)}

\* What a step does to candidate_records: nothing, ...
Reads(r) ==
    /\ candidate' = candidate
    /\ run'[r].processed = run[r].processed
    /\ run'[r].pc # "validate"
    /\ run'[r].pc = "normalize" =>
           Record(r)' = Record(r) /\ candidate[Record(r)].status = "pending"

\* ... a new record, ...
Inserts(r) ==
    /\ run[r].pc = "add_raw" /\ run'[r].pc = "normalize" /\ Record(r)' = Record(r)
    /\ run'[r].processed = run[r].processed
    /\ candidate[Record(r)] = Absent
    /\ candidate' = [candidate EXCEPT ![Record(r)] = Raw(VersionOf[r])]

\* ... the normalized fields of a pending one, ...
Attaches(r) ==
    /\ run[r].pc = "normalize" /\ run'[r].pc = "validate" /\ Record(r)' = Record(r)
    /\ run'[r].processed = run[r].processed
    /\ candidate' = [candidate EXCEPT ![Record(r)].normalizedBy = run[r].job]

\* ... or the end of the work on one, with a verdict if it was validated.
Judges(r) ==
    /\ run[r].pc \in {"normalize", "validate"}
    /\ run'[r].pc \notin {"normalize", "validate"}
    /\ run'[r].processed = run[r].processed + 1
    /\ Record(r) \notin Ahead(r)'
    /\ \/ NormalizeUnsure(r)
       \/ Validate(r)

\* A record that is no longer ahead was looked at, or something failed, or its
\* section had records already.
Skips(r) ==
    \A c \in Ahead(r) \ Ahead(r)' :
        \/ /\ c = Record(r) /\ run[r].pc \in InRecord
           /\ run[r].pc \in {"normalize", "validate"} \/ candidate[c] # Absent
           /\ \/ run'[r].failed = run[r].failed + 1
              \/ Judges(r)
              \/ candidate[c].status \in Decided
        \/ /\ run[r].pc \notin InRecord /\ run'[r].pc \notin InRecord
           /\ run'[r].failed # 0
        \/ /\ run[r].pc = "find_section" /\ c[1] = Slot(r)
           /\ \E k \in RecordsIn(Slot(r)) :
                 candidate[<<Slot(r), VersionOf[r], k>>].status # "absent"

\* A runner among the records of a section stays there or has left it for good.
StaysInSection(r) ==
    run[r].pc \in InRecord =>
        \/ run'[r].pc \in InRecord /\ Slot(r)' = Slot(r)
        \/ run'[r].pc \notin InRecord /\ \A c \in Ahead(r)' : c[1] # Slot(r)

\* Processes that were killed or left by an exception.
Lost == spent.crashes + spent.escapes

\* A step takes the runner out of its job, finished or for ever running, or leaves
\* it without one, ...
Leaves(r) ==
    /\ run[r].pc \in InRecord => spent.crashes < MaxCrashes
    /\ run[r].pc \in WithJob \ {"update_pdf"} => Lost' = Lost + 1
    /\ jobs' = jobs
    /\ candidate' = candidate
    /\ learned' = learned
    /\ run'[r].job = 0 /\ run'[r].sec = 0
    /\ run'[r].processed = 0 /\ run'[r].failed = 0
    /\ run'[r].pc = "idle" \/ (run'[r].pc = "add_job" /\ run'[r].pdf \in Pdfs)

\* ... or begins a new job, ...
Begins(r) ==
    /\ run[r].pc = "add_job" /\ run'[r].pc = "load_knowledge"
    /\ jobs' = Append(jobs, [pdf |-> run[r].pdf, version |-> VersionOf[r],
                             status |-> "running", processed |-> 0, failed |-> 0,
                             finished |-> 0])
    /\ learned' = Append(learned, 0)
    /\ candidate' = candidate
    /\ run'[r].job = Len(jobs) + 1 /\ run'[r].pdf = run[r].pdf /\ run'[r].sec = run[r].sec
    /\ SameCounts(run[r], run'[r])

\* ... or goes on in its job and learns what it counts as failed, ...
Advances(r) ==
    /\ run[r].pc \in WithJob \ {"update_job", "update_pdf"}
    /\ run'[r].pc \in WithJob \ {"update_pdf"}
    /\ SameJob(run[r], run'[r])
    /\ jobs' = jobs
    /\ IsLocated(r)' /\ CoversSections(r)'
    /\ Ahead(r)' \subseteq Ahead(r)
    /\ Skips(r) /\ StaysInSection(r)
    /\ Reads(r) \/ Inserts(r) \/ Attaches(r) \/ Judges(r)
    /\ \/ run'[r].failed = run[r].failed /\ learned' = learned
       \/ run'[r].failed = run[r].failed + 1 /\ Learn(r)
       \/ /\ run[r].pc = "document" /\ run'[r].pc = "update_job" /\ learned' = learned
          /\ run'[r].failed = 1 /\ run'[r].processed = 0

\* ... or finishes the job.
Finishes(r) ==
    /\ run[r].pc = "update_job" /\ run'[r].pc = "update_pdf"
    /\ SameJob(run[r], run'[r]) /\ SameCounts(run[r], run'[r])
    /\ jobs' = [jobs EXCEPT ![run[r].job] =
                   [@ EXCEPT !.status    = IF run[r].failed = 0 THEN "succeeded" ELSE "failed",
                             !.processed = run[r].processed,
                             !.failed    = run[r].failed,
                             !.finished  = Len(jobs)]]
    /\ learned' = learned
    /\ candidate' = candidate

Moves(r) == Grows(r) /\ (Leaves(r) \/ Begins(r) \/ Advances(r) \/ Finishes(r))

\* Become changes one runner.
LEMMA BecomeFacts ==
  ASSUME TypeOK, NEW r \in Runners, NEW y, Become(r, y)
  PROVE  run'[r] = y /\ OthersStay(r)
BY DEF Become, TypeOK, OthersStay

\* The local variables keep their types while jobs are added.
LEMMA BecomeTypes ==
  ASSUME TypeOK, NEW r \in Runners, NEW n \in Nat, Len(jobs) <= n,
         NEW y \in RunRecords(n), Become(r, y)
  PROVE  run' \in [Runners -> RunRecords(n)]
<1>1. run \in [Runners -> RunRecords(Len(jobs))] /\ Len(jobs) \in Nat
  BY DEF TypeOK, RunRecords
<1>2. RunRecords(Len(jobs)) \subseteq RunRecords(n)
  <2>1. 0 .. Len(jobs) \subseteq 0 .. n
    BY <1>1
  <2> QED
    BY <2>1 DEF RunRecords
<1> QED
  BY <1>1, <1>2 DEF Become

\* The rows of the table jobs.
JobRows == [pdf : Pdfs, version : Versions, processed : Nat, failed : Nat,
            finished : Nat, status : {"running", "succeeded", "failed"}]

\* Every job is such a row.
LEMMA JobTypes ==
  ASSUME TypeOK
  PROVE  jobs \in Seq(JobRows) /\ \A j \in DOMAIN jobs : jobs[j] \in JobRows
<1>1. jobs \in Seq(JobRows)
  BY DEF TypeOK, JobRows
<1> QED
  BY <1>1

\* A runner, its slot and its record have the types the tables expect.
LEMMA RunnerTypes ==
  ASSUME TypeOK, NEW r \in Runners, Driven(r)
  PROVE  /\ Len(jobs) \in Nat /\ DOMAIN jobs = 1 .. Len(jobs)
         /\ run[r] \in RunRecords(Len(jobs)) /\ VersionOf[r] \in Versions
         /\ run[r].sec \in Nat /\ run[r].failed \in Nat /\ run[r].processed \in Nat
         /\ run[r].pc # "idle" => run[r].pdf \in Pdfs
         /\ run[r].pc \in InSection =>
                /\ run[r].sec \in DOMAIN Layout[run[r].pdf]
                /\ Slot(r) \in Slots
         /\ run[r].pc \in InRecord =>
                /\ run[r].section = VersionOf[r]
                /\ Min(run[r].todo) \in run[r].todo
                /\ Record(r) \in Records
                /\ Record(r) = <<Slot(r), VersionOf[r], Min(run[r].todo)>>
<1>1. run \in [Runners -> RunRecords(Len(jobs))] /\ Len(jobs) \in Nat
      /\ DOMAIN jobs = 1 .. Len(jobs)
  BY DEF TypeOK, RunRecords
<1>2. /\ run[r] \in RunRecords(Len(jobs)) /\ VersionOf[r] \in Versions
      /\ run[r].sec \in Nat /\ run[r].failed \in Nat /\ run[r].processed \in Nat
  BY <1>1 DEF RunRecords
<1>3. run[r].pc # "idle" => run[r].pdf \in Pdfs
  BY DEF Driven, HoldsJob
<1>4. ASSUME run[r].pc \in InSection
      PROVE  run[r].sec \in DOMAIN Layout[run[r].pdf] /\ Slot(r) \in Slots
  <2>1. run[r].pc # "idle" /\ run[r].sec \in DOMAIN Layout[run[r].pdf]
    BY <1>4 DEF Driven, IsLocated, InSection, InRecord
  <2> QED
    BY <1>3, <2>1, SlotFacts DEF Slot
<1>5. ASSUME run[r].pc \in InRecord
      PROVE  /\ run[r].section = VersionOf[r]
             /\ Min(run[r].todo) \in run[r].todo
             /\ Record(r) \in Records
             /\ Record(r) = <<Slot(r), VersionOf[r], Min(run[r].todo)>>
  <2>1. /\ run[r].section = VersionOf[r] /\ run[r].todo # {}
        /\ run[r].todo \subseteq RecordsIn(Slot(r))
    BY <1>5 DEF Driven, IsLocated
  <2>2. Slot(r) \in Slots
    BY <1>4, <1>5 DEF InSection
  <2>3. Min(run[r].todo) \in run[r].todo
    BY <2>1, <2>2, SlotFacts, Lowest
  <2> QED
    BY <1>2, <2>1, <2>2, <2>3, RecordFacts DEF Record
<1> QED
  BY <1>1, <1>2, <1>3, <1>4, <1>5

\* What the runner of another job relies on is not taken from it.
LEMMA OthersDriven ==
  ASSUME JobInv, NEW r \in Runners, Grows(r), NEW q \in Runners \ {r}
  PROVE  Driven(q)'
<1>1. Driven(q) /\ run'[q] = run[q] /\ TypeOK /\ (run[q].job = run[r].job => run[q].job = 0)
  BY DEF JobInv, Grows, OthersStay, JobsAreOwn
<1>2. Len(jobs) \in Nat /\ DOMAIN jobs = 1 .. Len(jobs) /\ VersionOf[q] \in Versions
  BY <1>1, RunnerTypes
<1>3. run[q].pc \in WithJob =>
          /\ run[q].job \in DOMAIN jobs' /\ jobs'[run[q].job] = jobs[run[q].job]
          /\ learned'[run[q].job] = learned[run[q].job]
  BY <1>1, <1>2 DEF Driven, HoldsJob, Grows, JobsStay
<1>4. HoldsJob(q)'
  BY <1>1, <1>3 DEF Driven, HoldsJob
<1>5. LearnsFailures(q)'
  BY <1>1, <1>3 DEF Driven, LearnsFailures
<1>6. IsLocated(q)'
  <2>1. run[q].pc \in InRecord \union {"extract"} => HasSection(Slot(q), VersionOf[q])'
    <3> SUFFICES ASSUME run[q].pc \in InRecord \union {"extract"}
                 PROVE  HasSection(Slot(q), VersionOf[q])'
      OBVIOUS
    <3>1. Slot(q) \in Slots
      BY <1>1, RunnerTypes DEF InSection, InRecord
    <3>2. HasSection(Slot(q), VersionOf[q])
      BY <1>1 DEF Driven, IsLocated
    <3>3. Slot(q)' = Slot(q)
      BY <1>1 DEF Slot
    <3>4. SectionsStay
      BY DEF Grows
    <3> QED
      BY <1>2, <3>1, <3>2, <3>3, <3>4 DEF SectionsStay, HasSection
  <2> QED
    BY <1>1, <2>1 DEF Driven, IsLocated, Slot
<1>7. CoversSections(q)'
  <2> SUFFICES ASSUME run[q].pc \in WithJob \ {"update_pdf"}, run[q].failed = 0,
                      NEW i \in DOMAIN Layout[run[q].pdf],
                      i < run[q].sec \/ run[q].pc = "update_job"
               PROVE  HasSection(<<run[q].pdf, i>>, VersionOf[q])'
    BY <1>1 DEF CoversSections
  <2>1. HasSection(<<run[q].pdf, i>>, VersionOf[q])
    BY <1>1 DEF Driven, CoversSections
  <2>2. <<run[q].pdf, i>> \in Slots
    BY <1>1, SlotFacts DEF Driven, HoldsJob, WithJob
  <2>3. SectionsStay
    BY DEF Grows
  <2> QED
    BY <1>1, <1>2, <2>1, <2>2, <2>3 DEF SectionsStay, HasSection
<1> QED
  BY <1>4, <1>5, <1>6, <1>7 DEF Driven

\* However a runner moves, it keeps what is said of it.
LEMMA MoverDriven ==
  ASSUME JobInv, LearnedPerJob', NEW r \in Runners, Moves(r)
  PROVE  Driven(r)'
<1>1. TypeOK /\ Driven(r) /\ SectionsStay /\ LearnedPerJob
  BY DEF JobInv, Moves, Grows
<1>2. /\ Len(jobs) \in Nat /\ DOMAIN jobs = 1 .. Len(jobs) /\ VersionOf[r] \in Versions
      /\ run[r].failed \in Nat /\ run[r].processed \in Nat
      /\ run[r].pc # "idle" => run[r].pdf \in Pdfs
  BY <1>1, RunnerTypes
<1>a. learned \in [DOMAIN jobs -> Nat]
  BY <1>1 DEF TypeOK
<1>3. CASE Leaves(r)
  BY ONLY <1>3 DEF Leaves, Driven, HoldsJob, IsLocated, LearnsFailures, CoversSections,
                   Starting, InSection, InRecord, WithJob
<1>4. CASE Begins(r)
  <2>1. run[r].sec = 0 /\ run[r].processed = 0 /\ run[r].failed = 0 /\ run[r].pdf \in Pdfs
    BY <1>1, <1>2, <1>4 DEF Begins, Driven, IsLocated, Starting
  <2> DEFINE j == Len(jobs) + 1
  <2>2. /\ run'[r].job = j /\ run'[r].pdf = run[r].pdf /\ run'[r].pc = "load_knowledge"
        /\ run'[r].sec = 0 /\ run'[r].processed = 0 /\ run'[r].failed = 0
    BY <1>4, <2>1 DEF Begins, SameCounts
  <2>3. /\ j \in DOMAIN jobs' /\ jobs'[j].pdf = run[r].pdf
        /\ jobs'[j].version = VersionOf[r] /\ jobs'[j].status = "running"
    BY <1>1, <1>2, <1>4 DEF Begins, TypeOK
  <2>4. learned'[j] = 0
    BY <1>1, <1>2, <1>4 DEF Begins, LearnedPerJob
  <2> HIDE DEF j
  <2>5. HoldsJob(r)'
    BY ONLY <2>1, <2>2, <2>3 DEF HoldsJob, WithJob, Location
  <2>6. IsLocated(r)' /\ CoversSections(r)'
    BY <1>2, <2>1, <2>2, LayoutFacts DEF IsLocated, CoversSections, Starting, InSection, InRecord
  <2>7. LearnsFailures(r)'
    BY <2>2, <2>4 DEF LearnsFailures
  <2> QED
    BY <2>5, <2>6, <2>7 DEF Driven
<1>5. CASE Advances(r)
  <2>1. /\ run[r].pc \in WithJob /\ run[r].pc # "update_pdf" /\ run[r].pc # "update_job"
        /\ run'[r].pc \in WithJob /\ run'[r].pc # "update_pdf" /\ run'[r].pc # "idle"
        /\ run'[r].job = run[r].job /\ run'[r].pdf = run[r].pdf /\ jobs' = jobs
    BY <1>5 DEF Advances, SameJob, WithJob
  <2>2. /\ run[r].job \in DOMAIN jobs /\ jobs[run[r].job].status = "running"
        /\ jobs[run[r].job].pdf = run[r].pdf /\ jobs[run[r].job].version = VersionOf[r]
        /\ run[r].pdf \in Pdfs
    BY <1>1, <2>1 DEF Driven, HoldsJob, WithJob
  <2>3. HoldsJob(r)'
    BY <2>1, <2>2 DEF HoldsJob
  <2>4. learned[run[r].job] = run[r].failed
    BY <1>1, <2>1 DEF Driven, LearnsFailures
  <2>5. LearnsFailures(r)'
    <3>1. CASE run'[r].failed = run[r].failed /\ learned' = learned
      BY <2>1, <2>4, <3>1 DEF LearnsFailures
    <3>2. CASE run'[r].failed = run[r].failed + 1 /\ Learn(r)
      <4>1. learned'[run[r].job] = run[r].failed + 1
        BY <1>a, <2>2, <2>4, <3>2 DEF Learn
      <4> QED
        BY <2>1, <3>2, <4>1 DEF LearnsFailures
    <3>3. CASE /\ run[r].pc = "document" /\ run'[r].pc = "update_job" /\ learned' = learned
               /\ run'[r].failed = 1 /\ run'[r].processed = 0
      <4>1. run[r].failed = 0
        BY <1>1, <3>3 DEF Driven, IsLocated, Starting
      <4> QED
        BY <2>1, <2>4, <3>3, <4>1 DEF LearnsFailures
    <3> QED
      BY <1>5, <3>1, <3>2, <3>3 DEF Advances
  <2> QED
    BY <1>5, <2>3, <2>5 DEF Driven, Advances
<1>6. CASE Finishes(r)
  <2>1. /\ run[r].pc = "update_job" /\ run'[r].pc = "update_pdf"
        /\ run'[r].job = run[r].job /\ run'[r].pdf = run[r].pdf
    BY <1>6 DEF Finishes, SameJob
  <2>2. /\ run[r].job \in DOMAIN jobs /\ run[r].pdf \in Pdfs
        /\ jobs[run[r].job].pdf = run[r].pdf /\ jobs[run[r].job].version = VersionOf[r]
    BY <1>1, <2>1 DEF Driven, HoldsJob, WithJob, Location
  <2>3. /\ run[r].job \in DOMAIN jobs' /\ jobs'[run[r].job].pdf = run[r].pdf
        /\ jobs'[run[r].job].version = VersionOf[r]
    BY <2>2 DEF Moves, Grows, JobsStay
  <2> QED
    BY ONLY <2>1, <2>2, <2>3 DEF Driven, HoldsJob, IsLocated, LearnsFailures, CoversSections,
                   Starting, InSection, InRecord, WithJob, Location
<1> QED
  BY <1>3, <1>4, <1>5, <1>6 DEF Moves

\* Two runners never come to share a job.
LEMMA MoversJobIsOwn ==
  ASSUME JobInv, NEW r \in Runners, Moves(r)
  PROVE  JobsAreOwn'
<1>1. /\ OthersStay(r)
      /\ run'[r].job = 0 \/ run'[r].job = run[r].job \/ run'[r].job = Len(jobs) + 1
  BY DEF Moves, Grows, Leaves, Begins, Advances, Finishes, SameJob
<1>2. Len(jobs) \in Nat /\ \A q \in Runners : run[q].job \in 0 .. Len(jobs)
  BY DEF JobInv, TypeOK
<1>3. \A q \in Runners \ {r} :
          run'[q].job = run[q].job /\ run'[q].job # Len(jobs) + 1
          /\ (run[q].job # run[r].job \/ run[q].job = 0)
  BY <1>1, <1>2 DEF JobInv, JobsAreOwn, OthersStay
<1>4. \A q, w \in Runners \ {r} : q # w => run'[q].job # run'[w].job \/ run'[q].job = 0
  BY <1>3 DEF JobInv, JobsAreOwn
<1> QED
  BY <1>1, <1>3, <1>4 DEF JobsAreOwn

\* A finished job was finished before and stays as it is, or is finished now.
LEMMA FinishedStay ==
  ASSUME JobInv, NEW r \in Runners, Moves(r),
         NEW j \in DOMAIN jobs', jobs'[j].status # "running",
         ~(Finishes(r) /\ j = run[r].job)
  PROVE  j \in Finished /\ jobs'[j] = jobs[j] /\ learned'[j] = learned[j]
<1>f. TypeOK /\ Driven(r) /\ JobsStay(r) /\ Len(jobs) \in Nat /\ DOMAIN jobs = 1 .. Len(jobs)
  BY RunnerTypes DEF JobInv, Moves, Grows
<1>1. CASE Leaves(r)
  BY <1>1 DEF Leaves, Finished
<1>2. CASE Begins(r)
  <2>1. j \in DOMAIN jobs
    BY <1>f, <1>2 DEF Begins, TypeOK
  <2>2. run[r].job \notin DOMAIN jobs
    BY <1>f, <1>2 DEF Begins, Driven, HoldsJob, WithJob
  <2> QED
    BY <1>f, <2>1, <2>2 DEF JobsStay, Finished
<1>3. CASE Advances(r)
  <2>1. jobs' = jobs /\ j \in DOMAIN jobs
    BY <1>3 DEF Advances
  <2>2. j # run[r].job
    BY <1>f, <1>3, <2>1 DEF Advances, Driven, HoldsJob, WithJob
  <2> QED
    BY <1>f, <2>1, <2>2 DEF JobsStay, Finished
<1>4. CASE Finishes(r)
  <2>1. j \in DOMAIN jobs /\ j # run[r].job
    BY <1>f, <1>4 DEF Finishes, TypeOK
  <2> QED
    BY <1>f, <2>1 DEF JobsStay, Finished
<1> QED
  BY <1>1, <1>2, <1>3, <1>4 DEF Moves

\* A job is finished with what its runner has counted.
LEMMA FinishesRow ==
  ASSUME JobInv, NEW r \in Runners, Moves(r), Finishes(r)
  PROVE  LET j == run[r].job IN
         /\ jobs'[j].status = (IF run[r].failed = 0 THEN "succeeded" ELSE "failed")
         /\ jobs'[j].failed = run[r].failed /\ jobs'[j].processed = run[r].processed
         /\ jobs'[j].pdf = run[r].pdf /\ jobs'[j].version = VersionOf[r]
         /\ learned'[j] = learned[j] /\ run[r].pdf \in Pdfs
<1>f. TypeOK /\ Driven(r) /\ JobsStay(r) /\ Len(jobs) \in Nat /\ DOMAIN jobs = 1 .. Len(jobs)
  BY RunnerTypes DEF JobInv, Moves, Grows
<1>1. run[r].job \in DOMAIN jobs /\ run[r].pc = "update_job"
      /\ jobs[run[r].job].pdf = run[r].pdf /\ jobs[run[r].job].version = VersionOf[r]
      /\ run[r].pdf \in Pdfs
  BY <1>f DEF Finishes, Driven, HoldsJob, WithJob, Location
<1>2. jobs \in Seq(JobRows)
  BY <1>f, JobTypes
<1>3. jobs'[run[r].job] = [jobs[run[r].job] EXCEPT
           !.status    = IF run[r].failed = 0 THEN "succeeded" ELSE "failed",
           !.processed = run[r].processed,
           !.failed    = run[r].failed,
           !.finished  = Len(jobs)]
  BY <1>1, <1>2 DEF Finishes
<1>4. jobs[run[r].job] \in JobRows
  BY <1>f, <1>1, JobTypes
<1>5. LET z == jobs'[run[r].job] IN
      /\ z.status = (IF run[r].failed = 0 THEN "succeeded" ELSE "failed")
      /\ z.failed = run[r].failed /\ z.processed = run[r].processed
      /\ z.pdf = jobs[run[r].job].pdf /\ z.version = jobs[run[r].job].version
  BY ONLY <1>3, <1>4 DEF JobRows
<1> QED
  BY <1>1, <1>5 DEF Finishes

\* A finished job stays as it is, and one that finishes has learned of its
\* failures and left no section out.
LEMMA MoverFinishes ==
  ASSUME JobInv, NEW r \in Runners, Moves(r)
  PROVE  EveryFailureLearned' /\ SucceededCoversSections'
<1>1. TypeOK /\ Driven(r) /\ SectionsStay /\ JobsStay(r)
  BY DEF JobInv, Moves, Grows
<1>2. /\ Len(jobs) \in Nat /\ DOMAIN jobs = 1 .. Len(jobs) /\ VersionOf[r] \in Versions
      /\ run[r].failed \in Nat
  BY <1>1, RunnerTypes
<1>a. \A j \in DOMAIN jobs : jobs[j].pdf \in Pdfs /\ jobs[j].version \in Versions
  BY <1>1, JobTypes DEF JobRows
<1>3. EveryFailureLearned'
  <2> SUFFICES ASSUME NEW j \in DOMAIN jobs', jobs'[j].status # "running"
               PROVE  \/ learned'[j] = jobs'[j].failed
                      \/ learned'[j] = 0 /\ jobs'[j].failed = 1 /\ jobs'[j].processed = 0
    BY DEF EveryFailureLearned, Finished
  <2>1. CASE Finishes(r) /\ j = run[r].job
    <3>1. \/ learned[run[r].job] = run[r].failed
          \/ /\ learned[run[r].job] = 0 /\ run[r].failed = 1 /\ run[r].processed = 0
      BY <1>1, <2>1 DEF Finishes, Driven, LearnsFailures, WithJob, Location
    <3> QED
      BY FinishesRow, <2>1, <3>1
  <2>2. CASE ~(Finishes(r) /\ j = run[r].job)
    BY FinishedStay, <2>2 DEF JobInv, EveryFailureLearned
  <2> QED
    BY <2>1, <2>2
<1>4. SucceededCoversSections'
  <2> SUFFICES ASSUME NEW j \in DOMAIN jobs', jobs'[j].status = "succeeded",
                      NEW i \in DOMAIN Layout[jobs'[j].pdf],
                      NEW s, s = <<jobs'[j].pdf, i>>, NEW v, v = jobs'[j].version
               PROVE  HasSection(s, v)'
    BY DEF SucceededCoversSections, SectionsOf, HasSection
  <2>2. /\ jobs'[j].pdf \in Pdfs /\ jobs'[j].version \in Versions
        /\ HasSection(s, v)
    <3>1. CASE Finishes(r) /\ j = run[r].job
      <4>1. /\ jobs'[j].status = (IF run[r].failed = 0 THEN "succeeded" ELSE "failed")
            /\ jobs'[j].pdf = run[r].pdf /\ jobs'[j].version = VersionOf[r]
            /\ run[r].pdf \in Pdfs
        BY <3>1, FinishesRow
      <4>2. run[r].failed = 0 /\ run[r].pc = "update_job"
        BY <3>1, <4>1 DEF Finishes
      <4>3. HasSection(<<run[r].pdf, i>>, VersionOf[r])
        BY <1>1, <4>1, <4>2 DEF Driven, CoversSections, WithJob, Location
      <4> QED
        BY <1>2, <4>1, <4>3
    <3>2. CASE ~(Finishes(r) /\ j = run[r].job)
      <4>1. jobs'[j] = jobs[j] /\ j \in DOMAIN jobs
        BY FinishedStay, <3>2 DEF Finished
      <4>2. s \in SectionsOf(j)
        BY <4>1 DEF SectionsOf
      <4> QED
        BY <1>a, <4>1, <4>2 DEF JobInv, SucceededCoversSections
    <3> QED
      BY <3>1, <3>2
  <2>3. s \in Slots
    BY <2>2, SlotFacts
  <2> QED
    BY <1>1, <2>2, <2>3 DEF SectionsStay, HasSection
<1> QED
  BY <1>3, <1>4

\* A step of this kind keeps the invariant.
LEMMA MovesPreserve ==
  ASSUME JobInv, TypeOK', LearnedPerJob', NEW r \in Runners, Moves(r)
  PROVE  JobInv'
<1>1. \A q \in Runners : Driven(q)'
  <2> TAKE q \in Runners
  <2>1. CASE q = r
    BY <2>1, MoverDriven
  <2>2. CASE q # r
    BY <2>2, OthersDriven DEF Moves
  <2> QED
    BY <2>1, <2>2
<1> QED
  BY <1>1, MoversJobIsOwn, MoverFinishes DEF JobInv
-----------------------------------------------------------------------------
(* Each step of the program moves a runner in one of those ways.           *)

\* The rows of candidate_records when there are n jobs.
CandidateRows(n) ==
    [status : {"absent", "pending"} \union Decided,
     version : Versions \union {NoVersion},
     normalizedBy : 0 .. n, judgedBy : 0 .. n]

SpentRecords == [crashes : 0 .. MaxCrashes, escapes : 0 .. MaxEscapes,
                 manual : 0 .. MaxManual]

\* A step that adds no job and no section keeps the types.
LEMMA StepFrame ==
  ASSUME JobInv, NEW r \in Runners, NEW y \in RunRecords(Len(jobs)), Become(r, y),
         jobs' = jobs, active' = active, retired' = retired,
         learned' = learned \/ (Learn(r) /\ run[r].pc \in WithJob),
         pdfStatus' \in [Pdfs -> {"fetched", "validated", "failed"}],
         candidate' \in [Records -> CandidateRows(Len(jobs))],
         spent' \in SpentRecords
  PROVE  TypeOK' /\ LearnedPerJob' /\ Grows(r) /\ run'[r] = y
<1>1. TypeOK /\ LearnedPerJob /\ Driven(r)
  BY DEF JobInv
<1>2. Len(jobs) \in Nat /\ DOMAIN jobs = 1 .. Len(jobs)
  BY <1>1, RunnerTypes
<1>3. run'[r] = y /\ OthersStay(r) /\ run' \in [Runners -> RunRecords(Len(jobs))]
  BY <1>1, <1>2, BecomeFacts, BecomeTypes
<1>4. /\ LearnedPerJob' /\ learned' \in [DOMAIN jobs -> Nat]
      /\ \A j \in DOMAIN jobs : j # run[r].job => learned'[j] = learned[j]
  <2>1. CASE learned' = learned
    BY <1>1, <2>1 DEF LearnedPerJob, TypeOK
  <2>2. CASE Learn(r) /\ run[r].pc \in WithJob
    <3>1. run[r].job \in DOMAIN jobs
      BY <1>1, <2>2 DEF Driven, HoldsJob
    <3>2. learned \in Seq(Nat) /\ Len(learned) = Len(jobs) /\ DOMAIN learned = DOMAIN jobs
      BY <1>1, <1>2 DEF LearnedPerJob
    <3>3. learned' \in Seq(Nat) /\ Len(learned') = Len(learned)
      BY <2>2, <3>1, <3>2 DEF Learn
    <3> QED
      BY <1>2, <2>2, <3>1, <3>2, <3>3 DEF Learn, LearnedPerJob
  <2> QED
    BY <2>1, <2>2
<1>5. TypeOK'
  BY <1>1, <1>3, <1>4 DEF TypeOK, RunRecords, CandidateRows, SpentRecords
<1>6. SectionsStay /\ JobsStay(r)
  BY <1>4 DEF SectionsStay, HasSection, JobsStay
<1> QED
  BY <1>3, <1>4, <1>5, <1>6 DEF Grows

\* What a step leaves alone keeps its type.
LEMMA TypesHere ==
  ASSUME TypeOK
  PROVE  /\ pdfStatus \in [Pdfs -> {"fetched", "validated", "failed"}]
         /\ candidate \in [Records -> CandidateRows(Len(jobs))]
         /\ spent \in SpentRecords
BY DEF TypeOK, CandidateRows, SpentRecords

\* The section the runner is in exists when the step is done.
SectionExists(r) ==
    VersionOf[r] = active'[Slot(r)] \/ VersionOf[r] \in retired'[Slot(r)]

\* A runner comes to the next section, or to the end of the document.
LEMMA ToNextSection ==
  ASSUME JobInv, NEW r \in Runners, SectionsStay,
         run[r].pc \in WithJob \ {"update_job", "update_pdf"},
         SameJob(run[r], run'[r]), NextSection(run[r], run'[r]),
         run'[r].failed = 0 =>
             /\ run[r].failed = 0
             /\ run[r].pc # "document" => SectionExists(r)
  PROVE  /\ IsLocated(r)' /\ CoversSections(r)' /\ run'[r].pc \in WithJob \ {"update_pdf"}
         /\ run'[r].pc \notin InRecord
         /\ Ahead(r)' = {c \in Ahead(r) : c[1] # Slot(r)}
<1>1. TypeOK /\ Driven(r) /\ run'[r].pdf = run[r].pdf /\ run[r].pc # "idle"
  BY DEF JobInv, SameJob, WithJob
<1>2. /\ run[r].sec \in Nat /\ run[r].pdf \in Pdfs /\ VersionOf[r] \in Versions
  BY <1>1, RunnerTypes
<1>3. \/ run'[r].pc = "find_section" /\ run'[r].sec = run[r].sec + 1
         /\ run'[r].sec \in DOMAIN Layout[run[r].pdf]
      \/ run'[r].pc = "update_job" /\ run[r].sec >= Len(Layout[run[r].pdf])
  BY <1>1 DEF NextSection
<1>4. IsLocated(r)' /\ run'[r].pc \in WithJob \ {"update_pdf"}
  BY <1>1, <1>3 DEF IsLocated, Starting, InSection, InRecord, WithJob, Location
<1>5. CoversSections(r)'
  <2> SUFFICES ASSUME run'[r].failed = 0, NEW i \in DOMAIN Layout[run[r].pdf],
                      i < run'[r].sec \/ run'[r].pc = "update_job",
                      NEW s, s = <<run[r].pdf, i>>
               PROVE  HasSection(s, VersionOf[r])'
    BY <1>1 DEF CoversSections, HasSection
  <2>1. i \in Nat /\ <<run[r].pdf, i>> \in Slots /\ i \in 1 .. Len(Layout[run[r].pdf])
    BY <1>2, LayoutFacts, SlotFacts
  <2>2. CASE i < run[r].sec
    <3>1. HasSection(<<run[r].pdf, i>>, VersionOf[r])
      BY <1>1, <2>2 DEF Driven, CoversSections
    <3> QED
      BY <1>2, <2>1, <3>1 DEF SectionsStay, HasSection
  <2>3. CASE ~(i < run[r].sec)
    <3>1. i = run[r].sec
      BY <1>2, <1>3, <2>1, <2>3, LayoutFacts
    <3>2. run[r].pc # "document"
      BY <1>1, <2>1, <3>1 DEF Driven, IsLocated, Starting
    <3> QED
      BY <3>1, <3>2 DEF Slot, HasSection, SectionExists
  <2> QED
    BY <2>2, <2>3
<1>7. {c \in Ahead(r) : c[1] # Slot(r)} \subseteq Ahead(r)'
  <2> SUFFICES ASSUME NEW c \in Ahead(r), c[1] # Slot(r)
               PROVE  c \in Ahead(r)'
    OBVIOUS
  <2>1. /\ c \in Records /\ c[1][1] = run[r].pdf /\ c[2] = VersionOf[r]
        /\ c[1][2] > run[r].sec \/ c[1][2] = run[r].sec
    BY DEF Ahead
  <2>2. /\ c[1][2] \in 1 .. Len(Layout[run[r].pdf]) /\ Len(Layout[run[r].pdf]) \in Nat
        /\ c[1] = <<run[r].pdf, c[1][2]>>
    BY <1>2, <2>1, RecordFacts, SlotFacts, LayoutFacts
  <2>3. c[1][2] > run[r].sec
    BY <2>1, <2>2 DEF Slot
  <2>4. run'[r].pc = "find_section" /\ run'[r].sec = run[r].sec + 1
    BY <1>2, <1>3, <2>2, <2>3
  <2>5. c[1][2] > run'[r].sec \/ c[1][2] = run'[r].sec
    BY <1>2, <2>2, <2>3, <2>4
  <2> QED
    BY <1>1, <2>1, <2>4, <2>5 DEF Ahead, InRecord, WithJob, Location
<1>6. Ahead(r)' \subseteq {c \in Ahead(r) : c[1] # Slot(r)}
  <2> SUFFICES ASSUME NEW c \in Ahead(r)'
               PROVE  c \in Ahead(r) /\ c[1] # Slot(r)
    OBVIOUS
  <2>1. /\ c \in Records /\ c[1][1] = run[r].pdf /\ c[2] = VersionOf[r]
        /\ run'[r].pc # "update_job" /\ c[1][2] >= run'[r].sec /\ c[1][2] \in Nat
    BY <1>1, <1>2, <1>3, SlotFacts, RecordFacts, LayoutFacts DEF Ahead
  <2>2. c[1][2] > run[r].sec
    BY <1>2, <1>3, <2>1
  <2>3. c[1] # Slot(r)
    BY <1>2, <2>1, <2>2 DEF Slot
  <2> QED
    BY <2>1, <2>2, <2>3 DEF Ahead
<1> QED
  BY <1>3, <1>4, <1>5, <1>6, <1>7 DEF InRecord

\* A runner comes to records of the section it is in.
LEMMA ToRecords ==
  ASSUME JobInv, NEW r \in Runners, SectionsStay,
         run[r].pc \in InRecord \union {"find_section", "extract"},
         SameJob(run[r], run'[r]),
         NEW z, z.sec = run[r].sec, z.section = VersionOf[r],
         NEW R \in SUBSET RecordsIn(Slot(r)), GoesThrough(z, run'[r], R),
         run[r].pc \in InRecord => R \subseteq run[r].todo,
         SectionExists(r),
         run'[r].failed = 0 => run[r].failed = 0
  PROVE  /\ IsLocated(r)' /\ CoversSections(r)' /\ run'[r].pc \in WithJob \ {"update_pdf"}
         /\ run'[r].pc \notin {"normalize", "validate"}
         /\ Ahead(r)' = {c \in Ahead(r) : c[1] = Slot(r) => c[3] \in R}
<1>1. TypeOK /\ Driven(r) /\ run'[r].pdf = run[r].pdf /\ run[r].pc # "idle"
      /\ run[r].pc \in InSection /\ run[r].pc # "update_job" /\ run[r].pc \in WithJob
  BY DEF JobInv, SameJob, WithJob, InSection, InRecord, Location
<1>2. /\ run[r].sec \in Nat /\ run[r].pdf \in Pdfs /\ VersionOf[r] \in Versions
      /\ run[r].sec \in DOMAIN Layout[run[r].pdf]
  BY <1>1, RunnerTypes
<1>3. CASE R # {}
  <2>1. /\ run'[r].pc = "find_candidate" /\ run'[r].sec = run[r].sec
        /\ run'[r].section = VersionOf[r] /\ run'[r].todo = R
    BY <1>3 DEF GoesThrough
  <2>2. Slot(r)' = Slot(r) /\ RecordsIn(Slot(r))' = RecordsIn(Slot(r))
    BY <1>1, <2>1 DEF Slot, RecordsIn
  <2>3. IsLocated(r)'
    BY <1>1, <1>2, <1>3, <2>1, <2>2 DEF IsLocated, Starting, InSection, InRecord, HasSection, SectionExists
  <2>4. CoversSections(r)'
    <3> SUFFICES ASSUME run'[r].failed = 0, NEW i \in DOMAIN Layout[run[r].pdf],
                        i < run[r].sec, NEW s, s = <<run[r].pdf, i>>
                 PROVE  HasSection(s, VersionOf[r])'
      BY <1>1, <2>1 DEF CoversSections, HasSection
    <3>1. HasSection(<<run[r].pdf, i>>, VersionOf[r])
      BY <1>1 DEF Driven, CoversSections, InRecord
    <3>2. <<run[r].pdf, i>> \in Slots
      BY <1>2, SlotFacts
    <3> QED
      BY <1>2, <3>1, <3>2 DEF SectionsStay, HasSection
  <2>6. {c \in Ahead(r) : c[1] = Slot(r) => c[3] \in R} \subseteq Ahead(r)'
    <3> SUFFICES ASSUME NEW c \in Ahead(r), c[1] = Slot(r) => c[3] \in R
                 PROVE  c \in Ahead(r)'
      OBVIOUS
    <3>1. /\ c \in Records /\ c[1][1] = run[r].pdf /\ c[2] = VersionOf[r]
          /\ c[1][2] > run[r].sec \/ c[1][2] = run[r].sec
      BY DEF Ahead
    <3>2. c[1] = <<run[r].pdf, c[1][2]>>
      BY <3>1, RecordFacts, SlotFacts
    <3>3. c[1][2] = run[r].sec => c[3] \in R
      BY <3>2 DEF Slot
    <3> QED
      BY <1>1, <2>1, <3>1, <3>3 DEF Ahead, InRecord, WithJob, Location
  <2>5. Ahead(r)' \subseteq {c \in Ahead(r) : c[1] = Slot(r) => c[3] \in R}
    <3> SUFFICES ASSUME NEW c \in Ahead(r)'
                 PROVE  c \in Ahead(r) /\ (c[1] = Slot(r) => c[3] \in R)
      OBVIOUS
    <3>1. /\ c \in Records /\ c[1][1] = run[r].pdf /\ c[2] = VersionOf[r]
          /\ c[1][2] > run[r].sec \/ (c[1][2] = run[r].sec /\ c[3] \in R)
      BY <1>1, <2>1 DEF Ahead, InRecord
    <3>2. c[1] = Slot(r) => c[1][2] = run[r].sec
      BY DEF Slot
    <3>3. ~(run[r].sec > run[r].sec)
      BY <1>2
    <3> QED
      BY <1>1, <3>1, <3>2, <3>3 DEF Ahead, InRecord
  <2> QED
    BY <2>1, <2>3, <2>4, <2>5, <2>6 DEF WithJob, Location
<1>4. CASE R = {}
  <2>1. NextSection(run[r], run'[r])
    BY <1>4 DEF GoesThrough, NextSection
  <2>2. run[r].pc # "document" /\ run[r].pc # "update_pdf"
    BY DEF InRecord
  <2>3. /\ IsLocated(r)' /\ CoversSections(r)' /\ run'[r].pc \in WithJob \ {"update_pdf"}
        /\ run'[r].pc \notin InRecord /\ Ahead(r)' = {c \in Ahead(r) : c[1] # Slot(r)}
    BY <1>1, <2>1, <2>2, ToNextSection
  <2> QED
    BY <1>4, <2>3 DEF InRecord
<1> QED
  BY <1>3, <1>4
\* Between two jobs, and when a runner is killed or its batch cut short.
LEMMA LeavingMoves ==
  ASSUME JobInv, NEW r \in Runners,
         \/ StartBatch(r)
         \/ \E p \in Pdfs : RunJob(r, p)
         \/ LoadKnowledgeRaises(r)
         \/ UpdatePdf(r)
         \/ Crash(r)
  PROVE  TypeOK' /\ LearnedPerJob' /\ Moves(r)
<1>1. TypeOK /\ Len(jobs) \in Nat
  BY RunnerTypes DEF JobInv
<1>2. jobs' = jobs /\ active' = active /\ retired' = retired /\ learned' = learned
      /\ candidate' = candidate
  BY DEF StartBatch, RunJob, LoadKnowledgeRaises, UpdatePdf, Crash, dbVars
<1>3. pdfStatus' \in [Pdfs -> {"fetched", "validated", "failed"}]
  BY <1>1, TypesHere DEF StartBatch, RunJob, LoadKnowledgeRaises, UpdatePdf, Crash, dbVars
<1>4. spent' \in SpentRecords
  <2>1. spent \in SpentRecords /\ MaxCrashes \in Nat /\ MaxEscapes \in Nat /\ MaxManual \in Nat
    BY <1>1, TypesHere, BoundsType
  <2>2. \/ spent' = spent
        \/ spent.manual < MaxManual /\ spent' = [spent EXCEPT !.manual = @ + 1]
        \/ spent.escapes < MaxEscapes /\ spent' = [spent EXCEPT !.escapes = @ + 1]
        \/ spent.crashes < MaxCrashes /\ spent' = [spent EXCEPT !.crashes = @ + 1]
    BY DEF StartBatch, RunJob, LoadKnowledgeRaises, UpdatePdf, Crash
  <2> QED
    BY ONLY <2>1, <2>2 DEF SpentRecords
<1>5. PICK y \in RunRecords(Len(jobs)) :
         /\ Become(r, y)
         /\ y.job = 0 /\ y.sec = 0 /\ y.processed = 0 /\ y.failed = 0
         /\ y.pc = "idle" \/ (y.pc = "add_job" /\ y.pdf \in Pdfs)
  <2>1. CASE LoadKnowledgeRaises(r) \/ Crash(r)
    <3>1. Idle = NextPdf({}, FALSE)
      BY DEF NextPdf
    <3> QED
      BY <1>1, <2>1, <3>1, NextPdfFacts DEF LoadKnowledgeRaises, Crash
  <2>2. CASE StartBatch(r)
    <3>1. Pending \in SUBSET Pdfs
      BY DEF Pending
    <3> QED
      BY <1>1, <2>2, <3>1, NextPdfFacts DEF StartBatch
  <2>3. CASE \E p \in Pdfs : RunJob(r, p)
    <3>1. PICK p \in Pdfs : RunJob(r, p)
      BY <2>3
    <3>2. {p} \in SUBSET Pdfs
      OBVIOUS
    <3> QED
      BY <1>1, <3>1, <3>2, NextPdfFacts DEF RunJob
  <2>4. CASE UpdatePdf(r)
    <3>1. run[r].queue \in SUBSET Pdfs /\ run[r].cached \in BOOLEAN
      BY <1>1 DEF TypeOK
    <3> QED
      BY <1>1, <2>4, <3>1, NextPdfFacts DEF UpdatePdf
  <2> QED
    BY <2>1, <2>2, <2>3, <2>4
<1>6. TypeOK' /\ LearnedPerJob' /\ Grows(r) /\ run'[r] = y
  BY <1>1, <1>2, <1>3, <1>4, <1>5, TypesHere, StepFrame
<1>7. run[r].pc \in WithJob \ {"update_pdf"} => Lost' = Lost + 1
  <2> SUFFICES ASSUME run[r].pc \in WithJob \ {"update_pdf"} PROVE Lost' = Lost + 1
    OBVIOUS
  <2>1. \/ spent' = [spent EXCEPT !.escapes = @ + 1]
        \/ spent' = [spent EXCEPT !.crashes = @ + 1]
    BY DEF StartBatch, RunJob, LoadKnowledgeRaises, UpdatePdf, Crash, At, WithJob
  <2>2. spent \in SpentRecords
    BY <1>1, TypesHere
  <2> QED
    BY ONLY <2>1, <2>2, BoundsType DEF SpentRecords, Lost
<1> QED
  BY <1>2, <1>5, <1>6, <1>7
     DEF Moves, Leaves, StartBatch, RunJob, LoadKnowledgeRaises, UpdatePdf, Crash, At, InRecord

\* A job is inserted.
LEMMA AddJobMoves ==
  ASSUME JobInv, NEW r \in Runners, AddJob(r)
  PROVE  TypeOK' /\ LearnedPerJob' /\ Moves(r)
<1>1. TypeOK /\ LearnedPerJob /\ Driven(r)
  BY DEF JobInv
<1>2. Len(jobs) \in Nat /\ DOMAIN jobs = 1 .. Len(jobs) /\ run[r] \in RunRecords(Len(jobs))
      /\ VersionOf[r] \in Versions /\ run[r].pdf \in Pdfs /\ run[r].job = 0
  BY <1>1, RunnerTypes DEF AddJob, At, Driven, HoldsJob, WithJob
<1> DEFINE row == [pdf |-> run[r].pdf, version |-> VersionOf[r],
                   status |-> "running", processed |-> 0, failed |-> 0, finished |-> 0]
           n == Len(jobs) + 1
           a == [run[r] EXCEPT !.pc = "load_knowledge"]
           y == [run[r] EXCEPT !.pc = "load_knowledge", !.job = n]
<1>3. row \in JobRows
  BY <1>2 DEF JobRows
<1>4. /\ jobs' = Append(jobs, row) /\ learned' = Append(learned, 0) /\ Become(r, y)
      /\ pdfStatus' = pdfStatus /\ active' = active /\ retired' = retired
      /\ candidate' = candidate /\ spent' = spent /\ run[r].pc = "add_job"
  BY DEF AddJob, At
<1>5. n \in Nat /\ Len(jobs) <= n /\ y \in RunRecords(n)
      /\ y.job = n /\ y.pc = "load_knowledge" /\ y.pdf = run[r].pdf /\ y.sec = run[r].sec
      /\ y.processed = run[r].processed /\ y.failed = run[r].failed
  <2>1. n \in Nat /\ Len(jobs) <= n /\ n \in 0 .. n /\ 0 .. Len(jobs) \subseteq 0 .. n
    BY <1>2
  <2>5. "load_knowledge" \in Location
    BY DEF Location
  <2>2. /\ a \in RunRecords(Len(jobs)) /\ SameJob(run[r], a) /\ SameCounts(run[r], a)
        /\ a.pc = "load_knowledge" /\ a.sec = run[r].sec
    BY <1>2, <2>5, GotoFacts
  <2>3. a \in RunRecords(n) /\ y = [a EXCEPT !.job = n]
    BY <1>2, <2>1, <2>2 DEF RunRecords
  <2> HIDE DEF a, y, n
  <2>4. /\ y \in RunRecords(n) /\ y.job = n /\ y.pc = a.pc /\ y.pdf = a.pdf
        /\ y.sec = a.sec /\ y.processed = a.processed /\ y.failed = a.failed
    BY <2>1, <2>3 DEF RunRecords
  <2> QED
    BY <2>1, <2>2, <2>4 DEF SameJob, SameCounts
<1> HIDE DEF row, y, n
<1>6. run' \in [Runners -> RunRecords(n)] /\ run'[r] = y /\ OthersStay(r)
  BY <1>1, <1>4, <1>5, BecomeTypes, BecomeFacts
<1>7. jobs' \in Seq(JobRows) /\ Len(jobs') = n /\ DOMAIN jobs' = 1 .. n
      /\ \A j \in DOMAIN jobs : jobs'[j] = jobs[j]
  BY <1>1, <1>2, <1>3, <1>4, JobTypes DEF n
<1>8. learned' \in Seq(Nat) /\ Len(learned') = n /\ learned' \in [DOMAIN jobs' -> Nat]
      /\ \A j \in DOMAIN jobs : learned'[j] = learned[j]
  <2>1. learned \in Seq(Nat) /\ Len(learned) = Len(jobs)
    BY <1>1 DEF LearnedPerJob
  <2>2. learned' \in Seq(Nat) /\ Len(learned') = n
    BY <1>2, <1>4, <2>1 DEF n
  <2>3. \A j \in DOMAIN jobs : learned'[j] = learned[j]
    BY <1>2, <1>4, <2>1
  <2> QED
    BY <1>7, <2>2, <2>3
<1>9. candidate \in [Records -> CandidateRows(n)]
  <2>1. 0 .. Len(jobs) \subseteq 0 .. n
    BY <1>2 DEF n
  <2>2. CandidateRows(Len(jobs)) \subseteq CandidateRows(n)
    BY <2>1 DEF CandidateRows
  <2> QED
    BY <1>1, <2>2, TypesHere
<1>10. TypeOK'
  BY <1>1, <1>4, <1>6, <1>7, <1>8, <1>9 DEF TypeOK, JobRows, RunRecords, CandidateRows
<1>11. Grows(r)
  BY <1>2, <1>4, <1>5, <1>6, <1>7, <1>8 DEF Grows, SectionsStay, HasSection, JobsStay
<1>12. Begins(r)
  BY <1>4, <1>5, <1>6 DEF Begins, SameCounts, row, n
<1> QED
  BY <1>7, <1>8, <1>10, <1>11, <1>12 DEF Moves, LearnedPerJob
\* The knowledge is there, and the document may be read.
LEMMA LoadKnowledgeMoves ==
  ASSUME JobInv, NEW r \in Runners, LoadKnowledge(r)
  PROVE  TypeOK' /\ LearnedPerJob' /\ Moves(r)
<1>1. TypeOK /\ Driven(r) /\ run[r].pc = "load_knowledge"
  BY DEF JobInv, LoadKnowledge, At
<1>2. run[r] \in RunRecords(Len(jobs)) /\ "document" \in Location /\ Len(jobs) \in Nat
  BY <1>1, RunnerTypes DEF Location
<1> DEFINE a == [run[r] EXCEPT !.pc = "document"]
           y == [run[r] EXCEPT !.pc = "document", !.cached = TRUE]
<1>3. /\ a \in RunRecords(Len(jobs)) /\ SameJob(run[r], a) /\ SameCounts(run[r], a)
      /\ a.pc = "document" /\ a.sec = run[r].sec
  BY <1>2, GotoFacts
<1>4. y = [a EXCEPT !.cached = TRUE]
  BY <1>2 DEF RunRecords
<1>5. Become(r, y)
  BY DEF LoadKnowledge
<1> HIDE DEF a, y
<1>6. /\ y \in RunRecords(Len(jobs)) /\ SameJob(a, y) /\ SameCounts(a, y)
      /\ y.pc = "document" /\ y.sec = a.sec
  BY <1>3, <1>4 DEF RunRecords, SameJob, SameCounts
<1>7. UNCHANGED <<pdfStatus, jobs, active, retired, candidate, learned, spent>>
  BY DEF LoadKnowledge, dbVars
<1>8. TypeOK' /\ LearnedPerJob' /\ Grows(r) /\ run'[r] = y
  BY <1>1, <1>5, <1>6, <1>7, TypesHere, StepFrame
<1>9. /\ SameJob(run[r], run'[r]) /\ SameCounts(run[r], run'[r])
      /\ run'[r].pc = "document" /\ run'[r].sec = run[r].sec
  BY <1>3, <1>6, <1>8 DEF SameJob, SameCounts
<1>10. run[r].sec = 0 /\ run[r].processed = 0 /\ run[r].failed = 0 /\ run[r].pdf \in Pdfs
  BY <1>1 DEF Driven, IsLocated, HoldsJob, Starting
<1>11. IsLocated(r)' /\ CoversSections(r)'
  BY <1>9, <1>10, LayoutFacts
     DEF IsLocated, CoversSections, SameCounts, SameJob, Starting, InSection, InRecord
<1>12. Ahead(r)' \subseteq Ahead(r) /\ Skips(r)
  BY <1>1, <1>9 DEF Ahead, Skips, SameJob, InRecord, WithJob, Location
<1>13. Reads(r)
  BY <1>7, <1>9 DEF Reads, SameCounts
<1> QED
  BY <1>1, <1>7, <1>8, <1>9, <1>11, <1>12, <1>13
     DEF Moves, Advances, StaysInSection, InRecord, SameCounts, WithJob, Location

\* The document has been read: its sections follow.
LEMMA DocumentMoves ==
  ASSUME JobInv, NEW r \in Runners, DocumentStages(r)
  PROVE  TypeOK' /\ LearnedPerJob' /\ Moves(r)
<1>1. TypeOK /\ Driven(r) /\ run[r].pc = "document"
  BY DEF JobInv, DocumentStages, At
<1>2. run[r] \in RunRecords(Len(jobs)) /\ Len(jobs) \in Nat /\ run[r].pdf \in Pdfs
  BY <1>1, RunnerTypes
<1> DEFINE y == AfterSection(run[r])
<1>3. y \in RunRecords(Len(jobs)) /\ SameJob(run[r], y) /\ SameCounts(run[r], y)
      /\ NextSection(run[r], y)
  BY <1>2, AfterSectionFacts
<1>4. Become(r, y) /\ UNCHANGED <<pdfStatus, jobs, active, retired, candidate, learned, spent>>
  BY DEF DocumentStages, dbVars
<1> HIDE DEF y
<1>5. TypeOK' /\ LearnedPerJob' /\ Grows(r) /\ run'[r] = y
  BY <1>1, <1>3, <1>4, TypesHere, StepFrame
<1>6. /\ IsLocated(r)' /\ CoversSections(r)' /\ run'[r].pc \in WithJob \ {"update_pdf"}
      /\ run'[r].pc \notin InRecord /\ Ahead(r)' = {c \in Ahead(r) : c[1] # Slot(r)}
  BY <1>1, <1>3, <1>5, ToNextSection DEF SameCounts, Grows, WithJob, Location
<1>7. Reads(r)
  BY <1>3, <1>4, <1>5, <1>6 DEF Reads, SameCounts, InRecord
<1>8. Slot(r) \notin Slots
  BY <1>1, SlotFacts, LayoutFacts DEF Slot, Driven, IsLocated, Starting
<1>9. Skips(r) /\ Ahead(r)' \subseteq Ahead(r)
  BY <1>6, <1>8, RecordFacts DEF Skips, Ahead
<1> QED
  BY <1>1, <1>3, <1>4, <1>5, <1>6, <1>7, <1>9
     DEF Moves, Advances, StaysInSection, InRecord, SameCounts, WithJob, Location

\* It could not be read.
LEMMA DocumentFailsMoves ==
  ASSUME JobInv, NEW r \in Runners, DocumentStagesFail(r)
  PROVE  TypeOK' /\ LearnedPerJob' /\ Moves(r)
<1>1. TypeOK /\ Driven(r) /\ run[r].pc = "document"
  BY DEF JobInv, DocumentStagesFail, At
<1>2. run[r] \in RunRecords(Len(jobs)) /\ "update_job" \in Location /\ Len(jobs) \in Nat
  BY <1>1, RunnerTypes DEF Location
<1> DEFINE a == [run[r] EXCEPT !.pc = "update_job"]
           y == Failed(a)
<1>3. /\ a \in RunRecords(Len(jobs)) /\ SameJob(run[r], a) /\ SameCounts(run[r], a)
      /\ a.pc = "update_job" /\ a.sec = run[r].sec
  BY <1>2, GotoFacts
<1>4. Become(r, y) /\ UNCHANGED <<pdfStatus, jobs, active, retired, candidate, spent>>
  BY DEF DocumentStagesFail
<1>5. learned' = learned \/ Learn(r)
  BY DEF DocumentStagesFail
<1> HIDE DEF a
<1>6. /\ y \in RunRecords(Len(jobs)) /\ SameJob(a, y)
      /\ y.processed = a.processed /\ y.failed = a.failed + 1 /\ y.pc = "update_job"
  BY <1>2, <1>3, FailedFacts
<1> HIDE DEF y
<1>7. TypeOK' /\ LearnedPerJob' /\ Grows(r) /\ run'[r] = y
  BY <1>1, <1>4, <1>5, <1>6, TypesHere, StepFrame DEF WithJob, Location
<1>8. run[r].sec = 0 /\ run[r].processed = 0 /\ run[r].failed = 0
  BY <1>1 DEF Driven, IsLocated, Starting
<1>9. /\ SameJob(run[r], run'[r]) /\ run'[r].pc = "update_job"
      /\ run'[r].processed = 0 /\ run'[r].failed = 1
  BY <1>3, <1>6, <1>7, <1>8 DEF SameJob, SameCounts
<1>10. IsLocated(r)' /\ CoversSections(r)'
  BY <1>9 DEF IsLocated, CoversSections, Starting, InSection, InRecord
<1>11. Ahead(r)' \subseteq Ahead(r) /\ Reads(r) /\ Skips(r)
  BY <1>1, <1>4, <1>8, <1>9 DEF Ahead, Reads, Skips, InRecord
<1> QED
  BY <1>1, <1>4, <1>5, <1>7, <1>8, <1>9, <1>10, <1>11
     DEF Moves, Advances, StaysInSection, InRecord, WithJob, Location
\* A section could not be added, or its records not be extracted.
LEMMA SectionFailsMoves ==
  ASSUME JobInv, NEW r \in Runners, AddSectionFails(r) \/ ExtractFails(r)
  PROVE  TypeOK' /\ LearnedPerJob' /\ Moves(r)
<1>1. TypeOK /\ Driven(r) /\ run[r].pc \in {"add_section", "extract"}
  BY DEF JobInv, AddSectionFails, ExtractFails, At
<1>2. run[r] \in RunRecords(Len(jobs)) /\ Len(jobs) \in Nat /\ run[r].pdf \in Pdfs
      /\ run[r].failed \in Nat
  BY <1>1, RunnerTypes
<1> DEFINE z == Failed(run[r])
           y == AfterSection(z)
<1>3. /\ z \in RunRecords(Len(jobs)) /\ SameJob(run[r], z) /\ z.sec = run[r].sec
      /\ z.failed = run[r].failed + 1 /\ z.processed = run[r].processed
  BY <1>2, FailedFacts
<1>4. Become(r, y) /\ Learn(r) /\ UNCHANGED <<pdfStatus, jobs, active, retired, candidate, spent>>
  BY DEF AddSectionFails, ExtractFails
<1> HIDE DEF z
<1>5. /\ y \in RunRecords(Len(jobs)) /\ SameJob(z, y) /\ SameCounts(z, y)
      /\ NextSection(z, y)
  BY <1>2, <1>3, AfterSectionFacts DEF SameJob
<1> HIDE DEF y
<1>6. TypeOK' /\ LearnedPerJob' /\ Grows(r) /\ run'[r] = y
  BY <1>1, <1>4, <1>5, TypesHere, StepFrame DEF WithJob, Location
<1>7. /\ SameJob(run[r], run'[r]) /\ NextSection(run[r], run'[r])
      /\ run'[r].failed = run[r].failed + 1 /\ run'[r].processed = run[r].processed
  BY <1>3, <1>5, <1>6 DEF SameJob, SameCounts, NextSection
<1>8. /\ IsLocated(r)' /\ CoversSections(r)' /\ run'[r].pc \in WithJob \ {"update_pdf"}
      /\ run'[r].pc \notin InRecord /\ Ahead(r)' \subseteq Ahead(r)
  BY <1>1, <1>2, <1>6, <1>7, ToNextSection DEF Grows, WithJob, Location
<1>9. Reads(r) /\ Skips(r)
  BY <1>1, <1>2, <1>4, <1>7, <1>8 DEF Reads, Skips, InRecord
<1> QED
  BY <1>1, <1>4, <1>6, <1>7, <1>8, <1>9
     DEF Moves, Advances, StaysInSection, InRecord, WithJob, Location

\* find_section() and what it leads to.
LEMMA FindSectionMoves ==
  ASSUME JobInv, NEW r \in Runners, FindSection(r)
  PROVE  TypeOK' /\ LearnedPerJob' /\ Moves(r)
<1>1. TypeOK /\ Driven(r) /\ run[r].pc = "find_section"
      /\ UNCHANGED <<pdfStatus, jobs, active, retired, candidate, learned, spent>>
  BY DEF JobInv, FindSection, At, dbVars
<1>2. /\ run[r] \in RunRecords(Len(jobs)) /\ Len(jobs) \in Nat /\ run[r].pdf \in Pdfs
      /\ VersionOf[r] \in Versions /\ Slot(r) \in Slots
      /\ run[r].sec \in DOMAIN Layout[run[r].pdf]
  BY <1>1, RunnerTypes DEF InSection
<1> DEFINE K == RecordsIn(Slot(r))
           R == {k \in K : candidate[<<Slot(r), VersionOf[r], k>>].status = "pending"}
           z == [run[r] EXCEPT !.section = VersionOf[r]]
           e == [z EXCEPT !.pc = "extract"]
           a == [run[r] EXCEPT !.pc = "add_section"]
           y == ProcessRecords(z, R)
<1>3. \/ ~HasSection(Slot(r), VersionOf[r]) /\ Become(r, a)
      \/ HasSection(Slot(r), VersionOf[r])
         /\ Become(r, [run[r] EXCEPT !.pc = "extract", !.section = VersionOf[r]])
      \/ HasSection(Slot(r), VersionOf[r]) /\ Become(r, y)
         /\ \E k \in K : candidate[<<Slot(r), VersionOf[r], k>>].status # "absent"
  BY DEF FindSection, Goto
<1>4. K \subseteq Nat /\ R \in SUBSET K /\ R \in SUBSET Nat
  BY <1>2, SlotFacts
<1>5. /\ z \in RunRecords(Len(jobs)) /\ SameJob(run[r], z) /\ SameCounts(run[r], z)
      /\ z.sec = run[r].sec /\ z.section = VersionOf[r] /\ z.pc = run[r].pc
  BY <1>2, SectionFacts
<1>6. "extract" \in Location /\ "add_section" \in Location
  BY DEF Location
<1>7. e = [run[r] EXCEPT !.pc = "extract", !.section = VersionOf[r]]
  BY <1>2 DEF RunRecords
<1>8. CASE ~HasSection(Slot(r), VersionOf[r]) /\ Become(r, a)
  <2>1. /\ a \in RunRecords(Len(jobs)) /\ SameJob(run[r], a) /\ SameCounts(run[r], a)
        /\ a.pc = "add_section" /\ a.sec = run[r].sec
    BY <1>2, <1>6, GotoFacts
  <2> HIDE DEF a
  <2>2. TypeOK' /\ LearnedPerJob' /\ Grows(r) /\ run'[r] = a
    BY <1>1, <1>8, <2>1, TypesHere, StepFrame
  <2>3. IsLocated(r)'
    BY <1>2, <2>1, <2>2 DEF IsLocated, Starting, InSection, InRecord, SameJob
  <2>4. CoversSections(r)'
    BY <1>1, <2>1, <2>2
       DEF Driven, CoversSections, SameJob, SameCounts, HasSection, WithJob, Location
  <2>5. Ahead(r)' \subseteq Ahead(r) /\ Reads(r) /\ Skips(r)
    BY <1>1, <2>1, <2>2 DEF Ahead, Reads, Skips, SameJob, SameCounts, InRecord, WithJob, Location
  <2> QED
    BY <1>1, <2>1, <2>2, <2>3, <2>4, <2>5
       DEF Moves, Advances, StaysInSection, InRecord, SameCounts, WithJob, Location
<1>9. CASE HasSection(Slot(r), VersionOf[r])
           /\ Become(r, [run[r] EXCEPT !.pc = "extract", !.section = VersionOf[r]])
  <2>0. Become(r, e)
    BY <1>7, <1>9
  <2> HIDE DEF z
  <2>1. /\ e \in RunRecords(Len(jobs)) /\ SameJob(z, e) /\ SameCounts(z, e)
        /\ e.pc = "extract" /\ e.sec = z.sec /\ e.section = z.section
    BY <1>2, <1>5, <1>6, GotoFacts
  <2> HIDE DEF e
  <2>2. TypeOK' /\ LearnedPerJob' /\ Grows(r) /\ run'[r] = e
    BY <1>1, <2>0, <2>1, TypesHere, StepFrame
  <2>3. /\ SameJob(run[r], run'[r]) /\ SameCounts(run[r], run'[r])
        /\ run'[r].sec = run[r].sec /\ run'[r].section = VersionOf[r] /\ run'[r].pc = "extract"
    BY <1>5, <2>1, <2>2 DEF SameJob, SameCounts
  <2>4. IsLocated(r)'
    BY <1>1, <1>2, <1>9, <2>3 DEF IsLocated, Starting, InSection, InRecord, SameJob, Slot, HasSection
  <2>5. CoversSections(r)'
    BY <1>1, <2>3 DEF Driven, CoversSections, SameJob, SameCounts, HasSection, WithJob, Location
  <2>6. Ahead(r)' \subseteq Ahead(r) /\ Reads(r) /\ Skips(r)
    BY <1>1, <2>3 DEF Ahead, Reads, Skips, SameJob, SameCounts, InRecord, WithJob, Location
  <2> QED
    BY <1>1, <2>2, <2>3, <2>4, <2>5, <2>6
       DEF Moves, Advances, StaysInSection, InRecord, SameCounts, WithJob, Location
<1>10. CASE HasSection(Slot(r), VersionOf[r]) /\ Become(r, y)
            /\ \E k \in K : candidate[<<Slot(r), VersionOf[r], k>>].status # "absent"
  <2> HIDE DEF z, R
  <2>1. /\ y \in RunRecords(Len(jobs)) /\ SameJob(z, y) /\ SameCounts(z, y)
        /\ GoesThrough(z, y, R)
    BY <1>2, <1>4, <1>5, ProcessRecordsFacts DEF SameJob
  <2> HIDE DEF y
  <2>2. TypeOK' /\ LearnedPerJob' /\ Grows(r) /\ run'[r] = y
    BY <1>1, <1>10, <2>1, TypesHere, StepFrame
  <2>3. /\ SameJob(run[r], run'[r]) /\ SameCounts(run[r], run'[r])
        /\ GoesThrough(z, run'[r], R) /\ SectionExists(r)
    BY <1>1, <1>5, <1>10, <2>1, <2>2 DEF SameJob, SameCounts, SectionExists, HasSection
  <2>4. /\ IsLocated(r)' /\ CoversSections(r)' /\ run'[r].pc \in WithJob \ {"update_pdf"}
        /\ run'[r].pc \notin {"normalize", "validate"}
        /\ Ahead(r)' = {c \in Ahead(r) : c[1] = Slot(r) => c[3] \in R}
    <3>1. /\ SectionsStay /\ run[r].pc \notin InRecord
          /\ run[r].pc \in InRecord \union {"find_section", "extract"}
          /\ run'[r].failed = 0 => run[r].failed = 0
      BY <1>1, <2>2, <2>3 DEF SameCounts, Grows, InRecord
    <3>2. z.sec = run[r].sec /\ z.section = VersionOf[r] /\ R \in SUBSET RecordsIn(Slot(r))
      BY <1>4, <1>5
    <3> QED
      BY ONLY JobInv, r \in Runners, <2>3, <3>1, <3>2, ToRecords
  <2>5. Reads(r) /\ Skips(r) /\ Ahead(r)' \subseteq Ahead(r)
    BY <1>1, <1>10, <2>3, <2>4 DEF Reads, Skips, SameCounts
  <2> QED
    BY <1>1, <2>2, <2>3, <2>4, <2>5
       DEF Moves, Advances, StaysInSection, InRecord, SameCounts, WithJob, Location
<1> QED
  BY <1>3, <1>8, <1>9, <1>10

\* The records of a section are extracted.
LEMMA ExtractMoves ==
  ASSUME JobInv, NEW r \in Runners, Extract(r)
  PROVE  TypeOK' /\ LearnedPerJob' /\ Moves(r)
<1>1. TypeOK /\ Driven(r) /\ run[r].pc = "extract"
      /\ UNCHANGED <<pdfStatus, jobs, active, retired, candidate, learned, spent>>
  BY DEF JobInv, Extract, At, dbVars
<1>2. /\ run[r] \in RunRecords(Len(jobs)) /\ Len(jobs) \in Nat /\ run[r].pdf \in Pdfs
      /\ Slot(r) \in Slots /\ run[r].section = VersionOf[r] /\ HasSection(Slot(r), VersionOf[r])
  BY <1>1, RunnerTypes DEF InSection, Driven, IsLocated
<1> DEFINE R == RecordsIn(Slot(r))
           y == ProcessRecords(run[r], R)
<1>3. R \in SUBSET Nat /\ Become(r, y)
  BY <1>2, SlotFacts DEF Extract
<1> HIDE DEF R
<1>4. /\ y \in RunRecords(Len(jobs)) /\ SameJob(run[r], y) /\ SameCounts(run[r], y)
      /\ GoesThrough(run[r], y, R)
  BY <1>2, <1>3, ProcessRecordsFacts
<1> HIDE DEF y
<1>5. TypeOK' /\ LearnedPerJob' /\ Grows(r) /\ run'[r] = y
  BY <1>1, <1>3, <1>4, TypesHere, StepFrame
<1>6. R \in SUBSET RecordsIn(Slot(r)) /\ SectionExists(r)
  BY <1>1, <1>2 DEF R, SectionExists, HasSection
<1>7. /\ IsLocated(r)' /\ CoversSections(r)' /\ run'[r].pc \in WithJob \ {"update_pdf"}
      /\ run'[r].pc \notin {"normalize", "validate"}
      /\ Ahead(r)' = {c \in Ahead(r) : c[1] = Slot(r) => c[3] \in R}
  BY <1>1, <1>2, <1>4, <1>5, <1>6, ToRecords DEF SameCounts, Grows, InRecord
<1>8. Reads(r)
  BY <1>1, <1>4, <1>5, <1>7 DEF Reads, SameCounts
<1>9. Ahead(r)' \subseteq Ahead(r) /\ Skips(r)
  <2>1. \A c \in Ahead(r) : c[1] = Slot(r) => c[3] \in R
    BY RecordFacts DEF Ahead, R
  <2> QED
    BY <1>7, <2>1 DEF Skips
<1> QED
  BY <1>1, <1>4, <1>5, <1>7, <1>8, <1>9
     DEF Moves, Advances, StaysInSection, InRecord, SameCounts, WithJob, Location
\* The transaction of SectionLedger: the section of the runner's version exists
\* afterwards, and every section that existed still does.
LEMMA AddSectionMoves ==
  ASSUME JobInv, NEW r \in Runners, AddSection(r)
  PROVE  TypeOK' /\ LearnedPerJob' /\ Moves(r)
<1>1. TypeOK /\ LearnedPerJob /\ Driven(r) /\ run[r].pc = "add_section"
  BY DEF JobInv, AddSection, At
<1>2. /\ run[r] \in RunRecords(Len(jobs)) /\ Len(jobs) \in Nat /\ run[r].pdf \in Pdfs
      /\ VersionOf[r] \in Versions /\ Slot(r) \in Slots
      /\ run[r].sec \in DOMAIN Layout[run[r].pdf]
  BY <1>1, RunnerTypes DEF InSection
<1> DEFINE z == [run[r] EXCEPT !.section = VersionOf[r]]
           e == [z EXCEPT !.pc = "extract"]
           v == VersionOf[r]
           s == Slot(r)
<1>3. /\ active'  = [active EXCEPT ![s] = v]
      /\ retired' = [retired EXCEPT ![s] = @ \union ({active[s]} \ {NoVersion})]
      /\ UNCHANGED <<pdfStatus, jobs, candidate, learned, spent>>
  BY DEF AddSection, Ledger!Adopt
<1>4. /\ active' \in [Slots -> Versions \union {NoVersion}]
      /\ retired' \in [Slots -> SUBSET Versions]
      /\ active'[s] = v /\ retired[s] \subseteq retired'[s]
      /\ active[s] # NoVersion => active[s] \in retired'[s]
      /\ \A t \in Slots : t # s => active'[t] = active[t] /\ retired'[t] = retired[t]
  <2>1. active \in [Slots -> Versions \union {NoVersion}] /\ retired \in [Slots -> SUBSET Versions]
    BY <1>1 DEF TypeOK
  <2> HIDE DEF s, v
  <2>2. s \in Slots /\ v \in Versions
    BY <1>2 DEF s, v
  <2> QED
    BY ONLY <1>3, <2>1, <2>2
<1>5. SectionsStay
  <2> SUFFICES ASSUME NEW t \in Slots, NEW w \in Versions, HasSection(t, w)
               PROVE  HasSection(t, w)'
    BY DEF SectionsStay
  <2>1. w # NoVersion
    BY NoVersionNotVersion
  <2> QED
    BY <1>4, <2>1 DEF HasSection
<1>6. SectionExists(r)
  BY <1>4 DEF SectionExists
<1>7. e = [run[r] EXCEPT !.pc = "extract", !.section = v] /\ "extract" \in Location
  BY <1>2 DEF RunRecords, Location
<1>8. Become(r, e)
  BY <1>7 DEF AddSection
<1>9. /\ z \in RunRecords(Len(jobs)) /\ SameJob(run[r], z) /\ SameCounts(run[r], z)
      /\ z.sec = run[r].sec /\ z.section = v
  BY <1>2, SectionFacts
<1> HIDE DEF z
<1>10. /\ e \in RunRecords(Len(jobs)) /\ SameJob(z, e) /\ SameCounts(z, e)
       /\ e.pc = "extract" /\ e.sec = z.sec /\ e.section = z.section
  BY <1>2, <1>7, <1>9, GotoFacts
<1> HIDE DEF e
<1>11. run'[r] = e /\ OthersStay(r) /\ run' \in [Runners -> RunRecords(Len(jobs))]
  BY <1>1, <1>2, <1>8, <1>10, BecomeFacts, BecomeTypes
<1>12. TypeOK' /\ LearnedPerJob'
  BY <1>1, <1>3, <1>4, <1>11 DEF TypeOK, LearnedPerJob, RunRecords
<1>13. Grows(r)
  BY <1>3, <1>5, <1>11 DEF Grows, JobsStay
<1>14. /\ SameJob(run[r], run'[r]) /\ SameCounts(run[r], run'[r])
       /\ run'[r].sec = run[r].sec /\ run'[r].section = v /\ run'[r].pc = "extract"
  BY <1>9, <1>10, <1>11 DEF SameJob, SameCounts
<1>15. IsLocated(r)'
  BY <1>2, <1>6, <1>14 DEF IsLocated, Starting, InSection, InRecord, SameJob, Slot, HasSection, SectionExists
<1>16. CoversSections(r)'
  <2> SUFFICES ASSUME run'[r].failed = 0, NEW i \in DOMAIN Layout[run[r].pdf], i < run[r].sec,
                      NEW t, t = <<run[r].pdf, i>>
               PROVE  HasSection(t, VersionOf[r])'
    BY <1>14 DEF CoversSections, HasSection, SameJob
  <2>1. HasSection(t, VersionOf[r])
    BY <1>1, <1>14 DEF Driven, CoversSections, WithJob, Location, SameCounts
  <2>2. t \in Slots
    BY <1>2, SlotFacts
  <2> QED
    BY <1>2, <1>5, <2>1, <2>2 DEF SectionsStay, HasSection
<1>17. Ahead(r)' \subseteq Ahead(r) /\ Reads(r) /\ Skips(r)
  BY <1>1, <1>3, <1>14 DEF Ahead, Reads, Skips, SameJob, SameCounts, InRecord, WithJob, Location
<1> QED
  BY <1>1, <1>3, <1>12, <1>13, <1>14, <1>15, <1>16, <1>17
     DEF Moves, Advances, StaysInSection, InRecord, SameCounts, WithJob, Location

\* A runner is done with a record, whatever came of it: z has the record counted.
LEMMA RecordDone ==
  ASSUME JobInv, NEW r \in Runners, run[r].pc \in InRecord,
         NEW z \in RunRecords(Len(jobs)), SameJob(run[r], z), z.sec = run[r].sec,
         z.section = run[r].section, z.todo = run[r].todo,
         \/ z.failed = run[r].failed /\ learned' = learned
         \/ z.failed = run[r].failed + 1 /\ Learn(r),
         Become(r, AfterRecord(z)),
         UNCHANGED <<pdfStatus, jobs, active, retired, spent>>,
         candidate' \in [Records -> CandidateRows(Len(jobs))],
         run[r].pc \in {"normalize", "validate"} \/ candidate[Record(r)] # Absent,
         \/ /\ z.processed = run[r].processed /\ candidate' = candidate
            /\ z.failed = run[r].failed => candidate[Record(r)].status \in Decided
         \/ /\ z.processed = run[r].processed + 1 /\ run[r].pc \in {"normalize", "validate"}
            /\ NormalizeUnsure(r) \/ Validate(r)
  PROVE  TypeOK' /\ LearnedPerJob' /\ Moves(r)
<1>1. TypeOK /\ Driven(r)
  BY DEF JobInv
<1>2. /\ run[r] \in RunRecords(Len(jobs)) /\ Len(jobs) \in Nat /\ run[r].pdf \in Pdfs
      /\ run[r].failed \in Nat /\ Slot(r) \in Slots /\ run[r].section = VersionOf[r]
      /\ run[r].todo \subseteq RecordsIn(Slot(r)) /\ HasSection(Slot(r), VersionOf[r])
  BY <1>1, RunnerTypes DEF InSection, InRecord, Driven, IsLocated
<1> DEFINE R == z.todo \ {Min(z.todo)}
           y == AfterRecord(z)
<1>3. y \in RunRecords(Len(jobs)) /\ SameJob(z, y) /\ SameCounts(z, y) /\ GoesThrough(z, y, R)
  BY <1>2, AfterRecordFacts DEF SameJob
<1>4. R \in SUBSET RecordsIn(Slot(r)) /\ R \subseteq run[r].todo /\ SectionExists(r)
      /\ Min(run[r].todo) \notin R
  BY <1>2 DEF SectionExists, HasSection
<1> HIDE DEF y, R
<1>5. run[r].pc \in WithJob \ {"update_job", "update_pdf"} /\ run[r].pc # "document"
  BY DEF InRecord, WithJob, Location
<1>6. TypeOK' /\ LearnedPerJob' /\ Grows(r) /\ run'[r] = y
  BY <1>1, <1>3, <1>5, TypesHere, StepFrame DEF y
<1>7. /\ SameJob(run[r], run'[r]) /\ GoesThrough(z, run'[r], R)
      /\ run'[r].failed = z.failed /\ (run'[r].failed = 0 => run[r].failed = 0)
      /\ run'[r].processed = z.processed
  BY <1>2, <1>3, <1>6 DEF SameJob, SameCounts
<1>8. /\ IsLocated(r)' /\ CoversSections(r)' /\ run'[r].pc \in WithJob \ {"update_pdf"}
      /\ run'[r].pc \notin {"normalize", "validate"}
      /\ Ahead(r)' = {c \in Ahead(r) : c[1] = Slot(r) => c[3] \in R}
  <2>1. SectionsStay /\ z.section = VersionOf[r]
    BY <1>2, <1>6 DEF Grows
  <2> QED
    BY ONLY JobInv, r \in Runners, run[r].pc \in InRecord, z.sec = run[r].sec,
            <1>4, <1>7, <2>1, ToRecords
<1>9. Record(r) \notin Ahead(r)'
  <2>1. Record(r)[1] = Slot(r) /\ Record(r)[3] = Min(run[r].todo)
    BY DEF Record
  <2> QED
    BY <1>4, <1>8, <2>1
<1>10. \/ Judges(r)
       \/ /\ Reads(r)
          /\ run'[r].failed = run[r].failed + 1 \/ candidate[Record(r)].status \in Decided
  <2>1. CASE /\ z.processed = run[r].processed /\ candidate' = candidate
             /\ z.failed = run[r].failed => candidate[Record(r)].status \in Decided
    BY <1>7, <1>8, <2>1 DEF Reads
  <2>2. CASE /\ z.processed = run[r].processed + 1 /\ run[r].pc \in {"normalize", "validate"}
             /\ NormalizeUnsure(r) \/ Validate(r)
    BY <1>7, <1>8, <1>9, <2>2 DEF Judges
  <2> QED
    BY <2>1, <2>2
<1>11. Skips(r)
  <2> SUFFICES ASSUME NEW c \in Ahead(r), c \notin Ahead(r)'
               PROVE  c = Record(r)
    BY <1>10 DEF Skips
  <2>1. c[1] = Slot(r) /\ c[3] \notin R /\ c \in Records /\ c[2] = VersionOf[r]
    BY <1>8 DEF Ahead
  <2>2. c[3] \in run[r].todo
    <3>1. c[1][2] = run[r].sec /\ ~(run[r].sec > run[r].sec)
      <4>1. run[r].sec \in Nat
        BY <1>1, RunnerTypes
      <4> QED
        BY <2>1, <4>1 DEF Slot
    <3> QED
      BY <3>1 DEF Ahead
  <2>3. c[3] = Min(run[r].todo)
    BY <2>1, <2>2 DEF R
  <2> QED
    BY <1>2, <2>1, <2>3, RecordFacts DEF Record
<1>12. StaysInSection(r)
  <2>1. CASE R = {}
    BY <1>7, <1>8, <2>1 DEF StaysInSection, InRecord, GoesThrough, NextSection
  <2>2. CASE R # {}
    BY <1>7, <2>2 DEF StaysInSection, InRecord, GoesThrough, SameJob, Slot
  <2> QED
    BY <2>1, <2>2
<1> QED
  BY <1>5, <1>6, <1>7, <1>8, <1>10, <1>11, <1>12 DEF Moves, Advances

\* A runner goes on with its record.
LEMMA RecordGoesOn ==
  ASSUME JobInv, NEW r \in Runners, run[r].pc \in InRecord, NEW l \in InRecord,
         Goto(r, l), learned' = learned,
         UNCHANGED <<pdfStatus, jobs, active, retired, spent>>,
         candidate' \in [Records -> CandidateRows(Len(jobs))],
         \/ /\ candidate' = candidate /\ l # "validate"
            /\ l = "normalize" => candidate[Record(r)].status = "pending"
         \/ /\ run[r].pc = "add_raw" /\ l = "normalize" /\ candidate[Record(r)] = Absent
            /\ candidate' = [candidate EXCEPT ![Record(r)] = Raw(VersionOf[r])]
         \/ /\ run[r].pc = "normalize" /\ l = "validate"
            /\ candidate' = [candidate EXCEPT ![Record(r)].normalizedBy = run[r].job]
  PROVE  TypeOK' /\ LearnedPerJob' /\ Moves(r)
<1>1. TypeOK /\ Driven(r) /\ l \in Location /\ run[r] \in RunRecords(Len(jobs)) /\ Len(jobs) \in Nat
  BY RunnerTypes DEF JobInv, Location, InRecord
<1> DEFINE y == [run[r] EXCEPT !.pc = l]
<1>2. /\ y \in RunRecords(Len(jobs)) /\ SameJob(run[r], y) /\ SameCounts(run[r], y) /\ y.pc = l
      /\ y.sec = run[r].sec /\ y.section = run[r].section /\ y.todo = run[r].todo
  BY <1>1, GotoFacts
<1>3. Become(r, y)
  BY DEF Goto
<1> HIDE DEF y
<1>4. TypeOK' /\ LearnedPerJob' /\ Grows(r) /\ run'[r] = y
  BY <1>1, <1>2, <1>3, TypesHere, StepFrame
<1>5. IsLocated(r)' /\ CoversSections(r)'
  BY <1>1, <1>2, <1>4
     DEF Driven, IsLocated, CoversSections, Starting, InSection, InRecord, WithJob, Location,
         SameJob, SameCounts, Slot, HasSection, RecordsIn
<1>6. Record(r)' = Record(r)
  BY <1>2, <1>4 DEF Record, Slot, SameJob
<1>7. Ahead(r)' \subseteq Ahead(r) /\ Skips(r) /\ StaysInSection(r)
  BY <1>2, <1>4 DEF Ahead, Skips, StaysInSection, Slot, SameJob, InRecord, WithJob, Location
<1>8. Reads(r) \/ Inserts(r) \/ Attaches(r)
  BY <1>2, <1>4, <1>6 DEF Reads, Inserts, Attaches, SameCounts
<1> QED
  BY <1>2, <1>4, <1>5, <1>7, <1>8 DEF Moves, Advances, SameCounts, InRecord, WithJob, Location
\* A new record is pending, and no job has been through it.
LEMMA RawFacts ==
  ASSUME NEW n \in Nat, NEW v \in Versions
  PROVE  /\ Raw(v) \in CandidateRows(n)
         /\ Raw(v).status = "pending" /\ Raw(v).version = v
         /\ Raw(v).normalizedBy = 0 /\ Raw(v).judgedBy = 0
<1> DEFINE a == [Absent EXCEPT !.status = "pending"]
           b == [a EXCEPT !.version = v]
<1>1. Absent \in CandidateRows(n) /\ Absent.normalizedBy = 0 /\ Absent.judgedBy = 0
  BY DEF Absent, CandidateRows
<1>2. Raw(v) = b
  BY <1>1 DEF Raw, CandidateRows
<1>3. /\ a \in CandidateRows(n) /\ a.status = "pending"
      /\ a.normalizedBy = 0 /\ a.judgedBy = 0
  BY <1>1 DEF CandidateRows
<1> HIDE DEF a
<1>4. /\ b \in CandidateRows(n) /\ b.status = "pending" /\ b.version = v
      /\ b.normalizedBy = 0 /\ b.judgedBy = 0
  BY <1>3 DEF CandidateRows
<1> QED
  BY <1>2, <1>4

\* A step on a record.
LEMMA RecordMoves ==
  ASSUME JobInv, NEW r \in Runners,
         \/ FindCandidate(r) \/ AddRaw(r)
         \/ Normalize(r) \/ NormalizeUnsure(r) \/ NormalizeFails(r)
         \/ Validate(r) \/ ValidateFails(r)
  PROVE  TypeOK' /\ LearnedPerJob' /\ Moves(r)
<1>1. TypeOK /\ Driven(r) /\ run[r].pc \in InRecord
  BY DEF JobInv, FindCandidate, AddRaw, Normalize, NormalizeUnsure, NormalizeFails,
         Validate, ValidateFails, At, InRecord
<1>2. /\ run[r] \in RunRecords(Len(jobs)) /\ Len(jobs) \in Nat
      /\ run[r].job \in 0 .. Len(jobs) /\ VersionOf[r] \in Versions /\ run[r].failed \in Nat
  BY <1>1, RunnerTypes DEF RunRecords
<1>3. candidate \in [Records -> CandidateRows(Len(jobs))]
  BY <1>1, TypesHere
<1>4. /\ "add_raw" \in InRecord /\ "normalize" \in InRecord /\ "validate" \in InRecord
  BY DEF InRecord
<1>5. UNCHANGED <<pdfStatus, jobs, active, retired, spent>>
  BY DEF FindCandidate, AddRaw, Normalize, NormalizeUnsure, NormalizeFails,
         Validate, ValidateFails, dbVars
<1>p. LET z == Processed(run[r]) IN
      /\ z \in RunRecords(Len(jobs)) /\ SameJob(run[r], z) /\ z.failed = run[r].failed
      /\ z.processed = run[r].processed + 1
      /\ z.sec = run[r].sec /\ z.section = run[r].section /\ z.todo = run[r].todo
  BY <1>2, ProcessedFacts
<1>f. LET z == Failed(run[r]) IN
      /\ z \in RunRecords(Len(jobs)) /\ SameJob(run[r], z)
      /\ z.failed = run[r].failed + 1 /\ z.failed # run[r].failed
      /\ z.processed = run[r].processed
      /\ z.sec = run[r].sec /\ z.section = run[r].section /\ z.todo = run[r].todo
  BY <1>2, FailedFacts
<1>6. CASE FindCandidate(r)
  <2>1. candidate' = candidate /\ learned' = learned
    BY <1>6 DEF FindCandidate, dbVars
  <2>2. \/ Goto(r, "add_raw")
        \/ Goto(r, "normalize") /\ candidate[Record(r)].status = "pending"
        \/ /\ Become(r, AfterRecord(run[r])) /\ candidate[Record(r)] # Absent
           /\ candidate[Record(r)].status \in Decided
    <3>1. candidate[Record(r)] \in CandidateRows(Len(jobs))
      BY <1>1, <1>3, RunnerTypes
    <3>2. candidate[Record(r)].status \in {"absent", "pending"} \union Decided
      BY <3>1 DEF CandidateRows
    <3>3. candidate[Record(r)].status \in Decided => candidate[Record(r)] # Absent
      BY DEF Decided, Absent
    <3> QED
      BY <1>6, <3>2, <3>3 DEF FindCandidate, Decided
  <2>3. SameJob(run[r], run[r])
    BY DEF SameJob
  <2> QED
    BY <1>1, <1>2, <1>3, <1>4, <1>5, <2>1, <2>2, <2>3, RecordDone, RecordGoesOn
<1>7. CASE AddRaw(r)
  <2>1. CASE candidate[Record(r)] = Absent
    <3>1. Raw(VersionOf[r]) \in CandidateRows(Len(jobs))
      BY <1>2, RawFacts
    <3>2. /\ candidate' = [candidate EXCEPT ![Record(r)] = Raw(VersionOf[r])]
          /\ Goto(r, "normalize") /\ learned' = learned
      BY <1>7, <2>1 DEF AddRaw
    <3>3. candidate' \in [Records -> CandidateRows(Len(jobs))]
      BY <1>3, <3>1, <3>2
    <3> QED
      BY <1>1, <1>4, <1>5, <1>7, <2>1, <3>2, <3>3, RecordGoesOn DEF AddRaw, At
  <2>2. CASE candidate[Record(r)] # Absent
    <3>1. Learn(r) /\ Become(r, AfterRecord(Failed(run[r]))) /\ candidate' = candidate
      BY <1>7, <2>2 DEF AddRaw
    <3> QED
      BY <1>1, <1>3, <1>5, <1>f, <2>2, <3>1, RecordDone
  <2> QED
    BY <2>1, <2>2
<1>8. CASE Normalize(r)
  <2>1. /\ candidate' = [candidate EXCEPT ![Record(r)].normalizedBy = run[r].job]
        /\ Goto(r, "validate") /\ learned' = learned
    BY <1>8 DEF Normalize
  <2>3. run[r].pc = "normalize"
    BY <1>8 DEF Normalize, At
  <2>2. candidate' \in [Records -> CandidateRows(Len(jobs))]
    BY <1>2, <1>3, <2>1 DEF CandidateRows
  <2> QED
    BY <1>1, <1>4, <1>5, <2>1, <2>2, <2>3, RecordGoesOn
<1>9. CASE NormalizeUnsure(r)
  <2>1. /\ candidate' = [candidate EXCEPT ![Record(r)].judgedBy = run[r].job]
        /\ Become(r, AfterRecord(Processed(run[r]))) /\ learned' = learned
    BY <1>9 DEF NormalizeUnsure
  <2>2. candidate' \in [Records -> CandidateRows(Len(jobs))]
    BY <1>2, <1>3, <2>1 DEF CandidateRows
  <2> QED
    BY <1>1, <1>5, <1>9, <1>p, <2>1, <2>2, RecordDone DEF NormalizeUnsure, At
<1>10. CASE NormalizeFails(r) \/ ValidateFails(r)
  <2>1. Learn(r) /\ Become(r, AfterRecord(Failed(run[r]))) /\ candidate' = candidate
    BY <1>10 DEF NormalizeFails, ValidateFails
  <2> QED
    BY <1>1, <1>3, <1>5, <1>10, <1>f, <2>1, RecordDone DEF NormalizeFails, ValidateFails, At
<1>11. CASE Validate(r)
  <2>1. PICK verdict \in Verdicts :
          candidate' = [candidate EXCEPT ![Record(r)].status   = verdict,
                                         ![Record(r)].judgedBy = run[r].job]
    BY <1>11 DEF Validate
  <2>2. Become(r, AfterRecord(Processed(run[r]))) /\ learned' = learned
    BY <1>11 DEF Validate
  <2>3. verdict \in {"absent", "pending"} \union Decided
    BY VerdictsType DEF Decided
  <2>4. candidate' \in [Records -> CandidateRows(Len(jobs))]
    <3> DEFINE c1 == [candidate EXCEPT ![Record(r)].status = verdict]
               c2 == [c1 EXCEPT ![Record(r)].judgedBy = run[r].job]
    <3>1. candidate' = c2
      BY <1>3, <2>1 DEF CandidateRows
    <3>2. c1 \in [Records -> CandidateRows(Len(jobs))]
      BY <1>3, <2>3 DEF CandidateRows
    <3> HIDE DEF c1
    <3>3. c2 \in [Records -> CandidateRows(Len(jobs))]
      BY <1>2, <3>2 DEF CandidateRows
    <3> QED
      BY <3>1, <3>3
  <2> QED
    BY <1>1, <1>5, <1>11, <1>p, <2>2, <2>4, RecordDone DEF Validate, At
<1> QED
  BY <1>6, <1>7, <1>8, <1>9, <1>10, <1>11

\* The job is finished.
LEMMA UpdateJobMoves ==
  ASSUME JobInv, NEW r \in Runners, UpdateJob(r)
  PROVE  TypeOK' /\ LearnedPerJob' /\ Moves(r)
<1>1. TypeOK /\ LearnedPerJob /\ Driven(r) /\ run[r].pc = "update_job"
      /\ UNCHANGED <<pdfStatus, active, retired, candidate, learned, spent>>
  BY DEF JobInv, UpdateJob, At
<1>2. /\ run[r] \in RunRecords(Len(jobs)) /\ Len(jobs) \in Nat /\ DOMAIN jobs = 1 .. Len(jobs)
      /\ run[r].failed \in Nat /\ run[r].processed \in Nat
      /\ run[r].job \in DOMAIN jobs /\ "update_pdf" \in Location
  BY <1>1, RunnerTypes DEF Driven, HoldsJob, WithJob, Location
<1> DEFINE j == run[r].job
           st == IF run[r].failed = 0 THEN "succeeded" ELSE "failed"
           a == [jobs[j] EXCEPT !.status = st]
           b == [a EXCEPT !.processed = run[r].processed]
           c == [b EXCEPT !.failed = run[r].failed]
           d == [c EXCEPT !.finished = Len(jobs)]
           row == [jobs[j] EXCEPT !.status    = st,
                                  !.processed = run[r].processed,
                                  !.failed    = run[r].failed,
                                  !.finished  = Len(jobs)]
           y == [run[r] EXCEPT !.pc = "update_pdf"]
<1>3. jobs \in Seq(JobRows) /\ jobs[j] \in JobRows
  BY <1>1, <1>2, JobTypes
<1>4. jobs' = [jobs EXCEPT ![j] = row] /\ Become(r, y)
  BY <1>2, <1>3 DEF UpdateJob, Goto
<1>5. row = d
  BY <1>3 DEF JobRows
<1>6. d \in JobRows /\ d.pdf = jobs[j].pdf /\ d.version = jobs[j].version
  <2>1. st \in {"running", "succeeded", "failed"}
    OBVIOUS
  <2> HIDE DEF st
  <2>2. a \in JobRows /\ a.pdf = jobs[j].pdf /\ a.version = jobs[j].version
    BY <1>3, <2>1 DEF JobRows
  <2> HIDE DEF a
  <2>3. b \in JobRows /\ b.pdf = a.pdf /\ b.version = a.version
    BY <1>2, <2>2 DEF JobRows
  <2> HIDE DEF b
  <2>4. c \in JobRows /\ c.pdf = b.pdf /\ c.version = b.version
    BY <1>2, <2>3 DEF JobRows
  <2> HIDE DEF c
  <2>5. d \in JobRows /\ d.pdf = c.pdf /\ d.version = c.version
    BY <1>2, <2>4 DEF JobRows
  <2> QED
    BY <2>2, <2>3, <2>4, <2>5
<1> HIDE DEF a, b, c, d, row, st, y
<1>7. /\ jobs' \in Seq(JobRows) /\ Len(jobs') = Len(jobs) /\ DOMAIN jobs' = DOMAIN jobs
      /\ jobs'[j] = d /\ \A i \in DOMAIN jobs : i # j => jobs'[i] = jobs[i]
  BY <1>2, <1>3, <1>4, <1>5, <1>6
<1>8. /\ y \in RunRecords(Len(jobs)) /\ SameJob(run[r], y) /\ SameCounts(run[r], y)
      /\ y.pc = "update_pdf"
  BY <1>2, GotoFacts DEF y
<1>9. run'[r] = y /\ OthersStay(r) /\ run' \in [Runners -> RunRecords(Len(jobs))]
  BY <1>1, <1>2, <1>4, <1>8, BecomeFacts, BecomeTypes
<1>10. TypeOK' /\ LearnedPerJob'
  BY <1>1, <1>7, <1>9 DEF TypeOK, LearnedPerJob, JobRows, RunRecords
<1>11. Grows(r)
  BY <1>1, <1>6, <1>7, <1>9 DEF Grows, SectionsStay, HasSection, JobsStay
<1>12. Finishes(r)
  BY <1>1, <1>8, <1>9 DEF Finishes, UpdateJob
<1> QED
  BY <1>10, <1>11, <1>12 DEF Moves

-----------------------------------------------------------------------------
(* The theorems.                                                           *)

\* Every step is a move of one runner.
LEMMA NextMoves ==
  ASSUME JobInv, Next
  PROVE  TypeOK' /\ LearnedPerJob' /\ \E r \in Runners : Moves(r)
<1>1. PICK r \in Runners : \/ StartBatch(r)
                           \/ \E p \in Pdfs : RunJob(r, p)
                           \/ Step(r)
                           \/ LoadKnowledgeRaises(r)
                           \/ Crash(r)
  BY DEF Next
<1>2. \/ StartBatch(r) \/ (\E p \in Pdfs : RunJob(r, p)) \/ LoadKnowledgeRaises(r)
      \/ UpdatePdf(r) \/ Crash(r)
      \/ AddJob(r) \/ LoadKnowledge(r) \/ DocumentStages(r) \/ DocumentStagesFail(r)
      \/ FindSection(r) \/ AddSection(r) \/ AddSectionFails(r) \/ ExtractFails(r)
      \/ Extract(r) \/ FindCandidate(r) \/ AddRaw(r)
      \/ Normalize(r) \/ NormalizeUnsure(r) \/ NormalizeFails(r)
      \/ Validate(r) \/ ValidateFails(r) \/ UpdateJob(r)
  BY <1>1 DEF Step
<1> QED
  BY <1>2, LeavingMoves, AddJobMoves, LoadKnowledgeMoves, DocumentMoves, DocumentFailsMoves,
     FindSectionMoves, AddSectionMoves, SectionFailsMoves, ExtractMoves, RecordMoves,
     UpdateJobMoves

\* JobInv is inductive.
THEOREM JobInvariant == Spec => []JobInv
<1>1. Init => JobInv
  <2> SUFFICES ASSUME Init PROVE JobInv
    OBVIOUS
  <2>1. /\ jobs = <<>> /\ learned = <<>> /\ run = [r \in Runners |-> Idle]
    BY DEF Init
  <2>2. Idle \in RunRecords(0)
    BY DEF Idle, RunRecords, Location
  <2>3. TypeOK
    <3>1. Absent \in CandidateRows(0)
      BY DEF Absent, CandidateRows
    <3>2. spent \in SpentRecords
      BY BoundsType DEF Init, SpentRecords
    <3>3. /\ active \in [Slots -> Versions \union {NoVersion}]
          /\ retired \in [Slots -> SUBSET Versions]
      BY DEF Init, Ledger!LedgerInit
    <3>4. jobs \in Seq([pdf : Pdfs, version : Versions, processed : Nat, failed : Nat,
                     finished : Nat, status : {"running", "succeeded", "failed"}])
          /\ Len(jobs) = 0 /\ learned \in [DOMAIN jobs -> Nat]
      BY <2>1
    <3>5. candidate \in [Records -> CandidateRows(0)] /\ run \in [Runners -> RunRecords(0)]
      BY <2>1, <2>2, <3>1 DEF Init
    <3>6. pdfStatus \in [Pdfs -> {"fetched", "validated", "failed"}]
      BY DEF Init
    <3> QED
      BY <3>2, <3>3, <3>4, <3>5, <3>6 DEF TypeOK, CandidateRows, RunRecords, SpentRecords
  <2>4. \A r \in Runners : run[r].pc = "idle" /\ run[r].job = 0
    BY <2>1 DEF Idle
  <2>5. \A r \in Runners : Driven(r)
    BY <2>4 DEF Driven, HoldsJob, IsLocated, LearnsFailures, CoversSections,
                Starting, InSection, InRecord, WithJob
  <2>6. LearnedPerJob
    BY <2>1 DEF LearnedPerJob
  <2>7. EveryFailureLearned /\ SucceededCoversSections
    BY <2>1 DEF EveryFailureLearned, SucceededCoversSections, Finished
  <2> QED
    BY <2>3, <2>4, <2>5, <2>6, <2>7 DEF JobInv, JobsAreOwn
<1>2. ASSUME JobInv, [Next]_vars PROVE JobInv'
  <2>1. CASE Next
    BY <1>2, <2>1, NextMoves, MovesPreserve
  <2>2. CASE UNCHANGED vars
    <3>1. /\ pdfStatus' = pdfStatus /\ jobs' = jobs /\ active' = active /\ retired' = retired
          /\ candidate' = candidate /\ learned' = learned /\ run' = run /\ spent' = spent
      BY <2>2 DEF vars, dbVars
    <3>2. TypeOK' /\ LearnedPerJob'
      BY <1>2, <3>1 DEF JobInv, TypeOK, LearnedPerJob
    <3>3. ASSUME NEW r \in Runners PROVE Driven(r)'
      BY <1>2, <3>1
         DEF JobInv, Driven, HoldsJob, IsLocated, LearnsFailures, CoversSections,
             HasSection, Slot, RecordsIn
    <3>4. JobsAreOwn' /\ EveryFailureLearned' /\ SucceededCoversSections'
      BY <1>2, <3>1
         DEF JobInv, JobsAreOwn, EveryFailureLearned, Finished, SucceededCoversSections,
             SectionsOf, HasSection
    <3> QED
      BY <3>2, <3>3, <3>4 DEF JobInv
  <2> QED
    BY <1>2, <2>1, <2>2
<1> QED
  BY <1>1, <1>2, PTL DEF Spec

\* Every variable keeps its type, whatever the runners do and wherever they die.
THEOREM JobTypeCorrect == Spec => []TypeOK
<1>1. JobInv => TypeOK
  BY DEF JobInv
<1> QED
  BY <1>1, JobInvariant, PTL

\* Every failure a finished job counted is in learning_records.
THEOREM FailuresLearned == Spec => []EveryFailureLearned
<1>1. JobInv => EveryFailureLearned
  BY DEF JobInv
<1> QED
  BY <1>1, JobInvariant, PTL

\* A job that succeeded has left out no section of its document.
THEOREM SuccessCoversSections == Spec => []SucceededCoversSections
<1>1. JobInv => SucceededCoversSections
  BY DEF JobInv
<1> QED
  BY <1>1, JobInvariant, PTL
-----------------------------------------------------------------------------
(* Verdicts, when the runners of a version are one.  Two runners of a version *)
(* may hold the same pending record, and the second one's verdict overwrites *)
(* the first one's: nothing below holds then.                              *)

OneRunnerPerVersion == \A q, r \in Runners : VersionOf[q] = VersionOf[r] => q = r

\* The records whose last verdict, or doubt, is the one of job j.
JudgedBy(j) == {c \in Records : candidate[c].judgedBy = j}

\* The record a runner has begun to work on is pending, and what it is about to
\* validate are the fields it has attached itself.
HoldsRecord(r) ==
    /\ run[r].pc \in {"normalize", "validate"} => candidate[Record(r)].status = "pending"
    /\ run[r].pc = "validate" => candidate[Record(r)].normalizedBy = run[r].job

\* A runner has counted every record its job has been through, none of them is
\* ahead of it, and each is of its version.
CountsJudged(r) ==
    run[r].pc \in WithJob \ {"update_pdf"} =>
        /\ IsFiniteSet(JudgedBy(run[r].job))
        /\ Cardinality(JudgedBy(run[r].job)) = run[r].processed
        /\ \A c \in JudgedBy(run[r].job) : c[2] = VersionOf[r] /\ c \notin Ahead(r)

JudgeInv ==
    /\ \A r \in Runners : HoldsRecord(r) /\ CountsJudged(r)
    /\ VerdictMatchesNormalized

\* A step changes one record at most, and that one is in the runner's hands.
WritesItsRecord(r) ==
    \A c \in Records :
        \/ candidate'[c] = candidate[c]
        \/ /\ c = Record(r) /\ run[r].pc \in InRecord /\ Advances(r)
           /\ candidate'[c].judgedBy \in {candidate[c].judgedBy, run[r].job}

\* What NormalizeUnsure and Validate have in common.
LEMMA JudgesFacts ==
  ASSUME JobInv, NEW r \in Runners, Judges(r)
  PROVE  LET c == Record(r) IN
         /\ c \in Records
         /\ \A d \in Records : d # c => candidate'[d] = candidate[d]
         /\ candidate'[c].judgedBy = run[r].job
         /\ candidate'[c].normalizedBy = candidate[c].normalizedBy
         /\ candidate'[c].version = candidate[c].version
         /\ \/ run[r].pc = "validate" /\ candidate'[c].status \in Decided
            \/ candidate'[c].status = candidate[c].status
<1>1. TypeOK /\ Driven(r) /\ run[r].pc \in InRecord
  BY DEF JobInv, Judges, InRecord
<1>2. /\ Record(r) \in Records /\ Len(jobs) \in Nat
      /\ candidate \in [Records -> CandidateRows(Len(jobs))]
  BY <1>1, RunnerTypes, TypesHere
<1>3. CASE NormalizeUnsure(r)
  BY <1>2, <1>3 DEF NormalizeUnsure, CandidateRows
<1>4. CASE Validate(r)
  <2>1. PICK verdict \in Verdicts :
          candidate' = [candidate EXCEPT ![Record(r)].status   = verdict,
                                         ![Record(r)].judgedBy = run[r].job]
    BY <1>4 DEF Validate
  <2> DEFINE c1 == [candidate EXCEPT ![Record(r)].status = verdict]
             c2 == [c1 EXCEPT ![Record(r)].judgedBy = run[r].job]
  <2>2. candidate' = c2
    BY <1>2, <2>1 DEF CandidateRows
  <2>3. verdict \in Decided
    BY VerdictsType DEF Decided
  <2>4. /\ c1[Record(r)].status = verdict
        /\ c1[Record(r)].version = candidate[Record(r)].version
        /\ c1 \in [Records -> CandidateRows(Len(jobs))]
        /\ c1[Record(r)].normalizedBy = candidate[Record(r)].normalizedBy
        /\ \A d \in Records : d # Record(r) => c1[d] = candidate[d]
    BY <1>2, <2>3 DEF CandidateRows
  <2> HIDE DEF c1
  <2>5. /\ c2[Record(r)].judgedBy = run[r].job
        /\ c2[Record(r)].status = c1[Record(r)].status
        /\ c2[Record(r)].version = c1[Record(r)].version
        /\ c2[Record(r)].normalizedBy = c1[Record(r)].normalizedBy
        /\ \A d \in Records : d # Record(r) => c2[d] = c1[d]
    BY <1>2, <2>4 DEF CandidateRows
  <2>6. run[r].pc = "validate"
    BY <1>4 DEF Validate, At
  <2> QED
    BY <1>2, <2>2, <2>3, <2>4, <2>5, <2>6
<1> QED
  BY <1>3, <1>4 DEF Judges

\* Every step writes its own record at most.
LEMMA MoverWritesItsRecord ==
  ASSUME JobInv, NEW r \in Runners, Moves(r)
  PROVE  WritesItsRecord(r)
<1>1. TypeOK /\ Driven(r) /\ (run[r].pc \in InRecord => Record(r) \in Records)
  BY RunnerTypes DEF JobInv
<1>2. candidate \in [Records -> CandidateRows(Len(jobs))] /\ Len(jobs) \in Nat
  BY <1>1, RunnerTypes, TypesHere
<1>3. CASE Leaves(r) \/ Begins(r) \/ Finishes(r)
  BY <1>3 DEF Leaves, Begins, Finishes, WritesItsRecord
<1>4. CASE Advances(r)
  <2>1. CASE Reads(r)
    BY <2>1 DEF Reads, WritesItsRecord
  <2>2. CASE Inserts(r)
    <3>1. run[r].pc \in InRecord
      BY <2>2 DEF Inserts, InRecord
    <3>2. VersionOf[r] \in Versions
      OBVIOUS
    <3>3. candidate'[Record(r)].judgedBy = candidate[Record(r)].judgedBy
      BY <1>1, <1>2, <2>2, <3>1, <3>2, RawFacts DEF Inserts, Absent
    <3>4. \A d \in Records : d # Record(r) => candidate'[d] = candidate[d]
      BY <1>2, <2>2 DEF Inserts
    <3> QED
      BY <1>4, <3>1, <3>3, <3>4 DEF WritesItsRecord
  <2>3. CASE Attaches(r)
    <3>1. run[r].pc \in InRecord
      BY <2>3 DEF Attaches, InRecord
    <3>2. /\ candidate'[Record(r)].judgedBy = candidate[Record(r)].judgedBy
          /\ \A d \in Records : d # Record(r) => candidate'[d] = candidate[d]
      BY <1>1, <1>2, <2>3, <3>1 DEF Attaches, CandidateRows
    <3> QED
      BY <1>4, <3>1, <3>2 DEF WritesItsRecord
  <2>4. CASE Judges(r)
    <3>1. run[r].pc \in InRecord
      BY <2>4 DEF Judges, InRecord
    <3> QED
      BY <1>4, <2>4, <3>1, JudgesFacts DEF WritesItsRecord
  <2> QED
    BY <1>4, <2>1, <2>2, <2>3, <2>4 DEF Advances
<1> QED
  BY <1>3, <1>4 DEF Moves

\* The runner of another version is left alone.
LEMMA OthersJudged ==
  ASSUME OneRunnerPerVersion, JobInv, NEW r \in Runners, Moves(r),
         NEW q \in Runners \ {r}, HoldsRecord(q), CountsJudged(q)
  PROVE  HoldsRecord(q)' /\ CountsJudged(q)'
<1>1. /\ TypeOK /\ Driven(q) /\ Driven(r) /\ run'[q] = run[q] /\ WritesItsRecord(r)
      /\ VersionOf[q] # VersionOf[r]
      /\ run[q].job # run[r].job \/ run[q].job = 0
  BY MoverWritesItsRecord DEF JobInv, Moves, Grows, OthersStay, OneRunnerPerVersion, JobsAreOwn
<1>2. /\ run[q].pc \in InRecord => /\ Record(q) \in Records
                                   /\ Record(q) = <<Slot(q), VersionOf[q], Min(run[q].todo)>>
      /\ run[r].pc \in InRecord => /\ Record(r) \in Records
                                   /\ Record(r) = <<Slot(r), VersionOf[r], Min(run[r].todo)>>
      /\ Len(jobs) \in Nat /\ DOMAIN jobs = 1 .. Len(jobs)
  BY <1>1, RunnerTypes
<1>3. Record(q)' = Record(q) /\ Ahead(q)' = Ahead(q)
  BY <1>1 DEF Record, Slot, Ahead
<1>4. HoldsRecord(q)'
  <2>1. run[q].pc \in {"normalize", "validate"} => candidate'[Record(q)] = candidate[Record(q)]
    BY <1>1, <1>2 DEF WritesItsRecord, InRecord
  <2> QED
    BY <1>1, <1>3, <2>1 DEF HoldsRecord
<1>5. ASSUME run[q].pc \in WithJob \ {"update_pdf"}
      PROVE  \A c \in Records : (candidate'[c].judgedBy = run[q].job) <=> (candidate[c].judgedBy = run[q].job)
  <2>1. run[q].job # run[r].job
    BY <1>1, <1>2, <1>5 DEF Driven, HoldsJob
  <2> QED
    BY <1>1, <1>2, <1>5, <2>1 DEF WritesItsRecord, CountsJudged, JudgedBy
<1>6. run[q].pc \in WithJob \ {"update_pdf"} => JudgedBy(run[q].job)' = JudgedBy(run[q].job)
  BY <1>1, <1>5 DEF JudgedBy
<1>7. CountsJudged(q)'
  BY <1>1, <1>3, <1>6 DEF CountsJudged
<1> QED
  BY <1>4, <1>7
\* The runner itself goes on holding and counting.
LEMMA MoverJudged ==
  ASSUME JobInv, NEW r \in Runners, Moves(r), HoldsRecord(r), CountsJudged(r)
  PROVE  HoldsRecord(r)' /\ CountsJudged(r)'
<1>1. TypeOK /\ Driven(r) /\ VersionOf[r] \in Versions
  BY DEF JobInv
<1>2. /\ candidate \in [Records -> CandidateRows(Len(jobs))]
      /\ Len(jobs) \in Nat /\ DOMAIN jobs = 1 .. Len(jobs)
      /\ run[r].pc \in InRecord =>
             /\ Record(r) \in Records /\ Min(run[r].todo) \in run[r].todo
             /\ Record(r) = <<Slot(r), VersionOf[r], Min(run[r].todo)>>
  BY <1>1, RunnerTypes, TypesHere
<1>3. CASE Leaves(r)
  BY <1>3 DEF Leaves, HoldsRecord, CountsJudged, WithJob
<1>4. CASE Finishes(r)
  BY <1>4 DEF Finishes, HoldsRecord, CountsJudged
<1>5. CASE Begins(r)
  <2>1. run'[r].job = Len(jobs) + 1 /\ candidate' = candidate /\ run'[r].pc = "load_knowledge"
        /\ run'[r].processed = 0
    BY <1>1, <1>5 DEF Begins, SameCounts, Driven, IsLocated, Starting
  <2>2. \A c \in Records : candidate[c].judgedBy \in 0 .. Len(jobs)
    BY <1>2 DEF CandidateRows
  <2>3. JudgedBy(run[r].job)' = {}
    BY <1>2, <2>1, <2>2 DEF JudgedBy
  <2> QED
    BY <2>1, <2>3, FS_EmptySet DEF HoldsRecord, CountsJudged
<1>6. CASE Advances(r)
  <2> DEFINE j == run[r].job
  <2>1. /\ run'[r].job = j /\ j \in 1 .. Len(jobs) /\ Ahead(r)' \subseteq Ahead(r)
        /\ IsFiniteSet(JudgedBy(j)) /\ Cardinality(JudgedBy(j)) = run[r].processed
        /\ \A c \in JudgedBy(j) : c[2] = VersionOf[r] /\ c \notin Ahead(r)
    BY <1>1, <1>2, <1>6 DEF Advances, SameJob, Driven, HoldsJob, CountsJudged
  <2> HIDE DEF j
  <2>2. ASSUME \A c \in Records : (candidate'[c].judgedBy = j) <=> (candidate[c].judgedBy = j),
               run'[r].processed = run[r].processed
        PROVE  CountsJudged(r)'
    <3>1. JudgedBy(run[r].job)' = JudgedBy(j)
      BY <2>1, <2>2 DEF JudgedBy
    <3> QED
      BY <2>1, <2>2, <3>1 DEF CountsJudged
  <2>3. CASE Reads(r)
    <3>1. HoldsRecord(r)'
      BY <2>3 DEF Reads, HoldsRecord
    <3> QED
      BY <2>2, <2>3, <3>1 DEF Reads
  <2>4. CASE Inserts(r)
    <3>1. /\ Record(r) \in Records /\ Raw(VersionOf[r]).status = "pending"
          /\ Raw(VersionOf[r]).judgedBy = 0 /\ candidate[Record(r)].judgedBy = 0
      BY <1>1, <1>2, <2>4, RawFacts DEF Inserts, InRecord, Absent
    <3>2. /\ candidate'[Record(r)].status = "pending" /\ candidate'[Record(r)].judgedBy = 0
          /\ \A d \in Records : d # Record(r) => candidate'[d] = candidate[d]
      BY <1>2, <2>4, <3>1 DEF Inserts
    <3>3. HoldsRecord(r)'
      BY <2>4, <3>2 DEF Inserts, HoldsRecord
    <3>4. \A c \in Records : (candidate'[c].judgedBy = j) <=> (candidate[c].judgedBy = j)
      BY <3>1, <3>2
    <3> QED
      BY <2>2, <2>4, <3>3, <3>4 DEF Inserts
  <2>5. CASE Attaches(r)
    <3>1. Record(r) \in Records /\ candidate[Record(r)].status = "pending"
      BY <1>2, <2>5 DEF Attaches, InRecord, HoldsRecord
    <3>2. /\ candidate'[Record(r)].status = "pending"
          /\ candidate'[Record(r)].normalizedBy = j
          /\ candidate'[Record(r)].judgedBy = candidate[Record(r)].judgedBy
          /\ \A d \in Records : d # Record(r) => candidate'[d] = candidate[d]
      BY <1>2, <2>5, <3>1 DEF Attaches, CandidateRows, j
    <3>3. HoldsRecord(r)'
      BY <2>1, <2>5, <3>2 DEF Attaches, HoldsRecord
    <3>4. \A c \in Records : (candidate'[c].judgedBy = j) <=> (candidate[c].judgedBy = j)
      BY <3>1, <3>2
    <3> QED
      BY <2>2, <2>5, <3>3, <3>4 DEF Attaches
  <2>6. CASE Judges(r)
    <3> DEFINE c == Record(r)
    <3>1. /\ c \in Records /\ candidate'[c].judgedBy = j
          /\ \A d \in Records : d # c => candidate'[d] = candidate[d]
      BY <2>6, JudgesFacts DEF j
    <3>2. run[r].pc \in InRecord /\ run[r].pc \in WithJob \ {"update_job", "update_pdf"}
      BY <2>6 DEF Judges, InRecord, WithJob, Location
    <3>3. /\ c[2] = VersionOf[r] /\ c[1][1] = run[r].pdf /\ c[1][2] = run[r].sec
          /\ c[3] \in run[r].todo
      BY <1>2, <3>2 DEF Slot
    <3>4. c \in Ahead(r)
      BY <3>1, <3>2, <3>3 DEF Ahead
    <3>5. c \notin Ahead(r)'
      BY <2>6 DEF Judges
    <3> HIDE DEF c
    <3>6. JudgedBy(run[r].job)' = JudgedBy(j) \union {c} /\ c \notin JudgedBy(j)
      BY <2>1, <3>1, <3>4 DEF JudgedBy
    <3>7. /\ IsFiniteSet(JudgedBy(j) \union {c})
          /\ Cardinality(JudgedBy(j) \union {c}) = Cardinality(JudgedBy(j)) + 1
      BY <2>1, <3>6, FS_AddElement
    <3>8. CountsJudged(r)'
      BY <2>1, <2>6, <3>3, <3>5, <3>6, <3>7 DEF CountsJudged, Judges
    <3>9. HoldsRecord(r)'
      BY <2>6 DEF Judges, HoldsRecord
    <3> QED
      BY <3>8, <3>9
  <2> QED
    BY <1>6, <2>3, <2>4, <2>5, <2>6 DEF Advances
<1> QED
  BY <1>3, <1>4, <1>5, <1>6 DEF Moves

\* A verdict is given on fields of the same job.
LEMMA MoverMatches ==
  ASSUME JobInv, JudgeInv, NEW r \in Runners, Moves(r)
  PROVE  /\ VerdictMatchesNormalized'
         /\ \A c \in Records : candidate[c].status \in Decided => candidate'[c] = candidate[c]
<1>1. TypeOK /\ Driven(r) /\ VersionOf[r] \in Versions /\ HoldsRecord(r) /\ VerdictMatchesNormalized
  BY DEF JobInv, JudgeInv
<1>2. /\ candidate \in [Records -> CandidateRows(Len(jobs))]
      /\ run[r].pc \in InRecord => Record(r) \in Records
      /\ "pending" \notin Decided /\ "absent" \notin Decided
  BY <1>1, RunnerTypes, TypesHere DEF Decided
<1> SUFFICES ASSUME NEW c \in Records
             PROVE  /\ candidate[c].status \in Decided => candidate'[c] = candidate[c]
                    /\ candidate'[c].status \in Decided
                           => candidate'[c].judgedBy = candidate'[c].normalizedBy
  BY DEF VerdictMatchesNormalized
<1>3. candidate[c].status \in Decided => candidate[c].judgedBy = candidate[c].normalizedBy
  BY <1>1 DEF VerdictMatchesNormalized
<1>4. CASE Leaves(r) \/ Begins(r) \/ Finishes(r) \/ Reads(r)
  BY <1>3, <1>4 DEF Leaves, Begins, Finishes, Reads
<1>5. CASE Inserts(r)
  <2>1. Raw(VersionOf[r]).status = "pending" /\ Absent.status = "absent"
    BY <1>1, RawFacts, 0 \in Nat DEF Absent
  <2> QED
    BY <1>2, <1>3, <1>5, <2>1 DEF Inserts
<1>6. CASE Attaches(r)
  <2>1. Record(r) \in Records /\ candidate[Record(r)].status = "pending"
    BY <1>1, <1>2, <1>6 DEF Attaches, HoldsRecord, InRecord
  <2>2. /\ candidate'[Record(r)].status = "pending"
        /\ \A d \in Records : d # Record(r) => candidate'[d] = candidate[d]
    BY <1>2, <1>6, <2>1 DEF Attaches, CandidateRows
  <2> QED
    BY <1>2, <1>3, <2>1, <2>2
<1>7. CASE Judges(r)
  <2>1. /\ candidate[Record(r)].status = "pending"
        /\ run[r].pc = "validate" => candidate[Record(r)].normalizedBy = run[r].job
    BY <1>1, <1>7 DEF Judges, HoldsRecord
  <2> QED
    BY <1>2, <1>3, <1>7, <2>1, JudgesFacts
<1> QED
  BY <1>4, <1>5, <1>6, <1>7 DEF Moves, Advances

\* A step of Next, as a move of a runner, keeps both invariants.
LEMMA JudgedStep ==
  ASSUME OneRunnerPerVersion, JobInv, JudgeInv, [Next]_vars
  PROVE  /\ JudgeInv'
         /\ \A c \in Records : candidate[c].status \in Decided => candidate'[c] = candidate[c]
<1>1. CASE Next
  <2>1. PICK r \in Runners : Moves(r)
    BY <1>1, NextMoves
  <2>2. \A q \in Runners : HoldsRecord(q)' /\ CountsJudged(q)'
    <3> TAKE q \in Runners
    <3>1. HoldsRecord(q) /\ CountsJudged(q)
      BY DEF JudgeInv
    <3>2. CASE q = r
      BY <2>1, <3>1, <3>2, MoverJudged
    <3>3. CASE q # r
      BY <2>1, <3>1, <3>3, OthersJudged
    <3> QED
      BY <3>2, <3>3
  <2> QED
    BY <2>1, <2>2, MoverMatches DEF JudgeInv
<1>2. CASE UNCHANGED vars
  <2>1. candidate' = candidate /\ run' = run
    BY <1>2 DEF vars, dbVars
  <2> QED
    BY <2>1 DEF JudgeInv, HoldsRecord, CountsJudged, VerdictMatchesNormalized, Record, Slot,
                JudgedBy, Ahead
<1> QED
  BY <1>1, <1>2

\* JudgeInv holds with JobInv.
THEOREM JudgeInvariant == ASSUME OneRunnerPerVersion PROVE Spec => []JudgeInv
<1>1. Init => JudgeInv
  <2> SUFFICES ASSUME Init PROVE JudgeInv
    OBVIOUS
  <2>1. \A r \in Runners : run[r].pc = "idle"
    BY DEF Init, Idle
  <2>2. \A c \in Records : candidate[c].status = "absent"
    BY DEF Init, Absent
  <2> QED
    BY <2>1, <2>2
       DEF JudgeInv, HoldsRecord, CountsJudged, VerdictMatchesNormalized, Decided, WithJob
<1>2. JobInv /\ JudgeInv /\ [Next]_vars => JudgeInv'
  BY JudgedStep
<1> QED
  BY <1>1, <1>2, JobInvariant, PTL DEF Spec

\* A record that has a verdict is never written again (ADR-0047).
THEOREM VerdictsStay == ASSUME OneRunnerPerVersion PROVE Spec => VerdictIsFinal
<1>1. JobInv /\ JudgeInv /\ [Next]_vars =>
          [\A c \in Records : candidate[c].status \in Decided => candidate'[c] = candidate[c]]_vars
  BY JudgedStep
<1> QED
  BY <1>1, JobInvariant, JudgeInvariant, PTL DEF Spec, VerdictIsFinal

\* A verdict was reached on the normalized fields stored with it.
THEOREM VerdictsMatch == ASSUME OneRunnerPerVersion PROVE Spec => []VerdictMatchesNormalized
<1>1. JudgeInv => VerdictMatchesNormalized
  BY DEF JudgeInv
<1> QED
  BY <1>1, JudgeInvariant, PTL

\* processed_count is the number of records this job went through, none twice and
\* none of another job's.
THEOREM ProcessedIsOwnWork == ASSUME OneRunnerPerVersion PROVE Spec => []CountsOwnWork
<1>1. JobInv /\ JudgeInv => CountsOwnWork
  BY DEF JobInv, JudgeInv, CountsJudged, CountsOwnWork, At, JudgedBy, WithJob, Location
<1> QED
  BY <1>1, JobInvariant, JudgeInvariant, PTL
-----------------------------------------------------------------------------
(* What the tables say of each other.                                      *)

\* A record a runner works on is in the table.
HoldsRow(r) ==
    run[r].pc \in {"normalize", "validate"} => candidate[Record(r)].status # "absent"

\* A record that is not in the table has no contents; one that is, is of the
\* version of its section, which exists.
RecordsHaveSections ==
    \A c \in Records :
        IF candidate[c].status = "absent"
        THEN candidate[c] = Absent
        ELSE candidate[c].version = c[2] /\ HasSection(c[1], c[2])

\* A section that was superseded has a successor in force.
SupersededHaveSuccessor == \A s \in Slots : retired[s] # {} => active[s] # NoVersion

\* A job is finished when it has a time of its end.
FinishedHaveEnd == \A j \in DOMAIN jobs : jobs[j].status = "running" <=> jobs[j].finished = 0

TablesInv ==
    /\ \A r \in Runners : HoldsRow(r)
    /\ RecordsHaveSections
    /\ SupersededHaveSuccessor
    /\ FinishedHaveEnd

\* The sections change by the step of SectionLedger only.
LEMMA LedgerMoves ==
  ASSUME JobInv, Next
  PROVE  \/ active' = active /\ retired' = retired
         \/ \E s \in Slots, v \in Versions : Ledger!Adopt(s, v)
<1>1. PICK r \in Runners : \/ StartBatch(r)
                           \/ \E p \in Pdfs : RunJob(r, p)
                           \/ Step(r)
                           \/ LoadKnowledgeRaises(r)
                           \/ Crash(r)
  BY DEF Next
<1>2. CASE AddSection(r)
  <2>1. Slot(r) \in Slots /\ VersionOf[r] \in Versions
    BY <1>2, RunnerTypes DEF AddSection, At, JobInv, InSection
  <2> QED
    BY <1>2, <2>1 DEF AddSection
<1>3. CASE ~AddSection(r)
  BY <1>1, <1>3
     DEF Step, StartBatch, RunJob, LoadKnowledgeRaises, Crash, AddJob, LoadKnowledge,
         DocumentStages, DocumentStagesFail, FindSection, AddSectionFails, Extract,
         ExtractFails, FindCandidate, AddRaw, Normalize, NormalizeUnsure, NormalizeFails,
         Validate, ValidateFails, UpdateJob, UpdatePdf, dbVars
<1> QED
  BY <1>2, <1>3

\* A row that changes is there afterwards, of the same version as before if it was;
\* a row is new only by the step that inserts it.
LEMMA RowsChange ==
  ASSUME JobInv, TablesInv, NEW r \in Runners, Moves(r)
  PROVE  \A c \in Records :
            \/ candidate'[c] = candidate[c]
            \/ /\ candidate'[c].status # "absent"
               /\ \/ candidate[c].status # "absent" /\ candidate'[c].version = candidate[c].version
                  \/ /\ candidate'[c].version = c[2] /\ HasSection(c[1], c[2])
                     /\ Inserts(r) /\ c = Record(r)
<1>1. /\ TypeOK /\ Driven(r) /\ VersionOf[r] \in Versions /\ HoldsRow(r) /\ RecordsHaveSections
      /\ SectionsStay /\ OthersStay(r)
  BY DEF JobInv, TablesInv, Moves, Grows
<1>2. /\ candidate \in [Records -> CandidateRows(Len(jobs))] /\ Len(jobs) \in Nat
      /\ run[r].pc \in InRecord =>
             /\ Record(r) \in Records /\ HasSection(Slot(r), VersionOf[r])
             /\ Record(r) = <<Slot(r), VersionOf[r], Min(run[r].todo)>>
  BY <1>1, RunnerTypes, TypesHere DEF Driven, IsLocated
<1>3. CASE Leaves(r) \/ Begins(r) \/ Finishes(r) \/ Reads(r)
  BY <1>3 DEF Leaves, Begins, Finishes, Reads
<1>4. CASE Inserts(r)
  <2>1. Raw(VersionOf[r]).status = "pending" /\ Raw(VersionOf[r]).version = VersionOf[r]
    BY <1>1, RawFacts, 0 \in Nat
  <2>2. /\ Record(r) \in Records /\ HasSection(Slot(r), VersionOf[r])
        /\ Record(r)[1] = Slot(r) /\ Record(r)[2] = VersionOf[r]
    BY <1>2, <1>4 DEF Inserts, InRecord
  <2>3. /\ candidate'[Record(r)] = Raw(VersionOf[r])
        /\ \A d \in Records : d # Record(r) => candidate'[d] = candidate[d]
    BY <1>2, <1>4, <2>2 DEF Inserts
  <2> QED
    BY <1>4, <2>1, <2>2, <2>3
<1>5. CASE Attaches(r)
  <2>1. Record(r) \in Records /\ candidate[Record(r)].status # "absent"
    BY <1>1, <1>2, <1>5 DEF Attaches, HoldsRow, InRecord
  <2>2. /\ candidate'[Record(r)].status = candidate[Record(r)].status
        /\ candidate'[Record(r)].version = candidate[Record(r)].version
        /\ \A d \in Records : d # Record(r) => candidate'[d] = candidate[d]
    BY <1>2, <1>5, <2>1 DEF Attaches, CandidateRows
  <2> QED
    BY <2>1, <2>2
<1>6. CASE Judges(r)
  <2>1. candidate[Record(r)].status # "absent"
    BY <1>1, <1>6 DEF Judges, HoldsRow
  <2> QED
    BY <1>6, <2>1, JudgesFacts DEF Decided
<1> QED
  BY <1>3, <1>4, <1>5, <1>6 DEF Moves, Advances

\* Each kind of write leaves a row that fits.
LEMMA MoverFits ==
  ASSUME JobInv, TablesInv, NEW r \in Runners, Moves(r)
  PROVE  RecordsHaveSections' /\ \A q \in Runners : HoldsRow(q)'
<1>1. /\ TypeOK /\ Driven(r) /\ VersionOf[r] \in Versions /\ HoldsRow(r) /\ RecordsHaveSections
      /\ SectionsStay /\ OthersStay(r)
  BY DEF JobInv, TablesInv, Moves, Grows
<1>2. /\ candidate \in [Records -> CandidateRows(Len(jobs))] /\ Len(jobs) \in Nat
      /\ run[r].pc \in InRecord =>
             /\ Record(r) \in Records /\ HasSection(Slot(r), VersionOf[r])
             /\ Record(r) = <<Slot(r), VersionOf[r], Min(run[r].todo)>>
  BY <1>1, RunnerTypes, TypesHere DEF Driven, IsLocated
<1>3. \A c \in Records :
         \/ candidate'[c] = candidate[c]
         \/ /\ candidate'[c].status # "absent"
            /\ \/ candidate[c].status # "absent" /\ candidate'[c].version = candidate[c].version
               \/ candidate'[c].version = c[2] /\ HasSection(c[1], c[2])
  BY RowsChange
<1>4. RecordsHaveSections'
  <2> SUFFICES ASSUME NEW c \in Records
               PROVE  IF candidate'[c].status = "absent"
                      THEN candidate'[c] = Absent
                      ELSE candidate'[c].version = c[2] /\ HasSection(c[1], c[2])'
    BY DEF RecordsHaveSections, HasSection
  <2>1. c[1] \in Slots /\ c[2] \in Versions
    BY RecordFacts
  <2>2. HasSection(c[1], c[2]) => HasSection(c[1], c[2])'
    BY <1>1, <2>1 DEF SectionsStay, HasSection
  <2>3. IF candidate[c].status = "absent"
        THEN candidate[c] = Absent
        ELSE candidate[c].version = c[2] /\ HasSection(c[1], c[2])
    BY <1>1 DEF RecordsHaveSections
  <2> QED
    BY <1>3, <2>2, <2>3
<1>5. ASSUME NEW q \in Runners PROVE HoldsRow(q)'
  <2>1. CASE q # r
    <3>1. run'[q] = run[q] /\ Record(q)' = Record(q) /\ HoldsRow(q)
      BY <1>1, <2>1 DEF OthersStay, TablesInv, Record, Slot
    <3>2. run[q].pc \in InRecord => Record(q) \in Records
      BY RunnerTypes DEF JobInv
    <3> QED
      BY <1>3, <3>1, <3>2 DEF HoldsRow, InRecord
  <2>2. CASE q = r
    <3>1. CASE Leaves(r) \/ Begins(r) \/ Finishes(r) \/ Judges(r)
      BY <2>2, <3>1 DEF Leaves, Begins, Finishes, Judges, HoldsRow
    <3>2. CASE Reads(r)
      BY <2>2, <3>2 DEF Reads, HoldsRow
    <3>3. CASE Inserts(r)
      <4>1. Raw(VersionOf[r]).status = "pending" /\ Record(r) \in Records
        BY <1>1, <1>2, <3>3, RawFacts, 0 \in Nat DEF Inserts, InRecord
      <4> QED
        BY <1>2, <2>2, <3>3, <4>1 DEF Inserts, HoldsRow
    <3>4. CASE Attaches(r)
      <4>1. Record(r) \in Records /\ candidate[Record(r)].status # "absent"
        BY <1>1, <1>2, <3>4 DEF Attaches, HoldsRow, InRecord
      <4> QED
        BY <1>3, <2>2, <3>4, <4>1 DEF Attaches, HoldsRow
    <3> QED
      BY <3>1, <3>2, <3>3, <3>4 DEF Moves, Advances
  <2> QED
    BY <2>1, <2>2
<1> QED
  BY <1>4, <1>5

\* A job gets its end with its status.
LEMMA MoverEnds ==
  ASSUME JobInv, TablesInv, NEW r \in Runners, Moves(r)
  PROVE  FinishedHaveEnd'
<1>1. TypeOK /\ Driven(r) /\ FinishedHaveEnd
  BY DEF JobInv, TablesInv
<1>2. Len(jobs) \in Nat /\ DOMAIN jobs = 1 .. Len(jobs) /\ jobs \in Seq(JobRows)
      /\ \A j \in DOMAIN jobs : jobs[j] \in JobRows
  BY <1>1, RunnerTypes, JobTypes
<1>3. CASE Leaves(r) \/ Advances(r)
  BY <1>1, <1>3 DEF Leaves, Advances, FinishedHaveEnd
<1>4. CASE Begins(r)
  <2> DEFINE row == [pdf |-> run[r].pdf, version |-> VersionOf[r],
                     status |-> "running", processed |-> 0, failed |-> 0, finished |-> 0]
  <2>1. jobs' = Append(jobs, row) /\ row.status = "running" /\ row.finished = 0
    BY <1>4 DEF Begins
  <2> HIDE DEF row
  <2>2. \A j \in DOMAIN jobs' : jobs'[j] = row \/ (j \in DOMAIN jobs /\ jobs'[j] = jobs[j])
    BY <1>2, <2>1
  <2> QED
    BY <1>1, <2>1, <2>2 DEF FinishedHaveEnd
<1>5. CASE Finishes(r)
  <2> DEFINE j == run[r].job
             row == [jobs[j] EXCEPT !.status    = IF run[r].failed = 0 THEN "succeeded" ELSE "failed",
                                    !.processed = run[r].processed,
                                    !.failed    = run[r].failed,
                                    !.finished  = Len(jobs)]
  <2>1. j \in DOMAIN jobs /\ jobs' = [jobs EXCEPT ![j] = row]
    BY <1>1, <1>2, <1>5 DEF Finishes, Driven, HoldsJob, WithJob, Location
  <2>2. row.status # "running" /\ row.finished # 0
    <3>1. jobs[j] \in JobRows /\ Len(jobs) # 0
      BY <1>2, <2>1
    <3> QED
      BY ONLY <3>1 DEF JobRows
  <2> HIDE DEF row, j
  <2>3. \A i \in DOMAIN jobs' : jobs'[i] = row \/ (i \in DOMAIN jobs /\ jobs'[i] = jobs[i])
    BY <1>2, <2>1
  <2> QED
    BY <1>1, <2>2, <2>3 DEF FinishedHaveEnd
<1> QED
  BY <1>3, <1>4, <1>5 DEF Moves

\* TablesInv holds with JobInv, however many runners a version has.
THEOREM TablesInvariant == Spec => []TablesInv
<1>1. Init => TablesInv
  BY DEF Init, Idle, Absent, Ledger!LedgerInit, TablesInv, HoldsRow, RecordsHaveSections,
         SupersededHaveSuccessor, FinishedHaveEnd
<1>2. ASSUME JobInv, TablesInv, [Next]_vars PROVE TablesInv'
  <2>1. CASE Next
    <3>1. PICK r \in Runners : Moves(r)
      BY <1>2, <2>1, NextMoves
    <3>2. SupersededHaveSuccessor'
      <4>1. CASE active' = active /\ retired' = retired
        BY <1>2, <4>1 DEF TablesInv, SupersededHaveSuccessor
      <4>2. CASE \E s \in Slots, v \in Versions : Ledger!Adopt(s, v)
        <5>1. PICK s \in Slots, v \in Versions : Ledger!Adopt(s, v)
          BY <4>2
        <5>2. active \in [Slots -> Versions \union {NoVersion}] /\ retired \in [Slots -> SUBSET Versions]
          BY <1>2 DEF JobInv, TypeOK
        <5> QED
          BY <1>2, <5>1, <5>2 DEF Ledger!Adopt, TablesInv, SupersededHaveSuccessor
      <4> QED
        BY <1>2, <2>1, <4>1, <4>2, LedgerMoves
    <3> QED
      BY <1>2, <3>1, <3>2, MoverFits, MoverEnds DEF TablesInv
  <2>2. CASE UNCHANGED vars
    <3>1. run' = run /\ candidate' = candidate /\ jobs' = jobs /\ active' = active /\ retired' = retired
      BY <2>2 DEF vars, dbVars
    <3> QED
      BY <1>2, <3>1 DEF TablesInv, HoldsRow, RecordsHaveSections, SupersededHaveSuccessor,
                        FinishedHaveEnd, Record, Slot, HasSection
  <2> QED
    BY <1>2, <2>1, <2>2
<1> QED
  BY <1>1, <1>2, JobInvariant, PTL DEF Spec

\* The driver's use of personnel_sections is the one SectionLedger describes: a
\* slot has one version in force at most, and one that was replaced stays so.
THEOREM SectionsFollowLedger == Spec => Ledger!LedgerSpec
<1>1. Init => Ledger!LedgerInit
  BY DEF Init
<1>2. JobInv /\ [Next]_vars => [Ledger!LedgerNext]_(Ledger!ledgerVars)
  BY LedgerMoves DEF Ledger!LedgerNext, Ledger!ledgerVars, vars, dbVars
<1> QED
  BY <1>1, <1>2, JobInvariant, PTL DEF Spec, Ledger!LedgerSpec
-----------------------------------------------------------------------------
(* When a job that succeeded is complete.  A record is lost only where a run *)
(* finds some records of a section and not the others: where a section has  *)
(* several records, and a runner was killed among them or another runner of *)
(* its version is among them still (run JobRunner_lost).  These are the two *)
(* ways of ruling that out.                                                 *)

\* A version has one runner, and no runner is killed.
AloneAndNeverKilled == OneRunnerPerVersion /\ MaxCrashes = 0

\* No section has two records.
SingleRecords == \A p \in Pdfs : \A i \in DOMAIN Layout[p] : Layout[p][i] <= 1

IsAbsent(s, v, k) == candidate[<<s, v, k>>].status = "absent"

\* Every section has all of its records or none, or a runner is among them.
ExtractedWhole ==
    \A s \in Slots, v \in Versions :
        \/ \A k \in RecordsIn(s) : ~IsAbsent(s, v, k)
        \/ \A k \in RecordsIn(s) : IsAbsent(s, v, k)
        \/ \E r \in Runners : VersionOf[r] = v /\ run[r].pc \in InRecord /\ Slot(r) = s

\* A runner among the records of a section still has those to do that are absent.
StillToDo(r) ==
    run[r].pc \in InRecord =>
        \A k \in RecordsIn(Slot(r)) :
            IsAbsent(Slot(r), VersionOf[r], k) => k \in run[r].todo

\* A runner that has counted no failure has left no record behind.
LeavesNothing(r) ==
    run[r].pc \in WithJob \ {"update_pdf"} /\ run[r].failed = 0 =>
        \A c \in Records :
            /\ c[1][1] = run[r].pdf /\ c[2] = VersionOf[r]
            /\ candidate[c].status = "absent"
            => c \in Ahead(r)

CompleteInv ==
    /\ ExtractedWhole
    /\ \A r \in Runners : StillToDo(r) /\ LeavesNothing(r)
    /\ SucceededIsComplete

\* A row that was in the table stays there.
LEMMA PresentStays ==
  ASSUME JobInv, TablesInv, NEW r \in Runners, Moves(r),
         NEW s \in Slots, NEW v \in Versions, NEW k \in RecordsIn(s), IsAbsent(s, v, k)'
  PROVE  IsAbsent(s, v, k)
<1>1. <<s, v, k>> \in Records
  BY RecordFacts
<1> QED
  BY <1>1, RowsChange DEF IsAbsent

\* In a section with one record at most, all are in the table or none.
LEMMA SingleIsWhole ==
  ASSUME SingleRecords, NEW s \in Slots
  PROVE  \A k, l \in RecordsIn(s) : k = l
<1>1. s[1] \in Pdfs /\ s[2] \in DOMAIN Layout[s[1]] /\ Layout[s[1]][s[2]] \in Nat
  BY SlotFacts, LayoutFacts
<1>2. Layout[s[1]][s[2]] <= 1
  BY <1>1 DEF SingleRecords
<1> QED
  BY <1>1, <1>2 DEF RecordsIn

\* A record a runner is past without a failure is in the table.
LEMMA PassedIsPresent ==
  ASSUME AloneAndNeverKilled \/ SingleRecords, JobInv, TablesInv, CompleteInv,
         NEW r \in Runners, Advances(r),
         NEW c \in Ahead(r), c \notin Ahead(r)',
         run[r].pc \in InRecord \/ run'[r].pc \in InRecord \/ run'[r].failed = 0
  PROVE  candidate[c].status # "absent"
<1>1. /\ c \in Records /\ c[1] \in Slots /\ c[2] = VersionOf[r] /\ c[2] \in Versions
      /\ c[3] \in RecordsIn(c[1]) /\ c = <<c[1], c[2], c[3]>>
  BY RecordFacts DEF Ahead
<1>2. \/ /\ c = Record(r) /\ run[r].pc \in InRecord
         /\ run[r].pc \in {"normalize", "validate"} \/ candidate[c] # Absent
      \/ /\ run[r].pc = "find_section" /\ c[1] = Slot(r)
         /\ \E k \in RecordsIn(Slot(r)) : ~IsAbsent(Slot(r), VersionOf[r], k)
  BY DEF Advances, Skips, IsAbsent
<1>3. CASE /\ c = Record(r) /\ run[r].pc \in InRecord
           /\ run[r].pc \in {"normalize", "validate"} \/ candidate[c] # Absent
  BY <1>1, <1>3 DEF TablesInv, HoldsRow, RecordsHaveSections
<1>4. CASE /\ run[r].pc = "find_section" /\ c[1] = Slot(r)
           /\ \E k \in RecordsIn(Slot(r)) : ~IsAbsent(Slot(r), VersionOf[r], k)
  <2>1. CASE SingleRecords
    <3>1. \A k, l \in RecordsIn(Slot(r)) : k = l
      BY <1>1, <1>4, <2>1, SingleIsWhole
    <3> QED
      BY <1>1, <1>4, <3>1 DEF IsAbsent
  <2>2. CASE AloneAndNeverKilled
    <3>1. \A q \in Runners : VersionOf[q] = VersionOf[r] => run[q].pc \notin InRecord
      BY <1>4, <2>2 DEF AloneAndNeverKilled, OneRunnerPerVersion, InRecord
    <3>2. \A k \in RecordsIn(Slot(r)) : ~IsAbsent(Slot(r), VersionOf[r], k)
      BY <1>1, <1>4, <3>1 DEF CompleteInv, ExtractedWhole
    <3> QED
      BY <1>1, <1>4, <3>2 DEF IsAbsent
  <2> QED
    BY <2>1, <2>2
<1> QED
  BY <1>2, <1>3, <1>4

\* A runner's own records: what it has to do of the section it is in.
LEMMA MoverStillToDo ==
  ASSUME AloneAndNeverKilled \/ SingleRecords, JobInv, TablesInv, CompleteInv,
         NEW r \in Runners, Moves(r)
  PROVE  StillToDo(r)'
<1> SUFFICES ASSUME run'[r].pc \in InRecord,
                    NEW s, s = Slot(r)', NEW k \in RecordsIn(s),
                    IsAbsent(s, VersionOf[r], k)'
             PROVE  k \in run'[r].todo
  BY DEF StillToDo, IsAbsent, RecordsIn
<1>1. Advances(r)
  BY DEF Moves, Leaves, Begins, Finishes, InRecord
<1>2. TypeOK /\ Driven(r) /\ IsLocated(r)' /\ run'[r].pdf = run[r].pdf /\ VersionOf[r] \in Versions
      /\ run[r].pc \in WithJob \ {"update_job", "update_pdf"} /\ run[r].sec \in Nat
      /\ run[r].pdf \in Pdfs
  BY <1>1, RunnerTypes DEF JobInv, Advances, SameJob, WithJob
<1>3. /\ s = <<run[r].pdf, run'[r].sec>> /\ run'[r].sec \in DOMAIN Layout[run[r].pdf]
      /\ run'[r].todo # {} /\ run'[r].todo \subseteq RecordsIn(s)
  BY <1>2 DEF Slot, IsLocated, InSection, RecordsIn
<1>4. s \in Slots /\ run'[r].sec \in Nat
  BY <1>2, <1>3, SlotFacts, LayoutFacts
<1>5. IsAbsent(s, VersionOf[r], k) /\ <<s, VersionOf[r], k>> \in Records
  BY <1>2, <1>4, PresentStays, RecordFacts
\* The runner was at a section no later.
<1>6. run'[r].sec >= run[r].sec
  <2>1. PICK l \in run'[r].todo : TRUE
    BY <1>3
  <2>2. <<s, VersionOf[r], l>> \in Records
    BY <1>2, <1>3, <1>4, RecordFacts
  <2>3. <<s, VersionOf[r], l>> \in Ahead(r)'
    BY <1>2, <1>3, <2>1, <2>2 DEF Ahead, InRecord, WithJob, Location
  <2>4. <<s, VersionOf[r], l>> \in Ahead(r)
    BY <1>1, <2>3 DEF Advances
  <2> QED
    BY <1>2, <1>3, <1>4, <2>4 DEF Ahead
<1>7. <<s, VersionOf[r], k>> \in Ahead(r)
  <2>1. run'[r].sec = run[r].sec /\ run[r].pc \in InRecord => k \in run[r].todo
    BY <1>3, <1>5 DEF CompleteInv, StillToDo, Slot
  <2> QED
    BY <1>2, <1>3, <1>4, <1>5, <1>6, <2>1 DEF Ahead
<1>8. <<s, VersionOf[r], k>> \in Ahead(r)'
  BY <1>1, <1>5, <1>7, PassedIsPresent DEF IsAbsent
<1> QED
  BY <1>3, <1>4, <1>8 DEF Ahead

\* A runner that counts no failure leaves no record behind.
LEMMA MoverLeavesNothing ==
  ASSUME AloneAndNeverKilled \/ SingleRecords, JobInv, TablesInv, CompleteInv,
         NEW r \in Runners, Moves(r)
  PROVE  LeavesNothing(r)'
<1> SUFFICES ASSUME run'[r].pc \in WithJob \ {"update_pdf"}, run'[r].failed = 0,
                    NEW c \in Records, c[1][1] = run'[r].pdf, c[2] = VersionOf[r],
                    candidate'[c].status = "absent"
             PROVE  c \in Ahead(r)'
  BY DEF LeavesNothing
<1>1. TypeOK /\ Driven(r) /\ LeavesNothing(r)
  BY DEF JobInv, CompleteInv
<1>2. candidate[c].status = "absent" /\ c[1] \in Slots
  BY RowsChange, RecordFacts
<1>3. CASE Leaves(r) \/ Finishes(r)
  BY <1>3 DEF Leaves, Finishes, WithJob
<1>4. CASE Begins(r)
  <2>1. run'[r].sec = 0 /\ run'[r].pc = "load_knowledge"
    BY <1>1, <1>4 DEF Begins, Driven, IsLocated, Starting
  <2>2. c[1][2] > 0
    BY <1>2, SlotFacts, LayoutFacts
  <2> QED
    BY <2>1, <2>2 DEF Ahead, WithJob, Location
<1>5. CASE Advances(r)
  <2>1. run[r].failed = 0
    <3>1. run[r].failed \in Nat
      BY <1>1, RunnerTypes
    <3> QED
      BY <1>5, <3>1 DEF Advances
  <2>2. c \in Ahead(r)
    BY <1>1, <1>2, <1>5, <2>1 DEF Advances, LeavesNothing, SameJob
  <2> QED
    BY <1>2, <1>5, <2>2, PassedIsPresent
<1> QED
  BY <1>3, <1>4, <1>5 DEF Moves

\* A runner that leaves the records of a section leaves none of them out.
LEMMA MoverKeepsWhole ==
  ASSUME AloneAndNeverKilled \/ SingleRecords, JobInv, TablesInv, CompleteInv,
         NEW r \in Runners, Moves(r)
  PROVE  ExtractedWhole'
<1> SUFFICES ASSUME NEW s \in Slots, NEW v \in Versions
             PROVE  \/ \A k \in RecordsIn(s) : ~IsAbsent(s, v, k)'
                    \/ \A k \in RecordsIn(s) : IsAbsent(s, v, k)'
                    \/ \E q \in Runners : /\ VersionOf[q] = v /\ run'[q].pc \in InRecord
                                          /\ Slot(q)' = s
  BY DEF ExtractedWhole, IsAbsent
<1>1. TypeOK /\ Driven(r) /\ VersionOf[r] \in Versions /\ OthersStay(r)
  BY RunnerTypes DEF JobInv, Moves, Grows
<1>2. CASE SingleRecords
  BY <1>2, SingleIsWhole DEF IsAbsent
<1>3. CASE AloneAndNeverKilled
  <2>1. CASE \A k \in RecordsIn(s) : ~IsAbsent(s, v, k)
    BY <2>1, PresentStays
  <2>2. CASE \A k \in RecordsIn(s) : IsAbsent(s, v, k)
    <3>1. CASE \E k \in RecordsIn(s) : ~IsAbsent(s, v, k)'
      <4>1. PICK k \in RecordsIn(s) : ~IsAbsent(s, v, k)'
        BY <3>1
      <4>2. <<s, v, k>> \in Records
        BY RecordFacts
      <4>3. Inserts(r) /\ <<s, v, k>> = Record(r)
        BY <2>2, <4>1, <4>2, RowsChange DEF IsAbsent
      <4>4. run'[r].pc \in InRecord /\ run[r].pc \in InRecord /\ Record(r)' = Record(r)
        BY <4>3 DEF Inserts, InRecord
      <4>5. Slot(r)' = s /\ VersionOf[r] = v
        BY <1>1, <4>3, <4>4 DEF Record, Driven, IsLocated
      <4> QED
        BY <4>4, <4>5
    <3> QED
      BY <3>1
  <2>3. CASE \E q \in Runners : VersionOf[q] = v /\ run[q].pc \in InRecord /\ Slot(q) = s
    <3>1. PICK q \in Runners : VersionOf[q] = v /\ run[q].pc \in InRecord /\ Slot(q) = s
      BY <2>3
    <3>2. CASE q # r
      BY <1>1, <3>1, <3>2 DEF OthersStay, Slot
    <3>3. CASE q = r
      <4>1. Advances(r)
        <5>1. ~(spent.crashes < MaxCrashes)
          BY <1>1, <1>3 DEF AloneAndNeverKilled, TypeOK
        <5> QED
          BY <3>1, <3>3, <5>1 DEF Moves, Leaves, Begins, Finishes, InRecord
      <4>2. CASE run'[r].pc \in InRecord /\ Slot(r)' = Slot(r)
        BY <3>1, <3>3, <4>2
      <4>3. CASE \A c \in Ahead(r)' : c[1] # Slot(r)
        <5> SUFFICES ASSUME NEW k \in RecordsIn(s), IsAbsent(s, v, k)'
                     PROVE  FALSE
          OBVIOUS
        <5>1. IsAbsent(s, v, k) /\ <<s, v, k>> \in Records
          BY PresentStays, RecordFacts
        <5>2. k \in run[r].todo
          BY <3>1, <3>3, <5>1 DEF CompleteInv, StillToDo
        <5>3. <<s, v, k>> \in Ahead(r)
          BY <3>1, <3>3, <4>1, <5>1, <5>2 DEF Ahead, Advances, Slot
        <5>4. <<s, v, k>> \notin Ahead(r)'
          BY <3>1, <3>3, <4>3
        <5> QED
          BY <3>1, <3>3, <4>1, <5>1, <5>3, <5>4, PassedIsPresent DEF IsAbsent
      <4> QED
        BY <3>1, <3>3, <4>1, <4>2, <4>3 DEF Advances, StaysInSection
    <3> QED
      BY <3>2, <3>3
  <2> QED
    BY <1>3, <2>1, <2>2, <2>3 DEF CompleteInv, ExtractedWhole
<1> QED
  BY <1>2, <1>3

\* A job that succeeds now has nothing ahead, so nothing is absent.
LEMMA MoverCompletes ==
  ASSUME JobInv, TablesInv, CompleteInv, NEW r \in Runners, Moves(r)
  PROVE  SucceededIsComplete'
<1> SUFFICES ASSUME NEW j \in DOMAIN jobs', jobs'[j].status = "succeeded",
                    NEW p, p = jobs'[j].pdf, NEW i \in DOMAIN Layout[p],
                    NEW s, s = <<p, i>>, NEW v, v = jobs'[j].version,
                    NEW k \in RecordsIn(s), IsAbsent(s, v, k)'
             PROVE  FALSE
  BY DEF SucceededIsComplete, SectionsOf, IsAbsent
<1>1. TypeOK /\ Driven(r) /\ LeavesNothing(r) /\ VersionOf[r] \in Versions
  BY RunnerTypes DEF JobInv, CompleteInv
<1>2. CASE Finishes(r) /\ j = run[r].job
  <2>1. /\ run[r].failed = 0 /\ run[r].pc = "update_job"
        /\ p = run[r].pdf /\ v = VersionOf[r] /\ p \in Pdfs
    <3>1. /\ jobs'[j].status = (IF run[r].failed = 0 THEN "succeeded" ELSE "failed")
          /\ jobs'[j].pdf = run[r].pdf /\ jobs'[j].version = VersionOf[r]
          /\ run[r].pdf \in Pdfs
      BY <1>2, FinishesRow
    <3> QED
      BY <1>2, <3>1 DEF Finishes
  <2>2. s \in Slots
    BY <2>1, SlotFacts
  <2>3. IsAbsent(s, v, k) /\ <<s, v, k>> \in Records
    BY <1>1, <2>1, <2>2, PresentStays, RecordFacts
  <2>4. <<s, v, k>> \in Ahead(r)
    BY <1>1, <2>1, <2>3 DEF LeavesNothing, IsAbsent, WithJob, Location
  <2> QED
    BY <2>1, <2>4 DEF Ahead
<1>3. CASE ~(Finishes(r) /\ j = run[r].job)
  <2>1. j \in DOMAIN jobs /\ jobs'[j] = jobs[j]
    BY <1>3, FinishedStay DEF Finished
  <2>2. p \in Pdfs /\ v \in Versions
    BY <1>1, <2>1, JobTypes DEF JobRows
  <2>3. s \in Slots /\ s \in SectionsOf(j)
    BY <2>1, <2>2, SlotFacts DEF SectionsOf
  <2>4. IsAbsent(s, v, k)
    BY <2>2, <2>3, PresentStays
  <2> QED
    BY <2>1, <2>3, <2>4 DEF CompleteInv, SucceededIsComplete, IsAbsent
<1> QED
  BY <1>2, <1>3

\* CompleteInv holds where a version has one runner and none is killed among the
\* records of a section, and where no section has two records.
THEOREM CompleteInvariant ==
  ASSUME AloneAndNeverKilled \/ SingleRecords PROVE Spec => []CompleteInv
<1>1. ASSUME Init PROVE CompleteInv
  <2>1. \A s \in Slots, v \in Versions : \A k \in RecordsIn(s) : IsAbsent(s, v, k)
    BY <1>1, RecordFacts DEF Init, Absent, IsAbsent
  <2>2. \A r \in Runners : run[r].pc = "idle"
    BY <1>1 DEF Init, Idle
  <2>3. \A r \in Runners : StillToDo(r) /\ LeavesNothing(r)
    BY <2>2 DEF StillToDo, LeavesNothing, InRecord, WithJob
  <2>4. SucceededIsComplete
    BY <1>1 DEF Init, SucceededIsComplete
  <2> QED
    BY <2>1, <2>3, <2>4 DEF CompleteInv, ExtractedWhole
<1>2. ASSUME JobInv, TablesInv, CompleteInv, [Next]_vars PROVE CompleteInv'
  <2>1. CASE Next
    <3>1. PICK r \in Runners : Moves(r)
      BY <1>2, <2>1, NextMoves
    <3>2. ASSUME NEW q \in Runners PROVE StillToDo(q)' /\ LeavesNothing(q)'
      <4>1. CASE q = r
        BY <1>2, <3>1, <4>1, MoverStillToDo, MoverLeavesNothing
      <4>2. CASE q # r
        <5>1. /\ run'[q] = run[q] /\ StillToDo(q) /\ LeavesNothing(q)
              /\ Slot(q)' = Slot(q) /\ Ahead(q)' = Ahead(q) /\ VersionOf[q] \in Versions
          BY <1>2, <3>1, <4>2 DEF Moves, Grows, OthersStay, CompleteInv, Slot, Ahead
        <5>2. StillToDo(q)'
          <6>1. run[q].pc \in InRecord => Slot(q) \in Slots
            BY <1>2, RunnerTypes DEF JobInv, InSection
          <6> QED
            BY <1>2, <3>1, <5>1, <6>1, PresentStays DEF StillToDo, IsAbsent, RecordsIn
        <5>3. LeavesNothing(q)'
          BY <1>2, <3>1, <5>1, RowsChange DEF LeavesNothing
        <5> QED
          BY <5>2, <5>3
      <4> QED
        BY <4>1, <4>2
    <3> QED
      BY <1>2, <3>1, <3>2, MoverKeepsWhole, MoverCompletes DEF CompleteInv
  <2>2. CASE UNCHANGED vars
    <3>1. run' = run /\ candidate' = candidate /\ jobs' = jobs
      BY <2>2 DEF vars, dbVars
    <3> QED
      BY <1>2, <3>1 DEF CompleteInv, ExtractedWhole, StillToDo, LeavesNothing, IsAbsent,
                        SucceededIsComplete, Slot, Ahead, SectionsOf, RecordsIn
  <2> QED
    BY <1>2, <2>1, <2>2
<1> QED
  BY <1>1, <1>2, JobInvariant, TablesInvariant, PTL DEF Spec

\* Under the same conditions a job that succeeded has left no record behind.
THEOREM SuccessIsComplete ==
  ASSUME AloneAndNeverKilled \/ SingleRecords PROVE Spec => []SucceededIsComplete
<1>1. CompleteInv => SucceededIsComplete
  BY DEF CompleteInv
<1> QED
  BY <1>1, CompleteInvariant, PTL

=============================================================================
