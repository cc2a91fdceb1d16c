---------------------------- MODULE Staging_proofs ----------------------------
(***************************************************************************)
(* What commands keep, for every number of processes, set of layouts and   *)
(* bound.  A process changes its own record, and only adds to what the     *)
(* tables say: parser versions keep their checksum, layouts and PDFs stay. *)
(* So what a process knows of the tables (Knows) stays true while others   *)
(* work, and each step is looked at for the process that takes it alone.   *)
(***************************************************************************)
EXTENDS Staging, FiniteSetTheorems, TLAPS

USE ProcessesType, BoundsType, LastDayType

-----------------------------------------------------------------------------
(* The inductive invariant.                                                *)

Era == {Eras[i] : i \in DOMAIN Eras}

\* Where a process is: before its session is built, in the loop over the
\* layouts, and in the command itself.
Registering == {"sync", "insert"}
Storing     == {"check", "write", "fill", "add"}
Started     == {"body", "batch", "detect"} \union Storing
Location    == {"free", "schema", "version", "show", "lookup", "snapshot", "record", "load"}
               \union Registering \union Started

Loads   == [Era -> Revision] \union {[e \in {} |-> 0]}
Ordinal == 1..(Len(Eras) + Len(Tables))

Jobs == [items : Seq(Documents), batch : SUBSET Nat, dest : Paths \union {Missing}]

ProcRecords ==
    [pc : Location, cmd : Commands \union {"none"}, code : Codes \union {"none"},
     cached : Revision \union {0}, asOf : Day \union {0}, recorded : Day \union {0},
     loaded : Loads, at : Ordinal, pending : SUBSET LayoutRows, job : Jobs, outcome : Outcomes]

PdfRows == [doc : Documents, path : Paths, status : {"fetched", "validated", "failed"},
            source : Contents]

TablesTyped ==
    /\ schema \in 0..Len(Tables)
    /\ versions \in [Codes -> Checksums \union {0}]
    /\ layouts \in SUBSET LayoutRows
    /\ writer \in Processes \union {Nobody}
    /\ knowledge \in Revision /\ manifest \in [Era -> Revision] /\ today \in Day
    /\ starts \in 0..MaxStarts /\ faults \in 0..MaxFaults
    /\ pdfs \in Seq(PdfRows)
    /\ \A id \in DOMAIN pdfs : pdfs[id].path \in Place[pdfs[id].doc]
    /\ files \in [Paths -> Contents]

\* Where the process is in its program.
IsPlaced(p) ==
    LET x == proc[p] IN
    /\ x.pc # "free" => x.code \in Codes
    /\ x.pc = "schema" => x.at <= Len(Tables)
    /\ x.pc \in {"lookup", "snapshot", "record", "load"} => x.at = 1
    /\ x.pc \in Registering => x.at <= Len(Eras) + 1
    /\ x.pc = "insert" => x.at \in DOMAIN Eras
    /\ x.pc = "record" => x.cached # 0 /\ x.asOf # 0
    /\ x.pc \in Registering \union Started => x.loaded \in [Era -> Revision]
    /\ x.pc \in Storing =>
           x.job.items # <<>> /\ x.job.dest \in Place[Head(x.job.items)]
    /\ x.pc = "detect" => x.job.batch # {}

\* What it knows of the tables: the layouts it has been past have their rows, or
\* it is about to commit them, and a checksum it has recorded is that of the
\* files it keeps, on a day that is not after the one it asked for last.
Knows(p) ==
    LET x == proc[p] IN
    /\ x.pc \in {"load"} \union Registering \union Started => versions[x.code] # 0
    /\ x.pc \in Registering => \A n \in DOMAIN Eras : n < x.at => Registered(p, n)
    /\ x.pc \in Started =>
           \A i \in DOMAIN Eras : Row(Eras[i], x.loaded[Eras[i]]) \in layouts
    /\ x.recorded # 0 =>
           /\ x.pc \in {"load"} \union Registering \union Started
           /\ x.cached # 0 /\ versions[x.code] = Digest[<<x.cached, x.recorded>>]
    /\ x.recorded <= x.asOf /\ x.asOf <= today
    /\ x.job.batch \subseteq DOMAIN pdfs

StagingInv ==
    /\ TablesTyped
    /\ proc \in [Processes -> ProcRecords]
    /\ \A p \in Processes : IsPlaced(p) /\ Knows(p)
    /\ RegistrationIsWhole

\* The tables never lose what a process knows of them, and its step takes no day.
Grows ==
    /\ \A c \in Codes : versions[c] # 0 => versions'[c] = versions[c]
    /\ layouts \subseteq layouts'
    /\ today' = today
    /\ DOMAIN pdfs \subseteq DOMAIN pdfs'

\* A step of one process; it comes to add a row from writing its file only.
Moves(p) ==
    /\ TablesTyped' /\ Grows
    /\ layouts' = layouts \/ RegistrationIsWhole'
    /\ \E x \in ProcRecords : Become(p, x) /\ (x.pc = "add" => Fill(p))
    /\ IsPlaced(p)' /\ Knows(p)'

-----------------------------------------------------------------------------
(* What the operators on a process's record do.                            *)

\* What a step leaves alone in the record of a process.
SameSession(x, y) ==
    /\ y.cmd = x.cmd /\ y.code = x.code /\ y.recorded = x.recorded /\ y.loaded = x.loaded
    /\ y.outcome = x.outcome

\* The sequence of the layouts, and the numbers their versions are.
LEMMA EraFacts ==
  /\ Len(Eras) \in Nat /\ DOMAIN Eras = 1..Len(Eras) /\ DOMAIN Eras \subseteq Nat
  /\ \A i \in DOMAIN Eras : Eras[i] \in Era
  /\ Revision \subseteq Nat /\ 0 \notin Revision /\ 1 \in Revision
  /\ Len(Tables) = 4 /\ 1 \in Ordinal /\ 1..Len(Tables) \subseteq Ordinal
  /\ 1..(Len(Eras) + 1) \subseteq Ordinal
<1>1. Len(Eras) \in Nat /\ DOMAIN Eras = 1..Len(Eras)
  BY ErasType
<1>2. Len(Tables) = 4
  BY DEF Tables
<1> QED
  BY <1>1, <1>2 DEF Era, Revision, Ordinal

\* Days are numbers, of which 0 is none.
LEMMA DayFacts ==
  /\ 1 \in Day /\ 0 \notin Day /\ \A d \in Day : d \in Nat
  /\ \A d \in Day \union {0} : d \in Nat
BY DEF Day

\* A checksum is never taken for a missing one.
LEMMA DigestFacts ==
  ASSUME NEW r \in Revision, NEW d \in Day
  PROVE  Digest[<<r, d>>] \in Checksums /\ Digest[<<r, d>>] # 0
<1>1. <<r, d>> \in Revision \X Day
  OBVIOUS
<1> QED
  BY <1>1, DigestType DEF Checksums

\* A process between two commands.
LEMMA EndedFacts ==
  ASSUME NEW o \in Outcomes
  PROVE  /\ Ended(o) \in ProcRecords /\ Ended(o).pc = "free" /\ Ended(o).recorded = 0 /\ Ended(o).asOf = 0
         /\ Ended(o).at = 1 /\ Ended(o).pending = {} /\ Ended(o).job = Idle
         /\ Idle \in Jobs /\ Idle.batch = {}
<1>1. Idle \in Jobs /\ Idle.batch = {}
  BY DEF Idle, Job, Jobs
<1>2. "free" \in Location /\ 1 \in Ordinal /\ [e \in {} |-> 0] \in Loads
  BY EraFacts DEF Location, Loads
<1> HIDE DEF Idle
<1> QED
  BY <1>1, <1>2, NoJobIsIdle DEF Ended, ProcRecords

\* Become changes one process.
LEMMA BecomeFacts ==
  ASSUME proc \in [Processes -> ProcRecords], NEW p \in Processes, NEW x \in ProcRecords,
         Become(p, x)
  PROVE  /\ proc' \in [Processes -> ProcRecords] /\ proc'[p] = x
         /\ \A q \in Processes \ {p} : proc'[q] = proc[q]
BY DEF Become

\* What the types say of one process.
LEMMA ProcTypes ==
  ASSUME StagingInv, NEW p \in Processes
  PROVE  /\ proc[p] \in ProcRecords
         /\ proc[p].pc \in Location /\ proc[p].code \in Codes \union {"none"}
         /\ proc[p].cached \in Revision \union {0} /\ proc[p].loaded \in Loads
         /\ proc[p].asOf \in Day \union {0} /\ proc[p].recorded \in Day \union {0}
         /\ proc[p].asOf \in Nat /\ proc[p].recorded \in Nat
         /\ proc[p].at \in Ordinal /\ proc[p].at \in Nat /\ proc[p].pending \in SUBSET LayoutRows
         /\ proc[p].job \in Jobs /\ proc[p].job.items \in Seq(Documents)
         /\ proc[p].job.batch \in SUBSET Nat /\ proc[p].job.dest \in Paths \union {Missing}
         /\ IsPlaced(p) /\ Knows(p)
<1>1. proc[p] \in ProcRecords /\ IsPlaced(p) /\ Knows(p)
  BY DEF StagingInv
<1>2. /\ proc[p].pc \in Location /\ proc[p].code \in Codes \union {"none"}
      /\ proc[p].cached \in Revision \union {0} /\ proc[p].loaded \in Loads
      /\ proc[p].asOf \in Day \union {0} /\ proc[p].recorded \in Day \union {0}
      /\ proc[p].at \in Ordinal /\ proc[p].pending \in SUBSET LayoutRows
      /\ proc[p].job \in Jobs
  BY <1>1 DEF ProcRecords
<1>3. proc[p].at \in Nat
  BY <1>2, EraFacts DEF Ordinal
<1>4. proc[p].asOf \in Nat /\ proc[p].recorded \in Nat
  BY <1>2, DayFacts
<1> QED
  BY <1>1, <1>2, <1>3, <1>4 DEF Jobs

-----------------------------------------------------------------------------
(* Steps that keep the invariant.                                          *)

\* A process that takes no step still knows what it knew.
LEMMA OthersKnow ==
  ASSUME StagingInv, NEW p \in Processes, Moves(p), NEW q \in Processes, q # p
  PROVE  IsPlaced(q)' /\ Knows(q)'
<1>1. proc'[q] = proc[q] /\ Grows /\ IsPlaced(q) /\ Knows(q)
  BY BecomeFacts DEF StagingInv, Moves
<1>2. proc[q].pc # "free" => proc[q].code \in Codes
  BY <1>1 DEF IsPlaced
<1>3. IsPlaced(q)'
  BY <1>1 DEF IsPlaced
<1>4. /\ proc[q].recorded # 0 => proc[q].pc # "free"
      /\ proc[q].pc \in {"load"} \union Registering \union Started => proc[q].pc # "free"
  BY <1>1 DEF Knows, Registering, Started, Storing
<1> QED
  BY <1>1, <1>2, <1>3, <1>4 DEF Knows, Grows, Registered

\* A move keeps the invariant.
LEMMA MovesPreserve ==
  ASSUME StagingInv, NEW p \in Processes, Moves(p)
  PROVE  StagingInv'
<1>1. proc' \in [Processes -> ProcRecords]
  BY BecomeFacts DEF StagingInv, Moves
<1>2. \A q \in Processes : IsPlaced(q)' /\ Knows(q)'
  BY OthersKnow DEF Moves
<1>3. RegistrationIsWhole'
  BY DEF StagingInv, Moves, RegistrationIsWhole
<1> QED
  BY <1>1, <1>2, <1>3 DEF StagingInv, Moves

\* A command ends, or is refused.
LEMMA LeavingMoves ==
  ASSUME StagingInv, NEW p \in Processes, NEW o \in Outcomes, Become(p, Ended(o)),
         TablesTyped', UNCHANGED <<versions, layouts, today, pdfs>>
  PROVE  Moves(p)
<1>1. Ended(o) \in ProcRecords /\ proc'[p] = Ended(o)
  BY EndedFacts, BecomeFacts DEF StagingInv
<1>2. today' \in Nat
  BY DayFacts DEF TablesTyped
<1>3. IsPlaced(p)' /\ Knows(p)'
  BY <1>1, <1>2, EndedFacts DEF IsPlaced, Knows, Registering, Started, Storing
<1> QED
  BY <1>1, <1>3, EndedFacts DEF Moves, Grows

\* A step of a process at which the tables and its place in them stay.
LEMMA GoingMoves ==
  ASSUME StagingInv, NEW p \in Processes, NEW x \in ProcRecords, Become(p, x),
         TablesTyped', Grows, layouts' = layouts,
         proc[p].pc \in Started, x.pc \in Started,
         SameSession(proc[p], x), x.cached = proc[p].cached \/ proc[p].cached = 0,
         x.asOf \in {proc[p].asOf, today},
         x.pc \in Storing => x.job.items # <<>> /\ x.job.dest \in Place[Head(x.job.items)],
         x.pc = "detect" => x.job.batch # {},
         x.pc = "add" => Fill(p),
         x.job.batch \subseteq DOMAIN pdfs'
  PROVE  Moves(p)
<1>1. proc'[p] = x /\ IsPlaced(p) /\ Knows(p) /\ proc[p].code \in Codes
  BY BecomeFacts DEF StagingInv, IsPlaced, Started, Storing
<1>2. /\ x.pc \notin {"schema", "free", "lookup", "snapshot", "record", "load"} \union Registering
      /\ x.code = proc[p].code /\ x.recorded = proc[p].recorded /\ x.loaded = proc[p].loaded
  BY DEF Started, Storing, Registering, SameSession
<1>3. IsPlaced(p)'
  BY <1>1, <1>2 DEF IsPlaced, Registering
<1>4. proc[p].recorded <= x.asOf /\ x.asOf <= today
  <2>1. today \in Nat /\ proc[p].asOf \in Nat /\ proc[p].recorded \in Nat
    BY ProcTypes, DayFacts DEF StagingInv, TablesTyped
  <2> QED
    BY <1>1, <2>1 DEF Knows
<1>5. Knows(p)'
  BY <1>1, <1>2, <1>4 DEF Knows, Registering, Grows
<1> QED
  BY <1>1, <1>3, <1>5 DEF Moves

\* The end of a session gives the lock back.
LEMMA LeaveTypes ==
  ASSUME StagingInv, NEW p \in Processes, NEW o \in Outcomes, Leave(p, o)
  PROVE  Become(p, Ended(o)) /\ writer' \in Processes \union {Nobody}
BY DEF Leave, StagingInv, TablesTyped

\* A command is given.
LEMMA DispatchMoves ==
  ASSUME StagingInv, NEW p \in Processes, Dispatch(p)
  PROVE  Moves(p)
<1>1. PICK c \in Commands, code \in Codes : \E job \in Arguments(c) : Start(p, c, code, job)
  BY DEF Dispatch
<1>2. PICK job \in Arguments(c) : Start(p, c, code, job)
  BY <1>1
<1>3. job \in Jobs /\ job.batch = {}
  <2>1. \A items \in Seq(Documents) : /\ Job(items, {}, Missing) \in Jobs
                                      /\ Job(items, {}, Missing).batch = {}
    BY DEF Job, Jobs
  <2>2. \A d \in Documents : <<d>> \in Seq(Documents)
    OBVIOUS
  <2>3. Idle \in Jobs /\ Idle.batch = {}
    BY EndedFacts DEF Outcomes
  <2> QED
    BY <2>1, <2>2, <2>3, WorkflowItemsType DEF Arguments
<1> DEFINE l == CASE c = "init-db" -> "schema"
                  [] c = "version" -> "version"
                  [] OTHER         -> "lookup"
           x == [Ended("none") EXCEPT !.pc = l, !.cmd = c, !.code = code, !.job = job]
<1>4. l \in {"schema", "version", "lookup"} /\ l \in Location
  BY DEF Location
<1>5. /\ Ended("none") \in ProcRecords /\ Ended("none").recorded = 0 /\ Ended("none").asOf = 0
      /\ Ended("none").at = 1
  BY EndedFacts DEF Outcomes
<1>6. /\ Become(p, x) /\ starts < MaxStarts /\ starts' = starts + 1
      /\ UNCHANGED <<schema, versions, layouts, writer, knowledge, manifest, today, faults, pdfs, files>>
  BY <1>2 DEF Start, Dispatch
<1> HIDE DEF l
<1>7. /\ x \in ProcRecords /\ x.pc = l /\ x.recorded = 0 /\ x.asOf = 0 /\ x.at = 1 /\ x.code = code
      /\ x.job = job
  BY <1>3, <1>4, <1>5 DEF ProcRecords
<1> HIDE DEF x
<1>8. proc'[p] = x
  BY <1>6, <1>7, BecomeFacts DEF StagingInv
<1>9. IsPlaced(p)' /\ Knows(p)'
  <2>1. today' \in Nat
    BY <1>6, DayFacts DEF StagingInv, TablesTyped
  <2> QED
    BY <1>3, <1>4, <1>7, <1>8, <2>1, EraFacts DEF IsPlaced, Knows, Registering, Started, Storing
<1>10. TablesTyped' /\ Grows
  BY <1>6 DEF StagingInv, TablesTyped, Grows
<1> QED
  BY <1>4, <1>6, <1>7, <1>9, <1>10 DEF Moves

\* init-db.
LEMMA CreateTableMoves ==
  ASSUME StagingInv, NEW p \in Processes, CreateTable(p), UNCHANGED <<pdfs, files>>
  PROVE  Moves(p)
<1>1. /\ proc[p].pc = "schema" /\ proc[p].at <= Len(Tables) /\ Len(Tables) = 4
      /\ proc[p] \in ProcRecords /\ proc[p].at \in Nat /\ proc[p].at >= 1 /\ IsPlaced(p) /\ Knows(p)
  BY ProcTypes, EraFacts DEF CreateTable, At, IsPlaced, Ordinal
<1>2. UNCHANGED <<versions, layouts, knowledge, manifest, today, starts, faults>>
  BY DEF CreateTable
<1>3. schema' \in 0..Len(Tables)
  BY <1>1 DEF CreateTable, StagingInv, TablesTyped
<1>4. CASE Leave(p, "error") \/ Leave(p, "success")
  <2>1. PICK o \in Outcomes : Leave(p, o)
    BY <1>4 DEF Outcomes
  <2>2. TablesTyped'
    BY <1>2, <1>3, <2>1, LeaveTypes DEF StagingInv, TablesTyped
  <2> QED
    BY <1>2, <2>1, <2>2, LeaveTypes, LeavingMoves
<1>5. CASE ~(Leave(p, "error") \/ Leave(p, "success"))
  <2> DEFINE n == proc[p].at + 1
             x == [proc[p] EXCEPT !.at = n]
  <2>1. Become(p, x) /\ writer' = writer /\ proc[p].at # 4
    BY <1>1, <1>5 DEF CreateTable
  <2>2. n \in 1..4 /\ n \in Ordinal
    BY <1>1, <2>1, EraFacts
  <2> HIDE DEF n
  <2>3. /\ x \in ProcRecords /\ SameSession(proc[p], x) /\ x.pc = "schema" /\ x.at = n
        /\ x.job = proc[p].job /\ x.cached = proc[p].cached /\ x.asOf = proc[p].asOf
    BY <1>1, <2>2 DEF ProcRecords, SameSession
  <2> HIDE DEF x
  <2>4. proc'[p] = x
    BY <2>1, <2>3, BecomeFacts DEF StagingInv
  <2>5. IsPlaced(p)' /\ Knows(p)'
    BY <1>1, <1>2, <2>2, <2>3, <2>4
       DEF IsPlaced, Knows, Registering, Started, Storing, SameSession
  <2>6. TablesTyped' /\ Grows
    BY <1>2, <1>3, <2>1 DEF StagingInv, TablesTyped, Grows
  <2> QED
    BY <1>2, <2>1, <2>3, <2>5, <2>6 DEF Moves
<1> QED
  BY <1>4, <1>5

\* version.
LEMMA VersionMoves ==
  ASSUME StagingInv, NEW p \in Processes, BuildVersion(p) \/ ShowVersion(p),
         UNCHANGED <<pdfs, files>>
  PROVE  Moves(p)
<1>1. CASE ShowVersion(p)
  <2>1. PICK o \in Outcomes : Leave(p, o)
    BY <1>1 DEF ShowVersion, Outcomes
  <2>2. TablesTyped' /\ UNCHANGED <<versions, layouts, today, pdfs>>
    BY <1>1, <2>1, LeaveTypes DEF ShowVersion, StagingInv, TablesTyped
  <2> QED
    BY <2>1, <2>2, LeaveTypes, LeavingMoves
<1>2. CASE BuildVersion(p)
  <2> DEFINE x == [proc[p] EXCEPT !.pc = "show", !.cached = knowledge, !.asOf = today]
  <2>1. proc[p].pc = "version" /\ Become(p, x) /\ proc[p] \in ProcRecords /\ Knows(p) /\ IsPlaced(p)
        /\ UNCHANGED <<schema, versions, layouts, writer, knowledge, manifest, today, starts, faults>>
    BY <1>2, ProcTypes DEF BuildVersion, At
  <2>2. "show" \in Location /\ knowledge \in Revision /\ today \in Day /\ today \in Nat
    BY DayFacts DEF Location, StagingInv, TablesTyped
  <2>3. /\ x \in ProcRecords /\ SameSession(proc[p], x) /\ x.pc = "show" /\ x.at = proc[p].at
        /\ x.job = proc[p].job /\ x.asOf = today
    BY <2>1, <2>2 DEF ProcRecords, SameSession
  <2> HIDE DEF x
  <2>4. proc'[p] = x
    BY <2>1, <2>3, BecomeFacts DEF StagingInv
  <2>5. IsPlaced(p)' /\ Knows(p)'
    BY <2>1, <2>2, <2>3, <2>4 DEF IsPlaced, Knows, Registering, Started, Storing, SameSession
  <2>6. TablesTyped' /\ Grows
    BY <2>1 DEF StagingInv, TablesTyped, Grows
  <2> QED
    BY <2>1, <2>3, <2>5, <2>6 DEF Moves
<1> QED
  BY <1>1, <1>2

\* The parser version is looked up, and recorded if it is new.
LEMMA ParserVersionMoves ==
  ASSUME StagingInv, NEW p \in Processes,
         GetParserVersion(p) \/ LoadSnapshot(p) \/ RecordParserVersion(p),
         UNCHANGED <<pdfs, files>>
  PROVE  Moves(p)
<1>1. /\ proc[p] \in ProcRecords /\ IsPlaced(p) /\ Knows(p)
      /\ "snapshot" \in Location /\ "record" \in Location /\ "load" \in Location
      /\ proc \in [Processes -> ProcRecords] /\ TablesTyped
  BY ProcTypes DEF Location, StagingInv
<1>2. CASE \E o \in Outcomes : Leave(p, o) /\ UNCHANGED <<schema, versions, layouts, knowledge, manifest, today, starts, faults>>
  <2>1. PICK o \in Outcomes : Leave(p, o)
    BY <1>2
  <2>2. TablesTyped'
    BY <1>1, <1>2, <2>1, LeaveTypes DEF TablesTyped
  <2> QED
    BY <1>2, <2>1, <2>2, LeaveTypes, LeavingMoves
<1>3. CASE GetParserVersion(p)
  <2>1. CASE ~Exists("parser_versions")
    BY <1>2, <1>3, <2>1 DEF GetParserVersion, Outcomes
  <2>2. CASE Exists("parser_versions")
    <3> DEFINE l == IF versions[proc[p].code] = 0 THEN "snapshot" ELSE "load"
               x == [proc[p] EXCEPT !.pc = l]
    <3>1. /\ proc[p].pc = "lookup" /\ Become(p, x)
          /\ UNCHANGED <<schema, versions, layouts, knowledge, manifest, today, writer, starts, faults>>
      BY <1>3, <2>2 DEF GetParserVersion, Goto, At
    <3>2. l \in Location /\ l \in {"snapshot", "load"} /\ (l = "load" => versions[proc[p].code] # 0)
      BY <1>1
    <3> HIDE DEF l
    <3>3. /\ x \in ProcRecords /\ SameSession(proc[p], x) /\ x.pc = l /\ x.at = proc[p].at
          /\ x.job = proc[p].job /\ x.cached = proc[p].cached /\ x.asOf = proc[p].asOf
      BY <1>1, <3>2 DEF ProcRecords, SameSession
    <3> HIDE DEF x
    <3>4. proc'[p] = x
      BY <1>1, <3>1, <3>3, BecomeFacts
    <3>5. IsPlaced(p)' /\ Knows(p)'
      BY <1>1, <3>1, <3>2, <3>3, <3>4 DEF IsPlaced, Knows, Registering, Started, Storing, SameSession
    <3>6. TablesTyped' /\ Grows
      BY <1>1, <3>1 DEF TablesTyped, Grows
    <3> QED
      BY <3>1, <3>2, <3>3, <3>5, <3>6 DEF Moves
  <2> QED
    BY <2>1, <2>2
<1>4. CASE LoadSnapshot(p)
  <2> DEFINE x == [proc[p] EXCEPT !.pc = "record", !.cached = knowledge, !.asOf = today]
  <2>1. /\ proc[p].pc = "snapshot" /\ Become(p, x)
        /\ UNCHANGED <<schema, versions, layouts, knowledge, manifest, today, writer, starts, faults>>
    BY <1>4 DEF LoadSnapshot, At
  <2>2. /\ knowledge \in Revision /\ knowledge # 0
        /\ today \in Day /\ today # 0 /\ today \in Nat
    BY <1>1, EraFacts, DayFacts DEF TablesTyped
  <2>3. /\ x \in ProcRecords /\ SameSession(proc[p], x) /\ x.pc = "record" /\ x.at = proc[p].at
        /\ x.job = proc[p].job /\ x.cached = knowledge /\ x.asOf = today
    BY <1>1, <2>2 DEF ProcRecords, SameSession
  <2> HIDE DEF x
  <2>4. proc'[p] = x
    BY <1>1, <2>1, <2>3, BecomeFacts
  <2>5. IsPlaced(p)' /\ Knows(p)'
    BY <1>1, <2>1, <2>2, <2>3, <2>4 DEF IsPlaced, Knows, Registering, Started, Storing, SameSession
  <2>6. TablesTyped' /\ Grows
    BY <1>1, <2>1 DEF TablesTyped, Grows
  <2> QED
    BY <2>1, <2>3, <2>5, <2>6 DEF Moves
<1>5. CASE RecordParserVersion(p)
  <2>1. CASE versions[proc[p].code] # 0
    BY <1>2, <1>5, <2>1 DEF RecordParserVersion, Outcomes
  <2>2. CASE versions[proc[p].code] = 0
    <3> DEFINE d == proc[p].asOf
               x == [proc[p] EXCEPT !.pc = "load", !.recorded = d]
               c == proc[p].code
               sum == Digest[<<proc[p].cached, d>>]
    <3>1. /\ proc[p].pc = "record" /\ Become(p, x)
          /\ versions' = [versions EXCEPT ![c] = sum]
          /\ UNCHANGED <<schema, layouts, knowledge, manifest, today, writer, starts, faults>>
      BY <1>5, <2>2 DEF RecordParserVersion, At, SnapshotChecksum
    <3>2. /\ c \in Codes /\ proc[p].cached \in Revision /\ proc[p].cached # 0
          /\ d \in Day /\ d # 0 /\ d \in Nat /\ d <= today
          /\ sum \in Checksums /\ sum # 0
      BY <1>1, <3>1, ProcTypes, DigestFacts, DayFacts DEF IsPlaced, Knows
    <3>3. /\ x \in ProcRecords /\ x.pc = "load" /\ x.at = proc[p].at /\ x.code = c
          /\ x.recorded = d /\ x.job = proc[p].job /\ x.cached = proc[p].cached /\ x.asOf = proc[p].asOf
      BY <1>1, <3>2 DEF ProcRecords
    <3> HIDE DEF x
    <3>4. proc'[p] = x
      BY <1>1, <3>1, <3>3, BecomeFacts
    <3>5. /\ versions' \in [Codes -> Checksums \union {0}] /\ versions'[c] = sum
          /\ \A k \in Codes : k # c => versions'[k] = versions[k]
      BY <1>1, <3>1, <3>2 DEF TablesTyped
    <3>6. IsPlaced(p)' /\ Knows(p)'
      BY <1>1, <3>1, <3>2, <3>3, <3>4, <3>5 DEF IsPlaced, Knows, Registering, Started, Storing
    <3>7. TablesTyped' /\ Grows
      BY <1>1, <2>2, <3>1, <3>5 DEF TablesTyped, Grows
    <3> QED
      BY <3>1, <3>3, <3>6, <3>7 DEF Moves
  <2> QED
    BY <2>1, <2>2
<1> QED
  BY <1>3, <1>4, <1>5

\* The layouts are loaded and registered.
LEMMA LayoutMoves ==
  ASSUME StagingInv, NEW p \in Processes,
         LoadDefinitions(p) \/ FindLayout(p) \/ InsertLayout(p) \/ CommitLayouts(p),
         UNCHANGED <<pdfs, files>>
  PROVE  Moves(p)
<1>1. /\ proc[p] \in ProcRecords /\ IsPlaced(p) /\ Knows(p)
      /\ "sync" \in Location /\ "insert" \in Location /\ "body" \in Location
      /\ proc \in [Processes -> ProcRecords] /\ TablesTyped
  BY ProcTypes DEF Location, Registering, Started, StagingInv
<1>2. CASE LoadDefinitions(p)
  <2> DEFINE x == [proc[p] EXCEPT !.pc = "sync", !.loaded = manifest]
  <2>1. /\ proc[p].pc = "load" /\ Become(p, x)
        /\ UNCHANGED <<schema, versions, layouts, knowledge, manifest, today, writer, starts, faults>>
    BY <1>2 DEF LoadDefinitions, At
  <2>2. manifest \in [Era -> Revision] /\ manifest \in Loads
    BY <1>1 DEF TablesTyped, Loads
  <2>3. /\ x \in ProcRecords /\ x.pc = "sync" /\ x.at = proc[p].at /\ x.loaded = manifest
        /\ x.job = proc[p].job /\ x.cached = proc[p].cached /\ x.asOf = proc[p].asOf
        /\ x.code = proc[p].code
        /\ x.recorded = proc[p].recorded
    BY <1>1, <2>2 DEF ProcRecords
  <2> HIDE DEF x
  <2>4. proc'[p] = x /\ proc[p].at = 1
    BY <1>1, <2>1, <2>3, BecomeFacts DEF IsPlaced
  <2>5. \A n \in DOMAIN Eras : ~(n < 1)
    BY EraFacts
  <2>6. IsPlaced(p)' /\ Knows(p)'
    BY <1>1, <2>1, <2>2, <2>3, <2>4, <2>5, EraFacts
       DEF IsPlaced, Knows, Registering, Started, Storing
  <2>7. TablesTyped' /\ Grows
    BY <1>1, <2>1 DEF TablesTyped, Grows
  <2> QED
    BY <2>1, <2>3, <2>6, <2>7 DEF Moves
<1>3. CASE FindLayout(p)
  <2>1. PICK n \in DOMAIN Eras :
          /\ n >= proc[p].at
          /\ \A m \in proc[p].at..(n - 1) : Registered(p, m)
          /\ Become(p, [proc[p] EXCEPT !.pc = "insert", !.at = n])
    BY <1>3 DEF FindLayout
  <2> DEFINE x == [proc[p] EXCEPT !.pc = "insert", !.at = n]
  <2>2. /\ proc[p].pc = "sync"
        /\ UNCHANGED <<schema, versions, layouts, knowledge, manifest, today, writer, starts, faults>>
    BY <1>3 DEF FindLayout, At
  <2>3. n \in Ordinal /\ n \in Nat /\ n <= Len(Eras)
    BY EraFacts
  <2>4. /\ x \in ProcRecords /\ SameSession(proc[p], x) /\ x.pc = "insert" /\ x.at = n
        /\ x.job = proc[p].job /\ x.cached = proc[p].cached /\ x.asOf = proc[p].asOf
        /\ x.pending = proc[p].pending
    BY <1>1, <2>3 DEF ProcRecords, SameSession
  <2>5. Become(p, x)
    BY <2>1
  <2> HIDE DEF x
  <2>6. proc'[p] = x
    BY <1>1, <2>4, <2>5, BecomeFacts
  <2>7. \A m \in DOMAIN Eras : m < n => Registered(p, m)
    <3> SUFFICES ASSUME NEW m \in DOMAIN Eras, m < n PROVE Registered(p, m)
      OBVIOUS
    <3>1. m \in Nat /\ proc[p].at \in Nat
      BY EraFacts, ProcTypes
    <3>2. CASE m < proc[p].at
      BY <1>1, <2>2, <3>2 DEF Knows, Registering
    <3>3. CASE m >= proc[p].at
      BY <2>1, <2>3, <3>1, <3>3
    <3> QED
      BY <3>1, <3>2, <3>3
  <2>8. \A m \in DOMAIN Eras : m < n => Registered(p, m)'
    BY <2>2, <2>4, <2>6, <2>7 DEF Registered, SameSession
  <2>9. IsPlaced(p)' /\ Knows(p)'
    BY <1>1, <2>2, <2>3, <2>4, <2>6, <2>8, EraFacts
       DEF IsPlaced, Knows, Registering, Started, Storing, SameSession
  <2>10. TablesTyped' /\ Grows
    BY <1>1, <2>2 DEF TablesTyped, Grows
  <2> QED
    BY <2>2, <2>4, <2>5, <2>9, <2>10 DEF Moves
<1>4. CASE InsertLayout(p)
  <2> DEFINE row == Row(Eras[proc[p].at], proc[p].loaded[Eras[proc[p].at]])
             n == proc[p].at + 1
             x == [proc[p] EXCEPT !.pc = "sync", !.at = n, !.pending = @ \union {row}]
  <2>1. /\ proc[p].pc = "insert"
        /\ UNCHANGED <<schema, versions, layouts, knowledge, manifest, today, starts, faults>>
    BY <1>4 DEF InsertLayout, At
  <2>2. CASE row \in layouts
    <3>1. Leave(p, "error") /\ "error" \in Outcomes
      BY <1>4, <2>2 DEF InsertLayout, Outcomes
    <3>2. TablesTyped'
      BY <1>1, <2>1, <3>1, LeaveTypes DEF TablesTyped
    <3> QED
      BY <2>1, <3>1, <3>2, LeaveTypes, LeavingMoves
  <2>3. CASE row \notin layouts
    <3>1. Become(p, x) /\ writer' = p
      BY <1>4, <2>3 DEF InsertLayout
    <3>2. /\ proc[p].at \in DOMAIN Eras /\ proc[p].loaded \in [Era -> Revision]
          /\ Eras[proc[p].at] \in Era
      BY <1>1, <2>1, EraFacts DEF IsPlaced, Registering
    <3>3. row \in LayoutRows
      BY <3>2 DEF Row, LayoutRows, Era, Revision
    <3>4. n \in Ordinal /\ n \in Nat /\ n <= Len(Eras) + 1
      BY <3>2, EraFacts
    <3> HIDE DEF row, n
    <3>5. /\ x \in ProcRecords /\ SameSession(proc[p], x) /\ x.pc = "sync" /\ x.at = n
          /\ x.job = proc[p].job /\ x.cached = proc[p].cached /\ x.asOf = proc[p].asOf
          /\ x.pending = proc[p].pending \union {row}
      BY <1>1, <3>3, <3>4 DEF ProcRecords, SameSession
    <3> HIDE DEF x
    <3>6. proc'[p] = x
      BY <1>1, <3>1, <3>5, BecomeFacts
    <3>7. \A m \in DOMAIN Eras : m < n => Registered(p, m)'
      <4> SUFFICES ASSUME NEW m \in DOMAIN Eras, m < n PROVE Registered(p, m)'
        OBVIOUS
      <4>1. CASE m < proc[p].at
        BY <1>1, <2>1, <3>5, <3>6, <4>1 DEF Knows, Registering, Registered, SameSession
      <4>2. CASE ~(m < proc[p].at)
        <5>1. m = proc[p].at
          BY <3>2, <4>2, EraFacts DEF n
        <5> QED
          BY <3>5, <3>6, <5>1 DEF row, Registered, SameSession
      <4> QED
        BY <4>1, <4>2
    <3>8. IsPlaced(p)' /\ Knows(p)'
      BY <1>1, <2>1, <3>2, <3>4, <3>5, <3>6, <3>7
         DEF IsPlaced, Knows, Registering, Started, Storing, SameSession
    <3>9. TablesTyped' /\ Grows
      BY <1>1, <2>1, <3>1 DEF TablesTyped, Grows
    <3> QED
      BY <2>1, <3>1, <3>5, <3>8, <3>9 DEF Moves
  <2> QED
    BY <2>2, <2>3
<1>5. CASE CommitLayouts(p)
  <2> DEFINE x == [proc[p] EXCEPT !.pc = "body", !.pending = {}]
  <2>1. /\ proc[p].pc = "sync" /\ Become(p, x)
        /\ \A n \in proc[p].at..Len(Eras) : Registered(p, n)
        /\ layouts' = layouts \union proc[p].pending
        /\ writer' = IF writer = p THEN Nobody ELSE writer
        /\ UNCHANGED <<schema, versions, knowledge, manifest, today, starts, faults>>
    BY <1>5 DEF CommitLayouts, At
  <2>2. /\ x \in ProcRecords /\ SameSession(proc[p], x) /\ x.pc = "body"
        /\ x.job = proc[p].job /\ x.cached = proc[p].cached /\ x.asOf = proc[p].asOf
    BY <1>1 DEF ProcRecords, SameSession
  <2> HIDE DEF x
  <2>3. proc'[p] = x
    BY <1>1, <2>1, <2>2, BecomeFacts
  <2>4. \A n \in DOMAIN Eras : Row(Eras[n], proc[p].loaded[Eras[n]]) \in layouts'
    <3> SUFFICES ASSUME NEW n \in DOMAIN Eras PROVE Registered(p, n)
      BY <2>1 DEF Registered
    <3>1. n \in Nat /\ proc[p].at \in Nat /\ n <= Len(Eras) /\ Len(Eras) \in Nat
      BY EraFacts, ProcTypes
    <3>2. CASE n < proc[p].at
      BY <1>1, <2>1, <3>2 DEF Knows, Registering
    <3>3. CASE n >= proc[p].at
      BY <2>1, <3>1, <3>3
    <3> QED
      BY <3>1, <3>2, <3>3
  <2>5. RegistrationIsWhole'
    BY <2>4 DEF RegistrationIsWhole, Row
  <2>6. IsPlaced(p)' /\ Knows(p)'
    BY <1>1, <2>1, <2>2, <2>3, <2>4
       DEF IsPlaced, Knows, Registering, Started, Storing, SameSession
  <2>7. TablesTyped' /\ Grows
    <3>1. proc[p].pending \in SUBSET LayoutRows
      BY ProcTypes
    <3> QED
      BY <1>1, <2>1, <3>1 DEF TablesTyped, Grows
  <2> QED
    BY <2>1, <2>2, <2>5, <2>6, <2>7 DEF Moves
<1> QED
  BY <1>2, <1>3, <1>4, <1>5

\* A command is refused, fails or is killed.
LEMMA FailingMoves ==
  ASSUME StagingInv, NEW p \in Processes, Refused(p) \/ Fault(p), UNCHANGED <<pdfs, files>>
  PROVE  Moves(p)
<1>1. /\ Become(p, Ended("error")) /\ "error" \in Outcomes
      /\ writer' \in Processes \union {Nobody}
      /\ UNCHANGED <<schema, versions, layouts, knowledge, manifest, today>>
  BY LeaveTypes DEF Refused, OptionIsMissing, DateIsMalformed, Refuse, Fault, FileIsUnusable,
     LockTimesOut, Kill, Outcomes, StagingInv, TablesTyped
<1>2. starts' \in 0..MaxStarts /\ faults' \in 0..MaxFaults
  BY DEF Refused, OptionIsMissing, DateIsMalformed, Refuse, Fault, FileIsUnusable,
         LockTimesOut, Kill, StagingInv, TablesTyped
<1>3. TablesTyped'
  BY <1>1, <1>2 DEF StagingInv, TablesTyped
<1> QED
  BY <1>1, <1>3, LeavingMoves

\* The rows a process may add.
LEMMA RowFacts ==
  ASSUME NEW d \in Documents, NEW path \in Paths
  PROVE  Staged(d, path) \in PdfRows
BY DEF Staged, PdfRows, Contents

\* What a process has in its hands while it fetches.
LEMMA FetchFacts ==
  ASSUME StagingInv, NEW p \in Processes, proc[p].pc \in Started
  PROVE  /\ proc[p].job.items # <<>> =>
                /\ InHand(p) \in Documents /\ Place[InHand(p)] \in SUBSET Paths
                /\ NextItem(p) \in Jobs /\ NextItem(p).batch = proc[p].job.batch
         /\ proc[p].pc \in Storing =>
                proc[p].job.items # <<>> /\ proc[p].job.dest \in Place[InHand(p)]
         /\ proc[p].job.batch \subseteq DOMAIN pdfs
<1>1. /\ proc[p].job \in Jobs /\ proc[p].job.items \in Seq(Documents)
      /\ IsPlaced(p) /\ Knows(p)
  BY ProcTypes
<1>2. ASSUME proc[p].job.items # <<>>
      PROVE  /\ InHand(p) \in Documents /\ Place[InHand(p)] \in SUBSET Paths
             /\ NextItem(p) \in Jobs /\ NextItem(p).batch = proc[p].job.batch
  <2>1. /\ InHand(p) \in Documents /\ Tail(proc[p].job.items) \in Seq(Documents)
    BY <1>1, <1>2 DEF InHand
  <2>2. NextItem(p) \in Jobs /\ NextItem(p).batch = proc[p].job.batch
    BY <1>1, <2>1 DEF NextItem, Jobs
  <2> QED
    BY <2>1, <2>2, PlaceType
<1> QED
  BY <1>1, <1>2 DEF IsPlaced, Knows, InHand

\* A step of a command that goes on, to l with the work j.
LEMMA ContinuingMoves ==
  ASSUME StagingInv, NEW p \in Processes, proc[p].pc \in Started,
         NEW l \in Started, NEW j \in Jobs, Continue(p, l, j),
         TablesTyped', DOMAIN pdfs \subseteq DOMAIN pdfs', UNCHANGED <<versions, layouts, today>>,
         l \in Storing => j.items # <<>> /\ j.dest \in Place[Head(j.items)],
         l = "detect" => j.batch # {},
         l = "add" => Fill(p),
         j.batch \subseteq DOMAIN pdfs'
  PROVE  Moves(p)
<1> DEFINE x == [proc[p] EXCEPT !.pc = l, !.job = j]
<1>1. Become(p, x) /\ proc[p] \in ProcRecords /\ l \in Location
  BY ProcTypes DEF Continue, Location
<1>2. /\ x \in ProcRecords /\ SameSession(proc[p], x) /\ x.pc = l /\ x.cached = proc[p].cached /\ x.asOf = proc[p].asOf
      /\ x.job = j
  BY <1>1 DEF ProcRecords, SameSession
<1> HIDE DEF x
<1>3. Grows
  BY DEF Grows
<1> QED
  BY <1>1, <1>2, <1>3, GoingMoves

\* Where a command goes on with the work it has.
LEMMA GotoContinues ==
  ASSUME StagingInv, NEW p \in Processes, NEW l \in Location, Goto(p, l)
  PROVE  Continue(p, l, proc[p].job)
<1>1. proc[p] \in ProcRecords
  BY ProcTypes
<1>2. [proc[p] EXCEPT !.pc = l] = [proc[p] EXCEPT !.pc = l, !.job = proc[p].job]
  BY <1>1 DEF ProcRecords
<1> QED
  BY <1>2 DEF Goto, Continue

\* Documents are fetched.
LEMMA FetchMoves ==
  ASSUME StagingInv, NEW p \in Processes,
         \/ Fetch(p) \/ FetchFails(p) \/ FetchBreaks(p) \/ GetByHash(p)
         \/ Truncate(p) \/ Fill(p) \/ WriteFails(p) \/ AddPdf(p) \/ EndFetchStage(p)
  PROVE  Moves(p)
<1>1. TablesTyped /\ proc[p] \in ProcRecords /\ proc[p].job \in Jobs /\ "error" \in Outcomes
      /\ "success" \in Outcomes /\ IsPlaced(p)
  BY ProcTypes DEF StagingInv, Outcomes
<1>2. /\ proc[p].pc \in Started /\ "body" \in Started /\ "body" \in Location
      /\ Storing \subseteq Started /\ Storing \subseteq Location
      /\ "check" \in Storing /\ "write" \in Storing /\ "fill" \in Storing /\ "add" \in Storing
      /\ "body" \notin Storing /\ "detect" \notin Storing
  BY DEF Fetch, FetchFails, FetchBreaks, GetByHash, Truncate, Fill, WriteFails, AddPdf,
         EndFetchStage, At, Started, Storing, Location
<1>3. /\ proc[p].job.items # <<>> =>
             /\ InHand(p) \in Documents /\ Place[InHand(p)] \in SUBSET Paths
             /\ NextItem(p) \in Jobs /\ NextItem(p).batch = proc[p].job.batch
      /\ proc[p].pc \in Storing =>
             proc[p].job.items # <<>> /\ proc[p].job.dest \in Place[InHand(p)]
      /\ proc[p].job.batch \subseteq DOMAIN pdfs
  BY <1>2, FetchFacts
\* A command that ends.
<1>4. ASSUME NEW o \in Outcomes, Leave(p, o), faults' \in 0..MaxFaults,
             UNCHANGED <<schema, versions, layouts, knowledge, manifest, today, starts, pdfs, files>>
      PROVE  Moves(p)
  <2>1. TablesTyped'
    BY <1>1, <1>4, LeaveTypes DEF TablesTyped
  <2> QED
    BY <1>4, <2>1, LeaveTypes, LeavingMoves
\* A command that goes on with the next document.
<1>5. ASSUME Continue(p, "body", NextItem(p)), proc[p].job.items # <<>>,
             TablesTyped', DOMAIN pdfs \subseteq DOMAIN pdfs', UNCHANGED <<versions, layouts, today>>
      PROVE  Moves(p)
  BY <1>2, <1>3, <1>5, ContinuingMoves
\* A command that goes on with this one.
<1>6. ASSUME NEW l \in Storing, Goto(p, l), proc[p].pc \in Storing,
             l = "add" => Fill(p),
             TablesTyped', UNCHANGED <<versions, layouts, today, pdfs>>
      PROVE  Moves(p)
  <2>1. Continue(p, l, proc[p].job) /\ l \in Started /\ l # "detect"
    BY <1>2, <1>6, GotoContinues
  <2> QED
    BY <1>1, <1>2, <1>3, <1>6, <2>1, ContinuingMoves DEF InHand
<1>7. UNCHANGED Others \/ WriteFails(p)
  BY DEF Fetch, FetchFails, FetchBreaks, GetByHash, Truncate, Fill, WriteFails, AddPdf,
         EndFetchStage
<1>8. CASE Fetch(p)
  <2>1. PICK path \in Place[InHand(p)] :
           Continue(p, "check", [proc[p].job EXCEPT !.dest = path])
    BY <1>8 DEF Fetch
  <2> DEFINE j == [proc[p].job EXCEPT !.dest = path]
  <2>2. proc[p].job.items # <<>> /\ path \in Paths /\ UNCHANGED <<Others, writer, pdfs, files>>
    BY <1>3, <1>8 DEF Fetch, Fetching
  <2>3. /\ j \in Jobs /\ j.items = proc[p].job.items /\ j.batch = proc[p].job.batch
        /\ j.dest = path
    BY <1>1, <2>2 DEF Jobs
  <2>4. Continue(p, "check", j)
    BY <2>1
  <2> HIDE DEF j
  <2>5. TablesTyped' /\ UNCHANGED <<versions, layouts, today, pdfs>>
    BY <1>1, <2>2 DEF TablesTyped, Others
  <2> QED
    BY <1>2, <1>3, <2>2, <2>3, <2>4, <2>5, ContinuingMoves DEF InHand
<1>9. CASE FetchFails(p)
  <2>1. proc[p].job.items # <<>> /\ UNCHANGED <<Others, pdfs, files>>
    BY <1>9 DEF FetchFails, Fetching
  <2>2. CASE Collects(p)
    <3>1. Continue(p, "body", NextItem(p)) /\ UNCHANGED writer
      BY <1>9, <2>2 DEF FetchFails
    <3>2. TablesTyped'
      BY <1>1, <2>1, <3>1 DEF TablesTyped, Others
    <3> QED
      BY <1>5, <2>1, <3>1, <3>2 DEF Others
  <2>3. CASE ~Collects(p)
    BY <1>1, <1>4, <1>9, <2>1, <2>3 DEF FetchFails, Others, TablesTyped
  <2> QED
    BY <2>2, <2>3
<1>10. CASE FetchBreaks(p) \/ EndFetchStage(p) \/ WriteFails(p)
  <2>1. /\ Leave(p, "error") \/ Leave(p, "success")
        /\ UNCHANGED <<schema, versions, layouts, knowledge, manifest, today, starts, pdfs, files>>
    BY <1>10 DEF FetchBreaks, EndFetchStage, WriteFails, Others
  <2>2. faults' \in 0..MaxFaults
    BY <1>1, <1>10 DEF FetchBreaks, EndFetchStage, WriteFails, Others, TablesTyped
  <2> QED
    BY <1>1, <1>4, <2>1, <2>2
<1>11. CASE GetByHash(p)
  <2>1. /\ proc[p].pc = "check" /\ UNCHANGED <<Others, writer, pdfs, files>>
        /\ Continue(p, "body", NextItem(p)) \/ Goto(p, "write")
    BY <1>11 DEF GetByHash, At
  <2>2. TablesTyped' /\ UNCHANGED <<versions, layouts, today, pdfs>>
    BY <1>1, <2>1 DEF TablesTyped, Others
  <2> QED
    BY <1>2, <1>3, <1>5, <1>6, <2>1, <2>2
<1>12. CASE Truncate(p) \/ Fill(p)
  <2>1. /\ proc[p].pc \in {"write", "fill"} /\ UNCHANGED <<Others, writer, pdfs>>
        /\ Goto(p, "fill") \/ (Goto(p, "add") /\ Fill(p))
        /\ \E c \in {Torn, InHand(p)} : files' = [files EXCEPT ![proc[p].job.dest] = c]
    BY <1>12 DEF Truncate, Fill, At
  <2>2. proc[p].pc \in Storing /\ {Torn, InHand(p)} \subseteq Contents
    BY <1>2, <1>3, <2>1 DEF Contents
  <2>3. files' \in [Paths -> Contents]
    BY <1>1, <2>1, <2>2 DEF TablesTyped
  <2>4. TablesTyped' /\ UNCHANGED <<versions, layouts, today, pdfs>>
    BY <1>1, <2>1, <2>3 DEF TablesTyped, Others
  <2> QED
    BY <1>2, <1>6, <2>1, <2>2, <2>4
<1>13. CASE AddPdf(p)
  <2>1. proc[p].pc = "add" /\ UNCHANGED <<Others, files>>
    BY <1>13 DEF AddPdf, At
  <2>2. CASE InTable(InHand(p))
    <3>1. Leave(p, "error") /\ UNCHANGED pdfs
      BY <1>13, <2>2 DEF AddPdf
    <3> QED
      BY <1>1, <1>4, <2>1, <3>1 DEF Others, TablesTyped
  <2>3. CASE ~InTable(InHand(p))
    <3> DEFINE row == Staged(InHand(p), proc[p].job.dest)
    <3>1. /\ pdfs' = Append(pdfs, row) /\ Continue(p, "body", NextItem(p)) /\ UNCHANGED writer
      BY <1>13, <2>3 DEF AddPdf
    <3>2. /\ proc[p].job.items # <<>> /\ InHand(p) \in Documents
          /\ proc[p].job.dest \in Place[InHand(p)] /\ proc[p].job.dest \in Paths
      BY <1>2, <1>3, <2>1
    <3>3. row \in PdfRows /\ row.path \in Place[row.doc]
      BY <3>2, RowFacts DEF Staged
    <3> HIDE DEF row
    <3>4. /\ pdfs' \in Seq(PdfRows) /\ DOMAIN pdfs \subseteq DOMAIN pdfs'
          /\ \A id \in DOMAIN pdfs' : pdfs'[id].path \in Place[pdfs'[id].doc]
      <4>1. pdfs \in Seq(PdfRows)
        BY <1>1 DEF TablesTyped
      <4>2. \A id \in DOMAIN pdfs' : pdfs'[id] = row \/ (id \in DOMAIN pdfs /\ pdfs'[id] = pdfs[id])
        BY <3>1, <4>1
      <4> QED
        BY <1>1, <3>1, <3>3, <4>1, <4>2 DEF TablesTyped
    <3>5. TablesTyped'
      BY <1>1, <2>1, <3>1, <3>4 DEF TablesTyped, Others
    <3> QED
      BY <1>5, <2>1, <3>1, <3>2, <3>4, <3>5 DEF Others
  <2> QED
    BY <2>2, <2>3
<1> QED
  BY <1>8, <1>9, <1>10, <1>11, <1>12, <1>13

\* A set of numbers that is not empty has a lowest one.
LEMMA Lowest ==
  ASSUME NEW S \in SUBSET Nat, S # {}
  PROVE  Min(S) \in S
<1>1. OpToRel(<, Nat) = {ss \in Nat \X Nat : ss[1] < ss[2]}
  BY Zenon DEF OpToRel
<1>2. IsWellFoundedOn({ss \in Nat \X Nat : ss[1] < ss[2]}, Nat)
  BY Zenon, <1>1, NatLessThanWellFounded
<1>3. PICK m \in S : \A n \in S : <<n, m>> \notin {ss \in Nat \X Nat : ss[1] < ss[2]}
  BY <1>2, WFMin
<1>4. \A n \in S : m <= n
  <2> TAKE n \in S
  <2>1. <<n, m>> \in Nat \X Nat /\ <<n, m>>[1] = n /\ <<n, m>>[2] = m /\ n \in Nat /\ m \in Nat
    OBVIOUS
  <2>2. ~(n < m)
    BY <1>3, <2>1
  <2> QED
    BY <2>1, <2>2
<1> QED
  BY <1>4 DEF Min

\* The pipeline works on its batch, and the other commands do their work.
LEMMA BatchMoves ==
  ASSUME StagingInv, NEW p \in Processes,
         ListPending(p) \/ ReadPdf(p) \/ Analyze(p) \/ Detect(p) \/ EndBatch(p) \/ Rest(p)
  PROVE  Moves(p)
<1>1. /\ TablesTyped /\ proc[p] \in ProcRecords /\ proc[p].job \in Jobs
      /\ "error" \in Outcomes /\ "success" \in Outcomes /\ IsPlaced(p) /\ Knows(p)
      /\ UNCHANGED Others
  BY ProcTypes DEF StagingInv, Outcomes, ListPending, ReadPdf, Analyze, Detect, EndBatch, Rest
<1>2. /\ proc[p].pc \in Started /\ "batch" \in Started /\ "detect" \in Started
      /\ "batch" \in Location /\ "detect" \in Location
      /\ "batch" \notin Storing /\ "detect" \notin Storing
  BY DEF ListPending, ReadPdf, Analyze, Detect, EndBatch, Rest, At, Started, Storing, Location
<1>3. /\ proc[p].job.batch \subseteq DOMAIN pdfs /\ proc[p].job.batch \in SUBSET Nat
      /\ pdfs \in Seq(PdfRows) /\ DOMAIN pdfs \subseteq Nat
  BY <1>1, <1>2, FetchFacts DEF TablesTyped, Jobs
\* A command that ends.
<1>4. ASSUME NEW o \in Outcomes, Leave(p, o), UNCHANGED <<pdfs, files>>
      PROVE  Moves(p)
  <2>1. TablesTyped'
    BY <1>1, <1>4, LeaveTypes DEF TablesTyped, Others
  <2> QED
    BY <1>1, <1>4, <2>1, LeaveTypes, LeavingMoves DEF Others
\* A command that goes on with the documents S.
<1>5. ASSUME NEW S \in SUBSET DOMAIN pdfs, TablesTyped', UNCHANGED <<versions, layouts, today>>,
             DOMAIN pdfs \subseteq DOMAIN pdfs',
             Continue(p, "batch", [proc[p].job EXCEPT !.batch = S])
      PROVE  Moves(p)
  <2> DEFINE j == [proc[p].job EXCEPT !.batch = S]
  <2>1. j \in Jobs /\ j.batch = S
    BY <1>1, <1>3 DEF Jobs
  <2>2. Continue(p, "batch", j)
    BY <1>5
  <2> HIDE DEF j
  <2> QED
    BY <1>2, <1>5, <2>1, <2>2, ContinuingMoves
<1>6. CASE ListPending(p)
  <2>1. CASE Leave(p, "success")
    BY <1>1, <1>4, <1>6, <2>1 DEF ListPending
  <2>2. CASE ~Leave(p, "success")
    <3>1. /\ Continue(p, "batch", [proc[p].job EXCEPT !.batch = Fetched])
          /\ UNCHANGED <<writer, pdfs, files>>
      BY <1>6, <2>2 DEF ListPending
    <3>2. Fetched \in SUBSET DOMAIN pdfs
      BY DEF Fetched
    <3>3. TablesTyped'
      BY <1>1, <3>1 DEF TablesTyped, Others
    <3> QED
      BY <1>1, <1>5, <3>1, <3>2, <3>3 DEF Others
  <2> QED
    BY <2>1, <2>2
<1>7. CASE ReadPdf(p)
  <2>1. CASE Leave(p, "error")
    BY <1>1, <1>4, <1>7, <2>1 DEF ReadPdf
  <2>2. CASE ~Leave(p, "error")
    <3>1. PICK id \in DOMAIN pdfs : Continue(p, "batch", [proc[p].job EXCEPT !.batch = {id}])
      BY <1>7, <2>2 DEF ReadPdf
    <3>2. UNCHANGED <<writer, pdfs, files>>
      BY <1>7, <2>2 DEF ReadPdf
    <3>3. TablesTyped'
      BY <1>1, <3>2 DEF TablesTyped, Others
    <3> QED
      BY <1>1, <1>5, <3>1, <3>2, <3>3 DEF Others
  <2> QED
    BY <2>1, <2>2
<1>8. CASE Analyze(p)
  <2> DEFINE k == IF proc[p].cached = 0 THEN knowledge ELSE proc[p].cached
             x == [proc[p] EXCEPT !.pc = "detect", !.asOf = today, !.cached = k]
  <2>1. /\ Become(p, x) /\ proc[p].job.batch # {} /\ UNCHANGED <<writer, pdfs, files>>
    BY <1>8 DEF Analyze
  <2>2. /\ k \in Revision \union {0} /\ (k = proc[p].cached \/ proc[p].cached = 0)
        /\ today \in Day
    BY <1>1, ProcTypes DEF TablesTyped
  <2> HIDE DEF k
  <2>3. /\ x \in ProcRecords /\ SameSession(proc[p], x) /\ x.pc = "detect" /\ x.cached = k
        /\ x.job = proc[p].job /\ x.asOf = today
    BY <1>1, <1>2, <2>2 DEF ProcRecords, SameSession
  <2> HIDE DEF x
  <2>4. TablesTyped' /\ Grows /\ layouts' = layouts
    BY <1>1, <2>1 DEF TablesTyped, Grows, Others
  <2> QED
    BY <1>2, <1>3, <2>1, <2>2, <2>3, <2>4, GoingMoves
<1>9. CASE Detect(p)
  <2> DEFINE id == Min(proc[p].job.batch)
  <2>1. proc[p].pc = "detect" /\ UNCHANGED <<writer, files>>
        /\ Continue(p, "batch", [proc[p].job EXCEPT !.batch = @ \ {id}])
    BY <1>9 DEF Detect, At
  <2>2. PICK st \in {"validated", "failed"} :
          pdfs' = [pdfs EXCEPT ![id].status = st, ![id].source = files[pdfs[id].path]]
    BY <1>9 DEF Detect
  <2>3. id \in DOMAIN pdfs
    <3>1. proc[p].job.batch # {}
      BY <1>1, <2>1 DEF IsPlaced
    <3> QED
      BY <1>3, <3>1, Lowest
  <2> DEFINE row == [pdfs[id] EXCEPT !.status = st, !.source = files[pdfs[id].path]]
             S == proc[p].job.batch \ {id}
  <2>4. pdfs' = [pdfs EXCEPT ![id] = row]
    BY <1>3, <2>2, <2>3 DEF PdfRows
  <2>5. row \in PdfRows /\ row.doc = pdfs[id].doc /\ row.path = pdfs[id].path
    <3>1. pdfs[id] \in PdfRows
      BY <1>3, <2>3
    <3>2. pdfs[id].path \in Paths
      BY <3>1 DEF PdfRows
    <3>3. files[pdfs[id].path] \in Contents
      BY <1>1, <3>2 DEF TablesTyped
    <3> QED
      BY <3>1, <3>3 DEF PdfRows
  <2>6. S \in SUBSET DOMAIN pdfs
    BY <1>3
  <2>7. Continue(p, "batch", [proc[p].job EXCEPT !.batch = S])
    BY <2>1
  <2> HIDE DEF row, S, id
  <2>8. /\ pdfs' \in Seq(PdfRows) /\ DOMAIN pdfs \subseteq DOMAIN pdfs'
        /\ \A i \in DOMAIN pdfs' : pdfs'[i].path \in Place[pdfs'[i].doc]
    <3>1. \A i \in DOMAIN pdfs' : /\ i \in DOMAIN pdfs
                                  /\ pdfs'[i].path = pdfs[i].path /\ pdfs'[i].doc = pdfs[i].doc
      BY <1>3, <2>3, <2>4, <2>5
    <3> QED
      BY <1>1, <1>3, <2>3, <2>4, <2>5, <3>1 DEF TablesTyped
  <2>9. TablesTyped'
    BY <1>1, <2>1, <2>8 DEF TablesTyped, Others
  <2> QED
    BY <1>1, <1>5, <2>6, <2>7, <2>8, <2>9 DEF Others
<1>10. CASE EndBatch(p) \/ Rest(p)
  BY <1>1, <1>4, <1>10 DEF EndBatch, Rest
<1> QED
  BY <1>6, <1>7, <1>8, <1>9, <1>10

\* The files of the repository are changed a bounded number of times.
LEMMA EditFacts ==
  ASSUME TablesTyped, Edits < MaxEdits
  PROVE  /\ knowledge + 1 \in Revision
         /\ \A e \in Era : manifest[e] + 1 \in Revision
<1> DEFINE Done == {x \in (DOMAIN manifest) \X (2..(MaxEdits + 1)) : x[2] <= manifest[x[1]]}
<1>1. knowledge \in 1..(MaxEdits + 1) /\ DOMAIN manifest = Era /\ MaxEdits \in Nat
      /\ \A e \in Era : manifest[e] \in 1..(MaxEdits + 1)
  BY DEF TablesTyped, Revision
<1>2. IsFiniteSet(Done) /\ Cardinality(Done) \in Nat
  <2>1. IsFiniteSet(Era)
    <3>1. IsFiniteSet(DOMAIN Eras)
      BY EraFacts, FS_Interval
    <3>2. Eras \in Surjection(DOMAIN Eras, Era)
      BY EraFacts, ErasType DEF Surjection, Era
    <3> QED
      BY <3>1, <3>2, FS_Surjection
  <2>2. IsFiniteSet(2..(MaxEdits + 1))
    BY <1>1, FS_Interval
  <2>3. IsFiniteSet((DOMAIN manifest) \X (2..(MaxEdits + 1)))
    BY <1>1, <2>1, <2>2, FS_Product
  <2>4. Done \in SUBSET ((DOMAIN manifest) \X (2..(MaxEdits + 1)))
    OBVIOUS
  <2>5. IsFiniteSet(Done)
    BY <2>3, <2>4, FS_Subset
  <2> QED
    BY <2>5, FS_CardinalityType
<1>3. knowledge - 1 + Cardinality(Done) < MaxEdits
  BY DEF Edits
<1>4. knowledge + 1 \in Revision
  BY <1>1, <1>2, <1>3 DEF Revision
<1>5. ASSUME NEW e \in Era PROVE manifest[e] + 1 \in Revision
  <2> SUFFICES ASSUME manifest[e] = MaxEdits + 1 PROVE FALSE
    BY <1>1 DEF Revision
  <2> DEFINE Own == {e} \X (2..(MaxEdits + 1))
  <2>1. Own \subseteq Done
    BY <1>1
  <2>2. Cardinality(Own) <= Cardinality(Done)
    BY <1>2, <2>1, FS_Subset
  <2>3. Cardinality(Own) = MaxEdits
    <3>1. IsFiniteSet(2..(MaxEdits + 1)) /\ Cardinality(2..(MaxEdits + 1)) = MaxEdits
      BY <1>1, FS_Interval
    <3>2. IsFiniteSet({e}) /\ Cardinality({e}) = 1
      BY FS_Singleton
    <3>3. Cardinality(Own) = Cardinality({e}) * Cardinality(2..(MaxEdits + 1))
      BY <3>1, <3>2, FS_Product
    <3> QED
      BY <1>1, <3>1, <3>2, <3>3
  <2> HIDE DEF Own, Done
  <2> QED
    BY <1>1, <1>2, <1>3, <2>2, <2>3
<1> QED
  BY <1>4, <1>5

\* A change of the files keeps the invariant: processes keep what they have read.
LEMMA EditPreserves ==
  ASSUME StagingInv, Edit, UNCHANGED <<pdfs, files>>
  PROVE  StagingInv'
<1>1. UNCHANGED <<schema, versions, layouts, writer, today, proc, starts, faults>>
  BY DEF Edit, EditKnowledge, EditManifest
<1>2. knowledge' \in Revision /\ manifest' \in [Era -> Revision]
  <2>1. Edits < MaxEdits /\ knowledge \in Revision /\ manifest \in [Era -> Revision]
    BY DEF Edit, EditKnowledge, EditManifest, StagingInv, TablesTyped
  <2>2. /\ knowledge + 1 \in Revision
        /\ \A e \in Era : manifest[e] + 1 \in Revision
    BY <2>1, EditFacts DEF StagingInv
  <2> QED
    BY <2>1, <2>2 DEF Edit, EditKnowledge, EditManifest
<1>3. TablesTyped'
  BY <1>1, <1>2 DEF StagingInv, TablesTyped
<1> QED
  BY <1>1, <1>3 DEF StagingInv, IsPlaced, Knows, Registered, RegistrationIsWhole

\* So does a midnight: what a process has asked for, it has asked for before.
LEMMA MidnightPreserves ==
  ASSUME StagingInv, Midnight, UNCHANGED <<pdfs, files>>
  PROVE  StagingInv'
<1>1. /\ UNCHANGED <<schema, versions, layouts, writer, knowledge, manifest, proc, starts, faults>>
      /\ today' \in Day /\ today' = today + 1 /\ today \in Nat
  BY DEF Midnight, StagingInv, TablesTyped, Day
<1>2. TablesTyped'
  BY <1>1 DEF StagingInv, TablesTyped
<1>3. ASSUME NEW p \in Processes PROVE IsPlaced(p)' /\ Knows(p)'
  <2>1. proc[p].asOf \in Nat /\ IsPlaced(p) /\ Knows(p)
    BY ProcTypes
  <2> QED
    BY <1>1, <2>1 DEF IsPlaced, Knows, Registered
<1> QED
  BY <1>1, <1>2, <1>3 DEF StagingInv, RegistrationIsWhole

\* What a step of a process writes: a row for the document it has written, and
\* the file of the document it has in its hands.
Writes(p) ==
    /\ \A id \in DOMAIN pdfs' :
          \/ /\ id \in DOMAIN pdfs
             /\ pdfs'[id].doc = pdfs[id].doc /\ pdfs'[id].path = pdfs[id].path
          \/ /\ At(p, "add")
             /\ pdfs'[id].doc = InHand(p) /\ pdfs'[id].path = proc[p].job.dest
    /\ \/ files' = files
       \/ Truncate(p)
       \/ Fill(p)
    /\ At(p, "fill") => Fill(p) \/ faults' # 0
    /\ faults' = 0 => faults = 0

\* Every step of a process writes no more than that.
LEMMA StepWrites ==
  ASSUME StagingInv, NEW p \in Processes,
         \/ Dispatch(p)
         \/ Step(p)
         \/ (Refused(p) \/ Fault(p)) /\ UNCHANGED <<pdfs, files>>
  PROVE  Writes(p)
<1>1. pdfs \in Seq(PdfRows) /\ faults \in Nat
  BY DEF StagingInv, TablesTyped
<1>2. CASE AddPdf(p)
  <2>1. At(p, "add") /\ UNCHANGED <<Others, files>>
    BY <1>2 DEF AddPdf
  <2>2. \A id \in DOMAIN pdfs' :
           \/ id \in DOMAIN pdfs /\ pdfs'[id] = pdfs[id]
           \/ pdfs'[id] = Staged(InHand(p), proc[p].job.dest)
    <3> DEFINE row == Staged(InHand(p), proc[p].job.dest)
    <3>1. pdfs' = pdfs \/ pdfs' = Append(pdfs, row)
      BY <1>2 DEF AddPdf
    <3> HIDE DEF row
    <3>2. \A id \in DOMAIN pdfs' : (id \in DOMAIN pdfs /\ pdfs'[id] = pdfs[id]) \/ pdfs'[id] = row
      BY <1>1, <3>1
    <3> QED
      BY <3>2 DEF row
  <2> QED
    BY <2>1, <2>2 DEF Writes, At, Others, Staged
<1>3. CASE Detect(p)
  <2> DEFINE id == Min(proc[p].job.batch)
  <2>1. PICK st \in {"validated", "failed"} :
          pdfs' = [pdfs EXCEPT ![id].status = st, ![id].source = files[pdfs[id].path]]
    BY <1>3 DEF Detect
  <2> HIDE DEF id
  <2>2. \A i \in DOMAIN pdfs' : /\ i \in DOMAIN pdfs
                                /\ pdfs'[i].doc = pdfs[i].doc /\ pdfs'[i].path = pdfs[i].path
    BY <1>1, <2>1 DEF PdfRows
  <2>3. At(p, "detect") /\ UNCHANGED <<Others, files>>
    BY <1>3 DEF Detect
  <2> QED
    BY <2>2, <2>3 DEF Writes, At, Others
<1>4. CASE ~AddPdf(p) /\ ~Detect(p)
  <2>1. pdfs' = pdfs /\ (files' = files \/ Truncate(p) \/ Fill(p))
    BY <1>4 DEF Dispatch, Step, Body, Fetch, FetchFails, FetchBreaks, GetByHash, Truncate, Fill,
                WriteFails, EndFetchStage, ListPending, ReadPdf, Analyze, EndBatch, Rest
  <2>2. faults' = faults \/ faults' = faults + 1
    BY <1>4 DEF Dispatch, Start, Step, Build, Body, Others, Refused, OptionIsMissing,
                DateIsMalformed, Refuse, Fault, FileIsUnusable, LockTimesOut, Kill, CreateTable,
                BuildVersion, ShowVersion, GetParserVersion, LoadSnapshot, RecordParserVersion,
                LoadDefinitions, FindLayout, InsertLayout, CommitLayouts, Fetch, FetchFails,
                FetchBreaks, GetByHash, Truncate, Fill, WriteFails, EndFetchStage, ListPending,
                ReadPdf, Analyze, EndBatch, Rest
  <2>3. At(p, "fill") => Fill(p) \/ faults' = faults + 1
    BY <1>4 DEF At, Dispatch, Start, Step, Build, Body, Others, Refused, OptionIsMissing,
                DateIsMalformed, Refuse, Fault, FileIsUnusable, LockTimesOut, Kill, CreateTable,
                BuildVersion, ShowVersion, GetParserVersion, LoadSnapshot, RecordParserVersion,
                LoadDefinitions, FindLayout, InsertLayout, CommitLayouts, Fetch, FetchFails,
                FetchBreaks, GetByHash, Truncate, WriteFails, EndFetchStage, ListPending,
                ReadPdf, Analyze, EndBatch, Rest
  <2> QED
    BY <1>1, <2>1, <2>2, <2>3 DEF Writes
<1> QED
  BY <1>2, <1>3, <1>4

\* Every step of the program is a move of one process, a change of the files or
\* a midnight.
LEMMA NextMoves ==
  ASSUME StagingInv, Next
  PROVE  (\E p \in Processes : Moves(p) /\ Writes(p)) \/ (World /\ UNCHANGED <<pdfs, files>>)
<1>1. CASE \E p \in Processes : Dispatch(p) \/ Step(p)
                                \/ ((Refused(p) \/ Fault(p)) /\ UNCHANGED <<pdfs, files>>)
  <2>1. PICK p \in Processes : Dispatch(p) \/ Step(p)
                               \/ ((Refused(p) \/ Fault(p)) /\ UNCHANGED <<pdfs, files>>)
    BY <1>1
  <2>2. Moves(p)
    BY <2>1, DispatchMoves, FailingMoves, CreateTableMoves, VersionMoves, ParserVersionMoves,
       LayoutMoves, FetchMoves, BatchMoves DEF Step, Build, Body
  <2>3. Writes(p)
    BY <2>1, StepWrites
  <2> QED
    BY <2>2, <2>3
<1> QED
  BY <1>1 DEF Next

\* Init is a state of the invariant.
LEMMA InitInv ==
  ASSUME Init
  PROVE  StagingInv
<1>1. /\ SessionInit
      /\ \/ pdfs = <<>> /\ files = [f \in Paths |-> Missing]
         \/ \E d \in Documents : \E path \in Place[d] :
               pdfs = <<Staged(d, path)>> /\ files = [[f \in Paths |-> Missing] EXCEPT ![path] = d]
  BY DEF Init
<1>2. /\ schema \in 0..Len(Tables) /\ writer \in Processes \union {Nobody}
      /\ starts \in 0..MaxStarts /\ faults \in 0..MaxFaults
      /\ knowledge \in Revision /\ manifest \in [Era -> Revision] /\ today \in Day
      /\ versions \in [Codes -> Checksums \union {0}] /\ layouts \in SUBSET LayoutRows
  <2>1. 1 \in Revision /\ 1 \in Day /\ Len(Tables) = 4 /\ Digest[<<1, 1>>] \in Checksums
    BY EraFacts, DayFacts, DigestFacts
  <2>2. \A i \in DOMAIN Eras : Row(Eras[i], 1) \in LayoutRows
    BY <2>1 DEF Row, LayoutRows
  <2> QED
    BY <1>1, <2>1, <2>2 DEF SessionInit, Era
<1>3. /\ pdfs \in Seq(PdfRows) /\ files \in [Paths -> Contents]
      /\ \A id \in DOMAIN pdfs : pdfs[id].path \in Place[pdfs[id].doc]
  <2>1. CASE pdfs = <<>> /\ files = [f \in Paths |-> Missing]
    BY <2>1 DEF Contents
  <2>2. CASE \E d \in Documents : \E path \in Place[d] :
               pdfs = <<Staged(d, path)>> /\ files = [[f \in Paths |-> Missing] EXCEPT ![path] = d]
    <3>0. PICK d \in Documents : \E path \in Place[d] :
             pdfs = <<Staged(d, path)>> /\ files = [[f \in Paths |-> Missing] EXCEPT ![path] = d]
      BY <2>2
    <3>1. PICK path \in Place[d] :
             pdfs = <<Staged(d, path)>> /\ files = [[f \in Paths |-> Missing] EXCEPT ![path] = d]
      BY <3>0
    <3>2. path \in Paths /\ Staged(d, path) \in PdfRows
          /\ Staged(d, path).doc = d /\ Staged(d, path).path = path
      BY PlaceType, RowFacts DEF Staged
    <3>3. DOMAIN pdfs = {1} /\ pdfs[1] = Staged(d, path)
      BY <3>1
    <3> QED
      BY <3>1, <3>2, <3>3 DEF Contents
  <2> QED
    BY <1>1, <2>1, <2>2
<1>4. proc = [p \in Processes |-> Ended("none")] /\ "none" \in Outcomes
  BY <1>1 DEF SessionInit, Outcomes
<1>5. proc \in [Processes -> ProcRecords]
  BY <1>4, EndedFacts
<1>6. \A p \in Processes : IsPlaced(p) /\ Knows(p)
  <2>1. today \in Nat
    BY <1>2, DayFacts
  <2> QED
    BY <1>4, <2>1, EndedFacts DEF IsPlaced, Knows, Registering, Started, Storing
<1>7. RegistrationIsWhole
  <2>1. layouts = {} \/ layouts = {Row(Eras[i], 1) : i \in DOMAIN Eras}
    BY <1>1 DEF SessionInit
  <2>2. \A i \in DOMAIN Eras : Row(Eras[i], 1).era = Eras[i]
    BY DEF Row
  <2> QED
    BY <2>1, <2>2 DEF RegistrationIsWhole
<1> QED
  BY <1>2, <1>3, <1>5, <1>6, <1>7 DEF StagingInv, TablesTyped

\* The invariant holds for every number of processes, whatever is killed or raced.
THEOREM StagingInvariant == Spec => []StagingInv
<1>1. StagingInv /\ [Next]_vars => StagingInv'
  <2> SUFFICES ASSUME StagingInv, [Next]_vars PROVE StagingInv'
    OBVIOUS
  <2>1. CASE Next
    BY <2>1, NextMoves, MovesPreserve, EditPreserves, MidnightPreserves DEF World
  <2>2. CASE UNCHANGED vars
    BY <2>2 DEF vars, sessionVars, StagingInv, TablesTyped, IsPlaced, Knows, Registered,
                RegistrationIsWhole
  <2> QED
    BY <2>1, <2>2
<1> QED
  BY <1>1, InitInv, PTL DEF Spec

\* The variables keep their types.
THEOREM StagingTypeCorrect == Spec => []TypeOK
<1>1. StagingInv => TypeOK
  <2> SUFFICES ASSUME StagingInv PROVE TypeOK
    OBVIOUS
  <2>1. TablesTyped /\ RegistrationIsWhole
    BY DEF StagingInv
  <2>2. ASSUME NEW p \in Processes
        PROVE  /\ proc[p].cmd \in Commands \union {"none"}
               /\ proc[p].code \in Codes \union {"none"}
               /\ proc[p].cached \in Revision \union {0}
               /\ {proc[p].asOf, proc[p].recorded} \subseteq Day \union {0}
               /\ proc[p].at \in 1..(Len(Eras) + Len(Tables))
               /\ proc[p].pending \subseteq LayoutRows
               /\ proc[p].outcome \in Outcomes
               /\ proc[p].job.dest \in Paths \union {Missing}
               /\ proc[p].job.batch \subseteq DOMAIN pdfs
    <3>1. proc[p] \in ProcRecords /\ Knows(p)
      BY ProcTypes
    <3>2. proc[p].cmd \in Commands \union {"none"} /\ proc[p].outcome \in Outcomes
      BY <3>1 DEF ProcRecords
    <3> QED
      BY <3>1, <3>2, ProcTypes DEF Ordinal, Knows
  <2>3. SessionTypeOK
    BY <2>1, <2>2 DEF TablesTyped, SessionTypeOK
  <2>4. \A id \in DOMAIN pdfs :
          /\ pdfs[id].doc \in Documents /\ pdfs[id].path \in Place[pdfs[id].doc]
          /\ pdfs[id].status \in {"fetched", "validated", "failed"}
          /\ pdfs[id].source \in Contents
    <3>1. \A id \in DOMAIN pdfs : pdfs[id] \in PdfRows
      BY <2>1 DEF TablesTyped
    <3> QED
      BY <2>1, <3>1 DEF TablesTyped, PdfRows
  <2> QED
    BY <2>1, <2>2, <2>3, <2>4 DEF TablesTyped, TypeOK
<1> QED
  BY <1>1, StagingInvariant, PTL

\* Either no layout is registered or every era has one.
THEOREM LayoutsRegisteredWhole == Spec => []RegistrationIsWhole
<1>1. StagingInv => RegistrationIsWhole
  BY DEF StagingInv
<1> QED
  BY <1>1, StagingInvariant, PTL

\* A command that has begun its own work finds its release and layouts committed.
THEOREM CommandsStartRegistered == Spec => []StartsRegistered
<1>1. StagingInv => StartsRegistered
  <2> SUFFICES ASSUME StagingInv, NEW p \in Processes,
                      proc[p].pc \notin {"free", "schema", "version", "show", "lookup", "snapshot",
                                         "record", "load", "sync", "insert"}
               PROVE  /\ versions[proc[p].code] # 0
                      /\ \A i \in DOMAIN Eras : Row(Eras[i], proc[p].loaded[Eras[i]]) \in layouts
    BY DEF StartsRegistered
  <2>1. proc[p].pc \in Started /\ Knows(p)
    BY ProcTypes DEF Location, Registering
  <2> QED
    BY <2>1 DEF Knows
<1> QED
  BY <1>1, StagingInvariant, PTL

\* The process that records a version keeps to the files whose checksum it has
\* recorded, and to the very snapshot until a midnight has passed.
THEOREM RecorderUsesRecorded == Spec => []RecordedIsUsed
<1>1. StagingInv => RecordedIsUsed
  <2> SUFFICES ASSUME StagingInv, NEW p \in Processes, proc[p].recorded # 0
               PROVE  LET row == versions[proc[p].code]
                      IN  /\ row = Digest[<<proc[p].cached, proc[p].recorded>>]
                          /\ SnapshotChecksum(p) # row => proc[p].recorded < proc[p].asOf
    BY DEF RecordedIsUsed
  <2>1. /\ versions[proc[p].code] = Digest[<<proc[p].cached, proc[p].recorded>>]
        /\ proc[p].recorded <= proc[p].asOf
        /\ proc[p].recorded \in Nat /\ proc[p].asOf \in Nat
    BY ProcTypes DEF Knows
  <2>2. CASE proc[p].recorded = proc[p].asOf
    BY <2>1, <2>2 DEF SnapshotChecksum
  <2>3. CASE proc[p].recorded # proc[p].asOf
    BY <2>1, <2>3
  <2> QED
    BY <2>2, <2>3
<1> QED
  BY <1>1, StagingInvariant, PTL

-----------------------------------------------------------------------------
(* Rows and files.                                                         *)

\* No two documents are staged to the same path.
PlacesApart ==
    \A d, e \in Documents : d # e => Place[d] \intersect Place[e] = {}

\* The file at path is the document, or is being written again.
IsWhole(path, doc) ==
    \/ files[path] = doc
    \/ \E p \in Processes : At(p, "fill") /\ proc[p].job.dest = path

\* A process that is about to add a row has written its file.
FilesInv ==
    faults = 0 =>
        /\ \A id \in DOMAIN pdfs : IsWhole(pdfs[id].path, pdfs[id].doc)
        /\ \A p \in Processes : At(p, "add") => IsWhole(proc[p].job.dest, InHand(p))

\* What is true of a document in the hands of a process.
LEMMA InHandFacts ==
  ASSUME StagingInv, NEW p \in Processes, proc[p].pc \in Storing
  PROVE  /\ InHand(p) \in Documents /\ proc[p].job.dest \in Place[InHand(p)]
         /\ proc[p].job.dest \in Paths
<1>1. /\ proc[p].job.items \in Seq(Documents) /\ proc[p].job.items # <<>>
      /\ proc[p].job.dest \in Place[InHand(p)]
  BY ProcTypes DEF IsPlaced, InHand
<1>2. InHand(p) \in Documents
  BY <1>1 DEF InHand
<1> QED
  BY <1>1, <1>2, PlaceType

\* Truncating and filling a file, as steps of the process alone.
LEMMA FileSteps ==
  ASSUME StagingInv, NEW p \in Processes
  PROVE  /\ Truncate(p) =>
                /\ At(p, "write") /\ files' = [files EXCEPT ![proc[p].job.dest] = Torn]
                /\ proc'[p].pc = "fill" /\ proc'[p].job = proc[p].job
         /\ Fill(p) =>
                /\ At(p, "fill") /\ files' = [files EXCEPT ![proc[p].job.dest] = InHand(p)]
                /\ proc'[p].pc = "add" /\ proc'[p].job = proc[p].job
<1>1. \A l \in {"fill", "add"} : Goto(p, l) => proc'[p].pc = l /\ proc'[p].job = proc[p].job
  <2> TAKE l \in {"fill", "add"}
  <2>1. proc[p] \in ProcRecords /\ proc \in [Processes -> ProcRecords]
    BY DEF StagingInv
  <2> DEFINE x == [proc[p] EXCEPT !.pc = l]
  <2>2. x.pc = l /\ x.job = proc[p].job
    BY <2>1 DEF ProcRecords
  <2>3. Goto(p, l) => proc'[p] = x
    BY <2>1 DEF Goto, Become
  <2> QED
    BY <2>2, <2>3
<1> QED
  BY <1>1 DEF Truncate, Fill

\* A file that is whole for a document stays so: only a fetch of this document
\* writes to its places.
LEMMA WholeStays ==
  ASSUME PlacesApart, StagingInv, NEW p \in Processes, Moves(p), Writes(p), faults' = 0,
         NEW doc \in Documents, NEW path \in Place[doc], IsWhole(path, doc)
  PROVE  IsWhole(path, doc)'
<1>1. path \in Paths /\ files \in [Paths -> Contents]
  BY PlaceType DEF StagingInv, TablesTyped
<1>2. \A q \in Processes \ {p} : proc'[q] = proc[q]
  BY BecomeFacts DEF StagingInv, Moves
<1>3. CASE Fill(p)
  <2>1. /\ At(p, "fill") /\ files' = [files EXCEPT ![proc[p].job.dest] = InHand(p)]
        /\ InHand(p) \in Documents /\ proc[p].job.dest \in Place[InHand(p)]
    BY <1>3, FileSteps, InHandFacts DEF At, Storing
  <2>2. CASE proc[p].job.dest = path
    BY <1>1, <2>1, <2>2 DEF PlacesApart, IsWhole
  <2>3. CASE proc[p].job.dest # path
    BY <1>1, <1>2, <2>1, <2>3 DEF IsWhole, At
  <2> QED
    BY <2>2, <2>3
<1>4. CASE Truncate(p)
  <2>1. /\ At(p, "write") /\ files' = [files EXCEPT ![proc[p].job.dest] = Torn]
        /\ proc'[p].pc = "fill" /\ proc'[p].job = proc[p].job
    BY <1>4, FileSteps
  <2>2. CASE proc[p].job.dest = path
    BY <2>1, <2>2 DEF IsWhole, At
  <2>3. CASE proc[p].job.dest # path
    BY <1>1, <1>2, <2>1, <2>3 DEF IsWhole, At
  <2> QED
    BY <2>2, <2>3
<1>5. CASE ~Fill(p) /\ ~Truncate(p)
  <2>1. files' = files /\ ~At(p, "fill")
    BY <1>5 DEF Writes
  <2> QED
    BY <1>2, <2>1 DEF IsWhole, At
<1> QED
  BY <1>3, <1>4, <1>5

\* A move keeps the files of the rows.
LEMMA FilesPreserved ==
  ASSUME PlacesApart, StagingInv, FilesInv, NEW p \in Processes, Moves(p), Writes(p)
  PROVE  FilesInv'
<1> SUFFICES ASSUME faults' = 0
             PROVE  /\ \A id \in DOMAIN pdfs' : IsWhole(pdfs[id].path, pdfs[id].doc)'
                    /\ \A q \in Processes :
                          At(q, "add")' => IsWhole(proc[q].job.dest, InHand(q))'
  BY DEF FilesInv
<1>1. /\ \A id \in DOMAIN pdfs : IsWhole(pdfs[id].path, pdfs[id].doc)
      /\ \A q \in Processes : At(q, "add") => IsWhole(proc[q].job.dest, InHand(q))
  BY DEF FilesInv, Writes
<1>2. ASSUME NEW q \in Processes, At(q, "add")
      PROVE  /\ InHand(q) \in Documents /\ proc[q].job.dest \in Place[InHand(q)]
             /\ IsWhole(proc[q].job.dest, InHand(q))
  BY <1>1, <1>2, InHandFacts DEF At, Storing
<1>3. ASSUME NEW id \in DOMAIN pdfs' PROVE IsWhole(pdfs[id].path, pdfs[id].doc)'
  <2>1. PICK doc \in Documents : \E path \in Place[doc] :
           IsWhole(path, doc) /\ pdfs'[id].doc = doc /\ pdfs'[id].path = path
    <3>1. CASE id \in DOMAIN pdfs /\ pdfs'[id].doc = pdfs[id].doc /\ pdfs'[id].path = pdfs[id].path
      <4>1. pdfs[id].doc \in Documents /\ pdfs[id].path \in Place[pdfs[id].doc]
        <5>1. pdfs \in Seq(PdfRows) /\ pdfs[id].path \in Place[pdfs[id].doc]
          BY <3>1 DEF StagingInv, TablesTyped
        <5>2. pdfs[id] \in PdfRows
          BY <3>1, <5>1
        <5> QED
          BY <5>1, <5>2 DEF PdfRows
      <4> QED
        BY <1>1, <3>1, <4>1
    <3>2. CASE At(p, "add") /\ pdfs'[id].doc = InHand(p) /\ pdfs'[id].path = proc[p].job.dest
      BY <1>2, <3>2
    <3> QED
      BY <3>1, <3>2 DEF Writes
  <2>2. PICK path \in Place[doc] :
           IsWhole(path, doc) /\ pdfs'[id].doc = doc /\ pdfs'[id].path = path
    BY <2>1
  <2>3. IsWhole(path, doc)'
    BY <2>2, WholeStays
  <2> QED
    BY <2>2, <2>3 DEF IsWhole
<1>4. ASSUME NEW q \in Processes, At(q, "add")' PROVE IsWhole(proc[q].job.dest, InHand(q))'
  <2>1. CASE q = p
    <3>1. Fill(p)
      <4>1. PICK x \in ProcRecords : Become(p, x) /\ (x.pc = "add" => Fill(p))
        BY DEF Moves
      <4> QED
        BY <1>4, <2>1, <4>1, BecomeFacts DEF StagingInv, At
    <3>2. /\ files' = [files EXCEPT ![proc[p].job.dest] = InHand(p)]
          /\ proc'[p].job = proc[p].job /\ proc[p].job.dest \in Paths /\ files \in [Paths -> Contents]
      BY <3>1, FileSteps, InHandFacts DEF At, Storing, StagingInv, TablesTyped
    <3> QED
      BY <2>1, <3>2 DEF IsWhole, InHand
  <2>2. CASE q # p
    <3>1. proc'[q] = proc[q] /\ At(q, "add")
      BY <1>4, <2>2, BecomeFacts DEF StagingInv, Moves, At
    <3>2. PICK doc \in Documents : doc = InHand(q)
      BY <1>2, <3>1
    <3>3. PICK path \in Place[doc] : path = proc[q].job.dest /\ IsWhole(path, doc)
      BY <1>2, <3>1, <3>2
    <3>4. IsWhole(path, doc)'
      BY <3>3, WholeStays
    <3> QED
      BY <3>1, <3>2, <3>3, <3>4 DEF IsWhole, InHand
  <2> QED
    BY <2>1, <2>2
<1> QED
  BY <1>3, <1>4

\* What FilesInv says, by induction, when no two documents share a place.
THEOREM FilesInvariant ==
  ASSUME PlacesApart
  PROVE  Spec => []FilesInv
<1>1. Init => FilesInv
  <2> SUFFICES ASSUME Init PROVE FilesInv
    OBVIOUS
  <2>1. \A p \in Processes : ~At(p, "add")
    BY EndedFacts DEF Init, SessionInit, At, Outcomes
  <2>2. \A id \in DOMAIN pdfs : IsWhole(pdfs[id].path, pdfs[id].doc)
    <3>1. CASE pdfs = <<>>
      BY <3>1
    <3>2. CASE pdfs # <<>>
      <4>1. PICK d \in Documents : \E path \in Place[d] :
               pdfs = <<Staged(d, path)>> /\ files = [[f \in Paths |-> Missing] EXCEPT ![path] = d]
        BY <3>2 DEF Init
      <4>2. PICK path \in Place[d] :
               pdfs = <<Staged(d, path)>> /\ files = [[f \in Paths |-> Missing] EXCEPT ![path] = d]
        BY <4>1
      <4>3. path \in Paths /\ Staged(d, path).doc = d /\ Staged(d, path).path = path
        BY PlaceType DEF Staged
      <4>4. DOMAIN pdfs = {1} /\ pdfs[1] = Staged(d, path) /\ files[path] = d
        BY <4>2, <4>3
      <4> QED
        BY <4>3, <4>4 DEF IsWhole
    <3> QED
      BY <3>1, <3>2
  <2> QED
    BY <2>1, <2>2 DEF FilesInv
<1>2. StagingInv /\ FilesInv /\ [Next]_vars => FilesInv'
  <2> SUFFICES ASSUME StagingInv, FilesInv, [Next]_vars PROVE FilesInv'
    OBVIOUS
  <2>1. CASE \E p \in Processes : Moves(p) /\ Writes(p)
    BY <2>1, FilesPreserved
  <2>2. CASE World /\ UNCHANGED <<pdfs, files>>
    BY <2>2 DEF World, Midnight, Edit, EditKnowledge, EditManifest, FilesInv, IsWhole, At, InHand
  <2>3. CASE UNCHANGED vars
    BY <2>3 DEF vars, sessionVars, FilesInv, IsWhole, At, InHand
  <2>4. Next => (\E p \in Processes : Moves(p) /\ Writes(p)) \/ (World /\ UNCHANGED <<pdfs, files>>)
    BY NextMoves
  <2> QED
    BY <2>1, <2>2, <2>3, <2>4
<1> QED
  BY <1>1, <1>2, StagingInvariant, PTL DEF Spec

\* As long as no command is cut off, every row finds its document in its file:
\* nobody's fetch but one of the same document touches it.
THEOREM RowsKeepTheirFile ==
  ASSUME PlacesApart
  PROVE  Spec => []RowsHaveTheirFile
<1>1. FilesInv => RowsHaveTheirFile
  BY DEF FilesInv, IsWhole, RowsHaveTheirFile
<1> QED
  BY <1>1, FilesInvariant, PTL

=============================================================================
