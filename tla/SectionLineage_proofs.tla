----------------------- MODULE SectionLineage_proofs -----------------------
(***************************************************************************)
(* Proofs about SectionLineage for any number of runners, slots and parser *)
(* versions.  LineageInv is inductive; the safety properties are conjuncts *)
(* of it, and HandoverIsAtomic and the refinement of SectionLedger follow  *)
(* from the one step that changes the committed table, Commit.             *)
(***************************************************************************)
EXTENDS SectionLineage, TLAPS

USE VersionOfType, NoRunnerNotRunner, NoVersionNotVersion

\* The empty table satisfies the invariant.
LEMMA LineageInit == Init => LineageInv
BY DEF Init, LineageInv, TypeOK, Table, Status, Location, InTransaction,
       AtMostOneParsed, SupersededHasSuccessor, ExtractsIntoCommittedSection,
       LockMatchesTransaction, TransactionSoFar

\* Types are preserved by every step.
LEMMA LineageTypes ==
  ASSUME TypeOK, [Next]_vars
  PROVE  TypeOK'
<1> USE DEF TypeOK, Table, Status, Location, InTransaction
<1>1. ASSUME NEW r \in Runners, NEW s \in Slots, ProcessSection(r, s)
      PROVE  TypeOK'
  BY <1>1 DEF ProcessSection, Goto
<1>2. ASSUME NEW r \in Runners, FindSection(r)
      PROVE  TypeOK'
  BY <1>2 DEF FindSection, Goto
<1>3. ASSUME NEW r \in Runners, Begin(r)
      PROVE  TypeOK'
  BY <1>3 DEF Begin, Goto
<1>4. ASSUME NEW r \in Runners, BeginTimesOut(r)
      PROVE  TypeOK'
  BY <1>4 DEF BeginTimesOut, Goto
<1>5. ASSUME NEW r \in Runners, FindActiveSection(r)
      PROVE  TypeOK'
  BY <1>5 DEF FindActiveSection, Goto, ActiveVersions
<1>6. ASSUME NEW r \in Runners, AddSection(r)
      PROVE  TypeOK'
  BY <1>6 DEF AddSection, Goto
<1>7. ASSUME NEW r \in Runners, SupersedeSection(r)
      PROVE  TypeOK'
  BY <1>7 DEF SupersedeSection, Goto
<1>8. ASSUME NEW r \in Runners, Commit(r)
      PROVE  TypeOK'
  BY <1>8 DEF Commit, Goto
<1>9. ASSUME NEW r \in Runners, Rollback(r)
      PROVE  TypeOK'
  BY <1>9 DEF Rollback, Goto
<1>10. ASSUME NEW r \in Runners, Return(r)
       PROVE  TypeOK'
  BY <1>10 DEF Return, Goto
<1>11. ASSUME NEW r \in Runners, Crash(r)
       PROVE  TypeOK'
  BY <1>11 DEF Crash
<1>12. CASE UNCHANGED vars
  BY <1>12 DEF vars
<1> QED
  BY <1>1, <1>2, <1>3, <1>4, <1>5, <1>6, <1>7, <1>8, <1>9, <1>10, <1>11, <1>12
     DEF Next, Step

\* A runner in the transaction is the only one there, so what the others are
\* doing cannot touch its view of the table.
LEMMA OneTransaction ==
  ASSUME LockMatchesTransaction, NEW r \in Runners, NEW q \in Runners,
         pc[r] \in InTransaction, pc[q] \in InTransaction
  PROVE  r = q
BY DEF LockMatchesTransaction

\* The lock is taken by Begin and given back by every way out.
LEMMA LockStep ==
  ASSUME TypeOK, LockMatchesTransaction, [Next]_vars
  PROVE  LockMatchesTransaction'
<1> USE DEF LockMatchesTransaction, InTransaction, TypeOK
<1>1. ASSUME NEW r \in Runners, NEW s \in Slots, ProcessSection(r, s)
      PROVE  LockMatchesTransaction'
  BY <1>1 DEF ProcessSection, Goto
<1>2. ASSUME NEW r \in Runners, FindSection(r)
      PROVE  LockMatchesTransaction'
  BY <1>2 DEF FindSection, Goto
<1>3. ASSUME NEW r \in Runners, Begin(r)
      PROVE  LockMatchesTransaction'
  BY <1>3 DEF Begin, Goto
<1>4. ASSUME NEW r \in Runners, BeginTimesOut(r)
      PROVE  LockMatchesTransaction'
  BY <1>4 DEF BeginTimesOut, Goto
<1>5. ASSUME NEW r \in Runners, FindActiveSection(r)
      PROVE  LockMatchesTransaction'
  BY <1>5 DEF FindActiveSection, Goto
<1>6. ASSUME NEW r \in Runners, AddSection(r)
      PROVE  LockMatchesTransaction'
  BY <1>6 DEF AddSection, Goto
<1>7. ASSUME NEW r \in Runners, SupersedeSection(r)
      PROVE  LockMatchesTransaction'
  BY <1>7 DEF SupersedeSection, Goto
<1>8. ASSUME NEW r \in Runners, Commit(r)
      PROVE  LockMatchesTransaction'
  BY <1>8 DEF Commit, Goto
<1>9. ASSUME NEW r \in Runners, Rollback(r)
      PROVE  LockMatchesTransaction'
  BY <1>9 DEF Rollback, Goto
<1>10. ASSUME NEW r \in Runners, Return(r)
       PROVE  LockMatchesTransaction'
  BY <1>10 DEF Return, Goto
<1>11. ASSUME NEW r \in Runners, Crash(r)
       PROVE  LockMatchesTransaction'
  BY <1>11 DEF Crash
<1>12. CASE UNCHANGED vars
  BY <1>12 DEF vars
<1> QED
  BY <1>1, <1>2, <1>3, <1>4, <1>5, <1>6, <1>7, <1>8, <1>9, <1>10, <1>11, <1>12
     DEF Next, Step

\* Only Commit changes the committed table.
LEMMA OnlyCommitWrites ==
  ASSUME [Next]_vars
  PROVE  row' = row \/ \E r \in Runners : Commit(r)
BY DEF Next, Step, vars, ProcessSection, FindSection, Begin, BeginTimesOut,
       FindActiveSection, AddSection, SupersedeSection, Rollback, Return, Crash

\* A runner outside the transaction has nothing to keep.
LEMMA NothingSoFar ==
  ASSUME NEW r \in Runners, pc[r] \notin InTransaction
  PROVE  TransactionSoFar(r)
BY DEF TransactionSoFar, InTransaction

\* The other runners' transactions do not exist while r is in its own.
LEMMA OthersOutside ==
  ASSUME LockMatchesTransaction, NEW r \in Runners, lock = r,
         NEW q \in Runners, q # r
  PROVE  TransactionSoFar(q)
BY NothingSoFar DEF LockMatchesTransaction

\* The transaction's view of the table is extended by its own statements and
\* discarded when it ends.
LEMMA TransactionStep ==
  ASSUME LineageInv, [Next]_vars
  PROVE  \A q \in Runners : TransactionSoFar(q)'
<1> SUFFICES ASSUME NEW q \in Runners
             PROVE  TransactionSoFar(q)'
  OBVIOUS
<1> USE DEF InTransaction, TypeOK
<1>0. LockMatchesTransaction /\ LockMatchesTransaction' /\ TypeOK /\ TypeOK'
      /\ TransactionSoFar(q)
  BY LineageTypes, LockStep DEF LineageInv
\* Steps outside the transaction: neither the tables nor, for a runner in a
\* transaction, its variables change.
<1>1. ASSUME NEW r \in Runners, NEW s \in Slots, ProcessSection(r, s)
      PROVE  TransactionSoFar(q)'
  BY <1>0, <1>1 DEF ProcessSection, Goto, TransactionSoFar, OldIsCurrent
<1>2. ASSUME NEW r \in Runners, FindSection(r)
      PROVE  TransactionSoFar(q)'
  BY <1>0, <1>2 DEF FindSection, Goto, TransactionSoFar, OldIsCurrent
<1>3. ASSUME NEW r \in Runners, Begin(r)
      PROVE  TransactionSoFar(q)'
  BY <1>0, <1>3 DEF Begin, Goto, TransactionSoFar, LockMatchesTransaction
<1>4. ASSUME NEW r \in Runners, BeginTimesOut(r)
      PROVE  TransactionSoFar(q)'
  BY <1>0, <1>4 DEF BeginTimesOut, Goto, TransactionSoFar, OldIsCurrent
<1>5. ASSUME NEW r \in Runners, FindActiveSection(r)
      PROVE  TransactionSoFar(q)'
  <2>1. CASE q = r
    <3>1. pc[r] = "find_active" /\ pc'[r] = "add" /\ work = row
          /\ work' = work /\ row' = row /\ slot' = slot
      BY <1>0, <1>5, <2>1 DEF FindActiveSection, Goto, TransactionSoFar
    <3>2. OldIsCurrent(r)'
      BY <1>0, <1>5, <3>1 DEF FindActiveSection, ActiveVersions, OldIsCurrent
    <3> QED
      BY <2>1, <3>1, <3>2 DEF TransactionSoFar
  <2>2. CASE q # r
    BY <1>0, <1>5, <2>2 DEF FindActiveSection, Goto, TransactionSoFar,
                            LockMatchesTransaction
  <2> QED
    BY <2>1, <2>2
<1>6. ASSUME NEW r \in Runners, AddSection(r)
      PROVE  TransactionSoFar(q)'
  <2>1. CASE q = r
    BY <1>0, <1>6, <2>1 DEF AddSection, Goto, TransactionSoFar, OldIsCurrent
  <2>2. CASE q # r
    BY <1>0, <1>6, <2>2 DEF AddSection, Goto, TransactionSoFar,
                            LockMatchesTransaction
  <2> QED
    BY <2>1, <2>2
<1>7. ASSUME NEW r \in Runners, SupersedeSection(r)
      PROVE  TransactionSoFar(q)'
  <2>1. CASE q = r
    <3>1. /\ pc[r] = "supersede" /\ pc'[r] = "commit"
          /\ row' = row /\ slot' = slot /\ old' = old
          /\ row[slot[r]][VersionOf[r]] = "absent"
          /\ work = [row EXCEPT ![slot[r]][VersionOf[r]] = "parsed"]
          /\ OldIsCurrent(r)
      BY <1>0, <1>7, <2>1 DEF SupersedeSection, Goto, TransactionSoFar
    <3>2. old[r] = NoVersion
          \/ (old[r] \in Versions /\ old[r] # VersionOf[r]
                /\ work[slot[r]][old[r]] = "parsed")
      BY <1>0, <3>1 DEF OldIsCurrent, Table, Status
    <3>3. work' = [s \in Slots |-> [v \in Versions |->
                     IF s # slot[r] THEN row[s][v]
                     ELSE IF v = VersionOf[r] THEN "parsed"
                     ELSE IF v = old[r] THEN "superseded"
                     ELSE row[s][v]]]
      <4>1. CASE old[r] = NoVersion
        <5>1. work' = work
          BY <1>7, <4>1 DEF SupersedeSection
        <5>2. \A v \in Versions : v # old[r]
          BY <4>1
        <5>3. slot[r] \in Slots /\ VersionOf[r] \in Versions
          BY <1>0
        <5>4. \A s \in Slots : \A v \in Versions :
                work[s][v] = IF s # slot[r] THEN row[s][v]
                             ELSE IF v = VersionOf[r] THEN "parsed"
                             ELSE row[s][v]
          BY <1>0, <3>1, <5>3 DEF Table
        <5>5. \A s \in Slots :
                work'[s] = [v \in Versions |->
                              IF s # slot[r] THEN row[s][v]
                              ELSE IF v = VersionOf[r] THEN "parsed"
                              ELSE IF v = old[r] THEN "superseded"
                              ELSE row[s][v]]
          BY <1>0, <5>1, <5>2, <5>4 DEF Table
        <5> QED
          BY <1>0, <5>5 DEF Table
      <4>2. CASE old[r] # NoVersion
        BY <1>0, <1>7, <3>1, <3>2, <4>2 DEF SupersedeSection, Table
      <4> QED
        BY <4>1, <4>2
    <3> QED
      BY <2>1, <3>1, <3>3 DEF TransactionSoFar, OldIsCurrent
  <2>2. CASE q # r
    BY <1>0, <1>7, <2>2 DEF SupersedeSection, Goto, TransactionSoFar,
                            LockMatchesTransaction
  <2> QED
    BY <2>1, <2>2
<1>8. ASSUME NEW r \in Runners, Commit(r)
      PROVE  TransactionSoFar(q)'
  BY <1>0, <1>8 DEF Commit, Goto, TransactionSoFar, LockMatchesTransaction
<1>9. ASSUME NEW r \in Runners, Rollback(r)
      PROVE  TransactionSoFar(q)'
  BY <1>0, <1>9 DEF Rollback, Goto, TransactionSoFar, LockMatchesTransaction
<1>10. ASSUME NEW r \in Runners, Return(r)
       PROVE  TransactionSoFar(q)'
  BY <1>0, <1>10 DEF Return, Goto, TransactionSoFar, OldIsCurrent
<1>11. ASSUME NEW r \in Runners, Crash(r)
       PROVE  TransactionSoFar(q)'
  BY <1>0, <1>11 DEF Crash, TransactionSoFar, OldIsCurrent, LockMatchesTransaction
<1>12. CASE UNCHANGED vars
  BY <1>0, <1>12 DEF vars, TransactionSoFar, OldIsCurrent
<1> QED
  BY <1>1, <1>2, <1>3, <1>4, <1>5, <1>6, <1>7, <1>8, <1>9, <1>10, <1>11, <1>12
     DEF Next, Step

\* What a commit does to the table: the runner's version, absent before, is
\* parsed, the version that was parsed, if any, is superseded, and the rest
\* stays.
LEMMA CommitEffect ==
  ASSUME LineageInv, NEW r \in Runners, Commit(r)
  PROVE  /\ slot[r] \in Slots /\ VersionOf[r] \in Versions
         /\ row[slot[r]][VersionOf[r]] = "absent"
         /\ OldIsCurrent(r)
         /\ row' \in Table
         /\ \A s \in Slots : \A v \in Versions :
               row'[s][v] = IF s # slot[r] THEN row[s][v]
                            ELSE IF v = VersionOf[r] THEN "parsed"
                            ELSE IF v = old[r] THEN "superseded"
                            ELSE row[s][v]
<1>1. pc[r] = "commit" /\ row' = work /\ TransactionSoFar(r) /\ TypeOK
  BY DEF Commit, Goto, LineageInv
<1> QED
  BY <1>1 DEF TransactionSoFar, TypeOK

\* A version other than the one superseded by the commit was not in force.
LEMMA NothingElseInForce ==
  ASSUME LineageInv, NEW r \in Runners, Commit(r), NEW v \in Versions, v # old[r]
  PROVE  row[slot[r]][v] # "parsed"
<1>1. TypeOK /\ AtMostOneParsed /\ slot[r] \in Slots /\ OldIsCurrent(r)
  BY CommitEffect DEF LineageInv
<1>2. CASE old[r] = NoVersion
  BY <1>1, <1>2 DEF OldIsCurrent
<1>3. CASE old[r] # NoVersion
  BY <1>1, <1>3 DEF OldIsCurrent, AtMostOneParsed, TypeOK
<1> QED
  BY <1>2, <1>3

\* The safety properties survive every step, because they survive a commit.
LEMMA LineageSafetyStep ==
  ASSUME LineageInv, [Next]_vars
  PROVE  AtMostOneParsed' /\ SupersededHasSuccessor'
<1>1. CASE row' = row
  BY <1>1 DEF LineageInv, AtMostOneParsed, SupersededHasSuccessor
<1>2. ASSUME NEW r \in Runners, Commit(r)
      PROVE  AtMostOneParsed' /\ SupersededHasSuccessor'
  <2>1. \A s \in Slots, v \in Versions :
          s = slot[r] /\ row'[s][v] = "parsed" => v = VersionOf[r]
    BY <1>2, CommitEffect, NothingElseInForce
  <2>2. AtMostOneParsed'
    BY <1>2, <2>1, CommitEffect DEF AtMostOneParsed, LineageInv
  <2>3. SupersededHasSuccessor'
    BY <1>2, CommitEffect DEF SupersededHasSuccessor, LineageInv
  <2> QED
    BY <2>2, <2>3
<1> QED
  BY <1>1, <1>2, OnlyCommitWrites

\* A committed row never disappears.
LEMMA RowsStay ==
  ASSUME LineageInv, [Next]_vars, NEW s \in Slots, NEW v \in Versions,
         row[s][v] # "absent"
  PROVE  row'[s][v] # "absent"
<1>1. ASSUME NEW r \in Runners, Commit(r)
      PROVE  row'[s][v] # "absent"
  BY <1>1, CommitEffect
<1> QED
  BY <1>1, OnlyCommitWrites

\* A runner reaches the FieldExtractor only by finding its row or committing it.
LEMMA ExtractStep ==
  ASSUME LineageInv, [Next]_vars
  PROVE  ExtractsIntoCommittedSection'
<1> SUFFICES ASSUME NEW q \in Runners, pc'[q] = "extract"
             PROVE  row'[slot'[q]][VersionOf[q]] # "absent"
  BY DEF ExtractsIntoCommittedSection
<1>0. TypeOK /\ slot[q] \in Slots /\ VersionOf[q] \in Versions
  BY DEF LineageInv, TypeOK
<1>1. CASE pc[q] = "extract"
  <2>1. slot'[q] = slot[q]
    BY <1>0, <1>1 DEF Next, Step, vars, Goto, ProcessSection, FindSection, Begin,
         BeginTimesOut, FindActiveSection, AddSection, SupersedeSection, Commit,
         Rollback, Return, Crash, TypeOK
  <2>2. row[slot[q]][VersionOf[q]] # "absent"
    BY <1>1 DEF LineageInv, ExtractsIntoCommittedSection
  <2> QED
    BY <1>0, <2>1, <2>2, RowsStay
<1>2. CASE pc[q] # "extract"
  <2>1. FindSection(q) \/ Commit(q)
    BY <1>0, <1>2 DEF Next, Step, vars, Goto, ProcessSection, FindSection, Begin,
         BeginTimesOut, FindActiveSection, AddSection, SupersedeSection, Commit,
         Rollback, Return, Crash, TypeOK
  <2>2. CASE FindSection(q)
    BY <1>0, <2>2 DEF FindSection, Goto, TypeOK
  <2>3. CASE Commit(q)
    <3>1. slot' = slot
      BY <2>3 DEF Commit
    <3> QED
      BY <2>3, <3>1, CommitEffect
  <2> QED
    BY <2>1, <2>2, <2>3
<1> QED
  BY <1>1, <1>2

-----------------------------------------------------------------------------
\* LineageInv is inductive, hence true in every reachable state.
THEOREM LineageInvariant == Spec => []LineageInv
<1>1. Init => LineageInv
  BY LineageInit
<1>2. LineageInv /\ [Next]_vars => LineageInv'
  <2> SUFFICES ASSUME LineageInv, [Next]_vars
               PROVE  LineageInv'
    OBVIOUS
  <2>1. TypeOK' /\ LockMatchesTransaction'
    BY LineageTypes, LockStep DEF LineageInv
  <2>2. AtMostOneParsed' /\ SupersededHasSuccessor'
    BY LineageSafetyStep
  <2>3. ExtractsIntoCommittedSection'
    BY ExtractStep
  <2>4. \A r \in Runners : TransactionSoFar(r)'
    BY TransactionStep
  <2> QED
    BY <2>1, <2>2, <2>3, <2>4 DEF LineageInv
<1> QED
  BY <1>1, <1>2, PTL DEF Spec

\* Type correctness of the section table, the lock and the runners.
THEOREM LineageTypeCorrect == Spec => []TypeOK
<1>1. LineageInv => TypeOK
  BY DEF LineageInv
<1> QED
  BY <1>1, LineageInvariant, PTL

\* ADR-0047's invariant: whatever number of runners of whatever versions, a
\* slot never has two committed sections with status 'parsed'.
THEOREM LineageUnique == Spec => []AtMostOneParsed
<1>1. LineageInv => AtMostOneParsed
  BY DEF LineageInv
<1> QED
  BY <1>1, LineageInvariant, PTL

\* No slot is ever left with superseded sections only.
THEOREM LineageSuccessor == Spec => []SupersededHasSuccessor
<1>1. LineageInv => SupersededHasSuccessor
  BY DEF LineageInv
<1> QED
  BY <1>1, LineageInvariant, PTL

\* Records are extracted only into committed sections of the runner's version.
THEOREM LineageExtract == Spec => []ExtractsIntoCommittedSection
<1>1. LineageInv => ExtractsIntoCommittedSection
  BY DEF LineageInv
<1> QED
  BY <1>1, LineageInvariant, PTL

\* The replacement of one parsed section by another is a single commit.
THEOREM LineageHandover == Spec => HandoverIsAtomic
<1> DEFINE Handover ==
      \A s \in Slots, v \in Versions :
          row[s][v] = "parsed" /\ row'[s][v] # "parsed"
              => /\ row'[s][v] = "superseded"
                 /\ \E w \in Versions :
                        row[s][w] = "absent" /\ row'[s][w] = "parsed"
<1>1. LineageInv /\ [Next]_vars => [Handover]_row
  <2> SUFFICES ASSUME LineageInv, [Next]_vars, row' # row
               PROVE  Handover
    OBVIOUS
  <2>1. PICK r \in Runners : Commit(r)
    BY OnlyCommitWrites
  <2>2. row[slot[r]][VersionOf[r]] = "absent"
        /\ row'[slot[r]][VersionOf[r]] = "parsed" /\ VersionOf[r] \in Versions
    BY <2>1, CommitEffect
  <2> QED
    BY <2>1, <2>2, CommitEffect
<1>2. [][Handover]_row <=> HandoverIsAtomic
  BY DEF HandoverIsAtomic
<1> QED
  BY <1>1, <1>2, LineageInvariant, PTL DEF Spec

-----------------------------------------------------------------------------
\* In force is what is parsed, when anything is.
LEMMA InForceIsParsed ==
  ASSUME AtMostOneParsed, NEW s \in Slots, NEW v \in Versions,
         row[s][v] = "parsed"
  PROVE  InForce(s) = v
BY DEF InForce, AtMostOneParsed

\* With nothing parsed, nothing is in force.
LEMMA NothingInForce ==
  ASSUME NEW s \in Slots, \A v \in Versions : row[s][v] # "parsed"
  PROVE  InForce(s) = NoVersion
BY DEF InForce

\* A commit is an Adopt of the ledger, for the runner's slot and version.
LEMMA CommitAdopts ==
  ASSUME LineageInv, LineageInv', NEW r \in Runners, Commit(r)
  PROVE  Ledger!Adopt(slot[r], VersionOf[r])
<1> DEFINE t == slot[r]
           n == VersionOf[r]
<1>1. /\ t \in Slots /\ n \in Versions
      /\ row[t][n] = "absent" /\ row'[t][n] = "parsed"
      /\ AtMostOneParsed /\ AtMostOneParsed'
  BY CommitEffect DEF LineageInv
<1>2. InForce(t) = old[r] /\ n # old[r]
      /\ old[r] \in Versions \union {NoVersion}
  <2>1. old[r] \in Versions \union {NoVersion}
    BY DEF LineageInv, TypeOK
  <2>2. CASE old[r] = NoVersion
    BY <1>1, <2>2, CommitEffect, NothingInForce DEF OldIsCurrent
  <2>3. CASE old[r] # NoVersion
    BY <1>1, <2>1, <2>3, CommitEffect, InForceIsParsed DEF OldIsCurrent
  <2> QED
    BY <2>1, <2>2, <2>3
<1>3. activeBar' = [activeBar EXCEPT ![t] = n]
  <2>1. ASSUME NEW s \in Slots, s = t
        PROVE  (InForce(s))' = n
    <3>1. \A v \in Versions : row'[s][v] = "parsed" <=> v = n
      BY <1>1, <2>1 DEF AtMostOneParsed
    <3> QED
      BY <1>1, <3>1 DEF InForce
  <2>2. ASSUME NEW s \in Slots, s # t
        PROVE  (InForce(s))' = InForce(s)
    <3>1. \A v \in Versions : row'[s][v] = row[s][v]
      BY <2>2, CommitEffect
    <3> QED
      BY <3>1 DEF InForce
  <2> HIDE DEF t, n
  <2>3. activeBar' = [s \in Slots |-> IF s = t THEN n ELSE InForce(s)]
    BY <2>1, <2>2 DEF activeBar
  <2> QED
    BY <1>1, <2>3 DEF activeBar
<1>4. retiredBar' = [retiredBar EXCEPT ![t] = @ \union ({activeBar[t]} \ {NoVersion})]
  <2>1. ASSUME NEW s \in Slots, s = t
        PROVE  {v \in Versions : row'[s][v] = "superseded"}
          = {v \in Versions : row[s][v] = "superseded"}
              \union ({old[r]} \ {NoVersion})
    BY <1>1, <1>2, <2>1, CommitEffect
  <2>2. ASSUME NEW s \in Slots, s # t
        PROVE  {v \in Versions : row'[s][v] = "superseded"}
                 = {v \in Versions : row[s][v] = "superseded"}
    BY <2>2, CommitEffect
  <2>3. activeBar[t] = old[r]
    BY <1>1, <1>2 DEF activeBar
  <2> HIDE DEF t, n
  <2>4. retiredBar' = [s \in Slots |->
                         IF s = t
                         THEN {v \in Versions : row[s][v] = "superseded"}
                                \union ({old[r]} \ {NoVersion})
                         ELSE {v \in Versions : row[s][v] = "superseded"}]
    BY <2>1, <2>2 DEF retiredBar
  <2> QED
    BY <1>1, <2>3, <2>4 DEF retiredBar
<1>5. n # activeBar[t] /\ n \notin retiredBar[t]
  BY <1>1, <1>2 DEF activeBar, retiredBar
<1> QED
  BY <1>3, <1>4, <1>5 DEF Ledger!Adopt

\* The committed table implements the ledger: every step of every runner is an
\* Adopt or leaves active and retired unchanged.
THEOREM LineageRefinesLedger == Spec => ImplementsLedger
<1>1. Init => Ledger!LedgerInit
  BY DEF Init, Ledger!LedgerInit, activeBar, retiredBar, InForce
<1>2. LineageInv /\ LineageInv' /\ [Next]_vars => [Ledger!LedgerNext]_(Ledger!ledgerVars)
  <2> SUFFICES ASSUME LineageInv, LineageInv', [Next]_vars
               PROVE  [Ledger!LedgerNext]_(Ledger!ledgerVars)
    OBVIOUS
  <2>1. CASE row' = row
    <3>1. activeBar' = activeBar /\ retiredBar' = retiredBar
      BY <2>1 DEF activeBar, retiredBar, InForce
    <3> QED
      BY <3>1 DEF Ledger!ledgerVars
  <2>2. ASSUME NEW r \in Runners, Commit(r)
        PROVE  Ledger!LedgerNext
    <3>1. slot[r] \in Slots /\ VersionOf[r] \in Versions
      BY <2>2, CommitEffect
    <3> QED
      BY <2>2, <3>1, CommitAdopts DEF Ledger!LedgerNext
  <2> QED
    BY <2>1, <2>2, OnlyCommitWrites
<1> QED
  BY <1>1, <1>2, LineageInvariant, PTL DEF Spec, ImplementsLedger, Ledger!LedgerSpec
=============================================================================
