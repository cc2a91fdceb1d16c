------------------------- MODULE DbTransfer_proofs -------------------------
(***************************************************************************)
(* Proofs about DbTransfer for any number of runs and faults: what holds   *)
(* on any machines together, what on one machine of any kind, and what on  *)
(* the one machine of the scheduled workflow.                              *)
(***************************************************************************)
EXTENDS DbTransfer, TLAPS

USE BoundsType, WorkflowIsNoOperator

-----------------------------------------------------------------------------
(* The files.                                                              *)

\* What the kind of a file says of it.
LEMMA FileKinds ==
  /\ NoFile.kind = "none" /\ Empty.kind = "empty" /\ Torn.kind = "torn"
  /\ NoFile.runs = {} /\ Empty.runs = {} /\ Torn.runs = {}
  /\ \A S : Db(S).kind = "db" /\ Db(S).runs = S
  /\ \A f \in Files : f.kind = "none" <=> f = NoFile
  /\ \A f \in Files : f.kind = "db" \/ f.runs = {}
<1>1. /\ NoFile.kind = "none" /\ Empty.kind = "empty" /\ Torn.kind = "torn"
      /\ NoFile.runs = {} /\ Empty.runs = {} /\ Torn.runs = {}
  BY DEF NoFile, Empty, Torn
<1>2. \A S : Db(S).kind = "db" /\ Db(S).runs = S
  BY DEF Db
<1> QED
  BY <1>1, <1>2 DEF Files

-----------------------------------------------------------------------------
(* Any machines.                                                           *)

\* No run is in any file at first.
LEMMA TransferInit == Init => TypeOK
<1>1. Db({}) \in Files
  BY DEF Files
<1>2. NoFile \in Files
  BY DEF Files
<1> QED
  BY <1>1, <1>2 DEF Init, TypeOK, Names

\* Types are preserved by every step of every machine.
LEMMA TransferTypes ==
  ASSUME TypeOK, [Next]_vars
  PROVE  TypeOK'
<1>0. /\ NoFile \in Files /\ Empty \in Files /\ Torn \in Files
      /\ \A S \in SUBSET (1 .. MaxRuns) : Db(S) \in Files
  BY DEF Files
<1> USE DEF TypeOK, Names, Hosts, Goto, After, Rename
<1>1. ASSUME NEW h \in Workflows, StartWorkflow(h)
      PROVE  TypeOK'
  BY <1>0, <1>1 DEF StartWorkflow
<1>2. ASSUME NEW h \in Operators, StartCommand(h)
      PROVE  TypeOK'
  BY <1>0, <1>2 DEF StartCommand
<1>3. ASSUME NEW h \in Hosts, Open(h)
      PROVE  TypeOK'
  BY <1>0, <1>3 DEF Open
<1>4. ASSUME NEW h \in Hosts, Retrieve(h)
      PROVE  TypeOK'
  BY <1>0, <1>4 DEF Retrieve
<1>5. ASSUME NEW h \in Hosts, RetrieveFails(h)
      PROVE  TypeOK'
  BY <1>0, <1>5 DEF RetrieveFails
<1>6. ASSUME NEW h \in Hosts, RunPipeline(h)
      PROVE  TypeOK'
  <2>1. local[h] \in Files /\ local[h].kind = "db"
    BY <1>6 DEF RunPipeline
  <2>2. local[h].runs \subseteq 1 .. MaxRuns
    <3>1. local[h] \notin {NoFile, Empty, Torn}
      BY <2>1 DEF NoFile, Empty, Torn
    <3>2. PICK S \in SUBSET (1 .. MaxRuns) : local[h] = Db(S)
      BY <2>1, <3>1 DEF Files
    <3> QED
      BY <3>2 DEF Db
  <2>3. runs' \in 0 .. MaxRuns /\ (runs' # runs => runs' \in 1 .. MaxRuns)
    BY <1>6 DEF RunPipeline
  <2>4. runs' # runs => local' = [local EXCEPT ![h] = Db(local[h].runs \union {runs'})]
    BY <1>6 DEF RunPipeline
  <2>5. runs' = runs => local' = local
    BY <1>6 DEF RunPipeline
  <2>6. runs' # runs => Db(local[h].runs \union {runs'}) \in Files
    BY <1>0, <2>2, <2>3
  <2>7. /\ local' \in [Hosts -> Files]
        /\ pc' \in [Hosts -> {"free", "connect_down", "retrieve", "trigger", "check",
                              "store", "storing", "find_db", "find_bak", "delete_bak",
                              "back_up", "publish"}]
    BY <1>6, <2>4, <2>5, <2>6 DEF RunPipeline
  <2> QED
    BY <1>6, <2>3, <2>7 DEF RunPipeline
<1>7. ASSUME NEW h \in Hosts, RunPipelineFails(h)
      PROVE  TypeOK'
  BY <1>0, <1>7 DEF RunPipelineFails
<1>8. ASSUME NEW h \in Hosts, Check(h)
      PROVE  TypeOK'
  BY <1>0, <1>8 DEF Check
<1>9. ASSUME NEW h \in Hosts, Store(h)
      PROVE  TypeOK'
  BY <1>0, <1>9 DEF Store
<1>10. ASSUME NEW h \in Hosts, Stored(h)
      PROVE  TypeOK'
  BY <1>0, <1>10 DEF Stored
<1>11. ASSUME NEW h \in Hosts, FindDb(h)
      PROVE  TypeOK'
  BY <1>0, <1>11 DEF FindDb
<1>12. ASSUME NEW h \in Hosts, FindBak(h)
      PROVE  TypeOK'
  BY <1>0, <1>12 DEF FindBak
<1>13. ASSUME NEW h \in Hosts, DeleteBak(h)
      PROVE  TypeOK'
  BY <1>0, <1>13 DEF DeleteBak
<1>14. ASSUME NEW h \in Hosts, BackUp(h)
      PROVE  TypeOK'
  BY <1>0, <1>14 DEF BackUp
<1>15. ASSUME NEW h \in Hosts, Publish(h)
      PROVE  TypeOK'
  BY <1>0, <1>15 DEF Publish
<1>16. ASSUME NEW h \in Hosts, Refused(h)
      PROVE  TypeOK'
  BY <1>0, <1>16 DEF Refused
<1>17. ASSUME NEW h \in Hosts, FindMisreports(h)
      PROVE  TypeOK'
  BY <1>0, <1>17 DEF FindMisreports
<1>18. ASSUME NEW h \in Hosts, Fail(h)
      PROVE  TypeOK'
  BY <1>0, <1>18 DEF Fail
<1>19. CASE UNCHANGED vars
  BY <1>19 DEF vars
<1> QED
  BY <1>1, <1>2, <1>3, <1>4, <1>5, <1>6, <1>7, <1>8, <1>9,
     <1>10, <1>11, <1>12, <1>13, <1>14, <1>15, <1>16, <1>17, <1>18, <1>19
     DEF Next, Step

\* However many machines upload at once, the published file leaves its name only by
\* the rename that makes it the backup.
LEMMA DbStep ==
  ASSUME TypeOK, [Next]_vars, Exists("db"), remote'["db"] # remote["db"]
  PROVE  remote'["db"] = NoFile /\ remote'["bak"] = remote["db"]
<1> DEFINE Moved == remote'["db"] = NoFile /\ remote'["bak"] = remote["db"]
<1>1. ASSUME NEW h \in Hosts, BackUp(h)
      PROVE  Moved
  BY <1>1 DEF BackUp, Rename, TypeOK, Names
<1>2. ASSUME NEW h \in Hosts, Publish(h)
      PROVE  FALSE
  BY <1>2 DEF Publish, Rename
<1>3. ASSUME NEW h \in Hosts, Store(h) \/ Stored(h) \/ DeleteBak(h)
      PROVE  remote'["db"] = remote["db"]
  BY <1>3 DEF Store, Stored, DeleteBak, TypeOK, Names
<1>4. remote' = remote \/ \E h \in Hosts :
         BackUp(h) \/ Publish(h) \/ Store(h) \/ Stored(h) \/ DeleteBak(h)
  BY DEF Next, Step, vars, StartWorkflow, StartCommand, Open, Retrieve, RetrieveFails,
     RunPipeline, RunPipelineFails, Check, FindDb, FindBak, Refused, FindMisreports, Fail
<1> QED
  BY <1>1, <1>2, <1>3, <1>4

\* Type correctness of the files, the machines and the bounds.
THEOREM TransferTypeCorrect == Spec => []TypeOK
BY TransferInit, TransferTypes, PTL DEF Spec

\* On any machines together, an upload moves the published file to the backup's
\* name before anything else takes its own.
THEOREM UploadKeepsBackup == Spec => RemovedIntoBackup
<1> DEFINE Kept == Exists("db") /\ remote'["db"] # remote["db"]
                      => /\ remote'["db"]  = NoFile
                         /\ remote'["bak"] = remote["db"]
<1>1. TypeOK /\ [Next]_vars => [Kept]_vars
  BY DbStep
<1>2. [][Kept]_vars <=> RemovedIntoBackup
  BY DEF RemovedIntoBackup
<1> QED
  BY <1>1, <1>2, TransferTypeCorrect, PTL DEF Spec

-----------------------------------------------------------------------------
(* One machine, the workflow's or an operator's.                           *)

OneMachine == \A g, h \in Hosts : g = h

Renaming == {"find_db", "find_bak", "delete_bak", "back_up", "publish"}

\* What is being stored has passed the check, and what is stored is what was
\* checked: nobody else uses the temporary name.
UploadInv ==
    /\ TypeOK
    /\ NeverTorn
    /\ \A h \in Hosts :
          /\ pc[h] \in {"store", "storing"} => local[h] # Torn
          /\ pc[h] \in Renaming => remote["uploading"] # Torn

\* A step of the one machine preserves what the transfer relies on.
LEMMA UploadStep ==
  ASSUME OneMachine, UploadInv, [Next]_vars
  PROVE  UploadInv'
<1>0. /\ TypeOK /\ TypeOK' /\ NeverTorn
      /\ \A h \in Hosts : /\ pc[h] \in {"store", "storing"} => local[h] # Torn
                          /\ pc[h] \in Renaming => remote["uploading"] # Torn
      /\ NoFile # Torn
  BY TransferTypes, FileKinds DEF UploadInv
<1> USE DEF UploadInv, NeverTorn, OneMachine, Renaming, Goto, After, Hosts
<1> SUFFICES /\ NeverTorn'
             /\ \A h \in Hosts :
                   /\ pc'[h] \in {"store", "storing"} => local'[h] # Torn
                   /\ pc'[h] \in Renaming => remote'["uploading"] # Torn
  BY <1>0
<1> DEFINE Kept ==
      /\ NeverTorn'
      /\ \A g \in Hosts : /\ pc'[g] \in {"store", "storing"} => local'[g] # Torn
                          /\ pc'[g] \in Renaming => remote'["uploading"] # Torn
<1>1. ASSUME NEW h \in Workflows, StartWorkflow(h)
      PROVE  Kept
  BY <1>0, <1>1 DEF StartWorkflow, Rename, TypeOK, Names
<1>2. ASSUME NEW h \in Operators, StartCommand(h)
      PROVE  Kept
  BY <1>0, <1>2 DEF StartCommand, Rename, TypeOK, Names
<1>3. ASSUME NEW h \in Hosts, Open(h)
      PROVE  Kept
  BY <1>0, <1>3 DEF Open, Rename, TypeOK, Names
<1>4. ASSUME NEW h \in Hosts, Retrieve(h)
      PROVE  Kept
  BY <1>0, <1>4 DEF Retrieve, Rename, TypeOK, Names
<1>5. ASSUME NEW h \in Hosts, RetrieveFails(h)
      PROVE  Kept
  BY <1>0, <1>5 DEF RetrieveFails, Rename, TypeOK, Names
<1>6. ASSUME NEW h \in Hosts, RunPipeline(h)
      PROVE  Kept
  BY <1>0, <1>6 DEF RunPipeline, Rename, TypeOK, Names
<1>7. ASSUME NEW h \in Hosts, RunPipelineFails(h)
      PROVE  Kept
  BY <1>0, <1>7 DEF RunPipelineFails, Rename, TypeOK, Names
<1>8. ASSUME NEW h \in Hosts, Check(h)
      PROVE  Kept
  BY <1>0, <1>8 DEF Check, Rename, TypeOK, Names
<1>9. ASSUME NEW h \in Hosts, Store(h)
      PROVE  Kept
  BY <1>0, <1>9 DEF Store, Rename, TypeOK, Names
<1>10. ASSUME NEW h \in Hosts, Stored(h)
      PROVE  Kept
  BY <1>0, <1>10 DEF Stored, Rename, TypeOK, Names
<1>11. ASSUME NEW h \in Hosts, FindDb(h)
      PROVE  Kept
  BY <1>0, <1>11 DEF FindDb, Rename, TypeOK, Names
<1>12. ASSUME NEW h \in Hosts, FindBak(h)
      PROVE  Kept
  BY <1>0, <1>12 DEF FindBak, Rename, TypeOK, Names
<1>13. ASSUME NEW h \in Hosts, DeleteBak(h)
      PROVE  Kept
  BY <1>0, <1>13 DEF DeleteBak, Rename, TypeOK, Names
<1>14. ASSUME NEW h \in Hosts, BackUp(h)
      PROVE  Kept
  BY <1>0, <1>14 DEF BackUp, Rename, TypeOK, Names
<1>15. ASSUME NEW h \in Hosts, Publish(h)
      PROVE  Kept
  BY <1>0, <1>15 DEF Publish, Rename, TypeOK, Names
<1>16. ASSUME NEW h \in Hosts, Refused(h)
      PROVE  Kept
  BY <1>0, <1>16 DEF Refused, Rename, TypeOK, Names
<1>17. ASSUME NEW h \in Hosts, FindMisreports(h)
      PROVE  Kept
  BY <1>0, <1>17 DEF FindMisreports, Rename, TypeOK, Names
<1>18. ASSUME NEW h \in Hosts, Fail(h)
      PROVE  Kept
  BY <1>0, <1>18 DEF Fail, Rename, TypeOK, Names
<1>19. CASE UNCHANGED vars
  BY <1>0, <1>19 DEF vars, TypeOK
<1> QED
  BY <1>1, <1>2, <1>3, <1>4, <1>5, <1>6, <1>7, <1>8, <1>9,
     <1>10, <1>11, <1>12, <1>13, <1>14, <1>15, <1>16, <1>17, <1>18, <1>19
     DEF Next, Step

\* A transfer of the one machine that breaks off, however often, leaves neither the
\* published file nor the backup torn.
THEOREM UploadNeverTears ==
  ASSUME OneMachine
  PROVE  Spec => []NeverTorn
<1>1. Init => UploadInv
  <2>1. Init => TypeOK
    BY TransferInit
  <2> QED
    BY <2>1, FileKinds DEF Init, UploadInv, NeverTorn, Renaming, Names
<1>2. UploadInv /\ [Next]_vars => UploadInv'
  BY UploadStep
<1>3. UploadInv => NeverTorn
  BY DEF UploadInv
<1> QED
  BY <1>1, <1>2, <1>3, PTL DEF Spec

-----------------------------------------------------------------------------
(* The scheduled workflow, alone as its concurrency group keeps it.        *)

ScheduledAlone == Operators = {} /\ OneMachine

Working   == {"trigger", "check", "store", "storing"}
Replacing == {"find_bak", "delete_bak", "back_up"}

\* The runs a reader finds in what is published, or in the backup while nothing is.
PublishedRuns ==
    remote["db"].runs \union (IF Exists("db") THEN {} ELSE remote["bak"].runs)

\* The workflow works on what it has downloaded and stores what it has worked on,
\* and it replaces the published file only when it has seen one.
WorkflowInv ==
    /\ TypeOK
    /\ PublishedIsDatabase
    /\ BackupStandsIn
    /\ \A h \in Hosts :
          /\ pc[h] \in Working =>
                local[h].kind = "db" /\ PublishedRuns \subseteq local[h].runs
          /\ pc[h] \in Renaming =>
                remote["uploading"].kind = "db"
                /\ PublishedRuns \subseteq remote["uploading"].runs
          /\ pc[h] \in Replacing => Exists("db")

\* The workflow begins with a published database.
LEMMA WorkflowInit == Init => WorkflowInv
<1> SUFFICES ASSUME Init
             PROVE  WorkflowInv
  OBVIOUS
<1>1. TypeOK
  BY TransferInit
<1>2. remote["db"] = Db({}) /\ \A h \in Hosts : pc[h] = "free"
  BY DEF Init, Names
<1>3. PublishedIsDatabase /\ BackupStandsIn
  BY <1>2, FileKinds DEF PublishedIsDatabase, BackupStandsIn
<1> QED
  BY <1>1, <1>2, <1>3 DEF WorkflowInv, Working, Renaming, Replacing

\* Between its download and its last rename the workflow is the only one to change
\* the files, so what it has seen of them is still true.
LEMMA WorkflowStep ==
  ASSUME ScheduledAlone, WorkflowInv, [Next]_vars
  PROVE  /\ WorkflowInv'
         /\ \A n \in PublishedRuns :
               \/ n \in remote'["db"].runs
               \/ remote'["db"] = NoFile /\ n \in remote'["bak"].runs
<1> DEFINE PcInv ==
      \A g \in Hosts :
          /\ pc[g] \in Working =>
                local[g].kind = "db" /\ PublishedRuns \subseteq local[g].runs
          /\ pc[g] \in Renaming =>
                remote["uploading"].kind = "db"
                /\ PublishedRuns \subseteq remote["uploading"].runs
          /\ pc[g] \in Replacing => Exists("db")
<1> DEFINE RunsStay ==
      \A n \in PublishedRuns :
         \/ n \in remote'["db"].runs
         \/ remote'["db"] = NoFile /\ n \in remote'["bak"].runs
<1> DEFINE Kept == PcInv' /\ RunsStay /\ PublishedIsDatabase' /\ BackupStandsIn'
<1>0. /\ TypeOK /\ TypeOK' /\ PublishedIsDatabase /\ BackupStandsIn /\ PcInv
      /\ \A g, h \in Hosts : g = h
      /\ Hosts = Workflows
      /\ NoFile.kind = "none" /\ NoFile.runs = {}
      /\ remote["db"] \in Files /\ remote["bak"] \in Files /\ remote["uploading"] \in Files
      /\ \A h \in Hosts : local[h] \in Files
      /\ \A f \in Files : f.kind = "none" <=> f = NoFile
      /\ \A f \in Files : f.kind = "db" \/ f.runs = {}
  BY TransferTypes, FileKinds DEF WorkflowInv, ScheduledAlone, OneMachine, Hosts, TypeOK, Names
<1> SUFFICES Kept
  BY <1>0 DEF WorkflowInv
<1> USE DEF PublishedIsDatabase, BackupStandsIn, PublishedRuns, Exists, Working, Renaming,
        Replacing, Goto, After
<1>1. ASSUME NEW h \in Workflows, StartWorkflow(h)
      PROVE  Kept
  <2>1. UNCHANGED remote
    BY <1>1 DEF StartWorkflow
  <2>2. RunsStay /\ PublishedIsDatabase' /\ BackupStandsIn' /\ PublishedRuns' = PublishedRuns
    BY <1>0, <2>1
  <2>3. PcInv'
    BY <1>0, <1>1, <2>1, <2>2 DEF StartWorkflow, TypeOK
  <2> QED
    BY <2>2, <2>3
<1>2. ASSUME NEW h \in Operators, StartCommand(h)
      PROVE  Kept
  BY <1>0, <1>2 DEF Hosts, ScheduledAlone
<1>3. ASSUME NEW h \in Hosts, Open(h)
      PROVE  Kept
  <2>1. UNCHANGED remote
    BY <1>3 DEF Open
  <2>2. RunsStay /\ PublishedIsDatabase' /\ BackupStandsIn' /\ PublishedRuns' = PublishedRuns
    BY <1>0, <2>1
  <2>3. PcInv'
    BY <1>0, <1>3, <2>1, <2>2 DEF Open, TypeOK
  <2> QED
    BY <2>2, <2>3
<1>4. ASSUME NEW h \in Hosts, Retrieve(h)
      PROVE  Kept
  <2>1. UNCHANGED remote
    BY <1>4 DEF Retrieve
  <2>2. RunsStay /\ PublishedIsDatabase' /\ BackupStandsIn' /\ PublishedRuns' = PublishedRuns
    BY <1>0, <2>1
  <2>3. PcInv'
    BY <1>0, <1>4, <2>1, <2>2 DEF Retrieve, TypeOK
  <2> QED
    BY <2>2, <2>3
<1>5. ASSUME NEW h \in Hosts, RetrieveFails(h)
      PROVE  Kept
  <2>1. UNCHANGED remote
    BY <1>5 DEF RetrieveFails
  <2>2. RunsStay /\ PublishedIsDatabase' /\ BackupStandsIn' /\ PublishedRuns' = PublishedRuns
    BY <1>0, <2>1
  <2>3. PcInv'
    BY <1>0, <1>5, <2>1, <2>2 DEF RetrieveFails, TypeOK
  <2> QED
    BY <2>2, <2>3
<1>6. ASSUME NEW h \in Hosts, RunPipeline(h)
      PROVE  Kept
  <2>1. UNCHANGED remote
    BY <1>6 DEF RunPipeline
  <2>2. RunsStay /\ PublishedIsDatabase' /\ BackupStandsIn' /\ PublishedRuns' = PublishedRuns
    BY <1>0, <2>1
  <2>3. local'[h].kind = "db" /\ local[h].runs \subseteq local'[h].runs
    BY <1>0, <1>6, FileKinds DEF RunPipeline, TypeOK
  <2>4. pc[h] = "trigger" /\ pc' = [pc EXCEPT ![h] = "check"]
    BY <1>0, <1>6 DEF RunPipeline
  <2>5. PcInv'
    BY <1>0, <2>1, <2>2, <2>3, <2>4 DEF TypeOK
  <2> QED
    BY <2>2, <2>5
<1>7. ASSUME NEW h \in Hosts, RunPipelineFails(h)
      PROVE  Kept
  <2>1. UNCHANGED remote
    BY <1>7 DEF RunPipelineFails
  <2>2. RunsStay /\ PublishedIsDatabase' /\ BackupStandsIn' /\ PublishedRuns' = PublishedRuns
    BY <1>0, <2>1
  <2>3. PcInv'
    BY <1>0, <1>7, <2>1, <2>2 DEF RunPipelineFails, TypeOK
  <2> QED
    BY <2>2, <2>3
<1>8. ASSUME NEW h \in Hosts, Check(h)
      PROVE  Kept
  <2>1. UNCHANGED remote
    BY <1>8 DEF Check
  <2>2. RunsStay /\ PublishedIsDatabase' /\ BackupStandsIn' /\ PublishedRuns' = PublishedRuns
    BY <1>0, <2>1
  <2>3. PcInv'
    BY <1>0, <1>8, <2>1, <2>2 DEF Check, TypeOK
  <2> QED
    BY <2>2, <2>3
<1>9. ASSUME NEW h \in Hosts, Store(h)
      PROVE  Kept
  BY <1>0, <1>9 DEF Store, Rename, TypeOK, Names
<1>10. ASSUME NEW h \in Hosts, Stored(h)
      PROVE  Kept
  BY <1>0, <1>10 DEF Stored, Rename, TypeOK, Names
<1>11. ASSUME NEW h \in Hosts, FindDb(h)
      PROVE  Kept
  <2>1. UNCHANGED remote
    BY <1>11 DEF FindDb
  <2>2. RunsStay /\ PublishedIsDatabase' /\ BackupStandsIn' /\ PublishedRuns' = PublishedRuns
    BY <1>0, <2>1
  <2>3. PcInv'
    BY <1>0, <1>11, <2>1, <2>2 DEF FindDb, TypeOK
  <2> QED
    BY <2>2, <2>3
<1>12. ASSUME NEW h \in Hosts, FindBak(h)
      PROVE  Kept
  <2>1. UNCHANGED remote
    BY <1>12 DEF FindBak
  <2>2. RunsStay /\ PublishedIsDatabase' /\ BackupStandsIn' /\ PublishedRuns' = PublishedRuns
    BY <1>0, <2>1
  <2>3. PcInv'
    BY <1>0, <1>12, <2>1, <2>2 DEF FindBak, TypeOK
  <2> QED
    BY <2>2, <2>3
<1>13. ASSUME NEW h \in Hosts, DeleteBak(h)
      PROVE  Kept
  BY <1>0, <1>13 DEF DeleteBak, Rename, TypeOK, Names
<1>14. ASSUME NEW h \in Hosts, BackUp(h)
      PROVE  Kept
  BY <1>0, <1>14 DEF BackUp, Rename, TypeOK, Names
<1>15. ASSUME NEW h \in Hosts, Publish(h)
      PROVE  Kept
  BY <1>0, <1>15 DEF Publish, Rename, TypeOK, Names
<1>16. ASSUME NEW h \in Hosts, Refused(h)
      PROVE  Kept
  <2>1. UNCHANGED remote
    BY <1>16 DEF Refused
  <2>2. RunsStay /\ PublishedIsDatabase' /\ BackupStandsIn' /\ PublishedRuns' = PublishedRuns
    BY <1>0, <2>1
  <2>3. PcInv'
    BY <1>0, <1>16, <2>1, <2>2 DEF Refused, TypeOK
  <2> QED
    BY <2>2, <2>3
<1>17. ASSUME NEW h \in Hosts, FindMisreports(h)
      PROVE  Kept
  <2>1. UNCHANGED remote
    BY <1>17 DEF FindMisreports
  <2>2. RunsStay /\ PublishedIsDatabase' /\ BackupStandsIn' /\ PublishedRuns' = PublishedRuns
    BY <1>0, <2>1
  <2>3. PcInv'
    BY <1>0, <1>17, <2>1, <2>2 DEF FindMisreports, TypeOK
  <2> QED
    BY <2>2, <2>3
<1>18. ASSUME NEW h \in Hosts, Fail(h)
      PROVE  Kept
  <2>1. UNCHANGED remote
    BY <1>18 DEF Fail
  <2>2. RunsStay /\ PublishedIsDatabase' /\ BackupStandsIn' /\ PublishedRuns' = PublishedRuns
    BY <1>0, <2>1
  <2>3. PcInv'
    BY <1>0, <1>18, <2>1, <2>2 DEF Fail, TypeOK
  <2> QED
    BY <2>2, <2>3
<1>19. CASE UNCHANGED vars
  BY <1>0, <1>19 DEF vars, TypeOK
<1> QED
  BY <1>1, <1>2, <1>3, <1>4, <1>5, <1>6, <1>7, <1>8, <1>9,
     <1>10, <1>11, <1>12, <1>13, <1>14, <1>15, <1>16, <1>17, <1>18, <1>19
     DEF Next, Step

\* WorkflowInv is inductive for the workflow alone.
THEOREM WorkflowInvariant ==
  ASSUME ScheduledAlone
  PROVE  Spec => []WorkflowInv
<1>1. WorkflowInv /\ [Next]_vars => WorkflowInv'
  BY WorkflowStep
<1> QED
  BY <1>1, WorkflowInit, PTL DEF Spec

\* However the workflow ends and is started again, what is published is a database.
THEOREM WorkflowPublishesDatabase ==
  ASSUME ScheduledAlone
  PROVE  Spec => []PublishedIsDatabase
<1>1. WorkflowInv => PublishedIsDatabase
  BY DEF WorkflowInv
<1> QED
  BY <1>1, WorkflowInvariant, PTL

\* While nothing is published, the backup is a database.
THEOREM WorkflowLeavesBackup ==
  ASSUME ScheduledAlone
  PROVE  Spec => []BackupStandsIn
<1>1. WorkflowInv => BackupStandsIn
  BY DEF WorkflowInv
<1> QED
  BY <1>1, WorkflowInvariant, PTL

\* What a pipeline run has published is in everything published later: the workflow
\* never uploads an older database over a newer one.
THEOREM WorkflowKeepsRuns ==
  ASSUME ScheduledAlone
  PROVE  Spec => PublishedRunsStay
<1> DEFINE Stay ==
      \A n \in remote["db"].runs \union (IF Exists("db") THEN {} ELSE remote["bak"].runs) :
         \/ n \in remote'["db"].runs
         \/ remote'["db"] = NoFile /\ n \in remote'["bak"].runs
<1>1. WorkflowInv /\ [Next]_vars => [Stay]_vars
  BY WorkflowStep DEF PublishedRuns
<1>2. [][Stay]_vars <=> PublishedRunsStay
  BY DEF PublishedRunsStay
<1> QED
  BY <1>1, <1>2, WorkflowInvariant, PTL DEF Spec
=============================================================================
