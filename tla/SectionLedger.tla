--------------------------- MODULE SectionLedger ---------------------------
(***************************************************************************)
(* What personnel_sections promises its readers, with no transaction, lock *)
(* or connection in sight: for every slot, that is for every               *)
(* (pdf_id, section_index), one parser version at most is in force, and a  *)
(* version that has been replaced is never put in force again.             *)
(* SectionLineage implements this module.                                  *)
(***************************************************************************)
CONSTANTS Slots, Versions, NoVersion

VARIABLES
    active,   \* per slot, the parser version whose section is in force
    retired   \* per slot, the parser versions whose section was superseded

ledgerVars == <<active, retired>>

LedgerInit ==
    /\ active  = [s \in Slots |-> NoVersion]
    /\ retired = [s \in Slots |-> {}]

\* The reparse of ADR-0047 (Case C) in one step: the section of a version that
\* was never in force takes over, and the one it replaces joins the retired.
Adopt(s, v) ==
    /\ v # active[s]
    /\ v \notin retired[s]
    /\ active'  = [active EXCEPT ![s] = v]
    /\ retired' = [retired EXCEPT ![s] = @ \union ({active[s]} \ {NoVersion})]

LedgerNext == \E s \in Slots, v \in Versions : Adopt(s, v)

LedgerSpec == LedgerInit /\ [][LedgerNext]_ledgerVars
=============================================================================
