----------------------------- MODULE TableView -----------------------------
(***************************************************************************)
(* What the screens rely on from UITableView (UIKit, outside src/).  The   *)
(* table keeps the row counts it was last told; a batch of edits between   *)
(* beginUpdates and endUpdates must explain, section by section, how those *)
(* counts become the ones the data source reports at endUpdates.           *)
(* Otherwise UIKit raises NSInternalInconsistencyException and the process *)
(* dies.  A table is a sequence of row counts; its first section, number 0 *)
(* in the code, is at position 1.                                          *)
(***************************************************************************)
EXTENDS Naturals, FiniteSets, Sequences

\* The edits of one section: row numbers before (deletions, reloads) and
\* after (insertions) the update.
Batch == [deletions : SUBSET Nat, insertions : SUBSET Nat, reloads : SUBSET Nat]

Untouched(batch) == batch.deletions \cup batch.insertions \cup batch.reloads = {}

\* Every edit names a row the table has (deletions, reloads) or will have.
EditsInRange(before, after, section, batch) ==
  /\ section \in DOMAIN before
  /\ \A r \in batch.deletions \cup batch.reloads : r < before[section]
  /\ \A r \in batch.insertions : r < after[section]
  /\ batch.deletions \cap batch.reloads = {}

\* The number of sections is unchanged and each section's count adds up.
CountsAddUp(before, after, section, batch) ==
  /\ DOMAIN before = DOMAIN after
  /\ \A s \in DOMAIN after :
       IF s = section
       THEN after[s] + Cardinality(batch.deletions)
              = before[s] + Cardinality(batch.insertions)
       ELSE after[s] = before[s]

\* Does endUpdates accept the batch made to one section?
Accepts(before, after, section, batch) ==
  /\ Untouched(batch) \/ EditsInRange(before, after, section, batch)
  /\ CountsAddUp(before, after, section, batch)
=============================================================================
