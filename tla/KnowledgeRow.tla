---------------------------- MODULE KnowledgeRow ----------------------------
(***************************************************************************)
(* The statements internal/application/repository/knowledge.go runs on one *)
(* row of the knowledges table, as functions from the row to the row. Each *)
(* is one UPDATE, so a step of the pipeline applies at most one of them.   *)
(*                                                                         *)
(* gone is deleted_at IS NOT NULL: every query through the model hides     *)
(* such a row, and Save omits deleted_at, so nothing ever brings it back   *)
(* and its other columns stop mattering.                                   *)
(***************************************************************************)
EXTENDS Integers

Statuses == {"pending", "processing", "finalizing", "completed", "failed",
             "cancelled", "deleting"}
Active   == {"pending", "processing", "finalizing"}
Aborted  == {"cancelled", "deleting"}

NewRow == [status |-> "pending", count |-> 0, gone |-> FALSE]

Has(r, statuses) == ~r.gone /\ r.status \in statuses

(* UpdateKnowledge: Save of the whole struct, parse_status included, in      *)
(* whatever state the row is by now; only pending_subtasks_count is omitted. *)
Saved(r, status) == IF r.gone THEN r ELSE [r EXCEPT !.status = status]

ZeroCount(r) == IF r.gone THEN r ELSE [r EXCEPT !.count = 0]

(* Mutant: the decrement forgets pending_subtasks_count > 0. *)
DecrementedBelowZero(r) == IF r.gone THEN r ELSE [r EXCEPT !.count = @ - 1]

(* FinalizeSubtask, first statement: WHERE pending_subtasks_count > 0. *)
Decremented(r) == IF ~r.gone /\ r.count > 0 THEN [r EXCEPT !.count = @ - 1] ELSE r

(* Mutant: the promotion forgets parse_status = 'finalizing'. *)
PromotedFromAny(r) == IF ~r.gone /\ r.count = 0 THEN [r EXCEPT !.status = "completed"] ELSE r

(* Mutant: the promotion forgets pending_subtasks_count = 0. *)
PromotedEarly(r) == IF Has(r, {"finalizing"}) THEN [r EXCEPT !.status = "completed"] ELSE r

(* FinalizeSubtask, second statement: the guarded promotion. *)
CanPromote(r) == Has(r, {"finalizing"}) /\ r.count = 0
Promoted(r) == IF CanPromote(r) THEN [r EXCEPT !.status = "completed"] ELSE r

(* SetFinalizing and CompleteProcessingWithoutSubtasks, WHERE parse_status = *)
(* 'processing'.                                                             *)
HandedOff(r, n) ==
    IF Has(r, {"processing"}) THEN [r EXCEPT !.status = "finalizing", !.count = n] ELSE r
CompletedAtOnce(r) ==
    IF Has(r, {"processing"}) THEN [r EXCEPT !.status = "completed", !.count = 0] ELSE r

(* CancelKnowledgeParse's UpdateKnowledgeColumns: by id only. *)
CancelledByUser(r) == IF r.gone THEN r ELSE [r EXCEPT !.status = "cancelled", !.count = 0]

(* UpdateKnowledgeForTransfer, a compare-and-swap on the row just read: the  *)
(* dead-letter callback, and the delete.                                     *)
FailedIfActive(r) == IF Has(r, Active) THEN [r EXCEPT !.status = "failed"] ELSE r
MarkedDeleting(r) == IF r.gone THEN r ELSE [r EXCEPT !.status = "deleting"]

(* Housekeeping's guarded updates, sweep A and sweep C. *)
SweptStuck(r) ==
    IF Has(r, Active) THEN [r EXCEPT !.status = "failed", !.count = 0] ELSE r
SweptDelete(r) == IF Has(r, {"deleting"}) THEN [r EXCEPT !.status = "failed"] ELSE r

(* DeleteKnowledgeList: the soft delete. *)
Removed(r) == [r EXCEPT !.gone = TRUE]
=============================================================================
