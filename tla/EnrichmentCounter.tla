-------------------------- MODULE EnrichmentCounter --------------------------
(***************************************************************************)
(* What pending_subtasks_count promises, apart from how the handlers get   *)
(* there: post-processing plans a set of slots and seeds the counter with  *)
(* their number (SetFinalizing), every slot is given back exactly once     *)
(* (FinalizeSubtask), by its task or, when that task could not be          *)
(* enqueued, by post-processing itself, and whoever brings the counter to  *)
(* zero completes the document. FinalizeSubtask is two statements, the     *)
(* decrement and the guarded promotion, and any other slot may move        *)
(* between them.                                                           *)
(*                                                                         *)
(* A user may reparse a document that has ended and whose tasks have too.  *)
(* Nobody saves the row as a whole once it is finalizing.                  *)
(***************************************************************************)
EXTENDS Naturals, FiniteSets

CONSTANT Slots  \* the enrichment tasks the document may need

ASSUME SlotsAssumption == IsFiniteSet(Slots)

VARIABLES
    status,  \* parse_status; "stopped" is cancelled, failed, deleting or gone
    count,   \* pending_subtasks_count
    slot     \* where each slot is

vars == <<status, count, slot>>

States == {"free",     \* not planned, or given back for good
           "planned",  \* counted, its task not enqueued yet
           "short",    \* counted, and its task could not be enqueued
           "owned",    \* counted, and held by a task
           "drained"}  \* given back, the promotion still to run
Held == {n \in Slots : slot[n] \in {"planned", "short", "owned"}}

Init == status = "processing" /\ count = 0 /\ slot = [n \in Slots |-> "free"]

(* Mutant: the counter is seeded before the last task is planned. *)
HandOffShort ==
    /\ status = "processing"
    /\ \E plan \in SUBSET Slots :
          /\ plan # {}
          /\ count' = Cardinality(plan) - 1
          /\ slot' = [n \in Slots |-> IF n \in plan THEN "planned" ELSE "free"]
    /\ status' = "finalizing"

(* SetFinalizing, seeded with the size of the planned fan-out. *)
HandOff ==
    /\ status = "processing"
    /\ \E plan \in SUBSET Slots :
          /\ plan # {}
          /\ count' = Cardinality(plan)
          /\ slot' = [n \in Slots |-> IF n \in plan THEN "planned" ELSE "free"]
    /\ status' = "finalizing"

(* CompleteProcessingWithoutSubtasks *)
NothingToDo == status = "processing" /\ status' = "completed" /\ UNCHANGED <<count, slot>>

Spawn(n) ==
    /\ slot[n] = "planned"
    /\ \E s \in {"owned", "short"} : slot' = [slot EXCEPT ![n] = s]
    /\ UNCHANGED <<status, count>>

(* Mutant: the decrement is not followed by the promotion. *)
GiveBackOnly(n) ==
    /\ slot[n] \in {"owned", "short"}
    /\ slot' = [slot EXCEPT ![n] = "free"]
    /\ count' = IF count > 0 THEN count - 1 ELSE count
    /\ UNCHANGED status

(* FinalizeSubtask, first statement. *)
GiveBack(n) ==
    /\ slot[n] \in {"owned", "short"}
    /\ slot' = [slot EXCEPT ![n] = "drained"]
    /\ count' = IF count > 0 THEN count - 1 ELSE count
    /\ UNCHANGED status

(* Mutant: the promotion ignores the counter. *)
PromoteAnyway(n) ==
    /\ slot[n] = "drained"
    /\ slot' = [slot EXCEPT ![n] = "free"]
    /\ status' = IF status = "finalizing" THEN "completed" ELSE status
    /\ UNCHANGED count

(* FinalizeSubtask, second statement. *)
Promote(n) ==
    /\ slot[n] = "drained"
    /\ slot' = [slot EXCEPT ![n] = "free"]
    /\ status' = IF status = "finalizing" /\ count = 0 THEN "completed" ELSE status
    /\ UNCHANGED count

(* The user cancels (the counter goes to zero) or deletes, or the attempt    *)
(* fails before it was handed over. A later stop changes nothing here.       *)
Stop ==
    /\ status' = "stopped"
    /\ count' \in {count, 0}
    /\ UNCHANGED slot

(* The waiting tasks of a stopped document are dequeued.                      *)
Dequeue ==
    /\ status = "stopped"
    /\ \E dropped \in SUBSET {n \in Slots : slot[n] = "owned"} :
          slot' = [n \in Slots |-> IF n \in dropped THEN "free" ELSE slot[n]]
    /\ UNCHANGED <<status, count>>

(* ReparseKnowledge of an ended document: the new attempt plans slots of its *)
(* own, then the row goes back to the start of the pipeline, then its        *)
(* counter is reset.                                                         *)
NewAttempt ==
    /\ status \in {"completed", "stopped"} /\ Held = {}
    /\ slot' = [n \in Slots |-> "free"]
    /\ UNCHANGED <<status, count>>
Reset ==
    /\ status \in {"completed", "stopped"} /\ slot = [n \in Slots |-> "free"]
    /\ status' = "processing"
    /\ UNCHANGED <<count, slot>>
ZeroCount == status = "processing" /\ count' = 0 /\ UNCHANGED <<status, slot>>

(* A promotion that the attempt before left unfinished finds the row of the   *)
(* new attempt ready.                                                        *)
PromoteLate ==
    /\ status = "finalizing" /\ count = 0
    /\ status' = "completed"
    /\ UNCHANGED <<count, slot>>

Next ==
    \/ NewAttempt \/ Reset \/ ZeroCount \/ PromoteLate
    \/ HandOff \/ NothingToDo \/ Stop \/ Dequeue
    \/ \E n \in Slots : Spawn(n) \/ GiveBack(n) \/ Promote(n)

Spec == Init /\ [][Next]_vars
----------------------------------------------------------------------------
TypeOK ==
    /\ status \in {"processing", "finalizing", "completed", "stopped"}
    /\ count \in Nat
    /\ slot \in [Slots -> States]

(* FinalizeSubtask: while the document is finalizing, the counter is the     *)
(* number of slots nobody has given back, whatever could not be enqueued.    *)
CounterIsExact == status = "finalizing" => count = Cardinality(Held)

(* A completed document owes nothing: no task of it is planned or at work.   *)
CompletedOwesNothing == status = "completed" => Held = {}

(* Somebody always completes the document: a finalizing row whose counter is *)
(* zero has a promotion under way.                                           *)
SomebodyPromotes ==
    status = "finalizing" /\ count = 0 => \E n \in Slots : slot[n] = "drained"

----------------------------------------------------------------------------
(* A row that is still being parsed has planned nothing.                     *)
ParsingHoldsNothing == status = "processing" => slot = [n \in Slots |-> "free"]

IInv == TypeOK /\ CounterIsExact /\ CompletedOwesNothing /\ SomebodyPromotes /\ ParsingHoldsNothing
=============================================================================
