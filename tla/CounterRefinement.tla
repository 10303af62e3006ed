-------------------------- MODULE CounterRefinement --------------------------
(***************************************************************************)
(* The handlers keep the contract of EnrichmentCounter: who holds a slot   *)
(* is read off the tasks that wait or run.                                 *)
(***************************************************************************)
EXTENDS KnowledgeLifecycle

Status == IF row.gone \/ row.status \in {"failed", "cancelled", "deleting"} THEN "stopped"
          ELSE IF row.status \in {"pending", "processing"} THEN "processing"
          ELSE row.status

Count == IF row.gone THEN 0 ELSE row.count

IsDrained(n) ==
    \E w \in {v \in Workers : Att(v) = latest} :
                       \/ At(w, "post.promote") /\ n = First(proc[w].short)
                       \/ At(w, "promote") /\ n = proc[w].job.n
Slot(n) ==
    IF IsDrained(n) THEN "drained"
    ELSE IF \E w \in Workers : At(w, "post.spawn") /\ Att(w) = latest /\ n \in proc[w].todo THEN "planned"
    ELSE IF \E w \in Workers : Att(w) = latest /\ n \in proc[w].short THEN "short"
    ELSE IF n \in Owed(latest) THEN "owned"
    ELSE "free"

Counter == INSTANCE EnrichmentCounter
           WITH status <- Status, count <- Count, slot <- [n \in Slots |-> Slot(n)]

(* FinalizeSubtask, SetFinalizing and their callers: an attempt that is      *)
(* handed over, retried, partly enqueued, cancelled or deleted while it is   *)
(* being enriched counts its slots as the contract says.                     *)
KeepsCounterContract == Counter!Spec
=============================================================================
