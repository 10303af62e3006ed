----------------------------- MODULE PostProcess -----------------------------
(***************************************************************************)
(* service/knowledge_post_process.go: Handle, which hands the document     *)
(* over from parsing to enrichment. It seeds pending_subtasks_count with   *)
(* the subtasks it is going to enqueue, enqueues them one by one, and      *)
(* gives back the slots of those it could not enqueue.                     *)
(***************************************************************************)
EXTENDS KnowledgePipeline, FiniteSets

(* The entry. A cancelled or deleting row ends the task, a missing one is an *)
(* error. The image tasks send no attempt, which means the latest one.       *)
PostEnter(w, t) ==
    /\ t.kind = "post"
    /\ IF Has(row, Aborted) THEN Drop(w, t)
       ELSE Take(w, t, IF row.gone THEN "post.missing"
                       ELSE IF t.att = 0 THEN "post.attempt" ELSE "post.list", row.status)

PostMissing(w) == At(w, "post.missing") /\ ReturnError(w)

PostAttempt(w) ==
    /\ At(w, "post.attempt")
    /\ proc' = [proc EXCEPT ![w].pc = "post.list", ![w].att = latest]
    /\ ProcOnly

(* The chunks decide what there is to enrich; a row that was not processing  *)
(* at the entry ends the task.                                               *)
PostList(w) ==
    /\ At(w, "post.list")
    /\ IF proc[w].seen # "processing" THEN Finish(w)
       ELSE proc' = [proc EXCEPT ![w].pc = "post.handoff",
                                 ![w].todo = IF \E x \in stored : x[2] \in {"text", "image"}
                                             THEN Slots ELSE {}]
    /\ ProcOnly

PostListError(w) == At(w, "post.list") /\ "retry" \in Faults /\ ReturnError(w)

(* Mutant: the counter is seeded with one slot too few. *)
PostHandoffShort(w) ==
    /\ At(w, "post.handoff") /\ proc[w].todo # {}
    /\ row' = HandedOff(row, Cardinality(proc[w].todo) - 1)
    /\ IF Has(row, {"processing"}) THEN Goto(w, "post.spawn") ELSE Finish(w)
    /\ RowOnly

(* Mutant: the tasks are enqueued whether or not the row was handed over. *)
PostHandoffAlways(w) ==
    /\ At(w, "post.handoff") /\ proc[w].todo # {}
    /\ row' = HandedOff(row, Cardinality(proc[w].todo))
    /\ Goto(w, "post.spawn") /\ RowOnly

(* SetFinalizing. A row that is no longer processing, and a database error,  *)
(* both end the task without an error.                                       *)
PostHandoff(w) ==
    /\ At(w, "post.handoff") /\ proc[w].todo # {}
    /\ \/ row' = HandedOff(row, Cardinality(proc[w].todo))
          /\ IF Has(row, {"processing"}) THEN Goto(w, "post.spawn") ELSE Finish(w)
       \/ "db" \in Faults /\ Finish(w) /\ UNCHANGED row
    /\ RowOnly

PostNothingToDo(w) ==
    /\ At(w, "post.handoff") /\ proc[w].todo = {}
    /\ row' = CompletedAtOnce(row)
    /\ Finish(w) /\ RowOnly

PostNothingToDoError(w) ==
    /\ At(w, "post.handoff") /\ proc[w].todo = {} /\ "db" \in Faults
    /\ ReturnError(w)

(* Mutant: nobody remembers the tasks that could not be enqueued. *)
PostSpawnForgets(w) ==
    /\ At(w, "post.spawn")
    /\ LET n == First(proc[w].todo)
           rest == proc[w].todo \ {n}
       IN /\ proc' = [proc EXCEPT ![w].pc = IF rest = {} THEN "post.release" ELSE "post.spawn",
                                   ![w].todo = rest]
          /\ Add(Task(KindOf(n), Att(w), n)) \/ ("spawn" \in Faults /\ UNCHANGED queue)
    /\ QueueOnly

(* Summary, question batches, graph chunks, in that order. *)
PostSpawn(w) ==
    /\ At(w, "post.spawn")
    /\ LET n == First(proc[w].todo)
           rest == proc[w].todo \ {n}
           next == IF rest = {} THEN "post.release" ELSE "post.spawn"
       IN \/ /\ Add(Task(KindOf(n), Att(w), n))
             /\ proc' = [proc EXCEPT ![w].pc = next, ![w].todo = rest]
          \/ /\ "spawn" \in Faults /\ UNCHANGED queue
             /\ proc' = [proc EXCEPT ![w].pc = next, ![w].todo = rest,
                                     ![w].short = @ \cup {n}]
    /\ QueueOnly

(* The slots nobody owns are given back with FinalizeSubtask, one by one; an *)
(* error stops that.                                                         *)
PostRelease(w) ==
    /\ At(w, "post.release") /\ proc[w].short # {}
    /\ \/ row' = Decremented(row) /\ Goto(w, "post.promote")
       \/ "db" \in Faults /\ Finish(w) /\ UNCHANGED row
    /\ RowOnly

PostPromote(w) ==
    /\ At(w, "post.promote")
    /\ \/ /\ row' = Promoted(row)
          /\ proc' = [proc EXCEPT ![w].pc = "post.release", ![w].short = @ \ {First(@)}]
       \/ "db" \in Faults /\ Finish(w) /\ UNCHANGED row
    /\ RowOnly

PostEnd(w) ==
    /\ At(w, "post.release") /\ proc[w].short = {}
    /\ Finish(w) /\ ProcOnly

PostStep(w) ==
    \/ \E t \in BagToSet(queue) : PostEnter(w, t)
    \/ PostMissing(w) \/ PostAttempt(w) \/ PostList(w) \/ PostListError(w) \/ PostHandoff(w)
    \/ PostNothingToDo(w) \/ PostNothingToDoError(w) \/ PostSpawn(w) \/ PostRelease(w) \/ PostPromote(w) \/ PostEnd(w)
=============================================================================
