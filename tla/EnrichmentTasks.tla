--------------------------- MODULE EnrichmentTasks ---------------------------
(***************************************************************************)
(* The enrichment subtasks that own a slot of pending_subtasks_count:      *)
(* ProcessSummaryGeneration and processQuestionGenerationForChunks         *)
(* (service/knowledge_process.go), ChunkExtractService.Handle              *)
(* (service/extract.go), and finalizeSubtaskDetached (service/             *)
(* knowledge.go), which each runs when it ends for good.                   *)
(***************************************************************************)
EXTENDS KnowledgePipeline

(* attemptSuperseded: a stale subtask ends without draining. *)
SubtaskEnter(w, t) ==
    /\ t.kind \in Enrichment
    /\ IF latest > t.att THEN Drop(w, t) ELSE Take(w, t, "sub.load", "none")

(* The row is read. An aborted row ends the task, which drains; so does, for *)
(* the summary and the questions, a row that is missing or unreadable.       *)
SubtaskLoad(w) ==
    LET kind == proc[w].job.kind
        reads == IF row.gone THEN {FALSE} ELSE {TRUE} \cup {"db" \notin Faults}
    IN /\ At(w, "sub.load")
       /\ \E read \in reads :
            LET stops == IF read THEN row.status \in Aborted ELSE kind # "graph"
            IN proc' = [proc EXCEPT
                  ![w].pc = IF stops THEN "drain"
                            ELSE IF kind = "summary" THEN "sum.mark" ELSE "sub.run",
                  ![w].seen = row.status]
       /\ ProcOnly

(* Mutant: the last failure does not give the slot back. *)
SubtaskErrorKeepsSlot(w) ==
    Leave(w) /\ IF FinalTry(w) THEN UNCHANGED queue ELSE Retry(w)

(* Mutant: a failure gives the slot back even though the task runs again. *)
SubtaskErrorDrainsEarly(w) ==
    Goto(w, "drain") /\ IF FinalTry(w) THEN UNCHANGED queue ELSE Retry(w)

(* An error: asynq runs the task again, and only the last try drains. *)
SubtaskError(w) ==
    IF FinalTry(w) THEN Goto(w, "drain") /\ UNCHANGED queue
                   ELSE Leave(w) /\ Retry(w)

HasText(w) == <<Att(w), "text">> \in stored

(* The model calls. A chunk that is gone by then is skipped; a graph task    *)
(* that cannot even read it at the start fails.                              *)
SubtaskRun(w) ==
    /\ At(w, "sub.run")
    /\ Goto(w, IF HasText(w) THEN "sub.write" ELSE "drain")
    /\ ProcOnly

SubtaskRunError(w) ==
    /\ At(w, "sub.run")
    /\ "retry" \in Faults \/ (~HasText(w) /\ proc[w].job.kind = "graph")
    /\ SubtaskError(w) /\ QueueOnly

SubtaskWrite(w) ==
    /\ At(w, "sub.write")
    /\ stored' = stored \cup {<<Att(w), proc[w].job.kind>>}
    /\ Goto(w, "drain") /\ StoredOnly

(* summary_status is saved with the whole row as it was read. *)
SummaryMark(w) ==
    /\ At(w, "sum.mark")
    /\ TrySave(proc[w].seen)
    /\ Goto(w, "sum.chunks") /\ RowOnly

(* todo keeps the attempts whose chunks are read. Without any, the summary   *)
(* fails for good, and says so in the row.                                   *)
SummaryChunks(w) ==
    /\ At(w, "sum.chunks")
    /\ \E read \in {{x[1] : x \in {y \in stored : y[2] = "text"}}}
                     \cup (IF "db" \in Faults THEN {{}} ELSE {}) :
          proc' = [proc EXCEPT ![w].pc = IF read = {} THEN "sum.none" ELSE "sum.llm",
                               ![w].todo = read]
    /\ ProcOnly

(* Also the end of an answer that has no text to go on, and of the last      *)
(* failed call, which leaves a fallback text.                                *)
SummaryNone(w) ==
    /\ At(w, "sum.none")
    /\ row' = Saved(row, proc[w].seen)
    /\ Goto(w, "drain") /\ RowOnly

(* The failed Save is only noticed where there were chunks. *)
SummaryNoneError(w) ==
    /\ At(w, "sum.none") /\ "db" \in Faults
    /\ IF proc[w].todo = {} THEN Goto(w, "drain") /\ UNCHANGED queue ELSE SubtaskError(w)
    /\ QueueOnly

(* The model call; only its last failure goes on, to publish a fallback. *)
SummaryLlm(w) ==
    /\ At(w, "sum.llm")
    /\ \E next \in {"sum.fresh", "sum.none"} : Goto(w, next)
    /\ ProcOnly

SummaryLlmError(w) ==
    /\ At(w, "sum.llm") /\ "retry" \in Faults
    /\ Goto(w, IF FinalTry(w) THEN "sum.lastfresh" ELSE "sum.again") /\ ProcOnly

SummaryAgain(w) ==
    /\ At(w, "sum.again")
    /\ TrySave(proc[w].seen)
    /\ Leave(w) /\ Retry(w)
    /\ UNCHANGED <<latest, stored, mm, used>>

(* summarySourceChanged: a chunk that is gone, or a row that is gone, is an  *)
(* error of the check, not an answer of it. parse_status is not looked at.   *)
SummaryFresh(w) ==
    /\ At(w, "sum.fresh") \/ At(w, "sum.lastfresh")
    /\ LET unreadable == row.gone \/ \E a \in proc[w].todo : <<a, "text">> \notin stored
       IN \/ Goto(w, "sum.stale") /\ (unreadable \/ "db" \in Faults)
          \/ Goto(w, IF At(w, "sum.fresh") THEN "sum.save" ELSE "sum.none") /\ ~unreadable
    /\ ProcOnly

(* markSummaryFailed, and the error. *)
SummaryStale(w) ==
    /\ At(w, "sum.stale")
    /\ TrySave(proc[w].seen)
    /\ SubtaskError(w)
    /\ UNCHANGED <<latest, stored, mm, used>>

SummarySave(w) ==
    /\ At(w, "sum.save")
    /\ row' = Saved(row, proc[w].seen)
    /\ Goto(w, "sum.write") /\ RowOnly

SummarySaveError(w) ==
    /\ At(w, "sum.save") /\ "db" \in Faults
    /\ SubtaskError(w) /\ QueueOnly

(* The summary's own chunk and vector; the chunk may be all that is left of it. *)
SummaryWrite(w) ==
    /\ At(w, "sum.write")
    /\ stored' = stored \cup {<<Att(w), "summary">>}
    /\ Goto(w, "drain") /\ StoredOnly

SummaryWriteError(w) ==
    /\ At(w, "sum.write") /\ "retry" \in Faults
    /\ stored' \in {stored, stored \cup {<<Att(w), "summary">>}}
    /\ SubtaskError(w)
    /\ UNCHANGED <<row, latest, mm, used>>

(* finalizeSubtaskDetached: the two statements of FinalizeSubtask. An error  *)
(* of either is only logged.                                                 *)
Drain(w) ==
    /\ At(w, "drain")
    /\ \/ row' = Decremented(row) /\ Goto(w, "promote")
       \/ "db" \in Faults /\ Finish(w) /\ UNCHANGED row
    /\ RowOnly

Promote(w) ==
    /\ At(w, "promote")
    /\ row' = Promoted(row) \/ ("db" \in Faults /\ UNCHANGED row)
    /\ Finish(w) /\ RowOnly

SubtaskStep(w) ==
    \/ \E t \in BagToSet(queue) : SubtaskEnter(w, t)
    \/ SubtaskLoad(w) \/ SubtaskRun(w) \/ SubtaskRunError(w) \/ SubtaskWrite(w)
    \/ SummaryMark(w) \/ SummaryChunks(w) \/ SummaryNone(w) \/ SummaryNoneError(w)
    \/ SummaryLlm(w)
    \/ SummaryLlmError(w) \/ SummaryAgain(w) \/ SummaryFresh(w) \/ SummaryStale(w)
    \/ SummarySave(w) \/ SummarySaveError(w) \/ SummaryWrite(w) \/ SummaryWriteError(w)
    \/ Drain(w) \/ Promote(w)
=============================================================================
