---------------------------- MODULE KnowledgeApi ----------------------------
(***************************************************************************)
(* What a user does to a document while the pipeline works on it, each a   *)
(* request served by one of Callers: ReparseKnowledge and                  *)
(* CancelKnowledgeParse (service/knowledge_process.go),                    *)
(* executeKnowledgeDelete (service/knowledge_delete.go); and the sweeps of *)
(* the housekeeping cron (service/knowledge_housekeeping.go), which runs   *)
(* as one more caller.                                                     *)
(*                                                                         *)
(* The signal dequeueKnowledgeTasks sends to running workers makes their   *)
(* next call fail: that is a "retry" fault, and needs no step of its own.  *)
(***************************************************************************)
EXTENDS KnowledgePipeline

Request(c, kind, att, pc) ==
    /\ c \in Callers /\ At(c, "idle")
    /\ proc' = [proc EXCEPT ![c] = [Idle EXCEPT !.pc = pc, !.job = Task(kind, att, 0),
                                                 !.att = att, !.seen = row.status]]

(* The new attempt is opened before anything else happens. *)
ReparseOpen(c) ==
    /\ latest < MaxAttempt /\ Has(row, ReparseFrom)
    /\ latest' = latest + 1
    /\ Request(c, "reparse", latest + 1, "re.clean")
    /\ UNCHANGED <<row, stored, mm, queue, used>>

(* cleanupKnowledgeResources; an error ends the request here. *)
ReparseClean(c) ==
    /\ At(c, "re.clean")
    /\ \/ stored' = {} /\ Goto(c, "re.reset")
       \/ "db" \in Faults /\ stored' \in {stored, {}} /\ Leave(c)
    /\ StoredOnly

ReparseReset(c) ==
    /\ At(c, "re.reset")
    /\ \/ row' = Saved(row, "pending") /\ Goto(c, "re.zero")
       \/ "db" \in Faults /\ Leave(c) /\ UNCHANGED row
    /\ RowOnly

ReparseZero(c) ==
    /\ At(c, "re.zero")
    /\ \/ row' = ZeroCount(row) /\ Goto(c, "re.enqueue")
       \/ "db" \in Faults /\ Leave(c) /\ UNCHANGED row
    /\ RowOnly

ReparseEnqueue(c) ==
    /\ At(c, "re.enqueue")
    /\ \/ Add(Task("process", Att(c), 0)) /\ Leave(c)
       \/ "enqueue" \in Faults /\ Goto(c, "re.failed") /\ UNCHANGED queue
    /\ QueueOnly

(* markKnowledgeEnqueueFailed *)
ReparseFailed(c) ==
    /\ At(c, "re.failed")
    /\ TrySave("failed")
    /\ Leave(c) /\ RowOnly

(* The row is read; completed, failed and deleting refuse the request, and a *)
(* second cancel only dequeues.                                              *)
CancelRead(c) ==
    /\ used.cancel < MaxCancels /\ Has(row, CancelFrom \cap (Active \cup {"cancelled"}))
    /\ used' = [used EXCEPT !.cancel = @ + 1]
    /\ Request(c, "cancel", 0, IF row.status = "cancelled" THEN "dequeue" ELSE "ca.mark")
    /\ UNCHANGED <<row, latest, stored, mm, queue>>

CancelMark(c) ==
    /\ At(c, "ca.mark")
    /\ \/ row' = CancelledByUser(row) /\ Goto(c, "dequeue")
       \/ "db" \in Faults /\ Leave(c) /\ UNCHANGED row
    /\ RowOnly

(* dequeueKnowledgeTasks: best effort, and nothing at all without Redis. *)
Dequeue(c) ==
    /\ At(c, "dequeue")
    /\ IF Lite THEN UNCHANGED queue
       ELSE \E kept \in SUBSET BagToSet(queue) :
              queue' = [t \in kept |-> queue[t]]
    /\ IF proc[c].job.kind = "delete" THEN Goto(c, "del.purge") ELSE Leave(c)
    /\ QueueOnly

(* The compare-and-swap to "deleting"; only a row that was pending or        *)
(* processing has its tasks dequeued.                                        *)
DeleteMark(c) ==
    /\ used.delete < MaxDeletes /\ Has(row, DeleteFrom)
    /\ used' = [used EXCEPT !.delete = @ + 1]
    /\ row' = MarkedDeleting(row)
    /\ Request(c, "delete", 0,
               IF row.status \in {"pending", "processing"} THEN "dequeue" ELSE "del.purge")
    /\ UNCHANGED <<latest, stored, mm, queue>>

(* Vectors, chunks and graph; an error leaves the row deleting. *)
DeletePurge(c) ==
    /\ At(c, "del.purge")
    /\ \/ stored' = {} /\ Goto(c, "del.row")
       \/ "db" \in Faults /\ stored' \in {stored, {}} /\ Leave(c)
    /\ StoredOnly

DeleteRow(c) ==
    /\ At(c, "del.row")
    /\ \/ row' = Removed(row)
       \/ "db" \in Faults /\ UNCHANGED row
    /\ Leave(c) /\ RowOnly

Quiet == queue = EmptyBag /\ \A p \in Procs : At(p, "idle")

(* Mutant: sweep A leaves out the documents that wait for enrichment.        *)
SweepFindUnfinished(c) ==
    /\ Quiet /\ Has(row, {"pending", "processing", "deleting"})
    /\ Request(c, "sweep", 0, IF row.status = "deleting" THEN "sweep.delete" ELSE "sweep.stuck")
    /\ UNCHANGED <<row, latest, stored, mm, queue, used>>

(* Sweeps A and C look for a row that has stayed as it is for longer than    *)
(* the threshold, without a span heartbeat, and without a task in the queue  *)
(* or at work: whatever the pipeline could still do for it has been done.    *)
SweepFind(c) ==
    /\ Quiet /\ Has(row, Active \cup {"deleting"})
    /\ Request(c, "sweep", 0, IF row.status = "deleting" THEN "sweep.delete" ELSE "sweep.stuck")
    /\ UNCHANGED <<row, latest, stored, mm, queue, used>>

SweepUpdate(c) ==
    /\ \/ At(c, "sweep.stuck") /\ row' = SweptStuck(row)
       \/ At(c, "sweep.delete") /\ row' = SweptDelete(row)
    /\ Leave(c) /\ RowOnly

ApiStep(c) ==
    \/ ReparseOpen(c) \/ ReparseClean(c) \/ ReparseReset(c) \/ ReparseZero(c)
    \/ ReparseEnqueue(c) \/ ReparseFailed(c)
    \/ CancelRead(c) \/ CancelMark(c) \/ Dequeue(c)
    \/ DeleteMark(c) \/ DeletePurge(c) \/ DeleteRow(c)
    \/ SweepFind(c) \/ SweepUpdate(c)
=============================================================================
