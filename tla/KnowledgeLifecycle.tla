------------------------- MODULE KnowledgeLifecycle -------------------------
(***************************************************************************)
(* One document's life: every handler of the pipeline, the user's requests *)
(* and the housekeeping cron, running concurrently on its row, its chunks  *)
(* and its tasks.                                                          *)
(***************************************************************************)
EXTENDS ProcessDocument, PostProcess, EnrichmentTasks, ImageMultimodal, KnowledgeApi

WorkerStep(w) ==
    DocStep(w) \/ PostStep(w) \/ SubtaskStep(w) \/ ImageStep(w) \/ Acknowledge(w)

Next ==
    \/ \E w \in Workers : WorkerStep(w)
    \/ \E c \in Callers : ApiStep(c)
    \/ \E p \in Procs : Crash(p)

Spec == Init /\ [][Next]_vars
----------------------------------------------------------------------------
PCs == {"idle", "ack",
        "doc.recheck", "doc.mark", "doc.convert", "doc.post",
        "chunk.check", "chunk.clean", "chunk.recheck", "chunk.write", "chunk.quota",
        "chunk.index", "chunk.undo", "chunk.final", "chunk.save",
        "mm.set", "mm.enqueue", "image.run", "image.count", "image.last", "image.error",
        "post.missing", "post.attempt", "post.list", "post.handoff", "post.spawn",
        "post.release", "post.promote",
        "sub.load", "sub.run", "sub.write", "sum.mark", "sum.chunks", "sum.none",
        "sum.llm", "sum.again", "sum.fresh", "sum.lastfresh", "sum.stale", "sum.save",
        "sum.write", "drain", "promote",
        "re.clean", "re.reset", "re.zero", "re.enqueue", "re.failed",
        "ca.mark", "dequeue", "del.purge", "del.row", "sweep.stuck", "sweep.delete"}

Attempts == 1..MaxAttempt

(* Only post-processing, and a request about the whole document, come        *)
(* without an attempt.                                                       *)
Tasks == {t \in [kind : Kinds, att : 0..MaxAttempt, n : 0..(Questions + Graphs + Images),
                 try : 0..MaxRetry] :
             t.att = 0 => t.kind \in {"post", "cancel", "delete", "sweep", "none"}}

Rows == [status : Statuses, count : Nat, gone : BOOLEAN]

(* What a handler relies on between two of its steps: it knows the attempt   *)
(* it writes for, a subtask stores what its kind says, the summary has read  *)
(* the row it saves and runs again only while it may, post-processing fans   *)
(* out planned slots, and the image loop ends when no image is left.         *)
AttemptlessPCs == {"idle", "ack", "post.missing", "post.attempt", "ca.mark", "dequeue",
                   "del.purge", "del.row", "sweep.stuck", "sweep.delete"}
SubtaskPCs == {"sub.load", "sub.run", "sub.write"}
SavingPCs == {"sum.mark", "sum.chunks", "sum.none", "sum.llm", "sum.again", "sum.fresh",
              "sum.lastfresh", "sum.stale", "sum.save"}
Sound(f) ==
    /\ f.att = 0 => f.pc \in AttemptlessPCs
    /\ f.pc \in SubtaskPCs => f.job.kind \in Enrichment
    /\ f.pc = "sum.again" => f.job.try < MaxRetry
    /\ f.pc \in SavingPCs => f.seen \in Statuses
    /\ f.pc \in {"post.handoff", "post.spawn"} => f.todo \subseteq Slots
    /\ f.pc = "mm.enqueue" => f.todo \subseteq 1..Images
    /\ f.pc \in {"post.spawn", "mm.enqueue"} => f.todo # {}
    /\ f.pc = "mm.set" => Images > 0

Frames == {f \in [pc : PCs, job : Tasks, att : 0..MaxAttempt, seen : Statuses \cup {"none"},
                  todo : SUBSET Nat, short : SUBSET Nat] : Sound(f)}

TypeOK ==
    /\ row \in Rows
    /\ latest \in Attempts
    /\ stored \subseteq Attempts \X Parts
    /\ mm \in Int
    /\ IsABag(queue) /\ BagToSet(queue) \subseteq Tasks
    /\ proc \in [Procs -> Frames]
    /\ used \in [cancel : 0..MaxCancels, delete : 0..MaxDeletes]
----------------------------------------------------------------------------
(* The enrichment slots of attempt a that nobody has given back.             *)
Owed(a) ==
    {t.n : t \in {u \in BagToSet(queue) : u.kind \in Enrichment /\ u.att = a}}
    \cup {proc[w].job.n : w \in {v \in Workers :
             proc[v].job.kind \in Enrichment /\ Att(v) = a /\ proc[v].pc \notin {"promote", "ack"}}}
    \cup UNION {proc[w].todo : w \in {v \in Workers : At(v, "post.spawn") /\ Att(v) = a}}

(* The images of attempt a that are neither stored nor given up.             *)
Unread(a) ==
    {t.n : t \in {u \in BagToSet(queue) : u.kind = "image" /\ u.att = a}}
    \cup {proc[w].job.n : w \in {v \in Workers :
             Att(v) = a /\ proc[v].pc \in {"image.run", "image.error"}}}
    \cup UNION {proc[w].todo : w \in {v \in Workers : At(v, "mm.enqueue") /\ Att(v) = a}}

(* FinalizeSubtask: the document only becomes completed once every           *)
(* enrichment task of its current attempt has ended for good, whatever is    *)
(* retried and whatever could not be enqueued.                               *)
CompletedMeansDrained == Has(row, {"completed"}) => Owed(latest) = {}

(* checkAndFinalizeAllImages: a document is not handed to enrichment while   *)
(* one of its images may still add text to it.                               *)
ImagesComeFirst == Has(row, {"finalizing", "completed"}) => Unread(latest) = {}

(* SetFinalizing's guard: however many post-process tasks run, an enrichment *)
(* task exists once.                                                         *)
FannedOutOnce ==
    \A n \in Slots, a \in Attempts :
        Cardinality({t \in BagToSet(queue) : t.kind \in Enrichment /\ t.n = n /\ t.att = a})
        + Cardinality({w \in Workers : /\ proc[w].job.kind \in Enrichment
                                       /\ proc[w].job.n = n /\ proc[w].job.att = a}) <= 1

(* When nothing is left to run, the document has reached a state the user    *)
(* can act on: no counter, key or queue entry was lost on the way.           *)
NothingStranded == Quiet /\ ~row.gone => row.status \notin Active

(* ChunksClean, ReparseClean: a completed document nobody is reparsing is    *)
(* indexed by its last attempt, and by nothing else.                         *)
Reparsing == \E c \in Callers : proc[c].job.kind = "reparse"
CompletedIsIndexed ==
    Has(row, {"completed"}) /\ ~Reparsing =>
        /\ {<<latest, "text">>, <<latest, "vector">>} \subseteq stored
        /\ stored \subseteq {latest} \X Parts

(* A deleted document leaves nothing behind.                                 *)
NothingLeftBehind == row.gone /\ Quiet => stored = {}

(* CancelKnowledgeParse: a cancelled row stays cancelled until the user      *)
(* reparses or deletes the document.                                         *)
CancelHolds ==
    [][Has(row, {"cancelled"}) =>
          \/ row'.gone \/ row'.status \in {"cancelled", "deleting"}
          \/ \E c \in Callers : At(c, "re.reset") \/ At(c, "re.failed")]_vars

(* executeKnowledgeDelete: a row being deleted is not brought back by the    *)
(* tasks still running on it.                                                *)
DeleteHolds ==
    [][Has(row, {"deleting"}) =>
          \/ row'.gone \/ row'.status = "deleting"
          \/ \E c \in Callers : At(c, "sweep.delete")]_vars

(* A completed document is only taken back by the user: no task of the       *)
(* attempt that completed, or of an earlier one, reopens it.                 *)
CompletedHolds ==
    [][Has(row, {"completed"}) =>
          \/ row'.gone \/ row'.status \in {"completed", "deleting"}
          \/ \E c \in Callers : At(c, "re.reset") \/ At(c, "re.failed") \/ At(c, "ca.mark")]_vars
----------------------------------------------------------------------------
(* A task that waits or runs goes on, which asynq's workers and leases see   *)
(* to; so does a request. The cron keeps sweeping, and not every one of its  *)
(* sweeps is killed. Nobody has to reparse, cancel or delete anything.       *)
Fairness ==
    /\ \A w \in Workers : WF_vars(WorkerStep(w))
    /\ \A c \in Callers : WF_vars(ApiStep(c) /\ ~At(c, "idle")) /\ WF_vars(SweepFind(c))
                          /\ SF_vars(SweepUpdate(c))

FairSpec == Spec /\ Fairness

(* Housekeeping: whatever fails, a document does not stay in a state the     *)
(* user can only wait on.                                                    *)
EventuallySettles == <>[](row.gone \/ row.status \notin Active \cup {"deleting"})
=============================================================================
