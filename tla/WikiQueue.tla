------------------------------ MODULE WikiQueue ------------------------------
(***************************************************************************)
(* The pending-operations queue of the wiki: rows of task_pending_ops, the *)
(* batches of ProcessWikiIngest that claim, map, reduce and settle them,   *)
(* the asynq triggers that start a batch, and the requests that cancel or  *)
(* delete a document meanwhile.                                            *)
(*                                                                         *)
(* Standard mode runs batches concurrently on disjoint claims and locks    *)
(* the page it rewrites; Lite mode has no Redis, runs one batch at a time  *)
(* and peeks without claiming. One page stands for the slugs documents     *)
(* share, the case where they meet. A document may have one enrichment     *)
(* subtask, its sibling, besides the wiki's.                               *)
(***************************************************************************)
EXTENDS KnowledgeRow, FiniteSets

CONSTANTS
    Docs,         \* documents of one knowledge base
    Batches,      \* wiki workers
    NoBatch,      \* the slug lock is free
    MaxRows,      \* bound on the rows ever queued
    Lite,         \* TRUE without Redis
    BatchSize,    \* IngestBatchSize: documents per claim, rows per peek
    MaxFail,      \* wikiMaxFailRetries
    Enriched,     \* documents with another enrichment subtask, their sibling
    Cancellable,  \* documents the user may cancel
    Deletable,    \* documents the user may delete
    Faults,       \* which of "fail", "llm", "read", "redis", "db", "crash", "slow" happen
    MaxFaults     \* bound on "db" and "crash" faults

ASSUME WikiAssumption ==
    /\ NoBatch \notin Batches
    /\ MaxRows \in Nat /\ BatchSize \in Nat \ {0} /\ MaxFail \in Nat /\ MaxFaults \in Nat
    /\ Lite \in BOOLEAN
    /\ Enriched \subseteq Docs /\ Cancellable \subseteq Docs /\ Deletable \subseteq Docs

VARIABLES
    row,       \* the knowledges rows
    sibling,   \* documents whose other subtask has not ended
    queue,     \* task_pending_ops, by id; ids grow with insertion
    page,      \* the shared wiki page and its source_refs
    slugLock,  \* wiki:slug:<kb>:<slug>
    batch,     \* the batch each worker runs
    triggers,  \* wiki:ingest tasks waiting to run
    recheck,   \* the task wiki-ingest-recheck-<kb>
    starting,  \* a process has died and its successor is starting
    user,      \* how far the request of each document has come
    seen,      \* the page a delete request listed
    dead,      \* documents in task_dead_letters
    dropped,   \* documents given up with no more than a log line
    missed,    \* documents whose retract was given up
    faults     \* "db" and "crash" faults so far

docVars   == <<row, sibling>>
pageVars  == <<page, slugLock>>
taskVars  == <<triggers, recheck, starting>>
userVars  == <<user, seen>>
lossVars  == <<dead, dropped, missed>>
vars == <<docVars, queue, pageVars, batch, taskVars, userVars, lossVars, faults>>

Ids    == 1 .. MaxRows
Queued == {i \in Ids : queue[i].st \in {"free", "fresh", "stale"}}
Of(S)  == {queue[i].doc : i \in S}
NoPage == [exists |-> FALSE, refs |-> {}]
Resting == [at |-> "idle", kind |-> "plain", peeked |-> {}, held |-> {}, todo |-> {},
            mapped |-> {}, retracts |-> {}, failed |-> {}, live |-> {}, read |-> NoPage,
            locked |-> FALSE, err |-> FALSE]

(* isKnowledgeGone: the tombstone is written after the row is marked, and a  *)
(* read that fails counts as "gone".                                         *)
KnowledgeGone(d) == row[d].gone \/ row[d].status \in Aborted
GoneAnswers(d)   == {KnowledgeGone(d)} \union (IF "read" \in Faults THEN {TRUE} ELSE {})

(* A database error; one outage may meet several statements of a step. *)
CanFault(f) == f \in Faults /\ faults < MaxFaults
Failing(fails) == IF fails THEN CanFault("db") /\ faults' = faults + 1 ELSE UNCHANGED faults

(* FinalizeSubtask: the decrement, then the promotion. Its error is only     *)
(* logged (finalizeSubtaskDetached), by the wiki as by its sibling.          *)
FinalizeSubtask(d, fails) ==
    row' \in IF fails THEN {row, [row EXCEPT ![d] = Decremented(@)]}
                      ELSE {[row EXCEPT ![d] = Promoted(Decremented(@))]}
GiveBack(d) == \E fails \in BOOLEAN : Failing(fails) /\ FinalizeSubtask(d, fails)

(* The insert of one row; ids are allotted in order. *)
Enqueue(d, op, slugs) ==
    \E i \in Ids :
        /\ queue[i].st = "unused"
        /\ \A j \in Ids : j < i => queue[j].st # "unused"
        /\ queue' = [queue EXCEPT ![i] = [st |-> "free", doc |-> d, op |-> op, fails |-> 0,
                                          slugs |-> slugs, net |-> FALSE]]

(* DeleteByIDs, ReleaseByIDs: by id, whoever has claimed the row by now. *)
Without(S) == [i \in Ids |-> IF i \in S /\ i \in Queued
                             THEN [queue[i] EXCEPT !.st = "gone", !.fails = 0, !.net = FALSE]
                             ELSE queue[i]]
Released(S) == [i \in Ids |-> IF i \in S /\ i \in Queued
                              THEN [queue[i] EXCEPT !.st = "free", !.net = FALSE] ELSE queue[i]]

(* DeleteByDedupKey, op = ingest: the claimed rows as well. *)
ScrubIngest(d) == queue' = Without({i \in Queued : queue[i].doc = d /\ queue[i].op = "ingest"})

-----------------------------------------------------------------------------
(* Documents.                                                                *)

(* SeedKnowledgeFinalizingWithPendingOp, one transaction, and the trigger. *)
PostProcess(d) ==
    /\ Has(row[d], {"processing"})
    /\ row' = [row EXCEPT ![d] = HandedOff(@, IF d \in Enriched THEN 2 ELSE 1)]
    /\ sibling' = sibling \union ({d} \intersect Enriched)
    /\ Enqueue(d, "ingest", FALSE)
    /\ triggers' = triggers + 1
    /\ UNCHANGED <<pageVars, batch, recheck, starting, userVars, lossVars, faults>>

SiblingEnds(d) ==
    /\ d \in sibling
    /\ sibling' = sibling \ {d}
    /\ GiveBack(d)
    /\ UNCHANGED <<queue, pageVars, batch, taskVars, userVars, lossVars>>

(* CancelKnowledgeParse: the update, then the scrub. *)
Cancel(d) ==
    /\ d \in Cancellable /\ user[d] = "idle" /\ Has(row[d], Active)
    /\ row' = [row EXCEPT ![d] = CancelledByUser(@)]
    /\ user' = [user EXCEPT ![d] = "cancelling"]
    /\ UNCHANGED <<sibling, queue, pageVars, batch, taskVars, seen, lossVars, faults>>
CancelScrub(d) ==
    /\ user[d] = "cancelling"
    /\ ScrubIngest(d)
    /\ user' = [user EXCEPT ![d] = "cancelled"]
    /\ UNCHANGED <<docVars, pageVars, batch, taskVars, seen, lossVars, faults>>

(* executeKnowledgeDelete marks the row; cleanupWikiReferences scrubs, lists *)
(* the pages, persists the retract, and strips what it listed. Its errors    *)
(* are logged and the delete goes on: it has no retract when the pages could *)
(* not be listed or the retract not be queued.                               *)
Delete(d) ==
    /\ d \in Deletable /\ user[d] \in {"idle", "cancelled"} /\ ~row[d].gone
    /\ row' = [row EXCEPT ![d] = MarkedDeleting(@)]
    /\ user' = [user EXCEPT ![d] = "marked"]
    /\ UNCHANGED <<sibling, queue, pageVars, batch, taskVars, seen, lossVars, faults>>
DeleteScrub(d) ==
    /\ user[d] = "marked"
    /\ ScrubIngest(d)
    /\ user' = [user EXCEPT ![d] = "scrubbed"]
    /\ UNCHANGED <<docVars, pageVars, batch, taskVars, seen, lossVars, faults>>
DeleteEnds(d) ==
    /\ row' = [row EXCEPT ![d] = Removed(@)]
    /\ user' = [user EXCEPT ![d] = "done"]
    /\ seen' = [seen EXCEPT ![d] = {}]
DeletesUnasked(d) == DeleteEnds(d) /\ missed' = missed \union {d}
DeleteList(d) ==
    /\ user[d] = "scrubbed"
    /\ \/ /\ seen' = [seen EXCEPT ![d] = page.refs]
          /\ user' = [user EXCEPT ![d] = "listed"]
          /\ UNCHANGED <<row, missed>>
       \/ "read" \in Faults /\ DeletesUnasked(d)
    /\ UNCHANGED <<sibling, queue, pageVars, batch, taskVars, dead, dropped, faults>>
DeleteRetract(d) ==
    /\ user[d] = "listed"
    /\ \/ /\ Enqueue(d, "retract", d \in seen[d])
          /\ triggers' = triggers + 1
          /\ user' = [user EXCEPT ![d] = "queued"]
          /\ UNCHANGED <<row, seen, missed, faults>>
       \/ Failing(TRUE) /\ DeletesUnasked(d) /\ UNCHANGED <<queue, triggers>>
    /\ UNCHANGED <<sibling, pageVars, batch, recheck, starting, dead, dropped>>
DeleteStrip(d) ==
    /\ user[d] = "queued"
    /\ \E fails \in BOOLEAN :
          /\ Failing(fails)
          /\ page' = IF fails \/ d \notin seen[d] \/ ~page.exists THEN page
                     ELSE IF seen[d] = {d} THEN NoPage
                     ELSE [page EXCEPT !.refs = seen[d] \ {d}]
    /\ DeleteEnds(d)
    /\ UNCHANGED <<sibling, queue, slugLock, batch, taskVars, lossVars>>

-----------------------------------------------------------------------------
(* Batches.                                                                  *)

Put(b, f) == batch' = [batch EXCEPT ![b] = f]
At(b, step) == batch[b].at = step

(* Mutant: the claim takes rows another batch has claimed. *)
ClaimableAlways(d) == {i \in Queued : queue[i].doc = d}

(* ClaimBatch: a document with any fresh claim is skipped wholesale. *)
Claimable(d) ==
    LET mine == {i \in Queued : queue[i].doc = d}
    IN  IF \E i \in mine : queue[i].st = "fresh" THEN {} ELSE mine

(* ClaimBatch counts documents, oldest first, and takes all their rows; *)
(* PeekBatch counts rows.                                               *)
Picked ==
    IF Lite THEN {i \in Queued : Cardinality({j \in Queued : j < i}) < BatchSize}
    ELSE LET first(d) == CHOOSE i \in Claimable(d) : \A j \in Claimable(d) : i <= j
             ready    == {d \in Docs : Claimable(d) # {}}
             keys     == {d \in ready : Cardinality({e \in ready : first(e) < first(d)}) < BatchSize}
         IN  UNION {Claimable(d) : d \in keys}
Stamped(S) == IF Lite THEN queue
              ELSE [i \in Ids |-> IF i \in S THEN [queue[i] EXCEPT !.st = "fresh", !.net = FALSE]
                                  ELSE queue[i]]

(* decodePendingRows keeps the last operation of each document. *)
LastOps(S) == {i \in S : \A j \in S : queue[j].doc = queue[i].doc => j <= i}

(* ProcessWikiIngest up to the map phase, the claim being one transaction.   *)
(* In Lite mode liteLocks turns a second batch away, and its task is retried.*)
Claim(b, kind) ==
    /\ Picked # {}
    /\ queue' = Stamped(Picked)
    /\ Put(b, [Resting EXCEPT !.at = "map", !.kind = kind, !.peeked = Picked,
                              !.held = Picked, !.todo = LastOps(Picked)])

(* scheduleStaleClaimRecheck: armed behind a task id, so while one is armed, *)
(* or when the running task is itself that one, the new one is a conflict    *)
(* and counts as armed. It comes due when the claims it saw must be stale.   *)
Watched == [i \in Ids |-> [queue[i] EXCEPT !.net = @ \/ queue[i].st = "fresh"]]
NothingClaimed(kind) ==
    /\ Picked = {}
    /\ UNCHANGED batch
    /\ IF Queued # {} /\ kind = "plain" /\ recheck = "none"
       THEN recheck' = "armed" /\ queue' = Watched
       ELSE recheck' = (IF kind = "recheck" THEN "none" ELSE recheck) /\ UNCHANGED queue

Free(b) == At(b, "idle") /\ (Lite => \A c \in Batches : At(c, "idle"))
Trigger(b) ==
    /\ Free(b) /\ triggers > 0
    /\ triggers' = triggers - 1
    /\ \/ Claim(b, "plain") /\ UNCHANGED recheck
       \/ NothingClaimed("plain")
    /\ UNCHANGED <<docVars, pageVars, starting, userVars, lossVars, faults>>
RecheckIsDue == \/ recheck = "due"
                \/ recheck = "armed" /\ \A i \in Queued : ~(queue[i].net /\ queue[i].st = "fresh")
Recheck(b) ==
    /\ Free(b) /\ RecheckIsDue
    /\ \/ Claim(b, "recheck") /\ recheck' = "active"
       \/ NothingClaimed("recheck")
    /\ UNCHANGED <<docVars, pageVars, triggers, starting, userVars, lossVars, faults>>

(* Mutant: the retract trusts the pages the request listed. *)
RetractHitsListed(i) == queue[i].slugs

(* A retract goes to the listed pages and to those that cite the document by now. *)
RetractHits(i) == queue[i].slugs \/ queue[i].doc \in page.refs

(* mapOneDocument. A document that is found gone is skipped and its slot     *)
(* given back at once; so is, under "read", one whose row cannot be read or  *)
(* that has no chunks or text. A failed model call or chunk query leaves it  *)
(* to requeueFailedOps.                                                      *)
Ingests(b, i) == At(b, "map") /\ i \in batch[b].todo /\ queue[i].op = "ingest"
MapSkip(b, i) ==
    /\ Ingests(b, i) /\ TRUE \in GoneAnswers(queue[i].doc)
    /\ Put(b, [batch[b] EXCEPT !.todo = @ \ {i}])
    /\ GiveBack(queue[i].doc)
    /\ dropped' = IF KnowledgeGone(queue[i].doc) THEN dropped ELSE dropped \union {queue[i].doc}
    /\ UNCHANGED <<sibling, queue, pageVars, taskVars, userVars, dead, missed>>
MapOne(b, i) ==
    /\ Ingests(b, i) /\ ~KnowledgeGone(queue[i].doc)
    /\ Put(b, [batch[b] EXCEPT !.todo = @ \ {i}, !.mapped = @ \union {i}])
    /\ UNCHANGED <<docVars, queue, pageVars, taskVars, userVars, lossVars, faults>>
MapFail(b, i) ==
    /\ Ingests(b, i) /\ ~KnowledgeGone(queue[i].doc) /\ "fail" \in Faults
    /\ Put(b, [batch[b] EXCEPT !.todo = @ \ {i}, !.failed = @ \union {i}])
    /\ UNCHANGED <<docVars, queue, pageVars, taskVars, userVars, lossVars, faults>>

(* A lookup of ListPagesBySourceRef that fails is logged, and the retract    *)
(* goes to the listed pages alone.                                           *)
Retracting(b, i, hits) ==
    Put(b, [batch[b] EXCEPT !.todo = @ \ {i}, !.retracts = IF hits THEN @ \union {i} ELSE @])
MapRetract(b, i) ==
    /\ At(b, "map") /\ i \in batch[b].todo /\ queue[i].op = "retract"
    /\ \/ Retracting(b, i, RetractHits(i)) /\ UNCHANGED missed
       \/ /\ "read" \in Faults /\ Retracting(b, i, queue[i].slugs)
          /\ missed' = IF queue[i].slugs THEN missed
                       ELSE missed \union ({queue[i].doc} \intersect page.refs)
    /\ UNCHANGED <<docVars, queue, pageVars, taskVars, userVars, dead, dropped, faults>>

Updates(b) == batch[b].mapped \union batch[b].retracts
Mapped(b)  == At(b, "map") /\ batch[b].todo = {}

(* reduceSlugUpdates up to the model call, under the slug lock. *)
ReduceNothing(b) ==
    /\ Mapped(b) /\ Updates(b) = {}
    /\ Put(b, [batch[b] EXCEPT !.at = "drain"])
    /\ UNCHANGED <<docVars, queue, pageVars, taskVars, userVars, lossVars, faults>>
(* withSlugLock: unlocked without Redis, and when Redis does not answer. *)
MayEnter(locked) ==
    IF locked THEN ~Lite /\ slugLock = NoBatch ELSE Lite \/ "redis" \in Faults

(* filterLiveUpdates asks isKnowledgeGone once more, for each document. *)
Live(b)        == {i \in batch[b].mapped : ~KnowledgeGone(queue[i].doc)}
LiveAnswers(b) == IF "read" \in Faults THEN SUBSET Live(b) ELSE {Live(b)}

(* GetPageBySlug: an error is taken for "no page". *)
PageAnswers == {page} \union (IF "read" \in Faults THEN {NoPage} ELSE {})

Reduce(b) ==
    /\ Mapped(b) /\ Updates(b) # {}
    /\ \E live \in LiveAnswers(b), read \in PageAnswers, locked \in BOOLEAN :
          /\ MayEnter(locked)
          /\ dropped' = dropped \union Of(Live(b) \ live)
          /\ IF live \union batch[b].retracts = {}
             THEN Put(b, [batch[b] EXCEPT !.at = "drain"]) /\ UNCHANGED <<slugLock, missed>>
             ELSE /\ Put(b, [batch[b] EXCEPT !.at = "write", !.live = live, !.read = read,
                                             !.locked = locked])
                  /\ slugLock' = IF locked THEN b ELSE slugLock
                  /\ missed' = IF read = page \/ live # {} THEN missed
                               ELSE missed \union (Of(batch[b].retracts) \intersect page.refs)
    /\ UNCHANGED <<docVars, queue, page, taskVars, userVars, dead, faults>>

(* withSlugLock gives up after wikiSlugLockWait. *)
SlugBusy(b) ==
    /\ Mapped(b) /\ Updates(b) # {} /\ ~Lite /\ slugLock # NoBatch
    /\ Put(b, [batch[b] EXCEPT !.at = "drain", !.failed = @ \union Updates(b)])
    /\ UNCHANGED <<docVars, queue, pageVars, taskVars, userVars, lossVars, faults>>

(* What reduceSlugUpdates makes of the page as it was read. Without a page   *)
(* there is nothing to retract from.                                         *)
Written(b) == (batch[b].read.refs \ Of(batch[b].retracts)) \union Of(batch[b].live)
WriteNeeded(b) == batch[b].read.exists \/ batch[b].live # {}

(* What an unlocked write may cost: what it overwrites, and its own if       *)
(* another batch, too, is about to write what it read before.                *)
Overwrites(b) ==
    IF Lite \/ batch[b].locked THEN {}
    ELSE (page.refs \ (batch[b].read.refs \union Of(batch[b].live)))
         \union (IF \E c \in Batches \ {b} : At(c, "write") THEN Of(batch[b].live) ELSE {})

(* The lock is deleted, whoever has it by now; a failed Del leaves it. *)
Unlocked(b) ==
    IF ~batch[b].locked THEN {slugLock}
    ELSE {NoBatch} \union (IF "redis" \in Faults THEN {slugLock} ELSE {})

(* The model answers and the page is written. UpdatePage fails when the page *)
(* is gone, CreatePage when it exists: a repository error re-queues every    *)
(* document of the slug. A model call that fails or answers nothing does     *)
(* not: the page is left as it is, and documents and retracts are done.      *)
Write(b) ==
    /\ At(b, "write")
    /\ slugLock' \in Unlocked(b)
    /\ LET done == [batch[b] EXCEPT !.at = "drain", !.live = {}, !.read = NoPage, !.locked = FALSE]
           lost == [done EXCEPT !.failed = @ \union Updates(b)]
       IN  \/ /\ ~WriteNeeded(b)
              /\ Put(b, done) /\ UNCHANGED <<page, dropped, missed>>
           \/ /\ WriteNeeded(b) /\ batch[b].read.exists = page.exists
              /\ page' = [exists |-> TRUE, refs |-> Written(b)]
              /\ dropped' = dropped \union Overwrites(b)
              /\ Put(b, done) /\ UNCHANGED missed
           \/ /\ WriteNeeded(b)
              /\ batch[b].read.exists # page.exists \/ "fail" \in Faults
              /\ Put(b, lost) /\ UNCHANGED <<page, dropped, missed>>
           \/ /\ WriteNeeded(b) /\ "llm" \in Faults
              /\ dropped' = dropped \union Of(batch[b].live)
              /\ missed' = missed \union (Of(batch[b].retracts) \intersect page.refs)
              /\ Put(b, done) /\ UNCHANGED page
    /\ UNCHANGED <<docVars, queue, taskVars, userVars, dead, faults>>

(* The docResults loop: the slot of every document whose slugs all landed. *)
Drain(b, i) ==
    /\ At(b, "drain") /\ i \in batch[b].mapped \ batch[b].failed
    /\ GiveBack(queue[i].doc)
    /\ Put(b, [batch[b] EXCEPT !.mapped = @ \ {i}])
    /\ UNCHANGED <<sibling, queue, pageVars, taskVars, userVars, lossVars>>

-----------------------------------------------------------------------------
(* Settling.                                                                 *)

(* Mutant: the failed rows are trimmed with the others. *)
TrimSetAll(b) == batch[b].peeked

(* Every row that was read, less the ones to retry. *)
TrimSet(b) == batch[b].peeked \ batch[b].failed
Trim(b) ==
    /\ At(b, "drain") /\ batch[b].mapped \subseteq batch[b].failed
    /\ LET settling == [batch[b] EXCEPT !.at = "settle", !.mapped = {}, !.retracts = {}]
       IN  \/ /\ queue' = Without(TrimSet(b))
              /\ Put(b, [settling EXCEPT !.held = @ \ TrimSet(b)])
              /\ Failing(FALSE)
           \/ /\ Failing(TRUE)
              /\ Put(b, [settling EXCEPT !.err = TRUE])
              /\ UNCHANGED queue
    /\ UNCHANGED <<docVars, pageVars, taskVars, userVars, lossVars>>

(* requeueFailedOps, row by row: a row is through with its claim given back, *)
(* or with an error for the task to return.                                  *)
Through(b, i) == Put(b, [batch[b] EXCEPT !.failed = @ \ {i}, !.held = @ \ {i}])
Errs(b, i)    == Put(b, [batch[b] EXCEPT !.failed = @ \ {i}, !.err = TRUE])
FailCount(i)  == [queue[i] EXCEPT !.fails = @ + 1]

(* Mutant: a failed operation gives its slot back although it will be retried. *)
RetryRowDrains(b, i) ==
    /\ queue' = [queue EXCEPT ![i] = [FailCount(i) EXCEPT !.st = "free", !.net = FALSE]]
    /\ Through(b, i) /\ Failing(FALSE)
    /\ FinalizeSubtask(queue[i].doc, FALSE) /\ UNCHANGED lossVars

(* Another try: the failure is counted, then the claim released. *)
RetryRow(b, i) ==
    /\ \/ /\ queue' = [queue EXCEPT ![i] = [FailCount(i) EXCEPT !.st = "free", !.net = FALSE]]
          /\ Through(b, i) /\ Failing(FALSE)
       \/ /\ queue' = [queue EXCEPT ![i] = FailCount(i)]
          /\ Errs(b, i) /\ Failing(TRUE)
    /\ UNCHANGED <<row, lossVars>>

(* Past the budget: the slot is given back, the operation written to the     *)
(* dead letters, the row deleted, and each of the three is tried whatever    *)
(* became of the one before.                                                 *)
DropRow(b, i) ==
    \E lost \in SUBSET {"slot", "letter", "delete"} :
        /\ Failing(lost # {})
        /\ IF queue[i].op = "ingest" THEN FinalizeSubtask(queue[i].doc, "slot" \in lost)
                                     ELSE UNCHANGED row
        /\ dead'    = IF "letter" \in lost THEN dead ELSE dead \union {queue[i].doc}
        /\ dropped' = IF "letter" \in lost THEN dropped \union {queue[i].doc} ELSE dropped
        /\ missed'  = IF queue[i].op = "retract" THEN missed \union {queue[i].doc} ELSE missed
        /\ queue'   = IF "delete" \in lost THEN [queue EXCEPT ![i] = FailCount(i)] ELSE Without({i})
        /\ IF lost \subseteq {"slot"} THEN Through(b, i) ELSE Errs(b, i)

(* A row somebody scrubbed counts no failure and is not released; without a  *)
(* count the row is left as it is.                                           *)
Requeue(b, i) ==
    /\ At(b, "settle") /\ i \in batch[b].failed
    /\ \/ i \notin Queued /\ Through(b, i) /\ UNCHANGED <<queue, row, lossVars, faults>>
       \/ i \in Queued /\ queue[i].fails < MaxFail /\ RetryRow(b, i)
       \/ i \in Queued /\ queue[i].fails >= MaxFail /\ DropRow(b, i)
       \/ Failing(TRUE) /\ Errs(b, i) /\ UNCHANGED <<queue, row, lossVars>>
    /\ UNCHANGED <<sibling, pageVars, taskVars, userVars>>

Settled(b) == At(b, "settle") /\ batch[b].failed = {}

(* Mutant: no follow-up is scheduled. *)
FinishQuietly(b) ==
    /\ Settled(b) /\ ~batch[b].err
    /\ Put(b, Resting)
    /\ recheck' = IF batch[b].kind = "recheck" THEN "none" ELSE recheck
    /\ UNCHANGED <<docVars, queue, pageVars, triggers, starting, userVars, lossVars, faults>>

(* scheduleFollowUp *)
Finish(b) ==
    /\ Settled(b) /\ ~batch[b].err
    /\ Put(b, Resting)
    /\ triggers' = IF Queued # {} THEN triggers + 1 ELSE triggers
    /\ recheck' = IF batch[b].kind = "recheck" THEN "none" ELSE recheck
    /\ UNCHANGED <<docVars, queue, pageVars, starting, userVars, lossVars, faults>>

(* asynq runs the same task, under the same task id, again. *)
Redelivered(b) ==
    /\ Put(b, Resting)
    /\ IF batch[b].kind = "recheck" THEN recheck' = "due" /\ UNCHANGED triggers
                                    ELSE triggers' = triggers + 1 /\ UNCHANGED recheck

(* A settle error leaves through the abnormal-exit release. *)
FinishFailed(b) ==
    /\ Settled(b) /\ batch[b].err
    /\ \E fails \in BOOLEAN :
          /\ (fails => ~Lite) /\ Failing(fails)
          /\ queue' = IF Lite \/ fails THEN queue ELSE Released(batch[b].peeked)
    /\ Redelivered(b)
    /\ UNCHANGED <<docVars, pageVars, starting, userVars, lossVars>>

(* A worker process dies. Its task is redelivered, and when the process is   *)
(* started again recoverPendingWikiTasks adds a trigger for what is queued.  *)
Crash(b) ==
    /\ ~Lite /\ ~At(b, "idle") /\ CanFault("crash") /\ faults' = faults + 1
    /\ Redelivered(b)
    /\ starting' = TRUE
    /\ UNCHANGED <<docVars, queue, pageVars, userVars, lossVars>>
WakeUps == IF Queued # {} THEN 1 ELSE 0
Recover ==
    /\ starting
    /\ starting' = FALSE
    /\ triggers' = triggers + WakeUps
    /\ UNCHANGED <<docVars, queue, pageVars, batch, recheck, userVars, lossVars, faults>>

(* Lite mode dies as a whole: its tasks, batches and requests with it.       *)
(* resetPendingTasks fails what was transient, save a document that owes     *)
(* only its wiki slot, and recoverPendingWikiTasks recreates one trigger.    *)
OwesWikiOnly(d) ==
    /\ row[d].status = "finalizing" /\ row[d].count = 1
    /\ \E i \in Queued : queue[i].doc = d /\ queue[i].op = "ingest"
LiteRestart ==
    /\ Lite /\ CanFault("crash") /\ faults' = faults + 1
    /\ batch' = [b \in Batches |-> Resting]
    /\ row' = [d \in Docs |-> IF Has(row[d], Active \union {"deleting"}) /\ ~OwesWikiOnly(d)
                              THEN [row[d] EXCEPT !.status = "failed", !.count = 0] ELSE row[d]]
    /\ sibling' = {}
    /\ triggers' = WakeUps
    /\ user' = [d \in Docs |-> IF user[d] = "done" THEN "done" ELSE "idle"]
    /\ seen' = [d \in Docs |-> {}]
    /\ UNCHANGED <<queue, pageVars, recheck, starting, lossVars>>

(* wikiClaimStaleAfter exceeds the task timeout: only a dead batch's claim   *)
(* grows stale. wikiSlugLockTTL does not exceed the slowest model call.      *)
ClaimExpires(i) ==
    /\ i \in Queued /\ queue[i].st = "fresh" /\ \A b \in Batches : i \notin batch[b].peeked
    /\ queue' = [queue EXCEPT ![i].st = "stale"]
    /\ UNCHANGED <<docVars, pageVars, batch, taskVars, userVars, lossVars, faults>>
SlugLockExpires ==
    /\ slugLock # NoBatch
    /\ batch[slugLock].locked => "slow" \in Faults
    /\ slugLock' = NoBatch
    /\ UNCHANGED <<docVars, queue, page, batch, taskVars, userVars, lossVars, faults>>

-----------------------------------------------------------------------------
Init ==
    /\ row = [d \in Docs |-> [NewRow EXCEPT !.status = "processing"]]
    /\ sibling = {}
    /\ queue = [i \in Ids |-> [st |-> "unused"]]
    /\ page = NoPage /\ slugLock = NoBatch
    /\ batch = [b \in Batches |-> Resting]
    /\ triggers = 0 /\ recheck = "none" /\ starting = FALSE
    /\ user = [d \in Docs |-> "idle"] /\ seen = [d \in Docs |-> {}]
    /\ dead = {} /\ dropped = {} /\ missed = {}
    /\ faults = 0

Request(d) == Cancel(d) \/ Delete(d)
Continue(d) ==
    \/ PostProcess(d) \/ SiblingEnds(d) \/ CancelScrub(d)
    \/ DeleteScrub(d) \/ DeleteList(d) \/ DeleteRetract(d) \/ DeleteStrip(d)
MapOf(b, i) == MapSkip(b, i) \/ MapOne(b, i) \/ MapFail(b, i) \/ MapRetract(b, i)
Step(b) ==
    \/ Trigger(b) \/ Recheck(b)
    \/ \E i \in Ids : MapOf(b, i) \/ Drain(b, i) \/ Requeue(b, i)
    \/ ReduceNothing(b) \/ Reduce(b) \/ SlugBusy(b) \/ Write(b)
    \/ Trim(b) \/ Finish(b) \/ FinishFailed(b)
Expire == SlugLockExpires \/ \E i \in Ids : ClaimExpires(i)

Next ==
    \/ \E d \in Docs : Request(d) \/ Continue(d)
    \/ \E b \in Batches : Step(b) \/ Crash(b)
    \/ Expire \/ Recover \/ LiteRestart

(* asynq keeps delivering tasks, a running batch runs on, requests end, and  *)
(* leases run out; nobody has to cancel or delete.                           *)
Fairness ==
    /\ \A d \in Docs : WF_vars(Continue(d))
    /\ \A b \in Batches : WF_vars(Step(b))
    /\ WF_vars(Expire) /\ WF_vars(Recover)

Spec == Init /\ [][Next]_vars /\ Fairness

-----------------------------------------------------------------------------
(* Properties.                                                               *)

Unused  == [st |-> "unused"]
Entries == [st : {"free", "fresh", "stale", "gone"}, doc : Docs, op : {"ingest", "retract"},
            fails : Nat, slugs : BOOLEAN, net : BOOLEAN]
Pages   == [exists : BOOLEAN, refs : SUBSET Docs]
Runs    == [at : {"idle", "map", "write", "drain", "settle"}, kind : {"plain", "recheck"},
            peeked : SUBSET Ids, held : SUBSET Ids, todo : SUBSET Ids, mapped : SUBSET Ids,
            retracts : SUBSET Ids, failed : SUBSET Ids, live : SUBSET Ids, read : Pages,
            locked : BOOLEAN, err : BOOLEAN]

(* The type invariant of task_pending_ops and its batches.                   *)
TypeOK ==
    /\ row \in [Docs -> [status : Statuses, count : Nat, gone : BOOLEAN]]
    /\ sibling \subseteq Docs /\ dead \subseteq Docs /\ dropped \subseteq Docs
    /\ missed \subseteq Docs
    /\ queue \in [Ids -> Entries \union {Unused}]
    /\ page \in Pages /\ slugLock \in Batches \union {NoBatch}
    /\ batch \in [Batches -> Runs]
    /\ starting \in BOOLEAN /\ triggers \in Nat /\ recheck \in {"none", "armed", "due", "active"}
    /\ user \in [Docs -> {"idle", "cancelling", "cancelled", "marked", "scrubbed", "listed",
                          "queued", "done"}]
    /\ seen \in [Docs -> SUBSET Docs]
    /\ faults \in Nat

(* No row is ever in the hands of two running batches (ClaimBatch: "never    *)
(* handed out twice"), through crashes, expired claims and retries.          *)
RowHeldOnce ==
    \A b, c \in Batches : b # c => batch[b].held \intersect batch[c].held = {}

WikiQueued(d) == \E i \in Queued : queue[i].doc = d /\ queue[i].op = "ingest"
Answered(d) == d \in page.refs \union dead \union dropped

(* An operation leaves the queue only when its document is on the page, in   *)
(* the dead letters, or where the code itself gives it up with a log line:   *)
(* the model failed to write the page, the document has no text, its row     *)
(* could not be read and so counted as gone (isKnowledgeGone), its dead      *)
(* letter could not be written, or the page was written without its lock     *)
(* beside another batch (withSlugLock). Nothing else loses one: no contended *)
(* slug, failed batch, settle error or crash (collectUnapplied,              *)
(* requeueFailedOps, the redelivery of the trigger).                         *)
NothingLost ==
    \A d \in Docs : ~KnowledgeGone(d) /\ user[d] = "idle" /\ ~Has(row[d], {"processing"})
        => WikiQueued(d) \/ Answered(d)

(* Without a crash or a database error in a write, "completed" comes only    *)
(* when the wiki has answered for the document in one of these ways and the  *)
(* sibling has ended: each slot is given back once.                          *)
CompletedIsWritten ==
    faults = 0 => \A d \in Docs : Has(row[d], {"completed"}) => Answered(d) /\ d \notin sibling

(* Once a delete request has ended and its retract has run, the wiki does    *)
(* not cite the document, whatever batch was at work on it; unless the       *)
(* retract was never queued, was buried, or was spent on a failed lookup or  *)
(* model call, which the code only logs.                                     *)
Retracted(d) == \A i \in Queued : queue[i].doc # d
GhostFree ==
    \A d \in Docs : /\ user[d] = "done" /\ d \notin missed /\ Retracted(d)
                     /\ \A b \in Batches : d \notin Of(batch[b].peeked)
                    => d \notin page.refs

(* The queue drains: a follow-up, a retry or a recheck always comes back for *)
(* what a batch left behind.                                                 *)
QueueDrains == <>[](Queued = {})

=============================================================================
