# WeRAG: models, checks and proofs

WeRAG is a Go service that turns uploaded documents into searchable knowledge
and answers questions over it. This directory models the parts of it that are
hardest to test: the life of a document, from upload to "completed", while
workers, users, retries, crashes and a housekeeping cron all act on one
database row; the queue through which its wiki pages are written; and four
protocols by which processes agree over Redis: a lock, the limit on calls to a
model, the questions of chat users, and the approval of tool calls. All paths
below are relative to the repository; `service/` is
`internal/application/service/`, `repository/` is
`internal/application/repository/`.

## 1. Inventory

### 1.1 The document core

| Component | State | Operations |
|---|---|---|
| Knowledge row (`repository/knowledge.go`, `knowledge_transfer.go`) | `parse_status`, `pending_subtasks_count`, `deleted_at` | full-row `UpdateKnowledge`, column updates, `FinalizeSubtask`, `SetFinalizing`, `CompleteProcessingWithoutSubtasks`, `UpdateKnowledgeForTransfer`, delete |
| Document worker (`service/knowledge_process.go`) | chunks, vectors, Redis `multimodal:pending:<id>` | `ProcessDocument`, `processChunks`, `enqueueImageMultimodalTasks` |
| Image task (`service/image_multimodal.go`) | the same Redis key, image chunks | `Handle`, `checkAndFinalizeAllImages` |
| Post-processing (`service/knowledge_post_process.go`) | the hand-off `processing -> finalizing`, the planned fan-out | `Handle` |
| Enrichment subtasks (`service/knowledge_process.go`, `extract.go`, `knowledge.go`) | summary, questions, graph of the document | `ProcessSummaryGeneration`, `processQuestionGenerationForChunks`, `ChunkExtractService.Handle`, `finalizeSubtaskDetached` |
| User requests (`service/knowledge_process.go`, `knowledge_delete.go`, `internal/router/task_inspector.go`) | attempts (`SpanTracker`) | `ReparseKnowledge`, `CancelKnowledgeParse`, `executeKnowledgeDelete`, `dequeueKnowledgeTasks` |
| Housekeeping (`service/knowledge_housekeeping.go`) | none of its own | sweeps A, B and C every five minutes |
| asynq (`internal/router/task.go`, `internal/middleware/asynqdl`) | queues, retries, leases | enqueue, retry, redelivery, dead letters |

How they interact: an upload inserts a `pending` row and enqueues
`document:process`. A worker parses, writes chunks and vectors, and enqueues
either one image task per image, or `knowledge:post_process`. The images count
down a Redis key; the last one starts post-processing. Post-processing seeds
`pending_subtasks_count`, moves the row to `finalizing` and enqueues the
enrichment subtasks; each gives its slot back when it ends for good, and
whoever takes the counter to zero promotes the row to `completed`. A user may
reparse, cancel or delete at any moment. Nothing holds a lock over all this:
handlers read the row, work for minutes, and write; they agree only through
guards in single SQL statements and through status checks between steps.

What is hard: steps of different actors between a check and a write; full-row
saves of a row read long before; retries of a handler that already did half of
its work; a process that dies after its effect and before its acknowledgement;
failed enqueues; a second attempt (reparse) while tasks of the first still
run; and errors that are only logged. What makes it correct: a document is
completed once, and only when nothing of it is outstanding; it is never left in
a state only a database administrator can end; a cancelled document stays
cancelled; a deleted one leaves nothing; a completed one is indexed by its last
attempt only.

### 1.2 The other concurrent parts

| Component | State | Operations | What is hard about it |
|---|---|---|---|
| Wiki queue (`repository/task_queue.go`, `service/wiki_ingest*.go`, `service/knowledge_delete.go`, `internal/container/re*_pending_*.go`) | `task_pending_ops` with claims and failure counts, wiki pages and their `source_refs`, the slug lock, asynq triggers | `ClaimBatch`, `PeekBatch`, `ProcessWikiIngest` with map, reduce and settle, `requeueFailedOps`, `scheduleFollowUp`, `scheduleStaleClaimRecheck`, `cleanupWikiReferences`, `recoverPendingWikiTasks`, `resetPendingTasks` | claims by document, stale claims, rows added during a claim, partial success of a batch, a slot of the document's counter that must be given back once, a delete against a batch that writes |
| Model limiter (`internal/models/limiter`) | a Redis sorted set of leases per model | `Acquire` with its poll and heartbeat, release, `SetGlobalLimit` | lost answers, late heartbeats, clocks that differ, fail-open, a limit that changes under waiting callers |
| Chat questions (`internal/im/qaqueue.go`, `service.go`, `service/usage_question_reservation.go`) | queue per process, Redis counters per user and over all processes, running requests, stop markers, reservations | `HandleMessage`, `reserveQuestion`, `Enqueue`, `Remove`, `runWorker`, `executeQARequest`, `/stop` | four ways out of a queue, each with its own releases; places taken in one process and counted in another; a stop that races the start |
| Tool approval (`internal/agent/approval/gate.go`) | waiting calls of a process, a decision channel each, Redis pub/sub | `RequestAndWait`, `Resolve`, `resolveCrossInstance`, `runSubscriber` | a user's answer against the timeout, two answers, an answer in the wrong process, lost acknowledgements |
| Redis token lock (`internal/common/redislock/token_lock.go`) | one key with an owner token | `WithRenewableLock` | lost answers, expiry while paused, late release |

What makes them correct: a queued operation is in one batch at a time and is
never lost, and its document is completed only after it; a deleted document is
cited by no page; calls to a model fit its limit; a counter in Redis is exactly
what it counts; an answer that is acknowledged is the one that is taken; and
whoever waits does not wait for ever.

### 1.3 Left out

The agent engine and the steering of a running answer, the retrieval and
answering pipeline, memory extraction, MCP and OAuth, sandboxes, clone/move and
FAQ import, billing, the document reader, the front ends and the legal corpus
tools; `PROJECT.json` gives the reason for each. Most are sequential around a
model call or an external service, and what is right about them is about text.

## 2. The modules

```
 KnowledgeRow  <-  KnowledgePipeline  <-  ProcessDocument  \
                                      <-  PostProcess       \
                                      <-  EnrichmentTasks     > KnowledgeLifecycle
                                      <-  ImageMultimodal   /   ^            ^
                                      <-  KnowledgeApi     /    |            |
                                 CounterRefinement -------------+  KnowledgeLifecycleProofs
                                  ^   ^        | INSTANCE                    ^
                       MCKnowledge    |        v                             |
        EnrichmentCounterProofs -> EnrichmentCounter                         |
                                      +-------------------------  KnowledgeSafetyProofs

        WikiQueueProofs   -> WikiQueue    <- MCWiki    (EXTENDS KnowledgeRow)
        TokenLockProofs   -> TokenLock    <- MCTokenLock
        ModelLimiterProofs -> ModelLimiter <- MCLimiter
        ImQuestionsProofs -> ImQuestions  <- MCIm
        ToolApprovalProofs -> ToolApproval <- MCApproval
```

* **KnowledgeRow** gives every SQL statement on the row as a function from row
  to row, its WHERE clause included. The difference that matters most is kept:
  `Saved` (the full-row `Save`, which writes whatever status the caller read)
  against the guarded statements. A soft-deleted row is never changed again,
  because every statement goes through the model's `deleted_at IS NULL`.
* **KnowledgePipeline** holds the state all handlers share. `row` is the
  database row; `latest` the highest attempt of the span tracker; `stored` what
  is kept for the document, as pairs of attempt and kind (chunks "text" and
  "image", "vector", "summary", "question", "graph"); `mm` the Redis counter;
  `queue` the bag of waiting asynq tasks; `proc` for each process its program
  counter, its job and the local variables the handlers keep across steps
  (`seen`, the status of the row it read; `todo` and `short`, sets of images or
  slots); `used` counts the requests made. It also models asynq: a handler's
  error is retried until `MaxRetry`, then handed to the dead-letter middleware,
  which fails the row of a `process` or `post` task; with the crash fault a
  process may die at any step, also between the handler's return and the
  acknowledgement ("ack"), and the task is redelivered as one more retry.
* **ProcessDocument**, **ImageMultimodal**, **PostProcess**,
  **EnrichmentTasks** and **KnowledgeApi** model one handler each. One action
  is one database, Redis, queue or model call with the branch taken on its
  result; between two calls any other process may run. `map` in `PROJECT.json`
  gives the lines.
* **KnowledgeLifecycle** composes them, and states the properties.
* **EnrichmentCounter** states what `pending_subtasks_count` promises, apart
  from the handlers: slots are planned, enqueued or short, held, drained.
  Slots belong to an attempt: a reparse plans new ones, resets the row and then
  the counter. **CounterRefinement** reads the slots of the latest attempt off
  the tasks that wait or run and says that the handlers implement this contract.
* **WikiQueue** models the ingest lane of `task_pending_ops`. `queue` holds the
  rows by id, each free, claimed (`fresh`), claimed too long ago (`stale`) or
  gone; `batch` the batch a worker runs: the rows it read (`peeked`), those it
  still holds, those to map, mapped, failed, and the page as it read it. `Claim`
  is one transaction; map, reduce up to the model call, the write of the page,
  the drain of each document, the trim, the settling of each failed row and the
  follow-up are steps of their own. `page` is one page that all documents feed:
  the slugs that only one document has need no lock. The requests of a user who
  cancels or deletes are split where the code can be interrupted: mark, scrub,
  list the pages, persist the retract, strip the pages. It uses the statements
  of `KnowledgeRow` for the slot in the counter, beside one sibling subtask of
  the documents in `Enriched`. Two history variables record what the code gives
  up with no more than a log line: `dropped`, the documents whose operation went
  unwritten, and `missed`, those whose retract did.
* **ModelLimiter** models the Redis limiter: a call waits, runs, and ends; its
  heartbeat sleeps, wakes and refreshes. Leases are kept as the ticks they have
  left, and `Skew` says by how much each process's clock is ahead when it prunes.
* **ImQuestions** follows each question through `at`: checked against the plan,
  counted for its user, queued in its process, taken by a worker, past the gate,
  registered, saved, running, leaving. `/stop` is a second actor of five steps.
  `lostGate` and `lostUser` are history variables: increments whose process died.
* **ToolApproval** models a waiting call (register, announce, wait, timeout,
  read, leave), requests to resolve it (local lookup, delivery, publication,
  acknowledgement) and the subscriber of each process.
* **TokenLock** models `WithRenewableLock` with its renewal loop, a discrete
  clock, expiry, cancellation, Redis errors before or after execution, and
  crashes. The history variable `kept` records whether the key carried the
  call's token since it acquired it.

### Abstractions

*The document core.* A document is a file with text in a knowledge base with
vector indexing; wiki, catalogue and automatic tags are off; its source file is not replaced
while it is parsed; and the uploader has a free parse slot. What a step writes is
one element of `stored` per attempt and kind. The clean-up of chunks, index and
graph, and the purge of a delete, are one step each: a failing purge leaves all
or nothing. `"deleting"` as the answer for an unreadable row
(`isKnowledgeAborted`) is kept, and enabled by the db fault. The signal a
cancel sends to running workers is an error of their next call, so a "retry"
fault. Ownership checks (tenant, knowledge base) are left out: no request here
changes the owner. A delete is a request; the batch variants run the same code
in a task. Sweeps are enabled only when the document has neither waiting nor
running tasks, which is what their staleness threshold, the span heartbeat and
the queue probe amount to; a sweep's read and its update are two steps.
`Lite` is the deployment without Redis: no image counter and no dequeue. A task
whose last try fails marks its row failed there too, as asynq's error handler
does; without asynq that failure is logged and the row waits for a sweep.

*The wiki queue.* One knowledge base, one shared page; every document gives it
one update. What a document's text says, the folder plan, the finalize lane
(index, cross-links, publication) and the cap on the batches of one knowledge
base are left out; they change neither the queue nor `source_refs`. The claim is
one step, although `ClaimBatch` reads the claimable rows and stamps them in two
statements of one transaction. A trigger is a unit of `triggers`; its retries
are always delivered. The sibling subtask ends once and for good.

Errors are branches of the steps they meet, by fault:

* `db`, a statement that writes: the decrement and the promotion of a slot, the
  trim, each statement that settles a failed row (`RetryRow`, `DropRow`: slot,
  dead letter and deletion fail independently of one another), the release on
  the way out, the insert of a retract, the strip of a delete;
* `read`, a query whose error the code takes for an answer: the row in
  `isKnowledgeGone` ("gone", in the map and again in reduce), the pages that
  cite a deleted document (`MapRetract`, `DeleteList`), the page itself
  (`PageAnswers`: "no page"). It also stands for a document without chunks or
  text, which is skipped in the same way (`MapSkip`);
* `redis`: the slug lock is not taken and the page is written all the same
  (`MayEnter`), or it is not deleted (`Unlocked`);
* `llm`: the model fails or answers nothing, and the page is left as it is;
  `fail`: a map or a write returns an error, and the operation is retried.

Two errors are left out, as they are logged and leave rows that the next batch
treats alike: a scrub that fails leaves ingest rows of a document that is marked
already, so the map skips them; and a trigger, recheck or follow-up that is not
enqueued leaves the rows for the next one.

*The other protocols.* The limiter's clock runs in ticks, and reading the time
and the command that uses it are one step. The local limiter of a process
without Redis is a channel and is left out. In the chat model Redis answers;
one plan covers all users; a question is one message, delivered once. In the
approval model a cancel and a timeout are the same step with two decisions, and
a message published to a process is lost, or waits in its `inbox`; a restart
is a step only while a call waits in that process.

## 3. What the runs check

Every passing run explores all states of its instance.

| Run | Instance | Properties and what they show |
|---|---|---|
| `token_lock` | 3 callers, one punctual and two that may pause for any time; lease 2, interval 1 | `LiveContextOwns`: for the punctual caller, a live ownership context means owning the key. `NilMeansExclusive`: a nil return means the key was never lost, paused or not. `OthersNeverRemove`: a key only goes by its own call or at the end of its lease. `NoPermanentLock`: a waiting caller does not wait for a dead owner. `TypeOK` |
| `counter_contract` | 3 slots, any number of attempts | `CounterIsExact`, `CompletedOwesNothing`, `SomebodyPromotes` |
| `doc_pipeline` | 2 workers, 1 user, 2 images, summary, 1 question batch, 1 graph chunk, 2 attempts; retries, enrichment enqueue failures; reparse and delete of an ended document | `CompletedMeansDrained`: completed only when no enrichment task of the attempt waits or runs. `ImagesComeFirst`: no hand-over before every image has been read or given up. `NothingStranded`: when nothing is left to run the row is not in a transient status. `CompletedIsIndexed`: the last attempt's chunks and vectors, and no others. `NothingLeftBehind`: a deleted document leaves nothing. `CompletedHolds`: only a reparse or a delete ends "completed". `KeepsCounterContract`: the handlers refine `EnrichmentCounter`, through a second attempt |
| `doc_user` | 2 workers, 1 user, no Redis, 2 images (so two duplicate post-process tasks), 1 question batch, 1 graph chunk; cancel, cancel again, delete | `FannedOutOnce`: the guard of `SetFinalizing` lets one of the duplicates through. `CancelHolds`, `DeleteHolds`: no drain promotes such a row. `KeepsCounterContract`, here with cancels and deletes in the middle of the enrichment |
| `doc_settles` | 1 worker, 1 caller that is both user and cron, 1 image, summary, 2 attempts, every fault; a reparse and a delete of a running document, a cancel of a waiting one | `EventuallySettles`: the row ends completed, failed, cancelled or deleted. `TypeOK` |
| `wiki_standard` | 2 workers, 2 documents that meet on the page, one claimed by each batch, 1 retry; failing maps, writes, model calls and reads, Redis errors, contended slugs, one crash with redelivery, expired claims and locks | `RowHeldOnce`: no row is in two running batches. `NothingLost`: a document handed to the wiki is queued, on the page, in the dead letters, or dropped by a branch the code only logs. `CompletedIsWritten`: without a crash, completed only after that, and after the sibling. `TypeOK` |
| `wiki_lite` | no Redis, so 1 worker at a time; batches of 2 documents, of which the user cancels and deletes one at any step; failing maps, writes, model calls and reads; one process restart or database error | `GhostFree`: once the delete has ended and its retract has run, the page does not cite the document, unless the retract was given up. `QueueDrains`: the queue is empty in the end |
| `limiter` | 3 calls, 2 punctual, 2 that may die or whose commands may fail, one clock a tick ahead; lease 3, refresh every tick; limits 0, 1 and 2 | `WithinLimit`: among any punctual calls at work one was admitted under a limit they all fit. `NobodyWaitsForever`. `TypeOK` |
| `im_queue` | 3 questions of 2 users, 2 processes of which one may die, 1 worker and room for 1 question each; every limit is 1; 1 `/stop` | `GateIsExact`, `UserCountIsExact`: the Redis counters are the questions they count, plus what a dead process left. `CapHolds`: the cap of the plan, per process. `EveryQuestionEnds`. `TypeOK` |
| `approval` | 2 calls in 2 processes, 2 answers of the right user to one and 1 of a stranger to the other; lost and late messages, timeouts, one process may restart | `OkIsTaken`: an answer acknowledged is the one the call gets. `AlreadyIsLost`: one refused as too late is not. `OnlyTheAskedDecides`. `WaitEnds`. `TypeOK` |

Two more runs end in a counterexample: `cancel_during_summary` and
`wiki_recheck_lost`, section 4.

The bounds, and why they are enough. Two workers give every interleaving of two
handlers, and no handler step reads the state of more than one other task. One
question batch and one graph chunk are the smallest fan-out where one slot
drains before another; the summary is a third with other code. Two images are
the smallest number for which "the last" differs from "the first". `MaxRetry`
is 1 (each handler fails once and is retried, or fails for good), and 0 in
`doc_settles`, whose fault set already gives a crash, an error or an abort at
each step: there a first failure is the last. Two attempts give an old and a
new one. In `counter_contract` three slots allow one planned, one short and one
held slot at once. In the wiki runs two documents are the smallest number that
contend for a page. A batch of two, the smallest that succeeds in part, is in
`wiki_lite`; in `wiki_standard` a batch claims one row, so that the two meet on
the page under every fault but `db` and `slow` (section 5 proves `NothingLost`
and `CompletedIsWritten` for batches of any size). `MaxRows` is exactly the rows
those requests can queue; one fault (`MaxFaults`) suffices for every claim that outlives its batch, and the safety run leaves the
user out so that two batches fit. Workers, and there documents, are symmetric,
and no temporal property is checked under symmetry. In the limiter a lease of
three ticks is the shortest that outlives one late refresh seen by a clock that
is one tick ahead (`LimiterAssumption`); three calls let one die, one wait and
one run. `wiki_lite` has one worker because without Redis one batch runs at a
time (`liteLocks`); of its documents one has a sibling subtask. In `im_queue` limits of 1 make every limit bind with three questions.

Deadlock is not checked where the system may really stop: a document whose
tasks are done, a drained wiki queue, questions and calls that are all over
have nothing left to do, and the requests are bounded. `TokenLock` and
`ModelLimiter` have no such stop and are checked for deadlock.

### Which faults are on, and why not all everywhere

The safety properties are checked for the faults the code answers with a
mechanism: retries, failed enqueues, duplicates, user requests, expired leases.
Where the code has no mechanism, the property fails in the model:

* crash, in the document core: an effect committed before the acknowledgement
  is repeated, so counts drift: a subtask drains twice, an image is counted
  twice, and a `process` task that died after it enqueued post-processing
  parses again;
* db: an error that is only logged (a failed `Save`, `SetFinalizing`, `Decr`)
  leaves the row behind until a sweep finds it; a settle error of a wiki batch
  releases, on the way out, rows that another batch may have claimed by now,
  and `RowHeldOnce` fails. So `db` is on in `wiki_lite` only; that `NothingLost`
  holds with it is a theorem (section 5);
* what the wiki gives up with only a log line (section 4, 14 to 17): a row
  counted as gone or without text, a model that does not answer, a dead letter
  that is not inserted, a write that another overwrites without the lock. The
  properties name these and no others: `dropped` and `missed` grow in no other
  branch;
* a summary together with a cancel or a delete (`cancel_during_summary`):
  `doc_user` has no summary for that reason;
* reparse, cancel or delete while parsing or while subtasks run (section 4);
* without Redis and with two images, the duplicate post-process task of an old
  attempt names no attempt: it may hand over the attempt of a reparse, whose
  document is then completed before it is parsed;
* a slug lock that expires under a slow model call (five minutes; the fault
  `slow`), and is then deleted by the one that lost it;
* a delete in standard mode, whose page listing is stale when it strips the
  pages: it overwrites the references another document added, so `NothingLost`
  is checked without deletes;
* a crash of a wiki batch between its drains and its trim: the batch runs
  again and drains again, so `CompletedIsWritten` speaks of runs without faults;
* in the chat model turns that outlast the lifetime of the counter that counts
  them (`Slow`): the counter restarts from zero under them.

`EventuallySettles` and `QueueDrains` hold with crashes and errors on.

### Fairness

`KnowledgeLifecycle`: a worker that can take a step takes one (asynq keeps its
workers busy, every call has a timeout, a lease that expires is redelivered); a
request under way goes on; the cron looks again and again (every five minutes),
and not every one of its sweeps dies or fails (`SF` on `SweepUpdate`): a sweep
that was killed is simply run again by the next tick. No user action is fair.
`TokenLock`: the clock advances, callbacks return, and a caller that finds the
key free again and again (it retries every 25 to 75 ms) gets it once.
`WikiQueue`: batches run on, triggers are delivered, a request that has begun
ends, leases run out; nobody has to cancel or delete.
`ModelLimiter`: time passes, callers poll, provider calls end, and a select with
two ready cases does not take one of them for ever (`SF` on `Stop`: Go chooses
at random). `ImQuestions`: workers and handlers run, turns end (the chat model
call has a timeout), and the gate's key expires when it is not renewed.
`ToolApproval`: the waiting goroutine runs and its timer fires; nobody has to
answer.

## 4. Disagreements with the repository's own words

Two have a run that ends in a counterexample, and a row in `findings`:

1. `cancel_during_summary`: the summary task saves the row as it read it, with
   `parse_status`; a cancel in between is undone, and the summary's own drain
   then completes the document, although the cancel zeroes the counter "so a
   late subtask FinalizeSubtask call can't race-promote the row"
   (`service/knowledge_process.go:2931-2933`).
2. `wiki_recheck_lost`: a batch that finds only claimed rows arms a recheck
   under the task id `wiki-ingest-recheck-<kb>`
   (`service/wiki_ingest.go:1051-1077`), "so those rows are reclaimed
   automatically once eligible" (`service/wiki_ingest_batch.go:372-374`). When
   the task that runs is itself the recheck, asynq still holds that id; the
   conflict counts as armed, the task ends, and if the holder of the claims has
   died nobody comes back for the rows. It takes a recheck that finds new
   claims: another batch claimed after the first one was armed.
   `scheduleFinalizeRetry` (`:827`) knows this and names no id.

The others follow from the models in the same way, without a run of their own:

3. The re-check that "closes the race" of a cancel with the start of a parse
   (`service/knowledge_process.go:3475-3478`) and the `Save` are two
   statements; a cancel between them becomes `processing`.
4. "A delete is in progress; cancel cannot supersede it" (`:2896`), but the
   update goes by id alone.
5. Rows are marked first "to prevent async task conflicts"
   (`service/knowledge_delete.go:456`), but a worker between its check and its
   write puts chunks back after the purge.
6. A stale subtask "must NOT ... decrement" the new attempt's counter
   (`service/knowledge.go:195-198`); the attempt is asked for once, at the
   entry, and a subtask already past it drains for the new one.
7. "A subtask drains exactly once" (`service/knowledge.go:217`), unless its
   worker dies before acknowledging.
8. `ClaimBatch` skips a document with a fresh claim entirely, "to uphold that
   invariant even for a sibling enqueued AFTER a batch already claimed the key
   (e.g. a retract arriving while the ingest is still in flight)"
   (`repository/task_queue.go:198-205`). A delete, however, scrubs the claimed
   ingest row first (`:402-420`), so its retract is claimable at once, and a
   batch still at work may cite the deleted document after it. `GhostFree`
   holds where one batch runs at a time.
9. The executor without Redis "supports ProcessIn (delay) and MaxRetry options
   for parity with asynq" (`internal/router/sync_task.go:39`), but only those
   given to `Enqueue`; the wiki gives them to `NewTask`.
10. The gate of chat questions: "if all instances crash without decrementing,
    the counter self-heals after this duration" (`internal/im/qaqueue.go:26-29`);
    every attempt of a waiting worker renews that duration (`:306-307`), so the
    counter does not heal while anybody waits. `EveryQuestionEnds` excepts that.
11. `/stop` sets a marker "for requests not yet executing"
    (`internal/im/service.go:2338-2339`); one that is past its marker check and
    not yet in the map or in Redis is found by nothing.
12. `releaseUsagePreflight` (`service.go:464-469`) names `/stop` among the ways
    to give a reservation back; a `/stop` in the queue, a queue timeout and a
    cancel at the gate keep it until it expires.
13. "The limit is a process-wide constant, so it never changes across acquires"
    (`internal/models/limiter/governor.go:130-131`), but `SetGlobalLimit`
    (`:37-41`) changes it; `WithinLimit` is stated for limits that change.

14. An update that is not applied must be re-queued, "otherwise the row is
    deleted and the contribution is silently lost forever"
    (`service/wiki_ingest_batch.go:592-598`). It is lost where an error counts
    as an answer: `isKnowledgeGone` says "deleted or in the middle of being
    deleted" (`wiki_ingest.go:2791-2792`) of any row it cannot read
    (`:2806-2809`), and `filterLiveUpdates` drops its updates without an error.
15. A lost update of a write without the lock "is tolerated by the
    finalize/dead-link passes" (`wiki_ingest.go:909-910`), where finalize "does
    not re-run reduce" (`wiki_ingest_batch.go:598-599`): nobody writes it again.
16. A retract looks again so that "no page is left un-retracted"
    (`wiki_ingest_batch.go:445-447`); when that query fails it is logged
    (`:465-467`) and the retract is trimmed. It is consumed likewise when the
    page cannot be read (`:1792-1805`) or the model does not answer.
17. An operation past its retries is archived "into task_dead_letters", then
    removed (`wiki_ingest.go:1186-1187`); when the insert fails it is removed
    all the same (`:1244-1249`), and is in neither.

Also met: two parses of one document after a reparse of a running one mix their
chunks; a `BatchIndex` error fails the row before it deletes the chunks, so that
a quick reparse loses its own (`service/knowledge_process.go:644-655`); and
`internal/router/task.go:364` says questions and summaries run after the row is
completed, whereas they run while it is `finalizing`.

## 5. What is proved

TLAPS proves, for every value of the constants (under the named assumptions):

* **EnrichmentCounterProofs**, for any finite set of slots
  (`SlotsAssumption`): `Spec => []IInv`, and from it `CounterIsExact`,
  `CompletedOwesNothing` and `SomebodyPromotes`. `CounterIsExact` alone is not
  inductive: a hand-off must start from a state in which no slot is held, or
  old holders would be counted against the new seed (`ParsingHoldsNothing`);
  and a promotion must know that a counter of zero means that nobody holds a
  slot, which is `CounterIsExact` again and needs the finiteness of the set of
  holders. The steps that give a slot back rest on the cardinality of a finite
  set with one element removed.
* **TokenLockProofs**, for any set of clients, lease and renewal interval with
  `0 < RenewInterval < Lease` (`LockAssumption`, which `WithRenewableLock`
  enforces): `TypeOK`; `NilMeansExclusive`, from the invariant that a call
  owning the key has kept it since it acquired it (`ExclusiveInv`); and
  `LiveContextOwns` for every punctual client, from the invariant that the
  lifetime of the key of a running loop exceeds the time to its next renewal
  (`RenewalInv`); and `OthersNeverRemove`, from the fact that a key that is
  there has a lease to run, so that it goes by its own call or by the clock.

* **KnowledgeLifecycleProofs**, for any workers, callers, images, subtasks,
  retries, attempts and faults (`PipelineAssumption`): `Spec => []TypeOK` of the
  document core. The sets alone would not be inductive, so `TypeOK` says what
  each handler relies on between two of its steps (`Sound`): whoever stores
  something knows the attempt it stores it for, the summary saves a status it
  has read and runs again only while it has a try left, post-processing seeds
  the counter with planned slots (hence a natural number, whatever the guards of
  the statements find), and the two enqueue loops end when nothing is left. The
  proof has one lemma per module with a step per action, over lemmas on the row
  statements, the queue and the locals of a handler.

* **KnowledgeSafetyProofs**: the safety of the document core, for any workers,
  attempts, images, subtasks and retries. Seven of its properties
  (`CompletedMeansDrained`, `ImagesComeFirst`, `FannedOutOnce`, `CancelHolds`,
  `DeleteHolds`, `CompletedHolds`, and the refinement `KeepsCounterContract`)
  follow from one inductive invariant, `SafetyInv`. It is an argument about
  *turns*. A handler's frame and a waiting task each carry *claims*: the turn to
  drive the document (the parser, which saves the whole row, then
  post-processing, or a reparse), the right to add image `n` of attempt `a`, the
  duty to give back slot `n` of attempt `a`. `Exclusive` says that a claim is in
  one place only, and that a task that carries one is queued once. This is what
  makes the rest inductive: `CompletedMeansDrained` alone says nothing of a
  subtask that is retried while another copy of it waits, or of a counter that
  is one short. `Phases` says that parsing, images and post-processing follow
  each other and where a request finds the document; `Counting` that
  `multimodal:pending` is never below the number of images that may still add
  text, and that nobody drives meanwhile; `Enriching` that
  `pending_subtasks_count` is the number of slots held, that a document which is
  parsed has none, and that all of them belong to the latest attempt.

  The proof goes in three layers. First, every step of every handler is of one
  of a dozen kinds (`WorkerStepKind`): it moves on, takes a task, puts one back,
  saves the row, hands over, enqueues a slot, gives one back, promotes, counts an
  image. Then each kind, and each step of a request or of the cron, keeps the
  invariant. Last, each kind is a step of `EnrichmentCounter`, as the place of a
  slot is read off the claims (`SlotIs`); a promotion of an earlier attempt
  that finds the counter of the new one at zero is `PromoteLate`.

  The assumption is `Calm`, and it names the places where the code has no
  mechanism; section 3 says what happens without each. No process dies and no
  statement fails (an effect repeated after a crash is a claim carried twice).
  Requests do not overlap, a reparse is of a document that has ended, and
  nobody stops one that is being parsed: the parser's `Save` writes the status it
  has read. Nor one that is being enriched if a summary is written, for the same
  reason (`cancel_during_summary`). Without Redis, where every image starts
  post-processing, there is one attempt and no summary. Retries, failed
  enqueues, model errors, unreadable files, cancels and deletes of a document
  that is being enriched, and reparses of an ended one are all in. Both runs
  `doc_pipeline` and `doc_user` are instances of it; there TLC has found the
  invariant to hold, too. `ImagesAreFirst` needs the counter in Redis
  (`~ManyPosts`): without it every image hands over.

  Three more invariants are proved on top of it. `CompletedIsIndexed` is about
  what is stored, and the end of the parser is where it is decided; `Whole`
  follows it: nothing is stored between the clean-up and the chunks, then the
  text of this attempt, then its vectors, and all of it stays until the next
  reparse cleans up, whatever subtasks and images add. The one step that takes
  something away later is the undo of a failed embedding, which comes after the
  row has been failed. `UndoInTime` therefore keeps reparses of a failed document
  out where embeddings fail: with `ReparseFrom = {"failed"}` and the fault
  "fatal" TLC finds a reparse that opens between the two and stores its chunks
  before the undo, which goes by document and not by attempt, takes them.
  `NothingLeftBehind` follows from `Emptied`: a document that is being stopped
  holds no slot, so once it is purged nobody is left who would write. It needs
  `StopsAtRest`, which rules out what puts a writer beside a purge: a stop of a
  document that is being enriched (the subtask in its model call stores its
  result after the purge), and images that outlive the parsing without Redis.
  `NothingStranded` follows from `Driven`: while the row is pending or processing,
  the turn of the attempt's driver is somewhere, in the queue, with a handler or
  with an image that will hand it over; the image counter in Redis is exactly the
  images that still owe their decrement; a finalizing row whose counter is zero
  has a handler about to promote it; and the post-processing that may fail or
  finish the row has read "processing". A step of a handler hands its turn to its
  own next step or to the task it puts, so that most of the proof is one lemma
  for all of them; only the two steps that count images are different. When the
  queue is empty and everybody idle there is no turn, hence no transient row. It
  is proved for `TasksArrive`, as this is what the hand-over rests on: a pipeline
  task whose enqueue fails, or a parse that ends without a model, leaves the row
  where it is, and without Redis a post-processing task is no turn, since one may
  come early. In those cases it takes a housekeeping sweep; the theorem says that
  nothing else needs one.

* **ModelLimiterProofs**, for any finite set of calls, any lease, interval,
  skew and limits with `Patience + MaxSkew < Ttl` (`LimiterAssumption`):
  `TypeOK`; `WithinLimit`; and `FixedLimitRespected`: under one limit `n`
  throughout, at most `n` punctual calls are at work. The invariant says that
  the lease of a punctual call at work has more left than any clock may be
  ahead, by an amount tied to the age of its last refresh, and that the set
  outlives its newest lease: so no pruning drops it, and whoever is admitted
  has counted everybody at work. The rest is the cardinality of a subset.
* **ToolApprovalProofs**, for any calls, requests and processes
  (`ApprovalAssumption`): `TypeOK`, `OkIsTaken`, `AlreadyIsLost` and
  `OnlyTheAskedDecides`. The invariant ties the three places a decision can be
  in (channel, outcome, acknowledgement) to `once`: a decision in the channel or
  read from it means that `once` is set, an acknowledgement under way already
  says what its answer will say, and only rightful requests are ever looked up.

* **WikiQueueProofs** (`WikiAssumption`): `TypeOK`, in both deployments and
  under any faults; and `RowHeldOnce` for the deployment with Redis and a
  database that answers (`~Lite`, `"db" \notin Faults`; section 3 says what the
  fault breaks). The invariant (`Grip`) says that the rows a batch holds are
  claimed by it or gone, that it holds what it has read until it settles, and
  that no other batch holds them: a claim takes rows that are free or whose
  claim is stale, and a claim goes stale only when its batch is over, as
  the lease of a claim is longer than the time a task may run.
  `NothingLost` and `CompletedIsWritten` are proved for `Steady`: Redis, a slug
  lock that outlasts the model call made under it, and no deletes, for section 3
  says what a slow call and a delete's stale listing overwrite. Maps, reads,
  writes and model calls may fail, Redis may not answer, slugs be contended,
  users cancel; for `NothingLost` workers may die and statements fail as well.
  Both count a document as answered when it is on the page, in the dead letters,
  or in `dropped`, and so say that the branches of section 4 (14, 15, 17) and a
  model that does not answer are the only ways to lose one.
  `NothingLost` needs `KeptInv`: a document has one row (`Users`); what a batch
  read of the page is still on it or written off, and if it has the lock, so is
  whatever came to the page since, for that came from a batch that wrote without
  one (`Locked`); and a batch knows how far it has come with each row it read
  (`Carried`): it is to do, mapped or failed, then it is in the page about to be
  written or has failed, then it is answered or has failed. So a row that is
  trimmed is answered, whoever holds it by then.
  `CompletedIsWritten` also needs that the counter is the number of open slots
  (`CountInv`): a row is open while it is queued and its batch has neither
  skipped nor drained it (`BackBy`, with `Tidy`: a row is to do, mapped or
  failed, one at a time). That is inductive only with `RowHeldOnce`, or two
  batches would give one slot back, and only until a crash or a failed settle,
  after which a batch that has drained runs again.
  `GhostFree` is proved for `OneDelete`: no Redis and one document that is
  deleted. Reads, writes, model calls and settle statements may fail at any step,
  and the process be restarted; a retract that the code gives up is in `missed`,
  and of its document nothing is claimed. The invariant (`GhostInv`) follows what
  could still bring the citation back. As long as the page cites the document, a
  retract of it waits, or is with a batch that has it to do, will write the page
  by it, or has failed and leaves it in the queue (`Awaited`); as long as the
  batch at work may cite it, because it had read the ingest before the delete, or
  the page before the strip, a retract waits that no batch has read (`Unread`).
  It stays so because one batch runs (`Alone`), because after the scrub nothing
  of the document is queued but retracts, so that the last operation a batch
  keeps of it is one (`Asked`), and because a retract is trimmed only after the
  page was written or the retract given up. The hypotheses are needed: with a
  second deletable document TLC finds its strip to put back a list that cites the
  first, and with Redis section 4 (8) says what happens.
* **ImQuestionsProofs**, for any questions, users, processes, routes and limits
  (`ImAssumption`) while turns end within the lifetimes of the Redis counters
  (`~Slow`): `TypeOK`, `GateIsExact`, `UserCountIsExact` and `CapHolds`. A
  counter is exact only if whoever leaves it was in it, so the invariant follows
  each question: it waits in one place of one queue (`QueueSound`), an entry of
  the map is a request of its process that is behind the gate (`MapSound`), and
  a question beyond the first check has a process (`Sound`). One lemma (`Moves`)
  counts a question that changes place; each action is a move, and the crash of
  a process is the cardinality of a set difference. `CapHolds` bounds a sum over
  processes, while each process looks only at its own places: a question that
  may yet be counted keeps its place unless it was refused one (`HasPlace`), and
  the questions counted and the places held are, of each process, at most `Cap`
  (`Placed`); their number is bounded by an injection into processes times
  `1 .. Cap`.

`KeepsContract` and the invariance of `EnrichmentCounter` together say why the
document core counts right: whatever holds of the contract for any finite set of
slots holds of the handlers.

Every safety invariant and every action property of a passing run is the
subject of a theorem, within the hypotheses named above. Only model-checked: the
safety of the document core outside `Calm`, as far as its runs go, and all
liveness (`NoPermanentLock`, `EventuallySettles`, `QueueDrains`,
`NobodyWaitsForever`, `EveryQuestionEnds`, `WaitEnds`), which this prover cannot
treat.

## 6. Not modelled, and what comes next

Within the modelled components: the parse slot of an uploader, manual and FAQ
documents, the parts of a purge as separate steps, the batch delete task with
its dead letter; the finalize lane of the wiki; the in-process limiter; token
and storage meters. The components of 1.3 are left out altogether: a model of
them would say what a prompt, a parser or an external service returns.

Next is the document core outside `Calm`, from an invariant that says which
handlers of an older attempt may still write.
