-------------------------- MODULE KnowledgePipeline --------------------------
(***************************************************************************)
(* What the handlers of one document share: its row, what is stored for    *)
(* it, the asynq queue, and the processes that run tasks (Workers) or API  *)
(* requests (Callers). A handler module EXTENDS this one and adds a        *)
(* handler's steps, one per database, queue or model call; between two of  *)
(* them every other process may run.                                       *)
(*                                                                         *)
(* The knowledge base has no wiki, catalogue or auto-tag, the file is not  *)
(* replaced, and no parse slot limits the uploader.                        *)
(***************************************************************************)
EXTENDS KnowledgeRow, Bags, Integers

CONSTANTS
    Workers,        \* goroutines of the asynq server
    Callers,        \* goroutines serving API requests
    MaxAttempt,     \* bound: the first parse and MaxAttempt - 1 reparses
    MaxRetry,       \* asynq.MaxRetry of a task
    MaxCancels, MaxDeletes,  \* bounds on the API requests
    ReparseFrom, CancelFrom, DeleteFrom,  \* statuses the user sees when asking
    Images,         \* images extracted from the document, when they are read at all
    Summary,        \* the knowledge base wants a summary
    Questions,      \* question batches the chunks give
    Graphs,         \* chunks to extract a graph from
    Lite,           \* no Redis: no multimodal counter, no task inspector
    Faults          \* what may go wrong, out of FaultKinds

(* retry: a call fails and asynq may run the task again; fatal: it fails and *)
(* the attempt ends; model: there is no embedding model; spawn: an enrichment*)
(* task cannot be enqueued; enqueue: another one cannot; db: a statement     *)
(* fails; crash: a process dies.                                             *)
FaultKinds == {"retry", "fatal", "model", "spawn", "enqueue", "db", "crash"}

ASSUME PipelineAssumption ==
    /\ Workers \cap Callers = {}
    /\ MaxAttempt \in Nat \ {0} /\ MaxRetry \in Nat
    /\ MaxCancels \in Nat /\ MaxDeletes \in Nat
    /\ Images \in Nat /\ Questions \in Nat /\ Graphs \in Nat
    /\ Summary \in BOOLEAN /\ Lite \in BOOLEAN
    /\ {ReparseFrom, CancelFrom, DeleteFrom} \subseteq SUBSET Statuses
    /\ Faults \subseteq FaultKinds

VARIABLES
    row,     \* the document's row
    latest,  \* SpanTracker.LatestAttempt
    stored,  \* chunks, vectors and graph data, as <<attempt, what>>
    mm,      \* Redis multimodal:pending:<id>, 0 when the key is missing
    queue,   \* bag of the tasks waiting in asynq, retries included
    proc,    \* what each process is doing
    used     \* API requests made so far

vars == <<row, latest, stored, mm, queue, proc, used>>

Procs == Workers \cup Callers

Parts == {"text", "vector", "image", "summary", "question", "graph"}

(* The enrichment subtasks post-process fans out, in spawning order. *)
Slots == (IF Summary THEN {0} ELSE {}) \cup 1..(Questions + Graphs)
KindOf(n) == IF n = 0 THEN "summary" ELSE IF n <= Questions THEN "question" ELSE "graph"
Enrichment == {"summary", "question", "graph"}

Kinds == {"process", "post", "image", "reparse", "cancel", "delete", "sweep", "none"}
             \cup Enrichment

(* att = 0 is a payload without attempt; n tells subtasks and images apart. *)
Task(kind, att, n) == [kind |-> kind, att |-> att, n |-> n, try |-> 0]
NoTask == Task("none", 0, 0)
Idle == [pc |-> "idle", job |-> NoTask, att |-> 0, seen |-> "none", todo |-> {}, short |-> {}]

Init ==
    /\ row = NewRow /\ latest = 1 /\ stored = {} /\ mm = 0
    /\ queue = SetToBag({Task("process", 1, 0)})
    /\ proc = [p \in Procs |-> Idle]
    /\ used = [cancel |-> 0, delete |-> 0]

(* isKnowledgeAborted: a row that is missing or cannot be read counts as     *)
(* being deleted; "no" is a row that is neither.                             *)
IsAborted == row.gone \/ row.status \in Aborted
AbortAnswers ==
    {IF row.gone THEN "deleting" ELSE IF IsAborted THEN row.status ELSE "no"}
    \cup (IF "db" \in Faults THEN {"deleting"} ELSE {})

At(p, pc) == proc[p].pc = pc
Att(p) == proc[p].att
Goto(p, pc) == proc' = [proc EXCEPT ![p].pc = pc]

(* The handler has failed, or the request is over. *)
Leave(p) == proc' = [proc EXCEPT ![p] = Idle]

(* The handler has succeeded. Its process may still die before asynq has     *)
(* acknowledged the task.                                                    *)
Finish(p) ==
    IF p \in Workers /\ "crash" \in Faults THEN Goto(p, "ack") ELSE Leave(p)

RowOnly == UNCHANGED <<latest, stored, mm, queue, used>>
ProcOnly == UNCHANGED row /\ RowOnly
StoredOnly == UNCHANGED <<row, latest, mm, queue, used>>
QueueOnly == UNCHANGED <<row, latest, stored, mm, used>>

First(S) == CHOOSE n \in S : \A m \in S : n <= m

Add(t) == queue' = queue (+) SetToBag({t})
Enqueue(t) == Add(t) \/ ("enqueue" \in Faults /\ UNCHANGED queue)

(* A worker takes t and runs its handler up to the first point where another *)
(* process can interfere.                                                    *)
Take(w, t, pc, seen) ==
    /\ w \in Workers /\ At(w, "idle") /\ BagIn(t, queue)
    /\ queue' = queue (-) SetToBag({t})
    /\ proc' = [proc EXCEPT ![w] = [Idle EXCEPT !.pc = pc, !.job = t, !.att = t.att,
                                                 !.seen = seen]]
    /\ QueueOnly

(* The handler returns at once; asynq acknowledges the task. *)
Drop(w, t) ==
    /\ w \in Workers /\ At(w, "idle") /\ BagIn(t, queue)
    /\ queue' = queue (-) SetToBag({t})
    /\ UNCHANGED proc /\ QueueOnly

(* A Save whose error is only logged, or ignored. *)
TrySave(status) == row' = Saved(row, status) \/ ("db" \in Faults /\ UNCHANGED row)

(* A clean-up whose error is only logged. *)
TryKeeping(S) == stored' = S \/ ("db" \in Faults /\ UNCHANGED stored)

FinalTry(p) == proc[p].job.try >= MaxRetry
Retry(p) == Add([proc[p].job EXCEPT !.try = @ + 1])

(* The handler returns an error: asynq retries the task, or the dead-letter  *)
(* middleware fails the row of a task that drives parse_status.              *)
ReturnError(p) ==
    /\ Leave(p)
    /\ IF FinalTry(p)
         THEN /\ \/ row' = IF proc[p].job.kind \in {"process", "post"}
                          THEN FailedIfActive(row) ELSE row
                 \/ "db" \in Faults /\ UNCHANGED row
              /\ UNCHANGED queue
         ELSE Retry(p) /\ UNCHANGED row
    /\ UNCHANGED <<latest, stored, mm, used>>

Acknowledge(w) == At(w, "ack") /\ Leave(w) /\ ProcOnly

(* The process dies. Once the lease of its task expires, asynq redelivers it *)
(* as one more retry, or archives it; an API request is simply lost.         *)
Crash(p) ==
    /\ "crash" \in Faults /\ ~At(p, "idle")
    /\ Leave(p)
    /\ IF p \in Workers /\ ~FinalTry(p) THEN Retry(p) ELSE UNCHANGED queue
    /\ QueueOnly
=============================================================================
