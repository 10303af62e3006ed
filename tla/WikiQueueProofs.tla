--------------------------- MODULE WikiQueueProofs ---------------------------
(***************************************************************************)
(* Proofs about WikiQueue, for any documents, workers, rows and bounds.    *)
(***************************************************************************)
EXTENDS WikiQueue, WellFoundedInduction, TLAPS

Rows  == [status : Statuses, count : Nat, gone : BOOLEAN]
Table == [Ids -> Entries \union {Unused}]

(* What a batch holds it has claimed, and works on nothing else until its    *)
(* rows are trimmed; a row it holds is still claimed, or has left the queue. *)
Working == {"map", "write", "drain"}
GripOn(f, table) ==
    /\ f.held \subseteq f.peeked /\ f.failed \subseteq f.held /\ ~f.err
    /\ f.at \in Working => f.held = f.peeked /\ f.todo \union f.mapped \union f.retracts \subseteq f.held
    /\ \A i \in f.held : table[i].st \in {"fresh", "gone"}
Grip == \A b \in Batches : GripOn(batch[b], queue)

(* What a batch works on it has read, and a row once queued never loses its  *)
(* columns.                                                                  *)
WorksOn(f) == f.todo \union f.mapped \union f.retracts \union f.failed \union f.live \union f.held
Sound(f) == f \in Runs /\ WorksOn(f) \subseteq f.peeked
Known == \A b \in Batches : Sound(batch[b]) /\ \A i \in batch[b].peeked : queue[i] \in Entries

IInv == TypeOK /\ Known /\ Grip /\ RowHeldOnce

-----------------------------------------------------------------------------
(* A statement that fails is counted. *)
LEMMA FailingStep ==
    ASSUME TypeOK, NEW fails \in BOOLEAN, Failing(fails)
    PROVE  faults' \in Nat /\ (fails => "db" \in Faults /\ faults' # faults)
  BY DEF TypeOK, Failing, CanFault

(* The statements on a document's row keep its columns in their types. *)
LEMMA RowStatements ==
    ASSUME NEW r \in Rows
    PROVE  /\ Decremented(r) \in Rows /\ Promoted(Decremented(r)) \in Rows
           /\ \A n \in Nat : HandedOff(r, n) \in Rows
           /\ CancelledByUser(r) \in Rows /\ MarkedDeleting(r) \in Rows /\ Removed(r) \in Rows
  <1> USE DEF Rows, Statuses, Has
  <1>1. Decremented(r) \in Rows
    BY DEF Decremented
  <1>2. \A s \in Rows : Promoted(s) \in Rows
    BY DEF Promoted, CanPromote
  <1>3. (\A n \in Nat : HandedOff(r, n) \in Rows) /\ CancelledByUser(r) \in Rows
    BY DEF HandedOff, CancelledByUser
  <1>4. MarkedDeleting(r) \in Rows /\ Removed(r) \in Rows
    BY DEF MarkedDeleting, Removed
  <1> QED BY <1>1, <1>2, <1>3, <1>4

(* A queued row has its columns. *)
LEMMA QueuedRows ==
    ASSUME TypeOK
    PROVE  Queued \subseteq Ids /\ \A i \in Queued : queue[i] \in Entries
  BY DEF TypeOK, Queued, Unused

(* Deleting and releasing rows. *)
LEMMA TableStatements ==
    ASSUME TypeOK, NEW S
    PROVE  /\ Without(S) \in Table /\ Released(S) \in Table
           /\ \A i \in Ids : \/ Without(S)[i] = queue[i]
                             \/ i \in S /\ Without(S)[i].st = "gone"
  <1>1. \A i \in Queued :
            /\ [queue[i] EXCEPT !.st = "gone", !.fails = 0, !.net = FALSE] \in Entries
            /\ [queue[i] EXCEPT !.st = "free", !.net = FALSE] \in Entries
            /\ [queue[i] EXCEPT !.st = "gone", !.fails = 0, !.net = FALSE].st = "gone"
    BY QueuedRows DEF Entries
  <1>2. queue \in Table
    BY DEF TypeOK, Table
  <1> QED BY <1>1, <1>2, QueuedRows DEF Without, Released, Table

(* A new row takes an id nobody has seen. *)
LEMMA EnqueueStep ==
    ASSUME TypeOK, NEW d \in Docs, NEW op \in {"ingest", "retract"}, NEW s \in BOOLEAN,
           Enqueue(d, op, s)
    PROVE  queue' \in Table /\ \A i \in Ids : queue'[i] = queue[i] \/ queue[i].st = "unused"
  <1>1. PICK i \in Ids :
            /\ queue[i].st = "unused"
            /\ queue' = [queue EXCEPT ![i] = [st |-> "free", doc |-> d, op |-> op, fails |-> 0,
                                              slugs |-> s, net |-> FALSE]]
    BY DEF Enqueue
  <1>2. [st |-> "free", doc |-> d, op |-> op, fails |-> 0, slugs |-> s, net |-> FALSE] \in Entries
    BY WikiAssumption DEF Entries
  <1>3. queue \in Table
    BY DEF TypeOK, Table
  <1> QED BY <1>1, <1>2, <1>3 DEF Table

(* A claim takes queued rows; with the database, none that is still claimed. *)
LEMMA PickedSound == Picked \subseteq Queued /\ (~Lite => \A i \in Picked : queue[i].st # "fresh")
  <1>1. CASE Lite
    BY <1>1 DEF Picked
  <1>2. CASE ~Lite
    <2>1. \A d : \A i \in Claimable(d) : i \in Queued /\ queue[i].st # "fresh"
      BY DEF Claimable
    <2>2. \A i \in Picked : \E d \in Docs : i \in Claimable(d)
      BY <1>2 DEF Picked
    <2> QED BY <1>2, <2>1, <2>2
  <1> QED BY <1>1, <1>2

LEMMA InitIInv == ASSUME Init PROVE IInv
  <1>1. \A d \in Docs : [NewRow EXCEPT !.status = "processing"] \in Rows
    BY DEF NewRow, Rows, Statuses
  <1>2. Resting \in Runs
    BY DEF Resting, Runs, NoPage, Pages
  <1>3. TypeOK
    BY <1>1, <1>2 DEF Init, TypeOK, Rows, Pages, NoPage, Unused
  <1>k. Known
    BY <1>2 DEF Init, Known, Sound, Resting, WorksOn
  <1>4. Grip /\ RowHeldOnce
    BY DEF Init, Grip, GripOn, RowHeldOnce, Resting, Working
  <1> QED BY <1>3, <1>k, <1>4 DEF IInv

(* The steps of documents and requests leave every batch as it is, and of    *)
(* the queue change only rows that become "gone" or had not been used.       *)
LEMMA DocumentStep ==
    ASSUME TypeOK, NEW d \in Docs, Request(d) \/ Continue(d)
    PROVE  /\ TypeOK' /\ batch' = batch
           /\ \A i \in Ids : queue'[i] = queue[i] \/ queue'[i].st = "gone" \/ queue[i].st = "unused"
  <1> DEFINE Moved == \A i \in Ids : queue'[i] = queue[i] \/ queue'[i].st = "gone"
                                                         \/ queue[i].st = "unused"
  <1> USE DEF docVars, pageVars, taskVars, userVars, lossVars
  <1>t. /\ row \in [Docs -> Rows] /\ queue \in Table /\ page \in Pages
        /\ user \in [Docs -> {"idle", "cancelling", "cancelled", "marked", "scrubbed", "listed",
                              "queued", "done"}]
        /\ seen \in [Docs -> SUBSET Docs]
    BY DEF TypeOK, Rows, Table
  <1>r. /\ Decremented(row[d]) \in Rows /\ Promoted(Decremented(row[d])) \in Rows
        /\ HandedOff(row[d], 1) \in Rows /\ HandedOff(row[d], 2) \in Rows
        /\ CancelledByUser(row[d]) \in Rows /\ MarkedDeleting(row[d]) \in Rows
        /\ Removed(row[d]) \in Rows
    BY <1>t, RowStatements
  <1>s. ASSUME ScrubIngest(d) PROVE queue' \in Table /\ Moved
    BY <1>s, TableStatements DEF ScrubIngest
  <1>1. CASE PostProcess(d)
    <2>1. Enqueue(d, "ingest", FALSE)
      BY <1>1 DEF PostProcess
    <2>2. queue' \in Table /\ Moved
      BY <2>1, EnqueueStep
    <2>3. row' \in [Docs -> Rows] /\ triggers' \in Nat /\ sibling' \subseteq Docs
      BY <1>1, <1>t, <1>r DEF PostProcess, TypeOK
    <2> QED BY <1>1, <2>2, <2>3 DEF PostProcess, TypeOK, Rows, Table
  <1>2. CASE SiblingEnds(d)
    <2>1. PICK fails \in BOOLEAN : Failing(fails) /\ FinalizeSubtask(d, fails)
      BY <1>2 DEF SiblingEnds, GiveBack
    <2>2. row' \in [Docs -> Rows]
      BY <2>1, <1>t, <1>r DEF FinalizeSubtask
    <2>3. faults' \in Nat
      BY <2>1, FailingStep
    <2> QED BY <1>2, <2>2, <2>3 DEF SiblingEnds, TypeOK, Rows
  <1>3. CASE Cancel(d)
    <2>1. row' \in [Docs -> Rows]
      BY <1>3, <1>t, <1>r DEF Cancel
    <2> QED BY <1>3, <2>1 DEF Cancel, TypeOK, Rows
  <1>4. CASE CancelScrub(d)
    BY <1>4, <1>s DEF CancelScrub, TypeOK, Table
  <1>5. CASE Delete(d)
    <2>1. row' \in [Docs -> Rows]
      BY <1>5, <1>t, <1>r DEF Delete
    <2> QED BY <1>5, <2>1 DEF Delete, TypeOK, Rows
  <1>6. CASE DeleteScrub(d)
    BY <1>6, <1>s DEF DeleteScrub, TypeOK, Table
  <1>e. ASSUME DeleteEnds(d)
        PROVE  /\ row' \in [Docs -> Rows] /\ seen' \in [Docs -> SUBSET Docs]
               /\ user' \in [Docs -> {"idle", "cancelling", "cancelled", "marked", "scrubbed",
                                      "listed", "queued", "done"}]
    BY <1>e, <1>t, <1>r DEF DeleteEnds
  <1>7. CASE DeleteList(d)
    <2>1. CASE DeletesUnasked(d)
      <3>1. missed' \subseteq Docs
        BY <2>1 DEF DeletesUnasked, TypeOK
      <3>2. DeleteEnds(d)
        BY <2>1 DEF DeletesUnasked
      <3> QED BY <1>7, <3>1, <3>2, <1>e, <1>t DEF DeleteList, TypeOK, Rows, Table
    <2>2. CASE ~DeletesUnasked(d)
      BY <1>7, <2>2, <1>t DEF DeleteList, TypeOK, Pages
    <2> QED BY <2>1, <2>2
  <1>8. CASE DeleteRetract(d)
    <2>1. CASE Enqueue(d, "retract", d \in seen[d]) /\ ~DeletesUnasked(d)
      <3>1. (d \in seen[d]) \in BOOLEAN
        OBVIOUS
      <3>2. queue' \in Table /\ Moved
        BY <2>1, <3>1, EnqueueStep
      <3>3. /\ triggers' = triggers + 1 /\ user' = [user EXCEPT ![d] = "queued"]
            /\ UNCHANGED <<row, seen, missed, faults>>
            /\ UNCHANGED <<sibling, pageVars, batch, recheck, starting, dead, dropped>>
        BY <1>8, <2>1 DEF DeleteRetract
      <3> QED BY <1>t, <3>2, <3>3 DEF TypeOK, Rows, Table
    <2>2. CASE DeletesUnasked(d)
      <3>1. missed' \subseteq Docs /\ DeleteEnds(d)
        BY <2>2 DEF DeletesUnasked, TypeOK
      <3>2. CASE Failing(TRUE) /\ UNCHANGED <<queue, triggers>>
        <4>1. faults' \in Nat
          BY <3>2, FailingStep
        <4> QED BY <1>8, <3>1, <3>2, <4>1, <1>e, <1>t DEF DeleteRetract, TypeOK, Rows, Table
      <3>3. CASE Enqueue(d, "retract", d \in seen[d]) /\ UNCHANGED faults /\ triggers' = triggers + 1
        <4>1. (d \in seen[d]) \in BOOLEAN
          OBVIOUS
        <4>2. queue' \in Table /\ Moved
          BY <3>3, <4>1, EnqueueStep
        <4> QED BY <1>8, <3>1, <3>3, <4>2, <1>e, <1>t DEF DeleteRetract, TypeOK, Rows, Table
      <3> QED BY <1>8, <3>2, <3>3 DEF DeleteRetract
    <2> QED BY <1>8, <2>1, <2>2 DEF DeleteRetract
  <1>9. CASE DeleteStrip(d)
    <2>1. PICK fails \in BOOLEAN :
             /\ Failing(fails)
             /\ page' = IF fails \/ d \notin seen[d] \/ ~page.exists THEN page
                        ELSE IF seen[d] = {d} THEN NoPage
                        ELSE [page EXCEPT !.refs = seen[d] \ {d}]
      BY <1>9 DEF DeleteStrip
    <2>2. page' \in Pages
      BY <2>1, <1>t DEF Pages, NoPage
    <2>3. faults' \in Nat
      BY <2>1, FailingStep
    <2>4. DeleteEnds(d) /\ UNCHANGED <<sibling, queue, slugLock, batch, taskVars, lossVars>>
      BY <1>9 DEF DeleteStrip
    <2> QED BY <2>2, <2>3, <2>4, <1>e, <1>t DEF TypeOK, Rows, Table
  <1> QED BY <1>1, <1>2, <1>3, <1>4, <1>5, <1>6, <1>7, <1>8, <1>9 DEF Request, Continue

-----------------------------------------------------------------------------
LEMMA KnownStays ==
    ASSUME TypeOK, Known, queue' \in Table,
           \A i \in Ids : queue'[i] = queue[i] \/ queue'[i].st # "unused" \/ queue[i].st = "unused"
    PROVE  \A i \in Ids : queue[i] \in Entries => queue'[i] \in Entries
  BY DEF TypeOK, Table, Entries, Unused

(* What giving up on a failed row may do: it counts the failure, releases or *)
(* deletes the row, and returns an error only if a statement fails.          *)
RequeueShape(b, i) ==
    /\ \E fails \in BOOLEAN : Failing(fails) /\ IF fails THEN Through(b, i) \/ Errs(b, i)
                                                          ELSE Through(b, i)
    /\ \/ queue' = queue \/ queue' = Without({i}) \/ queue' = [queue EXCEPT ![i] = FailCount(i)]
       \/ queue' = [queue EXCEPT ![i] = [FailCount(i) EXCEPT !.st = "free", !.net = FALSE]]
    /\ \/ row' = row
       \/ queue[i].op = "ingest" /\ \E fails \in BOOLEAN : FinalizeSubtask(queue[i].doc, fails)
    /\ dead' \in {dead, dead \union {queue[i].doc}}
    /\ dropped' \in {dropped, dropped \union {queue[i].doc}}
    /\ missed' \in {missed, missed \union {queue[i].doc}}
LEMMA RequeueCases ==
    ASSUME NEW b, NEW i, Requeue(b, i)
    PROVE  RequeueShape(b, i)
  <1> USE DEF RequeueShape, lossVars
  <1>f. UNCHANGED faults => Failing(FALSE)
    BY DEF Failing
  <1>1. CASE i \notin Queued /\ Through(b, i) /\ UNCHANGED <<queue, row, lossVars, faults>>
    BY <1>1, <1>f
  <1>2. CASE RetryRow(b, i)
    BY <1>2 DEF RetryRow
  <1>3. CASE DropRow(b, i)
    <2>1. PICK lost \in SUBSET {"slot", "letter", "delete"} :
            /\ Failing(lost # {})
            /\ IF queue[i].op = "ingest" THEN FinalizeSubtask(queue[i].doc, "slot" \in lost)
                                         ELSE UNCHANGED row
            /\ dead'    = IF "letter" \in lost THEN dead ELSE dead \union {queue[i].doc}
            /\ dropped' = IF "letter" \in lost THEN dropped \union {queue[i].doc} ELSE dropped
            /\ missed'  = IF queue[i].op = "retract" THEN missed \union {queue[i].doc} ELSE missed
            /\ queue'   = IF "delete" \in lost THEN [queue EXCEPT ![i] = FailCount(i)] ELSE Without({i})
            /\ IF lost \subseteq {"slot"} THEN Through(b, i) ELSE Errs(b, i)
      BY <1>3 DEF DropRow
    <2>2. \E fails \in BOOLEAN : Failing(fails) /\ IF fails THEN Through(b, i) \/ Errs(b, i)
                                                       ELSE Through(b, i)
      <3>1. CASE lost = {}
        <4>1. Failing(FALSE) /\ Through(b, i)
          BY <2>1, <3>1
        <4> QED BY <4>1
      <3>2. CASE lost # {}
        <4>1. Failing(TRUE) /\ (Through(b, i) \/ Errs(b, i))
          BY <2>1, <3>2
        <4> QED BY <4>1
      <3> QED BY <3>1, <3>2
    <2>3. row' = row \/ (queue[i].op = "ingest" /\ \E fails \in BOOLEAN : FinalizeSubtask(queue[i].doc, fails))
      <3>1. ("slot" \in lost) \in BOOLEAN
        OBVIOUS
      <3> QED BY <2>1, <3>1
    <2>4. queue' = Without({i}) \/ queue' = [queue EXCEPT ![i] = FailCount(i)]
      BY <2>1
    <2> QED BY <2>1, <2>2, <2>3, <2>4
  <1>4. CASE Failing(TRUE) /\ Errs(b, i) /\ UNCHANGED <<queue, row, lossVars>>
    BY <1>4
  <1> QED BY <1>1, <1>2, <1>3, <1>4 DEF Requeue

LEMMA TypeStep ==
    ASSUME TypeOK, Known, NEW b \in Batches, Step(b) \/ Crash(b)
    PROVE  TypeOK' /\ Known'
  <1> USE DEF docVars, pageVars, taskVars, userVars, lossVars, Put, At
  <1> DEFINE Kept == queue' \in Table /\ \A i \in Ids : queue[i] \in Entries => queue'[i] \in Entries
             Sane(f) == Sound(f) /\ \A i \in f.peeked : queue[i] \in Entries
             Gone == \A i \in Ids : queue'[i] = queue[i] \/ queue'[i].st # "unused"
                                                        \/ queue[i].st = "unused"
  <1>t. /\ row \in [Docs -> Rows] /\ queue \in Table /\ page \in Pages
        /\ batch \in [Batches -> Runs] /\ Sane(batch[b]) /\ Sane(Resting)
    BY DEF TypeOK, Rows, Table, Resting, Runs, NoPage, Pages, Known, WorksOn, Sound
  <1>k. ASSUME Kept, NEW f, Sane(f), Put(b, f) \/ batch' = batch
        PROVE  queue' \in [Ids -> Entries \union {Unused}] /\ batch' \in [Batches -> Runs] /\ Known'
    <2>1. \A c \in Batches : batch'[c] = batch[c] \/ (c = b /\ batch'[c] = f)
      BY <1>k, <1>t
    <2>2. batch' \in [Batches -> Runs]
      BY <1>k, <1>t DEF Sound
    <2>3. \A c \in Batches : Sane(batch'[c])
      BY <2>1, <1>k DEF Known, TypeOK
    <2>4. \A c \in Batches : \A i \in batch'[c].peeked : i \in Ids /\ queue[i] \in Entries
      BY <2>3, <2>2 DEF Runs
    <2> QED BY <1>k, <2>2, <2>3, <2>4 DEF Known, Table
  <1>u. ASSUME UNCHANGED queue PROVE Kept
    BY <1>u, <1>t
  <1>g. ASSUME queue' \in Table, Gone PROVE Kept
    BY <1>g, KnownStays
  <1>f. ASSUME NEW d, NEW fails \in BOOLEAN, FinalizeSubtask(d, fails) PROVE row' \in [Docs -> Rows]
    <2>1. CASE d \in Docs
      BY <1>f, <1>t, <2>1, RowStatements DEF FinalizeSubtask
    <2>2. CASE d \notin Docs
      BY <1>f, <1>t, <2>2 DEF FinalizeSubtask
    <2> QED BY <2>1, <2>2
  <1>b. ASSUME NEW d, GiveBack(d) PROVE row' \in [Docs -> Rows] /\ faults' \in Nat
    BY <1>b, <1>f, FailingStep DEF GiveBack
  <1>q. Picked \subseteq Queued /\ LastOps(Picked) \subseteq Picked /\ Queued \subseteq Ids
        /\ \A i \in Queued : queue[i] \in Entries
    BY PickedSound, QueuedRows DEF LastOps
  <1>c. ASSUME NEW kind \in {"plain", "recheck"}, Claim(b, kind)
        PROVE  queue' \in [Ids -> Entries \union {Unused}] /\ batch' \in [Batches -> Runs] /\ Known'
    <2> DEFINE f == [Resting EXCEPT !.at = "map", !.kind = kind, !.peeked = Picked,
                                    !.held = Picked, !.todo = LastOps(Picked)]
    <2>1. \A i \in Picked : /\ [queue[i] EXCEPT !.st = "fresh", !.net = FALSE] \in Entries
      BY <1>q DEF Entries
    <2>2. Stamped(Picked) \in Table /\ \A i \in Ids : queue[i] \in Entries => Stamped(Picked)[i] \in Entries
      BY <1>t, <2>1 DEF Stamped, Table
    <2>3. Sane(f)
      BY <1>q DEF Resting, Runs, NoPage, Pages, WorksOn, Sound
    <2>4. Put(b, f) /\ Kept
      BY <1>c, <2>2 DEF Claim
    <2> HIDE DEF f
    <2> QED BY <2>3, <2>4, <1>k
  <1>n. ASSUME NEW kind \in {"plain", "recheck"}, NothingClaimed(kind)
        PROVE  /\ queue' \in [Ids -> Entries \union {Unused}] /\ batch' \in [Batches -> Runs] /\ Known'
               /\ recheck' \in {"none", "armed", "due", "active"}
    <2>1. \A i \in Ids : queue[i] \in Entries => [queue[i] EXCEPT !.net = @ \/ queue[i].st = "fresh"] \in Entries
      BY DEF Entries
    <2>2. [Unused EXCEPT !.net = @ \/ Unused.st = "fresh"] = Unused
      BY DEF Unused
    <2>3. Watched \in Table /\ \A i \in Ids : queue[i] \in Entries => Watched[i] \in Entries
      BY <1>t, <2>1, <2>2 DEF Watched, Table
    <2>4. Kept /\ batch' = batch
      BY <1>n, <1>t, <2>3 DEF NothingClaimed
    <2> QED BY <1>n, <1>t, <2>4, <1>k DEF NothingClaimed, TypeOK
  <1>1. CASE Trigger(b)
    <2>1. triggers' \in Nat
      BY <1>1 DEF Trigger, TypeOK
    <2> QED BY <1>1, <1>c, <1>n, <2>1 DEF Trigger, TypeOK
  <1>2. CASE Recheck(b)
    BY <1>2, <1>c, <1>n DEF Recheck, TypeOK
  <1>3. ASSUME NEW i \in Ids, MapOf(b, i) PROVE TypeOK' /\ Known'
    <2> DEFINE rest == [batch[b] EXCEPT !.todo = @ \ {i}]
               ok   == [batch[b] EXCEPT !.todo = @ \ {i}, !.mapped = @ \union {i}]
               bad  == [batch[b] EXCEPT !.todo = @ \ {i}, !.failed = @ \union {i}]
               ret  == [batch[b] EXCEPT !.todo = @ \ {i}, !.retracts = @ \union {i}]
    <2>1. i \in batch[b].todo /\ UNCHANGED <<sibling, queue, pageVars, taskVars, userVars, dead>>
      BY <1>3 DEF MapOf, MapSkip, MapOne, MapFail, MapRetract, Ingests
    <2>2. Sane(rest) /\ Sane(ok) /\ Sane(bad) /\ Sane(ret)
      <3>1. PICK T \in SUBSET Ids : T = batch[b].todo \ {i}
        BY <1>t DEF Runs, Sound
      <3>2. PICK M \in SUBSET Ids : M = batch[b].mapped \union {i}
        BY <1>t DEF Runs, Sound
      <3>3. PICK F \in SUBSET Ids : F = batch[b].failed \union {i}
        BY <1>t DEF Runs, Sound
      <3>4. PICK R \in SUBSET Ids : R = batch[b].retracts \union {i}
        BY <1>t DEF Runs, Sound
      <3>5. T \union M \union F \union R \subseteq batch[b].peeked
        BY <1>t, <2>1, <3>1, <3>2, <3>3, <3>4 DEF WorksOn, Sound
      <3>6. batch[b] \in Runs
        BY <1>t DEF Sound
      <3>7. Sane(rest)
        <4>1. rest = [batch[b] EXCEPT !.todo = T]
          BY <3>1
        <4>2. rest \in Runs /\ rest.peeked = batch[b].peeked /\ WorksOn(rest) \subseteq batch[b].peeked
          BY <1>t, <3>5, <3>6, <4>1 DEF Runs, WorksOn, Sound
        <4> QED BY <1>t, <4>2 DEF Sound
      <3>8. Sane(ok)
        <4>1. ok = [batch[b] EXCEPT !.todo = T, !.mapped = M]
          BY <3>1, <3>2
        <4>2. ok \in Runs /\ ok.peeked = batch[b].peeked
          BY <3>6, <4>1 DEF Runs
        <4>3. /\ ok.todo = T /\ ok.mapped = M
              /\ ok.retracts = batch[b].retracts /\ ok.failed = batch[b].failed
              /\ ok.live = batch[b].live /\ ok.held = batch[b].held
          BY <3>6, <4>1 DEF Runs
        <4>4. WorksOn(ok) \subseteq batch[b].peeked
          <5> HIDE DEF ok
          <5> QED BY <1>t, <3>5, <4>3 DEF WorksOn, Sound
        <4> QED BY <1>t, <4>2, <4>4 DEF Sound
      <3>9. Sane(bad)
        <4>1. bad = [batch[b] EXCEPT !.todo = T, !.failed = F]
          BY <3>1, <3>3
        <4>2. bad \in Runs /\ bad.peeked = batch[b].peeked
          BY <3>6, <4>1 DEF Runs
        <4>3. /\ bad.todo = T /\ bad.failed = F
              /\ bad.mapped = batch[b].mapped /\ bad.retracts = batch[b].retracts
              /\ bad.live = batch[b].live /\ bad.held = batch[b].held
          BY <3>6, <4>1 DEF Runs
        <4>4. WorksOn(bad) \subseteq batch[b].peeked
          <5> HIDE DEF bad
          <5> QED BY <1>t, <3>5, <4>3 DEF WorksOn, Sound
        <4> QED BY <1>t, <4>2, <4>4 DEF Sound
      <3>10. Sane(ret)
        <4>1. ret = [batch[b] EXCEPT !.todo = T, !.retracts = R]
          BY <3>1, <3>4
        <4>2. ret \in Runs /\ ret.peeked = batch[b].peeked
          BY <3>6, <4>1 DEF Runs
        <4>3. /\ ret.todo = T /\ ret.retracts = R
              /\ ret.mapped = batch[b].mapped /\ ret.failed = batch[b].failed
              /\ ret.live = batch[b].live /\ ret.held = batch[b].held
          BY <3>6, <4>1 DEF Runs
        <4>4. WorksOn(ret) \subseteq batch[b].peeked
          <5> HIDE DEF ret
          <5> QED BY <1>t, <3>5, <4>3 DEF WorksOn, Sound
        <4> QED BY <1>t, <4>2, <4>4 DEF Sound
      <3> QED BY <3>7, <3>8, <3>9, <3>10
    <2>3. Put(b, rest) \/ Put(b, ok) \/ Put(b, bad) \/ Put(b, ret)
      BY <1>3 DEF MapOf, MapSkip, MapOne, MapFail, MapRetract, Retracting
    <2>4. row' \in [Docs -> Rows] /\ faults' \in Nat
      BY <1>3, <1>b, <1>t DEF MapOf, MapSkip, MapOne, MapFail, MapRetract, TypeOK
    <2>d. queue[i].doc \in Docs
      BY <2>1, <1>t DEF Entries, Sound, WorksOn
    <2>5. dropped' \subseteq Docs /\ missed' \subseteq Docs
      BY <1>3, <2>d DEF MapOf, MapSkip, MapOne, MapFail, MapRetract, TypeOK
    <2> HIDE DEF rest, ok, bad, ret
    <2>6. batch' \in [Batches -> Runs] /\ Known'
      BY <2>1, <2>2, <2>3, <1>k, <1>u
    <2> QED BY <2>1, <2>4, <2>5, <2>6 DEF TypeOK, Rows
  <1>o. ASSUME NEW S, S \subseteq batch[b].peeked PROVE Of(S) \subseteq Docs
    BY <1>t, <1>o DEF Of, Entries
  <1>4. CASE ReduceNothing(b) \/ Reduce(b) \/ SlugBusy(b)
    <2> DEFINE done == [batch[b] EXCEPT !.at = "drain"]
               work(live, read, locked) ==
                   [batch[b] EXCEPT !.at = "write", !.live = live, !.read = read, !.locked = locked]
               lost == [batch[b] EXCEPT !.at = "drain", !.failed = @ \union Updates(b)]
    <2>d. Sane(done)
      BY <1>t DEF Sound, Runs, WorksOn
    <2>w. ASSUME NEW live \in SUBSET batch[b].mapped, NEW read \in Pages, NEW locked \in BOOLEAN
          PROVE  Sane(work(live, read, locked))
      <3> DEFINE w == work(live, read, locked)
      <3>1. live \in SUBSET Ids /\ live \subseteq batch[b].peeked
        BY <1>t, <2>w DEF Sound, Runs, WorksOn
      <3>2. w \in Runs /\ w.peeked = batch[b].peeked
        BY <1>t, <3>1 DEF Runs, Sound
      <3>3. WorksOn(w) \subseteq batch[b].peeked
        BY <1>t, <3>1 DEF Runs, WorksOn, Sound
      <3> QED BY <1>t, <3>2, <3>3 DEF Sound
    <2>l. Sane(lost)
      BY <1>t DEF Sound, Runs, WorksOn, Updates
    <2>m. batch[b].mapped \subseteq batch[b].peeked /\ batch[b].retracts \subseteq batch[b].peeked
      BY <1>t DEF Sound, WorksOn
    <2>n. NoPage \in Pages
      BY DEF NoPage, Pages
    <2>3. PICK f : Sane(f) /\ Put(b, f)
      <3> HIDE DEF done, work, lost
      <3>1. CASE ReduceNothing(b)
        BY <3>1, <2>d DEF ReduceNothing, done
      <3>2. CASE SlugBusy(b)
        BY <3>2, <2>l DEF SlugBusy, lost
      <3>3. CASE Reduce(b)
        <4>1. PICK live \in SUBSET batch[b].mapped, read \in Pages, locked \in BOOLEAN :
                 Put(b, done) \/ Put(b, work(live, read, locked))
          <5>1. PICK live \in LiveAnswers(b), read \in PageAnswers, locked \in BOOLEAN :
                   Put(b, done) \/ Put(b, work(live, read, locked))
            BY <3>3 DEF Reduce, done, work
          <5>2. live \in SUBSET batch[b].mapped /\ read \in Pages
            BY <1>t, <2>n DEF LiveAnswers, Live, PageAnswers
          <5> QED BY <5>1, <5>2
        <4> QED BY <4>1, <2>d, <2>w
      <3> QED BY <1>4, <3>1, <3>2, <3>3
    <2>4. UNCHANGED <<docVars, queue, page, taskVars, userVars, dead, faults>>
          /\ slugLock' \in Batches \union {NoBatch}
      BY <1>4 DEF ReduceNothing, Reduce, SlugBusy, TypeOK
    <2>5. dropped' \subseteq Docs /\ missed' \subseteq Docs
      <3>1. \A live : Of(Live(b) \ live) \subseteq Docs
        BY <2>m, <1>o DEF Live
      <3>2. Of(batch[b].retracts) \subseteq Docs
        BY <2>m, <1>o
      <3> QED BY <1>4, <3>1, <3>2 DEF ReduceNothing, Reduce, SlugBusy, TypeOK
    <2>6. batch' \in [Batches -> Runs] /\ Known'
      BY <2>3, <2>4, <1>k, <1>u
    <2> QED BY <2>4, <2>5, <2>6 DEF TypeOK
  <1>5. CASE Write(b)
    <2> DEFINE done == [batch[b] EXCEPT !.at = "drain", !.live = {}, !.read = NoPage, !.locked = FALSE]
               lost == [done EXCEPT !.failed = @ \union Updates(b)]
    <2>1. Sane(done) /\ Sane(lost)
      <3>1. done \in Runs
        BY <1>t DEF Sound, Runs, NoPage, Pages
      <3>2. /\ done.peeked = batch[b].peeked /\ done.todo = batch[b].todo
            /\ done.mapped = batch[b].mapped /\ done.retracts = batch[b].retracts
            /\ done.failed = batch[b].failed /\ done.held = batch[b].held /\ done.live = {}
        BY <1>t DEF Sound, Runs
      <3> HIDE DEF done
      <3>3. Sane(done)
        BY <1>t, <3>1, <3>2 DEF Sound, WorksOn
      <3>4. Updates(b) \subseteq batch[b].peeked /\ Updates(b) \subseteq Ids
        BY <1>t DEF Sound, WorksOn, Updates, Runs
      <3>5. Sane(lost)
        BY <3>1, <3>2, <3>3, <3>4 DEF Sound, Runs, WorksOn
      <3> QED BY <3>3, <3>5
    <2>2. Of(batch[b].live) \subseteq Docs /\ Of(batch[b].retracts) \subseteq Docs
      BY <1>t, <1>o DEF WorksOn, Sound
    <2>3. [exists |-> TRUE, refs |-> Written(b)] \in Pages /\ Overwrites(b) \subseteq Docs
      BY <1>t, <2>2 DEF Written, Overwrites, Pages, Runs, Sound
    <2>4. /\ Put(b, done) \/ Put(b, lost)
          /\ page' = page \/ page' = [exists |-> TRUE, refs |-> Written(b)]
          /\ slugLock' = slugLock \/ slugLock' = NoBatch
          /\ UNCHANGED <<docVars, queue, taskVars, userVars, dead, faults>>
      BY <1>5 DEF Write, Unlocked
    <2>5. dropped' \subseteq Docs /\ missed' \subseteq Docs
      BY <1>5, <2>2, <2>3 DEF Write, TypeOK
    <2> HIDE DEF done, lost
    <2>6. batch' \in [Batches -> Runs] /\ Known'
      BY <2>1, <2>4, <1>k, <1>u
    <2> QED BY <2>3, <2>4, <2>5, <2>6 DEF TypeOK
  <1>6. ASSUME NEW i \in Ids, Drain(b, i) PROVE TypeOK' /\ Known'
    <2> DEFINE f == [batch[b] EXCEPT !.mapped = @ \ {i}]
    <2>1. Sane(f)
      BY <1>t DEF Sound, Runs, WorksOn
    <2>2. row' \in [Docs -> Rows] /\ faults' \in Nat
      BY <1>6, <1>b DEF Drain
    <2>3. Put(b, f) /\ UNCHANGED <<sibling, queue, pageVars, taskVars, userVars, lossVars>>
      BY <1>6 DEF Drain
    <2> HIDE DEF f
    <2>4. batch' \in [Batches -> Runs] /\ Known'
      BY <2>1, <2>3, <1>k, <1>u
    <2> QED BY <2>2, <2>3, <2>4 DEF TypeOK, Rows
  <1>7. CASE Trim(b)
    <2> DEFINE s == [batch[b] EXCEPT !.at = "settle", !.mapped = {}, !.retracts = {}]
               f == [s EXCEPT !.held = @ \ TrimSet(b)]
               g == [s EXCEPT !.err = TRUE]
    <2>1. Sane(f) /\ Sane(g)
      <3>1. s \in Runs
        BY <1>t DEF Sound, Runs
      <3>2. /\ s.peeked = batch[b].peeked /\ s.todo = batch[b].todo /\ s.mapped = {} /\ s.retracts = {}
            /\ s.failed = batch[b].failed /\ s.held = batch[b].held /\ s.live = batch[b].live
        BY <1>t DEF Sound, Runs
      <3> HIDE DEF s
      <3>3. WorksOn(s) \subseteq s.peeked
        BY <1>t, <3>2 DEF Sound, WorksOn
      <3> QED BY <1>t, <3>1, <3>2, <3>3 DEF Sound, Runs, WorksOn
    <2>2. queue' = Without(TrimSet(b)) \/ UNCHANGED queue
      BY <1>7 DEF Trim
    <2>3. Kept
      BY <2>2, <1>u, <1>g, TableStatements
    <2>4. (Put(b, f) \/ Put(b, g)) /\ faults' \in Nat
      BY <1>7, FailingStep DEF Trim
    <2> HIDE DEF f, g, Kept
    <2>5. queue' \in [Ids -> Entries \union {Unused}] /\ batch' \in [Batches -> Runs] /\ Known'
      BY <2>1, <2>3, <2>4, <1>k
    <2> QED BY <1>7, <2>4, <2>5 DEF Trim, TypeOK
  <1>8. ASSUME NEW i \in Ids, Requeue(b, i) PROVE TypeOK' /\ Known'
    <2> DEFINE f == [batch[b] EXCEPT !.failed = @ \ {i}, !.held = @ \ {i}]
               g == [batch[b] EXCEPT !.failed = @ \ {i}, !.err = TRUE]
               c == FailCount(i)
               r == [c EXCEPT !.st = "free", !.net = FALSE]
    <2>g. Sane(g)
      <3>1. [batch[b] EXCEPT !.failed = @ \ {i}] \in Runs
        BY <1>t DEF Sound, Runs
      <3> QED BY <1>t, <3>1 DEF Sound, Runs, WorksOn
    <2>f. Sane(f)
      <3>1. f \in Runs /\ f.peeked = batch[b].peeked
        BY <1>t DEF Sound, Runs
      <3>2. /\ f.failed = batch[b].failed \ {i} /\ f.held = batch[b].held \ {i}
            /\ f.todo = batch[b].todo /\ f.mapped = batch[b].mapped
            /\ f.retracts = batch[b].retracts /\ f.live = batch[b].live
        BY <1>t DEF Sound, Runs
      <3> HIDE DEF f
      <3> QED BY <1>t, <3>1, <3>2 DEF Sound, WorksOn
    <2>1. Sane(f) /\ Sane(g)
      BY <2>f, <2>g
    <2>2. queue[i] \in Entries
      BY <1>8, <1>t DEF Requeue, WorksOn, Sound
    <2>3. c \in Entries /\ r \in Entries
      <3>1. c = [queue[i] EXCEPT !.fails = queue[i].fails + 1] /\ queue[i].fails + 1 \in Nat
        BY <2>2 DEF FailCount, Entries
      <3>2. c \in Entries
        BY <2>2, <3>1 DEF Entries
      <3> HIDE DEF c
      <3> QED BY <3>2 DEF Entries
    <2>4. RequeueShape(b, i)
      BY <1>8, RequeueCases
    <2>5. (Put(b, f) \/ Put(b, g)) /\ faults' \in Nat
      BY <2>4, FailingStep DEF RequeueShape, Through, Errs, TypeOK
    <2>6. UNCHANGED <<sibling, pageVars, taskVars, userVars>>
      BY <1>8 DEF Requeue
    <2>7. /\ \/ queue' = queue \/ queue' = Without({i})
             \/ queue' = [queue EXCEPT ![i] = c] \/ queue' = [queue EXCEPT ![i] = r]
          /\ row' = row \/ \E fails \in BOOLEAN : FinalizeSubtask(queue[i].doc, fails)
          /\ dead' \in {dead, dead \union {queue[i].doc}}
          /\ dropped' \in {dropped, dropped \union {queue[i].doc}}
          /\ missed' \in {missed, missed \union {queue[i].doc}}
      BY <2>4 DEF RequeueShape
    <2> HIDE DEF f, g, r, c
    <2>8. Kept
      BY <1>t, <2>2, <2>3, <2>7, <1>u, <1>g, TableStatements DEF Table
    <2>9. row' \in [Docs -> Rows]
      BY <2>7, <1>f, <1>t
    <2>10. dead' \subseteq Docs /\ dropped' \subseteq Docs /\ missed' \subseteq Docs
      BY <2>2, <2>7 DEF Entries, TypeOK
    <2> HIDE DEF Kept
    <2>11. queue' \in [Ids -> Entries \union {Unused}] /\ batch' \in [Batches -> Runs] /\ Known'
      BY <2>1, <2>8, <2>5, <1>k
    <2> QED BY <2>5, <2>6, <2>9, <2>10, <2>11 DEF TypeOK, Rows
  <1>r. ASSUME Redelivered(b)
        PROVE  /\ Put(b, Resting) /\ triggers' \in Nat
               /\ recheck' \in {"none", "armed", "due", "active"}
    BY <1>r DEF Redelivered, TypeOK
  <1>9. CASE Finish(b)
    <2>1. Put(b, Resting) /\ triggers' \in Nat /\ recheck' \in {"none", "armed", "due", "active"}
      BY <1>9 DEF Finish, TypeOK
    <2>2. UNCHANGED queue
      BY <1>9 DEF Finish
    <2>3. batch' \in [Batches -> Runs] /\ Known'
      BY <1>t, <2>1, <2>2, <1>k, <1>u
    <2> QED BY <1>9, <2>1, <2>3 DEF Finish, TypeOK
  <1>10. CASE FinishFailed(b)
    <2>1. Redelivered(b)
      BY <1>10 DEF FinishFailed
    <2>2. (queue' = queue \/ queue' = Released(batch[b].peeked)) /\ faults' \in Nat
      BY <1>10, FailingStep DEF FinishFailed
    <2>3. \A S : \A i \in Ids : Released(S)[i] = queue[i] \/ Released(S)[i].st = "free"
      BY <1>q, <1>t DEF Released, Entries
    <2>4. Kept
      BY <2>2, <2>3, <1>u, <1>g, TableStatements
    <2> HIDE DEF Kept
    <2>5. queue' \in [Ids -> Entries \union {Unused}] /\ batch' \in [Batches -> Runs] /\ Known'
      BY <1>t, <2>1, <2>4, <1>r, <1>k
    <2> QED BY <1>10, <2>1, <2>2, <2>5, <1>r DEF FinishFailed, TypeOK
  <1>11. CASE Crash(b)
    <2>1. Redelivered(b) /\ UNCHANGED queue /\ faults' \in Nat /\ starting' \in BOOLEAN
      BY <1>11 DEF Crash, TypeOK
    <2>2. batch' \in [Batches -> Runs] /\ Known'
      BY <1>t, <2>1, <1>r, <1>k, <1>u
    <2> QED BY <1>11, <2>1, <2>2, <1>r DEF Crash, TypeOK
  <1> QED BY <1>1, <1>2, <1>3, <1>4, <1>5, <1>6, <1>7, <1>8, <1>9, <1>10, <1>11 DEF Step

(* Leases that run out, and processes that start again. *)
LEMMA TimeStep ==
    ASSUME TypeOK, Known, Expire \/ Recover \/ LiteRestart
    PROVE  TypeOK' /\ Known'
  <1> USE DEF docVars, pageVars, taskVars, userVars, lossVars
  <1>1. ASSUME NEW i \in Ids, ClaimExpires(i) PROVE TypeOK' /\ Known'
    <2>1. queue[i] \in Entries /\ queue' = [queue EXCEPT ![i].st = "stale"]
      BY <1>1, QueuedRows DEF ClaimExpires
    <2>2. queue \in Table
      BY DEF TypeOK, Table
    <2>3. queue' \in Table /\ \A j \in Ids : queue[j] \in Entries => queue'[j] \in Entries
      <3>1. [queue[i] EXCEPT !.st = "stale"] \in Entries
        BY <2>1 DEF Entries
      <3> QED BY <2>1, <2>2, <3>1 DEF Table
    <2>4. UNCHANGED <<docVars, pageVars, batch, taskVars, userVars, lossVars, faults>>
      BY <1>1 DEF ClaimExpires
    <2>5. \A c \in Batches : batch[c].peeked \subseteq Ids
      BY DEF TypeOK, Runs
    <2>6. Known'
      BY <2>3, <2>4, <2>5 DEF Known, Sound
    <2> QED BY <2>3, <2>4, <2>6 DEF TypeOK, Table
  <1>2. CASE SlugLockExpires
    BY <1>2 DEF SlugLockExpires, TypeOK, Known
  <1>3. CASE Recover
    <2>1. triggers' \in Nat
      BY <1>3 DEF Recover, WakeUps, TypeOK
    <2> QED BY <1>3, <2>1 DEF Recover, TypeOK, Known
  <1>4. CASE LiteRestart
    <2>1. \A d \in Docs : [row[d] EXCEPT !.status = "failed", !.count = 0] \in Rows
      BY DEF TypeOK, Rows, Statuses
    <2>2. row' \in [Docs -> Rows]
      BY <1>4, <2>1 DEF LiteRestart, TypeOK, Rows
    <2>3. Resting \in Runs /\ Sound(Resting) /\ Resting.peeked = {}
      BY DEF Resting, Runs, NoPage, Pages, Sound, WorksOn
    <2>4. batch' \in [Batches -> Runs] /\ Known'
      <3>1. batch' = [c \in Batches |-> Resting]
        BY <1>4 DEF LiteRestart
      <3> QED BY <2>3, <3>1 DEF Known
    <2>5. triggers' \in Nat /\ faults' \in Nat
      <3>1. triggers' = WakeUps /\ faults' = faults + 1
        BY <1>4 DEF LiteRestart
      <3>2. faults \in Nat
        BY DEF TypeOK
      <3> QED BY <3>1, <3>2 DEF WakeUps
    <2>6. /\ user' \in [Docs -> {"idle", "cancelling", "cancelled", "marked", "scrubbed", "listed",
                                 "queued", "done"}]
          /\ seen' \in [Docs -> SUBSET Docs]
      BY <1>4 DEF LiteRestart
    <2> QED BY <1>4, <2>2, <2>4, <2>5, <2>6 DEF LiteRestart, TypeOK, Rows
  <1> QED BY <1>1, <1>2, <1>3, <1>4 DEF Expire

LEMMA TypedStep ==
    ASSUME TypeOK, Known, [Next]_vars
    PROVE  TypeOK' /\ Known'
  <1>1. CASE UNCHANGED vars
    BY <1>1 DEF vars, docVars, pageVars, taskVars, userVars, lossVars, TypeOK, Known
  <1>2. ASSUME NEW d \in Docs, Request(d) \/ Continue(d) PROVE TypeOK' /\ Known'
    <2>1. /\ TypeOK' /\ batch' = batch
          /\ \A i \in Ids : queue'[i] = queue[i] \/ queue'[i].st = "gone" \/ queue[i].st = "unused"
      BY <1>2, DocumentStep
    <2>2. queue' \in Table
      BY <2>1 DEF TypeOK, Table
    <2>3. \A i \in Ids : queue[i] \in Entries => queue'[i] \in Entries
      BY <2>1, <2>2, KnownStays
    <2>4. \A c \in Batches : batch[c].peeked \subseteq Ids
      BY DEF TypeOK, Runs
    <2> QED BY <2>1, <2>3, <2>4 DEF Known
  <1>3. CASE \E b \in Batches : Step(b) \/ Crash(b)
    BY <1>3, TypeStep
  <1>4. CASE Expire \/ Recover \/ LiteRestart
    BY <1>4, TimeStep
  <1> QED BY <1>1, <1>2, <1>3, <1>4 DEF Next

(* The columns of task_pending_ops, the rows of knowledges and what a batch  *)
(* carries keep their types, in either mode and whatever fails.              *)
THEOREM TypeCorrect == Spec => []TypeOK
  <1>1. Init => TypeOK /\ Known
    BY InitIInv DEF IInv
  <1>2. TypeOK /\ Known /\ [Next]_vars => TypeOK' /\ Known'
    BY TypedStep
  <1> QED BY <1>1, <1>2, PTL DEF Spec

-----------------------------------------------------------------------------
(* Batch b moves from what it carries to f, which holds no row of others,    *)
(* and the queue changes nothing that another batch holds.                   *)
LEMMA GripMoves ==
    ASSUME IInv, NEW b \in Batches, NEW f, GripOn(f, queue'), Put(b, f) \/ (batch' = batch /\ f = batch[b]),
           \A c \in Batches : c # b => f.held \intersect batch[c].held = {},
           \A i \in Ids : queue'[i] = queue[i] \/ queue'[i].st = "gone"
                                \/ \A c \in Batches : c # b => i \notin batch[c].held
    PROVE  Grip' /\ RowHeldOnce'
  <1>1. \A c \in Batches : batch'[c] = IF c = b THEN f ELSE batch[c]
    BY DEF Put, IInv, TypeOK
  <1>2. ASSUME NEW c \in Batches, c # b PROVE GripOn(batch[c], queue')
    <2>1. batch[c].held \subseteq Ids
      BY DEF IInv, TypeOK, Runs
    <2>2. \A i \in batch[c].held : queue'[i].st \in {"fresh", "gone"}
      BY <1>2, <2>1 DEF IInv, Grip, GripOn
    <2> QED BY <2>2 DEF IInv, Grip, GripOn
  <1>3. Grip'
    BY <1>1, <1>2 DEF Grip
  <1>4. RowHeldOnce'
    BY <1>1 DEF RowHeldOnce, IInv
  <1> QED BY <1>3, <1>4

(* A document's step changes only rows that become "gone" or were unused.    *)
LEMMA GripDocument ==
    ASSUME IInv, NEW d \in Docs, Request(d) \/ Continue(d)
    PROVE  Grip' /\ RowHeldOnce'
  <1>1. /\ batch' = batch
        /\ \A i \in Ids : queue'[i] = queue[i] \/ queue'[i].st = "gone" \/ queue[i].st = "unused"
    BY DocumentStep DEF IInv
  <1>2. \A c \in Batches : batch[c].held \subseteq Ids
    BY DEF IInv, TypeOK, Runs
  <1>3. \A c \in Batches : \A i \in batch[c].held : queue'[i].st \in {"fresh", "gone"}
    BY <1>1, <1>2 DEF IInv, Grip, GripOn
  <1> QED BY <1>1, <1>3 DEF IInv, Grip, GripOn, RowHeldOnce

LEMMA GripStep ==
    ASSUME IInv, ~Lite, "db" \notin Faults \/ faults' = faults, NEW b \in Batches, Step(b) \/ Crash(b)
    PROVE  Grip' /\ RowHeldOnce'
  <1> USE DEF docVars, pageVars, taskVars, userVars, lossVars, At
  <1> DEFINE Other(f) == \A c \in Batches : c # b => f.held \intersect batch[c].held = {}
             Same == UNCHANGED queue
  <1>t. /\ GripOn(batch[b], queue) /\ batch[b] \in Runs /\ queue \in Table /\ Other(batch[b])
        /\ \A i \in batch[b].peeked : queue[i] \in Entries
    BY DEF IInv, TypeOK, Grip, RowHeldOnce, Table, Known
  <1>r. GripOn(Resting, queue') /\ Other(Resting)
    BY DEF GripOn, Resting, Working
  <1>d. \A fails \in BOOLEAN : Failing(fails) => ~fails
    BY DEF Failing, CanFault, IInv, TypeOK
  <1>m. ASSUME NEW f, Put(b, f), GripOn(f, queue), f.held = batch[b].held, Same
        PROVE  Grip' /\ RowHeldOnce'
    BY <1>m, <1>t, GripMoves
  <1>c. ASSUME NEW kind \in {"plain", "recheck"}, Claim(b, kind) PROVE Grip' /\ RowHeldOnce'
    <2> DEFINE f == [Resting EXCEPT !.at = "map", !.kind = kind, !.peeked = Picked,
                                    !.held = Picked, !.todo = LastOps(Picked)]
    <2>1. Put(b, f) /\ queue' = Stamped(Picked)
      BY <1>c DEF Claim
    <2>2. \A i \in Picked : i \in Ids /\ queue[i] \in Entries /\ queue[i].st \in {"free", "stale"}
      BY PickedSound, QueuedRows DEF IInv, Entries, Queued
    <2>3. \A i \in Ids : queue'[i] = IF i \in Picked
                                     THEN [queue[i] EXCEPT !.st = "fresh", !.net = FALSE] ELSE queue[i]
      BY <2>1 DEF Stamped
    <2>4. \A c \in Batches : Picked \intersect batch[c].held = {}
      BY <2>2 DEF IInv, Grip, GripOn
    <2>5. \A i \in Picked : queue'[i].st = "fresh"
      BY <2>2, <2>3 DEF Entries
    <2>6. /\ f.held = Picked /\ f.peeked = Picked /\ f.todo = LastOps(Picked) /\ f.mapped = {}
          /\ f.retracts = {} /\ f.failed = {} /\ f.err = FALSE /\ LastOps(Picked) \subseteq Picked
      BY DEF Resting, LastOps
    <2> HIDE DEF f
    <2>7. GripOn(f, queue')
      <3>1. /\ f.held \subseteq f.peeked /\ f.failed \subseteq f.held /\ ~f.err
            /\ f.held = f.peeked /\ f.todo \union f.mapped \union f.retracts \subseteq f.held
        BY <2>6
      <3>2. \A i \in f.held : queue'[i].st \in {"fresh", "gone"}
        BY <2>5, <2>6
      <3> QED BY <3>1, <3>2, Zenon DEF GripOn
    <2>8. Other(f) /\ \A i \in Ids : queue'[i] = queue[i] \/ \A c \in Batches : i \notin batch[c].held
      BY <2>3, <2>4, <2>6
    <2> QED BY <2>1, <2>7, <2>8, GripMoves
  <1>n. ASSUME NEW kind, NothingClaimed(kind) PROVE Grip' /\ RowHeldOnce'
    <2>1. batch' = batch /\ (queue' = queue \/ queue' = Watched)
      BY <1>n DEF NothingClaimed
    <2>2. \A i \in Ids : queue[i] \in Entries => Watched[i].st = queue[i].st
      BY DEF Watched, Entries
    <2>3. \A c \in Batches : \A i \in batch[c].held : i \in Ids /\ queue[i] \in Entries
      BY DEF IInv, TypeOK, Runs, Known, Sound, WorksOn
    <2> QED BY <2>1, <2>2, <2>3 DEF IInv, Grip, GripOn, RowHeldOnce
  <1>1. CASE Trigger(b) \/ Recheck(b)
    BY <1>1, <1>c, <1>n DEF Trigger, Recheck
  <1>2. ASSUME NEW i \in Ids, MapOf(b, i) PROVE Grip' /\ RowHeldOnce'
    <2> DEFINE f == batch'[b]
    <2>1. /\ batch[b].at = "map" /\ i \in batch[b].todo /\ Same
          /\ \/ Put(b, [batch[b] EXCEPT !.todo = @ \ {i}])
             \/ Put(b, [batch[b] EXCEPT !.todo = @ \ {i}, !.mapped = @ \union {i}])
             \/ Put(b, [batch[b] EXCEPT !.todo = @ \ {i}, !.failed = @ \union {i}])
             \/ Put(b, [batch[b] EXCEPT !.todo = @ \ {i}, !.retracts = @ \union {i}])
      BY <1>2 DEF MapOf, MapSkip, MapOne, MapFail, MapRetract, Retracting, Ingests
    <2>p. \A g : Put(b, g) => f = g
      BY DEF Put, IInv, TypeOK
    <2>2. /\ f.at = "map" /\ f.peeked = batch[b].peeked /\ f.held = batch[b].held
          /\ f.todo = batch[b].todo \ {i} /\ f.err = batch[b].err
          /\ f.mapped = batch[b].mapped \/ f.mapped = batch[b].mapped \union {i}
          /\ f.failed = batch[b].failed \/ f.failed = batch[b].failed \union {i}
          /\ f.retracts = batch[b].retracts \/ f.retracts = batch[b].retracts \union {i}
      <3>1. CASE Put(b, [batch[b] EXCEPT !.todo = @ \ {i}])
        BY <1>t, <2>1, <2>p, <3>1 DEF Runs
      <3>2. CASE Put(b, [batch[b] EXCEPT !.todo = @ \ {i}, !.mapped = @ \union {i}])
        <4>1. f = [batch[b] EXCEPT !.todo = @ \ {i}, !.mapped = @ \union {i}]
          BY <2>p, <3>2
        <4> HIDE DEF f
        <4> QED BY <1>t, <2>1, <4>1 DEF Runs, Working
      <3>3. CASE Put(b, [batch[b] EXCEPT !.todo = @ \ {i}, !.failed = @ \union {i}])
        <4>1. f = [batch[b] EXCEPT !.todo = @ \ {i}, !.failed = @ \union {i}]
          BY <2>p, <3>3
        <4> HIDE DEF f
        <4> QED BY <1>t, <2>1, <4>1 DEF Runs, Working
      <3>4. CASE Put(b, [batch[b] EXCEPT !.todo = @ \ {i}, !.retracts = @ \union {i}])
        <4>1. f = [batch[b] EXCEPT !.todo = @ \ {i}, !.retracts = @ \union {i}]
          BY <2>p, <3>4
        <4> HIDE DEF f
        <4> QED BY <1>t, <2>1, <4>1 DEF Runs, Working
      <3> QED BY <2>1, <3>1, <3>2, <3>3, <3>4
    <2>3. Put(b, f)
      BY <2>1, <2>p
    <2> HIDE DEF f
    <2>4. GripOn(f, queue)
      BY <1>t, <2>1, <2>2 DEF GripOn, Working
    <2> QED BY <2>1, <2>2, <2>3, <2>4, <1>m
  <1>3. CASE ReduceNothing(b) \/ Reduce(b) \/ SlugBusy(b) \/ Write(b) \/ \E i \in Ids : Drain(b, i)
    <2> DEFINE f == batch'[b]
               done == [batch[b] EXCEPT !.at = "drain", !.live = {}, !.read = NoPage, !.locked = FALSE]
    <2>1. /\ batch[b].at \in Working /\ Same
          /\ \/ Put(b, [batch[b] EXCEPT !.at = "drain"]) \/ Put(b, done)
             \/ \E L, R, K : Put(b, [batch[b] EXCEPT !.at = "write", !.live = L, !.read = R, !.locked = K])
             \/ Put(b, [batch[b] EXCEPT !.at = "drain", !.failed = @ \union Updates(b)])
             \/ Put(b, [done EXCEPT !.failed = @ \union Updates(b)])
             \/ \E i \in Ids : Put(b, [batch[b] EXCEPT !.mapped = @ \ {i}])
      <3> HIDE DEF done
      <3>1. CASE ReduceNothing(b)
        BY <3>1 DEF ReduceNothing, Mapped, Working
      <3>2. CASE Reduce(b)
        BY <3>2 DEF Reduce, Mapped, Working
      <3>3. CASE SlugBusy(b)
        BY <3>3 DEF SlugBusy, Mapped, Working
      <3>4. CASE Write(b)
        BY <3>4 DEF Write, Working, done
      <3>5. CASE \E i \in Ids : Drain(b, i)
        BY <3>5 DEF Drain, Working
      <3> QED BY <1>3, <3>1, <3>2, <3>3, <3>4, <3>5
    <2>p. \A g : Put(b, g) => f = g
      BY DEF Put, IInv, TypeOK
    <2>2. /\ f.at \in Working /\ f.peeked = batch[b].peeked /\ f.held = batch[b].held
          /\ f.todo = batch[b].todo /\ f.err = batch[b].err
          /\ f.mapped = batch[b].mapped \/ \E i : f.mapped = batch[b].mapped \ {i}
          /\ f.retracts = batch[b].retracts
          /\ f.failed = batch[b].failed \/ f.failed = batch[b].failed \union Updates(b)
      <3> USE DEF Runs, Working
      <3>d. /\ done.at = "drain" /\ done.peeked = batch[b].peeked /\ done.held = batch[b].held
            /\ done.todo = batch[b].todo /\ done.err = batch[b].err /\ done.mapped = batch[b].mapped
            /\ done.retracts = batch[b].retracts /\ done.failed = batch[b].failed
            /\ done \in Runs
        BY <1>t DEF NoPage, Pages
      <3>1. CASE Put(b, [batch[b] EXCEPT !.at = "drain"])
        BY <1>t, <2>p, <3>1
      <3>2. ASSUME NEW L, NEW R, NEW K,
                   Put(b, [batch[b] EXCEPT !.at = "write", !.live = L, !.read = R, !.locked = K])
            PROVE  <2>2!:
        <4>1. f = [batch[b] EXCEPT !.at = "write", !.live = L, !.read = R, !.locked = K]
          BY <2>p, <3>2
        <4> HIDE DEF f
        <4> QED BY <1>t, <2>1, <4>1 DEF Runs, Working
      <3>3. CASE Put(b, [batch[b] EXCEPT !.at = "drain", !.failed = @ \union Updates(b)])
        <4>1. f = [batch[b] EXCEPT !.at = "drain", !.failed = @ \union Updates(b)]
          BY <2>p, <3>3
        <4> HIDE DEF f
        <4> QED BY <1>t, <2>1, <4>1 DEF Runs, Working
      <3>4. ASSUME NEW i \in Ids, Put(b, [batch[b] EXCEPT !.mapped = @ \ {i}])
            PROVE  <2>2!:
        <4>1. f = [batch[b] EXCEPT !.mapped = @ \ {i}]
          BY <2>p, <3>4
        <4> HIDE DEF f
        <4> QED BY <1>t, <2>1, <4>1 DEF Runs, Working
      <3>5. CASE Put(b, done)
        <4>1. f = done
          BY <2>p, <3>5
        <4> HIDE DEF f, done
        <4> QED BY <3>d, <4>1
      <3>6. CASE Put(b, [done EXCEPT !.failed = @ \union Updates(b)])
        <4>1. f = [done EXCEPT !.failed = @ \union Updates(b)]
          BY <2>p, <3>6
        <4> HIDE DEF f, done
        <4> QED BY <3>d, <4>1
      <3> QED BY <2>1, <3>1, <3>2, <3>3, <3>4, <3>5, <3>6
    <2>3. Put(b, f)
      BY <2>1, <2>p
    <2> HIDE DEF f
    <2>4. GripOn(f, queue)
      BY <1>t, <2>1, <2>2 DEF GripOn, Updates
    <2> QED BY <2>1, <2>2, <2>3, <2>4, <1>m
  <1>4. CASE Trim(b)
    <2> DEFINE s == [batch[b] EXCEPT !.at = "settle", !.mapped = {}, !.retracts = {}]
               f == [s EXCEPT !.held = @ \ TrimSet(b)]
    <2>1. batch[b].at = "drain" /\ Put(b, f) /\ queue' = Without(TrimSet(b))
      BY <1>4, <1>d DEF Trim
    <2>2. /\ f.at = "settle" /\ f.peeked = batch[b].peeked /\ f.held = batch[b].held \ TrimSet(b)
          /\ f.failed = batch[b].failed /\ f.err = batch[b].err
      BY <1>t DEF Runs
    <2>3. \A i \in Ids : queue'[i] = queue[i] \/ queue'[i].st = "gone"
      BY <2>1, TableStatements DEF IInv
    <2>4. f.held \subseteq Ids
      BY <1>t, <2>2 DEF Runs
    <2> HIDE DEF f
    <2>5. GripOn(f, queue')
      BY <1>t, <2>2, <2>3, <2>4 DEF GripOn, Working, TrimSet
    <2>6. Other(f)
      BY <1>t, <2>2
    <2> QED BY <2>1, <2>3, <2>5, <2>6, GripMoves
  <1>5. ASSUME NEW i \in Ids, Requeue(b, i) PROVE Grip' /\ RowHeldOnce'
    <2> DEFINE f == [batch[b] EXCEPT !.failed = @ \ {i}, !.held = @ \ {i}]
    <2>1. batch[b].at = "settle" /\ i \in batch[b].failed /\ RequeueShape(b, i)
      BY <1>5, RequeueCases DEF Requeue
    <2>p. Put(b, f)
      BY <2>1, <1>d DEF RequeueShape, Through
    <2>2. /\ f.at = "settle" /\ f.peeked = batch[b].peeked /\ f.held = batch[b].held \ {i}
          /\ f.failed = batch[b].failed \ {i} /\ f.err = batch[b].err
      BY <1>t, <2>1 DEF Runs
    <2>3. \A j \in Ids : queue'[j] = queue[j] \/ queue'[j].st = "gone" \/ j = i
      BY <1>t, <2>1, TableStatements DEF IInv, RequeueShape, Table
    <2>4. f.held \subseteq Ids /\ i \in batch[b].held
      BY <1>t, <2>1, <2>2 DEF Runs, GripOn
    <2> HIDE DEF f
    <2>5. GripOn(f, queue')
      BY <1>t, <2>2, <2>3, <2>4 DEF GripOn, Working
    <2>6. Other(f) /\ \A c \in Batches : c # b => i \notin batch[c].held
      BY <1>t, <2>2, <2>4
    <2> QED BY <2>p, <2>3, <2>5, <2>6, GripMoves
  <1>6. CASE Finish(b) \/ Crash(b)
    <2>1. Put(b, Resting) /\ Same
      BY <1>6 DEF Finish, Crash, Redelivered
    <2> QED BY <1>r, <2>1, GripMoves
  <1>7. CASE FinishFailed(b)
    BY <1>7, <1>t DEF FinishFailed, GripOn
  <1> QED BY <1>1, <1>2, <1>3, <1>4, <1>5, <1>6, <1>7 DEF Step

LEMMA HeldStep ==
    ASSUME IInv, ~Lite, "db" \notin Faults \/ faults' = faults, [Next]_vars
    PROVE  IInv'
  <1>1. TypeOK' /\ Known'
    BY TypedStep DEF IInv
  <1>2. ASSUME UNCHANGED vars PROVE Grip' /\ RowHeldOnce'
    BY <1>2 DEF vars, IInv, Grip, RowHeldOnce
  <1>3. ASSUME \E d \in Docs : Request(d) \/ Continue(d) PROVE Grip' /\ RowHeldOnce'
    BY <1>3, GripDocument
  <1>4. ASSUME \E b \in Batches : Step(b) \/ Crash(b) PROVE Grip' /\ RowHeldOnce'
    BY <1>4, GripStep
  <1>5. ASSUME Recover \/ SlugLockExpires PROVE Grip' /\ RowHeldOnce'
    BY <1>5 DEF Recover, SlugLockExpires, IInv, Grip, RowHeldOnce
  <1>6. ASSUME NEW i \in Ids, ClaimExpires(i) PROVE Grip' /\ RowHeldOnce'
    <2>1. \A b \in Batches : i \notin batch[b].held
      BY <1>6 DEF ClaimExpires, IInv, Grip, GripOn
    <2>2. batch' = batch /\ queue' = [queue EXCEPT ![i].st = "stale"]
      BY <1>6 DEF ClaimExpires
    <2>3. \A b \in Batches : \A j \in batch[b].held : queue'[j] = queue[j]
      BY <2>1, <2>2 DEF IInv, TypeOK, Runs
    <2>4. \A b \in Batches : GripOn(batch[b], queue')
      BY <2>3 DEF IInv, Grip, GripOn
    <2> QED BY <2>2, <2>4 DEF IInv, Grip, RowHeldOnce
  <1> QED BY <1>1, <1>2, <1>3, <1>4, <1>5, <1>6 DEF Next, Expire, LiteRestart, IInv

(* With the database, no two batches ever hold one row, whatever fails and   *)
(* however often a worker dies: ClaimBatch passes over a document with a     *)
(* fresh claim, a claim is fresh for as long as its batch holds the row, and *)
(* the row is released only by the batch that gives it up. It rests on what  *)
(* ClaimExpires says, that no claim outlives wikiClaimStaleAfter in a batch. *)
THEOREM ClaimedOnce ==
    ASSUME ~Lite, "db" \notin Faults
    PROVE  Spec => []RowHeldOnce
  <1>1. Init => IInv
    BY InitIInv
  <1>2. IInv /\ [Next]_vars => IInv'
    BY HeldStep
  <1>3. IInv => RowHeldOnce
    BY DEF IInv
  <1> QED BY <1>1, <1>2, <1>3, PTL DEF Spec
-----------------------------------------------------------------------------
(* Nothing is lost. With Redis, leases that outlast the model's calls, and   *)
(* no deletes: a delete puts back the list of a page as it read it.          *)
Steady == ~Lite /\ "slow" \notin Faults /\ Deletable = {}

(* A document is handed over once, and only the user takes it back. *)
Users ==
    /\ \A d \in Docs :
        /\ ~row[d].gone /\ row[d].status \in {"processing", "finalizing", "completed", "cancelled"}
        /\ user[d] \in {"idle", "cancelling", "cancelled"}
        /\ user[d] = "idle" <=> row[d].status # "cancelled"
    /\ \A i \in Ids : queue[i] \in Entries =>
        /\ queue[i].op = "ingest" /\ row[queue[i].doc].status # "processing"
        /\ \A j \in Ids : queue[j] \in Entries /\ queue[j].doc = queue[i].doc => j = i

(* Nobody retracts. What a batch read of the page is still on it or has been *)
(* written off, and what came to it since is written off as well if the      *)
(* batch has the lock, for then it came from one that wrote without it.      *)
LockedBy(b, f, lock, pg, lost) ==
    /\ f.retracts = {}
    /\ f.at = "write" =>
        /\ f.read.refs \subseteq pg.refs \union lost /\ (f.read.exists => pg.exists)
        /\ f.locked => lock = b /\ (f.read.exists = pg.exists => pg.refs \subseteq f.read.refs \union lost)
Locked ==
    /\ page.exists \/ page.refs = {}
    /\ \A b \in Batches : LockedBy(b, batch[b], slugLock, page, dropped)

(* How far a batch has come with a row of d it has read: to do, mapped or    *)
(* failed; for the page it is about to write; once it drains, failed; unless *)
(* d is answered.                                                            *)
Carries(f, i, d, answers) ==
    \/ f.at = "map" /\ i \in f.todo \union f.mapped \union f.failed
    \/ f.at = "write" /\ (i \in f.failed \/ (i \in f.mapped /\ i \in f.live))
    \/ f.at = "drain" /\ i \in f.failed
    \/ f.at = "settle"
    \/ d \in answers
Answers == page.refs \union dead \union dropped
Carried ==
    \A b \in Batches : \A i \in batch[b].peeked :
        user[queue[i].doc] = "idle" => Carries(batch[b], i, queue[i].doc, Answers)

KeptInv == TypeOK /\ Known /\ Users /\ Locked /\ Carried /\ NothingLost

(* What every statement but an insert does to the table. *)
SameRows == \A i \in Ids : queue'[i] \in Entries =>
                queue[i] \in Entries /\ queue'[i].doc = queue[i].doc /\ queue'[i].op = queue[i].op
(* What every handler but a request does to a document's row. *)
SameDocs == \A d \in Docs : /\ row'[d].gone = row[d].gone
                            /\ \/ row'[d].status = row[d].status
                               \/ row[d].status = "finalizing" /\ row'[d].status = "completed"

LEMMA SlotBack ==
    ASSUME TypeOK, NEW d, NEW fails \in BOOLEAN, FinalizeSubtask(d, fails)
    PROVE  SameDocs
  <1>1. row \in [Docs -> Rows]
    BY DEF TypeOK, Rows
  <1>2. \A r \in Rows : \A s \in {Decremented(r), Promoted(Decremented(r))} :
            s.gone = r.gone /\ (s.status = r.status
                                \/ (r.status = "finalizing" /\ s.status = "completed"))
    BY DEF Promoted, Decremented, CanPromote, Has, Rows
  <1>3. \A e \in Docs : \/ row'[e] = row[e]
                        \/ row'[e] \in {Decremented(row[e]), Promoted(Decremented(row[e]))}
    BY <1>1 DEF FinalizeSubtask
  <1> QED BY <1>1, <1>2, <1>3 DEF SameDocs
LEMMA SlotGiven ==
    ASSUME TypeOK, NEW d, GiveBack(d)
    PROVE  SameDocs
  BY SlotBack DEF GiveBack

(* One queued row changes, and stays queued. *)
LEMMA RowStays ==
    ASSUME TypeOK, NEW i \in Queued, NEW r \in Entries, queue' = [queue EXCEPT ![i] = r],
           r.doc = queue[i].doc, r.op = queue[i].op, r.st \in {"free", "fresh", "stale"}
    PROVE  /\ SameRows /\ queue' \in Table /\ \A j \in Ids : queue[j] \in Entries => queue'[j] \in Entries
           /\ \A j \in Queued : j \in Queued'
           /\ queue'[i] = r /\ \A j \in Ids : j # i => queue'[j] = queue[j]
           /\ \A j \in Queued' : j \in Queued
  <1>1. i \in Ids /\ queue[i] \in Entries /\ queue \in Table
    BY QueuedRows DEF TypeOK, Table
  <1>2. queue'[i] = r /\ \A j \in Ids : j # i => queue'[j] = queue[j]
    BY <1>1 DEF Table
  <1>3. queue' \in Table
    BY <1>1 DEF Table
  <1>4. SameRows /\ \A j \in Ids : queue[j] \in Entries => queue'[j] \in Entries
    BY <1>1, <1>2 DEF SameRows
  <1>5. \A j \in Ids : j \in Queued <=> j \in Queued'
    BY <1>2 DEF Queued
  <1> QED BY <1>2, <1>3, <1>4, <1>5 DEF Queued
LEMMA Counting ==
    ASSUME TypeOK, NEW i \in Queued
    PROVE  LET c == FailCount(i)
               r == [FailCount(i) EXCEPT !.st = "free", !.net = FALSE]
           IN  /\ c \in Entries /\ c.doc = queue[i].doc /\ c.op = queue[i].op /\ c.st = queue[i].st
               /\ c.st \in {"free", "fresh", "stale"}
               /\ r \in Entries /\ r.doc = queue[i].doc /\ r.op = queue[i].op /\ r.st = "free"
  <1> DEFINE c == FailCount(i)
  <1>1. queue[i] \in Entries /\ queue[i].st \in {"free", "fresh", "stale"}
    BY QueuedRows DEF Queued
  <1>2. c = [queue[i] EXCEPT !.fails = queue[i].fails + 1] /\ queue[i].fails + 1 \in Nat
    BY <1>1 DEF FailCount, Entries
  <1>3. c \in Entries /\ c.doc = queue[i].doc /\ c.op = queue[i].op /\ c.st = queue[i].st
    BY <1>1, <1>2 DEF Entries
  <1> HIDE DEF c
  <1>4. LET r == [c EXCEPT !.st = "free", !.net = FALSE]
        IN  r \in Entries /\ r.doc = queue[i].doc /\ r.op = queue[i].op /\ r.st = "free"
    BY <1>3 DEF Entries
  <1> QED BY <1>1, <1>3, <1>4 DEF c

(* A step that leaves page and lock alone. *)
LEMMA LockedStays ==
    ASSUME KeptInv, UNCHANGED <<slugLock, page>>, dropped \subseteq dropped'
    PROVE  /\ page'.exists \/ page'.refs = {}
           /\ \A c \in Batches : LockedBy(c, batch[c], slugLock', page', dropped')
  BY DEF KeptInv, Locked, LockedBy

LEMMA UsersStay ==
    ASSUME KeptInv, SameDocs, SameRows, UNCHANGED user
    PROVE  Users'
  <1>1. ASSUME NEW d \in Docs
        PROVE  /\ ~row'[d].gone /\ row'[d].status \in {"processing", "finalizing", "completed", "cancelled"}
               /\ user'[d] \in {"idle", "cancelling", "cancelled"}
               /\ user'[d] = "idle" <=> row'[d].status # "cancelled"
               /\ row'[d].status = "processing" => row[d].status = "processing"
    BY DEF SameDocs, KeptInv, Users
  <1>2. ASSUME NEW i \in Ids, queue'[i] \in Entries
        PROVE  /\ queue'[i].op = "ingest" /\ row'[queue'[i].doc].status # "processing"
               /\ \A j \in Ids : queue'[j] \in Entries /\ queue'[j].doc = queue'[i].doc => j = i
    <2>1. queue[i] \in Entries /\ queue'[i].doc = queue[i].doc /\ queue'[i].op = queue[i].op
          /\ queue[i].doc \in Docs
      BY <1>2 DEF SameRows, Entries
    <2>2. queue[i].op = "ingest" /\ row[queue[i].doc].status # "processing"
          /\ \A j \in Ids : queue[j] \in Entries /\ queue[j].doc = queue[i].doc => j = i
      BY <2>1 DEF KeptInv, Users
    <2> QED BY <1>1, <2>1, <2>2 DEF SameRows
  <1> QED BY <1>1, <1>2 DEF Users

(* A queued row of a document nobody took back stays queued, or is answered. *)
LEMMA LostStays ==
    ASSUME KeptInv, SameDocs, SameRows, UNCHANGED user, Answers \subseteq Answers', queue' \in Table,
           \A i \in Queued : i \in Queued' \/ user[queue[i].doc] # "idle" \/ queue[i].doc \in Answers',
           \A i \in Queued : queue'[i] \in Entries
    PROVE  NothingLost'
  <1> SUFFICES ASSUME NEW d \in Docs, ~KnowledgeGone(d)', user'[d] = "idle", ~Has(row[d], {"processing"})'
               PROVE  WikiQueued(d)' \/ Answered(d)'
    BY DEF NothingLost
  <1>1. ~KnowledgeGone(d) /\ user[d] = "idle" /\ ~Has(row[d], {"processing"})
    BY DEF KeptInv, Users, KnowledgeGone, Aborted, Has, SameDocs
  <1>2. WikiQueued(d) \/ Answered(d)
    BY <1>1 DEF KeptInv, NothingLost
  <1>3. CASE Answered(d)
    BY <1>3 DEF Answered, Answers
  <1>4. CASE WikiQueued(d)
    <2>1. PICK i \in Queued : queue[i].doc = d /\ queue[i].op = "ingest"
      BY <1>4 DEF WikiQueued
    <2>2. CASE i \in Queued'
      <3>1. i \in Ids /\ queue'[i] \in Entries
        BY <2>1, QueuedRows DEF KeptInv
      <3> QED BY <2>1, <2>2, <3>1 DEF SameRows, WikiQueued
    <2>3. CASE queue[i].doc \in Answers'
      BY <2>1, <2>3 DEF Answers, Answered
    <2> QED BY <1>1, <2>1, <2>2, <2>3
  <1> QED BY <1>2, <1>3, <1>4

(* Batch b moves to f: what it has in hand there is accounted for. *)
LEMMA KeptMoves ==
    ASSUME KeptInv, NEW b \in Batches, NEW f, Put(b, f) \/ (batch' = batch /\ f = batch[b]),
           f.peeked \subseteq Ids, \A i \in f.peeked : queue[i] \in Entries,
           SameDocs, SameRows, UNCHANGED user, Answers \subseteq Answers', queue' \in Table,
           \A i \in Ids : queue[i] \in Entries => queue'[i] \in Entries,
           \A i \in Queued : i \in Queued' \/ user[queue[i].doc] # "idle" \/ queue[i].doc \in Answers',
           page'.exists \/ page'.refs = {}, LockedBy(b, f, slugLock', page', dropped'),
           \A c \in Batches : c # b => LockedBy(c, batch[c], slugLock', page', dropped'),
           \A i \in f.peeked : user[queue[i].doc] = "idle" => Carries(f, i, queue[i].doc, Answers')
    PROVE  Users' /\ Locked' /\ Carried' /\ NothingLost'
  <1>1. \A c \in Batches : batch'[c] = IF c = b THEN f ELSE batch[c]
    BY DEF Put, KeptInv, TypeOK
  <1>2. Users'
    BY UsersStay
  <1>3. NothingLost'
    <2>1. \A i \in Queued : queue'[i] \in Entries
      BY QueuedRows DEF KeptInv
    <2> QED BY <2>1, LostStays
  <1>4. Locked'
    BY <1>1 DEF Locked
  <1>5. Carried'
    <2>1. ASSUME NEW c \in Batches, NEW i \in batch'[c].peeked, user'[queue'[i].doc] = "idle"
          PROVE  Carries(batch'[c], i, queue'[i].doc, Answers')
      <3>1. i \in Ids /\ queue[i] \in Entries
        BY <1>1, <2>1 DEF KeptInv, Known, TypeOK, Runs
      <3>2. queue'[i].doc = queue[i].doc
        BY <3>1 DEF SameRows
      <3>3. CASE c = b
        BY <1>1, <2>1, <3>2, <3>3
      <3>4. CASE c # b
        <4>1. batch'[c] = batch[c]
          BY <1>1, <3>4
        <4>2. Carries(batch[c], i, queue[i].doc, Answers)
          BY <2>1, <3>2, <4>1 DEF KeptInv, Carried
        <4> QED BY <3>2, <4>1, <4>2 DEF Carries
      <3> QED BY <3>3, <3>4
    <2> QED BY <2>1 DEF Carried
  <1> QED BY <1>2, <1>3, <1>4, <1>5

(* The same, of a step that leaves the table alone. *)
LEMMA KeptWorks ==
    ASSUME KeptInv, NEW b \in Batches, NEW f, Put(b, f), UNCHANGED <<queue, user>>, SameDocs,
           f.peeked = batch[b].peeked, Answers \subseteq Answers',
           page'.exists \/ page'.refs = {}, LockedBy(b, f, slugLock', page', dropped'),
           \A c \in Batches : c # b => LockedBy(c, batch[c], slugLock', page', dropped'),
           \A i \in batch[b].peeked : user[queue[i].doc] = "idle" => Carries(f, i, queue[i].doc, Answers')
    PROVE  Users' /\ Locked' /\ Carried' /\ NothingLost'
  <1>1. f.peeked \subseteq Ids /\ \A i \in f.peeked : queue[i] \in Entries
    BY DEF KeptInv, Known, TypeOK, Runs
  <1>2. SameRows /\ queue' \in Table /\ (\A i \in Ids : queue[i] \in Entries => queue'[i] \in Entries)
        /\ \A i \in Queued : i \in Queued'
    BY DEF SameRows, KeptInv, TypeOK, Table, Queued
  <1> QED BY <1>1, <1>2, KeptMoves

LEMMA KeptClaim ==
    ASSUME KeptInv, Steady, NEW b \in Batches, NEW kind, Claim(b, kind), UNCHANGED <<docVars, pageVars, userVars, lossVars>>
    PROVE  Users' /\ Locked' /\ Carried' /\ NothingLost'
  <1> DEFINE f == [Resting EXCEPT !.at = "map", !.kind = kind, !.peeked = Picked,
                                  !.held = Picked, !.todo = LastOps(Picked)]
  <1>1. Put(b, f) /\ queue' = Stamped(Picked)
    BY DEF Claim
  <1>2. Picked \subseteq Ids /\ \A i \in Picked : queue[i] \in Entries /\ i \in Queued
    BY PickedSound, QueuedRows DEF KeptInv
  <1>3. f.at = "map" /\ f.peeked = Picked /\ f.todo = LastOps(Picked) /\ f.retracts = {}
    BY DEF Resting
  <1>4. \A i \in Picked : i \in LastOps(Picked)
    BY <1>2 DEF LastOps, KeptInv, Users, Ids
  <1>5. \A i \in Ids : queue'[i] = IF i \in Picked
                                   THEN [queue[i] EXCEPT !.st = "fresh", !.net = FALSE] ELSE queue[i]
    BY <1>1 DEF Stamped, Steady
  <1>6. \A i \in Picked : /\ queue'[i] \in Entries /\ queue'[i].st = "fresh"
                          /\ queue'[i].doc = queue[i].doc /\ queue'[i].op = queue[i].op
    BY <1>2, <1>5 DEF Entries
  <1>7. SameRows
    BY <1>2, <1>5, <1>6 DEF SameRows
  <1>8. queue' \in Table
    BY <1>1, <1>2, <1>5, <1>6 DEF KeptInv, TypeOK, Table, Stamped
  <1>9. \A i \in Ids : queue[i] \in Entries => queue'[i] \in Entries
    BY <1>5, <1>6
  <1>10. \A i \in Queued : i \in Queued'
    BY <1>5, <1>6 DEF Queued
  <1>11. SameDocs /\ Answers \subseteq Answers' /\ UNCHANGED <<user, slugLock, page, dropped>>
    BY DEF SameDocs, Answers, docVars, pageVars, userVars, lossVars
  <1>l. LockedBy(b, f, slugLock', page', dropped')
    BY <1>3 DEF LockedBy
  <1>12. \A i \in f.peeked : Carries(f, i, queue[i].doc, Answers')
    BY <1>3, <1>4 DEF Carries
  <1> HIDE DEF f
  <1> QED BY <1>1, <1>2, <1>3, <1>7, <1>8, <1>9, <1>10, <1>11, <1>12, <1>l, LockedStays, KeptMoves

(* A batch that stays where it is, and a table that keeps its rows. *)
LEMMA KeptStill ==
    ASSUME KeptInv, UNCHANGED <<batch, user, page>>, SameDocs, SameRows, queue' \in Table,
           Answers \subseteq Answers', dropped \subseteq dropped',
           \A i \in Queued : i \in Queued' \/ user[queue[i].doc] # "idle" \/ queue[i].doc \in Answers',
           \A i \in Ids : queue[i] \in Entries => queue'[i] \in Entries,
           \A c \in Batches : batch[c].at = "write" /\ batch[c].locked => slugLock' = slugLock
    PROVE  Users' /\ Locked' /\ Carried' /\ NothingLost'
  <1>1. Users'
    BY UsersStay
  <1>2. NothingLost'
    <2>1. \A i \in Queued : queue'[i] \in Entries
      BY QueuedRows DEF KeptInv
    <2> QED BY <2>1, LostStays
  <1>3. Locked'
    BY DEF KeptInv, Locked, LockedBy
  <1>4. Carried'
    <2>1. ASSUME NEW c \in Batches, NEW i \in batch[c].peeked, user[queue'[i].doc] = "idle"
          PROVE  Carries(batch[c], i, queue'[i].doc, Answers')
      <3>1. i \in Ids /\ queue[i] \in Entries /\ queue'[i] \in Entries
        BY <2>1 DEF KeptInv, Known, TypeOK, Runs
      <3>2. queue'[i].doc = queue[i].doc
        BY <3>1 DEF SameRows
      <3>3. Carries(batch[c], i, queue[i].doc, Answers)
        BY <2>1, <3>2 DEF KeptInv, Carried
      <3> QED BY <3>2, <3>3 DEF Carries
    <2> QED BY <2>1 DEF Carried
  <1> QED BY <1>1, <1>2, <1>3, <1>4

LEMMA KeptNothing ==
    ASSUME KeptInv, NEW kind, NothingClaimed(kind), UNCHANGED <<docVars, pageVars, userVars, lossVars>>
    PROVE  Users' /\ Locked' /\ Carried' /\ NothingLost'
  <1>1. batch' = batch /\ (queue' = queue \/ queue' = Watched)
    BY DEF NothingClaimed
  <1>2. \A i \in Ids : queue[i] \in Entries =>
            /\ Watched[i] \in Entries /\ Watched[i].st = queue[i].st
            /\ Watched[i].doc = queue[i].doc /\ Watched[i].op = queue[i].op
    BY DEF Watched, Entries
  <1>3. \A i \in Ids : queue[i] \notin Entries => Watched[i] = Unused /\ queue[i] = Unused
    <2>1. [Unused EXCEPT !.net = @ \/ Unused.st = "fresh"] = Unused
      BY DEF Unused
    <2> QED BY <2>1 DEF KeptInv, TypeOK, Watched
  <1>4. Unused \notin Entries
    BY DEF Unused, Entries
  <1>5. queue \in Table
    BY DEF KeptInv, TypeOK, Table
  <1>6. Watched \in Table
    BY <1>2, <1>3 DEF Watched, Table
  <1>7. SameRows /\ queue' \in Table /\ \A i \in Ids : queue[i] \in Entries => queue'[i] \in Entries
    BY <1>1, <1>2, <1>3, <1>4, <1>5, <1>6 DEF SameRows
  <1>8. \A i \in Queued : i \in Queued'
    BY <1>1, <1>2, QueuedRows DEF Queued, KeptInv
  <1>9. SameDocs /\ Answers \subseteq Answers' /\ UNCHANGED <<user, slugLock, page, dropped>>
    BY DEF SameDocs, Answers, docVars, pageVars, userVars, lossVars
  <1> QED BY <1>1, <1>7, <1>8, <1>9, KeptStill

LEMMA KeptMap ==
    ASSUME KeptInv, NEW b \in Batches, NEW i \in Ids, MapOf(b, i)
    PROVE  Users' /\ Locked' /\ Carried' /\ NothingLost'
  <1> USE DEF docVars, pageVars, taskVars, userVars, lossVars
  <1>t. /\ batch[b] \in Runs /\ batch[b].at = "map" /\ i \in batch[b].todo
        /\ queue[i] \in Entries /\ queue[i].op = "ingest"
        /\ \A j \in batch[b].peeked : user[queue[j].doc] = "idle" => Carries(batch[b], j, queue[j].doc, Answers)
        /\ batch[b].retracts = {}
    BY DEF MapOf, MapSkip, MapOne, MapFail, MapRetract, Ingests, At, KeptInv, TypeOK, Known, Sound, WorksOn,
           Users, Carried, Locked, LockedBy
  <1>1. /\ UNCHANGED <<queue, user, page, slugLock>> /\ Answers \subseteq Answers'
        /\ SameDocs /\ dropped \subseteq dropped'
        /\ \/ /\ Put(b, [batch[b] EXCEPT !.todo = @ \ {i}])
              /\ user[queue[i].doc] # "idle" \/ queue[i].doc \in Answers'
           \/ Put(b, [batch[b] EXCEPT !.todo = @ \ {i}, !.mapped = @ \union {i}])
           \/ Put(b, [batch[b] EXCEPT !.todo = @ \ {i}, !.failed = @ \union {i}])
    <2>1. CASE MapSkip(b, i)
      <3>1. SameDocs
        BY <2>1, SlotGiven DEF MapSkip, KeptInv
      <3>2. KnowledgeGone(queue[i].doc) => user[queue[i].doc] # "idle"
        BY <1>t DEF KeptInv, Users, KnowledgeGone, Aborted, Entries
      <3>3. /\ dropped' = IF KnowledgeGone(queue[i].doc) THEN dropped ELSE dropped \union {queue[i].doc}
            /\ UNCHANGED <<queue, user, page, slugLock, dead>>
            /\ Put(b, [batch[b] EXCEPT !.todo = @ \ {i}])
        BY <2>1 DEF MapSkip
      <3>4. Answers \subseteq Answers' /\ (~KnowledgeGone(queue[i].doc) => queue[i].doc \in Answers')
        BY <3>3 DEF Answers
      <3> QED BY <3>1, <3>2, <3>3, <3>4
    <2>2. CASE MapOne(b, i)
      BY <2>2 DEF MapOne, Answers, SameDocs
    <2>3. CASE MapFail(b, i)
      BY <2>3 DEF MapFail, Answers, SameDocs
    <2>4. CASE MapRetract(b, i)
      BY <1>t, <2>4 DEF MapRetract
    <2> QED BY <2>1, <2>2, <2>3, <2>4 DEF MapOf
  <1>l. \A f : f.at = "map" /\ f.retracts = {} => LockedBy(b, f, slugLock', page', dropped')
    BY DEF LockedBy
  <1>2. CASE /\ Put(b, [batch[b] EXCEPT !.todo = @ \ {i}])
             /\ user[queue[i].doc] # "idle" \/ queue[i].doc \in Answers'
    <2> DEFINE f == [batch[b] EXCEPT !.todo = @ \ {i}]
    <2>1. /\ f.at = "map" /\ f.peeked = batch[b].peeked /\ f.todo = batch[b].todo \ {i}
          /\ f.mapped = batch[b].mapped /\ f.failed = batch[b].failed /\ f.retracts = {}
      BY <1>t DEF Runs
    <2>2. Put(b, f)
      BY <1>2
    <2> HIDE DEF f
    <2>3. \A j \in batch[b].peeked : user[queue[j].doc] = "idle" => Carries(f, j, queue[j].doc, Answers')
      BY <1>t, <1>1, <1>2, <2>1 DEF Carries
    <2> QED BY <1>1, <1>l, <2>1, <2>2, <2>3, LockedStays, KeptWorks
  <1>3. CASE Put(b, [batch[b] EXCEPT !.todo = @ \ {i}, !.mapped = @ \union {i}])
    <2> DEFINE f == [batch[b] EXCEPT !.todo = @ \ {i}, !.mapped = @ \union {i}]
    <2>1. /\ f.at = "map" /\ f.peeked = batch[b].peeked /\ f.todo = batch[b].todo \ {i}
          /\ f.mapped = batch[b].mapped \union {i} /\ f.failed = batch[b].failed /\ f.retracts = {}
      BY <1>t DEF Runs
    <2>2. Put(b, f)
      BY <1>3
    <2> HIDE DEF f
    <2>3. \A j \in batch[b].peeked : user[queue[j].doc] = "idle" => Carries(f, j, queue[j].doc, Answers')
      BY <1>t, <1>1, <2>1 DEF Carries
    <2> QED BY <1>1, <1>l, <2>1, <2>2, <2>3, LockedStays, KeptWorks
  <1>4. CASE Put(b, [batch[b] EXCEPT !.todo = @ \ {i}, !.failed = @ \union {i}])
    <2> DEFINE f == [batch[b] EXCEPT !.todo = @ \ {i}, !.failed = @ \union {i}]
    <2>1. /\ f.at = "map" /\ f.peeked = batch[b].peeked /\ f.todo = batch[b].todo \ {i}
          /\ f.mapped = batch[b].mapped /\ f.failed = batch[b].failed \union {i} /\ f.retracts = {}
      BY <1>t DEF Runs
    <2>2. Put(b, f)
      BY <1>4
    <2> HIDE DEF f
    <2>3. \A j \in batch[b].peeked : user[queue[j].doc] = "idle" => Carries(f, j, queue[j].doc, Answers')
      BY <1>t, <1>1, <2>1 DEF Carries
    <2> QED BY <1>1, <1>l, <2>1, <2>2, <2>3, LockedStays, KeptWorks
  <1> QED BY <1>1, <1>2, <1>3, <1>4

(* The page is read under the lock, or without it, and written with what the *)
(* batch carries; what the page did not get has failed, or is written off.   *)
LEMMA KeptReduce ==
    ASSUME KeptInv, Steady, NEW b \in Batches,
           ReduceNothing(b) \/ Reduce(b) \/ SlugBusy(b)
    PROVE  Users' /\ Locked' /\ Carried' /\ NothingLost'
  <1> USE DEF docVars, pageVars, taskVars, userVars, lossVars
  <1> DEFINE done == [batch[b] EXCEPT !.at = "drain"]
             work(live, read, locked) ==
                 [batch[b] EXCEPT !.at = "write", !.live = live, !.read = read, !.locked = locked]
             lost == [batch[b] EXCEPT !.at = "drain", !.failed = @ \union Updates(b)]
  <1>t. /\ batch[b] \in Runs /\ batch[b].at = "map" /\ batch[b].todo = {} /\ batch[b].retracts = {}
        /\ \A j \in batch[b].peeked : user[queue[j].doc] = "idle"
              => j \in batch[b].mapped \union batch[b].failed \/ queue[j].doc \in Answers
        /\ batch[b].peeked \subseteq Ids
    <2>1. batch[b].at = "map" /\ batch[b].todo = {}
      BY DEF ReduceNothing, Reduce, SlugBusy, Mapped, At
    <2> QED BY <2>1 DEF KeptInv, TypeOK, Runs, Carried, Carries, Locked, LockedBy
  <1>0. UNCHANGED <<queue, user, page, dead>> /\ SameDocs
    BY DEF ReduceNothing, Reduce, SlugBusy, SameDocs
  <1>a. dropped \subseteq dropped' => Answers \subseteq Answers'
    BY <1>0 DEF Answers
  <1>l. \A j \in batch[b].mapped : user[queue[j].doc] = "idle" => j \in Live(b)
    <2>1. \A j \in batch[b].mapped : queue[j].doc \in Docs
      BY DEF KeptInv, Known, Sound, WorksOn, Entries
    <2> QED BY <2>1 DEF KeptInv, Users, KnowledgeGone, Aborted, Live
  <1>d. /\ done.at = "drain" /\ done.peeked = batch[b].peeked /\ done.failed = batch[b].failed
        /\ done.retracts = {}
    BY <1>t DEF Runs
  <1>w. ASSUME NEW live, NEW read, NEW locked
        PROVE  LET w == work(live, read, locked)
               IN  /\ w.at = "write" /\ w.peeked = batch[b].peeked /\ w.failed = batch[b].failed
                   /\ w.mapped = batch[b].mapped /\ w.live = live /\ w.read = read
                   /\ w.locked = locked /\ w.retracts = {}
    BY <1>t DEF Runs
  <1>x. /\ lost.at = "drain" /\ lost.peeked = batch[b].peeked
        /\ lost.failed = batch[b].failed \union batch[b].mapped /\ lost.retracts = {}
    BY <1>t DEF Runs, Updates
  <1>b. \A f : f.at = "drain" /\ f.retracts = {} => LockedBy(b, f, slugLock', page', dropped')
    BY DEF LockedBy
  <1> HIDE DEF done, work, lost
  <1>2. CASE ReduceNothing(b)
    <2>1. Put(b, done) /\ UNCHANGED <<slugLock, dropped>> /\ batch[b].mapped = {}
      BY <1>2 DEF ReduceNothing, Updates, done
    <2>2. \A j \in batch[b].peeked : user[queue[j].doc] = "idle" => Carries(done, j, queue[j].doc, Answers')
      BY <1>t, <1>a, <1>d, <2>1 DEF Carries
    <2> QED BY <1>0, <1>a, <1>b, <1>d, <2>1, <2>2, LockedStays, KeptWorks
  <1>3. CASE SlugBusy(b)
    <2>1. Put(b, lost) /\ UNCHANGED <<slugLock, dropped>>
      BY <1>3 DEF SlugBusy, lost
    <2>2. \A j \in batch[b].peeked : user[queue[j].doc] = "idle" => Carries(lost, j, queue[j].doc, Answers')
      BY <1>t, <1>a, <1>x, <2>1 DEF Carries
    <2> QED BY <1>0, <1>a, <1>b, <1>x, <2>1, <2>2, LockedStays, KeptWorks
  <1>4. CASE Reduce(b)
    <2>1. PICK live \in LiveAnswers(b), read \in PageAnswers, locked \in BOOLEAN :
             /\ MayEnter(locked)
             /\ dropped' = dropped \union Of(Live(b) \ live)
             /\ \/ live = {} /\ Put(b, done) /\ UNCHANGED slugLock
                \/ Put(b, work(live, read, locked)) /\ slugLock' = IF locked THEN b ELSE slugLock
      BY <1>4 DEF Reduce, done, work
    <2>a. dropped \subseteq dropped' /\ Answers \subseteq Answers'
      BY <2>1, <1>a
    <2>2. \A j \in batch[b].mapped : user[queue[j].doc] = "idle" => j \in live \/ queue[j].doc \in Answers'
      <3>1. \A j \in Live(b) \ live : queue[j].doc \in Of(Live(b) \ live)
        BY DEF Of
      <3>2. Of(Live(b) \ live) \subseteq Answers'
        BY <2>1 DEF Answers
      <3> QED BY <1>l, <3>1, <3>2
    <2>3. CASE live = {} /\ Put(b, done) /\ UNCHANGED slugLock
      <3>1. \A j \in batch[b].peeked : user[queue[j].doc] = "idle" => Carries(done, j, queue[j].doc, Answers')
        BY <1>t, <1>d, <2>a, <2>2, <2>3 DEF Carries
      <3> QED BY <1>0, <1>b, <1>d, <2>a, <2>3, <3>1, LockedStays, KeptWorks
    <2>4. CASE Put(b, work(live, read, locked)) /\ slugLock' = IF locked THEN b ELSE slugLock
      <3> DEFINE w == work(live, read, locked)
      <3>w. /\ w.at = "write" /\ w.peeked = batch[b].peeked /\ w.failed = batch[b].failed
            /\ w.mapped = batch[b].mapped /\ w.live = live /\ w.read = read
            /\ w.locked = locked /\ w.retracts = {}
        BY <1>w
      <3>p. Put(b, w)
        BY <2>4
      <3> HIDE DEF w
      <3>1. \A j \in batch[b].peeked : user[queue[j].doc] = "idle" => Carries(w, j, queue[j].doc, Answers')
        BY <1>t, <2>a, <2>2, <3>w DEF Carries
      <3>2. locked => slugLock = NoBatch /\ slugLock' = b
        BY <2>1, <2>4 DEF MayEnter
      <3>3. \A c \in Batches : c # b => LockedBy(c, batch[c], slugLock', page', dropped')
        <4> SUFFICES ASSUME NEW c \in Batches, c # b PROVE LockedBy(c, batch[c], slugLock', page', dropped')
          OBVIOUS
        <4>1. LockedBy(c, batch[c], slugLock, page, dropped)
          BY DEF KeptInv, Locked
        <4>2. locked => ~(batch[c].at = "write" /\ batch[c].locked)
          BY <3>2, <4>1, WikiAssumption DEF LockedBy
        <4>3. ~locked => slugLock' = slugLock
          BY <2>4
        <4> QED BY <1>0, <2>1, <2>a, <4>1, <4>2, <4>3 DEF LockedBy
      <3>4. LockedBy(b, w, slugLock', page', dropped')
        <4>1. read = page \/ read = [exists |-> FALSE, refs |-> {}]
          BY <2>1 DEF PageAnswers, NoPage
        <4>2. page' = page /\ (page.exists \/ page.refs = {}) /\ page \in Pages
          BY <1>0 DEF KeptInv, Locked, TypeOK
        <4> QED BY <3>w, <3>2, <4>1, <4>2 DEF LockedBy, Pages
      <3>5. page'.exists \/ page'.refs = {}
        BY <1>0 DEF KeptInv, Locked
      <3> QED BY <1>0, <2>a, <3>p, <3>w, <3>1, <3>3, <3>4, <3>5, KeptWorks
    <2> QED BY <2>1, <2>3, <2>4
  <1> QED BY <1>2, <1>3, <1>4

LEMMA KeptWrite ==
    ASSUME KeptInv, Steady, NEW b \in Batches, Write(b)
    PROVE  Users' /\ Locked' /\ Carried' /\ NothingLost'
  <1> USE DEF docVars, pageVars, taskVars, userVars, lossVars
  <1> DEFINE done == [batch[b] EXCEPT !.at = "drain", !.live = {}, !.read = NoPage, !.locked = FALSE]
             lost == [done EXCEPT !.failed = @ \union Updates(b)]
             live == Of(batch[b].live)
  <1>t. /\ batch[b] \in Runs /\ batch[b].at = "write" /\ batch[b].retracts = {}
        /\ batch[b].read.refs \subseteq page.refs \union dropped /\ page \in Pages
        /\ batch[b].locked => slugLock = b
        /\ batch[b].locked /\ batch[b].read.exists = page.exists
              => page.refs \subseteq batch[b].read.refs \union dropped
        /\ \A j \in batch[b].peeked : user[queue[j].doc] = "idle"
              => \/ j \in batch[b].failed \/ j \in batch[b].mapped \intersect batch[b].live
                 \/ queue[j].doc \in Answers
    <2>1. batch[b].at = "write"
      BY DEF Write, At
    <2> QED BY <2>1 DEF KeptInv, TypeOK, Carried, Carries, Locked, LockedBy
  <1>d. /\ done.at = "drain" /\ done.peeked = batch[b].peeked /\ done.failed = batch[b].failed
        /\ done.retracts = {}
    BY <1>t DEF Runs
  <1>x. /\ lost.at = "drain" /\ lost.peeked = batch[b].peeked
        /\ lost.failed = batch[b].failed \union batch[b].mapped /\ lost.retracts = {}
    <2>1. done \in Runs
      BY <1>t DEF Runs, NoPage, Pages
    <2> HIDE DEF done
    <2> QED BY <1>t, <1>d, <2>1 DEF Runs, Updates
  <1>0. UNCHANGED <<queue, user, dead>> /\ SameDocs
    BY DEF Write, SameDocs
  <1>e. \A j \in batch[b].live : queue[j].doc \in live
    BY DEF Of
  <1>k. (slugLock' = slugLock) \/ (batch[b].locked /\ slugLock = b)
    BY <1>t DEF Write, Unlocked
  <1>b. \A f : f.at = "drain" /\ f.retracts = {} => LockedBy(b, f, slugLock', page', dropped')
    BY DEF LockedBy
  <1>1. \/ ~WriteNeeded(b) /\ Put(b, done) /\ UNCHANGED <<page, dropped>>
        \/ /\ batch[b].read.exists = page.exists /\ page' = [exists |-> TRUE, refs |-> Written(b)]
           /\ dropped' = dropped \union Overwrites(b) /\ Put(b, done)
        \/ Put(b, lost) /\ UNCHANGED <<page, dropped>>
        \/ dropped' = dropped \union live /\ Put(b, done) /\ UNCHANGED page
    BY DEF Write
  <1> HIDE DEF done, lost, live
  (* Nobody else who has the lock could be at work beside b, if b had it. *)
  <1>o. ASSUME NEW c \in Batches, c # b, batch[c].at = "write", batch[c].locked
        PROVE  slugLock' = slugLock /\ ~batch[b].locked
    BY <1>t, <1>k, <1>o DEF KeptInv, Locked, LockedBy
  <1>s. ASSUME UNCHANGED page, dropped \subseteq dropped'
        PROVE  /\ page'.exists \/ page'.refs = {}
               /\ \A c \in Batches : c # b => LockedBy(c, batch[c], slugLock', page', dropped')
               /\ Answers \subseteq Answers'
    <2>1. \A c \in Batches : c # b => LockedBy(c, batch[c], slugLock', page', dropped')
      <3> SUFFICES ASSUME NEW c \in Batches, c # b PROVE LockedBy(c, batch[c], slugLock', page', dropped')
        OBVIOUS
      <3>1. LockedBy(c, batch[c], slugLock, page, dropped)
        BY DEF KeptInv, Locked
      <3> QED BY <1>o, <1>s, <3>1 DEF LockedBy
    <2> QED BY <1>0, <1>s, <2>1 DEF KeptInv, Locked, Answers
  <1>2. ASSUME Put(b, done), Answers \subseteq Answers', page'.exists \/ page'.refs = {},
               \A c \in Batches : c # b => LockedBy(c, batch[c], slugLock', page', dropped'),
               \A j \in batch[b].live : queue[j].doc \in Answers'
        PROVE  Users' /\ Locked' /\ Carried' /\ NothingLost'
    <2>1. \A j \in batch[b].peeked : user[queue[j].doc] = "idle" => Carries(done, j, queue[j].doc, Answers')
      BY <1>t, <1>d, <1>2 DEF Carries
    <2> QED BY <1>0, <1>b, <1>d, <1>2, <2>1, KeptWorks
  <1>3. CASE ~WriteNeeded(b) /\ Put(b, done) /\ UNCHANGED <<page, dropped>>
    <2>1. batch[b].live = {}
      BY <1>3 DEF WriteNeeded
    <2> QED BY <1>s, <1>2, <1>3, <2>1
  <1>4. CASE /\ batch[b].read.exists = page.exists /\ page' = [exists |-> TRUE, refs |-> Written(b)]
             /\ dropped' = dropped \union Overwrites(b) /\ Put(b, done)
    <2>1. page'.exists /\ page'.refs = batch[b].read.refs \union live
      BY <1>t, <1>4 DEF Written, Of, live
    <2>2. dropped \subseteq dropped' /\ page.refs \subseteq page'.refs \union dropped'
      <3>1. CASE batch[b].locked
        BY <1>t, <1>4, <2>1, <3>1
      <3>2. CASE ~batch[b].locked
        BY <1>4, <2>1, <3>2 DEF Overwrites, Steady, live
      <3> QED BY <1>4, <3>1, <3>2
    <2>3. Answers \subseteq Answers' /\ live \subseteq Answers'
      BY <1>0, <2>1, <2>2 DEF Answers
    <2>4. \A c \in Batches : c # b => LockedBy(c, batch[c], slugLock', page', dropped')
      <3> SUFFICES ASSUME NEW c \in Batches, c # b PROVE LockedBy(c, batch[c], slugLock', page', dropped')
        OBVIOUS
      <3>1. LockedBy(c, batch[c], slugLock, page, dropped)
        BY DEF KeptInv, Locked
      <3>2. ASSUME batch[c].at = "write", batch[c].locked, batch[c].read.exists = page'.exists
            PROVE  page'.refs \subseteq batch[c].read.refs \union dropped'
        <4>1. ~batch[b].locked /\ slugLock' = slugLock
          BY <1>o, <3>2
        <4>2. live \subseteq dropped'
          BY <1>4, <3>2, <4>1 DEF Overwrites, Steady, At, live
        <4>3. page.refs \subseteq batch[c].read.refs \union dropped
          <5>1. batch[c].read \in Pages
            BY DEF KeptInv, TypeOK, Runs
          <5> QED BY <1>t, <2>1, <3>1, <3>2, <5>1 DEF LockedBy, Pages
        <4> QED BY <1>t, <2>1, <2>2, <4>2, <4>3
      <3> QED BY <1>o, <2>1, <2>2, <3>1, <3>2 DEF LockedBy
    <2> QED BY <1>2, <1>4, <1>e, <2>1, <2>3, <2>4
  <1>5. CASE Put(b, lost) /\ UNCHANGED <<page, dropped>>
    <2>1. \A j \in batch[b].peeked : user[queue[j].doc] = "idle" => Carries(lost, j, queue[j].doc, Answers')
      BY <1>t, <1>x, <1>s, <1>5 DEF Carries
    <2> QED BY <1>0, <1>x, <1>b, <1>s, <1>5, <2>1, KeptWorks
  <1>6. CASE dropped' = dropped \union live /\ Put(b, done) /\ UNCHANGED page
    <2>1. live \subseteq Answers'
      BY <1>6 DEF Answers
    <2> QED BY <1>s, <1>2, <1>6, <1>e, <2>1
  <1> QED BY <1>1, <1>3, <1>4, <1>5, <1>6

LEMMA KeptDrain ==
    ASSUME KeptInv, NEW b \in Batches, NEW i \in Ids, Drain(b, i)
    PROVE  Users' /\ Locked' /\ Carried' /\ NothingLost'
  <1> USE DEF docVars, pageVars, taskVars, userVars, lossVars
  <1> DEFINE f == [batch[b] EXCEPT !.mapped = @ \ {i}]
  <1>1. /\ Put(b, f) /\ batch[b].at = "drain"
        /\ UNCHANGED <<queue, user, page, slugLock, dropped>> /\ Answers \subseteq Answers'
    BY DEF Drain, At, Answers
  <1>2. SameDocs
    BY SlotGiven DEF Drain, KeptInv
  <1>3. f.at = "drain" /\ f.peeked = batch[b].peeked /\ f.failed = batch[b].failed /\ f.retracts = {}
    BY <1>1 DEF KeptInv, TypeOK, Runs, Locked, LockedBy
  <1> HIDE DEF f
  <1>4. \A j \in batch[b].peeked : user[queue[j].doc] = "idle" => Carries(f, j, queue[j].doc, Answers')
    BY <1>1, <1>3 DEF KeptInv, Carried, Carries
  <1>5. LockedBy(b, f, slugLock', page', dropped')
    BY <1>3 DEF LockedBy
  <1> QED BY <1>1, <1>2, <1>3, <1>4, <1>5, LockedStays, KeptWorks

-----------------------------------------------------------------------------
(* Deleting rows that are answered, or of documents the user took back.      *)
LEMMA RowsGo ==
    ASSUME TypeOK, NEW S, queue' = Without(S)
    PROVE  /\ SameRows /\ queue' \in Table /\ \A i \in Ids : queue[i] \in Entries => queue'[i] \in Entries
           /\ \A i \in Queued : i \in Queued' \/ i \in S
           /\ \A i \in Queued' : i \in Queued /\ i \notin S /\ queue'[i] = queue[i]
  <1>1. \A i \in Ids : queue'[i] = IF i \in S /\ i \in Queued
                                   THEN [queue[i] EXCEPT !.st = "gone", !.fails = 0, !.net = FALSE] ELSE queue[i]
    BY DEF Without
  <1>2. \A i \in Queued : i \in Ids /\ queue[i] \in Entries
    BY QueuedRows
  <1>3. \A i \in Queued \intersect S : /\ queue'[i] \in Entries /\ queue'[i].st = "gone"
                          /\ queue'[i].doc = queue[i].doc /\ queue'[i].op = queue[i].op
    <2>1. \A e \in Entries : LET g == [e EXCEPT !.st = "gone", !.fails = 0, !.net = FALSE]
                             IN  g \in Entries /\ g.st = "gone" /\ g.doc = e.doc /\ g.op = e.op
      BY DEF Entries
    <2> QED BY <1>1, <1>2, <2>1
  <1>4. queue' \in Table
    BY TableStatements
  <1> QED BY <1>1, <1>2, <1>3, <1>4 DEF SameRows, Queued

LEMMA KeptTrim ==
    ASSUME KeptInv, NEW b \in Batches, Trim(b)
    PROVE  Users' /\ Locked' /\ Carried' /\ NothingLost'
  <1> USE DEF docVars, pageVars, taskVars, userVars, lossVars
  <1> DEFINE s == [batch[b] EXCEPT !.at = "settle", !.mapped = {}, !.retracts = {}]
             f == [s EXCEPT !.held = @ \ TrimSet(b)]
             g == [s EXCEPT !.err = TRUE]
  <1>1. /\ batch[b].at = "drain" /\ UNCHANGED <<row, user, page, slugLock, dead, dropped>>
        /\ \/ queue' = Without(TrimSet(b)) /\ Put(b, f)
           \/ UNCHANGED queue /\ Put(b, g)
    BY DEF Trim, At
  <1>2. /\ f.at = "settle" /\ f.peeked = batch[b].peeked /\ f.retracts = {}
        /\ g.at = "settle" /\ g.peeked = batch[b].peeked /\ g.retracts = {}
    <2>1. s \in Runs /\ s.at = "settle" /\ s.peeked = batch[b].peeked /\ s.retracts = {}
      <3>1. batch[b] \in Runs
        BY DEF KeptInv, TypeOK
      <3> QED BY <3>1 DEF Runs
    <2> HIDE DEF s
    <2> QED BY <2>1 DEF Runs
  <1>3. SameDocs /\ Answers' = Answers
    BY <1>1 DEF SameDocs, Answers
  <1> HIDE DEF f, g
  <1>l. \A h : h.at = "settle" /\ h.retracts = {} => LockedBy(b, h, slugLock', page', dropped')
    BY DEF LockedBy
  <1>4. CASE UNCHANGED queue /\ Put(b, g)
    BY <1>1, <1>2, <1>3, <1>4, <1>l, LockedStays, KeptWorks DEF Carries
  <1>5. CASE queue' = Without(TrimSet(b)) /\ Put(b, f)
    <2>1. \A i \in TrimSet(b) : user[queue[i].doc] # "idle" \/ queue[i].doc \in Answers
      BY <1>1 DEF TrimSet, KeptInv, Carried, Carries
    <2>2. /\ SameRows /\ queue' \in Table /\ \A i \in Ids : queue[i] \in Entries => queue'[i] \in Entries
          /\ \A i \in Queued : i \in Queued' \/ i \in TrimSet(b)
      BY <1>5, RowsGo DEF KeptInv
    <2>3. f.peeked \subseteq Ids /\ \A i \in f.peeked : queue[i] \in Entries
      BY <1>2 DEF KeptInv, Known, TypeOK, Runs
    <2>4. \A i \in f.peeked : Carries(f, i, queue[i].doc, Answers')
      BY <1>2 DEF Carries
    <2> QED BY <1>1, <1>2, <1>3, <1>5, <1>l, <2>1, <2>2, <2>3, <2>4, LockedStays, KeptMoves
  <1> QED BY <1>1, <1>4, <1>5

(* Another try keeps the row, and a row that goes is in the dead letters, or *)
(* written off with the dead letter that failed.                             *)
LEMMA KeptRequeue ==
    ASSUME KeptInv, NEW b \in Batches, NEW i \in Ids, Requeue(b, i)
    PROVE  Users' /\ Locked' /\ Carried' /\ NothingLost'
  <1> USE DEF docVars, pageVars, taskVars, userVars, lossVars
  <1> DEFINE f == [batch[b] EXCEPT !.failed = @ \ {i}, !.held = @ \ {i}]
             g == [batch[b] EXCEPT !.failed = @ \ {i}, !.err = TRUE]
             c == FailCount(i)
             r == [c EXCEPT !.st = "free", !.net = FALSE]
  <1>s. RequeueShape(b, i)
    BY RequeueCases
  <1>1. batch[b].at = "settle" /\ UNCHANGED <<user, page, slugLock>> /\ (Put(b, f) \/ Put(b, g))
    BY <1>s DEF Requeue, At, RequeueShape, Through, Errs
  <1>2. /\ f.at = "settle" /\ f.peeked = batch[b].peeked /\ f.retracts = {}
        /\ g.at = "settle" /\ g.peeked = batch[b].peeked /\ g.retracts = {}
    <2>1. batch[b] \in Runs /\ batch[b].retracts = {}
      BY DEF KeptInv, TypeOK, Locked, LockedBy
    <2> QED BY <1>1, <2>1 DEF Runs
  <1>3. PICK h : h.at = "settle" /\ h.peeked = batch[b].peeked /\ h.retracts = {} /\ Put(b, h)
    <2> HIDE DEF f, g
    <2> QED BY <1>1, <1>2
  <1>4. h.peeked \subseteq Ids /\ \A j \in h.peeked : queue[j] \in Entries /\ Carries(h, j, queue[j].doc, Answers')
    BY <1>3 DEF Carries, KeptInv, Known, TypeOK, Runs
  <1>5. SameDocs
    <2>1. CASE row' = row
      BY <2>1 DEF SameDocs
    <2> QED BY <1>s, <2>1, SlotBack DEF RequeueShape, KeptInv
  <1>6. dropped \subseteq dropped' /\ Answers \subseteq Answers'
    BY <1>s, <1>1 DEF RequeueShape, Answers
  <1>l. LockedBy(b, h, slugLock', page', dropped')
    BY <1>3 DEF LockedBy
  <1>k. ASSUME i \in Queued, queue' = [queue EXCEPT ![i] = c] \/ queue' = [queue EXCEPT ![i] = r]
        PROVE  /\ SameRows /\ queue' \in Table /\ \A j \in Ids : queue[j] \in Entries => queue'[j] \in Entries
               /\ \A j \in Queued : j \in Queued'
    <2>1. /\ c \in Entries /\ c.doc = queue[i].doc /\ c.op = queue[i].op
          /\ c.st \in {"free", "fresh", "stale"}
          /\ r \in Entries /\ r.doc = queue[i].doc /\ r.op = queue[i].op /\ r.st = "free"
      BY <1>k, Counting DEF KeptInv
    <2> HIDE DEF c, r
    <2> QED BY <1>k, <2>1, RowStays DEF KeptInv
  <1>7. CASE UNCHANGED queue
    BY <1>1, <1>3, <1>4, <1>5, <1>6, <1>7, <1>l, LockedStays, KeptWorks
  <1>8. CASE i \in Queued /\ (queue' = [queue EXCEPT ![i] = c] \/ queue' = [queue EXCEPT ![i] = r])
    BY <1>1, <1>3, <1>4, <1>5, <1>6, <1>8, <1>k, <1>l, LockedStays, KeptMoves
  <1>9. CASE queue' = Without({i}) /\ queue[i].doc \in Answers'
    <2>1. /\ SameRows /\ queue' \in Table /\ \A j \in Ids : queue[j] \in Entries => queue'[j] \in Entries
          /\ \A j \in Queued : j \in Queued' \/ j \in {i}
      BY <1>9, RowsGo DEF KeptInv
    <2> QED BY <1>1, <1>3, <1>4, <1>5, <1>6, <1>9, <1>l, <2>1, LockedStays, KeptMoves
  <1>10. \/ UNCHANGED queue
         \/ i \in Queued /\ (queue' = [queue EXCEPT ![i] = c] \/ queue' = [queue EXCEPT ![i] = r])
         \/ queue' = Without({i}) /\ queue[i].doc \in Answers'
    <2>1. CASE i \in Queued /\ DropRow(b, i)
      <3>1. queue[i].doc \in Answers'
        BY <2>1 DEF DropRow, Answers
      <3> QED BY <2>1, <3>1 DEF DropRow
    <2>2. CASE i \in Queued /\ RetryRow(b, i)
      BY <2>2 DEF RetryRow
    <2> QED BY <2>1, <2>2 DEF Requeue
  <1> QED BY <1>7, <1>8, <1>9, <1>10

(* A batch that ends, well or not, has nothing in hand. *)
LEMMA KeptEnd ==
    ASSUME KeptInv, NEW b \in Batches, Finish(b) \/ FinishFailed(b) \/ Crash(b)
    PROVE  Users' /\ Locked' /\ Carried' /\ NothingLost'
  <1> USE DEF docVars, pageVars, taskVars, userVars, lossVars
  <1>1. /\ Put(b, Resting) /\ UNCHANGED <<row, user, page, slugLock, dead, dropped>>
        /\ queue' = queue \/ queue' = Released(batch[b].peeked)
    BY DEF Finish, FinishFailed, Crash, Redelivered
  <1>2. Resting.peeked = {} /\ Resting.at = "idle" /\ Resting.retracts = {}
    BY DEF Resting
  <1>3. SameDocs /\ Answers' = Answers
    BY <1>1 DEF SameDocs, Answers
  <1>4. \A S : \A i \in Ids : \/ Released(S)[i] = queue[i]
                              \/ /\ i \in Queued /\ Released(S)[i].st = "free"
                                 /\ Released(S)[i].doc = queue[i].doc /\ Released(S)[i].op = queue[i].op
    BY QueuedRows DEF Released, Entries, KeptInv
  <1>5. /\ SameRows /\ \A i \in Queued : i \in Queued'
    BY <1>1, <1>4, QueuedRows DEF SameRows, Queued, KeptInv
  <1>6. queue' \in Table
    BY <1>1, TableStatements DEF KeptInv, TypeOK, Table
  <1>7. \A i \in Ids : queue[i] \in Entries => queue'[i] \in Entries
    BY <1>1, <1>4, <1>6 DEF Table, Unused
  <1>8. LockedBy(b, Resting, slugLock', page', dropped')
    BY <1>2 DEF LockedBy
  <1> HIDE DEF SameRows, SameDocs
  <1> QED BY <1>1, <1>2, <1>3, <1>5, <1>6, <1>7, <1>8, LockedStays, KeptMoves

LEMMA KeptBatch ==
    ASSUME KeptInv, Steady, NEW b \in Batches, Step(b) \/ Crash(b)
    PROVE  Users' /\ Locked' /\ Carried' /\ NothingLost'
  <1>1. CASE Trigger(b)
    <2>1. UNCHANGED <<docVars, pageVars, userVars, lossVars>> /\ (Claim(b, "plain") \/ NothingClaimed("plain"))
      BY <1>1 DEF Trigger
    <2> QED BY <2>1, KeptClaim, KeptNothing
  <1>2. CASE Recheck(b)
    <2>1. UNCHANGED <<docVars, pageVars, userVars, lossVars>> /\ (Claim(b, "recheck") \/ NothingClaimed("recheck"))
      BY <1>2 DEF Recheck
    <2> QED BY <2>1, KeptClaim, KeptNothing
  <1> QED BY <1>1, <1>2, KeptMap, KeptDrain, KeptRequeue, KeptReduce, KeptWrite, KeptTrim, KeptEnd DEF Step

-----------------------------------------------------------------------------
(* A document is handed over, its sibling ends, the user takes it back. *)
LEMMA KeptHandOver ==
    ASSUME KeptInv, NEW d \in Docs, PostProcess(d)
    PROVE  Users' /\ Locked' /\ Carried' /\ NothingLost'
  <1> USE DEF docVars, pageVars, taskVars, userVars, lossVars
  <1>1. PICK k \in Ids :
            /\ queue[k].st = "unused"
            /\ queue' = [queue EXCEPT ![k] = [st |-> "free", doc |-> d, op |-> "ingest", fails |-> 0,
                                              slugs |-> FALSE, net |-> FALSE]]
    BY DEF PostProcess, Enqueue
  <1>2. /\ Has(row[d], {"processing"}) /\ row' = [row EXCEPT ![d] = HandedOff(@, IF d \in Enriched THEN 2 ELSE 1)]
        /\ UNCHANGED <<batch, user, page, slugLock, dead, dropped>>
    BY DEF PostProcess
  <1>3. row[d].status = "processing" /\ row[d] \in Rows /\ row \in [Docs -> Rows] /\ user[d] = "idle"
    BY <1>2 DEF Has, KeptInv, TypeOK, Rows, Users
  <1>4. /\ row'[d].status = "finalizing" /\ row'[d].gone = row[d].gone
        /\ \A e \in Docs : e # d => row'[e] = row[e]
    BY <1>2, <1>3 DEF HandedOff, Rows
  <1>5. /\ queue'[k].st = "free" /\ queue'[k].doc = d /\ queue'[k].op = "ingest"
        /\ \A i \in Ids : i # k => queue'[i] = queue[i]
        /\ queue[k] \notin Entries
    BY <1>1 DEF KeptInv, TypeOK, Entries
  <1>6. \A i \in Ids : queue[i] \in Entries => queue[i].doc # d /\ queue[i].doc \in Docs
    BY <1>3 DEF KeptInv, Users, Entries
  <1>7. Users'
    <2>1. ASSUME NEW e \in Docs
          PROVE  /\ ~row'[e].gone /\ row'[e].status \in {"processing", "finalizing", "completed", "cancelled"}
                 /\ user'[e] \in {"idle", "cancelling", "cancelled"}
                 /\ user'[e] = "idle" <=> row'[e].status # "cancelled"
      BY <1>2, <1>3, <1>4 DEF KeptInv, Users
    <2>2. ASSUME NEW i \in Ids, queue'[i] \in Entries
          PROVE  /\ queue'[i].op = "ingest" /\ row'[queue'[i].doc].status # "processing"
                 /\ \A j \in Ids : queue'[j] \in Entries /\ queue'[j].doc = queue'[i].doc => j = i
      <3>1. CASE i = k
        BY <1>4, <1>5, <1>6, <3>1
      <3>2. CASE i # k
        BY <1>4, <1>5, <1>6, <2>2, <3>2 DEF KeptInv, Users
      <3> QED BY <3>1, <3>2
    <2> QED BY <2>1, <2>2 DEF Users
  <1>8. Locked'
    BY <1>2 DEF KeptInv, Locked
  <1>9. Carried'
    <2>1. \A c \in Batches : \A i \in batch[c].peeked : i \in Ids /\ i # k
      BY <1>5 DEF KeptInv, Known, TypeOK, Runs
    <2>2. Answers' = Answers
      BY <1>2 DEF Answers
    <2>3. \A c \in Batches : \A i \in batch[c].peeked : queue'[i] = queue[i]
      BY <1>5, <2>1
    <2> QED BY <1>2, <2>2, <2>3 DEF KeptInv, Carried
  <1>10. NothingLost'
    <2> SUFFICES ASSUME NEW e \in Docs, ~KnowledgeGone(e)', user'[e] = "idle", ~Has(row[e], {"processing"})'
                 PROVE  WikiQueued(e)' \/ Answered(e)'
      BY DEF NothingLost
    <2>1. CASE e = d
      BY <1>5, <2>1 DEF WikiQueued, Queued
    <2>2. CASE e # d
      <3>1. WikiQueued(e) \/ Answered(e)
        BY <1>2, <1>4, <2>2 DEF KeptInv, NothingLost, KnowledgeGone, Has
      <3>2. k \notin Queued
        BY <1>1 DEF Queued
      <3>3. \A i \in Queued : i \in Queued' /\ queue'[i] = queue[i]
        BY <1>5, <3>2 DEF Queued
      <3>4. Answered(e)' <=> Answered(e)
        BY <1>2 DEF Answered
      <3> QED BY <3>1, <3>3, <3>4 DEF WikiQueued
    <2> QED BY <2>1, <2>2
  <1> QED BY <1>7, <1>8, <1>9, <1>10

LEMMA KeptCancel ==
    ASSUME KeptInv, NEW d \in Docs, Cancel(d) \/ CancelScrub(d)
    PROVE  Users' /\ Locked' /\ Carried' /\ NothingLost'
  <1> USE DEF docVars, pageVars, taskVars, userVars, lossVars
  <1>1. CASE Cancel(d)
    <2>1. /\ row' = [row EXCEPT ![d] = CancelledByUser(@)] /\ user' = [user EXCEPT ![d] = "cancelling"]
          /\ UNCHANGED <<queue, batch, page, slugLock, dead, dropped>>
      BY <1>1 DEF Cancel
    <2>2. /\ \A e \in Docs : e # d => row'[e] = row[e] /\ user'[e] = user[e]
          /\ row'[d].status = "cancelled" /\ row'[d].gone = row[d].gone /\ user'[d] = "cancelling"
      BY <2>1 DEF KeptInv, TypeOK, Users, CancelledByUser
    <2>3. Users'
      <3>1. ASSUME NEW e \in Docs
            PROVE  /\ ~row'[e].gone /\ row'[e].status \in {"processing", "finalizing", "completed", "cancelled"}
                   /\ user'[e] \in {"idle", "cancelling", "cancelled"}
                   /\ user'[e] = "idle" <=> row'[e].status # "cancelled"
        <4>1. CASE e = d
          BY <2>2, <4>1 DEF KeptInv, Users
        <4>2. CASE e # d
          BY <2>2, <4>2 DEF KeptInv, Users
        <4> QED BY <4>1, <4>2
      <3>2. \A i \in Ids : queue[i] \in Entries => row'[queue[i].doc].status # "processing"
        BY <2>2 DEF KeptInv, Users, Entries
      <3> QED BY <2>1, <3>1, <3>2 DEF KeptInv, Users
    <2>4. Locked'
      BY <2>1 DEF KeptInv, Locked
    <2>5. \A i \in Ids : queue[i] \in Entries /\ user'[queue[i].doc] = "idle" => user[queue[i].doc] = "idle"
      BY <2>2 DEF Entries
    <2>6. Carried'
      <3>1. \A c \in Batches : \A i \in batch[c].peeked : i \in Ids /\ queue[i] \in Entries
        BY DEF KeptInv, Known, TypeOK, Runs
      <3>2. Answers' = Answers
        BY <2>1 DEF Answers
      <3> QED BY <2>1, <2>5, <3>1, <3>2 DEF KeptInv, Carried
    <2>7. NothingLost'
      <3> SUFFICES ASSUME NEW e \in Docs, ~KnowledgeGone(e)', user'[e] = "idle", ~Has(row[e], {"processing"})'
                   PROVE  WikiQueued(e)' \/ Answered(e)'
        BY DEF NothingLost
      <3>1. e # d
        BY <2>2
      <3>2. WikiQueued(e) \/ Answered(e)
        BY <2>2, <3>1 DEF KeptInv, NothingLost, KnowledgeGone, Has
      <3> QED BY <2>1, <3>2 DEF WikiQueued, Queued, Answered
    <2> QED BY <2>3, <2>4, <2>6, <2>7
  <1>2. CASE CancelScrub(d)
    <2> DEFINE S == {i \in Queued : queue[i].doc = d /\ queue[i].op = "ingest"}
    <2>1. /\ user[d] = "cancelling" /\ user' = [user EXCEPT ![d] = "cancelled"] /\ queue' = Without(S)
          /\ UNCHANGED <<row, batch, page, slugLock, dead, dropped>>
      BY <1>2 DEF CancelScrub, ScrubIngest
    <2>2. /\ \A e \in Docs : e # d => user'[e] = user[e]
          /\ user'[d] = "cancelled"
      BY <2>1 DEF KeptInv, TypeOK
    <2>s. \A i \in S : queue[i].doc = d
      OBVIOUS
    <2> HIDE DEF S
    <2>3. /\ SameRows /\ queue' \in Table /\ \A i \in Ids : queue[i] \in Entries => queue'[i] \in Entries
          /\ \A i \in Queued : i \in Queued' \/ i \in S
      BY <2>1, RowsGo DEF KeptInv
    <2>4. Users'
      <3>1. ASSUME NEW e \in Docs
            PROVE  /\ user'[e] \in {"idle", "cancelling", "cancelled"}
                   /\ user'[e] = "idle" <=> row[e].status # "cancelled"
        <4>1. CASE e = d
          BY <2>1, <2>2, <4>1 DEF KeptInv, Users
        <4>2. CASE e # d
          BY <2>2, <4>2 DEF KeptInv, Users
        <4> QED BY <4>1, <4>2
      <3>2. ASSUME NEW i \in Ids, queue'[i] \in Entries
            PROVE  /\ queue'[i].op = "ingest" /\ row[queue'[i].doc].status # "processing"
                   /\ \A j \in Ids : queue'[j] \in Entries /\ queue'[j].doc = queue'[i].doc => j = i
        BY <2>3, <3>2 DEF SameRows, KeptInv, Users
      <3> QED BY <2>1, <3>1, <3>2 DEF KeptInv, Users
    <2>5. Locked'
      BY <2>1 DEF KeptInv, Locked
    <2>6. Carried'
      <3>1. \A c \in Batches : \A i \in batch[c].peeked : i \in Ids /\ queue[i] \in Entries /\ queue[i].doc \in Docs
        BY DEF KeptInv, Known, TypeOK, Runs, Entries
      <3>2. Answers' = Answers
        BY <2>1 DEF Answers
      <3>3. \A c \in Batches : \A i \in batch[c].peeked : queue'[i].doc = queue[i].doc
        BY <2>3, <3>1 DEF SameRows
      <3>4. \A e \in Docs : user'[e] = "idle" => user[e] = "idle"
        BY <2>2
      <3> QED BY <2>1, <3>1, <3>2, <3>3, <3>4 DEF KeptInv, Carried
    <2>7. NothingLost'
      <3> SUFFICES ASSUME NEW e \in Docs, ~KnowledgeGone(e)', user'[e] = "idle", ~Has(row[e], {"processing"})'
                   PROVE  WikiQueued(e)' \/ Answered(e)'
        BY DEF NothingLost
      <3>1. e # d
        BY <2>2
      <3>2. WikiQueued(e) \/ Answered(e)
        BY <2>1, <2>2, <3>1 DEF KeptInv, NothingLost, KnowledgeGone
      <3>3. \A i \in Queued : queue[i].doc = e => i \in Queued' /\ queue'[i].doc = e /\ queue'[i].op = queue[i].op
        BY <2>s, <2>3, <3>1, QueuedRows DEF SameRows, KeptInv
      <3>4. Answered(e)' <=> Answered(e)
        BY <2>1 DEF Answered
      <3> QED BY <3>2, <3>3, <3>4 DEF WikiQueued
    <2> QED BY <2>4, <2>5, <2>6, <2>7
  <1> QED BY <1>1, <1>2

LEMMA KeptDocument ==
    ASSUME KeptInv, Steady, NEW d \in Docs, Request(d) \/ Continue(d)
    PROVE  Users' /\ Locked' /\ Carried' /\ NothingLost'
  <1>1. CASE SiblingEnds(d)
    <2>1. UNCHANGED <<queue, page, slugLock, batch, user, dead, dropped>>
      BY <1>1 DEF SiblingEnds, pageVars, userVars, lossVars
    <2>2. SameDocs
      BY <1>1, SlotGiven DEF SiblingEnds, KeptInv
    <2>3. SameRows /\ queue' \in Table /\ (\A i \in Ids : queue[i] \in Entries => queue'[i] \in Entries)
          /\ (\A i \in Queued : i \in Queued') /\ Answers' = Answers
      BY <2>1 DEF SameRows, KeptInv, TypeOK, Table, Queued, Answers
    <2> QED BY <2>1, <2>2, <2>3, KeptStill
  <1>2. ~(Delete(d) \/ DeleteScrub(d) \/ DeleteList(d) \/ DeleteRetract(d) \/ DeleteStrip(d))
    BY DEF Steady, Delete, DeleteScrub, DeleteList, DeleteRetract, DeleteStrip, KeptInv, Users
  <1> QED BY <1>1, <1>2, KeptHandOver, KeptCancel DEF Request, Continue

LEMMA KeptTime ==
    ASSUME KeptInv, Steady, Expire \/ Recover \/ LiteRestart
    PROVE  Users' /\ Locked' /\ Carried' /\ NothingLost'
  <1> USE DEF docVars, pageVars, taskVars, userVars, lossVars
  <1>0. ASSUME UNCHANGED <<row, queue, user, page, dead, dropped>>
        PROVE  /\ SameRows /\ queue' \in Table /\ (\A i \in Ids : queue[i] \in Entries => queue'[i] \in Entries)
               /\ (\A i \in Queued : i \in Queued') /\ Answers' = Answers /\ SameDocs
    BY <1>0 DEF SameRows, KeptInv, TypeOK, Table, Queued, Answers, SameDocs
  <1>1. CASE SlugLockExpires
    <2>1. \A c \in Batches : ~(batch[c].at = "write" /\ batch[c].locked)
      BY <1>1 DEF SlugLockExpires, Steady, KeptInv, Locked, LockedBy
    <2>2. UNCHANGED <<batch, row, queue, user, page, dead, dropped>>
      BY <1>1 DEF SlugLockExpires
    <2> QED BY <1>0, <2>1, <2>2, KeptStill
  <1>2. CASE Recover
    <2>1. UNCHANGED <<batch, row, queue, user, page, slugLock, dead, dropped>>
      BY <1>2 DEF Recover
    <2> QED BY <1>0, <2>1, KeptStill
  <1>3. ASSUME NEW k \in Ids, ClaimExpires(k)
        PROVE  Users' /\ Locked' /\ Carried' /\ NothingLost'
    <2>1. /\ k \in Queued /\ queue' = [queue EXCEPT ![k].st = "stale"]
          /\ UNCHANGED <<batch, row, user, page, slugLock, dead, dropped>>
      BY <1>3 DEF ClaimExpires
    <2>2. queue[k] \in Entries /\ queue \in Table
      BY <2>1, QueuedRows DEF KeptInv, TypeOK, Table
    <2>3. /\ queue'[k].st = "stale" /\ queue'[k].doc = queue[k].doc /\ queue'[k].op = queue[k].op
          /\ queue'[k] \in Entries /\ \A i \in Ids : i # k => queue'[i] = queue[i]
      BY <2>1, <2>2 DEF Table, Entries
    <2>4. SameRows /\ (\A i \in Ids : queue[i] \in Entries => queue'[i] \in Entries)
          /\ (\A i \in Queued : i \in Queued')
      BY <2>2, <2>3 DEF SameRows, Queued
    <2>5. queue' \in Table
      BY <2>1, <2>2, <2>3 DEF Table
    <2>6. Answers' = Answers /\ SameDocs
      BY <2>1 DEF Answers, SameDocs
    <2> QED BY <2>1, <2>4, <2>5, <2>6, KeptStill
  <1>4. ~LiteRestart
    BY DEF LiteRestart, Steady
  <1> QED BY <1>1, <1>2, <1>3, <1>4 DEF Expire

LEMMA KeptStep ==
    ASSUME KeptInv, Steady, [Next]_vars
    PROVE  KeptInv'
  <1>1. TypeOK' /\ Known'
    BY TypedStep DEF KeptInv
  <1>2. CASE UNCHANGED vars
    BY <1>2 DEF vars, docVars, pageVars, taskVars, userVars, lossVars, KeptInv, Users, Locked, LockedBy, Carried, Answers,
                NothingLost, KnowledgeGone, WikiQueued, Queued, Answered, TypeOK, Known
  <1>3. ASSUME Next PROVE Users' /\ Locked' /\ Carried' /\ NothingLost'
    BY <1>3, KeptDocument, KeptBatch, KeptTime DEF Next
  <1> QED BY <1>1, <1>2, <1>3 DEF KeptInv

LEMMA InitKept == Init => KeptInv
  <1> SUFFICES ASSUME Init PROVE KeptInv
    OBVIOUS
  <1>1. TypeOK /\ Known
    BY InitIInv DEF IInv
  <1>2. \A i \in Ids : queue[i] \notin Entries
    BY DEF Init, Entries
  <1>3. \A d \in Docs : row[d].status = "processing" /\ ~row[d].gone /\ user[d] = "idle"
    BY DEF Init, NewRow
  <1>4. Users
    BY <1>2, <1>3 DEF Users
  <1>5. Locked /\ Carried
    BY DEF Init, Locked, LockedBy, Carried, Resting, NoPage
  <1>6. NothingLost
    BY <1>3 DEF NothingLost, Has
  <1> QED BY <1>1, <1>4, <1>5, <1>6 DEF KeptInv

(* With Redis and without deletes, an operation leaves task_pending_ops only *)
(* when its document is on the page, in the dead letters, taken back by the  *)
(* user, or dropped where the code gives it up with a log line: its row or   *)
(* text could not be read, the model did not answer, its dead letter could   *)
(* not be inserted, or a batch wrote the page without the lock. For the rest *)
(* a batch trims what it wrote (collectUnapplied), a failed row is queued    *)
(* again or buried (requeueFailedOps), and a batch with the lock writes over *)
(* nobody (withSlugLock), whatever fails and whoever dies.                   *)
THEOREM OperationsKept ==
    ASSUME Steady
    PROVE  Spec => []NothingLost
  <1>1. Init => KeptInv
    BY InitKept
  <1>2. KeptInv /\ [Next]_vars => KeptInv'
    BY KeptStep
  <1>3. KeptInv => NothingLost
    BY DEF KeptInv
  <1> QED BY <1>1, <1>2, <1>3, PTL DEF Spec
-----------------------------------------------------------------------------
(* Slots are counted right, until something fails. *)

(* The batch at work has nothing more to do with the row: its slot has been  *)
(* given back, when the document was skipped or when it was drained.         *)
BackBy(f, i) == i \in f.held /\ f.at \in Working /\ i \notin f.todo \union f.mapped \union f.failed
GivenBack(i) == \E b \in Batches : BackBy(batch[b], i)
Opens   == {i \in Queued : ~GivenBack(i)}
Open(d) == \E i \in Opens : queue[i].doc = d

(* A row in the hands of a batch leaves the queue only with its document. *)
HeldIsQueued ==
    \A b \in Batches : \A i \in batch[b].held : user[queue[i].doc] = "idle" => i \in Queued

(* The counter of a document is the slots that are open, its sibling's and   *)
(* the wiki's.                                                               *)
SlotsOf(d) == (IF d \in sibling THEN 1 ELSE 0) + (IF Open(d) THEN 1 ELSE 0)
CountOf(d) ==
    /\ row[d].status = "processing" => d \notin sibling
    /\ row[d].status \in {"finalizing", "completed"} => row[d].count = SlotsOf(d)
    /\ row[d].status = "completed" => row[d].count = 0
Counted == \A d \in Docs : user[d] = "idle" => CountOf(d)

(* What a batch has yet to map it has neither mapped nor failed, and it has  *)
(* mapped everything when it goes on.                                        *)
TidyOn(f) == (f.at # "map" => f.todo = {}) /\ f.todo \intersect (f.mapped \union f.failed) = {}
Tidy == \A b \in Batches : TidyOn(batch[b])

Sober    == Grip /\ RowHeldOnce /\ Tidy /\ HeldIsQueued /\ Counted
CountInv == faults = 0 => Sober

(* A slot of the document is given back, or nothing happens to it. *)
Unmoved(d) == row'[d] = row[d] /\ (d \in sibling' <=> d \in sibling) /\ (Open(d)' <=> Open(d))
Repaid(d)  == /\ row'[d] = Promoted(Decremented(row[d])) /\ row[d].status # "processing"
              /\ \/ d \in sibling /\ d \notin sibling' /\ (Open(d)' <=> Open(d))
                 \/ Open(d) /\ ~Open(d)' /\ (d \in sibling' <=> d \in sibling)

(* As long as nothing fails, a slot that is given back is given back whole.  *)
LEMMA NothingFails ==
    ASSUME TypeOK, UNCHANGED faults
    PROVE  /\ \A fails \in BOOLEAN : Failing(fails) => ~fails
           /\ \A d : GiveBack(d) => FinalizeSubtask(d, FALSE)
  <1>1. \A fails \in BOOLEAN : Failing(fails) => ~fails
    BY DEF TypeOK, Failing
  <1> QED BY <1>1 DEF GiveBack

LEMMA CountMoves ==
    ASSUME KeptInv, Counted, NEW d \in Docs, user[d] = "idle", Unmoved(d) \/ Repaid(d)
    PROVE  CountOf(d)'
  <1>1. CountOf(d) /\ row[d] \in Rows /\ ~row[d].gone /\ row[d].status \in {"processing", "finalizing", "completed"}
    BY DEF Counted, KeptInv, TypeOK, Rows, Users
  <1>2. CASE Unmoved(d)
    BY <1>1, <1>2 DEF Unmoved, CountOf, SlotsOf
  <1>3. CASE Repaid(d)
    <2>1. SlotsOf(d) \in {1, 2} /\ SlotsOf(d)' = SlotsOf(d) - 1
      BY <1>3 DEF Repaid, SlotsOf
    <2>2. row[d].status = "finalizing" /\ row[d].count = SlotsOf(d)
      BY <1>1, <1>3, <2>1 DEF Repaid, CountOf
    <2>3. Decremented(row[d]) = [row[d] EXCEPT !.count = @ - 1]
      BY <1>1, <2>1, <2>2 DEF Decremented
    <2> DEFINE r == Decremented(row[d])
    <2>4. r.count = SlotsOf(d)' /\ r.status = "finalizing" /\ ~r.gone /\ r \in [status : Statuses, count : Int, gone : BOOLEAN]
      BY <1>1, <2>1, <2>2, <2>3 DEF Rows
    <2>5. row'[d] = Promoted(r)
      BY <1>3 DEF Repaid
    <2> HIDE DEF r
    <2> QED BY <2>4, <2>5 DEF Promoted, CanPromote, Has, CountOf
  <1> QED BY <1>2, <1>3

(* The open rows of a document, by what happens to each of its rows. *)
LEMMA OpenStays ==
    ASSUME TypeOK, TypeOK', SameRows, NEW d \in Docs,
           \A i \in Ids : queue[i] \in Entries /\ queue[i].doc = d => (i \in Opens' <=> i \in Opens)
    PROVE  Open(d)' <=> Open(d)
  <1>1. \A i \in Opens : i \in Ids /\ queue[i] \in Entries
    BY QueuedRows DEF Opens
  <1>2. \A i \in Opens' : i \in Ids /\ queue'[i] \in Entries
    BY DEF Opens, Queued, TypeOK, Unused
  <1>3. ASSUME Open(d) PROVE Open(d)'
    <2>1. PICK i \in Opens : queue[i].doc = d
      BY <1>3 DEF Open
    <2>2. i \in Opens'
      BY <1>1, <2>1
    <2> QED BY <1>2, <2>1, <2>2 DEF Open, SameRows
  <1>4. ASSUME Open(d)' PROVE Open(d)
    <2>1. PICK i \in Opens' : queue'[i].doc = d
      BY <1>4 DEF Open
    <2> QED BY <1>2, <2>1 DEF Open, SameRows
  <1> QED BY <1>3, <1>4

(* Who has given back the slot of a row, when batch b moves to f. *)
LEMMA BackMoves ==
    ASSUME TypeOK, NEW b \in Batches, NEW f, Put(b, f), NEW i
    PROVE  /\ (BackBy(f, i) <=> BackBy(batch[b], i)) => (GivenBack(i)' <=> GivenBack(i))
           /\ BackBy(f, i) => GivenBack(i)'
  <1>1. \A c \in Batches : batch'[c] = IF c = b THEN f ELSE batch[c]
    BY DEF Put, TypeOK
  <1>2. GivenBack(i)' <=> \E c \in Batches : BackBy(batch'[c], i)
    BY DEF GivenBack, BackBy
  <1> QED BY <1>1, <1>2 DEF GivenBack

(* What the batches hold after the step is still queued. *)
Holding == \A c \in Batches : \A i \in batch'[c].held : user[queue[i].doc] = "idle" => i \in Queued'

LEMMA HeldMoves ==
    ASSUME TypeOK', Known', SameRows, Holding, \A d \in Docs : user'[d] = "idle" => user[d] = "idle"
    PROVE  HeldIsQueued'
  <1>1. ASSUME NEW c \in Batches, NEW i \in batch'[c].held, user'[queue'[i].doc] = "idle"
        PROVE  i \in Queued'
    <2>1. i \in Ids /\ queue'[i] \in Entries
      BY <1>1 DEF TypeOK, Known, Sound, WorksOn, Runs
    <2>2. queue'[i].doc = queue[i].doc /\ queue'[i].doc \in Docs
      BY <2>1 DEF SameRows, Entries
    <2> QED BY <1>1, <2>2 DEF Holding
  <1> QED BY <1>1 DEF HeldIsQueued

(* No slot of a document that is not taken back is opened or given back. *)
LEMMA CountQuiet ==
    ASSUME KeptInv, Counted, TypeOK', Known', SameRows, Holding, UNCHANGED sibling,
           \A d \in Docs : user'[d] = "idle" => user[d] = "idle" /\ row'[d] = row[d],
           \A i \in Ids : queue[i] \in Entries /\ user[queue[i].doc] = "idle" => (i \in Opens' <=> i \in Opens)
    PROVE  HeldIsQueued' /\ Counted'
  <1>1. HeldIsQueued'
    BY HeldMoves
  <1>2. ASSUME NEW d \in Docs, user'[d] = "idle"
        PROVE  CountOf(d)'
    <2>1. Open(d)' <=> Open(d)
      BY <1>2, OpenStays DEF KeptInv
    <2> QED BY <1>2, <2>1, CountMoves DEF Unmoved
  <1> QED BY <1>1, <1>2 DEF Counted

(* The slot of one row is given back. *)
LEMMA CountRepaid ==
    ASSUME KeptInv, Counted, TypeOK', Known', SameRows, Holding, UNCHANGED <<sibling, user>>,
           NEW i \in Ids, queue[i] \in Entries, FinalizeSubtask(queue[i].doc, FALSE),
           user[queue[i].doc] = "idle" => i \in Opens /\ i \notin Opens',
           \A j \in Ids : j # i /\ queue[j] \in Entries /\ user[queue[j].doc] = "idle"
                => (j \in Opens' <=> j \in Opens)
    PROVE  HeldIsQueued' /\ Counted'
  <1>0. row \in [Docs -> Rows] /\ queue[i].doc \in Docs
    BY DEF KeptInv, TypeOK, Rows, Entries
  <1>1. HeldIsQueued'
    BY HeldMoves
  <1>2. \A j \in Ids : queue[j] \in Entries /\ queue[j].doc = queue[i].doc => j = i
    BY DEF KeptInv, Users
  <1>3. ASSUME NEW d \in Docs, user'[d] = "idle", d # queue[i].doc
        PROVE  CountOf(d)'
    <2>1. Open(d)' <=> Open(d)
      BY <1>3, OpenStays DEF KeptInv
    <2>2. row'[d] = row[d]
      BY <1>0, <1>3 DEF FinalizeSubtask
    <2> QED BY <1>3, <2>1, <2>2, CountMoves DEF Unmoved
  <1>4. ASSUME NEW d \in Docs, user'[d] = "idle", d = queue[i].doc
        PROVE  CountOf(d)'
    <2>1. i \in Opens /\ i \notin Opens'
      BY <1>4
    <2>2. Open(d)
      BY <1>4, <2>1 DEF Open
    <2>3. ~Open(d)'
      <3>1. ASSUME NEW j \in Opens', queue'[j].doc = d PROVE FALSE
        <4>1. j \in Ids /\ queue'[j] \in Entries
          BY <3>1 DEF Opens, Queued, TypeOK, Unused
        <4> QED BY <1>2, <1>4, <2>1, <3>1, <4>1 DEF SameRows
      <3> QED BY <3>1 DEF Open
    <2>4. row'[d] = Promoted(Decremented(row[d])) /\ row[d].status # "processing"
      BY <1>0, <1>4 DEF FinalizeSubtask, KeptInv, Users
    <2>5. Repaid(d)
      BY <2>2, <2>3, <2>4 DEF Repaid
    <2> QED BY <1>0, <1>4, <2>5, CountMoves
  <1> QED BY <1>1, <1>3, <1>4 DEF Counted

(* Batch b goes on, and what it has done with each row it holds stays done. *)
LEMMA CountWorks ==
    ASSUME KeptInv, HeldIsQueued, Counted, TypeOK', Known', NEW b \in Batches, NEW f, Put(b, f),
           UNCHANGED <<sibling, user>>, SameRows,
           \A d \in Docs : user[d] = "idle" => row'[d] = row[d],
           \A i \in Ids : i \in Queued' <=> i \in Queued,
           f.held \subseteq batch[b].held,
           \A i \in Ids : BackBy(f, i) <=> BackBy(batch[b], i)
    PROVE  HeldIsQueued' /\ Counted'
  <1>1. \A i \in Ids : user[queue[i].doc] = "idle" => (i \in Opens' <=> i \in Opens)
    <2>2. \A i \in Ids : GivenBack(i)' <=> GivenBack(i)
      BY BackMoves DEF KeptInv
    <2> QED BY <2>2 DEF Opens
  <1>2. \A c \in Batches : batch'[c] = IF c = b THEN f ELSE batch[c]
    BY DEF Put, KeptInv, TypeOK
  <1>3. \A c \in Batches : batch[c].held \subseteq Ids
    BY DEF KeptInv, TypeOK, Runs
  <1>4. Holding
    BY <1>2, <1>3 DEF Holding, HeldIsQueued
  <1> QED BY <1>1, <1>4, CountQuiet

-----------------------------------------------------------------------------
(* The steps of a batch that give back no slot. *)
LEMMA CountClaim ==
    ASSUME KeptInv, Sober, Steady, TypeOK', Known', NEW b \in Batches, NEW kind, batch[b].at = "idle",
           Claim(b, kind), UNCHANGED <<row, sibling, user>>
    PROVE  HeldIsQueued' /\ Counted'
  <1> DEFINE f == [Resting EXCEPT !.at = "map", !.kind = kind, !.peeked = Picked,
                                  !.held = Picked, !.todo = LastOps(Picked)]
  <1>1. Put(b, f) /\ f.at = "map" /\ f.held = Picked /\ f.todo = LastOps(Picked) /\ queue' = Stamped(Picked)
    BY DEF Claim, Resting
  <1> HIDE DEF f
  <1>2. Picked \subseteq Queued /\ Queued \subseteq Ids /\ \A i \in Queued : queue[i] \in Entries
    BY PickedSound, QueuedRows DEF KeptInv
  <1>3. \A i \in Ids : queue'[i] = IF i \in Picked
                                   THEN [queue[i] EXCEPT !.st = "fresh", !.net = FALSE] ELSE queue[i]
    BY <1>1 DEF Stamped, Steady
  <1>4. ASSUME NEW i \in Picked
        PROVE  /\ queue'[i].st = "fresh" /\ queue[i] \in Entries
               /\ queue'[i].doc = queue[i].doc /\ queue'[i].op = queue[i].op
    <2>1. queue[i] \in Entries /\ i \in Ids
      BY <1>2
    <2>2. queue'[i] = [queue[i] EXCEPT !.st = "fresh", !.net = FALSE]
      BY <1>3, <2>1
    <2> QED BY <2>1, <2>2 DEF Entries
  <1>5. SameRows /\ \A i \in Ids : i \in Queued' <=> i \in Queued
    BY <1>2, <1>3, <1>4 DEF SameRows, Queued
  <1>6. \A i \in Ids : i \in Opens' <=> i \in Opens
    <2>0. \A i \in Picked : i \in LastOps(Picked)
      BY <1>2 DEF LastOps, KeptInv, Users, Ids
    <2>1. \A i : BackBy(f, i) <=> BackBy(batch[b], i)
      BY <1>1, <2>0 DEF BackBy, Working
    <2>2. \A i : GivenBack(i)' <=> GivenBack(i)
      BY <1>1, <2>1, BackMoves DEF KeptInv
    <2> QED BY <1>5, <2>2 DEF Opens
  <1>7. Holding
    <2>1. \A c \in Batches : batch'[c] = IF c = b THEN f ELSE batch[c]
      BY <1>1 DEF Put, KeptInv, TypeOK
    <2>2. \A c \in Batches : batch[c].held \subseteq Ids
      BY DEF KeptInv, TypeOK, Runs
    <2> QED BY <1>1, <1>2, <1>5, <2>1, <2>2 DEF Holding, Sober, HeldIsQueued
  <1> QED BY <1>5, <1>6, <1>7, CountQuiet DEF Sober

(* Nothing but marks on the rows. *)
LEMMA CountStill ==
    ASSUME KeptInv, Sober, TypeOK', Known', UNCHANGED <<batch, sibling>>, SameRows,
           \A d \in Docs : user'[d] = "idle" => user[d] = "idle" /\ row'[d] = row[d],
           \A i \in Ids : queue[i] \in Entries /\ user[queue[i].doc] = "idle" => (i \in Queued' <=> i \in Queued)
    PROVE  HeldIsQueued' /\ Counted'
  <1>1. \A i \in Ids : GivenBack(i)' <=> GivenBack(i)
    BY DEF GivenBack, BackBy
  <1>2. \A i \in Ids : queue[i] \in Entries /\ user[queue[i].doc] = "idle" => (i \in Opens' <=> i \in Opens)
    BY <1>1 DEF Opens
  <1>3. \A c \in Batches : \A i \in batch[c].held : i \in Ids /\ queue[i] \in Entries
    BY DEF KeptInv, TypeOK, Known, Sound, WorksOn, Runs
  <1>4. Holding
    BY <1>3 DEF Holding, Sober, HeldIsQueued
  <1> QED BY <1>2, <1>4, CountQuiet DEF Sober

LEMMA CountNothing ==
    ASSUME KeptInv, Sober, TypeOK', Known', NEW kind, NothingClaimed(kind), UNCHANGED <<row, sibling, user>>
    PROVE  HeldIsQueued' /\ Counted'
  <1>1. batch' = batch /\ (queue' = queue \/ queue' = Watched)
    BY DEF NothingClaimed
  <1>2. \A i \in Ids : queue[i] \in Entries =>
            /\ Watched[i] \in Entries /\ Watched[i].st = queue[i].st
            /\ Watched[i].doc = queue[i].doc /\ Watched[i].op = queue[i].op
    BY DEF Watched, Entries
  <1>3. \A i \in Ids : queue[i] \notin Entries => Watched[i] = Unused /\ queue[i] = Unused
    <2>1. [Unused EXCEPT !.net = @ \/ Unused.st = "fresh"] = Unused
      BY DEF Unused
    <2> QED BY <2>1 DEF KeptInv, TypeOK, Watched
  <1>4. Unused \notin Entries
    BY DEF Unused, Entries
  <1>5. SameRows
    BY <1>1, <1>2, <1>3, <1>4 DEF SameRows
  <1>6. \A i \in Ids : queue[i] \in Entries => (i \in Queued' <=> i \in Queued)
    BY <1>1, <1>2 DEF Queued
  <1> QED BY <1>1, <1>5, <1>6, CountStill

(* Batch b at work, on a table that stays as it is. *)
LEMMA CountGoes ==
    ASSUME KeptInv, Sober, TypeOK', Known', NEW b \in Batches, NEW f, Put(b, f),
           UNCHANGED <<queue, row, sibling, user>>,
           f.held = batch[b].held, batch[b].at \in Working, f.at \in Working,
           f.todo \union f.mapped \union f.failed = batch[b].todo \union batch[b].mapped \union batch[b].failed
    PROVE  HeldIsQueued' /\ Counted'
  <1>1. SameRows /\ \A i \in Ids : i \in Queued' <=> i \in Queued
    BY DEF SameRows, Queued
  <1>2. \A i \in Ids : BackBy(f, i) <=> BackBy(batch[b], i)
    BY DEF BackBy
  <1> QED BY <1>1, <1>2, CountWorks DEF Sober

(* What a batch mapped is mapped or has failed until it is drained. *)
LEMMA CountReduce ==
    ASSUME KeptInv, Sober, TypeOK', Known', NEW b \in Batches,
           ReduceNothing(b) \/ Reduce(b) \/ SlugBusy(b) \/ Write(b)
    PROVE  HeldIsQueued' /\ Counted'
  <1> USE DEF docVars, pageVars, taskVars, userVars, lossVars
  <1>t. /\ batch[b] \in Runs /\ batch[b].at \in {"map", "write"} /\ batch[b].retracts = {}
        /\ UNCHANGED <<queue, row, sibling, user>>
    BY DEF ReduceNothing, Reduce, SlugBusy, Write, Mapped, At, KeptInv, TypeOK, Locked, LockedBy
  <1> DEFINE Fits(f) == /\ f.held = batch[b].held /\ f.at \in Working
                        /\ f.todo \union f.mapped \union f.failed
                              = batch[b].todo \union batch[b].mapped \union batch[b].failed
             done == [batch[b] EXCEPT !.at = "drain"]
             work(live, read, locked) ==
                 [batch[b] EXCEPT !.at = "write", !.live = live, !.read = read, !.locked = locked]
             lost == [batch[b] EXCEPT !.at = "drain", !.failed = @ \union Updates(b)]
             over == [batch[b] EXCEPT !.at = "drain", !.live = {}, !.read = NoPage, !.locked = FALSE]
             fail == [over EXCEPT !.failed = @ \union Updates(b)]
  <1>1. Fits(done)
    BY <1>t DEF Runs, Working
  <1>2. ASSUME NEW live, NEW read, NEW locked PROVE Fits(work(live, read, locked))
    BY <1>t DEF Runs, Working
  <1>3. Fits(lost)
    BY <1>t DEF Runs, Working, Updates
  <1>4. Fits(over) /\ over.failed = batch[b].failed /\ over \in Runs /\ over.mapped = batch[b].mapped
    BY <1>t DEF Runs, Working, NoPage, Pages
  <1>5. Fits(fail)
    <2> HIDE DEF over
    <2> QED BY <1>t, <1>4 DEF Runs, Updates
  <1>6. PICK f : Put(b, f) /\ Fits(f)
    <2> HIDE DEF done, work, lost, over, fail, Fits
    <2>1. CASE ReduceNothing(b)
      BY <1>1, <2>1 DEF ReduceNothing, done
    <2>2. CASE Reduce(b)
      <3>1. PICK live, read, locked : Put(b, done) \/ Put(b, work(live, read, locked))
        BY <2>2 DEF Reduce, done, work
      <3> QED BY <1>1, <1>2, <3>1
    <2>3. CASE SlugBusy(b)
      BY <1>3, <2>3 DEF SlugBusy, lost
    <2>4. CASE Write(b)
      BY <1>4, <1>5, <2>4 DEF Write, over, fail
    <2> QED BY <2>1, <2>2, <2>3, <2>4
  <1> HIDE DEF done, work, lost, over, fail
  <1> QED BY <1>t, <1>6, CountGoes DEF Working

-----------------------------------------------------------------------------
(* The steps of a batch that give slots back. *)

(* The slot of a row is in the hands of its one holder. *)
LEMMA HeldByOne ==
    ASSUME Sober, NEW b \in Batches, NEW i \in batch[b].held, user[queue[i].doc] = "idle"
    PROVE  i \in Queued /\ (i \in Opens <=> ~BackBy(batch[b], i))
  <1>1. i \in Queued
    BY DEF Sober, HeldIsQueued
  <1>2. \A c \in Batches : c # b => i \notin batch[c].held
    BY DEF Sober, RowHeldOnce
  <1>3. GivenBack(i) <=> BackBy(batch[b], i)
    BY <1>2 DEF GivenBack, BackBy
  <1> QED BY <1>1, <1>3 DEF Opens

(* The batch is through with one row it holds, whose slot is given back. *)
LEMMA CountGives ==
    ASSUME KeptInv, Sober, TypeOK', Known', NEW b \in Batches, NEW i \in Ids, NEW f, Put(b, f),
           i \in batch[b].held, UNCHANGED <<queue, sibling, user>>, FinalizeSubtask(queue[i].doc, FALSE),
           f.held = batch[b].held, BackBy(f, i), ~BackBy(batch[b], i),
           \A j \in Ids : j # i => (BackBy(f, j) <=> BackBy(batch[b], j))
    PROVE  HeldIsQueued' /\ Counted'
  <1>1. queue[i] \in Entries
    BY DEF KeptInv, Known, Sound, WorksOn
  <1>2. i \notin Opens'
    BY BackMoves DEF KeptInv, Opens
  <1>3. user[queue[i].doc] = "idle" => i \in Opens
    BY HeldByOne
  <1>4. \A j \in Ids : j # i => (j \in Opens' <=> j \in Opens)
    <2>1. \A j \in Ids : j # i => (GivenBack(j)' <=> GivenBack(j))
      BY BackMoves DEF KeptInv
    <2> QED BY <2>1 DEF Opens, Queued
  <1>5. Holding
    <2>1. \A c \in Batches : batch'[c].held = batch[c].held
      BY DEF Put, KeptInv, TypeOK
    <2> QED BY <2>1 DEF Holding, Sober, HeldIsQueued, Queued
  <1>6. SameRows
    BY DEF SameRows
  <1> QED BY <1>1, <1>2, <1>3, <1>4, <1>5, <1>6, CountRepaid DEF Sober

LEMMA CountMap ==
    ASSUME KeptInv, Sober, TypeOK', Known', UNCHANGED faults, NEW b \in Batches, NEW i \in Ids, MapOf(b, i)
    PROVE  HeldIsQueued' /\ Counted'
  <1> USE DEF docVars, pageVars, taskVars, userVars, lossVars
  <1>t. /\ batch[b] \in Runs /\ batch[b].at = "map" /\ i \in batch[b].todo
        /\ queue[i] \in Entries /\ queue[i].op = "ingest" /\ i \in batch[b].held
        /\ i \notin batch[b].mapped \union batch[b].failed
        /\ UNCHANGED <<queue, sibling, user>>
    <2>1. batch[b].at = "map" /\ i \in batch[b].todo /\ UNCHANGED <<queue, sibling, user>>
      BY DEF MapOf, MapSkip, MapOne, MapFail, MapRetract, Ingests, At
    <2> QED BY <2>1 DEF KeptInv, TypeOK, Known, Sound, WorksOn, Users, Sober, Grip, GripOn, Working, Tidy, TidyOn
  <1>1. CASE MapSkip(b, i)
    <2> DEFINE f == [batch[b] EXCEPT !.todo = @ \ {i}]
    <2>1. /\ f.at = "map" /\ f.held = batch[b].held /\ f.todo = batch[b].todo \ {i}
          /\ f.mapped = batch[b].mapped /\ f.failed = batch[b].failed
      BY <1>t DEF Runs
    <2>2. Put(b, f) /\ FinalizeSubtask(queue[i].doc, FALSE)
      BY <1>1, NothingFails DEF MapSkip, KeptInv
    <2> HIDE DEF f
    <2>3. BackBy(f, i) /\ ~BackBy(batch[b], i) /\ \A j \in Ids : j # i => (BackBy(f, j) <=> BackBy(batch[b], j))
      BY <1>t, <2>1 DEF BackBy, Working
    <2> QED BY <1>t, <2>1, <2>2, <2>3, CountGives
  <1>2. CASE MapOne(b, i)
    <2> DEFINE f == [batch[b] EXCEPT !.todo = @ \ {i}, !.mapped = @ \union {i}]
    <2>1. /\ f.at = "map" /\ f.held = batch[b].held /\ f.todo = batch[b].todo \ {i}
          /\ f.mapped = batch[b].mapped \union {i} /\ f.failed = batch[b].failed
      BY <1>t DEF Runs
    <2>2. Put(b, f) /\ UNCHANGED row
      BY <1>2 DEF MapOne
    <2> HIDE DEF f
    <2> QED BY <1>t, <2>1, <2>2, CountGoes DEF Working
  <1>3. CASE MapFail(b, i)
    <2> DEFINE f == [batch[b] EXCEPT !.todo = @ \ {i}, !.failed = @ \union {i}]
    <2>1. /\ f.at = "map" /\ f.held = batch[b].held /\ f.todo = batch[b].todo \ {i}
          /\ f.mapped = batch[b].mapped /\ f.failed = batch[b].failed \union {i}
      BY <1>t DEF Runs
    <2>2. Put(b, f) /\ UNCHANGED row
      BY <1>3 DEF MapFail
    <2> HIDE DEF f
    <2> QED BY <1>t, <2>1, <2>2, CountGoes DEF Working
  <1>4. ~MapRetract(b, i)
    BY <1>t DEF MapRetract
  <1> QED BY <1>1, <1>2, <1>3, <1>4 DEF MapOf

LEMMA CountDrain ==
    ASSUME KeptInv, Sober, TypeOK', Known', UNCHANGED faults, NEW b \in Batches, NEW i \in Ids, Drain(b, i)
    PROVE  HeldIsQueued' /\ Counted'
  <1> USE DEF docVars, pageVars, taskVars, userVars, lossVars
  <1> DEFINE f == [batch[b] EXCEPT !.mapped = @ \ {i}]
  <1>1. /\ Put(b, f) /\ batch[b].at = "drain" /\ i \in batch[b].mapped \ batch[b].failed
        /\ UNCHANGED <<queue, sibling, user>> /\ FinalizeSubtask(queue[i].doc, FALSE)
    BY NothingFails DEF Drain, At, KeptInv
  <1>2. /\ f.at = "drain" /\ f.held = batch[b].held /\ f.mapped = batch[b].mapped \ {i}
        /\ f.failed = batch[b].failed /\ f.todo = batch[b].todo
    BY <1>1 DEF KeptInv, TypeOK, Runs
  <1> HIDE DEF f
  <1>3. i \in batch[b].held /\ batch[b].todo = {}
    BY <1>1 DEF Sober, Grip, GripOn, Working, Tidy, TidyOn
  <1>4. BackBy(f, i) /\ ~BackBy(batch[b], i) /\ \A j \in Ids : j # i => (BackBy(f, j) <=> BackBy(batch[b], j))
    BY <1>1, <1>2, <1>3 DEF BackBy, Working
  <1> QED BY <1>1, <1>2, <1>3, <1>4, CountGives

(* What is trimmed had given its slot back. *)
LEMMA CountTrim ==
    ASSUME KeptInv, Sober, TypeOK', Known', UNCHANGED faults, NEW b \in Batches, Trim(b)
    PROVE  HeldIsQueued' /\ Counted'
  <1> USE DEF docVars, pageVars, taskVars, userVars, lossVars
  <1> DEFINE s == [batch[b] EXCEPT !.at = "settle", !.mapped = {}, !.retracts = {}]
             f == [s EXCEPT !.held = @ \ TrimSet(b)]
  <1>1. /\ batch[b].at = "drain" /\ batch[b].mapped \subseteq batch[b].failed
        /\ queue' = Without(TrimSet(b)) /\ Put(b, f) /\ UNCHANGED <<row, sibling, user>>
    BY NothingFails DEF Trim, At, KeptInv
  <1>2. f.at = "settle" /\ f.held = batch[b].held \ TrimSet(b)
    <2>1. batch[b] \in Runs
      BY DEF KeptInv, TypeOK
    <2>2. s \in Runs /\ s.at = "settle" /\ s.held = batch[b].held
      BY <2>1 DEF Runs
    <2> HIDE DEF s
    <2> QED BY <2>2 DEF Runs
  <1> HIDE DEF f
  <1>3. /\ SameRows /\ \A i \in Queued : i \in Queued' \/ i \in TrimSet(b)
        /\ \A i \in Queued' : i \in Queued /\ i \notin TrimSet(b)
    BY <1>1, RowsGo DEF KeptInv
  <1>4. batch[b].held = batch[b].peeked /\ batch[b].todo = {}
    BY <1>1 DEF Sober, Grip, GripOn, Working, Tidy, TidyOn
  <1>5. \A i : i \in TrimSet(b) <=> BackBy(batch[b], i)
    BY <1>1, <1>4 DEF TrimSet, BackBy, Working
  <1>6. \A i : ~BackBy(f, i)
    BY <1>2 DEF BackBy, Working
  <1>7. \A c \in Batches : batch'[c] = IF c = b THEN f ELSE batch[c]
    BY <1>1 DEF Put, KeptInv, TypeOK
  <1>8. \A c \in Batches : c # b => \A i \in batch[c].held : i \notin TrimSet(b)
    BY <1>5 DEF Sober, RowHeldOnce, BackBy
  <1>9. \A i \in Ids : i \in Opens' <=> i \in Opens
    <2>1. \A i : GivenBack(i)' <=> \E c \in Batches : c # b /\ BackBy(batch[c], i)
      BY <1>6, <1>7 DEF GivenBack, BackBy
    <2>2. \A i : GivenBack(i) <=> GivenBack(i)' \/ i \in TrimSet(b)
      BY <1>5, <2>1 DEF GivenBack
    <2> QED BY <1>3, <2>2 DEF Opens
  <1>10. Holding
    BY <1>2, <1>3, <1>7, <1>8 DEF Holding, Sober, HeldIsQueued
  <1> QED BY <1>1, <1>3, <1>9, <1>10, CountQuiet DEF Sober

(* A row that is retried keeps its slot, and one that is buried gives it back. *)
LEMMA CountRequeue ==
    ASSUME KeptInv, Sober, TypeOK', Known', UNCHANGED faults, NEW b \in Batches, NEW i \in Ids, Requeue(b, i)
    PROVE  HeldIsQueued' /\ Counted'
  <1> USE DEF docVars, pageVars, taskVars, userVars, lossVars
  <1> DEFINE f == [batch[b] EXCEPT !.failed = @ \ {i}, !.held = @ \ {i}]
  <1>1. /\ batch[b].at = "settle" /\ i \in batch[b].failed /\ Put(b, f) /\ UNCHANGED <<sibling, user>>
        /\ \/ i \notin Queued /\ UNCHANGED <<queue, row>>
           \/ i \in Queued /\ RetryRow(b, i)
           \/ i \in Queued /\ DropRow(b, i)
    <2>1. Put(b, f)
      BY NothingFails, RequeueCases DEF RequeueShape, Through, KeptInv
    <2>2. ~Failing(TRUE)
      BY NothingFails DEF KeptInv
    <2> QED BY <2>1, <2>2 DEF Requeue, At
  <1>2. f.at = "settle" /\ f.held = batch[b].held \ {i}
    BY <1>1 DEF KeptInv, TypeOK, Runs
  <1> HIDE DEF f
  <1>3. i \in batch[b].held /\ queue[i] \in Entries /\ queue[i].op = "ingest"
    BY <1>1 DEF Sober, Grip, GripOn, KeptInv, Known, Sound, WorksOn, Users
  <1>4. \A c \in Batches : batch'[c] = IF c = b THEN f ELSE batch[c]
    BY <1>1 DEF Put, KeptInv, TypeOK
  <1>5. \A j : ~BackBy(f, j) /\ ~BackBy(batch[b], j)
    BY <1>1, <1>2 DEF BackBy, Working
  <1>6. \A j : GivenBack(j)' <=> GivenBack(j)
    BY <1>1, <1>5, BackMoves DEF KeptInv
  <1>7. \A c \in Batches : \A j \in batch'[c].held : j \in batch[c].held /\ j # i
    BY <1>1, <1>2, <1>3, <1>4 DEF Sober, RowHeldOnce
  <1>8. ASSUME SameRows, UNCHANGED row, \A j \in Ids : j \in Queued' <=> j \in Queued
        PROVE  HeldIsQueued' /\ Counted'
    <2>1. \A j \in Ids : j \in Opens' <=> j \in Opens
      BY <1>6, <1>8 DEF Opens
    <2>2. Holding
      BY <1>7, <1>8, QueuedRows DEF Holding, Sober, HeldIsQueued, KeptInv
    <2> QED BY <1>1, <1>8, <2>1, <2>2, CountQuiet DEF Sober
  <1>9. CASE i \notin Queued /\ UNCHANGED <<queue, row>>
    BY <1>8, <1>9 DEF SameRows, Queued
  <1>10. CASE i \in Queued /\ RetryRow(b, i)
    <2> DEFINE c == FailCount(i)
               r == [c EXCEPT !.st = "free", !.net = FALSE]
    <2>1. queue' = [queue EXCEPT ![i] = r] /\ UNCHANGED row
      BY <1>10, NothingFails DEF RetryRow, KeptInv
    <2>2. r \in Entries /\ r.doc = queue[i].doc /\ r.op = queue[i].op /\ r.st = "free"
      BY <1>10, Counting DEF KeptInv
    <2> HIDE DEF r
    <2>3. SameRows /\ \A j \in Ids : j \in Queued' <=> j \in Queued
      BY <1>10, <2>1, <2>2, RowStays DEF KeptInv
    <2> QED BY <1>8, <2>1, <2>3
  <1>11. CASE i \in Queued /\ DropRow(b, i)
    <2>1. queue' = Without({i}) /\ FinalizeSubtask(queue[i].doc, FALSE)
      <3>1. PICK lost \in SUBSET {"slot", "letter", "delete"} :
               /\ Failing(lost # {})
               /\ FinalizeSubtask(queue[i].doc, "slot" \in lost)
               /\ queue' = IF "delete" \in lost THEN [queue EXCEPT ![i] = FailCount(i)] ELSE Without({i})
        BY <1>3, <1>11 DEF DropRow
      <3>2. lost = {}
        <4>1. (lost # {}) \in BOOLEAN
          OBVIOUS
        <4> QED BY <3>1, <4>1, NothingFails DEF KeptInv
      <3>3. ("slot" \in lost) = FALSE /\ "delete" \notin lost
        BY <3>2
      <3> QED BY <3>1, <3>3
    <2>2. SameRows /\ (\A j \in Queued : j \in Queued' \/ j = i) /\ (\A j \in Queued' : j \in Queued /\ j # i)
      BY <2>1, RowsGo DEF KeptInv
    <2>3. Holding
      BY <1>7, <2>2 DEF Holding, Sober, HeldIsQueued
    <2>4. i \notin Opens' /\ \A j \in Ids : j # i => (j \in Opens' <=> j \in Opens)
      BY <1>6, <2>2 DEF Opens
    <2>5. user[queue[i].doc] = "idle" => i \in Opens
      BY <1>3, <1>5, HeldByOne
    <2> QED BY <1>1, <1>3, <2>1, <2>2, <2>3, <2>4, <2>5, CountRepaid DEF Sober
  <1> QED BY <1>1, <1>9, <1>10, <1>11

LEMMA CountBatch ==
    ASSUME KeptInv, Sober, Steady, TypeOK', Known', UNCHANGED faults, NEW b \in Batches, Step(b) \/ Crash(b)
    PROVE  HeldIsQueued' /\ Counted'
  <1> USE DEF docVars, pageVars, taskVars, userVars, lossVars
  <1>1. CASE Trigger(b)
    <2>1. /\ UNCHANGED <<row, sibling, user>> /\ batch[b].at = "idle"
          /\ Claim(b, "plain") \/ NothingClaimed("plain")
      BY <1>1 DEF Trigger, Free, At
    <2> QED BY <2>1, CountClaim, CountNothing
  <1>2. CASE Recheck(b)
    <2>1. /\ UNCHANGED <<row, sibling, user>> /\ batch[b].at = "idle"
          /\ Claim(b, "recheck") \/ NothingClaimed("recheck")
      BY <1>2 DEF Recheck, Free, At
    <2> QED BY <2>1, CountClaim, CountNothing
  <1>3. CASE Finish(b)
    <2>1. Put(b, Resting) /\ batch[b].at = "settle" /\ UNCHANGED <<queue, row, sibling, user>>
      BY <1>3 DEF Finish, Settled, At
    <2>2. Resting.held = {}
      BY DEF Resting
    <2>3. SameRows /\ \A i \in Ids : i \in Queued' <=> i \in Queued
      BY <2>1 DEF SameRows, Queued
    <2>4. \A i : ~BackBy(batch[b], i) /\ ~BackBy(Resting, i)
      BY <2>1, <2>2 DEF BackBy, Working
    <2> QED BY <2>1, <2>2, <2>3, <2>4, CountWorks DEF Sober
  <1>4. ~FinishFailed(b)
    BY DEF FinishFailed, Sober, Grip, GripOn
  <1>5. ~Crash(b)
    BY DEF Crash, KeptInv, TypeOK
  <1>6. ASSUME NEW i \in Ids, MapOf(b, i) \/ Drain(b, i) \/ Requeue(b, i)
        PROVE  HeldIsQueued' /\ Counted'
    BY <1>6, CountMap, CountDrain, CountRequeue
  <1>7. CASE ReduceNothing(b) \/ Reduce(b) \/ SlugBusy(b) \/ Write(b) \/ Trim(b)
    BY <1>7, CountReduce, CountTrim
  <1> QED BY <1>1, <1>2, <1>3, <1>4, <1>5, <1>6, <1>7 DEF Step

-----------------------------------------------------------------------------
(* The steps of documents and of time. *)

(* The slot of the row that is queued is opened, and the sibling's, if the   *)
(* document has one.                                                         *)
LEMMA CountHandOver ==
    ASSUME KeptInv, Sober, TypeOK', Known', NEW d \in Docs, PostProcess(d)
    PROVE  HeldIsQueued' /\ Counted'
  <1> USE DEF docVars, pageVars, taskVars, userVars, lossVars
  <1>1. PICK k \in Ids :
            /\ queue[k].st = "unused"
            /\ queue' = [queue EXCEPT ![k] = [st |-> "free", doc |-> d, op |-> "ingest", fails |-> 0,
                                              slugs |-> FALSE, net |-> FALSE]]
    BY DEF PostProcess, Enqueue
  <1>2. /\ Has(row[d], {"processing"}) /\ row' = [row EXCEPT ![d] = HandedOff(@, IF d \in Enriched THEN 2 ELSE 1)]
        /\ sibling' = sibling \union ({d} \intersect Enriched) /\ UNCHANGED <<batch, user>>
    BY DEF PostProcess
  <1>3. row[d] \in Rows /\ row \in [Docs -> Rows]
    BY DEF KeptInv, TypeOK, Rows
  <1>4. /\ row'[d].status = "finalizing" /\ row'[d].count = IF d \in Enriched THEN 2 ELSE 1
        /\ \A e \in Docs : e # d => row'[e] = row[e]
    BY <1>2, <1>3 DEF HandedOff, Rows
  <1>5. /\ queue'[k].st = "free" /\ queue'[k].doc = d
        /\ \A i \in Ids : i # k => queue'[i] = queue[i]
        /\ queue[k] \notin Entries
    BY <1>1 DEF KeptInv, TypeOK, Entries
  <1>6. \A c \in Batches : \A i \in batch[c].held : i \in Ids /\ i # k
    BY <1>5 DEF KeptInv, Known, TypeOK, Runs, Sound, WorksOn
  <1>7. k \notin Queued /\ Queued \subseteq Ids /\ \A i \in Ids : i \in Queued' <=> i \in Queued \/ i = k
    BY <1>1, <1>5 DEF Queued
  <1>8. HeldIsQueued'
    BY <1>2, <1>5, <1>6, <1>7 DEF Sober, HeldIsQueued
  <1>9. \A i \in Ids : i \in Opens' <=> i \in Opens \/ i = k
    <2>1. \A i \in Ids : (GivenBack(i)' <=> GivenBack(i)) /\ (i = k => ~GivenBack(i))
      BY <1>2, <1>6 DEF GivenBack, BackBy
    <2> QED BY <1>7, <2>1 DEF Opens
  <1>10. ASSUME NEW e \in Docs, user'[e] = "idle", e # d
         PROVE  CountOf(e)'
    <2>1. \A i \in Opens' : i \in Ids
      BY DEF Opens, Queued, Ids
    <2>2. \A i \in Opens : i \in Ids /\ i # k
      BY <1>7 DEF Opens
    <2>3. Open(e)' <=> Open(e)
      BY <1>5, <1>9, <1>10, <2>1, <2>2 DEF Open
    <2> QED BY <1>2, <1>4, <1>10, <2>3, CountMoves DEF Unmoved, Sober
  <1>11. CountOf(d)'
    <2>1. Open(d)'
      BY <1>5, <1>9 DEF Open
    <2>2. user[d] = "idle" /\ row[d].status = "processing"
      BY <1>2 DEF Has, KeptInv, Users
    <2>3. d \notin sibling
      BY <2>2 DEF Sober, Counted, CountOf
    <2> QED BY <1>2, <1>4, <2>1, <2>3 DEF CountOf, SlotsOf
  <1> QED BY <1>8, <1>10, <1>11 DEF Counted

LEMMA CountSibling ==
    ASSUME KeptInv, Sober, TypeOK', Known', UNCHANGED faults, NEW d \in Docs, SiblingEnds(d)
    PROVE  HeldIsQueued' /\ Counted'
  <1> USE DEF docVars, pageVars, taskVars, userVars, lossVars
  <1>1. /\ d \in sibling /\ sibling' = sibling \ {d} /\ FinalizeSubtask(d, FALSE)
        /\ UNCHANGED <<queue, batch, user>>
    BY NothingFails DEF SiblingEnds, KeptInv
  <1>2. \A i : i \in Opens' <=> i \in Opens
    BY <1>1 DEF Opens, Queued, GivenBack, BackBy
  <1>3. \A e : Open(e)' <=> Open(e)
    BY <1>1, <1>2 DEF Open
  <1>4. HeldIsQueued'
    BY <1>1 DEF Sober, HeldIsQueued, Queued
  <1>5. ASSUME NEW e \in Docs, user'[e] = "idle"
        PROVE  CountOf(e)'
    <2>1. row' = [row EXCEPT ![d] = Promoted(Decremented(@))] /\ row \in [Docs -> Rows]
      BY <1>1 DEF FinalizeSubtask, KeptInv, TypeOK, Rows
    <2>2. CASE e = d
      <3>1. row[d].status # "processing"
        BY <1>1, <1>5, <2>2 DEF Sober, Counted, CountOf
      <3>2. Repaid(d)
        BY <1>1, <1>3, <2>1, <3>1 DEF Repaid
      <3> QED BY <1>1, <1>5, <2>2, <3>2, CountMoves DEF Sober
    <2>3. CASE e # d
      BY <1>1, <1>3, <1>5, <2>1, <2>3, CountMoves DEF Unmoved, Sober
    <2> QED BY <2>2, <2>3
  <1> QED BY <1>4, <1>5 DEF Counted

LEMMA CountDocument ==
    ASSUME KeptInv, Sober, Steady, TypeOK', Known', UNCHANGED faults, NEW d \in Docs, Request(d) \/ Continue(d)
    PROVE  HeldIsQueued' /\ Counted'
  <1> USE DEF docVars, pageVars, taskVars, userVars, lossVars
  <1>1. CASE Cancel(d)
    <2>1. /\ row' = [row EXCEPT ![d] = CancelledByUser(@)] /\ user' = [user EXCEPT ![d] = "cancelling"]
          /\ UNCHANGED <<queue, batch, sibling>>
      BY <1>1 DEF Cancel
    <2>2. \A e \in Docs : user'[e] = "idle" => user[e] = "idle" /\ row'[e] = row[e]
      BY <2>1 DEF KeptInv, TypeOK
    <2>3. SameRows /\ \A i \in Ids : i \in Queued' <=> i \in Queued
      BY <2>1 DEF SameRows, Queued
    <2> QED BY <2>1, <2>2, <2>3, CountStill
  <1>2. CASE CancelScrub(d)
    <2> DEFINE S == {i \in Queued : queue[i].doc = d /\ queue[i].op = "ingest"}
    <2>1. /\ user[d] = "cancelling" /\ user' = [user EXCEPT ![d] = "cancelled"] /\ queue' = Without(S)
          /\ UNCHANGED <<row, batch, sibling>>
      BY <1>2 DEF CancelScrub, ScrubIngest
    <2>2. \A i \in S : queue[i].doc = d
      OBVIOUS
    <2> HIDE DEF S
    <2>3. /\ SameRows /\ \A i \in Queued : i \in Queued' \/ i \in S
          /\ \A i \in Queued' : i \in Queued
      BY <2>1, RowsGo DEF KeptInv
    <2>4. \A e \in Docs : user'[e] = "idle" => user[e] = "idle" /\ row'[e] = row[e]
      BY <2>1 DEF KeptInv, TypeOK
    <2>5. \A i \in Ids : queue[i] \in Entries /\ user[queue[i].doc] = "idle" => (i \in Queued' <=> i \in Queued)
      BY <2>1, <2>2, <2>3
    <2> QED BY <2>1, <2>3, <2>4, <2>5, CountStill
  <1>3. ~(Delete(d) \/ DeleteScrub(d) \/ DeleteList(d) \/ DeleteRetract(d) \/ DeleteStrip(d))
    BY DEF Steady, Delete, DeleteScrub, DeleteList, DeleteRetract, DeleteStrip, KeptInv, Users
  <1> QED BY <1>1, <1>2, <1>3, CountHandOver, CountSibling DEF Request, Continue

LEMMA CountTime ==
    ASSUME KeptInv, Sober, Steady, TypeOK', Known', Expire \/ Recover \/ LiteRestart
    PROVE  HeldIsQueued' /\ Counted'
  <1> USE DEF docVars, pageVars, taskVars, userVars, lossVars
  <1>1. CASE SlugLockExpires \/ Recover
    <2>1. UNCHANGED <<queue, batch, sibling, user, row>>
      BY <1>1 DEF SlugLockExpires, Recover
    <2>2. SameRows /\ \A i \in Ids : i \in Queued' <=> i \in Queued
      BY <2>1 DEF SameRows, Queued
    <2> QED BY <2>1, <2>2, CountStill
  <1>2. ASSUME NEW k \in Ids, ClaimExpires(k)
        PROVE  HeldIsQueued' /\ Counted'
    <2>1. k \in Queued /\ queue' = [queue EXCEPT ![k].st = "stale"] /\ UNCHANGED <<batch, sibling, user, row>>
      BY <1>2 DEF ClaimExpires
    <2>2. queue[k] \in Entries /\ queue \in Table
      BY <2>1, QueuedRows DEF KeptInv, TypeOK, Table
    <2>3. /\ queue'[k].st = "stale" /\ queue'[k].doc = queue[k].doc /\ queue'[k].op = queue[k].op
          /\ \A i \in Ids : i # k => queue'[i] = queue[i]
      BY <2>1, <2>2 DEF Table, Entries
    <2>4. SameRows /\ \A i \in Ids : i \in Queued' <=> i \in Queued
      BY <2>1, <2>2, <2>3 DEF SameRows, Queued
    <2> QED BY <2>1, <2>4, CountStill
  <1>3. ~LiteRestart
    BY DEF LiteRestart, Steady
  <1> QED BY <1>1, <1>2, <1>3 DEF Expire

(* Faults are only ever counted. *)
LEMMA FaultsGrow ==
    ASSUME [Next]_vars
    PROVE  faults' = faults \/ faults' = faults + 1
  <1> DEFINE Grown == faults' = faults \/ faults' = faults + 1
  <1>f. ASSUME NEW fails, Failing(fails) PROVE Grown
    BY <1>f DEF Failing
  <1>g. ASSUME NEW d, GiveBack(d) PROVE Grown
    BY <1>f, <1>g DEF GiveBack
  <1>1. ASSUME NEW d \in Docs, Request(d) \/ Continue(d) PROVE Grown
    <2>1. CASE DeleteRetract(d)
      BY <1>f, <2>1 DEF DeleteRetract
    <2>2. CASE DeleteStrip(d)
      BY <1>f, <2>2 DEF DeleteStrip
    <2>3. CASE SiblingEnds(d)
      BY <1>g, <2>3 DEF SiblingEnds
    <2> QED BY <1>1, <2>1, <2>2, <2>3 DEF Request, Continue, PostProcess, Cancel, CancelScrub, Delete, DeleteScrub, DeleteList
  <1>2. ASSUME NEW b \in Batches, NEW i \in Ids, MapOf(b, i) \/ Drain(b, i) \/ Requeue(b, i)
        PROVE  Grown
    <2>1. CASE Requeue(b, i)
      BY <1>f, <2>1, RequeueCases DEF RequeueShape
    <2>2. CASE MapOf(b, i) \/ Drain(b, i)
      BY <1>g, <2>2 DEF MapOf, MapSkip, MapOne, MapFail, MapRetract, Drain
    <2> QED BY <1>2, <2>1, <2>2
  <1>3. ASSUME NEW b \in Batches, Trigger(b) \/ Recheck(b) \/ ReduceNothing(b) \/ Reduce(b) \/ SlugBusy(b)
                                  \/ Write(b) \/ Trim(b) \/ Finish(b) \/ FinishFailed(b) \/ Crash(b)
        PROVE  Grown
    <2>1. CASE Trim(b) \/ FinishFailed(b)
      BY <1>f, <2>1 DEF Trim, FinishFailed
    <2> QED BY <1>3, <2>1 DEF Trigger, Recheck, ReduceNothing, Reduce, SlugBusy, Write, Finish, Crash
  <1>4. ASSUME Expire \/ Recover \/ LiteRestart PROVE Grown
    BY <1>4 DEF Expire, SlugLockExpires, ClaimExpires, Recover, LiteRestart
  <1>5. CASE UNCHANGED vars
    BY <1>5 DEF vars
  <1> QED BY <1>1, <1>2, <1>3, <1>4, <1>5 DEF Next, Step

LEMMA TidyStep ==
    ASSUME TypeOK, Tidy, [Next]_vars
    PROVE  Tidy'
  <1> DEFINE Fits(b) == \E f : Put(b, f) /\ TidyOn(f)
  <1>p. ASSUME NEW b \in Batches, Fits(b) PROVE Tidy'
    BY <1>p DEF Tidy, Put, TypeOK
  <1>r. TidyOn(Resting)
    BY DEF TidyOn, Resting
  <1>1. ASSUME UNCHANGED batch PROVE Tidy'
    BY <1>1 DEF Tidy
  <1>2. ASSUME NEW b \in Batches, NEW kind, Claim(b, kind) PROVE Tidy'
    <2> DEFINE f == [Resting EXCEPT !.at = "map", !.kind = kind, !.peeked = Picked,
                                    !.held = Picked, !.todo = LastOps(Picked)]
    <2>1. TidyOn(f)
      BY DEF TidyOn, Resting
    <2>2. Put(b, f)
      BY <1>2 DEF Claim
    <2> HIDE DEF f
    <2> QED BY <1>p, <2>1, <2>2
  <1>3. ASSUME NEW b \in Batches, NEW i \in Ids, MapOf(b, i) PROVE Tidy'
    <2> DEFINE none == [batch[b] EXCEPT !.todo = @ \ {i}]
               done == [batch[b] EXCEPT !.todo = @ \ {i}, !.mapped = @ \union {i}]
               lost == [batch[b] EXCEPT !.todo = @ \ {i}, !.failed = @ \union {i}]
               gone == [batch[b] EXCEPT !.todo = @ \ {i}, !.retracts = @ \union {i}]
    <2>t. batch[b] \in Runs /\ TidyOn(batch[b]) /\ batch[b].at = "map"
      BY <1>3 DEF MapOf, MapSkip, MapOne, MapFail, MapRetract, Ingests, At, TypeOK, Tidy
    <2>1. TidyOn(none)
      BY <2>t DEF TidyOn, Runs
    <2>2. TidyOn(done)
      BY <2>t DEF TidyOn, Runs
    <2>3. TidyOn(lost)
      BY <2>t DEF TidyOn, Runs
    <2>4. TidyOn(gone)
      BY <2>t DEF TidyOn, Runs
    <2>5. Put(b, none) \/ Put(b, done) \/ Put(b, lost) \/ Put(b, gone)
      BY <1>3 DEF MapOf, MapSkip, MapOne, MapFail, MapRetract, Retracting
    <2> HIDE DEF none, done, lost, gone
    <2> QED BY <1>p, <2>1, <2>2, <2>3, <2>4, <2>5
  <1>4. ASSUME NEW b \in Batches, batch[b].todo = {}, NEW f, Put(b, f), f.todo = {} PROVE Tidy'
    BY <1>p, <1>4 DEF TidyOn
  <1>5. ASSUME NEW b \in Batches, ReduceNothing(b) \/ Reduce(b) \/ SlugBusy(b) \/ Write(b) \/ Trim(b)
                                  \/ \E i \in Ids : Drain(b, i) \/ Requeue(b, i)
        PROVE  Tidy'
    <2> DEFINE over == [batch[b] EXCEPT !.at = "drain", !.live = {}, !.read = NoPage, !.locked = FALSE]
               past == [batch[b] EXCEPT !.at = "settle", !.mapped = {}, !.retracts = {}]
    <2>1. batch[b] \in Runs
      BY DEF TypeOK
    <2>2. batch[b].todo = {}
      BY <1>5 DEF ReduceNothing, Reduce, SlugBusy, Write, Trim, Drain, Requeue, Mapped, At, Tidy, TidyOn
    <2>3. over \in Runs /\ over.todo = {} /\ past \in Runs /\ past.todo = {}
      BY <2>1, <2>2 DEF Runs, NoPage, Pages
    <2>4. CASE ReduceNothing(b) \/ SlugBusy(b)
      BY <1>4, <2>1, <2>2, <2>4 DEF ReduceNothing, SlugBusy, Runs
    <2>5. CASE Reduce(b)
      <3>1. PICK live, read, locked :
               \/ Put(b, [batch[b] EXCEPT !.at = "drain"])
               \/ Put(b, [batch[b] EXCEPT !.at = "write", !.live = live, !.read = read, !.locked = locked])
        BY <2>5 DEF Reduce
      <3> QED BY <1>4, <2>1, <2>2, <3>1 DEF Runs
    <2>6. CASE Write(b)
      <3>1. Put(b, over) \/ Put(b, [over EXCEPT !.failed = @ \union Updates(b)])
        BY <2>6 DEF Write
      <3> HIDE DEF over
      <3>2. [over EXCEPT !.failed = @ \union Updates(b)].todo = {}
        BY <2>3 DEF Runs
      <3> QED BY <1>4, <2>2, <2>3, <3>1, <3>2
    <2>7. CASE Trim(b)
      <3>1. Put(b, [past EXCEPT !.held = @ \ TrimSet(b)]) \/ Put(b, [past EXCEPT !.err = TRUE])
        BY <2>7 DEF Trim
      <3> HIDE DEF past
      <3>2. [past EXCEPT !.held = @ \ TrimSet(b)].todo = {} /\ [past EXCEPT !.err = TRUE].todo = {}
        BY <2>3 DEF Runs
      <3> QED BY <1>4, <2>2, <3>1, <3>2
    <2>8. CASE \E i \in Ids : Drain(b, i)
      BY <1>4, <2>1, <2>2, <2>8 DEF Drain, Runs
    <2>9. ASSUME NEW i \in Ids, Requeue(b, i) PROVE Tidy'
      <3>1. Through(b, i) \/ Errs(b, i)
        BY <2>9, RequeueCases DEF RequeueShape
      <3> QED BY <1>4, <2>1, <2>2, <3>1 DEF Through, Errs, Runs
    <2> QED BY <1>5, <2>4, <2>5, <2>6, <2>7, <2>8, <2>9
  <1>6. ASSUME NEW b \in Batches, Finish(b) \/ FinishFailed(b) \/ Crash(b) PROVE Tidy'
    BY <1>p, <1>r, <1>6 DEF Finish, FinishFailed, Crash, Redelivered
  <1>7. ASSUME NEW b \in Batches, Trigger(b) \/ Recheck(b) PROVE Tidy'
    BY <1>1, <1>2, <1>7 DEF Trigger, Recheck, NothingClaimed
  <1>8. ASSUME NEW d \in Docs, Request(d) \/ Continue(d) PROVE Tidy'
    <2>1. UNCHANGED batch
      BY <1>8, DocumentStep
    <2> QED BY <1>1, <2>1
  <1>9. ASSUME Expire \/ Recover \/ UNCHANGED vars PROVE Tidy'
    BY <1>1, <1>9 DEF Expire, SlugLockExpires, ClaimExpires, Recover, vars
  <1>10. ASSUME LiteRestart PROVE Tidy'
    BY <1>r, <1>10 DEF LiteRestart, Tidy
  <1> QED BY <1>2, <1>3, <1>5, <1>6, <1>7, <1>8, <1>9, <1>10 DEF Next, Step

LEMMA CountStep ==
    ASSUME KeptInv, CountInv, Steady, [Next]_vars
    PROVE  CountInv'
  <1> SUFFICES ASSUME faults' = 0 PROVE Sober'
    BY DEF CountInv
  <1>1. TypeOK' /\ Known'
    BY TypedStep DEF KeptInv
  <1>2. UNCHANGED faults /\ Sober
    BY FaultsGrow DEF KeptInv, TypeOK, CountInv
  <1>3. IInv'
    BY <1>2, HeldStep DEF KeptInv, Sober, IInv, Steady
  <1>4. HeldIsQueued' /\ Counted'
    <2>1. CASE UNCHANGED vars
      <3>1. UNCHANGED <<queue, batch, sibling, user, row>>
        BY <2>1 DEF vars, docVars, userVars
      <3>2. SameRows /\ \A i \in Ids : i \in Queued' <=> i \in Queued
        BY <3>1 DEF SameRows, Queued
      <3> QED BY <1>1, <1>2, <3>1, <3>2, CountStill
    <2>2. CASE Next
      BY <1>1, <1>2, <2>2, CountDocument, CountBatch, CountTime DEF Next
    <2> QED BY <2>1, <2>2
  <1>5. Tidy'
    BY <1>2, TidyStep DEF Sober, KeptInv
  <1> QED BY <1>3, <1>4, <1>5 DEF Sober, IInv

LEMMA InitCount == Init => CountInv
  <1> SUFFICES ASSUME Init PROVE Sober
    BY DEF CountInv
  <1>1. Grip /\ RowHeldOnce
    BY InitIInv DEF IInv
  <1>2. HeldIsQueued /\ Tidy
    BY DEF Init, HeldIsQueued, Tidy, TidyOn, Resting
  <1>3. Counted
    BY DEF Init, Counted, CountOf, NewRow
  <1> QED BY <1>1, <1>2, <1>3 DEF Sober

(* With Redis and without deletes, a document is "completed" only when the   *)
(* wiki has answered for it, in one of the ways OperationsKept names, and    *)
(* its other subtask has ended, as long as no worker dies and no statement   *)
(* that settles rows or slots fails: pending_subtasks_count is the slots     *)
(* still open, whatever model calls and reads fail, claims compete and rows  *)
(* are skipped, retried or buried (finalizeWikiSubtask, FinalizeSubtask).    *)
THEOREM CompletedIsAnswered ==
    ASSUME Steady
    PROVE  Spec => []CompletedIsWritten
  <1>1. Init => KeptInv /\ CountInv
    BY InitKept, InitCount
  <1>2. KeptInv /\ CountInv /\ [Next]_vars => KeptInv' /\ CountInv'
    BY KeptStep, CountStep
  <1>3. KeptInv /\ CountInv => CompletedIsWritten
    <2> SUFFICES ASSUME KeptInv, Sober, NEW d \in Docs, Has(row[d], {"completed"})
                 PROVE  Answered(d) /\ d \notin sibling
      BY DEF CountInv, CompletedIsWritten
    <2>1. row[d].status = "completed" /\ ~row[d].gone /\ user[d] = "idle"
      BY DEF Has, KeptInv, Users
    <2>2. SlotsOf(d) = 0
      BY <2>1 DEF Sober, Counted, CountOf
    <2>3. d \notin sibling /\ ~Open(d)
      BY <2>2 DEF SlotsOf
    <2>4. CASE WikiQueued(d)
      <3>1. PICK i \in Queued : queue[i].doc = d
        BY <2>4 DEF WikiQueued
      <3>2. PICK b \in Batches : BackBy(batch[b], i)
        BY <2>3, <3>1 DEF Open, Opens, GivenBack
      <3>3. i \in batch[b].peeked
        BY <3>2 DEF BackBy, KeptInv, Known, Sound, WorksOn
      <3>4. d \in Answers
        BY <2>1, <3>1, <3>2, <3>3 DEF BackBy, Working, KeptInv, Carried, Carries
      <3> QED BY <2>3, <3>4 DEF Answers, Answered
    <2>5. CASE ~WikiQueued(d)
      BY <2>1, <2>3, <2>5 DEF KeptInv, NothingLost, KnowledgeGone, Aborted, Has
    <2> QED BY <2>4, <2>5
  <1> QED BY <1>1, <1>2, <1>3, PTL DEF Spec
-----------------------------------------------------------------------------
(* The wiki forgets. Without Redis, where one batch runs at a time, and with *)
(* one document that is deleted.                                             *)
OneDelete == Lite /\ \A d, e \in Deletable : d = e

(* One batch runs, and a worker that rests has nothing in hand. *)
Alone ==
    /\ \A b, c \in Batches : batch[b].at # "idle" /\ batch[c].at # "idle" => b = c
    /\ \A b \in Batches : batch[b].at = "idle" => batch[b].peeked = {}

(* A document that is being deleted is gone for every batch, and from the    *)
(* scrub on nothing of it is queued but retracts.                            *)
Scrubbed == {"scrubbed", "listed", "queued", "done"}
AskedFor(d) ==
    /\ user[d] \in Scrubbed \union {"marked"} => d \in Deletable /\ KnowledgeGone(d)
    /\ user[d] = "done" => row[d].gone
    /\ user[d] \in Scrubbed => \A i \in Queued : queue[i].doc = d => queue[i].op = "retract"
Asked == \A d \in Docs : AskedFor(d)

(* A page that is gone cites nobody. *)
PageKept == page.exists \/ page.refs = {}

(* As long as the page cites a document whose retract was not given up, one  *)
(* of its retracts waits, or is with a batch that has it to do, will write   *)
(* the page by it, or leaves it in the queue; and as long as a batch may yet *)
(* cite the document, one waits that no batch has read.                      *)
Retracts(d) == {i \in Queued : queue[i].doc = d /\ queue[i].op = "retract"}
UnderWay(f, i) ==
    \/ f.at = "map" /\ i \in f.todo \union f.retracts
    \/ f.at = "write" /\ i \in f.retracts /\ (f.read.exists \/ f.live # {})
    \/ f.at = "drain" /\ i \in f.failed
    \/ f.at = "settle"
Awaited(i) == \A b \in Batches : i \in batch[b].peeked => UnderWay(batch[b], i)
Unread(i)  == \A b \in Batches : i \notin batch[b].peeked
ChasedFor(d) ==
    user[d] \in {"queued", "done"} /\ d \notin missed =>
        /\ d \in page.refs => \E i \in Retracts(d) : Awaited(i)
        /\ \A b \in Batches : batch[b].at = "write" /\ d \in Written(b) => \E i \in Retracts(d) : Unread(i)
Chased == \A d \in Docs : ChasedFor(d)

GhostInv == TypeOK /\ Known /\ Alone /\ Asked /\ PageKept /\ Chased

(* The last operation of a document among the rows of a batch. *)
LEMMA LastOpExists ==
    ASSUME NEW S \in SUBSET Ids, NEW i \in S
    PROVE  \E j \in LastOps(S) : queue[j].doc = queue[i].doc
  <1> DEFINE mine == {j \in S : queue[j].doc = queue[i].doc}
             T    == {MaxRows - j : j \in mine}
  <1>1. MaxRows \in Nat /\ \A j \in S : j \in Nat /\ MaxRows - j \in Nat
    BY WikiAssumption DEF Ids
  <1>2. T \subseteq Nat /\ T # {}
    BY <1>1
  <1>3. PICK x \in T : \A y \in T : ~ (<<y, x>> \in OpToRel(<, Nat))
    <2> HIDE DEF T
    <2> QED BY <1>2, NatLessThanWellFounded, WFMin
  <1>4. PICK j \in mine : x = MaxRows - j
    OBVIOUS
  <1>5. ASSUME NEW k \in mine PROVE k <= j
    <2>1. MaxRows - k \in T /\ MaxRows - k \in Nat /\ x \in Nat
      BY <1>1, <1>2
    <2>2. <<MaxRows - k, x>> \in Nat \X Nat /\ <<MaxRows - k, x>>[1] = MaxRows - k
          /\ <<MaxRows - k, x>>[2] = x
      BY <2>1
    <2>3. ~ (MaxRows - k < x)
      BY <1>3, <2>1, <2>2 DEF OpToRel
    <2> QED BY <1>1, <1>4, <2>3
  <1> QED BY <1>5 DEF LastOps

(* A new row, which nobody has read. *)
LEMMA EnqueuedRow ==
    ASSUME TypeOK, Known, NEW d \in Docs, NEW op \in {"ingest", "retract"}, NEW s \in BOOLEAN,
           Enqueue(d, op, s)
    PROVE  \E k \in Ids : /\ k \notin Queued /\ k \in Queued' /\ Unread(k) /\ queue[k] \notin Entries
                          /\ queue'[k].doc = d /\ queue'[k].op = op
                          /\ \A i \in Ids : i # k => queue'[i] = queue[i]
  <1>1. PICK k \in Ids :
            /\ queue[k].st = "unused"
            /\ queue' = [queue EXCEPT ![k] = [st |-> "free", doc |-> d, op |-> op, fails |-> 0,
                                              slugs |-> s, net |-> FALSE]]
    BY DEF Enqueue
  <1>2. queue \in Table
    BY DEF TypeOK, Table
  <1>3. /\ queue'[k] = [st |-> "free", doc |-> d, op |-> op, fails |-> 0, slugs |-> s, net |-> FALSE]
        /\ \A i \in Ids : i # k => queue'[i] = queue[i]
    BY <1>1, <1>2 DEF Table
  <1>4. queue[k] \notin Entries /\ k \notin Queued /\ k \in Queued'
    BY <1>1, <1>3 DEF Entries, Queued
  <1>5. Unread(k)
    BY <1>4 DEF Unread, Known
  <1> QED BY <1>3, <1>4, <1>5

(* Giving a slot back revives nobody. *)
LEMMA GoneStays ==
    ASSUME SameDocs, NEW d \in Docs, KnowledgeGone(d)
    PROVE  KnowledgeGone(d)'
  BY DEF SameDocs, KnowledgeGone, Aborted

LEMMA AskedStays ==
    ASSUME TypeOK, TypeOK', Asked, SameDocs, SameRows, UNCHANGED user, \A i \in Queued' : i \in Queued
    PROVE  Asked'
  <1> SUFFICES ASSUME NEW d \in Docs PROVE AskedFor(d)'
    BY DEF Asked
  <1>1. AskedFor(d)
    BY DEF Asked
  <1>2. KnowledgeGone(d) => KnowledgeGone(d)'
    BY GoneStays
  <1>3. row[d].gone => row'[d].gone
    BY DEF SameDocs
  <1>4. \A i \in Queued' : i \in Queued /\ queue'[i].doc = queue[i].doc /\ queue'[i].op = queue[i].op
    <2>1. (\A i \in Queued : i \in Ids /\ queue[i] \in Entries)'
      BY DEF TypeOK, Queued, Unused
    <2> QED BY <2>1 DEF SameRows, Ids
  <1> QED BY <1>1, <1>2, <1>3, <1>4 DEF AskedFor

(* What a batch is about to write depends on what it carries. *)
LEMMA WrittenStays ==
    ASSUME TypeOK, Known, NEW b \in Batches, batch'[b] = batch[b],
           \A i \in Ids : queue[i] \in Entries => queue'[i].doc = queue[i].doc
    PROVE  Written(b)' = Written(b)
  <1>1. batch[b].retracts \subseteq batch[b].peeked /\ batch[b].live \subseteq batch[b].peeked
        /\ batch[b].peeked \subseteq Ids /\ \A i \in batch[b].peeked : queue[i] \in Entries
    BY DEF Known, Sound, WorksOn, TypeOK, Runs
  <1>2. \A i \in batch[b].retracts \union batch[b].live : queue'[i].doc = queue[i].doc
    BY <1>1
  <1>3. Of(batch[b].retracts)' = Of(batch[b].retracts) /\ Of(batch[b].live)' = Of(batch[b].live)
    BY <1>2 DEF Of
  <1> QED BY <1>3 DEF Written

(* A step that leaves batches, page and retracts alone. *)
LEMMA GhostStill ==
    ASSUME GhostInv, Asked', UNCHANGED <<batch, page>>, missed \subseteq missed',
           \A d \in Docs : user'[d] \in {"queued", "done"} /\ d \notin missed'
                           => user[d] \in {"queued", "done"},
           \A i \in Queued : queue[i].op = "retract" => i \in Queued',
           \A i \in Ids : queue[i] \in Entries => queue'[i].doc = queue[i].doc /\ queue'[i].op = queue[i].op
    PROVE  Alone' /\ Asked' /\ PageKept' /\ Chased'
  <1>1. Alone' /\ PageKept'
    BY DEF GhostInv, Alone, PageKept
  <1>2. ASSUME NEW d \in Docs PROVE ChasedFor(d)'
    <2>1. ChasedFor(d)
      BY DEF GhostInv, Chased
    <2>2. Retracts(d) \subseteq Retracts(d)'
      BY QueuedRows DEF Retracts, GhostInv
    <2>3. \A b \in Batches : Written(b)' = Written(b)
      BY WrittenStays DEF GhostInv
    <2>4. \A i : (Awaited(i) => Awaited(i)') /\ (Unread(i) => Unread(i)')
      BY DEF Awaited, Unread, UnderWay
    <2> QED BY <2>1, <2>2, <2>3, <2>4 DEF ChasedFor
  <1> QED BY <1>1, <1>2 DEF Chased

(* A batch at work moves to f, where it does not write. The rows it has not  *)
(* read stay, and so does, with what is to be done, a retract of a document  *)
(* the page cites.                                                           *)
LEMMA GhostMoves ==
    ASSUME GhostInv, TypeOK', NEW b \in Batches, NEW f, Put(b, f), batch[b].at # "idle", f.at # "write",
           f.at = "idle" => f.peeked = {}, f.peeked \subseteq batch[b].peeked,
           UNCHANGED <<user, page>>, SameDocs, SameRows, \A i \in Queued' : i \in Queued,
           \A i \in Queued : i \in Queued' \/ i \in batch[b].peeked, missed \subseteq missed',
           \A i \in Queued : /\ queue[i].op = "retract" /\ queue[i].doc \in page.refs
                             /\ queue[i].doc \notin missed' /\ UnderWay(batch[b], i)
                             => i \in Queued' /\ (i \in f.peeked => UnderWay(f, i))
    PROVE  Alone' /\ Asked' /\ PageKept' /\ Chased'
  <1>1. \A c \in Batches : batch'[c] = IF c = b THEN f ELSE batch[c]
    BY DEF Put, GhostInv, TypeOK
  <1>2. Asked'
    BY AskedStays DEF GhostInv
  <1>3. \A c \in Batches : c # b => batch[c].at = "idle" /\ batch[c].peeked = {}
    BY DEF GhostInv, Alone
  <1>4. Alone'
    BY <1>1, <1>3 DEF Alone
  <1>5. \A c \in Batches : batch'[c].at # "write"
    BY <1>1, <1>3
  <1>6. PageKept'
    BY <1>5 DEF PageKept, GhostInv
  <1>7. ASSUME NEW d \in Docs, user'[d] \in {"queued", "done"}, d \notin missed', d \in page'.refs
        PROVE  \E i \in Retracts(d)' : Awaited(i)'
    <2>1. PICK i \in Retracts(d) : Awaited(i)
      BY <1>7 DEF GhostInv, Chased, ChasedFor
    <2>2. i \in Queued /\ queue[i].doc = d /\ queue[i].op = "retract"
      BY <2>1 DEF Retracts
    <2>3. i \in Queued' /\ (i \in f.peeked => UnderWay(f, i))
      BY <1>7, <2>1, <2>2 DEF Awaited
    <2>4. i \in Ids /\ queue'[i] \in Entries
      <3>1. (\A j \in Queued : j \in Ids /\ queue[j] \in Entries)'
        BY DEF TypeOK, Queued, Unused
      <3> QED BY <2>3, <3>1 DEF Ids
    <2>5. i \in Retracts(d)'
      BY <2>2, <2>3, <2>4 DEF Retracts, SameRows
    <2>6. ASSUME NEW c \in Batches, i \in batch'[c].peeked PROVE UnderWay(batch'[c], i)
      BY <1>1, <1>3, <2>3, <2>6
    <2>7. Awaited(i)'
      BY <2>6 DEF Awaited, UnderWay
    <2> QED BY <2>5, <2>7
  <1>8. Chased'
    BY <1>5, <1>7 DEF Chased, ChasedFor
  <1> QED BY <1>2, <1>4, <1>6, <1>8

(* A claim takes, with a retract, the last operation of the document, which  *)
(* is a retract too.                                                         *)
LEMMA GhostClaim ==
    ASSUME GhostInv, TypeOK', OneDelete, NEW b \in Batches, NEW kind, Free(b), Claim(b, kind),
           UNCHANGED <<row, user, page, missed>>
    PROVE  Alone' /\ Asked' /\ PageKept' /\ Chased'
  <1> DEFINE f == [Resting EXCEPT !.at = "map", !.kind = kind, !.peeked = Picked,
                                  !.held = Picked, !.todo = LastOps(Picked)]
  <1>1. Put(b, f) /\ UNCHANGED queue
    BY DEF Claim, Stamped, OneDelete
  <1>2. f.at = "map" /\ f.peeked = Picked /\ f.todo = LastOps(Picked)
    BY DEF Resting
  <1> HIDE DEF f
  <1>3. \A c \in Batches : batch'[c] = IF c = b THEN f ELSE batch[c]
    BY <1>1 DEF Put, GhostInv, TypeOK
  <1>4. \A c \in Batches : batch[c].at = "idle" /\ batch[c].peeked = {}
    BY DEF Free, At, OneDelete, GhostInv, Alone
  <1>5. Asked'
    BY <1>1 DEF GhostInv, Asked, AskedFor, KnowledgeGone, Queued
  <1>6. Alone' /\ \A c \in Batches : batch'[c].at # "write"
    BY <1>2, <1>3, <1>4 DEF Alone
  <1>7. PageKept'
    BY <1>6 DEF PageKept, GhostInv
  <1>8. ASSUME NEW d \in Docs, user'[d] \in {"queued", "done"}, d \notin missed', d \in page'.refs
        PROVE  \E i \in Retracts(d)' : Awaited(i)'
    <2>1. PICK i \in Retracts(d) : Awaited(i)
      BY <1>8 DEF GhostInv, Chased, ChasedFor
    <2>2. Retracts(d)' = Retracts(d)
      BY <1>1 DEF Retracts, Queued
    <2>3. CASE i \notin Picked
      BY <1>2, <1>3, <1>4, <2>1, <2>2, <2>3 DEF Awaited
    <2>4. CASE i \in Picked
      <3>1. Picked \subseteq Queued /\ Picked \in SUBSET Ids
        BY PickedSound, QueuedRows DEF GhostInv
      <3>2. PICK j \in LastOps(Picked) : queue[j].doc = queue[i].doc
        BY <2>4, <3>1, LastOpExists
      <3>3. j \in Queued /\ queue[j].doc = d
        BY <2>1, <3>1, <3>2 DEF LastOps, Retracts
      <3>4. j \in Retracts(d)
        BY <1>8, <3>3 DEF GhostInv, Asked, AskedFor, Scrubbed, Retracts
      <3>5. \A c \in Batches : j \in batch'[c].peeked => UnderWay(batch'[c], j)
        BY <1>2, <1>3, <1>4, <3>2 DEF UnderWay
      <3> QED BY <2>2, <3>4, <3>5 DEF Awaited, UnderWay
    <2> QED BY <2>3, <2>4
  <1>9. Chased'
    BY <1>6, <1>8 DEF Chased, ChasedFor
  <1> QED BY <1>5, <1>6, <1>7, <1>9

(* A task that finds nothing to claim, in the deployment without Redis. *)
LEMMA GhostNothing ==
    ASSUME GhostInv, NEW kind, NothingClaimed(kind), UNCHANGED <<row, user, page, missed>>
    PROVE  Alone' /\ Asked' /\ PageKept' /\ Chased'
  <1>1. UNCHANGED batch /\ (queue' = Watched \/ UNCHANGED queue)
    BY DEF NothingClaimed
  <1>2. \A i \in Ids : queue[i] \in Entries =>
            /\ [queue[i] EXCEPT !.net = @ \/ queue[i].st = "fresh"].st = queue[i].st
            /\ [queue[i] EXCEPT !.net = @ \/ queue[i].st = "fresh"].doc = queue[i].doc
            /\ [queue[i] EXCEPT !.net = @ \/ queue[i].st = "fresh"].op = queue[i].op
    BY DEF Entries
  <1>3. \A i \in Ids : queue[i] \notin Entries => queue[i] = Unused
    BY DEF GhostInv, TypeOK
  <1>4. [Unused EXCEPT !.net = @ \/ Unused.st = "fresh"] = Unused
    BY DEF Unused
  <1>5. \A i \in Ids : /\ queue[i] \in Entries => /\ queue'[i].st = queue[i].st /\ queue'[i].doc = queue[i].doc
                                                 /\ queue'[i].op = queue[i].op
                       /\ queue[i] \notin Entries => queue'[i] = queue[i]
    <2>1. CASE UNCHANGED queue
      BY <2>1
    <2>2. CASE queue' = Watched
      <3>1. \A i \in Ids : queue'[i] = [queue[i] EXCEPT !.net = @ \/ queue[i].st = "fresh"]
        BY <2>2 DEF Watched
      <3>2. \A i \in Ids : queue[i] \notin Entries => queue'[i] = queue[i]
        BY <1>3, <1>4, <3>1
      <3>3. ASSUME NEW i \in Ids, queue[i] \in Entries
            PROVE  /\ queue'[i].st = queue[i].st /\ queue'[i].doc = queue[i].doc
                   /\ queue'[i].op = queue[i].op
        BY <1>2, <3>1, <3>3
      <3> QED BY <3>2, <3>3
    <2> QED BY <1>1, <2>1, <2>2
  <1>6. Queued' = Queued
    BY <1>5 DEF Queued
  <1>7. \A i \in Queued : i \in Ids /\ queue[i] \in Entries
    BY QueuedRows DEF GhostInv
  <1>8. Asked'
    BY <1>5, <1>6, <1>7 DEF GhostInv, Asked, AskedFor, KnowledgeGone
  <1> QED BY <1>1, <1>5, <1>6, <1>8, GhostStill

(* Mapping: a retract of a document the page cites goes on to the page, or   *)
(* has been given up.                                                        *)
LEMMA GhostMap ==
    ASSUME GhostInv, TypeOK', NEW b \in Batches, NEW i \in Ids, MapOf(b, i)
    PROVE  Alone' /\ Asked' /\ PageKept' /\ Chased'
  <1> USE DEF docVars, pageVars, taskVars, userVars, lossVars
  <1> DEFINE rest == [batch[b] EXCEPT !.todo = @ \ {i}]
             ok   == [batch[b] EXCEPT !.todo = @ \ {i}, !.mapped = @ \union {i}]
             bad  == [batch[b] EXCEPT !.todo = @ \ {i}, !.failed = @ \union {i}]
             ret(hits) == [batch[b] EXCEPT !.todo = @ \ {i},
                               !.retracts = IF hits THEN @ \union {i} ELSE @]
  <1>1. /\ batch[b].at = "map" /\ i \in batch[b].todo /\ UNCHANGED <<queue, user, page>>
        /\ batch[b] \in Runs /\ missed \subseteq missed'
    BY DEF MapOf, MapSkip, MapOne, MapFail, MapRetract, Ingests, At, GhostInv, TypeOK
  <1>2. PICK f : /\ Put(b, f) /\ f.at = "map" /\ f.peeked = batch[b].peeked
                 /\ f.todo = batch[b].todo \ {i} /\ batch[b].retracts \subseteq f.retracts
                 /\ \/ queue[i].op = "ingest"
                    \/ i \in f.retracts \/ queue[i].doc \notin page.refs \/ queue[i].doc \in missed'
    <2>1. CASE MapSkip(b, i)
      <3>1. /\ rest.at = "map" /\ rest.peeked = batch[b].peeked /\ rest.todo = batch[b].todo \ {i}
            /\ rest.retracts = batch[b].retracts
        BY <1>1 DEF Runs
      <3>2. Put(b, rest) /\ queue[i].op = "ingest"
        BY <2>1 DEF MapSkip, Ingests
      <3> HIDE DEF rest
      <3> QED BY <3>1, <3>2
    <2>2. CASE MapOne(b, i)
      <3>1. /\ ok.at = "map" /\ ok.peeked = batch[b].peeked /\ ok.todo = batch[b].todo \ {i}
            /\ ok.retracts = batch[b].retracts
        BY <1>1 DEF Runs
      <3>2. Put(b, ok) /\ queue[i].op = "ingest"
        BY <2>2 DEF MapOne, Ingests
      <3> HIDE DEF ok
      <3> QED BY <3>1, <3>2
    <2>3. CASE MapFail(b, i)
      <3>1. /\ bad.at = "map" /\ bad.peeked = batch[b].peeked /\ bad.todo = batch[b].todo \ {i}
            /\ bad.retracts = batch[b].retracts
        BY <1>1 DEF Runs
      <3>2. Put(b, bad) /\ queue[i].op = "ingest"
        BY <2>3 DEF MapFail, Ingests
      <3> HIDE DEF bad
      <3> QED BY <3>1, <3>2
    <2>4. CASE MapRetract(b, i)
      <3>1. ASSUME NEW hits
            PROVE  /\ ret(hits).at = "map" /\ ret(hits).peeked = batch[b].peeked
                   /\ ret(hits).todo = batch[b].todo \ {i}
                   /\ batch[b].retracts \subseteq ret(hits).retracts
                   /\ hits => i \in ret(hits).retracts
        BY <1>1 DEF Runs
      <3>2. PICK hits : /\ Put(b, ret(hits))
                        /\ hits \/ queue[i].doc \notin page.refs \/ queue[i].doc \in missed'
        <4>1. CASE Retracting(b, i, RetractHits(i))
          BY <4>1 DEF Retracting, RetractHits
        <4>2. CASE /\ Retracting(b, i, queue[i].slugs)
                   /\ missed' = IF queue[i].slugs THEN missed
                                ELSE missed \union ({queue[i].doc} \intersect page.refs)
          BY <4>2 DEF Retracting
        <4> QED BY <2>4, <4>1, <4>2 DEF MapRetract
      <3> HIDE DEF ret
      <3> QED BY <3>1, <3>2
    <2> QED BY <2>1, <2>2, <2>3, <2>4 DEF MapOf
  <1>3. SameDocs
    <2>1. UNCHANGED row => SameDocs
      BY DEF SameDocs
    <2>2. UNCHANGED row \/ GiveBack(queue[i].doc)
      BY DEF MapOf, MapSkip, MapOne, MapFail, MapRetract
    <2> QED BY <2>1, <2>2, SlotGiven DEF GhostInv
  <1>4. SameRows /\ Queued' = Queued
    BY <1>1 DEF SameRows, Queued
  <1>5. ASSUME NEW j \in Queued, queue[j].op = "retract", queue[j].doc \in page.refs,
               queue[j].doc \notin missed', UnderWay(batch[b], j)
        PROVE  UnderWay(f, j)
    <2>1. j \in batch[b].todo \union batch[b].retracts
      BY <1>1, <1>5 DEF UnderWay
    <2> QED BY <1>2, <1>5, <2>1 DEF UnderWay
  <1> QED BY <1>1, <1>2, <1>3, <1>4, <1>5, GhostMoves

(* A batch with nothing for the page drains; one with something reads it. *)
LEMMA GhostReduce ==
    ASSUME GhostInv, TypeOK', OneDelete, NEW b \in Batches, ReduceNothing(b) \/ Reduce(b)
    PROVE  Alone' /\ Asked' /\ PageKept' /\ Chased'
  <1> USE DEF docVars, pageVars, taskVars, userVars, lossVars
  <1> DEFINE done == [batch[b] EXCEPT !.at = "drain"]
             work(live, read, locked) == [batch[b] EXCEPT !.at = "write", !.live = live, !.read = read,
                                                          !.locked = locked]
  <1>1. batch[b].at = "map" /\ batch[b].todo = {} /\ UNCHANGED <<row, queue, user, page>>
    BY DEF ReduceNothing, Reduce, Mapped, At
  <1>2. \/ batch[b].retracts = {} /\ Put(b, done) /\ UNCHANGED missed
        \/ \E live \in SUBSET Live(b) : \E read \in {page, NoPage} : \E locked \in BOOLEAN :
              /\ Put(b, work(live, read, locked))
              /\ missed' = IF read = page \/ live # {} THEN missed
                           ELSE missed \union (Of(batch[b].retracts) \intersect page.refs)
    <2>1. CASE ReduceNothing(b)
      BY <2>1 DEF ReduceNothing, Updates
    <2>2. CASE Reduce(b)
      <3>1. LiveAnswers(b) \subseteq SUBSET Live(b) /\ PageAnswers \subseteq {page, NoPage}
        BY DEF LiveAnswers, PageAnswers
      <3> QED BY <2>2, <3>1 DEF Reduce
    <2> QED BY <2>1, <2>2
  <1>3. batch[b] \in Runs
    BY DEF GhostInv, TypeOK
  <1>4. done.at = "drain" /\ done.peeked = batch[b].peeked
    BY <1>3 DEF Runs
  <1>5. SameRows /\ Queued' = Queued /\ SameDocs /\ (\A S : Of(S)' = Of(S))
    BY <1>1 DEF SameRows, Queued, SameDocs, Of
  <1> HIDE DEF done
  <1>6. CASE batch[b].retracts = {} /\ Put(b, done) /\ UNCHANGED missed
    <2>1. \A i : ~UnderWay(batch[b], i)
      BY <1>1, <1>6 DEF UnderWay
    <2> QED BY <1>1, <1>4, <1>5, <1>6, <2>1, GhostMoves
  <1>7. ASSUME NEW live \in SUBSET Live(b), NEW read \in {page, NoPage}, NEW locked \in BOOLEAN,
               Put(b, work(live, read, locked)),
               missed' = IF read = page \/ live # {} THEN missed
                         ELSE missed \union (Of(batch[b].retracts) \intersect page.refs)
        PROVE  Alone' /\ Asked' /\ PageKept' /\ Chased'
    <2> DEFINE f == work(live, read, locked)
    <2>0. /\ f.at = "write" /\ f.peeked = batch[b].peeked /\ f.retracts = batch[b].retracts
          /\ f.live = live /\ f.read = read /\ Put(b, f)
      BY <1>3, <1>7 DEF Runs
    <2> HIDE DEF f
    <2>1. \A c \in Batches : batch'[c] = IF c = b THEN f ELSE batch[c]
      BY <2>0 DEF Put, GhostInv, TypeOK
    <2>2. \A c \in Batches : c # b => batch[c].at = "idle" /\ batch[c].peeked = {}
      BY <1>1 DEF GhostInv, Alone
    <2>3. Alone'
      BY <2>0, <2>1, <2>2 DEF Alone
    <2>4. Asked'
      BY <1>1, <1>5, AskedStays DEF GhostInv
    <2>5. PageKept'
      BY <1>1 DEF PageKept, GhostInv
    <2>6. ASSUME NEW d \in Docs, user'[d] \in {"queued", "done"}, d \notin missed'
          PROVE  ChasedFor(d)'
      <3>0. d \notin missed
        BY <1>7, <2>6
      <3>1. d \notin Of(live)
        <4>1. KnowledgeGone(d)
          BY <1>1, <2>6 DEF GhostInv, Asked, AskedFor, Scrubbed
        <4> QED BY <4>1 DEF Live, Of
      <3>2. Retracts(d)' = Retracts(d)
        BY <1>1, <1>5 DEF Retracts
      <3>3. Written(b)' = (read.refs \ Of(batch[b].retracts)) \union Of(live)
        BY <1>5, <2>0, <2>1 DEF Written
      <3>4. ASSUME d \in page.refs
            PROVE  \E i \in Retracts(d) : Awaited(i)' /\ (d \notin Of(batch[b].retracts) => Unread(i)')
        <4>1. PICK i \in Retracts(d) : Awaited(i)
          BY <1>1, <2>6, <3>0, <3>4 DEF GhostInv, Chased, ChasedFor
        <4>2. i \in batch[b].peeked => i \in batch[b].retracts
          BY <1>1, <4>1 DEF Awaited, UnderWay
        <4>3. i \in batch[b].retracts => d \in Of(batch[b].retracts)
          BY <4>1 DEF Retracts, Of
        <4>4. i \in batch[b].peeked => read.exists \/ live # {}
          <5>1. page.exists
            BY <3>4 DEF GhostInv, PageKept
          <5> QED BY <1>7, <2>6, <3>4, <4>2, <4>3, <5>1
        <4>5. Awaited(i)'
          BY <2>0, <2>1, <2>2, <4>2, <4>4 DEF Awaited, UnderWay
        <4>6. d \notin Of(batch[b].retracts) => Unread(i)'
          BY <2>0, <2>1, <2>2, <4>2, <4>3 DEF Unread
        <4> QED BY <4>1, <4>5, <4>6
      <3>5. d \in page'.refs => \E i \in Retracts(d)' : Awaited(i)'
        BY <1>1, <3>2, <3>4
      <3>6. ASSUME NEW c \in Batches, batch'[c].at = "write", d \in Written(c)'
            PROVE  \E i \in Retracts(d)' : Unread(i)'
        <4>1. c = b
          BY <2>1, <2>2, <3>6
        <4>2. read.refs \subseteq page.refs
          BY DEF NoPage
        <4>3. d \in page.refs /\ d \notin Of(batch[b].retracts)
          BY <3>1, <3>3, <3>6, <4>1, <4>2
        <4> QED BY <3>2, <3>4, <4>3
      <3> QED BY <3>5, <3>6 DEF ChasedFor
    <2>7. Chased'
      BY <2>6 DEF Chased, ChasedFor
    <2> QED BY <2>3, <2>4, <2>5, <2>7
  <1> HIDE DEF work
  <1> QED BY <1>2, <1>6, <1>7

(* The page is written as it was read, or left as it is; the retracts have   *)
(* been followed, stay in the queue, or are given up.                        *)
LEMMA GhostWrite ==
    ASSUME GhostInv, TypeOK', OneDelete, NEW b \in Batches, Write(b)
    PROVE  Alone' /\ Asked' /\ PageKept' /\ Chased'
  <1> USE DEF docVars, pageVars, taskVars, userVars, lossVars
  <1> DEFINE done == [batch[b] EXCEPT !.at = "drain", !.live = {}, !.read = NoPage, !.locked = FALSE]
             lost == [done EXCEPT !.failed = @ \union Updates(b)]
  <1>1. batch[b].at = "write" /\ UNCHANGED <<row, queue, user>>
    BY DEF Write, At
  <1>2. \/ ~WriteNeeded(b) /\ Put(b, done) /\ UNCHANGED <<page, missed>>
        \/ page' = [exists |-> TRUE, refs |-> Written(b)] /\ Put(b, done) /\ UNCHANGED missed
        \/ Put(b, lost) /\ UNCHANGED <<page, missed>>
        \/ Put(b, done) /\ UNCHANGED page
           /\ missed' = missed \union (Of(batch[b].retracts) \intersect page.refs)
    <2> HIDE DEF done, lost
    <2> QED BY DEF Write, done, lost
  <1>3. /\ done.at = "drain" /\ done.peeked = batch[b].peeked
        /\ lost.at = "drain" /\ lost.peeked = batch[b].peeked /\ batch[b].retracts \subseteq lost.failed
    <2>1. batch[b] \in Runs /\ NoPage \in Pages
      BY DEF GhostInv, TypeOK, NoPage, Pages
    <2>2. done \in Runs /\ done.at = "drain" /\ done.peeked = batch[b].peeked
      BY <2>1 DEF Runs
    <2> HIDE DEF done
    <2> QED BY <2>2 DEF Runs, Updates
  <1>5. SameRows /\ Queued' = Queued /\ SameDocs
    BY <1>1 DEF SameRows, Queued, SameDocs
  <1> HIDE DEF done, lost
  <1>4. CASE ~WriteNeeded(b) /\ Put(b, done) /\ UNCHANGED <<page, missed>>
    <2>1. \A i : ~UnderWay(batch[b], i)
      BY <1>1, <1>4 DEF UnderWay, WriteNeeded
    <2> QED BY <1>1, <1>3, <1>4, <1>5, <2>1, GhostMoves
  <1>6. CASE Put(b, lost) /\ UNCHANGED <<page, missed>>
    <2>1. \A i : UnderWay(batch[b], i) => UnderWay(lost, i)
      BY <1>1, <1>3 DEF UnderWay
    <2> QED BY <1>1, <1>3, <1>5, <1>6, <2>1, GhostMoves
  <1>8. CASE Put(b, done) /\ UNCHANGED page
             /\ missed' = missed \union (Of(batch[b].retracts) \intersect page.refs)
    <2>1. \A i \in Queued : ~(queue[i].doc \in page.refs /\ queue[i].doc \notin missed' /\ UnderWay(batch[b], i))
      BY <1>1, <1>8 DEF UnderWay, Of
    <2>2. missed \subseteq missed'
      BY <1>8
    <2> QED BY <1>1, <1>3, <1>5, <1>8, <2>1, <2>2, GhostMoves
  <1>7. CASE page' = [exists |-> TRUE, refs |-> Written(b)] /\ Put(b, done) /\ UNCHANGED missed
    <2>1. \A c \in Batches : batch'[c] = IF c = b THEN done ELSE batch[c]
      BY <1>7 DEF Put, GhostInv, TypeOK
    <2>2. \A c \in Batches : c # b => batch[c].at = "idle" /\ batch[c].peeked = {}
      BY <1>1 DEF GhostInv, Alone
    <2>3. Alone' /\ \A c \in Batches : batch'[c].at # "write"
      BY <1>3, <2>1, <2>2 DEF Alone
    <2>4. Asked'
      BY <1>1, <1>5, AskedStays DEF GhostInv
    <2>5. PageKept'
      BY <1>7 DEF PageKept
    <2>6. ASSUME NEW d \in Docs, user'[d] \in {"queued", "done"}, d \notin missed', d \in page'.refs
          PROVE  \E i \in Retracts(d)' : Awaited(i)'
      <3>1. d \in Written(b)
        BY <1>7, <2>6
      <3>2. PICK i \in Retracts(d) : Unread(i)
        BY <1>1, <1>7, <2>6, <3>1 DEF GhostInv, Chased, ChasedFor
      <3>3. Retracts(d)' = Retracts(d)
        BY <1>1, <1>5 DEF Retracts
      <3>4. Awaited(i)'
        BY <1>3, <2>1, <3>2 DEF Awaited, Unread
      <3> QED BY <3>2, <3>3, <3>4
    <2>7. Chased'
      BY <2>3, <2>6 DEF Chased, ChasedFor
    <2> QED BY <2>3, <2>4, <2>5, <2>7
  <1> QED BY <1>2, <1>4, <1>6, <1>7, <1>8

(* Slots and rows of what the batch has read: a retract that failed stays    *)
(* queued, until it is buried.                                               *)
LEMMA GhostDrain ==
    ASSUME GhostInv, TypeOK', NEW b \in Batches, NEW i \in Ids, Drain(b, i)
    PROVE  Alone' /\ Asked' /\ PageKept' /\ Chased'
  <1> USE DEF docVars, pageVars, taskVars, userVars, lossVars
  <1> DEFINE f == [batch[b] EXCEPT !.mapped = @ \ {i}]
  <1>1. batch[b].at = "drain" /\ UNCHANGED <<queue, user, page, missed>> /\ Put(b, f) /\ batch[b] \in Runs
    BY DEF Drain, At, GhostInv, TypeOK
  <1>2. f.at = "drain" /\ f.peeked = batch[b].peeked /\ f.failed = batch[b].failed
    BY <1>1 DEF Runs
  <1> HIDE DEF f
  <1>3. SameDocs
    BY SlotGiven DEF Drain, GhostInv
  <1>4. SameRows /\ Queued' = Queued
    BY <1>1 DEF SameRows, Queued
  <1>5. \A j : UnderWay(batch[b], j) => UnderWay(f, j)
    BY <1>1, <1>2 DEF UnderWay
  <1> QED BY <1>1, <1>2, <1>3, <1>4, <1>5, GhostMoves

LEMMA GhostTrim ==
    ASSUME GhostInv, TypeOK', NEW b \in Batches, Trim(b)
    PROVE  Alone' /\ Asked' /\ PageKept' /\ Chased'
  <1> USE DEF docVars, pageVars, taskVars, userVars, lossVars
  <1> DEFINE s == [batch[b] EXCEPT !.at = "settle", !.mapped = {}, !.retracts = {}]
             f == [s EXCEPT !.held = @ \ TrimSet(b)]
             g == [s EXCEPT !.err = TRUE]
  <1>1. /\ batch[b].at = "drain" /\ UNCHANGED <<row, user, page, missed>>
        /\ \/ queue' = Without(TrimSet(b)) /\ Put(b, f)
           \/ UNCHANGED queue /\ Put(b, g)
    BY DEF Trim, At
  <1>2. /\ f.at = "settle" /\ f.peeked = batch[b].peeked
        /\ g.at = "settle" /\ g.peeked = batch[b].peeked
    <2>1. s \in Runs /\ s.at = "settle" /\ s.peeked = batch[b].peeked
      <3>1. batch[b] \in Runs
        BY DEF GhostInv, TypeOK
      <3> QED BY <3>1 DEF Runs
    <2> HIDE DEF s
    <2> QED BY <2>1 DEF Runs
  <1>3. SameDocs
    BY <1>1 DEF SameDocs
  <1> HIDE DEF f, g
  <1>4. PICK h : Put(b, h) /\ h.at = "settle" /\ h.peeked = batch[b].peeked
    BY <1>1, <1>2
  <1>5. \A j : UnderWay(h, j)
    BY <1>4 DEF UnderWay
  <1>6. /\ SameRows /\ (\A j \in Queued' : j \in Queued)
        /\ \A j \in Queued : j \in Queued' \/ j \in TrimSet(b)
    <2>1. CASE UNCHANGED queue
      BY <2>1 DEF SameRows, Queued
    <2>2. CASE queue' = Without(TrimSet(b))
      BY <2>2, RowsGo DEF GhostInv
    <2> QED BY <1>1, <2>1, <2>2
  <1>7. \A j \in TrimSet(b) : j \in batch[b].peeked /\ ~UnderWay(batch[b], j)
    BY <1>1 DEF TrimSet, UnderWay
  <1> QED BY <1>1, <1>3, <1>4, <1>5, <1>6, <1>7, GhostMoves

LEMMA GhostRequeue ==
    ASSUME GhostInv, TypeOK', NEW b \in Batches, NEW i \in Ids, Requeue(b, i)
    PROVE  Alone' /\ Asked' /\ PageKept' /\ Chased'
  <1> USE DEF docVars, pageVars, taskVars, userVars, lossVars
  <1> DEFINE f == [batch[b] EXCEPT !.failed = @ \ {i}, !.held = @ \ {i}]
             g == [batch[b] EXCEPT !.failed = @ \ {i}, !.err = TRUE]
             c == FailCount(i)
             r == [c EXCEPT !.st = "free", !.net = FALSE]
  <1>s. RequeueShape(b, i)
    BY RequeueCases
  <1>1. batch[b].at = "settle" /\ UNCHANGED <<user, page>> /\ (Put(b, f) \/ Put(b, g))
    BY <1>s DEF Requeue, At, RequeueShape, Through, Errs
  <1>2. /\ f.at = "settle" /\ f.peeked = batch[b].peeked
        /\ g.at = "settle" /\ g.peeked = batch[b].peeked
    <2>1. batch[b] \in Runs
      BY DEF GhostInv, TypeOK
    <2> QED BY <1>1, <2>1 DEF Runs
  <1>3. PICK h : h.at = "settle" /\ h.peeked = batch[b].peeked /\ Put(b, h)
    <2> HIDE DEF f, g
    <2> QED BY <1>1, <1>2
  <1>4. SameDocs
    <2>1. CASE row' = row
      BY <2>1 DEF SameDocs
    <2> QED BY <1>s, <2>1, SlotBack DEF RequeueShape, GhostInv
  <1>5. missed \subseteq missed' /\ \A j : UnderWay(h, j)
    BY <1>s, <1>3 DEF RequeueShape, UnderWay
  <1>6. i \in batch[b].peeked
    BY DEF Requeue, GhostInv, Known, Sound, WorksOn
  <1>7. CASE UNCHANGED queue
    <2>1. SameRows /\ Queued' = Queued
      BY <1>7 DEF SameRows, Queued
    <2> QED BY <1>1, <1>3, <1>4, <1>5, <2>1, GhostMoves
  <1>8. CASE i \in Queued /\ (queue' = [queue EXCEPT ![i] = c] \/ queue' = [queue EXCEPT ![i] = r])
    <2>1. /\ c \in Entries /\ c.doc = queue[i].doc /\ c.op = queue[i].op
          /\ c.st \in {"free", "fresh", "stale"}
          /\ r \in Entries /\ r.doc = queue[i].doc /\ r.op = queue[i].op /\ r.st = "free"
      BY <1>8, Counting DEF GhostInv
    <2> HIDE DEF c, r
    <2>2. SameRows /\ (\A j \in Queued : j \in Queued') /\ (\A j \in Queued' : j \in Queued)
      BY <1>8, <2>1, RowStays DEF GhostInv
    <2> QED BY <1>1, <1>3, <1>4, <1>5, <2>2, GhostMoves
  <1>9. CASE queue' = Without({i}) /\ (queue[i].op = "retract" => queue[i].doc \in missed')
    <2>1. /\ SameRows /\ (\A j \in Queued' : j \in Queued)
          /\ \A j \in Queued : j \in Queued' \/ j \in {i}
      BY <1>9, RowsGo DEF GhostInv
    <2> QED BY <1>1, <1>3, <1>4, <1>5, <1>6, <1>9, <2>1, GhostMoves
  <1>10. \/ UNCHANGED queue
         \/ i \in Queued /\ (queue' = [queue EXCEPT ![i] = c] \/ queue' = [queue EXCEPT ![i] = r])
         \/ queue' = Without({i}) /\ (queue[i].op = "retract" => queue[i].doc \in missed')
    <2>1. CASE i \in Queued /\ DropRow(b, i)
      BY <2>1 DEF DropRow
    <2>2. CASE i \in Queued /\ RetryRow(b, i)
      BY <2>2 DEF RetryRow
    <2> QED BY <2>1, <2>2 DEF Requeue
  <1> QED BY <1>7, <1>8, <1>9, <1>10

LEMMA GhostEnd ==
    ASSUME GhostInv, TypeOK', OneDelete, NEW b \in Batches, Finish(b) \/ FinishFailed(b)
    PROVE  Alone' /\ Asked' /\ PageKept' /\ Chased'
  <1> USE DEF docVars, pageVars, taskVars, userVars, lossVars
  <1>1. batch[b].at = "settle" /\ Put(b, Resting) /\ UNCHANGED <<row, queue, user, page, missed>>
    BY DEF Finish, FinishFailed, Settled, At, Redelivered, OneDelete
  <1>2. Resting.at = "idle" /\ Resting.peeked = {}
    BY DEF Resting
  <1>3. SameRows /\ Queued' = Queued /\ SameDocs
    BY <1>1 DEF SameRows, Queued, SameDocs
  <1> QED BY <1>1, <1>2, <1>3, GhostMoves

LEMMA GhostBatch ==
    ASSUME GhostInv, TypeOK', OneDelete, NEW b \in Batches, Step(b) \/ Crash(b)
    PROVE  Alone' /\ Asked' /\ PageKept' /\ Chased'
  <1>1. CASE Trigger(b) \/ Recheck(b)
    <2>1. /\ Free(b) /\ UNCHANGED <<row, user, page, missed>>
          /\ \E kind \in {"plain", "recheck"} : Claim(b, kind) \/ NothingClaimed(kind)
      BY <1>1 DEF Trigger, Recheck, docVars, pageVars, userVars, lossVars
    <2> QED BY <2>1, GhostClaim, GhostNothing
  <1>2. CASE ReduceNothing(b) \/ Reduce(b)
    BY <1>2, GhostReduce
  <1>3. CASE Trim(b) \/ \E i \in Ids : Drain(b, i) \/ Requeue(b, i)
    BY <1>3, GhostDrain, GhostTrim, GhostRequeue
  <1>5. ~SlugBusy(b) /\ ~Crash(b)
    BY DEF SlugBusy, Crash, OneDelete
  <1> QED BY <1>1, <1>2, <1>3, <1>5, GhostMap, GhostWrite, GhostEnd DEF Step

(* Scrubbing takes no retract. *)
LEMMA ScrubStep ==
    ASSUME TypeOK, NEW d \in Docs, ScrubIngest(d)
    PROVE  /\ SameRows /\ (\A i \in Queued' : i \in Queued)
           /\ \A i \in Queued : queue[i].op = "retract" => i \in Queued'
           /\ \A i \in Queued' : queue'[i] = queue[i] /\ (queue[i].doc = d => queue[i].op = "retract")
           /\ \A i \in Ids : queue[i] \in Entries =>
                  queue'[i] \in Entries /\ queue'[i].doc = queue[i].doc /\ queue'[i].op = queue[i].op
  <1> DEFINE S == {i \in Queued : queue[i].doc = d /\ queue[i].op = "ingest"}
  <1>1. queue' = Without(S)
    BY DEF ScrubIngest
  <1>2. \A i \in Queued : queue[i].op = "retract" => i \notin S
    OBVIOUS
  <1>3. \A i \in Queued : i \notin S /\ queue[i].doc = d => queue[i].op = "retract"
    BY QueuedRows DEF Entries
  <1> HIDE DEF S
  <1>4. /\ SameRows /\ queue' \in Table /\ \A i \in Ids : queue[i] \in Entries => queue'[i] \in Entries
        /\ \A i \in Queued : i \in Queued' \/ i \in S
        /\ \A i \in Queued' : i \in Queued /\ i \notin S /\ queue'[i] = queue[i]
    BY <1>1, RowsGo
  <1> QED BY <1>2, <1>3, <1>4 DEF SameRows

(* Requests and handlers that leave the page and the retracts alone. *)
LEMMA GhostDocument ==
    ASSUME GhostInv, TypeOK', NEW d \in Docs,
           Request(d) \/ PostProcess(d) \/ SiblingEnds(d) \/ CancelScrub(d) \/ DeleteScrub(d) \/ DeleteList(d)
    PROVE  Alone' /\ Asked' /\ PageKept' /\ Chased'
  <1> USE DEF docVars, pageVars, taskVars, userVars, lossVars
  <1>1. row \in [Docs -> Rows] /\ user \in [Docs -> {"idle", "cancelling", "cancelled", "marked",
                                                     "scrubbed", "listed", "queued", "done"}]
    BY DEF GhostInv, TypeOK, Rows
  <1>2. UNCHANGED <<batch, page>> /\ missed \subseteq missed' /\ \A e \in Docs : AskedFor(e)
    BY DEF DeletesUnasked, Request, Cancel, Delete, PostProcess, SiblingEnds, CancelScrub, DeleteScrub, DeleteList,
           GhostInv, Asked
  <1>3. \A e \in Docs \ {d} : row'[e] = row[e] /\ user'[e] = user[e]
    <2>1. CASE SiblingEnds(d)
      BY <1>1, <2>1 DEF SiblingEnds, GiveBack, FinalizeSubtask
    <2> QED BY <1>1, <2>1 DEF Request, Cancel, Delete, PostProcess, CancelScrub, DeleteScrub, DeleteList,
                              DeletesUnasked, DeleteEnds
  <1>4. \A e \in Docs : user'[e] \in {"queued", "done"} /\ e \notin missed' => user[e] \in {"queued", "done"}
    <2>1. \/ user'[d] = user[d] \/ user'[d] \in {"cancelling", "cancelled", "marked", "scrubbed", "listed"}
          \/ d \in missed'
      BY <1>1 DEF Request, Cancel, Delete, PostProcess, SiblingEnds, CancelScrub, DeleteScrub, DeleteList,
                  DeletesUnasked
    <2> QED BY <1>3, <2>1
  <1> DEFINE Others == \A e \in Docs \ {d} : \A i \in Queued' : queue'[i].doc = e =>
                           i \in Queued /\ queue[i].doc = e /\ queue'[i].op = queue[i].op
  <1>5. ASSUME Others, AskedFor(d)' PROVE Asked'
    <2>1. ASSUME NEW e \in Docs \ {d} PROVE AskedFor(e)'
      BY <1>2, <1>3, <1>5 DEF AskedFor, KnowledgeGone
    <2> QED BY <1>5, <2>1 DEF Asked
  <1>6. UNCHANGED queue =>
            /\ Others
            /\ \A i \in Queued : queue[i].op = "retract" => i \in Queued'
            /\ \A i \in Ids : queue[i] \in Entries => queue'[i].doc = queue[i].doc /\ queue'[i].op = queue[i].op
    BY DEF Queued
  <1>7. CASE PostProcess(d)
    <2>1. Enqueue(d, "ingest", FALSE) /\ Has(row[d], {"processing"}) /\ UNCHANGED user
      BY <1>7 DEF PostProcess
    <2>2. PICK k \in Ids : /\ k \notin Queued /\ k \in Queued' /\ queue[k] \notin Entries /\ queue'[k].doc = d
                           /\ \A i \in Ids : i # k => queue'[i] = queue[i]
      BY <2>1, EnqueuedRow DEF GhostInv
    <2>3. user'[d] \notin Scrubbed \union {"marked"}
      BY <1>2, <2>1 DEF AskedFor, KnowledgeGone, Has, Aborted
    <2>4. AskedFor(d)'
      BY <2>3 DEF AskedFor, Scrubbed
    <2>5. /\ Others
          /\ \A i \in Queued : queue[i].op = "retract" => i \in Queued'
          /\ \A i \in Ids : queue[i] \in Entries => queue'[i].doc = queue[i].doc /\ queue'[i].op = queue[i].op
      BY <2>2 DEF Queued
    <2> QED BY <1>2, <1>4, <1>5, <2>4, <2>5, GhostStill
  <1>8. CASE SiblingEnds(d)
    <2>1. UNCHANGED <<queue, user>> /\ GiveBack(d)
      BY <1>8 DEF SiblingEnds
    <2>2. SameDocs
      BY <2>1, SlotGiven DEF GhostInv
    <2>3. SameRows /\ Queued' = Queued
      BY <2>1 DEF SameRows, Queued
    <2>4. Asked'
      BY <2>1, <2>2, <2>3, AskedStays DEF GhostInv
    <2> QED BY <1>2, <1>4, <1>6, <2>1, <2>4, GhostStill
  <1>9. CASE Cancel(d)
    <2>1. UNCHANGED queue /\ user'[d] = "cancelling"
      BY <1>1, <1>9 DEF Cancel
    <2>2. AskedFor(d)'
      BY <2>1 DEF AskedFor, Scrubbed
    <2> QED BY <1>2, <1>4, <1>5, <1>6, <2>1, <2>2, GhostStill
  <1>10. CASE Delete(d)
    <2>1. UNCHANGED queue /\ user'[d] = "marked" /\ d \in Deletable /\ row'[d] = MarkedDeleting(row[d])
          /\ ~row[d].gone
      BY <1>1, <1>10 DEF Delete
    <2>2. KnowledgeGone(d)'
      BY <1>1, <2>1 DEF KnowledgeGone, MarkedDeleting, Aborted, Rows
    <2>3. AskedFor(d)'
      BY <2>1, <2>2 DEF AskedFor, Scrubbed
    <2> QED BY <1>2, <1>4, <1>5, <1>6, <2>1, <2>3, GhostStill
  <1>11. CASE DeleteList(d)
    <2>1. /\ UNCHANGED queue /\ user[d] = "scrubbed"
          /\ (UNCHANGED row /\ user'[d] = "listed") \/ row'[d].gone
      BY <1>1, <1>11 DEF DeleteList, DeletesUnasked, DeleteEnds, Removed, Rows
    <2>2. AskedFor(d)'
      BY <1>2, <2>1 DEF AskedFor, Scrubbed, KnowledgeGone, Queued
    <2> QED BY <1>2, <1>4, <1>5, <1>6, <2>1, <2>2, GhostStill
  <1>12. CASE CancelScrub(d) \/ DeleteScrub(d)
    <2>1. /\ ScrubIngest(d) /\ UNCHANGED row
          /\ user'[d] = "cancelled" \/ (user[d] = "marked" /\ user'[d] = "scrubbed")
      BY <1>1, <1>12 DEF CancelScrub, DeleteScrub
    <2>2. /\ SameRows /\ (\A i \in Queued' : i \in Queued)
          /\ \A i \in Queued : queue[i].op = "retract" => i \in Queued'
          /\ \A i \in Queued' : queue'[i] = queue[i] /\ (queue[i].doc = d => queue[i].op = "retract")
          /\ \A i \in Ids : queue[i] \in Entries =>
                 queue'[i] \in Entries /\ queue'[i].doc = queue[i].doc /\ queue'[i].op = queue[i].op
      BY <2>1, ScrubStep DEF GhostInv
    <2>3. AskedFor(d)'
      BY <1>2, <2>1, <2>2 DEF AskedFor, Scrubbed, KnowledgeGone
    <2>4. Others
      BY <2>2
    <2> QED BY <1>2, <1>4, <1>5, <2>2, <2>3, <2>4, GhostStill
  <1> QED BY <1>7, <1>8, <1>9, <1>10, <1>11, <1>12 DEF Request

(* The retract is queued: from now on the document is chased. *)
LEMMA GhostRetract ==
    ASSUME GhostInv, TypeOK', NEW d \in Docs, DeleteRetract(d)
    PROVE  Alone' /\ Asked' /\ PageKept' /\ Chased'
  <1> USE DEF docVars, pageVars, taskVars, userVars, lossVars
  <1>0. CASE Failing(TRUE) /\ DeletesUnasked(d) /\ UNCHANGED queue
    <2>1. /\ user[d] = "listed" /\ user'[d] = "done" /\ row'[d].gone
          /\ UNCHANGED <<queue, page, batch>> /\ missed' = missed \union {d}
          /\ \A e \in Docs \ {d} : user'[e] = user[e] /\ row'[e] = row[e]
      BY <1>0 DEF DeleteRetract, DeletesUnasked, DeleteEnds, Removed, GhostInv, TypeOK
    <2>2. Queued' = Queued
      BY <2>1 DEF Queued
    <2>3. ASSUME NEW e \in Docs PROVE AskedFor(e)'
      <3>1. AskedFor(e) /\ AskedFor(d)
        BY DEF GhostInv, Asked
      <3> QED BY <2>1, <2>2, <3>1 DEF AskedFor, KnowledgeGone, Scrubbed
    <2>4. Asked'
      BY <2>3 DEF Asked
    <2> QED BY <2>1, <2>2, <2>4, GhostStill
  <1> DEFINE Asks == /\ Enqueue(d, "retract", d \in seen[d])
                     /\ user' = [user EXCEPT ![d] = "queued"] /\ UNCHANGED <<row, missed>>
  <1>a. Asks \/ (Failing(TRUE) /\ DeletesUnasked(d) /\ UNCHANGED queue)
    BY DEF DeleteRetract
  <1> SUFFICES ASSUME Asks PROVE Alone' /\ Asked' /\ PageKept' /\ Chased'
    BY <1>0, <1>a
  <1>1. /\ user[d] = "listed" /\ Enqueue(d, "retract", d \in seen[d]) /\ (d \in seen[d]) \in BOOLEAN
        /\ UNCHANGED <<row, page, batch, missed>>
    BY DEF DeleteRetract
  <1>2. user'[d] = "queued" /\ \A e \in Docs \ {d} : user'[e] = user[e]
    BY <1>1 DEF DeleteRetract, GhostInv, TypeOK
  <1>3. PICK k \in Ids : /\ k \notin Queued /\ k \in Queued' /\ Unread(k) /\ queue[k] \notin Entries
                         /\ queue'[k].doc = d /\ queue'[k].op = "retract"
                         /\ \A i \in Ids : i # k => queue'[i] = queue[i]
    <2>1. PICK s \in BOOLEAN : Enqueue(d, "retract", s)
      BY <1>1
    <2> QED BY <2>1, EnqueuedRow DEF GhostInv
  <1>4. \A i \in Ids \ {k} : i \in Queued' <=> i \in Queued
    BY <1>3 DEF Queued
  <1>5. \A i \in Queued' : i \in Ids
    BY DEF Queued, Ids
  <1>6. Alone' /\ PageKept'
    BY <1>1 DEF GhostInv, Alone, PageKept
  <1>7. Asked'
    <2>1. ASSUME NEW e \in Docs PROVE AskedFor(e)'
      <3>1. AskedFor(e)
        BY DEF GhostInv, Asked
      <3>2. \A i \in Queued' : queue'[i].op = "retract" \/ (i \in Queued /\ queue'[i] = queue[i])
        BY <1>3, <1>4, <1>5
      <3> QED BY <1>1, <1>2, <3>1, <3>2 DEF AskedFor, KnowledgeGone, Scrubbed
    <2> QED BY <2>1 DEF Asked
  <1>8. \A i : (Awaited(i)' <=> Awaited(i)) /\ (Unread(i)' <=> Unread(i))
    BY <1>1 DEF Awaited, Unread, UnderWay
  <1>9. \A b \in Batches : Written(b)' = Written(b)
    <2>1. \A i \in Ids : queue[i] \in Entries => queue'[i].doc = queue[i].doc
      BY <1>3
    <2> QED BY <1>1, <2>1, WrittenStays DEF GhostInv
  <1>10. ASSUME NEW e \in Docs PROVE ChasedFor(e)'
    <2>1. CASE e = d
      <3>1. k \in Retracts(d)'
        BY <1>3 DEF Retracts
      <3>2. Awaited(k)' /\ Unread(k)'
        BY <1>3, <1>8 DEF Awaited, Unread
      <3> QED BY <2>1, <3>1, <3>2 DEF ChasedFor
    <2>2. CASE e # d
      <3>1. ChasedFor(e) /\ user'[e] = user[e]
        BY <1>2, <2>2 DEF GhostInv, Chased
      <3>2. Retracts(e) \subseteq Retracts(e)'
        BY <1>3, <1>4, QueuedRows DEF Retracts, GhostInv
      <3> QED BY <1>1, <1>8, <1>9, <3>1, <3>2 DEF ChasedFor
    <2> QED BY <2>1, <2>2
  <1> QED BY <1>6, <1>7, <1>10 DEF Chased

(* The request puts back the page as it has listed it, without the document: *)
(* nobody else is being deleted.                                             *)
LEMMA GhostStrip ==
    ASSUME GhostInv, TypeOK', OneDelete, NEW d \in Docs, DeleteStrip(d)
    PROVE  Alone' /\ Asked' /\ PageKept' /\ Chased'
  <1> USE DEF docVars, pageVars, taskVars, userVars, lossVars
  <1>1. /\ user[d] = "queued" /\ UNCHANGED <<queue, batch, missed>>
        /\ \/ UNCHANGED page
           \/ page.exists /\ page' = NoPage
           \/ page.exists /\ page' = [page EXCEPT !.refs = seen[d] \ {d}]
    BY DEF DeleteStrip
  <1>2. user'[d] = "done" /\ row'[d] = Removed(row[d])
        /\ \A e \in Docs \ {d} : user'[e] = user[e] /\ row'[e] = row[e]
    BY DEF DeleteStrip, DeleteEnds, GhostInv, TypeOK
  <1>3. row'[d].gone
    BY <1>2 DEF Removed, GhostInv, TypeOK
  <1>4. UNCHANGED page \/ (d \notin page'.refs /\ page.exists /\ (page'.exists \/ page'.refs = {}))
    BY <1>1 DEF NoPage, GhostInv, TypeOK, Pages
  <1>5. Queued' = Queued
    BY <1>1 DEF Queued
  <1>6. Alone' /\ PageKept'
    BY <1>1, <1>4 DEF GhostInv, Alone, PageKept
  <1>7. Asked'
    <2>1. ASSUME NEW e \in Docs PROVE AskedFor(e)'
      <3>1. AskedFor(e) /\ AskedFor(d)
        BY DEF GhostInv, Asked
      <3> QED BY <1>1, <1>2, <1>3, <1>5, <3>1 DEF AskedFor, KnowledgeGone, Scrubbed
    <2> QED BY <2>1 DEF Asked
  <1>8. \A i : (Awaited(i)' <=> Awaited(i)) /\ (Unread(i)' <=> Unread(i))
    BY <1>1 DEF Awaited, Unread, UnderWay
  <1>9. \A b \in Batches : Written(b)' = Written(b)
    BY <1>1, WrittenStays DEF GhostInv
  <1>10. ASSUME NEW e \in Docs, user'[e] \in {"queued", "done"}, e \notin missed' PROVE ChasedFor(e)'
    <2>1. user[e] \in {"queued", "done"}
      BY <1>1, <1>2, <1>10
    <2>2. e = d
      BY <1>1, <2>1 DEF GhostInv, Asked, AskedFor, Scrubbed, OneDelete
    <2>3. ChasedFor(e) /\ Retracts(e)' = Retracts(e)
      BY <1>1, <1>5 DEF GhostInv, Chased, Retracts
    <2> QED BY <1>1, <1>4, <1>8, <1>9, <2>1, <2>2, <2>3 DEF ChasedFor
  <1> QED BY <1>6, <1>7, <1>10 DEF Chased, ChasedFor

(* Leases that run out, and the process that starts again: whoever had been  *)
(* deleting starts over, and the retracts are still queued.                  *)
LEMMA GhostTime ==
    ASSUME GhostInv, TypeOK', Expire \/ Recover \/ LiteRestart
    PROVE  Alone' /\ Asked' /\ PageKept' /\ Chased'
  <1> USE DEF docVars, pageVars, taskVars, userVars, lossVars
  <1>1. CASE SlugLockExpires \/ Recover
    <2>1. UNCHANGED <<batch, row, queue, user, page, missed>>
      BY <1>1 DEF SlugLockExpires, Recover
    <2>2. Queued' = Queued
      BY <2>1 DEF Queued
    <2>3. Asked'
      BY <2>1, <2>2 DEF GhostInv, Asked, AskedFor, KnowledgeGone
    <2> QED BY <2>1, <2>2, <2>3, GhostStill
  <1>2. ASSUME NEW k \in Ids, ClaimExpires(k)
        PROVE  Alone' /\ Asked' /\ PageKept' /\ Chased'
    <2>1. k \in Queued /\ queue' = [queue EXCEPT ![k].st = "stale"] /\ UNCHANGED <<batch, row, user, page, missed>>
      BY <1>2 DEF ClaimExpires
    <2>2. queue[k] \in Entries /\ queue \in Table
      BY <2>1, QueuedRows DEF GhostInv, TypeOK, Table
    <2>3. /\ queue'[k].st = "stale" /\ queue'[k].doc = queue[k].doc /\ queue'[k].op = queue[k].op
          /\ \A i \in Ids : i # k => queue'[i] = queue[i]
      BY <2>1, <2>2 DEF Table, Entries
    <2>4. Queued' = Queued
      BY <2>1, <2>3 DEF Queued
    <2>5. \A i \in Ids : queue'[i].doc = queue[i].doc /\ queue'[i].op = queue[i].op
      BY <2>3
    <2>6. Asked'
      BY <2>1, <2>4, <2>5 DEF GhostInv, Asked, AskedFor, KnowledgeGone, Queued
    <2> QED BY <2>1, <2>4, <2>5, <2>6, GhostStill
  <1>3. CASE LiteRestart
    <2>1. /\ batch' = [b \in Batches |-> Resting] /\ UNCHANGED <<queue, page, missed>>
          /\ user' = [d \in Docs |-> IF user[d] = "done" THEN "done" ELSE "idle"]
      BY <1>3 DEF LiteRestart
    <2>2. \A b \in Batches : batch'[b].at = "idle" /\ batch'[b].peeked = {}
      BY <2>1 DEF Resting
    <2>3. \A d \in Docs : row[d].gone => row'[d].gone
      <3>1. \A d \in Docs : row[d].gone => row'[d] = row[d]
        BY <1>3 DEF LiteRestart, Has
      <3> QED BY <3>1
    <2>4. Queued' = Queued /\ \A d \in Docs : Retracts(d)' = Retracts(d)
      BY <2>1 DEF Queued, Retracts
    <2>5. Alone' /\ PageKept'
      BY <2>1, <2>2 DEF Alone, PageKept, GhostInv
    <2>6. ASSUME NEW d \in Docs PROVE AskedFor(d)' /\ ChasedFor(d)'
      <3>1. AskedFor(d) /\ ChasedFor(d)
        BY DEF GhostInv, Asked, Chased
      <3>2. user'[d] = "idle" \/ (user'[d] = "done" /\ user[d] = "done")
        BY <2>1
      <3>3. AskedFor(d)'
        BY <2>1, <2>3, <2>4, <3>1, <3>2 DEF AskedFor, Scrubbed, KnowledgeGone
      <3>4. \A i : Awaited(i)'
        BY <2>2 DEF Awaited
      <3>5. ChasedFor(d)'
        BY <2>1, <2>2, <2>4, <3>1, <3>2, <3>4 DEF ChasedFor
      <3> QED BY <3>3, <3>5
    <2> QED BY <2>5, <2>6 DEF Asked, Chased
  <1> QED BY <1>1, <1>2, <1>3 DEF Expire

LEMMA GhostStep ==
    ASSUME GhostInv, OneDelete, [Next]_vars
    PROVE  GhostInv'
  <1>1. TypeOK' /\ Known'
    BY TypedStep DEF GhostInv
  <1>2. CASE UNCHANGED vars
    <2>1. UNCHANGED <<batch, row, queue, user, page, missed>>
      BY <1>2 DEF vars, docVars, pageVars, userVars, lossVars
    <2>2. Queued' = Queued
      BY <2>1 DEF Queued
    <2>3. Asked'
      BY <2>1, <2>2 DEF GhostInv, Asked, AskedFor, KnowledgeGone
    <2> QED BY <1>1, <2>1, <2>2, <2>3, GhostStill DEF GhostInv
  <1>3. ASSUME NEW d \in Docs, Request(d) \/ Continue(d)
        PROVE  Alone' /\ Asked' /\ PageKept' /\ Chased'
    BY <1>1, <1>3, GhostDocument, GhostRetract, GhostStrip DEF Continue
  <1>4. ASSUME Next PROVE Alone' /\ Asked' /\ PageKept' /\ Chased'
    BY <1>1, <1>3, <1>4, GhostBatch, GhostTime DEF Next
  <1> QED BY <1>1, <1>2, <1>4 DEF GhostInv

LEMMA InitGhost == Init => GhostInv
  <1> SUFFICES ASSUME Init PROVE GhostInv
    OBVIOUS
  <1>1. TypeOK /\ Known
    BY InitIInv DEF IInv
  <1>2. Alone /\ PageKept
    BY DEF Init, Alone, PageKept, Resting, NoPage
  <1>3. Asked /\ Chased
    BY DEF Init, Asked, AskedFor, Chased, ChasedFor, Scrubbed
  <1> QED BY <1>1, <1>2, <1>3 DEF GhostInv

(* Without Redis, a document whose delete has ended and whose retract has    *)
(* left the queue is not cited by the wiki, whatever batch was at work on it *)
(* when it was deleted, however often the process was restarted meanwhile    *)
(* and whichever writes, model calls, lookups and settling statements fail:  *)
(* a retract goes to every page that cites the document by now, and is       *)
(* trimmed only after the page has been written (cleanupWikiReferences,      *)
(* mapOneDocument, reduceSlugUpdates, liteLocks). The exceptions are those   *)
(* of GhostFree, each a retract the code gives up with a log line: it could  *)
(* not be queued, its lookup or its page could not be read, the model failed *)
(* to rewrite the page, or it was buried after its last try.                 *)
THEOREM WikiForgets ==
    ASSUME OneDelete
    PROVE  Spec => []GhostFree
  <1>0. OneDelete
    OBVIOUS
  <1>1. Init => GhostInv
    BY InitGhost
  <1>2. GhostInv /\ [Next]_vars => GhostInv'
    BY <1>0, GhostStep
  <1>3. GhostInv => GhostFree
    BY DEF GhostInv, Chased, ChasedFor, Retracts, GhostFree, Retracted
  <1> QED BY <1>1, <1>2, <1>3, PTL DEF Spec
=============================================================================
