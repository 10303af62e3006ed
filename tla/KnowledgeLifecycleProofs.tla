---------------------- MODULE KnowledgeLifecycleProofs ----------------------
(* The types of KnowledgeLifecycle, for every value of the constants. *)
EXTENDS KnowledgeLifecycle, FiniteSetTheorems, WellFoundedInduction, TLAPS

(* First picks an element of any set of numbers that has one. *)
LEMMA FirstIsIn ==
  ASSUME NEW T \in SUBSET Nat, T # {} PROVE First(T) \in T
<1>1. PICK x \in T : \A y \in T : ~ (<<y, x>> \in OpToRel(<, Nat))
  BY NatLessThanWellFounded, WFMin
<1>2. ASSUME NEW m \in T PROVE x <= m
  <2>1. <<m, x>> \in Nat \X Nat /\ <<m, x>>[1] = m /\ <<m, x>>[2] = x
    OBVIOUS
  <2>2. ~ (m < x)
    BY <1>1, <2>1 DEF OpToRel
  <2> QED
    BY <2>2
<1> QED
  BY <1>2 DEF First

(* A set of slots is finite, so its size is a number. *)
LEMMA SlotsAreCounted ==
  ASSUME NEW T \in SUBSET Slots PROVE Cardinality(T) \in Nat
<1>1. Questions + Graphs \in Nat
  BY PipelineAssumption
<1>2. IsFiniteSet(1..(Questions + Graphs))
  BY <1>1, FS_Interval
<1>3. IsFiniteSet(Slots)
  <2>1. IsFiniteSet({0}) /\ IsFiniteSet({})
    BY FS_EmptySet, FS_Singleton
  <2> QED
    BY <1>2, <2>1, FS_Union DEF Slots
<1>4. IsFiniteSet(T)
  BY <1>3, FS_Subset
<1> QED
  BY <1>4, FS_CardinalityType

(* Adding a task to the queue, and taking one out. *)
LEMMA BagPlus ==
  ASSUME NEW B, IsABag(B), BagToSet(B) \subseteq Tasks, NEW t \in Tasks
  PROVE  LET C == B (+) SetToBag({t}) IN IsABag(C) /\ BagToSet(C) \subseteq Tasks
  BY DEF IsABag, BagToSet, SetToBag, (+)

LEMMA BagMinus ==
  ASSUME NEW B, IsABag(B), BagToSet(B) \subseteq Tasks, NEW t \in Tasks
  PROVE  LET C == B (-) SetToBag({t}) IN IsABag(C) /\ BagToSet(C) \subseteq Tasks
  BY DEF IsABag, BagToSet, SetToBag, (-)
----------------------------------------------------------------------------
(* Every statement on the row keeps its columns in their types. *)
LEMMA RowStatements ==
  ASSUME row \in Rows
  PROVE  /\ \A s \in Statuses : Saved(row, s) \in Rows
         /\ \A n \in Nat : HandedOff(row, n) \in Rows
         /\ ZeroCount(row) \in Rows /\ Decremented(row) \in Rows
         /\ Promoted(row) \in Rows /\ CompletedAtOnce(row) \in Rows
         /\ CancelledByUser(row) \in Rows /\ FailedIfActive(row) \in Rows
         /\ MarkedDeleting(row) \in Rows /\ Removed(row) \in Rows
         /\ SweptStuck(row) \in Rows /\ SweptDelete(row) \in Rows
<1> USE DEF Rows, Has
<1>1. \A s \in Statuses : Saved(row, s) \in Rows
  BY DEF Saved
<1>2. \A n \in Nat : HandedOff(row, n) \in Rows
  BY DEF HandedOff, Statuses
<1>3. ZeroCount(row) \in Rows
  BY DEF ZeroCount
<1>4. Decremented(row) \in Rows
  BY DEF Decremented
<1>5. Promoted(row) \in Rows
  BY DEF Promoted, CanPromote, Statuses
<1>6. CompletedAtOnce(row) \in Rows
  BY DEF CompletedAtOnce, Statuses
<1>7. CancelledByUser(row) \in Rows
  BY DEF CancelledByUser, Statuses
<1>8. FailedIfActive(row) \in Rows
  BY DEF FailedIfActive, Statuses
<1>9. MarkedDeleting(row) \in Rows /\ Removed(row) \in Rows
  BY DEF MarkedDeleting, Removed, Statuses
<1>10. SweptStuck(row) \in Rows /\ SweptDelete(row) \in Rows
  BY DEF SweptStuck, SweptDelete, Statuses
<1> QED
  BY <1>1, <1>2, <1>3, <1>4, <1>5, <1>6, <1>7, <1>8, <1>9, <1>10

(* The locals of a handler, without what it relies on. *)
Locals == [pc : PCs, job : Tasks, att : 0..MaxAttempt, seen : Statuses \cup {"none"},
           todo : SUBSET Nat, short : SUBSET Nat]

LEMMA FramesAreLocals == Frames = {f \in Locals : Sound(f)}
  BY DEF Frames, Locals

(* The program counters that promise nothing about todo and seen. *)
PlainPCs == PCs \ (SavingPCs \cup {"post.handoff", "post.spawn", "mm.enqueue", "mm.set"})

LEMMA IdleIsFrame == Idle \in Frames
<1>1. NoTask \in Tasks
  BY PipelineAssumption DEF NoTask, Task, Tasks, Kinds
<1>2. Idle \in [pc : PCs, job : Tasks, att : 0..MaxAttempt, seen : Statuses \cup {"none"},
               todo : SUBSET Nat, short : SUBSET Nat]
  BY <1>1, PipelineAssumption DEF Idle, PCs
<1>3. Sound(Idle)
  BY DEF Idle, Sound, SavingPCs, SubtaskPCs, AttemptlessPCs
<1> QED
  BY <1>2, <1>3 DEF Frames

(* A step to a plain program counter keeps the locals as they are. *)
LEMMA GotoPlain ==
  ASSUME TypeOK, NEW p \in Procs, NEW pc \in PlainPCs,
         pc \in AttemptlessPCs \/ proc[p].pc \notin AttemptlessPCs,
         pc \in SubtaskPCs => proc[p].pc \in SubtaskPCs, Goto(p, pc)
  PROVE  proc' \in [Procs -> Frames]
<1>1. proc[p] \in Frames
  BY DEF TypeOK
<1>2. [proc[p] EXCEPT !.pc = pc] \in Frames
  <2> DEFINE g == [proc[p] EXCEPT !.pc = pc]
  <2>1. pc \in PCs /\ proc[p] \in Locals /\ Sound(proc[p])
    BY <1>1, FramesAreLocals DEF PlainPCs
  <2>2. g \in Locals /\ g.pc = pc /\ g.att = proc[p].att /\ g.job = proc[p].job
    BY <2>1 DEF Locals
  <2>3. Sound(g)
    BY <2>1, <2>2 DEF Sound, PlainPCs, SavingPCs
  <2> QED
    BY <2>2, <2>3, FramesAreLocals
<1> QED
  BY <1>2 DEF Goto, TypeOK

(* A step of the summary that goes on with the row it has read. *)
LEMMA GotoSaving ==
  ASSUME TypeOK, NEW p \in Procs, NEW pc \in SavingPCs, proc[p].pc \in SavingPCs,
         pc = "sum.again" => ~FinalTry(p), Goto(p, pc)
  PROVE  proc' \in [Procs -> Frames]
<1>1. proc[p] \in Frames
  BY DEF TypeOK
<1>2. [proc[p] EXCEPT !.pc = pc] \in Frames
  <2>1. pc = "sum.again" => proc[p].job.try < MaxRetry
    BY <1>1, PipelineAssumption DEF FinalTry, Frames, Tasks
  <2> QED
    BY <1>1, <2>1 DEF Frames, Sound, SavingPCs, SubtaskPCs, AttemptlessPCs, PCs
<1> QED
  BY <1>2 DEF Goto, TypeOK

LEMMA LeaveIsTyped ==
  ASSUME TypeOK, NEW p \in Procs, Leave(p) PROVE proc' \in [Procs -> Frames]
  BY IdleIsFrame DEF Leave, TypeOK

LEMMA FinishIsTyped ==
  ASSUME TypeOK, NEW p \in Procs, Finish(p) PROVE proc' \in [Procs -> Frames]
<1>1. "ack" \in PlainPCs /\ "ack" \in AttemptlessPCs /\ "ack" \notin SubtaskPCs
  BY DEF PlainPCs, PCs, SavingPCs, AttemptlessPCs, SubtaskPCs
<1> QED
  BY <1>1, GotoPlain, LeaveIsTyped DEF Finish

QueueOK == IsABag(queue) /\ BagToSet(queue) \subseteq Tasks

LEMMA AddIsTyped ==
  ASSUME TypeOK, NEW t \in Tasks, Add(t) PROVE QueueOK'
  BY BagPlus DEF Add, QueueOK, TypeOK

(* Only a task that has a try left is retried. *)
LEMMA RetryIsTyped ==
  ASSUME TypeOK, NEW p \in Procs, ~FinalTry(p), Retry(p) PROVE QueueOK'
<1>1. proc[p].job \in Tasks
  BY DEF TypeOK, Frames
<1>2. [proc[p].job EXCEPT !.try = @ + 1] \in Tasks
  BY <1>1, PipelineAssumption DEF Tasks, FinalTry
<1> QED
  BY <1>2, AddIsTyped DEF Retry

LEMMA DropIsTyped ==
  ASSUME TypeOK, NEW w, NEW t \in BagToSet(queue), Drop(w, t) PROVE TypeOK'
<1>1. t \in Tasks
  BY DEF TypeOK
<1>2. QueueOK'
  BY <1>1, BagMinus DEF Drop, QueueOK, TypeOK
<1> QED
  BY <1>2 DEF Drop, QueueOnly, QueueOK, TypeOK

LEMMA TakeIsTyped ==
  ASSUME TypeOK, NEW w, NEW t \in BagToSet(queue), NEW pc \in PlainPCs,
         pc \in AttemptlessPCs \/ t.att # 0, pc \in SubtaskPCs => t.kind \in Enrichment,
         NEW seen \in Statuses \cup {"none"}, Take(w, t, pc, seen)
  PROVE  TypeOK'
<1>1. t \in Tasks /\ w \in Procs
  BY DEF TypeOK, Take, Procs
<1>2. QueueOK'
  BY <1>1, BagMinus DEF Take, QueueOK, TypeOK
<1>3. [Idle EXCEPT !.pc = pc, !.job = t, !.att = t.att, !.seen = seen] \in Frames
  <2> DEFINE g == [Idle EXCEPT !.pc = pc, !.job = t, !.att = t.att, !.seen = seen]
  <2>1. pc \in PCs /\ t.att \in 0..MaxAttempt /\ Idle \in Locals
    BY <1>1, IdleIsFrame, FramesAreLocals DEF PlainPCs, Tasks
  <2>2. g \in Locals /\ g.pc = pc /\ g.att = t.att /\ g.job = t
    BY <1>1, <2>1 DEF Locals
  <2>3. Sound(g)
    BY <2>2 DEF Sound, PlainPCs, SavingPCs
  <2> QED
    BY <2>2, <2>3, FramesAreLocals
<1>4. proc' \in [Procs -> Frames]
  BY <1>1, <1>3 DEF Take, TypeOK
<1> QED
  BY <1>2, <1>4 DEF Take, QueueOnly, QueueOK, TypeOK

LEMMA ReturnErrorIsTyped ==
  ASSUME TypeOK, NEW p \in Procs, ReturnError(p) PROVE TypeOK'
<1>1. proc' \in [Procs -> Frames]
  BY LeaveIsTyped DEF ReturnError
<1>2. row' \in Rows
  BY RowStatements DEF ReturnError, TypeOK
<1>3. QueueOK'
  BY RetryIsTyped DEF ReturnError, QueueOK, TypeOK
<1> QED
  BY <1>1, <1>2, <1>3 DEF ReturnError, QueueOK, TypeOK
----------------------------------------------------------------------------
(* A step that only moves a process, or moves it and writes one thing. *)
LEMMA MoveIsTyped ==
  ASSUME TypeOK, proc' \in [Procs -> Frames], ProcOnly PROVE TypeOK'
  BY DEF TypeOK, ProcOnly, RowOnly

LEMMA RowStepIsTyped ==
  ASSUME TypeOK, proc' \in [Procs -> Frames], row' \in Rows, RowOnly PROVE TypeOK'
  BY DEF TypeOK, RowOnly

LEMMA StoredStepIsTyped ==
  ASSUME TypeOK, proc' \in [Procs -> Frames], stored' \subseteq Attempts \X Parts, StoredOnly
  PROVE  TypeOK'
  BY DEF TypeOK, StoredOnly

LEMMA QueueStepIsTyped ==
  ASSUME TypeOK, proc' \in [Procs -> Frames], QueueOK', QueueOnly PROVE TypeOK'
  BY DEF TypeOK, QueueOnly, QueueOK

(* What the type says of a running process. *)
LEMMA FrameIsTyped ==
  ASSUME TypeOK, NEW p \in Procs
  PROVE  /\ proc[p].job \in Tasks /\ proc[p].seen \in Statuses \cup {"none"}
         /\ proc[p].todo \subseteq Nat /\ proc[p].short \subseteq Nat /\ Sound(proc[p])
         /\ Att(p) \in 0..MaxAttempt
         /\ proc[p].pc \notin AttemptlessPCs => Att(p) \in Attempts
<1>1. proc[p] \in Frames
  BY DEF TypeOK
<1> QED
  BY <1>1, PipelineAssumption DEF Frames, Sound, Att, Attempts

(* A Save whose outcome nobody looks at. *)
LEMMA TrySaveIsTyped ==
  ASSUME TypeOK, NEW s \in Statuses, TrySave(s) PROVE row' \in Rows
  BY RowStatements DEF TrySave, TypeOK

(* What a handler stores for its attempt. *)
LEMMA StoresIsTyped ==
  ASSUME TypeOK, NEW p \in Procs, proc[p].pc \notin AttemptlessPCs, NEW part \in Parts
  PROVE  stored \cup {<<Att(p), part>>} \subseteq Attempts \X Parts
  BY FrameIsTyped DEF TypeOK
----------------------------------------------------------------------------
(* ProcessDocument. *)
LEMMA DocStepIsTyped ==
  ASSUME TypeOK, NEW w \in Workers, DocStep(w) PROVE TypeOK'
<1> w \in Procs
  BY DEF Procs
<1> USE DEF At, PlainPCs, PCs, SavingPCs, SubtaskPCs, AttemptlessPCs
<1>1. CASE \E t \in BagToSet(queue) : DocEnter(w, t)
  <2>1. PICK t \in BagToSet(queue) : DocEnter(w, t)
    BY <1>1
  <2>2. t.att # 0 /\ row.status \in Statuses
    BY <2>1 DEF DocEnter, TypeOK, Tasks, Rows
  <2> QED
    BY <2>1, <2>2, DropIsTyped, TakeIsTyped DEF DocEnter
<1>2. CASE DocRecheck(w)
  BY <1>2, GotoPlain, FinishIsTyped, MoveIsTyped DEF DocRecheck
<1>3. CASE DocMark(w)
  <2>1. row' \in Rows
    BY <1>3, RowStatements DEF DocMark, TypeOK, Statuses
  <2> QED
    BY <1>3, <2>1, GotoPlain, FinishIsTyped, RowStepIsTyped DEF DocMark
<1>4. CASE DocConvert(w)
  BY <1>4, GotoPlain, MoveIsTyped DEF DocConvert
<1>5. CASE DocConvertError(w)
  <2>1. row' \in Rows
    BY <1>5, RowStatements DEF DocConvertError, TypeOK, Statuses
  <2>2. QueueOK'
    BY <1>5, RetryIsTyped DEF DocConvertError, TypeOK, QueueOK
  <2>3. proc' \in [Procs -> Frames]
    BY <1>5, LeaveIsTyped DEF DocConvertError
  <2> QED
    BY <1>5, <2>1, <2>2, <2>3 DEF DocConvertError, TypeOK, QueueOK
<1>6. CASE DocFatal(w)
  <2>1. row' \in Rows
    BY <1>6, TrySaveIsTyped DEF DocFatal, Statuses
  <2> QED
    BY <1>6, <2>1, FinishIsTyped, RowStepIsTyped DEF DocFatal
<1>7. CASE ChunksCheck(w)
  BY <1>7, GotoPlain, FinishIsTyped, MoveIsTyped DEF ChunksCheck
<1>8. CASE ChunksClean(w)
  <2>1. stored' \subseteq Attempts \X Parts
    BY <1>8 DEF ChunksClean, TryKeeping, TypeOK
  <2> QED
    BY <1>8, <2>1, GotoPlain, StoredStepIsTyped DEF ChunksClean
<1>9. CASE ChunksRecheck(w)
  BY <1>9, GotoPlain, FinishIsTyped, MoveIsTyped DEF ChunksRecheck
<1>10. CASE ChunksWrite(w)
  <2>1. stored' \subseteq Attempts \X Parts
    BY <1>10, StoresIsTyped DEF ChunksWrite, Parts
  <2> QED
    BY <1>10, <2>1, GotoPlain, StoredStepIsTyped DEF ChunksWrite
<1>11. CASE ChunksBeforeIndex(w)
  <2>1. stored' \subseteq Attempts \X Parts
    BY <1>11 DEF ChunksBeforeIndex, DropChunks, TryKeeping, TypeOK
  <2> QED
    BY <1>11, <2>1, GotoPlain, FinishIsTyped, StoredStepIsTyped DEF ChunksBeforeIndex
<1>12. CASE ChunksIndex(w)
  <2>1. stored' \subseteq Attempts \X Parts
    BY <1>12, StoresIsTyped DEF ChunksIndex, Parts
  <2> QED
    BY <1>12, <2>1, GotoPlain, StoredStepIsTyped DEF ChunksIndex
<1>13. CASE ChunksIndexError(w)
  <2>1. row' \in Rows
    BY <1>13, TrySaveIsTyped DEF ChunksIndexError, Statuses
  <2> QED
    BY <1>13, <2>1, GotoPlain, RowStepIsTyped DEF ChunksIndexError
<1>14. CASE ChunksUndo(w)
  <2>1. stored' \subseteq Attempts \X Parts
    BY <1>14 DEF ChunksUndo, DropChunksAndIndex, TryKeeping, TypeOK
  <2> QED
    BY <1>14, <2>1, FinishIsTyped, StoredStepIsTyped DEF ChunksUndo
<1>15. CASE ChunksFinal(w)
  <2>1. stored' \subseteq Attempts \X Parts
    BY <1>15 DEF ChunksFinal, DropChunksAndIndex, TryKeeping, TypeOK
  <2> QED
    BY <1>15, <2>1, GotoPlain, FinishIsTyped, StoredStepIsTyped DEF ChunksFinal
<1>16. CASE ChunksSave(w)
  <2>1. row' \in Rows
    BY <1>16, TrySaveIsTyped DEF ChunksSave, Statuses
  <2>2. proc' \in [Procs -> Frames]
    <3>1. CASE Goto(w, "doc.post")
      BY <1>16, <3>1, GotoPlain DEF ChunksSave
    <3>2. CASE Images > 0 /\ Goto(w, "mm.set")
      BY <1>16, <3>2 DEF ChunksSave, Goto, TypeOK, Frames, Sound
    <3> QED
      BY <1>16, <3>1, <3>2 DEF ChunksSave
  <2> QED
    BY <1>16, <2>1, <2>2, RowStepIsTyped DEF ChunksSave
<1>17. CASE EnqueuePost(w)
  <2>1. Task("post", Att(w), 0) \in Tasks
    BY FrameIsTyped, PipelineAssumption DEF Task, Tasks, Kinds
  <2>2. QueueOK'
    BY <1>17, <2>1, AddIsTyped DEF EnqueuePost, Enqueue, QueueOK, TypeOK
  <2> QED
    BY <1>17, <2>2, FinishIsTyped, QueueStepIsTyped DEF EnqueuePost
<1>18. CASE SetMultimodal(w)
  <2>1. Images > 0 /\ 1 \in 1..Images /\ 1..Images \subseteq Nat
    BY <1>18, FrameIsTyped, PipelineAssumption DEF SetMultimodal, Sound
  <2>2. [proc[w] EXCEPT !.pc = "mm.enqueue", !.todo = 1..Images] \in Frames
    <3>1. proc[w] \in Frames /\ proc[w].pc = "mm.set"
      BY <1>18 DEF SetMultimodal, TypeOK
    <3>2. 1..Images # {} /\ 1..Images \in SUBSET Nat
      BY <2>1
    <3> QED
      BY <3>1, <3>2 DEF Frames, Sound
  <2>3. proc' \in [Procs -> Frames]
    BY <1>18, <2>2 DEF SetMultimodal, TypeOK
  <2> QED
    BY <1>18, <2>3, <2>2, PipelineAssumption DEF SetMultimodal, TypeOK
<1>19. CASE EnqueueImage(w)
  <2> DEFINE n == First(proc[w].todo)
             rest == proc[w].todo \ {n}
  <2>1. n \in 1..Images /\ rest \subseteq 1..Images
    BY <1>19, FrameIsTyped, FirstIsIn DEF EnqueueImage, Sound
  <2>2. Task("image", Att(w), n) \in Tasks
    BY <1>19, <2>1, FrameIsTyped, PipelineAssumption DEF EnqueueImage, Task, Tasks, Kinds, Attempts
  <2>3. QueueOK'
    BY <1>19, <2>2, AddIsTyped DEF EnqueueImage, Enqueue, QueueOK, TypeOK
  <2>4. proc' \in [Procs -> Frames]
    <3>1. CASE rest = {}
      BY <1>19, <3>1, FinishIsTyped DEF EnqueueImage
    <3>2. CASE rest # {}
      BY <1>19, <2>1, <3>2 DEF EnqueueImage, TypeOK, Frames, Sound
    <3> QED
      BY <3>1, <3>2
  <2> QED
    BY <1>19, <2>3, <2>4, QueueStepIsTyped DEF EnqueueImage
<1> QED
  BY <1>1, <1>2, <1>3, <1>4, <1>5, <1>6, <1>7, <1>8, <1>9, <1>10, <1>11, <1>12, <1>13, <1>14,
     <1>15, <1>16, <1>17, <1>18, <1>19 DEF DocStep
----------------------------------------------------------------------------
(* PostProcess. *)
LEMMA PostPCs == {"post.list", "post.handoff", "post.spawn", "post.release"}
                    \subseteq PCs \ (SavingPCs \cup SubtaskPCs)
  BY DEF PCs, SavingPCs, SubtaskPCs

LEMMA PostStepIsTyped ==
  ASSUME TypeOK, NEW w \in Workers, PostStep(w) PROVE TypeOK'
<1> w \in Procs
  BY DEF Procs
<1> USE DEF At, PlainPCs, PCs, SavingPCs, SubtaskPCs, AttemptlessPCs
<1>1. CASE \E t \in BagToSet(queue) : PostEnter(w, t)
  <2>1. PICK t \in BagToSet(queue) : PostEnter(w, t)
    BY <1>1
  <2>2. row.status \in Statuses
    BY DEF TypeOK, Rows
  <2> QED
    BY <2>1, <2>2, DropIsTyped, TakeIsTyped DEF PostEnter
<1>2. CASE PostMissing(w)
  BY <1>2, ReturnErrorIsTyped DEF PostMissing
<1>3. CASE PostAttempt(w)
  <2> HIDE DEF PlainPCs, PCs, SavingPCs, SubtaskPCs, AttemptlessPCs
  <2> DEFINE g == [proc[w] EXCEPT !.pc = "post.list", !.att = latest]
  <2>1. proc[w] \in Locals /\ latest \in 0..MaxAttempt /\ latest # 0
    BY FramesAreLocals, PipelineAssumption DEF TypeOK, Attempts
  <2>2. g \in Locals /\ g.pc = "post.list" /\ g.att = latest
    BY <2>1, PostPCs DEF Locals
  <2>3. g \in Frames
    BY <2>1, <2>2, PostPCs, FramesAreLocals DEF Sound
  <2> QED
    BY <1>3, <2>3, MoveIsTyped DEF PostAttempt, TypeOK
<1>4. CASE PostList(w)
  <2> HIDE DEF PlainPCs, PCs, SavingPCs, SubtaskPCs, AttemptlessPCs
  <2>1. Slots \subseteq Nat /\ {} \subseteq Slots
    BY PipelineAssumption DEF Slots
  <2>2. ASSUME NEW T \in SUBSET Slots
        PROVE  [proc[w] EXCEPT !.pc = "post.handoff", !.todo = T] \in Frames
    <3> DEFINE g == [proc[w] EXCEPT !.pc = "post.handoff", !.todo = T]
    <3>1. proc[w] \in Locals /\ Att(w) # 0
      BY <1>4, FramesAreLocals, FrameIsTyped DEF PostList, TypeOK, Attempts, AttemptlessPCs
    <3>2. g \in Locals /\ g.pc = "post.handoff" /\ g.todo = T /\ g.att # 0
      BY <2>1, <3>1, PostPCs DEF Locals, Att
    <3> QED
      BY <3>2, PostPCs, FramesAreLocals DEF Sound
  <2>3. proc' \in [Procs -> Frames]
    <3>1. CASE Finish(w)
      BY <3>1, FinishIsTyped
    <3>2. CASE \E T \in SUBSET Slots :
                 proc' = [proc EXCEPT ![w].pc = "post.handoff", ![w].todo = T]
      <4>1. PICK T \in SUBSET Slots :
                proc' = [proc EXCEPT ![w].pc = "post.handoff", ![w].todo = T]
        BY <3>2
      <4> DEFINE g == [proc[w] EXCEPT !.pc = "post.handoff", !.todo = T]
      <4>2. g \in Frames /\ proc' = [proc EXCEPT ![w] = g]
        BY <2>2, <4>1
      <4> HIDE DEF g
      <4> QED
        BY <4>2 DEF TypeOK
    <3>3. CASE proc[w].seen = "processing"
      <4>1. PICK T : /\ T = IF \E x \in stored : x[2] \in {"text", "image"} THEN Slots ELSE {}
                     /\ proc' = [proc EXCEPT ![w].pc = "post.handoff", ![w].todo = T]
        BY <1>4, <3>3 DEF PostList
      <4>2. T \in SUBSET Slots
        BY <2>1, <4>1
      <4> QED
        BY <3>2, <4>1, <4>2
    <3> QED
      BY <1>4, <3>1, <3>3 DEF PostList
  <2> QED
    BY <1>4, <2>3, MoveIsTyped DEF PostList
<1>5. CASE PostListError(w)
  BY <1>5, ReturnErrorIsTyped DEF PostListError
<1>6. CASE PostHandoff(w)
  <2>1. proc[w].todo \subseteq Slots /\ proc[w].todo # {} /\ At(w, "post.handoff")
    BY <1>6, FrameIsTyped DEF PostHandoff, Sound
  <2>2. row' \in Rows
    BY <1>6, <2>1, SlotsAreCounted, RowStatements DEF PostHandoff, TypeOK
  <2>3. [proc[w] EXCEPT !.pc = "post.spawn"] \in Frames
    BY <2>1 DEF TypeOK, Frames, Sound
  <2> QED
    BY <1>6, <2>2, <2>3, FinishIsTyped, RowStepIsTyped DEF PostHandoff, Goto, TypeOK
<1>7. CASE PostNothingToDo(w)
  <2>1. row' \in Rows
    BY <1>7, RowStatements DEF PostNothingToDo, TypeOK
  <2> QED
    BY <1>7, <2>1, FinishIsTyped, RowStepIsTyped DEF PostNothingToDo
<1>8. CASE PostNothingToDoError(w)
  BY <1>8, ReturnErrorIsTyped DEF PostNothingToDoError
<1>9. CASE PostSpawn(w)
  <2> HIDE DEF PlainPCs, PCs, SavingPCs, SubtaskPCs, AttemptlessPCs
  <2> DEFINE n == First(proc[w].todo)
             rest == proc[w].todo \ {n}
             next == IF rest = {} THEN "post.release" ELSE "post.spawn"
  <2>1. At(w, "post.spawn") /\ proc[w].todo \subseteq Slots /\ proc[w].todo # {}
        /\ Att(w) \in Attempts
    BY <1>9, FrameIsTyped DEF PostSpawn, Sound, AttemptlessPCs
  <2>2. n \in Slots /\ rest \subseteq Slots /\ Slots \subseteq 0..(Questions + Graphs)
        /\ Slots \subseteq Nat
    <3>1. Slots \subseteq 0..(Questions + Graphs) /\ Slots \subseteq Nat
      BY PipelineAssumption DEF Slots
    <3> QED
      BY <2>1, <3>1, FirstIsIn
  <2>9. Task(KindOf(n), Att(w), n) \in Tasks
    <3>1. KindOf(n) \in Enrichment /\ Enrichment \subseteq Kinds
      BY DEF KindOf, Enrichment, Kinds
    <3>2. \A i \in 0..(Questions + Graphs) : i \in 0..(Questions + Graphs + Images)
      BY PipelineAssumption
    <3>3. 0 \in 0..MaxRetry /\ \A a \in Attempts : a \in 0..MaxAttempt /\ a # 0
      BY PipelineAssumption DEF Attempts
    <3> HIDE DEF n
    <3> QED
      BY <2>1, <2>2, <3>1, <3>2, <3>3 DEF Task, Tasks
  <2>3. QueueOK'
    BY <1>9, <2>9, AddIsTyped DEF PostSpawn, QueueOK, TypeOK
  <2>4. proc[w] \in Locals /\ next \in PCs /\ rest \in SUBSET Nat /\ Att(w) # 0
    <3>1. next \in PCs /\ rest \in SUBSET Nat
      BY <2>2, PostPCs
    <3>2. proc[w] \in Locals
      BY FramesAreLocals DEF TypeOK
    <3> QED
      BY <2>1, <3>1, <3>2, PipelineAssumption DEF Attempts
  <2>5. [proc[w] EXCEPT !.pc = next, !.todo = rest] \in Frames
    <3> DEFINE g == [proc[w] EXCEPT !.pc = next, !.todo = rest]
    <3>1. g \in Locals /\ g.pc = next /\ g.todo = rest /\ g.att # 0
      BY <2>4 DEF Locals, Att
    <3>2. next \in {"post.release", "post.spawn"} /\ (next = "post.spawn" => rest # {})
      OBVIOUS
    <3>3. rest \subseteq Slots
      BY <2>2
    <3> HIDE DEF g, next, rest, n
    <3>4. Sound(g)
      <4>1. g.pc \notin SavingPCs /\ g.pc \notin SubtaskPCs
        BY <3>1, <3>2, PostPCs
      <4> QED
        BY <3>1, <3>2, <3>3, <4>1 DEF Sound
    <3>5. g \in Frames
      BY <3>1, <3>4, FramesAreLocals
    <3> QED
      BY <3>5 DEF g
  <2>6. ASSUME NEW T \in SUBSET Nat
        PROVE  [proc[w] EXCEPT !.pc = next, !.todo = rest, !.short = T] \in Frames
    <3> DEFINE g == [proc[w] EXCEPT !.pc = next, !.todo = rest, !.short = T]
    <3>1. g \in Locals /\ g.pc = next /\ g.todo = rest /\ g.att # 0
      BY <2>4 DEF Locals, Att
    <3>2. next \in {"post.release", "post.spawn"} /\ (next = "post.spawn" => rest # {})
      OBVIOUS
    <3>3. rest \subseteq Slots
      BY <2>2
    <3> HIDE DEF g, next, rest, n
    <3>4. Sound(g)
      <4>1. g.pc \notin SavingPCs /\ g.pc \notin SubtaskPCs
        BY <3>1, <3>2, PostPCs
      <4> QED
        BY <3>1, <3>2, <3>3, <4>1 DEF Sound
    <3>5. g \in Frames
      BY <3>1, <3>4, FramesAreLocals
    <3> QED
      BY <3>5 DEF g
  <2>8. proc[w].short \cup {n} \in SUBSET Nat
    BY <2>2, <2>4 DEF Locals
  <2>7. proc' \in [Procs -> Frames]
    <3>1. CASE proc' = [proc EXCEPT ![w].pc = next, ![w].todo = rest]
      BY <3>1, <2>5 DEF TypeOK
    <3>2. CASE proc' = [proc EXCEPT ![w].pc = next, ![w].todo = rest, ![w].short = @ \cup {n}]
      BY <3>2, <2>6, <2>8 DEF TypeOK
    <3> QED
      BY <1>9, <3>1, <3>2 DEF PostSpawn
  <2> QED
    BY <1>9, <2>3, <2>7, QueueStepIsTyped DEF PostSpawn
<1>10. CASE PostRelease(w)
  <2>1. row' \in Rows
    BY <1>10, RowStatements DEF PostRelease, TypeOK
  <2> QED
    BY <1>10, <2>1, GotoPlain, FinishIsTyped, RowStepIsTyped DEF PostRelease
<1>11. CASE PostPromote(w)
  <2> HIDE DEF PlainPCs, PCs, SavingPCs, SubtaskPCs, AttemptlessPCs
  <2>1. row' \in Rows
    BY <1>11, RowStatements DEF PostPromote, TypeOK
  <2>2. ASSUME NEW T \in SUBSET Nat
        PROVE  [proc[w] EXCEPT !.pc = "post.release", !.short = T] \in Frames
    <3> DEFINE g == [proc[w] EXCEPT !.pc = "post.release", !.short = T]
    <3>1. proc[w] \in Locals /\ Att(w) # 0
      BY <1>11, FramesAreLocals, FrameIsTyped DEF PostPromote, TypeOK, Attempts, AttemptlessPCs
    <3>2. g \in Locals /\ g.pc = "post.release" /\ g.att # 0
      BY <3>1, PostPCs DEF Locals, Att
    <3> QED
      BY <3>2, PostPCs, FramesAreLocals DEF Sound
  <2>3. \A n : proc[w].short \ {n} \in SUBSET Nat
    BY FrameIsTyped
  <2>4. proc' \in [Procs -> Frames]
    <3>1. CASE Finish(w)
      BY <3>1, FinishIsTyped
    <3>2. CASE proc' = [proc EXCEPT ![w].pc = "post.release", ![w].short = @ \ {First(@)}]
      BY <2>2, <2>3, <3>2 DEF TypeOK
    <3> QED
      BY <1>11, <3>1, <3>2 DEF PostPromote
  <2> QED
    BY <1>11, <2>1, <2>4, RowStepIsTyped DEF PostPromote
<1>12. CASE PostEnd(w)
  BY <1>12, FinishIsTyped, MoveIsTyped DEF PostEnd
<1> QED
  BY <1>1, <1>2, <1>3, <1>4, <1>5, <1>6, <1>7, <1>8, <1>9, <1>10, <1>11, <1>12 DEF PostStep
----------------------------------------------------------------------------
(* ImageMultimodal. *)
LEMMA ImageStepIsTyped ==
  ASSUME TypeOK, NEW w \in Workers, ImageStep(w) PROVE TypeOK'
<1> w \in Procs
  BY DEF Procs
<1> USE DEF At, PlainPCs, PCs, SavingPCs, SubtaskPCs, AttemptlessPCs
<1>1. CASE \E t \in BagToSet(queue) : ImageEnter(w, t) \/ ImageEnterError(w, t)
  <2>1. PICK t \in BagToSet(queue) : ImageEnter(w, t) \/ ImageEnterError(w, t)
    BY <1>1
  <2>2. t.att # 0
    BY <2>1 DEF ImageEnter, ImageEnterError, TypeOK, Tasks
  <2> QED
    BY <2>1, <2>2, TakeIsTyped DEF ImageEnter, ImageEnterError
<1>2. CASE ImageError(w)
  BY <1>2, ReturnErrorIsTyped DEF ImageError
<1>3. CASE ImageRun(w)
  <2>1. stored' \subseteq Attempts \X Parts
    BY <1>3, StoresIsTyped DEF ImageRun, Parts, TypeOK
  <2> QED
    BY <1>3, <2>1, GotoPlain, StoredStepIsTyped DEF ImageRun
<1>4. CASE ImageRunError(w)
  <2>1. proc' \in [Procs -> Frames]
    BY <1>4, GotoPlain, LeaveIsTyped DEF ImageRunError
  <2>2. QueueOK'
    BY <1>4, RetryIsTyped DEF ImageRunError, QueueOK, TypeOK
  <2> QED
    BY <1>4, <2>1, <2>2, QueueStepIsTyped DEF ImageRunError
<1>5. CASE ImageCount(w)
  <2>1. proc' \in [Procs -> Frames]
    BY <1>5, GotoPlain, FinishIsTyped DEF ImageCount
  <2> QED
    BY <1>5, <2>1 DEF ImageCount, TypeOK
<1>6. Task("post", 0, 0) \in Tasks
  BY PipelineAssumption DEF Task, Tasks, Kinds
<1>7. CASE ImageCountNoRedis(w)
  <2>1. QueueOK'
    BY <1>6, <1>7, AddIsTyped DEF ImageCountNoRedis, Enqueue, QueueOK, TypeOK
  <2> QED
    BY <1>7, <2>1, FinishIsTyped, QueueStepIsTyped DEF ImageCountNoRedis
<1>8. CASE ImageLast(w)
  <2>1. QueueOK'
    BY <1>6, <1>8, AddIsTyped DEF ImageLast, Enqueue, QueueOK, TypeOK
  <2>2. proc' \in [Procs -> Frames]
    BY <1>8, FinishIsTyped DEF ImageLast
  <2> QED
    BY <1>8, <2>1, <2>2 DEF ImageLast, QueueOK, TypeOK
<1> QED
  BY <1>1, <1>2, <1>3, <1>4, <1>5, <1>7, <1>8 DEF ImageStep
----------------------------------------------------------------------------
(* EnrichmentTasks. *)
LEMMA SubtaskErrorIsTyped ==
  ASSUME TypeOK, NEW w \in Procs, proc[w].pc \notin AttemptlessPCs, SubtaskError(w)
  PROVE  proc' \in [Procs -> Frames] /\ QueueOK'
<1>1. "drain" \in PlainPCs /\ "drain" \notin SubtaskPCs
  BY DEF PlainPCs, PCs, SavingPCs, SubtaskPCs
<1>2. proc' \in [Procs -> Frames]
  BY <1>1, GotoPlain, LeaveIsTyped DEF SubtaskError
<1>3. QueueOK'
  BY RetryIsTyped DEF SubtaskError, QueueOK, TypeOK
<1> QED
  BY <1>2, <1>3

(* Reading the row: what the summary is going to save is a status. *)
LEMMA SubtaskLoadIsTyped ==
  ASSUME TypeOK, NEW w \in Procs, SubtaskLoad(w) PROVE TypeOK'
<1>1. proc[w] \in Locals /\ Att(w) # 0 /\ row.status \in Statuses
      /\ proc[w].job.kind \in Enrichment
  <2>1. proc[w].pc \notin AttemptlessPCs /\ proc[w].pc \in SubtaskPCs
    BY DEF SubtaskLoad, At, AttemptlessPCs, SubtaskPCs
  <2> QED
    BY <2>1, FramesAreLocals, FrameIsTyped DEF TypeOK, Rows, Attempts, Sound
<1>2. ASSUME NEW pc \in {"drain", "sum.mark", "sub.run"}
      PROVE  [proc[w] EXCEPT !.pc = pc, !.seen = row.status] \in Frames
  <2> DEFINE g == [proc[w] EXCEPT !.pc = pc, !.seen = row.status]
  <2>1. pc \in PCs
    BY DEF PCs
  <2>2. g \in Locals /\ g.pc = pc /\ g.seen = row.status /\ g.att # 0
        /\ g.job = proc[w].job
    BY <1>1, <2>1 DEF Locals, Att
  <2>3. Sound(g)
    BY <1>1, <2>2 DEF Sound
  <2> QED
    BY <2>2, <2>3, FramesAreLocals
<1>3. PICK pc \in {"drain", "sum.mark", "sub.run"} :
         proc' = [proc EXCEPT ![w].pc = pc, ![w].seen = row.status]
  BY DEF SubtaskLoad
<1>4. proc' \in [Procs -> Frames]
  BY <1>2, <1>3 DEF TypeOK
<1> QED
  BY <1>4, MoveIsTyped DEF SubtaskLoad

(* Reading the chunks: todo keeps attempts. *)
LEMMA SummaryChunksIsTyped ==
  ASSUME TypeOK, NEW w \in Procs, SummaryChunks(w) PROVE TypeOK'
<1>1. proc[w] \in Locals /\ Att(w) # 0 /\ proc[w].seen \in Statuses
  <2>1. proc[w].pc \notin AttemptlessPCs /\ proc[w].pc \in SavingPCs
    BY DEF SummaryChunks, At, AttemptlessPCs, SavingPCs
  <2> QED
    BY <2>1, FramesAreLocals, FrameIsTyped DEF TypeOK, Attempts, Sound
<1>2. ASSUME NEW pc \in {"sum.none", "sum.llm"}, NEW T \in SUBSET Nat
      PROVE  [proc[w] EXCEPT !.pc = pc, !.todo = T] \in Frames
  <2> DEFINE g == [proc[w] EXCEPT !.pc = pc, !.todo = T]
  <2>1. pc \in PCs
    BY DEF PCs
  <2>2. g \in Locals /\ g.pc = pc /\ g.seen \in Statuses /\ g.att # 0
    BY <1>1, <2>1 DEF Locals, Att
  <2>3. Sound(g)
    BY <2>2 DEF Sound, SubtaskPCs
  <2> QED
    BY <2>2, <2>3, FramesAreLocals
<1>3. \A T \in SUBSET stored : {x[1] : x \in T} \in SUBSET Nat
  BY PipelineAssumption DEF TypeOK, Attempts
<1>4. PICK T \in SUBSET Nat : \E pc \in {"sum.none", "sum.llm"} :
         proc' = [proc EXCEPT ![w].pc = pc, ![w].todo = T]
  <2>1. {y \in stored : y[2] = "text"} \in SUBSET stored
    OBVIOUS
  <2>2. {x[1] : x \in {y \in stored : y[2] = "text"}} \in SUBSET Nat /\ {} \in SUBSET Nat
    BY <1>3, <2>1
  <2>3. PICK T \in {{x[1] : x \in {y \in stored : y[2] = "text"}}} \cup {{}} :
           proc' = [proc EXCEPT ![w].pc = IF T = {} THEN "sum.none" ELSE "sum.llm", ![w].todo = T]
    BY DEF SummaryChunks
  <2> QED
    BY <2>2, <2>3
<1>5. proc' \in [Procs -> Frames]
  <2>1. PICK pc \in {"sum.none", "sum.llm"} : proc' = [proc EXCEPT ![w].pc = pc, ![w].todo = T]
    BY <1>4
  <2> QED
    BY <1>2, <2>1 DEF TypeOK
<1> QED
  BY <1>5, MoveIsTyped DEF SummaryChunks

LEMMA SubtaskStepIsTyped ==
  ASSUME TypeOK, NEW w \in Workers, SubtaskStep(w) PROVE TypeOK'
<1> w \in Procs
  BY DEF Procs
<1> USE DEF At, PlainPCs, PCs, SavingPCs, SubtaskPCs, AttemptlessPCs
<1>0. ASSUME proc[w].pc \in SavingPCs PROVE proc[w].seen \in Statuses
  BY <1>0, FrameIsTyped DEF Sound
<1>1. CASE \E t \in BagToSet(queue) : SubtaskEnter(w, t)
  <2>1. PICK t \in BagToSet(queue) : SubtaskEnter(w, t)
    BY <1>1
  <2>2. t.att # 0
    BY <2>1 DEF SubtaskEnter, TypeOK, Tasks, Enrichment
  <2> QED
    BY <2>1, <2>2, DropIsTyped, TakeIsTyped DEF SubtaskEnter
<1>2. CASE SubtaskLoad(w)
  BY <1>2, SubtaskLoadIsTyped
<1>3. CASE SubtaskRun(w)
  BY <1>3, GotoPlain, MoveIsTyped DEF SubtaskRun
<1>4. CASE SubtaskRunError(w)
  BY <1>4, SubtaskErrorIsTyped, QueueStepIsTyped DEF SubtaskRunError
<1>5. CASE SubtaskWrite(w)
  <2>1. proc[w].job.kind \in Parts
    BY <1>5, FrameIsTyped DEF SubtaskWrite, Sound, Enrichment, Parts
  <2>2. stored' \subseteq Attempts \X Parts
    BY <1>5, <2>1, StoresIsTyped DEF SubtaskWrite
  <2> QED
    BY <1>5, <2>2, GotoPlain, StoredStepIsTyped DEF SubtaskWrite
<1>6. CASE SummaryMark(w)
  BY <1>0, <1>6, TrySaveIsTyped, GotoSaving, RowStepIsTyped DEF SummaryMark
<1>7. CASE SummaryChunks(w)
  BY <1>7, SummaryChunksIsTyped
<1>8. CASE SummaryNone(w)
  <2>1. row' \in Rows
    BY <1>0, <1>8, RowStatements DEF SummaryNone, TypeOK
  <2> QED
    BY <1>8, <2>1, GotoPlain, RowStepIsTyped DEF SummaryNone
<1>9. CASE SummaryNoneError(w)
  <2>1. proc' \in [Procs -> Frames] /\ QueueOK'
    BY <1>9, SubtaskErrorIsTyped, GotoPlain DEF SummaryNoneError, QueueOK, TypeOK
  <2> QED
    BY <1>9, <2>1, QueueStepIsTyped DEF SummaryNoneError
<1>10. CASE SummaryLlm(w)
  BY <1>10, GotoSaving, MoveIsTyped DEF SummaryLlm
<1>11. CASE SummaryLlmError(w)
  BY <1>11, GotoSaving, MoveIsTyped DEF SummaryLlmError
<1>12. CASE SummaryAgain(w)
  <2>1. row' \in Rows
    BY <1>0, <1>12, TrySaveIsTyped DEF SummaryAgain
  <2>2. proc' \in [Procs -> Frames]
    BY <1>12, LeaveIsTyped DEF SummaryAgain
  <2>3. QueueOK'
    <3>1. ~FinalTry(w)
      BY <1>12, FrameIsTyped, PipelineAssumption DEF SummaryAgain, Sound, FinalTry, Tasks
    <3> QED
      BY <1>12, <3>1, RetryIsTyped DEF SummaryAgain
  <2> QED
    BY <1>12, <2>1, <2>2, <2>3 DEF SummaryAgain, QueueOK, TypeOK
<1>13. CASE SummaryFresh(w)
  BY <1>13, GotoSaving, MoveIsTyped DEF SummaryFresh
<1>14. CASE SummaryStale(w)
  <2>1. row' \in Rows
    BY <1>0, <1>14, TrySaveIsTyped DEF SummaryStale
  <2>2. proc' \in [Procs -> Frames] /\ QueueOK'
    BY <1>14, SubtaskErrorIsTyped DEF SummaryStale
  <2> QED
    BY <1>14, <2>1, <2>2 DEF SummaryStale, QueueOK, TypeOK
<1>15. CASE SummarySave(w)
  <2>1. row' \in Rows
    BY <1>0, <1>15, RowStatements DEF SummarySave, TypeOK
  <2> QED
    BY <1>15, <2>1, GotoPlain, RowStepIsTyped DEF SummarySave
<1>16. CASE SummarySaveError(w)
  BY <1>16, SubtaskErrorIsTyped, QueueStepIsTyped DEF SummarySaveError
<1>17. CASE SummaryWrite(w)
  <2>1. stored' \subseteq Attempts \X Parts
    BY <1>17, StoresIsTyped DEF SummaryWrite, Parts
  <2> QED
    BY <1>17, <2>1, GotoPlain, StoredStepIsTyped DEF SummaryWrite
<1>18. CASE SummaryWriteError(w)
  <2>1. stored' \subseteq Attempts \X Parts
    BY <1>18, StoresIsTyped DEF SummaryWriteError, Parts, TypeOK
  <2>2. proc' \in [Procs -> Frames] /\ QueueOK'
    BY <1>18, SubtaskErrorIsTyped DEF SummaryWriteError
  <2> QED
    BY <1>18, <2>1, <2>2 DEF SummaryWriteError, QueueOK, TypeOK
<1>19. CASE Drain(w)
  <2>1. row' \in Rows
    BY <1>19, RowStatements DEF Drain, TypeOK
  <2> QED
    BY <1>19, <2>1, GotoPlain, FinishIsTyped, RowStepIsTyped DEF Drain
<1>20. CASE Promote(w)
  <2>1. row' \in Rows
    BY <1>20, RowStatements DEF Promote, TypeOK
  <2> QED
    BY <1>20, <2>1, FinishIsTyped, RowStepIsTyped DEF Promote
<1> QED
  BY <1>1, <1>2, <1>3, <1>4, <1>5, <1>6, <1>7, <1>8, <1>9, <1>10, <1>11, <1>12, <1>13, <1>14,
     <1>15, <1>16, <1>17, <1>18, <1>19, <1>20 DEF SubtaskStep
----------------------------------------------------------------------------
(* KnowledgeApi. A request starts with the row as it was read. *)
LEMMA RequestIsTyped ==
  ASSUME TypeOK, NEW c, NEW kind \in {"reparse", "cancel", "delete", "sweep"},
         NEW att \in 0..MaxAttempt, att = 0 => kind # "reparse",
         NEW pc \in PlainPCs \ SubtaskPCs, pc \in AttemptlessPCs \/ att # 0,
         Request(c, kind, att, pc)
  PROVE  proc' \in [Procs -> Frames]
<1> DEFINE job == Task(kind, att, 0)
           g == [Idle EXCEPT !.pc = pc, !.job = job, !.att = att, !.seen = row.status]
<1>1. job \in Tasks
  BY PipelineAssumption DEF Task, Tasks, Kinds
<1>2. pc \in PCs /\ Idle \in Locals /\ row.status \in Statuses
  BY IdleIsFrame, FramesAreLocals DEF PlainPCs, TypeOK, Rows
<1>3. g \in Locals /\ g.pc = pc /\ g.att = att
  <2> HIDE DEF job
  <2> QED
    BY <1>1, <1>2 DEF Locals
<1>4. Sound(g)
  <2> HIDE DEF g
  <2> QED
    BY <1>3 DEF Sound, PlainPCs, SavingPCs
<1> QED
  BY <1>3, <1>4, FramesAreLocals DEF Request, TypeOK

LEMMA ApiStepIsTyped ==
  ASSUME TypeOK, NEW c \in Callers, ApiStep(c) PROVE TypeOK'
<1> c \in Procs
  BY DEF Procs
<1> USE DEF At, PlainPCs, PCs, SavingPCs, SubtaskPCs, AttemptlessPCs
<1>0. 0 \in 0..MaxAttempt
  BY PipelineAssumption
<1>1. CASE ReparseOpen(c)
  <2>1. latest + 1 \in 0..MaxAttempt /\ latest + 1 # 0 /\ latest + 1 \in Attempts
    BY <1>1, PipelineAssumption DEF ReparseOpen, TypeOK, Attempts
  <2>2. proc' \in [Procs -> Frames]
    BY <1>1, <2>1, RequestIsTyped DEF ReparseOpen
  <2> QED
    BY <1>1, <2>1, <2>2 DEF ReparseOpen, TypeOK
<1>2. CASE ReparseClean(c)
  <2>1. stored' \subseteq Attempts \X Parts
    BY <1>2 DEF ReparseClean, TypeOK
  <2> QED
    BY <1>2, <2>1, GotoPlain, LeaveIsTyped, StoredStepIsTyped DEF ReparseClean
<1>3. CASE ReparseReset(c)
  <2>1. row' \in Rows
    BY <1>3, RowStatements DEF ReparseReset, TypeOK, Statuses
  <2> QED
    BY <1>3, <2>1, GotoPlain, LeaveIsTyped, RowStepIsTyped DEF ReparseReset
<1>4. CASE ReparseZero(c)
  <2>1. row' \in Rows
    BY <1>4, RowStatements DEF ReparseZero, TypeOK
  <2> QED
    BY <1>4, <2>1, GotoPlain, LeaveIsTyped, RowStepIsTyped DEF ReparseZero
<1>5. CASE ReparseEnqueue(c)
  <2>1. Att(c) \in 0..MaxAttempt /\ Att(c) # 0
    BY <1>5, FrameIsTyped DEF ReparseEnqueue, Attempts
  <2>2. Task("process", Att(c), 0) \in Tasks
    BY <2>1, PipelineAssumption DEF Task, Tasks, Kinds
  <2>3. QueueOK'
    BY <1>5, <2>2, AddIsTyped DEF ReparseEnqueue, QueueOK, TypeOK
  <2> QED
    BY <1>5, <2>3, GotoPlain, LeaveIsTyped, QueueStepIsTyped DEF ReparseEnqueue
<1>6. CASE ReparseFailed(c)
  <2>1. row' \in Rows
    BY <1>6, TrySaveIsTyped DEF ReparseFailed, Statuses
  <2> QED
    BY <1>6, <2>1, LeaveIsTyped, RowStepIsTyped DEF ReparseFailed
<1>7. CASE CancelRead(c)
  <2>1. used' \in [cancel : 0..MaxCancels, delete : 0..MaxDeletes]
    BY <1>7, PipelineAssumption DEF CancelRead, TypeOK
  <2>2. proc' \in [Procs -> Frames]
    BY <1>0, <1>7, RequestIsTyped DEF CancelRead
  <2> QED
    BY <1>7, <2>1, <2>2 DEF CancelRead, TypeOK
<1>8. CASE CancelMark(c)
  <2>1. row' \in Rows
    BY <1>8, RowStatements DEF CancelMark, TypeOK
  <2> QED
    BY <1>8, <2>1, GotoPlain, LeaveIsTyped, RowStepIsTyped DEF CancelMark
<1>9. CASE Dequeue(c)
  <2>1. QueueOK'
    BY <1>9 DEF Dequeue, QueueOK, TypeOK, IsABag, BagToSet
  <2> QED
    BY <1>9, <2>1, GotoPlain, LeaveIsTyped, QueueStepIsTyped DEF Dequeue
<1>10. CASE DeleteMark(c)
  <2>1. used' \in [cancel : 0..MaxCancels, delete : 0..MaxDeletes]
    BY <1>10, PipelineAssumption DEF DeleteMark, TypeOK
  <2>2. proc' \in [Procs -> Frames]
    BY <1>0, <1>10, RequestIsTyped DEF DeleteMark
  <2>3. row' \in Rows
    BY <1>10, RowStatements DEF DeleteMark, TypeOK
  <2> QED
    BY <1>10, <2>1, <2>2, <2>3 DEF DeleteMark, TypeOK
<1>11. CASE DeletePurge(c)
  <2>1. stored' \subseteq Attempts \X Parts
    BY <1>11 DEF DeletePurge, TypeOK
  <2> QED
    BY <1>11, <2>1, GotoPlain, LeaveIsTyped, StoredStepIsTyped DEF DeletePurge
<1>12. CASE DeleteRow(c)
  <2>1. row' \in Rows
    BY <1>12, RowStatements DEF DeleteRow, TypeOK
  <2> QED
    BY <1>12, <2>1, LeaveIsTyped, RowStepIsTyped DEF DeleteRow
<1>13. CASE SweepFind(c)
  <2>1. proc' \in [Procs -> Frames]
    BY <1>0, <1>13, RequestIsTyped DEF SweepFind
  <2> QED
    BY <1>13, <2>1 DEF SweepFind, TypeOK
<1>14. CASE SweepUpdate(c)
  <2>1. row' \in Rows
    BY <1>14, RowStatements DEF SweepUpdate, TypeOK
  <2> QED
    BY <1>14, <2>1, LeaveIsTyped, RowStepIsTyped DEF SweepUpdate
<1> QED
  BY <1>1, <1>2, <1>3, <1>4, <1>5, <1>6, <1>7, <1>8, <1>9, <1>10, <1>11, <1>12, <1>13, <1>14
     DEF ApiStep
----------------------------------------------------------------------------
(* A worker that dies hands its task back to the queue. *)
LEMMA CrashIsTyped ==
  ASSUME TypeOK, NEW p \in Procs, Crash(p) PROVE TypeOK'
<1>1. QueueOK'
  BY RetryIsTyped DEF Crash, QueueOK, TypeOK
<1> QED
  BY <1>1, LeaveIsTyped, QueueStepIsTyped DEF Crash

LEMMA InitIsTyped == Init => TypeOK
<1> SUFFICES ASSUME Init PROVE TypeOK
  OBVIOUS
<1>1. row \in Rows
  BY DEF Init, NewRow, Rows, Statuses
<1>2. latest \in Attempts /\ 0 \in 0..MaxCancels /\ 0 \in 0..MaxDeletes
  BY PipelineAssumption DEF Init, Attempts
<1>3. Task("process", 1, 0) \in Tasks
  BY PipelineAssumption DEF Task, Tasks, Kinds
<1>4. QueueOK
  BY <1>3 DEF Init, QueueOK, SetToBag, IsABag, BagToSet
<1> QED
  BY <1>1, <1>2, <1>4, IdleIsFrame DEF Init, TypeOK, QueueOK

LEMMA StepIsTyped == TypeOK /\ [Next]_vars => TypeOK'
<1> SUFFICES ASSUME TypeOK, [Next]_vars PROVE TypeOK'
  OBVIOUS
<1>1. CASE \E w \in Workers : WorkerStep(w)
  <2>1. PICK w \in Workers : WorkerStep(w)
    BY <1>1
  <2>2. CASE Acknowledge(w)
    BY <2>2, LeaveIsTyped, MoveIsTyped DEF Acknowledge, Procs
  <2> QED
    BY <2>1, <2>2, DocStepIsTyped, PostStepIsTyped, SubtaskStepIsTyped, ImageStepIsTyped
       DEF WorkerStep
<1>2. CASE \E c \in Callers : ApiStep(c)
  BY <1>2, ApiStepIsTyped
<1>3. CASE \E p \in Procs : Crash(p)
  BY <1>3, CrashIsTyped
<1>4. CASE UNCHANGED vars
  BY <1>4 DEF vars, TypeOK
<1> QED
  BY <1>1, <1>2, <1>3, <1>4 DEF Next

(* Whatever is retried, crashes, is cancelled, reparsed or deleted: the       *)
(* counter of the row is never negative, every task names the attempt it      *)
(* works for, and every handler keeps what it relies on between its steps.    *)
THEOREM TypeCorrect == Spec => []TypeOK
<1>1. Init => TypeOK
  BY InitIsTyped
<1>2. TypeOK /\ [Next]_vars => TypeOK'
  BY StepIsTyped
<1> QED
  BY <1>1, <1>2, PTL DEF Spec
=============================================================================
