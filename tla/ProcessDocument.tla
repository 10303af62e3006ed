--------------------------- MODULE ProcessDocument ---------------------------
(***************************************************************************)
(* service/knowledge_process.go: the document:process handler, that is     *)
(* ProcessDocument, processChunks and enqueueImageMultimodalTasks.         *)
(***************************************************************************)
EXTENDS KnowledgePipeline

(* Entry: a missing, unreadable, aborted or completed row ends the task. A   *)
(* failed or a finalizing one (a redelivery, a reparse under way) does not.  *)
DocEnter(w, t) ==
    /\ t.kind = "process"
    /\ \/ Drop(w, t) /\ (IsAborted \/ row.status = "completed" \/ "db" \in Faults)
       \/ Take(w, t, "doc.recheck", row.status) /\ ~IsAborted /\ row.status # "completed"

(* isKnowledgeAborted, right before the row is flipped. *)
DocRecheck(w) ==
    /\ At(w, "doc.recheck")
    /\ \E answer \in AbortAnswers : IF answer = "no" THEN Goto(w, "doc.mark") ELSE Finish(w)
    /\ ProcOnly

(* markKnowledgeProcessing and the unconditional Save; a Save that fails     *)
(* ends the task without an error.                                           *)
DocMark(w) ==
    /\ At(w, "doc.mark")
    /\ \/ row' = Saved(row, "processing") /\ Goto(w, "doc.convert")
       \/ "db" \in Faults /\ Finish(w) /\ UNCHANGED row
    /\ RowOnly

(* Download, DocReader, ASR, image storage, chunking. *)
DocConvert(w) ==
    /\ At(w, "doc.convert")
    /\ Goto(w, "chunk.check")
    /\ ProcOnly

(* failKnowledge: the row fails on the last retry; the task's error leaves   *)
(* the dead-letter callback nothing to do then.                              *)
DocConvertError(w) ==
    /\ At(w, "doc.convert") /\ "retry" \in Faults
    /\ Leave(w)
    /\ IF FinalTry(w)
         THEN /\ row' = Saved(row, "failed") \/ ("db" \in Faults /\ row' = FailedIfActive(row))
              /\ UNCHANGED queue
         ELSE Retry(w) /\ UNCHANGED row
    /\ UNCHANGED <<latest, stored, mm, used>>

(* Errors that end the attempt: no knowledge base, an unsupported type, a    *)
(* chunk insert, the storage quota.                                          *)
DocFatal(w) ==
    /\ proc[w].pc \in {"doc.recheck", "doc.convert", "chunk.write", "chunk.quota"}
    /\ "fatal" \in Faults
    /\ TrySave("failed")
    /\ Finish(w) /\ RowOnly

(* An embedding model that cannot be had is only logged. *)
ChunksCheck(w) ==
    /\ At(w, "chunk.check")
    /\ \/ Finish(w) /\ (AbortAnswers # {"no"} \/ "model" \in Faults)
       \/ Goto(w, "chunk.clean") /\ "no" \in AbortAnswers
    /\ ProcOnly

(* Whatever an earlier attempt left goes first; a failure is only logged. *)
ChunksClean(w) ==
    /\ At(w, "chunk.clean")
    /\ TryKeeping({})
    /\ Goto(w, "chunk.recheck") /\ StoredOnly

ChunksRecheck(w) ==
    /\ At(w, "chunk.recheck")
    /\ \E answer \in AbortAnswers : IF answer = "no" THEN Goto(w, "chunk.write") ELSE Finish(w)
    /\ ProcOnly

ChunksWrite(w) ==
    /\ At(w, "chunk.write")
    /\ stored' = stored \cup {<<Att(w), "text">>}
    /\ Goto(w, "chunk.quota") /\ StoredOnly

(* The check before the embeddings: a row being deleted takes the chunks     *)
(* with it, a cancelled one keeps them.                                      *)
DropChunks == TryKeeping({x \in stored : x[2] \notin {"text", "image", "summary"}})

ChunksBeforeIndex(w) ==
    /\ At(w, "chunk.quota")
    /\ \E answer \in AbortAnswers :
         /\ IF answer = "no" THEN Goto(w, "chunk.index") ELSE Finish(w)
         /\ IF answer = "deleting" THEN DropChunks ELSE UNCHANGED stored
    /\ StoredOnly

ChunksIndex(w) ==
    /\ At(w, "chunk.index")
    /\ stored' = stored \cup {<<Att(w), "vector">>}
    /\ Goto(w, "chunk.final") /\ StoredOnly

(* BatchIndex fails: the row fails, then the chunks and the index go. *)
ChunksIndexError(w) ==
    /\ At(w, "chunk.index") /\ "fatal" \in Faults
    /\ TrySave("failed")
    /\ Goto(w, "chunk.undo") /\ RowOnly

DropChunksAndIndex == TryKeeping({x \in stored : x[2] = "graph"})

ChunksUndo(w) ==
    /\ At(w, "chunk.undo")
    /\ DropChunksAndIndex
    /\ Finish(w) /\ StoredOnly

(* The final check before the row is saved. *)
ChunksFinal(w) ==
    /\ At(w, "chunk.final")
    /\ \E answer \in AbortAnswers :
         /\ IF answer = "no" THEN Goto(w, "chunk.save") ELSE Finish(w)
         /\ IF answer = "deleting" THEN DropChunksAndIndex ELSE UNCHANGED stored
    /\ StoredOnly

(* finalizeIndexedKnowledgeState and Save: the document has text, so it      *)
(* stays "processing". The Save's error is only logged. Whether images are   *)
(* read is an option of the attempt (EnableMultimodel), and images that      *)
(* cannot be stored are left out.                                            *)
ChunksSave(w) ==
    /\ At(w, "chunk.save")
    /\ TrySave("processing")
    /\ \/ Goto(w, "doc.post")
       \/ Images > 0 /\ Goto(w, "mm.set")
    /\ RowOnly

EnqueuePost(w) ==
    /\ At(w, "doc.post")
    /\ Enqueue(Task("post", Att(w), 0))
    /\ Finish(w) /\ QueueOnly

(* Mutant: the counter misses one image. *)
SetMultimodalShort(w) ==
    /\ At(w, "mm.set")
    /\ mm' = IF Lite THEN mm ELSE Images - 1
    /\ proc' = [proc EXCEPT ![w].pc = "mm.enqueue", ![w].todo = 1..Images]
    /\ UNCHANGED <<row, latest, stored, queue, used>>

(* The counter is set before the first image task exists; an error is logged. *)
SetMultimodal(w) ==
    /\ At(w, "mm.set")
    /\ \/ mm' = IF Lite THEN mm ELSE Images
       \/ "db" \in Faults /\ UNCHANGED mm
    /\ proc' = [proc EXCEPT ![w].pc = "mm.enqueue", ![w].todo = 1..Images]
    /\ UNCHANGED <<row, latest, stored, queue, used>>

(* One image after the other; an image that cannot be enqueued is logged. *)
EnqueueImage(w) ==
    /\ At(w, "mm.enqueue")
    /\ LET n == First(proc[w].todo)
           rest == proc[w].todo \ {n}
       IN /\ Enqueue(Task("image", Att(w), n))
          /\ IF rest = {} THEN Finish(w) ELSE proc' = [proc EXCEPT ![w].todo = rest]
    /\ QueueOnly

DocStep(w) ==
    \/ \E t \in BagToSet(queue) : DocEnter(w, t)
    \/ DocRecheck(w) \/ DocMark(w) \/ DocConvert(w) \/ DocConvertError(w) \/ DocFatal(w)
    \/ ChunksCheck(w) \/ ChunksClean(w) \/ ChunksRecheck(w) \/ ChunksWrite(w)
    \/ ChunksBeforeIndex(w) \/ ChunksIndex(w) \/ ChunksIndexError(w) \/ ChunksUndo(w)
    \/ ChunksFinal(w) \/ ChunksSave(w) \/ EnqueuePost(w) \/ SetMultimodal(w) \/ EnqueueImage(w)
=============================================================================
