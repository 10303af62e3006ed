--------------------------- MODULE ImageMultimodal ---------------------------
(***************************************************************************)
(* service/image_multimodal.go: one task per image of the document. The    *)
(* last one to finish, by the Redis counter, starts post-processing.       *)
(***************************************************************************)
EXTENDS KnowledgePipeline

(* shouldDropOrphanedMultimodal: a dropped image still counts. *)
ImageEnter(w, t) ==
    /\ t.kind = "image"
    /\ Take(w, t, IF IsAborted THEN "image.count" ELSE "image.run", "none")

(* The lookup fails: the error leaves before the count is deferred. *)
ImageEnterError(w, t) ==
    /\ t.kind = "image" /\ "db" \in Faults
    /\ Take(w, t, "image.error", "none")

ImageError(w) == At(w, "image.error") /\ ReturnError(w)

(* The vision model; it may find nothing to keep. *)
ImageRun(w) ==
    /\ At(w, "image.run")
    /\ stored' = stored \cup {<<Att(w), "image">>} \/ UNCHANGED stored
    /\ Goto(w, "image.count") /\ StoredOnly

(* Mutant: a permanently failing image is never counted. *)
ImageRunErrorUncounted(w) ==
    /\ At(w, "image.run") /\ "retry" \in Faults
    /\ ReturnError(w)

(* An image that cannot be read counts only on its last try. *)
ImageRunError(w) ==
    /\ At(w, "image.run") /\ "retry" \in Faults
    /\ IF FinalTry(w) THEN Goto(w, "image.count") /\ UNCHANGED queue
                      ELSE Leave(w) /\ Retry(w)
    /\ QueueOnly

(* checkAndFinalizeAllImages: Decr. Without Redis, and when Decr fails, the  *)
(* image starts post-processing itself.                                      *)
ImageCount(w) ==
    /\ At(w, "image.count") /\ ~Lite
    /\ mm' = mm - 1
    /\ IF mm - 1 <= 0 THEN Goto(w, "image.last") ELSE Finish(w)
    /\ UNCHANGED <<row, latest, stored, queue, used>>

ImageCountNoRedis(w) ==
    /\ At(w, "image.count") /\ (Lite \/ "db" \in Faults)
    /\ Enqueue(Task("post", 0, 0))
    /\ Finish(w) /\ QueueOnly

(* Del of the key, then the post-process task. *)
ImageLast(w) ==
    /\ At(w, "image.last")
    /\ mm' = 0
    /\ Enqueue(Task("post", 0, 0))
    /\ Finish(w)
    /\ UNCHANGED <<row, latest, stored, used>>

ImageStep(w) ==
    \/ \E t \in BagToSet(queue) : ImageEnter(w, t) \/ ImageEnterError(w, t)
    \/ ImageError(w) \/ ImageRun(w) \/ ImageRunError(w)
    \/ ImageCount(w) \/ ImageCountNoRedis(w) \/ ImageLast(w)
=============================================================================
