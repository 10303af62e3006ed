------------------------- MODULE KnowledgeSafetyProofs -------------------------
(***************************************************************************)
(* What a document can rely on while its tasks, the user and the cron work *)
(* on it, for every number of workers, attempts, images and enrichment     *)
(* tasks. The argument is about turns: the right to save the row, the      *)
(* right to add an image and the duty to give back a slot each exist once, *)
(* and every step hands them on.                                           *)
(***************************************************************************)
EXTENDS CounterRefinement, KnowledgeLifecycleProofs

(* Without Redis every image of the document starts post-processing. *)
ManyPosts == Lite /\ Images > 0

(* What is assumed: no process dies and no statement fails, requests do not  *)
(* overlap, nobody stops or reparses a document that is being parsed, nor,   *)
(* when a summary saves the row, one that is being enriched.                 *)
Calm ==
    /\ Faults \cap {"crash", "db"} = {}
    /\ \A c, d \in Callers : c = d
    /\ ReparseFrom \subseteq {"completed", "failed"}
    /\ (CancelFrom \cup DeleteFrom) \cap {"pending", "processing"} = {}
    /\ Summary => "finalizing" \notin CancelFrom \cup DeleteFrom
    /\ ManyPosts => MaxAttempt = 1 /\ ~Summary
----------------------------------------------------------------------------
SaverPCs == {"doc.recheck", "doc.mark", "doc.convert", "chunk.check", "chunk.clean",
             "chunk.recheck", "chunk.write", "chunk.quota", "chunk.index", "chunk.final",
             "chunk.save"}
ParsingPCs == SaverPCs \cup {"chunk.undo", "doc.post", "mm.set", "mm.enqueue"}
PosterPCs == {"post.missing", "post.attempt", "post.list", "post.handoff"}
GiverPCs == {"post.spawn", "post.release", "post.promote"}
ReadingPCs == {"image.run", "image.count", "image.error"}
ImagePCs == ReadingPCs \cup {"image.last"}
FollowerPCs == PosterPCs \cup ImagePCs \cup {"doc.post", "mm.set", "mm.enqueue"}
SummaryPCs == SavingPCs \cup {"sum.write"}
OwnerPCs == {"sub.load", "sub.run", "sub.write", "drain"} \cup SummaryPCs
ReparsePCs == {"re.clean", "re.reset", "re.zero", "re.enqueue", "re.failed"}
StopPCs == {"ca.mark", "dequeue", "del.purge", "del.row"}
SweepPCs == {"sweep.stuck", "sweep.delete"}
ApiPCs == ReparsePCs \cup StopPCs \cup SweepPCs

(* A handler runs a task of its own kind, for the attempt of that task, and  *)
(* the summary saves a row it has read as finalizing.                        *)
Fits(f) ==
    /\ f.pc # "ack"
    /\ f.pc = "idle" => f.job.kind = "none"
    /\ f.pc \in ParsingPCs => f.job.kind = "process"
    /\ f.pc \in PosterPCs \cup GiverPCs => f.job.kind = "post" /\ f.job.att \in {0, f.att}
    /\ f.pc \in ImagePCs => f.job.kind = "image" /\ f.job.n \in 1..Images
    /\ f.pc \in OwnerPCs \cup {"promote"} =>
          f.job.kind \in Enrichment /\ f.job.n \in Slots /\ f.job.kind = KindOf(f.job.n)
    /\ f.pc \in SummaryPCs => f.job.kind = "summary"
    /\ f.pc \in ApiPCs => f.job.kind \in {"reparse", "cancel", "delete", "sweep"}
    /\ f.pc \notin PosterPCs \cup GiverPCs => f.att = f.job.att
    /\ f.short \subseteq Slots /\ (f.short # {} => f.pc \in GiverPCs)
    /\ f.pc = "post.spawn" => f.short \cap f.todo = {}
    /\ f.pc = "post.promote" => f.short # {}
    /\ f.pc \in SavingPCs => f.seen = "finalizing"

TaskFits(t) ==
    /\ t.kind \in {"process", "post", "image"} \cup Enrichment
    /\ t.kind \in Enrichment => t.n \in Slots /\ t.kind = KindOf(t.n)
    /\ t.kind = "image" => t.n \in 1..Images

Shapes ==
    /\ \A p \in Procs : Fits(proc[p]) /\ proc[p].att <= latest
    /\ \A w \in Workers : proc[w].pc \notin ApiPCs
    /\ \A c \in Callers : proc[c].pc \in ApiPCs \cup {"idle"}
    /\ \A t \in BagToSet(queue) : TaskFits(t) /\ t.att \in {0, latest}
----------------------------------------------------------------------------
(* The turn to drive the document, an image to add, a slot to give back. *)
Driver == {<<"driver", 0, 0>>}
ImagesOf(a, S) == {<<"image", a, n>> : n \in S}
SlotsOf(a, S) == {<<"slot", a, n>> : n \in S}

Turn(f) ==
    IF f.pc \in SaverPCs \cup ReparsePCs THEN Driver
    ELSE IF ManyPosts THEN {}
    ELSE IF f.pc \in PosterPCs \cup {"doc.post", "mm.set", "image.last"} THEN Driver
    ELSE IF f.pc = "mm.enqueue" THEN ImagesOf(f.att, f.todo)
    ELSE IF f.pc \in ReadingPCs THEN ImagesOf(f.att, {f.job.n})
    ELSE {}

Plans(f)  == IF f.pc = "post.spawn" THEN SlotsOf(f.att, f.todo) ELSE {}
Shorts(f) == SlotsOf(f.att, f.short)
Owns(f)   == IF f.pc \in OwnerPCs THEN SlotsOf(f.att, {f.job.n}) ELSE {}
Drains(f) == IF f.pc = "post.promote" THEN SlotsOf(f.att, {First(f.short)})
             ELSE IF f.pc = "promote" THEN SlotsOf(f.att, {f.job.n})
             ELSE {}
Duties(f) == Plans(f) \cup Shorts(f) \cup Owns(f) \cup Drains(f)
Holds(f)  == Duties(f) \ Drains(f)
Claims(f) == Turn(f) \cup Duties(f)

TaskClaims(t) ==
    IF t.kind \in Enrichment THEN SlotsOf(t.att, {t.n})
    ELSE IF t.kind = "process" THEN Driver
    ELSE IF ManyPosts THEN {}
    ELSE IF t.kind = "post" THEN Driver
    ELSE IF t.kind = "image" THEN ImagesOf(t.att, {t.n})
    ELSE {}

Exclusive ==
    /\ \A p, q \in Procs : p # q => Claims(proc[p]) \cap Claims(proc[q]) = {}
    /\ \A t \in BagToSet(queue), p \in Procs : TaskClaims(t) \cap Claims(proc[p]) = {}
    /\ \A t, u \in BagToSet(queue) : t # u => TaskClaims(t) \cap TaskClaims(u) = {}
    /\ \A t \in BagToSet(queue) : TaskClaims(t) # {} => queue[t] = 1

Claimed ==
    (UNION {Claims(proc[p]) : p \in Procs}) \cup (UNION {TaskClaims(t) : t \in BagToSet(queue)})
----------------------------------------------------------------------------
Saving == \/ \E w \in Workers : proc[w].pc \in SaverPCs
          \/ \E t \in BagToSet(queue) : t.kind = "process"
Following == \/ \E w \in Workers : proc[w].pc \in FollowerPCs
             \/ \E t \in BagToSet(queue) : t.kind \in {"post", "image"}
Requested(pcs) == \E c \in Callers : proc[c].pc \in pcs

(* Parsing, its images and post-processing follow each other, and a request  *)
(* finds the document where it may begin.                                    *)
Phases ==
    /\ Saving => Has(row, {"pending", "processing"}) /\ ~Following
    /\ Following /\ ~ManyPosts => Has(row, {"processing"})
    /\ Requested({"re.clean", "re.reset"}) => Has(row, {"completed", "failed"})
    /\ Requested({"re.zero", "re.enqueue", "re.failed"}) => Has(row, {"pending"})
    /\ Requested(ReparsePCs) => ~Following
    /\ Requested(StopPCs \cup SweepPCs) => ~Saving /\ (Following => ManyPosts)
    /\ Requested(SweepPCs) => queue = EmptyBag /\ \A w \in Workers : At(w, "idle")
    /\ Requested({"dequeue", "del.purge", "del.row"}) => row.gone \/ row.status \in Aborted
    /\ Requested({"ca.mark"}) => ~Summary /\ ~Has(row, {"deleting"})
    /\ Has(row, {"pending", "processing"}) /\ ~Requested({"re.zero"}) => row.count = 0
    /\ \A w \in Workers : proc[w].pc \in SaverPCs \cup FollowerPCs => proc[w].att \in {0, latest}
    /\ \A c \in Callers : proc[c].pc \in ReparsePCs => proc[c].att = latest

(* multimodal:pending is never below the images that may still add text, and *)
(* while there are any nobody parses or hands over.                          *)
Outstanding == {n \in 1..Images : <<"image", latest, n>> \in Claimed}
Counting ==
    ~ManyPosts /\ Outstanding # {} => Driver \cap Claimed = {} /\ mm >= Cardinality(Outstanding)

(* The slots of the current attempt that are counted and not given back. *)
HeldNow ==
    {n \in Slots : \/ \E w \in Workers : <<"slot", latest, n>> \in Holds(proc[w])
                   \/ \E t \in BagToSet(queue) : <<"slot", latest, n>> \in TaskClaims(t)}

Enriching ==
    /\ \A w \in Workers : Holds(proc[w]) \subseteq SlotsOf(latest, Slots)
    /\ Has(row, {"pending", "processing"}) \/ Requested({"re.clean", "re.reset"})
          => SlotsOf(latest, Slots) \cap Claimed = {}
    /\ Has(row, {"finalizing"}) => row.count = Cardinality(HeldNow)
    /\ Has(row, {"completed"}) => HeldNow = {}
    /\ Has(row, {"failed"}) /\ ~ManyPosts => HeldNow = {}
    /\ Summary /\ HeldNow # {} => Has(row, {"finalizing"})

SafetyInv == Shapes /\ Exclusive /\ Phases /\ Counting /\ Enriching
----------------------------------------------------------------------------
(* The queue after a task was put into it, and after one was taken out. *)
LEMMA BagPut ==
  ASSUME NEW B, IsABag(B), NEW t, NEW C, C = B (+) SetToBag({t})
  PROVE  /\ BagToSet(C) = BagToSet(B) \cup {t}
         /\ \A u \in BagToSet(B) : u # t => C[u] = B[u]
         /\ t \notin BagToSet(B) => C[t] = 1
  BY DEF IsABag, BagToSet, SetToBag, (+)

LEMMA BagTake ==
  ASSUME NEW B, IsABag(B), NEW t \in BagToSet(B), NEW C, C = B (-) SetToBag({t})
  PROVE  /\ BagToSet(C) \subseteq BagToSet(B) /\ BagToSet(B) \subseteq BagToSet(C) \cup {t}
         /\ \A u \in BagToSet(C) : u # t => C[u] = B[u]
         /\ B[t] = 1 => t \notin BagToSet(C)
  BY DEF IsABag, BagToSet, SetToBag, (-)

(* The step gives process p the locals g. *)
Becomes(p, g) == proc' = [proc EXCEPT ![p] = g]

(* A step that moves one process leaves the frames of the others. *)
LEMMA OthersStay ==
  ASSUME TypeOK, NEW p \in Procs, NEW g, Becomes(p, g)
  PROVE  proc'[p] = g /\ \A q \in Procs : q # p => proc'[q] = proc[q]
  BY DEF Becomes, TypeOK

(* What it is to be claimed, now and after a step. *)
LEMMA ClaimedIs ==
  /\ \A x : x \in Claimed <=> \/ \E p \in Procs : x \in Claims(proc[p])
                             \/ \E t \in BagToSet(queue) : x \in TaskClaims(t)
  /\ \A x : x \in Claimed' <=> \/ \E p \in Procs : x \in Claims(proc'[p])
                              \/ \E t \in BagToSet(queue') : x \in TaskClaims(t)
<1>1. ASSUME NEW x PROVE x \in Claimed <=> \/ \E p \in Procs : x \in Claims(proc[p])
                                         \/ \E t \in BagToSet(queue) : x \in TaskClaims(t)
  <2> DEFINE A == UNION {Claims(proc[p]) : p \in Procs}
             B == UNION {TaskClaims(t) : t \in BagToSet(queue)}
  <2>1. x \in A <=> \E p \in Procs : x \in Claims(proc[p])
    OBVIOUS
  <2>2. x \in B
          <=> \E t \in BagToSet(queue) : x \in TaskClaims(t)
    OBVIOUS
  <2>3. Claimed = A \cup B
    BY DEF Claimed
  <2> HIDE DEF A, B
  <2> QED
    BY <2>1, <2>2, <2>3
<1>2. ASSUME NEW x PROVE x \in Claimed' <=> \/ \E p \in Procs : x \in Claims(proc'[p])
                                          \/ \E t \in BagToSet(queue') : x \in TaskClaims(t)
  <2> DEFINE A == UNION {Claims(proc'[p]) : p \in Procs}
             B == UNION {TaskClaims(t) : t \in BagToSet(queue')}
  <2>1. x \in A <=> \E p \in Procs : x \in Claims(proc'[p])
    OBVIOUS
  <2>2. x \in B
          <=> \E t \in BagToSet(queue') : x \in TaskClaims(t)
    OBVIOUS
  <2>3. Claimed' = A \cup B
    BY DEF Claimed
  <2> HIDE DEF A, B
  <2> QED
    BY <2>1, <2>2, <2>3
<1> QED
  BY <1>1, <1>2

(* Claims are handed on, given up, or taken where nobody had them. *)
LEMMA ClaimsMove ==
  ASSUME TypeOK, Exclusive, NEW p \in Procs, NEW g, Becomes(p, g), UNCHANGED queue,
         NEW New, New \cap Claimed = {}, Claims(g) \subseteq Claims(proc[p]) \cup New
  PROVE  Exclusive' /\ Claimed' \subseteq Claimed \cup New
<1>1. proc'[p] = g /\ \A q \in Procs : q # p => proc'[q] = proc[q]
  BY OthersStay
<1>2. \A q \in Procs : New \cap Claims(proc[q]) = {}
  BY ClaimedIs
<1>3. \A t \in BagToSet(queue) : New \cap TaskClaims(t) = {}
  BY ClaimedIs
<1>4. \A q \in Procs : q # p => Claims(proc'[q]) \cap Claims(g) = {}
  BY <1>1, <1>2 DEF Exclusive
<1>5. \A t \in BagToSet(queue) : TaskClaims(t) \cap Claims(g) = {}
  BY <1>1, <1>3 DEF Exclusive
<1>6. Exclusive'
  <2>1. \A q, r \in Procs : q # r => Claims(proc'[q]) \cap Claims(proc'[r]) = {}
    BY <1>1, <1>4 DEF Exclusive
  <2>2. \A t \in BagToSet(queue), q \in Procs : TaskClaims(t) \cap Claims(proc'[q]) = {}
    BY <1>1, <1>5 DEF Exclusive
  <2> QED
    BY <2>1, <2>2 DEF Exclusive
<1>7. Claimed' \subseteq Claimed \cup New
  BY <1>1, ClaimedIs
<1> QED
  BY <1>6, <1>7

(* A task put back takes its claims from the handler that held them. *)
LEMMA ClaimsPut ==
  ASSUME TypeOK, Exclusive, NEW p \in Procs, NEW g, Becomes(p, g), NEW t, Add(t),
         Claims(g) \subseteq Claims(proc[p]), TaskClaims(t) \subseteq Claims(proc[p]),
         Claims(g) \cap TaskClaims(t) = {}
  PROVE  Exclusive' /\ Claimed' \subseteq Claimed
<1>1. proc'[p] = g /\ \A q \in Procs : q # p => proc'[q] = proc[q]
  BY OthersStay
<1>2. /\ BagToSet(queue') = BagToSet(queue) \cup {t}
      /\ \A u \in BagToSet(queue) : u # t => queue'[u] = queue[u]
      /\ t \notin BagToSet(queue) => queue'[t] = 1
  <2>1. IsABag(queue) /\ queue' = queue (+) SetToBag({t})
    BY DEF Add, TypeOK
  <2> QED
    BY <2>1, BagPut
<1>3. TaskClaims(t) # {} => t \notin BagToSet(queue)
  BY DEF Exclusive
<1>4. \A q \in Procs : q # p => Claims(proc[q]) \cap TaskClaims(t) = {} /\ Claims(proc[q]) \cap Claims(g) = {}
  BY DEF Exclusive
<1>5. \A u \in BagToSet(queue) : TaskClaims(u) \cap Claims(g) = {} /\ TaskClaims(u) \cap TaskClaims(t) = {}
  BY DEF Exclusive
<1>6. Exclusive'
  <2>1. \A q, r \in Procs : q # r => Claims(proc'[q]) \cap Claims(proc'[r]) = {}
    BY <1>1, <1>4 DEF Exclusive
  <2>2. \A u \in BagToSet(queue'), q \in Procs : TaskClaims(u) \cap Claims(proc'[q]) = {}
    BY <1>1, <1>2, <1>4, <1>5 DEF Exclusive
  <2>3. \A u, v \in BagToSet(queue') : u # v => TaskClaims(u) \cap TaskClaims(v) = {}
    BY <1>2, <1>5 DEF Exclusive
  <2>4. \A u \in BagToSet(queue') : TaskClaims(u) # {} => queue'[u] = 1
    BY <1>2, <1>3 DEF Exclusive
  <2> QED
    BY <2>1, <2>2, <2>3, <2>4 DEF Exclusive
<1>7. Claimed' \subseteq Claimed
  BY <1>1, <1>2, ClaimedIs
<1> QED
  BY <1>6, <1>7

(* A task taken hands its claims to the worker that runs it. *)
LEMMA ClaimsTake ==
  ASSUME TypeOK, Exclusive, NEW p \in Procs, NEW g, Becomes(p, g), NEW t \in BagToSet(queue),
         queue' = queue (-) SetToBag({t}), Claims(g) \subseteq TaskClaims(t)
  PROVE  Exclusive' /\ Claimed' \subseteq Claimed
<1>1. proc'[p] = g /\ \A q \in Procs : q # p => proc'[q] = proc[q]
  BY OthersStay
<1>2. /\ BagToSet(queue') \subseteq BagToSet(queue)
      /\ \A u \in BagToSet(queue') : u # t => queue'[u] = queue[u]
      /\ queue[t] = 1 => t \notin BagToSet(queue')
  BY BagTake DEF TypeOK
<1>3. TaskClaims(t) # {} => t \notin BagToSet(queue')
  BY <1>2 DEF Exclusive
<1>4. \A q \in Procs : q # p => Claims(proc[q]) \cap Claims(g) = {}
  BY DEF Exclusive
<1>5. \A u \in BagToSet(queue') : TaskClaims(u) \cap Claims(g) = {}
  BY <1>2, <1>3 DEF Exclusive
<1>6. Exclusive'
  <2>1. \A q, r \in Procs : q # r => Claims(proc'[q]) \cap Claims(proc'[r]) = {}
    BY <1>1, <1>4 DEF Exclusive
  <2>2. \A u \in BagToSet(queue'), q \in Procs : TaskClaims(u) \cap Claims(proc'[q]) = {}
    BY <1>1, <1>2, <1>5 DEF Exclusive
  <2>3. \A u, v \in BagToSet(queue') : u # v => TaskClaims(u) \cap TaskClaims(v) = {}
    BY <1>2 DEF Exclusive
  <2>4. \A u \in BagToSet(queue') : TaskClaims(u) # {} => queue'[u] = 1
    BY <1>2, <1>3 DEF Exclusive
  <2> QED
    BY <2>1, <2>2, <2>3, <2>4 DEF Exclusive
<1>7. Claimed' \subseteq Claimed
  BY <1>1, <1>2, ClaimedIs
<1> QED
  BY <1>6, <1>7

(* Tasks that are dropped take their claims with them. *)
LEMMA ClaimsDrop ==
  ASSUME TypeOK, Exclusive, NEW p \in Procs, NEW g, Becomes(p, g),
         Claims(g) \subseteq Claims(proc[p]),
         BagToSet(queue') \subseteq BagToSet(queue),
         \A u \in BagToSet(queue') : TaskClaims(u) # {} => queue'[u] = queue[u]
  PROVE  Exclusive' /\ Claimed' \subseteq Claimed
<1>1. proc'[p] = g /\ \A q \in Procs : q # p => proc'[q] = proc[q]
  BY OthersStay
<1>2. Exclusive'
  <2>1. \A q, r \in Procs : q # r => Claims(proc'[q]) \cap Claims(proc'[r]) = {}
    BY <1>1 DEF Exclusive
  <2>2. \A u \in BagToSet(queue'), q \in Procs : TaskClaims(u) \cap Claims(proc'[q]) = {}
    BY <1>1 DEF Exclusive
  <2>3. \A u, v \in BagToSet(queue') : u # v => TaskClaims(u) \cap TaskClaims(v) = {}
    BY DEF Exclusive
  <2>4. \A u \in BagToSet(queue') : TaskClaims(u) # {} => queue'[u] = 1
    BY DEF Exclusive
  <2> QED
    BY <2>1, <2>2, <2>3, <2>4 DEF Exclusive
<1>7. Claimed' \subseteq Claimed
  BY <1>1, ClaimedIs
<1> QED
  BY <1>2, <1>7
----------------------------------------------------------------------------
(* What a step of a handler does to the turns, the tasks and the row: the    *)
(* actions of the handlers are of twelve kinds.                             *)
Runs(w, g) == Becomes(w, g) /\ Fits(g) /\ g.att <= latest /\ g.pc \notin ApiPCs

Lighter(f, g) ==
    /\ Turn(g) \subseteq Turn(f) /\ Duties(g) \subseteq Duties(f) /\ Holds(g) = Holds(f)
    /\ g.pc \in SaverPCs => f.pc \in SaverPCs
    /\ g.pc \in FollowerPCs => f.pc \in FollowerPCs
    /\ g.pc \in SaverPCs \cup FollowerPCs => g.att \in {f.att, latest}

Alike(f, g) ==
    Plans(g) = Plans(f) /\ Shorts(g) = Shorts(f) /\ Owns(g) = Owns(f) /\ Drains(g) = Drains(f)

(* The counter of the images is left alone while images are left. *)
CountLeft(w) == mm' = mm \/ Turn(proc[w]) = Driver \/ ManyPosts

Shifts(w, g) ==
    Runs(w, g) /\ Lighter(proc[w], g) /\ CountLeft(w) /\ UNCHANGED <<row, latest, queue>>
Moves(w, g) == Shifts(w, g) /\ Alike(proc[w], g)

Takes(w, g, t) ==
    /\ Runs(w, g) /\ At(w, "idle")
    /\ queue' = queue (-) SetToBag({t}) /\ UNCHANGED <<row, latest, mm>>
    /\ Turn(g) \subseteq TaskClaims(t)
    /\ Plans(g) = {} /\ Shorts(g) = {} /\ Drains(g) = {}
    /\ Owns(g) = IF t.kind \in Enrichment THEN TaskClaims(t) ELSE {}
    /\ g.pc \in SaverPCs => t.kind = "process"
    /\ g.pc \in FollowerPCs => t.kind \in {"post", "image"}
    /\ g.pc \in SaverPCs \cup FollowerPCs => g.att = t.att

Puts(w, g, t) ==
    /\ Runs(w, g) /\ Add(t) /\ TaskFits(t) /\ t.att \in {0, latest} /\ UNCHANGED <<row, latest>>
    /\ CountLeft(w)
    /\ Turn(g) \subseteq Turn(proc[w]) /\ Duties(g) \subseteq Duties(proc[w])
    /\ TaskClaims(t) \subseteq Turn(proc[w]) \cup Holds(proc[w])
    /\ TaskClaims(t) \cap Claims(g) = {}
    /\ Holds(g) = Holds(proc[w]) \ TaskClaims(t)
    /\ t.kind = "process" => proc[w].pc \in SaverPCs
    /\ t.kind \in {"post", "image"} => proc[w].pc \in FollowerPCs
    /\ g.pc \notin SaverPCs
    /\ g.pc \in FollowerPCs => proc[w].pc \in FollowerPCs /\ g.att = proc[w].att

(* A task goes back to the queue, or the next one of the pipeline into it. *)
PutsBack(w, g, t) ==
    /\ Puts(w, g, t)
    /\ Plans(g) = Plans(proc[w]) /\ Shorts(g) = Shorts(proc[w]) /\ Drains(g) = Drains(proc[w])
    /\ Owns(g) = Owns(proc[w]) \ TaskClaims(t)

Spawns(w, g, n) ==
    /\ Runs(w, g) /\ At(w, "post.spawn") /\ n \in Slots /\ g.att = proc[w].att
    /\ <<"slot", g.att, n>> \in Plans(proc[w])
    /\ g.pc \notin SaverPCs \cup FollowerPCs /\ UNCHANGED <<row, latest, mm>>
    /\ Turn(g) = {} /\ Plans(g) = Plans(proc[w]) \ {<<"slot", g.att, n>>}
    /\ Owns(g) = {} /\ Drains(g) = {} /\ Owns(proc[w]) = {} /\ Drains(proc[w]) = {}
    /\ Plans(proc[w]) \cap Shorts(proc[w]) = {}
    /\ \/ Add(Task(KindOf(n), g.att, n)) /\ Shorts(g) = Shorts(proc[w])
       \/ UNCHANGED queue /\ Shorts(g) = Shorts(proc[w]) \cup {<<"slot", g.att, n>>}

Saves(w, g, status) ==
    /\ Runs(w, g) /\ proc[w].pc \in SaverPCs
    /\ row' = Saved(row, status) /\ UNCHANGED <<latest, mm, queue>>
    /\ \/ status = "processing"
       \/ status = "failed" /\ g.pc \notin SaverPCs \cup FollowerPCs
    /\ Turn(g) \subseteq Driver /\ Duties(g) = {} /\ Duties(proc[w]) = {}
    /\ g.pc \in SaverPCs \cup FollowerPCs => g.att = proc[w].att

PostFails(w, g) ==
    /\ Runs(w, g) /\ proc[w].pc \in PosterPCs /\ g.pc \notin SaverPCs \cup FollowerPCs
    /\ Turn(g) = {} /\ Duties(g) = {} /\ Duties(proc[w]) = {}
    /\ row' = FailedIfActive(row) /\ UNCHANGED <<latest, mm, queue>>

HandsOver(w, g) ==
    /\ Runs(w, g) /\ At(w, "post.handoff") /\ g.pc = "post.spawn"
    /\ Has(row, {"processing"}) /\ row' = HandedOff(row, Cardinality(proc[w].todo))
    /\ UNCHANGED <<latest, mm, queue>>
    /\ proc[w].todo \subseteq Slots /\ proc[w].todo # {}
    /\ g.att = proc[w].att /\ g.todo = proc[w].todo /\ g.short = {}
    /\ Turn(g) = {} /\ Duties(g) = SlotsOf(latest, proc[w].todo) /\ Holds(g) = Duties(g)
    /\ Duties(proc[w]) = {}

CompletesNow(w, g) ==
    /\ Runs(w, g) /\ proc[w].pc \in PosterPCs /\ g.pc \notin SaverPCs \cup FollowerPCs
    /\ Turn(g) = {} /\ Duties(g) = {} /\ Duties(proc[w]) = {}
    /\ row' = CompletedAtOnce(row) /\ UNCHANGED <<latest, mm, queue>>

GivesBack(w, g, n) ==
    /\ Runs(w, g) /\ n \in Slots /\ g.pc \notin SaverPCs \cup FollowerPCs
    /\ row' = Decremented(row) /\ UNCHANGED <<latest, mm, queue>>
    /\ Turn(g) = {} /\ Duties(g) = Duties(proc[w]) /\ Drains(proc[w]) = {}
    /\ g.att = proc[w].att /\ <<"slot", g.att, n>> \in Holds(proc[w])
    /\ Drains(g) = {<<"slot", g.att, n>>} /\ Plans(g) = {} /\ Plans(proc[w]) = {}
    /\ Shorts(g) = Shorts(proc[w]) /\ Owns(g) = Owns(proc[w]) \ Drains(g)

Promotes(w, g, n) ==
    /\ Runs(w, g) /\ n \in Slots /\ g.pc \notin SaverPCs \cup FollowerPCs
    /\ row' = Promoted(row) /\ UNCHANGED <<latest, mm, queue>>
    /\ Turn(g) = {} /\ Drains(g) = {} /\ Plans(g) = {} /\ Plans(proc[w]) = {}
    /\ Owns(g) = {} /\ Owns(proc[w]) = {}
    /\ Drains(proc[w]) = {<<"slot", proc[w].att, n>>}
    /\ Shorts(g) = Shorts(proc[w]) \ Drains(proc[w])

Counts(w, g) ==
    /\ Runs(w, g) /\ At(w, "image.count") /\ ~Lite
    /\ mm' = mm - 1 /\ UNCHANGED <<row, latest, queue>>
    /\ g.pc = (IF mm - 1 <= 0 THEN "image.last" ELSE "idle")
    /\ Duties(g) = {} /\ Duties(proc[w]) = {} /\ (g.pc = "image.last" => g.att = proc[w].att)
    /\ Turn(g) = (IF mm - 1 <= 0 THEN Driver ELSE {})

SetsCounter(w, g) ==
    /\ Runs(w, g) /\ At(w, "mm.set") /\ g.pc = "mm.enqueue"
    /\ mm' = (IF Lite THEN mm ELSE Images) /\ UNCHANGED <<row, latest, queue>>
    /\ Duties(g) = {} /\ Duties(proc[w]) = {} /\ g.att = proc[w].att
    /\ Turn(g) \subseteq ImagesOf(g.att, 1..Images)
    /\ ManyPosts => Turn(g) = {}

WorkerKinds(w) ==
    \E g \in Locals :
       \/ Moves(w, g)
       \/ \E t \in BagToSet(queue) : Takes(w, g, t)
       \/ \E t \in Tasks : PutsBack(w, g, t)
       \/ \E s \in {"processing", "failed"} : Saves(w, g, s)
       \/ PostFails(w, g) \/ HandsOver(w, g) \/ CompletesNow(w, g)
       \/ \E n \in Slots : Spawns(w, g, n) \/ GivesBack(w, g, n) \/ Promotes(w, g, n)
       \/ Counts(w, g) \/ SetsCounter(w, g)
----------------------------------------------------------------------------
(* What each handler claims, by where it is. *)
LEMMA NoDuties ==
  ASSUME NEW f, Fits(f), f.pc \notin GiverPCs \cup OwnerPCs \cup {"promote"}
  PROVE  /\ Plans(f) = {} /\ Shorts(f) = {} /\ Owns(f) = {} /\ Drains(f) = {}
         /\ Duties(f) = {} /\ Holds(f) = {}
<1>1. f.short = {} /\ f.pc \notin {"post.spawn", "post.promote", "promote"} \cup OwnerPCs
  BY DEF Fits, GiverPCs
<1>2. Shorts(f) = {} /\ Plans(f) = {} /\ Owns(f) = {} /\ Drains(f) = {}
  BY <1>1 DEF Shorts, SlotsOf, Plans, Owns, Drains
<1> QED
  BY <1>2 DEF Duties, Holds

(* A subtask at work owns the slot of its task, and nothing else. *)
LEMMA OwnerDuty ==
  ASSUME NEW f, Fits(f), f.pc \in OwnerPCs
  PROVE  /\ Plans(f) = {} /\ Shorts(f) = {} /\ Drains(f) = {} /\ Turn(f) = {}
         /\ Owns(f) = SlotsOf(f.att, {f.job.n}) /\ Duties(f) = Owns(f) /\ Holds(f) = Owns(f)
<1> USE DEF OwnerPCs, SummaryPCs, SavingPCs
<1>1. f.short = {} /\ f.pc \notin {"post.spawn", "post.promote", "promote"}
  BY DEF Fits, GiverPCs
<1>2. Shorts(f) = {} /\ Plans(f) = {} /\ Drains(f) = {}
  BY <1>1 DEF Shorts, SlotsOf, Plans, Drains
<1>3. Owns(f) = SlotsOf(f.att, {f.job.n})
  BY DEF Owns
<1>4. Turn(f) = {}
  BY DEF Turn, SaverPCs, ReparsePCs, PosterPCs, ReadingPCs
<1> QED
  BY <1>2, <1>3, <1>4 DEF Duties, Holds

(* The turn of a handler, by where it is. *)
LEMMA TurnOf ==
  ASSUME NEW f
  PROVE  /\ f.pc \in SaverPCs \cup ReparsePCs => Turn(f) = Driver
         /\ f.pc \in PosterPCs \cup {"doc.post", "mm.set", "image.last"} =>
               Turn(f) = IF ManyPosts THEN {} ELSE Driver
         /\ f.pc = "mm.enqueue" => Turn(f) = IF ManyPosts THEN {} ELSE ImagesOf(f.att, f.todo)
         /\ f.pc \in ReadingPCs => Turn(f) = IF ManyPosts THEN {} ELSE ImagesOf(f.att, {f.job.n})
         /\ f.pc \notin SaverPCs \cup ReparsePCs \cup FollowerPCs => Turn(f) = {}
<1> USE DEF SaverPCs, ReparsePCs, PosterPCs, ReadingPCs
<1>1. f.pc \in SaverPCs \cup ReparsePCs => Turn(f) = Driver
  BY DEF Turn
<1>2. f.pc \in PosterPCs \cup {"doc.post", "mm.set", "image.last"} =>
               Turn(f) = IF ManyPosts THEN {} ELSE Driver
  BY DEF Turn
<1>3. f.pc = "mm.enqueue" => Turn(f) = IF ManyPosts THEN {} ELSE ImagesOf(f.att, f.todo)
  BY DEF Turn
<1>4. f.pc \in ReadingPCs => Turn(f) = IF ManyPosts THEN {} ELSE ImagesOf(f.att, {f.job.n})
  BY DEF Turn
<1>5. f.pc \notin SaverPCs \cup ReparsePCs \cup FollowerPCs => Turn(f) = {}
  BY DEF Turn, FollowerPCs, ImagePCs
<1> QED
  BY <1>1, <1>2, <1>3, <1>4, <1>5

(* Claims of different kinds have nothing in common. *)
LEMMA KindsOfClaims ==
  ASSUME NEW a, NEW b, NEW S, NEW T
  PROVE  /\ Driver \cap ImagesOf(a, S) = {} /\ Driver \cap SlotsOf(a, S) = {}
         /\ ImagesOf(a, S) \cap SlotsOf(b, T) = {}
  BY DEF Driver, ImagesOf, SlotsOf

LEMMA ClaimsOfSets ==
  ASSUME NEW a, NEW S, NEW T
  PROVE  /\ S \subseteq T => ImagesOf(a, S) \subseteq ImagesOf(a, T) /\ SlotsOf(a, S) \subseteq SlotsOf(a, T)
         /\ S \cap T = {} => ImagesOf(a, S) \cap ImagesOf(a, T) = {} /\ SlotsOf(a, S) \cap SlotsOf(a, T) = {}
         /\ SlotsOf(a, S \ T) = SlotsOf(a, S) \ SlotsOf(a, T)
         /\ SlotsOf(a, S \cup T) = SlotsOf(a, S) \cup SlotsOf(a, T)
         /\ \A n : <<"slot", a, n>> \in SlotsOf(a, S) <=> n \in S
  BY DEF ImagesOf, SlotsOf

(* An idle process claims nothing. *)
LEMMA IdleFits ==
  /\ Fits(Idle) /\ Idle \in Locals /\ Turn(Idle) = {} /\ Duties(Idle) = {} /\ Holds(Idle) = {}
  /\ Plans(Idle) = {} /\ Shorts(Idle) = {} /\ Owns(Idle) = {} /\ Drains(Idle) = {}
  /\ Claims(Idle) = {} /\ Idle.pc = "idle" /\ Idle.att = 0
<1>0. Idle.pc = "idle" /\ Idle.att = 0 /\ Idle.job = NoTask /\ Idle.short = {}
      /\ NoTask.kind = "none" /\ NoTask.att = 0
  BY DEF Idle, NoTask, Task
<1> USE DEF SaverPCs, ReparsePCs, PosterPCs, ReadingPCs, FollowerPCs, ImagePCs, GiverPCs, OwnerPCs,
            SummaryPCs, SavingPCs, ApiPCs, StopPCs, SweepPCs, ParsingPCs
<1>1. Fits(Idle)
  BY <1>0 DEF Fits
<1>2. Idle \in Locals
  BY IdleIsFrame, FramesAreLocals
<1>3. Turn(Idle) = {}
  BY <1>0, TurnOf
<1> QED
  BY <1>0, <1>1, <1>2, <1>3, NoDuties DEF Claims

LEMMA WorkerLeaves ==
  ASSUME TypeOK, NEW w \in Workers, Leave(w) PROVE Runs(w, Idle)
<1>1. latest >= 0
  BY DEF TypeOK, Attempts
<1>2. Idle.pc \notin ApiPCs
  BY IdleFits DEF ApiPCs, ReparsePCs, StopPCs, SweepPCs
<1> QED
  BY <1>1, <1>2, IdleFits DEF Leave, Becomes, Runs

(* Goto changes the place of a frame, and nothing else. *)
LEMMA AfterGoto ==
  ASSUME TypeOK, NEW p \in Procs, NEW pc \in PCs, Goto(p, pc)
  PROVE  \E g \in Locals :
            /\ Becomes(p, g) /\ g.pc = pc /\ g.job = proc[p].job /\ g.att = proc[p].att
            /\ g.seen = proc[p].seen /\ g.todo = proc[p].todo /\ g.short = proc[p].short
<1>1. proc[p] \in Locals
  BY FramesAreLocals DEF TypeOK
<1> DEFINE g == [proc[p] EXCEPT !.pc = pc]
<1>2. g \in Locals /\ g.pc = pc /\ g.job = proc[p].job /\ g.att = proc[p].att
            /\ g.seen = proc[p].seen /\ g.todo = proc[p].todo /\ g.short = proc[p].short
  BY <1>1 DEF Locals
<1>3. Becomes(p, g)
  BY DEF Goto, Becomes
<1> HIDE DEF g
<1> QED
  BY <1>2, <1>3
----------------------------------------------------------------------------
(* Without crashes and failing statements: what a check answers is true, and *)
(* a handler that has succeeded is over.                                     *)
LEMMA CalmSteps ==
  ASSUME Calm
  PROVE  /\ "crash" \notin Faults /\ "db" \notin Faults
         /\ \A p : Finish(p) <=> Leave(p)
         /\ \A status : TrySave(status) <=> row' = Saved(row, status)
<1>1. "crash" \notin Faults /\ "db" \notin Faults
  BY DEF Calm
<1> QED
  BY <1>1 DEF Finish, TrySave

(* A worker is a process and no caller. *)
LEMMA CallersAreNoWorkers ==
  ASSUME NEW w \in Workers PROVE w \in Procs /\ w \notin Callers
  BY PipelineAssumption DEF Procs

(* A handler that is parsing goes on, and stays a saver or stops being one. *)
LEMMA SaverGoes ==
  ASSUME TypeOK, Shapes, NEW w \in Workers, proc[w].pc \in SaverPCs,
         NEW pc \in SaverPCs \cup {"chunk.undo", "doc.post", "mm.set"}, Goto(w, pc)
  PROVE  \E g \in Locals :
            /\ Runs(w, g) /\ g.pc = pc /\ g.att = proc[w].att
            /\ Turn(g) \subseteq Driver /\ Turn(proc[w]) = Driver
            /\ Plans(g) = {} /\ Shorts(g) = {} /\ Owns(g) = {} /\ Drains(g) = {}
            /\ Plans(proc[w]) = {} /\ Shorts(proc[w]) = {} /\ Owns(proc[w]) = {} /\ Drains(proc[w]) = {}
            /\ Duties(g) = {} /\ Duties(proc[w]) = {} /\ Holds(g) = {} /\ Holds(proc[w]) = {}
<1> USE DEF SaverPCs
<1>1. pc \in PCs /\ w \in Procs
  BY DEF PCs, Procs
<1>2. PICK g \in Locals :
            /\ Becomes(w, g) /\ g.pc = pc /\ g.job = proc[w].job /\ g.att = proc[w].att
            /\ g.seen = proc[w].seen /\ g.todo = proc[w].todo /\ g.short = proc[w].short
  BY <1>1, AfterGoto
<1>3. Fits(proc[w]) /\ proc[w].att <= latest
  BY <1>1 DEF Shapes
<1>4. pc \notin PosterPCs \cup GiverPCs \cup OwnerPCs \cup {"promote"} \cup ApiPCs \cup ImagePCs \cup SummaryPCs
      /\ pc \notin SavingPCs /\ pc \in ParsingPCs
  BY DEF PosterPCs, GiverPCs, OwnerPCs, SummaryPCs, SavingPCs, ApiPCs, ReparsePCs, StopPCs, SweepPCs,
         ImagePCs, ReadingPCs, ParsingPCs
<1>5. proc[w].pc \notin PosterPCs \cup GiverPCs \cup OwnerPCs \cup {"promote"}
      /\ proc[w].pc \in ParsingPCs
  BY DEF PosterPCs, GiverPCs, OwnerPCs, SummaryPCs, SavingPCs, ParsingPCs
<1>6. Fits(g)
  BY <1>2, <1>3, <1>4, <1>5 DEF Fits, GiverPCs
<1>7. Runs(w, g)
  BY <1>2, <1>3, <1>4, <1>6 DEF Runs
<1>8. Turn(g) \subseteq Driver /\ Turn(proc[w]) = Driver
  <2>1. pc \in SaverPCs => Turn(g) = Driver
    BY <1>2, TurnOf
  <2>2. pc \in {"doc.post", "mm.set"} => Turn(g) \subseteq Driver
    BY <1>2, TurnOf
  <2>3. pc = "chunk.undo" => Turn(g) = {}
    <3>1. "chunk.undo" \notin SaverPCs \cup ReparsePCs \cup FollowerPCs
      BY DEF ReparsePCs, FollowerPCs, PosterPCs, ImagePCs, ReadingPCs
    <3> QED
      BY <1>2, <3>1, TurnOf
  <2>4. Turn(proc[w]) = Driver
    BY TurnOf
  <2> QED
    BY <2>1, <2>2, <2>3, <2>4
<1> QED
  BY <1>2, <1>3, <1>4, <1>5, <1>6, <1>7, <1>8, NoDuties

(* As long as it is a saver, nothing but the place in the code has changed. *)
LEMMA SaverMoves ==
  ASSUME TypeOK, Shapes, NEW w \in Workers, proc[w].pc \in SaverPCs,
         NEW pc \in SaverPCs, Goto(w, pc), UNCHANGED <<row, latest, mm, queue>>
  PROVE  WorkerKinds(w)
<1>0. CountLeft(w)
  BY DEF CountLeft
<1>1. PICK g \in Locals :
            /\ Runs(w, g) /\ g.pc = pc /\ g.att = proc[w].att
            /\ Turn(g) \subseteq Driver /\ Turn(proc[w]) = Driver
            /\ Plans(g) = {} /\ Shorts(g) = {} /\ Owns(g) = {} /\ Drains(g) = {}
            /\ Plans(proc[w]) = {} /\ Shorts(proc[w]) = {} /\ Owns(proc[w]) = {} /\ Drains(proc[w]) = {}
            /\ Duties(g) = {} /\ Duties(proc[w]) = {} /\ Holds(g) = {} /\ Holds(proc[w]) = {}
  BY SaverGoes
<1>2. pc \notin FollowerPCs
  BY DEF SaverPCs, FollowerPCs, PosterPCs, ImagePCs, ReadingPCs
<1>3. Moves(w, g)
  BY <1>0, <1>1, <1>2 DEF Moves, Shifts, Lighter, Alike
<1> QED
  BY <1>3 DEF WorkerKinds

(* A handler without a slot may end at any time. *)
LEMMA LeavingMoves ==
  ASSUME TypeOK, Shapes, NEW w \in Workers,
         proc[w].pc \notin GiverPCs \cup OwnerPCs \cup {"promote"},
         Leave(w), CountLeft(w), UNCHANGED <<row, latest, queue>>
  PROVE  WorkerKinds(w)
<1>1. Fits(proc[w])
  BY CallersAreNoWorkers DEF Shapes
<1>2. Alike(proc[w], Idle) /\ Holds(proc[w]) = {}
  BY <1>1, NoDuties, IdleFits DEF Alike
<1>3. Idle.pc \notin SaverPCs \cup FollowerPCs
  BY IdleFits DEF SaverPCs, FollowerPCs, PosterPCs, ImagePCs, ReadingPCs
<1>4. Moves(w, Idle)
  BY <1>2, <1>3, WorkerLeaves, IdleFits DEF Moves, Shifts, Lighter
<1> QED
  BY <1>4, IdleFits DEF WorkerKinds

(* A handler puts a task into the queue and ends. *)
LEMMA LeavingPuts ==
  ASSUME TypeOK, Shapes, NEW w \in Workers, NEW t \in Tasks, Leave(w), Add(t),
         TaskFits(t), t.att \in {0, latest}, UNCHANGED <<row, latest>>,
         CountLeft(w),
         t.kind \notin Enrichment, TaskClaims(t) \subseteq Turn(proc[w]),
         \/ proc[w].pc \in SaverPCs /\ t.kind = "process"
         \/ proc[w].pc \in FollowerPCs /\ t.kind \in {"post", "image"}
  PROVE  WorkerKinds(w)
<1>1. Fits(proc[w])
  BY CallersAreNoWorkers DEF Shapes
<1>2. proc[w].pc \notin GiverPCs \cup OwnerPCs \cup {"promote"}
  BY DEF GiverPCs, OwnerPCs, SummaryPCs, SavingPCs, SaverPCs, FollowerPCs, PosterPCs, ImagePCs, ReadingPCs
<1>3. /\ Plans(proc[w]) = {} /\ Shorts(proc[w]) = {} /\ Owns(proc[w]) = {} /\ Drains(proc[w]) = {}
      /\ Duties(proc[w]) = {} /\ Holds(proc[w]) = {}
  BY <1>1, <1>2, NoDuties
<1>4. Idle.pc \notin SaverPCs \cup FollowerPCs
  BY IdleFits DEF SaverPCs, FollowerPCs, PosterPCs, ImagePCs, ReadingPCs
<1>5. Puts(w, Idle, t)
  BY <1>3, <1>4, IdleFits, WorkerLeaves DEF Puts
<1>6. PutsBack(w, Idle, t)
  BY <1>3, <1>5, IdleFits DEF PutsBack
<1> QED
  BY <1>6, IdleFits DEF WorkerKinds

(* The row is saved by a handler that is parsing. *)
LEMMA SaverSaves ==
  ASSUME TypeOK, Shapes, NEW w \in Workers, proc[w].pc \in SaverPCs,
         UNCHANGED <<latest, mm, queue>>,
         \/ /\ row' = Saved(row, "processing")
            /\ \E pc \in SaverPCs \cup {"doc.post", "mm.set"} : Goto(w, pc)
         \/ row' = Saved(row, "failed") /\ (Goto(w, "chunk.undo") \/ Leave(w))
  PROVE  WorkerKinds(w)
<1> DEFINE Gone(g) == g.pc \notin SaverPCs \cup FollowerPCs
<1>0. "chunk.undo" \notin SaverPCs \cup FollowerPCs /\ Idle.pc \notin SaverPCs \cup FollowerPCs
  BY IdleFits DEF SaverPCs, FollowerPCs, PosterPCs, ImagePCs, ReadingPCs
<1>1. CASE Leave(w) /\ row' = Saved(row, "failed")
  <2>1. Duties(proc[w]) = {}
    <3>1. proc[w].pc \notin GiverPCs \cup OwnerPCs \cup {"promote"}
      BY DEF GiverPCs, OwnerPCs, SummaryPCs, SavingPCs, SaverPCs
    <3> QED
      BY <3>1, CallersAreNoWorkers, NoDuties DEF Shapes
  <2>2. Saves(w, Idle, "failed")
    BY <1>0, <1>1, <2>1, IdleFits, WorkerLeaves DEF Saves
  <2> QED
    BY <2>2, IdleFits DEF WorkerKinds
<1>2. ASSUME NEW pc \in SaverPCs \cup {"chunk.undo", "doc.post", "mm.set"}, Goto(w, pc),
             NEW s \in {"processing", "failed"}, row' = Saved(row, s),
             s = "failed" => pc = "chunk.undo"
      PROVE  WorkerKinds(w)
  <2>1. PICK g \in Locals :
            /\ Runs(w, g) /\ g.pc = pc /\ g.att = proc[w].att
            /\ Turn(g) \subseteq Driver /\ Turn(proc[w]) = Driver
            /\ Plans(g) = {} /\ Shorts(g) = {} /\ Owns(g) = {} /\ Drains(g) = {}
            /\ Plans(proc[w]) = {} /\ Shorts(proc[w]) = {} /\ Owns(proc[w]) = {} /\ Drains(proc[w]) = {}
            /\ Duties(g) = {} /\ Duties(proc[w]) = {} /\ Holds(g) = {} /\ Holds(proc[w]) = {}
    BY <1>2, SaverGoes
  <2>2. Saves(w, g, s)
    BY <1>0, <1>2, <2>1 DEF Saves
  <2> QED
    BY <2>2 DEF WorkerKinds
<1> QED
  BY <1>1, <1>2

(* A task of the queue is one of a known kind. *)
LEMMA TasksFit ==
  ASSUME TypeOK, Shapes, NEW t \in BagToSet(queue)
  PROVE  t \in Tasks /\ TaskFits(t) /\ t.att \in {0, latest}
         /\ (t.att = 0 => t.kind = "post")
  BY DEF TypeOK, Shapes, Tasks, TaskFits, Enrichment
----------------------------------------------------------------------------
(* The steps of the document:process handler are of these kinds. *)
LEMMA AfterTake ==
  ASSUME TypeOK, Shapes, NEW w \in Workers, NEW t \in BagToSet(queue), NEW pc \in PCs,
         NEW seen \in Statuses \cup {"none"}, Take(w, t, pc, seen)
  PROVE  \E g \in Locals :
            /\ Becomes(w, g) /\ g.pc = pc /\ g.job = t /\ g.att = t.att /\ g.seen = seen
            /\ g.todo = {} /\ g.short = {} /\ g.att <= latest
<1>1. t \in Tasks /\ t.att \in {0, latest} /\ latest \in Nat
  BY TasksFit DEF TypeOK, Attempts
<1>2. t.att \in 0..MaxAttempt
  BY <1>1 DEF Tasks
<1> DEFINE g == [Idle EXCEPT !.pc = pc, !.job = t, !.att = t.att, !.seen = seen]
<1>3. Idle \in Locals /\ Idle.todo = {} /\ Idle.short = {}
  BY IdleFits DEF Idle
<1>4. g \in Locals /\ g.pc = pc /\ g.job = t /\ g.att = t.att /\ g.seen = seen
            /\ g.todo = {} /\ g.short = {}
  BY <1>1, <1>2, <1>3 DEF Locals
<1>5. Becomes(w, g)
  BY DEF Take, Becomes
<1>6. g.att <= latest
  BY <1>1, <1>4
<1> HIDE DEF g
<1> QED
  BY <1>4, <1>5, <1>6

(* The handler runs its task again. *)
LEMMA RetryIsTask ==
  ASSUME TypeOK, NEW p \in Procs, ~FinalTry(p),
         NEW t, t = [proc[p].job EXCEPT !.try = @ + 1]
  PROVE  /\ t \in Tasks /\ t.kind = proc[p].job.kind /\ t.att = proc[p].job.att
         /\ t.n = proc[p].job.n
<1>1. proc[p].job \in Tasks
  BY DEF TypeOK, Frames
<1>2. t \in Tasks
  BY <1>1, PipelineAssumption DEF Tasks, FinalTry
<1> QED
  BY <1>1, <1>2 DEF Tasks

LEMMA SaverRetries ==
  ASSUME TypeOK, Shapes, Phases, NEW w \in Workers, proc[w].pc \in SaverPCs,
         ~FinalTry(w), Leave(w), Retry(w), UNCHANGED <<row, latest, mm>>
  PROVE  WorkerKinds(w)
<1> DEFINE t == [proc[w].job EXCEPT !.try = @ + 1]
<1>1. w \in Procs /\ Fits(proc[w])
  BY CallersAreNoWorkers DEF Shapes
<1>2. t \in Tasks /\ t.kind = proc[w].job.kind /\ t.att = proc[w].job.att /\ t.n = proc[w].job.n
  BY <1>1, RetryIsTask
<1>3. proc[w].job.kind = "process" /\ proc[w].att = proc[w].job.att
  BY <1>1 DEF Fits, SaverPCs, ParsingPCs, PosterPCs, GiverPCs
<1>4. Add(t)
  BY DEF Retry
<1> HIDE DEF t
<1>5. t.kind = "process" /\ t.kind \notin Enrichment /\ TaskFits(t)
  BY <1>2, <1>3 DEF TaskFits, Enrichment
<1>6. t.att \in {0, latest}
  BY <1>2, <1>3 DEF Phases
<1>7. TaskClaims(t) = Driver /\ Turn(proc[w]) = Driver
  BY <1>5, TurnOf DEF TaskClaims
<1>8. CountLeft(w)
  BY DEF CountLeft
<1> QED
  BY <1>2, <1>4, <1>5, <1>6, <1>7, <1>8, LeavingPuts

(* A worker in a handler that is parsing runs a row that may be parsed. *)
LEMMA TasksAreTyped ==
  ASSUME NEW kind \in Kinds, NEW a \in 0..MaxAttempt, NEW n \in 0..(Questions + Graphs + Images),
         a = 0 => kind \in {"post", "cancel", "delete", "sweep", "none"}
  PROVE  /\ Task(kind, a, n) \in Tasks
         /\ Task(kind, a, n).kind = kind /\ Task(kind, a, n).att = a /\ Task(kind, a, n).n = n
  BY PipelineAssumption DEF Task, Tasks

LEMMA PostPuts ==
  ASSUME TypeOK, Shapes, NEW w \in Workers, NEW a \in {0, latest}, Leave(w),
         Enqueue(Task("post", a, 0)), UNCHANGED <<row, latest>>, CountLeft(w),
         proc[w].pc \in FollowerPCs, Turn(proc[w]) = Driver \/ ManyPosts
  PROVE  WorkerKinds(w)
<1> DEFINE t == Task("post", a, 0)
<1>1. t \in Tasks /\ t.kind = "post" /\ t.att = a /\ t.n = 0
  <2>1. a \in 0..MaxAttempt
    BY PipelineAssumption DEF TypeOK, Attempts
  <2>2. 0 \in 0..(Questions + Graphs + Images) /\ "post" \in Kinds
    BY PipelineAssumption DEF Kinds
  <2> QED
    BY <2>1, <2>2, TasksAreTyped
<1>2. Add(t) \/ UNCHANGED queue
  BY DEF Enqueue
<1> HIDE DEF t
<1>3. TaskFits(t) /\ t.kind \notin Enrichment
  BY <1>1 DEF TaskFits, Enrichment
<1>4. TaskClaims(t) \subseteq Turn(proc[w])
  BY <1>1 DEF TaskClaims, Enrichment
<1>5. proc[w].pc \notin GiverPCs \cup OwnerPCs \cup {"promote"}
  BY DEF GiverPCs, OwnerPCs, SummaryPCs, SavingPCs, FollowerPCs, PosterPCs, ImagePCs, ReadingPCs
<1> QED
  BY <1>1, <1>2, <1>3, <1>4, <1>5, LeavingMoves, LeavingPuts

(* One image after the other is put into the queue. *)
LEMMA EnqueueImageKind ==
  ASSUME TypeOK, Calm, SafetyInv, NEW w \in Workers, EnqueueImage(w)
  PROVE  WorkerKinds(w)
<1> DEFINE a == proc[w].att
           n == First(proc[w].todo)
           rest == proc[w].todo \ {n}
           t == Task("image", a, n)
<1>1. w \in Procs /\ Fits(proc[w]) /\ a <= latest /\ proc[w].pc = "mm.enqueue"
  BY CallersAreNoWorkers DEF Shapes, SafetyInv, EnqueueImage, At
<1>2. proc[w].todo # {} /\ proc[w].todo \subseteq 1..Images /\ a # 0 /\ a \in 0..MaxAttempt
      /\ proc[w] \in Locals
  <2>1. proc[w] \in Frames
    BY <1>1 DEF TypeOK
  <2> QED
    BY <1>1, <2>1, FramesAreLocals DEF Sound, Frames, AttemptlessPCs
<1>3. n \in proc[w].todo /\ n \in 1..Images /\ rest \subseteq 1..Images /\ n \notin rest
  BY <1>2, FirstIsIn
<1>4. a = latest
  BY <1>1, <1>2 DEF Phases, SafetyInv, FollowerPCs
<1>5. t \in Tasks /\ t.kind = "image" /\ t.att = a /\ t.n = n
  <2>1. n \in 0..(Questions + Graphs + Images) /\ "image" \in Kinds
    BY <1>3, PipelineAssumption DEF Kinds
  <2> QED
    BY <1>2, <2>1, TasksAreTyped
<1>6. (Add(t) \/ UNCHANGED queue) /\ UNCHANGED <<row, latest, mm>>
      /\ IF rest = {} THEN Leave(w) ELSE proc' = [proc EXCEPT ![w].todo = rest]
  BY CalmSteps DEF EnqueueImage, Enqueue, QueueOnly, Att
<1> HIDE DEF t, n, rest
<1>7. TaskFits(t) /\ t.kind \notin Enrichment /\ t.att \in {0, latest}
  BY <1>3, <1>4, <1>5 DEF TaskFits, Enrichment
<1>8. Turn(proc[w]) = (IF ManyPosts THEN {} ELSE ImagesOf(a, proc[w].todo))
  BY <1>1, TurnOf
<1>9. TaskClaims(t) = (IF ManyPosts THEN {} ELSE ImagesOf(a, {n}))
  BY <1>5 DEF TaskClaims, Enrichment
<1>10. TaskClaims(t) \subseteq Turn(proc[w])
  <2>1. {n} \subseteq proc[w].todo
    BY <1>3
  <2>2. ImagesOf(a, {n}) \subseteq ImagesOf(a, proc[w].todo)
    BY <2>1, ClaimsOfSets
  <2> QED
    BY <1>8, <1>9, <2>2
<1>11. CountLeft(w)
  BY <1>6 DEF CountLeft
<1>12. proc[w].pc \notin GiverPCs \cup OwnerPCs \cup {"promote"} /\ proc[w].pc \in FollowerPCs
  BY <1>1 DEF GiverPCs, OwnerPCs, SummaryPCs, SavingPCs, FollowerPCs
<1>13. CASE rest = {}
  BY <1>5, <1>6, <1>7, <1>10, <1>11, <1>12, <1>13, LeavingMoves, LeavingPuts DEF SafetyInv
<1>14. CASE rest # {}
  <2> DEFINE g == [proc[w] EXCEPT !.todo = rest]
  <2>1. rest \subseteq Nat
    BY <1>3
  <2>2. g \in Locals /\ g.pc = proc[w].pc /\ g.job = proc[w].job /\ g.att = a
            /\ g.seen = proc[w].seen /\ g.todo = rest /\ g.short = proc[w].short
    BY <1>2, <2>1 DEF Locals
  <2>3. Becomes(w, g)
    BY <1>6, <1>14 DEF Becomes
  <2> HIDE DEF g
  <2>4. Fits(g)
    BY <1>1, <2>2 DEF Fits
  <2>5. Runs(w, g)
    BY <1>1, <2>2, <2>3, <2>4 DEF Runs, ApiPCs, ReparsePCs, StopPCs, SweepPCs
  <2>6. Turn(g) = (IF ManyPosts THEN {} ELSE ImagesOf(a, rest))
    BY <1>1, <2>2, TurnOf
  <2>7. Turn(g) \subseteq Turn(proc[w]) /\ Turn(g) \cap TaskClaims(t) = {}
    <3>1. rest \subseteq proc[w].todo /\ rest \cap {n} = {}
      BY <1>3 DEF rest
    <3>2. ImagesOf(a, rest) \subseteq ImagesOf(a, proc[w].todo)
      BY <3>1 DEF ImagesOf
    <3>3. ImagesOf(a, rest) \cap ImagesOf(a, {n}) = {}
      BY <3>1, ClaimsOfSets
    <3> QED
      BY <1>8, <1>9, <2>6, <3>2, <3>3
  <2>8. /\ Plans(g) = {} /\ Shorts(g) = {} /\ Owns(g) = {} /\ Drains(g) = {}
        /\ Duties(g) = {} /\ Holds(g) = {}
        /\ Plans(proc[w]) = {} /\ Shorts(proc[w]) = {} /\ Owns(proc[w]) = {} /\ Drains(proc[w]) = {}
        /\ Duties(proc[w]) = {} /\ Holds(proc[w]) = {}
    BY <1>1, <1>12, <2>2, <2>4, NoDuties
  <2>9. g.pc \notin SaverPCs
    BY <1>1, <2>2 DEF SaverPCs
  <2>10. CASE Add(t)
    <3>1. Claims(g) \cap TaskClaims(t) = {}
      BY <2>7, <2>8 DEF Claims
    <3>2. Puts(w, g, t)
      BY <1>5, <1>6, <1>7, <1>10, <1>11, <1>12, <2>2, <2>5, <2>7, <2>8, <2>9, <2>10, <3>1 DEF Puts
    <3>3. PutsBack(w, g, t)
      BY <2>8, <3>2 DEF PutsBack
    <3> QED
      BY <1>5, <2>2, <3>3 DEF WorkerKinds
  <2>11. CASE UNCHANGED queue
    <3>1. Moves(w, g)
      BY <1>6, <1>11, <1>12, <2>2, <2>5, <2>7, <2>8, <2>9, <2>11 DEF Moves, Shifts, Lighter, Alike
    <3> QED
      BY <2>2, <3>1 DEF WorkerKinds
  <2> QED
    BY <1>6, <2>10, <2>11
<1> QED
  BY <1>13, <1>14

(* The process task, taken from the queue. *)
LEMMA DocEnterKind ==
  ASSUME TypeOK, Calm, SafetyInv, NEW w \in Workers, NEW t \in BagToSet(queue), DocEnter(w, t)
  PROVE  WorkerKinds(w)
<1>1. t.kind = "process" /\ "db" \notin Faults
  BY CalmSteps DEF DocEnter
<1>2. Has(row, {"pending", "processing"})
  BY <1>1 DEF SafetyInv, Phases, Saving
<1>3. Take(w, t, "doc.recheck", row.status) /\ At(w, "idle")
  BY <1>1, <1>2 DEF DocEnter, Has, IsAborted, Aborted, Take
<1>4. "doc.recheck" \in PCs /\ row.status \in Statuses \cup {"none"}
  BY <1>2 DEF PCs, Has, Statuses
<1>5. PICK g \in Locals :
            /\ Becomes(w, g) /\ g.pc = "doc.recheck" /\ g.job = t /\ g.att = t.att /\ g.seen = row.status
            /\ g.todo = {} /\ g.short = {} /\ g.att <= latest
  BY <1>3, <1>4, AfterTake DEF SafetyInv
<1> USE DEF SaverPCs
<1>6. g.pc \notin PosterPCs \cup GiverPCs \cup OwnerPCs \cup {"promote"} \cup ApiPCs \cup ImagePCs
      /\ g.pc \notin SavingPCs /\ g.pc \in ParsingPCs /\ g.pc \notin SummaryPCs
  BY <1>5 DEF PosterPCs, GiverPCs, OwnerPCs, SummaryPCs, SavingPCs, ApiPCs, ReparsePCs, StopPCs,
              SweepPCs, ImagePCs, ReadingPCs, ParsingPCs
<1>7. Fits(g)
  BY <1>1, <1>5, <1>6 DEF Fits, GiverPCs
<1>8. Turn(g) = Driver /\ TaskClaims(t) = Driver
  BY <1>1, <1>5, TurnOf DEF TaskClaims, Enrichment
<1>9. Plans(g) = {} /\ Shorts(g) = {} /\ Owns(g) = {} /\ Drains(g) = {}
  BY <1>6, <1>7, NoDuties
<1>10. g.pc \notin FollowerPCs
  BY <1>5 DEF FollowerPCs, PosterPCs, ImagePCs, ReadingPCs
<1>11. Takes(w, g, t)
  BY <1>1, <1>3, <1>5, <1>6, <1>7, <1>8, <1>9, <1>10 DEF Takes, Runs, Take, QueueOnly, Enrichment
<1> QED
  BY <1>11 DEF WorkerKinds

(* enqueueImageMultimodalTasks sets the counter before its first task. *)
LEMMA SetMultimodalKind ==
  ASSUME TypeOK, Calm, SafetyInv, NEW w \in Workers, SetMultimodal(w)
  PROVE  WorkerKinds(w)
<1> DEFINE g == [proc[w] EXCEPT !.pc = "mm.enqueue", !.todo = 1..Images]
<1>1. w \in Procs /\ Fits(proc[w]) /\ proc[w].pc = "mm.set" /\ proc[w].att <= latest
      /\ proc[w] \in Locals /\ 1..Images \subseteq Nat /\ "mm.enqueue" \in PCs
  <2>1. w \in Procs /\ Fits(proc[w]) /\ proc[w].pc = "mm.set" /\ proc[w].att <= latest
    BY CallersAreNoWorkers DEF SafetyInv, Shapes, SetMultimodal, At
  <2> QED
    BY <2>1, FramesAreLocals, PipelineAssumption DEF TypeOK, PCs
<1>2. g \in Locals /\ g.pc = "mm.enqueue" /\ g.job = proc[w].job /\ g.att = proc[w].att
            /\ g.seen = proc[w].seen /\ g.todo = 1..Images /\ g.short = proc[w].short
  BY <1>1 DEF Locals
<1>3. Becomes(w, g) /\ mm' = (IF Lite THEN mm ELSE Images) /\ UNCHANGED <<row, latest, queue>>
  BY CalmSteps DEF SetMultimodal, Becomes
<1> HIDE DEF g
<1>4. Fits(g)
  BY <1>1, <1>2 DEF Fits, ParsingPCs, PosterPCs, GiverPCs, ImagePCs, ReadingPCs, OwnerPCs, SummaryPCs,
              SavingPCs, ApiPCs, ReparsePCs, StopPCs, SweepPCs
<1>5. Runs(w, g)
  BY <1>1, <1>2, <1>3, <1>4 DEF Runs, ApiPCs, ReparsePCs, StopPCs, SweepPCs
<1>6. Duties(g) = {} /\ Duties(proc[w]) = {}
  BY <1>1, <1>2, <1>4, NoDuties DEF GiverPCs, OwnerPCs, SummaryPCs, SavingPCs
<1>7. Turn(g) = IF ManyPosts THEN {} ELSE ImagesOf(g.att, 1..Images)
  BY <1>2, TurnOf
<1>8. SetsCounter(w, g)
  BY <1>1, <1>2, <1>3, <1>5, <1>6, <1>7 DEF SetsCounter, At
<1> QED
  BY <1>2, <1>8 DEF WorkerKinds

(* While the document is parsed, what the checks find is not an aborted row. *)
LEMMA DocStepKind ==
  ASSUME TypeOK, Calm, SafetyInv, NEW w \in Workers, DocStep(w)
  PROVE  WorkerKinds(w)
<1>0. Shapes /\ Phases /\ "db" \notin Faults /\ (Finish(w) <=> Leave(w))
      /\ (\A status : TrySave(status) <=> row' = Saved(row, status))
  BY CalmSteps DEF SafetyInv
<1> USE DEF At
<1>a. ASSUME proc[w].pc \in SaverPCs, Leave(w), UNCHANGED <<row, latest, mm, queue>>
      PROVE  WorkerKinds(w)
  <2>1. proc[w].pc \notin GiverPCs \cup OwnerPCs \cup {"promote"} /\ CountLeft(w)
    BY <1>a DEF GiverPCs, OwnerPCs, SummaryPCs, SavingPCs, SaverPCs, CountLeft
  <2> QED
    BY <1>0, <1>a, <2>1, LeavingMoves
<1>1. CASE \E t \in BagToSet(queue) : DocEnter(w, t)
  BY <1>1, DocEnterKind
<1>2. CASE DocRecheck(w)
  BY <1>0, <1>2, <1>a, SaverMoves DEF DocRecheck, ProcOnly, RowOnly, SaverPCs
<1>3. CASE DocMark(w)
  BY <1>0, <1>3, SaverSaves DEF DocMark, RowOnly, SaverPCs
<1>4. CASE DocConvert(w)
  BY <1>0, <1>4, SaverMoves DEF DocConvert, ProcOnly, RowOnly, SaverPCs
<1>5. CASE DocConvertError(w)
  BY <1>0, <1>5, SaverSaves, SaverRetries DEF DocConvertError, SaverPCs
<1>6. CASE DocFatal(w)
  BY <1>0, <1>6, SaverSaves DEF DocFatal, RowOnly, SaverPCs
<1>7. CASE ChunksCheck(w)
  BY <1>0, <1>7, <1>a, SaverMoves DEF ChunksCheck, ProcOnly, RowOnly, SaverPCs
<1>8. CASE ChunksClean(w)
  BY <1>0, <1>8, SaverMoves DEF ChunksClean, StoredOnly, SaverPCs
<1>9. CASE ChunksRecheck(w)
  BY <1>0, <1>9, <1>a, SaverMoves DEF ChunksRecheck, ProcOnly, RowOnly, SaverPCs
<1>10. CASE ChunksWrite(w)
  BY <1>0, <1>10, SaverMoves DEF ChunksWrite, StoredOnly, SaverPCs
<1>11. CASE ChunksBeforeIndex(w)
  BY <1>0, <1>11, <1>a, SaverMoves DEF ChunksBeforeIndex, StoredOnly, SaverPCs
<1>12. CASE ChunksIndex(w)
  BY <1>0, <1>12, SaverMoves DEF ChunksIndex, StoredOnly, SaverPCs
<1>13. CASE ChunksIndexError(w)
  BY <1>0, <1>13, SaverSaves DEF ChunksIndexError, RowOnly, SaverPCs
<1>14. CASE ChunksUndo(w)
  <2>1. proc[w].pc \notin GiverPCs \cup OwnerPCs \cup {"promote"} /\ CountLeft(w)
    BY <1>14 DEF ChunksUndo, StoredOnly, GiverPCs, OwnerPCs, SummaryPCs, SavingPCs, CountLeft
  <2> QED
    BY <1>0, <1>14, <2>1, LeavingMoves DEF ChunksUndo, StoredOnly
<1>15. CASE ChunksFinal(w)
  BY <1>0, <1>15, <1>a, SaverMoves DEF ChunksFinal, StoredOnly, SaverPCs
<1>16. CASE ChunksSave(w)
  BY <1>0, <1>16, SaverSaves DEF ChunksSave, RowOnly, SaverPCs
<1>17. CASE EnqueuePost(w)
  <2>1. proc[w].pc \in FollowerPCs /\ (Turn(proc[w]) = Driver \/ ManyPosts) /\ CountLeft(w)
    BY <1>17, TurnOf DEF EnqueuePost, QueueOnly, FollowerPCs, CountLeft
  <2>2. Att(w) \in {0, latest}
    BY <1>0, <2>1 DEF Phases, Att
  <2> QED
    BY <1>0, <1>17, <2>1, <2>2, PostPuts DEF EnqueuePost, QueueOnly
<1>18. CASE SetMultimodal(w)
  BY <1>18, SetMultimodalKind
<1>19. CASE EnqueueImage(w)
  BY <1>19, EnqueueImageKind
<1> QED
  BY <1>1, <1>2, <1>3, <1>4, <1>5, <1>6, <1>7, <1>8, <1>9, <1>10, <1>11, <1>12, <1>13, <1>14, <1>15,
     <1>16, <1>17, <1>18, <1>19 DEF DocStep
----------------------------------------------------------------------------
(* So are those of post-processing. *)
LEMMA PosterWorks ==
  ASSUME TypeOK, SafetyInv, NEW w \in Workers, proc[w].pc \in PosterPCs
  PROVE  /\ w \in Procs /\ Fits(proc[w]) /\ proc[w].att <= latest /\ proc[w] \in Locals
         /\ Sound(proc[w]) /\ proc[w].att \in {0, latest} /\ proc[w].job.kind = "post"
         /\ proc[w].job.att \in {0, proc[w].att}
         /\ proc[w].pc \notin GiverPCs \cup OwnerPCs \cup {"promote"} /\ proc[w].pc \notin SaverPCs
         /\ proc[w].pc \in FollowerPCs /\ Turn(proc[w]) = (IF ManyPosts THEN {} ELSE Driver)
         /\ Plans(proc[w]) = {} /\ Shorts(proc[w]) = {} /\ Owns(proc[w]) = {} /\ Drains(proc[w]) = {}
         /\ Duties(proc[w]) = {} /\ Holds(proc[w]) = {} /\ proc[w].short = {}
<1>1. w \in Procs /\ Fits(proc[w]) /\ proc[w].att <= latest
  BY CallersAreNoWorkers DEF SafetyInv, Shapes
<1>2. proc[w] \in Locals /\ Sound(proc[w])
  BY <1>1, FramesAreLocals DEF TypeOK
<1>3. proc[w].pc \notin GiverPCs \cup OwnerPCs \cup {"promote"} /\ proc[w].pc \notin SaverPCs
      /\ proc[w].pc \in FollowerPCs
  BY DEF GiverPCs, OwnerPCs, SummaryPCs, SavingPCs, SaverPCs, FollowerPCs, PosterPCs
<1>4. proc[w].att \in {0, latest}
  BY <1>3 DEF SafetyInv, Phases
<1>5. proc[w].job.kind = "post" /\ proc[w].job.att \in {0, proc[w].att} /\ proc[w].short = {}
  BY <1>1, <1>3 DEF Fits
<1>6. Turn(proc[w]) = (IF ManyPosts THEN {} ELSE Driver)
  BY TurnOf
<1> QED
  BY <1>1, <1>2, <1>3, <1>4, <1>5, <1>6, NoDuties

(* The post-processing task, taken from the queue. *)
LEMMA PostEnterKind ==
  ASSUME TypeOK, Calm, SafetyInv, NEW w \in Workers, NEW t \in BagToSet(queue), PostEnter(w, t)
  PROVE  WorkerKinds(w)
<1>1. t.kind = "post" /\ w \in Procs /\ Fits(proc[w]) /\ proc[w].att <= latest /\ proc[w] \in Locals
  BY CallersAreNoWorkers, FramesAreLocals DEF PostEnter, SafetyInv, Shapes, TypeOK
<1>2. TaskClaims(t) = (IF ManyPosts THEN {} ELSE Driver)
  BY <1>1 DEF TaskClaims, Enrichment
<1>3. CASE Drop(w, t)
  <2> DEFINE g == proc[w]
  <2>1. g.pc = "idle"
    BY <1>3 DEF Drop, At
  <2>2. Becomes(w, g)
    BY <1>3 DEF Drop, Becomes, TypeOK
  <2>3. g.pc \notin SaverPCs \cup FollowerPCs \cup ReparsePCs \cup GiverPCs \cup OwnerPCs \cup {"promote"}
        /\ g.pc \notin ApiPCs
    BY <2>1 DEF SaverPCs, FollowerPCs, PosterPCs, ImagePCs, ReadingPCs, ReparsePCs, GiverPCs, OwnerPCs,
                SummaryPCs, SavingPCs, ApiPCs, StopPCs, SweepPCs
  <2>4. Turn(g) = {} /\ Plans(g) = {} /\ Shorts(g) = {} /\ Owns(g) = {} /\ Drains(g) = {}
    BY <1>1, <2>3, TurnOf, NoDuties
  <2>5. Takes(w, g, t)
    BY <1>1, <1>3, <2>2, <2>3, <2>4 DEF Takes, Runs, Drop, QueueOnly, Enrichment
  <2> QED
    BY <1>1, <2>5 DEF WorkerKinds
<1>4. ASSUME NEW pc \in {"post.missing", "post.attempt", "post.list"}, Take(w, t, pc, row.status)
      PROVE  WorkerKinds(w)
  <2>1. pc \in PCs /\ row.status \in Statuses \cup {"none"}
    BY DEF PCs, TypeOK, Rows
  <2>2. PICK g \in Locals :
            /\ Becomes(w, g) /\ g.pc = pc /\ g.job = t /\ g.att = t.att /\ g.seen = row.status
            /\ g.todo = {} /\ g.short = {} /\ g.att <= latest
    BY <1>4, <2>1, AfterTake DEF SafetyInv
  <2>3. g.pc \notin SaverPCs \cup ReparsePCs \cup GiverPCs \cup OwnerPCs \cup {"promote"} \cup ImagePCs
        /\ g.pc \notin ApiPCs /\ g.pc \in PosterPCs /\ g.pc \notin ParsingPCs /\ g.pc \notin SummaryPCs
        /\ g.pc \notin SavingPCs /\ g.pc \in FollowerPCs
    BY <2>2 DEF SaverPCs, FollowerPCs, PosterPCs, ImagePCs, ReadingPCs, ReparsePCs, GiverPCs, OwnerPCs,
                SummaryPCs, SavingPCs, ApiPCs, StopPCs, SweepPCs, ParsingPCs
  <2>4. Fits(g)
    BY <1>1, <2>2, <2>3 DEF Fits
  <2>5. Turn(g) = TaskClaims(t) /\ Plans(g) = {} /\ Shorts(g) = {} /\ Owns(g) = {} /\ Drains(g) = {}
    BY <1>2, <2>3, <2>4, TurnOf, NoDuties
  <2>6. Takes(w, g, t)
    BY <1>1, <1>4, <2>2, <2>3, <2>4, <2>5 DEF Takes, Runs, Take, QueueOnly, Enrichment
  <2> QED
    BY <2>6 DEF WorkerKinds
<1> QED
  BY <1>1, <1>3, <1>4 DEF PostEnter

(* An error returned before the hand-over: the task runs again, or the row fails. *)
LEMMA PosterErrs ==
  ASSUME TypeOK, Calm, SafetyInv, NEW w \in Workers, proc[w].pc \in PosterPCs, ReturnError(w)
  PROVE  WorkerKinds(w)
<1> DEFINE t == [proc[w].job EXCEPT !.try = @ + 1]
<1>1. /\ w \in Procs /\ proc[w].att \in {0, latest} /\ proc[w].job.kind = "post"
      /\ proc[w].job.att \in {0, proc[w].att} /\ proc[w].pc \in FollowerPCs
      /\ Turn(proc[w]) = (IF ManyPosts THEN {} ELSE Driver) /\ Duties(proc[w]) = {}
  BY PosterWorks
<1>2. Leave(w) /\ UNCHANGED <<latest, mm>> /\ CountLeft(w) /\ "db" \notin Faults
  BY CalmSteps DEF ReturnError, CountLeft
<1>3. CASE FinalTry(w)
  <2>1. row' = FailedIfActive(row) /\ UNCHANGED queue
    BY <1>1, <1>2, <1>3 DEF ReturnError
  <2>2. Idle.pc \notin SaverPCs \cup FollowerPCs
    BY IdleFits DEF SaverPCs, FollowerPCs, PosterPCs, ImagePCs, ReadingPCs
  <2>3. PostFails(w, Idle)
    BY <1>1, <1>2, <2>1, <2>2, IdleFits, WorkerLeaves DEF PostFails
  <2> QED
    BY <2>3, IdleFits DEF WorkerKinds
<1>4. CASE ~FinalTry(w)
  <2>1. t \in Tasks /\ t.kind = "post" /\ t.att = proc[w].job.att
    BY <1>1, <1>4, RetryIsTask
  <2>2. Add(t) /\ UNCHANGED row
    BY <1>4 DEF ReturnError, Retry
  <2> HIDE DEF t
  <2>3. TaskFits(t) /\ t.kind \notin Enrichment /\ TaskClaims(t) = Turn(proc[w]) /\ t.att \in {0, latest}
    BY <1>1, <2>1 DEF TaskFits, Enrichment, TaskClaims
  <2> QED
    BY <1>1, <1>2, <2>1, <2>2, <2>3, LeavingPuts DEF SafetyInv
<1> QED
  BY <1>3, <1>4

(* Post-processing goes from one of its reads to the next. *)
LEMMA PosterMoves ==
  ASSUME TypeOK, Calm, SafetyInv, NEW w \in Workers, proc[w].pc \in PosterPCs,
         NEW g \in Locals, Becomes(w, g), g.pc \in PosterPCs, g.job = proc[w].job, g.short = {},
         g.att = proc[w].att \/ (g.att = latest /\ proc[w].pc = "post.attempt"),
         UNCHANGED <<row, latest, mm, queue>>
  PROVE  WorkerKinds(w)
<1>1. /\ Fits(proc[w]) /\ proc[w].att \in {0, latest} /\ proc[w].job.kind = "post"
      /\ proc[w].job.att \in {0, proc[w].att} /\ proc[w].pc \in FollowerPCs
      /\ Turn(proc[w]) = (IF ManyPosts THEN {} ELSE Driver) /\ Duties(proc[w]) = {}
      /\ Plans(proc[w]) = {} /\ Shorts(proc[w]) = {} /\ Owns(proc[w]) = {} /\ Drains(proc[w]) = {}
      /\ Holds(proc[w]) = {}
  BY PosterWorks
<1>2. g.pc \notin SaverPCs \cup ReparsePCs \cup GiverPCs \cup OwnerPCs \cup {"promote"} \cup ImagePCs
        /\ g.pc \notin ApiPCs /\ g.pc \in PosterPCs /\ g.pc \notin ParsingPCs /\ g.pc \notin SummaryPCs
        /\ g.pc \notin SavingPCs /\ g.pc \in FollowerPCs /\ g.pc # "idle" /\ g.pc # "ack"
  BY DEF SaverPCs, FollowerPCs, PosterPCs, ImagePCs, ReadingPCs, ReparsePCs, GiverPCs, OwnerPCs,
                SummaryPCs, SavingPCs, ApiPCs, StopPCs, SweepPCs, ParsingPCs
<1>3. g.att \in {0, latest} /\ g.job.att \in {0, g.att}
  BY <1>1
<1>4. Fits(g)
  BY <1>1, <1>2, <1>3 DEF Fits, GiverPCs
<1>5. Runs(w, g)
  <2>1. latest \in Nat
    BY PipelineAssumption DEF TypeOK, Attempts
  <2>2. g.att <= latest
    BY <1>3, <2>1
  <2> QED
    BY <1>2, <1>4, <2>2 DEF Runs
<1>6. /\ Turn(g) = Turn(proc[w]) /\ Duties(g) = {} /\ Holds(g) = {}
      /\ Plans(g) = {} /\ Shorts(g) = {} /\ Owns(g) = {} /\ Drains(g) = {}
  BY <1>1, <1>2, <1>4, TurnOf, NoDuties
<1>7. CountLeft(w)
  BY DEF CountLeft
<1>8. Moves(w, g)
  BY <1>1, <1>2, <1>5, <1>6, <1>7 DEF Moves, Shifts, Lighter, Alike
<1> QED
  BY <1>8 DEF WorkerKinds

(* The hand-over plans the slots of the current attempt. *)
LEMMA PostHandoffKind ==
  ASSUME TypeOK, Calm, SafetyInv, NEW w \in Workers, PostHandoff(w)
  PROVE  WorkerKinds(w)
<1>1. proc[w].pc = "post.handoff" /\ proc[w].todo # {} /\ UNCHANGED <<latest, mm, queue>>
      /\ row' = HandedOff(row, Cardinality(proc[w].todo))
      /\ IF Has(row, {"processing"}) THEN Goto(w, "post.spawn") ELSE Leave(w)
  BY CalmSteps DEF PostHandoff, At, RowOnly
<1>2. proc[w].pc \in PosterPCs
  BY <1>1 DEF PosterPCs
<1>3. CASE ~Has(row, {"processing"})
  <2>1. Leave(w) /\ row' = row /\ CountLeft(w)
    BY <1>1, <1>3 DEF HandedOff, CountLeft
  <2> QED
    BY <1>1, <1>2, <2>1, LeavingMoves, PosterWorks DEF SafetyInv
<1>4. CASE Has(row, {"processing"})
  <2>1. /\ w \in Procs /\ Fits(proc[w]) /\ proc[w].att <= latest /\ Sound(proc[w])
        /\ proc[w].att \in {0, latest} /\ proc[w].job.kind = "post"
        /\ proc[w].job.att \in {0, proc[w].att} /\ Duties(proc[w]) = {} /\ proc[w].short = {}
    BY <1>2, PosterWorks
  <2>2. proc[w].att = latest /\ proc[w].todo \subseteq Slots
    BY <1>1, <2>1 DEF Sound, AttemptlessPCs
  <2>3. PICK g \in Locals :
            /\ Becomes(w, g) /\ g.pc = "post.spawn" /\ g.job = proc[w].job /\ g.att = proc[w].att
            /\ g.seen = proc[w].seen /\ g.todo = proc[w].todo /\ g.short = proc[w].short
    <3>1. "post.spawn" \in PCs /\ Goto(w, "post.spawn")
      BY <1>1, <1>4 DEF PCs
    <3> QED
      BY <2>1, <3>1, AfterGoto
  <2>4. g.pc \notin SaverPCs \cup ReparsePCs \cup OwnerPCs \cup {"promote"} \cup ImagePCs
        /\ g.pc \notin ApiPCs /\ g.pc \notin PosterPCs /\ g.pc \notin ParsingPCs /\ g.pc \notin SummaryPCs
        /\ g.pc \notin SavingPCs /\ g.pc \notin FollowerPCs /\ g.pc \in GiverPCs
    BY <2>3 DEF SaverPCs, FollowerPCs, PosterPCs, ImagePCs, ReadingPCs, ReparsePCs, GiverPCs, OwnerPCs,
                SummaryPCs, SavingPCs, ApiPCs, StopPCs, SweepPCs, ParsingPCs
  <2>5. Fits(g)
    BY <2>1, <2>3, <2>4 DEF Fits
  <2>6. Runs(w, g)
    BY <2>1, <2>3, <2>4, <2>5 DEF Runs
  <2>7. Turn(g) = {}
    BY <2>4, TurnOf
  <2>8. Plans(g) = SlotsOf(latest, proc[w].todo) /\ Shorts(g) = {} /\ Owns(g) = {} /\ Drains(g) = {}
    BY <2>1, <2>2, <2>3, <2>4 DEF Plans, Shorts, SlotsOf, Owns, Drains
  <2>9. Duties(g) = SlotsOf(latest, proc[w].todo) /\ Holds(g) = Duties(g)
    BY <2>8 DEF Duties, Holds
  <2>10. HandsOver(w, g)
    BY <1>1, <1>4, <2>1, <2>2, <2>3, <2>6, <2>7, <2>9 DEF HandsOver, At
  <2> QED
    BY <2>10 DEF WorkerKinds
<1> QED
  BY <1>3, <1>4

(* One planned slot after the other gets its task, or is left to be given back. *)
LEMMA PostSpawnKind ==
  ASSUME TypeOK, Calm, SafetyInv, NEW w \in Workers, PostSpawn(w)
  PROVE  WorkerKinds(w)
<1> DEFINE f == proc[w]
           n == First(f.todo)
           rest == f.todo \ {n}
           next == IF rest = {} THEN "post.release" ELSE "post.spawn"
<1>1. /\ w \in Procs /\ Fits(f) /\ f.att <= latest /\ f.pc = "post.spawn" /\ f \in Locals
      /\ f.todo \subseteq Slots /\ f.todo # {} /\ f.short \cap f.todo = {} /\ f.short \subseteq Slots
      /\ f.todo \subseteq Nat /\ f.short \subseteq Nat
  <2>1. w \in Procs /\ Fits(f) /\ f.att <= latest /\ f.pc = "post.spawn"
    BY CallersAreNoWorkers DEF PostSpawn, At, SafetyInv, Shapes
  <2>2. f \in Locals /\ Sound(f)
    BY <2>1, FramesAreLocals DEF TypeOK
  <2> QED
    BY <2>1, <2>2 DEF Sound, Fits, Locals
<1>2. n \in f.todo /\ n \in Slots /\ rest \subseteq Slots /\ n \notin rest /\ rest \subseteq Nat
  BY <1>1, FirstIsIn
<1>3. next \in {"post.release", "post.spawn"} /\ next \in PCs /\ (rest = {} => next = "post.release")
      /\ (rest # {} => next = "post.spawn")
  BY DEF PCs
<1>4. UNCHANGED <<row, latest, mm>>
      /\ \/ /\ Add(Task(KindOf(n), f.att, n))
            /\ proc' = [proc EXCEPT ![w].pc = next, ![w].todo = rest]
         \/ /\ UNCHANGED queue
            /\ proc' = [proc EXCEPT ![w].pc = next, ![w].todo = rest, ![w].short = @ \cup {n}]
  BY DEF PostSpawn, QueueOnly, Att
<1>5. Plans(f) = SlotsOf(f.att, f.todo) /\ Shorts(f) = SlotsOf(f.att, f.short) /\ Owns(f) = {} /\ Drains(f) = {}
  BY <1>1 DEF Plans, Shorts, Owns, Drains, OwnerPCs, SummaryPCs, SavingPCs
<1>6. SlotsOf(f.att, rest) = SlotsOf(f.att, f.todo) \ {<<"slot", f.att, n>>}
  BY DEF SlotsOf
<1>7. <<"slot", f.att, n>> \in Plans(f) /\ Plans(f) \cap Shorts(f) = {}
  BY <1>1, <1>2, <1>5 DEF SlotsOf
<1> HIDE DEF next
<1>8. ASSUME NEW S \in {f.short, f.short \cup {n}},
             proc' = [proc EXCEPT ![w].pc = next, ![w].todo = rest, ![w].short = S]
      PROVE  \E g \in Locals :
                /\ Runs(w, g) /\ g.pc \notin SaverPCs \cup FollowerPCs /\ g.att = f.att /\ g.short = S
                /\ Turn(g) = {} /\ Owns(g) = {} /\ Drains(g) = {} /\ Shorts(g) = SlotsOf(f.att, S)
                /\ Plans(g) = Plans(f) \ {<<"slot", f.att, n>>}
  <2> DEFINE g == [f EXCEPT !.pc = next, !.todo = rest, !.short = S]
  <2>1. S \subseteq Nat /\ S \subseteq Slots /\ S \cap rest = {}
    BY <1>1, <1>2
  <2>2. g \in Locals /\ g.pc = next /\ g.todo = rest /\ g.short = S /\ g.att = f.att /\ g.job = f.job
        /\ g.seen = f.seen
    BY <1>1, <1>2, <1>3, <2>1 DEF Locals
  <2>3. Becomes(w, g)
    BY <1>8, <1>1 DEF Becomes
  <2> HIDE DEF g
  <2>4. g.pc \notin SaverPCs \cup ReparsePCs \cup OwnerPCs \cup {"promote", "post.promote"} \cup ImagePCs
        /\ g.pc \notin ApiPCs /\ g.pc \notin PosterPCs /\ g.pc \notin ParsingPCs /\ g.pc \notin SummaryPCs
        /\ g.pc \notin SavingPCs /\ g.pc \notin FollowerPCs /\ g.pc \in GiverPCs
    BY <1>3, <2>2 DEF SaverPCs, FollowerPCs, PosterPCs, ImagePCs, ReadingPCs, ReparsePCs, GiverPCs,
                OwnerPCs, SummaryPCs, SavingPCs, ApiPCs, StopPCs, SweepPCs, ParsingPCs
  <2>5. f.job.kind = "post" /\ f.job.att \in {0, f.att}
    BY <1>1 DEF Fits, GiverPCs
  <2>6. Fits(g)
    BY <1>3, <2>1, <2>2, <2>4, <2>5 DEF Fits
  <2>7. Runs(w, g)
    BY <1>1, <2>2, <2>3, <2>4, <2>6 DEF Runs
  <2>8. Turn(g) = {} /\ Owns(g) = {} /\ Drains(g) = {} /\ Shorts(g) = SlotsOf(f.att, S)
    BY <2>2, <2>4, TurnOf DEF Owns, Drains, Shorts
  <2>9. Plans(g) = SlotsOf(f.att, rest)
    <3>1. CASE rest = {}
      BY <1>3, <2>2, <3>1 DEF Plans, SlotsOf
    <3>2. CASE rest # {}
      BY <1>3, <2>2, <3>2 DEF Plans
    <3> QED
      BY <3>1, <3>2
  <2> QED
    BY <1>5, <1>6, <2>2, <2>4, <2>7, <2>8, <2>9
<1>9. At(w, "post.spawn") /\ f = proc[w]
  BY <1>1 DEF At
<1> HIDE DEF n, rest, f
<1>10. CASE /\ Add(Task(KindOf(n), f.att, n))
            /\ proc' = [proc EXCEPT ![w].pc = next, ![w].todo = rest]
  <2>1. proc' = [proc EXCEPT ![w].pc = next, ![w].todo = rest, ![w].short = f.short]
    BY <1>1, <1>9, <1>10 DEF TypeOK, Frames
  <2>2. PICK g \in Locals :
                /\ Runs(w, g) /\ g.pc \notin SaverPCs \cup FollowerPCs /\ g.att = f.att /\ g.short = f.short
                /\ Turn(g) = {} /\ Owns(g) = {} /\ Drains(g) = {} /\ Shorts(g) = SlotsOf(f.att, f.short)
                /\ Plans(g) = Plans(f) \ {<<"slot", f.att, n>>}
    BY <1>8, <2>1
  <2>3. Spawns(w, g, n)
    BY <1>2, <1>4, <1>5, <1>7, <1>9, <1>10, <2>2 DEF Spawns
  <2> QED
    BY <1>2, <2>3 DEF WorkerKinds
<1>11. CASE /\ UNCHANGED queue
            /\ proc' = [proc EXCEPT ![w].pc = next, ![w].todo = rest, ![w].short = @ \cup {n}]
  <2>1. proc' = [proc EXCEPT ![w].pc = next, ![w].todo = rest, ![w].short = f.short \cup {n}]
    BY <1>1, <1>9, <1>11 DEF TypeOK, Frames
  <2>2. PICK g \in Locals :
                /\ Runs(w, g) /\ g.pc \notin SaverPCs \cup FollowerPCs /\ g.att = f.att
                /\ g.short = f.short \cup {n}
                /\ Turn(g) = {} /\ Owns(g) = {} /\ Drains(g) = {} /\ Shorts(g) = SlotsOf(f.att, f.short \cup {n})
                /\ Plans(g) = Plans(f) \ {<<"slot", f.att, n>>}
    BY <1>8, <2>1
  <2>3. Shorts(g) = Shorts(f) \cup {<<"slot", f.att, n>>}
    BY <1>5, <2>2 DEF SlotsOf
  <2>4. Spawns(w, g, n)
    BY <1>2, <1>4, <1>5, <1>7, <1>9, <1>11, <2>2, <2>3 DEF Spawns
  <2> QED
    BY <1>2, <2>4 DEF WorkerKinds
<1> QED
  BY <1>4, <1>10, <1>11 DEF f

(* A slot that could not be used is given back, and the row may be completed. *)
LEMMA ReleaserWorks ==
  ASSUME TypeOK, SafetyInv, NEW w \in Workers, proc[w].pc \in {"post.release", "post.promote"}
  PROVE  /\ w \in Procs /\ Fits(proc[w]) /\ proc[w].att <= latest /\ proc[w] \in Locals
         /\ Plans(proc[w]) = {} /\ Owns(proc[w]) = {} /\ Turn(proc[w]) = {}
         /\ proc[w].short \subseteq Slots /\ proc[w].short \subseteq Nat
         /\ proc[w].job.kind = "post" /\ proc[w].job.att \in {0, proc[w].att}
         /\ proc[w].pc \notin SaverPCs \cup FollowerPCs
<1>1. w \in Procs /\ Fits(proc[w]) /\ proc[w].att <= latest
  BY CallersAreNoWorkers DEF SafetyInv, Shapes
<1>2. proc[w] \in Locals
  BY <1>1, FramesAreLocals DEF TypeOK
<1>3. proc[w].pc \notin SaverPCs \cup ReparsePCs \cup FollowerPCs /\ proc[w].pc \notin OwnerPCs
      /\ proc[w].pc \in GiverPCs /\ proc[w].pc # "post.spawn"
  BY DEF SaverPCs, FollowerPCs, PosterPCs, ImagePCs, ReadingPCs, ReparsePCs, OwnerPCs,
         SummaryPCs, SavingPCs, GiverPCs
<1>4. Plans(proc[w]) = {} /\ Owns(proc[w]) = {} /\ Turn(proc[w]) = {}
  BY <1>3, TurnOf DEF Plans, Owns
<1> QED
  BY <1>1, <1>2, <1>3, <1>4 DEF Fits, Locals

(* Post-processing gives back a slot whose task could not be enqueued. *)
LEMMA PostReleaseKind ==
  ASSUME TypeOK, Calm, SafetyInv, NEW w \in Workers, PostRelease(w)
  PROVE  WorkerKinds(w)
<1> DEFINE f == proc[w]
           n == First(f.short)
<1>1. f.pc = "post.release" /\ f.short # {} /\ row' = Decremented(row) /\ Goto(w, "post.promote")
      /\ UNCHANGED <<latest, mm, queue>>
  BY CalmSteps DEF PostRelease, At, RowOnly
<1>2. /\ w \in Procs /\ Fits(f) /\ f.att <= latest
      /\ Plans(f) = {} /\ Owns(f) = {} /\ Turn(f) = {} /\ f.short \subseteq Slots /\ f.short \subseteq Nat
      /\ f.job.kind = "post" /\ f.job.att \in {0, f.att}
  BY <1>1, ReleaserWorks
<1>3. n \in f.short /\ n \in Slots
  BY <1>1, <1>2, FirstIsIn
<1>4. PICK g \in Locals :
            /\ Becomes(w, g) /\ g.pc = "post.promote" /\ g.job = f.job /\ g.att = f.att
            /\ g.seen = f.seen /\ g.todo = f.todo /\ g.short = f.short
  <2>1. "post.promote" \in PCs
    BY DEF PCs
  <2> QED
    BY <1>1, <1>2, <2>1, AfterGoto
<1>5. g.pc \notin SaverPCs \cup ReparsePCs \cup OwnerPCs \cup {"promote", "post.spawn"} \cup ImagePCs
        /\ g.pc \notin ApiPCs /\ g.pc \notin PosterPCs /\ g.pc \notin ParsingPCs /\ g.pc \notin SummaryPCs
        /\ g.pc \notin SavingPCs /\ g.pc \notin FollowerPCs /\ g.pc \in GiverPCs
  BY <1>4 DEF SaverPCs, FollowerPCs, PosterPCs, ImagePCs, ReadingPCs, ReparsePCs, GiverPCs,
                OwnerPCs, SummaryPCs, SavingPCs, ApiPCs, StopPCs, SweepPCs, ParsingPCs
<1>6. Fits(g)
  BY <1>1, <1>2, <1>4, <1>5 DEF Fits
<1>7. Runs(w, g)
  BY <1>2, <1>4, <1>5, <1>6 DEF Runs
<1>8. Drains(f) = {}
  BY <1>1 DEF Drains
<1>9. Turn(g) = {} /\ Plans(g) = {} /\ Owns(g) = {} /\ Shorts(g) = Shorts(f)
  BY <1>4, <1>5, TurnOf DEF Plans, Owns, Shorts
<1>10. Drains(g) = {<<"slot", g.att, n>>} /\ <<"slot", g.att, n>> \in Shorts(f)
  BY <1>3, <1>4 DEF Drains, SlotsOf, Shorts
<1> HIDE DEF n, f
<1>11. Duties(g) = Duties(f) /\ <<"slot", g.att, n>> \in Holds(f)
  BY <1>2, <1>8, <1>9, <1>10 DEF Duties, Holds
<1>12. Owns(g) = Owns(f) \ Drains(g)
  BY <1>2, <1>9
<1>13. GivesBack(w, g, n)
  BY <1>1, <1>2, <1>3, <1>4, <1>5, <1>7, <1>8, <1>9, <1>10, <1>11, <1>12 DEF GivesBack, f
<1> QED
  BY <1>3, <1>13 DEF WorkerKinds

(* Post-processing promotes after a slot it has given back. *)
LEMMA PostPromoteKind ==
  ASSUME TypeOK, Calm, SafetyInv, NEW w \in Workers, PostPromote(w)
  PROVE  WorkerKinds(w)
<1> DEFINE f == proc[w]
           n == First(f.short)
           S == f.short \ {n}
           g == [f EXCEPT !.pc = "post.release", !.short = S]
<1>1. f.pc = "post.promote" /\ row' = Promoted(row) /\ UNCHANGED <<latest, mm, queue>>
      /\ proc' = [proc EXCEPT ![w].pc = "post.release", ![w].short = @ \ {First(@)}]
  BY CalmSteps DEF PostPromote, At, RowOnly
<1>2. /\ w \in Procs /\ Fits(f) /\ f.att <= latest /\ f \in Locals
      /\ Plans(f) = {} /\ Owns(f) = {} /\ Turn(f) = {} /\ f.short \subseteq Slots /\ f.short \subseteq Nat
      /\ f.job.kind = "post" /\ f.job.att \in {0, f.att}
  BY <1>1, ReleaserWorks
<1>3. n \in f.short /\ n \in Slots /\ S \subseteq Slots /\ S \subseteq Nat
  <2>1. f.short # {}
    BY <1>1, <1>2 DEF Fits
  <2> QED
    BY <1>2, <2>1, FirstIsIn
<1>4. Becomes(w, g)
  BY <1>1, <1>2 DEF Becomes
<1>5. g \in Locals /\ g.pc = "post.release" /\ g.short = S /\ g.att = f.att /\ g.job = f.job
        /\ g.seen = f.seen
  <2>1. "post.release" \in PCs
    BY DEF PCs
  <2> QED
    BY <1>2, <1>3, <2>1 DEF Locals
<1> HIDE DEF g
<1>6. g.pc \notin SaverPCs \cup ReparsePCs \cup OwnerPCs \cup {"promote", "post.spawn", "post.promote"}
        /\ g.pc \notin ImagePCs
        /\ g.pc \notin ApiPCs /\ g.pc \notin PosterPCs /\ g.pc \notin ParsingPCs /\ g.pc \notin SummaryPCs
        /\ g.pc \notin SavingPCs /\ g.pc \notin FollowerPCs /\ g.pc \in GiverPCs
  BY <1>5 DEF SaverPCs, FollowerPCs, PosterPCs, ImagePCs, ReadingPCs, ReparsePCs, GiverPCs,
                OwnerPCs, SummaryPCs, SavingPCs, ApiPCs, StopPCs, SweepPCs, ParsingPCs
<1>7. Fits(g)
  BY <1>2, <1>3, <1>5, <1>6 DEF Fits
<1>8. Runs(w, g)
  BY <1>2, <1>4, <1>5, <1>6, <1>7 DEF Runs
<1>9. Turn(g) = {} /\ Plans(g) = {} /\ Owns(g) = {} /\ Drains(g) = {}
  BY <1>6, TurnOf DEF Plans, Owns, Drains
<1>10. Drains(f) = {<<"slot", f.att, n>>}
  BY <1>1 DEF Drains, SlotsOf
<1>11. Shorts(g) = Shorts(f) \ Drains(f)
  BY <1>5, <1>10 DEF Shorts, SlotsOf
<1> HIDE DEF n, S
<1>12. Promotes(w, g, n)
  BY <1>1, <1>2, <1>3, <1>6, <1>8, <1>9, <1>10, <1>11 DEF Promotes
<1> QED
  BY <1>3, <1>5, <1>12 DEF WorkerKinds

(* Every step of post-processing is of one of the kinds. *)
LEMMA PostStepKind ==
  ASSUME TypeOK, Calm, SafetyInv, NEW w \in Workers, PostStep(w)
  PROVE  WorkerKinds(w)
<1>0. Shapes /\ Phases /\ "db" \notin Faults /\ (Finish(w) <=> Leave(w))
  BY CalmSteps DEF SafetyInv
<1> USE DEF At
<1>1. CASE \E t \in BagToSet(queue) : PostEnter(w, t)
  BY <1>1, PostEnterKind
<1>2. CASE PostMissing(w) \/ PostListError(w)
  BY <1>2, PosterErrs DEF PostMissing, PostListError, PosterPCs
<1>3. CASE PostAttempt(w) \/ PostList(w)
  <2> DEFINE f == proc[w]
  <2>1. f.pc \in PosterPCs /\ UNCHANGED <<row, latest, mm, queue>>
    BY <1>3 DEF PostAttempt, PostList, PosterPCs, ProcOnly, RowOnly
  <2>2. f \in Locals /\ f.short = {} /\ f.pc \notin GiverPCs \cup OwnerPCs \cup {"promote"}
    BY <2>1, PosterWorks
  <2>3. CASE Leave(w)
    BY <1>0, <2>1, <2>2, <2>3, LeavingMoves DEF CountLeft
  <2>4. CASE PostAttempt(w)
    <3> DEFINE g == [f EXCEPT !.pc = "post.list", !.att = latest]
    <3>1. latest \in 0..MaxAttempt /\ "post.list" \in PCs
      BY PipelineAssumption DEF TypeOK, Attempts, PCs
    <3>2. g \in Locals /\ g.pc = "post.list" /\ g.att = latest /\ g.job = f.job /\ g.short = {}
      BY <2>2, <3>1 DEF Locals
    <3>3. Becomes(w, g)
      BY <2>4 DEF Becomes, PostAttempt
    <3> HIDE DEF g
    <3> QED
      BY <2>1, <2>4, <3>2, <3>3, PosterMoves DEF PostAttempt, PosterPCs
  <2>5. CASE PostList(w) /\ ~Leave(w)
    <3> DEFINE S == IF \E x \in stored : x[2] \in {"text", "image"} THEN Slots ELSE {}
               g == [f EXCEPT !.pc = "post.handoff", !.todo = S]
    <3>1. S \subseteq Nat /\ "post.handoff" \in PCs
      BY PipelineAssumption DEF Slots, PCs
    <3>2. Becomes(w, g)
      BY <1>0, <2>5 DEF Becomes, PostList
    <3> HIDE DEF S
    <3>3. g \in Locals /\ g.pc = "post.handoff" /\ g.att = f.att /\ g.job = f.job /\ g.short = {}
      BY <2>2, <3>1 DEF Locals
    <3> HIDE DEF g
    <3> QED
      BY <2>1, <3>2, <3>3, PosterMoves DEF PosterPCs
  <2> QED
    BY <1>3, <2>3, <2>4, <2>5
<1>4. CASE PostHandoff(w)
  BY <1>4, PostHandoffKind
<1>5. CASE PostNothingToDo(w)
  <2>1. proc[w].pc \in PosterPCs
    BY <1>5 DEF PostNothingToDo, PosterPCs
  <2>2. Duties(proc[w]) = {}
    BY <2>1, PosterWorks
  <2>3. Idle.pc \notin SaverPCs \cup FollowerPCs
    BY IdleFits DEF SaverPCs, FollowerPCs, PosterPCs, ImagePCs, ReadingPCs
  <2>4. CompletesNow(w, Idle)
    BY <1>0, <1>5, <2>1, <2>2, <2>3, IdleFits, WorkerLeaves DEF CompletesNow, PostNothingToDo, RowOnly
  <2> QED
    BY <2>4, IdleFits DEF WorkerKinds
<1>6. CASE PostNothingToDoError(w)
  BY <1>0, <1>6 DEF PostNothingToDoError
<1>7. CASE PostSpawn(w)
  BY <1>7, PostSpawnKind
<1>8. CASE PostRelease(w)
  BY <1>8, PostReleaseKind
<1>9. CASE PostPromote(w)
  BY <1>9, PostPromoteKind
<1>10. CASE PostEnd(w)
  <2>1. proc[w].pc = "post.release" /\ proc[w].short = {} /\ Leave(w) /\ UNCHANGED <<row, latest, mm, queue>>
    BY <1>0, <1>10 DEF PostEnd, ProcOnly, RowOnly
  <2>2. Plans(proc[w]) = {} /\ Owns(proc[w]) = {} /\ Turn(proc[w]) = {}
    BY <2>1, ReleaserWorks
  <2>3. Shorts(proc[w]) = {} /\ Drains(proc[w]) = {} /\ CountLeft(w)
    BY <2>1 DEF Shorts, SlotsOf, Drains, CountLeft
  <2>4. Holds(proc[w]) = {} /\ Duties(proc[w]) = {}
    BY <2>2, <2>3 DEF Holds, Duties
  <2>5. Idle.pc \notin SaverPCs \cup FollowerPCs
    BY IdleFits DEF SaverPCs, FollowerPCs, PosterPCs, ImagePCs, ReadingPCs
  <2>6. Moves(w, Idle)
    BY <2>1, <2>2, <2>3, <2>4, <2>5, IdleFits, WorkerLeaves DEF Moves, Shifts, Lighter, Alike
  <2> QED
    BY <2>6, IdleFits DEF WorkerKinds
<1> QED
  BY <1>1, <1>2, <1>3, <1>4, <1>5, <1>6, <1>7, <1>8, <1>9, <1>10 DEF PostStep
----------------------------------------------------------------------------
(* So are those of an enrichment task, which holds the slot of its payload. *)
LEMMA KindsOfSlots ==
  ASSUME NEW n \in Slots
  PROVE  /\ KindOf(n) \in Enrichment
         /\ KindOf(n) = "summary" => Summary /\ n = 0
  BY PipelineAssumption DEF Slots, KindOf, Enrichment

LEMMA OwnerWorks ==
  ASSUME TypeOK, SafetyInv, NEW w \in Workers, proc[w].pc \in OwnerPCs
  PROVE  /\ w \in Procs /\ Fits(proc[w]) /\ proc[w].att = latest /\ proc[w] \in Locals
         /\ proc[w].job.kind \in Enrichment /\ proc[w].job.n \in Slots
         /\ proc[w].job.kind = KindOf(proc[w].job.n) /\ proc[w].job.att = latest
         /\ proc[w].job \in Tasks /\ proc[w].short = {}
         /\ Turn(proc[w]) = {} /\ Plans(proc[w]) = {} /\ Shorts(proc[w]) = {} /\ Drains(proc[w]) = {}
         /\ Owns(proc[w]) = {<<"slot", latest, proc[w].job.n>>}
         /\ Duties(proc[w]) = Owns(proc[w]) /\ Holds(proc[w]) = Owns(proc[w])
         /\ proc[w].pc \notin SaverPCs \cup FollowerPCs
<1>1. w \in Procs /\ Fits(proc[w])
  BY CallersAreNoWorkers DEF SafetyInv, Shapes
<1>2. /\ Turn(proc[w]) = {} /\ Plans(proc[w]) = {} /\ Shorts(proc[w]) = {} /\ Drains(proc[w]) = {}
      /\ Owns(proc[w]) = SlotsOf(proc[w].att, {proc[w].job.n})
      /\ Duties(proc[w]) = Owns(proc[w]) /\ Holds(proc[w]) = Owns(proc[w])
  BY <1>1, OwnerDuty
<1>3. Owns(proc[w]) = {<<"slot", proc[w].att, proc[w].job.n>>}
  BY <1>2 DEF SlotsOf
<1>4. proc[w].att = latest
  <2>1. {<<"slot", proc[w].att, proc[w].job.n>>} \subseteq SlotsOf(latest, Slots)
    BY <1>2, <1>3 DEF SafetyInv, Enriching
  <2> QED
    BY <2>1 DEF SlotsOf
<1>5. proc[w].pc \notin SaverPCs \cup FollowerPCs \cup PosterPCs \cup GiverPCs
  BY DEF SaverPCs, FollowerPCs, PosterPCs, ImagePCs, ReadingPCs, OwnerPCs, SummaryPCs, SavingPCs, GiverPCs
<1>6. proc[w] \in Locals /\ proc[w].job \in Tasks
  BY <1>1, FramesAreLocals DEF TypeOK, Locals
<1> QED
  BY <1>1, <1>2, <1>3, <1>4, <1>5, <1>6 DEF Fits

(* While a summary is made, the row is finalizing: what it saves changes nothing. *)
LEMMA SummaryKeepsRow ==
  ASSUME TypeOK, SafetyInv, NEW w \in Workers, proc[w].pc \in OwnerPCs, proc[w].job.kind = "summary"
  PROVE  Has(row, {"finalizing"}) /\ Saved(row, "finalizing") = row
<1>1. Summary /\ proc[w].job.n \in Slots /\ <<"slot", latest, proc[w].job.n>> \in Holds(proc[w])
  BY OwnerWorks, KindsOfSlots
<1>2. proc[w].job.n \in HeldNow
  BY <1>1 DEF HeldNow
<1>3. Has(row, {"finalizing"})
  BY <1>1, <1>2 DEF SafetyInv, Enriching
<1> QED
  BY <1>3 DEF Has, Saved, TypeOK, Rows

(* It goes on, with its slot. *)
LEMMA OwnerMoves ==
  ASSUME TypeOK, SafetyInv, NEW w \in Workers, proc[w].pc \in OwnerPCs,
         NEW g \in Locals, Becomes(w, g), g.pc \in OwnerPCs,
         g.job = proc[w].job, g.att = proc[w].att, g.short = proc[w].short,
         g.pc \in SummaryPCs => g.job.kind = "summary",
         g.pc \in SavingPCs => g.seen = "finalizing",
         UNCHANGED <<row, latest, mm, queue>>
  PROVE  WorkerKinds(w)
<1>1. /\ Fits(proc[w]) /\ proc[w].att = latest
      /\ proc[w].job.kind \in Enrichment /\ proc[w].job.n \in Slots
      /\ proc[w].job.kind = KindOf(proc[w].job.n) /\ proc[w].job.att = latest /\ proc[w].short = {}
      /\ Turn(proc[w]) = {} /\ Plans(proc[w]) = {} /\ Shorts(proc[w]) = {} /\ Drains(proc[w]) = {}
      /\ Owns(proc[w]) = {<<"slot", latest, proc[w].job.n>>}
      /\ Duties(proc[w]) = Owns(proc[w]) /\ Holds(proc[w]) = Owns(proc[w])
  BY OwnerWorks
<1>2. g.pc \notin SaverPCs \cup FollowerPCs \cup PosterPCs \cup GiverPCs \cup ParsingPCs \cup ImagePCs
      /\ g.pc \notin ApiPCs /\ g.pc # "ack" /\ g.pc # "idle"
  BY DEF SaverPCs, FollowerPCs, PosterPCs, ImagePCs, ReadingPCs, OwnerPCs, SummaryPCs, SavingPCs, GiverPCs,
         ApiPCs, ReparsePCs, StopPCs, SweepPCs, ParsingPCs
<1>3. Fits(g)
  BY <1>1, <1>2 DEF Fits, GiverPCs
<1>4. Runs(w, g)
  <2>1. latest \in Nat
    BY PipelineAssumption DEF TypeOK, Attempts
  <2> QED
    BY <1>1, <1>2, <1>3, <2>1 DEF Runs
<1>5. /\ Turn(g) = {} /\ Plans(g) = {} /\ Shorts(g) = {} /\ Drains(g) = {}
      /\ Owns(g) = SlotsOf(g.att, {g.job.n}) /\ Duties(g) = Owns(g) /\ Holds(g) = Owns(g)
  BY <1>3, OwnerDuty
<1>6. Owns(g) = Owns(proc[w])
  BY <1>1, <1>5 DEF SlotsOf
<1>7. CountLeft(w)
  BY DEF CountLeft
<1>8. Moves(w, g)
  BY <1>1, <1>2, <1>4, <1>5, <1>6, <1>7 DEF Moves, Shifts, Lighter, Alike
<1> QED
  BY <1>8 DEF WorkerKinds

LEMMA OwnerGoes ==
  ASSUME TypeOK, SafetyInv, NEW w \in Workers, proc[w].pc \in OwnerPCs,
         NEW pc \in OwnerPCs, Goto(w, pc),
         pc \in SummaryPCs => proc[w].pc \in SummaryPCs,
         pc \in SavingPCs => proc[w].pc \in SavingPCs,
         UNCHANGED <<row, latest, mm, queue>>
  PROVE  WorkerKinds(w)
<1>1. pc \in PCs
  BY DEF PCs, OwnerPCs, SummaryPCs, SavingPCs
<1>2. PICK g \in Locals :
            /\ Becomes(w, g) /\ g.pc = pc /\ g.job = proc[w].job /\ g.att = proc[w].att
            /\ g.seen = proc[w].seen /\ g.todo = proc[w].todo /\ g.short = proc[w].short
  BY <1>1, AfterGoto, CallersAreNoWorkers
<1>3. Fits(proc[w])
  BY OwnerWorks
<1> QED
  BY <1>2, <1>3, OwnerMoves DEF Fits

(* It goes back to the queue, with its slot. *)
LEMMA OwnerRetries ==
  ASSUME TypeOK, SafetyInv, NEW w \in Workers, proc[w].pc \in OwnerPCs,
         ~FinalTry(w), Leave(w), Retry(w), UNCHANGED <<row, latest, mm>>
  PROVE  WorkerKinds(w)
<1> DEFINE t == [proc[w].job EXCEPT !.try = @ + 1]
<1>1. /\ w \in Procs /\ proc[w].att = latest
      /\ proc[w].job.kind \in Enrichment /\ proc[w].job.n \in Slots
      /\ proc[w].job.kind = KindOf(proc[w].job.n) /\ proc[w].job.att = latest
      /\ Turn(proc[w]) = {} /\ Plans(proc[w]) = {} /\ Shorts(proc[w]) = {} /\ Drains(proc[w]) = {}
      /\ Owns(proc[w]) = {<<"slot", latest, proc[w].job.n>>}
      /\ Duties(proc[w]) = Owns(proc[w]) /\ Holds(proc[w]) = Owns(proc[w])
  BY OwnerWorks
<1>2. t \in Tasks /\ t.kind = proc[w].job.kind /\ t.att = latest /\ t.n = proc[w].job.n
  BY <1>1, RetryIsTask
<1>3. Add(t)
  BY DEF Retry
<1> HIDE DEF t
<1>4. TaskFits(t) /\ t.kind \notin {"process", "post", "image"}
  BY <1>1, <1>2 DEF TaskFits, Enrichment
<1>5. TaskClaims(t) = Owns(proc[w])
  BY <1>1, <1>2 DEF TaskClaims, SlotsOf
<1>6. Idle.pc \notin SaverPCs \cup FollowerPCs
  BY IdleFits DEF SaverPCs, FollowerPCs, PosterPCs, ImagePCs, ReadingPCs
<1>7. CountLeft(w)
  BY DEF CountLeft
<1>8. Puts(w, Idle, t)
  BY <1>1, <1>2, <1>3, <1>4, <1>5, <1>6, <1>7, IdleFits, WorkerLeaves DEF Puts
<1>9. PutsBack(w, Idle, t)
  BY <1>1, <1>5, <1>8, IdleFits DEF PutsBack
<1> QED
  BY <1>2, <1>9, IdleFits DEF WorkerKinds

LEMMA OwnerErrs ==
  ASSUME TypeOK, SafetyInv, NEW w \in Workers, proc[w].pc \in OwnerPCs,
         SubtaskError(w), UNCHANGED <<row, latest, mm>>
  PROVE  WorkerKinds(w)
<1>1. "drain" \in OwnerPCs /\ "drain" \notin SummaryPCs /\ "drain" \notin SavingPCs
  BY DEF OwnerPCs, SummaryPCs, SavingPCs
<1> QED
  BY <1>1, OwnerGoes, OwnerRetries DEF SubtaskError

(* An enrichment task, taken from the queue. *)
LEMMA SubtaskEnterKind ==
  ASSUME TypeOK, Calm, SafetyInv, NEW w \in Workers, NEW t \in BagToSet(queue), SubtaskEnter(w, t)
  PROVE  WorkerKinds(w)
<1>1. t.kind \in Enrichment /\ TaskFits(t) /\ t.att = latest /\ latest \in Nat
  <2>1. t.kind \in Enrichment /\ TaskFits(t) /\ t.att \in {0, latest} /\ (t.att = 0 => t.kind = "post")
    BY TasksFit DEF SubtaskEnter, SafetyInv
  <2> QED
    BY <2>1, PipelineAssumption DEF Enrichment, TypeOK, Attempts
<1>2. Take(w, t, "sub.load", "none") /\ At(w, "idle")
  BY <1>1 DEF SubtaskEnter, Take
<1>3. "sub.load" \in PCs
  BY DEF PCs
<1>4. PICK g \in Locals :
            /\ Becomes(w, g) /\ g.pc = "sub.load" /\ g.job = t /\ g.att = t.att /\ g.seen = "none"
            /\ g.todo = {} /\ g.short = {} /\ g.att <= latest
  BY <1>2, <1>3, AfterTake DEF SafetyInv
<1>5. g.pc \notin SaverPCs \cup FollowerPCs \cup PosterPCs \cup GiverPCs \cup ParsingPCs \cup ImagePCs
      /\ g.pc \notin ApiPCs /\ g.pc \notin SummaryPCs /\ g.pc \notin SavingPCs /\ g.pc \in OwnerPCs
  BY <1>4 DEF SaverPCs, FollowerPCs, PosterPCs, ImagePCs, ReadingPCs, OwnerPCs, SummaryPCs, SavingPCs,
         GiverPCs, ApiPCs, ReparsePCs, StopPCs, SweepPCs, ParsingPCs
<1>6. Fits(g)
  BY <1>1, <1>4, <1>5 DEF Fits, TaskFits
<1>7. /\ Plans(g) = {} /\ Shorts(g) = {} /\ Drains(g) = {} /\ Turn(g) = {}
      /\ Owns(g) = SlotsOf(g.att, {g.job.n})
  BY <1>5, <1>6, OwnerDuty
<1>8. TaskClaims(t) = Owns(g)
  BY <1>1, <1>4, <1>7 DEF TaskClaims
<1>9. Takes(w, g, t)
  BY <1>1, <1>2, <1>4, <1>5, <1>6, <1>7, <1>8 DEF Takes, Runs, Take, QueueOnly
<1> QED
  BY <1>9 DEF WorkerKinds

LEMMA SubtaskLoadKind ==
  ASSUME TypeOK, Calm, SafetyInv, NEW w \in Workers, SubtaskLoad(w)
  PROVE  WorkerKinds(w)
<1> DEFINE f == proc[w]
<1>1. f.pc = "sub.load" /\ f.pc \in OwnerPCs /\ UNCHANGED <<row, latest, mm, queue>>
  BY DEF SubtaskLoad, At, ProcOnly, RowOnly, OwnerPCs
<1>2. f \in Locals /\ f.job.kind \in Enrichment
  BY <1>1, OwnerWorks
<1>3. PICK read \in BOOLEAN :
         /\ read \in (IF row.gone THEN {FALSE} ELSE {TRUE} \cup {"db" \notin Faults})
         /\ proc' = [proc EXCEPT
                  ![w].pc = IF (IF read THEN row.status \in Aborted ELSE f.job.kind # "graph") THEN "drain"
                            ELSE IF f.job.kind = "summary" THEN "sum.mark" ELSE "sub.run",
                  ![w].seen = row.status]
  BY DEF SubtaskLoad
<1> DEFINE pc == IF (IF read THEN row.status \in Aborted ELSE f.job.kind # "graph") THEN "drain"
                 ELSE IF f.job.kind = "summary" THEN "sum.mark" ELSE "sub.run"
           g == [f EXCEPT !.pc = pc, !.seen = row.status]
<1>4. Becomes(w, g)
  BY <1>3 DEF Becomes
<1>5. pc \in {"drain", "sum.mark", "sub.run"} /\ (pc = "sum.mark" => f.job.kind = "summary")
  OBVIOUS
<1> HIDE DEF pc
<1>6. row.status \in Statuses /\ pc \in PCs
  BY <1>5 DEF TypeOK, Rows, PCs
<1>7. g \in Locals /\ g.pc = pc /\ g.seen = row.status /\ g.job = f.job /\ g.att = f.att /\ g.short = f.short
  BY <1>2, <1>6 DEF Locals
<1> HIDE DEF g
<1>8. g.pc \in OwnerPCs /\ (g.pc \in SummaryPCs => g.job.kind = "summary")
  BY <1>5, <1>7 DEF OwnerPCs, SummaryPCs, SavingPCs
<1>9. g.job.kind = "summary" => g.seen = "finalizing"
  BY <1>1, <1>7, SummaryKeepsRow DEF Has
<1>10. g.pc \in SavingPCs => g.seen = "finalizing"
  BY <1>8, <1>9 DEF SummaryPCs
<1> QED
  BY <1>1, <1>4, <1>7, <1>8, <1>10, OwnerMoves

(* The two statements of finalizeSubtaskDetached. *)
LEMMA DrainKind ==
  ASSUME TypeOK, Calm, SafetyInv, NEW w \in Workers, Drain(w)
  PROVE  WorkerKinds(w)
<1> DEFINE f == proc[w]
           n == f.job.n
<1>1. f.pc = "drain" /\ f.pc \in OwnerPCs /\ row' = Decremented(row) /\ Goto(w, "promote")
      /\ UNCHANGED <<latest, mm, queue>>
  BY CalmSteps DEF Drain, At, RowOnly, OwnerPCs
<1>2. /\ w \in Procs /\ Fits(f) /\ f.att = latest /\ latest \in Nat
      /\ f.job.kind \in Enrichment /\ n \in Slots
      /\ f.job.kind = KindOf(n) /\ f.job.att = latest /\ f.short = {}
      /\ Turn(f) = {} /\ Plans(f) = {} /\ Shorts(f) = {} /\ Drains(f) = {}
      /\ Owns(f) = {<<"slot", latest, n>>}
      /\ Duties(f) = Owns(f) /\ Holds(f) = Owns(f)
  <2>1. latest \in Nat
    BY PipelineAssumption DEF TypeOK, Attempts
  <2> QED
    BY <1>1, <2>1, OwnerWorks
<1>3. PICK g \in Locals :
            /\ Becomes(w, g) /\ g.pc = "promote" /\ g.job = f.job /\ g.att = f.att
            /\ g.seen = f.seen /\ g.todo = f.todo /\ g.short = f.short
  <2>1. "promote" \in PCs
    BY DEF PCs
  <2> QED
    BY <1>1, <1>2, <2>1, AfterGoto
<1>4. g.pc \notin SaverPCs \cup FollowerPCs \cup PosterPCs \cup GiverPCs \cup ParsingPCs \cup ImagePCs
      /\ g.pc \notin ApiPCs /\ g.pc \notin SummaryPCs /\ g.pc \notin SavingPCs
      /\ g.pc \notin SaverPCs \cup ReparsePCs \cup FollowerPCs /\ g.pc \notin OwnerPCs
  BY <1>3 DEF SaverPCs, FollowerPCs, PosterPCs, ImagePCs, ReadingPCs, OwnerPCs, SummaryPCs, SavingPCs,
         GiverPCs, ApiPCs, ReparsePCs, StopPCs, SweepPCs, ParsingPCs
<1>5. Fits(g)
  BY <1>2, <1>3, <1>4 DEF Fits
<1>6. Runs(w, g)
  BY <1>2, <1>3, <1>4, <1>5 DEF Runs
<1>7. Turn(g) = {} /\ Plans(g) = {} /\ Owns(g) = {} /\ Shorts(g) = {}
  BY <1>2, <1>3, <1>4, TurnOf DEF Plans, Owns, Shorts, SlotsOf
<1>8. Drains(g) = {<<"slot", latest, n>>} /\ g.att = latest
  BY <1>2, <1>3 DEF Drains, SlotsOf
<1>9. Duties(g) = Duties(f)
  BY <1>2, <1>7, <1>8 DEF Duties
<1> HIDE DEF n
<1>10. GivesBack(w, g, n)
  BY <1>1, <1>2, <1>3, <1>4, <1>6, <1>7, <1>8, <1>9 DEF GivesBack
<1> QED
  BY <1>2, <1>10 DEF WorkerKinds

(* The second statement of FinalizeSubtask, run by a subtask. *)
LEMMA PromoteKind ==
  ASSUME TypeOK, Calm, SafetyInv, NEW w \in Workers, Promote(w)
  PROVE  WorkerKinds(w)
<1> DEFINE f == proc[w]
           n == f.job.n
<1>1. f.pc = "promote" /\ row' = Promoted(row) /\ Leave(w) /\ UNCHANGED <<latest, mm, queue>>
  BY CalmSteps DEF Promote, At, RowOnly
<1>2. Fits(f)
  BY CallersAreNoWorkers DEF SafetyInv, Shapes
<1>3. f.short = {} /\ n \in Slots /\ f.pc \notin OwnerPCs
  BY <1>1, <1>2 DEF Fits, GiverPCs, OwnerPCs, SummaryPCs, SavingPCs
<1>4. Plans(f) = {} /\ Owns(f) = {} /\ Shorts(f) = {} /\ Drains(f) = {<<"slot", f.att, n>>}
  BY <1>1, <1>3 DEF Plans, Owns, Shorts, SlotsOf, Drains
<1>5. Idle.pc \notin SaverPCs \cup FollowerPCs
  BY IdleFits DEF SaverPCs, FollowerPCs, PosterPCs, ImagePCs, ReadingPCs
<1> HIDE DEF n
<1>6. Promotes(w, Idle, n)
  BY <1>1, <1>3, <1>4, <1>5, IdleFits, WorkerLeaves DEF Promotes
<1> QED
  BY <1>3, <1>6, IdleFits DEF WorkerKinds

(* Every step of an enrichment task is of one of the kinds. *)
LEMMA SubtaskStepKind ==
  ASSUME TypeOK, Calm, SafetyInv, NEW w \in Workers, SubtaskStep(w)
  PROVE  WorkerKinds(w)
<1>0. "db" \notin Faults /\ (\A status : TrySave(status) <=> row' = Saved(row, status))
  BY CalmSteps
<1> USE DEF At
<1>a. ASSUME proc[w].pc \in SavingPCs
      PROVE  /\ proc[w].pc \in OwnerPCs /\ proc[w].pc \in SummaryPCs
             /\ (row' = Saved(row, proc[w].seen) => row' = row)
  <2>1. proc[w].pc \in OwnerPCs /\ proc[w].pc \in SummaryPCs
    BY <1>a DEF OwnerPCs, SummaryPCs
  <2>2. proc[w].seen = "finalizing" /\ proc[w].job.kind = "summary"
    BY <1>a, <2>1, OwnerWorks DEF Fits
  <2> QED
    BY <2>1, <2>2, SummaryKeepsRow
<1>1. CASE \E t \in BagToSet(queue) : SubtaskEnter(w, t)
  BY <1>1, SubtaskEnterKind
<1>2. CASE SubtaskLoad(w)
  BY <1>2, SubtaskLoadKind
<1>3. CASE SubtaskRun(w) \/ SubtaskWrite(w) \/ SummaryWrite(w)
  <2>1. proc[w].pc \in OwnerPCs /\ UNCHANGED <<row, latest, mm, queue>>
        /\ \E pc \in {"sub.write", "drain"} : Goto(w, pc)
    BY <1>3 DEF SubtaskRun, SubtaskWrite, SummaryWrite, OwnerPCs, SummaryPCs, ProcOnly, RowOnly, StoredOnly
  <2>2. \A pc \in {"sub.write", "drain"} : pc \in OwnerPCs /\ pc \notin SummaryPCs /\ pc \notin SavingPCs
    BY DEF OwnerPCs, SummaryPCs, SavingPCs
  <2> QED
    BY <2>1, <2>2, OwnerGoes
<1>4. CASE SubtaskRunError(w) \/ SummaryWriteError(w)
  <2>1. proc[w].pc \in OwnerPCs /\ UNCHANGED <<row, latest, mm>> /\ SubtaskError(w)
    BY <1>4 DEF SubtaskRunError, SummaryWriteError, QueueOnly, OwnerPCs, SummaryPCs
  <2> QED
    BY <2>1, OwnerErrs
<1>5. CASE SummaryMark(w) \/ SummaryNone(w) \/ SummaryLlm(w) \/ SummaryLlmError(w) \/ SummaryFresh(w)
           \/ SummarySave(w)
  <2>1. proc[w].pc \in SavingPCs /\ UNCHANGED <<latest, mm, queue>>
        /\ (row' = row \/ row' = Saved(row, proc[w].seen))
        /\ \E pc \in SummaryPCs \cup {"drain"} : Goto(w, pc)
    BY <1>0, <1>5 DEF SummaryMark, SummaryNone, SummaryLlm, SummaryLlmError, SummaryFresh, SummarySave,
                SavingPCs, SummaryPCs, ProcOnly, RowOnly
  <2>2. \A pc \in SummaryPCs \cup {"drain"} : pc \in OwnerPCs
    BY DEF OwnerPCs
  <2>3. "drain" \notin SummaryPCs /\ SavingPCs \subseteq SummaryPCs
    BY DEF SummaryPCs, SavingPCs
  <2> QED
    BY <1>a, <2>1, <2>2, <2>3, OwnerGoes
<1>6. CASE SummaryChunks(w)
  <2> DEFINE f == proc[w]
  <2>1. f.pc \in SavingPCs /\ UNCHANGED <<row, latest, mm, queue>>
    BY <1>6 DEF SummaryChunks, SavingPCs, ProcOnly, RowOnly
  <2>2. f.pc \in OwnerPCs /\ f.pc \in SummaryPCs /\ f \in Locals /\ Fits(f)
    BY <1>a, <2>1, OwnerWorks
  <2>3. PICK read \in {{x[1] : x \in {y \in stored : y[2] = "text"}}} \cup {{}} :
          proc' = [proc EXCEPT ![w].pc = IF read = {} THEN "sum.none" ELSE "sum.llm", ![w].todo = read]
    BY <1>6 DEF SummaryChunks
  <2> DEFINE g == [f EXCEPT !.pc = IF read = {} THEN "sum.none" ELSE "sum.llm", !.todo = read]
  <2>4. read \subseteq Nat
    BY PipelineAssumption DEF TypeOK, Attempts
  <2>5. g \in Locals /\ g.pc \in {"sum.none", "sum.llm"} /\ g.job = f.job /\ g.att = f.att
        /\ g.short = f.short /\ g.seen = f.seen
    BY <2>2, <2>4 DEF Locals, PCs
  <2>6. Becomes(w, g)
    BY <2>3 DEF Becomes
  <2> HIDE DEF g
  <2>7. g.pc \in OwnerPCs
    BY <2>5 DEF OwnerPCs, SummaryPCs, SavingPCs
  <2>8. g.job.kind = "summary" /\ g.seen = "finalizing"
    BY <2>1, <2>2, <2>5 DEF Fits
  <2> QED
    BY <2>1, <2>2, <2>5, <2>6, <2>7, <2>8, OwnerMoves
<1>7. CASE SummaryNoneError(w) \/ SummarySaveError(w)
  BY <1>0, <1>7 DEF SummaryNoneError, SummarySaveError
<1>8. CASE SummaryAgain(w)
  <2>1. proc[w].pc = "sum.again" /\ Leave(w) /\ Retry(w) /\ row' = Saved(row, proc[w].seen)
        /\ UNCHANGED <<latest, mm>>
    BY <1>0, <1>8 DEF SummaryAgain
  <2>2. proc[w].pc \in SavingPCs
    BY <2>1 DEF SavingPCs
  <2>3. ~FinalTry(w)
    <3>1. proc[w].job.try < MaxRetry /\ proc[w].job.try \in Nat
      BY <2>1, CallersAreNoWorkers, PipelineAssumption DEF TypeOK, Frames, Sound, Tasks
    <3> QED
      BY <3>1, PipelineAssumption DEF FinalTry
  <2> QED
    BY <1>a, <2>1, <2>2, <2>3, OwnerRetries
<1>9. CASE SummaryStale(w)
  <2>1. proc[w].pc \in SavingPCs /\ SubtaskError(w) /\ row' = Saved(row, proc[w].seen)
        /\ UNCHANGED <<latest, mm>>
    BY <1>0, <1>9 DEF SummaryStale, SavingPCs
  <2> QED
    BY <1>a, <2>1, OwnerErrs
<1>10. CASE Drain(w)
  BY <1>10, DrainKind
<1>11. CASE Promote(w)
  BY <1>11, PromoteKind
<1> QED
  BY <1>1, <1>2, <1>3, <1>4, <1>5, <1>6, <1>7, <1>8, <1>9, <1>10, <1>11 DEF SubtaskStep
----------------------------------------------------------------------------
(* So are those of an image. *)
LEMMA ImageWorks ==
  ASSUME TypeOK, SafetyInv, NEW w \in Workers, proc[w].pc \in ImagePCs
  PROVE  /\ w \in Procs /\ Fits(proc[w]) /\ proc[w].att <= latest /\ proc[w].att = proc[w].job.att
         /\ proc[w].att \in {0, latest} /\ proc[w].job.kind = "image" /\ proc[w].job.n \in 1..Images
         /\ proc[w].pc \notin GiverPCs \cup OwnerPCs \cup {"promote"} /\ proc[w].pc \in FollowerPCs
         /\ proc[w].pc \notin SaverPCs
         /\ Plans(proc[w]) = {} /\ Shorts(proc[w]) = {} /\ Owns(proc[w]) = {} /\ Drains(proc[w]) = {}
         /\ Duties(proc[w]) = {} /\ Holds(proc[w]) = {}
<1>1. w \in Procs /\ Fits(proc[w]) /\ proc[w].att <= latest
  BY CallersAreNoWorkers DEF SafetyInv, Shapes
<1>2. proc[w].pc \notin GiverPCs \cup OwnerPCs \cup {"promote"} /\ proc[w].pc \in FollowerPCs
      /\ proc[w].pc \notin SaverPCs \cup PosterPCs
  BY DEF SaverPCs, FollowerPCs, PosterPCs, ImagePCs, ReadingPCs, OwnerPCs, SummaryPCs, SavingPCs, GiverPCs
<1>3. proc[w].att \in {0, latest}
  BY <1>2 DEF SafetyInv, Phases
<1> QED
  BY <1>1, <1>2, <1>3, NoDuties DEF Fits

(* An image task, taken from the queue. *)
LEMMA ImageEnterKind ==
  ASSUME TypeOK, Calm, SafetyInv, NEW w \in Workers, NEW t \in BagToSet(queue), ImageEnter(w, t)
  PROVE  WorkerKinds(w)
<1>1. t.kind = "image" /\ TaskFits(t)
  BY TasksFit DEF ImageEnter, SafetyInv
<1>2. PICK pc \in {"image.run", "image.count"} : Take(w, t, pc, "none")
  BY DEF ImageEnter
<1>3. pc \in PCs /\ At(w, "idle")
  BY <1>2 DEF PCs, Take
<1>4. PICK g \in Locals :
            /\ Becomes(w, g) /\ g.pc = pc /\ g.job = t /\ g.att = t.att /\ g.seen = "none"
            /\ g.todo = {} /\ g.short = {} /\ g.att <= latest
  BY <1>2, <1>3, AfterTake DEF SafetyInv
<1>5. g.pc \notin SaverPCs \cup PosterPCs \cup GiverPCs \cup ParsingPCs \cup OwnerPCs \cup {"promote"}
      /\ g.pc \notin ApiPCs /\ g.pc \notin SummaryPCs /\ g.pc \notin SavingPCs /\ g.pc \in ReadingPCs
      /\ g.pc \in ImagePCs /\ g.pc \in FollowerPCs
  BY <1>4 DEF SaverPCs, FollowerPCs, PosterPCs, ImagePCs, ReadingPCs, OwnerPCs, SummaryPCs, SavingPCs,
         GiverPCs, ApiPCs, ReparsePCs, StopPCs, SweepPCs, ParsingPCs
<1>6. Fits(g)
  BY <1>1, <1>4, <1>5 DEF Fits, TaskFits
<1>7. Plans(g) = {} /\ Shorts(g) = {} /\ Drains(g) = {} /\ Owns(g) = {}
  BY <1>5, <1>6, NoDuties
<1>8. Turn(g) = TaskClaims(t)
  BY <1>1, <1>4, <1>5, TurnOf DEF TaskClaims, Enrichment
<1>9. Takes(w, g, t)
  BY <1>1, <1>2, <1>3, <1>4, <1>5, <1>6, <1>7, <1>8 DEF Takes, Runs, Take, QueueOnly, Enrichment
<1> QED
  BY <1>9 DEF WorkerKinds

LEMMA ImageRetries ==
  ASSUME TypeOK, SafetyInv, NEW w \in Workers, proc[w].pc \in ReadingPCs,
         ~FinalTry(w), Leave(w), Retry(w), UNCHANGED <<row, latest, mm>>
  PROVE  WorkerKinds(w)
<1> DEFINE t == [proc[w].job EXCEPT !.try = @ + 1]
<1>1. /\ w \in Procs /\ proc[w].att \in {0, latest} /\ proc[w].job.kind = "image"
      /\ proc[w].job.n \in 1..Images /\ proc[w].att = proc[w].job.att /\ proc[w].pc \in FollowerPCs
  BY ImageWorks DEF ImagePCs
<1>2. t \in Tasks /\ t.kind = "image" /\ t.att = proc[w].att /\ t.n = proc[w].job.n
  BY <1>1, RetryIsTask
<1>3. Add(t) /\ CountLeft(w)
  BY DEF Retry, CountLeft
<1> HIDE DEF t
<1>4. TaskFits(t) /\ t.kind \notin Enrichment
  BY <1>1, <1>2 DEF TaskFits, Enrichment
<1>5. TaskClaims(t) = Turn(proc[w])
  BY <1>2, TurnOf DEF TaskClaims, Enrichment
<1> QED
  BY <1>1, <1>2, <1>3, <1>4, <1>5, LeavingPuts DEF SafetyInv

LEMMA ImageGoes ==
  ASSUME TypeOK, SafetyInv, NEW w \in Workers, proc[w].pc \in ReadingPCs, Goto(w, "image.count"),
         UNCHANGED <<row, latest, mm, queue>>
  PROVE  WorkerKinds(w)
<1>1. /\ w \in Procs /\ Fits(proc[w]) /\ proc[w].att <= latest /\ proc[w].att = proc[w].job.att
      /\ proc[w].job.kind = "image" /\ proc[w].job.n \in 1..Images /\ proc[w].pc \in FollowerPCs
      /\ Plans(proc[w]) = {} /\ Shorts(proc[w]) = {} /\ Owns(proc[w]) = {} /\ Drains(proc[w]) = {}
      /\ Duties(proc[w]) = {} /\ Holds(proc[w]) = {}
  BY ImageWorks DEF ImagePCs
<1>2. PICK g \in Locals :
            /\ Becomes(w, g) /\ g.pc = "image.count" /\ g.job = proc[w].job /\ g.att = proc[w].att
            /\ g.seen = proc[w].seen /\ g.todo = proc[w].todo /\ g.short = proc[w].short
  <2>1. "image.count" \in PCs
    BY DEF PCs
  <2> QED
    BY <1>1, <2>1, AfterGoto
<1>3. g.pc \notin SaverPCs \cup PosterPCs \cup GiverPCs \cup ParsingPCs \cup OwnerPCs \cup {"promote"}
      /\ g.pc \notin ApiPCs /\ g.pc \notin SummaryPCs /\ g.pc \notin SavingPCs /\ g.pc \in ReadingPCs
      /\ g.pc \in ImagePCs /\ proc[w].pc \notin GiverPCs
  BY <1>2 DEF SaverPCs, FollowerPCs, PosterPCs, ImagePCs, ReadingPCs, OwnerPCs, SummaryPCs, SavingPCs,
         GiverPCs, ApiPCs, ReparsePCs, StopPCs, SweepPCs, ParsingPCs
<1>4. Fits(g)
  BY <1>1, <1>2, <1>3 DEF Fits
<1>5. /\ Plans(g) = {} /\ Shorts(g) = {} /\ Owns(g) = {} /\ Drains(g) = {}
      /\ Duties(g) = {} /\ Holds(g) = {}
  BY <1>3, <1>4, NoDuties
<1>6. Turn(g) = Turn(proc[w])
  BY <1>2, <1>3, TurnOf
<1>7. Moves(w, g)
  BY <1>1, <1>2, <1>3, <1>4, <1>5, <1>6 DEF Moves, Runs, Shifts, Lighter, Alike, CountLeft
<1> QED
  BY <1>7 DEF WorkerKinds

(* checkAndFinalizeAllImages counts an image down. *)
LEMMA ImageCountKind ==
  ASSUME TypeOK, Calm, SafetyInv, NEW w \in Workers, ImageCount(w)
  PROVE  WorkerKinds(w)
<1>1. proc[w].pc = "image.count" /\ ~Lite /\ mm' = mm - 1 /\ UNCHANGED <<row, latest, queue>>
      /\ IF mm - 1 <= 0 THEN Goto(w, "image.last") ELSE Leave(w)
  BY CalmSteps DEF ImageCount, At
<1>2. proc[w].pc \in ImagePCs /\ ~ManyPosts
  BY <1>1 DEF ImagePCs, ReadingPCs, ManyPosts
<1>3. /\ w \in Procs /\ Fits(proc[w]) /\ proc[w].att <= latest /\ proc[w].att = proc[w].job.att
      /\ proc[w].job.kind = "image" /\ proc[w].job.n \in 1..Images /\ Duties(proc[w]) = {}
      /\ proc[w].pc \notin GiverPCs
  BY <1>2, ImageWorks
<1>4. CASE mm - 1 <= 0
  <2>1. PICK g \in Locals :
            /\ Becomes(w, g) /\ g.pc = "image.last" /\ g.job = proc[w].job /\ g.att = proc[w].att
            /\ g.seen = proc[w].seen /\ g.todo = proc[w].todo /\ g.short = proc[w].short
    <3>1. "image.last" \in PCs
      BY DEF PCs
    <3> QED
      BY <1>1, <1>3, <1>4, <3>1, AfterGoto
  <2>2. g.pc \notin SaverPCs \cup PosterPCs \cup GiverPCs \cup ParsingPCs \cup OwnerPCs \cup {"promote"}
      /\ g.pc \notin ApiPCs /\ g.pc \notin SummaryPCs /\ g.pc \notin SavingPCs /\ g.pc \in ImagePCs
    BY <2>1 DEF SaverPCs, FollowerPCs, PosterPCs, ImagePCs, ReadingPCs, OwnerPCs, SummaryPCs, SavingPCs,
         GiverPCs, ApiPCs, ReparsePCs, StopPCs, SweepPCs, ParsingPCs
  <2>3. Fits(g)
    BY <1>3, <2>1, <2>2 DEF Fits
  <2>4. Duties(g) = {}
    BY <2>2, <2>3, NoDuties
  <2>5. Turn(g) = Driver
    BY <1>2, <2>1, TurnOf
  <2>6. Counts(w, g)
    BY <1>1, <1>3, <1>4, <2>1, <2>2, <2>3, <2>4, <2>5 DEF Counts, Runs, At
  <2> QED
    BY <2>6 DEF WorkerKinds
<1>5. CASE ~(mm - 1 <= 0)
  <2>1. Counts(w, Idle)
    BY <1>1, <1>3, <1>5, IdleFits, WorkerLeaves DEF Counts, At
  <2> QED
    BY <2>1, IdleFits DEF WorkerKinds
<1> QED
  BY <1>4, <1>5

(* Every step of an image task is of one of the kinds. *)
LEMMA ImageStepKind ==
  ASSUME TypeOK, Calm, SafetyInv, NEW w \in Workers, ImageStep(w)
  PROVE  WorkerKinds(w)
<1>0. Shapes /\ "db" \notin Faults /\ (Finish(w) <=> Leave(w))
  BY CalmSteps DEF SafetyInv
<1> USE DEF At
<1>1. CASE \E t \in BagToSet(queue) : ImageEnter(w, t) \/ ImageEnterError(w, t)
  BY <1>0, <1>1, ImageEnterKind DEF ImageEnterError
<1>2. CASE ImageError(w)
  <2>1. proc[w].pc \in ReadingPCs /\ proc[w].pc \in ImagePCs /\ ReturnError(w)
    BY <1>2 DEF ImageError, ReadingPCs, ImagePCs
  <2>2. proc[w].job.kind = "image" /\ proc[w].pc \notin GiverPCs \cup OwnerPCs \cup {"promote"}
    BY <2>1, ImageWorks
  <2>3. CountLeft(w) /\ UNCHANGED <<row, latest, mm>> /\ Leave(w)
        /\ IF FinalTry(w) THEN UNCHANGED queue ELSE Retry(w)
    BY <1>0, <2>1, <2>2 DEF ReturnError, CountLeft
  <2> QED
    BY <1>0, <2>1, <2>2, <2>3, LeavingMoves, ImageRetries
<1>3. CASE ImageRun(w)
  <2>1. proc[w].pc \in ReadingPCs /\ UNCHANGED <<row, latest, mm, queue>>
    BY <1>3 DEF ImageRun, StoredOnly, ReadingPCs
  <2> QED
    BY <1>3, <2>1, ImageGoes DEF ImageRun
<1>4. CASE ImageRunError(w)
  <2>1. proc[w].pc \in ReadingPCs /\ UNCHANGED <<row, latest, mm>>
    BY <1>4 DEF ImageRunError, QueueOnly, ReadingPCs
  <2> QED
    BY <1>4, <2>1, ImageGoes, ImageRetries DEF ImageRunError
<1>5. CASE ImageCount(w)
  BY <1>5, ImageCountKind
<1>6. CASE ImageCountNoRedis(w)
  <2>1. proc[w].pc \in ImagePCs /\ Lite /\ UNCHANGED <<row, latest>> /\ CountLeft(w)
    BY <1>0, <1>6 DEF ImageCountNoRedis, QueueOnly, ReadingPCs, ImagePCs, CountLeft
  <2>2. proc[w].pc \in FollowerPCs /\ proc[w].job.n \in 1..Images
    BY <2>1, ImageWorks
  <2>3. ManyPosts
    BY <2>1, <2>2, PipelineAssumption DEF ManyPosts
  <2> QED
    BY <1>0, <1>6, <2>1, <2>2, <2>3, PostPuts DEF ImageCountNoRedis
<1>7. CASE ImageLast(w)
  <2>1. proc[w].pc \in FollowerPCs /\ UNCHANGED <<row, latest>>
    BY <1>7 DEF ImageLast, FollowerPCs, ImagePCs
  <2>2. Turn(proc[w]) = Driver \/ ManyPosts
    BY <1>7, TurnOf DEF ImageLast
  <2>3. CountLeft(w)
    BY <2>2 DEF CountLeft
  <2> QED
    BY <1>0, <1>7, <2>1, <2>2, <2>3, PostPuts DEF ImageLast
<1> QED
  BY <1>1, <1>2, <1>3, <1>4, <1>5, <1>6, <1>7 DEF ImageStep

(* Every step of a worker is of one of the kinds. *)
LEMMA WorkerStepKind ==
  ASSUME TypeOK, Calm, SafetyInv, NEW w \in Workers, WorkerStep(w)
  PROVE  WorkerKinds(w)
<1>1. ~ Acknowledge(w)
  BY CallersAreNoWorkers DEF Acknowledge, At, SafetyInv, Shapes, Fits
<1> QED
  BY <1>1, DocStepKind, PostStepKind, SubtaskStepKind, ImageStepKind DEF WorkerStep
----------------------------------------------------------------------------
(* What a worker's step leaves of the invariant. *)
LEMMA RequestsStay ==
  ASSUME TypeOK, NEW w \in Workers, NEW g, Becomes(w, g)
  PROVE  /\ \A c \in Callers : proc'[c] = proc[c]
         /\ \A pcs : (\E c \in Callers : proc'[c].pc \in pcs) <=> Requested(pcs)
<1>1. \A c \in Callers : proc'[c] = proc[c]
  BY OthersStay, CallersAreNoWorkers DEF Procs
<1> QED
  BY <1>1 DEF Requested

(* A step of a worker leaves every frame and task well formed. *)
LEMMA ShapesKept ==
  ASSUME TypeOK, Shapes, NEW w \in Workers, NEW g, Runs(w, g), latest' = latest,
         \A t \in BagToSet(queue') : t \in BagToSet(queue) \/ (TaskFits(t) /\ t.att \in {0, latest})
  PROVE  Shapes'
<1>1. w \in Procs /\ w \notin Callers
  BY CallersAreNoWorkers
<1>2. proc'[w] = g /\ \A q \in Procs : q # w => proc'[q] = proc[q]
  BY <1>1, OthersStay DEF Runs
<1>3. \A p \in Procs : Fits(proc'[p]) /\ proc'[p].att <= latest
  BY <1>2 DEF Runs, Shapes
<1>4. \A v \in Workers : proc'[v].pc \notin ApiPCs
  BY <1>2 DEF Runs, Shapes, Procs
<1>5. \A c \in Callers : proc'[c].pc \in ApiPCs \cup {"idle"}
  BY <1>1, <1>2 DEF Shapes, Procs
<1>6. \A t \in BagToSet(queue') : TaskFits(t) /\ t.att \in {0, latest}
  BY DEF Shapes
<1> QED
  BY <1>3, <1>4, <1>5, <1>6 DEF Shapes

(* There are finitely many images to count. *)
LEMMA FiniteImages ==
  ASSUME NEW S \in SUBSET (1..Images)
  PROVE  IsFiniteSet(S) /\ Cardinality(S) \in Nat /\ Cardinality(S) <= Images
<1>1. IsFiniteSet(1..Images) /\ Cardinality(1..Images) = Images
  BY FS_Interval, PipelineAssumption
<1>2. IsFiniteSet(S) /\ Cardinality(S) <= Cardinality(1..Images)
  BY <1>1, FS_Subset
<1> QED
  BY <1>1, <1>2, FS_CardinalityType

LEMMA FiniteSlots ==
  ASSUME NEW S \in SUBSET Slots
  PROVE  IsFiniteSet(S) /\ Cardinality(S) \in Nat
<1>1. Questions + Graphs \in Nat
  BY PipelineAssumption
<1>2. IsFiniteSet(1..(Questions + Graphs))
  BY <1>1, FS_Interval
<1>3. IsFiniteSet({0}) /\ IsFiniteSet({})
  BY FS_EmptySet, FS_Singleton
<1>4. IsFiniteSet(Slots)
  BY <1>2, <1>3, FS_Union DEF Slots
<1> QED
  BY <1>4, FS_Subset, SlotsAreCounted

(* No image is added, the counter is the same or does not matter. *)
LEMMA CountingKept ==
  ASSUME TypeOK, Counting, NEW w \in Workers, latest' = latest, CountLeft(w), Turn(proc[w]) \subseteq Claimed,
         Claimed' \subseteq Claimed \cup SlotsOf(latest, Slots)
  PROVE  Counting'
<1> SUFFICES ASSUME ~ManyPosts, Outstanding' # {}
             PROVE  Driver \cap Claimed' = {} /\ mm' >= Cardinality(Outstanding')
  BY DEF Counting, ManyPosts
<1>1. Outstanding' \subseteq Outstanding
  <2>1. ASSUME NEW n, <<"image", latest, n>> \in Claimed' PROVE <<"image", latest, n>> \in Claimed
    BY <2>1 DEF SlotsOf
  <2> QED
    BY <2>1 DEF Outstanding
<1>2. Driver \cap Claimed = {} /\ mm >= Cardinality(Outstanding)
  BY <1>1 DEF Counting
<1>3. mm' = mm
  BY <1>2 DEF CountLeft, Driver
<1>4. Driver \cap Claimed' = {}
  BY <1>2 DEF Driver, SlotsOf
<1>5. Cardinality(Outstanding') <= Cardinality(Outstanding)
  <2>1. Outstanding \subseteq 1..Images
    BY DEF Outstanding
  <2>2. IsFiniteSet(Outstanding)
    BY <2>1, FiniteImages
  <2> QED
    BY <1>1, <2>2, FS_Subset
<1>6. Cardinality(Outstanding) \in Nat /\ Cardinality(Outstanding') \in Nat /\ mm \in Int
  <2>1. Outstanding \subseteq 1..Images /\ Outstanding' \subseteq 1..Images
    BY <1>1 DEF Outstanding
  <2> QED
    BY <2>1, FiniteImages DEF TypeOK
<1> QED
  BY <1>2, <1>3, <1>4, <1>5, <1>6

(* A held slot is claimed by somebody. *)
LEMMA HeldAreClaimed ==
  /\ HeldNow \subseteq Slots
  /\ \A n \in HeldNow : <<"slot", latest, n>> \in Claimed
  /\ SlotsOf(latest, Slots) \cap Claimed = {} => HeldNow = {}
<1>1. HeldNow \subseteq Slots
  BY DEF HeldNow
<1>2. \A n \in HeldNow : <<"slot", latest, n>> \in Claimed
  BY ClaimedIs DEF HeldNow, Holds, Claims, Procs
<1> QED
  BY <1>1, <1>2 DEF SlotsOf

(* A step that leaves the row and moves slots about keeps the count. *)
LEMMA EnrichingKept ==
  ASSUME TypeOK, Enriching, NEW w \in Workers, NEW g, Becomes(w, g), latest' = latest, row' = row,
         SlotsOf(latest, Slots) \cap Claimed' \subseteq Claimed, HeldNow' = HeldNow,
         Holds(g) \subseteq SlotsOf(latest, Slots)
  PROVE  Enriching'
<1>1. \A v \in Workers : Holds(proc'[v]) \subseteq SlotsOf(latest, Slots)
  BY OthersStay DEF Enriching, Procs
<1>2. Has(row, {"pending", "processing"})
         \/ (\E c \in Callers : proc'[c].pc \in {"re.clean", "re.reset"})
         => SlotsOf(latest, Slots) \cap Claimed' = {}
  BY RequestsStay DEF Enriching
<1> QED
  BY <1>1, <1>2 DEF Enriching, Requested, Has

(* Who has the turn is the only one of the pipeline. *)
LEMMA OnlyDriver ==
  ASSUME TypeOK, SafetyInv, ~ManyPosts, NEW w \in Workers, Turn(proc[w]) = Driver
  PROVE  /\ \A v \in Workers : v # w => proc[v].pc \notin SaverPCs \cup FollowerPCs
         /\ \A t \in BagToSet(queue) : t.kind \notin {"process", "post", "image"}
<1>1. <<"driver", 0, 0>> \in Claims(proc[w]) /\ w \in Procs
  BY CallersAreNoWorkers DEF Claims, Driver
<1>2. Driver \cap Claimed # {}
  BY <1>1, ClaimedIs DEF Driver
<1>3. Outstanding = {}
  BY <1>2 DEF SafetyInv, Counting
<1>4. \A n \in 1..Images : <<"image", latest, n>> \notin Claimed
  BY <1>3 DEF Outstanding
<1>5. ASSUME NEW v \in Workers, v # w, proc[v].pc \in SaverPCs \cup FollowerPCs PROVE FALSE
  <2>1. v \in Procs /\ Turn(proc[v]) \cap Driver = {}
    BY <1>1, <1>5, CallersAreNoWorkers DEF SafetyInv, Exclusive, Claims, Driver
  <2>2. ~ (Driver \subseteq Turn(proc[v])) /\ Driver # {}
    BY <2>1 DEF Driver
  <2>3. proc[v].pc \in ReadingPCs \cup {"mm.enqueue"}
    BY <1>5, <2>2, TurnOf DEF FollowerPCs, ImagePCs
  <2>4. proc[v].att = latest /\ Fits(proc[v]) /\ Sound(proc[v])
    <3>1. proc[v] \in Frames
      BY <2>1 DEF TypeOK
    <3>2. proc[v].pc \notin AttemptlessPCs
      BY <2>3 DEF AttemptlessPCs, ReadingPCs
    <3>3. proc[v].att \in {0, latest}
      BY <1>5 DEF SafetyInv, Phases
    <3> QED
      BY <2>1, <3>1, <3>2, <3>3 DEF Frames, Sound, SafetyInv, Shapes
  <2>5. PICK n \in 1..Images : <<"image", latest, n>> \in Turn(proc[v])
    <3>1. CASE proc[v].pc = "mm.enqueue"
      <4>1. proc[v].todo # {} /\ proc[v].todo \subseteq 1..Images
        BY <2>4, <3>1 DEF Sound
      <4>2. Turn(proc[v]) = ImagesOf(latest, proc[v].todo)
        BY <2>4, <3>1, TurnOf
      <4> QED
        BY <4>1, <4>2 DEF ImagesOf
    <3>2. CASE proc[v].pc \in ReadingPCs
      <4>1. proc[v].job.n \in 1..Images
        BY <2>4, <3>2 DEF Fits, ImagePCs
      <4>2. Turn(proc[v]) = ImagesOf(latest, {proc[v].job.n})
        BY <2>4, <3>2, TurnOf
      <4> QED
        BY <4>1, <4>2 DEF ImagesOf
    <3> QED
      BY <2>3, <3>1, <3>2
  <2> QED
    BY <1>4, <2>1, <2>5, ClaimedIs DEF Claims
<1>6. ASSUME NEW t \in BagToSet(queue), t.kind \in {"process", "post", "image"} PROVE FALSE
  <2>1. TaskClaims(t) \cap Driver = {}
    BY <1>1 DEF SafetyInv, Exclusive, Driver
  <2>2. t.kind = "image"
    BY <1>6, <2>1 DEF TaskClaims, Driver, Enrichment
  <2>3. TaskFits(t) /\ t.att \in {0, latest} /\ (t.att = 0 => t.kind = "post")
    BY TasksFit DEF SafetyInv
  <2>4. t.att = latest /\ t.n \in 1..Images
    BY <2>2, <2>3 DEF TaskFits
  <2>5. <<"image", latest, t.n>> \in TaskClaims(t)
    BY <2>2, <2>4 DEF TaskClaims, Enrichment, ImagesOf
  <2> QED
    BY <1>4, <2>4, <2>5, ClaimedIs
<1> QED
  BY <1>5, <1>6

(* Nobody works while the cron is sweeping. *)
LEMMA WorkersAreBusy ==
  ASSUME NEW w \in Workers, WorkerStep(w) PROVE proc[w].pc # "idle" \/ BagToSet(queue) # {}
<1> USE DEF At
<1>1. CASE DocStep(w)
  BY <1>1 DEF DocStep, DocRecheck, DocMark, DocConvert, DocConvertError, DocFatal, ChunksCheck,
     ChunksClean, ChunksRecheck, ChunksWrite, ChunksBeforeIndex, ChunksIndex, ChunksIndexError,
     ChunksUndo, ChunksFinal, ChunksSave, EnqueuePost, SetMultimodal, EnqueueImage
<1>2. CASE PostStep(w)
  BY <1>2 DEF PostStep, PostMissing, PostAttempt, PostList, PostListError, PostHandoff,
     PostNothingToDo, PostNothingToDoError, PostSpawn, PostRelease, PostPromote, PostEnd
<1>3. CASE SubtaskStep(w)
  BY <1>3 DEF SubtaskStep, SubtaskLoad, SubtaskRun, SubtaskRunError, SubtaskWrite, SummaryMark,
     SummaryChunks, SummaryNone, SummaryNoneError, SummaryLlm, SummaryLlmError, SummaryAgain,
     SummaryFresh, SummaryStale, SummarySave, SummarySaveError, SummaryWrite, SummaryWriteError,
     Drain, Promote
<1>4. CASE ImageStep(w)
  BY <1>4 DEF ImageStep, ImageError, ImageRun, ImageRunError, ImageCount, ImageCountNoRedis, ImageLast
<1> QED
  BY <1>1, <1>2, <1>3, <1>4 DEF WorkerStep, Acknowledge

(* While a worker works the cron does not sweep. *)
LEMMA NoSweep ==
  ASSUME Phases, NEW w \in Workers, WorkerStep(w) PROVE ~Requested(SweepPCs)
<1>1. BagToSet(EmptyBag) = {}
  BY DEF EmptyBag, BagToSet, SetToBag
<1> QED
  BY <1>1, WorkersAreBusy DEF Phases, At

(* The phases after a step of a worker, which no request follows. *)
LEMMA PhasesAfter ==
  ASSUME TypeOK, Phases, NEW w \in Workers, NEW g, Becomes(w, g), latest' = latest,
         ~Requested(SweepPCs),
         g.pc \in SaverPCs \cup FollowerPCs => g.att \in {0, latest},
         Saving' => Saving /\ Has(row', {"pending", "processing"}) /\ ~Following',
         Following' => ManyPosts \/ Has(row', {"processing"}),
         Following' /\ ~Following => ~Requested(ReparsePCs \cup StopPCs),
         Requested({"re.clean", "re.reset"}) => Has(row', {"completed", "failed"}),
         Requested({"re.zero", "re.enqueue", "re.failed"}) => Has(row', {"pending"}),
         Requested({"dequeue", "del.purge", "del.row"}) => row'.gone \/ row'.status \in Aborted,
         Has(row', {"pending", "processing"}) /\ ~Requested({"re.zero"}) => row'.count = 0,
         Has(row', {"deleting"}) => Has(row, {"deleting"})
  PROVE  Phases'
<1>1. \A c \in Callers : proc'[c] = proc[c]
  BY RequestsStay
<1>2. ~ (\E c \in Callers : proc'[c].pc \in SweepPCs)
  BY <1>1 DEF Requested
<1>3. Saving' => Has(row', {"pending", "processing"}) /\ ~Following'
  OBVIOUS
<1>4. Following' /\ ~ManyPosts => Has(row', {"processing"})
  OBVIOUS
<1>5. (\E c \in Callers : proc'[c].pc \in {"re.clean", "re.reset"}) => Has(row', {"completed", "failed"})
  BY <1>1 DEF Requested
<1>6. (\E c \in Callers : proc'[c].pc \in {"re.zero", "re.enqueue", "re.failed"}) => Has(row', {"pending"})
  BY <1>1 DEF Requested
<1>7. (\E c \in Callers : proc'[c].pc \in ReparsePCs) => ~Following'
  <2>1. SUFFICES ASSUME NEW c \in Callers, proc'[c].pc \in ReparsePCs, Following' PROVE FALSE
    OBVIOUS
  <2>2. Requested(ReparsePCs) /\ Requested(ReparsePCs \cup StopPCs)
    BY <1>1, <2>1 DEF Requested
  <2> QED
    BY <2>1, <2>2 DEF Phases
<1>8. (\E c \in Callers : proc'[c].pc \in StopPCs \cup SweepPCs) => ~Saving' /\ (Following' => ManyPosts)
  <2>1. SUFFICES ASSUME NEW c \in Callers, proc'[c].pc \in StopPCs \cup SweepPCs
                 PROVE  ~Saving' /\ (Following' => ManyPosts)
    OBVIOUS
  <2>2. Requested(StopPCs \cup SweepPCs) /\ Requested(ReparsePCs \cup StopPCs)
    BY <1>1, <1>2, <2>1 DEF Requested
  <2> QED
    BY <2>2 DEF Phases
<1>9. (\E c \in Callers : proc'[c].pc \in {"dequeue", "del.purge", "del.row"})
        => row'.gone \/ row'.status \in Aborted
  BY <1>1 DEF Requested
<1>10. Has(row', {"pending", "processing"}) /\ ~ (\E c \in Callers : proc'[c].pc \in {"re.zero"})
        => row'.count = 0
  BY <1>1 DEF Requested
<1>11. \A v \in Workers : proc'[v].pc \in SaverPCs \cup FollowerPCs => proc'[v].att \in {0, latest}
  BY OthersStay DEF Phases, Procs
<1>12. \A c \in Callers : proc'[c].pc \in ReparsePCs => proc'[c].att = latest
  BY <1>1 DEF Phases
<1>13. (\E c \in Callers : proc'[c].pc \in {"ca.mark"}) => ~Summary /\ ~Has(row', {"deleting"})
  BY <1>1 DEF Phases, Requested
<1> QED
  BY <1>2, <1>3, <1>4, <1>5, <1>6, <1>7, <1>8, <1>9, <1>10, <1>11, <1>12, <1>13 DEF Phases, Requested

(* Saving and following after a step of a worker. *)
LEMMA SavingAfter ==
  ASSUME TypeOK, NEW w \in Workers, NEW g, Becomes(w, g)
  PROVE  /\ Saving' <=> \/ g.pc \in SaverPCs
                        \/ \E v \in Workers : v # w /\ proc[v].pc \in SaverPCs
                        \/ \E t \in BagToSet(queue') : t.kind = "process"
         /\ Following' <=> \/ g.pc \in FollowerPCs
                           \/ \E v \in Workers : v # w /\ proc[v].pc \in FollowerPCs
                           \/ \E t \in BagToSet(queue') : t.kind \in {"post", "image"}
<1>1. proc'[w] = g /\ \A v \in Workers : v # w => proc'[v] = proc[v]
  BY OthersStay, CallersAreNoWorkers
<1> QED
  BY <1>1 DEF Saving, Following

(* A step that leaves the row alone, and starts nothing. *)
LEMMA PhasesKept ==
  ASSUME TypeOK, Phases, NEW w \in Workers, NEW g, Becomes(w, g), latest' = latest, row' = row,
         ~Requested(SweepPCs),
         g.pc \in SaverPCs \cup FollowerPCs => g.att \in {0, latest},
         Saving' => Saving, Following' => Following
  PROVE  Phases'
<1>1. Saving' => Has(row', {"pending", "processing"}) /\ ~Following'
  BY DEF Phases
<1>2. Following' => ManyPosts \/ Has(row', {"processing"})
  BY DEF Phases
<1>3. Requested({"re.clean", "re.reset"}) => Has(row', {"completed", "failed"})
  BY DEF Phases
<1>4. Requested({"re.zero", "re.enqueue", "re.failed"}) => Has(row', {"pending"})
  BY DEF Phases
<1>5. Requested({"dequeue", "del.purge", "del.row"}) => row'.gone \/ row'.status \in Aborted
  BY DEF Phases
<1>6. Has(row', {"pending", "processing"}) /\ ~Requested({"re.zero"}) => row'.count = 0
  BY DEF Phases
<1> QED
  BY <1>1, <1>2, <1>3, <1>4, <1>5, <1>6, PhasesAfter
----------------------------------------------------------------------------
(* Every kind of step keeps the invariant. *)
LEMMA HeldAfter ==
  ASSUME TypeOK, NEW w \in Workers, NEW g, Becomes(w, g), latest' = latest
  PROVE  /\ HeldNow = {n \in Slots : \/ <<"slot", latest, n>> \in Holds(proc[w])
                                     \/ \E v \in Workers : (v # w /\ <<"slot", latest, n>> \in Holds(proc[v]))
                                     \/ \E t \in BagToSet(queue) : <<"slot", latest, n>> \in TaskClaims(t)}
         /\ HeldNow' = {n \in Slots : \/ <<"slot", latest, n>> \in Holds(g)
                                      \/ \E v \in Workers : (v # w /\ <<"slot", latest, n>> \in Holds(proc[v]))
                                      \/ \E t \in BagToSet(queue') : <<"slot", latest, n>> \in TaskClaims(t)}
<1>1. proc'[w] = g /\ \A v \in Workers : v # w => proc'[v] = proc[v]
  BY OthersStay, CallersAreNoWorkers
<1>2. HeldNow = {n \in Slots : \/ <<"slot", latest, n>> \in Holds(proc[w])
                                     \/ \E v \in Workers : (v # w /\ <<"slot", latest, n>> \in Holds(proc[v]))
                                     \/ \E t \in BagToSet(queue) : <<"slot", latest, n>> \in TaskClaims(t)}
  BY DEF HeldNow
<1>3. HeldNow' = {n \in Slots : \/ \E v \in Workers : <<"slot", latest, n>> \in Holds(proc'[v])
                                \/ \E t \in BagToSet(queue') : <<"slot", latest, n>> \in TaskClaims(t)}
  BY DEF HeldNow
<1>4. ASSUME NEW n PROVE (\E v \in Workers : <<"slot", latest, n>> \in Holds(proc'[v]))
                          <=> \/ <<"slot", latest, n>> \in Holds(g)
                              \/ \E v \in Workers : (v # w /\ <<"slot", latest, n>> \in Holds(proc[v]))
  BY <1>1
<1> QED
  BY <1>2, <1>3, <1>4

(* A queue that only lost a task, or got one that fits. *)
LEMMA TakenQueue ==
  ASSUME TypeOK, Exclusive, NEW t \in BagToSet(queue), queue' = queue (-) SetToBag({t})
  PROVE  /\ BagToSet(queue') \subseteq BagToSet(queue) /\ BagToSet(queue) \subseteq BagToSet(queue') \cup {t}
         /\ TaskClaims(t) # {} => t \notin BagToSet(queue')
  BY BagTake DEF TypeOK, Exclusive

(* The tasks that wait after an enqueue. *)
LEMMA PutQueue ==
  ASSUME TypeOK, NEW t, Add(t) PROVE BagToSet(queue') = BagToSet(queue) \cup {t}
<1>1. IsABag(queue) /\ queue' = queue (+) SetToBag({t})
  BY DEF TypeOK, Add
<1> QED
  BY <1>1, BagPut

(* A step of a handler on its own is safe. *)
LEMMA ShiftIsSafe ==
  ASSUME TypeOK, SafetyInv, NEW w \in Workers, NEW g, Shifts(w, g), ~Requested(SweepPCs)
  PROVE  SafetyInv'
<1>1. w \in Procs /\ Becomes(w, g) /\ Runs(w, g) /\ latest' = latest /\ row' = row /\ queue' = queue
      /\ CountLeft(w)
  BY CallersAreNoWorkers DEF Shifts, Runs
<1>2. Lighter(proc[w], g)
  BY DEF Shifts
<1>3. Claims(g) \subseteq Claims(proc[w])
  BY <1>2 DEF Lighter, Claims
<1>4. Exclusive' /\ Claimed' \subseteq Claimed
  <2>1. \A u \in BagToSet(queue') : TaskClaims(u) # {} => queue'[u] = queue[u]
    BY <1>1
  <2> QED
    BY <1>1, <1>3, <2>1, ClaimsDrop DEF SafetyInv
<1>5. Shapes'
  BY <1>1, ShapesKept DEF SafetyInv
<1>6. Turn(proc[w]) \subseteq Claimed
  BY <1>1, ClaimedIs DEF Claims
<1>7. Counting'
  BY <1>1, <1>4, <1>6, CountingKept DEF SafetyInv
<1>8. Holds(g) = Holds(proc[w]) /\ HeldNow' = HeldNow
  BY <1>1, <1>2, HeldAfter DEF Lighter
<1>9. Enriching'
  BY <1>1, <1>4, <1>8, EnrichingKept DEF SafetyInv, Enriching
<1>10. Phases'
  <2>1. Saving' => Saving
    BY <1>1, <1>2, SavingAfter DEF Saving, Lighter
  <2>2. Following' => Following
    BY <1>1, <1>2, SavingAfter DEF Following, Lighter
  <2>3. g.pc \in SaverPCs \cup FollowerPCs => g.att \in {0, latest}
    BY <1>2 DEF Lighter, SafetyInv, Phases
  <2> QED
    BY <1>1, <2>1, <2>2, <2>3, PhasesKept DEF SafetyInv
<1> QED
  BY <1>4, <1>5, <1>7, <1>9, <1>10 DEF SafetyInv

(* Taking a task from the queue is safe. *)
LEMMA TakeIsSafe ==
  ASSUME TypeOK, SafetyInv, NEW w \in Workers, NEW g, NEW t \in BagToSet(queue), Takes(w, g, t),
         ~Requested(SweepPCs)
  PROVE  SafetyInv'
<1>1. w \in Procs /\ Becomes(w, g) /\ Runs(w, g) /\ latest' = latest /\ row' = row /\ mm' = mm
      /\ queue' = queue (-) SetToBag({t}) /\ proc[w].pc = "idle"
  BY CallersAreNoWorkers DEF Takes, Runs, At
<1>2. Holds(g) = Owns(g) /\ Duties(g) = Owns(g) /\ Owns(g) \subseteq TaskClaims(t)
  BY DEF Takes, Holds, Duties
<1>3. Claims(g) \subseteq TaskClaims(t)
  BY <1>2 DEF Claims, Takes
<1>4. Exclusive' /\ Claimed' \subseteq Claimed
  BY <1>1, <1>3, ClaimsTake DEF SafetyInv
<1>5. /\ BagToSet(queue') \subseteq BagToSet(queue) /\ BagToSet(queue) \subseteq BagToSet(queue') \cup {t}
      /\ TaskClaims(t) # {} => t \notin BagToSet(queue')
  BY <1>1, TakenQueue DEF SafetyInv
<1>6. Shapes'
  BY <1>1, <1>5, ShapesKept DEF SafetyInv
<1>7. Counting'
  <2>1. Turn(proc[w]) \subseteq Claimed /\ CountLeft(w)
    BY <1>1, ClaimedIs DEF Claims, CountLeft
  <2> QED
    BY <1>1, <1>4, <2>1, CountingKept DEF SafetyInv
<1>8. Holds(proc[w]) = {}
  <2>1. proc[w].pc \notin GiverPCs \cup OwnerPCs \cup {"promote"} /\ Fits(proc[w])
    BY <1>1 DEF GiverPCs, OwnerPCs, SummaryPCs, SavingPCs, SafetyInv, Shapes
  <2> QED
    BY <2>1, NoDuties
<1>9. ASSUME NEW n PROVE <<"slot", latest, n>> \in Holds(g) <=> <<"slot", latest, n>> \in TaskClaims(t)
  <2>1. CASE t.kind \in Enrichment
    BY <1>2, <2>1 DEF Takes
  <2>2. CASE t.kind \notin Enrichment
    BY <1>2, <2>2 DEF Takes, TaskClaims, Driver, ImagesOf
  <2> QED
    BY <2>1, <2>2
<1>10. HeldNow' = HeldNow
  <2>1. ASSUME NEW n
        PROVE  (\/ <<"slot", latest, n>> \in Holds(g)
                \/ \E u \in BagToSet(queue') : <<"slot", latest, n>> \in TaskClaims(u))
               <=> \E u \in BagToSet(queue) : <<"slot", latest, n>> \in TaskClaims(u)
    BY <1>5, <1>9
  <2> QED
    BY <1>1, <1>8, <2>1, HeldAfter
<1>11. Enriching'
  <2>1. Holds(g) \subseteq SlotsOf(latest, Slots)
    <3>1. CASE t.kind \in Enrichment
      <4>1. t.att = latest /\ t.n \in Slots
        BY <3>1, TasksFit DEF SafetyInv, TaskFits, Enrichment
      <4>2. Holds(g) \subseteq SlotsOf(t.att, {t.n})
        BY <1>2, <3>1 DEF TaskClaims
      <4> QED
        BY <4>1, <4>2 DEF SlotsOf
    <3>2. CASE t.kind \notin Enrichment
      BY <1>2, <3>2 DEF Takes
    <3> QED
      BY <3>1, <3>2
  <2> QED
    BY <1>1, <1>4, <1>10, <2>1, EnrichingKept DEF SafetyInv
<1>12. Phases'
  <2>1. Saving' => Saving
    BY <1>1, <1>5, SavingAfter DEF Saving, Takes
  <2>2. Following' => Following
    BY <1>1, <1>5, SavingAfter DEF Following, Takes
  <2>3. g.pc \in SaverPCs \cup FollowerPCs => g.att \in {0, latest}
    BY DEF Takes, SafetyInv, Shapes
  <2> QED
    BY <1>1, <2>1, <2>2, <2>3, PhasesKept DEF SafetyInv
<1> QED
  BY <1>4, <1>6, <1>7, <1>11, <1>12 DEF SafetyInv

(* Enqueueing a task the handler has the claims of is safe. *)
LEMMA PutIsSafe ==
  ASSUME TypeOK, SafetyInv, NEW w \in Workers, NEW g, NEW t, Puts(w, g, t), ~Requested(SweepPCs)
  PROVE  SafetyInv'
<1>1. w \in Procs /\ Becomes(w, g) /\ Runs(w, g) /\ latest' = latest /\ row' = row /\ Add(t)
      /\ CountLeft(w)
  BY CallersAreNoWorkers DEF Puts, Runs
<1>2. /\ Claims(g) \subseteq Claims(proc[w]) /\ TaskClaims(t) \subseteq Claims(proc[w])
      /\ Claims(g) \cap TaskClaims(t) = {}
  BY DEF Puts, Claims, Holds
<1>3. Exclusive' /\ Claimed' \subseteq Claimed
  BY <1>1, <1>2, ClaimsPut DEF SafetyInv
<1>4. BagToSet(queue') = BagToSet(queue) \cup {t}
  BY <1>1, PutQueue
<1>5. Shapes'
  BY <1>1, <1>4, ShapesKept DEF SafetyInv, Puts
<1>6. Counting'
  <2>1. Turn(proc[w]) \subseteq Claimed
    BY <1>1, ClaimedIs DEF Claims
  <2> QED
    BY <1>1, <1>3, <2>1, CountingKept DEF SafetyInv
<1>7. ASSUME NEW n PROVE <<"slot", latest, n>> \notin Turn(proc[w])
  BY DEF Turn, Driver, ImagesOf
<1>8. HeldNow' = HeldNow
  <2>1. ASSUME NEW n
        PROVE  (\/ <<"slot", latest, n>> \in Holds(g)
                \/ \E u \in BagToSet(queue') : <<"slot", latest, n>> \in TaskClaims(u))
               <=> \/ <<"slot", latest, n>> \in Holds(proc[w])
                   \/ \E u \in BagToSet(queue) : <<"slot", latest, n>> \in TaskClaims(u)
    BY <1>4, <1>7 DEF Puts
  <2> QED
    BY <1>1, <2>1, HeldAfter
<1>9. Enriching'
  <2>1. Holds(g) \subseteq SlotsOf(latest, Slots)
    BY DEF Puts, SafetyInv, Enriching
  <2> QED
    BY <1>1, <1>3, <1>8, <2>1, EnrichingKept DEF SafetyInv
<1>10. Phases'
  <2>1. Saving' => Saving
    BY <1>1, <1>4, SavingAfter DEF Saving, Puts
  <2>2. Following' => Following
    BY <1>1, <1>4, SavingAfter DEF Following, Puts
  <2>3. g.pc \in SaverPCs \cup FollowerPCs => g.att \in {0, latest}
    BY DEF Puts, SafetyInv, Phases
  <2> QED
    BY <1>1, <2>1, <2>2, <2>3, PhasesKept DEF SafetyInv
<1> QED
  BY <1>3, <1>5, <1>6, <1>9, <1>10 DEF SafetyInv

(* Enqueueing, or failing to enqueue, an enrichment task is safe. *)
LEMMA SpawnIsSafe ==
  ASSUME TypeOK, SafetyInv, NEW w \in Workers, NEW g, NEW n \in Slots, Spawns(w, g, n),
         ~Requested(SweepPCs)
  PROVE  SafetyInv'
<1> DEFINE s == <<"slot", g.att, n>>
           t == Task(KindOf(n), g.att, n)
<1>1. /\ w \in Procs /\ Runs(w, g) /\ g.att = proc[w].att /\ UNCHANGED <<row, latest, mm>>
      /\ s \in Plans(proc[w]) /\ proc[w].pc = "post.spawn"
      /\ Turn(g) = {} /\ Plans(g) = Plans(proc[w]) \ {s}
      /\ Owns(g) = {} /\ Drains(g) = {} /\ Owns(proc[w]) = {} /\ Drains(proc[w]) = {}
      /\ Plans(proc[w]) \cap Shorts(proc[w]) = {}
  BY CallersAreNoWorkers DEF Spawns, At
<1>2. g.pc \notin SaverPCs \cup FollowerPCs
  BY DEF Spawns
<1>3. Duties(proc[w]) = Plans(proc[w]) \cup Shorts(proc[w]) /\ Holds(proc[w]) = Duties(proc[w])
      /\ Duties(g) = Plans(g) \cup Shorts(g) /\ Holds(g) = Duties(g)
  BY <1>1 DEF Duties, Holds
<1>4. g.att = latest
  <2>1. {s} \subseteq SlotsOf(latest, Slots)
    BY <1>1, <1>3 DEF SafetyInv, Enriching
  <2> QED
    BY <2>1 DEF SlotsOf
<1>5. CountLeft(w)
  BY <1>1 DEF CountLeft
<1>6. CASE Add(t) /\ Shorts(g) = Shorts(proc[w])
  <2>1. t.kind = KindOf(n) /\ t.att = latest /\ t.n = n /\ KindOf(n) \in Enrichment
    BY <1>4, KindsOfSlots DEF Task
  <2>2. TaskFits(t) /\ t.kind \notin {"process", "post", "image"}
    BY <2>1 DEF TaskFits, Enrichment
  <2>3. TaskClaims(t) = {s}
    BY <1>4, <2>1 DEF TaskClaims, SlotsOf
  <2>4. s \notin Turn(g) /\ TaskClaims(t) \cap Claims(g) = {}
    BY <1>1, <1>3, <1>6, <2>3 DEF Claims
  <2> HIDE DEF t, s
  <2>5. /\ Turn(g) \subseteq Turn(proc[w]) /\ Duties(g) \subseteq Duties(proc[w])
        /\ TaskClaims(t) \subseteq Turn(proc[w]) \cup Holds(proc[w])
        /\ Holds(g) = Holds(proc[w]) \ TaskClaims(t)
    BY <1>1, <1>3, <1>6, <2>3
  <2>6. Puts(w, g, t)
    BY <1>1, <1>2, <1>5, <1>6, <2>1, <2>2, <2>4, <2>5 DEF Puts
  <2> QED
    BY <2>6, PutIsSafe
<1>7. CASE UNCHANGED queue /\ Shorts(g) = Shorts(proc[w]) \cup {s}
  <2> HIDE DEF s
  <2>1. Duties(g) = Duties(proc[w]) /\ Holds(g) = Holds(proc[w])
    BY <1>1, <1>3, <1>7
  <2>2. Lighter(proc[w], g)
    BY <1>1, <1>2, <2>1 DEF Lighter
  <2>3. Shifts(w, g)
    BY <1>1, <1>5, <1>7, <2>2 DEF Shifts
  <2> QED
    BY <2>3, ShiftIsSafe
<1> QED
  BY <1>6, <1>7 DEF Spawns

(* Who is parsing is alone with the document. *)
LEMMA SaverAlone ==
  ASSUME TypeOK, SafetyInv, NEW w \in Workers, proc[w].pc \in SaverPCs
  PROVE  /\ Has(row, {"pending", "processing"}) /\ row.count = 0 /\ HeldNow = {}
         /\ SlotsOf(latest, Slots) \cap Claimed = {} /\ ~Following
         /\ \A c \in Callers : proc[c].pc = "idle"
         /\ \A v \in Workers : v # w => proc[v].pc \notin SaverPCs
         /\ \A t \in BagToSet(queue) : t.kind # "process"
<1>1. Saving /\ w \in Procs
  BY CallersAreNoWorkers DEF Saving
<1>2. Has(row, {"pending", "processing"}) /\ ~Following /\ ~Requested(StopPCs \cup SweepPCs)
  BY <1>1 DEF SafetyInv, Phases
<1>3. Driver \subseteq Claims(proc[w]) /\ Driver # {}
  BY TurnOf DEF Claims, Driver
<1>4. ASSUME NEW p \in Procs, p # w, proc[p].pc \in SaverPCs \cup ReparsePCs PROVE FALSE
  <2>1. Driver \subseteq Claims(proc[p])
    BY <1>4, TurnOf DEF Claims
  <2> QED
    BY <1>1, <1>3, <1>4, <2>1 DEF SafetyInv, Exclusive
<1>5. \A t \in BagToSet(queue) : t.kind # "process"
  BY <1>1, <1>3 DEF SafetyInv, Exclusive, TaskClaims, Enrichment
<1>6. \A c \in Callers : proc[c].pc = "idle"
  <2>1. SUFFICES ASSUME NEW c \in Callers PROVE proc[c].pc = "idle"
    OBVIOUS
  <2>2. c # w /\ c \in Procs
    BY CallersAreNoWorkers DEF Procs
  <2>3. proc[c].pc \notin ReparsePCs /\ proc[c].pc \notin StopPCs \cup SweepPCs
    BY <1>2, <1>4, <2>2 DEF Requested
  <2> QED
    BY <2>3 DEF SafetyInv, Shapes, ApiPCs
<1>7. row.count = 0
  <2>1. ~Requested({"re.zero"})
    BY <1>6 DEF Requested
  <2> QED
    BY <1>2, <2>1 DEF SafetyInv, Phases
<1>8. SlotsOf(latest, Slots) \cap Claimed = {}
  BY <1>2 DEF SafetyInv, Enriching
<1> QED
  BY <1>2, <1>4, <1>5, <1>6, <1>7, <1>8, HeldAreClaimed DEF Procs

(* The facts about slots after a step of a worker, from the row it leaves. *)
LEMMA EnrichingAfter ==
  ASSUME TypeOK, Enriching, NEW w \in Workers, NEW g, Becomes(w, g), latest' = latest,
         Holds(g) \subseteq SlotsOf(latest, Slots),
         Has(row', {"pending", "processing"}) \/ Requested({"re.clean", "re.reset"})
           => SlotsOf(latest, Slots) \cap Claimed' = {},
         Has(row', {"finalizing"}) => row'.count = Cardinality(HeldNow'),
         Has(row', {"completed"}) => HeldNow' = {},
         Has(row', {"failed"}) /\ ~ManyPosts => HeldNow' = {},
         Summary /\ HeldNow' # {} => Has(row', {"finalizing"})
  PROVE  Enriching'
<1>1. \A v \in Workers : Holds(proc'[v]) \subseteq SlotsOf(latest, Slots)
  BY OthersStay DEF Enriching, Procs
<1>2. Has(row', {"pending", "processing"})
         \/ (\E c \in Callers : proc'[c].pc \in {"re.clean", "re.reset"})
         => SlotsOf(latest, Slots) \cap Claimed' = {}
  BY RequestsStay
<1> QED
  BY <1>1, <1>2 DEF Enriching, Requested, ManyPosts

(* The save of the whole row by the parser is safe: it is the only driver. *)
LEMMA SaveIsSafe ==
  ASSUME TypeOK, SafetyInv, NEW w \in Workers, NEW g, NEW status \in {"processing", "failed"},
         Saves(w, g, status), ~Requested(SweepPCs)
  PROVE  SafetyInv'
<1>1. /\ w \in Procs /\ Becomes(w, g) /\ Runs(w, g) /\ proc[w].pc \in SaverPCs
      /\ row' = Saved(row, status) /\ latest' = latest /\ mm' = mm /\ queue' = queue
      /\ (status = "failed" => g.pc \notin SaverPCs \cup FollowerPCs)
      /\ Turn(g) \subseteq Driver /\ Duties(g) = {} /\ Duties(proc[w]) = {}
  BY CallersAreNoWorkers DEF Saves, Runs
<1>2. /\ Has(row, {"pending", "processing"}) /\ row.count = 0 /\ HeldNow = {}
      /\ SlotsOf(latest, Slots) \cap Claimed = {} /\ ~Following
      /\ \A c \in Callers : proc[c].pc = "idle"
      /\ \A v \in Workers : v # w => proc[v].pc \notin SaverPCs
      /\ \A t \in BagToSet(queue) : t.kind # "process"
  BY <1>1, SaverAlone
<1>3. Turn(proc[w]) = Driver
  BY <1>1, TurnOf
<1>4. Exclusive' /\ Claimed' \subseteq Claimed
  <2>1. \A u \in BagToSet(queue') : TaskClaims(u) # {} => queue'[u] = queue[u]
    BY <1>1
  <2>2. Claims(g) \subseteq Claims(proc[w]) /\ BagToSet(queue') \subseteq BagToSet(queue)
    BY <1>1, <1>3 DEF Claims
  <2> QED
    BY <1>1, <2>1, <2>2, ClaimsDrop DEF SafetyInv
<1>5. Shapes'
  BY <1>1, ShapesKept DEF SafetyInv
<1>6. Counting'
  <2>1. Turn(proc[w]) \subseteq Claimed /\ CountLeft(w)
    BY <1>1, ClaimedIs DEF Claims, CountLeft
  <2> QED
    BY <1>1, <1>4, <2>1, CountingKept DEF SafetyInv
<1>7. row'.status = status /\ ~row'.gone /\ row'.count = 0
  BY <1>1, <1>2 DEF Saved, Has, TypeOK, Rows
<1>8. \A pcs \in {{"re.clean", "re.reset"}, {"re.zero", "re.enqueue", "re.failed"}, {"re.zero"},
                  {"dequeue", "del.purge", "del.row"}, ReparsePCs \cup StopPCs} : ~Requested(pcs)
  BY <1>2 DEF Requested, ReparsePCs, StopPCs
<1>9. Enriching'
  <2>1. Holds(g) = {} /\ Holds(proc[w]) = {}
    BY <1>1 DEF Holds
  <2>2. HeldNow' = {}
    <3>1. Holds(g) = Holds(proc[w])
      BY <2>1
    <3>2. HeldNow' = HeldNow
      BY <1>1, <3>1, HeldAfter
    <3> QED
      BY <1>2, <3>2
  <2>3. SlotsOf(latest, Slots) \cap Claimed' = {}
    BY <1>2, <1>4
  <2> QED
    BY <1>1, <1>7, <2>1, <2>2, <2>3, EnrichingAfter DEF Has, SafetyInv
<1>10. Phases'
  <2>1. Saving' <=> g.pc \in SaverPCs
    BY <1>1, <1>2, SavingAfter
  <2>2. Following' <=> g.pc \in FollowerPCs
    BY <1>1, <1>2, SavingAfter DEF Following
  <2>3. SaverPCs \cap FollowerPCs = {}
    BY DEF SaverPCs, FollowerPCs, PosterPCs, ImagePCs, ReadingPCs
  <2>4. g.pc \in SaverPCs \cup FollowerPCs => g.att \in {0, latest}
    BY <1>1 DEF Saves, SafetyInv, Phases
  <2>5. Saving' => Saving /\ Has(row', {"pending", "processing"}) /\ ~Following'
    BY <1>1, <1>7, <2>1, <2>2, <2>3 DEF Has, Saving
  <2>6. Following' => Has(row', {"processing"})
    BY <1>1, <1>7, <2>2 DEF Has
  <2> QED
    BY <1>1, <1>7, <1>8, <2>4, <2>5, <2>6, PhasesAfter DEF SafetyInv, Has
<1> QED
  BY <1>4, <1>5, <1>6, <1>9, <1>10 DEF SafetyInv

(* Who is post-processing has nobody in front, and, but for images that all *)
(* post-process, nobody beside.                                            *)
LEMMA PosterAlone ==
  ASSUME TypeOK, SafetyInv, NEW w \in Workers, proc[w].pc \in PosterPCs
  PROVE  /\ ~Saving /\ ~Requested(ReparsePCs)
         /\ Requested({"dequeue", "del.purge", "del.row"}) => row.gone \/ row.status \in Aborted
         /\ ~ManyPosts => /\ Has(row, {"processing"}) /\ HeldNow = {} /\ ~Requested(StopPCs)
                          /\ \A v \in Workers : v # w => proc[v].pc \notin FollowerPCs
                          /\ \A t \in BagToSet(queue) : t.kind \notin {"post", "image"}
<1>1. Following
  BY DEF Following, FollowerPCs
<1>2. ~Saving /\ ~Requested(ReparsePCs)
  BY <1>1 DEF SafetyInv, Phases
<1>3. ASSUME ~ManyPosts
      PROVE  /\ Has(row, {"processing"}) /\ HeldNow = {} /\ ~Requested(StopPCs)
             /\ \A v \in Workers : v # w => proc[v].pc \notin FollowerPCs
             /\ \A t \in BagToSet(queue) : t.kind \notin {"post", "image"}
  <2>1. Has(row, {"processing"}) /\ ~Requested(StopPCs \cup SweepPCs)
    BY <1>1, <1>3 DEF SafetyInv, Phases
  <2>2. SlotsOf(latest, Slots) \cap Claimed = {}
    BY <2>1 DEF SafetyInv, Enriching, Has
  <2>3. Turn(proc[w]) = Driver
    BY <1>3, PosterWorks
  <2>4. ~Requested(StopPCs)
    BY <2>1 DEF Requested
  <2> QED
    BY <1>3, <2>1, <2>2, <2>3, <2>4, OnlyDriver, HeldAreClaimed
<1> QED
  BY <1>2, <1>3 DEF SafetyInv, Phases

(* The end of post-processing, whatever it makes of the row. *)
LEMMA PosterLeaves ==
  ASSUME TypeOK, SafetyInv, NEW w \in Workers, NEW g, Runs(w, g), proc[w].pc \in PosterPCs,
         g.pc \notin SaverPCs \cup FollowerPCs, UNCHANGED <<latest, mm, queue>>,
         row'.gone <=> row.gone,
         row' = row \/ row'.status \in {"finalizing", "completed", "failed"},
         row' = row \/ Has(row, Active)
  PROVE  Shapes' /\ Phases'
<1>1. w \in Procs /\ Becomes(w, g) /\ latest' = latest /\ queue' = queue
  BY CallersAreNoWorkers DEF Runs
<1>2. /\ ~Saving /\ ~Requested(ReparsePCs)
      /\ Requested({"dequeue", "del.purge", "del.row"}) => row.gone \/ row.status \in Aborted
      /\ ~ManyPosts => /\ \A v \in Workers : v # w => proc[v].pc \notin FollowerPCs
                       /\ \A t \in BagToSet(queue) : t.kind \notin {"post", "image"}
  BY PosterAlone
<1>3. ~Requested(SweepPCs)
  <2>1. proc[w].pc # "idle"
    BY DEF PosterPCs
  <2> QED
    BY <2>1 DEF SafetyInv, Phases, At
<1>4. ~Saving' /\ (Following' => ManyPosts) /\ (Following' => Following)
  BY <1>1, <1>2, SavingAfter DEF Saving, Following
<1>5. ~Requested({"re.clean", "re.reset"}) /\ ~Requested({"re.zero", "re.enqueue", "re.failed"})
      /\ ~Requested({"re.zero"})
  BY <1>2 DEF Requested, ReparsePCs
<1>6. Requested({"dequeue", "del.purge", "del.row"}) => row'.gone \/ row'.status \in Aborted
  BY <1>2 DEF Has, Active, Aborted
<1>7. Has(row', {"pending", "processing"}) => row'.count = 0
  <2>1. row' = row => (Has(row, {"pending", "processing"}) => row.count = 0)
    BY <1>5 DEF SafetyInv, Phases
  <2> QED
    BY <2>1 DEF Has
<1>8. Has(row', {"deleting"}) => Has(row, {"deleting"})
  BY DEF Has
<1> QED
  BY <1>1, <1>3, <1>4, <1>5, <1>6, <1>7, <1>8, PhasesAfter, ShapesKept DEF SafetyInv

(* A post-processing that fails for good is safe. *)
LEMMA PostFailIsSafe ==
  ASSUME TypeOK, Calm, SafetyInv, NEW w \in Workers, NEW g, PostFails(w, g)
  PROVE  SafetyInv'
<1>1. /\ w \in Procs /\ Becomes(w, g) /\ Runs(w, g) /\ proc[w].pc \in PosterPCs
      /\ g.pc \notin SaverPCs \cup FollowerPCs
      /\ row' = FailedIfActive(row) /\ latest' = latest /\ mm' = mm /\ queue' = queue
      /\ Turn(g) = {} /\ Duties(g) = {} /\ Duties(proc[w]) = {}
  BY CallersAreNoWorkers DEF PostFails, Runs
<1>2. /\ row'.gone <=> row.gone
      /\ row' = row \/ (row'.status = "failed" /\ Has(row, Active))
  BY <1>1 DEF FailedIfActive, Has, TypeOK, Rows
<1>3. Shapes' /\ Phases'
  BY <1>1, <1>2, PosterLeaves
<1>4. Exclusive' /\ Claimed' \subseteq Claimed
  <2>1. \A u \in BagToSet(queue') : TaskClaims(u) # {} => queue'[u] = queue[u]
    BY <1>1
  <2>2. Claims(g) \subseteq Claims(proc[w]) /\ BagToSet(queue') \subseteq BagToSet(queue)
    BY <1>1 DEF Claims
  <2> QED
    BY <1>1, <2>1, <2>2, ClaimsDrop DEF SafetyInv
<1>5. Counting'
  <2>1. Turn(proc[w]) \subseteq Claimed /\ CountLeft(w)
    BY <1>1, ClaimedIs DEF Claims, CountLeft
  <2> QED
    BY <1>1, <1>4, <2>1, CountingKept DEF SafetyInv
<1>6. Holds(g) = {} /\ HeldNow' = HeldNow
  <2>1. Holds(g) = Holds(proc[w]) /\ Holds(g) = {}
    BY <1>1 DEF Holds
  <2> QED
    BY <1>1, <2>1, HeldAfter
<1>7. Enriching'
  <2>1. CASE row' = row
    BY <1>1, <1>4, <1>6, <2>1, EnrichingKept DEF SafetyInv
  <2>2. CASE row' # row
    <3>1. row'.status = "failed" /\ Has(row, Active)
      BY <1>2, <2>2
    <3>2. ~ManyPosts => HeldNow' = {}
      BY <1>1, <1>6, PosterAlone
    <3>3. ManyPosts => ~Summary
      BY DEF Calm
    <3>4. ~Requested({"re.clean", "re.reset"})
      BY <1>1, PosterAlone DEF Requested, ReparsePCs
    <3> QED
      BY <1>1, <1>6, <3>1, <3>2, <3>3, <3>4, EnrichingAfter DEF Has, SafetyInv
  <2> QED
    BY <2>1, <2>2
<1> QED
  BY <1>3, <1>4, <1>5, <1>7 DEF SafetyInv

(* CompleteProcessingWithoutSubtasks is safe. *)
LEMMA CompleteNowIsSafe ==
  ASSUME TypeOK, SafetyInv, NEW w \in Workers, NEW g, CompletesNow(w, g)
  PROVE  SafetyInv'
<1>1. /\ w \in Procs /\ Becomes(w, g) /\ Runs(w, g) /\ proc[w].pc \in PosterPCs
      /\ g.pc \notin SaverPCs \cup FollowerPCs
      /\ row' = CompletedAtOnce(row) /\ latest' = latest /\ mm' = mm /\ queue' = queue
      /\ Turn(g) = {} /\ Duties(g) = {} /\ Duties(proc[w]) = {}
  BY CallersAreNoWorkers DEF CompletesNow, Runs
<1>2. /\ row'.gone <=> row.gone
      /\ row' = row \/ (row'.status = "completed" /\ Has(row, {"processing"}))
  BY <1>1 DEF CompletedAtOnce, Has, TypeOK, Rows
<1>3. Shapes' /\ Phases'
  BY <1>1, <1>2, PosterLeaves DEF Has, Active
<1>4. Exclusive' /\ Claimed' \subseteq Claimed
  <2>1. \A u \in BagToSet(queue') : TaskClaims(u) # {} => queue'[u] = queue[u]
    BY <1>1
  <2>2. Claims(g) \subseteq Claims(proc[w]) /\ BagToSet(queue') \subseteq BagToSet(queue)
    BY <1>1 DEF Claims
  <2> QED
    BY <1>1, <2>1, <2>2, ClaimsDrop DEF SafetyInv
<1>5. Counting'
  <2>1. Turn(proc[w]) \subseteq Claimed /\ CountLeft(w)
    BY <1>1, ClaimedIs DEF Claims, CountLeft
  <2> QED
    BY <1>1, <1>4, <2>1, CountingKept DEF SafetyInv
<1>6. Holds(g) = {} /\ HeldNow' = HeldNow
  <2>1. Holds(g) = Holds(proc[w]) /\ Holds(g) = {}
    BY <1>1 DEF Holds
  <2> QED
    BY <1>1, <2>1, HeldAfter
<1>7. Enriching'
  <2>1. CASE row' = row
    BY <1>1, <1>4, <1>6, <2>1, EnrichingKept DEF SafetyInv
  <2>2. CASE row' # row
    <3>1. row'.status = "completed" /\ Has(row, {"processing"})
      BY <1>2, <2>2
    <3>2. HeldNow' = {}
      BY <1>6, <3>1, HeldAreClaimed DEF SafetyInv, Enriching, Has
    <3>4. ~Requested({"re.clean", "re.reset"})
      BY <1>1, PosterAlone DEF Requested, ReparsePCs
    <3> QED
      BY <1>1, <1>6, <3>1, <3>2, <3>4, EnrichingAfter DEF Has, SafetyInv
  <2> QED
    BY <2>1, <2>2
<1> QED
  BY <1>3, <1>4, <1>5, <1>7 DEF SafetyInv

(* SetFinalizing counts the slots it plans. *)
LEMMA HandOverIsSafe ==
  ASSUME TypeOK, SafetyInv, NEW w \in Workers, NEW g, HandsOver(w, g)
  PROVE  SafetyInv'
<1> DEFINE S == proc[w].todo
<1>1. /\ w \in Procs /\ Becomes(w, g) /\ Runs(w, g) /\ proc[w].pc \in PosterPCs
      /\ g.pc \notin SaverPCs \cup FollowerPCs
      /\ row' = HandedOff(row, Cardinality(S)) /\ latest' = latest /\ mm' = mm /\ queue' = queue
      /\ Turn(g) = {} /\ Duties(g) = SlotsOf(latest, S) /\ Holds(g) = SlotsOf(latest, S)
      /\ Duties(proc[w]) = {} /\ S \subseteq Slots
  BY CallersAreNoWorkers DEF HandsOver, Runs, At, PosterPCs, SaverPCs, FollowerPCs, ImagePCs, ReadingPCs
<1>2. /\ row'.gone <=> row.gone
      /\ row'.status = "finalizing" /\ row'.count = Cardinality(S) /\ Has(row, {"processing"})
  BY <1>1 DEF HandsOver, HandedOff, Has, TypeOK, Rows
<1>3. Shapes' /\ Phases'
  BY <1>1, <1>2, PosterLeaves DEF Has, Active
<1>4. SlotsOf(latest, Slots) \cap Claimed = {} /\ HeldNow = {}
  BY <1>2, HeldAreClaimed DEF SafetyInv, Enriching, Has
<1> HIDE DEF S
<1>5. Exclusive' /\ Claimed' \subseteq Claimed \cup SlotsOf(latest, Slots)
  <2>1. SlotsOf(latest, S) \subseteq SlotsOf(latest, Slots)
    BY <1>1 DEF SlotsOf
  <2>2. Claims(g) \subseteq Claims(proc[w]) \cup SlotsOf(latest, S) /\ SlotsOf(latest, S) \cap Claimed = {}
    BY <1>1, <1>4, <2>1 DEF Claims
  <2>3. Exclusive' /\ Claimed' \subseteq Claimed \cup SlotsOf(latest, S)
    BY <1>1, <2>2, ClaimsMove DEF SafetyInv
  <2> QED
    BY <2>1, <2>3
<1>6. Counting'
  <2>1. Turn(proc[w]) \subseteq Claimed /\ CountLeft(w)
    BY <1>1, ClaimedIs DEF Claims, CountLeft
  <2> QED
    BY <1>1, <1>5, <2>1, CountingKept DEF SafetyInv
<1>7. HeldNow' = S
  <2>1. \A n \in Slots : /\ ~ \E v \in Workers : (v # w /\ <<"slot", latest, n>> \in Holds(proc[v]))
                         /\ ~ \E t \in BagToSet(queue) : <<"slot", latest, n>> \in TaskClaims(t)
    BY <1>1, <1>4, HeldAfter
  <2>2. \A n : <<"slot", latest, n>> \in Holds(g) <=> n \in S
    BY <1>1 DEF SlotsOf
  <2> QED
    BY <1>1, <2>1, <2>2, HeldAfter
<1>8. Enriching'
  <2>1. Holds(g) \subseteq SlotsOf(latest, Slots)
    BY <1>1 DEF SlotsOf
  <2>2. ~Requested({"re.clean", "re.reset"})
    BY <1>1, PosterAlone DEF Requested, ReparsePCs
  <2> QED
    BY <1>1, <1>2, <1>7, <2>1, <2>2, EnrichingAfter DEF Has, SafetyInv
<1> QED
  BY <1>3, <1>5, <1>6, <1>8 DEF SafetyInv

(* The two statements of FinalizeSubtask do not disturb the phases. *)
LEMMA DrainerPhases ==
  ASSUME TypeOK, SafetyInv, NEW w \in Workers, NEW g, Runs(w, g), ~Requested(SweepPCs),
         g.pc \notin SaverPCs \cup FollowerPCs, UNCHANGED <<latest, mm, queue>>,
         row'.gone <=> row.gone,
         row'.status = row.status \/ (row.status = "finalizing" /\ row'.status = "completed"),
         row.count = 0 => row'.count = 0
  PROVE  Shapes' /\ Phases'
<1>1. w \in Procs /\ Becomes(w, g) /\ latest' = latest /\ queue' = queue
  BY CallersAreNoWorkers DEF Runs
<1>2. (Saving' => Saving) /\ (Following' => Following)
  BY <1>1, SavingAfter DEF Saving, Following
<1>3. Saving' => Saving /\ Has(row', {"pending", "processing"}) /\ ~Following'
  BY <1>2 DEF Has, SafetyInv, Phases
<1>4. Following' => ManyPosts \/ Has(row', {"processing"})
  BY <1>2 DEF Has, SafetyInv, Phases
<1>5. Requested({"re.clean", "re.reset"}) => Has(row', {"completed", "failed"})
  BY DEF Has, SafetyInv, Phases
<1>6. Requested({"re.zero", "re.enqueue", "re.failed"}) => Has(row', {"pending"})
  BY DEF Has, SafetyInv, Phases
<1>7. Requested({"dequeue", "del.purge", "del.row"}) => row'.gone \/ row'.status \in Aborted
  BY DEF Aborted, SafetyInv, Phases
<1>8. Has(row', {"pending", "processing"}) /\ ~Requested({"re.zero"}) => row'.count = 0
  BY DEF Has, SafetyInv, Phases
<1>9. Has(row', {"deleting"}) => Has(row, {"deleting"})
  BY DEF Has
<1> QED
  BY <1>1, <1>2, <1>3, <1>4, <1>5, <1>6, <1>7, <1>8, <1>9, PhasesAfter, ShapesKept DEF SafetyInv

(* The first statement of FinalizeSubtask counts one slot, of this attempt. *)
LEMMA GiveBackIsSafe ==
  ASSUME TypeOK, SafetyInv, NEW w \in Workers, NEW g, NEW n \in Slots, GivesBack(w, g, n),
         ~Requested(SweepPCs)
  PROVE  SafetyInv' /\ n \in HeldNow /\ HeldNow' = HeldNow \ {n} /\ proc[w].att = latest
<1> DEFINE s == <<"slot", latest, n>>
<1>1. /\ w \in Procs /\ Becomes(w, g) /\ Runs(w, g) /\ g.pc \notin SaverPCs \cup FollowerPCs
      /\ row' = Decremented(row) /\ latest' = latest /\ mm' = mm /\ queue' = queue
      /\ Turn(g) = {} /\ Duties(g) = Duties(proc[w]) /\ Drains(proc[w]) = {} /\ g.att = proc[w].att
      /\ <<"slot", g.att, n>> \in Holds(proc[w]) /\ Drains(g) = {<<"slot", g.att, n>>}
  BY CallersAreNoWorkers DEF GivesBack, Runs
<1>2. g.att = latest
  <2>1. <<"slot", g.att, n>> \in SlotsOf(latest, Slots)
    BY <1>1 DEF SafetyInv, Enriching
  <2> QED
    BY <2>1 DEF SlotsOf
<1>3. /\ row'.gone <=> row.gone
      /\ row'.status = row.status /\ row.count \in Nat
      /\ row'.count = IF ~row.gone /\ row.count > 0 THEN row.count - 1 ELSE row.count
  BY <1>1 DEF Decremented, TypeOK, Rows
<1>4. Shapes' /\ Phases'
  <2>1. row.count = 0 => row'.count = 0
    BY <1>3
  <2> QED
    BY <1>1, <1>3, <2>1, DrainerPhases
<1>5. Exclusive' /\ Claimed' \subseteq Claimed
  <2>1. \A u \in BagToSet(queue') : TaskClaims(u) # {} => queue'[u] = queue[u]
    BY <1>1
  <2>2. Claims(g) \subseteq Claims(proc[w]) /\ BagToSet(queue') \subseteq BagToSet(queue)
    BY <1>1 DEF Claims
  <2> QED
    BY <1>1, <2>1, <2>2, ClaimsDrop DEF SafetyInv
<1>6. Counting'
  <2>1. Turn(proc[w]) \subseteq Claimed /\ CountLeft(w)
    BY <1>1, ClaimedIs DEF Claims, CountLeft
  <2> QED
    BY <1>1, <1>5, <2>1, CountingKept DEF SafetyInv
<1>7. s \in Holds(proc[w]) /\ s \in Claims(proc[w]) /\ Drains(g) = {s}
  BY <1>1, <1>2 DEF Holds, Claims
<1>8. Holds(g) = Holds(proc[w]) \ {s}
  BY <1>1, <1>7 DEF Holds
<1>9. /\ ~ \E v \in Workers : (v # w /\ s \in Holds(proc[v]))
      /\ ~ \E t \in BagToSet(queue) : s \in TaskClaims(t)
  BY <1>1, <1>7, CallersAreNoWorkers DEF SafetyInv, Exclusive, Holds, Claims
<1>10. n \in HeldNow
  BY <1>7 DEF HeldNow
<1>11. HeldNow' = HeldNow \ {n}
  <2>1. \A m : <<"slot", latest, m>> \in Holds(g) <=> (<<"slot", latest, m>> \in Holds(proc[w]) /\ m # n)
    BY <1>8
  <2>2. \A m : m = n => /\ ~ \E v \in Workers : (v # w /\ <<"slot", latest, m>> \in Holds(proc[v]))
                        /\ ~ \E t \in BagToSet(queue) : <<"slot", latest, m>> \in TaskClaims(t)
    BY <1>9
  <2> HIDE DEF s
  <2>3. HeldNow' = {m \in Slots : \/ <<"slot", latest, m>> \in Holds(g)
                                  \/ \E v \in Workers : (v # w /\ <<"slot", latest, m>> \in Holds(proc[v]))
                                  \/ \E t \in BagToSet(queue) : <<"slot", latest, m>> \in TaskClaims(t)}
    BY <1>1, HeldAfter
  <2>4. HeldNow = {m \in Slots : \/ <<"slot", latest, m>> \in Holds(proc[w])
                                 \/ \E v \in Workers : (v # w /\ <<"slot", latest, m>> \in Holds(proc[v]))
                                 \/ \E t \in BagToSet(queue) : <<"slot", latest, m>> \in TaskClaims(t)}
    BY <1>1, HeldAfter
  <2> QED
    BY <2>1, <2>2, <2>3, <2>4
<1>12. Enriching'
  <2>1. Holds(g) \subseteq SlotsOf(latest, Slots)
    BY <1>8 DEF SafetyInv, Enriching
  <2>2. Has(row', {"pending", "processing"}) \/ Requested({"re.clean", "re.reset"})
           => SlotsOf(latest, Slots) \cap Claimed' = {}
    BY <1>3, <1>5 DEF SafetyInv, Enriching, Has
  <2>3. Has(row', {"finalizing"}) => row'.count = Cardinality(HeldNow')
    <3>1. SUFFICES ASSUME Has(row, {"finalizing"}) PROVE row'.count = Cardinality(HeldNow')
      BY <1>3 DEF Has
    <3>2. row.count = Cardinality(HeldNow) /\ ~row.gone
      BY <3>1 DEF SafetyInv, Enriching, Has
    <3>3. IsFiniteSet(HeldNow) /\ Cardinality(HeldNow) \in Nat
      BY HeldAreClaimed, FiniteSlots
    <3>4. Cardinality(HeldNow \ {n}) = Cardinality(HeldNow) - 1
      BY <1>10, <3>3, FS_RemoveElement
    <3>5. Cardinality(HeldNow \ {n}) \in Nat
      BY <3>3, FS_Subset, FS_CardinalityType
    <3> QED
      BY <1>3, <1>11, <3>2, <3>3, <3>4, <3>5
  <2>4. Has(row', {"completed"}) => HeldNow' = {}
    BY <1>3, <1>11 DEF SafetyInv, Enriching, Has
  <2>5. Has(row', {"failed"}) /\ ~ManyPosts => HeldNow' = {}
    BY <1>3, <1>11 DEF SafetyInv, Enriching, Has
  <2>6. Summary /\ HeldNow' # {} => Has(row', {"finalizing"})
    BY <1>3, <1>11 DEF SafetyInv, Enriching, Has
  <2> QED
    BY <1>1, <2>1, <2>2, <2>3, <2>4, <2>5, <2>6, EnrichingAfter DEF SafetyInv
<1> QED
  BY <1>1, <1>2, <1>4, <1>5, <1>6, <1>10, <1>11, <1>12 DEF SafetyInv

(* The second statement of FinalizeSubtask completes a document that owes nothing. *)
LEMMA PromoteIsSafe ==
  ASSUME TypeOK, SafetyInv, NEW w \in Workers, NEW g, NEW n \in Slots, Promotes(w, g, n),
         ~Requested(SweepPCs)
  PROVE  SafetyInv' /\ HeldNow' = HeldNow
<1>1. /\ w \in Procs /\ Becomes(w, g) /\ Runs(w, g) /\ g.pc \notin SaverPCs \cup FollowerPCs
      /\ row' = Promoted(row) /\ latest' = latest /\ mm' = mm /\ queue' = queue
      /\ Turn(g) = {} /\ Drains(g) = {} /\ Plans(g) = {} /\ Plans(proc[w]) = {}
      /\ Owns(g) = {} /\ Owns(proc[w]) = {} /\ Shorts(g) = Shorts(proc[w]) \ Drains(proc[w])
  BY CallersAreNoWorkers DEF Promotes, Runs
<1>2. /\ row'.gone <=> row.gone
      /\ row'.count = row.count
      /\ row' = row \/ (Has(row, {"finalizing"}) /\ row.count = 0 /\ row'.status = "completed")
  BY <1>1 DEF Promoted, CanPromote, Has, TypeOK, Rows
<1>3. Shapes' /\ Phases'
  BY <1>1, <1>2, DrainerPhases DEF Has
<1>4. Duties(g) \subseteq Duties(proc[w]) /\ Holds(g) = Holds(proc[w])
  BY <1>1 DEF Duties, Holds
<1>5. Exclusive' /\ Claimed' \subseteq Claimed
  <2>1. \A u \in BagToSet(queue') : TaskClaims(u) # {} => queue'[u] = queue[u]
    BY <1>1
  <2>2. Claims(g) \subseteq Claims(proc[w]) /\ BagToSet(queue') \subseteq BagToSet(queue)
    BY <1>1, <1>4 DEF Claims
  <2> QED
    BY <1>1, <2>1, <2>2, ClaimsDrop DEF SafetyInv
<1>6. Counting'
  <2>1. Turn(proc[w]) \subseteq Claimed /\ CountLeft(w)
    BY <1>1, ClaimedIs DEF Claims, CountLeft
  <2> QED
    BY <1>1, <1>5, <2>1, CountingKept DEF SafetyInv
<1>7. HeldNow' = HeldNow
  BY <1>1, <1>4, HeldAfter
<1>8. Holds(g) \subseteq SlotsOf(latest, Slots)
  BY <1>4 DEF SafetyInv, Enriching
<1>9. Enriching'
  <2>1. CASE row' = row
    BY <1>1, <1>5, <1>7, <1>8, <2>1, EnrichingKept DEF SafetyInv
  <2>2. CASE row' # row
    <3>1. Has(row, {"finalizing"}) /\ row.count = 0 /\ row'.status = "completed"
      BY <1>2, <2>2
    <3>2. HeldNow = {}
      <4>1. IsFiniteSet(HeldNow) /\ Cardinality(HeldNow) = 0
        BY <3>1, HeldAreClaimed, FiniteSlots DEF SafetyInv, Enriching
      <4> QED
        BY <4>1, FS_EmptySet
    <3>3. ~Requested({"re.clean", "re.reset"})
      BY <3>1 DEF SafetyInv, Phases, Has
    <3> QED
      BY <1>1, <1>7, <1>8, <3>1, <3>2, <3>3, EnrichingAfter DEF Has, SafetyInv
  <2> QED
    BY <2>1, <2>2
<1> QED
  BY <1>1, <1>3, <1>5, <1>6, <1>7, <1>9 DEF SafetyInv

(* An image is counted down: whoever takes the counter to zero is the last.  *)
LEMMA CountIsSafe ==
  ASSUME TypeOK, SafetyInv, NEW w \in Workers, NEW g, Counts(w, g), ~Requested(SweepPCs)
  PROVE  SafetyInv'
<1> DEFINE n == proc[w].job.n
           i == <<"image", latest, n>>
           last == mm - 1 <= 0
<1>1. /\ w \in Procs /\ Becomes(w, g) /\ Runs(w, g) /\ proc[w].pc = "image.count"
      /\ mm' = mm - 1 /\ row' = row /\ latest' = latest /\ queue' = queue
      /\ g.pc = (IF last THEN "image.last" ELSE "idle")
      /\ Duties(g) = {} /\ Duties(proc[w]) = {} /\ Turn(g) = (IF last THEN Driver ELSE {})
      /\ ~Lite /\ (g.pc = "image.last" => g.att = proc[w].att)
  BY CallersAreNoWorkers DEF Counts, Runs, At
<1>2. ~ManyPosts
  BY <1>1 DEF ManyPosts
<1>3. proc[w].att = latest /\ n \in 1..Images
  <2>1. proc[w] \in Frames /\ Fits(proc[w])
    BY <1>1 DEF TypeOK, SafetyInv, Shapes
  <2>2. proc[w].pc \notin AttemptlessPCs /\ proc[w].pc \in ImagePCs /\ proc[w].pc \in FollowerPCs
    BY <1>1 DEF AttemptlessPCs, FollowerPCs, ImagePCs, ReadingPCs
  <2>3. proc[w].att \in {0, latest} /\ proc[w].att # 0
    BY <2>1, <2>2 DEF Frames, Sound, SafetyInv, Phases
  <2> QED
    BY <2>1, <2>2, <2>3 DEF Fits
<1>4. Turn(proc[w]) = {i}
  <2>1. Turn(proc[w]) = ImagesOf(latest, {n})
    BY <1>1, <1>2, <1>3, TurnOf DEF ReadingPCs
  <2> QED
    BY <2>1 DEF ImagesOf
<1>5. i \in Claims(proc[w]) /\ i \in Claimed
  BY <1>1, <1>4, ClaimedIs DEF Claims
<1>6. n \in Outstanding
  BY <1>3, <1>5 DEF Outstanding
<1>7. Driver \cap Claimed = {} /\ mm >= Cardinality(Outstanding)
  BY <1>2, <1>6 DEF SafetyInv, Counting
<1>8. Exclusive' /\ Claimed' \subseteq Claimed \cup Turn(g)
  <2>1. Turn(g) \cap Claimed = {} /\ Claims(g) \subseteq Claims(proc[w]) \cup Turn(g)
    BY <1>1, <1>7 DEF Claims
  <2> QED
    BY <1>1, <2>1, ClaimsMove DEF SafetyInv
<1>9. i \notin Claimed'
  <2>1. i \notin Claims(g)
    BY <1>1 DEF Claims, Driver
  <2>2. \A q \in Procs : q # w => i \notin Claims(proc[q])
    BY <1>1, <1>5 DEF SafetyInv, Exclusive
  <2>3. \A t \in BagToSet(queue) : i \notin TaskClaims(t)
    BY <1>1, <1>5 DEF SafetyInv, Exclusive
  <2>4. proc'[w] = g /\ \A q \in Procs : q # w => proc'[q] = proc[q]
    BY <1>1, OthersStay
  <2> HIDE DEF i
  <2> QED
    BY <1>1, <2>1, <2>2, <2>3, <2>4, ClaimedIs
<1>10. Outstanding' \subseteq Outstanding \ {n}
  <2>1. Outstanding' = {m \in 1..Images : <<"image", latest, m>> \in Claimed'}
    BY <1>1 DEF Outstanding
  <2>2. \A m : <<"image", latest, m>> \notin Turn(g)
    BY <1>1 DEF Driver
  <2> QED
    BY <1>8, <1>9, <2>1, <2>2 DEF Outstanding
<1>11. /\ Cardinality(Outstanding) \in Nat /\ Cardinality(Outstanding') \in Nat
       /\ Cardinality(Outstanding') <= Cardinality(Outstanding) - 1
       /\ (Outstanding' # {} => Cardinality(Outstanding') > 0)
  <2>1. Outstanding \subseteq 1..Images /\ Outstanding' \subseteq 1..Images
    BY <1>10 DEF Outstanding
  <2>2. IsFiniteSet(Outstanding) /\ IsFiniteSet(Outstanding') /\ IsFiniteSet(Outstanding \ {n})
        /\ Cardinality(Outstanding) \in Nat /\ Cardinality(Outstanding') \in Nat
    BY <2>1, FiniteImages, FS_Subset
  <2>3. Cardinality(Outstanding \ {n}) = Cardinality(Outstanding) - 1
    BY <1>6, <2>2, FS_RemoveElement
  <2>4. Cardinality(Outstanding') <= Cardinality(Outstanding \ {n})
    BY <1>10, <2>2, FS_Subset
  <2>5. Outstanding' # {} => Cardinality(Outstanding') # 0
    BY <2>2, FS_EmptySet
  <2> QED
    BY <2>2, <2>3, <2>4, <2>5
<1>12. Counting'
  <2>1. SUFFICES ASSUME Outstanding' # {} PROVE Driver \cap Claimed' = {} /\ mm' >= Cardinality(Outstanding')
    BY DEF Counting, ManyPosts
  <2>2. mm \in Int
    BY DEF TypeOK
  <2>3. mm' >= Cardinality(Outstanding') /\ ~last
    BY <1>1, <1>7, <1>11, <2>1, <2>2
  <2>4. Claimed' \subseteq Claimed
    BY <1>1, <1>8, <2>3
  <2> QED
    BY <1>7, <2>3, <2>4
<1>13. Shapes'
  BY <1>1, ShapesKept DEF SafetyInv
<1>14. Holds(g) = Holds(proc[w]) /\ Holds(g) = {} /\ HeldNow' = HeldNow
  <2>1. Holds(g) = Holds(proc[w]) /\ Holds(g) = {}
    BY <1>1 DEF Holds
  <2> QED
    BY <1>1, <2>1, HeldAfter
<1>15. Enriching'
  <2>1. SlotsOf(latest, Slots) \cap Claimed' \subseteq Claimed
    BY <1>1, <1>8 DEF SlotsOf, Driver
  <2> QED
    BY <1>1, <1>14, <2>1, EnrichingKept DEF SafetyInv
<1>16. Phases'
  <2>1. proc[w].pc \in FollowerPCs /\ g.pc \notin SaverPCs
    BY <1>1 DEF SaverPCs, FollowerPCs, PosterPCs, ImagePCs, ReadingPCs
  <2>2. (Saving' => Saving) /\ (Following' => Following)
    BY <1>1, <2>1, SavingAfter DEF Saving, Following
  <2>3. g.pc \in SaverPCs \cup FollowerPCs => g.att \in {0, latest}
    <3>1. "idle" \notin SaverPCs \cup FollowerPCs
      BY DEF SaverPCs, FollowerPCs, PosterPCs, ImagePCs, ReadingPCs
    <3> QED
      BY <1>1, <1>3, <3>1
  <2> QED
    BY <1>1, <2>2, <2>3, PhasesKept DEF SafetyInv
<1> QED
  BY <1>8, <1>12, <1>13, <1>15, <1>16 DEF SafetyInv

(* The counter of the images is set before the first of them is enqueued. *)
LEMMA SetCounterIsSafe ==
  ASSUME TypeOK, SafetyInv, NEW w \in Workers, NEW g, SetsCounter(w, g), ~Requested(SweepPCs)
  PROVE  SafetyInv'
<1> DEFINE New == ImagesOf(latest, 1..Images)
<1>1. /\ w \in Procs /\ Becomes(w, g) /\ Runs(w, g) /\ proc[w].pc = "mm.set" /\ g.pc = "mm.enqueue"
      /\ mm' = (IF Lite THEN mm ELSE Images) /\ row' = row /\ latest' = latest /\ queue' = queue
      /\ Duties(g) = {} /\ Duties(proc[w]) = {} /\ g.att = proc[w].att
      /\ Turn(g) \subseteq ImagesOf(g.att, 1..Images) /\ (ManyPosts => Turn(g) = {})
  BY CallersAreNoWorkers DEF SetsCounter, Runs, At
<1>2. proc[w].att = latest /\ Images > 0
  <2>1. proc[w] \in Frames
    BY <1>1 DEF TypeOK
  <2>2. proc[w].pc \notin AttemptlessPCs /\ proc[w].pc \in FollowerPCs
    BY <1>1 DEF AttemptlessPCs, FollowerPCs
  <2>3. proc[w].att \in {0, latest} /\ proc[w].att # 0
    BY <2>1, <2>2 DEF Frames, Sound, SafetyInv, Phases
  <2> QED
    BY <1>1, <2>1, <2>3 DEF Frames, Sound
<1>3. ~ManyPosts => Turn(proc[w]) = Driver /\ Driver \subseteq Claimed /\ Outstanding = {}
  <2>1. SUFFICES ASSUME ~ManyPosts PROVE Turn(proc[w]) = Driver /\ Driver \subseteq Claimed /\ Outstanding = {}
    OBVIOUS
  <2>2. Turn(proc[w]) = Driver
    BY <1>1, <2>1, TurnOf
  <2>3. Driver \subseteq Claimed
    BY <1>1, <2>2, ClaimedIs DEF Claims
  <2> QED
    BY <2>1, <2>2, <2>3 DEF SafetyInv, Counting, Driver
<1>4. Turn(g) \cap Claimed = {}
  <2>1. Outstanding = {} => New \cap Claimed = {}
    BY DEF Outstanding, ImagesOf
  <2> QED
    BY <1>1, <1>2, <1>3, <2>1
<1>5. Exclusive' /\ Claimed' \subseteq Claimed \cup Turn(g)
  <2>1. Claims(g) \subseteq Claims(proc[w]) \cup Turn(g)
    BY <1>1 DEF Claims
  <2> QED
    BY <1>1, <1>4, <2>1, ClaimsMove DEF SafetyInv
<1>6. Counting'
  <2>1. SUFFICES ASSUME ~ManyPosts PROVE Driver \cap Claimed' = {} /\ mm' >= Cardinality(Outstanding')
    BY DEF Counting, ManyPosts
  <2>2. Driver \cap Claims(g) = {}
    BY <1>1, KindsOfClaims DEF Claims
  <2>3. Driver \subseteq Claims(proc[w]) /\ Driver # {}
    BY <1>3, <2>1 DEF Claims, Driver
  <2>4. \A q \in Procs : q # w => Driver \cap Claims(proc[q]) = {}
    BY <1>1, <2>3 DEF SafetyInv, Exclusive
  <2>5. \A t \in BagToSet(queue) : Driver \cap TaskClaims(t) = {}
    BY <1>1, <2>3 DEF SafetyInv, Exclusive
  <2>6. Driver \cap Claimed' = {}
    <3>1. proc'[w] = g /\ \A q \in Procs : q # w => proc'[q] = proc[q]
      BY <1>1, OthersStay
    <3> QED
      BY <1>1, <2>2, <2>4, <2>5, <3>1, ClaimedIs
  <2>7. mm' = Images
    BY <1>1, <1>2, <2>1 DEF ManyPosts
  <2>8. Cardinality(Outstanding') <= Images /\ Cardinality(Outstanding') \in Nat
    <3>1. Outstanding' \subseteq 1..Images
      BY DEF Outstanding
    <3> QED
      BY <3>1, FiniteImages
  <2> QED
    BY <2>6, <2>7, <2>8, PipelineAssumption
<1>7. Shapes'
  BY <1>1, ShapesKept DEF SafetyInv
<1>8. Holds(g) = Holds(proc[w]) /\ Holds(g) = {} /\ HeldNow' = HeldNow
  <2>1. Holds(g) = Holds(proc[w]) /\ Holds(g) = {}
    BY <1>1 DEF Holds
  <2> QED
    BY <1>1, <2>1, HeldAfter
<1>9. Enriching'
  <2>1. SlotsOf(latest, Slots) \cap Claimed' \subseteq Claimed
    BY <1>1, <1>5 DEF SlotsOf, ImagesOf
  <2> QED
    BY <1>1, <1>8, <2>1, EnrichingKept DEF SafetyInv
<1>10. Phases'
  <2>1. proc[w].pc \in FollowerPCs /\ g.pc \notin SaverPCs
    BY <1>1 DEF SaverPCs, FollowerPCs
  <2>2. (Saving' => Saving) /\ (Following' => Following)
    BY <1>1, <2>1, SavingAfter DEF Saving, Following
  <2>3. g.pc \in SaverPCs \cup FollowerPCs => g.att \in {0, latest}
    BY <1>1, <1>2
  <2> QED
    BY <1>1, <2>2, <2>3, PhasesKept DEF SafetyInv
<1> QED
  BY <1>5, <1>6, <1>7, <1>9, <1>10 DEF SafetyInv

(* Every step of a worker keeps the invariant. *)
LEMMA WorkerIsSafe ==
  ASSUME TypeOK, Calm, SafetyInv, NEW w \in Workers, WorkerStep(w) PROVE SafetyInv'
<1>1. ~Requested(SweepPCs)
  BY NoSweep DEF SafetyInv
<1>2. PICK g \in Locals :
       \/ Moves(w, g)
       \/ \E t \in BagToSet(queue) : Takes(w, g, t)
       \/ \E t \in Tasks : PutsBack(w, g, t)
       \/ \E s \in {"processing", "failed"} : Saves(w, g, s)
       \/ PostFails(w, g) \/ HandsOver(w, g) \/ CompletesNow(w, g)
       \/ \E n \in Slots : Spawns(w, g, n) \/ GivesBack(w, g, n) \/ Promotes(w, g, n)
       \/ Counts(w, g) \/ SetsCounter(w, g)
  BY WorkerStepKind DEF WorkerKinds
<1>3. Moves(w, g) => SafetyInv'
  BY <1>1, ShiftIsSafe DEF Moves
<1>4. ASSUME NEW t \in BagToSet(queue), Takes(w, g, t) PROVE SafetyInv'
  BY <1>1, <1>4, TakeIsSafe
<1>5. ASSUME NEW t \in Tasks, PutsBack(w, g, t) PROVE SafetyInv'
  BY <1>1, <1>5, PutIsSafe DEF PutsBack
<1>6. ASSUME NEW s \in {"processing", "failed"}, Saves(w, g, s) PROVE SafetyInv'
  BY <1>1, <1>6, SaveIsSafe
<1>7. PostFails(w, g) \/ HandsOver(w, g) \/ CompletesNow(w, g) => SafetyInv'
  BY PostFailIsSafe, HandOverIsSafe, CompleteNowIsSafe
<1>8. ASSUME NEW n \in Slots, Spawns(w, g, n) \/ GivesBack(w, g, n) \/ Promotes(w, g, n)
      PROVE  SafetyInv'
  BY <1>1, <1>8, SpawnIsSafe, GiveBackIsSafe, PromoteIsSafe
<1>9. Counts(w, g) \/ SetsCounter(w, g) => SafetyInv'
  BY <1>1, CountIsSafe, SetCounterIsSafe
<1> QED
  BY <1>2, <1>3, <1>4, <1>5, <1>6, <1>7, <1>8, <1>9
----------------------------------------------------------------------------
(* The user's requests and the cron, one at a time. *)
LEMMA RequesterIs ==
  ASSUME TypeOK, Calm, NEW c \in Callers, NEW g, Becomes(c, g)
  PROVE  /\ c \in Procs /\ proc'[c] = g
         /\ \A w \in Workers : w # c /\ proc'[w] = proc[w]
         /\ \A q \in Procs : q # c => proc'[q] = proc[q]
         /\ \A d \in Callers : d = c
         /\ \A pcs : Requested(pcs) <=> proc[c].pc \in pcs
         /\ \A pcs : (\E d \in Callers : proc'[d].pc \in pcs) <=> g.pc \in pcs
<1>1. c \in Procs /\ \A w \in Workers : w # c /\ w \in Procs
  BY CallersAreNoWorkers DEF Procs
<1>2. proc'[c] = g /\ \A q \in Procs : q # c => proc'[q] = proc[q]
  BY <1>1, OthersStay
<1>3. \A d \in Callers : d = c
  BY DEF Calm
<1> QED
  BY <1>1, <1>2, <1>3 DEF Requested

(* A request claims at most the turn to drive the document. *)
LEMMA RequesterClaims ==
  ASSUME NEW f, Fits(f), f.pc \in ApiPCs \cup {"idle"}
  PROVE  /\ Duties(f) = {} /\ Holds(f) = {} /\ Claims(f) = Turn(f)
         /\ Turn(f) = IF f.pc \in ReparsePCs THEN Driver ELSE {}
<1>1. f.pc \notin GiverPCs \cup OwnerPCs \cup {"promote"} /\ f.pc \notin SaverPCs \cup FollowerPCs
  BY DEF GiverPCs, OwnerPCs, SummaryPCs, SavingPCs, ApiPCs, ReparsePCs, StopPCs, SweepPCs,
         SaverPCs, FollowerPCs, PosterPCs, ImagePCs, ReadingPCs
<1>2. Duties(f) = {} /\ Holds(f) = {}
  BY <1>1, NoDuties
<1>3. Turn(f) = IF f.pc \in ReparsePCs THEN Driver ELSE {}
  BY <1>1, TurnOf
<1> QED
  BY <1>2, <1>3 DEF Claims

(* A step of a request leaves every frame and task well formed. *)
LEMMA RequestShapes ==
  ASSUME TypeOK, Calm, Shapes, NEW c \in Callers, NEW g, Becomes(c, g), Fits(g),
         g.att <= latest', latest' \in {latest, latest + 1}, g.pc \in ApiPCs \cup {"idle"},
         \A t \in BagToSet(queue') : TaskFits(t) /\ t.att \in {0, latest'}
  PROVE  Shapes'
<1>1. /\ \A w \in Workers : w # c /\ proc'[w] = proc[w]
      /\ \A q \in Procs : q # c => proc'[q] = proc[q]
      /\ \A d \in Callers : d = c
      /\ proc'[c] = g
  BY RequesterIs
<1>2. latest <= latest' /\ latest \in Nat /\ latest' \in Nat
  BY PipelineAssumption DEF TypeOK, Attempts
<1>3. \A p \in Procs : Fits(proc'[p]) /\ proc'[p].att <= latest'
  <2>1. SUFFICES ASSUME NEW p \in Procs PROVE Fits(proc'[p]) /\ proc'[p].att <= latest'
    OBVIOUS
  <2>2. CASE p = c
    BY <1>1, <2>2
  <2>3. CASE p # c
    <3>1. proc'[p] = proc[p] /\ Fits(proc[p]) /\ proc[p].att <= latest
      BY <1>1, <2>3 DEF Shapes
    <3>2. proc[p].att \in Nat
      BY FramesAreLocals, PipelineAssumption DEF TypeOK, Locals
    <3> QED
      BY <1>2, <3>1, <3>2
  <2> QED
    BY <2>2, <2>3
<1>4. \A w \in Workers : proc'[w].pc \notin ApiPCs
  BY <1>1 DEF Shapes
<1>5. \A d \in Callers : proc'[d].pc \in ApiPCs \cup {"idle"}
  BY <1>1
<1> QED
  BY <1>3, <1>4, <1>5 DEF Shapes

(* The slots held after a step of a request. *)
LEMMA RequestHeld ==
  ASSUME TypeOK, Calm, NEW c \in Callers, NEW g, Becomes(c, g), latest' = latest
  PROVE  HeldNow' = {n \in Slots : \/ \E w \in Workers : <<"slot", latest, n>> \in Holds(proc[w])
                                   \/ \E t \in BagToSet(queue') : <<"slot", latest, n>> \in TaskClaims(t)}
<1>1. HeldNow' = {n \in Slots : \/ \E w \in Workers : <<"slot", latest, n>> \in Holds(proc'[w])
                                \/ \E t \in BagToSet(queue') : <<"slot", latest, n>> \in TaskClaims(t)}
  BY DEF HeldNow
<1> QED
  BY <1>1, RequesterIs

(* A step of a request that takes no turn and adds no task is safe when the  *)
(* row it leaves fits the work that is left, and the place it goes to.       *)
LEMMA RequestIsSafe ==
  ASSUME TypeOK, Calm, SafetyInv, NEW c \in Callers, NEW g, Becomes(c, g), Fits(g),
         g.pc \in ApiPCs \cup {"idle"}, g.att <= latest, latest' = latest, mm' = mm,
         BagToSet(queue') \subseteq BagToSet(queue),
         \A u \in BagToSet(queue') : queue'[u] = queue[u],
         g.pc \in ReparsePCs => proc[c].pc \in ReparsePCs /\ g.att = proc[c].att,
         Saving => Has(row', {"pending", "processing"}) /\ g.pc \notin StopPCs \cup SweepPCs,
         Following => ManyPosts \/ (Has(row', {"processing"}) /\ g.pc \notin StopPCs \cup SweepPCs),
         g.pc \in {"re.clean", "re.reset"} => Has(row', {"completed", "failed"}),
         g.pc \in {"re.zero", "re.enqueue", "re.failed"} => Has(row', {"pending"}),
         g.pc \in SweepPCs => queue' = EmptyBag /\ \A w \in Workers : At(w, "idle"),
         g.pc \in {"dequeue", "del.purge", "del.row"} => row'.gone \/ row'.status \in Aborted,
         g.pc = "ca.mark" => ~Summary /\ ~Has(row', {"deleting"}),
         Has(row', {"pending", "processing"}) /\ g.pc # "re.zero" => row'.count = 0,
         Has(row', {"pending", "processing"}) \/ g.pc \in {"re.clean", "re.reset"}
            => SlotsOf(latest, Slots) \cap Claimed = {},
         Has(row', {"finalizing"}) => row'.count = Cardinality(HeldNow) /\ queue' = queue,
         Has(row', {"completed"}) => HeldNow = {},
         Has(row', {"failed"}) /\ ~ManyPosts => HeldNow = {},
         Summary /\ HeldNow # {} => Has(row', {"finalizing"})
  PROVE  SafetyInv' /\ HeldNow' \subseteq HeldNow
<1>1. /\ c \in Procs /\ proc'[c] = g
      /\ \A w \in Workers : w # c /\ proc'[w] = proc[w]
      /\ \A pcs : Requested(pcs) <=> proc[c].pc \in pcs
      /\ \A pcs : (\E d \in Callers : proc'[d].pc \in pcs) <=> g.pc \in pcs
      /\ \A d \in Callers : d = c
  BY RequesterIs
<1>2. Claims(g) \subseteq Claims(proc[c])
  <2>1. Fits(proc[c]) /\ proc[c].pc \in ApiPCs \cup {"idle"}
    BY <1>1 DEF SafetyInv, Shapes
  <2>2. Claims(g) = Turn(g) /\ Claims(proc[c]) = Turn(proc[c])
    BY <2>1, RequesterClaims
  <2>3. Turn(g) \subseteq Turn(proc[c])
    BY <2>1, RequesterClaims
  <2> QED
    BY <2>2, <2>3
<1>3. Exclusive' /\ Claimed' \subseteq Claimed
  BY <1>1, <1>2, ClaimsDrop DEF SafetyInv
<1>4. Shapes'
  <2>1. \A t \in BagToSet(queue') : TaskFits(t) /\ t.att \in {0, latest'}
    BY DEF SafetyInv, Shapes
  <2> QED
    BY <2>1, RequestShapes DEF SafetyInv
<1>5. (Saving' => Saving) /\ (Following' => Following)
  BY <1>1 DEF Saving, Following
<1>6. HeldNow' \subseteq HeldNow /\ (queue' = queue => HeldNow' = HeldNow)
  BY RequestHeld DEF HeldNow
<1>7. Counting'
  <2>1. SUFFICES ASSUME ~ManyPosts, Outstanding' # {}
                 PROVE  Driver \cap Claimed' = {} /\ mm' >= Cardinality(Outstanding')
    BY DEF Counting, ManyPosts
  <2>2. Outstanding' \subseteq Outstanding /\ Outstanding \subseteq 1..Images /\ Outstanding' \subseteq 1..Images
    BY <1>3 DEF Outstanding
  <2>3. Driver \cap Claimed = {} /\ mm >= Cardinality(Outstanding)
    BY <2>1, <2>2 DEF SafetyInv, Counting
  <2>4. Cardinality(Outstanding') <= Cardinality(Outstanding)
    BY <2>2, FiniteImages, FS_Subset
  <2>5. Cardinality(Outstanding) \in Nat /\ Cardinality(Outstanding') \in Nat /\ mm \in Int
    BY <2>2, FiniteImages DEF TypeOK
  <2> QED
    BY <1>3, <2>3, <2>4, <2>5
<1>8. Enriching'
  <2>1. \A w \in Workers : Holds(proc'[w]) \subseteq SlotsOf(latest, Slots)
    BY <1>1 DEF SafetyInv, Enriching
  <2>2. Has(row', {"pending", "processing"}) \/ (\E d \in Callers : proc'[d].pc \in {"re.clean", "re.reset"})
          => SlotsOf(latest, Slots) \cap Claimed' = {}
    BY <1>1, <1>3
  <2>3. Has(row', {"finalizing"}) => row'.count = Cardinality(HeldNow')
    BY <1>6
  <2>4. Has(row', {"completed"}) => HeldNow' = {}
    BY <1>6
  <2>5. Has(row', {"failed"}) /\ ~ManyPosts => HeldNow' = {}
    BY <1>6
  <2>6. Summary /\ HeldNow' # {} => Has(row', {"finalizing"})
    BY <1>6
  <2> QED
    BY <2>1, <2>2, <2>3, <2>4, <2>5, <2>6 DEF Enriching, Requested, ManyPosts
<1>9. Phases'
  <2>1. Saving' => Has(row', {"pending", "processing"}) /\ ~Following'
    BY <1>5 DEF SafetyInv, Phases
  <2>2. Following' /\ ~ManyPosts => Has(row', {"processing"})
    BY <1>5
  <2>3. g.pc \in ReparsePCs => ~Following'
    BY <1>1, <1>5 DEF SafetyInv, Phases
  <2>4. g.pc \in StopPCs \cup SweepPCs => ~Saving' /\ (Following' => ManyPosts)
    BY <1>5
  <2>5. g.pc \in SweepPCs => queue' = EmptyBag /\ \A w \in Workers : proc'[w].pc = "idle"
    BY <1>1 DEF At
  <2>6. \A w \in Workers : proc'[w].pc \in SaverPCs \cup FollowerPCs => proc'[w].att \in {0, latest}
    BY <1>1 DEF SafetyInv, Phases
  <2>7. \A d \in Callers : proc'[d].pc \in ReparsePCs => proc'[d].att = latest
    BY <1>1 DEF SafetyInv, Phases
  <2> QED
    BY <1>1, <2>1, <2>2, <2>3, <2>4, <2>5, <2>6, <2>7 DEF Phases, Requested, ManyPosts, At
<1> QED
  BY <1>3, <1>4, <1>6, <1>7, <1>8, <1>9 DEF SafetyInv

(* What a request does to the document, by where it is. *)
LEMMA RequestGoes ==
  ASSUME TypeOK, Shapes, NEW c \in Callers, NEW pc \in ApiPCs,
         proc[c].pc \in ApiPCs, Goto(c, pc)
  PROVE  \E g \in Locals : Becomes(c, g) /\ Fits(g) /\ g.pc = pc /\ g.att = proc[c].att
                           /\ g.att <= latest
<1> USE DEF ApiPCs, ReparsePCs, StopPCs, SweepPCs
<1>1. c \in Procs /\ pc \in PCs
  BY DEF Procs, PCs
<1>2. PICK g \in Locals :
            /\ Becomes(c, g) /\ g.pc = pc /\ g.job = proc[c].job /\ g.att = proc[c].att
            /\ g.seen = proc[c].seen /\ g.todo = proc[c].todo /\ g.short = proc[c].short
  BY <1>1, AfterGoto
<1>3. Fits(proc[c]) /\ proc[c].att <= latest
  BY <1>1 DEF Shapes
<1>4. pc \notin GiverPCs \cup PosterPCs \cup OwnerPCs \cup {"promote"} \cup ParsingPCs \cup ImagePCs \cup SummaryPCs
      /\ pc \notin SavingPCs
      /\ proc[c].pc \notin GiverPCs \cup PosterPCs
  BY DEF GiverPCs, PosterPCs, OwnerPCs, SummaryPCs, SavingPCs, ParsingPCs, SaverPCs, ImagePCs, ReadingPCs
<1>5. Fits(g)
  BY <1>2, <1>3, <1>4 DEF Fits, GiverPCs
<1> QED
  BY <1>2, <1>3, <1>5

(* A request starts with a frame of its own. *)
LEMMA RequestBegins ==
  ASSUME TypeOK, NEW c \in Callers, NEW kind \in {"reparse", "cancel", "delete", "sweep"},
         NEW a \in Nat, NEW pc \in ApiPCs, Request(c, kind, a, pc)
  PROVE  \E g : Becomes(c, g) /\ Fits(g) /\ g.pc = pc /\ g.att = a
<1> USE DEF ApiPCs, ReparsePCs, StopPCs, SweepPCs
<1> DEFINE g == [Idle EXCEPT !.pc = pc, !.job = Task(kind, a, 0), !.att = a, !.seen = row.status]
<1>1. /\ g.pc = pc /\ g.att = a /\ g.job.kind = kind /\ g.job.att = a /\ g.short = {}
  BY DEF Idle, Task
<1>2. Becomes(c, g)
  BY DEF Request, Becomes
<1>3. pc \notin GiverPCs \cup PosterPCs \cup OwnerPCs \cup {"promote"} \cup ParsingPCs \cup ImagePCs \cup SummaryPCs
      /\ pc \notin SavingPCs
  BY DEF GiverPCs, PosterPCs, OwnerPCs, SummaryPCs, SavingPCs, ParsingPCs, SaverPCs, ImagePCs, ReadingPCs
<1> HIDE DEF g
<1>4. Fits(g)
  BY <1>1, <1>3 DEF Fits
<1> QED
  BY <1>1, <1>2, <1>4

(* A request that ends claims nothing. *)
LEMMA RequestEnds ==
  ASSUME TypeOK, NEW c \in Callers, Leave(c)
  PROVE  Becomes(c, Idle) /\ Fits(Idle) /\ Idle.pc = "idle" /\ Idle.att <= latest
<1>1. latest >= 0
  BY DEF TypeOK, Attempts
<1> QED
  BY <1>1, IdleFits DEF Leave, Becomes

(* A request that has begun, and what it excludes. *)
LEMMA Reparses ==
  ASSUME TypeOK, Calm, SafetyInv, NEW c \in Callers, proc[c].pc \in ReparsePCs
  PROVE  /\ ~Saving /\ ~Following /\ proc[c].att = latest
         /\ proc[c].pc \in {"re.clean", "re.reset"} => Has(row, {"completed", "failed"})
         /\ proc[c].pc \in {"re.zero", "re.enqueue", "re.failed"} => Has(row, {"pending"})
         /\ proc[c].pc \in {"re.enqueue", "re.failed"} => row.count = 0
         /\ SlotsOf(latest, Slots) \cap Claimed = {} /\ HeldNow = {}
<1>1. Requested(ReparsePCs) /\ proc[c].att = latest /\ ~Following /\ c \in Procs
  BY DEF Requested, SafetyInv, Phases, Procs
<1>2. ~Saving
  <2>1. Claims(proc[c]) = Driver /\ Driver # {}
    <3>1. Fits(proc[c]) /\ proc[c].pc \in ApiPCs \cup {"idle"}
      BY <1>1 DEF SafetyInv, Shapes
    <3> QED
      BY <3>1, RequesterClaims DEF Driver
  <2>2. \A w \in Workers : proc[w].pc \notin SaverPCs
    <3>1. SUFFICES ASSUME NEW w \in Workers, proc[w].pc \in SaverPCs PROVE FALSE
      OBVIOUS
    <3>2. Driver \subseteq Claims(proc[w])
      BY <3>1, TurnOf DEF Claims
    <3> QED
      BY <1>1, <2>1, <3>2, CallersAreNoWorkers DEF SafetyInv, Exclusive
  <2>3. \A t \in BagToSet(queue) : t.kind # "process"
    BY <1>1, <2>1 DEF SafetyInv, Exclusive, TaskClaims, Enrichment
  <2> QED
    BY <2>2, <2>3 DEF Saving
<1>3. /\ proc[c].pc \in {"re.clean", "re.reset"} => Has(row, {"completed", "failed"})
      /\ proc[c].pc \in {"re.zero", "re.enqueue", "re.failed"} => Has(row, {"pending"})
  BY DEF Requested, SafetyInv, Phases
<1>4. proc[c].pc \in {"re.enqueue", "re.failed"} => row.count = 0
  <2>1. SUFFICES ASSUME proc[c].pc \in {"re.enqueue", "re.failed"} PROVE row.count = 0
    OBVIOUS
  <2>2. ~Requested({"re.zero"})
    BY <2>1 DEF Requested, Calm
  <2> QED
    BY <1>3, <2>1, <2>2 DEF SafetyInv, Phases, Has
<1>5. SlotsOf(latest, Slots) \cap Claimed = {}
  <2>1. proc[c].pc \in {"re.clean", "re.reset"} => Requested({"re.clean", "re.reset"})
    BY DEF Requested
  <2>2. proc[c].pc \in {"re.zero", "re.enqueue", "re.failed"} => Has(row, {"pending", "processing"})
    BY <1>3 DEF Has
  <2> QED
    BY <2>1, <2>2 DEF ReparsePCs, SafetyInv, Enriching
<1> QED
  BY <1>1, <1>2, <1>3, <1>4, <1>5, HeldAreClaimed

(* What a request that stops the document may count on. *)
LEMMA Stops ==
  ASSUME SafetyInv, NEW c \in Callers, proc[c].pc \in StopPCs \cup SweepPCs
  PROVE  /\ ~Saving /\ (Following => ManyPosts)
         /\ proc[c].pc \in {"dequeue", "del.purge", "del.row"} => row.gone \/ row.status \in Aborted
         /\ proc[c].pc = "ca.mark" => ~Summary /\ ~Has(row, {"deleting"})
         /\ proc[c].pc \in SweepPCs => queue = EmptyBag /\ \A w \in Workers : At(w, "idle")
<1>1. Requested(StopPCs \cup SweepPCs)
  BY DEF Requested
<1>2. /\ proc[c].pc \in {"dequeue", "del.purge", "del.row"} => Requested({"dequeue", "del.purge", "del.row"})
      /\ proc[c].pc = "ca.mark" => Requested({"ca.mark"})
      /\ proc[c].pc \in SweepPCs => Requested(SweepPCs)
  BY DEF Requested
<1> QED
  BY <1>1, <1>2 DEF SafetyInv, Phases

(* Which places of a request are not of a kind. *)
LEMMA PlacesOfRequests ==
  /\ \A pc \in ReparsePCs : pc \in ApiPCs /\ pc \notin StopPCs \cup SweepPCs
  /\ \A pc \in StopPCs : pc \in ApiPCs /\ pc \notin ReparsePCs \cup SweepPCs
  /\ \A pc \in SweepPCs : pc \in ApiPCs /\ pc \notin ReparsePCs \cup StopPCs
  /\ "idle" \notin ApiPCs \cup ReparsePCs \cup StopPCs \cup SweepPCs
  BY DEF ApiPCs, ReparsePCs, StopPCs, SweepPCs

(* A reparse past its first statement has the document to itself. *)
LEMMA ReparseGoesSafely ==
  ASSUME TypeOK, Calm, SafetyInv, NEW c \in Callers,
         \/ ReparseClean(c) \/ ReparseReset(c) \/ ReparseZero(c) \/ ReparseFailed(c)
         \/ ReparseEnqueue(c) /\ ~Leave(c)
  PROVE  SafetyInv' /\ HeldNow' \subseteq HeldNow
<1> USE DEF ReparsePCs, At
<1>0. "db" \notin Faults /\ \A pc \in ReparsePCs : pc \in ApiPCs /\ pc \notin StopPCs \cup SweepPCs
  BY CalmSteps, PlacesOfRequests
<1>1. proc[c].pc \in ReparsePCs
  BY DEF ReparseClean, ReparseReset, ReparseZero, ReparseFailed, ReparseEnqueue
<1>2. /\ ~Saving /\ ~Following /\ proc[c].att = latest
      /\ proc[c].pc \in {"re.clean", "re.reset"} => Has(row, {"completed", "failed"})
      /\ proc[c].pc \in {"re.zero", "re.enqueue", "re.failed"} => Has(row, {"pending"})
      /\ proc[c].pc \in {"re.enqueue", "re.failed"} => row.count = 0
      /\ SlotsOf(latest, Slots) \cap Claimed = {} /\ HeldNow = {}
  BY <1>1, Reparses
<1>3. latest' = latest /\ mm' = mm /\ queue' = queue
  BY <1>0 DEF ReparseClean, ReparseReset, ReparseZero, ReparseFailed, ReparseEnqueue,
     StoredOnly, RowOnly, QueueOnly
<1>4. \A pc \in ReparsePCs : Goto(c, pc) =>
        \E g : Becomes(c, g) /\ Fits(g) /\ g.pc = pc /\ g.att = latest /\ g.att <= latest
  BY <1>0, <1>1, <1>2, RequestGoes DEF SafetyInv
<1>5. BagToSet(queue') \subseteq BagToSet(queue) /\ \A u \in BagToSet(queue') : queue'[u] = queue[u]
  BY <1>3
<1>6. CASE ReparseClean(c)
  <2>1. Goto(c, "re.reset") /\ row' = row /\ proc[c].pc = "re.clean"
    BY <1>0, <1>6 DEF ReparseClean, StoredOnly
  <2>2. PICK g : Becomes(c, g) /\ Fits(g) /\ g.pc = "re.reset" /\ g.att = latest /\ g.att <= latest
    BY <1>4, <2>1
  <2>3. Has(row', {"completed", "failed"})
    BY <1>2, <2>1
  <2> HIDE DEF ReparsePCs
  <2>4. "re.reset" \in ReparsePCs
    BY DEF ReparsePCs
  <2> QED
    BY <1>0, <1>1, <1>2, <1>3, <1>5, <2>2, <2>3, <2>4, RequestIsSafe DEF Has
<1>7. CASE ReparseReset(c)
  <2>1. Goto(c, "re.zero") /\ row' = Saved(row, "pending") /\ proc[c].pc = "re.reset"
    BY <1>0, <1>7 DEF ReparseReset
  <2>2. PICK g : Becomes(c, g) /\ Fits(g) /\ g.pc = "re.zero" /\ g.att = latest /\ g.att <= latest
    BY <1>4, <2>1
  <2>3. Has(row', {"pending"}) /\ row'.status = "pending"
    BY <1>2, <2>1 DEF Has, Saved, TypeOK, Rows
  <2> HIDE DEF ReparsePCs
  <2>4. "re.zero" \in ReparsePCs
    BY DEF ReparsePCs
  <2> QED
    BY <1>0, <1>1, <1>2, <1>3, <1>5, <2>2, <2>3, <2>4, RequestIsSafe DEF Has
<1>8. CASE ReparseZero(c)
  <2>1. Goto(c, "re.enqueue") /\ row' = ZeroCount(row) /\ proc[c].pc = "re.zero"
    BY <1>0, <1>8 DEF ReparseZero
  <2>2. PICK g : Becomes(c, g) /\ Fits(g) /\ g.pc = "re.enqueue" /\ g.att = latest /\ g.att <= latest
    BY <1>4, <2>1
  <2>3. Has(row', {"pending"}) /\ row'.status = "pending" /\ row'.count = 0
    BY <1>2, <2>1 DEF Has, ZeroCount, TypeOK, Rows
  <2> HIDE DEF ReparsePCs
  <2>4. "re.enqueue" \in ReparsePCs
    BY DEF ReparsePCs
  <2> QED
    BY <1>0, <1>1, <1>2, <1>3, <1>5, <2>2, <2>3, <2>4, RequestIsSafe DEF Has
<1>9. CASE ReparseEnqueue(c) /\ ~Leave(c)
  <2>1. Goto(c, "re.failed") /\ row' = row /\ proc[c].pc = "re.enqueue"
    BY <1>9 DEF ReparseEnqueue, QueueOnly
  <2>2. PICK g : Becomes(c, g) /\ Fits(g) /\ g.pc = "re.failed" /\ g.att = latest /\ g.att <= latest
    BY <1>4, <2>1
  <2>3. Has(row', {"pending"}) /\ row'.status = "pending" /\ row'.count = 0
    BY <1>2, <2>1 DEF Has
  <2> HIDE DEF ReparsePCs
  <2>4. "re.failed" \in ReparsePCs
    BY DEF ReparsePCs
  <2> QED
    BY <1>0, <1>1, <1>2, <1>3, <1>5, <2>2, <2>3, <2>4, RequestIsSafe DEF Has
<1>10. CASE ReparseFailed(c)
  <2>1. Leave(c) /\ row' = Saved(row, "failed") /\ proc[c].pc = "re.failed"
    BY <1>10, CalmSteps DEF ReparseFailed
  <2>2. Becomes(c, Idle) /\ Fits(Idle) /\ Idle.pc = "idle" /\ Idle.att <= latest
    BY <2>1, RequestEnds
  <2>3. row'.status = "failed"
    BY <1>2, <2>1 DEF Has, Saved, TypeOK, Rows
  <2>4. "idle" \notin ApiPCs \cup ReparsePCs \cup StopPCs \cup SweepPCs
    BY PlacesOfRequests
  <2> HIDE DEF ReparsePCs
  <2> QED
    BY <1>0, <1>1, <1>2, <1>3, <1>5, <2>2, <2>3, <2>4, RequestIsSafe DEF Has
<1> QED
  BY <1>6, <1>7, <1>8, <1>9, <1>10

(* The process task of the new attempt has the turn the request had. *)
LEMMA ReparseEnqueueIsSafe ==
  ASSUME TypeOK, Calm, SafetyInv, NEW c \in Callers, ReparseEnqueue(c), Leave(c)
  PROVE  SafetyInv' /\ HeldNow' = HeldNow
<1> DEFINE t == Task("process", Att(c), 0)
<1>1. proc[c].pc = "re.enqueue" /\ proc[c].pc \in ReparsePCs /\ UNCHANGED <<row, latest, mm>>
  BY DEF ReparseEnqueue, ReparsePCs, At, QueueOnly
<1>2. Becomes(c, Idle) /\ Fits(Idle) /\ Idle.pc = "idle" /\ Idle.att <= latest /\ Claims(Idle) = {}
  BY RequestEnds, IdleFits
<1>3. /\ c \in Procs /\ proc'[c] = Idle
      /\ \A w \in Workers : w # c /\ proc'[w] = proc[w]
      /\ \A pcs : Requested(pcs) <=> proc[c].pc \in pcs
      /\ \A pcs : (\E d \in Callers : proc'[d].pc \in pcs) <=> Idle.pc \in pcs
      /\ \A d \in Callers : d = c
  BY <1>2, RequesterIs
<1>4. /\ ~Saving /\ ~Following /\ Has(row, {"pending"}) /\ row.count = 0 /\ proc[c].att = latest
      /\ SlotsOf(latest, Slots) \cap Claimed = {} /\ HeldNow = {}
  BY <1>1, Reparses
<1>5. CASE queue' = queue
  <2>1. Goto(c, "re.failed")
    <3>1. CASE Add(t)
      <4>1. BagToSet(queue') = BagToSet(queue) \cup {t} /\ t.kind = "process"
        BY <3>1, PutQueue DEF Task
      <4> QED
        BY <1>4, <1>5, <4>1 DEF Saving
    <3> QED
      BY <3>1 DEF ReparseEnqueue
  <2>2. proc'[c].pc = "re.failed"
    <3>1. PICK g : Becomes(c, g) /\ Fits(g) /\ g.pc = "re.failed"
      BY <1>1, <2>1, RequestGoes, PlacesOfRequests DEF SafetyInv, ReparsePCs
    <3> QED
      BY <1>3, <3>1, OthersStay
  <2> QED
    BY <1>2, <1>3, <2>2
<1>6. CASE queue' # queue
  <2>1. Add(t)
    BY <1>6 DEF ReparseEnqueue
  <2>2. /\ t.kind = "process" /\ t.att = latest /\ TaskFits(t) /\ TaskClaims(t) = Driver
        /\ t.kind \notin Enrichment
    BY <1>4 DEF Task, TaskFits, TaskClaims, Enrichment, Att
  <2>3. Claims(proc[c]) = Driver
    <3>1. Fits(proc[c]) /\ proc[c].pc \in ApiPCs \cup {"idle"}
      BY <1>3 DEF SafetyInv, Shapes
    <3> QED
      BY <1>1, <3>1, RequesterClaims
  <2>4. Exclusive' /\ Claimed' \subseteq Claimed
    BY <1>2, <1>3, <2>1, <2>2, <2>3, ClaimsPut DEF SafetyInv
  <2>5. BagToSet(queue') = BagToSet(queue) \cup {t}
    BY <2>1, PutQueue
  <2> HIDE DEF t
  <2>6. Shapes'
    <3>1. \A u \in BagToSet(queue') : TaskFits(u) /\ u.att \in {0, latest'}
      BY <1>1, <2>2, <2>5 DEF SafetyInv, Shapes
    <3> QED
      BY <1>1, <1>2, <3>1, RequestShapes DEF SafetyInv
  <2>7. HeldNow' = HeldNow
    <3>1. \A n : <<"slot", latest, n>> \notin TaskClaims(t)
      BY <2>2 DEF Driver
    <3>2. HeldNow' = {n \in Slots : \/ \E w \in Workers : <<"slot", latest, n>> \in Holds(proc[w])
                                   \/ \E u \in BagToSet(queue') : <<"slot", latest, n>> \in TaskClaims(u)}
      BY <1>1, <1>2, RequestHeld
    <3> QED
      BY <2>5, <3>1, <3>2 DEF HeldNow
  <2>8. Counting'
    <3>1. Driver \subseteq Claimed /\ Driver # {}
      BY <1>3, <2>3, ClaimedIs DEF Driver
    <3>2. ~ManyPosts => Outstanding = {}
      BY <3>1 DEF SafetyInv, Counting
    <3>3. Outstanding' \subseteq Outstanding
      BY <1>1, <2>4 DEF Outstanding
    <3> QED
      BY <3>2, <3>3 DEF Counting, ManyPosts
  <2>9. Enriching'
    <3>1. \A w \in Workers : Holds(proc'[w]) \subseteq SlotsOf(latest, Slots)
      BY <1>3 DEF SafetyInv, Enriching
    <3>2. SlotsOf(latest, Slots) \cap Claimed' = {} /\ HeldNow' = {}
      BY <1>4, <2>4, <2>7
    <3>3. row'.status = "pending"
      BY <1>1, <1>4 DEF Has
    <3> QED
      BY <1>1, <3>1, <3>2, <3>3 DEF Enriching, Has
  <2>10. Phases'
    <3>1. "idle" \notin ApiPCs \cup ReparsePCs \cup StopPCs \cup SweepPCs
      BY PlacesOfRequests
    <3>2. ~ (\E d \in Callers : proc'[d].pc \in ApiPCs \cup ReparsePCs \cup StopPCs \cup SweepPCs)
      BY <1>2, <1>3, <3>1
    <3>3. \A pcs \in {{"re.clean", "re.reset"}, {"re.zero", "re.enqueue", "re.failed"}, {"re.zero"},
                      {"dequeue", "del.purge", "del.row"}, {"ca.mark"}} :
             ~ (\E d \in Callers : proc'[d].pc \in pcs)
      BY <1>2, <1>3
    <3>4. ~Following'
      BY <1>3, <1>4, <2>2, <2>5 DEF Following
    <3>5. \A w \in Workers : proc'[w].pc \in SaverPCs \cup FollowerPCs => proc'[w].att \in {0, latest}
      BY <1>3 DEF SafetyInv, Phases
    <3>6. Has(row', {"pending", "processing"}) /\ row'.count = 0
      BY <1>1, <1>4 DEF Has
    <3>7. Saving' => Has(row', {"pending", "processing"}) /\ ~Following'
      BY <3>4, <3>6
    <3> QED
      BY <1>1, <3>2, <3>3, <3>4, <3>5, <3>6, <3>7 DEF Phases, Requested
  <2> QED
    BY <2>4, <2>6, <2>7, <2>8, <2>9, <2>10 DEF SafetyInv
<1> QED
  BY <1>5, <1>6

(* CancelKnowledgeParse is safe. *)
LEMMA CancelIsSafe ==
  ASSUME TypeOK, Calm, SafetyInv, NEW c \in Callers, CancelRead(c) \/ CancelMark(c)
  PROVE  SafetyInv' /\ HeldNow' \subseteq HeldNow
<1>0. "db" \notin Faults /\ \A pc \in StopPCs : pc \in ApiPCs /\ pc \notin ReparsePCs \cup SweepPCs
  BY CalmSteps, PlacesOfRequests
<1>1. {"ca.mark", "dequeue"} \subseteq StopPCs
  BY DEF StopPCs
<1>2. latest' = latest /\ mm' = mm /\ queue' = queue
  BY <1>0 DEF CancelRead, CancelMark, RowOnly
<1>3. BagToSet(queue') \subseteq BagToSet(queue) /\ \A u \in BagToSet(queue') : queue'[u] = queue[u]
  BY <1>2
<1>4. CASE CancelRead(c)
  <2>1. row' = row /\ Has(row, {"finalizing", "cancelled"}) /\ (Summary => row.status = "cancelled")
    BY <1>4 DEF CancelRead, Calm, Has, Active
  <2>2. PICK pc \in {"ca.mark", "dequeue"} :
          Request(c, "cancel", 0, pc) /\ pc = (IF row.status = "cancelled" THEN "dequeue" ELSE "ca.mark")
    BY <1>4 DEF CancelRead
  <2>3. PICK g : Becomes(c, g) /\ Fits(g) /\ g.pc = pc /\ g.att = 0
    BY <1>0, <1>1, <2>2, RequestBegins
  <2>4. 0 <= latest
    BY DEF TypeOK, Attempts
  <2>5. ~Saving /\ (Following => ManyPosts)
    BY <2>1 DEF SafetyInv, Phases, Has
  <2>6. pc = "dequeue" => row.status \in Aborted
    BY <2>2 DEF Aborted
  <2>7. Summary /\ HeldNow # {} => Has(row, {"finalizing"})
    BY DEF SafetyInv, Enriching
  <2>8. Has(row, {"finalizing"}) => row.count = Cardinality(HeldNow)
    BY DEF SafetyInv, Enriching
  <2>9. g.pc \in ApiPCs \cup {"idle"} /\ g.pc \notin ReparsePCs \cup SweepPCs /\ g.att <= latest
        /\ g.pc \in {"ca.mark", "dequeue"}
    BY <1>0, <1>1, <2>2, <2>3, <2>4
  <2>10. (g.pc = "ca.mark" => ~Summary /\ ~Has(row, {"deleting"})) /\ (g.pc \in {"dequeue", "del.purge", "del.row"} => row.status \in Aborted)
    BY <2>1, <2>2, <2>3, <2>6 DEF Has
  <2> QED
    BY <1>2, <1>3, <2>1, <2>3, <2>5, <2>7, <2>8, <2>9, <2>10, RequestIsSafe DEF Has
<1>5. CASE CancelMark(c)
  <2>1. proc[c].pc = "ca.mark" /\ Goto(c, "dequeue") /\ row' = CancelledByUser(row)
    BY <1>0, <1>5 DEF CancelMark, At
  <2>2. ~Saving /\ (Following => ManyPosts) /\ ~Summary
    BY <1>1, <2>1, Stops
  <2>3. PICK g : Becomes(c, g) /\ Fits(g) /\ g.pc = "dequeue" /\ g.att <= latest
    BY <1>0, <1>1, <2>1, RequestGoes DEF SafetyInv
  <2>4. row'.gone \/ row'.status = "cancelled"
    BY <2>1 DEF CancelledByUser, TypeOK, Rows
  <2>5. g.pc \in ApiPCs \cup {"idle"} /\ g.pc \notin ReparsePCs \cup SweepPCs /\ g.pc = "dequeue"
    BY <1>0, <1>1, <2>3
  <2>6. row'.gone \/ row'.status \in Aborted
    BY <2>4 DEF Aborted
  <2> QED
    BY <1>2, <1>3, <2>2, <2>3, <2>4, <2>5, <2>6, RequestIsSafe DEF Has
<1> QED
  BY <1>4, <1>5

(* dequeueKnowledgeTasks is safe: nobody counts on a stopped document. *)
LEMMA DequeueIsSafe ==
  ASSUME TypeOK, Calm, SafetyInv, NEW c \in Callers, Dequeue(c)
  PROVE  SafetyInv' /\ HeldNow' \subseteq HeldNow
<1>0. \A pc \in StopPCs : pc \in ApiPCs /\ pc \notin ReparsePCs \cup SweepPCs
  BY PlacesOfRequests
<1>1. {"dequeue", "del.purge"} \subseteq StopPCs /\ "idle" \notin ApiPCs \cup ReparsePCs \cup StopPCs \cup SweepPCs
  BY PlacesOfRequests DEF StopPCs
<1>2. proc[c].pc = "dequeue" /\ row' = row /\ latest' = latest /\ mm' = mm
  BY DEF Dequeue, At, QueueOnly
<1>3. BagToSet(queue') \subseteq BagToSet(queue) /\ \A u \in BagToSet(queue') : queue'[u] = queue[u]
  <2>1. CASE queue' = queue
    BY <2>1
  <2>2. ASSUME NEW kept \in SUBSET BagToSet(queue), queue' = [t \in kept |-> queue[t]]
        PROVE  BagToSet(queue') \subseteq BagToSet(queue) /\ \A u \in BagToSet(queue') : queue'[u] = queue[u]
    BY <2>2 DEF BagToSet
  <2> QED
    BY <2>1, <2>2 DEF Dequeue
<1>4. ~Saving /\ (Following => ManyPosts) /\ (row.gone \/ row.status \in Aborted)
  BY <1>1, <1>2, Stops
<1>5. PICK g : Becomes(c, g) /\ Fits(g) /\ g.pc \in {"del.purge", "idle"} /\ g.att <= latest
  <2>1. CASE Goto(c, "del.purge")
    BY <1>0, <1>1, <1>2, <2>1, RequestGoes DEF SafetyInv
  <2>2. CASE Leave(c)
    BY <2>2, RequestEnds
  <2> QED
    BY <2>1, <2>2 DEF Dequeue
<1>6. ~Has(row, {"pending", "processing"}) /\ ~Has(row, {"finalizing"}) /\ ~Has(row, {"completed"})
      /\ ~Has(row, {"failed"})
  BY <1>4 DEF Has, Aborted
<1>7. ~ (Summary /\ HeldNow # {})
  BY <1>6 DEF SafetyInv, Enriching
<1>8. g.pc \in ApiPCs \cup {"idle"} /\ g.pc \notin ReparsePCs \cup SweepPCs
  BY <1>0, <1>1, <1>5
<1> QED
  BY <1>2, <1>3, <1>4, <1>5, <1>6, <1>7, <1>8, RequestIsSafe

(* executeKnowledgeDelete is safe. *)
LEMMA DeleteIsSafe ==
  ASSUME TypeOK, Calm, SafetyInv, NEW c \in Callers, DeleteMark(c) \/ DeletePurge(c) \/ DeleteRow(c)
  PROVE  SafetyInv' /\ HeldNow' \subseteq HeldNow
<1>0. "db" \notin Faults /\ \A pc \in StopPCs : pc \in ApiPCs /\ pc \notin ReparsePCs \cup SweepPCs
  BY CalmSteps, PlacesOfRequests
<1>1. {"dequeue", "del.purge", "del.row"} \subseteq StopPCs
      /\ "idle" \notin ApiPCs \cup ReparsePCs \cup StopPCs \cup SweepPCs
  BY PlacesOfRequests DEF StopPCs
<1>2. latest' = latest /\ mm' = mm /\ queue' = queue
  BY <1>0 DEF DeleteMark, DeletePurge, DeleteRow, RowOnly, StoredOnly
<1>3. BagToSet(queue') \subseteq BagToSet(queue) /\ \A u \in BagToSet(queue') : queue'[u] = queue[u]
  BY <1>2
<1>4. PICK g : /\ Becomes(c, g) /\ Fits(g) /\ g.pc \in {"dequeue", "del.purge", "del.row", "idle"}
               /\ g.att <= latest
  <2>1. CASE DeleteMark(c)
    <3>1. PICK pc \in {"dequeue", "del.purge"} : Request(c, "delete", 0, pc)
      BY <2>1 DEF DeleteMark
    <3>2. PICK g : Becomes(c, g) /\ Fits(g) /\ g.pc = pc /\ g.att = 0
      BY <1>0, <1>1, <3>1, RequestBegins
    <3>3. 0 <= latest
      BY DEF TypeOK, Attempts
    <3> QED
      BY <3>2, <3>3
  <2>2. CASE DeletePurge(c)
    <3>1. Goto(c, "del.row") /\ proc[c].pc = "del.purge"
      BY <1>0, <2>2 DEF DeletePurge, At
    <3> QED
      BY <1>0, <1>1, <3>1, RequestGoes DEF SafetyInv
  <2>3. CASE DeleteRow(c)
    BY <2>3, RequestEnds DEF DeleteRow
  <2> QED
    BY <2>1, <2>2, <2>3
<1>5. /\ ~Saving /\ (Following => ManyPosts) /\ ~ (Summary /\ HeldNow # {})
      /\ row'.gone \/ row'.status \in Aborted
  <2>1. CASE DeleteMark(c)
    <3>1. /\ row' = MarkedDeleting(row) /\ Has(row, DeleteFrom)
          /\ ~Has(row, {"pending", "processing"}) /\ (Summary => ~Has(row, {"finalizing"}))
      BY <2>1 DEF DeleteMark, Calm, Has
    <3>2. row'.status \in Aborted
      BY <3>1 DEF MarkedDeleting, Has, TypeOK, Rows, Aborted
    <3> QED
      BY <3>1, <3>2 DEF SafetyInv, Phases, Enriching, Has
  <2>2. CASE DeletePurge(c) \/ DeleteRow(c)
    <3>1. proc[c].pc \in {"del.purge", "del.row"}
      BY <2>2 DEF DeletePurge, DeleteRow, At
    <3>2. ~Saving /\ (Following => ManyPosts) /\ (row.gone \/ row.status \in Aborted)
      BY <1>1, <3>1, Stops
    <3>3. ~ (Summary /\ HeldNow # {})
      BY <3>2 DEF SafetyInv, Enriching, Has, Aborted
    <3>4. row' = row \/ row' = Removed(row)
      BY <2>2 DEF DeletePurge, DeleteRow, StoredOnly
    <3>5. row'.gone \/ row'.status \in Aborted
      BY <3>2, <3>4 DEF Removed, TypeOK, Rows
    <3> QED
      BY <3>2, <3>3, <3>5
  <2> QED
    BY <2>1, <2>2
<1>6. ~Has(row', {"pending", "processing"}) /\ ~Has(row', {"finalizing"}) /\ ~Has(row', {"completed"})
      /\ ~Has(row', {"failed"})
  BY <1>5 DEF Has, Aborted
<1>7. g.pc \in ApiPCs \cup {"idle"} /\ g.pc \notin ReparsePCs \cup SweepPCs
  BY <1>0, <1>1, <1>4
<1> QED
  BY <1>2, <1>3, <1>4, <1>5, <1>6, <1>7, RequestIsSafe

(* A sweep only finds a document nobody works on. *)
LEMMA SweepIsSafe ==
  ASSUME TypeOK, Calm, SafetyInv, NEW c \in Callers, SweepFind(c) \/ SweepUpdate(c)
  PROVE  SafetyInv' /\ HeldNow' \subseteq HeldNow /\ HeldNow = {}
<1>0. /\ \A pc \in SweepPCs : pc \in ApiPCs /\ pc \notin ReparsePCs \cup StopPCs
      /\ "idle" \notin ApiPCs \cup ReparsePCs \cup StopPCs \cup SweepPCs
  BY PlacesOfRequests
<1>1. {"sweep.stuck", "sweep.delete"} \subseteq SweepPCs
  BY DEF SweepPCs
<1>2. latest' = latest /\ mm' = mm /\ queue' = queue
  BY DEF SweepFind, SweepUpdate, RowOnly
<1>3. BagToSet(queue') \subseteq BagToSet(queue) /\ \A u \in BagToSet(queue') : queue'[u] = queue[u]
  BY <1>2
<1>4. queue = EmptyBag /\ \A w \in Workers : proc[w].pc = "idle"
  <2>1. CASE SweepFind(c)
    BY <2>1 DEF SweepFind, Quiet, At, Procs
  <2>2. CASE SweepUpdate(c)
    <3>1. proc[c].pc \in SweepPCs
      BY <1>1, <2>2 DEF SweepUpdate, At
    <3> QED
      BY <3>1, Stops DEF At
  <2> QED
    BY <2>1, <2>2
<1>5. BagToSet(queue) = {}
  BY <1>4 DEF EmptyBag, BagToSet, SetToBag
<1>6. ~Saving /\ ~Following
  BY <1>4, <1>5 DEF Saving, Following, SaverPCs, FollowerPCs, PosterPCs, ImagePCs, ReadingPCs
<1>7. HeldNow = {}
  <2>1. \A w \in Workers : Holds(proc[w]) = {}
    <3>1. SUFFICES ASSUME NEW w \in Workers PROVE Holds(proc[w]) = {}
      OBVIOUS
    <3>2. Fits(proc[w]) /\ proc[w].pc \in ApiPCs \cup {"idle"}
      BY <1>4, CallersAreNoWorkers DEF SafetyInv, Shapes
    <3> QED
      BY <3>2, RequesterClaims
  <2> QED
    BY <1>5, <2>1 DEF HeldNow
<1>8. PICK g : /\ Becomes(c, g) /\ Fits(g) /\ g.pc \in {"sweep.stuck", "sweep.delete", "idle"}
               /\ g.att <= latest
  <2>1. CASE SweepFind(c)
    <3>1. PICK pc \in {"sweep.stuck", "sweep.delete"} : Request(c, "sweep", 0, pc)
      BY <2>1 DEF SweepFind
    <3>2. PICK g : Becomes(c, g) /\ Fits(g) /\ g.pc = pc /\ g.att = 0
      BY <1>0, <1>1, <3>1, RequestBegins
    <3>3. 0 <= latest
      BY DEF TypeOK, Attempts
    <3> QED
      BY <3>2, <3>3
  <2>2. CASE SweepUpdate(c)
    BY <2>2, RequestEnds DEF SweepUpdate
  <2> QED
    BY <2>1, <2>2
<1>9. row' = row \/ (row'.status = "failed" /\ ~row'.gone)
  BY DEF SweepFind, SweepUpdate, SweptStuck, SweptDelete, Has, TypeOK, Rows
<1>10. SlotsOf(latest, Slots) \cap Claimed = {} \/ ~Has(row, {"pending", "processing"})
  BY DEF SafetyInv, Enriching
<1>11. g.pc \in ApiPCs \cup {"idle"} /\ g.pc \notin ReparsePCs \cup StopPCs
  BY <1>0, <1>1, <1>8
<1>12. Has(row', {"pending", "processing"}) => row'.count = 0 /\ SlotsOf(latest, Slots) \cap Claimed = {}
  <2>1. SUFFICES ASSUME Has(row', {"pending", "processing"})
                 PROVE  row'.count = 0 /\ SlotsOf(latest, Slots) \cap Claimed = {}
    OBVIOUS
  <2>2. row' = row
    BY <1>9, <2>1 DEF Has
  <2>3. ~Requested({"re.zero"})
    <3>1. proc[c].pc \in {"idle"} \cup SweepPCs
      <4>1. CASE SweepFind(c)
        BY <4>1 DEF SweepFind, Request, At
      <4>2. CASE SweepUpdate(c)
        BY <1>1, <4>2 DEF SweepUpdate, At
      <4> QED
        BY <4>1, <4>2
    <3> QED
      BY <3>1 DEF Requested, Calm, SweepPCs
  <2> QED
    BY <1>10, <2>1, <2>2, <2>3 DEF SafetyInv, Phases
<1>13. Has(row', {"finalizing"}) => row'.count = Cardinality(HeldNow)
  BY <1>9 DEF Has, SafetyInv, Enriching
<1>14. g.pc \in SweepPCs => queue' = EmptyBag /\ \A w \in Workers : At(w, "idle")
  BY <1>2, <1>4 DEF At
<1>15. SafetyInv' /\ HeldNow' \subseteq HeldNow
  BY <1>0, <1>2, <1>3, <1>6, <1>7, <1>8, <1>11, <1>12, <1>13, <1>14, RequestIsSafe
<1> QED
  BY <1>7, <1>15

(* A new attempt begins when nothing is left of the one before but           *)
(* promotions under way.                                                     *)
LEMMA DutiesOf ==
  ASSUME NEW f PROVE \A x \in Duties(f) : \E n : x = <<"slot", f.att, n>>
  BY DEF Duties, Plans, Shorts, Owns, Drains, SlotsOf

(* An ended document has no task that waits, and none that holds a slot. *)
LEMMA NothingIsLeft ==
  ASSUME TypeOK, SafetyInv, ~ManyPosts, Has(row, {"completed", "failed"})
  PROVE  /\ BagToSet(queue) = {} /\ HeldNow = {}
         /\ \A w \in Workers : Turn(proc[w]) = {} /\ Holds(proc[w]) = {}
                               /\ proc[w].pc \notin SaverPCs \cup FollowerPCs
<1>1. ~Saving /\ ~Following
  BY DEF SafetyInv, Phases, Has
<1>2. HeldNow = {}
  BY DEF SafetyInv, Enriching, Has
<1>3. ASSUME NEW w \in Workers
      PROVE  Turn(proc[w]) = {} /\ Holds(proc[w]) = {} /\ proc[w].pc \notin SaverPCs \cup FollowerPCs
  <2>1. proc[w].pc \notin SaverPCs \cup FollowerPCs /\ proc[w].pc \notin ReparsePCs
    BY <1>1 DEF Saving, Following, SafetyInv, Shapes, ApiPCs
  <2>2. Turn(proc[w]) = {}
    BY <2>1, TurnOf
  <2>3. Holds(proc[w]) = {}
    BY <1>2 DEF HeldNow, SafetyInv, Enriching, SlotsOf
  <2> QED
    BY <2>1, <2>2, <2>3
<1>4. BagToSet(queue) = {}
  <2>1. SUFFICES ASSUME NEW t \in BagToSet(queue) PROVE FALSE
    OBVIOUS
  <2>2. t.kind \in Enrichment /\ t.n \in Slots /\ t.att = latest
    <3>1. t.kind \notin {"process", "post", "image"}
      BY <1>1 DEF Saving, Following
    <3>2. TaskFits(t) /\ t.att \in {0, latest} /\ (t.att = 0 => t.kind = "post")
      BY TasksFit DEF SafetyInv
    <3> QED
      BY <3>1, <3>2 DEF TaskFits
  <2>3. <<"slot", latest, t.n>> \in TaskClaims(t)
    BY <2>2 DEF TaskClaims, SlotsOf
  <2> QED
    BY <1>2, <2>2, <2>3 DEF HeldNow
<1> QED
  BY <1>2, <1>3, <1>4

(* Opening a new attempt is safe, and finds no slot held. *)
LEMMA ReparseOpenIsSafe ==
  ASSUME TypeOK, Calm, SafetyInv, NEW c \in Callers, ReparseOpen(c)
  PROVE  /\ SafetyInv' /\ HeldNow = {} /\ HeldNow' = {} /\ latest' = latest + 1
         /\ \A w \in Workers : Holds(proc[w]) = {}
         /\ BagToSet(queue) = {} /\ queue' = queue
<1>1. /\ latest < MaxAttempt /\ Has(row, {"completed", "failed"}) /\ latest' = latest + 1
      /\ row' = row /\ mm' = mm /\ queue' = queue /\ Request(c, "reparse", latest + 1, "re.clean")
      /\ proc[c].pc = "idle"
  BY DEF ReparseOpen, Calm, Has, Request, At
<1>2. latest \in Nat /\ latest + 1 \in Nat /\ latest >= 1 /\ MaxAttempt \in Nat
  BY PipelineAssumption DEF TypeOK, Attempts
<1>3. ~ManyPosts
  BY <1>1, <1>2 DEF Calm
<1>4. PICK g : Becomes(c, g) /\ Fits(g) /\ g.pc = "re.clean" /\ g.att = latest + 1
  BY <1>1, <1>2, RequestBegins DEF ApiPCs, ReparsePCs
<1>5. /\ c \in Procs /\ proc'[c] = g
      /\ \A w \in Workers : w # c /\ proc'[w] = proc[w]
      /\ \A q \in Procs : q # c => proc'[q] = proc[q]
      /\ \A pcs : (\E d \in Callers : proc'[d].pc \in pcs) <=> g.pc \in pcs
      /\ \A d \in Callers : d = c
  BY <1>4, RequesterIs
<1>6. /\ BagToSet(queue) = {} /\ HeldNow = {}
      /\ \A w \in Workers : Turn(proc[w]) = {} /\ Holds(proc[w]) = {}
                            /\ proc[w].pc \notin SaverPCs \cup FollowerPCs
  BY <1>1, <1>3, NothingIsLeft
<1>7. Claims(g) = Driver
  BY <1>4, RequesterClaims DEF ReparsePCs, ApiPCs
<1>8. \A q \in Procs : Driver \cap Claims(proc[q]) = {}
  <2>1. SUFFICES ASSUME NEW q \in Procs PROVE Driver \cap Claims(proc[q]) = {}
    OBVIOUS
  <2>2. CASE q = c
    <3>1. Fits(proc[c]) /\ proc[c].pc \in ApiPCs \cup {"idle"}
      BY <1>5 DEF SafetyInv, Shapes
    <3>2. proc[c].pc \notin ReparsePCs
      BY <1>1, PlacesOfRequests
    <3> QED
      BY <2>2, <3>1, <3>2, RequesterClaims
  <2>3. CASE q \in Workers
    <3>1. Turn(proc[q]) = {} /\ \A x \in Duties(proc[q]) : \E n : x = <<"slot", proc[q].att, n>>
      BY <1>6, <2>3, DutiesOf
    <3> QED
      BY <3>1 DEF Claims, Driver
  <2> QED
    BY <1>5, <2>2, <2>3 DEF Procs
<1>9. Driver \cap Claimed = {}
  BY <1>6, <1>8, ClaimedIs
<1>10. Exclusive' /\ Claimed' \subseteq Claimed \cup Driver
  <2>1. Claims(g) \subseteq Claims(proc[c]) \cup Driver
    BY <1>7
  <2> QED
    BY <1>1, <1>4, <1>5, <1>9, <2>1, ClaimsMove DEF SafetyInv
<1>11. Shapes'
  <2>1. g.att <= latest' /\ latest' \in {latest, latest + 1} /\ g.pc \in ApiPCs \cup {"idle"}
    BY <1>1, <1>2, <1>4 DEF ApiPCs, ReparsePCs
  <2>2. \A t \in BagToSet(queue') : TaskFits(t) /\ t.att \in {0, latest'}
    BY <1>1, <1>6
  <2> QED
    BY <1>4, <2>1, <2>2, RequestShapes DEF SafetyInv
<1>12. \A x \in Claimed' : x \in Driver \/ \E w \in Workers : x \in Duties(proc[w])
  <2>1. SUFFICES ASSUME NEW x \in Claimed', x \notin Driver PROVE \E w \in Workers : x \in Duties(proc[w])
    OBVIOUS
  <2>2. PICK q \in Procs : x \in Claims(proc'[q])
    BY <1>1, <1>6, <2>1, ClaimedIs
  <2>3. q # c
    BY <1>5, <1>7, <2>1, <2>2
  <2>4. q \in Workers /\ proc'[q] = proc[q]
    BY <1>5, <2>3 DEF Procs
  <2> QED
    BY <1>6, <2>2, <2>4 DEF Claims
<1>13. \A x \in Claimed' : x \in Driver \/ \E a \in Nat : a <= latest /\ \E n : x = <<"slot", a, n>>
  <2>1. SUFFICES ASSUME NEW w \in Workers, NEW x \in Duties(proc[w])
                 PROVE  \E a \in Nat : a <= latest /\ \E n : x = <<"slot", a, n>>
    BY <1>12
  <2>2. proc[w].att \in Nat /\ proc[w].att <= latest
    <3>1. w \in Procs
      BY CallersAreNoWorkers
    <3> QED
      BY <3>1, FramesAreLocals, PipelineAssumption DEF TypeOK, Locals, SafetyInv, Shapes
  <2> QED
    BY <2>2, DutiesOf
<1>14. SlotsOf(latest + 1, Slots) \cap Claimed' = {}
  BY <1>2, <1>13 DEF SlotsOf, Driver
<1>15. Outstanding' = {}
  <2>1. Outstanding' = {n \in 1..Images : <<"image", latest + 1, n>> \in Claimed'}
    BY <1>1 DEF Outstanding
  <2> QED
    BY <1>13, <2>1 DEF Driver
<1>16. HeldNow' = {}
  <2>1. HeldNow' = {n \in Slots : \/ \E w \in Workers : <<"slot", latest + 1, n>> \in Holds(proc'[w])
                                  \/ \E t \in BagToSet(queue') : <<"slot", latest + 1, n>> \in TaskClaims(t)}
    BY <1>1 DEF HeldNow
  <2> QED
    BY <1>1, <1>5, <1>6, <2>1
<1>17. Counting'
  BY <1>15 DEF Counting
<1>18. Enriching'
  <2>1. \A w \in Workers : Holds(proc'[w]) \subseteq SlotsOf(latest', Slots)
    BY <1>5, <1>6
  <2>2. SlotsOf(latest', Slots) \cap Claimed' = {}
    BY <1>1, <1>14
  <2>3. Has(row', {"completed", "failed"})
    BY <1>1
  <2> QED
    BY <1>16, <2>1, <2>2, <2>3 DEF Enriching, Has
<1>19. Phases'
  <2>1. ~Saving' /\ ~Following'
    BY <1>1, <1>5, <1>6 DEF Saving, Following
  <2>2. g.pc \in ReparsePCs /\ g.pc \notin StopPCs \cup SweepPCs /\ g.pc = "re.clean"
    BY <1>4, PlacesOfRequests DEF ReparsePCs
  <2>3. ~ (\E d \in Callers : proc'[d].pc \in StopPCs \cup SweepPCs)
        /\ ~ (\E d \in Callers : proc'[d].pc \in SweepPCs)
    BY <1>5, <2>2
  <2>4. \A pcs \in {{"re.zero", "re.enqueue", "re.failed"}, {"re.zero"},
                    {"dequeue", "del.purge", "del.row"}, {"ca.mark"}} :
           ~ (\E d \in Callers : proc'[d].pc \in pcs)
    BY <1>5, <2>2
  <2>5. Has(row', {"completed", "failed"}) /\ ~Has(row', {"pending", "processing"})
    BY <1>1 DEF Has
  <2>6. \A w \in Workers : proc'[w].pc \in SaverPCs \cup FollowerPCs => proc'[w].att \in {0, latest'}
    BY <1>5, <1>6
  <2>7. \A d \in Callers : proc'[d].pc \in ReparsePCs => proc'[d].att = latest'
    BY <1>1, <1>4, <1>5
  <2> QED
    BY <2>1, <2>3, <2>4, <2>5, <2>6, <2>7 DEF Phases, Requested
<1> QED
  BY <1>1, <1>6, <1>10, <1>11, <1>16, <1>17, <1>18, <1>19 DEF SafetyInv

(* Every step of a request keeps the invariant. *)
LEMMA ApiIsSafe ==
  ASSUME TypeOK, Calm, SafetyInv, NEW c \in Callers, ApiStep(c) PROVE SafetyInv'
<1>1. ReparseOpen(c) => SafetyInv'
  BY ReparseOpenIsSafe
<1>2. ReparseClean(c) \/ ReparseReset(c) \/ ReparseZero(c) \/ ReparseFailed(c) => SafetyInv'
  BY ReparseGoesSafely
<1>3. ReparseEnqueue(c) => SafetyInv'
  BY ReparseGoesSafely, ReparseEnqueueIsSafe
<1>4. CancelRead(c) \/ CancelMark(c) \/ Dequeue(c) => SafetyInv'
  BY CancelIsSafe, DequeueIsSafe
<1>5. DeleteMark(c) \/ DeletePurge(c) \/ DeleteRow(c) => SafetyInv'
  BY DeleteIsSafe
<1>6. SweepFind(c) \/ SweepUpdate(c) => SafetyInv'
  BY SweepIsSafe
<1> QED
  BY <1>1, <1>2, <1>3, <1>4, <1>5, <1>6 DEF ApiStep

(* At the start there is one process task, and nothing else. *)
LEMMA InitIsSafe == Init => SafetyInv
<1> DEFINE t == Task("process", 1, 0)
<1> SUFFICES ASSUME Init PROVE SafetyInv
  OBVIOUS
<1>1. /\ row = NewRow /\ latest = 1 /\ mm = 0 /\ queue = SetToBag({t})
      /\ \A p \in Procs : proc[p] = Idle
  BY DEF Init
<1>2. t.kind = "process" /\ t.att = 1 /\ TaskFits(t) /\ TaskClaims(t) = Driver /\ t.kind \notin Enrichment
  BY DEF Task, TaskFits, TaskClaims, Enrichment
<1> HIDE DEF t
<1>3. BagToSet(queue) = {t} /\ queue[t] = 1
  BY <1>1 DEF SetToBag, BagToSet
<1>4. \A p \in Procs : /\ Fits(proc[p]) /\ proc[p].att = 0 /\ proc[p].pc = "idle"
                       /\ Claims(proc[p]) = {} /\ Holds(proc[p]) = {}
  BY <1>1, IdleFits
<1>5. Workers \subseteq Procs /\ Callers \subseteq Procs /\ "idle" \notin ApiPCs
  BY PlacesOfRequests DEF Procs
<1>6. Shapes
  <2>1. \A p \in Procs : Fits(proc[p]) /\ proc[p].att <= latest
    BY <1>1, <1>4
  <2>2. \A w \in Workers : proc[w].pc \notin ApiPCs
    BY <1>4, <1>5
  <2>3. \A c \in Callers : proc[c].pc \in ApiPCs \cup {"idle"}
    BY <1>4, <1>5
  <2>4. \A u \in BagToSet(queue) : TaskFits(u) /\ u.att \in {0, latest}
    BY <1>1, <1>2, <1>3
  <2> QED
    BY <2>1, <2>2, <2>3, <2>4 DEF Shapes
<1>7. Exclusive
  BY <1>3, <1>4 DEF Exclusive
<1>8. \A x : x \in Claimed <=> x \in Driver
  BY <1>2, <1>3, <1>4, ClaimedIs
<1>9. HeldNow = {}
  BY <1>2, <1>3, <1>4, <1>5 DEF HeldNow, Driver
<1>10. Counting
  <2>1. \A n : <<"image", latest, n>> \notin Claimed
    BY <1>8 DEF Driver
  <2>2. Outstanding = {}
    BY <2>1 DEF Outstanding
  <2> QED
    BY <2>2 DEF Counting
<1>11. row.status = "pending" /\ row.count = 0 /\ ~row.gone
  BY <1>1 DEF NewRow
<1>12. Enriching
  <2>1. SlotsOf(latest, Slots) \cap Claimed = {}
    BY <1>8 DEF SlotsOf, Driver
  <2> QED
    BY <1>4, <1>5, <1>9, <1>11, <2>1 DEF Enriching, Has
<1>13. Phases
  <2>1. "idle" \notin SaverPCs \cup FollowerPCs /\ "idle" \notin StopPCs \cup SweepPCs \cup ReparsePCs
    BY PlacesOfRequests DEF SaverPCs, FollowerPCs, PosterPCs, ImagePCs, ReadingPCs
  <2>2. ~Following
    BY <1>2, <1>3, <1>4, <1>5, <2>1 DEF Following
  <2>3. \A pcs : "idle" \notin pcs => ~Requested(pcs)
    BY <1>4, <1>5 DEF Requested
  <2>4. ~Requested(StopPCs \cup SweepPCs) /\ ~Requested(SweepPCs) /\ ~Requested(ReparsePCs)
        /\ ~Requested({"re.clean", "re.reset"}) /\ ~Requested({"re.zero", "re.enqueue", "re.failed"})
        /\ ~Requested({"dequeue", "del.purge", "del.row"}) /\ ~Requested({"ca.mark"})
    BY <2>1, <2>3
  <2>5. Has(row, {"pending", "processing"})
    BY <1>11 DEF Has
  <2>6. \A w \in Workers : proc[w].pc \notin SaverPCs \cup FollowerPCs
    BY <1>4, <1>5, <2>1
  <2>7. \A c \in Callers : proc[c].pc \notin ReparsePCs
    BY <1>4, <1>5, <2>1
  <2> QED
    BY <1>11, <2>2, <2>4, <2>5, <2>6, <2>7 DEF Phases
<1> QED
  BY <1>6, <1>7, <1>10, <1>12, <1>13 DEF SafetyInv

(* Every step keeps the invariant. *)
LEMMA StepIsSafe ==
  ASSUME TypeOK, Calm, SafetyInv, [Next]_vars PROVE SafetyInv'
<1>1. CASE UNCHANGED vars
  <2>1. row' = row /\ latest' = latest /\ mm' = mm /\ queue' = queue /\ proc' = proc
    BY <1>1 DEF vars
  <2>2. Claimed' = Claimed /\ HeldNow' = HeldNow /\ Outstanding' = Outstanding
    BY <2>1 DEF Claimed, HeldNow, Outstanding
  <2>3. (Saving' <=> Saving) /\ (Following' <=> Following)
    BY <2>1 DEF Saving, Following
  <2>4. Shapes' /\ Exclusive'
    BY <2>1 DEF SafetyInv, Shapes, Exclusive
  <2>5. Counting' /\ Enriching'
    BY <2>1, <2>2 DEF SafetyInv, Counting, Enriching, Requested, ManyPosts, Has
  <2>6. Phases'
    BY <2>1, <2>3 DEF SafetyInv, Phases, Requested, ManyPosts, Has, At
  <2> QED
    BY <2>4, <2>5, <2>6 DEF SafetyInv
<1>2. CASE \E w \in Workers : WorkerStep(w)
  BY <1>2, WorkerIsSafe
<1>3. CASE \E c \in Callers : ApiStep(c)
  BY <1>3, ApiIsSafe
<1>4. ~ \E p \in Procs : Crash(p)
  BY CalmSteps DEF Crash
<1> QED
  BY <1>1, <1>2, <1>3, <1>4 DEF Next

(* The inductive invariant holds in every state. *)
THEOREM SafetyHolds == ASSUME Calm PROVE Spec => []SafetyInv
<1>1. Calm
  OBVIOUS
<1>2. Init => SafetyInv
  BY InitIsSafe
<1>3. TypeOK /\ SafetyInv /\ [Next]_vars => SafetyInv'
  BY <1>1, StepIsSafe
<1> QED
  BY <1>2, <1>3, TypeCorrect, PTL DEF Spec
----------------------------------------------------------------------------
(* What the invariant says of the tasks that wait or run. *)
LEMMA SubtasksOwn ==
  ASSUME TypeOK, Shapes, NEW w \in Workers, proc[w].job.kind \in Enrichment
  PROVE  /\ proc[w].pc \in OwnerPCs \cup {"promote"} /\ proc[w].job.att = proc[w].att
         /\ proc[w].job.n \in Slots
         /\ <<"slot", proc[w].att, proc[w].job.n>> \in Duties(proc[w])
         /\ proc[w].pc # "promote" => <<"slot", proc[w].att, proc[w].job.n>> \in Holds(proc[w])
<1>1. w \in Procs /\ Fits(proc[w]) /\ proc[w].pc \notin ApiPCs /\ proc[w].pc \in PCs
  BY CallersAreNoWorkers, FramesAreLocals DEF Shapes, TypeOK, Locals
<1>2. proc[w].pc \notin {"idle", "ack"} \cup ParsingPCs \cup PosterPCs \cup GiverPCs \cup ImagePCs
  BY <1>1 DEF Fits, Enrichment
<1>3. proc[w].pc \in OwnerPCs \cup {"promote"}
  BY <1>1, <1>2 DEF PCs, ParsingPCs, SaverPCs, PosterPCs, GiverPCs, ImagePCs, ReadingPCs, OwnerPCs,
     SummaryPCs, SavingPCs, ApiPCs, ReparsePCs, StopPCs, SweepPCs
<1>4. proc[w].att = proc[w].job.att /\ proc[w].job.n \in Slots
  BY <1>1, <1>2, <1>3 DEF Fits
<1>5. CASE proc[w].pc \in OwnerPCs
  <2>1. Duties(proc[w]) = SlotsOf(proc[w].att, {proc[w].job.n}) /\ Holds(proc[w]) = Duties(proc[w])
    BY <1>1, <1>5, OwnerDuty
  <2> QED
    BY <1>3, <1>4, <2>1 DEF SlotsOf
<1>6. CASE proc[w].pc = "promote"
  <2>1. Drains(proc[w]) = SlotsOf(proc[w].att, {proc[w].job.n})
    BY <1>6 DEF Drains
  <2> QED
    BY <1>3, <1>4, <1>6, <2>1 DEF Duties, SlotsOf
<1> QED
  BY <1>3, <1>5, <1>6

(* What the document owes is what is held, read off the claims. *)
LEMMA OwedAreHeld ==
  ASSUME TypeOK, Shapes PROVE Owed(latest) \subseteq HeldNow
<1>1. ASSUME NEW t \in BagToSet(queue), t.kind \in Enrichment, t.att = latest PROVE t.n \in HeldNow
  <2>1. t.n \in Slots
    BY <1>1, TasksFit DEF TaskFits
  <2>2. <<"slot", latest, t.n>> \in TaskClaims(t)
    BY <1>1 DEF TaskClaims, SlotsOf
  <2> QED
    BY <2>1, <2>2 DEF HeldNow
<1>2. ASSUME NEW w \in Workers, proc[w].job.kind \in Enrichment, Att(w) = latest,
             proc[w].pc \notin {"promote", "ack"}
      PROVE  proc[w].job.n \in HeldNow
  <2>1. proc[w].job.n \in Slots /\ <<"slot", latest, proc[w].job.n>> \in Holds(proc[w])
    BY <1>2, SubtasksOwn DEF Att
  <2> QED
    BY <2>1 DEF HeldNow
<1>3. ASSUME NEW w \in Workers, At(w, "post.spawn"), Att(w) = latest, NEW n \in proc[w].todo
      PROVE  n \in HeldNow
  <2>1. w \in Procs /\ proc[w] \in Frames
    BY CallersAreNoWorkers DEF TypeOK
  <2>2. n \in Slots
    BY <1>3, <2>1 DEF Frames, Sound, At
  <2>3. <<"slot", latest, n>> \in Plans(proc[w]) /\ Drains(proc[w]) = {}
    BY <1>3 DEF Plans, Drains, SlotsOf, At, Att
  <2>4. <<"slot", latest, n>> \in Holds(proc[w])
    BY <2>3 DEF Holds, Duties
  <2> QED
    BY <2>2, <2>4 DEF HeldNow
<1> DEFINE A == {t.n : t \in {u \in BagToSet(queue) : u.kind \in Enrichment /\ u.att = latest}}
           B == {proc[w].job.n : w \in {v \in Workers :
             proc[v].job.kind \in Enrichment /\ Att(v) = latest /\ proc[v].pc \notin {"promote", "ack"}}}
           C == UNION {proc[w].todo : w \in {v \in Workers : At(v, "post.spawn") /\ Att(v) = latest}}
<1>4. A \subseteq HeldNow
  BY <1>1
<1>5. B \subseteq HeldNow
  BY <1>2
<1>6. C \subseteq HeldNow
  BY <1>3
<1>7. Owed(latest) = (A \cup B) \cup C
  BY DEF Owed
<1> HIDE DEF A, B, C
<1> QED
  BY <1>4, <1>5, <1>6, <1>7

(* FinalizeSubtask and its callers: a document that has become completed     *)
(* owes nothing, however many tasks were retried or could not be enqueued.   *)
THEOREM CompletedIsDrained == ASSUME Calm PROVE Spec => []CompletedMeansDrained
<1>1. Calm
  OBVIOUS
<1>2. TypeOK /\ SafetyInv => CompletedMeansDrained
  <2>1. SUFFICES ASSUME TypeOK, SafetyInv, Has(row, {"completed"}) PROVE Owed(latest) = {}
    BY DEF CompletedMeansDrained
  <2>2. HeldNow = {}
    BY <2>1 DEF SafetyInv, Enriching
  <2> QED
    BY <2>1, <2>2, OwedAreHeld DEF SafetyInv
<1>3. Spec => []SafetyInv
  BY <1>1, SafetyHolds
<1> QED
  BY <1>2, <1>3, TypeCorrect, PTL

(* checkAndFinalizeAllImages, with the counter in Redis: a document is not   *)
(* handed over while one of its images may still add text to it, whatever    *)
(* image is retried or given up.                                             *)
THEOREM ImagesAreFirst == ASSUME Calm, ~ManyPosts PROVE Spec => []ImagesComeFirst
<1>1. Calm /\ ~ManyPosts
  OBVIOUS
<1>2. TypeOK /\ SafetyInv => ImagesComeFirst
  <2>1. SUFFICES ASSUME TypeOK, SafetyInv, Has(row, {"finalizing", "completed"}) PROVE Unread(latest) = {}
    BY DEF ImagesComeFirst
  <2>2. ~Following
    BY <1>1, <2>1 DEF SafetyInv, Phases, Has
  <2>3. \A t \in BagToSet(queue) : t.kind # "image"
    BY <2>2 DEF Following
  <2>4. \A w \in Workers : proc[w].pc \notin {"image.run", "image.error", "mm.enqueue"}
    BY <2>2 DEF Following, FollowerPCs, ImagePCs, ReadingPCs
  <2> QED
    BY <2>3, <2>4 DEF Unread, At
<1>3. Spec => []SafetyInv
  BY <1>1, SafetyHolds
<1> QED
  BY <1>2, <1>3, TypeCorrect, PTL

(* A set of which any two elements are the same. *)
LEMMA AtMostOne ==
  ASSUME NEW S, \A x, y \in S : x = y
  PROVE  Cardinality(S) \in {0, 1} /\ (S = {} => Cardinality(S) = 0)
<1>1. CASE S = {}
  BY <1>1, FS_EmptySet
<1>2. CASE S # {}
  <2>1. PICK x : S = {x}
    BY <1>2
  <2> QED
    BY <1>2, <2>1, FS_Singleton
<1> QED
  BY <1>1, <1>2

(* SetFinalizing's guard: post-processing may be repeated, for every image   *)
(* without Redis, and yet an enrichment task of an attempt exists once.      *)
THEOREM FansOutOnce == ASSUME Calm PROVE Spec => []FannedOutOnce
<1>1. Calm
  OBVIOUS
<1>2. TypeOK /\ SafetyInv => FannedOutOnce
  <2>1. SUFFICES ASSUME TypeOK, SafetyInv, NEW n \in Slots, NEW a \in Attempts
                 PROVE  Cardinality({t \in BagToSet(queue) : t.kind \in Enrichment /\ t.n = n /\ t.att = a})
                          + Cardinality({w \in Workers : /\ proc[w].job.kind \in Enrichment
                                                         /\ proc[w].job.n = n /\ proc[w].job.att = a}) <= 1
    BY DEF FannedOutOnce
  <2> DEFINE T == {t \in BagToSet(queue) : t.kind \in Enrichment /\ t.n = n /\ t.att = a}
             W == {w \in Workers : /\ proc[w].job.kind \in Enrichment
                                   /\ proc[w].job.n = n /\ proc[w].job.att = a}
             x == <<"slot", a, n>>
  <2>2. \A t \in T : t \in BagToSet(queue) /\ x \in TaskClaims(t)
    BY DEF TaskClaims, SlotsOf
  <2>3. \A w \in W : w \in Procs /\ x \in Claims(proc[w])
    <3>1. SUFFICES ASSUME NEW w \in W PROVE w \in Procs /\ x \in Claims(proc[w])
      OBVIOUS
    <3>2. w \in Procs /\ <<"slot", proc[w].att, proc[w].job.n>> \in Duties(proc[w])
          /\ proc[w].job.att = proc[w].att
      BY <2>1, SubtasksOwn, CallersAreNoWorkers DEF SafetyInv
    <3> QED
      BY <3>2 DEF Claims
  <2> HIDE DEF T, W, x
  <2>4. \A t, u \in T : t = u
    BY <2>1, <2>2 DEF SafetyInv, Exclusive
  <2>5. \A v, w \in W : v = w
    BY <2>1, <2>3 DEF SafetyInv, Exclusive
  <2>6. T = {} \/ W = {}
    BY <2>1, <2>2, <2>3 DEF SafetyInv, Exclusive
  <2>7. /\ Cardinality(T) \in {0, 1} /\ (T = {} => Cardinality(T) = 0)
        /\ Cardinality(W) \in {0, 1} /\ (W = {} => Cardinality(W) = 0)
    BY <2>4, <2>5, AtMostOne
  <2>8. Cardinality(T) + Cardinality(W) <= 1
    BY <2>6, <2>7
  <2> QED
    BY <2>8 DEF T, W
<1>3. Spec => []SafetyInv
  BY <1>1, SafetyHolds
<1> QED
  BY <1>2, <1>3, TypeCorrect, PTL
----------------------------------------------------------------------------
(* What the tasks, and what a request, may make of a row. *)
LEMMA WorkersRow ==
  ASSUME TypeOK, Calm, SafetyInv, NEW w \in Workers, WorkerStep(w)
  PROVE  \/ row' = row \/ row'.gone
         \/ row'.status = row.status
         \/ Has(row, Active)
<1>1. PICK g \in Locals :
       \/ Moves(w, g)
       \/ \E t \in BagToSet(queue) : Takes(w, g, t)
       \/ \E t \in Tasks : PutsBack(w, g, t)
       \/ \E s \in {"processing", "failed"} : Saves(w, g, s)
       \/ PostFails(w, g) \/ HandsOver(w, g) \/ CompletesNow(w, g)
       \/ \E n \in Slots : Spawns(w, g, n) \/ GivesBack(w, g, n) \/ Promotes(w, g, n)
       \/ Counts(w, g) \/ SetsCounter(w, g)
  BY WorkerStepKind DEF WorkerKinds
<1>2. CASE Moves(w, g) \/ Counts(w, g) \/ SetsCounter(w, g)
  BY <1>2 DEF Moves, Shifts, Counts, SetsCounter
<1>3. CASE \/ \E t \in BagToSet(queue) : Takes(w, g, t)
           \/ \E t \in Tasks : PutsBack(w, g, t)
           \/ \E n \in Slots : Spawns(w, g, n)
  BY <1>3 DEF Takes, PutsBack, Puts, Spawns
<1>4. CASE \E s \in {"processing", "failed"} : Saves(w, g, s)
  <2>1. proc[w].pc \in SaverPCs
    BY <1>4 DEF Saves
  <2> QED
    BY <2>1, SaverAlone DEF Has, Active
<1>5. CASE PostFails(w, g) \/ HandsOver(w, g) \/ CompletesNow(w, g)
  BY <1>5 DEF PostFails, HandsOver, CompletesNow, FailedIfActive, CompletedAtOnce, Has, Active
<1>6. CASE \E n \in Slots : GivesBack(w, g, n) \/ Promotes(w, g, n)
  BY <1>6 DEF GivesBack, Promotes, Decremented, Promoted, CanPromote, Has, Active, TypeOK, Rows
<1> QED
  BY <1>1, <1>2, <1>3, <1>4, <1>5, <1>6

(* What a request may make of the status. *)
LEMMA RequestsRow ==
  ASSUME TypeOK, Calm, SafetyInv, NEW c \in Callers, ApiStep(c)
  PROVE  \/ row' = row \/ row'.gone \/ row'.status = row.status \/ row'.status = "deleting"
         \/ Has(row, Active)
         \/ At(c, "re.reset") /\ Has(row, {"completed", "failed"})
         \/ At(c, "ca.mark") /\ row'.status = "cancelled" /\ ~Has(row, {"deleting"})
         \/ At(c, "sweep.delete") /\ Has(row, {"deleting"})
<1>1. CASE ReparseOpen(c) \/ ReparseClean(c) \/ ReparseEnqueue(c)
  BY <1>1 DEF ReparseOpen, ReparseClean, ReparseEnqueue, StoredOnly, QueueOnly
<1>2. CASE ReparseReset(c) \/ ReparseFailed(c)
  <2>1. proc[c].pc \in {"re.reset", "re.failed"} /\ proc[c].pc \in ReparsePCs
    BY <1>2 DEF ReparseReset, ReparseFailed, At, ReparsePCs
  <2> QED
    BY <2>1, Reparses DEF At, Has, Active
<1>3. CASE ReparseZero(c)
  BY <1>3 DEF ReparseZero, ZeroCount, TypeOK, Rows
<1>4. CASE CancelRead(c) \/ Dequeue(c) \/ DeletePurge(c) \/ SweepFind(c)
  BY <1>4 DEF CancelRead, Dequeue, DeletePurge, SweepFind, QueueOnly, StoredOnly
<1>5. CASE CancelMark(c)
  <2>1. proc[c].pc = "ca.mark" /\ proc[c].pc \in StopPCs /\ (row' = row \/ row' = CancelledByUser(row))
    BY <1>5 DEF CancelMark, At, StopPCs
  <2>2. ~Has(row, {"deleting"})
    BY <2>1, Stops
  <2> QED
    BY <2>1, <2>2 DEF At, CancelledByUser, TypeOK, Rows
<1>6. CASE DeleteMark(c) \/ DeleteRow(c)
  BY <1>6 DEF DeleteMark, MarkedDeleting, DeleteRow, Removed, TypeOK, Rows
<1>7. CASE SweepUpdate(c)
  BY <1>7 DEF SweepUpdate, SweptStuck, SweptDelete, Has, Active, At
<1> QED
  BY <1>1, <1>2, <1>3, <1>4, <1>5, <1>6, <1>7 DEF ApiStep

(* What a step may make of the status. *)
LEMMA StepsRow ==
  ASSUME TypeOK, Calm, SafetyInv, [Next]_vars
  PROVE  \/ row' = row \/ row'.gone \/ row'.status = row.status \/ row'.status = "deleting"
         \/ Has(row, Active)
         \/ \E c \in Callers : At(c, "re.reset") /\ Has(row, {"completed", "failed"})
         \/ \E c \in Callers : At(c, "ca.mark") /\ row'.status = "cancelled" /\ ~Has(row, {"deleting"})
         \/ \E c \in Callers : At(c, "sweep.delete") /\ Has(row, {"deleting"})
<1>1. UNCHANGED vars => row' = row
  BY DEF vars
<1>2. ~ \E p \in Procs : Crash(p)
  BY CalmSteps DEF Crash
<1>3. ASSUME NEW w \in Workers, WorkerStep(w)
      PROVE  row' = row \/ row'.gone \/ row'.status = row.status \/ Has(row, Active)
  BY <1>3, WorkersRow
<1>4. ASSUME NEW c \in Callers, ApiStep(c)
      PROVE  \/ row' = row \/ row'.gone \/ row'.status = row.status \/ row'.status = "deleting"
             \/ Has(row, Active)
             \/ At(c, "re.reset") /\ Has(row, {"completed", "failed"})
             \/ At(c, "ca.mark") /\ row'.status = "cancelled" /\ ~Has(row, {"deleting"})
             \/ At(c, "sweep.delete") /\ Has(row, {"deleting"})
  BY <1>4, RequestsRow
<1> QED
  BY <1>1, <1>2, <1>3, <1>4 DEF Next

(* CancelKnowledgeParse: no task that still runs on a cancelled document,    *)
(* and no request but a reparse or a delete, takes it out of that state.     *)
THEOREM CancelStays == ASSUME Calm PROVE Spec => CancelHolds
<1>1. Calm
  OBVIOUS
<1>2. TypeOK /\ SafetyInv /\ [Next]_vars =>
        [Has(row, {"cancelled"}) =>
          \/ row'.gone \/ row'.status \in {"cancelled", "deleting"}
          \/ \E c \in Callers : At(c, "re.reset") \/ At(c, "re.failed")]_vars
  <2>1. SUFFICES ASSUME TypeOK, SafetyInv, [Next]_vars, Has(row, {"cancelled"})
                 PROVE  \/ row'.gone \/ row'.status \in {"cancelled", "deleting"}
                        \/ \E c \in Callers : At(c, "re.reset") \/ At(c, "re.failed")
    OBVIOUS
  <2> QED
    BY <1>1, <2>1, StepsRow DEF Has, Active
<1>3. Spec => []SafetyInv
  BY <1>1, SafetyHolds
<1> QED
  BY <1>2, <1>3, TypeCorrect, PTL DEF Spec, CancelHolds

(* executeKnowledgeDelete: a row marked for deletion is not brought back by  *)
(* the tasks still running on it; only the cron gives a stuck delete up.     *)
THEOREM DeleteStays == ASSUME Calm PROVE Spec => DeleteHolds
<1>1. Calm
  OBVIOUS
<1>2. TypeOK /\ SafetyInv /\ [Next]_vars =>
        [Has(row, {"deleting"}) =>
          \/ row'.gone \/ row'.status = "deleting"
          \/ \E c \in Callers : At(c, "sweep.delete")]_vars
  <2>1. SUFFICES ASSUME TypeOK, SafetyInv, [Next]_vars, Has(row, {"deleting"})
                 PROVE  \/ row'.gone \/ row'.status = "deleting"
                        \/ \E c \in Callers : At(c, "sweep.delete")
    OBVIOUS
  <2> QED
    BY <1>1, <2>1, StepsRow DEF Has, Active
<1>3. Spec => []SafetyInv
  BY <1>1, SafetyHolds
<1> QED
  BY <1>2, <1>3, TypeCorrect, PTL DEF Spec, DeleteHolds

(* A completed document is only taken back by the user: no task reopens it.  *)
THEOREM CompletedStays == ASSUME Calm PROVE Spec => CompletedHolds
<1>1. Calm
  OBVIOUS
<1>2. TypeOK /\ SafetyInv /\ [Next]_vars =>
        [Has(row, {"completed"}) =>
          \/ row'.gone \/ row'.status \in {"completed", "deleting"}
          \/ \E c \in Callers : At(c, "re.reset") \/ At(c, "re.failed") \/ At(c, "ca.mark")]_vars
  <2>1. SUFFICES ASSUME TypeOK, SafetyInv, [Next]_vars, Has(row, {"completed"})
                 PROVE  \/ row'.gone \/ row'.status \in {"completed", "deleting"}
                        \/ \E c \in Callers : At(c, "re.reset") \/ At(c, "re.failed") \/ At(c, "ca.mark")
    OBVIOUS
  <2> QED
    BY <1>1, <2>1, StepsRow DEF Has, Active
<1>3. Spec => []SafetyInv
  BY <1>1, SafetyHolds
<1> QED
  BY <1>2, <1>3, TypeCorrect, PTL DEF Spec, CompletedHolds
----------------------------------------------------------------------------
(* Where a slot is, read off the claims. *)
LEMMA ClaimsOfHandler ==
  ASSUME NEW f \in Frames, Fits(f), f.pc \notin ApiPCs, NEW a, NEW n
  PROVE  /\ <<"slot", a, n>> \in Drains(f)
              <=> /\ f.att = a
                  /\ (f.pc = "post.promote" /\ n = First(f.short)) \/ (f.pc = "promote" /\ n = f.job.n)
         /\ <<"slot", a, n>> \in Plans(f) <=> f.pc = "post.spawn" /\ f.att = a /\ n \in f.todo
         /\ <<"slot", a, n>> \in Shorts(f) <=> f.att = a /\ n \in f.short
         /\ <<"slot", a, n>> \in Owns(f)
              <=> /\ f.job.kind \in Enrichment /\ f.att = a /\ f.pc \notin {"promote", "ack"}
                  /\ n = f.job.n
<1>1. <<"slot", a, n>> \in Drains(f)
        <=> /\ f.att = a
            /\ (f.pc = "post.promote" /\ n = First(f.short)) \/ (f.pc = "promote" /\ n = f.job.n)
  BY DEF Drains, SlotsOf
<1>2. <<"slot", a, n>> \in Plans(f) <=> f.pc = "post.spawn" /\ f.att = a /\ n \in f.todo
  BY DEF Plans, SlotsOf
<1>3. <<"slot", a, n>> \in Shorts(f) <=> f.att = a /\ n \in f.short
  BY DEF Shorts, SlotsOf
<1>4. f.pc \in OwnerPCs <=> f.job.kind \in Enrichment /\ f.pc \notin {"promote", "ack"}
  <2>1. f.pc \in PCs
    BY FramesAreLocals DEF Locals
  <2>2. f.pc \in OwnerPCs => f.job.kind \in Enrichment /\ f.pc \notin {"promote", "ack"}
    BY DEF Fits, OwnerPCs, SummaryPCs, SavingPCs
  <2>3. ASSUME f.job.kind \in Enrichment, f.pc \notin {"promote", "ack"} PROVE f.pc \in OwnerPCs
    <3>1. f.pc \notin {"idle"} \cup ParsingPCs \cup PosterPCs \cup GiverPCs \cup ImagePCs
      BY <2>3 DEF Fits, Enrichment
    <3> QED
      BY <2>1, <2>3, <3>1 DEF PCs, ParsingPCs, SaverPCs, PosterPCs, GiverPCs, ImagePCs, ReadingPCs,
         OwnerPCs, SummaryPCs, SavingPCs, ApiPCs, ReparsePCs, StopPCs, SweepPCs
  <2> QED
    BY <2>2, <2>3
<1>5. <<"slot", a, n>> \in Owns(f) <=> f.pc \in OwnerPCs /\ f.att = a /\ n = f.job.n
  BY DEF Owns, SlotsOf
<1> QED
  BY <1>1, <1>2, <1>3, <1>4, <1>5

(* A task that waits claims the slot it is for. *)
LEMMA ClaimOfTask ==
  ASSUME NEW t, NEW a, NEW n
  PROVE  <<"slot", a, n>> \in TaskClaims(t) <=> t.kind \in Enrichment /\ t.att = a /\ t.n = n
  BY DEF TaskClaims, SlotsOf, Driver, ImagesOf

(* The slot is given back, counted, not enqueued, or with a task. *)
Where(drained, planned, short, owned) ==
    IF drained THEN "drained" ELSE IF planned THEN "planned"
    ELSE IF short THEN "short" ELSE IF owned THEN "owned" ELSE "free"

SlotClaim(n) == <<"slot", latest, n>>

(* The place of a slot, in terms of claims. *)
LEMMA SlotIs ==
  ASSUME TypeOK, Shapes, NEW n
  PROVE  Slot(n) = Where(\E w \in Workers : SlotClaim(n) \in Drains(proc[w]),
                         \E w \in Workers : SlotClaim(n) \in Plans(proc[w]),
                         \E w \in Workers : SlotClaim(n) \in Shorts(proc[w]),
                         \/ \E w \in Workers : SlotClaim(n) \in Owns(proc[w])
                         \/ \E t \in BagToSet(queue) : SlotClaim(n) \in TaskClaims(t))
<1>1. \A w \in Workers : proc[w] \in Frames /\ Fits(proc[w]) /\ proc[w].pc \notin ApiPCs
  BY CallersAreNoWorkers DEF Shapes, TypeOK
<1>2. IsDrained(n) <=> \E w \in Workers : SlotClaim(n) \in Drains(proc[w])
  <2>1. \A w \in Workers : SlotClaim(n) \in Drains(proc[w])
              <=> /\ proc[w].att = latest
                  /\ \/ proc[w].pc = "post.promote" /\ n = First(proc[w].short)
                     \/ proc[w].pc = "promote" /\ n = proc[w].job.n
    BY <1>1, ClaimsOfHandler DEF SlotClaim
  <2> QED
    BY <2>1 DEF IsDrained, At, Att
<1>3. \A w \in Workers : SlotClaim(n) \in Plans(proc[w])
                           <=> At(w, "post.spawn") /\ Att(w) = latest /\ n \in proc[w].todo
  BY <1>1, ClaimsOfHandler DEF SlotClaim, At, Att
<1>4. \A w \in Workers : SlotClaim(n) \in Shorts(proc[w]) <=> Att(w) = latest /\ n \in proc[w].short
  BY <1>1, ClaimsOfHandler DEF SlotClaim, Att
<1>5. \A w \in Workers : SlotClaim(n) \in Owns(proc[w])
                           <=> /\ proc[w].job.kind \in Enrichment /\ Att(w) = latest
                               /\ proc[w].pc \notin {"promote", "ack"} /\ n = proc[w].job.n
  BY <1>1, ClaimsOfHandler DEF SlotClaim, Att
<1>6. \A t \in BagToSet(queue) : SlotClaim(n) \in TaskClaims(t)
                                   <=> t.kind \in Enrichment /\ t.att = latest /\ t.n = n
  BY ClaimOfTask DEF SlotClaim
<1>7. n \in Owed(latest) <=> \/ \E t \in BagToSet(queue) : SlotClaim(n) \in TaskClaims(t)
                             \/ \E w \in Workers : SlotClaim(n) \in Owns(proc[w])
                             \/ \E w \in Workers : SlotClaim(n) \in Plans(proc[w])
  <2> DEFINE A == {t.n : t \in {u \in BagToSet(queue) : u.kind \in Enrichment /\ u.att = latest}}
             B == {proc[w].job.n : w \in {v \in Workers :
               proc[v].job.kind \in Enrichment /\ Att(v) = latest /\ proc[v].pc \notin {"promote", "ack"}}}
             C == UNION {proc[w].todo : w \in {v \in Workers : At(v, "post.spawn") /\ Att(v) = latest}}
  <2>1. n \in A <=> \E t \in BagToSet(queue) : SlotClaim(n) \in TaskClaims(t)
    BY <1>6
  <2>2. n \in B <=> \E w \in Workers : SlotClaim(n) \in Owns(proc[w])
    BY <1>5
  <2>3. n \in C <=> \E w \in Workers : SlotClaim(n) \in Plans(proc[w])
    BY <1>3
  <2>4. Owed(latest) = (A \cup B) \cup C
    BY DEF Owed
  <2> HIDE DEF A, B, C
  <2> QED
    BY <2>1, <2>2, <2>3, <2>4
<1>8. (\E w \in Workers : At(w, "post.spawn") /\ Att(w) = latest /\ n \in proc[w].todo)
         <=> \E w \in Workers : SlotClaim(n) \in Plans(proc[w])
  BY <1>3
<1>9. (\E w \in Workers : Att(w) = latest /\ n \in proc[w].short)
         <=> \E w \in Workers : SlotClaim(n) \in Shorts(proc[w])
  BY <1>4
<1>10. Slot(n) = IF IsDrained(n) THEN "drained"
                 ELSE IF \E w \in Workers : SlotClaim(n) \in Plans(proc[w]) THEN "planned"
                 ELSE IF \E w \in Workers : SlotClaim(n) \in Shorts(proc[w]) THEN "short"
                 ELSE IF n \in Owed(latest) THEN "owned" ELSE "free"
  BY <1>8, <1>9 DEF Slot
<1> QED
  BY <1>2, <1>7, <1>10 DEF Where

SlotsRead ==
    \A n \in Slots :
        Slot(n) = Where(\E w \in Workers : SlotClaim(n) \in Drains(proc[w]),
                        \E w \in Workers : SlotClaim(n) \in Plans(proc[w]),
                        \E w \in Workers : SlotClaim(n) \in Shorts(proc[w]),
                        \/ \E w \in Workers : SlotClaim(n) \in Owns(proc[w])
                        \/ \E t \in BagToSet(queue) : SlotClaim(n) \in TaskClaims(t))

(* In every safe state the places are those of the claims. *)
LEMMA SlotsAreRead == TypeOK /\ SafetyInv => SlotsRead
  BY SlotIs DEF SlotsRead, SafetyInv

LEMMA SlotsAreReadNext == (TypeOK /\ SafetyInv => SlotsRead)'
  BY SlotsAreRead, PTL

(* The claims on a slot, apart from those of worker w. *)
DrainedBeside(w, n) == \E v \in Workers : v # w /\ SlotClaim(n) \in Drains(proc[v])
PlannedBeside(w, n) == \E v \in Workers : v # w /\ SlotClaim(n) \in Plans(proc[v])
ShortBeside(w, n) == \E v \in Workers : v # w /\ SlotClaim(n) \in Shorts(proc[v])
OwnedBeside(w, n) == \E v \in Workers : v # w /\ SlotClaim(n) \in Owns(proc[v])
Waits(n, tasks) == \E t \in tasks : SlotClaim(n) \in TaskClaims(t)

(* The slot, if worker w is at f and these tasks wait. *)
Around(f, w, n, tasks) ==
    Where(SlotClaim(n) \in Drains(f) \/ DrainedBeside(w, n),
          SlotClaim(n) \in Plans(f) \/ PlannedBeside(w, n),
          SlotClaim(n) \in Shorts(f) \/ ShortBeside(w, n),
          SlotClaim(n) \in Owns(f) \/ OwnedBeside(w, n) \/ Waits(n, tasks))

(* A slot before and after a step of worker w. *)
LEMMA SlotMoves ==
  ASSUME TypeOK, SafetyInv, TypeOK', SafetyInv', NEW w \in Workers, NEW g, Becomes(w, g),
         latest' = latest, NEW n \in Slots
  PROVE  /\ Slot(n) = Around(proc[w], w, n, BagToSet(queue))
         /\ Slot(n)' = Around(g, w, n, BagToSet(queue'))
<1>1. proc'[w] = g /\ \A v \in Workers : v # w => proc'[v] = proc[v]
  BY OthersStay, CallersAreNoWorkers
<1>2. Slot(n) = Where(\E v \in Workers : SlotClaim(n) \in Drains(proc[v]),
                      \E v \in Workers : SlotClaim(n) \in Plans(proc[v]),
                      \E v \in Workers : SlotClaim(n) \in Shorts(proc[v]),
                      \/ \E v \in Workers : SlotClaim(n) \in Owns(proc[v])
                      \/ \E t \in BagToSet(queue) : SlotClaim(n) \in TaskClaims(t))
  BY SlotsAreRead DEF SlotsRead
<1>3. Slot(n)' = Where(\E v \in Workers : SlotClaim(n) \in Drains(proc'[v]),
                       \E v \in Workers : SlotClaim(n) \in Plans(proc'[v]),
                       \E v \in Workers : SlotClaim(n) \in Shorts(proc'[v]),
                       \/ \E v \in Workers : SlotClaim(n) \in Owns(proc'[v])
                       \/ \E t \in BagToSet(queue') : SlotClaim(n) \in TaskClaims(t))
  BY SlotsAreReadNext DEF SlotsRead, SlotClaim
<1>4. /\ (\E v \in Workers : SlotClaim(n) \in Drains(proc[v]))
           <=> SlotClaim(n) \in Drains(proc[w]) \/ DrainedBeside(w, n)
      /\ (\E v \in Workers : SlotClaim(n) \in Plans(proc[v]))
           <=> SlotClaim(n) \in Plans(proc[w]) \/ PlannedBeside(w, n)
      /\ (\E v \in Workers : SlotClaim(n) \in Shorts(proc[v]))
           <=> SlotClaim(n) \in Shorts(proc[w]) \/ ShortBeside(w, n)
      /\ (\E v \in Workers : SlotClaim(n) \in Owns(proc[v]))
           <=> SlotClaim(n) \in Owns(proc[w]) \/ OwnedBeside(w, n)
  BY DEF DrainedBeside, PlannedBeside, ShortBeside, OwnedBeside
<1>5. /\ (\E v \in Workers : SlotClaim(n) \in Drains(proc'[v]))
           <=> SlotClaim(n) \in Drains(g) \/ DrainedBeside(w, n)
      /\ (\E v \in Workers : SlotClaim(n) \in Plans(proc'[v]))
           <=> SlotClaim(n) \in Plans(g) \/ PlannedBeside(w, n)
      /\ (\E v \in Workers : SlotClaim(n) \in Shorts(proc'[v]))
           <=> SlotClaim(n) \in Shorts(g) \/ ShortBeside(w, n)
      /\ (\E v \in Workers : SlotClaim(n) \in Owns(proc'[v]))
           <=> SlotClaim(n) \in Owns(g) \/ OwnedBeside(w, n)
  BY <1>1 DEF DrainedBeside, PlannedBeside, ShortBeside, OwnedBeside
<1>6. Slot(n) = Around(proc[w], w, n, BagToSet(queue))
  BY <1>2, <1>4 DEF Where, Waits, Around
<1>7. Slot(n)' = Around(g, w, n, BagToSet(queue'))
  BY <1>3, <1>5 DEF Where, Waits, Around
<1> QED
  BY <1>6, <1>7

(* A slot with somebody has nobody else. *)
LEMMA NobodyBeside ==
  ASSUME TypeOK, SafetyInv, NEW w \in Workers, NEW n, SlotClaim(n) \in Claims(proc[w])
  PROVE  /\ ~DrainedBeside(w, n) /\ ~PlannedBeside(w, n) /\ ~ShortBeside(w, n) /\ ~OwnedBeside(w, n)
         /\ ~Waits(n, BagToSet(queue))
<1>1. w \in Procs
  BY CallersAreNoWorkers
<1>2. \A v \in Workers : v # w => SlotClaim(n) \notin Duties(proc[v])
  BY <1>1, CallersAreNoWorkers DEF SafetyInv, Exclusive, Claims
<1>3. ~Waits(n, BagToSet(queue))
  BY <1>1 DEF SafetyInv, Exclusive, Waits
<1> QED
  BY <1>2, <1>3 DEF Duties, DrainedBeside, PlannedBeside, ShortBeside, OwnedBeside

(* A slot nobody claims is with nobody. *)
LEMMA NobodyAtAll ==
  ASSUME TypeOK, SafetyInv, NEW w \in Workers, NEW n, SlotClaim(n) \notin Claimed
  PROVE  /\ ~DrainedBeside(w, n) /\ ~PlannedBeside(w, n) /\ ~ShortBeside(w, n) /\ ~OwnedBeside(w, n)
         /\ ~Waits(n, BagToSet(queue)) /\ SlotClaim(n) \notin Duties(proc[w])
<1>1. \A v \in Workers : SlotClaim(n) \notin Duties(proc[v])
  BY ClaimedIs, CallersAreNoWorkers DEF Claims
<1>2. ~Waits(n, BagToSet(queue))
  BY ClaimedIs DEF Waits
<1> QED
  BY <1>1, <1>2 DEF Duties, DrainedBeside, PlannedBeside, ShortBeside, OwnedBeside
----------------------------------------------------------------------------
(* The steps of the contract, as seen from the handlers. *)
SlotsStay == \A n \in Slots : Slot(n)' = Slot(n)

(* A handler that keeps its claims leaves the slots where they are. *)
LEMMA SlotsStayAlike ==
  ASSUME TypeOK, SafetyInv, TypeOK', SafetyInv', NEW w \in Workers, NEW g, Becomes(w, g),
         latest' = latest, Alike(proc[w], g), queue' = queue
  PROVE  SlotsStay
<1>1. SUFFICES ASSUME NEW n \in Slots PROVE Slot(n)' = Slot(n)
  BY DEF SlotsStay
<1>2. /\ Slot(n) = Around(proc[w], w, n, BagToSet(queue))
      /\ Slot(n)' = Around(g, w, n, BagToSet(queue'))
  BY SlotMoves
<1> QED
  BY <1>2 DEF Alike, Around

(* A slot whose task is taken stays owned. *)
LEMMA SlotsStayTaken ==
  ASSUME TypeOK, SafetyInv, TypeOK', SafetyInv', NEW w \in Workers, NEW g,
         NEW t \in BagToSet(queue), Takes(w, g, t)
  PROVE  SlotsStay
<1>1. SUFFICES ASSUME NEW n \in Slots PROVE Slot(n)' = Slot(n)
  BY DEF SlotsStay
<1>2. /\ Becomes(w, g) /\ latest' = latest /\ queue' = queue (-) SetToBag({t}) /\ proc[w].pc = "idle"
      /\ Plans(g) = {} /\ Shorts(g) = {} /\ Drains(g) = {}
      /\ Owns(g) = IF t.kind \in Enrichment THEN TaskClaims(t) ELSE {}
  BY DEF Takes, Runs, At
<1>3. Plans(proc[w]) = {} /\ Shorts(proc[w]) = {} /\ Drains(proc[w]) = {} /\ Owns(proc[w]) = {}
  <2>1. proc[w].pc \notin GiverPCs \cup OwnerPCs \cup {"promote"} /\ Fits(proc[w])
    BY <1>2, CallersAreNoWorkers DEF GiverPCs, OwnerPCs, SummaryPCs, SavingPCs, SafetyInv, Shapes
  <2> QED
    BY <2>1, NoDuties
<1>4. SlotClaim(n) \in Owns(g) <=> SlotClaim(n) \in TaskClaims(t)
  BY <1>2, ClaimOfTask DEF SlotClaim
<1>5. /\ BagToSet(queue') \subseteq BagToSet(queue) /\ BagToSet(queue) \subseteq BagToSet(queue') \cup {t}
  BY <1>2, TakenQueue DEF SafetyInv
<1>6. SlotClaim(n) \in Owns(g) \/ Waits(n, BagToSet(queue')) <=> Waits(n, BagToSet(queue))
  BY <1>4, <1>5 DEF Waits
<1>7. /\ Slot(n) = Around(proc[w], w, n, BagToSet(queue))
      /\ Slot(n)' = Around(g, w, n, BagToSet(queue'))
  BY <1>2, SlotMoves
<1>8. Around(proc[w], w, n, BagToSet(queue)) = Around(g, w, n, BagToSet(queue'))
  BY <1>2, <1>3, <1>6 DEF Around
<1> QED
  BY <1>7, <1>8

(* A slot whose task is put back stays owned. *)
LEMMA SlotsStayPut ==
  ASSUME TypeOK, SafetyInv, TypeOK', SafetyInv', NEW w \in Workers, NEW g, NEW t, PutsBack(w, g, t)
  PROVE  SlotsStay
<1>1. SUFFICES ASSUME NEW n \in Slots PROVE Slot(n)' = Slot(n)
  BY DEF SlotsStay
<1>2. /\ Becomes(w, g) /\ latest' = latest /\ Add(t)
      /\ TaskClaims(t) \subseteq Turn(proc[w]) \cup Holds(proc[w])
      /\ Plans(g) = Plans(proc[w]) /\ Shorts(g) = Shorts(proc[w]) /\ Drains(g) = Drains(proc[w])
      /\ Owns(g) = Owns(proc[w]) \ TaskClaims(t)
      /\ Holds(g) = Holds(proc[w]) \ TaskClaims(t)
  BY DEF PutsBack, Puts, Runs
<1>3. BagToSet(queue') = BagToSet(queue) \cup {t}
  BY <1>2, PutQueue
<1>4. SlotClaim(n) \in TaskClaims(t) => SlotClaim(n) \in Owns(proc[w])
  <2>1. SlotClaim(n) \notin Turn(proc[w])
    BY DEF Turn, Driver, ImagesOf, SlotClaim
  <2>2. SlotClaim(n) \in TaskClaims(t) => SlotClaim(n) \in Holds(proc[w]) /\ SlotClaim(n) \notin Holds(g)
    BY <1>2, <2>1
  <2> QED
    BY <1>2, <2>2 DEF Holds, Duties
<1>5. Waits(n, BagToSet(queue')) <=> SlotClaim(n) \in TaskClaims(t) \/ Waits(n, BagToSet(queue))
  BY <1>3 DEF Waits
<1>6. SlotClaim(n) \in Owns(g) \/ Waits(n, BagToSet(queue'))
        <=> SlotClaim(n) \in Owns(proc[w]) \/ Waits(n, BagToSet(queue))
  BY <1>2, <1>4, <1>5
<1>7. /\ Slot(n) = Around(proc[w], w, n, BagToSet(queue))
      /\ Slot(n)' = Around(g, w, n, BagToSet(queue'))
  BY <1>2, SlotMoves
<1>8. Around(proc[w], w, n, BagToSet(queue)) = Around(g, w, n, BagToSet(queue'))
  BY <1>2, <1>6 DEF Around, Where
<1> QED
  BY <1>7, <1>8

(* A step that leaves the slots, and the row or its status and counter. *)
LEMMA CounterStays ==
  ASSUME SlotsStay, row' = row PROVE [Counter!Next]_(Counter!vars)
<1>1. Status' = Status /\ Count' = Count
  BY DEF Status, Count
<1>2. [n \in Slots |-> Slot(n)]' = [n \in Slots |-> Slot(n)]
  BY DEF SlotsStay
<1> QED
  BY <1>1, <1>2 DEF Counter!vars

(* A step that stops the document and leaves the slots is Stop. *)
LEMMA CounterStops ==
  ASSUME SlotsStay, Status' = "stopped", Count' \in {Count, 0} PROVE [Counter!Next]_(Counter!vars)
<1>1. [n \in Slots |-> Slot(n)]' = [n \in Slots |-> Slot(n)]
  BY DEF SlotsStay
<1>2. Counter!Stop
  BY <1>1 DEF Counter!Stop
<1> QED
  BY <1>2 DEF Counter!Next

(* The save of the row by the parser stutters, or is Stop. *)
LEMMA SaveRefines ==
  ASSUME TypeOK, SafetyInv, TypeOK', SafetyInv', NEW w \in Workers, NEW g,
         NEW s \in {"processing", "failed"}, Saves(w, g, s)
  PROVE  [Counter!Next]_(Counter!vars)
<1>1. /\ Becomes(w, g) /\ latest' = latest /\ queue' = queue /\ row' = Saved(row, s)
      /\ Duties(g) = {} /\ Duties(proc[w]) = {} /\ proc[w].pc \in SaverPCs
  BY DEF Saves, Runs
<1>2. SlotsStay
  <2>1. Alike(proc[w], g)
    BY <1>1 DEF Duties, Alike
  <2> QED
    BY <1>1, <2>1, SlotsStayAlike
<1>3. Has(row, {"pending", "processing"})
  BY <1>1, SaverAlone
<1>4. ~row'.gone /\ row'.status = s /\ row'.count = row.count
  BY <1>1, <1>3 DEF Saved, Has, TypeOK, Rows
<1>5. Count' = Count
  BY <1>3, <1>4 DEF Count, Has
<1>6. CASE s = "failed"
  BY <1>2, <1>4, <1>5, <1>6, CounterStops DEF Status
<1>7. CASE s = "processing"
  <2>1. Status' = Status
    BY <1>3, <1>4, <1>7 DEF Status, Has
  <2>2. [n \in Slots |-> Slot(n)]' = [n \in Slots |-> Slot(n)]
    BY <1>2 DEF SlotsStay
  <2> QED
    BY <1>5, <2>1, <2>2 DEF Counter!vars
<1> QED
  BY <1>6, <1>7

(* The end of post-processing is NothingToDo, Stop or a stutter. *)
LEMMA PostEndRefines ==
  ASSUME TypeOK, SafetyInv, TypeOK', SafetyInv', NEW w \in Workers, NEW g,
         PostFails(w, g) \/ CompletesNow(w, g)
  PROVE  [Counter!Next]_(Counter!vars)
<1>1. /\ Becomes(w, g) /\ latest' = latest /\ queue' = queue /\ proc[w].pc \in PosterPCs
      /\ Duties(g) = {} /\ Duties(proc[w]) = {}
  BY DEF PostFails, CompletesNow, Runs
<1>2. SlotsStay
  <2>1. Alike(proc[w], g)
    BY <1>1 DEF Duties, Alike
  <2> QED
    BY <1>1, <2>1, SlotsStayAlike
<1>3. CASE row' = row
  BY <1>2, <1>3, CounterStays
<1>4. CASE PostFails(w, g) /\ row' # row
  <2>1. row' = [row EXCEPT !.status = "failed"]
    BY <1>4 DEF PostFails, FailedIfActive
  <2>2. Status' = "stopped" /\ Count' = Count
    BY <2>1 DEF Status, Count, TypeOK, Rows
  <2> QED
    BY <1>2, <2>2, CounterStops
<1>5. CASE CompletesNow(w, g) /\ row' # row
  <2>1. row' = [row EXCEPT !.status = "completed", !.count = 0] /\ Has(row, {"processing"})
    BY <1>5 DEF CompletesNow, CompletedAtOnce
  <2>2. row.count = 0
    <3>1. ~Requested(ReparsePCs)
      BY <1>1, PosterAlone
    <3>2. ~Requested({"re.zero"})
      BY <3>1 DEF Requested, ReparsePCs
    <3> QED
      BY <2>1, <3>2 DEF SafetyInv, Phases, Has
  <2>3. Status = "processing" /\ Status' = "completed" /\ Count' = Count
    BY <2>1, <2>2 DEF Status, Count, Has, TypeOK, Rows
  <2>4. [n \in Slots |-> Slot(n)]' = [n \in Slots |-> Slot(n)]
    BY <1>2 DEF SlotsStay
  <2>5. Counter!NothingToDo
    BY <2>3, <2>4 DEF Counter!NothingToDo
  <2> QED
    BY <2>5 DEF Counter!Next
<1> QED
  BY <1>3, <1>4, <1>5
----------------------------------------------------------------------------
(* A step that moves one slot. *)
LEMMA OneSlotMoves ==
  ASSUME NEW n \in Slots, NEW s, Slot(n)' = s, \A m \in Slots : m # n => Slot(m)' = Slot(m)
  PROVE  [m \in Slots |-> Slot(m)]' = [[m \in Slots |-> Slot(m)] EXCEPT ![n] = s]
OBVIOUS

(* SetFinalizing is HandOff. *)
LEMMA HandOverRefines ==
  ASSUME TypeOK, SafetyInv, TypeOK', SafetyInv', NEW w \in Workers, NEW g, HandsOver(w, g)
  PROVE  Counter!HandOff
<1> DEFINE S == proc[w].todo
<1>1. /\ Becomes(w, g) /\ latest' = latest /\ queue' = queue /\ S \subseteq Slots /\ S # {}
      /\ Has(row, {"processing"}) /\ row' = HandedOff(row, Cardinality(S))
      /\ g.pc = "post.spawn" /\ g.short = {} /\ Duties(g) = SlotsOf(latest, S)
  BY DEF HandsOver, Runs
<1>2. Shorts(g) = {} /\ Owns(g) = {} /\ Drains(g) = {} /\ Plans(g) = SlotsOf(latest, S)
  <2>1. Shorts(g) = {}
    BY <1>1 DEF Shorts, SlotsOf
  <2>2. Owns(g) = {} /\ Drains(g) = {}
    BY <1>1 DEF Owns, Drains, OwnerPCs, SummaryPCs, SavingPCs
  <2> QED
    BY <1>1, <2>1, <2>2 DEF Duties
<1>3. SlotsOf(latest, Slots) \cap Claimed = {}
  BY <1>1 DEF SafetyInv, Enriching, Has
<1> HIDE DEF S
<1>4. ASSUME NEW n \in Slots PROVE Slot(n)' = IF n \in S THEN "planned" ELSE "free"
  <2>1. SlotClaim(n) \notin Claimed
    BY <1>3 DEF SlotClaim, SlotsOf
  <2>2. /\ ~DrainedBeside(w, n) /\ ~PlannedBeside(w, n) /\ ~ShortBeside(w, n) /\ ~OwnedBeside(w, n)
        /\ ~Waits(n, BagToSet(queue'))
    BY <1>1, <2>1, NobodyAtAll
  <2>3. SlotClaim(n) \in Plans(g) <=> n \in S
    BY <1>2 DEF SlotClaim, SlotsOf
  <2>4. Slot(n)' = Around(g, w, n, BagToSet(queue'))
    BY <1>1, SlotMoves
  <2> QED
    BY <1>2, <2>2, <2>3, <2>4 DEF Around, Where
<1>5. [n \in Slots |-> Slot(n)]' = [n \in Slots |-> IF n \in S THEN "planned" ELSE "free"]
  BY <1>4
<1>6. Status = "processing" /\ Status' = "finalizing" /\ Count' = Cardinality(S)
  BY <1>1 DEF Status, Count, HandedOff, Has, TypeOK, Rows
<1>7. Counter!Cardinality(S) = Cardinality(S)
  BY DEF Cardinality, Counter!Cardinality
<1> QED
  BY <1>1, <1>5, <1>6, <1>7 DEF Counter!HandOff

(* Enqueueing an enrichment task, or failing to, is Spawn. *)
LEMMA SpawnRefines ==
  ASSUME TypeOK, SafetyInv, TypeOK', SafetyInv', NEW w \in Workers, NEW g, NEW n \in Slots,
         Spawns(w, g, n)
  PROVE  Counter!Spawn(n)
<1> DEFINE t == Task(KindOf(n), g.att, n)
<1>1. /\ Becomes(w, g) /\ latest' = latest /\ row' = row /\ g.att = proc[w].att
      /\ <<"slot", g.att, n>> \in Plans(proc[w]) /\ Plans(g) = Plans(proc[w]) \ {<<"slot", g.att, n>>}
      /\ Owns(g) = {} /\ Drains(g) = {} /\ Owns(proc[w]) = {} /\ Drains(proc[w]) = {}
      /\ Plans(proc[w]) \cap Shorts(proc[w]) = {}
      /\ \/ Add(t) /\ Shorts(g) = Shorts(proc[w])
         \/ queue' = queue /\ Shorts(g) = Shorts(proc[w]) \cup {<<"slot", g.att, n>>}
  BY DEF Spawns, Runs
<1>2. g.att = latest
  <2>1. <<"slot", g.att, n>> \in SlotsOf(latest, Slots)
    BY <1>1 DEF SafetyInv, Enriching, Holds, Duties
  <2> QED
    BY <2>1 DEF SlotsOf
<1>3. SlotClaim(n) \in Plans(proc[w]) /\ SlotClaim(n) \notin Shorts(proc[w])
  BY <1>1, <1>2 DEF SlotClaim
<1>4. /\ ~DrainedBeside(w, n) /\ ~PlannedBeside(w, n) /\ ~ShortBeside(w, n) /\ ~OwnedBeside(w, n)
      /\ ~Waits(n, BagToSet(queue))
  BY <1>3, NobodyBeside DEF Claims, Duties
<1>5. \A m \in Slots : SlotClaim(m) \in TaskClaims(t) <=> m = n
  <2>1. t.kind \in Enrichment /\ t.att = latest /\ t.n = n
    BY <1>2, KindsOfSlots DEF Task
  <2> HIDE DEF t
  <2> QED
    BY <2>1, ClaimOfTask DEF SlotClaim
<1> HIDE DEF t
<1>6. \A m \in Slots : SlotClaim(m) = <<"slot", g.att, n>> <=> m = n
  BY <1>2 DEF SlotClaim
<1>7. \A m \in Slots : /\ Slot(m) = Around(proc[w], w, m, BagToSet(queue))
                       /\ Slot(m)' = Around(g, w, m, BagToSet(queue'))
  BY <1>1, SlotMoves
<1>8. Add(t) => BagToSet(queue') = BagToSet(queue) \cup {t}
  BY PutQueue
<1>9. Add(t) => \A m \in Slots : Waits(m, BagToSet(queue')) <=> m = n \/ Waits(m, BagToSet(queue))
  BY <1>5, <1>8 DEF Waits
<1>10. ASSUME NEW m \in Slots, m # n PROVE Slot(m)' = Slot(m)
  <2>1. /\ SlotClaim(m) \in Plans(g) <=> SlotClaim(m) \in Plans(proc[w])
        /\ SlotClaim(m) \in Shorts(g) <=> SlotClaim(m) \in Shorts(proc[w])
        /\ Waits(m, BagToSet(queue')) <=> Waits(m, BagToSet(queue))
    BY <1>1, <1>6, <1>9, <1>10
  <2> QED
    BY <1>1, <1>7, <2>1 DEF Around
<1>11. Slot(n) = "planned"
  BY <1>1, <1>3, <1>4, <1>7 DEF Around, Where
<1>12. Slot(n)' \in {"owned", "short"}
  <2>1. SlotClaim(n) \notin Plans(g)
    BY <1>1, <1>6
  <2>2. SlotClaim(n) \in Shorts(g) \/ Waits(n, BagToSet(queue'))
    BY <1>1, <1>6, <1>9
  <2> QED
    BY <1>1, <1>4, <1>7, <2>1, <2>2 DEF Around, Where
<1>13. PICK s \in {"owned", "short"} : Slot(n)' = s
  BY <1>12
<1>14. [m \in Slots |-> Slot(m)]' = [[m \in Slots |-> Slot(m)] EXCEPT ![n] = s]
  BY <1>10, <1>13, OneSlotMoves
<1>15. Status' = Status /\ Count' = Count
  BY <1>1 DEF Status, Count
<1> QED
  BY <1>11, <1>14, <1>15 DEF Counter!Spawn

(* The first statement of FinalizeSubtask is GiveBack. *)
LEMMA GiveBackRefines ==
  ASSUME TypeOK, SafetyInv, TypeOK', SafetyInv', NEW w \in Workers, NEW g, NEW n \in Slots,
         GivesBack(w, g, n), proc[w].att = latest
  PROVE  Counter!GiveBack(n)
<1>1. /\ Becomes(w, g) /\ latest' = latest /\ row' = Decremented(row) /\ queue' = queue
      /\ g.att = latest /\ <<"slot", latest, n>> \in Holds(proc[w]) /\ Drains(proc[w]) = {}
      /\ Drains(g) = {<<"slot", latest, n>>} /\ Plans(g) = {} /\ Plans(proc[w]) = {}
      /\ Shorts(g) = Shorts(proc[w]) /\ Owns(g) = Owns(proc[w]) \ Drains(g)
  BY DEF GivesBack, Runs
<1>2. \A m \in Slots : SlotClaim(m) = <<"slot", latest, n>> <=> m = n
  BY DEF SlotClaim
<1>3. SlotClaim(n) \in Shorts(proc[w]) \cup Owns(proc[w])
  BY <1>1, <1>2 DEF Holds, Duties
<1>4. ~DrainedBeside(w, n) /\ ~PlannedBeside(w, n) /\ ~ShortBeside(w, n) /\ ~OwnedBeside(w, n)
  BY <1>3, NobodyBeside DEF Claims, Duties
<1>5. \A m \in Slots : /\ Slot(m) = Around(proc[w], w, m, BagToSet(queue))
                       /\ Slot(m)' = Around(g, w, m, BagToSet(queue'))
  BY <1>1, SlotMoves
<1>6. ASSUME NEW m \in Slots, m # n PROVE Slot(m)' = Slot(m)
  <2>1. /\ SlotClaim(m) \notin Drains(g)
        /\ SlotClaim(m) \in Owns(g) <=> SlotClaim(m) \in Owns(proc[w])
    BY <1>1, <1>2, <1>6
  <2> QED
    BY <1>1, <1>5, <2>1 DEF Around
<1>7. Slot(n) \in {"owned", "short"}
  BY <1>1, <1>3, <1>4, <1>5 DEF Around, Where
<1>8. Slot(n)' = "drained"
  <2>1. SlotClaim(n) \in Drains(g)
    BY <1>1, <1>2
  <2> QED
    BY <1>5, <2>1 DEF Around, Where
<1>9. [m \in Slots |-> Slot(m)]' = [[m \in Slots |-> Slot(m)] EXCEPT ![n] = "drained"]
  BY <1>6, <1>8, OneSlotMoves
<1>10. Status' = Status /\ Count' = IF Count > 0 THEN Count - 1 ELSE Count
  BY <1>1 DEF Status, Count, Decremented, TypeOK, Rows
<1> QED
  BY <1>7, <1>9, <1>10 DEF Counter!GiveBack

(* The second statement is Promote, or PromoteLate for an earlier attempt. *)
LEMMA PromoteRefines ==
  ASSUME TypeOK, SafetyInv, TypeOK', SafetyInv', NEW w \in Workers, NEW g, NEW n \in Slots,
         Promotes(w, g, n)
  PROVE  [Counter!Next]_(Counter!vars)
<1>1. /\ Becomes(w, g) /\ latest' = latest /\ row' = Promoted(row) /\ queue' = queue
      /\ Drains(g) = {} /\ Plans(g) = {} /\ Plans(proc[w]) = {}
      /\ Owns(g) = {} /\ Owns(proc[w]) = {} /\ Drains(proc[w]) = {<<"slot", proc[w].att, n>>}
      /\ Shorts(g) = Shorts(proc[w]) \ Drains(proc[w])
  BY DEF Promotes, Runs
<1>2. \A m \in Slots : /\ Slot(m) = Around(proc[w], w, m, BagToSet(queue))
                       /\ Slot(m)' = Around(g, w, m, BagToSet(queue'))
  BY <1>1, SlotMoves
<1>3. /\ Status' = IF Status = "finalizing" /\ Count = 0 THEN "completed" ELSE Status
      /\ Count' = Count
  BY <1>1 DEF Status, Count, Promoted, CanPromote, Has, TypeOK, Rows
<1>4. CASE proc[w].att = latest
  <2>1. \A m \in Slots : SlotClaim(m) = <<"slot", proc[w].att, n>> <=> m = n
    BY <1>4 DEF SlotClaim
  <2>2. SlotClaim(n) \in Drains(proc[w])
    BY <1>1, <2>1
  <2>3. /\ ~DrainedBeside(w, n) /\ ~PlannedBeside(w, n) /\ ~ShortBeside(w, n) /\ ~OwnedBeside(w, n)
        /\ ~Waits(n, BagToSet(queue))
    BY <2>2, NobodyBeside DEF Claims, Duties
  <2>4. ASSUME NEW m \in Slots, m # n PROVE Slot(m)' = Slot(m)
    <3>1. /\ SlotClaim(m) \notin Drains(proc[w])
          /\ SlotClaim(m) \in Shorts(g) <=> SlotClaim(m) \in Shorts(proc[w])
      BY <1>1, <2>1, <2>4
    <3> QED
      BY <1>1, <1>2, <3>1 DEF Around
  <2>5. Slot(n) = "drained"
    BY <1>2, <2>2 DEF Around, Where
  <2>6. Slot(n)' = "free"
    <3>1. SlotClaim(n) \notin Shorts(g)
      BY <1>1, <2>2
    <3> QED
      BY <1>1, <1>2, <2>3, <3>1 DEF Around, Where
  <2>7. [m \in Slots |-> Slot(m)]' = [[m \in Slots |-> Slot(m)] EXCEPT ![n] = "free"]
    BY <2>4, <2>6, OneSlotMoves
  <2>8. Counter!Promote(n)
    BY <1>3, <2>5, <2>7 DEF Counter!Promote
  <2> QED
    BY <2>8 DEF Counter!Next
<1>5. CASE proc[w].att # latest
  <2>1. ASSUME NEW m \in Slots PROVE Slot(m)' = Slot(m)
    <3>1. SlotClaim(m) # <<"slot", proc[w].att, n>>
      BY <1>5 DEF SlotClaim
    <3>2. /\ SlotClaim(m) \notin Drains(proc[w])
          /\ SlotClaim(m) \in Shorts(g) <=> SlotClaim(m) \in Shorts(proc[w])
      BY <1>1, <3>1
    <3> QED
      BY <1>1, <1>2, <3>2 DEF Around
  <2>2. [m \in Slots |-> Slot(m)]' = [m \in Slots |-> Slot(m)]
    BY <2>1
  <2>3. CASE Status = "finalizing" /\ Count = 0
    <3>1. Counter!PromoteLate
      BY <1>3, <2>2, <2>3 DEF Counter!PromoteLate
    <3> QED
      BY <3>1 DEF Counter!Next
  <2>4. CASE ~(Status = "finalizing" /\ Count = 0)
    BY <1>3, <2>2, <2>4 DEF Counter!vars
  <2> QED
    BY <2>3, <2>4
<1> QED
  BY <1>4, <1>5

(* Every step of a worker is a step of the contract, or a stutter. *)
LEMMA WorkerRefines ==
  ASSUME TypeOK, Calm, SafetyInv, TypeOK', SafetyInv', NEW w \in Workers, WorkerStep(w)
  PROVE  [Counter!Next]_(Counter!vars)
<1>1. WorkerKinds(w)
  BY WorkerStepKind
<1>2. ~Requested(SweepPCs)
  BY NoSweep DEF SafetyInv
<1>3. ASSUME NEW g, Moves(w, g) \/ Counts(w, g) \/ SetsCounter(w, g) PROVE [Counter!Next]_(Counter!vars)
  <2>1. Becomes(w, g) /\ latest' = latest /\ row' = row /\ queue' = queue /\ Alike(proc[w], g)
    BY <1>3 DEF Moves, Shifts, Counts, SetsCounter, Runs, Duties, Alike
  <2> QED
    BY <2>1, SlotsStayAlike, CounterStays
<1>4. ASSUME NEW g, NEW t, (t \in BagToSet(queue) /\ Takes(w, g, t)) \/ PutsBack(w, g, t)
      PROVE  [Counter!Next]_(Counter!vars)
  <2>1. row' = row
    BY <1>4 DEF Takes, PutsBack, Puts
  <2> QED
    BY <1>4, <2>1, SlotsStayTaken, SlotsStayPut, CounterStays
<1>5. ASSUME NEW g, NEW n \in Slots, Spawns(w, g, n) PROVE [Counter!Next]_(Counter!vars)
  BY <1>5, SpawnRefines DEF Counter!Next
<1>6. ASSUME NEW g, NEW n \in Slots, GivesBack(w, g, n) PROVE [Counter!Next]_(Counter!vars)
  BY <1>2, <1>6, GiveBackIsSafe, GiveBackRefines DEF Counter!Next
<1>7. ASSUME NEW g, HandsOver(w, g) PROVE [Counter!Next]_(Counter!vars)
  BY <1>7, HandOverRefines DEF Counter!Next
<1> QED
  BY <1>1, <1>3, <1>4, <1>5, <1>6, <1>7, SaveRefines, PostEndRefines, PromoteRefines DEF WorkerKinds
----------------------------------------------------------------------------
(* The requests and the contract. *)
LEMMA WorkersStay ==
  ASSUME TypeOK, Calm, SafetyInv, NEW c \in Callers, ApiStep(c)
  PROVE  \A w \in Workers : proc'[w] = proc[w]
<1>1. \A g : Becomes(c, g) => \A w \in Workers : proc'[w] = proc[w]
  BY RequesterIs
<1>2. \A pc : Goto(c, pc) => \A w \in Workers : proc'[w] = proc[w]
  BY <1>1 DEF Goto, Becomes
<1>3. Leave(c) => \A w \in Workers : proc'[w] = proc[w]
  BY <1>1 DEF Leave, Becomes
<1>4. \A k, a, pc : Request(c, k, a, pc) => \A w \in Workers : proc'[w] = proc[w]
  BY <1>1 DEF Request, Becomes
<1>5. ReparseOpen(c) \/ CancelRead(c) \/ DeleteMark(c) \/ SweepFind(c)
        => \A w \in Workers : proc'[w] = proc[w]
  BY <1>4 DEF ReparseOpen, CancelRead, DeleteMark, SweepFind
<1>6. ReparseClean(c) \/ ReparseReset(c) \/ ReparseZero(c) \/ ReparseEnqueue(c) \/ ReparseFailed(c)
        => \A w \in Workers : proc'[w] = proc[w]
  BY <1>2, <1>3 DEF ReparseClean, ReparseReset, ReparseZero, ReparseEnqueue, ReparseFailed
<1>7. CancelMark(c) \/ Dequeue(c) \/ DeletePurge(c) \/ DeleteRow(c) \/ SweepUpdate(c)
        => \A w \in Workers : proc'[w] = proc[w]
  BY <1>2, <1>3 DEF CancelMark, Dequeue, DeletePurge, DeleteRow, SweepUpdate
<1> QED
  BY <1>5, <1>6, <1>7 DEF ApiStep

(* Where a slot is, for an attempt and the tasks that wait. *)
Place(a, n, tasks) ==
    Where(\E w \in Workers : <<"slot", a, n>> \in Drains(proc[w]),
          \E w \in Workers : <<"slot", a, n>> \in Plans(proc[w]),
          \E w \in Workers : <<"slot", a, n>> \in Shorts(proc[w]),
          \/ \E w \in Workers : <<"slot", a, n>> \in Owns(proc[w])
          \/ \E t \in tasks : <<"slot", a, n>> \in TaskClaims(t))

(* A slot before and after a step that moves no worker. *)
LEMMA SlotsBeside ==
  ASSUME TypeOK, SafetyInv, TypeOK', SafetyInv', \A w \in Workers : proc'[w] = proc[w], NEW n \in Slots
  PROVE  /\ Slot(n) = Place(latest, n, BagToSet(queue))
         /\ Slot(n)' = Place(latest', n, BagToSet(queue'))
<1>1. Slot(n) = Place(latest, n, BagToSet(queue))
  BY SlotsAreRead DEF SlotsRead, SlotClaim, Place
<1>2. Slot(n)' = Where(\E w \in Workers : <<"slot", latest', n>> \in Drains(proc'[w]),
                       \E w \in Workers : <<"slot", latest', n>> \in Plans(proc'[w]),
                       \E w \in Workers : <<"slot", latest', n>> \in Shorts(proc'[w]),
                       \/ \E w \in Workers : <<"slot", latest', n>> \in Owns(proc'[w])
                       \/ \E t \in BagToSet(queue') : <<"slot", latest', n>> \in TaskClaims(t))
  BY SlotsAreReadNext DEF SlotsRead, SlotClaim
<1>3. /\ (\E w \in Workers : <<"slot", latest', n>> \in Drains(proc'[w]))
           <=> \E w \in Workers : <<"slot", latest', n>> \in Drains(proc[w])
      /\ (\E w \in Workers : <<"slot", latest', n>> \in Plans(proc'[w]))
           <=> \E w \in Workers : <<"slot", latest', n>> \in Plans(proc[w])
      /\ (\E w \in Workers : <<"slot", latest', n>> \in Shorts(proc'[w]))
           <=> \E w \in Workers : <<"slot", latest', n>> \in Shorts(proc[w])
      /\ (\E w \in Workers : <<"slot", latest', n>> \in Owns(proc'[w]))
           <=> \E w \in Workers : <<"slot", latest', n>> \in Owns(proc[w])
  OBVIOUS
<1> QED
  BY <1>1, <1>2, <1>3 DEF Place, Where

(* The slots stay where they are when no worker moves. *)
LEMMA SlotsStayBeside ==
  ASSUME TypeOK, SafetyInv, TypeOK', SafetyInv', \A w \in Workers : proc'[w] = proc[w],
         latest' = latest,
         \A n \in Slots : Waits(n, BagToSet(queue')) <=> Waits(n, BagToSet(queue))
  PROVE  SlotsStay
<1>1. SUFFICES ASSUME NEW n \in Slots PROVE Slot(n)' = Slot(n)
  BY DEF SlotsStay
<1>2. /\ Slot(n) = Place(latest, n, BagToSet(queue))
      /\ Slot(n)' = Place(latest, n, BagToSet(queue'))
  BY SlotsBeside
<1>3. (\E t \in BagToSet(queue') : <<"slot", latest, n>> \in TaskClaims(t))
        <=> \E t \in BagToSet(queue) : <<"slot", latest, n>> \in TaskClaims(t)
  BY DEF Waits, SlotClaim
<1> QED
  BY <1>2, <1>3 DEF Place, Where

(* Before the hand-over every slot is free. *)
LEMMA NobodyHasAny ==
  ASSUME TypeOK, SafetyInv, SlotsOf(latest, Slots) \cap Claimed = {}, NEW n \in Slots
  PROVE  Slot(n) = "free"
<1>1. SlotClaim(n) \notin Claimed
  BY DEF SlotClaim, SlotsOf
<1>2. \A w \in Workers : SlotClaim(n) \notin Duties(proc[w])
  BY <1>1, NobodyAtAll
<1>3. \A t \in BagToSet(queue) : SlotClaim(n) \notin TaskClaims(t)
  BY <1>1, ClaimedIs
<1>4. \A w \in Workers : /\ SlotClaim(n) \notin Drains(proc[w]) /\ SlotClaim(n) \notin Plans(proc[w])
                         /\ SlotClaim(n) \notin Shorts(proc[w]) /\ SlotClaim(n) \notin Owns(proc[w])
  BY <1>2 DEF Duties
<1> QED
  BY <1>3, <1>4, SlotsAreRead DEF SlotsRead, Where
----------------------------------------------------------------------------
(* Opening a new attempt is NewAttempt. *)
LEMMA ReparseOpenRefines ==
  ASSUME TypeOK, Calm, SafetyInv, TypeOK', SafetyInv', NEW c \in Callers, ReparseOpen(c)
  PROVE  Counter!NewAttempt
<1>1. /\ Has(row, {"completed", "failed"}) /\ latest' = latest + 1 /\ row' = row
      /\ \A w \in Workers : Holds(proc[w]) = {}
      /\ BagToSet(queue) = {} /\ queue' = queue
  BY ReparseOpenIsSafe DEF ReparseOpen, Calm, Has
<1>2. \A w \in Workers : proc'[w] = proc[w]
  BY WorkersStay DEF ApiStep
<1>3. \A n \in Slots : /\ Slot(n) = Place(latest, n, BagToSet(queue))
                       /\ Slot(n)' = Place(latest + 1, n, BagToSet(queue'))
  BY <1>1, <1>2, SlotsBeside
<1>4. ASSUME NEW n \in Slots PROVE Slot(n) \notin {"planned", "short", "owned"}
  <2>1. \A w \in Workers : Duties(proc[w]) \subseteq Drains(proc[w])
    BY <1>1 DEF Holds
  <2>2. \A w \in Workers : /\ Plans(proc[w]) \subseteq Drains(proc[w])
                           /\ Shorts(proc[w]) \subseteq Drains(proc[w])
                           /\ Owns(proc[w]) \subseteq Drains(proc[w])
    BY <2>1 DEF Duties
  <2> QED
    BY <1>1, <1>3, <2>2 DEF Place, Where
<1>5. ASSUME NEW n \in Slots PROVE Slot(n)' = "free"
  <2>1. \A w \in Workers : <<"slot", latest + 1, n>> \notin Duties(proc[w])
    <3>1. SUFFICES ASSUME NEW w \in Workers, <<"slot", latest + 1, n>> \in Duties(proc[w]) PROVE FALSE
      OBVIOUS
    <3>2. proc[w].att = latest + 1
      BY <3>1, DutiesOf
    <3>3. latest \in Nat /\ proc[w].att \in Nat /\ proc[w].att <= latest
      <4>1. w \in Procs
        BY CallersAreNoWorkers
      <4> QED
        BY <4>1, FramesAreLocals, PipelineAssumption DEF TypeOK, Attempts, Locals, SafetyInv, Shapes
    <3> QED
      BY <3>2, <3>3
  <2>2. \A w \in Workers : /\ <<"slot", latest + 1, n>> \notin Drains(proc[w])
                           /\ <<"slot", latest + 1, n>> \notin Plans(proc[w])
                           /\ <<"slot", latest + 1, n>> \notin Shorts(proc[w])
                           /\ <<"slot", latest + 1, n>> \notin Owns(proc[w])
    BY <2>1 DEF Duties
  <2> QED
    BY <1>1, <1>3, <2>2 DEF Place, Where
<1>6. [n \in Slots |-> Slot(n)]' = [n \in Slots |-> "free"]
  BY <1>5
<1>7. Counter!Held = {}
  BY <1>4 DEF Counter!Held
<1>8. Status \in {"completed", "stopped"} /\ Status' = Status /\ Count' = Count
  BY <1>1 DEF Status, Count, Has
<1> QED
  BY <1>6, <1>7, <1>8 DEF Counter!NewAttempt

(* The rest of a reparse is Reset, ZeroCount and, when it fails, Stop. *)
LEMMA ReparseRefines ==
  ASSUME TypeOK, Calm, SafetyInv, TypeOK', SafetyInv', NEW c \in Callers,
         ReparseReset(c) \/ ReparseZero(c) \/ ReparseFailed(c)
  PROVE  [Counter!Next]_(Counter!vars)
<1> USE DEF ReparsePCs, At
<1>1. "db" \notin Faults
  BY CalmSteps
<1>2. proc[c].pc \in ReparsePCs /\ latest' = latest /\ queue' = queue
  BY DEF ReparseReset, ReparseZero, ReparseFailed, RowOnly
<1>3. /\ proc[c].pc \in {"re.clean", "re.reset"} => Has(row, {"completed", "failed"})
      /\ proc[c].pc \in {"re.zero", "re.enqueue", "re.failed"} => Has(row, {"pending"})
      /\ SlotsOf(latest, Slots) \cap Claimed = {}
  BY <1>2, Reparses
<1>4. \A w \in Workers : proc'[w] = proc[w]
  BY WorkersStay DEF ApiStep
<1>5. SlotsStay
  BY <1>2, <1>4, SlotsStayBeside
<1>6. [n \in Slots |-> Slot(n)] = [n \in Slots |-> "free"]
  BY <1>3, NobodyHasAny
<1>7. [n \in Slots |-> Slot(n)]' = [n \in Slots |-> Slot(n)]
  BY <1>5 DEF SlotsStay
<1>8. CASE ReparseReset(c)
  <2>1. row' = Saved(row, "pending") /\ Has(row, {"completed", "failed"})
    BY <1>1, <1>3, <1>8 DEF ReparseReset
  <2>2. Status \in {"completed", "stopped"} /\ Status' = "processing" /\ Count' = Count
    BY <2>1 DEF Status, Count, Saved, Has, TypeOK, Rows
  <2>3. Counter!Reset
    BY <1>6, <1>7, <2>2 DEF Counter!Reset
  <2> QED
    BY <2>3 DEF Counter!Next
<1>9. CASE ReparseZero(c)
  <2>1. row' = ZeroCount(row) /\ Has(row, {"pending"})
    BY <1>1, <1>3, <1>9 DEF ReparseZero
  <2>2. Status = "processing" /\ Status' = Status /\ Count' = 0
    BY <2>1 DEF Status, Count, ZeroCount, Has, TypeOK, Rows
  <2>3. Counter!ZeroCount
    BY <1>7, <2>2 DEF Counter!ZeroCount
  <2> QED
    BY <2>3 DEF Counter!Next
<1>10. CASE ReparseFailed(c)
  <2>1. row' = Saved(row, "failed") /\ Has(row, {"pending"})
    BY <1>1, <1>3, <1>10 DEF ReparseFailed, TrySave
  <2>2. Status' = "stopped" /\ Count' \in {Count, 0}
    BY <2>1 DEF Status, Count, Saved, Has, TypeOK, Rows
  <2> QED
    BY <1>5, <2>2, CounterStops
<1> QED
  BY <1>8, <1>9, <1>10

(* A request that leaves the row, or stops the document. *)
LEMMA RestOrStopRefines ==
  ASSUME TypeOK, Calm, SafetyInv, TypeOK', SafetyInv', NEW c \in Callers,
         \/ ReparseClean(c) \/ CancelRead(c) \/ CancelMark(c) \/ DeleteMark(c) \/ DeletePurge(c)
         \/ DeleteRow(c) \/ SweepFind(c) \/ SweepUpdate(c)
  PROVE  [Counter!Next]_(Counter!vars)
<1>1. latest' = latest /\ queue' = queue
  BY DEF ReparseClean, CancelRead, CancelMark, DeleteMark, DeletePurge, DeleteRow, SweepFind,
     SweepUpdate, StoredOnly, RowOnly
<1>2. SlotsStay
  <2>1. \A w \in Workers : proc'[w] = proc[w]
    BY WorkersStay DEF ApiStep
  <2> QED
    BY <1>1, <2>1, SlotsStayBeside
<1>3. CASE row' = row
  BY <1>2, <1>3, CounterStays
<1>4. CASE row' # row
  <2>1. \/ row' \in {CancelledByUser(row), MarkedDeleting(row), Removed(row)}
        \/ row' \in {SweptStuck(row), SweptDelete(row)}
    BY <1>4 DEF ReparseClean, CancelRead, CancelMark, DeleteMark, DeletePurge, DeleteRow, SweepFind,
       SweepUpdate, StoredOnly, RowOnly
  <2>2. \/ row'.gone
        \/ ~row.gone /\ row'.status \in {"failed", "cancelled", "deleting"} /\ row'.count \in {row.count, 0}
    BY <1>4, <2>1 DEF CancelledByUser, MarkedDeleting, Removed, SweptStuck, SweptDelete, Has, TypeOK, Rows
  <2>3. Status' = "stopped" /\ Count' \in {Count, 0}
    BY <2>2 DEF Status, Count
  <2> QED
    BY <1>2, <2>3, CounterStops
<1> QED
  BY <1>3, <1>4

(* The new process task has no slot. *)
LEMMA ReparseEnqueueRefines ==
  ASSUME TypeOK, Calm, SafetyInv, TypeOK', SafetyInv', NEW c \in Callers, ReparseEnqueue(c)
  PROVE  [Counter!Next]_(Counter!vars)
<1> DEFINE t == Task("process", Att(c), 0)
<1>1. row' = row /\ latest' = latest /\ (Add(t) \/ queue' = queue)
  BY DEF ReparseEnqueue, QueueOnly
<1>2. \A n : SlotClaim(n) \notin TaskClaims(t)
  BY DEF Task, TaskClaims, Enrichment, Driver, SlotClaim
<1> HIDE DEF t
<1>3. Add(t) => BagToSet(queue') = BagToSet(queue) \cup {t}
  BY PutQueue
<1>4. \A n \in Slots : Waits(n, BagToSet(queue')) <=> Waits(n, BagToSet(queue))
  BY <1>1, <1>2, <1>3 DEF Waits
<1>5. \A w \in Workers : proc'[w] = proc[w]
  BY WorkersStay DEF ApiStep
<1> QED
  BY <1>1, <1>4, <1>5, SlotsStayBeside, CounterStays

(* dequeueKnowledgeTasks is Dequeue. *)
LEMMA DequeueRefines ==
  ASSUME TypeOK, Calm, SafetyInv, TypeOK', SafetyInv', NEW c \in Callers, Dequeue(c)
  PROVE  [Counter!Next]_(Counter!vars)
<1>1. row' = row /\ latest' = latest /\ proc[c].pc = "dequeue"
  BY DEF Dequeue, QueueOnly, At
<1>2. BagToSet(queue') \subseteq BagToSet(queue)
  <2>1. CASE queue' = queue
    BY <2>1
  <2>2. ASSUME NEW kept \in SUBSET BagToSet(queue), queue' = [t \in kept |-> queue[t]]
        PROVE  BagToSet(queue') \subseteq BagToSet(queue)
    BY <2>2 DEF BagToSet
  <2> QED
    BY <2>1, <2>2 DEF Dequeue
<1>3. Status = "stopped" /\ Status' = Status /\ Count' = Count
  <2>1. row.gone \/ row.status \in Aborted
    BY <1>1, Stops DEF StopPCs
  <2> QED
    BY <1>1, <2>1 DEF Status, Count, Aborted
<1>4. \A w \in Workers : proc'[w] = proc[w]
  BY WorkersStay DEF ApiStep
<1>5. ASSUME NEW n \in Slots PROVE Slot(n)' = Slot(n) \/ (Slot(n) = "owned" /\ Slot(n)' = "free")
  <2>1. /\ Slot(n) = Place(latest, n, BagToSet(queue))
        /\ Slot(n)' = Place(latest, n, BagToSet(queue'))
    BY <1>1, <1>4, SlotsBeside
  <2> QED
    BY <1>2, <2>1 DEF Place, Where
<1> DEFINE dropped == {n \in Slots : Slot(n)' # Slot(n)}
<1>6. \A n \in Slots : Slot(n)' = IF n \in dropped THEN "free" ELSE Slot(n)
  BY <1>5
<1>7. dropped \in SUBSET {n \in Slots : Slot(n) = "owned"}
  BY <1>5
<1> HIDE DEF dropped
<1>8. dropped \in SUBSET {n \in Slots : [m \in Slots |-> Slot(m)][n] = "owned"}
  BY <1>7
<1>9. [n \in Slots |-> Slot(n)]'
        = [n \in Slots |-> IF n \in dropped THEN "free" ELSE [m \in Slots |-> Slot(m)][n]]
  BY <1>6
<1>10. Counter!Dequeue
  BY <1>3, <1>8, <1>9 DEF Counter!Dequeue
<1> QED
  BY <1>10 DEF Counter!Next

(* Every step of a request is a step of the contract, or a stutter. *)
LEMMA ApiRefines ==
  ASSUME TypeOK, Calm, SafetyInv, TypeOK', SafetyInv', NEW c \in Callers, ApiStep(c)
  PROVE  [Counter!Next]_(Counter!vars)
<1>1. ReparseOpen(c) => [Counter!Next]_(Counter!vars)
  BY ReparseOpenRefines DEF Counter!Next
<1>2. ReparseReset(c) \/ ReparseZero(c) \/ ReparseFailed(c) => [Counter!Next]_(Counter!vars)
  BY ReparseRefines
<1>3. ReparseEnqueue(c) \/ Dequeue(c) => [Counter!Next]_(Counter!vars)
  BY ReparseEnqueueRefines, DequeueRefines
<1>4. \/ ReparseClean(c) \/ CancelRead(c) \/ CancelMark(c) \/ DeleteMark(c) \/ DeletePurge(c)
      \/ DeleteRow(c) \/ SweepFind(c) \/ SweepUpdate(c)
      => [Counter!Next]_(Counter!vars)
  BY RestOrStopRefines
<1> QED
  BY <1>1, <1>2, <1>3, <1>4 DEF ApiStep

(* Every step is a step of the contract, or a stutter. *)
LEMMA StepRefines ==
  ASSUME TypeOK, Calm, SafetyInv, TypeOK', SafetyInv', [Next]_vars
  PROVE  [Counter!Next]_(Counter!vars)
<1>1. CASE UNCHANGED vars
  <2>1. row' = row /\ latest' = latest /\ queue' = queue /\ proc' = proc
    BY <1>1 DEF vars
  <2>2. SlotsStay
    BY <2>1, SlotsStayBeside
  <2> QED
    BY <2>1, <2>2, CounterStays
<1>2. CASE \E w \in Workers : WorkerStep(w)
  BY <1>2, WorkerRefines
<1>3. CASE \E c \in Callers : ApiStep(c)
  BY <1>3, ApiRefines
<1>4. ~ \E p \in Procs : Crash(p)
  BY CalmSteps DEF Crash
<1> QED
  BY <1>1, <1>2, <1>3, <1>4 DEF Next

(* The document starts as the contract says. *)
LEMMA StartRefines == Init => Counter!Init
<1> SUFFICES ASSUME Init PROVE Counter!Init
  OBVIOUS
<1>1. TypeOK /\ SafetyInv
  BY InitIsSafe, InitIsTyped
<1>2. row.status = "pending" /\ row.count = 0 /\ ~row.gone
  BY DEF Init, NewRow
<1>3. SlotsOf(latest, Slots) \cap Claimed = {}
  BY <1>1, <1>2 DEF SafetyInv, Enriching, Has
<1>4. [n \in Slots |-> Slot(n)] = [n \in Slots |-> "free"]
  BY <1>1, <1>3, NobodyHasAny
<1> QED
  BY <1>2, <1>4 DEF Counter!Init, Status, Count

(* FinalizeSubtask, SetFinalizing and their callers implement the contract   *)
(* of EnrichmentCounter: retried, partly enqueued, reparsed, cancelled or    *)
(* deleted, every slot is counted once and given back once.                  *)
THEOREM KeepsContract == ASSUME Calm PROVE Spec => KeepsCounterContract
<1>1. Calm
  OBVIOUS
<1>2. Init => Counter!Init
  BY StartRefines
<1>3. TypeOK /\ SafetyInv /\ TypeOK' /\ SafetyInv' /\ [Next]_vars => [Counter!Next]_(Counter!vars)
  BY <1>1, StepRefines
<1>4. Spec => []SafetyInv
  BY <1>1, SafetyHolds
<1> QED
  BY <1>2, <1>3, <1>4, TypeCorrect, PTL DEF Spec, KeepsCounterContract, Counter!Spec

----------------------------------------------------------------------------
(* What is stored for a document, by where its parser is: nothing between    *)
(* the clean-up and the chunks, the chunks of this attempt alone before they *)
(* are embedded, and all of it from there on. The undo of a failed embedding *)
(* may still come late, and finds an ended document.                         *)
Indexed ==
    /\ {<<latest, "text">>, <<latest, "vector">>} \subseteq stored
    /\ stored \subseteq {latest} \X Parts
WritingPCs == {"chunk.recheck", "chunk.write", "chunk.quota", "chunk.index", "chunk.final",
               "chunk.save"}
Written(f) ==
    /\ f.pc \in {"chunk.recheck", "chunk.write"} => stored = {}
    /\ f.pc \in {"chunk.quota", "chunk.index"} => stored = {<<latest, "text">>}
    /\ f.pc \in {"chunk.final", "chunk.save"} => Indexed
Undone == "fatal" \in Faults /\ ~Has(row, Active \cup {"completed"}) /\ ~Requested(ReparsePCs)

Whole ==
    /\ \A w \in Workers : Written(proc[w]) /\ (proc[w].pc = "chunk.undo" => Undone)
    /\ Has(row, {"finalizing"}) => Indexed
    /\ Has(row, {"completed"}) /\ ~Requested({"re.clean", "re.reset"}) => Indexed
    /\ Following /\ Has(row, {"processing"}) => Indexed

(* A failed embedding undoes what it stored after it has failed the row. A   *)
(* reparse that the user asks for in between may lose what it has stored.    *)
UndoInTime == "fatal" \in Faults => "failed" \notin ReparseFrom

(* What a handler that is not indexing may store, and where it may go.       *)
Passes(w) ==
    /\ proc'[w].pc \notin WritingPCs \cup {"chunk.undo"}
    /\ proc[w].pc \in SaverPCs => proc'[w].pc \notin FollowerPCs
    /\ \/ stored' = stored
       \/ /\ proc[w].pc \in {"sub.write", "sum.write", "image.run"}
          /\ \E part \in Parts : stored' = stored \cup {<<Att(w), part>>}

(* Where a worker's step helpers put it. *)
LEMMA PlacesAfter ==
  ASSUME TypeOK, Calm, NEW w \in Workers
  PROVE  /\ \A pc : Goto(w, pc) => proc'[w].pc = pc
         /\ Leave(w) => proc'[w].pc = "idle"
         /\ Finish(w) => proc'[w].pc = "idle"
         /\ \A t, pc, seen : Take(w, t, pc, seen) =>
               proc'[w].pc = pc /\ proc[w].pc = "idle" /\ stored' = stored
         /\ \A t : Drop(w, t) => proc'[w].pc = "idle" /\ proc[w].pc = "idle" /\ stored' = stored
<1>1. w \in Procs /\ proc \in [Procs -> Locals]
  BY CallersAreNoWorkers, FramesAreLocals DEF TypeOK
<1>2. Idle.pc = "idle"
  BY IdleFits
<1>3. \A pc : Goto(w, pc) => proc'[w].pc = pc
  BY <1>1 DEF Goto, Locals
<1>4. Leave(w) => proc'[w].pc = "idle"
  BY <1>1, <1>2 DEF Leave
<1>5. ASSUME NEW t, NEW pc, NEW seen, Take(w, t, pc, seen)
      PROVE  proc'[w].pc = pc /\ proc[w].pc = "idle" /\ stored' = stored
  BY <1>1, <1>5 DEF Take, Idle, At, QueueOnly
<1>6. \A t : Drop(w, t) => proc'[w].pc = "idle" /\ proc[w].pc = "idle" /\ stored' = stored
  BY DEF Drop, At, QueueOnly
<1> QED
  BY <1>3, <1>4, <1>5, <1>6, CalmSteps

(* Parsing a document and following its parser are different places. *)
LEMMA WritingAreSavers ==
  /\ \A pc \in WritingPCs : pc \in SaverPCs /\ pc \notin FollowerPCs
  /\ \A pc \in FollowerPCs : pc \notin SaverPCs
  /\ "chunk.undo" \notin SaverPCs \cup FollowerPCs \cup WritingPCs
  /\ "idle" \notin SaverPCs \cup FollowerPCs \cup WritingPCs
  BY DEF WritingPCs, SaverPCs, FollowerPCs, PosterPCs, ImagePCs, ReadingPCs

(* Where the handlers but the indexing of the chunks go, and what they store. *)
LEMMA DocPasses ==
  ASSUME TypeOK, Calm, NEW w \in Workers, DocStep(w),
         proc[w].pc \notin WritingPCs \cup {"chunk.clean", "chunk.undo"}
  PROVE  Passes(w)
<1>0. "db" \notin Faults
  BY CalmSteps
<1> USE DEF At, Passes, WritingPCs, SaverPCs, FollowerPCs, PosterPCs, ImagePCs, ReadingPCs
<1>1. CASE \E t \in BagToSet(queue) : DocEnter(w, t)
  BY <1>1, PlacesAfter DEF DocEnter
<1>2. CASE DocRecheck(w) \/ DocConvert(w) \/ ChunksCheck(w)
  BY <1>2, PlacesAfter DEF DocRecheck, DocConvert, ChunksCheck, ProcOnly, RowOnly
<1>3. CASE DocMark(w) \/ DocConvertError(w) \/ DocFatal(w)
  BY <1>3, PlacesAfter DEF DocMark, DocConvertError, DocFatal, RowOnly
<1>4. CASE EnqueuePost(w)
  BY <1>4, PlacesAfter DEF EnqueuePost, QueueOnly
<1>5. CASE SetMultimodal(w)
  <2>1. proc'[w].pc = "mm.enqueue" /\ proc[w].pc = "mm.set" /\ stored' = stored
    BY <1>5, CallersAreNoWorkers, FramesAreLocals DEF SetMultimodal, TypeOK, Locals
  <2> QED
    BY <2>1
<1>6. CASE EnqueueImage(w)
  <2>1. proc'[w].pc \in {"mm.enqueue", "idle"} /\ proc[w].pc = "mm.enqueue" /\ stored' = stored
    <3>1. w \in Procs /\ proc \in [Procs -> Locals]
      BY CallersAreNoWorkers, FramesAreLocals DEF TypeOK
    <3>2. \A rest : proc' = [proc EXCEPT ![w].todo = rest] => proc'[w].pc = proc[w].pc
      BY <3>1 DEF Locals
    <3> QED
      BY <1>6, <3>2, PlacesAfter DEF EnqueueImage, QueueOnly
  <2> QED
    BY <2>1
<1>7. ~ (\/ ChunksClean(w) \/ ChunksRecheck(w) \/ ChunksWrite(w) \/ ChunksBeforeIndex(w) \/ ChunksIndex(w)
         \/ ChunksIndexError(w) \/ ChunksUndo(w) \/ ChunksFinal(w) \/ ChunksSave(w))
  BY DEF ChunksClean, ChunksRecheck, ChunksWrite, ChunksBeforeIndex, ChunksIndex, ChunksIndexError,
         ChunksUndo, ChunksFinal, ChunksSave
<1> QED
  BY <1>1, <1>2, <1>3, <1>4, <1>5, <1>6, <1>7 DEF DocStep

(* Post-processing stores nothing and never enters the parser. *)
LEMMA PostPasses ==
  ASSUME TypeOK, Calm, NEW w \in Workers, PostStep(w) PROVE Passes(w)
<1>0. w \in Procs /\ proc \in [Procs -> Locals]
  BY CallersAreNoWorkers, FramesAreLocals DEF TypeOK
<1> DEFINE Places == {"idle", "post.missing", "post.attempt", "post.list", "post.handoff"} \cup GiverPCs
<1> USE DEF At, GiverPCs
<1>1. proc'[w].pc \in Places /\ proc[w].pc \in Places /\ stored' = stored
  <2>1. CASE \E t \in BagToSet(queue) : PostEnter(w, t)
    BY <2>1, PlacesAfter DEF PostEnter
  <2>2. CASE PostMissing(w) \/ PostListError(w) \/ PostNothingToDoError(w)
    BY <2>2, PlacesAfter DEF PostMissing, PostListError, PostNothingToDoError, ReturnError
  <2>3. CASE PostAttempt(w)
    BY <1>0, <2>3 DEF PostAttempt, ProcOnly, RowOnly, Locals
  <2>4. CASE PostList(w)
    <3>1. \A S : proc' = [proc EXCEPT ![w].pc = "post.handoff", ![w].todo = S] => proc'[w].pc = "post.handoff"
      BY <1>0 DEF Locals
    <3> QED
      BY <2>4, <3>1, PlacesAfter DEF PostList, ProcOnly, RowOnly
  <2>5. CASE PostHandoff(w) \/ PostNothingToDo(w) \/ PostRelease(w)
    BY <2>5, PlacesAfter DEF PostHandoff, PostNothingToDo, PostRelease, RowOnly
  <2>6. CASE PostSpawn(w)
    <3>1. \A next, S, T :
             /\ proc' = [proc EXCEPT ![w].pc = next, ![w].todo = S] => proc'[w].pc = next
             /\ proc' = [proc EXCEPT ![w].pc = next, ![w].todo = S, ![w].short = T] => proc'[w].pc = next
      BY <1>0 DEF Locals
    <3>2. PICK next \in {"post.release", "post.spawn"} : \E S, T :
             \/ proc' = [proc EXCEPT ![w].pc = next, ![w].todo = S]
             \/ proc' = [proc EXCEPT ![w].pc = next, ![w].todo = S, ![w].short = T]
      BY <2>6 DEF PostSpawn
    <3>3. proc'[w].pc = next
      BY <3>1, <3>2
    <3> QED
      BY <2>6, <3>3 DEF PostSpawn, QueueOnly
  <2>7. CASE PostPromote(w)
    <3>1. \A T : proc' = [proc EXCEPT ![w].pc = "post.release", ![w].short = T] => proc'[w].pc = "post.release"
      BY <1>0 DEF Locals
    <3> QED
      BY <2>7, <3>1, PlacesAfter DEF PostPromote, RowOnly
  <2>8. CASE PostEnd(w)
    BY <2>8, PlacesAfter DEF PostEnd, ProcOnly, RowOnly
  <2> QED
    BY <2>1, <2>2, <2>3, <2>4, <2>5, <2>6, <2>7, <2>8 DEF PostStep
<1> QED
  BY <1>1 DEF Passes, WritingPCs, SaverPCs

(* A subtask adds its own part of its own attempt, and nothing else. *)
LEMMA SubtaskPasses ==
  ASSUME TypeOK, Calm, NEW w \in Workers, SubtaskStep(w)
  PROVE  /\ Passes(w)
         /\ {proc[w].pc, proc'[w].pc} \cap (SaverPCs \cup FollowerPCs \cup ReparsePCs) = {}
<1>0. w \in Procs /\ proc \in [Procs -> Locals]
  BY CallersAreNoWorkers, FramesAreLocals DEF TypeOK
<1>1. "summary" \in Parts /\ \A w1 \in Workers : proc[w1].job.kind \in Enrichment => proc[w1].job.kind \in Parts
  BY DEF Parts, Enrichment
<1> DEFINE Places == {"idle", "promote"} \cup OwnerPCs
<1> USE DEF At, OwnerPCs, SummaryPCs, SavingPCs
<1>2. proc'[w].pc \in Places /\ proc[w].pc \in Places
  <2>a. SubtaskError(w) => proc'[w].pc \in {"idle", "drain"}
    BY PlacesAfter DEF SubtaskError
  <2>b. \A pc, S : /\ proc' = [proc EXCEPT ![w].pc = pc, ![w].seen = S] => proc'[w].pc = pc
                   /\ proc' = [proc EXCEPT ![w].pc = pc, ![w].todo = S] => proc'[w].pc = pc
    BY <1>0 DEF Locals
  <2>1. CASE \E t \in BagToSet(queue) : SubtaskEnter(w, t)
    BY <2>1, PlacesAfter DEF SubtaskEnter
  <2>2. CASE SubtaskLoad(w)
    <3>1. PICK pc \in {"drain", "sum.mark", "sub.run"} :
             proc' = [proc EXCEPT ![w].pc = pc, ![w].seen = row.status]
      BY <2>2 DEF SubtaskLoad
    <3> QED
      BY <2>2, <2>b, <3>1 DEF SubtaskLoad
  <2>3. CASE SummaryChunks(w)
    <3>1. PICK pc \in {"sum.none", "sum.llm"} : \E S : proc' = [proc EXCEPT ![w].pc = pc, ![w].todo = S]
      BY <2>3 DEF SummaryChunks
    <3>2. proc'[w].pc = pc
      BY <2>b, <3>1
    <3> QED
      BY <2>3, <3>2 DEF SummaryChunks
  <2>4. CASE SubtaskRun(w) \/ SubtaskWrite(w) \/ SummaryMark(w) \/ SummaryNone(w) \/ SummaryLlm(w)
             \/ SummaryLlmError(w) \/ SummarySave(w) \/ SummaryWrite(w)
    BY <2>4, PlacesAfter DEF SubtaskRun, SubtaskWrite, SummaryMark, SummaryNone, SummaryLlm,
       SummaryLlmError, SummarySave, SummaryWrite
  <2>5. CASE SubtaskRunError(w) \/ SummaryNoneError(w) \/ SummaryStale(w) \/ SummarySaveError(w)
             \/ SummaryWriteError(w)
    BY <2>5, <2>a, PlacesAfter DEF SubtaskRunError, SummaryNoneError, SummaryStale, SummarySaveError,
       SummaryWriteError
  <2>6. CASE SummaryAgain(w) \/ SummaryFresh(w) \/ Drain(w) \/ Promote(w)
    BY <2>6, PlacesAfter DEF SummaryAgain, SummaryFresh, Drain, Promote
  <2> QED
    BY <2>1, <2>2, <2>3, <2>4, <2>5, <2>6 DEF SubtaskStep
<1>3. \/ stored' = stored
      \/ /\ proc[w].pc \in {"sub.write", "sum.write", "image.run"}
         /\ \E part \in Parts : stored' = stored \cup {<<Att(w), part>>}
  <2>1. CASE SubtaskWrite(w)
    <3>1. Sound(proc[w]) /\ proc[w].pc = "sub.write"
      BY <1>0, <2>1, FramesAreLocals DEF TypeOK, SubtaskWrite
    <3>2. proc[w].job.kind \in Enrichment
      BY <3>1 DEF Sound, SubtaskPCs
    <3> QED
      BY <1>1, <2>1, <3>1, <3>2 DEF SubtaskWrite
  <2>2. CASE SummaryWrite(w) \/ SummaryWriteError(w)
    BY <1>1, <2>2 DEF SummaryWrite, SummaryWriteError
  <2>3. CASE \E t \in BagToSet(queue) : SubtaskEnter(w, t)
    BY <2>3, PlacesAfter DEF SubtaskEnter
  <2>4. CASE ~ (SubtaskWrite(w) \/ SummaryWrite(w) \/ SummaryWriteError(w)
                \/ \E t \in BagToSet(queue) : SubtaskEnter(w, t))
    BY <2>4 DEF SubtaskStep, SubtaskLoad, SubtaskRun, SubtaskRunError, SummaryMark, SummaryChunks,
       SummaryNone, SummaryNoneError, SummaryLlm, SummaryLlmError, SummaryAgain, SummaryFresh,
       SummaryStale, SummarySave, SummarySaveError, Drain, Promote, ProcOnly, RowOnly, QueueOnly
  <2> QED
    BY <2>1, <2>2, <2>3, <2>4
<1>4. {proc[w].pc, proc'[w].pc} \cap (SaverPCs \cup FollowerPCs \cup ReparsePCs) = {}
  BY <1>2 DEF SaverPCs, FollowerPCs, PosterPCs, ImagePCs, ReadingPCs, ReparsePCs
<1>5. Passes(w)
  BY <1>2, <1>3 DEF Passes, WritingPCs, SaverPCs
<1> QED
  BY <1>4, <1>5

(* An image task adds its part of its own attempt, and nothing else. *)
LEMMA ImagePasses ==
  ASSUME TypeOK, Calm, NEW w \in Workers, ImageStep(w) PROVE Passes(w)
<1> USE DEF At
<1>1. proc'[w].pc \in {"idle"} \cup ImagePCs /\ proc[w].pc \in {"idle"} \cup ImagePCs
  BY PlacesAfter DEF ImageStep, ImageEnter, ImageEnterError, ImageError, ReturnError, ImageRun,
     ImageRunError, ImageCount, ImageCountNoRedis, ImageLast, ImagePCs, ReadingPCs
<1>2. \/ stored' = stored
      \/ /\ proc[w].pc \in {"sub.write", "sum.write", "image.run"}
         /\ \E part \in Parts : stored' = stored \cup {<<Att(w), part>>}
  <2>1. "image" \in Parts
    BY DEF Parts
  <2> QED
    BY <2>1, PlacesAfter DEF ImageStep, ImageEnter, ImageEnterError, ImageError, ReturnError, ImageRun,
     ImageRunError, ImageCount, ImageCountNoRedis, ImageLast, QueueOnly, StoredOnly
<1> QED
  BY <1>1, <1>2 DEF Passes, WritingPCs, SaverPCs, ImagePCs, ReadingPCs

(* What a task may make of the row, and when one follows the parser. *)
LEMMA Carries ==
  ASSUME TypeOK, Calm, SafetyInv, NEW w \in Workers, WorkerStep(w)
  PROVE  /\ latest' = latest /\ (\E g : Becomes(w, g))
         /\ Following' => Following \/ (proc[w].pc \in SaverPCs /\ proc'[w].pc \in FollowerPCs)
         /\ Has(row', {"finalizing"}) => Has(row, {"finalizing"}) \/ (Following /\ Has(row, {"processing"}))
         /\ Has(row', {"completed"}) =>
               Has(row, {"completed", "finalizing"}) \/ (Following /\ Has(row, {"processing"}))
         /\ Has(row', {"processing"}) => Has(row, {"processing"}) \/ proc[w].pc \in SaverPCs
         /\ Has(row', Active \cup {"completed"}) => Has(row, Active \cup {"completed"})
<1>1. PICK g \in Locals :
       \/ Moves(w, g)
       \/ \E t \in BagToSet(queue) : Takes(w, g, t)
       \/ \E t \in Tasks : PutsBack(w, g, t)
       \/ \E s \in {"processing", "failed"} : Saves(w, g, s)
       \/ PostFails(w, g) \/ HandsOver(w, g) \/ CompletesNow(w, g)
       \/ \E n \in Slots : Spawns(w, g, n) \/ GivesBack(w, g, n) \/ Promotes(w, g, n)
       \/ Counts(w, g) \/ SetsCounter(w, g)
  BY WorkerStepKind DEF WorkerKinds
<1>2. latest' = latest /\ Becomes(w, g) /\ w \in Procs /\ proc'[w] = g
  <2>1. latest' = latest /\ Becomes(w, g)
    BY <1>1 DEF Moves, Shifts, Takes, PutsBack, Puts, Saves, PostFails, HandsOver, CompletesNow,
       Spawns, GivesBack, Promotes, Counts, SetsCounter, Runs
  <2> QED
    BY <2>1, OthersStay, CallersAreNoWorkers
<1>3. row \in Rows
  BY DEF TypeOK
<1> DEFINE Onward ==
         /\ Has(row', {"finalizing"}) => Has(row, {"finalizing"}) \/ (Following /\ Has(row, {"processing"}))
         /\ Has(row', {"completed"}) =>
               Has(row, {"completed", "finalizing"}) \/ (Following /\ Has(row, {"processing"}))
         /\ Has(row', {"processing"}) => Has(row, {"processing"}) \/ proc[w].pc \in SaverPCs
         /\ Has(row', Active \cup {"completed"}) => Has(row, Active \cup {"completed"})
<1>4. Onward
  <2>1. CASE row' = row
    BY <2>1 DEF Has
  <2>2. CASE \E s \in {"processing", "failed"} : Saves(w, g, s)
    <3>1. PICK s \in {"processing", "failed"} : Saves(w, g, s)
      BY <2>2
    <3>2. proc[w].pc \in SaverPCs /\ row' = Saved(row, s)
      BY <3>1 DEF Saves
    <3>3. Has(row, {"pending", "processing"})
      BY <3>2, SaverAlone
    <3> QED
      BY <1>3, <3>2, <3>3 DEF Saved, Has, Active, Rows
  <2>3. CASE HandsOver(w, g) \/ CompletesNow(w, g)
    <3>1. proc[w].pc \in FollowerPCs
      BY <2>3 DEF HandsOver, CompletesNow, At, FollowerPCs, PosterPCs
    <3>2. Following /\ (row' = row \/ Has(row, {"processing"}))
      BY <2>3, <3>1 DEF Following, HandsOver, CompletesNow, CompletedAtOnce
    <3> QED
      BY <2>1, <3>2, <1>3, <2>3 DEF HandsOver, CompletesNow, HandedOff, CompletedAtOnce, Has, Rows, Active
  <2>4. CASE PostFails(w, g)
    BY <1>3, <2>4 DEF PostFails, FailedIfActive, Has, Active, Rows
  <2>5. CASE \E n \in Slots : GivesBack(w, g, n) \/ Promotes(w, g, n)
    BY <1>3, <2>5 DEF GivesBack, Promotes, Decremented, Promoted, CanPromote, Has, Active, Rows
  <2>6. CASE \/ Moves(w, g)
             \/ \E t \in BagToSet(queue) : Takes(w, g, t)
             \/ \E t \in Tasks : PutsBack(w, g, t)
             \/ \E n \in Slots : Spawns(w, g, n)
             \/ Counts(w, g) \/ SetsCounter(w, g)
    <3>1. row' = row
      BY <2>6 DEF Moves, Shifts, Takes, PutsBack, Puts, Spawns, Counts, SetsCounter
    <3> QED
      BY <2>1, <3>1
  <2> QED
    BY <1>1, <2>2, <2>3, <2>4, <2>5, <2>6
<1> HIDE DEF Onward
<1>5. Following' => Following \/ (proc[w].pc \in SaverPCs /\ g.pc \in FollowerPCs)
  <2>1. SUFFICES ASSUME ~Following, Following', ~ (proc[w].pc \in SaverPCs /\ g.pc \in FollowerPCs)
                 PROVE  FALSE
    OBVIOUS
  <2>2. proc[w].pc \notin FollowerPCs /\ \A t \in BagToSet(queue) : t.kind \notin {"post", "image"}
    BY <2>1 DEF Following
  <2>3. g.pc \in FollowerPCs \/ \E t \in BagToSet(queue') : t.kind \in {"post", "image"}
    BY <1>2, <2>1, SavingAfter DEF Following
  <2>4. IsABag(queue)
    BY DEF TypeOK
  <2>5. ASSUME NEW t, t \in BagToSet(queue), queue' = queue (-) SetToBag({t})
        PROVE  BagToSet(queue') \subseteq BagToSet(queue)
    BY <2>4, <2>5, BagTake
  <2>6. ASSUME NEW t, Add(t) PROVE BagToSet(queue') \subseteq BagToSet(queue) \cup {t}
    BY <2>4, <2>6, BagPut DEF Add
  <2>7. g.pc \notin FollowerPCs
    <3>1. SUFFICES ASSUME g.pc \in FollowerPCs PROVE FALSE
      OBVIOUS
    <3>2. g.pc \notin {"post.spawn", "idle"} /\ proc[w].pc \notin {"image.count", "mm.set"}
      BY <2>2, <3>1 DEF FollowerPCs, PosterPCs, ImagePCs, ReadingPCs
    <3> QED
      BY <1>1, <2>1, <2>2, <3>1, <3>2 DEF Moves, Shifts, Lighter, Takes, PutsBack, Puts, Saves, PostFails,
         HandsOver, CompletesNow, Spawns, GivesBack, Promotes, Counts, SetsCounter, At
  <2>8. PICK t \in BagToSet(queue') : t.kind \in {"post", "image"}
    BY <2>3, <2>7
  <2>9. t \notin BagToSet(queue) /\ queue' # queue
    BY <2>2, <2>8
  <2>10. (\E u \in Tasks : PutsBack(w, g, u)) \/ (\E n \in Slots : Spawns(w, g, n) /\ queue' # queue)
    BY <1>1, <2>5, <2>8, <2>9 DEF Moves, Shifts, Takes, Saves, PostFails,
         HandsOver, CompletesNow, GivesBack, Promotes, Counts, SetsCounter
  <2>11. CASE \E u \in Tasks : PutsBack(w, g, u)
    <3>1. PICK u \in Tasks : Puts(w, g, u)
      BY <2>11 DEF PutsBack
    <3>2. u.kind \notin {"post", "image"} /\ Add(u)
      BY <2>2, <3>1 DEF Puts
    <3> QED
      BY <2>6, <2>8, <2>9, <3>2
  <2>12. CASE \E n \in Slots : Spawns(w, g, n) /\ queue' # queue
    <3>1. PICK n \in Slots : Add(Task(KindOf(n), g.att, n))
      BY <2>12 DEF Spawns
    <3>2. Task(KindOf(n), g.att, n).kind \in {"summary", "question", "graph"}
      BY DEF Task, KindOf
    <3> QED
      BY <2>6, <2>8, <2>9, <3>1, <3>2
  <2> QED
    BY <2>10, <2>11, <2>12
<1> QED
  BY <1>2, <1>4, <1>5 DEF Onward

(* What a handler stores beside the parser is for the latest attempt, and    *)
(* nobody parses then.                                                       *)
LEMMA StoresAlone ==
  ASSUME TypeOK, SafetyInv, NEW w \in Workers, proc[w].pc \in {"sub.write", "sum.write", "image.run"}
  PROVE  Att(w) = latest /\ \A v \in Workers : proc[v].pc \notin SaverPCs
<1>1. w \in Procs /\ Fits(proc[w]) /\ Sound(proc[w]) /\ proc[w] \in Locals
  BY CallersAreNoWorkers, FramesAreLocals DEF TypeOK, SafetyInv, Shapes
<1>2. CASE proc[w].pc = "image.run"
  <2>1. proc[w].pc \in FollowerPCs /\ Following
    BY <1>2 DEF Following, FollowerPCs, ImagePCs, ReadingPCs
  <2>2. proc[w].att # 0 /\ proc[w].att \in {0, latest}
    BY <1>1, <1>2, <2>1 DEF Sound, AttemptlessPCs, SafetyInv, Phases
  <2> QED
    BY <2>1, <2>2, SaverAlone DEF Att
<1>3. CASE proc[w].pc \in {"sub.write", "sum.write"}
  <2>1. proc[w].pc \in OwnerPCs
    BY <1>3 DEF OwnerPCs, SummaryPCs
  <2>2. Holds(proc[w]) = SlotsOf(proc[w].att, {proc[w].job.n}) /\ Duties(proc[w]) = Holds(proc[w])
    BY <1>1, <2>1, OwnerDuty
  <2>3. Holds(proc[w]) \subseteq SlotsOf(latest, Slots)
    BY DEF SafetyInv, Enriching
  <2>4. PICK x : x \in Holds(proc[w]) /\ x = <<"slot", proc[w].att, proc[w].job.n>>
    BY <2>2 DEF SlotsOf
  <2>5. proc[w].att = latest /\ x \in SlotsOf(latest, Slots)
    BY <2>3, <2>4 DEF SlotsOf
  <2>6. x \in Claimed
    BY <1>1, <2>2, <2>4, ClaimedIs DEF Claims
  <2> QED
    BY <2>5, <2>6, SaverAlone DEF Att
<1> QED
  BY <1>2, <1>3

(* Adding something of the latest attempt leaves the document indexed. *)
LEMMA IndexedStays ==
  ASSUME Indexed, latest' = latest,
         stored' = stored \/ \E part \in Parts : stored' = stored \cup {<<latest, part>>}
  PROVE  Indexed'
  BY DEF Indexed

(* A document being undone is not one that a step of a task brings back. *)
LEMMA UndoneStays ==
  ASSUME TypeOK, Calm, SafetyInv, NEW w \in Workers, WorkerStep(w), Undone PROVE Undone'
<1>1. ~Has(row', Active \cup {"completed"})
  BY Carries DEF Undone
<1>2. ~ \E c \in Callers : proc'[c].pc \in ReparsePCs
  BY Carries, RequestsStay DEF Undone, Requested
<1>3. "fatal" \in Faults
  BY DEF Undone
<1> QED
  BY <1>1, <1>2, <1>3 DEF Undone, Requested

(* A handler that is not indexing keeps what is stored whole. *)
LEMMA PassesKeep ==
  ASSUME TypeOK, Calm, SafetyInv, Whole, NEW w \in Workers, WorkerStep(w), Passes(w) PROVE Whole'
<1>1. PICK g : Becomes(w, g)
  BY Carries
<1>2. w \in Procs /\ proc'[w] = g /\ latest' = latest
      /\ \A v \in Workers : v # w => proc'[v] = proc[v]
  BY <1>1, Carries, OthersStay, CallersAreNoWorkers
<1>3. \/ stored' = stored
      \/ /\ \A v \in Workers : proc[v].pc \notin SaverPCs
         /\ \E part \in Parts : stored' = stored \cup {<<latest, part>>}
  BY StoresAlone DEF Passes
<1>4. Indexed => Indexed'
  BY <1>2, <1>3, IndexedStays
<1>5. Following' => Following
  BY Carries DEF Passes
<1>6. ASSUME NEW v \in Workers
      PROVE  Written(proc[v])' /\ (proc'[v].pc = "chunk.undo" => Undone')
  <2>1. CASE v = w
    BY <1>2, <2>1 DEF Passes, Written, WritingPCs
  <2>2. CASE v # w /\ proc[v].pc \in WritingPCs
    <3>1. stored' = stored /\ proc'[v] = proc[v] /\ proc[v].pc # "chunk.undo"
      BY <1>2, <1>3, <2>2, WritingAreSavers
    <3> QED
      BY <1>2, <1>4, <3>1 DEF Whole, Written
  <2>3. CASE v # w /\ proc[v].pc \notin WritingPCs
    <3>1. proc'[v] = proc[v] /\ (proc[v].pc = "chunk.undo" => Undone')
      BY <1>2, <2>3, UndoneStays DEF Whole
    <3> QED
      BY <2>3, <3>1 DEF Written, WritingPCs
  <2> QED
    BY <2>1, <2>2, <2>3
<1>7. Has(row', {"finalizing"}) => Indexed'
  BY <1>4, Carries DEF Whole
<1>8. Has(row', {"completed"}) /\ ~ (\E c \in Callers : proc'[c].pc \in {"re.clean", "re.reset"}) => Indexed'
  <2>1. SUFFICES ASSUME Has(row', {"completed"}), ~ (\E c \in Callers : proc'[c].pc \in {"re.clean", "re.reset"})
                 PROVE  Indexed
    BY <1>4
  <2>2. ~Requested({"re.clean", "re.reset"})
    BY <1>1, <2>1, RequestsStay DEF Requested
  <2>3. Has(row, {"completed"}) \/ Has(row, {"finalizing"}) \/ (Following /\ Has(row, {"processing"}))
    BY <2>1, Carries DEF Has
  <2> QED
    BY <2>2, <2>3 DEF Whole
<1>9. Following' /\ Has(row', {"processing"}) => Indexed'
  <2>1. SUFFICES ASSUME Following', Has(row', {"processing"}) PROVE Indexed
    BY <1>4
  <2>2. Following /\ proc[w].pc \notin SaverPCs
    BY <1>5, <2>1, SaverAlone
  <2> QED
    BY <2>1, <2>2, Carries DEF Whole
<1> QED
  BY <1>6, <1>7, <1>8, <1>9 DEF Whole, Requested, Written

(* The indexing of the chunks has the document to itself. *)
LEMMA IndexingKeeps ==
  ASSUME TypeOK, Calm, SafetyInv, Whole, NEW w \in Workers, WorkerStep(w), proc[w].pc \in SaverPCs,
         Written(proc[w])', proc'[w].pc = "chunk.undo" => "fatal" \in Faults /\ row' = Saved(row, "failed"),
         proc'[w].pc \in FollowerPCs => Indexed'
  PROVE  Whole'
<1>1. PICK g : Becomes(w, g)
  BY Carries
<1>2. w \in Procs /\ proc'[w] = g /\ latest' = latest
      /\ \A v \in Workers : v # w => proc'[v] = proc[v]
  BY <1>1, Carries, OthersStay, CallersAreNoWorkers
<1>3. /\ Has(row, {"pending", "processing"}) /\ ~Following
      /\ \A c \in Callers : proc[c].pc = "idle"
      /\ \A v \in Workers : v # w => proc[v].pc \notin SaverPCs
  BY SaverAlone
<1>4. ASSUME NEW v \in Workers, v # w PROVE Written(proc[v])' /\ proc'[v].pc # "chunk.undo"
  <2>1. proc'[v] = proc[v] /\ proc[v].pc \notin WritingPCs
    BY <1>2, <1>3, <1>4, WritingAreSavers
  <2>2. proc[v].pc # "chunk.undo"
    BY <1>3 DEF Whole, Undone, Has, Active
  <2> QED
    BY <2>1, <2>2 DEF Written, WritingPCs
<1>5. \A c \in Callers : proc'[c].pc = "idle"
  BY <1>1, <1>3, RequestsStay
<1>6. proc'[w].pc = "chunk.undo" => Undone'
  <2>1. SUFFICES ASSUME proc'[w].pc = "chunk.undo" PROVE Undone'
    OBVIOUS
  <2>2. ~Has(row', Active \cup {"completed"})
    BY <2>1 DEF Saved, Has, Active, TypeOK, Rows
  <2>3. ~ (\E c \in Callers : proc'[c].pc \in ReparsePCs)
    BY <1>5, PlacesOfRequests
  <2> QED
    BY <2>1, <2>2, <2>3 DEF Undone, Requested
<1>7. Following' => Indexed'
  BY <1>3, Carries
<1>8. ~Has(row', {"finalizing", "completed"})
  BY <1>3, Carries DEF Has
<1>9. ~Has(row', {"finalizing"}) /\ ~Has(row', {"completed"})
  BY <1>8 DEF Has
<1> QED
  BY <1>4, <1>6, <1>7, <1>9 DEF Whole

(* The handlers of the parser that touch the stored chunks. *)
LEMMA IndexingSteps ==
  ASSUME TypeOK, Calm, SafetyInv, Whole, NEW w \in Workers,
         \/ DocFatal(w) \/ ChunksClean(w) \/ ChunksRecheck(w) \/ ChunksWrite(w) \/ ChunksBeforeIndex(w)
         \/ ChunksIndex(w) \/ ChunksIndexError(w) \/ ChunksFinal(w) \/ ChunksSave(w)
  PROVE  Whole'
<1> USE DEF At
<1>0. /\ WorkerStep(w) /\ "db" \notin Faults /\ latest' = latest
      /\ (\A status : TrySave(status) <=> row' = Saved(row, status))
  <2>1. WorkerStep(w)
    BY DEF WorkerStep, DocStep
  <2> QED
    BY <2>1, Carries, CalmSteps
<1>1. proc[w].pc \in SaverPCs
  BY DEF DocFatal, ChunksClean, ChunksRecheck, ChunksWrite, ChunksBeforeIndex, ChunksIndex, ChunksIndexError,
         ChunksFinal, ChunksSave, SaverPCs
<1>2. Has(row, {"pending", "processing"}) /\ AbortAnswers = {"no"} /\ Att(w) = latest
  <2>1. Has(row, {"pending", "processing"})
    BY <1>1, SaverAlone
  <2>2. Sound(proc[w]) /\ proc[w].att \in {0, latest}
    BY <1>1, CallersAreNoWorkers, FramesAreLocals DEF TypeOK, SafetyInv, Phases
  <2>3. proc[w].att # 0
    BY <1>1, <2>2 DEF Sound, AttemptlessPCs, SaverPCs
  <2> QED
    BY <1>0, <2>1, <2>2, <2>3 DEF AbortAnswers, IsAborted, Aborted, Has, Att
<1>3. Written(proc[w])
  BY DEF Whole
<1>4. "text" \in Parts /\ "vector" \in Parts
  BY DEF Parts
<1>a. ASSUME proc'[w].pc = "idle" PROVE Whole'
  BY <1>0, <1>1, <1>a, IndexingKeeps, WritingAreSavers DEF Written, WritingPCs
<1>b. ASSUME NEW pc \in WritingPCs, Goto(w, pc),
             pc \in {"chunk.recheck", "chunk.write"} => stored' = {},
             pc \in {"chunk.quota", "chunk.index"} => stored' = {<<latest, "text">>},
             pc \in {"chunk.final", "chunk.save"} => Indexed'
      PROVE  Whole'
  <2>1. proc'[w].pc = pc
    BY <1>b, PlacesAfter
  <2>2. Written(proc[w])'
    BY <1>0, <1>b, <2>1 DEF Written
  <2> QED
    BY <1>0, <1>1, <2>1, <2>2, IndexingKeeps, WritingAreSavers
<1>5. CASE DocFatal(w)
  BY <1>5, <1>a, PlacesAfter DEF DocFatal
<1>6. CASE ChunksClean(w)
  BY <1>0, <1>6, <1>b DEF ChunksClean, TryKeeping, WritingPCs
<1>7. CASE ChunksRecheck(w)
  BY <1>2, <1>3, <1>7, <1>b DEF ChunksRecheck, ProcOnly, RowOnly, Written, WritingPCs
<1>8. CASE ChunksWrite(w)
  BY <1>2, <1>3, <1>8, <1>b DEF ChunksWrite, Written, WritingPCs
<1>9. CASE ChunksBeforeIndex(w)
  BY <1>2, <1>3, <1>9, <1>b DEF ChunksBeforeIndex, Written, WritingPCs
<1>10. CASE ChunksIndex(w)
  <2>1. stored' = {<<latest, "text">>, <<latest, "vector">>} /\ Goto(w, "chunk.final")
    BY <1>2, <1>3, <1>10 DEF ChunksIndex, Written
  <2>2. Indexed'
    BY <1>0, <1>4, <2>1 DEF Indexed
  <2>3. proc'[w].pc = "chunk.final"
    BY <2>1, PlacesAfter
  <2> QED
    BY <1>0, <1>1, <2>2, <2>3, IndexingKeeps, WritingAreSavers DEF Written, WritingPCs
<1>11. CASE ChunksIndexError(w)
  <2>1. proc'[w].pc = "chunk.undo" /\ "fatal" \in Faults /\ row' = Saved(row, "failed")
    BY <1>0, <1>11, PlacesAfter DEF ChunksIndexError
  <2> QED
    BY <1>0, <1>1, <2>1, IndexingKeeps, WritingAreSavers DEF Written, WritingPCs
<1>12. CASE ChunksFinal(w)
  <2>1. stored' = stored /\ Indexed /\ Goto(w, "chunk.save")
    BY <1>2, <1>3, <1>12 DEF ChunksFinal, Written
  <2> QED
    BY <1>0, <1>b, <2>1, IndexedStays DEF WritingPCs
<1>13. CASE ChunksSave(w)
  <2>1. proc'[w].pc \in {"doc.post", "mm.set"} /\ stored' = stored /\ Indexed
    BY <1>3, <1>13, PlacesAfter DEF ChunksSave, RowOnly, Written
  <2>2. Indexed'
    BY <1>0, <2>1, IndexedStays
  <2> QED
    BY <1>0, <1>1, <2>1, <2>2, IndexingKeeps DEF Written, WritingPCs
<1> QED
  BY <1>5, <1>6, <1>7, <1>8, <1>9, <1>10, <1>11, <1>12, <1>13

(* The undo of a failed embedding finds nobody at work on the document. *)
LEMMA UndoKeeps ==
  ASSUME TypeOK, Calm, SafetyInv, Whole, NEW w \in Workers, ChunksUndo(w) PROVE Whole'
<1>1. proc[w].pc = "chunk.undo" /\ row' = row /\ latest' = latest /\ queue' = queue
      /\ proc'[w].pc = "idle" /\ Undone /\ WorkerStep(w)
  BY PlacesAfter DEF ChunksUndo, StoredOnly, At, Whole, WorkerStep, DocStep
<1>2. PICK g : Becomes(w, g)
  BY <1>1, Carries
<1>3. \A v \in Workers : v # w => proc'[v] = proc[v]
  BY <1>2, OthersStay, CallersAreNoWorkers
<1>4. \A v \in Workers : proc[v].pc \notin SaverPCs
  BY <1>1, SaverAlone DEF Undone, Has, Active
<1>5. \A v \in Workers : proc'[v].pc \notin WritingPCs /\ Undone'
  BY <1>1, <1>3, <1>4, WritingAreSavers, UndoneStays
<1>6. \A v \in Workers : Written(proc[v])'
  BY <1>5 DEF Written, WritingPCs
<1> QED
  BY <1>1, <1>5, <1>6 DEF Whole, Undone, Has, Active

(* Every step of a task keeps what is stored whole. *)
LEMMA WorkersKeepWhole ==
  ASSUME TypeOK, Calm, SafetyInv, Whole, NEW w \in Workers, WorkerStep(w) PROVE Whole'
<1>1. ~ Acknowledge(w)
  BY CallersAreNoWorkers DEF Acknowledge, At, SafetyInv, Shapes, Fits
<1>2. CASE PostStep(w) \/ SubtaskStep(w) \/ ImageStep(w)
  BY <1>2, PassesKeep, PostPasses, SubtaskPasses, ImagePasses
<1>3. CASE DocStep(w) /\ proc[w].pc \notin WritingPCs \cup {"chunk.clean", "chunk.undo"}
  BY <1>3, PassesKeep, DocPasses
<1>4. CASE DocStep(w) /\ proc[w].pc \in WritingPCs \cup {"chunk.clean", "chunk.undo"}
  <2>1. \/ ChunksUndo(w)
        \/ DocFatal(w) \/ ChunksClean(w) \/ ChunksRecheck(w) \/ ChunksWrite(w) \/ ChunksBeforeIndex(w)
         \/ ChunksIndex(w) \/ ChunksIndexError(w) \/ ChunksFinal(w) \/ ChunksSave(w)
    <3>1. ~ (\E t \in BagToSet(queue) : DocEnter(w, t))
      BY <1>4 DEF DocEnter, Take, Drop, At, WritingPCs
    <3>2. ~ (DocRecheck(w) \/ DocMark(w) \/ DocConvert(w) \/ DocConvertError(w) \/ ChunksCheck(w)
             \/ EnqueuePost(w) \/ SetMultimodal(w) \/ EnqueueImage(w))
      BY <1>4 DEF DocRecheck, DocMark, DocConvert, DocConvertError, ChunksCheck, EnqueuePost,
         SetMultimodal, EnqueueImage, At, WritingPCs
    <3> QED
      BY <1>4, <3>1, <3>2 DEF DocStep
  <2> QED
    BY <2>1, UndoKeeps, IndexingSteps
<1> QED
  BY <1>1, <1>2, <1>3, <1>4 DEF WorkerStep

(* Where a request goes. *)
LEMMA RequestPlaces ==
  ASSUME TypeOK, NEW c \in Callers
  PROVE  /\ \A pc : Goto(c, pc) => \E g : Becomes(c, g) /\ g.pc = pc /\ g.job = proc[c].job
         /\ Leave(c) => \E g : Becomes(c, g) /\ g.pc = "idle"
         /\ \A kind, a, pc : Request(c, kind, a, pc) =>
               proc[c].pc = "idle" /\ \E g : Becomes(c, g) /\ g.pc = pc /\ g.job.kind = kind
<1>1. c \in Procs /\ proc \in [Procs -> Locals]
  BY FramesAreLocals DEF TypeOK, Procs
<1>2. ASSUME NEW pc, Goto(c, pc) PROVE \E g : Becomes(c, g) /\ g.pc = pc /\ g.job = proc[c].job
  <2> DEFINE g == [proc[c] EXCEPT !.pc = pc]
  <2>1. g.pc = pc /\ g.job = proc[c].job
    BY <1>1 DEF Locals
  <2>2. Becomes(c, g)
    BY <1>2 DEF Goto, Becomes
  <2> QED
    BY <2>1, <2>2
<1>3. Leave(c) => \E g : Becomes(c, g) /\ g.pc = "idle"
  BY IdleFits DEF Leave, Becomes
<1>4. ASSUME NEW kind, NEW a, NEW pc, Request(c, kind, a, pc)
      PROVE  proc[c].pc = "idle" /\ \E g : Becomes(c, g) /\ g.pc = pc /\ g.job.kind = kind
  <2> DEFINE g == [Idle EXCEPT !.pc = pc, !.job = Task(kind, a, 0), !.att = a, !.seen = row.status]
  <2>1. g.pc = pc /\ g.job.kind = kind
    BY DEF Idle, Task
  <2>2. Becomes(c, g) /\ proc[c].pc = "idle"
    BY <1>4 DEF Request, Becomes, At
  <2> QED
    BY <2>1, <2>2
<1> QED
  BY <1>2, <1>3, <1>4

(* A request that stores nothing, and leaves the row or ends the document. *)
LEMMA RequestKeeps ==
  ASSUME TypeOK, Calm, Whole, NEW c \in Callers, NEW g, Becomes(c, g),
         stored' = stored, latest' = latest,
         \A t \in BagToSet(queue') : t.kind \in {"post", "image"} => t \in BagToSet(queue),
         \/ row' = row
         \/ ~Has(row', {"processing"}) /\ ~Has(row', {"finalizing"}) /\ ~Has(row', {"completed"}),
         Has(row', {"completed"}) /\ g.pc \notin {"re.clean", "re.reset"}
            => proc[c].pc \notin {"re.clean", "re.reset"},
         Undone /\ (\E v \in Workers : proc[v].pc = "chunk.undo") =>
            ~Has(row', Active \cup {"completed"}) /\ g.pc \notin ReparsePCs
  PROVE  Whole'
<1>1. /\ \A v \in Workers : proc'[v] = proc[v]
      /\ \A pcs : Requested(pcs) <=> proc[c].pc \in pcs
      /\ \A pcs : (\E d \in Callers : proc'[d].pc \in pcs) <=> g.pc \in pcs
  BY RequesterIs
<1>2. Following' => Following
  BY <1>1 DEF Following
<1>3. Indexed' <=> Indexed
  BY DEF Indexed
<1>4. ASSUME NEW v \in Workers
      PROVE  Written(proc[v])' /\ (proc'[v].pc = "chunk.undo" => Undone')
  <2>1. Written(proc[v])'
    BY <1>1, <1>3 DEF Whole, Written
  <2>2. proc'[v].pc = "chunk.undo" => Undone'
    BY <1>1 DEF Whole, Undone, Requested
  <2> QED
    BY <2>1, <2>2
<1>5. Has(row', {"finalizing"}) => Indexed'
  BY <1>3 DEF Whole
<1>6. Has(row', {"completed"}) /\ ~ (\E d \in Callers : proc'[d].pc \in {"re.clean", "re.reset"}) => Indexed'
  <2>1. SUFFICES ASSUME Has(row', {"completed"}), g.pc \notin {"re.clean", "re.reset"} PROVE Indexed
    BY <1>1, <1>3
  <2>2. ~Requested({"re.clean", "re.reset"})
    BY <1>1, <2>1
  <2> QED
    BY <2>1, <2>2 DEF Whole
<1>7. Following' /\ Has(row', {"processing"}) => Indexed'
  BY <1>2, <1>3 DEF Whole
<1> QED
  BY <1>4, <1>5, <1>6, <1>7 DEF Whole, Requested

(* A reparse keeps what is stored whole: until it resets the row, the row is *)
(* not read as completed.                                                    *)
LEMMA ReparseKeeps ==
  ASSUME TypeOK, Calm, SafetyInv, Whole, NEW c \in Callers,
         \/ ReparseClean(c) \/ ReparseReset(c) \/ ReparseZero(c) \/ ReparseEnqueue(c) \/ ReparseFailed(c)
  PROVE  Whole'
<1> USE DEF At
<1>0. "db" \notin Faults /\ (\A status : TrySave(status) <=> row' = Saved(row, status))
  BY CalmSteps
<1>1. proc[c].pc \in ReparsePCs /\ latest' = latest
  BY DEF ReparseClean, ReparseReset, ReparseZero, ReparseEnqueue, ReparseFailed, ReparsePCs, StoredOnly,
         RowOnly, QueueOnly
<1>2. /\ ~Saving /\ ~Following
      /\ proc[c].pc \in {"re.clean", "re.reset"} => Has(row, {"completed", "failed"})
      /\ proc[c].pc \in {"re.zero", "re.enqueue", "re.failed"} => Has(row, {"pending"})
  BY <1>1, Reparses
<1>3. ~Undone
  BY <1>1 DEF Undone, Requested
<1>4. row \in Rows
  BY DEF TypeOK
<1>5. CASE ReparseClean(c)
  <2>1. PICK g : Becomes(c, g) /\ g.pc = "re.reset"
    BY <1>0, <1>5, RequestPlaces DEF ReparseClean
  <2>2. /\ \A v \in Workers : proc'[v] = proc[v]
        /\ (\E d \in Callers : proc'[d].pc \in {"re.clean", "re.reset"})
    BY <2>1, RequesterIs
  <2>3. row' = row /\ queue' = queue /\ Has(row, {"completed", "failed"})
    BY <1>2, <1>5 DEF ReparseClean, StoredOnly
  <2>4. \A v \in Workers : proc'[v].pc \notin WritingPCs \cup {"chunk.undo"}
    BY <1>2, <1>3, <2>2, WritingAreSavers DEF Saving, Whole
  <2>5. ~Has(row', {"finalizing"}) /\ ~Has(row', {"processing"})
    BY <2>3 DEF Has
  <2> QED
    BY <2>2, <2>4, <2>5 DEF Whole, Requested, Written, WritingPCs
<1>6. CASE ReparseReset(c) \/ ReparseZero(c) \/ ReparseFailed(c)
  <2>1. PICK g : Becomes(c, g)
    BY <1>6, RequestPlaces DEF ReparseReset, ReparseZero, ReparseFailed
  <2>2. stored' = stored /\ queue' = queue
    BY <1>6 DEF ReparseReset, ReparseZero, ReparseFailed, RowOnly
  <2>3. ~Has(row', {"processing"}) /\ ~Has(row', {"finalizing"}) /\ ~Has(row', {"completed"})
    BY <1>0, <1>2, <1>4, <1>6 DEF ReparseReset, ReparseZero, ReparseFailed, Saved, ZeroCount, Has, Rows
  <2> QED
    BY <1>1, <1>3, <2>1, <2>2, <2>3, RequestKeeps
<1>7. CASE ReparseEnqueue(c)
  <2>1. PICK g : Becomes(c, g)
    BY <1>7, RequestPlaces DEF ReparseEnqueue
  <2>2. stored' = stored /\ row' = row /\ Has(row, {"pending"})
    BY <1>2, <1>7 DEF ReparseEnqueue, QueueOnly
  <2>3. \A t \in BagToSet(queue') : t.kind \in {"post", "image"} => t \in BagToSet(queue)
    <3>1. CASE queue' = queue
      BY <3>1
    <3>2. CASE Add(Task("process", Att(c), 0))
      <4>1. BagToSet(queue') = BagToSet(queue) \cup {Task("process", Att(c), 0)}
        BY <3>2, BagPut DEF Add, TypeOK
      <4> QED
        BY <4>1 DEF Task
    <3> QED
      BY <1>7, <3>1, <3>2 DEF ReparseEnqueue
  <2>4. ~Has(row', {"completed"})
    BY <2>2 DEF Has
  <2> QED
    BY <1>1, <1>3, <2>1, <2>2, <2>3, <2>4, RequestKeeps
<1> QED
  BY <1>5, <1>6, <1>7

(* Opening an attempt finds an ended document, and nobody at work on it. *)
LEMMA ReparseOpenKeeps ==
  ASSUME TypeOK, Calm, UndoInTime, SafetyInv, Whole, NEW c \in Callers, ReparseOpen(c)
  PROVE  Whole'
<1>1. PICK g : Becomes(c, g) /\ g.pc = "re.clean"
  BY RequestPlaces DEF ReparseOpen
<1>2. /\ \A v \in Workers : proc'[v] = proc[v]
      /\ \E d \in Callers : proc'[d].pc \in {"re.clean", "re.reset"}
  BY <1>1, RequesterIs
<1>3. row' = row /\ Has(row, {"completed", "failed"}) /\ Has(row, ReparseFrom) /\ queue' = queue
  BY DEF ReparseOpen, Calm, Has
<1>4. ~Saving
  BY <1>3 DEF SafetyInv, Phases, Has
<1>5. \A v \in Workers : proc'[v].pc # "chunk.undo"
  <2>1. SUFFICES ASSUME NEW v \in Workers, proc[v].pc = "chunk.undo" PROVE FALSE
    BY <1>2
  <2> QED
    BY <1>3, <2>1 DEF Whole, Undone, Has, Active, UndoInTime
<1>6. \A v \in Workers : proc'[v].pc \notin WritingPCs
  BY <1>2, <1>4, WritingAreSavers DEF Saving
<1>7. ~Has(row', {"finalizing"}) /\ ~Has(row', {"processing"})
  BY <1>3 DEF Has
<1> QED
  BY <1>2, <1>5, <1>6, <1>7 DEF Whole, Requested, Written, WritingPCs

(* Cancelling, deleting and sweeping end a document, or find it ended. *)
LEMMA StopsKeep ==
  ASSUME TypeOK, Calm, SafetyInv, Whole, NEW c \in Callers,
         \/ CancelRead(c) \/ CancelMark(c) \/ Dequeue(c) \/ DeleteMark(c) \/ DeleteRow(c)
         \/ SweepFind(c) \/ SweepUpdate(c)
  PROVE  Whole'
<1> USE DEF At
<1>0. row \in Rows
  BY DEF TypeOK
<1>1. PICK g : Becomes(c, g) /\ g.pc \in StopPCs \cup SweepPCs \cup {"idle"}
  <2>1. CASE CancelRead(c)
    BY <2>1, RequestPlaces DEF CancelRead, StopPCs
  <2>2. CASE CancelMark(c)
    BY <2>2, RequestPlaces DEF CancelMark, StopPCs
  <2>3. CASE Dequeue(c)
    BY <2>3, RequestPlaces DEF Dequeue, StopPCs
  <2>4. CASE DeleteMark(c)
    BY <2>4, RequestPlaces DEF DeleteMark, StopPCs
  <2>5. CASE SweepFind(c)
    BY <2>5, RequestPlaces DEF SweepFind, SweepPCs
  <2>6. CASE DeleteRow(c) \/ SweepUpdate(c)
    BY <2>6, RequestPlaces DEF DeleteRow, SweepUpdate
  <2> QED
    BY <2>1, <2>2, <2>3, <2>4, <2>5, <2>6
<1>2. g.pc \notin ReparsePCs
  BY <1>1, PlacesOfRequests
<1>3. proc[c].pc \notin {"re.clean", "re.reset"}
  BY DEF CancelRead, CancelMark, Dequeue, DeleteMark, DeleteRow, SweepFind, SweepUpdate, Request
<1>4. stored' = stored /\ latest' = latest
  BY DEF CancelRead, CancelMark, Dequeue, DeleteMark, DeleteRow, SweepFind, SweepUpdate, QueueOnly, RowOnly
<1>5. \A t \in BagToSet(queue') : t \in BagToSet(queue)
  <2>1. CASE queue' = queue
    BY <2>1
  <2>2. ASSUME NEW kept \in SUBSET BagToSet(queue), queue' = [t \in kept |-> queue[t]]
        PROVE  BagToSet(queue') \subseteq BagToSet(queue)
    BY <2>2 DEF BagToSet
  <2> QED
    BY <2>1, <2>2 DEF CancelRead, CancelMark, Dequeue, DeleteMark, DeleteRow, SweepFind, SweepUpdate, RowOnly
<1>6. row' = row \/ ~Has(row', Active \cup {"completed"})
  BY <1>0 DEF CancelRead, CancelMark, Dequeue, DeleteMark, DeleteRow, SweepFind, SweepUpdate, QueueOnly,
     CancelledByUser, MarkedDeleting, Removed, SweptStuck, SweptDelete, Has, Active, Rows
<1>7. \/ row' = row
      \/ ~Has(row', {"processing"}) /\ ~Has(row', {"finalizing"}) /\ ~Has(row', {"completed"})
  BY <1>6 DEF Has, Active
<1>8. Undone => ~Has(row', Active \cup {"completed"})
  BY <1>6 DEF Undone
<1> QED
  BY <1>1, <1>2, <1>3, <1>4, <1>5, <1>7, <1>8, RequestKeeps

(* A delete purges what is stored of a document that nobody parses. *)
LEMMA PurgeKeeps ==
  ASSUME TypeOK, Calm, SafetyInv, Whole, NEW c \in Callers, DeletePurge(c) PROVE Whole'
<1>1. proc[c].pc = "del.purge" /\ row' = row /\ latest' = latest /\ queue' = queue
  BY DEF DeletePurge, StoredOnly, At
<1>2. PICK g : Becomes(c, g) /\ g.pc \in {"del.row", "idle"}
  BY RequestPlaces DEF DeletePurge
<1>3. /\ \A v \in Workers : proc'[v] = proc[v]
      /\ \A pcs : Requested(pcs) <=> proc[c].pc \in pcs
      /\ \A pcs : (\E d \in Callers : proc'[d].pc \in pcs) <=> g.pc \in pcs
  BY <1>2, RequesterIs
<1>4. ~Saving /\ (row.gone \/ row.status \in Aborted)
  BY <1>1, Stops DEF StopPCs
<1>5. ~Has(row, {"processing"}) /\ ~Has(row, {"finalizing"}) /\ ~Has(row, {"completed"})
  BY <1>4 DEF Has, Aborted
<1>6. \A v \in Workers : proc'[v].pc \notin WritingPCs
  BY <1>3, <1>4, WritingAreSavers DEF Saving
<1>7. Undone => Undone'
  <2>1. g.pc \notin ReparsePCs
    BY <1>2 DEF ReparsePCs
  <2> QED
    BY <1>1, <1>3, <2>1 DEF Undone, Requested, Has
<1>8. \A v \in Workers : Written(proc[v])' /\ (proc'[v].pc = "chunk.undo" => Undone')
  BY <1>3, <1>6, <1>7 DEF Whole, Written, WritingPCs
<1> QED
  BY <1>1, <1>5, <1>8 DEF Whole, Has

(* No step takes anything from what is stored for a document at rest. *)
LEMMA StepKeepsWhole ==
  ASSUME TypeOK, Calm, UndoInTime, SafetyInv, Whole, [Next]_vars PROVE Whole'
<1>1. CASE UNCHANGED vars
  <2>1. row' = row /\ latest' = latest /\ stored' = stored /\ queue' = queue /\ proc' = proc
    BY <1>1 DEF vars
  <2> QED
    BY <2>1 DEF Whole, Written, Undone, Indexed, Following, Requested, Has
<1>2. CASE \E w \in Workers : WorkerStep(w)
  BY <1>2, WorkersKeepWhole
<1>3. CASE \E c \in Callers : ApiStep(c)
  BY <1>3, ReparseOpenKeeps, ReparseKeeps, StopsKeep, PurgeKeeps DEF ApiStep
<1>4. ~ \E p \in Procs : Crash(p)
  BY CalmSteps DEF Crash
<1> QED
  BY <1>1, <1>2, <1>3, <1>4 DEF Next

(* A new document has nothing stored, and needs nothing. *)
LEMMA WholeAtFirst == Init => Whole
<1> SUFFICES ASSUME Init PROVE Whole
  OBVIOUS
<1>1. /\ row.status = "pending" /\ \A w \in Workers : proc[w].pc = "idle"
  BY IdleFits, CallersAreNoWorkers DEF Init, NewRow
<1> QED
  BY <1>1 DEF Whole, Written, Has

(* Only a reparse is where a reparse can be. *)
Reparsers == \A c \in Callers : proc[c].pc \in ReparsePCs => proc[c].job.kind = "reparse"

(* No step takes a request that is no reparse to a place of one. *)
LEMMA ReparsersStay ==
  ASSUME TypeOK, Calm, SafetyInv, Reparsers, [Next]_vars PROVE Reparsers'
<1>1. CASE UNCHANGED vars
  BY <1>1 DEF vars, Reparsers
<1>2. ASSUME NEW w \in Workers, WorkerStep(w) PROVE Reparsers'
  BY <1>2, Carries, RequestsStay DEF Reparsers
<1>3. ASSUME NEW c \in Callers, ApiStep(c) PROVE Reparsers'
  <2>1. \E g : Becomes(c, g) /\ (g.pc \in ReparsePCs => g.job.kind = "reparse")
    <3> USE DEF At, ReparsePCs
    <3>1. CASE ReparseOpen(c)
      BY <3>1, RequestPlaces DEF ReparseOpen
    <3>2. CASE ReparseClean(c) \/ ReparseReset(c) \/ ReparseZero(c) \/ ReparseEnqueue(c) \/ ReparseFailed(c)
      <4>1. proc[c].job.kind = "reparse"
        BY <3>2 DEF ReparseClean, ReparseReset, ReparseZero, ReparseEnqueue, ReparseFailed, Reparsers
      <4>2. (\E pc : Goto(c, pc)) \/ Leave(c)
        BY <3>2 DEF ReparseClean, ReparseReset, ReparseZero, ReparseEnqueue, ReparseFailed
      <4> QED
        BY <4>1, <4>2, RequestPlaces
    <3>3. CASE CancelRead(c) \/ DeleteMark(c) \/ SweepFind(c)
      BY <3>3, RequestPlaces DEF CancelRead, DeleteMark, SweepFind
    <3>4. CASE CancelMark(c) \/ Dequeue(c) \/ DeletePurge(c) \/ DeleteRow(c) \/ SweepUpdate(c)
      BY <3>4, RequestPlaces DEF CancelMark, Dequeue, DeletePurge, DeleteRow, SweepUpdate
    <3> QED
      BY <1>3, <3>1, <3>2, <3>3, <3>4 DEF ApiStep
  <2> QED
    BY <2>1, RequesterIs DEF Reparsers
<1>4. ~ \E p \in Procs : Crash(p)
  BY CalmSteps DEF Crash
<1> QED
  BY <1>1, <1>2, <1>3, <1>4 DEF Next

(* No request is under way at first. *)
LEMMA ReparsersAtFirst == Init => Reparsers
<1> SUFFICES ASSUME Init, NEW c \in Callers PROVE proc[c].pc = "idle"
  BY PlacesOfRequests DEF Reparsers
<1> QED
  BY IdleFits DEF Init, Procs

(* processChunks and cleanupKnowledgeResources: what is stored for a         *)
(* document is whole from the indexing of its last attempt to the next       *)
(* reparse, whatever is retried, undone or added by its other tasks.         *)
THEOREM StaysWhole == ASSUME Calm, UndoInTime PROVE Spec => []Whole
<1>1. Calm /\ UndoInTime
  OBVIOUS
<1>2. Init => Whole
  BY WholeAtFirst
<1>3. TypeOK /\ SafetyInv /\ Whole /\ [Next]_vars => Whole'
  BY <1>1, StepKeepsWhole
<1>4. Spec => []SafetyInv
  BY <1>1, SafetyHolds
<1> QED
  BY <1>2, <1>3, <1>4, TypeCorrect, PTL DEF Spec

(* A completed document that nobody reparses has the chunks and the vectors  *)
(* of its last attempt, and nothing of an earlier one.                       *)
THEOREM CompletedAreIndexed == ASSUME Calm, UndoInTime PROVE Spec => []CompletedIsIndexed
<1>1. Calm /\ UndoInTime
  OBVIOUS
<1>2. Init => Reparsers
  BY ReparsersAtFirst
<1>3. TypeOK /\ SafetyInv /\ Reparsers /\ [Next]_vars => Reparsers'
  BY <1>1, ReparsersStay
<1>4. Whole /\ Reparsers => CompletedIsIndexed
  BY DEF Whole, Reparsers, CompletedIsIndexed, Reparsing, Indexed, Requested, ReparsePCs
<1>5. Spec => []SafetyInv
  BY <1>1, SafetyHolds
<1>6. Spec => []Whole
  BY <1>1, StaysWhole
<1> QED
  BY <1>2, <1>3, <1>4, <1>5, <1>6, TypeCorrect, PTL DEF Spec

----------------------------------------------------------------------------
(* A document that is stopped, or gone, has no task left that adds to it,    *)
(* when nobody may stop one that is being enriched.                          *)
Ended == row.gone \/ row.status \in Aborted
Emptied ==
    /\ ~Requested({"ca.mark"})
    /\ Ended => HeldNow = {}
    /\ row.gone \/ Requested({"del.row"}) => stored = {}

StopsAtRest == ~ManyPosts /\ "finalizing" \notin CancelFrom \cup DeleteFrom

(* A step of a task ends no document in this sense, and where no slot is     *)
(* held and nothing is handed over, no slot is held after it.                *)
LEMMA EndedStays ==
  ASSUME TypeOK, Calm, SafetyInv, NEW w \in Workers, WorkerStep(w)
  PROVE  /\ row'.gone => row.gone
         /\ Ended' => Ended
         /\ Ended /\ HeldNow = {} => HeldNow' = {}
<1>1. PICK g \in Locals :
       \/ Moves(w, g)
       \/ \E t \in BagToSet(queue) : Takes(w, g, t)
       \/ \E t \in Tasks : PutsBack(w, g, t)
       \/ \E s \in {"processing", "failed"} : Saves(w, g, s)
       \/ PostFails(w, g) \/ HandsOver(w, g) \/ CompletesNow(w, g)
       \/ \E n \in Slots : Spawns(w, g, n) \/ GivesBack(w, g, n) \/ Promotes(w, g, n)
       \/ Counts(w, g) \/ SetsCounter(w, g)
  BY WorkerStepKind DEF WorkerKinds
<1>2. latest' = latest /\ Becomes(w, g) /\ w \in Procs /\ row \in Rows
  BY <1>1, CallersAreNoWorkers DEF Moves, Shifts, Takes, PutsBack, Puts, Saves, PostFails, HandsOver,
     CompletesNow, Spawns, GivesBack, Promotes, Counts, SetsCounter, Runs, TypeOK
<1>3. (row'.gone => row.gone) /\ (Ended' => Ended)
  <2>1. CASE row' = row
    BY <2>1 DEF Ended
  <2>2. CASE \E s \in {"processing", "failed"} : Saves(w, g, s)
    BY <1>2, <2>2 DEF Saves, Saved, Ended, Aborted, Rows
  <2>3. CASE HandsOver(w, g) \/ CompletesNow(w, g) \/ PostFails(w, g)
    BY <1>2, <2>3 DEF HandsOver, CompletesNow, PostFails, HandedOff, CompletedAtOnce, FailedIfActive,
       Ended, Aborted, Rows
  <2>4. CASE \E n \in Slots : GivesBack(w, g, n) \/ Promotes(w, g, n)
    BY <1>2, <2>4 DEF GivesBack, Promotes, Decremented, Promoted, Ended, Aborted, Rows
  <2>5. CASE \/ Moves(w, g)
             \/ \E t \in BagToSet(queue) : Takes(w, g, t)
             \/ \E t \in Tasks : PutsBack(w, g, t)
             \/ \E n \in Slots : Spawns(w, g, n)
             \/ Counts(w, g) \/ SetsCounter(w, g)
    <3>1. row' = row
      BY <2>5 DEF Moves, Shifts, Takes, PutsBack, Puts, Spawns, Counts, SetsCounter
    <3> QED
      BY <2>1, <3>1
  <2> QED
    BY <1>1, <2>2, <2>3, <2>4, <2>5
<1>4. ASSUME Ended, HeldNow = {} PROVE HeldNow' = {}
  <2>1. ASSUME NEW v \in Workers, NEW n, <<"slot", latest, n>> \in Holds(proc[v]) PROVE FALSE
    <3>1. <<"slot", latest, n>> \in SlotsOf(latest, Slots)
      BY <2>1 DEF SafetyInv, Enriching
    <3> QED
      BY <1>4, <2>1, <3>1 DEF HeldNow, SlotsOf
  <2>2. \A n \in Slots, t \in BagToSet(queue) : <<"slot", latest, n>> \notin TaskClaims(t)
    BY <1>4 DEF HeldNow
  <2>3. \A n : <<"slot", latest, n>> \notin Turn(proc[w])
    BY DEF Turn, Driver, ImagesOf
  <2>a. \A x \in Holds(proc[w]) : \E n \in Slots : x = <<"slot", latest, n>>
    BY DEF SafetyInv, Enriching, SlotsOf
  <2>4. /\ \A n \in Slots : <<"slot", latest, n>> \notin Holds(g)
        /\ \A n \in Slots, t \in BagToSet(queue') : <<"slot", latest, n>> \notin TaskClaims(t)
    <3>1. CASE Moves(w, g)
      BY <2>1, <2>2, <3>1 DEF Moves, Shifts, Lighter
    <3>2. CASE \E t \in BagToSet(queue) : Takes(w, g, t)
      <4>1. PICK t \in BagToSet(queue) : Takes(w, g, t)
        BY <3>2
      <4>2. BagToSet(queue') \subseteq BagToSet(queue)
        BY <4>1, TakenQueue DEF Takes, SafetyInv
      <4>3. Holds(g) \subseteq TaskClaims(t)
        BY <4>1 DEF Takes, Holds, Duties
      <4> QED
        BY <2>2, <4>2, <4>3
    <3>3. CASE \E t \in Tasks : PutsBack(w, g, t)
      <4>1. PICK t \in Tasks : Puts(w, g, t)
        BY <3>3 DEF PutsBack
      <4>2. BagToSet(queue') = BagToSet(queue) \cup {t}
        BY <4>1, PutQueue DEF Puts
      <4>3. Holds(g) \subseteq Holds(proc[w]) /\ TaskClaims(t) \subseteq Turn(proc[w]) \cup Holds(proc[w])
        BY <4>1 DEF Puts
      <4> QED
        BY <2>1, <2>2, <2>3, <4>2, <4>3
    <3>4. CASE \/ \E s \in {"processing", "failed"} : Saves(w, g, s)
               \/ PostFails(w, g) \/ CompletesNow(w, g)
      BY <2>2, <3>4 DEF Saves, PostFails, CompletesNow, Holds
    <3>5. CASE Counts(w, g) \/ SetsCounter(w, g)
      BY <2>2, <3>5 DEF Counts, SetsCounter, Holds
    <3>6. ~HandsOver(w, g)
      BY <1>4 DEF HandsOver, Ended, Aborted, Has
    <3>7. \A n \in Slots : ~Spawns(w, g, n) /\ ~GivesBack(w, g, n)
      <4>1. SUFFICES ASSUME NEW n \in Slots, Spawns(w, g, n) \/ GivesBack(w, g, n) PROVE FALSE
        OBVIOUS
      <4>2. <<"slot", g.att, n>> \in Holds(proc[w])
        BY <4>1 DEF Spawns, GivesBack, Holds, Duties
      <4> QED
        BY <2>1, <2>a, <4>2
    <3>8. CASE \E n \in Slots : Promotes(w, g, n)
      <4>1. Holds(g) \subseteq Holds(proc[w]) /\ queue' = queue
        BY <3>8 DEF Promotes, Holds, Duties
      <4> QED
        BY <2>1, <2>2, <4>1
    <3> QED
      BY <1>1, <3>1, <3>2, <3>3, <3>4, <3>5, <3>6, <3>7, <3>8
  <2>5. HeldNow' = {n \in Slots : \/ <<"slot", latest, n>> \in Holds(g)
                                 \/ \E v \in Workers : (v # w /\ <<"slot", latest, n>> \in Holds(proc[v]))
                                 \/ \E t \in BagToSet(queue') : <<"slot", latest, n>> \in TaskClaims(t)}
    BY <1>2, HeldAfter
  <2>6. \A n \in Slots : n \notin HeldNow'
    BY <2>1, <2>4, <2>5
  <2> QED
    BY <2>5, <2>6
<1> QED
  BY <1>3, <1>4

(* What a task that is not parsing takes from the store, or adds to it. *)
LEMMA TasksStore ==
  ASSUME TypeOK, Calm, NEW w \in Workers, WorkerStep(w),
         proc[w].pc \notin SaverPCs \cup {"sub.write", "sum.write", "image.run"}
  PROVE  stored' \subseteq stored
<1>1. CASE PostStep(w) \/ SubtaskStep(w) \/ ImageStep(w)
  BY <1>1, PostPasses, SubtaskPasses, ImagePasses DEF Passes
<1>2. CASE DocStep(w) /\ proc[w].pc # "chunk.undo"
  <2>1. proc[w].pc \notin WritingPCs \cup {"chunk.clean"}
    BY WritingAreSavers DEF SaverPCs
  <2> QED
    BY <1>2, <2>1, DocPasses DEF Passes
<1>3. CASE DocStep(w) /\ proc[w].pc = "chunk.undo"
  <2>1. ChunksUndo(w)
    <3>1. ~ (\E t \in BagToSet(queue) : DocEnter(w, t))
      BY <1>3 DEF DocEnter, Take, Drop, At
    <3>2. ~ (\/ DocRecheck(w) \/ DocMark(w) \/ DocConvert(w) \/ DocConvertError(w) \/ DocFatal(w)
             \/ ChunksCheck(w) \/ ChunksClean(w) \/ ChunksRecheck(w) \/ ChunksWrite(w)
             \/ ChunksBeforeIndex(w) \/ ChunksIndex(w) \/ ChunksIndexError(w)
             \/ ChunksFinal(w) \/ ChunksSave(w) \/ EnqueuePost(w) \/ SetMultimodal(w) \/ EnqueueImage(w))
      BY <1>3 DEF DocRecheck, DocMark, DocConvert, DocConvertError, DocFatal, ChunksCheck, ChunksClean,
         ChunksRecheck, ChunksWrite, ChunksBeforeIndex, ChunksIndex, ChunksIndexError, ChunksFinal,
         ChunksSave, EnqueuePost, SetMultimodal, EnqueueImage, At
    <3> QED
      BY <1>3, <3>1, <3>2 DEF DocStep
  <2> QED
    BY <2>1 DEF ChunksUndo, DropChunksAndIndex, TryKeeping
<1>4. Acknowledge(w) => stored' = stored
  BY DEF Acknowledge, ProcOnly, RowOnly
<1> QED
  BY <1>1, <1>2, <1>3, <1>4 DEF WorkerStep

(* Where no slot is held, no subtask is about to store anything. *)
LEMMA NobodyWrites ==
  ASSUME TypeOK, SafetyInv, HeldNow = {}, NEW w \in Workers
  PROVE  proc[w].pc \notin {"sub.write", "sum.write"}
<1>1. SUFFICES ASSUME proc[w].pc \in {"sub.write", "sum.write"} PROVE FALSE
  OBVIOUS
<1>2. proc[w].pc \in OwnerPCs /\ Fits(proc[w])
  BY <1>1, CallersAreNoWorkers DEF OwnerPCs, SummaryPCs, SafetyInv, Shapes
<1>3. Holds(proc[w]) = SlotsOf(proc[w].att, {proc[w].job.n})
  BY <1>2, OwnerDuty
<1>4. <<"slot", proc[w].att, proc[w].job.n>> \in SlotsOf(latest, Slots)
  BY <1>3 DEF SafetyInv, Enriching, SlotsOf
<1> QED
  BY <1>3, <1>4 DEF HeldNow, SlotsOf

(* No task of a stopped document stores anything again. *)
LEMMA TasksKeepEmptied ==
  ASSUME TypeOK, Calm, StopsAtRest, SafetyInv, Emptied, NEW w \in Workers, WorkerStep(w)
  PROVE  Emptied'
<1>1. PICK g : Becomes(w, g)
  BY Carries
<1>2. \A pcs : (\E c \in Callers : proc'[c].pc \in pcs) <=> Requested(pcs)
  BY <1>1, RequestsStay
<1>3. Ended' => HeldNow' = {}
  BY EndedStays DEF Emptied
<1>4. row'.gone \/ Requested({"del.row"}) => stored' = {}
  <2>1. SUFFICES ASSUME row'.gone \/ Requested({"del.row"}) PROVE stored' = {}
    OBVIOUS
  <2>2. row.gone \/ Requested({"del.row"})
    BY <2>1, EndedStays
  <2>3. Ended /\ stored = {} /\ HeldNow = {}
    <3>1. Requested({"del.row"}) => Requested({"dequeue", "del.purge", "del.row"})
      BY DEF Requested
    <3> QED
      BY <2>2, <3>1 DEF Emptied, Ended, SafetyInv, Phases
  <2>4. ~Saving /\ ~Following
    BY <2>3 DEF StopsAtRest, SafetyInv, Phases, Has, Ended, Aborted
  <2>5. proc[w].pc \notin SaverPCs \cup {"sub.write", "sum.write", "image.run"}
    BY <2>3, <2>4, NobodyWrites DEF Saving, Following, FollowerPCs, ImagePCs, ReadingPCs
  <2> QED
    BY <2>3, <2>5, TasksStore
<1> QED
  BY <1>2, <1>3, <1>4 DEF Emptied, Requested

(* No request starts what a stop has ended. *)
LEMMA RequestsKeepEmptied ==
  ASSUME TypeOK, Calm, StopsAtRest, SafetyInv, Emptied, NEW c \in Callers, ApiStep(c)
  PROVE  Emptied'
<1> USE DEF At
<1>0. "db" \notin Faults /\ (\A status : TrySave(status) <=> row' = Saved(row, status)) /\ row \in Rows
  BY CalmSteps DEF TypeOK
<1>1. ~CancelMark(c)
  BY DEF CancelMark, Emptied, Requested
<1>a. ASSUME NEW g, Becomes(c, g), g.pc # "ca.mark", Ended' => HeldNow' = {},
             row'.gone \/ g.pc = "del.row" => stored' = {}
      PROVE  Emptied'
  <2>1. \A d \in Callers : proc'[d] = g
    BY <1>a, RequesterIs
  <2> QED
    BY <1>a, <2>1 DEF Emptied, Requested
<1>2. CASE ReparseOpen(c)
  <2>1. PICK g : Becomes(c, g) /\ g.pc = "re.clean"
    BY <1>2, RequestPlaces DEF ReparseOpen
  <2>2. row' = row /\ ~row.gone
    BY <1>2 DEF ReparseOpen, Has
  <2> QED
    BY <1>2, <1>a, <2>1, <2>2, ReparseOpenIsSafe
<1>3. CASE ReparseClean(c) \/ ReparseReset(c) \/ ReparseZero(c) \/ ReparseEnqueue(c) \/ ReparseFailed(c)
  <2>1. proc[c].pc \in ReparsePCs
    BY <1>3 DEF ReparseClean, ReparseReset, ReparseZero, ReparseEnqueue, ReparseFailed, ReparsePCs
  <2>2. ~Ended
    BY <2>1, Reparses DEF ReparsePCs, Has, Ended, Aborted
  <2>3. ~Ended'
    BY <1>0, <1>3, <2>2 DEF ReparseClean, ReparseReset, ReparseZero, ReparseEnqueue, ReparseFailed,
       StoredOnly, RowOnly, QueueOnly, Saved, ZeroCount, Ended, Aborted, Rows
  <2>4. PICK g : Becomes(c, g) /\ g.pc \in {"re.reset", "re.zero", "re.enqueue", "re.failed", "idle"}
    BY <1>3, RequestPlaces DEF ReparseClean, ReparseReset, ReparseZero, ReparseEnqueue, ReparseFailed
  <2> QED
    BY <1>a, <2>3, <2>4 DEF Ended
<1>4. CASE CancelRead(c)
  <2>1. row.status = "cancelled" /\ row' = row /\ ~row.gone
    BY <1>4 DEF CancelRead, StopsAtRest, Calm, Has, Active
  <2>2. PICK g : Becomes(c, g) /\ g.pc = "dequeue"
    BY <1>4, <2>1, RequestPlaces DEF CancelRead
  <2>3. HeldNow' = {}
    BY <1>4, <2>1, CancelIsSafe DEF Emptied, Ended, Aborted
  <2> QED
    BY <1>a, <2>1, <2>2, <2>3
<1>5. CASE Dequeue(c)
  <2>1. row' = row /\ stored' = stored
    BY <1>5 DEF Dequeue, QueueOnly
  <2>2. PICK g : Becomes(c, g) /\ g.pc \in {"del.purge", "idle"}
    BY <1>5, RequestPlaces DEF Dequeue
  <2>3. Ended => HeldNow' = {}
    BY <1>5, DequeueIsSafe DEF Emptied
  <2> QED
    BY <1>a, <2>1, <2>2, <2>3 DEF Emptied, Ended
<1>6. CASE DeleteMark(c)
  <2>1. ~row.gone /\ row.status \in DeleteFrom /\ ~row'.gone
    BY <1>0, <1>6 DEF DeleteMark, MarkedDeleting, Has, Rows
  <2>2. row.status \in {"completed", "failed", "cancelled", "deleting"}
    BY <1>0, <2>1 DEF StopsAtRest, Calm, Rows, Statuses
  <2>3. HeldNow = {}
    BY <2>1, <2>2 DEF Emptied, Ended, Aborted, SafetyInv, Enriching, Has, StopsAtRest
  <2>4. PICK g : Becomes(c, g) /\ g.pc \in {"dequeue", "del.purge"}
    BY <1>6, RequestPlaces DEF DeleteMark
  <2>5. HeldNow' = {}
    BY <1>6, <2>3, DeleteIsSafe
  <2> QED
    BY <1>a, <2>1, <2>4, <2>5
<1>7. CASE DeletePurge(c)
  <2>1. row' = row /\ stored' = {}
    BY <1>0, <1>7 DEF DeletePurge, StoredOnly
  <2>2. PICK g : Becomes(c, g) /\ g.pc \in {"del.row", "idle"}
    BY <1>7, RequestPlaces DEF DeletePurge
  <2>3. Ended => HeldNow' = {}
    BY <1>7, DeleteIsSafe DEF Emptied
  <2> QED
    BY <1>a, <2>1, <2>2, <2>3 DEF Ended
<1>8. CASE DeleteRow(c)
  <2>1. stored' = stored /\ stored = {}
    BY <1>8 DEF DeleteRow, RowOnly, Emptied, Requested
  <2>2. PICK g : Becomes(c, g) /\ g.pc = "idle"
    BY <1>8, RequestPlaces DEF DeleteRow
  <2>3. Ended
    <3>1. proc[c].pc = "del.row"
      BY <1>8 DEF DeleteRow
    <3> QED
      BY <3>1, Stops DEF StopPCs, Ended
  <2>4. HeldNow' = {}
    BY <1>8, <2>3, DeleteIsSafe DEF Emptied
  <2> QED
    BY <1>a, <2>1, <2>2, <2>4
<1>9. CASE SweepFind(c) \/ SweepUpdate(c)
  <2>1. PICK g : Becomes(c, g) /\ g.pc \in {"sweep.stuck", "sweep.delete", "idle"}
    <3>1. CASE SweepFind(c)
      BY <3>1, RequestPlaces DEF SweepFind
    <3>2. CASE SweepUpdate(c)
      BY <3>2, RequestPlaces DEF SweepUpdate
    <3> QED
      BY <1>9, <3>1, <3>2
  <2>2. (row'.gone => row.gone) /\ stored' = stored
    BY <1>0, <1>9 DEF SweepFind, SweepUpdate, SweptStuck, SweptDelete, RowOnly, Rows
  <2>3. HeldNow' = {}
    BY <1>9, SweepIsSafe
  <2> QED
    BY <1>a, <2>1, <2>2, <2>3 DEF Emptied
<1> QED
  BY <1>1, <1>2, <1>3, <1>4, <1>5, <1>6, <1>7, <1>8, <1>9 DEF ApiStep

(* Between stopping a document and deleting its row nothing is stored for it. *)
LEMMA StepKeepsEmptied ==
  ASSUME TypeOK, Calm, StopsAtRest, SafetyInv, Emptied, [Next]_vars PROVE Emptied'
<1>1. CASE UNCHANGED vars
  <2>1. row' = row /\ latest' = latest /\ stored' = stored /\ queue' = queue /\ proc' = proc
    BY <1>1 DEF vars
  <2>2. HeldNow' = HeldNow
    BY <2>1 DEF HeldNow
  <2> QED
    BY <2>1, <2>2 DEF Emptied, Ended, Requested
<1>2. CASE \E w \in Workers : WorkerStep(w)
  BY <1>2, TasksKeepEmptied
<1>3. CASE \E c \in Callers : ApiStep(c)
  BY <1>3, RequestsKeepEmptied
<1>4. ~ \E p \in Procs : Crash(p)
  BY CalmSteps DEF Crash
<1> QED
  BY <1>1, <1>2, <1>3, <1>4 DEF Next

(* executeKnowledgeDelete: a document that can only be stopped at rest has   *)
(* left no chunk, vector or graph data behind once its row is deleted.       *)
THEOREM DeletedIsPurged == ASSUME Calm, StopsAtRest PROVE Spec => []NothingLeftBehind
<1>1. Calm /\ StopsAtRest
  OBVIOUS
<1>2. Init => Emptied
  <2>1. SUFFICES ASSUME Init PROVE Emptied
    OBVIOUS
  <2>2. ~Ended /\ ~row.gone /\ \A c \in Callers : proc[c].pc = "idle"
    BY <2>1, IdleFits DEF Init, NewRow, Ended, Aborted, Procs
  <2> QED
    BY <2>2 DEF Emptied, Requested
<1>3. TypeOK /\ SafetyInv /\ Emptied /\ [Next]_vars => Emptied'
  BY <1>1, StepKeepsEmptied
<1>4. Emptied => NothingLeftBehind
  BY DEF Emptied, NothingLeftBehind
<1>5. Spec => []SafetyInv
  BY <1>1, SafetyHolds
<1> QED
  BY <1>2, <1>3, <1>4, <1>5, TypeCorrect, PTL DEF Spec

----------------------------------------------------------------------------
(* A document that is not parsed to its end has somebody at it: the turn to  *)
(* drive it or one of its images is somewhere, the counter of the images is  *)
(* exact while they are read, and a document whose slots are all given back  *)
(* has a handler that is about to promote it.                                *)
Starting == Has(row, {"pending", "processing"})
Reads(f) ==
    /\ f.pc \in {"post.attempt", "post.list"} => f.seen = "processing"
    /\ f.pc # "image.error"

Driven ==
    /\ Starting => Driver \subseteq Claimed \/ Outstanding # {}
    /\ Outstanding # {} => mm = Cardinality(Outstanding)
    /\ Has(row, {"finalizing"}) /\ row.count = 0 => \E w \in Workers : Drains(proc[w]) # {}
    /\ \A w \in Workers : Reads(proc[w])

(* A task of the pipeline that cannot be enqueued, and a parse that stops    *)
(* because it has no model, leave the document where it is: that is what     *)
(* housekeeping is for. Without Redis a post-process task is no turn.        *)
TasksArrive == {"enqueue", "model"} \cap Faults = {} /\ ~ManyPosts

(* What a worker passes on of its turn, to its next step or to a task.       *)
Given(w, x) ==
    x \in Turn(proc'[w]) \/ \E t \in BagToSet(queue') : x \in TaskClaims(t)
HandsOn(w) == \A x \in Turn(proc[w]) : Given(w, x)

(* The places that hold the turn to drive the document. *)
DriverPCs == SaverPCs \cup PosterPCs \cup {"doc.post", "mm.set", "image.last"}

(* A handler keeps the turn, or puts it into the queue with a task. *)
LEMMA DriverKept ==
  ASSUME ~ManyPosts, NEW w \in Workers, proc[w].pc \in DriverPCs, proc'[w].pc \in DriverPCs
  PROVE  HandsOn(w)
  BY TurnOf DEF DriverPCs, HandsOn, Given

(* A task that carries the turn of its handler takes it along. *)
LEMMA TurnPut ==
  ASSUME TypeOK, NEW w \in Workers, NEW t, Add(t), Turn(proc[w]) \subseteq TaskClaims(t)
  PROVE  HandsOn(w)
<1>1. t \in BagToSet(queue')
  BY PutQueue
<1> QED
  BY <1>1 DEF HandsOn, Given

(* A retry carries what its handler carried. *)
LEMMA RetryHandsOn ==
  ASSUME TypeOK, ~ManyPosts, SafetyInv, NEW w \in Workers, Retry(w), ~FinalTry(w),
         proc[w].pc \in SaverPCs \cup PosterPCs \cup ReadingPCs
  PROVE  HandsOn(w)
<1>1. w \in Procs /\ Fits(proc[w])
  BY CallersAreNoWorkers DEF SafetyInv, Shapes
<1>2. PICK t \in Tasks : /\ Add(t) /\ t.kind = proc[w].job.kind /\ t.att = proc[w].job.att
                         /\ t.n = proc[w].job.n
  BY <1>1, RetryIsTask DEF Retry
<1>3. CASE proc[w].pc \in SaverPCs
  <2>1. t.kind = "process"
    BY <1>1, <1>2, <1>3 DEF Fits, ParsingPCs
  <2>2. Turn(proc[w]) \subseteq TaskClaims(t)
    BY <1>3, <2>1, TurnOf DEF TaskClaims, Enrichment
  <2> QED
    BY <1>2, <2>2, TurnPut
<1>4. CASE proc[w].pc \in PosterPCs
  <2>1. t.kind = "post"
    BY <1>1, <1>2, <1>4 DEF Fits
  <2>2. Turn(proc[w]) \subseteq TaskClaims(t)
    BY <1>4, <2>1, TurnOf DEF TaskClaims, Enrichment
  <2> QED
    BY <1>2, <2>2, TurnPut
<1>5. CASE proc[w].pc \in ReadingPCs
  <2>1. t.kind = "image" /\ t.att = proc[w].att /\ t.n = proc[w].job.n
    BY <1>1, <1>2, <1>5, ImageWorks DEF ImagePCs
  <2>2. Turn(proc[w]) \subseteq TaskClaims(t)
    BY <1>5, <2>1, TurnOf DEF TaskClaims, Enrichment
  <2> QED
    BY <1>2, <2>2, TurnPut
<1> QED
  BY <1>3, <1>4, <1>5

(* The task that is returned to the queue, or has failed the document. *)
LEMMA ErrorHandsOn ==
  ASSUME TypeOK, Calm, ~ManyPosts, SafetyInv, NEW w \in Workers, ReturnError(w), Starting',
         proc[w].pc \in PosterPCs
  PROVE  HandsOn(w)
<1>1. CASE FinalTry(w)
  <2>1. proc[w].job.kind = "post"
    BY CallersAreNoWorkers DEF SafetyInv, Shapes, Fits
  <2>2. row' = FailedIfActive(row) /\ row \in Rows
    BY <1>1, <2>1, CalmSteps DEF ReturnError, TypeOK
  <2> QED
    BY <2>2 DEF FailedIfActive, Starting, Has, Active, Rows
<1>2. CASE ~FinalTry(w)
  BY <1>2, RetryHandsOn DEF ReturnError
<1> QED
  BY <1>1, <1>2

(* Reading the document, its chunks and its images hands the turn on. *)
LEMMA DocHandsOn ==
  ASSUME TypeOK, Calm, TasksArrive, SafetyInv, NEW w \in Workers, DocStep(w), Starting',
         proc[w].pc \notin {"idle", "mm.set"}
  PROVE  HandsOn(w) /\ Reads(proc'[w])
<1>0. /\ "db" \notin Faults /\ ~ManyPosts /\ "enqueue" \notin Faults /\ "model" \notin Faults
      /\ \A status : TrySave(status) <=> row' = Saved(row, status)
      /\ row \in Rows /\ w \in Procs /\ proc \in [Procs -> Locals] /\ Fits(proc[w])
  BY CalmSteps, CallersAreNoWorkers, FramesAreLocals DEF TasksArrive, TypeOK, SafetyInv, Shapes
<1>1. \A status : row' = Saved(row, status) /\ status = "failed" => ~Starting'
  BY <1>0 DEF Saved, Starting, Has, Rows
<1> USE DEF At
<1>2. CASE proc'[w].pc \in DriverPCs /\ proc[w].pc \in DriverPCs
           /\ proc'[w].pc \notin {"post.attempt", "post.list", "image.error"}
  BY <1>0, <1>2, DriverKept DEF Reads
<1>3. "idle" \notin DriverPCs /\ ("mm.enqueue" \notin DriverPCs)
  BY DEF DriverPCs, SaverPCs, PosterPCs
<1>4. IsAborted => ~Has(row, {"pending", "processing"})
  BY DEF IsAborted, Has, Aborted
<1>5. AbortAnswers = IF row.gone THEN {"deleting"} ELSE IF IsAborted THEN {row.status} ELSE {"no"}
  BY <1>0 DEF AbortAnswers
<1>6. row' = row => AbortAnswers = {"no"}
  BY <1>4, <1>5 DEF Starting, IsAborted
<1>7. CASE DocRecheck(w) \/ ChunksRecheck(w) \/ ChunksBeforeIndex(w) \/ ChunksFinal(w) \/ ChunksCheck(w)
  <2>1. row' = row
    BY <1>7 DEF DocRecheck, ChunksRecheck, ChunksBeforeIndex, ChunksFinal, ChunksCheck, ProcOnly, StoredOnly
  <2>2. proc'[w].pc \in {"doc.mark", "chunk.write", "chunk.index", "chunk.save", "chunk.clean"}
    BY <1>0, <1>6, <1>7, <2>1, PlacesAfter DEF DocRecheck, ChunksRecheck, ChunksBeforeIndex, ChunksFinal, ChunksCheck
  <2>3. proc[w].pc \in SaverPCs
    BY <1>7 DEF DocRecheck, ChunksRecheck, ChunksBeforeIndex, ChunksFinal, ChunksCheck, SaverPCs
  <2> QED
    BY <1>2, <2>2, <2>3 DEF DriverPCs, SaverPCs
<1>8. CASE DocMark(w) \/ DocConvert(w) \/ ChunksClean(w) \/ ChunksWrite(w) \/ ChunksIndex(w) \/ ChunksSave(w)
  <2>1. proc'[w].pc \in {"doc.convert", "chunk.check", "chunk.recheck", "chunk.quota", "chunk.final",
                         "doc.post", "mm.set"}
    BY <1>0, <1>8, PlacesAfter DEF DocMark, DocConvert, ChunksClean, ChunksWrite, ChunksIndex, ChunksSave
  <2>2. proc[w].pc \in SaverPCs
    BY <1>8 DEF DocMark, DocConvert, ChunksClean, ChunksWrite, ChunksIndex, ChunksSave, SaverPCs
  <2> QED
    BY <1>2, <2>1, <2>2 DEF DriverPCs, SaverPCs
<1>9. CASE DocFatal(w) \/ ChunksIndexError(w)
  BY <1>0, <1>1, <1>9 DEF DocFatal, ChunksIndexError
<1>10. CASE DocConvertError(w)
  <2>1. proc'[w].pc = "idle" /\ proc[w].pc \in SaverPCs
    BY <1>10, PlacesAfter DEF DocConvertError, SaverPCs
  <2>2. ~FinalTry(w) /\ Retry(w)
    BY <1>0, <1>1, <1>10 DEF DocConvertError
  <2> QED
    BY <1>0, <2>1, <2>2, RetryHandsOn DEF Reads
<1>11. CASE ChunksUndo(w)
  <2>1. proc'[w].pc = "idle" /\ proc[w].pc = "chunk.undo"
    BY <1>0, <1>11, PlacesAfter, CalmSteps DEF ChunksUndo
  <2>2. Turn(proc[w]) = {}
    BY <2>1, TurnOf DEF SaverPCs, ReparsePCs, FollowerPCs, PosterPCs, ImagePCs, ReadingPCs
  <2> QED
    BY <2>1, <2>2 DEF HandsOn, Reads
<1>12. CASE EnqueuePost(w)
  <2>1. proc'[w].pc = "idle" /\ proc[w].pc = "doc.post" /\ Add(Task("post", Att(w), 0))
    BY <1>0, <1>12, PlacesAfter DEF EnqueuePost, Enqueue
  <2>2. Turn(proc[w]) = Driver /\ TaskClaims(Task("post", Att(w), 0)) = Driver
    BY <1>0, <2>1, TurnOf DEF TaskClaims, Task, Enrichment
  <2> QED
    BY <2>1, <2>2, TurnPut DEF Reads
<1>13. CASE EnqueueImage(w)
  <2> DEFINE n == First(proc[w].todo)
             t == Task("image", Att(w), n)
             rest == proc[w].todo \ {n}
  <2>1. /\ proc[w].pc = "mm.enqueue" /\ Add(t)
        /\ IF rest = {} THEN Finish(w) ELSE proc' = [proc EXCEPT ![w].todo = rest]
    BY <1>0, <1>13 DEF EnqueueImage, Enqueue
  <2>2. Turn(proc[w]) = ImagesOf(proc[w].att, proc[w].todo) /\ TaskClaims(t) = ImagesOf(proc[w].att, {n})
    BY <1>0, <2>1, TurnOf DEF TaskClaims, Task, Enrichment, Att
  <2>3. t \in BagToSet(queue')
    BY <2>1, PutQueue
  <2> HIDE DEF n, t
  <2>4. CASE rest = {}
    <3>1. proc'[w].pc = "idle"
      BY <2>1, <2>4, PlacesAfter
    <3>2. Turn(proc[w]) \subseteq TaskClaims(t)
      BY <2>2, <2>4 DEF ImagesOf
    <3> QED
      BY <2>1, <3>1, <3>2, TurnPut DEF Reads
  <2>5. CASE rest # {}
    <3>1. proc'[w].pc = "mm.enqueue" /\ proc'[w].att = proc[w].att /\ proc'[w].todo = rest
      BY <1>0, <2>1, <2>5 DEF Locals
    <3>2. Turn(proc'[w]) = ImagesOf(proc[w].att, rest)
      BY <1>0, <3>1, TurnOf
    <3>3. \A x \in Turn(proc[w]) : x \in TaskClaims(t) \/ x \in Turn(proc'[w])
      BY <2>2, <3>2 DEF ImagesOf
    <3> QED
      BY <2>3, <3>1, <3>3 DEF HandsOn, Given, Reads
  <2> QED
    BY <2>4, <2>5
<1>14. ~SetMultimodal(w) /\ ~ \E t \in BagToSet(queue) : DocEnter(w, t)
  BY DEF SetMultimodal, DocEnter, Take, Drop
<1> QED
  BY <1>7, <1>8, <1>9, <1>10, <1>11, <1>12, <1>13, <1>14 DEF DocStep

(* Post-processing keeps the turn until it has handed the document over. *)
LEMMA PostHandsOn ==
  ASSUME TypeOK, Calm, TasksArrive, SafetyInv, NEW w \in Workers, Reads(proc[w]), PostStep(w),
         Starting', proc[w].pc # "idle"
  PROVE  HandsOn(w) /\ Reads(proc'[w])
<1>0. /\ "db" \notin Faults /\ ~ManyPosts /\ row \in Rows /\ w \in Procs /\ proc \in [Procs -> Locals]
  BY CalmSteps, CallersAreNoWorkers, FramesAreLocals DEF TasksArrive, TypeOK
<1> USE DEF At
<1>1. proc[w].pc \in PosterPCs => Has(row, {"processing"})
  BY <1>0, PosterAlone
<1>2. CASE PostMissing(w) \/ PostListError(w)
  <2>1. ReturnError(w) /\ proc[w].pc \in PosterPCs /\ proc'[w].pc = "idle"
    BY <1>2, PlacesAfter DEF PostMissing, PostListError, ReturnError, PosterPCs
  <2> QED
    BY <1>0, <2>1, ErrorHandsOn DEF Reads
<1>3. CASE PostAttempt(w)
  <2>1. proc[w].pc = "post.attempt" /\ proc'[w].pc = "post.list" /\ proc'[w].seen = proc[w].seen
    BY <1>0, <1>3 DEF PostAttempt, Locals
  <2> QED
    BY <1>0, <2>1, DriverKept DEF Reads, DriverPCs, PosterPCs
<1>4. CASE PostList(w)
  <2>1. proc[w].pc = "post.list" /\ proc[w].seen = "processing"
    BY <1>4 DEF PostList, Reads
  <2>2. \A S : proc' = [proc EXCEPT ![w].pc = "post.handoff", ![w].todo = S] => proc'[w].pc = "post.handoff"
    BY <1>0 DEF Locals
  <2>3. proc'[w].pc = "post.handoff"
    BY <1>4, <2>1, <2>2 DEF PostList
  <2> QED
    BY <1>0, <2>1, <2>3, DriverKept DEF Reads, DriverPCs, PosterPCs
<1>5. ~PostHandoff(w) /\ ~PostNothingToDo(w)
  BY <1>0, <1>1 DEF PostHandoff, PostNothingToDo, HandedOff, CompletedAtOnce, PosterPCs, Starting, Has, Rows
<1>6. CASE PostSpawn(w) \/ PostRelease(w) \/ PostPromote(w) \/ PostEnd(w)
  <2>1. proc[w].pc \in GiverPCs
    BY <1>6 DEF PostSpawn, PostRelease, PostPromote, PostEnd, GiverPCs
  <2>2. Turn(proc[w]) = {}
    BY <2>1, TurnOf DEF GiverPCs, SaverPCs, ReparsePCs, FollowerPCs, PosterPCs, ImagePCs, ReadingPCs
  <2>3. proc'[w].pc \in GiverPCs \cup {"idle"}
    <3>1. CASE PostSpawn(w)
      <4>1. \A next, S, T :
               /\ proc' = [proc EXCEPT ![w].pc = next, ![w].todo = S] => proc'[w].pc = next
               /\ proc' = [proc EXCEPT ![w].pc = next, ![w].todo = S, ![w].short = T] => proc'[w].pc = next
        BY <1>0 DEF Locals
      <4>2. PICK next \in {"post.release", "post.spawn"} : \E S, T :
               \/ proc' = [proc EXCEPT ![w].pc = next, ![w].todo = S]
               \/ proc' = [proc EXCEPT ![w].pc = next, ![w].todo = S, ![w].short = T]
        BY <3>1 DEF PostSpawn
      <4>3. proc'[w].pc = next
        BY <4>1, <4>2
      <4> QED
        BY <4>3 DEF GiverPCs
    <3>2. CASE PostPromote(w)
      <4>1. \A T : proc' = [proc EXCEPT ![w].pc = "post.release", ![w].short = T] => proc'[w].pc = "post.release"
        BY <1>0 DEF Locals
      <4> QED
        BY <1>0, <3>2, <4>1 DEF PostPromote, GiverPCs
    <3>3. CASE PostRelease(w) \/ PostEnd(w)
      BY <3>3, PlacesAfter DEF PostRelease, PostEnd, GiverPCs
    <3> QED
      BY <1>6, <3>1, <3>2, <3>3
  <2> QED
    BY <2>2, <2>3 DEF HandsOn, Reads, GiverPCs
<1>7. ~PostNothingToDoError(w) /\ ~ \E t \in BagToSet(queue) : PostEnter(w, t)
  BY <1>0 DEF PostNothingToDoError, PostEnter, Take, Drop
<1> QED
  BY <1>2, <1>3, <1>4, <1>5, <1>6, <1>7 DEF PostStep

(* An image is handed on until it is counted, and the last one has the turn. *)
LEMMA ImageHandsOn ==
  ASSUME TypeOK, Calm, TasksArrive, SafetyInv, NEW w \in Workers, Reads(proc[w]), ImageStep(w),
         proc[w].pc \notin {"idle", "image.count"}
  PROVE  HandsOn(w) /\ Reads(proc'[w])
<1>0. /\ "db" \notin Faults /\ ~ManyPosts /\ "enqueue" \notin Faults
      /\ w \in Procs /\ proc \in [Procs -> Locals]
  BY CalmSteps, CallersAreNoWorkers, FramesAreLocals DEF TasksArrive, TypeOK
<1> USE DEF At
<1>1. ASSUME proc[w].pc = "image.run", Goto(w, "image.count") PROVE HandsOn(w) /\ Reads(proc'[w])
  <2>1. proc'[w].pc = "image.count" /\ proc'[w].att = proc[w].att /\ proc'[w].job = proc[w].job
    BY <1>0, <1>1 DEF Goto, Locals
  <2> QED
    BY <1>0, <1>1, <2>1, TurnOf DEF ReadingPCs, HandsOn, Given, Reads
<1>2. CASE ImageRun(w)
  BY <1>1, <1>2 DEF ImageRun
<1>3. CASE ImageRunError(w)
  <2>1. proc[w].pc = "image.run"
    BY <1>3 DEF ImageRunError
  <2>2. CASE FinalTry(w)
    BY <1>1, <1>3, <2>1, <2>2 DEF ImageRunError
  <2>3. CASE ~FinalTry(w)
    <3>1. Retry(w) /\ proc'[w].pc = "idle"
      BY <1>3, <2>3, PlacesAfter DEF ImageRunError
    <3> QED
      BY <1>0, <2>1, <2>3, <3>1, RetryHandsOn DEF ReadingPCs, Reads
  <2> QED
    BY <2>2, <2>3
<1>4. CASE ImageLast(w)
  <2>1. proc'[w].pc = "idle" /\ proc[w].pc = "image.last" /\ Add(Task("post", 0, 0))
    BY <1>0, <1>4, PlacesAfter DEF ImageLast, Enqueue
  <2>2. Turn(proc[w]) = Driver /\ TaskClaims(Task("post", 0, 0)) = Driver
    BY <1>0, <2>1, TurnOf DEF TaskClaims, Task, Enrichment
  <2> QED
    BY <2>1, <2>2, TurnPut DEF Reads
<1>5. /\ ~ImageError(w) /\ ~ImageCount(w) /\ ~ImageCountNoRedis(w)
      /\ ~ \E t \in BagToSet(queue) : ImageEnter(w, t) \/ ImageEnterError(w, t)
  BY DEF Reads, ImageError, ImageCount, ImageCountNoRedis, ImageEnter, ImageEnterError, Take
<1> QED
  BY <1>2, <1>3, <1>4, <1>5 DEF ImageStep

(* A task of the pipeline gives its turn to the worker that takes it. *)
LEMMA EnterHandsOn ==
  ASSUME TypeOK, Calm, TasksArrive, SafetyInv, NEW w \in Workers, Starting', NEW t \in BagToSet(queue),
         DocEnter(w, t) \/ PostEnter(w, t) \/ ImageEnter(w, t)
  PROVE  /\ Turn(proc'[w]) = TaskClaims(t) /\ Reads(proc'[w])
         /\ queue' = queue (-) SetToBag({t})
<1>0. ~ManyPosts /\ "db" \notin Faults
  BY CalmSteps DEF TasksArrive
<1>1. \A pc, seen : Take(w, t, pc, seen) =>
         /\ proc'[w].pc = pc /\ proc'[w].seen = seen /\ proc'[w].att = t.att /\ proc'[w].job = t
         /\ queue' = queue (-) SetToBag({t}) /\ row' = row
  BY CallersAreNoWorkers DEF Take, Idle, TypeOK, QueueOnly
<1>2. row' = row
  BY DEF DocEnter, PostEnter, ImageEnter, Take, Drop, QueueOnly
<1>3. ~IsAborted /\ row.status # "completed"
  BY <1>2 DEF Starting, Has, IsAborted, Aborted
<1>4. CASE DocEnter(w, t)
  <2>1. Take(w, t, "doc.recheck", row.status) /\ t.kind = "process"
    BY <1>0, <1>3, <1>4 DEF DocEnter
  <2>2. Turn(proc'[w]) = Driver
    BY <1>1, <2>1, TurnOf DEF SaverPCs
  <2> QED
    BY <1>1, <2>1, <2>2 DEF TaskClaims, Enrichment, Reads
<1>5. CASE PostEnter(w, t)
  <2>1. Has(row, {"processing"})
    BY <1>0, <1>5 DEF PostEnter, SafetyInv, Phases, Following
  <2>2. \E pc \in {"post.attempt", "post.list"} : Take(w, t, pc, row.status)
    BY <1>5, <2>1 DEF PostEnter, Has, Aborted
  <2>3. proc'[w].pc \in {"post.attempt", "post.list"} /\ proc'[w].seen = "processing"
    BY <1>1, <2>1, <2>2 DEF Has
  <2>4. Turn(proc'[w]) = Driver
    BY <1>0, <2>3, TurnOf DEF PosterPCs
  <2> QED
    BY <1>0, <1>1, <1>5, <2>2, <2>3, <2>4 DEF PostEnter, TaskClaims, Enrichment, Reads
<1>6. CASE ImageEnter(w, t)
  <2>1. proc'[w].pc = "image.run" /\ proc'[w].att = t.att /\ proc'[w].job = t
        /\ queue' = queue (-) SetToBag({t}) /\ t.kind = "image"
    BY <1>1, <1>3, <1>6 DEF ImageEnter
  <2>2. Turn(proc'[w]) = ImagesOf(t.att, {t.n})
    BY <1>0, <2>1, TurnOf DEF ReadingPCs
  <2> QED
    BY <1>0, <2>1, <2>2 DEF TaskClaims, Enrichment, Reads
<1> QED
  BY <1>4, <1>5, <1>6

(* A worker at work leaves the queued tasks where they are. *)
LEMMA TasksLeft ==
  ASSUME TypeOK, Calm, SafetyInv, NEW w \in Workers, WorkerStep(w), proc[w].pc # "idle"
  PROVE  BagToSet(queue) \subseteq BagToSet(queue')
<1>1. PICK g \in Locals :
       \/ Moves(w, g)
       \/ \E t \in BagToSet(queue) : Takes(w, g, t)
       \/ \E t \in Tasks : PutsBack(w, g, t)
       \/ \E s \in {"processing", "failed"} : Saves(w, g, s)
       \/ PostFails(w, g) \/ HandsOver(w, g) \/ CompletesNow(w, g)
       \/ \E n \in Slots : Spawns(w, g, n) \/ GivesBack(w, g, n) \/ Promotes(w, g, n)
       \/ Counts(w, g) \/ SetsCounter(w, g)
  BY WorkerStepKind DEF WorkerKinds
<1>2. ~ \E t \in BagToSet(queue) : Takes(w, g, t)
  BY DEF Takes, At
<1>3. queue' = queue \/ \E t : Add(t)
  BY <1>1, <1>2 DEF Moves, Shifts, PutsBack, Puts, Saves, PostFails, HandsOver, CompletesNow,
     Spawns, GivesBack, Promotes, Counts, SetsCounter
<1> QED
  BY <1>3, PutQueue

(* The turns of a worker and of the tasks it leaves or takes are handed on,  *)
(* but for the two steps that count images.                                  *)
LEMMA TurnsHandedOn ==
  ASSUME TypeOK, Calm, TasksArrive, SafetyInv, Driven, NEW w \in Workers, WorkerStep(w), Starting',
         proc[w].pc \notin {"mm.set", "image.count"}
  PROVE  /\ Reads(proc'[w]) /\ HandsOn(w)
         /\ \A t \in BagToSet(queue) : t.kind \notin Enrichment => \A x \in TaskClaims(t) : Given(w, x)
<1>0. "db" \notin Faults /\ Fits(proc[w])
  BY CalmSteps, CallersAreNoWorkers DEF SafetyInv, Shapes
<1>1. ~Acknowledge(w)
  BY <1>0 DEF Acknowledge, At, Fits
<1>2. CASE proc[w].pc # "idle"
  <2>1. Reads(proc'[w]) /\ HandsOn(w)
    <3>1. CASE SubtaskStep(w)
      <4>1. proc[w].pc \notin SaverPCs \cup FollowerPCs \cup ReparsePCs
            /\ proc'[w].pc \notin SaverPCs \cup FollowerPCs \cup ReparsePCs
        BY <3>1, SubtaskPasses
      <4>2. Turn(proc[w]) = {}
        BY <4>1, TurnOf
      <4> QED
        BY <4>1, <4>2 DEF HandsOn, Reads, FollowerPCs, PosterPCs, ImagePCs, ReadingPCs
    <3>2. Reads(proc[w])
      BY DEF Driven
    <3> QED
      BY <1>1, <1>2, <3>1, <3>2, DocHandsOn, PostHandsOn, ImageHandsOn DEF WorkerStep
  <2>2. \A t \in BagToSet(queue) : t \in BagToSet(queue')
    BY <1>2, TasksLeft
  <2> QED
    BY <2>1, <2>2 DEF Given
<1>3. CASE proc[w].pc = "idle"
  <2>1. Turn(proc[w]) = {}
    BY <1>3, TurnOf DEF SaverPCs, ReparsePCs, FollowerPCs, PosterPCs, ImagePCs, ReadingPCs
  <2>2. PICK t \in BagToSet(queue) : DocEnter(w, t) \/ PostEnter(w, t) \/ ImageEnter(w, t) \/ SubtaskEnter(w, t)
    <3>1. /\ DocStep(w) => \E t \in BagToSet(queue) : DocEnter(w, t)
          /\ PostStep(w) => \E t \in BagToSet(queue) : PostEnter(w, t)
          /\ SubtaskStep(w) => \E t \in BagToSet(queue) : SubtaskEnter(w, t)
          /\ ImageStep(w) => \E t \in BagToSet(queue) : ImageEnter(w, t)
      <4> USE <1>3 DEF At
      <4>1. DocStep(w) => \E t \in BagToSet(queue) : DocEnter(w, t)
        BY DEF DocStep, DocRecheck, DocMark, DocConvert, DocConvertError, DocFatal, ChunksCheck, ChunksClean,
           ChunksRecheck, ChunksWrite, ChunksBeforeIndex, ChunksIndex, ChunksIndexError, ChunksUndo,
           ChunksFinal, ChunksSave, EnqueuePost, SetMultimodal, EnqueueImage
      <4>2. PostStep(w) => \E t \in BagToSet(queue) : PostEnter(w, t)
        BY DEF PostStep, PostMissing, PostAttempt, PostList, PostListError, PostHandoff, PostNothingToDo,
           PostNothingToDoError, PostSpawn, PostRelease, PostPromote, PostEnd
      <4>3. SubtaskStep(w) => \E t \in BagToSet(queue) : SubtaskEnter(w, t)
        BY DEF SubtaskStep, SubtaskLoad, SubtaskRun, SubtaskRunError, SubtaskWrite, SummaryMark,
           SummaryChunks, SummaryNone, SummaryNoneError, SummaryLlm, SummaryLlmError, SummaryAgain,
           SummaryFresh, SummaryStale, SummarySave, SummarySaveError, SummaryWrite, SummaryWriteError,
           Drain, Promote
      <4>4. ImageStep(w) => \E t \in BagToSet(queue) : ImageEnter(w, t)
        BY <1>0 DEF ImageStep, ImageEnterError, ImageError, ImageRun, ImageRunError, ImageCount,
           ImageCountNoRedis, ImageLast
      <4> QED
        BY <4>1, <4>2, <4>3, <4>4
    <3> QED
      BY <1>1, <3>1 DEF WorkerStep
  <2>3. CASE SubtaskEnter(w, t)
    <3>1. t.kind \in Enrichment /\ queue' = queue (-) SetToBag({t})
      BY <2>3 DEF SubtaskEnter, Take, Drop
    <3>2. proc'[w].pc \notin SaverPCs \cup FollowerPCs
      BY <2>3, SubtaskPasses DEF SubtaskStep
    <3>3. \A u \in BagToSet(queue) : u = t \/ u \in BagToSet(queue')
      BY <3>1, TakenQueue DEF SafetyInv
    <3> QED
      BY <2>1, <3>1, <3>2, <3>3 DEF HandsOn, Given, Reads, FollowerPCs, PosterPCs, ImagePCs, ReadingPCs
  <2>4. CASE DocEnter(w, t) \/ PostEnter(w, t) \/ ImageEnter(w, t)
    <3>1. Turn(proc'[w]) = TaskClaims(t) /\ Reads(proc'[w]) /\ queue' = queue (-) SetToBag({t})
      BY <2>4, EnterHandsOn
    <3>2. \A u \in BagToSet(queue) : u = t \/ u \in BagToSet(queue')
      BY <3>1, TakenQueue DEF SafetyInv
    <3> QED
      BY <2>1, <3>1, <3>2 DEF HandsOn, Given
  <2> QED
    BY <2>2, <2>3, <2>4
<1> QED
  BY <1>2, <1>3

(* So no claim on the document or on an image of it is lost. *)
LEMMA ClaimsHandedOn ==
  ASSUME TypeOK, Calm, TasksArrive, SafetyInv, Driven, NEW w \in Workers, WorkerStep(w), Starting',
         proc[w].pc \notin {"mm.set", "image.count"}
  PROVE  \A x \in Driver \cup ImagesOf(latest, 1..Images) : x \in Claimed => x \in Claimed'
<1>1. PICK g : Becomes(w, g)
  BY Carries
<1>2. w \in Procs /\ proc'[w] = g /\ \A q \in Procs : q # w => proc'[q] = proc[q]
  BY <1>1, OthersStay, CallersAreNoWorkers
<1>3. SUFFICES ASSUME NEW x \in Driver \cup ImagesOf(latest, 1..Images), x \in Claimed PROVE x \in Claimed'
  OBVIOUS
<1>4. \A f : x \notin Duties(f)
  BY DutiesOf DEF Driver, ImagesOf
<1>5. \A t : t.kind \in Enrichment => x \notin TaskClaims(t)
  BY DEF TaskClaims, SlotsOf, Driver, ImagesOf
<1>6. ASSUME Given(w, x) PROVE x \in Claimed'
  BY <1>2, <1>6, ClaimedIs DEF Given, Claims
<1>7. CASE \E q \in Procs : x \in Claims(proc[q])
  <2>1. PICK q \in Procs : x \in Turn(proc[q])
    BY <1>4, <1>7 DEF Claims
  <2>2. CASE q = w
    BY <1>6, <2>1, <2>2, TurnsHandedOn DEF HandsOn
  <2>3. CASE q # w
    BY <1>2, <2>1, <2>3, ClaimedIs DEF Claims
  <2> QED
    BY <2>2, <2>3
<1>8. CASE \E t \in BagToSet(queue) : x \in TaskClaims(t)
  BY <1>5, <1>6, <1>8, TurnsHandedOn
<1> QED
  BY <1>3, <1>7, <1>8, ClaimedIs

(* Images are only added while somebody follows the parser. *)
LEMMA ImagesAreFollowed ==
  ASSUME TypeOK, SafetyInv, ~ManyPosts, Outstanding # {}
  PROVE  Has(row, {"processing"}) /\ Driver \cap Claimed = {}
<1>0. Following => Has(row, {"processing"})
  BY DEF SafetyInv, Phases
<1>1. PICK n \in 1..Images : <<"image", latest, n>> \in Claimed
  BY DEF Outstanding
<1> DEFINE x == <<"image", latest, n>>
<1>2. \A S : (x \in SlotsOf(latest, S)) = FALSE
  BY DEF SlotsOf
<1>3. ASSUME \E p \in Procs : x \in Claims(proc[p]) PROVE Has(row, {"processing"})
  <2>1. PICK p \in Procs : x \in Claims(proc[p])
    BY <1>3
  <2>2. x \in Turn(proc[p])
    BY <2>1, DutiesOf DEF Claims
  <2>3. proc[p].pc \in FollowerPCs
    <3>1. Turn(proc[p]) # {} /\ Turn(proc[p]) # Driver
      BY <2>2 DEF Driver
    <3> QED
      BY <3>1, TurnOf
  <2>4. p \in Workers
    <3>1. proc[p].pc \notin ApiPCs \cup {"idle"}
      BY <2>3 DEF FollowerPCs, PosterPCs, ImagePCs, ReadingPCs, ApiPCs, ReparsePCs, StopPCs, SweepPCs
    <3> QED
      BY <2>1, <3>1 DEF SafetyInv, Shapes, Procs
  <2>5. Following
    BY <2>3, <2>4 DEF Following
  <2> QED
    BY <1>0, <2>5
<1>4. ASSUME \E t \in BagToSet(queue) : x \in TaskClaims(t) PROVE Has(row, {"processing"})
  <2>1. PICK t \in BagToSet(queue) : x \in TaskClaims(t)
    BY <1>4
  <2>2. t.kind = "image"
    BY <2>1 DEF TaskClaims, SlotsOf, Driver
  <2>3. Following
    BY <2>2 DEF Following
  <2> QED
    BY <1>0, <2>3
<1>5. Has(row, {"processing"})
  <2> HIDE DEF x
  <2> QED
    BY <1>1, <1>3, <1>4, ClaimedIs DEF x
<1> QED
  BY <1>5 DEF SafetyInv, Counting

(* Counting an image: the others are still claimed, or the turn is taken. *)
LEMMA CountKeepsDriven ==
  ASSUME TypeOK, Calm, TasksArrive, SafetyInv, Driven, NEW w \in Workers, NEW g, Counts(w, g), SafetyInv'
  PROVE  /\ Outstanding' # {} => mm' = Cardinality(Outstanding')
         /\ Driver \subseteq Claimed' \/ Outstanding' # {}
<1> DEFINE n == proc[w].job.n
           i == <<"image", latest, n>>
<1>1. /\ w \in Procs /\ Becomes(w, g) /\ proc[w].pc = "image.count" /\ ~ManyPosts
      /\ mm' = mm - 1 /\ latest' = latest /\ queue' = queue
      /\ Turn(g) = (IF mm - 1 <= 0 THEN Driver ELSE {})
      /\ Duties(g) = {} /\ Duties(proc[w]) = {}
  BY CallersAreNoWorkers DEF Counts, Runs, At, TasksArrive
<1>2. proc[w].att = latest /\ n \in 1..Images
  <2>1. proc[w] \in Frames /\ proc[w].pc \in ImagePCs /\ proc[w].pc \notin AttemptlessPCs
    BY <1>1 DEF TypeOK, ImagePCs, ReadingPCs, AttemptlessPCs
  <2>2. proc[w].att # 0
    BY <2>1 DEF Frames, Sound
  <2> QED
    BY <2>1, <2>2, ImageWorks
<1>3. Turn(proc[w]) = {i} /\ Claims(proc[w]) = {i}
  <2>1. Turn(proc[w]) = ImagesOf(latest, {n})
    BY <1>1, <1>2, TurnOf DEF ReadingPCs
  <2>2. Turn(proc[w]) = {i}
    BY <2>1 DEF ImagesOf
  <2> QED
    BY <1>1, <2>2 DEF Claims
<1>4. n \in Outstanding
  BY <1>1, <1>2, <1>3, ClaimedIs DEF Outstanding
<1>5. mm = Cardinality(Outstanding)
  BY <1>4 DEF Driven
<1>6. proc'[w] = g /\ \A q \in Procs : q # w => proc'[q] = proc[q]
  BY <1>1, OthersStay
<1>7. \A m \in 1..Images : m # n => (<<"image", latest, m>> \in Claimed <=> <<"image", latest, m>> \in Claimed')
  <2>1. SUFFICES ASSUME NEW m \in 1..Images, m # n
                 PROVE  <<"image", latest, m>> \in Claimed <=> <<"image", latest, m>> \in Claimed'
    OBVIOUS
  <2> DEFINE x == <<"image", latest, m>>
  <2>2. x # i
    BY <2>1
  <2>3. x \notin Claims(g) /\ x \notin Claims(proc[w])
    <3>1. x \notin Driver
      BY DEF Driver
    <3> QED
      BY <1>1, <1>3, <2>2, <3>1 DEF Claims
  <2> HIDE DEF x
  <2>4. x \in Claimed <=> x \in Claimed'
    BY <1>1, <1>6, <2>3, ClaimedIs
  <2> QED
    BY <2>4 DEF x
<1>8. i \notin Claimed'
  <2>1. i \notin Claims(g)
    BY <1>1 DEF Claims, Driver
  <2>2. i \in Claims(proc[w])
    BY <1>3
  <2>3. \A q \in Procs : q # w => i \notin Claims(proc[q])
    BY <1>1, <2>2 DEF SafetyInv, Exclusive
  <2>4. \A t \in BagToSet(queue) : i \notin TaskClaims(t)
    BY <1>1, <2>2 DEF SafetyInv, Exclusive
  <2> HIDE DEF i
  <2> QED
    BY <1>1, <1>6, <2>1, <2>3, <2>4, ClaimedIs
<1>9. Outstanding' = Outstanding \ {n}
  <2>1. Outstanding' = {m \in 1..Images : <<"image", latest, m>> \in Claimed'}
    BY <1>1 DEF Outstanding
  <2> QED
    BY <1>7, <1>8, <2>1 DEF Outstanding
<1>10. Cardinality(Outstanding') = Cardinality(Outstanding) - 1 /\ Cardinality(Outstanding) \in Nat
       /\ IsFiniteSet(Outstanding')
  <2>1. IsFiniteSet(Outstanding) /\ Cardinality(Outstanding) \in Nat
    BY FiniteImages DEF Outstanding
  <2> QED
    BY <1>4, <1>9, <2>1, FS_RemoveElement
<1>11. Outstanding' = {} => mm - 1 <= 0
  BY <1>5, <1>10, FS_EmptySet
<1>12. mm - 1 <= 0 => Driver \subseteq Claimed'
  <2>1. mm - 1 <= 0 => Turn(g) = Driver
    BY <1>1
  <2> QED
    BY <1>1, <1>6, <2>1, ClaimedIs DEF Claims
<1> QED
  BY <1>1, <1>5, <1>10, <1>11, <1>12

(* Before the first image is enqueued, the counter is set to their number. *)
LEMMA SetCounterKeepsDriven ==
  ASSUME TypeOK, Calm, TasksArrive, SafetyInv, NEW w \in Workers, SetMultimodal(w)
  PROVE  Outstanding' = 1..Images /\ Outstanding' # {} /\ mm' = Cardinality(Outstanding')
<1>1. w \in Procs /\ proc \in [Procs -> Locals] /\ proc[w] \in Frames /\ "db" \notin Faults /\ ~ManyPosts
  BY CalmSteps, CallersAreNoWorkers, FramesAreLocals DEF TypeOK, TasksArrive
<1>2. proc[w].pc = "mm.set" /\ latest' = latest
  BY DEF SetMultimodal, At
<1>3. Images \in Nat /\ Images > 0 /\ ~Lite
  BY <1>1, <1>2, PipelineAssumption DEF Frames, Sound, ManyPosts
<1>4. mm' = Images
  BY <1>1, <1>3 DEF SetMultimodal
<1>5. proc'[w].pc = "mm.enqueue" /\ proc'[w].todo = 1..Images /\ proc'[w].att = proc[w].att
  BY <1>1 DEF SetMultimodal, Locals
<1>6. proc[w].att = latest
  <2>1. proc[w].pc \in FollowerPCs /\ proc[w].pc \notin AttemptlessPCs
    BY <1>2 DEF FollowerPCs, AttemptlessPCs
  <2> QED
    BY <1>1, <2>1 DEF SafetyInv, Phases, Frames, Sound
<1>7. Turn(proc'[w]) = ImagesOf(latest, 1..Images)
  BY <1>1, <1>5, <1>6, TurnOf
<1>8. \A n \in 1..Images : <<"image", latest, n>> \in Claimed'
  BY <1>1, <1>7, ClaimedIs DEF ImagesOf, Claims
<1>9. Outstanding' = 1..Images
  BY <1>2, <1>8 DEF Outstanding
<1>10. Cardinality(1..Images) = Images /\ 1 \in 1..Images
  BY <1>3, FS_Interval
<1> QED
  BY <1>4, <1>9, <1>10

(* No other step adds an image or counts one. *)
LEMMA ImagesLeft ==
  ASSUME TypeOK, Calm, ~ManyPosts, SafetyInv, NEW w \in Workers, WorkerStep(w),
         proc[w].pc \notin {"mm.set", "image.count"}
  PROVE  Outstanding' \subseteq Outstanding /\ (mm' = mm \/ Outstanding = {})
<1>1. PICK g \in Locals :
       \/ Moves(w, g)
       \/ \E t \in BagToSet(queue) : Takes(w, g, t)
       \/ \E t \in Tasks : PutsBack(w, g, t)
       \/ \E s \in {"processing", "failed"} : Saves(w, g, s)
       \/ PostFails(w, g) \/ HandsOver(w, g) \/ CompletesNow(w, g)
       \/ \E n \in Slots : Spawns(w, g, n) \/ GivesBack(w, g, n) \/ Promotes(w, g, n)
       \/ Counts(w, g) \/ SetsCounter(w, g)
  BY WorkerStepKind DEF WorkerKinds
<1>2. ~Counts(w, g) /\ ~SetsCounter(w, g)
  BY DEF Counts, SetsCounter, At
<1>3. latest' = latest /\ Becomes(w, g) /\ w \in Procs
  BY <1>1, <1>2, CallersAreNoWorkers DEF Moves, Shifts, Takes, PutsBack, Puts, Saves, PostFails, HandsOver,
     CompletesNow, Spawns, GivesBack, Promotes, Runs
<1>4. proc'[w] = g /\ \A q \in Procs : q # w => proc'[q] = proc[q]
  BY <1>3, OthersStay
<1>5. mm' = mm \/ Outstanding = {}
  <2>1. mm' = mm \/ Turn(proc[w]) = Driver
    BY <1>1, <1>2 DEF Moves, Shifts, Takes, PutsBack, Puts, Saves, PostFails, HandsOver,
       CompletesNow, Spawns, GivesBack, Promotes, CountLeft
  <2>2. Turn(proc[w]) = Driver => Driver \subseteq Claimed
    BY <1>3, ClaimedIs DEF Claims
  <2> QED
    BY <2>1, <2>2 DEF SafetyInv, Counting, Driver
<1>6. ASSUME NEW n \in 1..Images, <<"image", latest, n>> \in Claimed' PROVE <<"image", latest, n>> \in Claimed
  <2> DEFINE x == <<"image", latest, n>>
  <2>1. x \notin Driver /\ \A f : x \notin Duties(f)
    BY DutiesOf DEF Driver
  <2>2. \A a, m, k : x \notin TaskClaims(Task(KindOf(k), a, m))
    BY DEF TaskClaims, Task, KindOf, Enrichment, SlotsOf
  <2> HIDE DEF x
  <2>3. x \in Turn(g) => x \in Turn(proc[w]) \/ \E t \in BagToSet(queue) : x \in TaskClaims(t)
    BY <1>1, <1>2, <2>1 DEF Moves, Shifts, Lighter, Takes, PutsBack, Puts, Saves, PostFails, HandsOver,
       CompletesNow, Spawns, GivesBack, Promotes
  <2>4. ASSUME NEW u \in BagToSet(queue'), x \in TaskClaims(u)
        PROVE  x \in Turn(proc[w]) \/ \E t \in BagToSet(queue) : x \in TaskClaims(t)
    <3>1. CASE \E t \in BagToSet(queue) : Takes(w, g, t)
      <4>1. PICK t \in BagToSet(queue) : queue' = queue (-) SetToBag({t})
        BY <3>1 DEF Takes
      <4> QED
        BY <2>4, <4>1, TakenQueue DEF SafetyInv
    <3>2. CASE \E t \in Tasks : PutsBack(w, g, t)
      <4>1. PICK t \in Tasks : Puts(w, g, t)
        BY <3>2 DEF PutsBack
      <4>2. BagToSet(queue') = BagToSet(queue) \cup {t} /\ TaskClaims(t) \subseteq Turn(proc[w]) \cup Holds(proc[w])
        BY <4>1, PutQueue DEF Puts
      <4> QED
        BY <2>1, <2>4, <4>2 DEF Holds
    <3>3. CASE \E m \in Slots : Spawns(w, g, m)
      <4>1. PICK m \in Slots : Add(Task(KindOf(m), g.att, m)) \/ queue' = queue
        BY <3>3 DEF Spawns
      <4>2. Add(Task(KindOf(m), g.att, m)) => BagToSet(queue') = BagToSet(queue) \cup {Task(KindOf(m), g.att, m)}
        BY PutQueue
      <4> QED
        BY <2>2, <2>4, <4>1, <4>2
    <3>4. CASE queue' = queue
      BY <2>4, <3>4
    <3> QED
      BY <1>1, <1>2, <3>1, <3>2, <3>3, <3>4 DEF Moves, Shifts, Saves, PostFails, HandsOver,
         CompletesNow, GivesBack, Promotes
  <2>5. x \in Claimed' => \/ x \in Turn(proc[w])
                          \/ \E q \in Procs : q # w /\ x \in Claims(proc[q])
                          \/ \E t \in BagToSet(queue) : x \in TaskClaims(t)
    BY <1>4, <2>1, <2>3, <2>4, ClaimedIs DEF Claims
  <2>6. x \in Claimed' => x \in Claimed
    BY <1>3, <2>5, ClaimedIs DEF Claims
  <2> QED
    BY <1>6, <2>6 DEF x
<1>7. Outstanding' = {n \in 1..Images : <<"image", latest, n>> \in Claimed'}
  BY <1>3 DEF Outstanding
<1> QED
  BY <1>5, <1>6, <1>7 DEF Outstanding

(* A row that starts has been starting, and whoever gives back the last slot *)
(* of a document promotes it.                                                *)
LEMMA DrainsLeft ==
  ASSUME TypeOK, Calm, SafetyInv, Driven, NEW w \in Workers, WorkerStep(w)
  PROVE  /\ Starting' => Starting
         /\ Has(row', {"finalizing"}) /\ row'.count = 0 => \E v \in Workers : Drains(proc'[v]) # {}
<1>1. PICK g \in Locals :
       \/ Moves(w, g)
       \/ \E t \in BagToSet(queue) : Takes(w, g, t)
       \/ \E t \in Tasks : PutsBack(w, g, t)
       \/ \E s \in {"processing", "failed"} : Saves(w, g, s)
       \/ PostFails(w, g) \/ HandsOver(w, g) \/ CompletesNow(w, g)
       \/ \E n \in Slots : Spawns(w, g, n) \/ GivesBack(w, g, n) \/ Promotes(w, g, n)
       \/ Counts(w, g) \/ SetsCounter(w, g)
  BY WorkerStepKind DEF WorkerKinds
<1>2. Becomes(w, g) /\ w \in Procs /\ row \in Rows
  BY <1>1, CallersAreNoWorkers DEF Moves, Shifts, Takes, PutsBack, Puts, Saves, PostFails, HandsOver,
     CompletesNow, Spawns, GivesBack, Promotes, Counts, SetsCounter, Runs, TypeOK
<1>3. proc'[w] = g /\ \A v \in Workers : v # w => proc'[v] = proc[v]
  BY <1>2, OthersStay DEF Procs
<1>4. Starting' => Starting
  <2>1. CASE \E s \in {"processing", "failed"} : Saves(w, g, s)
    BY <2>1, SaverAlone DEF Saves, Starting
  <2>2. CASE HandsOver(w, g) \/ CompletesNow(w, g) \/ PostFails(w, g)
    BY <1>2, <2>2 DEF HandsOver, CompletesNow, PostFails, HandedOff, CompletedAtOnce, FailedIfActive,
       Starting, Has, Active, Rows
  <2>3. CASE \E n \in Slots : GivesBack(w, g, n) \/ Promotes(w, g, n)
    BY <1>2, <2>3 DEF GivesBack, Promotes, Decremented, Promoted, CanPromote, Starting, Has, Rows
  <2>4. CASE row' = row
    BY <2>4 DEF Starting, Has
  <2> QED
    BY <1>1, <2>1, <2>2, <2>3, <2>4 DEF Moves, Shifts, Takes, PutsBack, Puts, Spawns, Counts, SetsCounter
<1>5. ASSUME Has(row', {"finalizing"}), row'.count = 0 PROVE \E v \in Workers : Drains(proc'[v]) # {}
  <2>1. ASSUME Has(row, {"finalizing"}), row.count = 0, Drains(g) = Drains(proc[w]) \/ Drains(proc[w]) = {}
        PROVE  \E v \in Workers : Drains(proc'[v]) # {}
    BY <1>3, <2>1 DEF Driven
  <2>2. CASE \E t \in BagToSet(queue) : Takes(w, g, t)
    <3>1. Drains(proc[w]) = {} /\ row' = row
      BY <2>2 DEF Takes, At, Drains
    <3> QED
      BY <1>5, <2>1, <3>1
  <2>3. CASE Moves(w, g) \/ (\E t \in Tasks : PutsBack(w, g, t)) \/ (\E n \in Slots : Spawns(w, g, n))
             \/ Counts(w, g) \/ SetsCounter(w, g)
    <3>1. row' = row /\ (Drains(g) = Drains(proc[w]) \/ Drains(proc[w]) = {})
      BY <2>3 DEF Moves, Shifts, Alike, PutsBack, Puts, Spawns, Counts, SetsCounter, Duties
    <3> QED
      BY <1>5, <2>1, <3>1
  <2>4. ~ \E s \in {"processing", "failed"} : Saves(w, g, s)
    BY <1>2, <1>5 DEF Saves, Saved, Has, Rows
  <2>5. CASE PostFails(w, g) \/ CompletesNow(w, g)
    <3>1. row' = row /\ Drains(proc[w]) = {}
      BY <1>2, <1>5, <2>5 DEF PostFails, CompletesNow, FailedIfActive, CompletedAtOnce, Has, Rows, Duties
    <3> QED
      BY <1>5, <2>1, <3>1
  <2>6. ~HandsOver(w, g)
    <3>1. SUFFICES ASSUME HandsOver(w, g) PROVE FALSE
      OBVIOUS
    <3>2. proc[w].todo \subseteq Slots /\ proc[w].todo # {} /\ row' = HandedOff(row, Cardinality(proc[w].todo))
          /\ Has(row, {"processing"})
      BY <3>1 DEF HandsOver
    <3>3. Cardinality(proc[w].todo) # 0
      BY <3>2, FiniteSlots, FS_Subset, FS_EmptySet
    <3>4. row'.count = Cardinality(proc[w].todo)
      BY <1>2, <3>2 DEF HandedOff, Rows
    <3> QED
      BY <1>5, <3>3, <3>4
  <2>7. CASE \E n \in Slots : GivesBack(w, g, n)
    BY <1>3, <2>7 DEF GivesBack
  <2>8. ~ \E n \in Slots : Promotes(w, g, n)
    BY <1>2, <1>5 DEF Promotes, Promoted, CanPromote, Has, Rows
  <2> QED
    BY <1>1, <2>2, <2>3, <2>4, <2>5, <2>6, <2>7, <2>8
<1> QED
  BY <1>4, <1>5

(* The two steps that count images, by the place of the worker. *)
LEMMA CountersAre ==
  ASSUME TypeOK, Calm, TasksArrive, SafetyInv, NEW w \in Workers, WorkerStep(w)
  PROVE  /\ proc[w].pc = "mm.set" => SetMultimodal(w)
         /\ proc[w].pc = "image.count" => ImageCount(w)
<1>0. Fits(proc[w]) /\ "db" \notin Faults
  BY CalmSteps, CallersAreNoWorkers DEF SafetyInv, Shapes
<1>1. SUFFICES ASSUME proc[w].pc \in {"mm.set", "image.count"}
               PROVE  (proc[w].pc = "mm.set" /\ SetMultimodal(w)) \/ (proc[w].pc = "image.count" /\ ImageCount(w))
  OBVIOUS
<1>2. ~SubtaskStep(w)
  BY <1>1, SubtaskPasses DEF FollowerPCs, ImagePCs, ReadingPCs
<1> USE DEF At
<1>3. ~PostStep(w)
  BY <1>1 DEF PostStep, PostEnter, Take, Drop, PostMissing, PostAttempt, PostList, PostListError, PostHandoff,
     PostNothingToDo, PostNothingToDoError, PostSpawn, PostRelease, PostPromote, PostEnd
<1>4. DocStep(w) => SetMultimodal(w) /\ proc[w].pc = "mm.set"
  BY <1>1 DEF DocStep, DocEnter, Take, Drop, DocRecheck, DocMark, DocConvert, DocConvertError, DocFatal,
     ChunksCheck, ChunksClean, ChunksRecheck, ChunksWrite, ChunksBeforeIndex, ChunksIndex,
     ChunksIndexError, ChunksUndo, ChunksFinal, ChunksSave, EnqueuePost, SetMultimodal, EnqueueImage
<1>5. ImageStep(w) => ImageCount(w) /\ proc[w].pc = "image.count"
  <2>1. ~ImageCountNoRedis(w)
    <3>1. SUFFICES ASSUME ImageCountNoRedis(w) PROVE FALSE
      OBVIOUS
    <3>2. proc[w].job.n \in 1..Images /\ Lite
      BY <1>0, <1>1, <3>1 DEF ImageCountNoRedis, Fits, ImagePCs, ReadingPCs
    <3> QED
      BY <3>2, PipelineAssumption DEF TasksArrive, ManyPosts
  <2> QED
    BY <1>1, <2>1 DEF ImageStep, ImageEnter, ImageEnterError, Take, ImageError, ImageRun, ImageRunError,
       ImageCount, ImageLast
<1>6. ~Acknowledge(w)
  BY <1>0 DEF Acknowledge, Fits
<1> QED
  BY <1>2, <1>3, <1>4, <1>5, <1>6 DEF WorkerStep

(* Counting an image is a step of that kind. *)
LEMMA ImageCounts ==
  ASSUME TypeOK, Calm, TasksArrive, SafetyInv, NEW w \in Workers, WorkerStep(w), ImageCount(w)
  PROVE  \E g : Counts(w, g)
<1>1. proc[w].pc = "image.count" /\ mm' = mm - 1 /\ mm \in Int /\ ~ManyPosts /\ queue' = queue
  BY DEF ImageCount, At, TypeOK, TasksArrive
<1>2. mm' # mm
  BY <1>1
<1>3. Turn(proc[w]) # Driver
  <2>1. Turn(proc[w]) = ImagesOf(proc[w].att, {proc[w].job.n})
    BY <1>1, TurnOf DEF ReadingPCs
  <2>2. Driver \cap Turn(proc[w]) = {} /\ Driver # {}
    BY <2>1, KindsOfClaims DEF Driver
  <2> QED
    BY <2>2
<1>4. PICK g \in Locals :
       \/ Moves(w, g)
       \/ \E t \in BagToSet(queue) : Takes(w, g, t)
       \/ \E t \in Tasks : PutsBack(w, g, t)
       \/ \E s \in {"processing", "failed"} : Saves(w, g, s)
       \/ PostFails(w, g) \/ HandsOver(w, g) \/ CompletesNow(w, g)
       \/ \E n \in Slots : Spawns(w, g, n) \/ GivesBack(w, g, n) \/ Promotes(w, g, n)
       \/ Counts(w, g) \/ SetsCounter(w, g)
  BY WorkerStepKind DEF WorkerKinds
<1>5. ~CountLeft(w)
  BY <1>1, <1>2, <1>3 DEF CountLeft
<1> QED
  BY <1>1, <1>2, <1>4, <1>5 DEF Moves, Shifts, Takes, PutsBack, Puts, Saves, PostFails, HandsOver,
     CompletesNow, Spawns, GivesBack, Promotes, SetsCounter, At

(* An image to add is the parser's or its followers', after a step as well. *)
LEMMA ImagesAreFollowedNext ==
  (TypeOK /\ SafetyInv /\ ~ManyPosts /\ Outstanding # {} => Has(row, {"processing"}))'
<1>1. TypeOK /\ SafetyInv /\ ~ManyPosts /\ Outstanding # {} => Has(row, {"processing"})
  BY ImagesAreFollowed
<1> QED
  BY <1>1, PTL

(* A worker leaves the document driven, whatever it does. *)
LEMMA WorkersKeepDriven ==
  ASSUME TypeOK, Calm, TasksArrive, SafetyInv, Driven, NEW w \in Workers, WorkerStep(w),
         TypeOK', SafetyInv'
  PROVE  Driven'
<1>1. PICK g : Becomes(w, g)
  BY Carries
<1>2. latest' = latest /\ w \in Procs /\ proc'[w] = g /\ \A v \in Workers : v # w => proc'[v] = proc[v]
  BY <1>1, Carries, OthersStay, CallersAreNoWorkers DEF Procs
<1>3. ~ManyPosts /\ ~ManyPosts'
  BY DEF TasksArrive, ManyPosts
<1>4. Outstanding' # {} => Has(row', {"processing"})
  BY <1>3, ImagesAreFollowedNext
<1>5. ASSUME Starting', Reads(proc'[w]),
             Outstanding' # {} => mm' = Cardinality(Outstanding'),
             Driver \subseteq Claimed' \/ Outstanding' # {}
      PROVE  Driven'
  <2>1. Has(row', {"finalizing"}) /\ row'.count = 0 => \E v \in Workers : Drains(proc'[v]) # {}
    BY DrainsLeft
  <2>2. \A v \in Workers : Reads(proc'[v])
    BY <1>2, <1>5 DEF Driven
  <2> QED
    BY <1>5, <2>1, <2>2 DEF Driven
<1>6. CASE ~Starting'
  <2>1. ~Following'
    BY <1>3, <1>6 DEF SafetyInv, Phases, Starting, Has
  <2>2. \A v \in Workers : proc'[v].pc \notin FollowerPCs
    BY <2>1 DEF Following
  <2>3. \A v \in Workers : Reads(proc'[v])
    BY <2>2 DEF Reads, FollowerPCs, PosterPCs, ImagePCs, ReadingPCs
  <2>4. Outstanding' = {}
    BY <1>4, <1>6 DEF Starting, Has
  <2>5. Has(row', {"finalizing"}) /\ row'.count = 0 => \E v \in Workers : Drains(proc'[v]) # {}
    BY DrainsLeft
  <2> QED
    BY <1>6, <2>3, <2>4, <2>5 DEF Driven
<1>7. CASE Starting' /\ proc[w].pc = "mm.set"
  <2>1. SetMultimodal(w)
    BY <1>7, CountersAre
  <2>2. Outstanding' # {} /\ mm' = Cardinality(Outstanding')
    BY <2>1, SetCounterKeepsDriven
  <2>3. proc'[w].pc = "mm.enqueue"
    BY <1>2, <2>1, FramesAreLocals DEF SetMultimodal, Locals, TypeOK
  <2> QED
    BY <1>5, <1>7, <2>2, <2>3 DEF Reads
<1>8. CASE Starting' /\ proc[w].pc = "image.count"
  <2>1. PICK f : Counts(w, f)
    BY <1>8, CountersAre, ImageCounts
  <2>2. /\ Outstanding' # {} => mm' = Cardinality(Outstanding')
        /\ Driver \subseteq Claimed' \/ Outstanding' # {}
    BY <2>1, CountKeepsDriven
  <2>3. proc'[w] = f /\ f.pc \in {"image.last", "idle"}
    BY <1>2, <2>1, OthersStay DEF Counts, Runs
  <2> QED
    BY <1>5, <1>8, <2>2, <2>3 DEF Reads
<1>9. CASE Starting' /\ proc[w].pc \notin {"mm.set", "image.count"}
  <2>1. Reads(proc'[w])
    BY <1>9, TurnsHandedOn
  <2>2. \A x \in Driver \cup ImagesOf(latest, 1..Images) : x \in Claimed => x \in Claimed'
    BY <1>9, ClaimsHandedOn
  <2>3. Outstanding' \subseteq Outstanding /\ (mm' = mm \/ Outstanding = {})
    BY <1>3, <1>9, ImagesLeft
  <2>4. Outstanding' = {n \in 1..Images : <<"image", latest, n>> \in Claimed'}
    BY <1>2 DEF Outstanding
  <2>5. Outstanding' = Outstanding
    BY <2>2, <2>3, <2>4 DEF Outstanding, ImagesOf
  <2>6. Driver \subseteq Claimed => Driver \subseteq Claimed'
    BY <2>2
  <2>7. Starting
    BY <1>9, DrainsLeft
  <2> QED
    BY <1>5, <1>9, <2>1, <2>3, <2>5, <2>6, <2>7 DEF Driven
<1> QED
  BY <1>6, <1>7, <1>8, <1>9

(* With nothing queued, nobody at work and no reparse, nothing is claimed. *)
LEMMA IdleIsNotDriven ==
  ASSUME TypeOK, SafetyInv, TasksArrive, Driven, queue = EmptyBag,
         \A w \in Workers : proc[w].pc = "idle", \A c \in Callers : proc[c].pc \notin ReparsePCs
  PROVE  ~Has(row, Active)
<1>1. BagToSet(queue) = {}
  BY DEF BagToSet, EmptyBag, SetToBag
<1>2. \A p \in Procs : Fits(proc[p]) /\ proc[p].pc \in ApiPCs \cup {"idle"} /\ proc[p].pc \notin ReparsePCs
  BY PlacesOfRequests DEF SafetyInv, Shapes, Procs
<1>3. \A p \in Procs : Claims(proc[p]) = {} /\ Holds(proc[p]) = {}
  BY <1>2, RequesterClaims
<1>4. \A x : x \notin Claimed
  BY <1>1, <1>3, ClaimedIs
<1>5. ~Starting /\ Outstanding = {}
  BY <1>4 DEF Driven, Outstanding, Driver
<1>6. HeldNow = {}
  BY <1>4, HeldAreClaimed DEF HeldNow
<1>7. \A w \in Workers : Drains(proc[w]) = {}
  <2>1. \A w \in Workers : Drains(proc[w]) \subseteq Claims(proc[w])
    BY DEF Claims, Duties
  <2> QED
    BY <1>3, <2>1, CallersAreNoWorkers
<1>8. ~Has(row, {"finalizing"})
  <2>1. Has(row, {"finalizing"}) => row.count = 0
    BY <1>6, FS_EmptySet DEF SafetyInv, Enriching
  <2> QED
    BY <1>7, <2>1 DEF Driven
<1> QED
  BY <1>5, <1>8 DEF Starting, Has, Active

(* A request leaves a document driven: it finds it at rest, or takes the     *)
(* turn itself until it has enqueued the parser.                             *)
LEMMA RequestsKeepDriven ==
  ASSUME TypeOK, Calm, TasksArrive, SafetyInv, Driven, NEW c \in Callers, ApiStep(c),
         TypeOK', SafetyInv'
  PROVE  Driven'
<1> USE DEF At
<1>0. /\ "db" \notin Faults /\ "enqueue" \notin Faults /\ ~ManyPosts /\ ~ManyPosts' /\ row \in Rows
      /\ c \in Procs /\ (\A status : TrySave(status) <=> row' = Saved(row, status))
  BY CalmSteps DEF TasksArrive, ManyPosts, TypeOK, Procs
<1>1. \A w \in Workers : proc'[w] = proc[w]
  <2>1. \E g : Becomes(c, g)
    BY RequestPlaces DEF ApiStep, ReparseOpen, ReparseClean, ReparseReset, ReparseZero, ReparseEnqueue,
       ReparseFailed, CancelRead, CancelMark, Dequeue, DeleteMark, DeletePurge, DeleteRow, SweepFind,
       SweepUpdate
  <2> QED
    BY <2>1, RequesterIs
<1>2. Outstanding' # {} => Has(row', {"processing"})
  BY <1>0, ImagesAreFollowedNext
<1>3. \A w \in Workers : Reads(proc'[w])
  BY <1>1 DEF Driven
<1>4. ASSUME Starting' => Driver \subseteq Claimed', ~Has(row', {"processing"}),
             Has(row', {"finalizing"}) => row' = row
      PROVE  Driven'
  BY <1>1, <1>2, <1>3, <1>4 DEF Driven, Has
<1>5. CASE ReparseOpen(c) \/ ReparseClean(c)
  <2>1. row' = row /\ Has(row, {"completed", "failed"})
    <3>1. CASE ReparseOpen(c)
      BY <3>1 DEF ReparseOpen, Calm, Has
    <3>2. CASE ReparseClean(c)
      BY <3>2, Reparses DEF ReparseClean, StoredOnly, ReparsePCs
    <3> QED
      BY <1>5, <3>1, <3>2
  <2> QED
    BY <1>4, <2>1 DEF Starting, Has
<1>6. CASE ReparseReset(c) \/ ReparseZero(c)
  <2>1. PICK g : Becomes(c, g) /\ g.pc \in {"re.zero", "re.enqueue"}
    BY <1>0, <1>6, RequestPlaces DEF ReparseReset, ReparseZero
  <2>2. Turn(proc'[c]) = Driver
    BY <2>1, RequesterIs, TurnOf DEF ReparsePCs
  <2>3. Driver \subseteq Claimed'
    BY <1>0, <2>2, ClaimedIs DEF Claims
  <2>4. ~Has(row', {"processing"}) /\ ~Has(row', {"finalizing"})
    <3>1. CASE ReparseReset(c)
      BY <1>0, <3>1 DEF ReparseReset, Saved, Has, Rows
    <3>2. CASE ReparseZero(c)
      <4>1. Has(row, {"pending"})
        BY <3>2, Reparses DEF ReparseZero, ReparsePCs
      <4> QED
        BY <1>0, <3>2, <4>1 DEF ReparseZero, ZeroCount, Has, Rows
    <3> QED
      BY <1>6, <3>1, <3>2
  <2> QED
    BY <1>4, <2>3, <2>4
<1>7. CASE ReparseEnqueue(c)
  <2>1. Add(Task("process", Att(c), 0)) /\ row' = row
    BY <1>0, <1>7 DEF ReparseEnqueue, QueueOnly
  <2>2. Task("process", Att(c), 0) \in BagToSet(queue')
    BY <2>1, PutQueue
  <2>3. TaskClaims(Task("process", Att(c), 0)) = Driver
    BY DEF TaskClaims, Task, Enrichment
  <2>4. Driver \subseteq Claimed'
    BY <2>2, <2>3, ClaimedIs
  <2>5. Has(row, {"pending"})
    BY <1>7, Reparses DEF ReparseEnqueue, ReparsePCs
  <2> QED
    BY <1>4, <2>1, <2>4, <2>5 DEF Has
<1>8. CASE ReparseFailed(c) \/ CancelMark(c) \/ DeleteMark(c) \/ DeleteRow(c)
  <2>1. row' \in {Saved(row, "failed"), CancelledByUser(row), MarkedDeleting(row), Removed(row)}
    BY <1>0, <1>8 DEF ReparseFailed, CancelMark, DeleteMark, DeleteRow
  <2>2. ~Has(row', Active)
    BY <1>0, <2>1 DEF Saved, CancelledByUser, MarkedDeleting, Removed, Has, Active, Rows
  <2> QED
    BY <1>4, <2>2 DEF Starting, Has, Active
<1>9. CASE Dequeue(c) \/ DeletePurge(c)
  <2>1. row' = row /\ (row.gone \/ row.status \in Aborted)
    BY <1>9, Stops DEF Dequeue, DeletePurge, QueueOnly, StoredOnly, StopPCs
  <2> QED
    BY <1>4, <2>1 DEF Starting, Has, Aborted
<1>10. CASE CancelRead(c)
  <2>1. row' = row /\ ~Has(row, {"pending", "processing"})
    BY <1>10 DEF CancelRead, Calm, Has
  <2> QED
    BY <1>4, <2>1 DEF Starting, Has
<1>11. ASSUME queue = EmptyBag, \A w \in Workers : proc[w].pc = "idle",
              \A d \in Callers : proc[d].pc \notin ReparsePCs
       PROVE  ~Has(row, Active)
  BY <1>0, <1>11, IdleIsNotDriven
<1>12. CASE SweepFind(c) \/ SweepUpdate(c)
  <2>1. ~Has(row, Active)
    <3>1. CASE SweepFind(c)
      BY <1>11, <3>1 DEF SweepFind, Quiet, ReparsePCs, Procs
    <3>2. CASE SweepUpdate(c)
      <4>1. proc[c].pc \in SweepPCs
        BY <3>2 DEF SweepUpdate, SweepPCs
      <4>2. \A d \in Callers : proc[d].pc \notin ReparsePCs
        BY <4>1, PlacesOfRequests DEF Calm
      <4> QED
        BY <1>11, <4>1, <4>2, Stops
    <3> QED
      BY <1>12, <3>1, <3>2
  <2>2. ~Has(row', Active)
    BY <1>0, <1>12, <2>1 DEF SweepFind, SweepUpdate, SweptStuck, SweptDelete, Has, Active, Rows
  <2> QED
    BY <1>4, <2>2 DEF Starting, Has, Active
<1> QED
  BY <1>5, <1>6, <1>7, <1>8, <1>9, <1>10, <1>12 DEF ApiStep

(* No step leaves a document that is under way without anybody at it. *)
LEMMA StepKeepsDriven ==
  ASSUME TypeOK, Calm, TasksArrive, SafetyInv, Driven, TypeOK', SafetyInv', [Next]_vars
  PROVE  Driven'
<1>1. CASE UNCHANGED vars
  <2>1. row' = row /\ latest' = latest /\ queue' = queue /\ proc' = proc /\ mm' = mm
    BY <1>1 DEF vars
  <2>2. Claimed' = Claimed
    BY <2>1 DEF Claimed
  <2>3. Outstanding' = Outstanding
    BY <2>1, <2>2 DEF Outstanding
  <2> QED
    BY <2>1, <2>2, <2>3 DEF Driven, Starting, Has
<1>2. CASE \E w \in Workers : WorkerStep(w)
  BY <1>2, WorkersKeepDriven
<1>3. CASE \E c \in Callers : ApiStep(c)
  BY <1>3, RequestsKeepDriven
<1>4. ~ \E p \in Procs : Crash(p)
  BY CalmSteps DEF Crash
<1> QED
  BY <1>1, <1>2, <1>3, <1>4 DEF Next

(* A new document is driven by its first task. *)
LEMMA DrivenAtFirst == Init => Driven
<1> SUFFICES ASSUME Init PROVE Driven
  OBVIOUS
<1>1. row.status = "pending" /\ queue = SetToBag({Task("process", 1, 0)}) /\ latest = 1
      /\ \A p \in Procs : proc[p] = Idle
  BY DEF Init, NewRow
<1>2. BagToSet(queue) = {Task("process", 1, 0)}
  BY <1>1 DEF SetToBag, BagToSet
<1>3. TaskClaims(Task("process", 1, 0)) = Driver
  BY DEF TaskClaims, Task, Enrichment
<1>4. \A x : x \in Claimed <=> x \in Driver
  BY <1>1, <1>2, <1>3, ClaimedIs, IdleFits
<1>5. Outstanding = {}
  BY <1>4 DEF Outstanding, Driver
<1>6. \A w \in Workers : Reads(proc[w])
  BY <1>1, IdleFits, CallersAreNoWorkers DEF Reads
<1> QED
  BY <1>1, <1>4, <1>5, <1>6 DEF Driven, Has

(* Whatever is retried, given up or not enqueued: a document that nobody     *)
(* works on, and for which nothing is queued, has reached a status the user  *)
(* can act on. Housekeeping has nothing to sweep.                            *)
THEOREM NobodyIsStranded == ASSUME Calm, TasksArrive PROVE Spec => []NothingStranded
<1>1. Calm /\ TasksArrive
  OBVIOUS
<1>2. Init => Driven
  BY DrivenAtFirst
<1>3. TypeOK /\ SafetyInv /\ Driven /\ TypeOK' /\ SafetyInv' /\ [Next]_vars => Driven'
  BY <1>1, StepKeepsDriven
<1>4. TypeOK /\ SafetyInv /\ Driven => NothingStranded
  <2>1. SUFFICES ASSUME TypeOK, SafetyInv, Driven, Quiet PROVE ~Has(row, Active)
    BY DEF NothingStranded, Has
  <2> QED
    BY <1>1, <2>1, IdleIsNotDriven DEF Quiet, At, ReparsePCs, Procs
<1>5. Spec => []SafetyInv
  BY <1>1, SafetyHolds
<1> QED
  BY <1>2, <1>3, <1>4, <1>5, TypeCorrect, PTL DEF Spec
=============================================================================
