----------------------------- MODULE ImQuestions -----------------------------
(***************************************************************************)
(* Questions from chat platforms (internal/im): each is checked against    *)
(* the plan's cap, counted against its user's limit in Redis, queued in    *)
(* the process that received it, and run by a worker that first passes the *)
(* gate all processes share. /stop looks for the question in the queue, in *)
(* the map of running requests, in the Redis mapping of other processes'   *)
(* requests, and leaves a marker for the next one that starts.             *)
(*                                                                         *)
(* Redis is configured and answers. One scope of the plan covers all users.*)
(***************************************************************************)
EXTENDS Integers, FiniteSets, Sequences

CONSTANTS
    Questions,   \* messages, each delivered once (isDuplicate)
    Users,       \* user keys: channel, user and chat
    UserOf,      \* who asks each question
    Instances,   \* processes
    Routes,      \* the processes that may receive each question
    Mortal,      \* the processes that may die
    None,        \* no question
    Workers,     \* workers of a process
    MaxSize,     \* room in the queue of a process
    MaxPerUser,  \* defaultMaxPerUser
    GlobalMax,   \* globalMaxWorkers
    Cap,         \* the plan's limit on questions
    MaxStops,    \* bound on /stop commands
    Slow         \* TRUE: turns may outlast the lifetimes of their counters

ASSUME ImAssumption ==
    /\ IsFiniteSet(Questions) /\ IsFiniteSet(Instances) /\ None \notin Questions
    /\ UserOf \in [Questions -> Users] /\ Routes \in [Questions -> SUBSET Instances]
    /\ Workers \in Nat \ {0} /\ MaxSize \in Nat \ {0} /\ MaxPerUser \in Nat \ {0}
    /\ GlobalMax \in Nat \ {0} /\ Cap \in Nat /\ MaxStops \in Nat /\ Slow \in BOOLEAN

VARIABLES
    at,         \* how far each question has come
    home,       \* the process that received it
    queue,      \* qaQueue.queue of each process
    userCount,  \* im:queue:user:<user>
    gate,       \* im:global:active
    inflight,   \* Service.inflight: the request, and the one whose ids it carries
    mapping,    \* im:inflight:<user>
    marker,     \* im:stop:<user>
    ended,      \* questions on their way whose context has been cancelled
    stopEvent,  \* questions with a stop event in the stream manager
    reserved,   \* questions that hold a place under the cap
    denied,     \* questions the usage check refused
    counted,    \* the plan's counter of questions
    stop,       \* how far the /stop of each user has come
    stops,      \* /stop commands so far
    lostGate,   \* history: increments of the gate whose process died
    lostUser    \* history: increments of a user's counter whose process died

redisVars == <<userCount, gate, mapping, marker>>
planVars  == <<reserved, denied, counted>>
stopVars  == <<ended, stopEvent, stop, stops>>
lostVars  == <<lostGate, lostUser>>
vars == <<at, home, queue, redisVars, inflight, planVars, stopVars, lostVars>>

Gated    == {"passed", "registered", "starting", "saved", "running", "closing"}
Working  == {"taken", "leaving"} \union Gated
Accepted == {"accepted", "queued"} \union Working
In(S)    == {q \in Questions : at[q] \in S}
Asked(u) == {q \in Questions : UserOf[q] = u}
Idle     == [req |-> None, ids |-> None]
NoStop   == [at |-> "none", found |-> None, on |-> None]

TypeOK ==
    /\ at \in [Questions -> {"new", "checked", "excess", "over"} \union Accepted]
    /\ home \in [Questions -> Instances \union {None}]
    /\ \A i \in Instances : \A n \in 1 .. Len(queue[i]) :
           at[queue[i][n]] = "queued" /\ home[queue[i][n]] = i
    /\ userCount \in [Users -> Nat] /\ gate \in Nat
    /\ \A i \in Instances, u \in Users : inflight[i][u].req # None =>
           at[inflight[i][u].req] \in Gated /\ home[inflight[i][u].req] = i
    /\ mapping \in [Users -> Questions \union {None}] /\ marker \in [Users -> BOOLEAN]
    /\ reserved \subseteq Questions /\ denied \subseteq Questions /\ reserved \intersect denied = {}
    /\ counted \in 0 .. Cardinality(Questions)
    /\ ended \subseteq Questions /\ stopEvent \subseteq Questions
    /\ stops \in 0 .. MaxStops
    /\ lostGate \in Nat /\ lostUser \in [Users -> Nat]

Init ==
    /\ at = [q \in Questions |-> "new"] /\ home = [q \in Questions |-> None]
    /\ queue = [i \in Instances |-> <<>>]
    /\ userCount = [u \in Users |-> 0] /\ gate = 0
    /\ inflight = [i \in Instances |-> [u \in Users |-> Idle]]
    /\ mapping = [u \in Users |-> None] /\ marker = [u \in Users |-> FALSE]
    /\ ended = {} /\ stopEvent = {}
    /\ reserved = {} /\ denied = {} /\ counted = 0
    /\ stop = [u \in Users |-> NoStop] /\ stops = 0
    /\ lostGate = 0 /\ lostUser = [u \in Users |-> 0]

Goes(q, where) == at' = [at EXCEPT ![q] = where]
DecrUser(u) == userCount' = [userCount EXCEPT ![u] = @ - 1]

-----------------------------------------------------------------------------
(* HandleMessage.                                                            *)

(* preflightUsage, reserveQuestion: the counter is read and the place taken  *)
(* under one lock of the process. A refused question goes on to its worker,  *)
(* which reports the refusal.                                                *)
ReservableIfCounted(i) == counted < Cap   \* mutant: the places taken are not looked at
Reservable(i) == counted + Cardinality({q \in reserved : home[q] = i}) < Cap
Receive(q, i) ==
    /\ at[q] = "new"
    /\ Goes(q, "checked") /\ home' = [home EXCEPT ![q] = i]
    /\ IF Reservable(i) THEN reserved' = reserved \union {q} /\ UNCHANGED denied
                        ELSE denied' = denied \union {q} /\ UNCHANGED reserved
    /\ UNCHANGED <<queue, redisVars, inflight, counted, stopVars, lostVars>>

(* Mutant: an excess is refused without a DECR of its own. *)
RefuseKeeps(q) ==
    /\ at[q] = "excess"
    /\ Goes(q, "over") /\ reserved' = reserved \ {q}
    /\ UNCHANGED <<home, queue, redisVars, inflight, denied, counted, stopVars, lostVars>>
(* redisCheckAndIncrUser: INCR, and a DECR of its own when that was too many. *)
IncrUser(q) ==
    /\ at[q] = "checked"
    /\ userCount' = [userCount EXCEPT ![UserOf[q]] = @ + 1]
    /\ Goes(q, IF userCount'[UserOf[q]] > MaxPerUser THEN "excess" ELSE "accepted")
    /\ UNCHANGED <<home, queue, gate, mapping, marker, inflight, planVars, stopVars, lostVars>>
Refuse(q) ==
    /\ at[q] = "excess"
    /\ DecrUser(UserOf[q])
    /\ Goes(q, "over") /\ reserved' = reserved \ {q}
    /\ UNCHANGED <<home, queue, gate, mapping, marker, inflight, denied, counted, stopVars, lostVars>>

(* Enqueue, under the queue's lock. *)
Enqueue(q) ==
    /\ at[q] = "accepted" /\ Len(queue[home[q]]) < MaxSize
    /\ queue' = [queue EXCEPT ![home[q]] = Append(@, q)]
    /\ Goes(q, "queued")
    /\ UNCHANGED <<home, redisVars, inflight, planVars, stopVars, lostVars>>
EnqueueFull(q) ==
    /\ at[q] = "accepted" /\ Len(queue[home[q]]) >= MaxSize
    /\ DecrUser(UserOf[q])
    /\ Goes(q, "over") /\ reserved' = reserved \ {q}
    /\ UNCHANGED <<home, queue, gate, mapping, marker, inflight, denied, counted, stopVars, lostVars>>

-----------------------------------------------------------------------------
(* A worker: runWorker.                                                      *)

Dequeue(i) ==
    /\ queue[i] # <<>>
    /\ Cardinality({q \in In(Working) : home[q] = i}) < Workers
    /\ Goes(Head(queue[i]), "taken")
    /\ queue' = [queue EXCEPT ![i] = Tail(@)]
    /\ UNCHANGED <<home, redisVars, inflight, planVars, stopVars, lostVars>>

(* It waited longer than queueTimeout: its place under the cap stays taken. *)
Discard(q) ==
    /\ at[q] = "taken"
    /\ DecrUser(UserOf[q])
    /\ Goes(q, "over")
    /\ UNCHANGED <<home, queue, gate, mapping, marker, inflight, planVars, stopVars, lostVars>>

(* Mutant: a waiting caller takes the gate without a look at its value. *)
PassGateAlways(q) ==
    /\ at[q] = "taken"
    /\ gate' = gate + 1
    /\ Goes(q, "passed")
    /\ UNCHANGED <<home, queue, userCount, mapping, marker, inflight, planVars, stopVars, lostVars>>
(* Mutant: the script compares the value after its own increment. *)
PassGateEarlyLimit(q) ==
    /\ at[q] = "taken" /\ gate + 1 < GlobalMax
    /\ gate' = gate + 1
    /\ Goes(q, "passed")
    /\ UNCHANGED <<home, queue, userCount, mapping, marker, inflight, planVars, stopVars, lostVars>>
(* globalGateScript; a refused caller retries. *)
PassGate(q) ==
    /\ at[q] = "taken" /\ gate < GlobalMax
    /\ gate' = gate + 1
    /\ Goes(q, "passed")
    /\ UNCHANGED <<home, queue, userCount, mapping, marker, inflight, planVars, stopVars, lostVars>>

(* executeQARequest. *)
Register(q) ==
    /\ at[q] = "passed"
    /\ inflight' = [inflight EXCEPT ![home[q]][UserOf[q]] = [req |-> q, ids |-> None]]
    /\ Goes(q, "registered")
    /\ UNCHANGED <<home, queue, redisVars, planVars, stopVars, lostVars>>

(* checkAndClearStopMarker. *)
CheckMarker(q) ==
    LET u == UserOf[q] IN
    /\ at[q] = "registered"
    /\ marker' = [marker EXCEPT ![u] = FALSE]
    /\ Goes(q, IF marker[u] THEN "closing" ELSE "starting")
    /\ reserved' = IF marker[u] THEN reserved \ {q} ELSE reserved
    /\ UNCHANGED <<home, queue, userCount, gate, mapping, inflight, denied, counted, stopVars, lostVars>>

(* The refusal is reported; a cancelled or failing turn saves no question. *)
NotSaved(q) ==
    /\ at[q] = "starting"
    /\ Goes(q, "closing") /\ reserved' = reserved \ {q}
    /\ UNCHANGED <<home, queue, redisVars, inflight, denied, counted, stopVars, lostVars>>
(* CreateMessage: the question is counted; then its place is released. *)
Save(q) ==
    /\ at[q] = "starting" /\ q \notin denied
    /\ counted' = counted + 1
    /\ Goes(q, "saved")
    /\ UNCHANGED <<home, queue, redisVars, inflight, reserved, denied, stopVars, lostVars>>
(* The ids go to whatever request the map has for the user, then to Redis. *)
Run(q) ==
    LET u == UserOf[q] IN
    /\ at[q] = "saved"
    /\ reserved' = reserved \ {q}
    /\ inflight' = [inflight EXCEPT ![home[q]][u] = IF @.req = None THEN @ ELSE [@ EXCEPT !.ids = q]]
    /\ mapping' = [mapping EXCEPT ![u] = q]
    /\ Goes(q, "running")
    /\ UNCHANGED <<home, queue, userCount, gate, marker, denied, counted, stopVars, lostVars>>
(* watchStreamManagerStop. *)
Watch(q) ==
    /\ at[q] = "running" /\ q \in stopEvent \ ended
    /\ ended' = ended \union {q}
    /\ UNCHANGED <<at, home, queue, redisVars, inflight, planVars, stopEvent, stop, stops, lostVars>>
(* The answer is there, or the context has ended: clearInflightMapping. *)
Finish(q) ==
    /\ at[q] = "running"
    /\ mapping' = [mapping EXCEPT ![UserOf[q]] = None]
    /\ Goes(q, "closing")
    /\ UNCHANGED <<home, queue, userCount, gate, marker, inflight, planVars, stopVars, lostVars>>

(* Mutant: a turn that ends leaves its entry in the map. *)
LeaveRegistered(q) ==
    /\ at[q] = "closing"
    /\ gate' = gate - 1
    /\ Goes(q, "leaving") /\ ended' = ended \ {q}
    /\ UNCHANGED <<home, queue, userCount, mapping, marker, inflight, planVars, stopEvent, stop, stops,
                   lostVars>>
(* The deferred delete of the map's entry, whosever it is;                   *)
(* then releaseGlobalGate, and redisDecrUser.                                *)
Leave(q) ==
    /\ at[q] = "closing"
    /\ inflight' = [inflight EXCEPT ![home[q]][UserOf[q]] = Idle]
    /\ gate' = gate - 1
    /\ Goes(q, "leaving") /\ ended' = ended \ {q}
    /\ UNCHANGED <<home, queue, userCount, mapping, marker, planVars, stopEvent, stop, stops, lostVars>>
Done(q) ==
    /\ at[q] = "leaving"
    /\ DecrUser(UserOf[q])
    /\ Goes(q, "over")
    /\ UNCHANGED <<home, queue, gate, mapping, marker, inflight, planVars, stopVars, lostVars>>

-----------------------------------------------------------------------------
(* /stop, handled by process i.                                              *)

FirstOf(u, i) == {n \in 1 .. Len(queue[i]) :
                    /\ UserOf[queue[i][n]] = u
                    /\ \A m \in 1 .. n - 1 : UserOf[queue[i][m]] # u}
WithoutNth(s, n) == SubSeq(s, 1, n - 1) \o SubSeq(s, n + 1, Len(s))

(* Remove: the user's first queued question, under the queue's lock. *)
StopQueued(u, i) ==
    /\ stop[u].at = "none" /\ stops < MaxStops
    /\ stops' = stops + 1
    /\ \E n \in FirstOf(u, i) :
        /\ queue' = [queue EXCEPT ![i] = WithoutNth(@, n)]
        /\ Goes(queue[i][n], "over")
    /\ DecrUser(u)
    /\ stop' = [stop EXCEPT ![u] = [at |-> "finding", found |-> None, on |-> i]]
    /\ UNCHANGED <<home, gate, mapping, marker, inflight, planVars, ended, stopEvent, lostVars>>
StopNotQueued(u, i) ==
    /\ stop[u].at = "none" /\ stops < MaxStops /\ FirstOf(u, i) = {}
    /\ stops' = stops + 1
    /\ stop' = [stop EXCEPT ![u] = [at |-> "looking", found |-> None, on |-> i]]
    /\ UNCHANGED <<at, home, queue, redisVars, inflight, planVars, ended, stopEvent, lostVars>>
(* inflight.LoadAndDelete, and the cancel of the request it finds. *)
StopRunning(u) ==
    LET entry == inflight[stop[u].on][u] IN
    /\ stop[u].at = "looking"
    /\ inflight' = [inflight EXCEPT ![stop[u].on][u] = Idle]
    /\ ended' = ended \union ({entry.req} \ {None})
    /\ stop' = [stop EXCEPT ![u].at = "finding", ![u].found = entry.ids]
    /\ UNCHANGED <<at, home, queue, redisVars, planVars, stopEvent, stops, lostVars>>
(* The ids found here or in Redis get a stop event. *)
StopWrite(u) ==
    LET q == IF stop[u].found # None THEN stop[u].found ELSE mapping[u] IN
    /\ stop[u].at = "finding"
    /\ stopEvent' = stopEvent \union ({q} \ {None})
    /\ stop' = [stop EXCEPT ![u].at = "marking", ![u].found = None]
    /\ UNCHANGED <<at, home, queue, redisVars, inflight, planVars, ended, stops, lostVars>>
(* The marker, whatever was found. *)
StopMark(u) ==
    /\ stop[u].at = "marking"
    /\ marker' = [marker EXCEPT ![u] = TRUE]
    /\ stop' = [stop EXCEPT ![u] = NoStop]
    /\ UNCHANGED <<at, home, queue, userCount, gate, mapping, inflight, planVars, ended, stopEvent,
                   stops, lostVars>>

-----------------------------------------------------------------------------
(* Time and failures.                                                        *)

(* stopMarkerTTL, questionReservationTTL. *)
MarkerExpires(u) ==
    /\ marker[u]
    /\ marker' = [marker EXCEPT ![u] = FALSE]
    /\ UNCHANGED <<at, home, queue, userCount, gate, mapping, inflight, planVars, stopVars, lostVars>>
ReservationExpires(q) ==
    /\ q \in reserved /\ (at[q] = "over" \/ Slow)
    /\ reserved' = reserved \ {q}
    /\ UNCHANGED <<at, home, queue, redisVars, inflight, denied, counted, stopVars, lostVars>>

(* globalGateTTL and redisQueueUserTTL run from the last attempt, and an     *)
(* attempt that waits at the gate repeats it: unless Slow, a key expires  *)
(* when nobody uses it.                                                      *)
GateExpires ==
    /\ gate > 0 /\ In({"taken"}) = {} /\ (In(Gated) = {} \/ Slow)
    /\ gate' = 0 /\ lostGate' = 0
    /\ UNCHANGED <<at, home, queue, userCount, mapping, marker, inflight, planVars, stopVars, lostUser>>
UserExpires(u) ==
    /\ userCount[u] > 0
    /\ Asked(u) \intersect In(Accepted \union {"excess"}) = {} \/ Slow
    /\ userCount' = [userCount EXCEPT ![u] = 0] /\ lostUser' = [lostUser EXCEPT ![u] = 0]
    /\ UNCHANGED <<at, home, queue, gate, mapping, marker, inflight, planVars, stopVars, lostGate>>

(* A process dies with its queue, its map and its reservations. *)
Crash(i) ==
    LET gone == {q \in In(Accepted \union {"checked", "excess"}) : home[q] = i} IN
    /\ i \in Mortal /\ gone # {}
    /\ at' = [q \in Questions |-> IF q \in gone THEN "over" ELSE at[q]]
    /\ queue' = [queue EXCEPT ![i] = <<>>]
    /\ inflight' = [inflight EXCEPT ![i] = [u \in Users |-> Idle]]
    /\ reserved' = reserved \ {q \in Questions : home[q] = i}
    /\ ended' = ended \ gone
    /\ stop' = [u \in Users |-> IF stop[u].on = i THEN NoStop ELSE stop[u]]
    /\ lostGate' = lostGate + Cardinality(gone \intersect In(Gated))
    /\ lostUser' = [u \in Users |-> lostUser[u]
                      + Cardinality((gone \ In({"checked"})) \intersect Asked(u))]
    /\ UNCHANGED <<home, redisVars, denied, counted, stopEvent, stops>>

Next ==
    \/ \E q \in Questions :
        \/ \E i \in Routes[q] : Receive(q, i)
        \/ IncrUser(q) \/ Refuse(q) \/ Enqueue(q) \/ EnqueueFull(q)
        \/ Discard(q) \/ PassGate(q) \/ Register(q) \/ CheckMarker(q) \/ NotSaved(q) \/ Save(q)
        \/ Run(q) \/ Watch(q) \/ Finish(q) \/ Leave(q) \/ Done(q) \/ ReservationExpires(q)
    \/ \E u \in Users :
        \/ \E i \in Instances : StopQueued(u, i) \/ StopNotQueued(u, i)
        \/ StopRunning(u) \/ StopWrite(u) \/ StopMark(u) \/ MarkerExpires(u) \/ UserExpires(u)
    \/ \E i \in Instances : Dequeue(i) \/ Crash(i)
    \/ GateExpires

Spec == Init /\ [][Next]_vars

(* Handlers and workers run, and a turn of the chat model ends. *)
Steps(q) == IncrUser(q) \/ Refuse(q) \/ Enqueue(q) \/ EnqueueFull(q) \/ Register(q) \/ CheckMarker(q)
            \/ NotSaved(q) \/ Save(q) \/ Run(q) \/ Finish(q) \/ Leave(q) \/ Done(q)
FairSpec ==
    /\ Spec
    /\ \A q \in Questions : WF_vars(Steps(q)) /\ WF_vars(PassGate(q))
    /\ \A i \in Instances : WF_vars(Dequeue(i))
    /\ WF_vars(GateExpires)

-----------------------------------------------------------------------------
(* The gate's counter is the number of workers behind it, and what the dead  *)
(* left, so no more than GlobalMax questions run at once                     *)
(* (acquireGlobalGate, releaseGlobalGate).                                   *)
GateIsExact ==
    /\ gate = Cardinality(In(Gated)) + lostGate
    /\ Cardinality(In(Gated)) <= GlobalMax

(* A user's counter is the user's questions on their way, and what the dead  *)
(* left: no way out of the queue forgets to give its unit back or gives it   *)
(* back twice, and no user has more than MaxPerUser accepted                 *)
(* (redisCheckAndIncrUser, redisDecrUser, Remove).                           *)
UserCountIsExact ==
    \A u \in Users :
        /\ userCount[u] = Cardinality(Asked(u) \intersect In(Accepted \union {"excess"})) + lostUser[u]
        /\ Cardinality(Asked(u) \intersect In(Accepted)) <= MaxPerUser

(* Processes that check at once each let through what their own places       *)
(* allow: a single process never counts more than the cap (reserveQuestion,  *)
(* ReleaseReservation).                                                      *)
CapHolds == counted <= Cap * Cardinality(Instances)

(* A question that was sent gets to its end: a queue with free workers, a    *)
(* gate with room and a counter below its limit do not hold it up            *)
(* (runWorker, acquireGlobalGate), unless a dead process holds the gate.     *)
EveryQuestionEnds ==
    \A q \in Questions : at[q] = "checked" ~> at[q] = "over" \/ lostGate > 0
=============================================================================
