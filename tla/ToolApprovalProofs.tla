------------------------- MODULE ToolApprovalProofs -------------------------
(***************************************************************************)
(* Proofs about ToolApproval, for any calls, requests, processes and       *)
(* restarts.                                                               *)
(***************************************************************************)
EXTENDS ToolApproval, TLAPS

Open == {"new", "registered", "waiting", "late", "reading"}

(* The channel is used once, by a decision of somebody entitled to it. *)
WaiterSound ==
    \A c \in Calls :
        /\ outcome[c] = None <=> call[c] \in Open
        /\ chan[c] # None => once[c]
        /\ once[c] => chan[c] # None \/ outcome[c] # None
        /\ outcome[c] \in Requests \union Own => once[c] /\ chan[c] = None
        /\ \A d \in Requests : d \in {chan[c], outcome[c]} => d \in Rightful /\ For[d] = c

(* A request is delivered in one place, once: whoever is still to be         *)
(* delivered has had no effect, and no word of one.                          *)
Fresh(r) ==
    /\ r \notin {chan[For[r]], outcome[For[r]]}
    /\ {ack[r], answer[r]} \intersect {"ok", "already"} = {}
RequestSound ==
    \A r \in Requests :
        /\ req[r] \in {"new", "found", "subscribed"} =>
              Fresh(r) /\ \A i \in Instances : r \notin inbox[i] /\ serving[i] # r
        /\ req[r] = "found" => r \in Rightful
        /\ \A i \in Instances : r \in inbox[i] => serving[i] # r
        /\ \A i \in Instances : serving[i] = r => Home[For[r]] = i /\ r \in Rightful /\ Fresh(r)
        /\ r \in inbox[Home[For[r]]] => Fresh(r)

(* A word once given stays true. *)
Taken(r) ==
    LET c == For[r] IN once[c] /\ (outcome[c] \in {r} \union Fate \/ (outcome[c] = None /\ chan[c] = r))
LostTo(r) ==
    LET c == For[r] IN
    once[c] /\ r \notin {outcome[c], chan[c]} /\ (outcome[c] # None \/ chan[c] # None)
WordKept ==
    \A r \in Requests :
        /\ "ok" \in {ack[r], answer[r]} => Taken(r)
        /\ "already" \in {ack[r], answer[r]} => LostTo(r)

IInv == TypeOK /\ WaiterSound /\ RequestSound /\ WordKept

LEMMA InitIInv == ASSUME ApprovalAssumption, Init PROVE IInv
  BY DEF ApprovalAssumption, Init, IInv, TypeOK, WaiterSound, RequestSound, WordKept, Fresh,
         Open, Own, Fate, Answers

LEMMA TypeStep ==
    ASSUME ApprovalAssumption, IInv, [Next]_vars
    PROVE  TypeOK'
  <1> USE DEF ApprovalAssumption, IInv, TypeOK
  <1>1. CASE UNCHANGED vars
    BY <1>1 DEF vars, callVars, waiter, reqVars, pubsub
  <1>2. ASSUME NEW c \in Calls, Register(c)
        PROVE  TypeOK'
    BY <1>2 DEF Register, callVars, waiter, reqVars, pubsub
  <1>3. ASSUME NEW c \in Calls, Announce(c)
        PROVE  TypeOK'
    BY <1>3 DEF Announce, callVars, waiter, reqVars, pubsub
  <1>4. ASSUME NEW c \in Calls, AnnounceError(c)
        PROVE  TypeOK'
    BY <1>4 DEF AnnounceError, waiter, reqVars, pubsub, Fate
  <1>5. ASSUME NEW c \in Calls, Late(c)
        PROVE  TypeOK'
    BY <1>5 DEF Late, callVars, waiter, reqVars, pubsub
  <1>6. ASSUME NEW c \in Calls, LateDeliver(c)
        PROVE  TypeOK'
    BY <1>6 DEF LateDeliver, Delivered, reqVars, pubsub, Own
  <1>7. ASSUME NEW c \in Calls, Read(c)
        PROVE  TypeOK'
    BY <1>7 DEF Read, reqVars, pubsub, Own
  <1>8. ASSUME NEW c \in Calls, Leave(c)
        PROVE  TypeOK'
    BY <1>8 DEF Leave, waiter, reqVars, pubsub, WaiterSound, Open
  <1>9. ASSUME NEW r \in Requests, NEW i \in Instances, Resolve(r, i)
        PROVE  TypeOK'
    <2>1. UNCHANGED <<callVars, waiter, pubsub>>
      BY <1>9 DEF Resolve
    <2>2. at' \in [Requests -> Instances \union {None}]
      BY <1>9 DEF Resolve
    <2>3. \/ req' = [req EXCEPT ![r] = "found"] /\ UNCHANGED answer
          \/ req' = [req EXCEPT ![r] = "subscribed"] /\ UNCHANGED answer
          \/ \E a \in {"mismatch", "notfound"} : Answer(r, a)
      BY <1>9 DEF Resolve
    <2>4. req[r] = "new"
      BY <1>9 DEF Resolve
    <2> QED BY <2>1, <2>2, <2>3, <2>4 DEF Answer, Answers, callVars, waiter, pubsub
  <1>10. ASSUME NEW r \in Requests, Deliver(r)
        PROVE  TypeOK'
    BY <1>10 DEF Deliver, Delivered, Answer, Answers, callVars, pubsub
  <1>11. ASSUME NEW r \in Requests, Publish(r)
        PROVE  TypeOK'
    <2>1. inbox' \in [Instances -> SUBSET Requests]
      BY <1>11 DEF Publish
    <2>2. UNCHANGED <<callVars, waiter, at, serving, ack>> /\ req[r] = "subscribed"
      BY <1>11 DEF Publish
    <2>3. (req' = [req EXCEPT ![r] = "awaiting"] /\ UNCHANGED answer) \/ Answer(r, "error")
      BY <1>11 DEF Publish
    <2> QED BY <2>1, <2>2, <2>3 DEF Answer, Answers, callVars, waiter
  <1>12. ASSUME NEW r \in Requests, Acknowledged(r)
        PROVE  TypeOK'
    BY <1>12 DEF Acknowledged, Answer, callVars, waiter, pubsub
  <1>13. ASSUME NEW r \in Requests, AckTimeout(r)
        PROVE  TypeOK'
    BY <1>13 DEF AckTimeout, Answer, Answers, callVars, waiter, pubsub
  <1>14. ASSUME NEW r \in Requests, NEW i \in Instances, Receive(i, r)
        PROVE  TypeOK'
    <2>1. inbox' \in [Instances -> SUBSET Requests]
      BY <1>14 DEF Receive
    <2>2. serving' \in [Instances -> Requests \union {None}]
      BY <1>14 DEF Receive
    <2>3. ack' \in [Requests -> Answers]
      BY <1>14 DEF Receive, Reply, Answers
    <2>4. UNCHANGED <<callVars, waiter, reqVars>>
      BY <1>14 DEF Receive
    <2> QED BY <2>1, <2>2, <2>3, <2>4 DEF callVars, waiter, reqVars
  <1>15. ASSUME NEW i \in Instances, Serve(i)
        PROVE  TypeOK'
    <2>1. serving' \in [Instances -> Requests \union {None}]
      BY <1>15 DEF Serve
    <2>2. ack' \in [Requests -> Answers]
      BY <1>15 DEF Serve, Reply, Answers
    <2>3. chan' \in [Calls -> Requests \union Own \union {None}] /\ once' \in [Calls -> BOOLEAN]
      BY <1>15 DEF Serve, Delivered
    <2>4. UNCHANGED <<callVars, reqVars, inbox>>
      BY <1>15 DEF Serve
    <2> QED BY <2>1, <2>2, <2>3, <2>4 DEF callVars, reqVars
  <1>16. ASSUME NEW i \in Instances, Crash(i)
        PROVE  TypeOK'
    BY <1>16 DEF Crash, waiter, Fate, Answers, Pending, WaiterSound, Open
  <1> QED BY <1>1, <1>2, <1>3, <1>4, <1>5, <1>6, <1>7, <1>8, <1>9, <1>10, <1>11, <1>12, <1>13, <1>14, <1>15, <1>16 DEF Next

(* once.Do: what is in the channel was put there first, and is read once.    *)
LEMMA WaiterStep ==
    ASSUME ApprovalAssumption, IInv, [Next]_vars
    PROVE  WaiterSound'
  <1> USE DEF ApprovalAssumption, IInv, TypeOK, WaiterSound, Open, Own, Fate, Pending, RequestSound, Fresh
  <1>1. CASE UNCHANGED vars
    BY <1>1 DEF vars, callVars, waiter, reqVars, pubsub
  <1>2. ASSUME NEW c \in Calls, Register(c)
        PROVE  WaiterSound'
    BY <1>2 DEF Register, callVars, waiter, reqVars, pubsub
  <1>3. ASSUME NEW c \in Calls, Announce(c)
        PROVE  WaiterSound'
    BY <1>3 DEF Announce, callVars, waiter, reqVars, pubsub
  <1>4. ASSUME NEW c \in Calls, AnnounceError(c)
        PROVE  WaiterSound'
    BY <1>4 DEF AnnounceError, callVars, waiter, reqVars, pubsub
  <1>5. ASSUME NEW c \in Calls, Late(c)
        PROVE  WaiterSound'
    BY <1>5 DEF Late, callVars, waiter, reqVars, pubsub
  <1>6. ASSUME NEW c \in Calls, LateDeliver(c)
        PROVE  WaiterSound'
    BY <1>6 DEF LateDeliver, Delivered, callVars, waiter, reqVars, pubsub
  <1>7. ASSUME NEW c \in Calls, Read(c)
        PROVE  WaiterSound'
    BY <1>7 DEF Read, callVars, waiter, reqVars, pubsub
  <1>8. ASSUME NEW c \in Calls, Leave(c)
        PROVE  WaiterSound'
    BY <1>8 DEF Leave, callVars, waiter, reqVars, pubsub
  <1>9. ASSUME NEW r \in Requests, NEW i \in Instances, Resolve(r, i)
        PROVE  WaiterSound'
    BY <1>9 DEF Resolve, Answer, callVars, waiter, reqVars, pubsub
  <1>10. ASSUME NEW r \in Requests, Deliver(r)
        PROVE  WaiterSound'
    BY <1>10 DEF Deliver, Delivered, Answer, callVars, waiter, reqVars, pubsub
  <1>11. ASSUME NEW r \in Requests, Publish(r)
        PROVE  WaiterSound'
    BY <1>11 DEF Publish, Answer, callVars, waiter, reqVars, pubsub
  <1>12. ASSUME NEW r \in Requests, Acknowledged(r)
        PROVE  WaiterSound'
    BY <1>12 DEF Acknowledged, Answer, callVars, waiter, reqVars, pubsub
  <1>13. ASSUME NEW r \in Requests, AckTimeout(r)
        PROVE  WaiterSound'
    BY <1>13 DEF AckTimeout, Answer, callVars, waiter, reqVars, pubsub
  <1>14. ASSUME NEW r \in Requests, NEW i \in Instances, Receive(i, r)
        PROVE  WaiterSound'
    BY <1>14 DEF Receive, Reply, callVars, waiter, reqVars, pubsub
  <1>15. ASSUME NEW i \in Instances, Serve(i)
        PROVE  WaiterSound'
    BY <1>15 DEF Serve, Delivered, Reply, callVars, waiter, reqVars, pubsub
  <1>16. ASSUME NEW i \in Instances, Crash(i)
        PROVE  WaiterSound'
    BY <1>16 DEF Crash, callVars, waiter, reqVars, pubsub
  <1> QED BY <1>1, <1>2, <1>3, <1>4, <1>5, <1>6, <1>7, <1>8, <1>9, <1>10, <1>11, <1>12, <1>13, <1>14, <1>15, <1>16 DEF Next

(* deliverLocal: a request is looked up in one place at a time, and the       *)
(* lookup checks the tenant and the user.                                    *)
LEMMA RequestStep ==
    ASSUME ApprovalAssumption, IInv, [Next]_vars
    PROVE  RequestSound'
  <1> USE DEF ApprovalAssumption, IInv, TypeOK, RequestSound, Fresh, WaiterSound, Open, Own, Fate, Pending
  <1>1. CASE UNCHANGED vars
    BY <1>1 DEF vars, callVars, waiter, reqVars, pubsub
  <1>2. ASSUME NEW c \in Calls, Register(c)
        PROVE  RequestSound'
    BY <1>2 DEF Register, callVars, waiter, reqVars, pubsub
  <1>3. ASSUME NEW c \in Calls, Announce(c)
        PROVE  RequestSound'
    BY <1>3 DEF Announce, callVars, waiter, reqVars, pubsub
  <1>4. ASSUME NEW c \in Calls, AnnounceError(c)
        PROVE  RequestSound'
    BY <1>4 DEF AnnounceError, callVars, waiter, reqVars, pubsub
  <1>5. ASSUME NEW c \in Calls, Late(c)
        PROVE  RequestSound'
    BY <1>5 DEF Late, callVars, waiter, reqVars, pubsub
  <1>6. ASSUME NEW c \in Calls, LateDeliver(c)
        PROVE  RequestSound'
    BY <1>6 DEF LateDeliver, Delivered, callVars, waiter, reqVars, pubsub
  <1>7. ASSUME NEW c \in Calls, Read(c)
        PROVE  RequestSound'
    BY <1>7 DEF Read, callVars, waiter, reqVars, pubsub
  <1>8. ASSUME NEW c \in Calls, Leave(c)
        PROVE  RequestSound'
    BY <1>8 DEF Leave, callVars, waiter, reqVars, pubsub
  <1>9. ASSUME NEW r \in Requests, NEW i \in Instances, Resolve(r, i)
        PROVE  RequestSound'
    BY <1>9 DEF Resolve, Answer, callVars, waiter, reqVars, pubsub
  <1>10. ASSUME NEW r \in Requests, Deliver(r)
        PROVE  RequestSound'
    BY <1>10 DEF Deliver, Delivered, Answer, callVars, waiter, reqVars, pubsub
  <1>11. ASSUME NEW r \in Requests, Publish(r)
        PROVE  RequestSound'
    BY <1>11 DEF Publish, Answer, callVars, waiter, reqVars, pubsub
  <1>12. ASSUME NEW r \in Requests, Acknowledged(r)
        PROVE  RequestSound'
    BY <1>12 DEF Acknowledged, Answer, callVars, waiter, reqVars, pubsub
  <1>13. ASSUME NEW r \in Requests, AckTimeout(r)
        PROVE  RequestSound'
    BY <1>13 DEF AckTimeout, Answer, callVars, waiter, reqVars, pubsub
  <1>14. ASSUME NEW r \in Requests, NEW i \in Instances, Receive(i, r)
        PROVE  RequestSound'
    BY <1>14 DEF Receive, Reply, callVars, waiter, reqVars, pubsub
  <1>15. ASSUME NEW i \in Instances, Serve(i)
        PROVE  RequestSound'
    BY <1>15 DEF Serve, Delivered, Reply, callVars, waiter, reqVars, pubsub
  <1>16. ASSUME NEW i \in Instances, Crash(i)
        PROVE  RequestSound'
    BY <1>16 DEF Crash, callVars, waiter, reqVars, pubsub
  <1> QED BY <1>1, <1>2, <1>3, <1>4, <1>5, <1>6, <1>7, <1>8, <1>9, <1>10, <1>11, <1>12, <1>13, <1>14, <1>15, <1>16 DEF Next

(* What "ok" and "already resolved" say stays true: the channel has been      *)
(* used, and only the gate of the call moves its content on.                 *)
LEMMA WordStep ==
    ASSUME ApprovalAssumption, IInv, [Next]_vars
    PROVE  WordKept'
  <1> USE DEF ApprovalAssumption, IInv, TypeOK, WordKept, Taken, LostTo, RequestSound, Fresh, WaiterSound, Open, Own, Fate, Pending
  <1>1. CASE UNCHANGED vars
    BY <1>1 DEF vars, callVars, waiter, reqVars, pubsub
  <1>2. ASSUME NEW c \in Calls, Register(c)
        PROVE  WordKept'
    BY <1>2 DEF Register, callVars, waiter, reqVars, pubsub
  <1>3. ASSUME NEW c \in Calls, Announce(c)
        PROVE  WordKept'
    BY <1>3 DEF Announce, callVars, waiter, reqVars, pubsub
  <1>4. ASSUME NEW c \in Calls, AnnounceError(c)
        PROVE  WordKept'
    BY <1>4 DEF AnnounceError, callVars, waiter, reqVars, pubsub
  <1>5. ASSUME NEW c \in Calls, Late(c)
        PROVE  WordKept'
    BY <1>5 DEF Late, callVars, waiter, reqVars, pubsub
  <1>6. ASSUME NEW c \in Calls, LateDeliver(c)
        PROVE  WordKept'
    BY <1>6 DEF LateDeliver, Delivered, callVars, waiter, reqVars, pubsub
  <1>7. ASSUME NEW c \in Calls, Read(c)
        PROVE  WordKept'
    BY <1>7 DEF Read, callVars, waiter, reqVars, pubsub
  <1>8. ASSUME NEW c \in Calls, Leave(c)
        PROVE  WordKept'
    BY <1>8 DEF Leave, callVars, waiter, reqVars, pubsub
  <1>9. ASSUME NEW r \in Requests, NEW i \in Instances, Resolve(r, i)
        PROVE  WordKept'
    BY <1>9 DEF Resolve, Answer, callVars, waiter, reqVars, pubsub
  <1>10. ASSUME NEW r \in Requests, Deliver(r)
        PROVE  WordKept'
    BY <1>10 DEF Deliver, Delivered, Answer, callVars, waiter, reqVars, pubsub
  <1>11. ASSUME NEW r \in Requests, Publish(r)
        PROVE  WordKept'
    BY <1>11 DEF Publish, Answer, callVars, waiter, reqVars, pubsub
  <1>12. ASSUME NEW r \in Requests, Acknowledged(r)
        PROVE  WordKept'
    BY <1>12 DEF Acknowledged, Answer, callVars, waiter, reqVars, pubsub
  <1>13. ASSUME NEW r \in Requests, AckTimeout(r)
        PROVE  WordKept'
    BY <1>13 DEF AckTimeout, Answer, callVars, waiter, reqVars, pubsub
  <1>14. ASSUME NEW r \in Requests, NEW i \in Instances, Receive(i, r)
        PROVE  WordKept'
    BY <1>14 DEF Receive, Reply, callVars, waiter, reqVars, pubsub
  <1>15. ASSUME NEW i \in Instances, Serve(i)
        PROVE  WordKept'
    BY <1>15 DEF Serve, Delivered, Reply, callVars, waiter, reqVars, pubsub
  <1>16. ASSUME NEW i \in Instances, Crash(i)
        PROVE  WordKept'
    BY <1>16 DEF Crash, callVars, waiter, reqVars, pubsub
  <1> QED BY <1>1, <1>2, <1>3, <1>4, <1>5, <1>6, <1>7, <1>8, <1>9, <1>10, <1>11, <1>12, <1>13, <1>14, <1>15, <1>16 DEF Next

LEMMA NextIInv == ASSUME ApprovalAssumption, IInv, [Next]_vars PROVE IInv'
  BY TypeStep, WaiterStep, RequestStep, WordStep DEF IInv

(* The inductive invariant of the gate.                                      *)
THEOREM Invariance == Spec => []IInv
  <1>1. Init => IInv
    BY ApprovalAssumption, InitIInv
  <1>2. IInv /\ [Next]_vars => IInv'
    BY ApprovalAssumption, NextIInv
  <1> QED BY <1>1, <1>2, PTL DEF Spec

(* The gate's types, and that a request is answered when it ends.            *)
THEOREM TypeCorrect == Spec => []TypeOK
  BY Invariance, PTL DEF IInv

(* Resolve: a request answered with success decided its call, unless the     *)
(* call's process died or its event could not be emitted.                    *)
THEOREM OkTrue == Spec => []OkIsTaken
  <1>1. IInv => OkIsTaken
    BY DEF IInv, WordKept, Taken, OkIsTaken
  <1> QED BY <1>1, Invariance, PTL

(* ErrAlreadyResolved: a request told to be too late lost to another decision. *)
THEOREM TooLateTrue == Spec => []AlreadyIsLost
  <1>1. IInv => AlreadyIsLost
    BY DEF IInv, WordKept, LostTo, AlreadyIsLost
  <1> QED BY <1>1, Invariance, PTL

(* deliverLocal: only the asked user's request about this call decides it,   *)
(* in whatever process it was received.                                      *)
THEOREM AskedDecides == Spec => []OnlyTheAskedDecides
  <1>1. IInv => OnlyTheAskedDecides
    BY DEF IInv, WaiterSound, OnlyTheAskedDecides
  <1> QED BY <1>1, Invariance, PTL
=============================================================================
