---------------------------- MODULE ToolApproval ----------------------------
(***************************************************************************)
(* Human approval of tool calls (internal/agent/approval/gate.go). The     *)
(* process that runs the agent keeps the waiting calls in a map; the       *)
(* user's answer is an HTTP request that any process may receive. A        *)
(* request that does not find the call in its own process is published on  *)
(* a Redis channel to the others, and waits a moment for the owner to      *)
(* acknowledge it. Meanwhile the call may time out or be cancelled. The    *)
(* wait for an OAuth authorization is the same protocol.                   *)
(***************************************************************************)
EXTENDS FiniteSets

CONSTANTS
    Calls,      \* pending ids
    Requests,   \* HTTP requests to resolve one of them
    Instances,  \* processes
    None,       \* no request
    Home,       \* the process each call runs in
    For,        \* the call a request is about
    Rightful,   \* requests with the tenant and the user of their call
    Mortal,     \* the processes that may be restarted
    Redis       \* FALSE: the gate has no Redis client

Own == {"timeout", "canceled"}      \* the decisions of the gate itself
Fate == {"lost", "error"}           \* its process died, its event was not emitted

ASSUME ApprovalAssumption ==
    /\ Home \in [Calls -> Instances] /\ For \in [Requests -> Calls]
    /\ Rightful \subseteq Requests /\ Mortal \subseteq Instances /\ Redis \in BOOLEAN
    /\ None \notin Requests
    /\ (Requests \union {None}) \intersect (Own \union Fate) = {}

VARIABLES
    call,     \* how far RequestAndWait of each call has come
    chan,     \* waiter.ch, by the request whose decision it holds
    once,     \* waiter.once
    outcome,  \* what RequestAndWait returned
    req,      \* how far each request has come
    at,       \* the process that received it
    answer,   \* what it was answered
    inbox,    \* published requests that each process has yet to handle
    serving,  \* the published request each subscriber is about to deliver
    ack       \* acknowledgements on their way to each request

callVars == <<call, outcome>>
waiter   == <<chan, once>>
reqVars  == <<req, at, answer>>
pubsub   == <<inbox, serving, ack>>
vars == <<callVars, waiter, reqVars, pubsub>>

Answers == {"none", "ok", "mismatch", "already", "notfound", "error"}
Pending(c) == call[c] \in {"registered", "waiting", "late", "reading", "leaving"}

TypeOK ==
    /\ call \in [Calls -> {"new", "registered", "waiting", "late", "reading", "leaving", "over"}]
    /\ chan \in [Calls -> Requests \union Own \union {None}] /\ once \in [Calls -> BOOLEAN]
    /\ outcome \in [Calls -> Requests \union Own \union Fate \union {None}]
    /\ req \in [Requests -> {"new", "found", "subscribed", "awaiting", "answered"}]
    /\ at \in [Requests -> Instances \union {None}] /\ answer \in [Requests -> Answers]
    /\ inbox \in [Instances -> SUBSET Requests]
    /\ serving \in [Instances -> Requests \union {None}]
    /\ ack \in [Requests -> Answers]
    /\ \A r \in Requests : req[r] = "answered" <=> answer[r] # "none"
    /\ \A c \in Calls : call[c] = "over" <=> outcome[c] # None /\ call[c] # "leaving"

Init ==
    /\ call = [c \in Calls |-> "new"] /\ outcome = [c \in Calls |-> None]
    /\ chan = [c \in Calls |-> None] /\ once = [c \in Calls |-> FALSE]
    /\ req = [r \in Requests |-> "new"] /\ at = [r \in Requests |-> None]
    /\ answer = [r \in Requests |-> "none"]
    /\ inbox = [i \in Instances |-> {}] /\ serving = [i \in Instances |-> None]
    /\ ack = [r \in Requests |-> "none"]

(* deliver: only the first decision gets into the channel. *)
Delivered(c, d) ==
    /\ chan' = IF once[c] THEN chan ELSE [chan EXCEPT ![c] = d]
    /\ once' = [once EXCEPT ![c] = TRUE]

-----------------------------------------------------------------------------
(* RequestAndWait, RequestOAuthAndWait.                                      *)

Register(c) ==
    /\ call[c] = "new"
    /\ call' = [call EXCEPT ![c] = "registered"]
    /\ UNCHANGED <<outcome, waiter, reqVars, pubsub>>

(* The event that shows the user the pending id. *)
Announce(c) ==
    /\ call[c] = "registered"
    /\ call' = [call EXCEPT ![c] = "waiting"]
    /\ UNCHANGED <<outcome, waiter, reqVars, pubsub>>
AnnounceError(c) ==
    /\ call[c] = "registered"
    /\ call' = [call EXCEPT ![c] = "over"] /\ outcome' = [outcome EXCEPT ![c] = "error"]
    /\ UNCHANGED <<waiter, reqVars, pubsub>>

(* The timer fires, or the user stops the run. *)
Late(c) ==
    /\ call[c] = "waiting"
    /\ call' = [call EXCEPT ![c] = "late"]
    /\ UNCHANGED <<outcome, waiter, reqVars, pubsub>>
LateDeliverForgotten(c) ==      \* mutant: nothing is put into the channel
    /\ call[c] = "late"
    /\ call' = [call EXCEPT ![c] = "reading"]
    /\ UNCHANGED <<outcome, waiter, reqVars, pubsub>>
LateDeliverAnyway(c) ==         \* mutant: the gate's own decision replaces the user's
    /\ call[c] = "late"
    /\ \E d \in Own : chan' = [chan EXCEPT ![c] = d]
    /\ once' = [once EXCEPT ![c] = TRUE]
    /\ call' = [call EXCEPT ![c] = "reading"]
    /\ UNCHANGED <<outcome, reqVars, pubsub>>
LateDeliver(c) ==
    /\ call[c] = "late"
    /\ \E d \in Own : Delivered(c, d)
    /\ call' = [call EXCEPT ![c] = "reading"]
    /\ UNCHANGED <<outcome, reqVars, pubsub>>

(* The decision is read from the channel, whoever put it there. *)
Read(c) ==
    /\ call[c] \in {"waiting", "reading"} /\ chan[c] # None
    /\ outcome' = [outcome EXCEPT ![c] = chan[c]] /\ chan' = [chan EXCEPT ![c] = None]
    /\ call' = [call EXCEPT ![c] = "leaving"]
    /\ UNCHANGED <<once, reqVars, pubsub>>
(* The deferred delete from the map. *)
Leave(c) ==
    /\ call[c] = "leaving"
    /\ call' = [call EXCEPT ![c] = "over"]
    /\ UNCHANGED <<outcome, waiter, reqVars, pubsub>>

-----------------------------------------------------------------------------
(* Resolve, in the process that receives the request.                        *)

Answer(r, a) ==
    /\ req' = [req EXCEPT ![r] = "answered"]
    /\ answer' = [answer EXCEPT ![r] = a]

(* deliverLocal looks the waiter up under the gate's lock ... *)
Resolve(r, i) ==
    /\ req[r] = "new" /\ call[For[r]] # "new"
    /\ at' = [at EXCEPT ![r] = i]
    /\ IF Home[For[r]] = i /\ Pending(For[r])
       THEN IF r \in Rightful THEN req' = [req EXCEPT ![r] = "found"] /\ UNCHANGED answer
                              ELSE Answer(r, "mismatch")
       ELSE IF Redis THEN req' = [req EXCEPT ![r] = "subscribed"] /\ UNCHANGED answer
                     ELSE Answer(r, "notfound")
    /\ UNCHANGED <<callVars, waiter, pubsub>>
(* ... and delivers without it. *)
Deliver(r) ==
    /\ req[r] = "found"
    /\ Delivered(For[r], r)
    /\ Answer(r, IF once[For[r]] THEN "already" ELSE "ok")
    /\ UNCHANGED <<callVars, at, pubsub>>

(* resolveCrossInstance: the processes subscribed at that moment get it, but *)
(* for its own.                                                              *)
Publish(r) ==
    /\ req[r] = "subscribed"
    /\ \E reached \in SUBSET (Instances \ {at[r]}) :
          inbox' = [i \in Instances |-> IF i \in reached THEN inbox[i] \union {r} ELSE inbox[i]]
    /\ \/ req' = [req EXCEPT ![r] = "awaiting"] /\ UNCHANGED answer
       \/ Answer(r, "error")
    /\ UNCHANGED <<callVars, waiter, at, serving, ack>>
Acknowledged(r) ==
    /\ req[r] = "awaiting" /\ ack[r] # "none"
    /\ Answer(r, ack[r])
    /\ UNCHANGED <<callVars, waiter, at, pubsub>>
AckTimeoutSilent(r) ==          \* mutant: the request ends without an answer
    /\ req[r] = "awaiting"
    /\ req' = [req EXCEPT ![r] = "answered"]
    /\ UNCHANGED <<callVars, waiter, at, answer, pubsub>>
AckTimeout(r) ==
    /\ req[r] = "awaiting"
    /\ Answer(r, "notfound")
    /\ UNCHANGED <<callVars, waiter, at, pubsub>>

-----------------------------------------------------------------------------
(* runSubscriber of process i, one message after the other.                  *)

(* A reply reaches a request that still listens, or is lost. *)
Reply(r, a) == ack' \in {ack, [ack EXCEPT ![r] = a]}

ReceiveUnchecked(i, r) ==       \* mutant: published requests are trusted
    /\ r \in inbox[i] /\ serving[i] = None
    /\ inbox' = [inbox EXCEPT ![i] = @ \ {r}]
    /\ serving' = IF Home[For[r]] = i /\ Pending(For[r]) THEN [serving EXCEPT ![i] = r] ELSE serving
    /\ UNCHANGED <<callVars, waiter, reqVars, ack>>
Receive(i, r) ==
    /\ r \in inbox[i] /\ serving[i] = None
    /\ inbox' = [inbox EXCEPT ![i] = @ \ {r}]
    /\ IF Home[For[r]] = i /\ Pending(For[r])
       THEN IF r \in Rightful THEN serving' = [serving EXCEPT ![i] = r] /\ UNCHANGED ack
                              ELSE Reply(r, "mismatch") /\ UNCHANGED serving
       ELSE UNCHANGED <<serving, ack>>
    /\ UNCHANGED <<callVars, waiter, reqVars>>
ServeThenLooks(i) ==            \* mutant: resolved is read after the delivery
    LET r == serving[i] IN
    /\ r # None
    /\ Delivered(For[r], r)
    /\ Reply(r, IF once'[For[r]] THEN "already" ELSE "ok")
    /\ serving' = [serving EXCEPT ![i] = None]
    /\ UNCHANGED <<callVars, reqVars, inbox>>
Serve(i) ==
    LET r == serving[i] IN
    /\ r # None
    /\ Delivered(For[r], r)
    /\ Reply(r, IF once[For[r]] THEN "already" ELSE "ok")
    /\ serving' = [serving EXCEPT ![i] = None]
    /\ UNCHANGED <<callVars, reqVars, inbox>>

(* A restart: the calls, the requests and the subscription of i are gone.    *)
Crash(i) ==
    /\ i \in Mortal /\ \E c \in Calls : Home[c] = i /\ Pending(c)
    /\ call' = [c \in Calls |-> IF Home[c] = i /\ Pending(c) THEN "over" ELSE call[c]]
    /\ outcome' = [c \in Calls |-> IF Home[c] = i /\ Pending(c) THEN "lost" ELSE outcome[c]]
    /\ req' = [r \in Requests |-> IF at[r] = i THEN "answered" ELSE req[r]]
    /\ answer' = [r \in Requests |-> IF at[r] = i /\ req[r] # "answered" THEN "error"
                                                                         ELSE answer[r]]
    /\ inbox' = [inbox EXCEPT ![i] = {}] /\ serving' = [serving EXCEPT ![i] = None]
    /\ UNCHANGED <<waiter, at, ack>>

Next ==
    \/ \E c \in Calls :
        \/ Register(c) \/ Announce(c) \/ AnnounceError(c)
        \/ Late(c) \/ LateDeliver(c) \/ Read(c) \/ Leave(c)
    \/ \E r \in Requests :
        \/ \E i \in Instances : Resolve(r, i) \/ Receive(i, r)
        \/ Deliver(r) \/ Publish(r) \/ Acknowledged(r) \/ AckTimeout(r)
    \/ \E i \in Instances : Serve(i) \/ Crash(i)

Spec == Init /\ [][Next]_vars

(* The goroutine of a call runs, its timer fires, its decision is read.      *)
FairSpec ==
    Spec /\ \A c \in Calls : WF_vars(Announce(c) \/ Late(c) \/ LateDeliver(c) \/ Read(c) \/ Leave(c))

-----------------------------------------------------------------------------
(* Who was told that the answer counts was told the truth: the call got that *)
(* answer and no other, however its timeout, a stop, or an answer that came  *)
(* through another process raced it (deliver, RequestAndWait, resolveAck).   *)
OkIsTaken ==
    \A r \in Requests : answer[r] = "ok" =>
        LET c == For[r] IN
        \/ outcome[c] \in {r} \union Fate
        \/ outcome[c] = None /\ chan[c] = r

(* Who was told to be too late was: another decision stands                  *)
(* (ErrAlreadyResolved).                                                     *)
AlreadyIsLost ==
    \A r \in Requests : answer[r] = "already" =>
        LET c == For[r] IN
        /\ r \notin {outcome[c], chan[c]}
        /\ outcome[c] # None \/ chan[c] # None

(* Nobody but the user who is asked decides about a call, and never about    *)
(* another one than meant (deliverLocal).                                    *)
OnlyTheAskedDecides ==
    \A c \in Calls : outcome[c] \in Requests => outcome[c] \in Rightful /\ For[outcome[c]] = c

(* The agent never waits for ever: "blocks until Resolve, timeout, or ctx    *)
(* cancellation" (RequestAndWait).                                           *)
WaitEnds == \A c \in Calls : call[c] = "registered" ~> call[c] = "over"
=============================================================================
