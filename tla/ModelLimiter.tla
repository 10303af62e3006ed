---------------------------- MODULE ModelLimiter ----------------------------
(***************************************************************************)
(* internal/models/limiter: the semaphore that caps the background calls   *)
(* to one model across processes. A Redis sorted set holds one member per  *)
(* slot, scored by the end of its lease; a heartbeat extends the lease     *)
(* while the call runs, and whoever asks for a slot prunes the leases that *)
(* have ended by its own clock. Every backend error lets the call through. *)
(*                                                                         *)
(* A call draws a fresh token, so the call itself is its member. A lease   *)
(* is kept as the time it has left by the slowest clock; reading the time  *)
(* and the command that uses it are one step.                              *)
(***************************************************************************)
EXTENDS Integers, FiniteSets

CONSTANTS Calls,     \* the background calls to one model
          Ttl,       \* ttl, in clock ticks
          Interval,  \* ttl / 3
          Patience,  \* the refresh of a punctual call takes at most this long
          Skew,      \* by how much the clock of each call's process is ahead
          MaxSkew,   \* bound on Skew
          Limits,    \* the limits an operator sets; 0 disables the limiter
          Punctual,  \* the calls whose refreshes are punctual
          Faulty     \* the calls whose process may die, whose commands may fail

\* A lease outlives a late refresh seen by the fastest clock.
ASSUME LimiterAssumption ==
    /\ IsFiniteSet(Calls)
    /\ Ttl \in Nat /\ Interval \in Nat /\ Patience \in Nat /\ MaxSkew \in Nat
    /\ 0 < Interval /\ Interval <= Patience /\ Patience + MaxSkew < Ttl
    /\ Skew \in [Calls -> 0 .. MaxSkew]
    /\ Limits \subseteq Nat
    /\ Punctual \subseteq Calls /\ Faulty \subseteq Calls

VARIABLES
    pc,       \* where each call is
    asked,    \* the limit a call read when it started: it polls with it
    slots,    \* the members of the sorted set
    left,     \* ticks to the end of each member's lease
    keyLeft,  \* ticks to the expiry of the set itself
    beat,     \* the heartbeat goroutine of each call
    age       \* ticks since the call's last refresh

setVars == <<slots, left, keyLeft>>
vars == <<pc, asked, setVars, beat, age>>

Running == {c \in Calls : pc[c] = "running"}

TypeOK ==
    /\ pc \in [Calls -> {"idle", "waiting", "running", "over"}]
    /\ asked \in [Calls -> Nat]
    /\ slots \subseteq Calls
    /\ left \in [Calls -> 0 .. Ttl + MaxSkew]
    /\ keyLeft \in 0 .. 2 * Ttl
    /\ slots # {} => keyLeft > 0
    /\ beat \in [Calls -> {"off", "resting", "woken"}]
    /\ age \in [Calls -> 0 .. Patience]

Init ==
    /\ pc = [c \in Calls |-> "idle"]
    /\ asked = [c \in Calls |-> 0]
    /\ slots = {} /\ keyLeft = 0
    /\ left = [c \in Calls |-> 0]
    /\ beat = [c \in Calls |-> "off"]
    /\ age = [c \in Calls |-> 0]

-----------------------------------------------------------------------------
(* What a command leaves of the set: the scores of what is no member, and    *)
(* the expiry of an empty set, are nothing.                                  *)
SetTo(members, lease, life) ==
    /\ slots' = members
    /\ left' = [c \in Calls |-> IF c \in members THEN lease[c] ELSE 0]
    /\ keyLeft' = IF members = {} THEN 0 ELSE life

(* GateNamedN: the model's own limit or the process-wide one, either of      *)
(* which an operator may change between two calls; without one, no slot.     *)
Start(c) ==
    /\ pc[c] = "idle"
    /\ \E limit \in Limits :
        /\ pc' = [pc EXCEPT ![c] = IF limit = 0 THEN "over" ELSE "waiting"]
        /\ asked' = [asked EXCEPT ![c] = limit]
    /\ UNCHANGED <<setVars, beat, age>>

(* acquireScript, by the clock of the caller: prune, count, admit. *)
Kept(c) == {m \in slots : left[m] > Skew[c]}
HasRoom(c) == Cardinality(Kept(c)) < asked[c]

(* Mutant: the lease gets the lifetime of the set. *)
AddMemberTwice(c) == SetTo(Kept(c) \union {c}, [left EXCEPT ![c] = 2 * Ttl + Skew[c]], 2 * Ttl)
AddMember(c) == SetTo(Kept(c) \union {c}, [left EXCEPT ![c] = Ttl + Skew[c]], 2 * Ttl)

(* Admitted: the heartbeat starts. *)
Admit(c) ==
    /\ pc[c] = "waiting" /\ HasRoom(c)
    /\ AddMember(c)
    /\ pc' = [pc EXCEPT ![c] = "running"]
    /\ beat' = [beat EXCEPT ![c] = "resting"]
    /\ age' = [age EXCEPT ![c] = 0]
    /\ UNCHANGED asked

(* No room: the pruning stays, and the caller polls again. *)
Refuse(c) ==
    /\ pc[c] = "waiting" /\ ~HasRoom(c)
    /\ SetTo(Kept(c), left, keyLeft)
    /\ UNCHANGED <<pc, asked, beat, age>>

(* The script fails, or only its answer is lost, or the caller's context     *)
(* ends: the call proceeds without a slot and without a heartbeat.           *)
FailOpen(c) ==
    /\ c \in Faulty /\ pc[c] = "waiting"
    /\ \/ UNCHANGED setVars
       \/ HasRoom(c) /\ AddMember(c)
    /\ pc' = [pc EXCEPT ![c] = "over"]
    /\ UNCHANGED <<asked, beat, age>>

(* release: close(stop) and ZREM, whose error is ignored. *)
Release(c) ==
    /\ pc[c] = "running"
    /\ SetTo(slots \ {c}, left, keyLeft)
    /\ pc' = [pc EXCEPT ![c] = "over"]
    /\ UNCHANGED <<asked, beat, age>>
ReleaseError(c) ==
    /\ c \in Faulty /\ pc[c] = "running"
    /\ pc' = [pc EXCEPT ![c] = "over"]
    /\ UNCHANGED <<asked, setVars, beat, age>>

(* The process dies: nobody refreshes and nobody releases. *)
Crash(c) ==
    /\ c \in Faulty /\ pc[c] = "running"
    /\ pc' = [pc EXCEPT ![c] = "over"]
    /\ beat' = [beat EXCEPT ![c] = "off"]
    /\ age' = [age EXCEPT ![c] = 0]
    /\ UNCHANGED <<asked, setVars>>

-----------------------------------------------------------------------------
(* The heartbeat. When stop is closed and the ticker has fired, select takes *)
(* either; a refresh that was under way lands after the release.             *)
Wake(c) ==
    /\ beat[c] = "resting" /\ age[c] >= Interval
    /\ beat' = [beat EXCEPT ![c] = "woken"]
    /\ UNCHANGED <<pc, asked, setVars, age>>

(* Mutant: release leaves the stop channel open. *)
StopForgotten(c) == FALSE /\ UNCHANGED vars
Stop(c) ==
    /\ beat[c] = "resting" /\ pc[c] # "running"
    /\ beat' = [beat EXCEPT ![c] = "off"]
    /\ age' = [age EXCEPT ![c] = 0]
    /\ UNCHANGED <<pc, asked, setVars>>

(* Mutant: the heartbeat refreshes its member only. *)
RefreshMember(c) ==
    /\ beat[c] = "woken"
    /\ SetTo(slots \union {c}, [left EXCEPT ![c] = Ttl + Skew[c]],
             IF slots = {} THEN 2 * Ttl ELSE keyLeft)
    /\ beat' = [beat EXCEPT ![c] = "resting"]
    /\ age' = [age EXCEPT ![c] = 0]
    /\ UNCHANGED <<pc, asked>>

(* ZADD, and PEXPIRE: the set outlives its newest lease. *)
Refresh(c) ==
    /\ beat[c] = "woken"
    /\ SetTo(slots \union {c}, [left EXCEPT ![c] = Ttl + Skew[c]], 2 * Ttl)
    /\ beat' = [beat EXCEPT ![c] = "resting"]
    /\ age' = [age EXCEPT ![c] = 0]
    /\ UNCHANGED <<pc, asked>>
(* The commands fail: the error is dropped. *)
RefreshError(c) ==
    /\ c \in Faulty \ Punctual /\ beat[c] = "woken"
    /\ beat' = [beat EXCEPT ![c] = "resting"]
    /\ age' = [age EXCEPT ![c] = 0]
    /\ UNCHANGED <<pc, asked, setVars>>

(* One tick: leases run down, and a set whose expiry comes is gone. The      *)
(* refresh of a punctual call has landed before Patience has passed.         *)
Older(c) == IF beat[c] # "off" /\ age[c] < Patience THEN age[c] + 1 ELSE age[c]
Tick ==
    /\ \A c \in Punctual \intersect Running : age[c] < Patience
    /\ SetTo(IF keyLeft = 1 THEN {} ELSE slots,
             [c \in Calls |-> IF left[c] = 0 THEN 0 ELSE left[c] - 1], keyLeft - 1)
    /\ age' = [c \in Calls |-> Older(c)]
    /\ UNCHANGED <<pc, asked, beat>>

Next ==
    \/ Tick
    \/ \E c \in Calls :
        \/ Start(c) \/ Admit(c) \/ Refuse(c) \/ FailOpen(c)
        \/ Release(c) \/ ReleaseError(c) \/ Crash(c)
        \/ Wake(c) \/ Stop(c) \/ Refresh(c) \/ RefreshError(c)

Spec == Init /\ [][Next]_vars

(* Time passes; a waiting caller polls; a provider call ends; goroutines     *)
(* run, and a select with two ready cases does not take one of them for ever.*)
FairSpec ==
    /\ Spec /\ WF_vars(Tick)
    /\ \A c \in Calls :
        /\ WF_vars(Admit(c) \/ Refuse(c)) /\ WF_vars(Release(c))
        /\ WF_vars(Wake(c)) /\ WF_vars(Refresh(c))
        /\ SF_vars(Stop(c))

-----------------------------------------------------------------------------
(* However the limit was retuned and whatever died, among any calls at work  *)
(* whose refreshes are punctual one was admitted under a limit that they all *)
(* fit (acquireScript, the heartbeat's refresh of lease and key).            *)
Fits(S) == S # {} => \E c \in S : Cardinality(S) <= asked[c]
WithinLimit == \A S \in SUBSET (Running \intersect Punctual) : Fits(S)

(* A call that waits gets through: the slots of dead processes, failed       *)
(* releases, lost answers and late refreshes come free by themselves         *)
(* (Acquire's poll, the pruning).                                            *)
NobodyWaitsForever == \A c \in Calls : pc[c] = "waiting" ~> pc[c] # "waiting"

=============================================================================
