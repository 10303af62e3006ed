---------------------------- MODULE TokenLock ----------------------------
(***************************************************************************)
(* internal/common/redislock: WithRenewableLock, a Redis key taken with    *)
(* SET NX under a random owner token, renewed by a background loop while   *)
(* the callback runs, and deleted by a compare-and-delete script.          *)
(*                                                                         *)
(* A token is drawn afresh for every call, so the value a client left      *)
(* behind (a failed release, a crash) equals no later token: the model     *)
(* keeps the client itself as the token of its current call and turns a    *)
(* value nobody holds any more into Orphan.                                *)
(***************************************************************************)
EXTENDS Integers

CONSTANTS Clients,        \* the goroutines calling WithRenewableLock
          None,           \* the key does not exist
          Orphan,         \* the key holds the token of a call that is over
          Lease,          \* lease, in clock ticks
          RenewInterval,  \* renewInterval, in clock ticks
          Punctual        \* the clients whose due renewals run before the clock moves on

\* WithRenewableLock refuses any other interval; the two markers are no clients.
ASSUME LockAssumption ==
    /\ Lease \in Nat /\ RenewInterval \in Nat
    /\ 0 < RenewInterval /\ RenewInterval < Lease
    /\ None \notin Clients /\ Orphan \notin Clients /\ None # Orphan
    /\ Punctual \subseteq Clients

VARIABLES
    owner,      \* value of the Redis key
    ttl,        \* remaining lifetime of the key, 0 when it does not exist
    pc,         \* where each call is
    renewal,    \* the renewal loop: "off", "running", "lost"
    due,        \* ticks until the loop's ticker fires
    callerCtx,  \* TRUE: the caller's context ended, and fn's context with it
    ownCtx,     \* TRUE: ownership was lost: OwnershipContext and fn's context ended
    result,     \* what the last finished call returned
    kept        \* history: the key carried this call's token since it acquired it

vars == <<owner, ttl, pc, renewal, due, callerCtx, ownCtx, result, kept>>
callVars == <<renewal, due, callerCtx, ownCtx, result>>

PCs == {"idle", "waiting", "critical", "stopping", "releasing"}
Held == {"critical", "stopping", "releasing"}

TypeOK ==
    /\ owner \in Clients \cup {None, Orphan}
    /\ ttl \in 0..Lease
    /\ pc \in [Clients -> PCs]
    /\ renewal \in [Clients -> {"off", "running", "lost"}]
    /\ due \in [Clients -> 0..RenewInterval]
    /\ callerCtx \in [Clients -> BOOLEAN] /\ ownCtx \in [Clients -> BOOLEAN]
    /\ result \in [Clients -> {"none", "nil", "error"}]
    /\ kept \in [Clients -> BOOLEAN]

Init ==
    /\ owner = None /\ ttl = 0
    /\ pc = [c \in Clients |-> "idle"]
    /\ renewal = [c \in Clients |-> "off"]
    /\ due = [c \in Clients |-> 0]
    /\ callerCtx = [c \in Clients |-> FALSE]
    /\ ownCtx = [c \in Clients |-> FALSE]
    /\ result = [c \in Clients |-> "none"]
    /\ kept = [c \in Clients |-> FALSE]

(* History: c's token vanished or was replaced while c was in its call. *)
Recorded(newOwner) ==
    [c \in Clients |-> kept[c] /\ (pc[c] \in Held => newOwner = c)]

(* Every change of the key goes through here, so that kept follows it. *)
SetKey(newOwner, newTtl) ==
    /\ owner' = newOwner /\ ttl' = newTtl
    /\ kept' = Recorded(newOwner)

KeyUnchanged == UNCHANGED <<owner, ttl, kept>>
----------------------------------------------------------------------------
Call(c) ==
    /\ pc[c] = "idle"
    /\ pc' = [pc EXCEPT ![c] = "waiting"]
    /\ result' = [result EXCEPT ![c] = "none"]
    /\ UNCHANGED <<renewal, due, callerCtx, ownCtx>> /\ KeyUnchanged

(* SET NX succeeds; fn starts and the renewal loop is spawned. *)
TryAcquire(c) ==
    /\ pc[c] = "waiting" /\ owner = None
    /\ owner' = c /\ ttl' = Lease
    /\ kept' = [Recorded(c) EXCEPT ![c] = TRUE]
    /\ pc' = [pc EXCEPT ![c] = "critical"]
    /\ renewal' = [renewal EXCEPT ![c] = "running"]
    /\ due' = [due EXCEPT ![c] = RenewInterval]
    /\ callerCtx' = [callerCtx EXCEPT ![c] = FALSE]
    /\ ownCtx' = [ownCtx EXCEPT ![c] = FALSE]
    /\ UNCHANGED result

(* SET NX returns an error, which ends the call; Redis may still have run it. *)
AcquireError(c) ==
    /\ pc[c] = "waiting"
    /\ pc' = [pc EXCEPT ![c] = "idle"]
    /\ result' = [result EXCEPT ![c] = "error"]
    /\ \/ KeyUnchanged
       \/ owner = None /\ SetKey(Orphan, Lease)
    /\ UNCHANGED <<renewal, due, callerCtx, ownCtx>>

(* The caller's context ends while Acquire sleeps between two attempts. *)
AcquireCancelled(c) ==
    /\ pc[c] = "waiting"
    /\ pc' = [pc EXCEPT ![c] = "idle"]
    /\ result' = [result EXCEPT ![c] = "error"]
    /\ UNCHANGED <<renewal, due, callerCtx, ownCtx>> /\ KeyUnchanged

(* The caller's context ends while the call holds the lock: fn's context     *)
(* follows it, the renewal and the ownership context do not.                 *)
CallerCancelled(c) ==
    /\ pc[c] \in Held /\ ~callerCtx[c]
    /\ callerCtx' = [callerCtx EXCEPT ![c] = TRUE]
    /\ UNCHANGED <<pc, renewal, due, ownCtx, result>> /\ KeyUnchanged
----------------------------------------------------------------------------
RenewDue(c) == pc[c] \in {"critical", "stopping"} /\ renewal[c] = "running" /\ due[c] = 0

LoseOwnership(c) ==
    /\ renewal' = [renewal EXCEPT ![c] = "lost"]
    /\ ownCtx' = [ownCtx EXCEPT ![c] = TRUE]
    /\ UNCHANGED <<pc, due, callerCtx, result>>

(* renewScript: the key still carries our token, its lifetime restarts. *)
RenewOk(c) ==
    /\ RenewDue(c) /\ owner = c
    /\ SetKey(owner, Lease)
    /\ due' = [due EXCEPT ![c] = RenewInterval]
    /\ UNCHANGED <<pc, renewal, callerCtx, ownCtx, result>>

RenewDenied(c) ==
    /\ RenewDue(c) /\ owner # c
    /\ LoseOwnership(c) /\ KeyUnchanged

(* Mutant: a failed renewal is only logged. *)
RenewErrorIgnored(c) ==
    /\ RenewDue(c)
    /\ due' = [due EXCEPT ![c] = RenewInterval]
    /\ UNCHANGED <<pc, renewal, callerCtx, ownCtx, result>> /\ KeyUnchanged

(* The script fails or its answer is lost; it may have been executed. *)
RenewError(c) ==
    /\ RenewDue(c)
    /\ LoseOwnership(c)
    /\ \/ KeyUnchanged
       \/ owner = c /\ SetKey(owner, Lease)
----------------------------------------------------------------------------
(* fn returns; the deferred function stops the loop and waits for it. *)
FnReturns(c) ==
    /\ pc[c] = "critical"
    /\ pc' = [pc EXCEPT ![c] = "stopping"]
    /\ UNCHANGED callVars /\ KeyUnchanged

StopRenewal(c) ==
    /\ pc[c] = "stopping"
    /\ pc' = [pc EXCEPT ![c] = "releasing"]
    /\ renewal' = [renewal EXCEPT ![c] = IF @ = "running" THEN "off" ELSE @]
    /\ UNCHANGED <<due, callerCtx, ownCtx, result>> /\ KeyUnchanged

Return(c, outcome) ==
    /\ pc' = [pc EXCEPT ![c] = "idle"]
    /\ renewal' = [renewal EXCEPT ![c] = "off"]
    /\ due' = [due EXCEPT ![c] = 0]
    /\ result' = [result EXCEPT ![c] = outcome]
    /\ UNCHANGED <<callerCtx, ownCtx>>

(* releaseScript found our token: the call reports what fn, the loop and     *)
(* the caller's context say.                                                 *)
ReleaseOk(c) ==
    /\ pc[c] = "releasing" /\ owner = c
    /\ owner' = None /\ ttl' = 0
    /\ kept' = [Recorded(None) EXCEPT ![c] = kept[c]]
    /\ \/ renewal[c] # "lost" /\ ~callerCtx[c] /\ Return(c, "nil")
       \/ Return(c, "error")

(* Mutant: the answer of the release script is not looked at. *)
ReleaseNotChecked(c) ==
    /\ pc[c] = "releasing" /\ owner # c
    /\ Return(c, IF renewal[c] = "lost" THEN "error" ELSE "nil") /\ KeyUnchanged

(* Mutant: a plain DEL instead of the compare-and-delete script. *)
ReleaseUnconditional(c) ==
    /\ pc[c] = "releasing" /\ owner # c
    /\ Return(c, "error") /\ SetKey(None, 0)

(* The key is not ours any more: ErrLockOwnershipLost, unless the loop       *)
(* already reported it.                                                      *)
ReleaseNotOwner(c) ==
    /\ pc[c] = "releasing" /\ owner # c
    /\ Return(c, "error") /\ KeyUnchanged

ReleaseError(c) ==
    /\ pc[c] = "releasing"
    /\ Return(c, "error")
    /\ \/ owner = c /\ SetKey(Orphan, ttl)
       \/ owner = c /\ SetKey(None, 0)
       \/ owner # c /\ KeyUnchanged

(* The process dies anywhere in the call: only the lease frees the key. *)
Crash(c) ==
    /\ pc[c] # "idle"
    /\ Return(c, "none")
    /\ IF owner = c THEN SetKey(Orphan, ttl) ELSE KeyUnchanged

(* Mutant: SET NX without an expiry. *)
TickNoExpiry ==
    /\ \A c \in Punctual : ~RenewDue(c)
    /\ IF ttl > 1 THEN SetKey(owner, ttl - 1) ELSE KeyUnchanged
    /\ due' = [c \in Clients |-> IF due[c] > 0 THEN due[c] - 1 ELSE 0]
    /\ UNCHANGED <<pc, renewal, callerCtx, ownCtx, result>>

(* Mutant: the key outlives its lease by a tick. *)
TickLate ==
    /\ \A c \in Punctual : ~RenewDue(c)
    /\ IF ttl > 0 THEN SetKey(owner, ttl - 1) ELSE SetKey(None, -1)
    /\ due' = [c \in Clients |-> IF due[c] > 0 THEN due[c] - 1 ELSE 0]
    /\ UNCHANGED <<pc, renewal, callerCtx, ownCtx, result>>

Tick ==
    /\ \A c \in Punctual : ~RenewDue(c)
    /\ IF ttl > 1 THEN SetKey(owner, ttl - 1) ELSE SetKey(None, 0)
    /\ due' = [c \in Clients |-> IF due[c] > 0 THEN due[c] - 1 ELSE 0]
    /\ UNCHANGED <<pc, renewal, callerCtx, ownCtx, result>>

ClientStep(c) ==
    \/ Call(c) \/ TryAcquire(c) \/ AcquireError(c) \/ AcquireCancelled(c)
    \/ CallerCancelled(c) \/ RenewOk(c) \/ RenewDenied(c) \/ RenewError(c)
    \/ FnReturns(c) \/ StopRenewal(c)
    \/ ReleaseOk(c) \/ ReleaseNotOwner(c) \/ ReleaseError(c) \/ Crash(c)

Next == Tick \/ \E c \in Clients : ClientStep(c)

Spec == Init /\ [][Next]_vars
----------------------------------------------------------------------------
(* "Callers must treat loss of ownership as loss of exclusive access": when  *)
(* renewals run on time, fn's ownership context is cancelled before the key  *)
(* can pass to another caller, so a callback that still sees a live context  *)
(* really is the owner.                                                      *)
LiveContextOwns ==
    \A c \in Punctual : pc[c] = "critical" /\ ~ownCtx[c] => owner = c

(* Whatever the clock and the network do, a call that returns nil had the    *)
(* key during its whole callback: a lapse that renewal did not notice is     *)
(* still caught by the compare-and-delete of Release.                        *)
NilMeansExclusive ==
    \A c \in Clients : result[c] = "nil" => kept[c]

(* A client's key disappears only by its own release or its own crash, or at *)
(* the end of its lease: no late release or renewal of somebody else removes *)
(* it or takes it over.                                                      *)
OthersNeverRemove ==
    [][\A c \in Clients :
         owner = c /\ owner' # c => \/ pc[c] # "idle" /\ pc'[c] = "idle"
                                    \/ ttl = 1 /\ owner' = None]_vars

(* The clock advances, callbacks return and release, and a caller that finds *)
(* the key free again and again (it retries every 25 to 75 ms) gets it once. *)
Fairness ==
    /\ WF_vars(Tick)
    /\ \A c \in Clients :
        /\ WF_vars(FnReturns(c)) /\ WF_vars(StopRenewal(c))
        /\ WF_vars(ReleaseOk(c) \/ ReleaseNotOwner(c))
        /\ SF_vars(TryAcquire(c))

FairSpec == Spec /\ Fairness

(* A key whose owner is gone does not block the others for ever: somebody    *)
(* waiting means somebody gets in, or gives up.                              *)
NoPermanentLock ==
    (\E c \in Clients : pc[c] = "waiting") ~>
        (\E c \in Clients : pc[c] = "critical") \/ (\A c \in Clients : pc[c] # "waiting")
============================================================================
