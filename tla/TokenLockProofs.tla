------------------------- MODULE TokenLockProofs -------------------------
(* Proofs about TokenLock for every set of clients, lease and interval. *)
EXTENDS TokenLock, TLAPS

(* A call that still owns the key has owned it since it acquired it, and a   *)
(* call that reported success is over and had it to the end.                 *)
ExclusiveInv ==
    \A c \in Clients :
        /\ pc[c] \in Held /\ owner = c => kept[c]
        /\ result[c] = "nil" => pc[c] = "idle" /\ kept[c]

(* With punctual renewals the key of a running loop is this call's, and it   *)
(* outlives the next firing of the ticker; a loop that is not running in fn  *)
(* has already cancelled the ownership context.                              *)
RenewalInv ==
    \A c \in Punctual :
        /\ pc[c] \in {"critical", "stopping"} /\ renewal[c] = "running"
             => owner = c /\ ttl > due[c]
        /\ pc[c] = "critical" /\ renewal[c] # "running" => ownCtx[c]

(* The history is a Boolean per client, whatever the key becomes. *)
LEMMA RecordedType ==
  ASSUME TypeOK, NEW o PROVE Recorded(o) \in [Clients -> BOOLEAN]
<1>1. ASSUME NEW c \in Clients
      PROVE  (kept[c] /\ (pc[c] \in Held => o = c)) \in BOOLEAN
  OBVIOUS
<1> QED
  BY <1>1 DEF Recorded

(* The types of the variables are preserved by every step of the lock. *)
THEOREM TypeCorrect == Spec => []TypeOK
<1>1. Init => TypeOK
  BY LockAssumption DEF Init, TypeOK, PCs
<1>2. TypeOK /\ [Next]_vars => TypeOK'
  <2> SUFFICES ASSUME TypeOK, [Next]_vars PROVE TypeOK'
    OBVIOUS
  <2>0. \A o : Recorded(o) \in [Clients -> BOOLEAN]
    BY RecordedType
  <2> USE LockAssumption DEF TypeOK, PCs, Held, SetKey, KeyUnchanged
  <2>1. CASE Tick
    BY <2>0, <2>1 DEF Tick
  <2>2. ASSUME NEW c \in Clients, ClientStep(c) PROVE TypeOK'
    <3>1. CASE Call(c)
      BY <3>1 DEF Call
    <3>2. CASE TryAcquire(c)
      BY <2>0, <3>2 DEF TryAcquire
    <3>3. CASE AcquireError(c) \/ AcquireCancelled(c)
      BY <2>0, <3>3 DEF AcquireError, AcquireCancelled
    <3>4. CASE CallerCancelled(c)
      BY <3>4 DEF CallerCancelled
    <3>5. CASE RenewOk(c)
      BY <2>0, <3>5 DEF RenewOk, RenewDue
    <3>6. CASE RenewDenied(c) \/ RenewError(c)
      <4>1. /\ owner' \in Clients \cup {None, Orphan} /\ ttl' \in 0..Lease
            /\ kept' \in [Clients -> BOOLEAN]
        BY <2>0, <3>6 DEF RenewDenied, RenewError
      <4>2. LoseOwnership(c)
        BY <3>6 DEF RenewDenied, RenewError
      <4>3. renewal' \in [Clients -> {"off", "running", "lost"}]
        BY <4>2 DEF LoseOwnership
      <4>4. ownCtx' \in [Clients -> BOOLEAN]
        BY <4>2 DEF LoseOwnership
      <4> QED
        BY <4>1, <4>2, <4>3, <4>4 DEF LoseOwnership
    <3>7. CASE FnReturns(c) \/ StopRenewal(c)
      BY <3>7 DEF FnReturns, StopRenewal, callVars
    <3>8. CASE ReleaseOk(c)
      BY <2>0, <3>8 DEF ReleaseOk, Return
    <3>9. CASE ReleaseNotOwner(c) \/ ReleaseError(c) \/ Crash(c)
      BY <2>0, <3>9 DEF ReleaseNotOwner, ReleaseError, Crash, Return
    <3> QED
      BY <2>2, <3>1, <3>2, <3>3, <3>4, <3>5, <3>6, <3>7, <3>8, <3>9 DEF ClientStep
  <2>3. CASE UNCHANGED vars
    BY <2>3 DEF vars
  <2> QED
    BY <2>1, <2>2, <2>3 DEF Next
<1> QED
  BY <1>1, <1>2, PTL DEF Spec

(* Each step of a client, and of the clock, keeps ExclusiveInv. *)
LEMMA ExclusiveStep ==
  ASSUME TypeOK, ExclusiveInv, [Next]_vars PROVE ExclusiveInv'
<1> USE LockAssumption DEF TypeOK, Held, SetKey, Recorded, KeyUnchanged
<1>1. CASE Tick
  BY <1>1 DEF Tick, ExclusiveInv
<1>2. ASSUME NEW c \in Clients, ClientStep(c) PROVE ExclusiveInv'
  <2>1. CASE Call(c)
    BY <2>1 DEF Call, ExclusiveInv
  <2>2. CASE TryAcquire(c)
    BY <2>2 DEF TryAcquire, ExclusiveInv
  <2>3. CASE AcquireError(c) \/ AcquireCancelled(c)
    BY <2>3 DEF AcquireError, AcquireCancelled, ExclusiveInv
  <2>4. CASE CallerCancelled(c)
    BY <2>4 DEF CallerCancelled, ExclusiveInv
  <2>5. CASE RenewOk(c)
    BY <2>5 DEF RenewOk, ExclusiveInv
  <2>6. CASE RenewDenied(c) \/ RenewError(c)
    BY <2>6 DEF RenewDenied, RenewError, LoseOwnership, ExclusiveInv
  <2>7. CASE FnReturns(c) \/ StopRenewal(c)
    BY <2>7 DEF FnReturns, StopRenewal, callVars, ExclusiveInv
  <2>8. CASE ReleaseOk(c)
    BY <2>8 DEF ReleaseOk, Return, ExclusiveInv
  <2>9. CASE ReleaseNotOwner(c) \/ ReleaseError(c) \/ Crash(c)
    BY <2>9 DEF ReleaseNotOwner, ReleaseError, Crash, Return, ExclusiveInv
  <2> QED
    BY <1>2, <2>1, <2>2, <2>3, <2>4, <2>5, <2>6, <2>7, <2>8, <2>9 DEF ClientStep
<1>3. CASE UNCHANGED vars
  BY <1>3 DEF vars, ExclusiveInv
<1> QED
  BY <1>1, <1>2, <1>3 DEF Next

(* A WithRenewableLock call that returns nil kept the key through its whole  *)
(* callback, for any pace of the clock and any Redis error.                  *)
THEOREM NilIsExclusive == Spec => []NilMeansExclusive
<1>1. Init => ExclusiveInv
  BY DEF Init, ExclusiveInv, Held
<1>2. TypeOK /\ ExclusiveInv /\ [Next]_vars => ExclusiveInv'
  BY ExclusiveStep
<1>3. ExclusiveInv => NilMeansExclusive
  BY DEF ExclusiveInv, NilMeansExclusive
<1> QED
  BY <1>1, <1>2, <1>3, TypeCorrect, PTL DEF Spec

(* Each step keeps RenewalInv: the ticker always fires before the lease ends. *)
LEMMA RenewalStep ==
  ASSUME TypeOK, RenewalInv, [Next]_vars PROVE RenewalInv'
<1> USE LockAssumption DEF TypeOK, Held, SetKey, Recorded, KeyUnchanged
<1>1. CASE Tick
  BY <1>1 DEF Tick, RenewDue, RenewalInv
<1>2. ASSUME NEW c \in Clients, ClientStep(c) PROVE RenewalInv'
  <2>1. CASE Call(c)
    BY <2>1 DEF Call, RenewalInv
  <2>2. CASE TryAcquire(c)
    BY <2>2 DEF TryAcquire, RenewalInv
  <2>3. CASE AcquireError(c) \/ AcquireCancelled(c)
    BY <2>3 DEF AcquireError, AcquireCancelled, RenewalInv
  <2>4. CASE CallerCancelled(c)
    BY <2>4 DEF CallerCancelled, RenewalInv
  <2>5. CASE RenewOk(c)
    BY <2>5 DEF RenewOk, RenewDue, RenewalInv
  <2>6. CASE RenewDenied(c) \/ RenewError(c)
    BY <2>6 DEF RenewDenied, RenewError, RenewDue, LoseOwnership, RenewalInv
  <2>7. CASE FnReturns(c) \/ StopRenewal(c)
    BY <2>7 DEF FnReturns, StopRenewal, callVars, RenewalInv
  <2>8. CASE ReleaseOk(c)
    BY <2>8 DEF ReleaseOk, Return, RenewalInv
  <2>9. CASE ReleaseNotOwner(c) \/ ReleaseError(c) \/ Crash(c)
    BY <2>9 DEF ReleaseNotOwner, ReleaseError, Crash, Return, RenewalInv
  <2> QED
    BY <1>2, <2>1, <2>2, <2>3, <2>4, <2>5, <2>6, <2>7, <2>8, <2>9 DEF ClientStep
<1>3. CASE UNCHANGED vars
  BY <1>3 DEF vars, RenewalInv
<1> QED
  BY <1>1, <1>2, <1>3 DEF Next

(* With punctual renewals, a callback whose ownership context is live owns   *)
(* the key.                                                                  *)
THEOREM LiveContextIsOwner == Spec => []LiveContextOwns
<1>1. Init => RenewalInv
  BY LockAssumption DEF Init, RenewalInv
<1>2. TypeOK /\ RenewalInv /\ [Next]_vars => RenewalInv'
  BY RenewalStep
<1>3. RenewalInv => LiveContextOwns
  BY DEF RenewalInv, LiveContextOwns
<1> QED
  BY <1>1, <1>2, <1>3, TypeCorrect, PTL DEF Spec
----------------------------------------------------------------------------
(* A key that exists has some of its lease left. *)
KeyHasLease == owner # None => ttl > 0

LEMMA KeyHasLeaseStep ==
  ASSUME TypeOK, KeyHasLease, [Next]_vars PROVE KeyHasLease'
<1> USE LockAssumption DEF TypeOK, SetKey, KeyUnchanged, KeyHasLease
<1>1. CASE Tick
  BY <1>1 DEF Tick
<1>2. ASSUME NEW c \in Clients, ClientStep(c) PROVE KeyHasLease'
  <2>1. CASE Call(c) \/ AcquireCancelled(c) \/ CallerCancelled(c)
    BY <2>1 DEF Call, AcquireCancelled, CallerCancelled
  <2>2. CASE TryAcquire(c) \/ AcquireError(c)
    BY <2>2 DEF TryAcquire, AcquireError
  <2>3. CASE RenewOk(c) \/ RenewDenied(c) \/ RenewError(c)
    BY <2>3 DEF RenewOk, RenewDenied, RenewError
  <2>4. CASE FnReturns(c) \/ StopRenewal(c)
    BY <2>4 DEF FnReturns, StopRenewal
  <2>5. CASE ReleaseOk(c) \/ ReleaseNotOwner(c)
    BY <2>5 DEF ReleaseOk, ReleaseNotOwner
  <2>6. CASE ReleaseError(c) \/ Crash(c)
    BY <2>6 DEF ReleaseError, Crash
  <2> QED
    BY <1>2, <2>1, <2>2, <2>3, <2>4, <2>5, <2>6 DEF ClientStep
<1>3. CASE UNCHANGED vars
  BY <1>3 DEF vars
<1> QED
  BY <1>1, <1>2, <1>3 DEF Next

(* Why a key that carried c's token carries it no longer. *)
KeyGoesFor(c) ==
    owner = c /\ owner' # c => (pc[c] # "idle" /\ pc'[c] = "idle") \/ (ttl = 1 /\ owner' = None)

(* A step of the client d, whoever the owner is. *)
LEMMA OthersKeepTheKey ==
  ASSUME TypeOK, NEW c \in Clients, NEW d \in Clients, ClientStep(d) PROVE KeyGoesFor(c)
<1> USE LockAssumption DEF TypeOK, SetKey, KeyUnchanged, KeyGoesFor
<1>1. CASE Call(d) \/ AcquireCancelled(d) \/ CallerCancelled(d)
  BY <1>1 DEF Call, AcquireCancelled, CallerCancelled
<1>2. CASE TryAcquire(d) \/ AcquireError(d)
  BY <1>2 DEF TryAcquire, AcquireError
<1>3. CASE RenewOk(d) \/ RenewDenied(d) \/ RenewError(d)
  BY <1>3 DEF RenewOk, RenewDenied, RenewError
<1>4. CASE FnReturns(d) \/ StopRenewal(d)
  BY <1>4 DEF FnReturns, StopRenewal
<1>5. CASE ReleaseOk(d) \/ ReleaseNotOwner(d)
  BY <1>5 DEF ReleaseOk, ReleaseNotOwner, Return
<1>6. CASE ReleaseError(d) \/ Crash(d)
  BY <1>6 DEF ReleaseError, Crash, Return
<1> QED
  BY <1>1, <1>2, <1>3, <1>4, <1>5, <1>6 DEF ClientStep

(* A key goes away by its own caller's release or crash, or at the end of    *)
(* its lease: the compare-and-delete of Release and the compare of the       *)
(* renewal script never touch another caller's key.                          *)
THEOREM KeyIsNeverTaken == Spec => OthersNeverRemove
<1>1. Init => KeyHasLease
  BY DEF Init, KeyHasLease
<1>2. TypeOK /\ KeyHasLease /\ [Next]_vars => KeyHasLease'
  BY KeyHasLeaseStep
<1>3. TypeOK /\ KeyHasLease /\ [Next]_vars => [\A c \in Clients : KeyGoesFor(c)]_vars
  <2> SUFFICES ASSUME TypeOK, KeyHasLease, [Next]_vars, NEW c \in Clients
               PROVE  KeyGoesFor(c) \/ UNCHANGED vars
    OBVIOUS
  <2>1. CASE Tick
    BY <2>1, LockAssumption DEF Tick, TypeOK, KeyHasLease, KeyGoesFor, SetKey, KeyUnchanged
  <2>2. CASE \E d \in Clients : ClientStep(d)
    BY <2>2, OthersKeepTheKey
  <2> QED
    BY <2>1, <2>2 DEF Next
<1>4. [\A c \in Clients : KeyGoesFor(c)]_vars
      <=> [\A c \in Clients :
             owner = c /\ owner' # c => \/ pc[c] # "idle" /\ pc'[c] = "idle"
                                        \/ ttl = 1 /\ owner' = None]_vars
  BY DEF KeyGoesFor
<1> QED
  BY <1>1, <1>2, <1>3, <1>4, TypeCorrect, PTL DEF Spec, OthersNeverRemove
============================================================================
