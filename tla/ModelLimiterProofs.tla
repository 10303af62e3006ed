------------------------- MODULE ModelLimiterProofs -------------------------
(***************************************************************************)
(* Proofs about ModelLimiter, for any calls, clocks, limits and faults.    *)
(* What a limit counts is the sorted set; that the set holds every call at *)
(* work is a matter of time: a punctual call's lease outlives, by every    *)
(* process's clock, the wait for its next refresh.                         *)
(***************************************************************************)
EXTENDS ModelLimiter, FiniteSetTheorems, TLAPS

AtWork == Running \intersect Punctual

(* A punctual call at work is a member, and how long it stays one. *)
Leased ==
    \A c \in AtWork :
        /\ c \in slots /\ beat[c] # "off"
        /\ left[c] >= Ttl + Skew[c] - age[c]
        /\ keyLeft >= 2 * Ttl - age[c]
AskedKnown == \A c \in Calls : pc[c] \in {"waiting", "running"} => asked[c] \in Limits

IInv == TypeOK /\ Leased /\ AskedKnown /\ WithinLimit

(* No clock sees the lease of a punctual call at work ended: whoever prunes keeps it. *)
LEMMA AtWorkKept ==
    ASSUME LimiterAssumption, TypeOK, Leased, NEW c \in Calls
    PROVE  AtWork \subseteq Kept(c)
  <1> SUFFICES ASSUME NEW m \in AtWork PROVE m \in Kept(c)
    OBVIOUS
  <1>1. m \in Calls /\ m \in slots /\ left[m] >= Ttl + Skew[m] - age[m]
    BY DEF AtWork, Running, Leased
  <1>2. /\ left[m] \in Int /\ Skew[m] \in 0 .. MaxSkew /\ Skew[c] \in 0 .. MaxSkew /\ age[m] \in 0 .. Patience
        /\ Ttl \in Nat /\ Patience \in Nat /\ MaxSkew \in Nat /\ Patience + MaxSkew < Ttl
    BY <1>1 DEF TypeOK, LimiterAssumption
  <1>3. left[m] > Skew[c]
    BY <1>1, <1>2
  <1> QED BY <1>1, <1>3 DEF Kept

(* What a command leaves of the set is well-typed. *)
LEMMA SetToType ==
    ASSUME LimiterAssumption, NEW members \in SUBSET Calls,
           NEW lease \in [Calls -> 0 .. Ttl + MaxSkew], NEW life \in Int,
           life <= 2 * Ttl, members # {} => life > 0, SetTo(members, lease, life)
    PROVE  /\ slots' \subseteq Calls
           /\ left' \in [Calls -> 0 .. Ttl + MaxSkew]
           /\ keyLeft' \in 0 .. 2 * Ttl
           /\ slots' # {} => keyLeft' > 0
  BY DEF SetTo, LimiterAssumption

LEMMA InitIInv == ASSUME LimiterAssumption, Init PROVE IInv
  <1>1. TypeOK
    BY DEF LimiterAssumption, Init, TypeOK
  <1>2. AtWork = {}
    BY DEF Init, AtWork, Running
  <1>3. WithinLimit
    BY <1>2 DEF WithinLimit, Fits, AtWork
  <1>4. AskedKnown
    BY DEF Init, AskedKnown
  <1> QED BY <1>1, <1>2, <1>3, <1>4 DEF IInv, Leased

LEMMA TypeStep == ASSUME LimiterAssumption, IInv, [Next]_vars PROVE TypeOK'
  <1> USE DEF TypeOK
  <1>1. CASE UNCHANGED vars
    BY <1>1 DEF IInv, vars, setVars
  <1>2. CASE Tick
    <2> DEFINE members == IF keyLeft = 1 THEN {} ELSE slots
               lease == [c \in Calls |-> IF left[c] = 0 THEN 0 ELSE left[c] - 1]
    <2>1. members \in SUBSET Calls /\ lease \in [Calls -> 0 .. Ttl + MaxSkew]
      BY DEF IInv, LimiterAssumption
    <2>2. keyLeft - 1 \in Int /\ keyLeft - 1 <= 2 * Ttl /\ (members # {} => keyLeft - 1 > 0)
      BY DEF IInv, LimiterAssumption
    <2>3. SetTo(members, lease, keyLeft - 1)
      BY <1>2 DEF Tick
    <2>4. age' \in [Calls -> 0 .. Patience]
      BY <1>2 DEF Tick, Older, IInv, LimiterAssumption
    <2> HIDE DEF members, lease
    <2>5. /\ slots' \subseteq Calls /\ left' \in [Calls -> 0 .. Ttl + MaxSkew]
          /\ keyLeft' \in 0 .. 2 * Ttl /\ (slots' # {} => keyLeft' > 0)
      BY <2>1, <2>2, <2>3, SetToType
    <2> QED BY <1>2, <2>4, <2>5 DEF Tick, IInv
  <1>3. ASSUME NEW c \in Calls, AddMember(c)
        PROVE /\ slots' \subseteq Calls /\ left' \in [Calls -> 0 .. Ttl + MaxSkew]
              /\ keyLeft' \in 0 .. 2 * Ttl /\ (slots' # {} => keyLeft' > 0)
    <2>1. Kept(c) \union {c} \in SUBSET Calls
      BY DEF Kept, IInv
    <2>2. [left EXCEPT ![c] = Ttl + Skew[c]] \in [Calls -> 0 .. Ttl + MaxSkew]
      BY DEF IInv, LimiterAssumption
    <2>3. 2 * Ttl \in Int /\ 2 * Ttl <= 2 * Ttl /\ 2 * Ttl > 0
      BY DEF LimiterAssumption
    <2> QED BY <1>3, <2>1, <2>2, <2>3, SetToType DEF AddMember
  <1>4. ASSUME NEW c \in Calls, Start(c) PROVE TypeOK'
    BY <1>4 DEF Start, IInv, setVars, LimiterAssumption
  <1>5. ASSUME NEW c \in Calls, Admit(c) PROVE TypeOK'
    BY <1>5, <1>3 DEF Admit, IInv, LimiterAssumption
  <1>6. ASSUME NEW c \in Calls, Refuse(c) PROVE TypeOK'
    <2>1. Kept(c) \in SUBSET Calls /\ Kept(c) \subseteq slots
      BY DEF Kept, IInv
    <2>2. /\ slots' \subseteq Calls /\ left' \in [Calls -> 0 .. Ttl + MaxSkew]
          /\ keyLeft' \in 0 .. 2 * Ttl /\ (slots' # {} => keyLeft' > 0)
      BY <1>6, <2>1, SetToType DEF Refuse, IInv, LimiterAssumption
    <2> QED BY <1>6, <2>2 DEF Refuse, IInv
  <1>7. ASSUME NEW c \in Calls, FailOpen(c) PROVE TypeOK'
    BY <1>7, <1>3 DEF FailOpen, IInv, setVars
  <1>8. ASSUME NEW c \in Calls, Release(c) PROVE TypeOK'
    <2>1. slots \ {c} \in SUBSET Calls
      BY DEF IInv
    <2>2. /\ left \in [Calls -> 0 .. Ttl + MaxSkew]
          /\ keyLeft \in Int /\ keyLeft <= 2 * Ttl /\ (slots \ {c} # {} => keyLeft > 0)
      BY DEF IInv, LimiterAssumption
    <2>3. SetTo(slots \ {c}, left, keyLeft)
      BY <1>8 DEF Release
    <2>4. /\ slots' \subseteq Calls /\ left' \in [Calls -> 0 .. Ttl + MaxSkew]
          /\ keyLeft' \in 0 .. 2 * Ttl /\ (slots' # {} => keyLeft' > 0)
      BY <2>1, <2>2, <2>3, SetToType
    <2> QED BY <1>8, <2>4 DEF Release, IInv
  <1>9. ASSUME NEW c \in Calls, ReleaseError(c) \/ Crash(c) \/ Wake(c) \/ Stop(c) \/ RefreshError(c)
        PROVE TypeOK'
    BY <1>9 DEF ReleaseError, Crash, Wake, Stop, RefreshError, IInv, setVars, LimiterAssumption
  <1>10. ASSUME NEW c \in Calls, Refresh(c) PROVE TypeOK'
    <2>1. slots \union {c} \in SUBSET Calls
      BY DEF IInv
    <2>2. [left EXCEPT ![c] = Ttl + Skew[c]] \in [Calls -> 0 .. Ttl + MaxSkew]
      BY DEF IInv, LimiterAssumption
    <2>3. 2 * Ttl \in Int /\ 2 * Ttl <= 2 * Ttl /\ 2 * Ttl > 0
      BY DEF LimiterAssumption
    <2>4. /\ slots' \subseteq Calls /\ left' \in [Calls -> 0 .. Ttl + MaxSkew]
          /\ keyLeft' \in 0 .. 2 * Ttl /\ (slots' # {} => keyLeft' > 0)
      BY <1>10, <2>1, <2>2, <2>3, SetToType DEF Refresh
    <2>5. 0 \in 0 .. Patience
      BY DEF LimiterAssumption
    <2>6. /\ UNCHANGED <<pc, asked>>
          /\ beat' = [beat EXCEPT ![c] = "resting"] /\ age' = [age EXCEPT ![c] = 0]
      BY <1>10 DEF Refresh
    <2>7. /\ beat' \in [Calls -> {"off", "resting", "woken"}] /\ age' \in [Calls -> 0 .. Patience]
      BY <2>5, <2>6 DEF IInv
    <2> QED BY <2>4, <2>6, <2>7 DEF IInv
  <1> QED BY <1>1, <1>2, <1>4, <1>5, <1>6, <1>7, <1>8, <1>9, <1>10 DEF Next

(* Every call that is at work after a step but Admit's was at work before. *)
LEMMA Shrinking ==
    ASSUME IInv, AtWork' \subseteq AtWork, \A c \in AtWork' : asked'[c] = asked[c]
    PROVE  WithinLimit'
  BY DEF IInv, WithinLimit, Fits, AtWork

(* An admitted call has counted everybody at work. *)
LEMMA AdmitFits ==
    ASSUME LimiterAssumption, IInv, NEW c \in Calls, Admit(c)
    PROVE  WithinLimit'
  <1> SUFFICES ASSUME NEW S \in SUBSET AtWork', S # {}
               PROVE \E h \in S : Cardinality(S) <= asked'[h]
    BY DEF WithinLimit, Fits, AtWork
  <1>1. Running' = Running \union {c} /\ asked' = asked
    BY DEF Admit, Running, IInv, TypeOK
  <1>2. CASE c \notin S
    <2>1. S \in SUBSET AtWork
      BY <1>1, <1>2 DEF AtWork
    <2> QED BY <1>1, <2>1 DEF IInv, WithinLimit, Fits, AtWork
  <1>3. CASE c \in S
    <2>1. S \ {c} \subseteq Kept(c)
      BY <1>1, AtWorkKept DEF IInv, AtWork
    <2>2. IsFiniteSet(Kept(c))
      BY FS_Subset DEF Kept, IInv, TypeOK, LimiterAssumption
    <2>3. /\ IsFiniteSet(S \ {c}) /\ Cardinality(S \ {c}) <= Cardinality(Kept(c))
      BY <2>1, <2>2, FS_Subset
    <2>4. Cardinality(S \ {c}) \in Nat /\ Cardinality(Kept(c)) \in Nat
      BY <2>2, <2>3, FS_CardinalityType
    <2>5. Cardinality(S) = Cardinality(S \ {c}) + 1
      <3>1. S = (S \ {c}) \union {c}
        BY <1>3
      <3> QED BY <2>3, <3>1, FS_AddElement
    <2>6. Cardinality(Kept(c)) < asked[c] /\ asked[c] \in Nat
      BY DEF Admit, HasRoom, IInv, TypeOK
    <2>7. Cardinality(S) <= asked[c]
      BY <2>3, <2>4, <2>5, <2>6
    <2> QED BY <1>1, <1>3, <2>7
  <1> QED BY <1>2, <1>3

LEMMA LeasedStep == ASSUME LimiterAssumption, IInv, [Next]_vars PROVE Leased'
  <1> SUFFICES ASSUME NEW m \in AtWork'
               PROVE  /\ m \in slots' /\ beat'[m] # "off"
                      /\ left'[m] >= Ttl + Skew[m] - age'[m]
                      /\ keyLeft' >= 2 * Ttl - age'[m]
    BY DEF Leased
  <1>0. m \in Calls /\ m \in Punctual /\ pc'[m] = "running"
    BY DEF AtWork, Running
  <1>t. /\ Ttl \in Nat /\ Patience \in Nat /\ MaxSkew \in Nat /\ Patience + MaxSkew < Ttl
        /\ Skew[m] \in 0 .. MaxSkew /\ age[m] \in 0 .. Patience
        /\ left[m] \in 0 .. Ttl + MaxSkew /\ keyLeft \in 0 .. 2 * Ttl
    BY <1>0 DEF LimiterAssumption, IInv, TypeOK
  <1>l. ASSUME pc[m] = "running"
        PROVE  /\ m \in AtWork /\ m \in slots /\ beat[m] # "off"
               /\ left[m] >= Ttl + Skew[m] - age[m]
               /\ keyLeft >= 2 * Ttl - age[m]
    BY <1>0, <1>l DEF IInv, Leased, AtWork, Running
  <1>1. CASE UNCHANGED vars
    BY <1>0, <1>1, <1>l DEF vars, setVars
  <1>2. CASE Tick
    <2>1. pc[m] = "running" /\ age[m] < Patience
      BY <1>0, <1>2 DEF Tick, Running
    <2>2. age'[m] = age[m] + 1
      BY <1>0, <1>2, <1>l, <2>1 DEF Tick, Older
    <2>3. keyLeft > 1 /\ left[m] > 0
      BY <1>t, <1>l, <2>1
    <2>4. slots' = slots /\ left'[m] = left[m] - 1 /\ keyLeft' = keyLeft - 1
      BY <1>0, <1>2, <1>l, <2>1, <2>3 DEF Tick, SetTo
    <2> QED BY <1>2, <1>t, <1>l, <2>1, <2>2, <2>4 DEF Tick
  <1>3. ASSUME NEW c \in Calls, AddMember(c), pc[m] = "running" \/ m = c, age'[m] = IF m = c THEN 0 ELSE age[m]
        PROVE  /\ m \in slots'
               /\ left'[m] >= Ttl + Skew[m] - age'[m]
               /\ keyLeft' >= 2 * Ttl - age'[m]
    <2>1. m \in Kept(c) \union {c}
      BY <1>3, <1>l, AtWorkKept DEF IInv
    <2>2. slots' = Kept(c) \union {c} /\ keyLeft' = 2 * Ttl
      BY <1>3 DEF AddMember, SetTo
    <2>3. left'[m] = IF m = c THEN Ttl + Skew[m] ELSE left[m]
      BY <1>0, <1>3, <2>1 DEF AddMember, SetTo, IInv, TypeOK
    <2> QED BY <1>3, <1>t, <1>l, <2>1, <2>2, <2>3
  <1>4. ASSUME NEW c \in Calls, Start(c) PROVE pc[m] = "running" /\ UNCHANGED <<setVars, beat, age>>
    BY <1>4, <1>0 DEF Start, setVars, IInv, TypeOK
  <1>5. ASSUME NEW c \in Calls, Admit(c)
        PROVE  /\ pc[m] = "running" \/ m = c
               /\ age'[m] = (IF m = c THEN 0 ELSE age[m])
               /\ beat'[m] = (IF m = c THEN "resting" ELSE beat[m])
    BY <1>5, <1>0 DEF Admit, IInv, TypeOK
  <1>6. ASSUME NEW c \in Calls, Refuse(c) PROVE /\ m \in slots' /\ beat'[m] # "off"
                      /\ left'[m] >= Ttl + Skew[m] - age'[m]
                      /\ keyLeft' >= 2 * Ttl - age'[m]
    <2>1. pc[m] = "running" /\ m \in Kept(c)
      BY <1>6, <1>0, <1>l, AtWorkKept DEF Refuse, IInv
    <2>2. m \in slots' /\ left'[m] = left[m] /\ keyLeft' = keyLeft
      BY <1>6, <1>0, <2>1 DEF Refuse, SetTo
    <2> QED BY <1>6, <1>l, <2>1, <2>2 DEF Refuse
  <1>7. ASSUME NEW c \in Calls, FailOpen(c) PROVE pc[m] = "running" /\ m # c /\ UNCHANGED <<beat, age>>
    BY <1>7, <1>0 DEF FailOpen, IInv, TypeOK
  <1>8. ASSUME NEW c \in Calls, Release(c) PROVE /\ m \in slots' /\ beat'[m] # "off"
                      /\ left'[m] >= Ttl + Skew[m] - age'[m]
                      /\ keyLeft' >= 2 * Ttl - age'[m]
    <2>1. pc[m] = "running" /\ m # c
      BY <1>8, <1>0 DEF Release, IInv, TypeOK
    <2>2. m \in slots' /\ left'[m] = left[m] /\ keyLeft' = keyLeft
      BY <1>8, <1>0, <1>l, <2>1 DEF Release, SetTo
    <2> QED BY <1>8, <1>l, <2>1, <2>2 DEF Release
  <1>9. ASSUME NEW c \in Calls, ReleaseError(c) \/ Crash(c) \/ Stop(c) \/ RefreshError(c)
        PROVE  pc[m] = "running" /\ m # c /\ UNCHANGED setVars /\ beat'[m] = beat[m] /\ age'[m] = age[m]
    BY <1>9, <1>0 DEF ReleaseError, Crash, Stop, RefreshError, setVars, IInv, TypeOK
  <1>10. ASSUME NEW c \in Calls, Wake(c)
         PROVE  pc[m] = "running" /\ UNCHANGED <<setVars, age>> /\ (beat[m] # "off" => beat'[m] # "off")
    BY <1>10, <1>0 DEF Wake, setVars, IInv, TypeOK
  <1>11. ASSUME NEW c \in Calls, Refresh(c) PROVE /\ m \in slots' /\ beat'[m] # "off"
                      /\ left'[m] >= Ttl + Skew[m] - age'[m]
                      /\ keyLeft' >= 2 * Ttl - age'[m]
    <2>1. pc[m] = "running" /\ age'[m] = (IF m = c THEN 0 ELSE age[m]) /\ beat'[m] # "off"
      BY <1>11, <1>0, <1>l DEF Refresh, IInv, TypeOK
    <2>2. /\ m \in slots' /\ keyLeft' = 2 * Ttl
          /\ left'[m] = (IF m = c THEN Ttl + Skew[m] ELSE left[m])
      BY <1>11, <1>0, <1>l, <2>1 DEF Refresh, SetTo, IInv, TypeOK
    <2> QED BY <1>t, <1>l, <2>1, <2>2
  <1>12. ASSUME NEW c \in Calls, Admit(c) PROVE /\ m \in slots' /\ beat'[m] # "off"
                      /\ left'[m] >= Ttl + Skew[m] - age'[m]
                      /\ keyLeft' >= 2 * Ttl - age'[m]
    <2>1. AddMember(c)
      BY <1>12 DEF Admit
    <2> QED BY <1>12, <1>3, <1>5, <1>l, <2>1
  <1>13. ASSUME NEW c \in Calls, FailOpen(c) PROVE /\ m \in slots' /\ beat'[m] # "off"
                      /\ left'[m] >= Ttl + Skew[m] - age'[m]
                      /\ keyLeft' >= 2 * Ttl - age'[m]
    <2>1. CASE UNCHANGED setVars
      BY <1>13, <1>7, <1>l, <2>1 DEF setVars
    <2>2. CASE AddMember(c)
      BY <1>13, <1>7, <1>3, <1>l, <2>2
    <2> QED BY <1>13, <2>1, <2>2 DEF FailOpen
  <1> QED BY <1>1, <1>2, <1>4, <1>6, <1>8, <1>9, <1>10, <1>11, <1>12, <1>13, <1>l DEF Next, setVars

LEMMA LimitStep == ASSUME LimiterAssumption, IInv, [Next]_vars PROVE WithinLimit' /\ AskedKnown'
  <1>1. ASSUME NEW c \in Calls, Admit(c) PROVE AskedKnown'
    BY <1>1 DEF Admit, AskedKnown, IInv, TypeOK
  <1>2. ASSUME NEW c \in Calls, Start(c)
        PROVE  /\ AskedKnown' /\ AtWork' \subseteq AtWork
               /\ \A h \in AtWork' : asked'[h] = asked[h]
    BY <1>2 DEF Start, AskedKnown, AtWork, Running, IInv, TypeOK
  <1>3. ASSUME NEW c \in Calls,
               \/ Refuse(c) \/ FailOpen(c) \/ Release(c) \/ ReleaseError(c) \/ Crash(c)
               \/ Wake(c) \/ Stop(c) \/ Refresh(c) \/ RefreshError(c)
        PROVE  /\ AskedKnown' /\ AtWork' \subseteq AtWork
               /\ \A h \in AtWork' : asked'[h] = asked[h]
    BY <1>3 DEF Refuse, FailOpen, Release, ReleaseError, Crash, Wake, Stop, Refresh, RefreshError,
                AskedKnown, AtWork, Running, IInv, TypeOK
  <1>4. ASSUME Tick \/ UNCHANGED vars
        PROVE  /\ AskedKnown' /\ AtWork' \subseteq AtWork
               /\ \A h \in AtWork' : asked'[h] = asked[h]
    BY <1>4 DEF Tick, vars, AskedKnown, AtWork, Running, IInv
  <1> QED BY <1>1, <1>2, <1>3, <1>4, AdmitFits, Shrinking DEF Next

(* The strengthened invariant, for any calls, clocks, limits and faults. *)
THEOREM Invariance == Spec => []IInv
  <1>1. Init => IInv
    BY LimiterAssumption, InitIInv
  <1>2. IInv /\ [Next]_vars => IInv'
    BY LimiterAssumption, TypeStep, LeasedStep, LimitStep DEF IInv
  <1> QED BY <1>1, <1>2, PTL DEF Spec

(* The limiter's type invariant. *)
THEOREM TypeCorrect == Spec => []TypeOK
  <1>1. IInv => TypeOK
    BY DEF IInv
  <1> QED BY <1>1, Invariance, PTL

(* Among any punctual calls at work, one was admitted under a limit they all *)
(* fit: redisLimiter.Acquire, whoever died and whatever was retuned.         *)
THEOREM LimitRespected == Spec => []WithinLimit
  <1>1. IInv => WithinLimit
    BY DEF IInv
  <1> QED BY <1>1, Invariance, PTL

(* With one limit throughout, that is the limit on the calls at work. *)
THEOREM FixedLimitRespected ==
    ASSUME NEW n \in Nat, Limits = {n}
    PROVE  Spec => [](Cardinality(Running \intersect Punctual) <= n)
  <1>1. IInv => Cardinality(Running \intersect Punctual) <= n
    <2> SUFFICES ASSUME IInv PROVE Cardinality(AtWork) <= n
      BY DEF AtWork
    <2>1. CASE AtWork = {}
      BY <2>1, FS_EmptySet
    <2>2. CASE AtWork # {}
      <3>1. PICK h \in AtWork : Cardinality(AtWork) <= asked[h]
        BY <2>2 DEF IInv, WithinLimit, Fits, AtWork
      <3>2. asked[h] = n
        BY <3>1 DEF IInv, AskedKnown, AtWork, Running
      <3> QED BY <3>1, <3>2
    <2> QED BY <2>1, <2>2
  <1> QED BY <1>1, Invariance, PTL
=============================================================================
