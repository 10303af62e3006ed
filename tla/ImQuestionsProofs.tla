-------------------------- MODULE ImQuestionsProofs --------------------------
(***************************************************************************)
(* Proofs about ImQuestions, for any questions, users, processes, routes,  *)
(* and limits.                                                             *)
(***************************************************************************)
EXTENDS ImQuestions, FiniteSetTheorems, SequenceTheorems, TLAPS

Holding == Accepted \union {"excess"}   \* those who have taken a unit of their user's counter
Past    == {"saved", "running", "closing", "leaving", "over"}
States  == {"new", "checked", "excess", "over"} \union Accepted

(* Each question waits in one place of one queue. *)
QueueSound ==
    /\ queue \in [Instances -> Seq(Questions)]
    /\ \A i \in Instances : \A n \in 1 .. Len(queue[i]) :
           /\ at[queue[i][n]] = "queued" /\ home[queue[i][n]] = i
           /\ \A m \in 1 .. Len(queue[i]) : queue[i][m] = queue[i][n] => m = n

(* The map of a process has only its own requests behind the gate, each      *)
(* under its user.                                                           *)
Entry == [req : Questions \union {None}, ids : Questions \union {None}]
MapSound ==
    /\ inflight \in [Instances -> [Users -> Entry]]
    /\ \A i \in Instances, u \in Users : inflight[i][u].req # None =>
           /\ at[inflight[i][u].req] \in Gated /\ home[inflight[i][u].req] = i
           /\ UserOf[inflight[i][u].req] = u

(* A question beyond the first check, and no other, has a process, and may   *)
(* have a place; only one whose turn has saved it has been counted; a /stop  *)
(* under way runs in a process.                                              *)
Sound ==
    /\ \A q \in Questions : IF at[q] = "new" THEN q \notin reserved \union denied
                                            ELSE home[q] \in Instances
    /\ counted \in Nat /\ counted <= Cardinality(In(Past))
    /\ stop \in [Users -> [at : {"none", "looking", "finding", "marking"},
                           found : Questions \union {None}, on : Instances \union {None}]]
    /\ \A u \in Users : stop[u].at # "none" => stop[u].on \in Instances

IInv == TypeOK /\ QueueSound /\ MapSound /\ Sound /\ GateIsExact /\ UserCountIsExact

(* The types of what a step may change besides a question's place. *)
Plain ==
    /\ userCount \in [Users -> Nat] /\ gate \in Nat
    /\ mapping \in [Users -> Questions \union {None}] /\ marker \in [Users -> BOOLEAN]
    /\ reserved \subseteq Questions /\ denied \subseteq Questions /\ reserved \intersect denied = {}
    /\ ended \subseteq Questions /\ stopEvent \subseteq Questions /\ stops \in 0 .. MaxStops
    /\ lostGate \in Nat /\ lostUser \in [Users -> Nat]

-----------------------------------------------------------------------------
(* Counting.                                                                 *)

LEMMA Finite ==
    ASSUME NEW T \in SUBSET Questions
    PROVE  IsFiniteSet(T) /\ Cardinality(T) \in Nat /\ Cardinality(T) <= Cardinality(Questions)
           /\ Cardinality(Questions) \in Nat /\ (T = {} <=> Cardinality(T) = 0)
  BY ImAssumption, FS_Subset, FS_CardinalityType, FS_EmptySet

(* A question that moves is one more of those it joins, one less of those it *)
(* leaves.                                                                   *)
LEMMA Moves ==
    ASSUME at \in [Questions -> States], NEW q \in Questions, NEW w, Goes(q, w),
           NEW A \in SUBSET Questions, NEW S
    PROVE  LET n == Cardinality(A \intersect In(S))
               m == Cardinality(A \intersect In(S)')
           IN  /\ n \in Nat /\ m \in Nat
               /\ q \in A /\ at[q] \in S /\ w \notin S => n > 0 /\ m = n - 1
               /\ q \in A /\ at[q] \notin S /\ w \in S => m = n + 1
               /\ q \notin A \/ (at[q] \in S <=> w \in S) => m = n
  <1> DEFINE X == A \intersect In(S)
             Y == A \intersect In(S)'
  <1>1. \A r \in Questions : at'[r] = IF r = q THEN w ELSE at[r]
    BY DEF Goes
  <1>2. X \in SUBSET Questions /\ Y \in SUBSET Questions
    OBVIOUS
  <1>3. IsFiniteSet(X) /\ Cardinality(X) \in Nat /\ Cardinality(Y) \in Nat
    BY <1>2, Finite
  <1>4. ASSUME q \in A, at[q] \in S, w \notin S
        PROVE  Cardinality(X) > 0 /\ Cardinality(Y) = Cardinality(X) - 1
    <2>1. Y = X \ {q} /\ q \in X
      BY <1>1, <1>4 DEF In
    <2>2. Cardinality(X) # 0
      BY <1>2, <2>1, Finite
    <2> HIDE DEF X, Y
    <2>3. Cardinality(Y) = Cardinality(X) - 1
      BY <1>3, <2>1, FS_RemoveElement
    <2> QED BY <1>3, <2>2, <2>3
  <1>5. ASSUME q \in A, at[q] \notin S, w \in S
        PROVE  Cardinality(Y) = Cardinality(X) + 1
    <2>1. Y = X \union {q} /\ q \notin X
      BY <1>1, <1>5 DEF In
    <2> HIDE DEF X, Y
    <2> QED BY <1>3, <2>1, FS_AddElement
  <1>6. ASSUME q \notin A \/ (at[q] \in S <=> w \in S)
        PROVE  Y = X
    BY <1>1, <1>6 DEF In
  <1> QED BY <1>3, <1>4, <1>5, <1>6

(* The same, of all the questions. *)
LEMMA MovesAll ==
    ASSUME at \in [Questions -> States], NEW q \in Questions, NEW w, Goes(q, w), NEW S
    PROVE  LET n == Cardinality(In(S))
               m == Cardinality(In(S)')
           IN  /\ n \in Nat /\ m \in Nat
               /\ at[q] \in S /\ w \notin S => n > 0 /\ m = n - 1
               /\ at[q] \notin S /\ w \in S => m = n + 1
               /\ (at[q] \in S <=> w \in S) => m = n
  <1>1. Questions \intersect In(S) = In(S) /\ Questions \intersect In(S)' = In(S)'
    BY DEF In
  <1> QED BY <1>1, Moves

-----------------------------------------------------------------------------
(* Queues and the map.                                                       *)

(* Whoever is not queued moves past the queues unseen. *)
LEMMA QueueKeeps ==
    ASSUME IInv, NEW q \in Questions, NEW w, Goes(q, w), at[q] # "queued", UNCHANGED queue,
           home' = home \/ (at[q] = "new" /\ \E i : home' = [home EXCEPT ![q] = i])
    PROVE  QueueSound'
  <1>1. \A i \in Instances : \A n \in 1 .. Len(queue[i]) : queue[i][n] # q /\ queue[i][n] \in Questions
    BY DEF IInv, QueueSound
  <1>2. \A r \in Questions : r # q => at'[r] = at[r] /\ home'[r] = home[r]
    BY DEF Goes, IInv, TypeOK
  <1> QED BY <1>1, <1>2 DEF IInv, QueueSound

LEMMA MapKeeps ==
    ASSUME IInv, NEW q \in Questions, NEW w, Goes(q, w), at[q] \in Gated => w \in Gated, UNCHANGED inflight,
           home' = home \/ (at[q] = "new" /\ \E i : home' = [home EXCEPT ![q] = i])
    PROVE  MapSound'
  <1>1. \A r \in Questions : r # q => at'[r] = at[r] /\ home'[r] = home[r]
    BY DEF Goes, IInv, TypeOK
  <1>2. at'[q] = w /\ (at[q] \in Gated => home'[q] = home[q])
    BY DEF Goes, IInv, TypeOK, Gated
  <1>3. \A i \in Instances, u \in Users : inflight[i][u].req # None => inflight[i][u].req \in Questions
    BY DEF IInv, MapSound, Entry
  <1> QED BY <1>1, <1>2, <1>3 DEF IInv, MapSound

LEMMA WithoutNthIs ==
    ASSUME NEW s \in Seq(Questions), NEW n \in 1 .. Len(s)
    PROVE  /\ WithoutNth(s, n) \in Seq(Questions) /\ Len(WithoutNth(s, n)) = Len(s) - 1
           /\ \A m \in 1 .. Len(s) - 1 : WithoutNth(s, n)[m] = s[IF m < n THEN m ELSE m + 1]
  <1> DEFINE a == SubSeq(s, 1, n - 1)
             b == SubSeq(s, n + 1, Len(s))
  <1>1. Len(s) \in Nat /\ n \in Nat /\ \A m \in 1 .. Len(s) : s[m] \in Questions
    BY ElementOfSeq, LenProperties
  <1>2. a \in Seq(Questions) /\ Len(a) = n - 1 /\ \A m \in 1 .. n - 1 : a[m] = s[m]
    <2>1. \A m \in 1 .. n - 1 : s[m] \in Questions
      BY <1>1
    <2>2. /\ a \in Seq(Questions) /\ Len(a) = IF 1 <= n - 1 THEN n - 1 - 1 + 1 ELSE 0
          /\ \A m \in 1 .. n - 1 - 1 + 1 : a[m] = s[1 + m - 1]
      BY <1>1, <2>1, SubSeqProperties
    <2> HIDE DEF a
    <2> QED BY <1>1, <2>2
  <1>3. b \in Seq(Questions) /\ Len(b) = Len(s) - n /\ \A m \in 1 .. Len(s) - n : b[m] = s[m + n]
    <2>1. \A m \in n + 1 .. Len(s) : s[m] \in Questions
      BY <1>1
    <2>2. /\ b \in Seq(Questions)
          /\ Len(b) = IF n + 1 <= Len(s) THEN Len(s) - (n + 1) + 1 ELSE 0
          /\ \A m \in 1 .. Len(s) - (n + 1) + 1 : b[m] = s[n + 1 + m - 1]
      BY <1>1, <2>1, SubSeqProperties
    <2> HIDE DEF b
    <2> QED BY <1>1, <2>2
  <1> HIDE DEF a, b
  <1>4. /\ a \o b \in Seq(Questions) /\ Len(a \o b) = Len(a) + Len(b)
        /\ \A m \in 1 .. Len(a) + Len(b) : (a \o b)[m] = IF m <= Len(a) THEN a[m] ELSE b[m - Len(a)]
    BY <1>2, <1>3, ConcatProperties
  <1>5. Len(a \o b) = Len(s) - 1
    BY <1>1, <1>2, <1>3, <1>4
  <1>6. ASSUME NEW m \in 1 .. Len(s) - 1
        PROVE  (a \o b)[m] = s[IF m < n THEN m ELSE m + 1]
    <2>1. m \in Int /\ m \in 1 .. Len(a) + Len(b)
      BY <1>1, <1>2, <1>3
    <2>2. CASE m < n
      BY <1>1, <1>2, <1>4, <2>1, <2>2
    <2>3. CASE ~ (m < n)
      <3>1. ~ (m <= Len(a)) /\ m - Len(a) \in 1 .. Len(s) - n /\ (m - Len(a)) + n = m + 1
        BY <1>1, <1>2, <2>1, <2>3
      <3>2. (a \o b)[m] = b[m - Len(a)]
        BY <1>4, <2>1, <3>1
      <3>3. b[m - Len(a)] = s[m + 1]
        BY <1>3, <3>1
      <3> QED BY <2>3, <3>2, <3>3
    <2> QED BY <2>2, <2>3
  <1>7. WithoutNth(s, n) = a \o b
    BY DEF WithoutNth, a, b
  <1> QED BY <1>4, <1>5, <1>6, <1>7

(* Of the types, what follows from the rest, after a step. *)
LEMMA Typed ==
    ASSUME Plain', at' \in [Questions -> States], home' \in [Questions -> Instances \union {None}],
           QueueSound', MapSound', Sound'
    PROVE  TypeOK'
  <1>1. In(Past)' \in SUBSET Questions
    BY DEF In
  <1>2. counted' \in 0 .. Cardinality(Questions)
    BY <1>1, Finite DEF Sound
  <1> QED BY <1>2 DEF TypeOK, Plain, States, QueueSound, MapSound

-----------------------------------------------------------------------------
(* The counters.                                                             *)

(* A question that passes the gate, or leaves what is behind it. *)
LEMMA GateMoves ==
    ASSUME IInv, NEW q \in Questions, NEW w, Goes(q, w), UNCHANGED lostGate,
           \/ (at[q] \in Gated <=> w \in Gated) /\ gate' = gate
           \/ at[q] \in Gated /\ w \notin Gated /\ gate' = gate - 1
           \/ at[q] \notin Gated /\ w \in Gated /\ gate' = gate + 1 /\ gate < GlobalMax
    PROVE  GateIsExact' /\ gate' \in Nat
  <1> DEFINE n == Cardinality(In(Gated))
             m == Cardinality(In(Gated)')
  <1>1. /\ n \in Nat /\ m \in Nat
        /\ at[q] \in Gated /\ w \notin Gated => n > 0 /\ m = n - 1
        /\ at[q] \notin Gated /\ w \in Gated => m = n + 1
        /\ (at[q] \in Gated <=> w \in Gated) => m = n
    BY MovesAll DEF IInv, TypeOK, States
  <1>2. gate = n + lostGate /\ n <= GlobalMax /\ lostGate \in Nat /\ gate \in Nat /\ GlobalMax \in Nat
    BY ImAssumption DEF IInv, TypeOK, GateIsExact
  <1> HIDE DEF n, m
  <1>3. gate' = m + lostGate /\ m <= GlobalMax /\ gate' \in Nat
    BY <1>1, <1>2
  <1> QED BY <1>3 DEF GateIsExact, m

(* A question that takes a unit of its user's counter, or gives it back. *)
LEMMA UserMoves ==
    ASSUME IInv, NEW q \in Questions, NEW w, Goes(q, w), UNCHANGED lostUser,
           \/ (at[q] \in Holding <=> w \in Holding) /\ userCount' = userCount
              /\ (w \in Accepted => at[q] \in Accepted)
           \/ at[q] \in Holding /\ w \notin Holding /\ DecrUser(UserOf[q])
           \/ /\ at[q] \notin Holding /\ w \in Holding
              /\ userCount' = [userCount EXCEPT ![UserOf[q]] = @ + 1]
              /\ (w \in Accepted => userCount'[UserOf[q]] <= MaxPerUser)
    PROVE  UserCountIsExact' /\ userCount' \in [Users -> Nat]
  <1>1. UserOf[q] \in Users
    BY ImAssumption
  <1>2. ASSUME NEW u \in Users
        PROVE  /\ userCount'[u] = Cardinality(Asked(u) \intersect In(Holding)') + lostUser[u]
               /\ Cardinality(Asked(u) \intersect In(Accepted)') <= MaxPerUser
               /\ userCount'[u] \in Nat
    <2> DEFINE n == Cardinality(Asked(u) \intersect In(Holding))
               m == Cardinality(Asked(u) \intersect In(Holding)')
               k == Cardinality(Asked(u) \intersect In(Accepted))
               l == Cardinality(Asked(u) \intersect In(Accepted)')
    <2>1. Asked(u) \in SUBSET Questions /\ (q \in Asked(u) <=> u = UserOf[q])
      BY DEF Asked
    <2>2. at \in [Questions -> States]
      BY DEF IInv, TypeOK, States
    <2>3. /\ n \in Nat /\ m \in Nat
          /\ q \in Asked(u) /\ at[q] \in Holding /\ w \notin Holding => n > 0 /\ m = n - 1
          /\ q \in Asked(u) /\ at[q] \notin Holding /\ w \in Holding => m = n + 1
          /\ q \notin Asked(u) \/ (at[q] \in Holding <=> w \in Holding) => m = n
      BY <2>1, <2>2, Moves
    <2>4. /\ k \in Nat /\ l \in Nat
          /\ q \in Asked(u) /\ at[q] \in Accepted /\ w \notin Accepted => k > 0 /\ l = k - 1
          /\ q \notin Asked(u) \/ (at[q] \in Accepted <=> w \in Accepted) => l = k
      BY <2>1, <2>2, Moves
    <2>5. l <= m
      <3>1. Asked(u) \intersect In(Holding)' \in SUBSET Questions
            /\ Asked(u) \intersect In(Accepted)' \in SUBSET (Asked(u) \intersect In(Holding)')
        BY DEF In, Holding
      <3> QED BY <3>1, Finite, FS_Subset
    <2>6. /\ userCount[u] = n + lostUser[u] /\ k <= MaxPerUser /\ MaxPerUser \in Nat
          /\ lostUser[u] \in Nat /\ userCount \in [Users -> Nat]
      BY ImAssumption DEF IInv, TypeOK, UserCountIsExact, Holding
    <2>7. w \in Accepted => w \in Holding
      BY DEF Holding
    <2> HIDE DEF n, m, k, l
    <2>8. CASE UserOf[q] # u
      <3>1. userCount'[u] = userCount[u] /\ m = n /\ l = k
        BY <1>1, <2>1, <2>3, <2>4, <2>6, <2>8 DEF DecrUser
      <3> QED BY <2>3, <2>6, <3>1 DEF m, l
    <2>9. CASE UserOf[q] = u
      <3>1. CASE (at[q] \in Holding <=> w \in Holding) /\ userCount' = userCount
                 /\ (w \in Accepted => at[q] \in Accepted)
        <4>1. m = n /\ l <= k
          BY <2>1, <2>3, <2>4, <2>9, <3>1
        <4>2. userCount'[u] = m + lostUser[u] /\ l <= MaxPerUser /\ userCount'[u] \in Nat
          BY <2>3, <2>4, <2>6, <3>1, <4>1
        <4> QED BY <4>2 DEF m, l
      <3>2. CASE at[q] \in Holding /\ w \notin Holding /\ DecrUser(UserOf[q])
        <4>1. n > 0 /\ m = n - 1 /\ l <= k /\ userCount'[u] = userCount[u] - 1
          BY <2>1, <2>3, <2>4, <2>6, <2>7, <2>9, <3>2 DEF DecrUser
        <4>2. userCount'[u] = m + lostUser[u] /\ l <= MaxPerUser /\ userCount'[u] \in Nat
          BY <2>3, <2>4, <2>6, <4>1
        <4> QED BY <4>2 DEF m, l
      <3>3. CASE /\ at[q] \notin Holding /\ w \in Holding
                 /\ userCount' = [userCount EXCEPT ![UserOf[q]] = @ + 1]
                 /\ (w \in Accepted => userCount'[UserOf[q]] <= MaxPerUser)
        <4>1. m = n + 1 /\ userCount'[u] = userCount[u] + 1
          BY <2>1, <2>3, <2>6, <2>9, <3>3
        <4>2. userCount'[u] = m + lostUser[u] /\ userCount'[u] \in Nat
          BY <2>3, <2>6, <4>1
        <4>3. l <= MaxPerUser
          <5>1. CASE w \in Accepted
            BY <2>3, <2>4, <2>5, <2>6, <2>9, <3>3, <4>2, <5>1
          <5>2. CASE w \notin Accepted
            BY <2>1, <2>4, <2>6, <2>9, <3>3, <5>2 DEF Holding
          <5> QED BY <5>1, <5>2
        <4> QED BY <4>2, <4>3 DEF m, l
      <3> QED BY <3>1, <3>2, <3>3
    <2> QED BY <2>8, <2>9
  <1>3. userCount' \in [Users -> Nat]
    <2>1. \E f : userCount' = [u \in Users |-> f[u]]
      BY DEF IInv, TypeOK, DecrUser
    <2> QED BY <1>2, <2>1
  <1> QED BY <1>2, <1>3 DEF UserCountIsExact, Holding

-----------------------------------------------------------------------------
(* Steps.                                                                    *)

(* A question's place changes, neither into a queue nor out of one. *)
LEMMA MoveKeeps ==
    ASSUME IInv, NEW q \in Questions, NEW w \in States \ {"new", "queued"}, Goes(q, w),
           at[q] \notin {"new", "queued"}, UNCHANGED <<home, queue, stop>>, MapSound', Plain',
           at[q] \in Past => w \in Past, reserved' \union denied' \subseteq reserved \union denied,
           counted' = counted \/ (at[q] \notin Past /\ w \in Past /\ counted' = counted + 1)
    PROVE  TypeOK' /\ QueueSound' /\ Sound'
  <1>1. at' \in [Questions -> States] /\ home' \in [Questions -> Instances \union {None}]
    BY DEF IInv, TypeOK, Goes, States
  <1>2. QueueSound'
    BY QueueKeeps
  <1>3. counted' \in Nat /\ counted' <= Cardinality(In(Past)')
    <2> DEFINE n == Cardinality(In(Past))
               m == Cardinality(In(Past)')
    <2>1. /\ n \in Nat /\ m \in Nat
          /\ at[q] \notin Past /\ w \in Past => m = n + 1
          /\ (at[q] \in Past <=> w \in Past) => m = n
      BY MovesAll DEF IInv, TypeOK, States
    <2>2. counted \in Nat /\ counted <= n
      BY DEF IInv, Sound
    <2> HIDE DEF n, m
    <2>3. counted' \in Nat /\ counted' <= m
      BY <2>1, <2>2
    <2> QED BY <2>3 DEF m
  <1>4. \A r \in Questions : IF at'[r] = "new" THEN r \notin reserved' \union denied'
                                             ELSE home'[r] \in Instances
    BY DEF IInv, TypeOK, Sound, Goes
  <1>5. Sound'
    BY <1>3, <1>4 DEF IInv, Sound
  <1> QED BY <1>1, <1>2, <1>5, Typed

(* The states a step of a worker or handler moves between. *)
LEMMA Places ==
    /\ Gated \subseteq Working /\ Working \subseteq Accepted /\ Accepted \subseteq Holding
    /\ Holding \subseteq States /\ Past \subseteq States
    /\ {"passed", "registered", "starting", "saved", "running", "closing"} = Gated
    /\ {"new", "checked", "over", "excess", "accepted", "queued", "taken", "leaving"} \intersect Gated = {}
    /\ {"accepted", "queued", "taken", "leaving"} \subseteq Accepted
    /\ {"new", "checked", "over"} \intersect Holding = {} /\ "excess" \in Holding \ Accepted
    /\ {"new", "checked", "over", "excess"} \intersect Accepted = {}
    /\ {"new", "checked", "excess", "accepted", "queued", "taken", "passed", "registered", "starting"}
          \intersect Past = {}
  BY DEF Gated, Working, Accepted, Holding, States, Past

(* The handler of a message, up to the queue. *)
LEMMA ReceiveStep ==
    ASSUME IInv, NEW q \in Questions, NEW i \in Routes[q], Receive(q, i)
    PROVE  IInv'
  <1>1. /\ Goes(q, "checked") /\ at[q] = "new" /\ i \in Instances
        /\ home' = [home EXCEPT ![q] = i]
        /\ UNCHANGED <<queue, userCount, gate, mapping, marker, inflight, counted, ended, stopEvent,
                       stop, stops, lostGate, lostUser>>
    BY ImAssumption DEF Receive, redisVars, stopVars, lostVars
  <1>2. QueueSound' /\ MapSound'
    BY <1>1, QueueKeeps, MapKeeps, Places
  <1>3. GateIsExact' /\ UserCountIsExact'
    BY <1>1, GateMoves, UserMoves, Places
  <1>4. /\ reserved' \subseteq reserved \union {q} /\ denied' \subseteq denied \union {q}
        /\ (q \notin reserved' \/ q \notin denied') /\ q \notin reserved \union denied
    BY <1>1 DEF Receive, IInv, Sound
  <1>5. Plain'
    BY <1>1, <1>4 DEF IInv, TypeOK, Plain
  <1>6. at' \in [Questions -> States] /\ home' \in [Questions -> Instances \union {None}]
    BY <1>1 DEF IInv, TypeOK, Goes, States
  <1>7. counted' \in Nat /\ counted' <= Cardinality(In(Past)')
    <2>1. Cardinality(In(Past)') = Cardinality(In(Past))
      BY <1>1, MovesAll, Places DEF IInv, TypeOK, States
    <2> QED BY <1>1, <2>1 DEF IInv, Sound
  <1>8. \A r \in Questions : IF at'[r] = "new" THEN r \notin reserved' \union denied'
                                             ELSE home'[r] \in Instances
    BY <1>1, <1>4 DEF IInv, TypeOK, Sound, Goes
  <1>9. Sound'
    BY <1>1, <1>7, <1>8 DEF IInv, Sound
  <1> QED BY <1>2, <1>3, <1>5, <1>6, <1>9, Typed DEF IInv

LEMMA EnqueueStep ==
    ASSUME IInv, NEW q \in Questions, Enqueue(q)
    PROVE  IInv'
  <1> DEFINE i == home[q]
             s == queue[i]
  <1>1. /\ Goes(q, "queued") /\ at[q] = "accepted"
        /\ queue' = [queue EXCEPT ![i] = Append(s, q)]
        /\ UNCHANGED <<home, userCount, gate, mapping, marker, inflight, reserved, denied, counted,
                       ended, stopEvent, stop, stops, lostGate, lostUser>>
    BY DEF Enqueue, redisVars, planVars, stopVars, lostVars
  <1>2. i \in Instances /\ s \in Seq(Questions)
    BY <1>1 DEF IInv, Sound, QueueSound
  <1>3. QueueSound'
    <2>1. /\ Append(s, q) \in Seq(Questions) /\ Len(Append(s, q)) = Len(s) + 1
          /\ \A n \in 1 .. Len(s) : Append(s, q)[n] = s[n]
          /\ Append(s, q)[Len(s) + 1] = q
      BY <1>2, AppendProperties
    <2>2. \A j \in Instances : \A n \in 1 .. Len(queue[j]) : queue[j][n] # q /\ queue[j][n] \in Questions
      BY <1>1 DEF IInv, QueueSound
    <2>3. \A r \in Questions : at'[r] = IF r = q THEN "queued" ELSE at[r]
      BY <1>1 DEF IInv, TypeOK, Goes
    <2>4. Len(s) \in Nat
      BY <1>2, LenProperties
    <2>5. /\ queue' \in [Instances -> Seq(Questions)] /\ queue'[i] = Append(s, q)
          /\ \A j \in Instances : j # i => queue'[j] = queue[j]
      BY <1>1, <1>2, <2>1 DEF IInv, QueueSound
    <2>6. ASSUME NEW j \in Instances, NEW n \in 1 .. Len(queue'[j])
          PROVE  /\ at'[queue'[j][n]] = "queued" /\ home'[queue'[j][n]] = j
                 /\ \A m \in 1 .. Len(queue'[j]) : queue'[j][m] = queue'[j][n] => m = n
      <3> HIDE DEF s, i
      <3>1. CASE j # i
        <4>1. queue'[j] = queue[j]
          BY <2>5, <3>1
        <4>2. \A m \in 1 .. Len(queue[j]) : /\ at'[queue[j][m]] = "queued" /\ home[queue[j][m]] = j
          BY <2>2, <2>3 DEF IInv, QueueSound
        <4>3. \A m \in 1 .. Len(queue[j]) : queue[j][m] = queue[j][n] => m = n
          BY <2>6, <4>1 DEF IInv, QueueSound
        <4> QED BY <1>1, <2>6, <4>1, <4>2, <4>3
      <3>2. CASE j = i
        <4>1. /\ \A m \in 1 .. Len(s) + 1 : queue'[j][m] = IF m = Len(s) + 1 THEN q ELSE s[m]
              /\ Len(queue'[j]) = Len(s) + 1
          BY <2>1, <2>4, <2>5, <3>2
        <4>2. \A m \in 1 .. Len(s) : /\ s[m] # q /\ s[m] \in Questions /\ at[s[m]] = "queued"
                                     /\ home[s[m]] = i
                                     /\ \A k \in 1 .. Len(s) : s[m] = s[k] => m = k
          BY <1>2, <2>2 DEF IInv, QueueSound, s
        <4>3. home'[q] = i
          BY <1>1 DEF i
        <4> HIDE DEF QueueSound, IInv
        <4> QED BY <1>1, <2>3, <2>4, <2>6, <3>2, <4>1, <4>2, <4>3
      <3> QED BY <3>1, <3>2
    <2> QED BY <2>5, <2>6 DEF QueueSound
  <1>4. MapSound'
    BY <1>1, MapKeeps, Places
  <1>5. GateIsExact' /\ UserCountIsExact'
    BY <1>1, GateMoves, UserMoves, Places
  <1>6. Plain'
    BY <1>1 DEF IInv, TypeOK, Plain
  <1>7. at' \in [Questions -> States] /\ home' \in [Questions -> Instances \union {None}]
    BY <1>1, Places DEF IInv, TypeOK, Goes, States
  <1>8. Cardinality(In(Past)') = Cardinality(In(Past))
    BY <1>1, MovesAll, Places DEF IInv, TypeOK, States
  <1>9. \A r \in Questions : IF at'[r] = "new" THEN r \notin reserved' \union denied'
                                             ELSE home'[r] \in Instances
    BY <1>1 DEF IInv, TypeOK, Sound, Goes
  <1>10. Sound'
    BY <1>1, <1>8, <1>9 DEF IInv, Sound
  <1> QED BY <1>3, <1>4, <1>5, <1>6, <1>7, <1>10, Typed DEF IInv

(* A question is taken out of its queue, from the front or from within. *)
LEMMA QueueLoses ==
    ASSUME IInv, NEW i \in Instances, NEW n \in 1 .. Len(queue[i]), NEW w, Goes(queue[i][n], w),
           NEW t \in Seq(Questions), queue' = [queue EXCEPT ![i] = t], Len(t) = Len(queue[i]) - 1,
           \A m \in 1 .. Len(queue[i]) - 1 : t[m] = queue[i][IF m < n THEN m ELSE m + 1],
           UNCHANGED home
    PROVE  QueueSound' /\ queue[i][n] \in Questions /\ at[queue[i][n]] = "queued"
  <1> DEFINE s == queue[i]
             q == queue[i][n]
  <1>1. s \in Seq(Questions) /\ Len(s) \in Nat /\ q \in Questions /\ at[q] = "queued" /\ home[q] = i
    BY ElementOfSeq, LenProperties DEF IInv, QueueSound
  <1>2. \A r \in Questions : r # q => at'[r] = at[r]
    BY DEF IInv, TypeOK, Goes
  <1>3. /\ queue' \in [Instances -> Seq(Questions)] /\ queue'[i] = t
        /\ \A j \in Instances : j # i => queue'[j] = queue[j]
    BY DEF IInv, QueueSound
  <1>4. ASSUME NEW j \in Instances, j # i, NEW m \in 1 .. Len(queue[j])
        PROVE  /\ at'[queue[j][m]] = "queued" /\ home[queue[j][m]] = j
               /\ \A k \in 1 .. Len(queue[j]) : queue[j][k] = queue[j][m] => k = m
    <2>1. queue[j][m] \in Questions /\ at[queue[j][m]] = "queued" /\ home[queue[j][m]] = j
      BY ElementOfSeq DEF IInv, QueueSound
    <2>2. queue[j][m] # q
      BY <1>1, <1>4, <2>1
    <2>3. \A k \in 1 .. Len(queue[j]) : queue[j][k] = queue[j][m] => k = m
      BY DEF IInv, QueueSound
    <2> QED BY <1>2, <2>1, <2>2, <2>3
  <1>5. ASSUME NEW m \in 1 .. Len(t)
        PROVE  /\ at'[t[m]] = "queued" /\ home[t[m]] = i
               /\ \A k \in 1 .. Len(t) : t[k] = t[m] => k = m
    <2> DEFINE X(k) == IF k < n THEN k ELSE k + 1
    <2>1. \A k \in 1 .. Len(t) : X(k) \in 1 .. Len(s) /\ X(k) # n /\ t[k] = s[X(k)]
      BY <1>1
    <2>2. \A k, l \in 1 .. Len(s) : s[k] = s[l] => k = l
      BY DEF IInv, QueueSound
    <2>3. \A k \in 1 .. Len(s) : s[k] \in Questions /\ at[s[k]] = "queued" /\ home[s[k]] = i
      BY ElementOfSeq DEF IInv, QueueSound
    <2>4. \A k \in 1 .. Len(t) : X(k) = X(m) => k = m
      OBVIOUS
    <2> HIDE DEF X
    <2>5. s[X(m)] # q /\ X(m) \in 1 .. Len(s) /\ t[m] = s[X(m)]
      BY <2>1, <2>2
    <2>6. at'[t[m]] = "queued" /\ home[t[m]] = i
      BY <1>2, <2>3, <2>5
    <2>7. \A k \in 1 .. Len(t) : t[k] = t[m] => k = m
      BY <2>1, <2>2, <2>4
    <2> QED BY <2>6, <2>7
  <1>6. ASSUME NEW j \in Instances, NEW m \in 1 .. Len(queue'[j])
        PROVE  /\ at'[queue'[j][m]] = "queued" /\ home'[queue'[j][m]] = j
               /\ \A k \in 1 .. Len(queue'[j]) : queue'[j][k] = queue'[j][m] => k = m
    <2> HIDE DEF s, q
    <2>1. CASE j = i
      BY <1>3, <1>5, <1>6, <2>1
    <2>2. CASE j # i
      BY <1>3, <1>4, <1>6, <2>2
    <2> QED BY <2>1, <2>2
  <1>7. QueueSound'
    BY <1>3, <1>6 DEF QueueSound
  <1> QED BY <1>1, <1>7

(* A worker takes the question at the front, or a /stop takes one out. *)
LEMMA OutOfQueue ==
    ASSUME IInv, NEW i \in Instances, NEW n \in 1 .. Len(queue[i]), NEW w \in {"taken", "over"},
           Goes(queue[i][n], w), NEW t \in Seq(Questions), queue' = [queue EXCEPT ![i] = t],
           Len(t) = Len(queue[i]) - 1,
           \A m \in 1 .. Len(queue[i]) - 1 : t[m] = queue[i][IF m < n THEN m ELSE m + 1],
           w = "taken" => userCount' = userCount, w = "over" => DecrUser(UserOf[queue[i][n]]),
           UNCHANGED <<home, gate, mapping, marker, inflight, planVars, ended, stopEvent, lostVars>>,
           stops' \in 0 .. MaxStops,
           stop' = stop \/ \E u \in Users : stop' = [stop EXCEPT ![u] =
                                                      [at |-> "finding", found |-> None, on |-> i]]
    PROVE  IInv'
  <1> DEFINE q == queue[i][n]
  <1> USE DEF planVars, lostVars
  <1>1. QueueSound' /\ q \in Questions /\ at[q] = "queued"
    BY QueueLoses
  <1> HIDE DEF q
  <1>2. Goes(q, w)
    BY DEF q
  <1>3. MapSound'
    BY <1>1, <1>2, MapKeeps, Places
  <1>4. GateIsExact'
    BY <1>1, <1>2, GateMoves, Places
  <1>5. UserCountIsExact' /\ userCount' \in [Users -> Nat]
    BY <1>1, <1>2, UserMoves, Places DEF q
  <1>6. Plain'
    BY <1>5 DEF IInv, TypeOK, Plain
  <1>7. at' \in [Questions -> States] /\ home' \in [Questions -> Instances \union {None}]
    <2>1. w \in States
      BY DEF States, Accepted, Working
    <2>2. at \in [Questions -> States] /\ home \in [Questions -> Instances \union {None}]
      BY DEF IInv, TypeOK, States
    <2> QED BY <1>2, <2>1, <2>2 DEF Goes
  <1>8. Cardinality(In(Past)') >= Cardinality(In(Past)) /\ Cardinality(In(Past)') \in Nat
        /\ Cardinality(In(Past)) \in Nat
    <2>1. w \in Past \/ w \notin Past
      OBVIOUS
    <2>2. /\ Cardinality(In(Past)) \in Nat /\ Cardinality(In(Past)') \in Nat
          /\ w \in Past => Cardinality(In(Past)') = Cardinality(In(Past)) + 1
          /\ w \notin Past => Cardinality(In(Past)') = Cardinality(In(Past))
      BY <1>1, <1>2, MovesAll, Places DEF IInv, TypeOK, States
    <2> QED BY <2>2
  <1>9. \A r \in Questions : IF at'[r] = "new" THEN r \notin reserved' \union denied'
                                             ELSE home'[r] \in Instances
    BY <1>1, <1>2 DEF IInv, TypeOK, Sound, Goes
  <1>10. /\ stop' \in [Users -> [at : {"none", "looking", "finding", "marking"},
                                 found : Questions \union {None}, on : Instances \union {None}]]
         /\ \A u \in Users : stop'[u].at # "none" => stop'[u].on \in Instances
    <2>1. CASE stop' = stop
      BY <2>1 DEF IInv, Sound
    <2>2. ASSUME NEW u \in Users, stop' = [stop EXCEPT ![u] = [at |-> "finding", found |-> None, on |-> i]]
          PROVE  <1>10!:
      BY <2>2 DEF IInv, Sound
    <2> QED BY <2>1, <2>2
  <1>11. Sound'
    BY <1>8, <1>9, <1>10 DEF IInv, Sound
  <1> QED BY <1>1, <1>3, <1>4, <1>5, <1>6, <1>7, <1>11, Typed DEF IInv

LEMMA DequeueStep ==
    ASSUME IInv, NEW i \in Instances, Dequeue(i)
    PROVE  IInv'
  <1> DEFINE s == queue[i]
  <1>1. s \in Seq(Questions) /\ s # <<>> /\ Len(s) \in Nat \ {0} /\ s[1] = Head(s)
    <2>1. s \in Seq(Questions) /\ s # <<>>
      BY DEF IInv, QueueSound, Dequeue
    <2>2. Len(s) \in Nat \ {0}
      BY <2>1, EmptySeq
    <2>3. Head(s) = s[1]
      OBVIOUS
    <2> QED BY <2>1, <2>2, <2>3
  <1>2. /\ Tail(s) \in Seq(Questions) /\ Len(Tail(s)) = Len(s) - 1
        /\ \A m \in 1 .. Len(s) - 1 : Tail(s)[m] = s[IF m < 1 THEN m ELSE m + 1]
    <2>1. /\ Tail(s) \in Seq(Questions) /\ Len(Tail(s)) = Len(s) - 1
          /\ \A m \in 1 .. Len(Tail(s)) : Tail(s)[m] = s[m + 1]
      BY <1>1, HeadTailProperties
    <2> QED BY <1>1, <2>1
  <1>3. /\ Goes(s[1], "taken") /\ queue' = [queue EXCEPT ![i] = Tail(s)]
        /\ UNCHANGED <<home, userCount, gate, mapping, marker, inflight, planVars, ended, stopEvent,
                       stop, stops, lostVars>>
    BY <1>1 DEF Dequeue, redisVars, stopVars
  <1>4. stops' \in 0 .. MaxStops
    BY <1>3 DEF IInv, TypeOK
  <1>5. 1 \in 1 .. Len(s)
    BY <1>1
  <1> QED BY <1>2, <1>3, <1>4, <1>5, OutOfQueue

LEMMA StopQueuedStep ==
    ASSUME IInv, NEW u \in Users, NEW i \in Instances, StopQueued(u, i)
    PROVE  IInv'
  <1>1. PICK n \in FirstOf(u, i) : queue' = [queue EXCEPT ![i] = WithoutNth(queue[i], n)]
                                   /\ Goes(queue[i][n], "over")
    BY DEF StopQueued, IInv, QueueSound
  <1>2. n \in 1 .. Len(queue[i]) /\ UserOf[queue[i][n]] = u
    BY DEF FirstOf
  <1>3. queue[i] \in Seq(Questions)
    BY DEF IInv, QueueSound
  <1>4. /\ WithoutNth(queue[i], n) \in Seq(Questions)
        /\ Len(WithoutNth(queue[i], n)) = Len(queue[i]) - 1
        /\ \A m \in 1 .. Len(queue[i]) - 1 :
               WithoutNth(queue[i], n)[m] = queue[i][IF m < n THEN m ELSE m + 1]
    BY <1>2, <1>3, WithoutNthIs
  <1>5. /\ DecrUser(UserOf[queue[i][n]])
        /\ stop' = [stop EXCEPT ![u] = [at |-> "finding", found |-> None, on |-> i]]
        /\ UNCHANGED <<home, gate, mapping, marker, inflight, planVars, ended, stopEvent, lostVars>>
    BY <1>2 DEF StopQueued
  <1>6. stops' \in 0 .. MaxStops
    BY ImAssumption DEF StopQueued, IInv, TypeOK
  <1> QED BY <1>1, <1>2, <1>4, <1>5, <1>6, OutOfQueue

(* Any other move of a question, from the conditions its action meets. *)
LEMMA Move ==
    ASSUME IInv, NEW q \in Questions, NEW w \in States \ {"new", "queued"}, Goes(q, w),
           at[q] \notin {"new", "queued"}, MapSound',
           UNCHANGED <<home, queue, stop, stops, stopEvent, denied, lostGate, lostUser>>,
           reserved' \subseteq reserved, ended' \subseteq ended,
           mapping' \in [Users -> Questions \union {None}], marker' \in [Users -> BOOLEAN],
           at[q] \in Past => w \in Past,
           counted' = counted \/ (at[q] \notin Past /\ w \in Past /\ counted' = counted + 1),
           \/ (at[q] \in Gated <=> w \in Gated) /\ gate' = gate
           \/ at[q] \in Gated /\ w \notin Gated /\ gate' = gate - 1
           \/ at[q] \notin Gated /\ w \in Gated /\ gate' = gate + 1 /\ gate < GlobalMax,
           \/ (at[q] \in Holding <=> w \in Holding) /\ userCount' = userCount
              /\ (w \in Accepted => at[q] \in Accepted)
           \/ at[q] \in Holding /\ w \notin Holding /\ DecrUser(UserOf[q])
           \/ /\ at[q] \notin Holding /\ w \in Holding
              /\ userCount' = [userCount EXCEPT ![UserOf[q]] = @ + 1]
              /\ (w \in Accepted => userCount'[UserOf[q]] <= MaxPerUser)
    PROVE  IInv'
  <1>1. GateIsExact' /\ gate' \in Nat
    BY GateMoves
  <1>2. UserCountIsExact' /\ userCount' \in [Users -> Nat]
    BY UserMoves
  <1>3. Plain'
    BY <1>1, <1>2 DEF IInv, TypeOK, Plain
  <1>4. TypeOK' /\ QueueSound' /\ Sound'
    BY <1>3, MoveKeeps
  <1> QED BY <1>1, <1>2, <1>4 DEF IInv

(* A turn behind the gate goes on. *)
LEMMA TurnMove ==
    ASSUME IInv, NEW q \in Questions, at[q] \in Gated, NEW w \in Gated, Goes(q, w), MapSound',
           UNCHANGED <<home, queue, userCount, gate, stop, stops, stopEvent, denied, lostGate, lostUser>>,
           reserved' \subseteq reserved, ended' \subseteq ended,
           mapping' \in [Users -> Questions \union {None}], marker' \in [Users -> BOOLEAN],
           at[q] \in Past => w \in Past,
           counted' = counted \/ (at[q] \notin Past /\ w \in Past /\ counted' = counted + 1)
    PROVE  IInv'
  <1>1. {at[q], w} \subseteq Accepted /\ {at[q], w} \subseteq Holding /\ w \in States
    BY Places
  <1>2. at[q] \notin {"new", "queued"} /\ w \notin {"new", "queued"}
    BY Places
  <1> QED BY <1>1, <1>2, Move

LEMMA QuestionStep ==
    ASSUME IInv, NEW q \in Questions,
           \/ IncrUser(q) \/ Refuse(q) \/ EnqueueFull(q) \/ Discard(q) \/ PassGate(q)
           \/ Register(q) \/ CheckMarker(q) \/ NotSaved(q) \/ Save(q) \/ Run(q)
           \/ Finish(q) \/ Leave(q) \/ Done(q)
    PROVE  IInv'
  <1> USE DEF redisVars, planVars, stopVars, lostVars
  <1>t. /\ UserOf[q] \in Users /\ mapping \in [Users -> Questions \union {None}]
        /\ marker \in [Users -> BOOLEAN] /\ userCount \in [Users -> Nat]
        /\ at \in [Questions -> States]
    BY ImAssumption DEF IInv, TypeOK, States
  <1>s. {"checked", "excess", "over", "accepted", "taken", "leaving"} \union Gated \subseteq States
    BY DEF States, Accepted, Working
  <1>m. ASSUME NEW w, Goes(q, w), at[q] \in Gated => w \in Gated, UNCHANGED <<inflight, home>>
        PROVE  MapSound'
    BY <1>m, MapKeeps
  <1>1. CASE IncrUser(q)
    <2> DEFINE w == IF userCount'[UserOf[q]] > MaxPerUser THEN "excess" ELSE "accepted"
    <2>1. /\ at[q] = "checked" /\ Goes(q, w)
          /\ userCount' = [userCount EXCEPT ![UserOf[q]] = @ + 1]
          /\ UNCHANGED <<home, queue, gate, mapping, marker, inflight, reserved, denied, counted,
                         ended, stopEvent, stop, stops, lostGate, lostUser>>
      BY <1>1 DEF IncrUser
    <2>2. w \in {"excess", "accepted"} /\ (w = "accepted" => userCount'[UserOf[q]] <= MaxPerUser)
      <3>1. userCount'[UserOf[q]] \in Nat /\ MaxPerUser \in Nat
        BY <1>t, <2>1, ImAssumption
      <3> QED BY <3>1
    <2> HIDE DEF w
    <2>3. MapSound'
      BY <1>m, <2>1, Places
    <2>4. w \in States \ {"new", "queued"} /\ w \notin Gated /\ w \in Holding /\ w \notin Past
          /\ (w \in Accepted => w = "accepted")
      BY <2>2, <1>s, Places
    <2> QED BY <1>t, <2>1, <2>2, <2>3, <2>4, Places, Move
  <1>2. CASE Refuse(q)
    BY <1>2, <1>t, <1>s, <1>m, Places, Move DEF Refuse
  <1>3. CASE EnqueueFull(q)
    BY <1>3, <1>t, <1>s, <1>m, Places, Move DEF EnqueueFull
  <1>4. CASE Discard(q)
    BY <1>4, <1>t, <1>s, <1>m, Places, Move DEF Discard
  <1>5. CASE PassGate(q)
    BY <1>5, <1>t, <1>s, <1>m, Places, Move DEF PassGate
  <1>6. CASE Register(q)
    <2>1. /\ at[q] = "passed" /\ Goes(q, "registered") /\ home[q] \in Instances
          /\ inflight' = [inflight EXCEPT ![home[q]][UserOf[q]] = [req |-> q, ids |-> None]]
      BY <1>6 DEF Register, IInv, Sound
    <2>2. MapSound'
      <3>1. [req |-> q, ids |-> None] \in Entry
        BY DEF Entry
      <3>2. inflight' \in [Instances -> [Users -> Entry]]
        BY <1>t, <2>1, <3>1 DEF IInv, MapSound
      <3>3. \A i \in Instances, u \in Users :
                inflight'[i][u] = IF i = home[q] /\ u = UserOf[q] THEN [req |-> q, ids |-> None]
                                                                ELSE inflight[i][u]
        BY <1>t, <2>1 DEF IInv, MapSound
      <3>4. \A r \in Questions : at'[r] = IF r = q THEN "registered" ELSE at[r]
        BY <1>t, <2>1 DEF Goes
      <3>5. home' = home
        BY <1>6 DEF Register
      <3>6. ASSUME NEW i \in Instances, NEW u \in Users, inflight'[i][u].req # None
            PROVE  /\ at'[inflight'[i][u].req] \in Gated /\ home[inflight'[i][u].req] = i
                   /\ UserOf[inflight'[i][u].req] = u
        <4>1. CASE i = home[q] /\ u = UserOf[q]
          BY <3>3, <3>4, <4>1, Places
        <4>2. CASE ~ (i = home[q] /\ u = UserOf[q])
          <5>1. inflight'[i][u] = inflight[i][u] /\ inflight[i][u].req \in Questions
            BY <3>3, <3>6, <4>2 DEF IInv, MapSound, Entry
          <5> QED BY <3>4, <3>6, <5>1, Places DEF IInv, MapSound
        <4> QED BY <4>1, <4>2
      <3> QED BY <3>2, <3>5, <3>6 DEF MapSound
    <2>3. "registered" \in Gated /\ "passed" \in Gated /\ "passed" \notin Past
      BY Places
    <2> QED BY <1>6, <1>t, <2>1, <2>2, <2>3, TurnMove DEF Register
  <1>7. CASE CheckMarker(q)
    <2>1. PICK w \in {"closing", "starting"} : Goes(q, w)
      BY <1>7 DEF CheckMarker
    <2>2. /\ at[q] = "registered" /\ marker' = [marker EXCEPT ![UserOf[q]] = FALSE]
          /\ reserved' \subseteq reserved
          /\ UNCHANGED <<home, queue, userCount, gate, mapping, inflight, denied, counted, ended,
                         stopEvent, stop, stops, lostGate, lostUser>>
      BY <1>7 DEF CheckMarker
    <2>3. w \in Gated /\ "registered" \in Gated /\ "registered" \notin Past
      BY Places
    <2>4. MapSound'
      BY <1>m, <2>1, <2>2, <2>3
    <2>5. marker' \in [Users -> BOOLEAN]
      BY <1>t, <2>2
    <2> QED BY <1>t, <2>1, <2>2, <2>3, <2>4, <2>5, TurnMove
  <1>8. CASE NotSaved(q)
    <2>1. /\ at[q] = "starting" /\ Goes(q, "closing")
          /\ UNCHANGED <<home, queue, userCount, gate, mapping, marker, inflight, denied, counted,
                         ended, stopEvent, stop, stops, lostGate, lostUser>>
      BY <1>8 DEF NotSaved
    <2>2. MapSound'
      BY <1>m, <2>1, Places
    <2>3. {"starting", "closing"} \subseteq Gated
      BY Places
    <2>4. reserved' \subseteq reserved
      BY <1>8 DEF NotSaved
    <2> QED BY <1>t, <2>1, <2>2, <2>3, <2>4, Places, TurnMove
  <1>9. CASE Save(q)
    <2>1. /\ at[q] = "starting" /\ Goes(q, "saved")
          /\ UNCHANGED <<home, queue, userCount, gate, mapping, marker, inflight, reserved, denied,
                         ended, stopEvent, stop, stops, lostGate, lostUser>>
      BY <1>9 DEF Save
    <2>2. MapSound'
      BY <1>m, <2>1, Places
    <2>3. {"starting", "saved"} \subseteq Gated
      BY Places
    <2>4. counted' = counted + 1 /\ "saved" \in Past /\ "starting" \notin Past
      BY <1>9 DEF Save, Past
    <2> QED BY <1>t, <2>1, <2>2, <2>3, <2>4, TurnMove
  <1>11. CASE Finish(q)
    <2>1. /\ at[q] = "running" /\ Goes(q, "closing")
          /\ UNCHANGED <<home, queue, userCount, gate, marker, inflight, reserved, denied, counted,
                         ended, stopEvent, stop, stops, lostGate, lostUser>>
      BY <1>11 DEF Finish
    <2>2. MapSound'
      BY <1>m, <2>1, Places
    <2>3. {"running", "closing"} \subseteq Gated
      BY Places
    <2>4. mapping' \in [Users -> Questions \union {None}] /\ "closing" \in Past
      BY <1>11, <1>t DEF Finish, Past
    <2> QED BY <1>t, <2>1, <2>2, <2>3, <2>4, TurnMove
  <1>13. CASE Done(q)
    <2>1. /\ at[q] = "leaving" /\ Goes(q, "over") /\ DecrUser(UserOf[q])
          /\ UNCHANGED <<home, queue, gate, mapping, marker, inflight, reserved, denied, counted, ended,
                         stopEvent, stop, stops, lostGate, lostUser>>
      BY <1>13 DEF Done
    <2>2. MapSound'
      BY <1>m, <2>1, Places
    <2>3. /\ "over" \in (States \ {"new", "queued"}) \intersect Past /\ "leaving" \in Holding
          /\ "over" \notin Holding /\ "over" \notin Gated /\ "leaving" \notin Gated
      BY <1>s, Places DEF Past
    <2> QED BY <1>t, <2>1, <2>2, <2>3, Move
  <1>10. CASE Run(q)
    <2> DEFINE e == inflight[home[q]][UserOf[q]]
    <2>1. /\ at[q] = "saved" /\ Goes(q, "running") /\ home[q] \in Instances
          /\ inflight' = [inflight EXCEPT ![home[q]][UserOf[q]] =
                             IF e.req = None THEN e ELSE [e EXCEPT !.ids = q]]
      BY <1>10 DEF Run, IInv, Sound
    <2>2. MapSound'
      <3>1. e \in Entry /\ [e EXCEPT !.ids = q] \in Entry /\ [e EXCEPT !.ids = q].req = e.req
        BY <1>t, <2>1 DEF IInv, MapSound, Entry
      <3>2. inflight' \in [Instances -> [Users -> Entry]]
        BY <1>t, <2>1, <3>1 DEF IInv, MapSound
      <3>3. \A i \in Instances, u \in Users : inflight'[i][u].req = inflight[i][u].req
        BY <1>t, <2>1, <3>1 DEF IInv, MapSound
      <3>4. \A r \in Questions : at'[r] = IF r = q THEN "running" ELSE at[r]
        BY <1>t, <2>1 DEF Goes
      <3>5. home' = home
        BY <1>10 DEF Run
      <3>6. \A r : at[r] \in Gated /\ r \in Questions => at'[r] \in Gated
        BY <3>4, Places
      <3>7. \A i \in Instances, u \in Users : inflight[i][u].req # None => inflight[i][u].req \in Questions
        BY DEF IInv, MapSound, Entry
      <3> QED BY <3>2, <3>3, <3>5, <3>6, <3>7 DEF IInv, MapSound
    <2>3. mapping' \in [Users -> Questions \union {None}]
      BY <1>10, <1>t DEF Run
    <2>4. "saved" \in Gated /\ "running" \in Gated \intersect Past
      BY Places DEF Past
    <2>5. reserved' \subseteq reserved
          /\ UNCHANGED <<home, queue, userCount, gate, marker, denied, counted, ended, stopEvent, stop,
                         stops, lostGate, lostUser>>
      BY <1>10 DEF Run
    <2> QED BY <1>t, <2>1, <2>2, <2>3, <2>4, <2>5, TurnMove
  <1>12. CASE Leave(q)
    <2>1. /\ at[q] = "closing" /\ Goes(q, "leaving") /\ home[q] \in Instances
          /\ inflight' = [inflight EXCEPT ![home[q]][UserOf[q]] = Idle]
      BY <1>12 DEF Leave, IInv, Sound
    <2>2. MapSound'
      <3>1. Idle \in Entry /\ Idle.req = None
        BY DEF Entry, Idle
      <3>2. inflight' \in [Instances -> [Users -> Entry]]
        BY <1>t, <2>1, <3>1 DEF IInv, MapSound
      <3>3. \A i \in Instances, u \in Users :
                inflight'[i][u] = IF i = home[q] /\ u = UserOf[q] THEN Idle ELSE inflight[i][u]
        BY <1>t, <2>1 DEF IInv, MapSound
      <3>4. \A r \in Questions : r # q => at'[r] = at[r]
        BY <1>t, <2>1 DEF Goes
      <3>5. home' = home
        BY <1>12 DEF Leave
      <3>6. ASSUME NEW i \in Instances, NEW u \in Users, inflight'[i][u].req # None
            PROVE  /\ at'[inflight'[i][u].req] \in Gated /\ home[inflight'[i][u].req] = i
                   /\ UserOf[inflight'[i][u].req] = u
        <4>1. ~ (i = home[q] /\ u = UserOf[q]) /\ inflight'[i][u] = inflight[i][u]
          BY <3>1, <3>3, <3>6
        <4>2. /\ inflight[i][u].req \in Questions /\ home[inflight[i][u].req] = i
              /\ UserOf[inflight[i][u].req] = u /\ at[inflight[i][u].req] \in Gated
          BY <3>6, <4>1 DEF IInv, MapSound, Entry
        <4> QED BY <3>4, <4>1, <4>2
      <3> QED BY <3>2, <3>5, <3>6 DEF MapSound
    <2>3. ended' \subseteq ended
      BY <1>12 DEF Leave
    <2>4. /\ "closing" \in Gated \intersect Holding /\ "leaving" \in (Accepted \intersect Past) \ Gated
          /\ "leaving" \in Holding /\ "closing" \in Accepted /\ "leaving" \in States \ {"new", "queued"}
      BY <1>s, Places DEF Past
    <2>5. /\ gate' = gate - 1
          /\ UNCHANGED <<home, queue, userCount, mapping, marker, reserved, denied, counted, stopEvent,
                         stop, stops, lostGate, lostUser>>
      BY <1>12 DEF Leave
    <2> QED BY <1>t, <2>1, <2>2, <2>3, <2>4, <2>5, Move
  <1> QED BY <1>1, <1>2, <1>3, <1>4, <1>5, <1>6, <1>7, <1>8, <1>9, <1>10, <1>11, <1>12, <1>13

(* Places stay; a place under the cap, the map, a /stop or a counter changes. *)
LEMMA Still ==
    ASSUME IInv, UNCHANGED <<at, home, queue, denied, counted>>, reserved' \subseteq reserved,
           MapSound', Plain', GateIsExact', UserCountIsExact',
           stop' \in [Users -> [at : {"none", "looking", "finding", "marking"},
                                found : Questions \union {None}, on : Instances \union {None}]],
           \A u \in Users : stop'[u].at # "none" => stop'[u].on \in Instances
    PROVE  IInv'
  <1>1. at' \in [Questions -> States] /\ home' \in [Questions -> Instances \union {None}]
    BY DEF IInv, TypeOK, States
  <1>2. QueueSound'
    BY DEF IInv, QueueSound
  <1>3. In(Past)' = In(Past)
    BY DEF In
  <1>4. \A q \in Questions : IF at'[q] = "new" THEN q \notin reserved' \union denied'
                                             ELSE home'[q] \in Instances
    BY DEF IInv, Sound
  <1>5. Sound'
    BY <1>3, <1>4 DEF IInv, Sound
  <1> QED BY <1>1, <1>2, <1>5, Typed DEF IInv

LEMMA StillCounted ==
    ASSUME IInv, UNCHANGED <<at, userCount, gate, lostGate, lostUser>>
    PROVE  GateIsExact' /\ UserCountIsExact'
  BY DEF IInv, GateIsExact, UserCountIsExact, In

LEMMA StillMapped ==
    ASSUME IInv, UNCHANGED <<at, home, inflight>>
    PROVE  MapSound'
  BY DEF IInv, MapSound

(* Watchers, the plan's timers, and what a /stop does outside the queue. *)
LEMMA OtherStep ==
    ASSUME IInv,
           \/ \E q \in Questions : Watch(q) \/ ReservationExpires(q)
           \/ \E u \in Users : MarkerExpires(u) \/ StopRunning(u) \/ StopWrite(u) \/ StopMark(u)
           \/ \E u \in Users, i \in Instances : StopNotQueued(u, i)
    PROVE  IInv'
  <1> USE DEF redisVars, planVars, stopVars, lostVars
  <1> DEFINE Stop == [at : {"none", "looking", "finding", "marking"},
                      found : Questions \union {None}, on : Instances \union {None}]
  <1>t. /\ Plain /\ stop \in [Users -> Stop] /\ MaxStops \in Nat
        /\ \A u \in Users : stop[u].at # "none" => stop[u].on \in Instances
        /\ \A i \in Instances, u \in Users : inflight[i][u] \in Entry
    BY ImAssumption DEF IInv, TypeOK, Plain, Sound, MapSound
  <1>1. ASSUME NEW q \in Questions, Watch(q)
        PROVE  IInv'
    <2>1. Plain'
      BY <1>1, <1>t DEF Watch, Plain
    <2> QED BY <1>1, <1>t, <2>1, Still, StillCounted, StillMapped DEF Watch
  <1>2. ASSUME NEW q \in Questions, ReservationExpires(q)
        PROVE  IInv'
    <2>1. Plain' /\ reserved' \subseteq reserved
      BY <1>2, <1>t DEF ReservationExpires, Plain
    <2> QED BY <1>2, <1>t, <2>1, Still, StillCounted, StillMapped DEF ReservationExpires
  <1>3. ASSUME NEW u \in Users, MarkerExpires(u)
        PROVE  IInv'
    <2>1. Plain'
      BY <1>3, <1>t DEF MarkerExpires, Plain
    <2> QED BY <1>3, <1>t, <2>1, Still, StillCounted, StillMapped DEF MarkerExpires
  <1>4. ASSUME NEW u \in Users, StopMark(u)
        PROVE  IInv'
    <2>1. Plain'
      BY <1>4, <1>t DEF StopMark, Plain
    <2>2. /\ stop' \in [Users -> Stop] /\ \A v \in Users : stop'[v].at # "none" => stop'[v].on \in Instances
      BY <1>4, <1>t DEF StopMark, NoStop
    <2> QED BY <1>4, <2>1, <2>2, Still, StillCounted, StillMapped DEF StopMark
  <1>5. ASSUME NEW u \in Users, NEW i \in Instances, StopNotQueued(u, i)
        PROVE  IInv'
    <2>1. stops' \in 0 .. MaxStops
      BY <1>5, <1>t DEF StopNotQueued, Plain
    <2>2. Plain'
      BY <1>5, <1>t, <2>1 DEF StopNotQueued, Plain
    <2>3. stop' = [stop EXCEPT ![u] = [at |-> "looking", found |-> None, on |-> i]]
      BY <1>5 DEF StopNotQueued
    <2>4. /\ stop' \in [Users -> Stop] /\ \A v \in Users : stop'[v].at # "none" => stop'[v].on \in Instances
      BY <1>t, <2>3
    <2> QED BY <1>5, <2>2, <2>4, Still, StillCounted, StillMapped DEF StopNotQueued
  <1>6. ASSUME NEW u \in Users, StopWrite(u)
        PROVE  IInv'
    <2>1. stopEvent' \subseteq Questions
      BY <1>6, <1>t DEF StopWrite, Plain
    <2>2. Plain'
      BY <1>6, <1>t, <2>1 DEF StopWrite, Plain
    <2>3. /\ stop[u].at = "finding" /\ stop[u] \in Stop
          /\ stop' = [stop EXCEPT ![u] = [stop[u] EXCEPT !.at = "marking", !.found = None]]
      BY <1>6, <1>t DEF StopWrite
    <2> DEFINE g == [stop[u] EXCEPT !.at = "marking", !.found = None]
    <2>4. g \in Stop /\ g.on = stop[u].on
      BY <2>3
    <2> HIDE DEF g
    <2>5. stop[u].on \in Instances
      BY <1>t, <2>3
    <2>6. /\ stop' \in [Users -> Stop] /\ \A v \in Users : stop'[v].at # "none" => stop'[v].on \in Instances
      BY <1>t, <2>3, <2>4, <2>5 DEF g
    <2> QED BY <1>6, <2>2, <2>6, Still, StillCounted, StillMapped DEF StopWrite
  <1>7. ASSUME NEW u \in Users, StopRunning(u)
        PROVE  IInv'
    <2> DEFINE j == stop[u].on
               e == inflight[j][u]
    <2>1. /\ stop[u].at = "looking" /\ stop[u] \in Stop /\ j \in Instances /\ e \in Entry
          /\ inflight' = [inflight EXCEPT ![j][u] = Idle]
          /\ stop' = [stop EXCEPT ![u] = [stop[u] EXCEPT !.at = "finding", !.found = e.ids]]
          /\ ended' = ended \union ({e.req} \ {None})
      BY <1>7, <1>t DEF StopRunning
    <2>3. e.ids \in Questions \union {None} /\ e.req \in Questions \union {None}
      BY <2>1 DEF Entry
    <2> DEFINE g == [stop[u] EXCEPT !.at = "finding", !.found = e.ids]
    <2>2. g \in Stop /\ g.on = j
      BY <2>1, <2>3
    <2> HIDE DEF j, e, g
    <2>4. /\ stop' \in [Users -> Stop] /\ \A v \in Users : stop'[v].at # "none" => stop'[v].on \in Instances
      BY <1>t, <2>1, <2>2 DEF g
    <2>5. ended' \subseteq Questions
      BY <1>t, <2>1, <2>3 DEF Plain
    <2>6. Plain'
      BY <1>7, <1>t, <2>5 DEF StopRunning, Plain
    <2>7. MapSound'
      <3>1. Idle \in Entry /\ Idle.req = None
        BY DEF Entry, Idle
      <3>2. inflight' \in [Instances -> [Users -> Entry]]
        BY <2>1, <3>1 DEF IInv, MapSound
      <3>3. \A i \in Instances, v \in Users :
                inflight'[i][v] = IF i = j /\ v = u THEN Idle ELSE inflight[i][v]
        BY <2>1 DEF IInv, MapSound
      <3>4. at' = at /\ home' = home
        BY <1>7 DEF StopRunning
      <3> QED BY <3>1, <3>2, <3>3, <3>4 DEF IInv, MapSound
    <2> QED BY <1>7, <2>4, <2>6, <2>7, Still, StillCounted DEF StopRunning
  <1> QED BY <1>1, <1>2, <1>3, <1>4, <1>5, <1>6, <1>7

(* Counters expire, when nobody uses them. *)
LEMMA ExpiryStep ==
    ASSUME IInv, ~ Slow, GateExpires \/ \E u \in Users : UserExpires(u)
    PROVE  IInv'
  <1> USE DEF redisVars, planVars, stopVars, lostVars
  <1>t. /\ Plain /\ MapSound /\ GateIsExact /\ UserCountIsExact
        /\ stop \in [Users -> [at : {"none", "looking", "finding", "marking"},
                               found : Questions \union {None}, on : Instances \union {None}]]
        /\ \A u \in Users : stop[u].at # "none" => stop[u].on \in Instances
    BY DEF IInv, TypeOK, Plain, Sound
  <1>1. CASE GateExpires
    <2>1. Plain'
      BY <1>1, <1>t DEF GateExpires, Plain
    <2>2. In(Gated)' = In(Gated) /\ In(Gated) = {} /\ gate' = 0 /\ lostGate' = 0
      BY <1>1 DEF GateExpires, In
    <2>3. GateIsExact'
      BY <1>t, <2>2, FS_EmptySet DEF GateIsExact
    <2>4. UserCountIsExact'
      BY <1>1, <1>t DEF GateExpires, UserCountIsExact, In
    <2> QED BY <1>1, <1>t, <2>1, <2>3, <2>4, Still, StillMapped DEF GateExpires
  <1>2. ASSUME NEW u \in Users, UserExpires(u)
        PROVE  IInv'
    <2>1. Plain'
      BY <1>2, <1>t DEF UserExpires, Plain
    <2>2. GateIsExact'
      BY <1>2, <1>t DEF UserExpires, GateIsExact, In
    <2>3. \A S : In(S)' = In(S)
      BY <1>2 DEF UserExpires, In
    <2>4. ASSUME NEW v \in Users
          PROVE  /\ userCount'[v] = Cardinality(Asked(v) \intersect In(Accepted \union {"excess"}))
                                    + lostUser'[v]
                 /\ Cardinality(Asked(v) \intersect In(Accepted)) <= MaxPerUser
      <3>1. CASE v = u
        <4>1. userCount'[v] = 0 /\ lostUser'[v] = 0
          BY <1>2, <1>t, <3>1 DEF UserExpires, Plain
        <4>2. Asked(v) \intersect In(Accepted \union {"excess"}) = {}
          BY <1>2, <3>1 DEF UserExpires
        <4>3. Cardinality(Asked(v) \intersect In(Accepted)) <= MaxPerUser
          BY <1>t DEF UserCountIsExact
        <4>4. Cardinality(Asked(v) \intersect In(Accepted \union {"excess"})) = 0
          BY <4>2, FS_EmptySet
        <4> QED BY <4>1, <4>3, <4>4
      <3>2. CASE v # u
        BY <1>2, <1>t, <3>2 DEF UserExpires, Plain, UserCountIsExact
      <3> QED BY <3>1, <3>2
    <2>5. UserCountIsExact'
      BY <2>3, <2>4 DEF UserCountIsExact
    <2> QED BY <1>2, <1>t, <2>1, <2>2, <2>5, Still, StillMapped DEF UserExpires
  <1> QED BY <1>1, <1>2

(* A process dies: its questions leave every count for those of the dead. *)
LEMMA CrashStep ==
    ASSUME IInv, NEW i \in Instances, Crash(i)
    PROVE  IInv'
  <1> USE DEF redisVars
  <1> DEFINE gone == {q \in In(Accepted \union {"checked", "excess"}) : home[q] = i}
             Stop == [at : {"none", "looking", "finding", "marking"},
                      found : Questions \union {None}, on : Instances \union {None}]
  <1>t. /\ TypeOK /\ QueueSound /\ MapSound /\ Sound /\ GateIsExact /\ UserCountIsExact
        /\ at \in [Questions -> States]
    BY DEF IInv, TypeOK, States
  <1>1. /\ at' = [q \in Questions |-> IF q \in gone THEN "over" ELSE at[q]]
        /\ queue' = [queue EXCEPT ![i] = <<>>]
        /\ inflight' = [inflight EXCEPT ![i] = [u \in Users |-> Idle]]
        /\ reserved' = reserved \ {q \in Questions : home[q] = i}
        /\ ended' = ended \ gone
        /\ stop' = [u \in Users |-> IF stop[u].on = i THEN NoStop ELSE stop[u]]
        /\ lostGate' = lostGate + Cardinality(gone \intersect In(Gated))
        /\ lostUser' = [u \in Users |-> lostUser[u]
                          + Cardinality((gone \ In({"checked"})) \intersect Asked(u))]
        /\ UNCHANGED <<home, userCount, gate, mapping, marker, denied, counted, stopEvent, stops>>
    BY DEF Crash
  <1>2. /\ gone \in SUBSET Questions
        /\ \A q \in gone : at[q] \in States /\ at[q] # "new" /\ at[q] # "over" /\ home[q] = i
        /\ \A q \in Questions : q \in gone <=> home[q] = i /\ at[q] \in Accepted \union {"checked", "excess"}
    <2>1. "new" \notin Accepted /\ "over" \notin Accepted
      BY Places
    <2> QED BY <1>t, <2>1 DEF In
  <1>h. \A q \in Questions : at'[q] = IF q \in gone THEN "over" ELSE at[q]
    BY <1>1
  <1> HIDE DEF gone
  <1>3. at' \in [Questions -> States] /\ home' \in [Questions -> Instances \union {None}]
    BY <1>t, <1>1, Places DEF TypeOK, States
  <1>4. QueueSound'
    <2>1. queue' \in [Instances -> Seq(Questions)]
      BY <1>t, <1>1 DEF QueueSound
    <2>2. queue'[i] = <<>> /\ \A j \in Instances : j # i => queue'[j] = queue[j]
      BY <1>t, <1>1 DEF QueueSound
    <2>3. ASSUME NEW j \in Instances, NEW n \in 1 .. Len(queue'[j])
          PROVE  /\ at'[queue'[j][n]] = "queued" /\ home'[queue'[j][n]] = j
                 /\ \A m \in 1 .. Len(queue'[j]) : queue'[j][m] = queue'[j][n] => m = n
      <3>1. j # i
        BY <2>2, <2>3
      <3>2. queue'[j] = queue[j] /\ queue[j] \in Seq(Questions)
        BY <1>t, <2>2, <3>1 DEF QueueSound
      <3>3. /\ at[queue[j][n]] = "queued" /\ home[queue[j][n]] = j /\ queue[j][n] \in Questions
            /\ \A m \in 1 .. Len(queue[j]) : queue[j][m] = queue[j][n] => m = n
        BY <1>t, <2>3, <3>2, ElementOfSeq DEF QueueSound
      <3>4. queue[j][n] \notin gone
        BY <1>2, <3>1, <3>3
      <3> QED BY <1>1, <1>h, <3>2, <3>3, <3>4
    <2> QED BY <2>1, <2>3 DEF QueueSound
  <1>5. MapSound'
    <2>1. [u \in Users |-> Idle] \in [Users -> Entry] /\ Idle.req = None
      BY DEF Entry, Idle
    <2>2. /\ inflight' \in [Instances -> [Users -> Entry]] /\ inflight'[i] = [u \in Users |-> Idle]
          /\ \A j \in Instances : j # i => inflight'[j] = inflight[j]
      BY <1>t, <1>1, <2>1 DEF MapSound
    <2>3. ASSUME NEW j \in Instances, NEW u \in Users, inflight'[j][u].req # None
          PROVE  /\ at'[inflight'[j][u].req] \in Gated /\ home'[inflight'[j][u].req] = j
                 /\ UserOf[inflight'[j][u].req] = u
      <3>1. j # i /\ inflight'[j] = inflight[j]
        BY <2>1, <2>2, <2>3
      <3>2. /\ inflight[j][u].req \in Questions /\ home[inflight[j][u].req] = j
            /\ UserOf[inflight[j][u].req] = u /\ at[inflight[j][u].req] \in Gated
        BY <1>t, <2>3, <3>1 DEF MapSound, Entry
      <3>3. inflight[j][u].req \notin gone
        BY <1>2, <3>1, <3>2
      <3> QED BY <1>1, <1>h, <3>1, <3>2, <3>3
    <2> QED BY <2>2, <2>3 DEF MapSound
  <1>6. GateIsExact'
    <2> DEFINE X == In(Gated)
    <2>1. In(Gated)' = X \ gone
      BY <1>h, Places DEF In
    <2>2. X \in SUBSET Questions
      BY DEF In
    <2> HIDE DEF X
    <2>3. IsFiniteSet(X) /\ Cardinality(X) \in Nat
          /\ Cardinality(X \ gone) \in Nat /\ Cardinality(X \intersect gone) \in Nat
      BY <2>2, Finite
    <2>4. Cardinality(X \ gone) = Cardinality(X) - Cardinality(X \intersect gone)
      BY <2>3, FS_Difference
    <2>5. X \intersect gone = gone \intersect X
      OBVIOUS
    <2>6. gate = Cardinality(X) + lostGate /\ Cardinality(X) <= GlobalMax
      BY <1>t DEF GateIsExact, X
    <2>7. lostGate' = lostGate + Cardinality(X \intersect gone) /\ gate' = gate
      BY <1>1, <2>5 DEF X
    <2>8. gate \in Nat /\ lostGate \in Nat /\ GlobalMax \in Nat
      BY <1>t, ImAssumption DEF TypeOK
    <2>9. gate' = Cardinality(X \ gone) + lostGate' /\ Cardinality(X \ gone) <= GlobalMax
      BY <2>3, <2>4, <2>6, <2>7, <2>8
    <2> QED BY <2>1, <2>9 DEF GateIsExact
  <1>7. UserCountIsExact'
    <2>1. ASSUME NEW u \in Users
          PROVE  /\ userCount'[u] = Cardinality(Asked(u) \intersect In(Holding)') + lostUser'[u]
                 /\ Cardinality(Asked(u) \intersect In(Accepted)') <= MaxPerUser
      <3> DEFINE X == Asked(u) \intersect In(Holding)
                 Y == Asked(u) \intersect In(Accepted)
      <3>1. Asked(u) \intersect In(Holding)' = X \ gone /\ Asked(u) \intersect In(Accepted)' = Y \ gone
        BY <1>h, Places DEF In
      <3>2. (gone \ In({"checked"})) \intersect Asked(u) = X \intersect gone
        BY <1>2, Places DEF In, Holding
      <3>3. X \in SUBSET Questions /\ Y \in SUBSET Questions
        BY DEF In
      <3>4. /\ userCount[u] = Cardinality(X) + lostUser[u] /\ Cardinality(Y) <= MaxPerUser
            /\ lostUser[u] \in Nat /\ userCount'[u] = userCount[u] /\ MaxPerUser \in Nat
        BY <1>t, <1>1, ImAssumption DEF UserCountIsExact, TypeOK, Holding
      <3>5. lostUser'[u] = lostUser[u] + Cardinality(X \intersect gone)
        BY <1>1, <3>2
      <3> HIDE DEF X, Y
      <3>6. /\ IsFiniteSet(X) /\ Cardinality(X) \in Nat /\ Cardinality(X \ gone) \in Nat
            /\ Cardinality(X \intersect gone) \in Nat
        BY <3>3, Finite
      <3>7. Cardinality(X \ gone) = Cardinality(X) - Cardinality(X \intersect gone)
        BY <3>6, FS_Difference
      <3>8. Cardinality(Y \ gone) <= Cardinality(Y) /\ Cardinality(Y \ gone) \in Nat /\ Cardinality(Y) \in Nat
        BY <3>3, Finite, FS_Subset
      <3>9. /\ userCount'[u] = Cardinality(X \ gone) + lostUser'[u] /\ Cardinality(Y \ gone) <= MaxPerUser
        BY <3>4, <3>5, <3>6, <3>7, <3>8
      <3> QED BY <3>1, <3>9
    <2> QED BY <2>1 DEF UserCountIsExact, Holding
  <1>8. Plain'
    <2>1. lostGate' \in Nat
      <3>1. gone \intersect In(Gated) \in SUBSET Questions
        BY <1>2
      <3>2. Cardinality(gone \intersect In(Gated)) \in Nat /\ lostGate \in Nat
        BY <1>t, <3>1, Finite DEF TypeOK
      <3> QED BY <1>1, <3>2
    <2>2. lostUser' \in [Users -> Nat]
      <3>1. \A u \in Users : (gone \ In({"checked"})) \intersect Asked(u) \in SUBSET Questions
        BY <1>2
      <3>2. \A u \in Users : Cardinality((gone \ In({"checked"})) \intersect Asked(u)) \in Nat
        BY <3>1, Finite
      <3>3. lostUser \in [Users -> Nat]
        BY <1>t DEF TypeOK
      <3>4. \A u \in Users : lostUser[u] + Cardinality((gone \ In({"checked"})) \intersect Asked(u)) \in Nat
        BY <3>2, <3>3
      <3> QED BY <1>1, <3>4
    <2> QED BY <1>t, <1>1, <2>1, <2>2 DEF TypeOK, Plain
  <1>9. counted' \in Nat /\ counted' <= Cardinality(In(Past)')
    <2>1. In(Past) \in SUBSET In(Past)' /\ In(Past)' \in SUBSET Questions
      BY <1>h DEF In, Past
    <2>2. /\ Cardinality(In(Past)) <= Cardinality(In(Past)') /\ Cardinality(In(Past)') \in Nat
          /\ Cardinality(In(Past)) \in Nat
      BY <2>1, Finite, FS_Subset
    <2> QED BY <1>t, <1>1, <2>2 DEF Sound
  <1>10. \A q \in Questions : IF at'[q] = "new" THEN q \notin reserved' \union denied'
                                              ELSE home'[q] \in Instances
    BY <1>t, <1>1, <1>2, <1>h DEF Sound
  <1>11. stop' \in [Users -> Stop] /\ \A u \in Users : stop'[u].at # "none" => stop'[u].on \in Instances
    <2>1. NoStop \in Stop /\ NoStop.at = "none"
      BY DEF NoStop
    <2> QED BY <1>t, <1>1, <2>1 DEF Sound
  <1>12. Sound'
    BY <1>9, <1>10, <1>11 DEF Sound
  <1> QED BY <1>3, <1>4, <1>5, <1>6, <1>7, <1>8, <1>12, Typed DEF IInv

-----------------------------------------------------------------------------
LEMMA InitIInv == Init => IInv
  <1> SUFFICES ASSUME Init PROVE IInv
    OBVIOUS
  <1>1. \A S \in SUBSET (States \ {"new"}) : In(S) = {}
    BY DEF Init, In
  <1>2. In(Gated) = {} /\ In(Accepted) = {} /\ In(Holding) = {} /\ In(Past) = {}
    BY <1>1, Places
  <1>3. Cardinality({}) = 0
    BY FS_EmptySet
  <1>4. GateIsExact
    BY <1>2, <1>3, ImAssumption DEF Init, GateIsExact
  <1>5. UserCountIsExact
    <2>1. \A u \in Users : Asked(u) \intersect In(Accepted \union {"excess"}) = {}
                           /\ Asked(u) \intersect In(Accepted) = {}
      BY <1>2 DEF Holding
    <2>2. \A u \in Users : userCount[u] = 0 /\ lostUser[u] = 0
      BY DEF Init
    <2>3. MaxPerUser \in Nat /\ 0 <= MaxPerUser
      BY ImAssumption
    <2>4. ASSUME NEW u \in Users
          PROVE  /\ userCount[u] = Cardinality(Asked(u) \intersect In(Accepted \union {"excess"}))
                                   + lostUser[u]
                 /\ Cardinality(Asked(u) \intersect In(Accepted)) <= MaxPerUser
      <3>1. /\ Cardinality(Asked(u) \intersect In(Accepted \union {"excess"})) = 0
            /\ Cardinality(Asked(u) \intersect In(Accepted)) = 0
        BY <1>3, <2>1, Zenon
      <3> QED BY <2>2, <2>3, <3>1
    <2> QED BY <2>4 DEF UserCountIsExact
  <1>6. QueueSound
    <2>1. \A j \in Instances : queue[j] = <<>>
      BY DEF Init
    <2>2. queue \in [Instances -> Seq(Questions)]
      BY DEF Init
    <2> QED BY <2>1, <2>2 DEF QueueSound
  <1>7. MapSound
    <2>1. Idle \in Entry /\ Idle.req = None
      BY DEF Entry, Idle
    <2> QED BY <2>1 DEF Init, MapSound
  <1>8. Sound
    <2>1. NoStop \in [at : {"none", "looking", "finding", "marking"},
                      found : Questions \union {None}, on : Instances \union {None}] /\ NoStop.at = "none"
      BY DEF NoStop
    <2> QED BY <1>2, <1>3, <2>1 DEF Init, Sound
  <1>9. TypeOK
    <2>1. Cardinality(Questions) \in Nat
      BY Finite
    <2>2. counted \in 0 .. Cardinality(Questions)
      BY <2>1 DEF Init
    <2>3. stops \in 0 .. MaxStops
      BY ImAssumption DEF Init
    <2> QED BY <1>6, <1>7, <2>2, <2>3 DEF Init, TypeOK, QueueSound, MapSound
  <1> QED BY <1>4, <1>5, <1>6, <1>7, <1>8, <1>9 DEF IInv

LEMMA Step ==
    ASSUME IInv, ~ Slow, [Next]_vars
    PROVE  IInv'
  <1>1. CASE UNCHANGED vars
    <2>1. UNCHANGED <<at, home, queue, userCount, gate, mapping, marker, inflight, reserved, denied,
                      counted, ended, stopEvent, stop, stops, lostGate, lostUser>>
      BY <1>1 DEF vars, redisVars, planVars, stopVars, lostVars
    <2>2. Plain' /\ GateIsExact' /\ UserCountIsExact' /\ MapSound'
      BY <2>1, StillCounted, StillMapped DEF IInv, TypeOK, Plain
    <2> QED BY <2>1, <2>2, Still DEF IInv, Sound
  <1>2. CASE Next
    BY <1>2, ReceiveStep, EnqueueStep, DequeueStep, StopQueuedStep, QuestionStep, OtherStep,
       ExpiryStep, CrashStep DEF Next
  <1> QED BY <1>1, <1>2

-----------------------------------------------------------------------------
(* What the properties rest on, as long as turns end within the lifetimes of *)
(* the Redis counters (globalGateTTL, redisQueueUserTTL).                    *)
THEOREM Invariance == ASSUME ~ Slow PROVE Spec => []IInv
  <1>1. Init => IInv
    BY InitIInv
  <1>2. IInv /\ [Next]_vars => IInv'
    BY Step
  <1> QED BY <1>1, <1>2, PTL DEF Spec

(* Every question in a queue or in the map of running requests is one its    *)
(* process received and still works on (qaQueue, Service.inflight), whatever *)
(* is stopped, times out or dies.                                            *)
THEOREM TypeCorrect == ASSUME ~ Slow PROVE Spec => []TypeOK
  <1>1. IInv => TypeOK
    BY DEF IInv
  <1> QED BY <1>1, Invariance, PTL

(* The gate's counter is the workers behind it and what dead processes left, *)
(* and never more than GlobalMax are behind it (globalGateScript,            *)
(* releaseGlobalGate).                                                       *)
THEOREM GateExact == ASSUME ~ Slow PROVE Spec => []GateIsExact
  <1>1. IInv => GateIsExact
    BY DEF IInv
  <1> QED BY <1>1, Invariance, PTL

(* Every way out of the queue gives a user's unit back exactly once, and no  *)
(* user has more than MaxPerUser accepted (redisCheckAndIncrUser,            *)
(* redisDecrUser, Remove).                                                   *)
THEOREM UserCountExact == ASSUME ~ Slow PROVE Spec => []UserCountIsExact
  <1>1. IInv => UserCountIsExact
    BY DEF IInv
  <1> QED BY <1>1, Invariance, PTL

-----------------------------------------------------------------------------
(* The plan's cap.                                                           *)

Before == {"checked", "excess", "accepted", "queued", "taken", "passed", "registered", "starting"}

(* Whoever may yet be counted has its place, unless it was refused one. *)
HasPlace == \A q \in Questions : at[q] \in Before => q \in reserved \union denied

(* C are the questions counted. Those and the ones with a place are, of each *)
(* process, no more than the cap.                                            *)
Placed(C) ==
    /\ C \subseteq In(Past) /\ Cardinality(C) = counted
    /\ \A i \in Instances : Cardinality({q \in C \union reserved : home[q] = i}) <= Cap

PlacesSound == HasPlace /\ \E C \in SUBSET Questions : Placed(C)

LEMMA BeforeAndPast ==
    /\ Before \intersect Past = {} /\ "new" \notin Before \union Past
    /\ {"over", "closing", "leaving", "running", "saved"} = Past
  BY DEF Before, Past

(* Places are given up, and nothing is counted. *)
LEMMA PlacesStay ==
    ASSUME IInv, PlacesSound, UNCHANGED <<home, counted, denied>>, reserved' \subseteq reserved,
           \A q \in Questions : at[q] \in Past => at'[q] \in Past,
           \A q \in Questions : at'[q] \in Before => at[q] \in Before /\ (q \in reserved => q \in reserved')
    PROVE  PlacesSound'
  <1>1. PICK C \in SUBSET Questions : Placed(C)
    BY DEF PlacesSound
  <1>2. ASSUME NEW i \in Instances
        PROVE  Cardinality({q \in C \union reserved' : home'[q] = i}) <= Cap
    <2> DEFINE X == {q \in C \union reserved : home[q] = i}
               Y == {q \in C \union reserved' : home'[q] = i}
    <2>1. X \in SUBSET Questions /\ Y \in SUBSET X
      BY DEF IInv, TypeOK
    <2>2. Cardinality(X) <= Cap
      BY <1>1 DEF Placed
    <2> HIDE DEF X, Y
    <2>3. IsFiniteSet(X) /\ Cardinality(X) \in Nat /\ Cardinality(Y) \in Nat /\ Y \in SUBSET Questions
      BY <2>1, Finite
    <2>4. Cardinality(Y) <= Cardinality(X)
      BY <2>1, <2>3, FS_Subset
    <2>5. Cardinality(Y) <= Cap
      BY <2>2, <2>3, <2>4, ImAssumption
    <2> QED BY <2>5 DEF Y
  <1>3. C \subseteq In(Past)' /\ Cardinality(C) = counted'
    BY <1>1 DEF Placed, In
  <1>4. \E D \in SUBSET Questions : Placed(D)'
    BY <1>2, <1>3 DEF Placed
  <1>5. HasPlace'
    BY DEF PlacesSound, HasPlace
  <1> QED BY <1>4, <1>5 DEF PlacesSound

(* The same, of a question that moves. *)
LEMMA PlacesMove ==
    ASSUME IInv, PlacesSound, NEW q \in Questions, NEW w, Goes(q, w), UNCHANGED <<home, counted, denied>>,
           reserved' = reserved \/ (w \notin Before /\ reserved' = reserved \ {q}),
           at[q] \in Past => w \in Past, w \in Before => at[q] \in Before
    PROVE  PlacesSound'
  <1>1. \A r \in Questions : at'[r] = IF r = q THEN w ELSE at[r]
    BY DEF Goes, IInv, TypeOK
  <1>2. reserved' \subseteq reserved
    OBVIOUS
  <1>3. \A r \in Questions : at[r] \in Past => at'[r] \in Past
    BY <1>1
  <1>4. \A r \in Questions : at'[r] \in Before => at[r] \in Before /\ (r \in reserved => r \in reserved')
    BY <1>1
  <1> QED BY <1>2, <1>3, <1>4, PlacesStay

(* A place is taken only where the counted and the places leave room. *)
LEMMA PlacesReceive ==
    ASSUME IInv, PlacesSound, NEW q \in Questions, NEW i \in Routes[q], Receive(q, i)
    PROVE  PlacesSound'
  <1>1. /\ at[q] = "new" /\ Goes(q, "checked") /\ i \in Instances
        /\ home' = [home EXCEPT ![q] = i] /\ counted' = counted
        /\ \/ Reservable(i) /\ reserved' = reserved \union {q} /\ denied' = denied
           \/ reserved' = reserved /\ denied' = denied \union {q}
    BY ImAssumption DEF Receive
  <1>2. /\ \A r \in Questions : at'[r] = IF r = q THEN "checked" ELSE at[r]
        /\ \A r \in Questions : home'[r] = IF r = q THEN i ELSE home[r]
        /\ q \notin reserved /\ reserved \in SUBSET Questions
    BY <1>1 DEF Goes, IInv, TypeOK, Sound
  <1>3. PICK C \in SUBSET Questions : Placed(C)
    BY DEF PlacesSound
  <1>4. C \subseteq In(Past)' /\ Cardinality(C) = counted' /\ q \notin C
    BY <1>1, <1>2, <1>3, BeforeAndPast DEF Placed, In
  <1>5. ASSUME NEW j \in Instances
        PROVE  Cardinality({r \in C \union reserved' : home'[r] = j}) <= Cap
    <2> DEFINE X == {r \in C \union reserved : home[r] = j}
               Y == {r \in C \union reserved' : home'[r] = j}
               R == {r \in reserved : home[r] = j}
    <2>1. X \in SUBSET Questions /\ q \notin X /\ R \in SUBSET Questions
      BY <1>2, <1>4
    <2>2. Cardinality(X) <= Cap
      BY <1>3 DEF Placed
    <2>3. X \in SUBSET (C \union R)
      OBVIOUS
    <2>4. Y = X \/ (Y = X \union {q} /\ j = i /\ Reservable(i))
      <3>1. CASE reserved' = reserved
        BY <1>2, <1>4, <3>1
      <3>2. CASE reserved' = reserved \union {q} /\ Reservable(i)
        BY <1>2, <1>4, <3>2
      <3> QED BY <1>1, <3>1, <3>2
    <2>5. Reservable(i) /\ j = i => Cardinality(C) + Cardinality(R) < Cap
      BY <1>3 DEF Reservable, Placed
    <2> HIDE DEF X, Y, R
    <2>6. /\ IsFiniteSet(X) /\ IsFiniteSet(C) /\ IsFiniteSet(R) /\ Cap \in Nat
          /\ Cardinality(X) \in Nat /\ Cardinality(C) \in Nat /\ Cardinality(R) \in Nat
      BY <2>1, Finite, ImAssumption
    <2>7. C \union R \in SUBSET Questions
      BY <2>1
    <2>8. IsFiniteSet(C \union R) /\ Cardinality(C \union R) \in Nat
      BY <2>7, Finite
    <2>9. Cardinality(X) <= Cardinality(C \union R)
      BY <2>3, <2>8, FS_Subset
    <2>10. Cardinality(C \union R) <= Cardinality(C) + Cardinality(R)
      <3>1. C \intersect R \in SUBSET Questions
        BY <2>1
      <3>2. Cardinality(C \intersect R) \in Nat
        BY <3>1, Finite
      <3>3. Cardinality(C \union R) = Cardinality(C) + Cardinality(R) - Cardinality(C \intersect R)
        BY <2>6, FS_Union
      <3> QED BY <2>6, <2>8, <3>2, <3>3
    <2>11. Cardinality(X \union {q}) = Cardinality(X) + 1
      BY <2>1, <2>6, FS_AddElement
    <2>12. Cardinality(Y) <= Cap
      <3>1. CASE Y = X
        BY <2>2, <3>1
      <3>2. CASE Y = X \union {q} /\ j = i /\ Reservable(i)
        <4>1. Cardinality(X) < Cap
          BY <2>5, <2>6, <2>8, <2>9, <2>10, <3>2
        <4>2. Cardinality(X) + 1 <= Cap
          BY <2>6, <4>1
        <4> QED BY <2>11, <3>2, <4>2
      <3> QED BY <2>4, <3>1, <3>2
    <2> QED BY <2>12 DEF Y
  <1>6. \E D \in SUBSET Questions : Placed(D)'
    BY <1>4, <1>5 DEF Placed
  <1>7. HasPlace'
    BY <1>1, <1>2 DEF PlacesSound, HasPlace
  <1> QED BY <1>6, <1>7 DEF PlacesSound

(* A question that is counted had its place: nothing is added. *)
LEMMA PlacesSave ==
    ASSUME IInv, PlacesSound, NEW q \in Questions, Save(q)
    PROVE  PlacesSound'
  <1>1. /\ at[q] = "starting" /\ q \notin denied /\ Goes(q, "saved") /\ counted' = counted + 1
        /\ UNCHANGED <<home, reserved, denied>>
    BY DEF Save
  <1>2. \A r \in Questions : at'[r] = IF r = q THEN "saved" ELSE at[r]
    BY <1>1 DEF Goes, IInv, TypeOK
  <1>3. q \in reserved
    BY <1>1 DEF PlacesSound, HasPlace, Before
  <1>4. PICK C \in SUBSET Questions : Placed(C)
    BY DEF PlacesSound
  <1> DEFINE D == C \union {q}
  <1>5. D \in SUBSET In(Past)' /\ q \notin C
    BY <1>1, <1>2, <1>4 DEF Placed, In, Past
  <1>6. Cardinality(D) = counted'
    <2>1. IsFiniteSet(C)
      BY Finite
    <2> QED BY <1>1, <1>4, <1>5, <2>1, FS_AddElement DEF Placed
  <1>7. D \union reserved' = C \union reserved
    BY <1>1, <1>3
  <1>8. D \in SUBSET Questions
    OBVIOUS
  <1> HIDE DEF D
  <1>9. \E E \in SUBSET Questions : Placed(E)'
    BY <1>1, <1>4, <1>5, <1>6, <1>7, <1>8 DEF Placed
  <1>10. HasPlace'
    BY <1>1, <1>2 DEF PlacesSound, HasPlace, Before
  <1> QED BY <1>9, <1>10 DEF PlacesSound

LEMMA PlacesStep ==
    ASSUME IInv, PlacesSound, ~ Slow, [Next]_vars
    PROVE  PlacesSound'
  <1> USE DEF redisVars, planVars, stopVars, lostVars
  <1>s. ASSUME UNCHANGED <<at, home, counted, denied, reserved>>
        PROVE  PlacesSound'
    BY <1>s, PlacesStay
  <1>1. CASE UNCHANGED vars
    BY <1>1, <1>s DEF vars
  <1>2. ASSUME NEW q \in Questions, NEW i \in Routes[q], Receive(q, i)
        PROVE  PlacesSound'
    BY <1>2, PlacesReceive
  <1>3. ASSUME NEW q \in Questions,
               \/ IncrUser(q) \/ Refuse(q) \/ Enqueue(q) \/ EnqueueFull(q) \/ Discard(q) \/ PassGate(q)
               \/ Register(q) \/ CheckMarker(q) \/ NotSaved(q) \/ Run(q) \/ Finish(q) \/ Leave(q) \/ Done(q)
        PROVE  PlacesSound'
    <2>1. CASE IncrUser(q)
      <3>1. PICK w \in {"excess", "accepted"} : Goes(q, w)
        BY <2>1 DEF IncrUser
      <3>2. at[q] = "checked" /\ UNCHANGED <<home, counted, denied, reserved>>
        BY <2>1 DEF IncrUser
      <3> QED BY <3>1, <3>2, PlacesMove DEF Before, Past
    <2>2. CASE CheckMarker(q)
      <3>1. PICK w \in {"closing", "starting"} : Goes(q, w) /\ (reserved' = reserved
                                                   \/ (w = "closing" /\ reserved' = reserved \ {q}))
        BY <2>2 DEF CheckMarker
      <3>2. at[q] = "registered" /\ UNCHANGED <<home, counted, denied>>
        BY <2>2 DEF CheckMarker
      <3> QED BY <3>1, <3>2, PlacesMove DEF Before, Past
    <2>3. CASE Refuse(q)
      BY <2>3, PlacesMove DEF Refuse, Before, Past
    <2>4. CASE Enqueue(q)
      BY <2>4, PlacesMove DEF Enqueue, Before, Past
    <2>5. CASE EnqueueFull(q)
      BY <2>5, PlacesMove DEF EnqueueFull, Before, Past
    <2>6. CASE Discard(q)
      BY <2>6, PlacesMove DEF Discard, Before, Past
    <2>7. CASE PassGate(q)
      BY <2>7, PlacesMove DEF PassGate, Before, Past
    <2>8. CASE Register(q)
      BY <2>8, PlacesMove DEF Register, Before, Past
    <2>9. CASE NotSaved(q)
      BY <2>9, PlacesMove DEF NotSaved, Before, Past
    <2>10. CASE Run(q)
      BY <2>10, PlacesMove DEF Run, Before, Past
    <2>11. CASE Finish(q)
      BY <2>11, PlacesMove DEF Finish, Before, Past
    <2>12. CASE Leave(q)
      BY <2>12, PlacesMove DEF Leave, Before, Past
    <2>13. CASE Done(q)
      BY <2>13, PlacesMove DEF Done, Before, Past
    <2> QED BY <1>3, <2>1, <2>2, <2>3, <2>4, <2>5, <2>6, <2>7, <2>8, <2>9, <2>10, <2>11, <2>12, <2>13
  <1>4. ASSUME NEW q \in Questions, Save(q)
        PROVE  PlacesSound'
    BY <1>4, PlacesSave
  <1>5. ASSUME NEW q \in Questions, Watch(q)
        PROVE  PlacesSound'
    BY <1>5, <1>s DEF Watch
  <1>6. ASSUME NEW q \in Questions, ReservationExpires(q)
        PROVE  PlacesSound'
    <2>1. /\ at[q] = "over" /\ reserved' = reserved \ {q} /\ UNCHANGED <<at, home, counted, denied>>
      BY <1>6 DEF ReservationExpires
    <2>2. "over" \notin Before
      BY DEF Before
    <2> QED BY <2>1, <2>2, PlacesStay
  <1>7. ASSUME NEW u \in Users,
               \/ StopRunning(u) \/ StopWrite(u) \/ StopMark(u) \/ MarkerExpires(u) \/ UserExpires(u)
               \/ \E i \in Instances : StopNotQueued(u, i)
        PROVE  PlacesSound'
    BY <1>7, <1>s DEF StopRunning, StopWrite, StopMark, MarkerExpires, UserExpires, StopNotQueued
  <1>8. ASSUME NEW u \in Users, NEW i \in Instances, StopQueued(u, i)
        PROVE  PlacesSound'
    <2>1. PICK n \in FirstOf(u, i) : Goes(queue[i][n], "over")
      BY <1>8 DEF StopQueued
    <2>2. queue[i][n] \in Questions /\ at[queue[i][n]] = "queued"
      BY <2>1, ElementOfSeq DEF FirstOf, IInv, QueueSound
    <2>3. UNCHANGED <<home, counted, denied, reserved>>
      BY <1>8 DEF StopQueued
    <2>4. "queued" \notin Past /\ "over" \notin Before
      BY DEF Past, Before
    <2> QED BY <2>1, <2>2, <2>3, <2>4, PlacesMove
  <1>9. ASSUME NEW i \in Instances, Dequeue(i)
        PROVE  PlacesSound'
    <2>1. Goes(Head(queue[i]), "taken") /\ queue[i] # <<>> /\ queue[i] \in Seq(Questions)
      BY <1>9 DEF Dequeue, IInv, QueueSound
    <2>2. 1 \in 1 .. Len(queue[i]) /\ Head(queue[i]) = queue[i][1]
      BY <2>1, EmptySeq
    <2>3. Head(queue[i]) \in Questions /\ at[Head(queue[i])] = "queued"
      BY <2>1, <2>2, ElementOfSeq DEF IInv, QueueSound
    <2>4. UNCHANGED <<home, counted, denied, reserved>>
      BY <1>9 DEF Dequeue
    <2>5. "queued" \notin Past /\ "queued" \in Before
      BY DEF Past, Before
    <2> QED BY <2>1, <2>3, <2>4, <2>5, PlacesMove
  <1>10. ASSUME NEW i \in Instances, Crash(i)
         PROVE  PlacesSound'
    <2>1. /\ reserved' = reserved \ {q \in Questions : home[q] = i}
          /\ UNCHANGED <<home, counted, denied>>
          /\ at' = [q \in Questions |-> IF q \in In(Accepted \union {"checked", "excess"}) /\ home[q] = i
                                         THEN "over" ELSE at[q]]
      BY <1>10 DEF Crash
    <2>2. \A q \in Questions : at'[q] = at[q] \/ (at'[q] = "over" /\ home[q] = i)
      BY <2>1
    <2>3. \A q \in Questions : at[q] \in Past => at'[q] \in Past
      BY <2>2 DEF Past
    <2>4. \A q \in Questions : at'[q] \in Before => at[q] \in Before /\ home[q] # i
      BY <2>1, Places DEF In, Before
    <2> QED BY <2>1, <2>3, <2>4, PlacesStay
  <1>11. CASE GateExpires
    BY <1>11, <1>s DEF GateExpires
  <1> QED BY <1>1, <1>2, <1>3, <1>4, <1>5, <1>6, <1>7, <1>8, <1>9, <1>10, <1>11 DEF Next

LEMMA InitPlaces == Init => PlacesSound
  <1> SUFFICES ASSUME Init PROVE PlacesSound
    OBVIOUS
  <1>1. HasPlace
    BY BeforeAndPast DEF Init, HasPlace
  <1>2. Placed({})
    <2>1. \A i \in Instances : {q \in {} \union reserved : home[q] = i} = {}
      BY DEF Init
    <2>2. Cardinality({}) = 0
      BY FS_EmptySet
    <2> QED BY <2>1, <2>2, ImAssumption DEF Init, Placed
  <1> QED BY <1>1, <1>2 DEF PlacesSound

(* Sets of at most c elements, one for each element of I, have no more than  *)
(* c times as many elements together.                                        *)
LEMMA InParts ==
    ASSUME NEW C, IsFiniteSet(C), NEW I, IsFiniteSet(I), NEW c \in Nat, NEW h \in [C -> I],
           \A i \in I : Cardinality({q \in C : h[q] = i}) <= c
    PROVE  Cardinality(C) <= c * Cardinality(I)
  <1> DEFINE Part(i) == {q \in C : h[q] = i}
             size(i) == Cardinality(Part(i))
             Listed(i, f) == f \in [1 .. size(i) -> Part(i)] /\ \A q \in Part(i) : \E k \in 1 .. size(i) : f[k] = q
             list == [i \in I |-> CHOOSE f : Listed(i, f)]
             place == [q \in C |-> CHOOSE k \in 1 .. size(h[q]) : list[h[q]][k] = q]
             g == [q \in C |-> <<h[q], place[q]>>]
  <1>1. ASSUME NEW i \in I
        PROVE  size(i) \in Nat /\ size(i) <= c /\ Listed(i, list[i])
    <2>1. IsFiniteSet(Part(i))
      BY FS_Subset
    <2>2. size(i) \in Nat /\ ExistsBijection(1 .. size(i), Part(i))
      BY <2>1, FS_CardinalityType
    <2>3. \E f : Listed(i, f)
      BY <2>2 DEF ExistsBijection, Bijection, Surjection, Injection
    <2>4. Listed(i, CHOOSE f : Listed(i, f))
      BY <2>3
    <2> QED BY <2>2, <2>4
  <1>2. ASSUME NEW q \in C
        PROVE  place[q] \in 1 .. size(h[q]) /\ list[h[q]][place[q]] = q
    <2>1. h[q] \in I /\ q \in Part(h[q])
      OBVIOUS
    <2>2. \E k \in 1 .. size(h[q]) : list[h[q]][k] = q
      BY <1>1, <2>1
    <2> HIDE DEF list, size
    <2> QED BY <2>2
  <1> HIDE DEF place, list, size, Listed
  <1>3. ASSUME NEW q \in C
        PROVE  place[q] \in 1 .. c
    <2>1. h[q] \in I
      OBVIOUS
    <2> QED BY <1>1, <1>2, <2>1
  <1>4. g \in [C -> I \X (1 .. c)]
    BY <1>3
  <1>5. ASSUME NEW q \in C, NEW r \in C, g[q] = g[r]
        PROVE  q = r
    <2>1. h[q] = h[r] /\ place[q] = place[r]
      BY <1>5
    <2> QED BY <1>2, <2>1
  <1>6. g \in Injection(C, I \X (1 .. c))
    BY <1>4, <1>5 DEF Injection, IsInjective
  <1>7. IsFiniteSet(1 .. c) /\ Cardinality(1 .. c) = c
    BY FS_Interval
  <1>8. IsFiniteSet(I \X (1 .. c)) /\ Cardinality(I \X (1 .. c)) = Cardinality(I) * c
    BY <1>7, FS_Product
  <1>9. Cardinality(C) <= Cardinality(I) * c
    BY <1>6, <1>8, FS_Injection
  <1>10. Cardinality(I) \in Nat /\ Cardinality(I) * c = c * Cardinality(I)
    BY FS_CardinalityType
  <1> QED BY <1>9, <1>10

LEMMA PlacesCount ==
    ASSUME IInv, PlacesSound
    PROVE  CapHolds
  <1>1. PICK C \in SUBSET Questions : Placed(C)
    BY DEF PlacesSound
  <1>2. IsFiniteSet(C) /\ IsFiniteSet(Instances) /\ Cap \in Nat
    BY Finite, ImAssumption
  <1> DEFINE h == [q \in C |-> home[q]]
  <1>3. h \in [C -> Instances]
    <2>1. \A q \in C : at[q] # "new"
      BY <1>1, BeforeAndPast DEF Placed, In
    <2> QED BY <2>1 DEF IInv, Sound
  <1>4. ASSUME NEW i \in Instances
        PROVE  Cardinality({q \in C : h[q] = i}) <= Cap
    <2> DEFINE X == {q \in C \union reserved : home[q] = i}
               Y == {q \in C : h[q] = i}
    <2>1. X \in SUBSET Questions /\ Y \in SUBSET X /\ Y \in SUBSET Questions
      BY DEF IInv, TypeOK
    <2>2. Cardinality(X) <= Cap
      BY <1>1 DEF Placed
    <2> HIDE DEF X, Y
    <2>3. IsFiniteSet(X) /\ Cardinality(X) \in Nat /\ Cardinality(Y) \in Nat
      BY <2>1, Finite
    <2>4. Cardinality(Y) <= Cardinality(X)
      BY <2>1, <2>3, FS_Subset
    <2>5. Cardinality(Y) <= Cap
      BY <1>2, <2>2, <2>3, <2>4
    <2> QED BY <2>5 DEF Y
  <1> HIDE DEF h
  <1>5. Cardinality(C) <= Cap * Cardinality(Instances)
    BY <1>2, <1>3, <1>4, InParts
  <1> QED BY <1>1, <1>5 DEF Placed, CapHolds

(* No more questions are counted than the cap allows each process: whoever   *)
(* is counted took a place when the counter and the places of its process    *)
(* left room, and keeps it until it is counted (reserveQuestion,             *)
(* ReleaseReservation), whatever is stopped, times out or dies.              *)
THEOREM CapRespected == ASSUME ~ Slow PROVE Spec => []CapHolds
  <1>1. Init => PlacesSound
    BY InitPlaces
  <1>2. IInv /\ PlacesSound /\ [Next]_vars => PlacesSound'
    BY PlacesStep
  <1>3. IInv /\ PlacesSound => CapHolds
    BY PlacesCount
  <1> QED BY <1>1, <1>2, <1>3, Invariance, PTL DEF Spec
=============================================================================
