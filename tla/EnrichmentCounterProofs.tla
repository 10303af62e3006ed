---------------------- MODULE EnrichmentCounterProofs ----------------------
(***************************************************************************)
(* The contract of pending_subtasks_count, for any number of enrichment    *)
(* tasks.                                                                  *)
(***************************************************************************)
EXTENDS EnrichmentCounter, FiniteSetTheorems, TLAPS

(* The held slots can be counted, and one of them given back leaves one less. *)
LEMMA HeldFinite == IsFiniteSet(Held) /\ Cardinality(Held) \in Nat
  <1>1. Held \subseteq Slots
    BY DEF Held
  <1>2. IsFiniteSet(Held)
    BY <1>1, SlotsAssumption, FS_Subset
  <1> QED
    BY <1>2, FS_CardinalityType

LEMMA OneLess ==
  ASSUME NEW n \in Held
  PROVE  Cardinality(Held \ {n}) = Cardinality(Held) - 1 /\ Cardinality(Held) > 0
  <1>1. Cardinality(Held \ {n}) = Cardinality(Held) - 1
    BY HeldFinite, FS_RemoveElement
  <1>2. Cardinality(Held) # 0
    BY HeldFinite, FS_EmptySet
  <1> QED
    BY <1>1, <1>2, HeldFinite

(* A non-empty plan is counted with a positive number. *)
LEMMA PlanCounted ==
  ASSUME NEW plan \in SUBSET Slots, plan # {}
  PROVE  Cardinality(plan) \in Nat /\ Cardinality(plan) > 0
  <1>1. IsFiniteSet(plan)
    BY SlotsAssumption, FS_Subset
  <1> QED
    BY <1>1, FS_CardinalityType, FS_EmptySet

LEMMA InitInv == Init => IInv
  BY DEF Init, IInv, TypeOK, CounterIsExact, CompletedOwesNothing, SomebodyPromotes,
         ParsingHoldsNothing, States

(* Every step keeps the invariant: one lemma per statement of the repository. *)
LEMMA HandOffInv == IInv /\ HandOff => IInv'
  <1> SUFFICES ASSUME IInv, HandOff PROVE IInv'
    OBVIOUS
  <1> USE DEF IInv
  <1>1. PICK plan \in SUBSET Slots :
          /\ plan # {}
          /\ count' = Cardinality(plan)
          /\ slot' = [n \in Slots |-> IF n \in plan THEN "planned" ELSE "free"]
    BY DEF HandOff
  <1>2. status' = "finalizing"
    BY DEF HandOff
  <1>3. TypeOK'
    BY <1>1, <1>2, PlanCounted DEF TypeOK, States
  <1>4. Held' = plan
    BY <1>1 DEF Held
  <1>5. CounterIsExact' /\ SomebodyPromotes'
    BY <1>1, <1>4, PlanCounted DEF CounterIsExact, SomebodyPromotes
  <1>6. CompletedOwesNothing' /\ ParsingHoldsNothing'
    BY <1>2 DEF CompletedOwesNothing, ParsingHoldsNothing
  <1> QED
    BY <1>3, <1>5, <1>6

LEMMA NothingToDoInv == IInv /\ NothingToDo => IInv'
  BY DEF NothingToDo, IInv, TypeOK, CounterIsExact, CompletedOwesNothing, SomebodyPromotes,
         ParsingHoldsNothing, Held

LEMMA StopInv == IInv /\ Stop => IInv'
  <1> SUFFICES ASSUME IInv, Stop PROVE IInv'
    OBVIOUS
  <1>1. TypeOK'
    BY DEF Stop, IInv, TypeOK
  <1> QED
    BY <1>1 DEF Stop, IInv, CounterIsExact, CompletedOwesNothing, SomebodyPromotes,
                ParsingHoldsNothing

LEMMA SpawnInv == ASSUME NEW n \in Slots PROVE IInv /\ Spawn(n) => IInv'
  <1> SUFFICES ASSUME IInv, Spawn(n) PROVE IInv'
    OBVIOUS
  <1>1. TypeOK'
    BY DEF Spawn, IInv, TypeOK, States
  <1>2. Held' = Held
    BY DEF Spawn, IInv, TypeOK, Held
  <1>3. CounterIsExact' /\ CompletedOwesNothing'
    BY <1>2 DEF Spawn, IInv, CounterIsExact, CompletedOwesNothing
  <1>4. SomebodyPromotes'
    BY DEF Spawn, IInv, TypeOK, SomebodyPromotes
  <1>5. ParsingHoldsNothing'
    BY DEF Spawn, IInv, ParsingHoldsNothing
  <1> QED
    BY <1>1, <1>3, <1>4, <1>5 DEF IInv

LEMMA GiveBackInv == ASSUME NEW n \in Slots PROVE IInv /\ GiveBack(n) => IInv'
  <1> SUFFICES ASSUME IInv, GiveBack(n) PROVE IInv'
    OBVIOUS
  <1>1. n \in Held /\ Held' = Held \ {n} /\ slot'[n] = "drained"
    BY DEF GiveBack, IInv, TypeOK, Held
  <1>2. TypeOK'
    <2>1. count' \in Nat
      BY DEF GiveBack, IInv, TypeOK
    <2> QED
      BY <2>1 DEF GiveBack, IInv, TypeOK, States
  <1>3. CounterIsExact'
    <2> SUFFICES ASSUME status = "finalizing" PROVE count' = Cardinality(Held')
      BY DEF GiveBack, CounterIsExact
    <2>1. count = Cardinality(Held)
      BY DEF IInv, CounterIsExact
    <2>2. count' = count - 1
      BY <1>1, <2>1, OneLess DEF GiveBack
    <2> QED
      BY <1>1, <2>1, <2>2, OneLess
  <1>4. CompletedOwesNothing'
    BY <1>1 DEF GiveBack, IInv, CompletedOwesNothing
  <1>5. SomebodyPromotes'
    BY <1>1 DEF SomebodyPromotes
  <1>6. ParsingHoldsNothing'
    BY DEF GiveBack, IInv, ParsingHoldsNothing
  <1> QED
    BY <1>2, <1>3, <1>4, <1>5, <1>6 DEF IInv

LEMMA PromoteInv == ASSUME NEW n \in Slots PROVE IInv /\ Promote(n) => IInv'
  <1> SUFFICES ASSUME IInv, Promote(n) PROVE IInv'
    OBVIOUS
  <1>1. TypeOK'
    BY DEF Promote, IInv, TypeOK, States
  <1>2. Held' = Held
    BY DEF Promote, IInv, TypeOK, Held
  <1>3. status' # "processing"
    BY DEF Promote, IInv, ParsingHoldsNothing
  <1>4. CASE status = "finalizing" /\ count = 0
    <2>1. Cardinality(Held) = 0
      BY <1>4 DEF IInv, CounterIsExact
    <2>2. Held = {}
      BY <2>1, HeldFinite, FS_EmptySet
    <2> QED
      BY <1>1, <1>2, <1>3, <1>4, <2>2
      DEF Promote, IInv, CounterIsExact, CompletedOwesNothing, SomebodyPromotes,
          ParsingHoldsNothing
  <1>5. CASE ~(status = "finalizing" /\ count = 0)
    BY <1>1, <1>2, <1>3, <1>5
    DEF Promote, IInv, CounterIsExact, CompletedOwesNothing, SomebodyPromotes,
        ParsingHoldsNothing
  <1> QED
    BY <1>4, <1>5

LEMMA DequeueInv == IInv /\ Dequeue => IInv'
  <1> SUFFICES ASSUME IInv, Dequeue PROVE IInv'
    OBVIOUS
  <1>1. TypeOK'
    BY DEF Dequeue, IInv, TypeOK, States
  <1> QED
    BY <1>1 DEF Dequeue, IInv, CounterIsExact, CompletedOwesNothing, SomebodyPromotes,
                ParsingHoldsNothing

LEMMA ReparseInv == IInv /\ (NewAttempt \/ Reset \/ ZeroCount) => IInv'
  <1> USE DEF IInv
  <1>1. IInv /\ NewAttempt => IInv'
    <2> SUFFICES ASSUME IInv, NewAttempt PROVE IInv'
      OBVIOUS
    <2>1. TypeOK' /\ Held' = {}
      BY DEF NewAttempt, TypeOK, States, Held
    <2> QED
      BY <2>1 DEF NewAttempt, CounterIsExact, CompletedOwesNothing, SomebodyPromotes,
                  ParsingHoldsNothing
  <1>2. IInv /\ Reset => IInv'
    BY DEF Reset, TypeOK, CounterIsExact, CompletedOwesNothing, SomebodyPromotes, ParsingHoldsNothing
  <1>3. IInv /\ ZeroCount => IInv'
    BY DEF ZeroCount, TypeOK, CounterIsExact, CompletedOwesNothing, SomebodyPromotes,
           ParsingHoldsNothing
  <1> QED
    BY <1>1, <1>2, <1>3

(* A late promotion completes the document only when nobody holds a slot.    *)
LEMMA PromoteLateInv == IInv /\ PromoteLate => IInv'
  <1> SUFFICES ASSUME IInv, PromoteLate PROVE IInv'
    OBVIOUS
  <1>1. Cardinality(Held) = 0 /\ Held' = Held
    BY DEF PromoteLate, IInv, CounterIsExact, Held
  <1>2. Held' = {}
    BY <1>1, HeldFinite, FS_EmptySet
  <1> QED
    BY <1>2 DEF PromoteLate, IInv, TypeOK, CounterIsExact, CompletedOwesNothing, SomebodyPromotes,
                ParsingHoldsNothing

LEMMA NextInv == IInv /\ [Next]_vars => IInv'
  <1> SUFFICES ASSUME IInv, [Next]_vars PROVE IInv'
    OBVIOUS
  <1>1. CASE UNCHANGED vars
    BY <1>1 DEF vars, IInv, TypeOK, CounterIsExact, CompletedOwesNothing, SomebodyPromotes,
                ParsingHoldsNothing, Held
  <1>2. CASE Next
    BY <1>2, HandOffInv, NothingToDoInv, StopInv, SpawnInv, GiveBackInv, PromoteInv, DequeueInv,
       ReparseInv, PromoteLateInv
    DEF Next
  <1> QED
    BY <1>1, <1>2

(* The invariant of FinalizeSubtask's protocol, from which the rest follows. *)
THEOREM Invariance == Spec => []IInv
  BY InitInv, NextInv, PTL DEF Spec

(* FinalizeSubtask: the counter of a finalizing document is exactly the      *)
(* number of slots that are still held, however many there are and in        *)
(* whatever order they are spawned, given back and promoted.                 *)
THEOREM CounterExact == Spec => []CounterIsExact
  BY Invariance, PTL DEF IInv

(* The guarded promotion: no document is completed with a slot still held.   *)
THEOREM CompletedDrained == Spec => []CompletedOwesNothing
  BY Invariance, PTL DEF IInv

(* The last slot's promotion is always on its way.                           *)
THEOREM NeverStranded == Spec => []SomebodyPromotes
  BY Invariance, PTL DEF IInv
=============================================================================
