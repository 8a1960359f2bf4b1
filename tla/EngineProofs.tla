---------------------------- MODULE EngineProofs ----------------------------
(***************************************************************************)
(* Proofs about Trail and ConstraintEngine, for any number of variables    *)
(* and constraints.  First the protocol, whatever literals are watched;    *)
(* then what all proofs need on induction, recursion, sequences and lists; *)
(* and at the end the constraints at work, AtMost in particular.           *)
(***************************************************************************)
EXTENDS ConstraintEngine, TLAPS, SequenceTheorems, FiniteSetTheorems, WellFoundedInduction

(***************************************************************************)
(* The inductive invariant.  Levels: the entries of trail_lim that still   *)
(* count are ordered positions of the trail.  Queue: how far propagate()   *)
(* has come, and that what it works on is of the current level.            *)
(* Backtrack: how far down analyze() and cancelUntil() can go, and that    *)
(* the asserting literal is of a level that cancelUntil() removes.         *)
(***************************************************************************)
Levels ==
  /\ \A k \in DOMAIN trail_lim :
       (pc = "cancel" => k <= target + 1) => trail_lim[k] <= Len(trail)
  /\ \A k, m \in DOMAIN trail_lim : k <= m => trail_lim[k] <= trail_lim[m]

Queue ==
  /\ at <= qhead
  /\ pc # "cancel" => /\ qhead <= Len(trail)
                      /\ \A k \in DOMAIN trail_lim : trail_lim[k] <= qhead
  /\ pc # "ready" => ok
  /\ pc \in {"ready", "init", "learn"} /\ ok => at = qhead /\ todo = {}
  /\ pc \in {"clauses", "constr", "called"} =>
       at = qhead /\ at >= 1 /\ todo \subseteq Watchers(trail[at])
  /\ pc = "clauses" => todo = Watchers(trail[at])
  /\ pc \in {"clauses", "constr", "called", "drain", "conflict", "analyze"} =>
       \A k \in DOMAIN trail_lim : trail_lim[k] < at
  /\ pc \in {"conflict", "analyze"} => qhead = Len(trail)

Backtrack ==
  /\ pc = "analyze" =>
       decisionLevel > 0 /\ trail_lim[decisionLevel] <= index /\ index <= Len(trail)
  /\ pc = "cancel" =>
       /\ target < decisionLevel
       /\ trail_lim[target + 1] <= Len(trail) /\ Len(trail) <= qhead
       /\ trail_lim[target + 1] <= index
       /\ trail_lim[target + 1] <= at
       /\ at = trail_lim[target + 1] => todo = {}
       /\ learnt # lit_Undef =>
            \A i \in 1..trail_lim[target + 1] : VarOf(trail[i]) # VarOf(learnt)
  /\ pc = "learn" =>
       learnt \in Lit /\ \A i \in DOMAIN trail : VarOf(trail[i]) # VarOf(learnt)

Base == TypeOK /\ TrailOK /\ Levels /\ Queue /\ Backtrack

\* What propagate() has settled for a lazy constraint at each decision, and at
\* any moment at which the constraint is owed nothing.
Lazy ==
  \A c \in Added :
    /\ \A k \in DOMAIN trail_lim :
         (pc = "cancel" => k <= target + 1) => Settled(c, trail_lim[k])
    /\ (ok /\ Owed(c) = {} /\ pc \in {"ready", "init", "clauses", "constr", "called", "learn"}) =>
         Settled(c, Len(trail))
-----------------------------------------------------------------------------
\* VarOf maps literals to variables, and only p and -p to the same one.
LEMMA VarOfLit ==
  ASSUME NEW l \in Lit
  PROVE  /\ VarOf(l) \in Var /\ -l \in Lit
         /\ \A m \in Lit : VarOf(m) = VarOf(l) <=> m = l \/ m = -l
BY TrailAssumption DEF Lit, Var, VarOf

\* What enqueueing an unassigned literal does to the trail.
LEMMA EnqueueTrail ==
  ASSUME TypeOK, TrailOK, NEW l \in Lit, IsUndef(l), Enqueue(l)
  PROVE  /\ assigns' \in SUBSET Lit /\ trail' \in Seq(Lit) /\ pend' \in [Constr -> Int]
         /\ Len(trail') = Len(trail) + 1
         /\ trail'[Len(trail) + 1] = l
         /\ \A i \in DOMAIN trail : trail'[i] = trail[i]
         /\ TrailOK'
<1>1. /\ trail' \in Seq(Lit) /\ Len(trail') = Len(trail) + 1
      /\ trail'[Len(trail) + 1] = l
      /\ \A i \in DOMAIN trail : trail'[i] = trail[i]
  BY DEF TypeOK, Enqueue
<1>2. assigns' \in SUBSET Lit /\ pend' \in [Constr -> Int]
  BY DEF TypeOK, Enqueue, AddNumPending
<1>d. DOMAIN trail = 1..Len(trail) /\ DOMAIN trail' = 1..(Len(trail) + 1) /\ Len(trail) \in Nat
  BY <1>1 DEF TypeOK
<1>3. assigns' = {trail'[i] : i \in DOMAIN trail'}
  <2>1. {trail'[i] : i \in 1..(Len(trail) + 1)} = {trail'[i] : i \in 1..Len(trail)} \cup {l}
    <3>1. \A i \in 1..(Len(trail) + 1) : i \in 1..Len(trail) \/ i = Len(trail) + 1
      BY <1>d
    <3>2. \A i \in 1..Len(trail) : i \in 1..(Len(trail) + 1)
      BY <1>d
    <3>3. Len(trail) + 1 \in 1..(Len(trail) + 1)
      BY <1>d
    <3> QED BY <3>1, <3>2, <3>3, <1>1
  <2>2. {trail'[i] : i \in 1..Len(trail)} = {trail[i] : i \in 1..Len(trail)}
    BY <1>1, <1>d
  <2> QED BY <2>1, <2>2, <1>d DEF TrailOK, Enqueue
<1>4. \A i \in DOMAIN trail : VarOf(trail[i]) # VarOf(l)
  <2> TAKE i \in DOMAIN trail
  <2>1. trail[i] \in Lit /\ trail[i] \in assigns
    BY DEF TypeOK, TrailOK
  <2> QED BY <2>1, VarOfLit DEF IsUndef, IsTrue, IsFalse
<1>5. \A i, j \in DOMAIN trail' : VarOf(trail'[i]) = VarOf(trail'[j]) => i = j
  <2>1. \A i \in 1..(Len(trail) + 1) : i \in 1..Len(trail) \/ i = Len(trail) + 1
    BY <1>d
  <2>2. \A i, j \in 1..Len(trail) : VarOf(trail'[i]) = VarOf(trail'[j]) => i = j
    BY <1>1, <1>d DEF TrailOK
  <2>3. \A i \in 1..Len(trail) : VarOf(trail'[i]) # VarOf(trail'[Len(trail) + 1])
    BY <1>1, <1>4, <1>d
  <2> QED BY <2>1, <2>2, <2>3, <1>d
<1> QED BY <1>1, <1>2, <1>3, <1>5 DEF TrailOK

\* The asserting literal is unassigned once cancelUntil is done.
LEMMA LearntFree ==
  ASSUME TypeOK, TrailOK, Backtrack, pc = "learn"
  PROVE  learnt \in Lit /\ IsUndef(learnt)
<1>1. learnt \in Lit /\ -learnt \in Lit /\ VarOf(-learnt) = VarOf(learnt)
  BY VarOfLit DEF Backtrack
<1> QED BY <1>1 DEF Backtrack, TrailOK, IsUndef, IsTrue, IsFalse

\* What forgetting trail entry i does to the types.
LEMMA UndoEntryTypes ==
  ASSUME TypeOK, NEW i \in DOMAIN trail, UndoEntry(i)
  PROVE  /\ undo' \in [Var -> [Constr -> Int]]
         /\ told' \in [Constr -> [Lit -> Int]]
         /\ fullAt' \in [Constr -> SUBSET Nat]
<1>1. trail[i] \in Lit /\ VarOf(trail[i]) \in Var
  BY VarOfLit DEF TypeOK
<1>2. \A c \in Constr : undo[VarOf(trail[i])][c] \in Int
  BY <1>1 DEF TypeOK
<1>3. told' \in [Constr -> [Lit -> Int]]
  BY <1>1, <1>2 DEF TypeOK, UndoEntry
<1>4. undo' \in [Var -> [Constr -> Int]] /\ fullAt' \in [Constr -> SUBSET Nat]
  BY <1>1 DEF TypeOK, UndoEntry, NoEntries
<1> QED BY <1>3, <1>4

\* Where analyze() and cancelUntil() stand on the trail.
LEMMA CancelPosition ==
  ASSUME TypeOK, Backtrack, pc = "cancel"
  PROVE  /\ target \in Nat /\ target < decisionLevel /\ decisionLevel \in Nat
         /\ target + 1 \in DOMAIN trail_lim /\ trail_lim[target + 1] \in Nat
         /\ Len(trail) \in Nat /\ trail_lim[target + 1] <= Len(trail)
         /\ Len(trail) > trail_lim[target + 1] => Len(trail) \in DOMAIN trail
<1>1. target < decisionLevel /\ trail_lim[target + 1] <= Len(trail)
  BY DEF Backtrack
<1>2. trail_lim \in Seq(Nat) /\ Len(trail) \in Nat /\ DOMAIN trail = 1..Len(trail) /\ target \in Nat
  BY DEF TypeOK
<1>3. decisionLevel \in Nat /\ DOMAIN trail_lim = 1..decisionLevel
  BY <1>2 DEF decisionLevel
<1>4. target + 1 \in DOMAIN trail_lim
  BY <1>1, <1>2, <1>3
<1>5. trail_lim[target + 1] \in Nat
  BY <1>2, <1>4
<1> QED BY <1>1, <1>2, <1>3, <1>4, <1>5

\* While analyze() walks, index is above the last decision or at it.
LEMMA AnalyzePosition ==
  ASSUME TypeOK, Backtrack, pc = "analyze"
  PROVE  /\ decisionLevel \in DOMAIN trail_lim /\ trail_lim[decisionLevel] \in Nat
         /\ \A k \in DOMAIN trail_lim : k <= decisionLevel
         /\ index \in Nat /\ trail_lim[decisionLevel] <= index /\ index <= Len(trail)
         /\ index > trail_lim[decisionLevel] => index \in DOMAIN trail
<1>1. decisionLevel > 0 /\ trail_lim[decisionLevel] <= index /\ index <= Len(trail)
  BY DEF Backtrack
<1>2. trail_lim \in Seq(Nat) /\ Len(trail) \in Nat /\ DOMAIN trail = 1..Len(trail) /\ index \in Nat
  BY DEF TypeOK
<1>3. decisionLevel \in Nat /\ DOMAIN trail_lim = 1..decisionLevel
  BY <1>2 DEF decisionLevel
<1>4. decisionLevel \in DOMAIN trail_lim /\ \A k \in DOMAIN trail_lim : k <= decisionLevel
  BY <1>1, <1>3
<1>5. trail_lim[decisionLevel] \in Nat
  BY <1>2, <1>4
<1> QED BY <1>1, <1>2, <1>4, <1>5

\* The invariant of the trail holds at first ...
LEMMA BaseInit == Init => Base
BY TrailAssumption DEF Init, Base, TypeOK, TrailOK, Levels, Queue, Backtrack, PC, decisionLevel,
     NoEntries, NoCalls, Lit, Var, lit_Undef

\* ... and every step keeps it.
LEMMA BaseStep == Base /\ [Next]_trailVars => Base'
<1> SUFFICES ASSUME Base, [Next]_trailVars PROVE Base'
  OBVIOUS
<1> USE DEF Base
<1>1. ASSUME Dequeue PROVE Base'
  <2>1. Watchers(trail[qhead + 1]) \subseteq Constr
    BY TrailAssumption DEF TypeOK, Watchers, Added, Constr
  <2>2. TypeOK'
    BY <1>1, <2>1 DEF Dequeue, TypeOK, PC
  <2>3. TrailOK' /\ Levels' /\ Backtrack'
    BY <1>1 DEF Dequeue, TypeOK, TrailOK, Levels, Backtrack, decisionLevel
  <2>4. Queue'
    BY <1>1 DEF Dequeue, TypeOK, Levels, Queue, Watchers, Added
  <2> QED BY <2>2, <2>3, <2>4
<1>2. ASSUME ClauseConflict PROVE Base'
  <2>1. TypeOK'
    BY <1>2 DEF ClauseConflict, AddNumPending, TypeOK, PC
  <2>2. TrailOK' /\ Levels'
    BY <1>2 DEF ClauseConflict, AddNumPending, TypeOK, TrailOK, Levels, Queue, decisionLevel
  <2>3. Queue'
    BY <1>2 DEF ClauseConflict, AddNumPending, TypeOK, Levels, Queue, decisionLevel, Watchers, Added
  <2>4. Backtrack'
    BY <1>2 DEF ClauseConflict, AddNumPending, TypeOK, Levels, Queue, Backtrack, decisionLevel
  <2> QED BY <2>1, <2>2, <2>3, <2>4
<1>3. ASSUME ClausesDone PROVE Base'
  BY <1>3 DEF ClausesDone, TypeOK, TrailOK, Levels, Queue, Backtrack, PC, decisionLevel, Watchers, Added, Constr
<1>4. ASSUME ReturnTrue PROVE Base'
  BY <1>4 DEF ReturnTrue, TypeOK, TrailOK, Levels, Queue, Backtrack, PC, decisionLevel, Watchers, Added, Constr
<1>5. ASSUME ReturnFalse PROVE Base'
  <2>1. TypeOK'
    BY <1>5 DEF ReturnFalse, AddNumPending, TypeOK, PC
  <2>2. TrailOK' /\ Levels'
    BY <1>5 DEF ReturnFalse, AddNumPending, TypeOK, TrailOK, Levels, Queue, decisionLevel
  <2>3. Queue'
    BY <1>5 DEF ReturnFalse, AddNumPending, TypeOK, Levels, Queue, decisionLevel, Watchers, Added
  <2>4. Backtrack'
    BY <1>5 DEF ReturnFalse, AddNumPending, TypeOK, Levels, Queue, Backtrack, decisionLevel
  <2> QED BY <2>1, <2>2, <2>3, <2>4
<1>6. ASSUME CallsDone PROVE Base'
  BY <1>6 DEF CallsDone, TypeOK, TrailOK, Levels, Queue, Backtrack, PC, decisionLevel, Watchers, Added, Constr
<1>7. ASSUME Drain PROVE Base'
  <2>1. TypeOK'
    BY <1>7 DEF Drain, AddNumPending, TypeOK, PC
  <2>2. TrailOK' /\ Levels'
    BY <1>7 DEF Drain, AddNumPending, TypeOK, TrailOK, Levels, Queue, decisionLevel
  <2>3. Queue'
    BY <1>7 DEF Drain, AddNumPending, TypeOK, Levels, Queue, decisionLevel, Watchers, Added
  <2>4. Backtrack'
    BY <1>7 DEF Drain, AddNumPending, TypeOK, Levels, Queue, Backtrack, decisionLevel
  <2> QED BY <2>1, <2>2, <2>3, <2>4
<1>8. ASSUME DrainDone PROVE Base'
  BY <1>8 DEF DrainDone, TypeOK, TrailOK, Levels, Queue, Backtrack, PC, decisionLevel, Watchers, Added, Constr
<1>9. ASSUME ConflictAtRoot PROVE Base'
  BY <1>9 DEF ConflictAtRoot, TypeOK, TrailOK, Levels, Queue, Backtrack, PC, decisionLevel, Watchers, Added, Constr
<1>10. ASSUME StartAnalyze PROVE Base'
  BY <1>10 DEF StartAnalyze, TypeOK, TrailOK, Levels, Queue, Backtrack, PC, decisionLevel, Watchers, Added, Constr
<1>11. ASSUME DummyLevel PROVE Base'
  <2>1. TypeOK'
    BY <1>11 DEF DummyLevel, Fixpoint, TypeOK, PC
  <2>2. TrailOK' /\ Levels'
    BY <1>11 DEF DummyLevel, Fixpoint, TypeOK, TrailOK, Levels, Queue, decisionLevel
  <2>3. Queue'
    BY <1>11 DEF DummyLevel, Fixpoint, TypeOK, Levels, Queue, decisionLevel, Watchers, Added
  <2>4. Backtrack'
    BY <1>11 DEF DummyLevel, Fixpoint, TypeOK, Levels, Queue, Backtrack, decisionLevel
  <2> QED BY <2>1, <2>2, <2>3, <2>4
<1>12. ASSUME NEW res \in BOOLEAN, Initialized(res) PROVE Base'
  BY <1>12 DEF Initialized, TypeOK, TrailOK, Levels, Queue, Backtrack, PC, decisionLevel, Watchers, Added, Constr
<1>13. ASSUME NEW l \in 0..decisionLevel, StartCancel(l) PROVE Base'
  <2>1. TypeOK'
    BY <1>13 DEF StartCancel, Fixpoint, lit_Undef, TypeOK, PC
  <2>2. TrailOK' /\ Levels'
    BY <1>13 DEF StartCancel, Fixpoint, lit_Undef, TypeOK, TrailOK, Levels, Queue, decisionLevel
  <2>3. Queue'
    BY <1>13 DEF StartCancel, Fixpoint, lit_Undef, TypeOK, Levels, Queue, decisionLevel, Watchers, Added
  <2>4. Backtrack'
    BY <1>13 DEF StartCancel, Fixpoint, lit_Undef, TypeOK, Levels, Queue, Backtrack, decisionLevel
  <2> QED BY <2>1, <2>2, <2>3, <2>4
<1>14. ASSUME NEW l \in 0..decisionLevel, AnalyzeDone(l) PROVE Base'
  <2>1. index + 1 \in DOMAIN trail /\ trail[index + 1] \in Lit /\ -trail[index + 1] \in Lit
    BY <1>14, VarOfLit DEF AnalyzeDone, TypeOK, Backtrack
  <2>2. \A i \in 1..index : i \in DOMAIN trail /\ VarOf(trail[i]) # VarOf(learnt')
    <3> TAKE i \in 1..index
    <3>1. i \in DOMAIN trail /\ i # index + 1
      BY <2>1 DEF TypeOK
    <3>2. VarOf(-trail[index + 1]) = VarOf(trail[index + 1])
      BY <2>1, VarOfLit
    <3>3. VarOf(trail[i]) # VarOf(trail[index + 1])
      BY <2>1, <3>1 DEF TrailOK
    <3> QED BY <3>1, <3>2, <3>3, <1>14 DEF AnalyzeDone
  <2>3. trail_lim[l + 1] \in Nat /\ trail_lim[l + 1] <= trail_lim[decisionLevel]
    BY <1>14 DEF AnalyzeDone, TypeOK, Levels, decisionLevel
  <2>b. trail_lim[l + 1] <= index /\ index \in Nat
    BY <2>3, <1>14, AnalyzePosition DEF AnalyzeDone
  <2>4. \A i \in 1..trail_lim[l + 1] : VarOf(trail[i]) # VarOf(learnt')
    BY <2>2, <2>3, <2>b
  <2>5. TypeOK' /\ TrailOK' /\ Levels' /\ Queue'
    BY <1>14, <2>1 DEF AnalyzeDone, TypeOK, TrailOK, Levels, Queue, Backtrack, PC, decisionLevel,
         Watchers, Added, lit_Undef
  <2>6. Backtrack'
    <3>1. trail_lim[l + 1] <= at /\ at # trail_lim[l + 1] /\ at \in Nat
      <4>1. l + 1 \in DOMAIN trail_lim
        BY <1>14 DEF AnalyzeDone, TypeOK, decisionLevel
      <4> QED BY SMTT(30), <1>14, <2>3, <4>1 DEF AnalyzeDone, Queue, TypeOK
    <3>2. trail_lim[l + 1] <= Len(trail) /\ Len(trail) <= qhead
      BY <1>14, <2>3, <2>b DEF AnalyzeDone, Queue, Backtrack, TypeOK
    <3> QED BY <1>14, <2>4, <2>b, <3>1, <3>2 DEF AnalyzeDone, Backtrack, decisionLevel
  <2> QED BY <2>5, <2>6
<1>15. ASSUME AddConstraint PROVE Base'
  BY <1>15, TrailAssumption DEF AddConstraint, Fixpoint, TypeOK, TrailOK, Levels, Queue, Backtrack, PC, decisionLevel, Watchers, Added, Constr
<1>16. ASSUME NEW l \in Lit, AddUnit(l) PROVE Base'
  <2>1. TrailOK' /\ assigns' \in SUBSET Lit /\ trail' \in Seq(Lit) /\ pend' \in [Constr -> Int]
        /\ Len(trail') = Len(trail) + 1 /\ (\A i \in DOMAIN trail : trail'[i] = trail[i])
    BY <1>16, EnqueueTrail DEF AddUnit
  <2> QED BY <1>16, <2>1 DEF AddUnit, Fixpoint, TypeOK, Levels, Queue, Backtrack, PC, decisionLevel, Watchers, Added
<1>17. ASSUME NEW l \in Lit, Decide(l) PROVE Base'
  <2>1. TrailOK' /\ assigns' \in SUBSET Lit /\ trail' \in Seq(Lit) /\ pend' \in [Constr -> Int]
        /\ Len(trail') = Len(trail) + 1 /\ (\A i \in DOMAIN trail : trail'[i] = trail[i])
    BY <1>17, EnqueueTrail DEF Decide
  <2>2. TypeOK'
    BY <1>17, <2>1 DEF Decide, Fixpoint, TypeOK
  <2>3. Levels'
    <3>1. \A k \in DOMAIN trail_lim : trail_lim[k] \in Nat /\ trail_lim[k] <= Len(trail)
      BY <1>17 DEF Decide, Fixpoint, TypeOK, Levels
    <3>2. \A k \in DOMAIN trail_lim' :
            \/ k \in DOMAIN trail_lim /\ trail_lim'[k] = trail_lim[k] /\ k < Len(trail_lim')
            \/ k = Len(trail_lim') /\ trail_lim'[k] = Len(trail)
      BY <1>17 DEF Decide, TypeOK
    <3>3. /\ \A k \in DOMAIN trail_lim : \A m \in DOMAIN trail_lim : k <= m => trail_lim[k] <= trail_lim[m]
          /\ Len(trail) \in Nat /\ \A k \in DOMAIN trail_lim' : k \in Nat /\ k <= Len(trail_lim')
          /\ Len(trail_lim') \in Nat
      BY <2>2 DEF Levels, TypeOK
    <3>4. \A k \in DOMAIN trail_lim' : trail_lim'[k] \in Nat /\ trail_lim'[k] <= Len(trail)
      BY <3>1, <3>2, <3>3
    <3>5. \A k, m \in DOMAIN trail_lim' : k <= m => trail_lim'[k] <= trail_lim'[m]
      BY <3>2, <3>3, <3>4
    <3> QED BY <2>1, <3>3, <3>4, <3>5 DEF Levels
  <2>5. Backtrack'
    BY <1>17 DEF Decide, Fixpoint, Backtrack
  <2>4. Queue'
    BY <1>17, <2>1 DEF Decide, Fixpoint, TypeOK, Levels, Queue
  <2> QED BY <2>1, <2>2, <2>3, <2>4, <2>5
<1>18. ASSUME NEW l \in Lit, Imply(l) PROVE Base'
  <2>1. TrailOK' /\ assigns' \in SUBSET Lit /\ trail' \in Seq(Lit) /\ pend' \in [Constr -> Int]
        /\ Len(trail') = Len(trail) + 1 /\ (\A i \in DOMAIN trail : trail'[i] = trail[i])
    BY <1>18, EnqueueTrail DEF Imply
  <2>2. TypeOK' /\ Levels' /\ Backtrack'
    BY <1>18, <2>1 DEF Imply, TypeOK, Levels, Queue, Backtrack, PC, decisionLevel
  <2>3. pc # "init" => trail'[at] = trail[at]
    <3>1. pc # "init" => at \in DOMAIN trail
      BY <1>18 DEF Imply, TypeOK, Queue
    <3> QED BY <2>1, <3>1
  <2>4. Queue'
    BY <1>18, <2>1, <2>3 DEF Imply, TypeOK, Queue, Watchers, Added
  <2> QED BY <2>1, <2>2, <2>4
<1>19. ASSUME NEW c \in Constr, Call(c) PROVE Base'
  <2>1. trail[at] \in Lit /\ VarOf(trail[at]) \in Var
    BY <1>19, VarOfLit DEF Call, TypeOK, Queue
  <2>2. TypeOK'
    <3>1. pend' \in [Constr -> Int] /\ todo' \in SUBSET Constr /\ pc' \in PC
      BY <1>19 DEF Call, AddNumPending, TypeOK, PC
    <3>2. told' \in [Constr -> [Lit -> Int]]
      BY <1>19, <2>1 DEF Call, TypeOK
    <3>4. undo' \in [Var -> [Constr -> Int]]
      BY <1>19, <2>1 DEF Call, TypeOK
    <3>3. fullAt' \in [Constr -> SUBSET Nat]
      BY <1>19 DEF Call, TypeOK
    <3> QED BY <1>19, <3>1, <3>2, <3>3, <3>4 DEF Call, TypeOK
  <2>3. TrailOK' /\ Levels' /\ Backtrack'
    BY <1>19 DEF Call, TrailOK, Levels, Backtrack, decisionLevel
  <2>4. Queue'
    BY <1>19 DEF Call, Queue, Watchers, Added
  <2> QED BY <2>2, <2>3, <2>4
<1>20. ASSUME AnalyzeUndo PROVE Base'
  <2>1. index \in DOMAIN trail /\ UndoEntry(index)
    BY <1>20, AnalyzePosition DEF AnalyzeUndo
  <2>2. TypeOK'
    BY <1>20, <2>1, UndoEntryTypes, AnalyzePosition DEF AnalyzeUndo, TypeOK
  <2>3. TrailOK' /\ Levels' /\ Queue'
    BY <1>20 DEF AnalyzeUndo, TrailOK, Levels, Queue
  <2>4. Backtrack'
    BY <1>20, AnalyzePosition DEF AnalyzeUndo, TypeOK, Backtrack, decisionLevel
  <2> QED BY <2>2, <2>3, <2>4
<1>21. ASSUME Cancel PROVE Base'
  <2>1. Len(trail) \in DOMAIN trail /\ UndoEntry(Len(trail)) /\ trail_lim[target + 1] \in Nat
        /\ Len(trail) \in Nat /\ Len(trail) > 0
    BY <1>21, CancelPosition DEF Cancel
  <2>2. /\ trail' \in Seq(Lit) /\ Len(trail') = Len(trail) - 1 /\ DOMAIN trail' = 1..(Len(trail) - 1)
        /\ \A i \in 1..(Len(trail) - 1) : i \in DOMAIN trail /\ trail'[i] = trail[i]
    <3>1. \A i \in 1..(Len(trail) - 1) : i \in DOMAIN trail /\ trail[i] \in Lit
      BY <2>1 DEF TypeOK
    <3>2. trail' = SubSeq(trail, 1, Len(trail) - 1)
      BY <1>21 DEF Cancel
    <3>3. /\ trail' \in Seq(Lit) /\ Len(trail') = Len(trail) - 1
          /\ \A i \in 1..(Len(trail) - 1) : trail'[i] = trail[i]
      <4>1. Len(trail) - 1 \in Int
        BY <2>1
      <4>2. /\ SubSeq(trail, 1, Len(trail) - 1) \in Seq(Lit)
            /\ Len(SubSeq(trail, 1, Len(trail) - 1)) =
                 IF 1 <= Len(trail) - 1 THEN Len(trail) - 1 - 1 + 1 ELSE 0
            /\ \A i \in 1..(Len(trail) - 1 - 1 + 1) :
                 SubSeq(trail, 1, Len(trail) - 1)[i] = trail[1 + i - 1]
        BY <3>1, <4>1, SubSeqProperties
      <4>n. \A n \in Nat : n > 0 => n - 1 - 1 + 1 = n - 1 /\ (1 <= n - 1 \/ n - 1 = 0)
        OBVIOUS
      <4>3. Len(trail) - 1 - 1 + 1 = Len(trail) - 1 /\ (1 <= Len(trail) - 1 \/ Len(trail) - 1 = 0)
        BY <2>1, <4>n
      <4>4. \A i \in 1..(Len(trail) - 1) : trail'[i] = trail[i]
        <5> TAKE i \in 1..(Len(trail) - 1)
        <5>1. 1 + i - 1 = i
          OBVIOUS
        <5> QED BY <3>2, <4>2, <4>3, <5>1
      <4>5. Len(trail') = Len(trail) - 1
        BY <3>2, <4>2, <4>3
      <4> QED BY <3>2, <4>2, <4>4, <4>5
    <3>4. DOMAIN trail' = 1..(Len(trail) - 1)
      BY <3>3
    <3> QED BY <3>1, <3>3, <3>4
  <2>3. TypeOK'
    BY <1>21, <2>1, <2>2, UndoEntryTypes DEF Cancel, TypeOK
  <2>4. TrailOK'
    <3>1. \A i \in 1..(Len(trail) - 1) : trail'[i] # trail[Len(trail)]
      BY <2>1, <2>2 DEF TrailOK
    <3>2. assigns' = {trail'[i] : i \in DOMAIN trail'}
      <4>1. \A i \in DOMAIN trail : i \in DOMAIN trail' \/ i = Len(trail)
        BY <2>1, <2>2 DEF TypeOK
      <4>2. assigns' = {trail[i] : i \in DOMAIN trail} \ {trail[Len(trail)]}
        BY <1>21 DEF Cancel, TrailOK
      <4>3. {trail'[i] : i \in DOMAIN trail'} = {trail[i] : i \in DOMAIN trail'}
        BY <2>2
      <4> QED BY <2>2, <3>1, <4>1, <4>2, <4>3
    <3> QED BY <2>2, <3>2 DEF TrailOK
  <2>l. /\ pc = "cancel" /\ pc' = "cancel" /\ target \in Nat /\ target + 1 \in DOMAIN trail_lim
        /\ \A k \in DOMAIN trail_lim : trail_lim[k] \in Nat
        /\ trail_lim[target + 1] <= Len(trail) - 1
        /\ trail_lim' = trail_lim /\ target' = target
    BY <1>21, <2>1, CancelPosition DEF Cancel, TypeOK
  <2>5. Levels'
    BY <2>1, <2>2, <2>l DEF Levels
  <2>7. Queue'
    BY <1>21 DEF Cancel, Queue
  <2>6. Backtrack'
    <3>1. \A i \in 1..trail_lim[target + 1] : trail'[i] = trail[i]
      BY <2>1, <2>2, <2>l
    <3>2. target < decisionLevel /\ (learnt # lit_Undef => \A i \in 1..trail_lim[target + 1] : VarOf(trail[i]) # VarOf(learnt))
      BY <2>l DEF Backtrack
    <3>3. /\ Len(trail) <= qhead /\ trail_lim[target + 1] <= index /\ trail_lim[target + 1] <= at
          /\ at = trail_lim[target + 1] => todo = {}
      BY <2>l DEF Backtrack
    <3>4. qhead' = qhead /\ index' = index /\ at' = at /\ todo' = todo /\ learnt' = learnt /\ qhead \in Nat
      BY <1>21 DEF Cancel, TypeOK
    <3> QED BY <2>1, <2>2, <2>l, <3>1, <3>2, <3>3, <3>4 DEF Backtrack, decisionLevel
  <2> QED BY <2>3, <2>4, <2>5, <2>6, <2>7
<1>22. ASSUME CancelDone PROVE Base'
  <2>1. /\ trail_lim' \in Seq(Nat) /\ Len(trail_lim') = target /\ DOMAIN trail_lim' = 1..target
        /\ \A k \in 1..target : k \in DOMAIN trail_lim /\ trail_lim'[k] = trail_lim[k]
        /\ target + 1 \in DOMAIN trail_lim /\ trail_lim[target + 1] \in Nat
    <3>1. /\ target \in Nat /\ target < Len(trail_lim) /\ trail_lim \in Seq(Nat)
          /\ target + 1 \in DOMAIN trail_lim /\ trail_lim[target + 1] \in Nat
      BY <1>22, CancelPosition DEF CancelDone, TypeOK, decisionLevel
    <3>2. trail_lim' = SubSeq(trail_lim, 1, target)
      BY <1>22 DEF CancelDone
    <3>3. \A k \in 1..target : k \in DOMAIN trail_lim
      BY <3>1
    <3> QED BY <3>1, <3>2, <3>3
  <2>2. TypeOK' /\ TrailOK'
    BY <1>22, <2>1 DEF CancelDone, TypeOK, TrailOK, PC
  <2>3. Levels'
    <3>1. /\ pc' # "cancel" /\ trail' = trail /\ Len(trail) = trail_lim[target + 1]
          /\ target \in Nat /\ Len(trail) \in Nat
      BY <1>22 DEF CancelDone, TypeOK
    <3>2. \A k, m \in 1..(target + 1) : k <= m => trail_lim[k] <= trail_lim[m]
      <4>1. \A k \in 1..(target + 1) : k \in DOMAIN trail_lim
        BY <2>1, <3>1
      <4> QED BY <4>1 DEF Levels
    <3>3. \A k \in 1..target : k \in 1..(target + 1) /\ target + 1 \in 1..(target + 1) /\ k <= target + 1
      BY <3>1
    <3> QED BY <2>1, <3>1, <3>2, <3>3 DEF Levels
  <2>4. Queue'
    BY <1>22, <2>1 DEF CancelDone, TypeOK, Levels, Queue, decisionLevel
  <2>5. Backtrack'
    BY <1>22, <2>1 DEF CancelDone, TypeOK, Backtrack, decisionLevel, lit_Undef
  <2> QED BY <2>2, <2>3, <2>4, <2>5
<1>23. ASSUME Learn PROVE Base'
  <2>1. learnt \in Lit /\ IsUndef(learnt)
    BY <1>23, LearntFree DEF Learn
  <2>2. TrailOK' /\ assigns' \in SUBSET Lit /\ trail' \in Seq(Lit) /\ pend' \in [Constr -> Int]
        /\ Len(trail') = Len(trail) + 1 /\ (\A i \in DOMAIN trail : trail'[i] = trail[i])
    BY <1>23, <2>1, EnqueueTrail DEF Learn
  <2> QED BY <1>23, <2>2 DEF Learn, TypeOK, Levels, Queue, Backtrack, PC, decisionLevel, Watchers, Added
<1>25. ASSUME AddEmpty PROVE Base'
  BY <1>25 DEF AddEmpty, Fixpoint, TypeOK, TrailOK, Levels, Queue, Backtrack, PC, decisionLevel, Watchers, Added, Constr
<1>24. ASSUME UNCHANGED trailVars PROVE Base'
  <2>1. TypeOK' /\ TrailOK'
    BY <1>24 DEF trailVars, TypeOK, TrailOK
  <2>2. Levels' /\ Backtrack'
    BY <1>24 DEF trailVars, Levels, Backtrack, decisionLevel
  <2>3. Queue'
    BY <1>24 DEF trailVars, Queue, Watchers, Added
  <2> QED BY <2>1, <2>2, <2>3
<1> QED
  BY <1>1, <1>2, <1>3, <1>4, <1>5, <1>6, <1>7, <1>8, <1>9, <1>10, <1>11, <1>12, <1>13, <1>14,
     <1>15, <1>16, <1>17, <1>18, <1>19, <1>20, <1>21, <1>22, <1>23, <1>24, <1>25
  DEF Next, Propagation, Backtracking
-----------------------------------------------------------------------------
\* A constraint is owed calls for finitely many trail entries.
LEMMA OwedFinite ==
  ASSUME TypeOK, NEW c \in Constr
  PROVE  IsFiniteSet(Owed(c))
<1>1. Len(trail) \in Nat /\ DOMAIN trail = 1..Len(trail)
  BY DEF TypeOK
<1>2. Owed(c) \subseteq 1..Len(trail)
  BY <1>1 DEF Owed
<1>3. IsFiniteSet(1..Len(trail))
  BY <1>1, FS_Interval
<1> QED BY <1>2, <1>3, FS_Subset

\* One more owed call, and one more counted.
LEMMA OwedGrows ==
  ASSUME TypeOK, NEW c \in Constr, pend[c] = Cardinality(Owed(c)),
         NEW i, i \notin Owed(c), Owed(c)' = Owed(c) \cup {i}, pend'[c] = pend[c] + 1
  PROVE  pend'[c] = Cardinality(Owed(c)')
BY OwedFinite, FS_AddElement

\* One owed call less, and one less counted.
LEMMA OwedShrinks ==
  ASSUME TypeOK, NEW c \in Constr, pend[c] = Cardinality(Owed(c)),
         NEW i \in Owed(c), Owed(c)' = Owed(c) \ {i}, pend'[c] = pend[c] - 1
  PROVE  pend'[c] = Cardinality(Owed(c)')
BY OwedFinite, FS_RemoveElement

\* An enqueued literal is pending at the constraints that watch it.
LEMMA OwedAfterEnqueue ==
  ASSUME Base, PendingCountsOwed, NEW l \in Lit, IsUndef(l), Enqueue(l),
         pc # "cancel", qhead' = qhead, at' = at, todo' = todo, nconstr' = nconstr,
         pc \in {"clauses", "constr", "called"} <=> pc' \in {"clauses", "constr", "called"}
  PROVE  PendingCountsOwed'
<1>1. /\ Len(trail) \in Nat /\ DOMAIN trail = 1..Len(trail) /\ DOMAIN trail' = 1..(Len(trail) + 1)
      /\ trail'[Len(trail) + 1] = l /\ \A i \in 1..Len(trail) : trail'[i] = trail[i]
  BY EnqueueTrail DEF Base, TypeOK
<1>2. qhead \in Nat /\ at \in Nat /\ at <= qhead /\ qhead <= Len(trail)
  BY DEF Base, TypeOK, Queue
<1> SUFFICES ASSUME NEW c \in Constr PROVE pend'[c] = Cardinality(Owed(c)')
  BY DEF PendingCountsOwed
<1>3. pend[c] = Cardinality(Owed(c)) /\ TypeOK
  BY DEF PendingCountsOwed, Base
<1>4. \A i \in 1..Len(trail) : i \in Owed(c)' <=> i \in Owed(c)
  BY <1>1, <1>2 DEF Owed, Added
<1>5. Owed(c) \subseteq 1..Len(trail) /\ Owed(c)' \subseteq 1..Len(trail) \cup {Len(trail) + 1}
  BY <1>1 DEF Owed
<1>6. Len(trail) + 1 \notin Owed(c)
  BY <1>1, <1>5
<1>7. Len(trail) + 1 \in Owed(c)' <=> c \in Watchers(l)
  BY <1>1, <1>2 DEF Owed, Watchers, Added
<1>8. CASE c \in Watchers(l)
  <2>1. Owed(c)' = Owed(c) \cup {Len(trail) + 1}
    BY <1>4, <1>5, <1>7, <1>8
  <2>2. pend'[c] = pend[c] + 1
    BY <1>8 DEF Enqueue, AddNumPending
  <2> QED BY <2>1, <2>2, <1>3, <1>6, OwedGrows
<1>9. CASE c \notin Watchers(l)
  <2>1. Owed(c)' = Owed(c)
    BY <1>4, <1>5, <1>7, <1>9
  <2>2. pend'[c] = pend[c]
    BY <1>9 DEF Enqueue, AddNumPending
  <2> QED BY <2>1, <2>2, <1>3
<1> QED BY <1>8, <1>9

\* The watchers S of a dequeued literal are no longer called on trail entry i.
LEMMA OwedAfterSkip ==
  ASSUME TypeOK, PendingCountsOwed, NEW S, NEW i, AddNumPending(S, -1),
         \A c \in Constr : IF c \in S THEN i \in Owed(c) /\ Owed(c)' = Owed(c) \ {i}
                                      ELSE Owed(c)' = Owed(c)
  PROVE  PendingCountsOwed'
<1> SUFFICES ASSUME NEW c \in Constr PROVE pend'[c] = Cardinality(Owed(c)')
  BY DEF PendingCountsOwed
<1>1. pend[c] = Cardinality(Owed(c)) /\ pend[c] \in Int
  BY DEF PendingCountsOwed, TypeOK
<1>2. CASE c \in S
  <2>1. pend'[c] = pend[c] - 1
    BY <1>1, <1>2 DEF AddNumPending
  <2> QED BY <1>1, <1>2, <2>1, OwedShrinks
<1>3. CASE c \notin S
  <2>1. pend'[c] = pend[c]
    BY <1>3 DEF AddNumPending
  <2> QED BY <1>1, <1>3, <2>1
<1> QED BY <1>2, <1>3

\* Nothing is pending at first.
LEMMA PendingInit == Init => PendingCountsOwed
<1> SUFFICES ASSUME Init, NEW c \in Constr PROVE pend[c] = Cardinality(Owed(c))
  BY DEF PendingCountsOwed
<1>1. Owed(c) = {}
  BY DEF Init, Owed
<1> QED BY <1>1, FS_EmptySet DEF Init, NoEntries

\* Every step counts the pending calls right.
LEMMA PendingStep ==
  Base /\ PendingCountsOwed /\ [Next]_trailVars => PendingCountsOwed'
<1> SUFFICES ASSUME Base, PendingCountsOwed, [Next]_trailVars PROVE PendingCountsOwed'
  OBVIOUS
<1>t. TypeOK /\ Len(trail) \in Nat /\ DOMAIN trail = 1..Len(trail) /\ qhead \in Nat /\ at \in Nat
  BY DEF Base, TypeOK
\* Steps after which the same calls are owed, and counted.
<1>u. ASSUME pend' = pend, \A c \in Constr : Owed(c)' = Owed(c) PROVE PendingCountsOwed'
  BY <1>u DEF PendingCountsOwed
<1>1. ASSUME Dequeue PROVE PendingCountsOwed'
  <2>1. at = qhead /\ todo = {} /\ qhead + 1 \in DOMAIN trail
    BY <1>1, <1>t DEF Dequeue, Base, Queue
  <2>2. ASSUME NEW c \in Constr, NEW i \in DOMAIN trail PROVE i \in Owed(c)' <=> i \in Owed(c)
    BY <1>1, <2>1, <1>t DEF Dequeue, Owed, Watchers, Added
  <2>3. \A c \in Constr : Owed(c)' = Owed(c)
    BY <1>1, <2>2 DEF Dequeue, Owed
  <2> QED BY <1>1, <2>3, <1>u DEF Dequeue
<1>2. ASSUME ClauseConflict PROVE PendingCountsOwed'
  <2>1. at = qhead /\ at \in DOMAIN trail /\ todo = Watchers(trail[at])
    BY <1>2, <1>t DEF ClauseConflict, Base, Queue
  <2>2. \A c \in Constr : IF c \in Watchers(trail[at])
                          THEN at \in Owed(c) /\ Owed(c)' = Owed(c) \ {at}
                          ELSE Owed(c)' = Owed(c)
    BY <1>2, <2>1, <1>t DEF ClauseConflict, Owed, Watchers, Added
  <2>3. AddNumPending(Watchers(trail[at]), -1)
    BY <1>2 DEF ClauseConflict
  <2> QED BY <2>2, <2>3, <1>t, OwedAfterSkip
<1>3. ASSUME ClausesDone PROVE PendingCountsOwed'
  BY <1>3, <1>u DEF ClausesDone, Owed, Added
<1>4. ASSUME ReturnTrue PROVE PendingCountsOwed'
  BY <1>4, <1>u DEF ReturnTrue, Owed, Added
<1>5. ASSUME ReturnFalse PROVE PendingCountsOwed'
  <2>1. at = qhead /\ at \in DOMAIN trail /\ todo \subseteq Watchers(trail[at])
    BY <1>5, <1>t DEF ReturnFalse, Base, Queue
  <2>2. \A c \in Constr : IF c \in todo
                          THEN at \in Owed(c) /\ Owed(c)' = Owed(c) \ {at}
                          ELSE Owed(c)' = Owed(c)
    <3> TAKE c \in Constr
    <3>1. c \in todo => c \in Added /\ trail[at] \in Watch[c]
      BY <2>1 DEF Watchers
    <3>2. ~(at > qhead)
      BY <2>1, <1>t
    <3>3. \A i \in DOMAIN trail : i \in Owed(c)' <=> i \in Owed(c) /\ ~(i = at /\ c \in todo)
      BY <1>5, <3>2 DEF ReturnFalse, Owed, Added
    <3>4. Owed(c) \subseteq DOMAIN trail /\ Owed(c)' \subseteq DOMAIN trail
      BY <1>5 DEF ReturnFalse, Owed
    <3>5. c \in todo => at \in Owed(c)
      BY <1>5, <2>1, <3>1 DEF ReturnFalse, Owed
    <3> QED BY <3>3, <3>4, <3>5
  <2> QED BY <1>5, <2>2, <1>t, OwedAfterSkip DEF ReturnFalse
<1>6. ASSUME CallsDone PROVE PendingCountsOwed'
  BY <1>6, <1>u DEF CallsDone, Owed, Added
<1>7. ASSUME Drain PROVE PendingCountsOwed'
  <2>1. qhead + 1 \in DOMAIN trail
    BY <1>7, <1>t DEF Drain, Base, Queue
  <2>2. \A c \in Constr : IF c \in Watchers(trail[qhead + 1])
                          THEN qhead + 1 \in Owed(c) /\ Owed(c)' = Owed(c) \ {qhead + 1}
                          ELSE Owed(c)' = Owed(c)
    BY <1>7, <2>1, <1>t DEF Drain, Owed, Watchers, Added
  <2> QED BY <1>7, <2>2, <1>t, OwedAfterSkip DEF Drain
<1>8. ASSUME DrainDone PROVE PendingCountsOwed'
  BY <1>8, <1>u DEF DrainDone, Owed, Added
<1>9. ASSUME ConflictAtRoot PROVE PendingCountsOwed'
  BY <1>9, <1>u DEF ConflictAtRoot, Owed, Added
<1>10. ASSUME StartAnalyze PROVE PendingCountsOwed'
  BY <1>10, <1>u DEF StartAnalyze, Owed, Added
<1>11. ASSUME DummyLevel PROVE PendingCountsOwed'
  BY <1>11, <1>u DEF DummyLevel, Owed, Added
<1>12. ASSUME NEW res \in BOOLEAN, Initialized(res) PROVE PendingCountsOwed'
  BY <1>12, <1>u DEF Initialized, Owed, Added
<1>13. ASSUME NEW k \in 0..decisionLevel, StartCancel(k) PROVE PendingCountsOwed'
  BY <1>13, <1>u DEF StartCancel, Fixpoint, Owed, Added
<1>14. ASSUME NEW k \in 0..decisionLevel, AnalyzeDone(k) PROVE PendingCountsOwed'
  BY <1>14, <1>u DEF AnalyzeDone, Owed, Added
<1>15. ASSUME AddConstraint PROVE PendingCountsOwed'
  <2>1. \A c \in Constr : Owed(c) = {} /\ Owed(c)' = {}
    BY <1>15, <1>t DEF AddConstraint, Fixpoint, Owed
  <2> QED BY <1>15, <2>1, <1>u DEF AddConstraint
<1>16. ASSUME NEW l \in Lit, AddUnit(l) PROVE PendingCountsOwed'
  BY <1>16, OwedAfterEnqueue DEF AddUnit, Fixpoint
<1>17. ASSUME NEW l \in Lit, Decide(l) PROVE PendingCountsOwed'
  BY <1>17, OwedAfterEnqueue DEF Decide, Fixpoint
<1>18. ASSUME NEW l \in Lit, Imply(l) PROVE PendingCountsOwed'
  BY <1>18, OwedAfterEnqueue DEF Imply
<1>19. ASSUME NEW d \in Constr, Call(d) PROVE PendingCountsOwed'
  <2>1. at = qhead /\ at \in DOMAIN trail /\ d \in Watchers(trail[at])
    BY <1>19, <1>t DEF Call, Base, Queue
  <2>2. \A c \in Constr : IF c \in {d}
                          THEN at \in Owed(c) /\ Owed(c)' = Owed(c) \ {at}
                          ELSE Owed(c)' = Owed(c)
    BY <1>19, <2>1, <1>t DEF Call, Owed, Watchers, Added
  <2> QED BY <1>19, <2>2, <1>t, OwedAfterSkip DEF Call
<1>20. ASSUME AnalyzeUndo PROVE PendingCountsOwed'
  BY <1>20, <1>u DEF AnalyzeUndo, Owed, Added
<1>21. ASSUME Cancel PROVE PendingCountsOwed'
  <2>1. Len(trail) <= qhead /\ trail' = SubSeq(trail, 1, Len(trail) - 1) /\ pc = "cancel" /\ pc' = "cancel"
    BY <1>21 DEF Cancel, Base, Backtrack
  <2>2. \A i \in DOMAIN trail' : ~(i > qhead)
    BY <2>1, <1>t DEF TypeOK
  <2>3. \A c \in Constr : Owed(c) = {} /\ Owed(c)' = {}
    BY <1>21, <2>1, <2>2, <1>t DEF Cancel, Owed
  <2> QED BY <1>21, <2>3, <1>u DEF Cancel
<1>22. ASSUME CancelDone PROVE PendingCountsOwed'
  <2>1. \A c \in Constr : Owed(c) = {} /\ Owed(c)' = {}
    BY <1>22, <1>t DEF CancelDone, Owed, Base, Backtrack
  <2> QED BY <1>22, <2>1, <1>u DEF CancelDone
<1>23. ASSUME Learn PROVE PendingCountsOwed'
  <2>1. learnt \in Lit /\ IsUndef(learnt)
    BY <1>23, LearntFree DEF Learn, Base
  <2> QED BY <1>23, <2>1, OwedAfterEnqueue DEF Learn
<1>25. ASSUME AddEmpty PROVE PendingCountsOwed'
  BY <1>25, <1>u DEF AddEmpty, Fixpoint, Owed, Added
<1>24. ASSUME UNCHANGED trailVars PROVE PendingCountsOwed'
  BY <1>24, <1>u DEF trailVars, Owed, Added
<1> QED
  BY <1>1, <1>2, <1>3, <1>4, <1>5, <1>6, <1>7, <1>8, <1>9, <1>10, <1>11, <1>12, <1>13, <1>14,
     <1>15, <1>16, <1>17, <1>18, <1>19, <1>20, <1>21, <1>22, <1>23, <1>24, <1>25
     DEF Next, Propagation, Backtracking

-----------------------------------------------------------------------------
(***************************************************************************)
(* UndoMatchesCalls in the form that is inductive: by trail position, of   *)
(* which each literal has at most one.                                     *)
(***************************************************************************)
ToldRight ==
  \A c \in Constr :
    /\ \A i \in DOMAIN trail : told[c][trail[i]] = IF Knows(c, i) THEN 1 ELSE 0
    /\ \A l \in Lit \ assigns : told[c][l] = 0

UndoRight ==
  \A c \in Constr, x \in Var : undo[x][c] = told[c][x] + told[c][-x]

Calls == ToldRight /\ UndoRight

\* The two forms say the same of a trail without repetitions.
LEMMA CallsMatch ==
  ASSUME TypeOK, TrailOK, Calls
  PROVE  UndoMatchesCalls
<1>1. ASSUME NEW c \in Constr, NEW l \in Lit
      PROVE  told[c][l] = IF \E i \in DOMAIN trail : trail[i] = l /\ Knows(c, i) THEN 1 ELSE 0
  <2>1. CASE l \in assigns
    <3>1. PICK k \in DOMAIN trail : trail[k] = l
      BY <2>1 DEF TrailOK
    <3>2. \A i \in DOMAIN trail : trail[i] = l => i = k
      BY <3>1 DEF TrailOK
    <3> QED BY <3>1, <3>2 DEF Calls, ToldRight
  <2>2. CASE l \notin assigns
    <3>1. \A i \in DOMAIN trail : trail[i] # l
      BY <2>2 DEF TrailOK
    <3> QED BY <2>2, <3>1 DEF Calls, ToldRight
  <2> QED BY <2>1, <2>2
<1> QED BY <1>1 DEF Calls, UndoRight, UndoMatchesCalls

\* No constraint has been called at first.
LEMMA CallsInit == Init => Calls
<1> SUFFICES ASSUME Init PROVE Calls
  OBVIOUS
<1>1. \A x \in Var : x \in Lit /\ -x \in Lit
  BY TrailAssumption DEF Var, Lit
<1>2. \A c \in Constr, l \in Lit : told[c][l] = 0
  BY DEF Init, NoCalls
<1>3. \A c \in Constr, x \in Var : undo[x][c] = 0
  BY DEF Init, NoEntries
<1>4. DOMAIN trail = {}
  BY DEF Init
<1> QED BY <1>1, <1>2, <1>3, <1>4 DEF Calls, ToldRight, UndoRight

\* A literal that is enqueued is known to no constraint yet.
LEMMA CallsAfterEnqueue ==
  ASSUME Base, Calls, NEW l \in Lit, IsUndef(l), Enqueue(l),
         pc \notin {"cancel", "analyze"}, pc' \notin {"cancel", "analyze"},
         at' = at, todo' = todo, nconstr' = nconstr, told' = told, undo' = undo
  PROVE  Calls'
<1>1. /\ Len(trail) \in Nat /\ DOMAIN trail = 1..Len(trail) /\ DOMAIN trail' = 1..(Len(trail) + 1)
      /\ trail'[Len(trail) + 1] = l /\ \A i \in 1..Len(trail) : trail'[i] = trail[i]
  BY EnqueueTrail DEF Base, TypeOK
<1>2. at \in Nat /\ at <= Len(trail)
  BY DEF Base, TypeOK, Queue
<1>3. l \notin assigns /\ assigns' = assigns \cup {l}
  BY DEF IsUndef, IsTrue, Enqueue
<1>4. ASSUME NEW c \in Constr, NEW i \in DOMAIN trail'
      PROVE  told[c][trail'[i]] = IF Knows(c, i)' THEN 1 ELSE 0
  <2>1. CASE i = Len(trail) + 1
    <3>1. ~Knows(c, i)'
      BY <1>1, <1>2, <2>1 DEF Knows
    <3> QED BY <1>1, <1>3, <2>1, <3>1 DEF Calls, ToldRight
  <2>2. CASE i \in 1..Len(trail)
    <3>1. Knows(c, i)' <=> Knows(c, i)
      BY <1>1, <2>2 DEF Knows, Added
    <3> QED BY <1>1, <2>2, <3>1 DEF Calls, ToldRight
  <2> QED BY <1>1, <2>1, <2>2
<1>5. ToldRight'
  BY <1>3, <1>4 DEF Calls, ToldRight
<1> QED BY <1>5 DEF Calls, UndoRight

\* Forgetting trail entry i makes it known to nobody.
LEMMA CallsAfterUndo ==
  ASSUME Base, Calls, NEW i \in DOMAIN trail, UndoEntry(i)
  PROVE  /\ \A c \in Constr, l \in Lit :
              told'[c][l] = IF l = trail[i] THEN 0 ELSE told[c][l]
         /\ UndoRight'
<1> DEFINE p == trail[i]
           x == VarOf(trail[i])
<1>1. p \in Lit /\ -p \in Lit /\ x \in Var /\ (p = x \/ p = -x)
  BY TrailAssumption DEF Base, TypeOK, Lit, Var, VarOf
<1>2. -p \notin assigns
  <2>1. \A j \in DOMAIN trail : trail[j] # -p
    <3> TAKE j \in DOMAIN trail
    <3>1. VarOf(-p) = VarOf(p) /\ -p # p
      BY <1>1 DEF Lit, VarOf
    <3> QED BY <3>1 DEF Base, TrailOK
  <2> QED BY <2>1 DEF Base, TrailOK
<1>3. \A c \in Constr : told[c][-p] = 0 /\ undo[x][c] = told[c][p] /\ told[c][p] \in Int
  <2> TAKE c \in Constr
  <2>1. told[c][-p] = 0 /\ told[c][p] \in Int
    BY <1>1, <1>2 DEF Base, TypeOK, Calls, ToldRight
  <2>2. undo[x][c] = told[c][x] + told[c][-x]
    BY <1>1 DEF Calls, UndoRight
  <2>3. CASE p = x
    BY <2>1, <2>2, <2>3
  <2>4. CASE p = -x
    <3>1. -p = x
      BY <1>1, <2>4 DEF Var
    <3> QED BY <2>1, <2>2, <2>4, <3>1
  <2> QED BY <1>1, <2>1, <2>3, <2>4
<1>4. \A c \in Constr : told'[c] = [told[c] EXCEPT ![p] = told[c][p] - undo[x][c]]
  BY DEF UndoEntry
<1>5. \A c \in Constr, l \in Lit : told'[c][l] = IF l = p THEN 0 ELSE told[c][l]
  <2> TAKE c \in Constr, l \in Lit
  <2>1. told[c] \in [Lit -> Int]
    BY DEF Base, TypeOK
  <2>2. told[c][p] - undo[x][c] = 0
    BY <1>3
  <2>3. told'[c] = [told[c] EXCEPT ![p] = 0]
    BY <1>4, <2>2
  <2> QED BY <1>1, <2>1, <2>3
<1>6. \A c \in Constr, y \in Var : undo'[y][c] = IF y = x THEN 0 ELSE undo[y][c]
  BY <1>1 DEF UndoEntry, NoEntries, Base, TypeOK
<1>7. ASSUME NEW c \in Constr, NEW y \in Var PROVE undo'[y][c] = told'[c][y] + told'[c][-y]
  <2>1. y \in Lit /\ -y \in Lit /\ VarOf(y) = y /\ VarOf(-y) = y
    BY TrailAssumption DEF Var, Lit, VarOf
  <2>2. CASE y = x
    <3>1. told'[c][p] = 0 /\ told'[c][-p] = 0
      <4>1. -p # p
        BY <1>1 DEF Lit
      <4> QED BY <1>1, <1>3, <1>5, <4>1
    <3>2. (y = p /\ -y = -p) \/ (y = -p /\ -y = p)
      BY <1>1, <2>2 DEF Var
    <3> QED BY <1>6, <2>2, <3>1, <3>2
  <2>3. CASE y # x
    <3>1. y # p /\ -y # p
      BY <1>1, <2>1, <2>3
    <3> QED BY <1>5, <1>6, <2>1, <2>3, <3>1 DEF Calls, UndoRight
  <2> QED BY <2>2, <2>3
<1> QED BY <1>5, <1>7 DEF UndoRight

\* Every step keeps the calls in order.
LEMMA CallsStep == Base /\ Calls /\ [Next]_trailVars => Calls'
<1> SUFFICES ASSUME Base, Calls, [Next]_trailVars PROVE Calls'
  OBVIOUS
<1>t. TypeOK /\ Len(trail) \in Nat /\ DOMAIN trail = 1..Len(trail) /\ qhead \in Nat /\ at \in Nat
      /\ index \in Nat /\ at <= qhead
  BY DEF Base, TypeOK, Queue
\* Steps after which the constraints know the same trail entries.
<1>u. ASSUME assigns' = assigns, trail' = trail, told' = told, undo' = undo,
             \A c \in Constr, i \in DOMAIN trail : Knows(c, i)' <=> Knows(c, i)
      PROVE  Calls'
  BY <1>u DEF Calls, ToldRight, UndoRight
<1>1. ASSUME Dequeue PROVE Calls'
  <2>1. at = qhead /\ todo = {}
    BY <1>1 DEF Dequeue, Base, Queue
  <2>2. ASSUME NEW c \in Constr, NEW i \in DOMAIN trail PROVE Knows(c, i)' <=> Knows(c, i)
    BY <1>1, <2>1, <1>t DEF Dequeue, Knows, Watchers, Added
  <2> QED BY <1>1, <2>2, <1>u DEF Dequeue
<1>2. ASSUME ClauseConflict PROVE Calls'
  BY <1>2, <1>u DEF ClauseConflict, Knows, Added
<1>3. ASSUME ClausesDone PROVE Calls'
  BY <1>3, <1>u DEF ClausesDone, Knows, Added
<1>4. ASSUME ReturnTrue PROVE Calls'
  BY <1>4, <1>u DEF ReturnTrue, Knows, Added
<1>5. ASSUME ReturnFalse PROVE Calls'
  BY <1>5, <1>u DEF ReturnFalse, Knows, Added
<1>6. ASSUME CallsDone PROVE Calls'
  BY <1>6, <1>u DEF CallsDone, Knows, Added
<1>7. ASSUME Drain PROVE Calls'
  BY <1>7, <1>u DEF Drain, Knows, Added
<1>8. ASSUME DrainDone PROVE Calls'
  BY <1>8, <1>u DEF DrainDone, Knows, Added
<1>9. ASSUME ConflictAtRoot PROVE Calls'
  BY <1>9, <1>u DEF ConflictAtRoot, Knows, Added
<1>10. ASSUME StartAnalyze PROVE Calls'
  BY <1>10, <1>t, <1>u DEF StartAnalyze, Knows, Added
<1>11. ASSUME DummyLevel PROVE Calls'
  BY <1>11, <1>u DEF DummyLevel, Knows, Added
<1>12. ASSUME NEW res \in BOOLEAN, Initialized(res) PROVE Calls'
  BY <1>12, <1>u DEF Initialized, Knows, Added
<1>13. ASSUME NEW k \in 0..decisionLevel, StartCancel(k) PROVE Calls'
  BY <1>13, <1>t, <1>u DEF StartCancel, Fixpoint, Knows, Added
<1>14. ASSUME NEW k \in 0..decisionLevel, AnalyzeDone(k) PROVE Calls'
  BY <1>14, <1>u DEF AnalyzeDone, Knows, Added
<1>15. ASSUME AddConstraint PROVE Calls'
  <2>c. PICK c \in Constr : c = nconstr + 1
    BY <1>15 DEF AddConstraint
  <2> DEFINE T == Watch[c] \cap assigns
  <2>1. c = nconstr + 1 /\ nconstr \in Nat /\ at = Len(trail) /\ todo = {} /\ pc' = "init"
    BY <2>c, <1>15, <1>t DEF AddConstraint, Fixpoint, Base, TypeOK, Queue
  <2>2. ASSUME NEW d \in Constr, d # c
        PROVE  /\ told'[d] = told[d] /\ \A x \in Var : undo'[x][d] = undo[x][d]
               /\ \A i \in DOMAIN trail : Knows(d, i)' <=> Knows(d, i)
    <3>1. told'[d] = told[d] /\ \A x \in Var : undo'[x][d] = undo[x][d]
      BY <1>15, <2>1, <2>2, <1>t DEF AddConstraint, TypeOK
    <3>2. d \in Added' <=> d \in Added
      BY <1>15, <2>1, <2>2 DEF AddConstraint, Added, Constr
    <3>3. \A i \in DOMAIN trail : Knows(d, i)' <=> Knows(d, i)
      BY <1>15, <3>2 DEF AddConstraint, Fixpoint, Knows
    <3> QED BY <3>1, <3>3
  <2>3. told'[c] = [l \in Lit |-> IF l \in T THEN 1 ELSE 0]
    BY <1>15, <2>1, <1>t DEF AddConstraint, TypeOK
  <2>4. \A x \in Var : undo'[x][c] = IF x \in T \/ -x \in T THEN 1 ELSE 0
    BY <1>15, <2>1, <1>t DEF AddConstraint, TypeOK
  <2>5. c \in Added'
    BY <1>15, <2>1 DEF AddConstraint, Added
  <2>6. \A i \in DOMAIN trail : Knows(c, i)' <=> trail[i] \in T
    <3> TAKE i \in DOMAIN trail
    <3>1. trail[i] \in assigns /\ (i < at \/ i = at)
      BY <2>1, <1>t DEF Base, TrailOK
    <3>2. trail' = trail /\ at' = at /\ todo' = todo
      BY <1>15 DEF AddConstraint
    <3> QED BY <2>1, <2>5, <3>1, <3>2 DEF Knows
  <2>7. \A l \in Lit \ assigns : told'[c][l] = 0
    BY <2>3
  <2>8. \A i \in DOMAIN trail : told'[c][trail[i]] = IF Knows(c, i)' THEN 1 ELSE 0
    BY <2>3, <2>6, <1>t DEF TypeOK
  <2>9. \A x \in Var : undo'[x][c] = told'[c][x] + told'[c][-x]
    <3> TAKE x \in Var
    <3>1. x \in Lit /\ -x \in Lit /\ VarOf(x) = VarOf(-x) /\ x # -x
      BY TrailAssumption DEF Var, Lit, VarOf
    <3>2. ~(x \in T /\ -x \in T)
      BY <3>1 DEF Base, TrailOK
    <3>3. told'[c][x] = (IF x \in T THEN 1 ELSE 0) /\ told'[c][-x] = (IF -x \in T THEN 1 ELSE 0)
      BY <2>3, <3>1
    <3> QED BY <2>4, <3>2, <3>3
  <2>10. ToldRight'
    <3> SUFFICES ASSUME NEW d \in Constr
                 PROVE  /\ \A i \in DOMAIN trail : told'[d][trail[i]] = IF Knows(d, i)' THEN 1 ELSE 0
                        /\ \A l \in Lit \ assigns : told'[d][l] = 0
      <4>1. trail' = trail /\ assigns' = assigns
        BY <1>15 DEF AddConstraint
      <4> QED BY <4>1 DEF ToldRight
    <3>1. CASE d = c
      BY <2>7, <2>8, <3>1 DEF Knows
    <3>2. CASE d # c
      BY <2>2, <3>2 DEF Calls, ToldRight
    <3> QED BY <3>1, <3>2
  <2>11. UndoRight'
    <3> SUFFICES ASSUME NEW d \in Constr, NEW x \in Var
                 PROVE  undo'[x][d] = told'[d][x] + told'[d][-x]
      BY DEF UndoRight
    <3>1. CASE d = c
      BY <2>9, <3>1
    <3>2. CASE d # c
      BY <2>2, <3>2 DEF Calls, UndoRight
    <3> QED BY <3>1, <3>2
  <2> QED BY <2>10, <2>11 DEF Calls
<1>16. ASSUME NEW l \in Lit, AddUnit(l) PROVE Calls'
  BY <1>16, CallsAfterEnqueue DEF AddUnit, Fixpoint
<1>17. ASSUME NEW l \in Lit, Decide(l) PROVE Calls'
  BY <1>17, CallsAfterEnqueue DEF Decide, Fixpoint
<1>18. ASSUME NEW l \in Lit, Imply(l) PROVE Calls'
  BY <1>18, CallsAfterEnqueue DEF Imply
<1>19. ASSUME NEW c \in Constr, Call(c) PROVE Calls'
  <2> DEFINE p == trail[at]
             x == VarOf(trail[at])
  <2>1. at \in DOMAIN trail /\ c \in Watchers(p) /\ p \in Lit /\ -p \in Lit /\ x \in Var
        /\ (p = x \/ p = -x)
    <3>1. at \in DOMAIN trail /\ c \in Watchers(p) /\ p \in Lit
      BY <1>19, <1>t DEF Call, Base, Queue, TypeOK
    <3> QED BY <3>1, TrailAssumption DEF Lit, Var, VarOf
  <2>2. told[c][p] = 0
    BY <1>19, <2>1, <1>t DEF Call, Calls, ToldRight, Knows
  <2>3. \A d \in Constr, l \in Lit :
          told'[d][l] = IF d = c /\ l = p THEN 1 ELSE told[d][l]
    <3> TAKE d \in Constr, l \in Lit
    <3>1. told' = [told EXCEPT ![c] = [told[c] EXCEPT ![p] = told[c][p] + 1]]
      BY <1>19 DEF Call
    <3>2. told[c] \in [Lit -> Int] /\ told \in [Constr -> [Lit -> Int]]
      BY <1>t DEF TypeOK
    <3>3. told'[d] = IF d = c THEN [told[c] EXCEPT ![p] = 1] ELSE told[d]
      BY <2>2, <3>1, <3>2
    <3> QED BY <2>1, <3>2, <3>3
  <2>4. \A d \in Constr, y \in Var :
          undo'[y][d] = IF d = c /\ y = x THEN undo[y][d] + 1 ELSE undo[y][d]
    BY <1>19, <2>1, <1>t DEF Call, TypeOK
  <2>5. \A d \in Constr, i \in DOMAIN trail :
          Knows(d, i)' <=> Knows(d, i) \/ (d = c /\ i = at)
    BY <1>19, <2>1, <1>t DEF Call, Knows, Watchers, Added
  <2>6. ToldRight'
    <3>1. \A i \in DOMAIN trail : trail[i] \in Lit /\ (trail[i] = p <=> i = at)
      BY <2>1, <1>t DEF Base, TypeOK, TrailOK
    <3>2. \A d \in Constr, i \in DOMAIN trail :
            told'[d][trail[i]] = IF Knows(d, i)' THEN 1 ELSE 0
      BY <2>3, <2>5, <3>1 DEF Calls, ToldRight
    <3>3. p \in assigns
      BY <2>1 DEF Base, TrailOK
    <3> QED BY <1>19, <2>3, <3>2, <3>3 DEF Call, Calls, ToldRight
  <2>7. UndoRight'
    <3> SUFFICES ASSUME NEW d \in Constr, NEW y \in Var
                 PROVE  undo'[y][d] = told'[d][y] + told'[d][-y]
      BY DEF UndoRight
    <3>1. y \in Lit /\ -y \in Lit /\ y # -y /\ y # 0 /\ y > 0
      BY TrailAssumption DEF Var, Lit
    <3>2. undo[y][d] = told[d][y] + told[d][-y] /\ told[d][y] \in Int /\ told[d][-y] \in Int
      BY <3>1, <1>t DEF Calls, UndoRight, TypeOK
    <3>3. y = x => (p = y \/ p = -y)
      BY <2>1
    <3>4. y # x => p # y /\ p # -y
      BY <2>1, <3>1 DEF Var
    <3>5. told'[d][y] = (IF d = c /\ y = p THEN 1 ELSE told[d][y])
          /\ told'[d][-y] = (IF d = c /\ -y = p THEN 1 ELSE told[d][-y])
      BY <2>3, <3>1
    <3>6. undo'[y][d] = IF d = c /\ y = x THEN undo[y][d] + 1 ELSE undo[y][d]
      BY <2>4
    <3>7. CASE d = c /\ y = x
      BY <2>2, <3>1, <3>2, <3>3, <3>5, <3>6, <3>7
    <3>8. CASE ~(d = c /\ y = x)
      BY <3>2, <3>4, <3>5, <3>6, <3>8
    <3> QED BY <3>7, <3>8
  <2> QED BY <2>6, <2>7 DEF Calls
<1>20. ASSUME AnalyzeUndo PROVE Calls'
  <2>1. index \in DOMAIN trail /\ UndoEntry(index) /\ pc = "analyze" /\ pc' = "analyze"
        /\ index' = index - 1 /\ trail' = trail /\ assigns' = assigns /\ at' = at /\ todo' = todo
        /\ nconstr' = nconstr
    BY <1>20 DEF AnalyzeUndo, Base, TypeOK, Backtrack, decisionLevel
  <2>2. UndoRight' /\ \A c \in Constr, l \in Lit :
                        told'[c][l] = IF l = trail[index] THEN 0 ELSE told[c][l]
    BY <2>1, CallsAfterUndo
  <2>3. \A i \in DOMAIN trail : trail[i] \in Lit /\ (trail[i] = trail[index] <=> i = index)
    BY <2>1 DEF Base, TypeOK, TrailOK
  <2>4. \A c \in Constr, i \in DOMAIN trail : Knows(c, i)' <=> Knows(c, i) /\ i # index
    BY <2>1, <1>t DEF Knows, Added
  <2>5. \A c \in Constr, i \in DOMAIN trail : told'[c][trail[i]] = IF Knows(c, i)' THEN 1 ELSE 0
    BY <2>2, <2>3, <2>4 DEF Calls, ToldRight
  <2> QED BY <2>1, <2>2, <2>5 DEF Calls, ToldRight
<1>21. ASSUME Cancel PROVE Calls'
  <2> DEFINE n == Len(trail)
  <2>1. n \in DOMAIN trail /\ UndoEntry(n) /\ pc = "cancel" /\ pc' = "cancel"
        /\ index' = index /\ trail' = SubSeq(trail, 1, n - 1) /\ assigns' = assigns \ {trail[n]}
        /\ at' = at /\ todo' = todo /\ nconstr' = nconstr
    BY <1>21, CancelPosition DEF Cancel, Base
  <2>2. UndoRight' /\ \A c \in Constr, l \in Lit :
                        told'[c][l] = IF l = trail[n] THEN 0 ELSE told[c][l]
    BY <2>1, CallsAfterUndo
  <2>3. \A i \in DOMAIN trail' : i \in DOMAIN trail /\ i # n /\ trail'[i] = trail[i] /\ trail[i] \in Lit
    BY <2>1, <1>t DEF TypeOK
  <2>4. \A i \in DOMAIN trail' : trail[i] # trail[n]
    BY <2>1, <2>3 DEF Base, TrailOK
  <2>5. \A c \in Constr, i \in DOMAIN trail' : Knows(c, i)' <=> Knows(c, i)
    BY <2>1, <2>3 DEF Knows, Added
  <2>6. \A c \in Constr, i \in DOMAIN trail' : told'[c][trail'[i]] = IF Knows(c, i)' THEN 1 ELSE 0
    BY <2>2, <2>3, <2>4, <2>5 DEF Calls, ToldRight
  <2>7. \A c \in Constr, l \in Lit \ assigns' : told'[c][l] = 0
    BY <2>1, <2>2 DEF Calls, ToldRight
  <2> QED BY <2>2, <2>6, <2>7 DEF Calls, ToldRight
<1>22. ASSUME CancelDone PROVE Calls'
  <2>1. /\ pc = "cancel" /\ pc' \in {"ready", "learn"} /\ at' = Len(trail) /\ todo' = {}
        /\ assigns' = assigns /\ trail' = trail /\ told' = told /\ undo' = undo /\ nconstr' = nconstr
    BY <1>22 DEF CancelDone
  <2>2. Len(trail) <= at /\ (at = Len(trail) => todo = {}) /\ Len(trail) <= index
    BY <1>22 DEF CancelDone, Base, Backtrack
  <2>3. \A c \in Constr, i \in DOMAIN trail : Knows(c, i)' <=> Knows(c, i)
    BY <2>1, <2>2, <1>t DEF Knows, Added
  <2> QED BY <2>1, <2>3, <1>u
<1>23. ASSUME Learn PROVE Calls'
  BY <1>23, LearntFree, CallsAfterEnqueue DEF Learn, Base
<1>25. ASSUME AddEmpty PROVE Calls'
  BY <1>25, <1>u DEF AddEmpty, Fixpoint, Knows, Added
<1>24. ASSUME UNCHANGED trailVars PROVE Calls'
  BY <1>24, <1>u DEF trailVars, Knows, Added
<1> QED
  BY <1>1, <1>2, <1>3, <1>4, <1>5, <1>6, <1>7, <1>8, <1>9, <1>10, <1>11, <1>12, <1>13, <1>14,
     <1>15, <1>16, <1>17, <1>18, <1>19, <1>20, <1>21, <1>22, <1>23, <1>24, <1>25
     DEF Next, Propagation, Backtracking
\* A step that makes a constraint forget trail entry i finds it knowing none above.
NewestFirst ==
  \A c \in Constr, i \in DOMAIN trail :
    told'[c][trail[i]] < told[c][trail[i]] =>
      \A j \in DOMAIN trail : told[c][trail[j]] > 0 => j <= i

\* Constraints forget what they were told last.
LEMMA ForgetsNewest ==
  Base /\ Calls /\ [Next]_trailVars => NewestFirst
<1> SUFFICES ASSUME Base, Calls, [Next]_trailVars,
                    NEW c \in Constr, NEW i \in DOMAIN trail, told'[c][trail[i]] < told[c][trail[i]],
                    NEW j \in DOMAIN trail, told[c][trail[j]] > 0
             PROVE  j <= i
  BY DEF NewestFirst
<1>t. TypeOK /\ Len(trail) \in Nat /\ DOMAIN trail = 1..Len(trail) /\ trail[i] \in Lit
      /\ index \in Nat /\ told[c][trail[i]] \in Int
  BY DEF Base, TypeOK
<1>k. Knows(c, j) /\ Knows(c, i)
  <2>1. told[c][trail[i]] \in {0, 1} /\ told[c][trail[j]] \in {0, 1}
    BY DEF Calls, ToldRight
  <2>2. told'[c][trail[i]] \in {0, 1}
    <3>1. Calls'
      BY CallsStep
    <3>2. CASE trail[i] \in assigns'
      <4>1. PICK k \in DOMAIN trail' : trail'[k] = trail[i]
        BY <3>2, BaseStep DEF Base, TrailOK
      <4> QED BY <3>1, <4>1 DEF Calls, ToldRight
    <3>3. CASE trail[i] \notin assigns'
      BY <3>1, <3>3, <1>t DEF Calls, ToldRight
    <3> QED BY <3>2, <3>3
  <2>3. told[c][trail[i]] = 1
    <3>1. CASE told[c][trail[i]] = 0
      BY <2>2, <3>1
    <3> QED BY <2>1, <3>1
  <2>4. told[c][trail[j]] = 1
    BY <2>1
  <2> QED BY <2>3, <2>4 DEF Calls, ToldRight
<1>1. CASE told' = told
  BY <1>1, <1>t
<1>2. CASE AddConstraint
  <2>1. c # nconstr + 1
    BY <1>k, <1>t DEF Knows, Added, TypeOK
  <2>2. told'[c] = told[c]
    BY <1>2, <2>1, <1>t DEF AddConstraint, TypeOK
  <2> QED BY <2>2, <1>t
<1>3. ASSUME NEW d \in Constr, Call(d) PROVE j <= i
  <2>1. trail[at] \in Lit
    BY <1>3 DEF Call, Base, TypeOK, Queue
  <2>2. told'[c][trail[i]] = told[c][trail[i]] \/ told'[c][trail[i]] = told[c][trail[i]] + 1
    BY <1>3, <2>1, <1>t DEF Call, TypeOK
  <2> QED BY <2>2, <1>t
<1>4. CASE AnalyzeUndo
  <2>1. index \in DOMAIN trail /\ UndoEntry(index) /\ j <= index
    BY <1>4, <1>k DEF AnalyzeUndo, Base, TypeOK, Backtrack, decisionLevel, Knows
  <2>2. trail[i] = trail[index]
    BY <2>1, CallsAfterUndo, <1>t
  <2>3. i = index
    BY <2>1, <2>2 DEF Base, TrailOK
  <2> QED BY <2>1, <2>3
<1>5. CASE Cancel
  <2>1. Len(trail) \in DOMAIN trail /\ UndoEntry(Len(trail))
    BY <1>5, <1>t DEF Cancel, Base, TypeOK, Backtrack, decisionLevel
  <2>2. trail[i] = trail[Len(trail)]
    BY <2>1, CallsAfterUndo, <1>t
  <2>3. i = Len(trail)
    BY <2>1, <2>2 DEF Base, TrailOK
  <2> QED BY <2>3, <1>t
<1>6. AddConstraint \/ (\E d \in Constr : Call(d)) \/ AnalyzeUndo \/ Cancel \/ told' = told
  BY DEF Next, Propagation, Backtracking, trailVars, Dequeue, ClauseConflict, ClausesDone, ReturnTrue,
     ReturnFalse, CallsDone, Drain, DrainDone, ConflictAtRoot, StartAnalyze, DummyLevel, Initialized,
     AddEmpty,
     StartCancel, AnalyzeDone, AddUnit, Decide, Imply, CancelDone, Learn
<1> QED BY <1>1, <1>2, <1>3, <1>4, <1>5, <1>6
-----------------------------------------------------------------------------
(***************************************************************************)
(* Lazy constraints.                                                       *)
(***************************************************************************)
Lively == {"ready", "init", "clauses", "constr", "called", "learn"}

\* No constraint has been added at first.
LEMMA LazyInit == Init => Lazy
BY DEF Init, Lazy, Added

\* Settled reads only the first n trail entries, and survives new full calls.
LEMMA SettledFrame ==
  ASSUME NEW c \in Constr, NEW n \in Nat, Settled(c, n),
         \A i \in 1..n : trail'[i] = trail[i],
         fullAt[c] \cap 1..n \subseteq fullAt'[c]
  PROVE  /\ \A i \in 1..n : trail'[i] \in Watch[c] /\ (\A j \in (i + 1)..n : trail'[j] \notin Watch[c])
                            => i \in fullAt'[c]
<1>1. \A i \in 1..n : \A j \in (i + 1)..n : j \in 1..n
  OBVIOUS
<1> QED BY <1>1 DEF Settled

\* An enqueued literal either is owed to the constraint or does not concern it.
LEMMA LazyAfterEnqueue ==
  ASSUME Base, Lazy, NEW l \in Lit, IsUndef(l), Enqueue(l),
         pc \in Lively, pc' \in Lively, ok, at' = at, qhead' = qhead, todo' = todo,
         nconstr' = nconstr, fullAt' = fullAt,
         pc \in {"clauses", "constr", "called"} <=> pc' \in {"clauses", "constr", "called"},
         \/ trail_lim' = trail_lim
         \/ trail_lim' = Append(trail_lim, Len(trail)) /\ Fixpoint
  PROVE  Lazy'
<1>1. /\ Len(trail) \in Nat /\ DOMAIN trail = 1..Len(trail) /\ DOMAIN trail' = 1..(Len(trail) + 1)
      /\ Len(trail') = Len(trail) + 1
      /\ trail'[Len(trail) + 1] = l /\ \A i \in 1..Len(trail) : trail'[i] = trail[i]
  BY EnqueueTrail DEF Base, TypeOK
<1>2. /\ qhead \in Nat /\ at \in Nat /\ at <= qhead /\ qhead <= Len(trail)
      /\ \A k \in DOMAIN trail_lim : trail_lim[k] \in Nat /\ trail_lim[k] <= Len(trail)
  BY DEF Base, TypeOK, Queue, Levels, Lively
<1>3. Added \subseteq Constr /\ Added' = Added
  BY TrailAssumption DEF Base, TypeOK, Added, Constr
<1>n. PICK n \in Nat : n = Len(trail)
  BY <1>1
<1> SUFFICES ASSUME NEW c \in Added
             PROVE  /\ \A k \in DOMAIN trail_lim' : Settled(c, trail_lim[k])'
                    /\ Owed(c)' = {} => Settled(c, Len(trail))'
  BY <1>3 DEF Lazy
<1>4. c \in Constr
  BY <1>3
<1>5. ASSUME NEW m \in Nat, m <= n, Settled(c, m)
      PROVE  \A i \in 1..m : /\ trail'[i] \in Watch[c]
                             /\ \A j \in (i + 1)..m : trail'[j] \notin Watch[c]
                             => i \in fullAt'[c]
  <2>1. \A i \in 1..m : trail'[i] = trail[i]
    BY <1>1, <1>n, <1>5
  <2> QED BY <2>1, <1>4, <1>5, SettledFrame
<1>6. Owed(c) = {} => Settled(c, n)
  BY <1>n DEF Lazy, Lively
<1>7. \A k \in DOMAIN trail_lim' : Settled(c, trail_lim[k])'
  <2>1. \A k \in DOMAIN trail_lim : trail_lim[k] \in Nat /\ trail_lim[k] <= n /\ Settled(c, trail_lim[k])
    BY <1>2, <1>n DEF Lazy, Lively
  <2>2. ASSUME NEW k \in DOMAIN trail_lim',
               trail_lim'[k] \in Nat, trail_lim'[k] <= n, Settled(c, trail_lim'[k])
        PROVE  Settled(c, trail_lim[k])'
    BY <1>5, <2>2 DEF Settled
  <2>3. CASE trail_lim' = trail_lim
    BY <2>1, <2>2, <2>3
  <2>4. CASE trail_lim' = Append(trail_lim, Len(trail)) /\ Fixpoint
    <3>1. Owed(c) = {}
      BY <1>1, <2>4 DEF Fixpoint, Owed
    <3>2. \A k \in DOMAIN trail_lim' :
            \/ k \in DOMAIN trail_lim /\ trail_lim'[k] = trail_lim[k]
            \/ trail_lim'[k] = n
      BY <1>n, <2>4 DEF Base, TypeOK
    <3> QED BY <1>6, <2>1, <2>2, <3>1, <3>2
  <2> QED BY <2>3, <2>4
<1>8. ASSUME Owed(c)' = {} PROVE Settled(c, Len(trail))'
  <2>1. l \notin Watch[c]
    <3>1. Len(trail) + 1 > qhead' /\ Len(trail) + 1 \in DOMAIN trail'
      BY <1>1, <1>2
    <3> QED BY <1>1, <1>3, <1>8, <3>1 DEF Owed
  <2>2. Owed(c) = {}
    BY <1>1, <1>3, <1>8 DEF Owed
  <2>3. \A i \in 1..n : /\ trail'[i] \in Watch[c]
                        /\ \A j \in (i + 1)..n : trail'[j] \notin Watch[c]
                        => i \in fullAt'[c]
    BY <1>5, <1>6, <2>2
  <2>4. \A i \in 1..(n + 1) : i \in 1..n \/ i = n + 1
    BY <1>n
  <2>5. \A i \in 1..n : \A j \in (i + 1)..n : j \in (i + 1)..(n + 1)
    BY <1>n
  <2>6. Len(trail') = n + 1 /\ trail'[n + 1] \notin Watch[c]
    BY <1>1, <1>n, <2>1
  <2> QED BY <2>3, <2>4, <2>5, <2>6 DEF Settled
<1> QED BY <1>7, <1>8

\* Every step settles what a lazy constraint is owed, or leaves it pending.
LEMMA LazyStep ==
  Base /\ Base' /\ PendingCountsOwed /\ Lazy /\ [Next]_trailVars => Lazy'
<1> SUFFICES ASSUME Base, Base', PendingCountsOwed, Lazy, [Next]_trailVars PROVE Lazy'
  OBVIOUS
<1>t. TypeOK /\ Len(trail) \in Nat /\ DOMAIN trail = 1..Len(trail) /\ qhead \in Nat /\ at \in Nat
      /\ Added \subseteq Constr /\ \A k \in DOMAIN trail_lim : trail_lim[k] \in Nat
  <2>1. nconstr \in Nat /\ nconstr <= NConstr /\ NConstr \in Nat
    BY TrailAssumption DEF Base, TypeOK
  <2>2. Added \subseteq Constr
    BY <2>1 DEF Added, Constr
  <2> QED BY <2>2 DEF Base, TypeOK
\* Steps that change neither the trail nor what is settled, and owe no less.
<1>u. ASSUME trail' = trail, trail_lim' = trail_lim, fullAt' = fullAt, nconstr' = nconstr,
             pc # "cancel",
             pc' \in Lively /\ ok' => pc \in Lively /\ ok /\
                                      \A c \in Added : Owed(c)' = {} => Owed(c) = {}
      PROVE  Lazy'
  <2>1. \A c \in Added : \A n : Settled(c, n)' <=> Settled(c, n)
    BY <1>u DEF Settled
  <2>2. Added' = Added
    BY <1>u DEF Added
  <2> QED BY <1>u, <2>1, <2>2 DEF Lazy, Lively
<1>1. ASSUME Dequeue PROVE Lazy'
  <2>1. at = qhead /\ todo = {}
    BY <1>1 DEF Dequeue, Base, Queue
  <2>2. ASSUME NEW c \in Added, NEW i \in DOMAIN trail PROVE i \in Owed(c)' <=> i \in Owed(c)
    BY <1>1, <2>1, <1>t DEF Dequeue, Owed, Watchers, Added
  <2>3. \A c \in Added : Owed(c)' = Owed(c)
    BY <1>1, <2>2 DEF Dequeue, Owed
  <2> QED BY <1>1, <2>3, <1>u DEF Dequeue, Lively
<1>2. ASSUME ClauseConflict PROVE Lazy'
  BY <1>2, <1>u DEF ClauseConflict, Lively
<1>3. ASSUME ClausesDone PROVE Lazy'
  BY <1>3, <1>u DEF ClausesDone, Lively, Owed, Added, Base, Queue
<1>4. ASSUME ReturnTrue PROVE Lazy'
  BY <1>4, <1>u DEF ReturnTrue, Lively, Owed, Added, Base, Queue
<1>5. ASSUME ReturnFalse PROVE Lazy'
  BY <1>5, <1>u DEF ReturnFalse, Lively
<1>6. ASSUME CallsDone PROVE Lazy'
  BY <1>6, <1>u DEF CallsDone, Lively, Owed, Added, Base, Queue
<1>7. ASSUME Drain PROVE Lazy'
  BY <1>7, <1>u DEF Drain, Lively
<1>8. ASSUME DrainDone PROVE Lazy'
  BY <1>8, <1>u DEF DrainDone, Lively
<1>9. ASSUME ConflictAtRoot PROVE Lazy'
  BY <1>9, <1>u DEF ConflictAtRoot, Lively
<1>10. ASSUME StartAnalyze PROVE Lazy'
  BY <1>10, <1>u DEF StartAnalyze, Lively
<1>11. ASSUME DummyLevel PROVE Lazy'
  <2>1. /\ trail' = trail /\ fullAt' = fullAt /\ Added' = Added
        /\ pc = "ready" /\ ok /\ qhead = Len(trail) /\ trail_lim' = Append(trail_lim, Len(trail))
    BY <1>11 DEF DummyLevel, Fixpoint, Added
  <2>2. \A c \in Added : \A n : Settled(c, n)' <=> Settled(c, n)
    BY <2>1 DEF Settled
  <2>3. \A c \in Added : Owed(c) = {}
    BY <2>1, <1>t DEF Owed
  <2>4. \A c \in Added : Settled(c, Len(trail))
    BY <2>1, <2>3 DEF Lazy
  <2>5. \A k \in DOMAIN trail_lim' : \/ k \in DOMAIN trail_lim /\ trail_lim'[k] = trail_lim[k]
                                     \/ trail_lim'[k] = Len(trail)
    BY <2>1, <1>t DEF TypeOK
  <2>6. \A c \in Added, k \in DOMAIN trail_lim : Settled(c, trail_lim[k])
    BY <2>1 DEF Lazy
  <2> QED BY <2>1, <2>2, <2>4, <2>5, <2>6 DEF Lazy
<1>12. ASSUME NEW res \in BOOLEAN, Initialized(res) PROVE Lazy'
  BY <1>12, <1>u DEF Initialized, Lively, Owed, Added, Base, Queue
<1>13. ASSUME NEW j \in 0..decisionLevel, StartCancel(j) PROVE Lazy'
  BY <1>13, <1>u DEF StartCancel, Fixpoint, Lively
<1>14. ASSUME NEW j \in 0..decisionLevel, AnalyzeDone(j) PROVE Lazy'
  BY <1>14, <1>u DEF AnalyzeDone, Lively
<1>15. ASSUME AddConstraint PROVE Lazy'
  <2>c. PICK c \in Constr : c = nconstr + 1
    BY <1>15 DEF AddConstraint
  <2>1. /\ Added' = Added \cup {c} /\ trail' = trail /\ DOMAIN trail_lim' = {}
        /\ pc = "ready" /\ ok /\ qhead = Len(trail) /\ nconstr \in Nat
    BY <2>c, <1>15, <1>t DEF AddConstraint, Fixpoint, decisionLevel, Added, TypeOK
  <2>2. fullAt'[c] = {i \in DOMAIN trail : trail[i] \in Watch[c]}
    <3>1. fullAt'[c] = {i \in DOMAIN trail : trail[i] \in Watch[c] \cap assigns}
      BY <2>c, <1>15, <1>t DEF AddConstraint, TypeOK
    <3>2. \A i \in DOMAIN trail : trail[i] \in assigns
      BY DEF Base, TrailOK
    <3> QED BY <3>1, <3>2
  <2>3. \A d \in Added : d # c /\ fullAt'[d] = fullAt[d]
    BY <2>c, <2>1, <1>15, <1>t DEF AddConstraint, TypeOK, Added
  <2>4. \A d \in Added : Settled(d, Len(trail))
    <3>1. \A d \in Added : Owed(d) = {}
      BY <2>1, <1>t DEF Owed
    <3> QED BY <2>1, <3>1 DEF Lazy
  <2>5. \A d \in Added : Settled(d, Len(trail))'
    BY <2>1, <2>3, <2>4 DEF Settled
  <2>6. Settled(c, Len(trail))'
    BY <2>1, <2>2, <1>t DEF Settled
  <2> QED BY <2>1, <2>5, <2>6 DEF Lazy
<1>16. ASSUME NEW l \in Lit, AddUnit(l) PROVE Lazy'
  BY <1>16, LazyAfterEnqueue DEF AddUnit, Fixpoint, Lively
<1>17. ASSUME NEW l \in Lit, Decide(l) PROVE Lazy'
  BY <1>17, LazyAfterEnqueue DEF Decide, Fixpoint, Lively
<1>18. ASSUME NEW l \in Lit, Imply(l) PROVE Lazy'
  BY <1>18, LazyAfterEnqueue DEF Imply, Lively, Base, Queue
<1>19. ASSUME NEW d \in Constr, Call(d) PROVE Lazy'
  <2>1. /\ trail' = trail /\ trail_lim' = trail_lim /\ Added' = Added /\ ok /\ qhead' = qhead
        /\ pc = "constr" /\ pc' = "called" /\ at' = at /\ todo' = todo \ {d} /\ d \in todo
        /\ fullAt' = [fullAt EXCEPT ![d] = IF pend[d] = 1 THEN fullAt[d] \cup {at} ELSE fullAt[d]]
    BY <1>19 DEF Call, Base, Queue, Added
  <2>2. /\ at = qhead /\ at \in DOMAIN trail /\ d \in Added /\ trail[at] \in Watch[d]
        /\ \A k \in DOMAIN trail_lim : trail_lim[k] < at
    BY <2>1, <1>t DEF Base, Queue, Watchers
  <2>3. \A c \in Added : fullAt[c] \subseteq fullAt'[c]
    BY <2>1, <1>t DEF TypeOK
  <2>4. ASSUME NEW c \in Added, NEW n \in Nat, Settled(c, n) PROVE Settled(c, n)'
    BY <2>1, <2>3, <2>4 DEF Settled
  <2>5. \A c \in Added, k \in DOMAIN trail_lim : Settled(c, trail_lim[k])
    BY <2>1 DEF Lazy
  <2>6. ASSUME NEW c \in Added, Owed(c)' = {} PROVE Settled(c, Len(trail))'
    <3>1. CASE c # d
      <4>1. Owed(c)' = Owed(c)
        BY <2>1, <3>1 DEF Owed
      <4>2. Settled(c, Len(trail))
        BY <2>1, <2>6, <4>1 DEF Lazy
      <4>3. fullAt'[c] = fullAt[c]
        BY <2>1, <3>1, <1>t DEF TypeOK
      <4> QED BY <4>2, <4>3, <2>1 DEF Settled
    <3>2. CASE c = d
      <4>1. \A i \in DOMAIN trail : i \in Owed(d) <=> i = at
        <5>1. \A i \in DOMAIN trail : i > qhead => trail[i] \notin Watch[d]
          BY <2>1, <2>2, <2>6, <3>2 DEF Owed
        <5> QED BY <5>1, <2>1, <2>2, <1>t DEF Owed
      <4>2. Owed(d) = {at}
        BY <4>1, <2>2 DEF Owed
      <4>3. pend[d] = 1
        <5>1. Cardinality({at}) = 1
          BY FS_Singleton
        <5> QED BY <4>2, <5>1 DEF PendingCountsOwed
      <4>4. at \in fullAt'[d]
        BY <2>1, <4>3, <1>t DEF TypeOK
      <4>5. \A i \in DOMAIN trail : i > at => trail[i] \notin Watch[d]
        BY <4>1, <2>1, <2>2, <1>t DEF Owed
      <4>6. ASSUME NEW i \in 1..Len(trail), trail[i] \in Watch[d],
                   \A j \in (i + 1)..Len(trail) : trail[j] \notin Watch[d]
            PROVE  i \in fullAt'[d]
        <5>1. CASE i < at
          BY <5>1, <4>6, <2>2, <1>t
        <5>2. CASE i = at
          BY <5>2, <4>4
        <5>3. CASE i > at
          BY <5>3, <4>5, <4>6, <1>t
        <5> QED BY <5>1, <5>2, <5>3, <1>t
      <4> QED BY <3>2, <4>6, <2>1 DEF Settled
    <3> QED BY <3>1, <3>2
  <2> QED BY <2>1, <2>4, <2>5, <2>6, <1>t DEF Lazy
<1>20. ASSUME AnalyzeUndo PROVE Lazy'
  <2>1. /\ trail' = trail /\ trail_lim' = trail_lim /\ Added' = Added
        /\ pc = "analyze" /\ pc' = "analyze" /\ index > trail_lim[decisionLevel] /\ index \in Nat
        /\ fullAt' = [c \in Constr |-> fullAt[c] \ {index}]
    BY <1>20, <1>t DEF AnalyzeUndo, UndoEntry, Added, TypeOK
  <2>2. \A k \in DOMAIN trail_lim : trail_lim[k] < index
    <3>1. decisionLevel \in DOMAIN trail_lim /\ \A k \in DOMAIN trail_lim : k <= decisionLevel
      BY <2>1, AnalyzePosition DEF Base
    <3>2. \A k \in DOMAIN trail_lim : trail_lim[k] <= trail_lim[decisionLevel]
      BY <3>1 DEF Base, Levels
    <3> QED BY <2>1, <3>1, <3>2, <1>t
  <2>3. ASSUME NEW c \in Added, NEW k \in DOMAIN trail_lim PROVE Settled(c, trail_lim[k])'
    <3>1. Settled(c, trail_lim[k])
      BY <2>1 DEF Lazy
    <3>2. \A i \in 1..trail_lim[k] : i # index
      BY <2>1, <2>2, <1>t
    <3> QED BY <2>1, <3>1, <3>2, <1>t DEF Settled
  <2> QED BY <2>1, <2>3 DEF Lazy
<1>21. ASSUME Cancel PROVE Lazy'
  <2> DEFINE n == Len(trail)
  <2>1. /\ trail' = SubSeq(trail, 1, n - 1) /\ trail_lim' = trail_lim /\ Added' = Added
        /\ pc = "cancel" /\ pc' = "cancel" /\ target' = target /\ target + 1 \in DOMAIN trail_lim
        /\ trail_lim[target + 1] < n /\ fullAt' = [c \in Constr |-> fullAt[c] \ {n}]
    BY <1>21, CancelPosition DEF Cancel, UndoEntry, Added, Base
  <2>2. ASSUME NEW c \in Added, NEW k \in DOMAIN trail_lim, k <= target + 1
        PROVE  Settled(c, trail_lim[k])'
    <3>1. Settled(c, trail_lim[k])
      BY <2>1, <2>2 DEF Lazy
    <3>2. trail_lim[k] \in Nat /\ trail_lim[k] <= n - 1
      BY <2>1, <2>2, <1>t DEF Base, Levels
    <3>3. \A i \in 1..trail_lim[k] : i # n /\ trail'[i] = trail[i]
      <4> TAKE i \in 1..trail_lim[k]
      <4>a. \A a, b \in Nat : \A j \in 1..a : a <= b - 1 => j \in 1..(b - 1) /\ j # b
        BY SMTT(30)
      <4>1. i \in 1..(n - 1) /\ i # n
        BY <3>2, <4>a, <1>t
      <4>2. trail \in Seq(Lit) /\ n - 1 <= n /\ n - 1 \in Int
        BY <1>t DEF TypeOK
      <4> QED BY <2>1, <4>1, <4>2
    <3>4. \A i \in 1..trail_lim[k] : \A j \in (i + 1)..trail_lim[k] : j \in 1..trail_lim[k]
      BY <3>2
    <3>5. fullAt'[c] = fullAt[c] \ {n}
      BY <2>1, <1>t
    <3> QED BY <2>1, <3>1, <3>3, <3>4, <3>5 DEF Settled
  <2> QED BY <2>1, <2>2 DEF Lazy
<1>22. ASSUME CancelDone PROVE Lazy'
  <2>1. /\ trail' = trail /\ fullAt' = fullAt /\ Added' = Added /\ pc = "cancel" /\ pc' # "cancel"
        /\ Len(trail) = trail_lim[target + 1]
        /\ target + 1 \in DOMAIN trail_lim
        /\ \A k \in DOMAIN trail_lim' : k \in DOMAIN trail_lim /\ trail_lim'[k] = trail_lim[k]
                                        /\ k <= target + 1
    <3>1. target \in Nat /\ target + 1 \in DOMAIN trail_lim /\ trail_lim \in Seq(Nat)
      BY <1>22, CancelPosition DEF CancelDone, Base, TypeOK
    <3>2. \A k \in DOMAIN trail_lim' : k \in DOMAIN trail_lim /\ trail_lim'[k] = trail_lim[k]
                                        /\ k <= target + 1
      <4>1. trail_lim' = SubSeq(trail_lim, 1, target)
        BY <1>22 DEF CancelDone
      <4>2. target <= Len(trail_lim) /\ DOMAIN trail_lim = 1..Len(trail_lim) /\ Len(trail_lim) \in Nat
        BY <3>1
      <4>3. \A k \in 1..target : k \in DOMAIN trail_lim /\ k <= target + 1
        BY <3>1, <4>2
      <4>4. DOMAIN trail_lim' = 1..target /\ \A k \in 1..target : trail_lim'[k] = trail_lim[k]
        BY <3>1, <4>1, <4>2
      <4> QED BY <4>3, <4>4
    <3> QED BY <1>22, <3>1, <3>2 DEF CancelDone, Added
  <2>2. \A c \in Added : \A m : Settled(c, m)' <=> Settled(c, m)
    BY <2>1 DEF Settled
  <2>3. \A c \in Added, k \in DOMAIN trail_lim : k <= target + 1 => Settled(c, trail_lim[k])
    BY <2>1 DEF Lazy
  <2>4. \A c \in Added : Settled(c, Len(trail))
    BY <2>1, <2>3, <1>t DEF TypeOK
  <2> QED BY <2>1, <2>2, <2>3, <2>4 DEF Lazy
<1>23. ASSUME Learn PROVE Lazy'
  BY <1>23, LearntFree, LazyAfterEnqueue DEF Learn, Lively, Base, Queue
<1>25. ASSUME AddEmpty PROVE Lazy'
  BY <1>25, <1>u DEF AddEmpty, Fixpoint, Lively
<1>24. ASSUME UNCHANGED trailVars PROVE Lazy'
  BY <1>24 DEF trailVars, Lazy, Settled, Owed, Added
<1> QED
  BY <1>1, <1>2, <1>3, <1>4, <1>5, <1>6, <1>7, <1>8, <1>9, <1>10, <1>11, <1>12, <1>13, <1>14,
     <1>15, <1>16, <1>17, <1>18, <1>19, <1>20, <1>21, <1>22, <1>23, <1>24, <1>25
     DEF Next, Propagation, Backtracking
-----------------------------------------------------------------------------
(***************************************************************************)
(* The theorems.                                                           *)
(***************************************************************************)
\* The strengthening holds in every reachable state.
THEOREM SpecBase == SafetySpec => []Base
BY BaseInit, BaseStep, PTL DEF SafetySpec

\* Every variable keeps its type.
THEOREM SpecTypeOK == SafetySpec => []TypeOK
<1>1. Base => TypeOK
  BY DEF Base
<1> QED BY <1>1, SpecBase, PTL

\* The trail and the assignment agree in every reachable state.
THEOREM SpecTrailOK == SafetySpec => []TrailOK
<1>1. Base => TrailOK
  BY DEF Base
<1> QED BY <1>1, SpecBase, PTL

\* What cancelUntil leaves unassigned includes the literal analyze() learnt.
THEOREM SpecLearntIsUndef == SafetySpec => []LearntIsUndef
<1>1. Base => LearntIsUndef
  BY LearntFree DEF Base, LearntIsUndef
<1> QED BY <1>1, SpecBase, PTL

\* num_pending_propagation_ counts the calls a constraint is owed.
THEOREM SpecPendingCountsOwed == SafetySpec => []PendingCountsOwed
BY PendingInit, PendingStep, SpecBase, PTL DEF SafetySpec

\* Solver.cc:1825 never fails.
THEOREM SpecFixpointSettled == SafetySpec => []FixpointSettled
<1>1. Base /\ PendingCountsOwed => FixpointSettled
  <2> SUFFICES ASSUME Base, PendingCountsOwed, Fixpoint, NEW c \in Constr PROVE pend[c] = 0
    BY DEF FixpointSettled
  <2>1. Owed(c) = {}
    BY DEF Fixpoint, Owed, Base, TypeOK
  <2> QED BY <2>1, FS_EmptySet DEF PendingCountsOwed
<1> QED BY <1>1, SpecBase, SpecPendingCountsOwed, PTL

\* Every call of a constraint is undone exactly once, when its literal goes.
THEOREM SpecUndoMatchesCalls == SafetySpec => []UndoMatchesCalls
<1>1. SafetySpec => []Calls
  BY CallsInit, CallsStep, SpecBase, PTL DEF SafetySpec
<1>2. Base /\ Calls => UndoMatchesCalls
  BY CallsMatch DEF Base
<1> QED BY <1>1, <1>2, SpecBase, PTL

\* A constraint that postpones its work has done it at every fixpoint.
THEOREM SpecLazyWorkDone == SafetySpec => []LazyWorkDone
<1>1. SafetySpec => []Lazy
  BY LazyInit, LazyStep, SpecBase, SpecPendingCountsOwed, PTL DEF SafetySpec
<1>2. Base /\ Lazy => LazyWorkDone
  <2> SUFFICES ASSUME Base, Lazy, Fixpoint, NEW c \in Added PROVE Settled(c, Len(trail))
    BY DEF LazyWorkDone
  <2>1. Owed(c) = {}
    BY DEF Fixpoint, Owed, Base, TypeOK
  <2> QED BY <2>1 DEF Lazy, Fixpoint
<1> QED BY <1>1, <1>2, SpecBase, PTL

\* A constraint forgets assignments newest first, in every step.
THEOREM SpecUndoIsLIFO == SafetySpec => UndoIsLIFO
<1>1. Base /\ Calls /\ [Next]_trailVars => [NewestFirst]_trailVars
  BY ForgetsNewest
<1>2. SafetySpec => []Calls
  BY CallsInit, CallsStep, SpecBase, PTL DEF SafetySpec
<1> QED BY <1>1, <1>2, SpecBase, PTL DEF SafetySpec, UndoIsLIFO, NewestFirst

-----------------------------------------------------------------------------
(***************************************************************************)
(* Induction over the naturals for the proofs about recursive functions.   *)
(* The theorems of NaturalsInduction take the induction hypothesis as an   *)
(* operator; here it is a set of numbers, and a recursion step a function. *)
(***************************************************************************)
\* A set of naturals that is not empty has a least element.
LEMMA LeastNat ==
  ASSUME NEW T \in SUBSET Nat, T # {}
  PROVE  \E m \in T : \A k \in T : m <= k
<1>1. PICK m \in T : \A k \in T : ~(<<k, m>> \in OpToRel(<, Nat))
  BY NatLessThanWellFounded, WFMin
<1>2. ASSUME NEW k \in T, k < m PROVE FALSE
  <2>1. <<k, m>> \in OpToRel(<, Nat)
    BY <1>2 DEF OpToRel
  <2> QED BY <2>1, <1>1
<1>3. \A k \in T : m <= k
  BY <1>2
<1> QED BY <1>3

\* One that is bounded has a greatest.
LEMMA GreatestNat ==
  ASSUME NEW T \in SUBSET Nat, T # {}, NEW b \in Nat, \A k \in T : k <= b
  PROVE  \E m \in T : \A k \in T : k <= m
<1> DEFINE D == {b - k : k \in T}
<1>0. \A k \in T : b - k \in Nat
  OBVIOUS
<1>1. D \in SUBSET Nat /\ D # {}
  BY <1>0
<1>2. PICK d \in D : \A e \in D : d <= e
  BY <1>1, LeastNat
<1>3. PICK m \in T : d = b - m
  OBVIOUS
<1>4. \A k \in T : b - m <= b - k
  BY <1>2, <1>3
<1> QED BY <1>4

\* Induction.
LEMMA NatSet ==
  ASSUME NEW T, 0 \in T, \A n \in Nat : n \in T => n + 1 \in T
  PROVE  \A n \in Nat : n \in T
<1> SUFFICES ASSUME Nat \ T # {} PROVE FALSE
  OBVIOUS
<1>1. PICK m \in Nat \ T : \A k \in Nat \ T : m <= k
  BY LeastNat
<1>2. m # 0 /\ m - 1 \in Nat
  OBVIOUS
<1>3. m - 1 \in T
  BY <1>1, <1>2
<1> QED BY <1>3

\* Induction on the elements of a set of naturals, from all the smaller ones.
LEMMA StrongNat ==
  ASSUME NEW D \in SUBSET Nat, NEW T,
         \A n \in D : (\A k \in D : k < n => k \in T) => n \in T
  PROVE  D \subseteq T
<1> SUFFICES ASSUME D \ T # {} PROVE FALSE
  OBVIOUS
<1>1. PICK m \in D \ T : \A k \in D \ T : m <= k
  BY LeastNat
<1> QED BY <1>1

\* A function defined by recursion from 0 up to n.
Recurses(f, n, S, b, st) ==
  /\ f \in [0..n -> S] /\ f[0] = b
  /\ \A i \in 1..n : f[i] = st[<<f[i - 1], i>>]

\* There is one for every first value and every recursion step.
LEMMA UpwardRecursion ==
  ASSUME NEW n \in Nat, NEW S, NEW b \in S, NEW st \in [S \X (1..n) -> S]
  PROVE  \E f : Recurses(f, n, S, b, st)
<1> USE DEF Recurses
<1> DEFINE Good(f, k) == Recurses(f, k, S, b, st)
           T == {k \in Nat : k <= n => \E f : Good(f, k)}
<1>1. 0 \in T
  <2>1. Good([i \in 0..0 |-> b], 0)
    OBVIOUS
  <2> QED BY <2>1
<1>2. ASSUME NEW k \in Nat, k \in T PROVE k + 1 \in T
  <2> SUFFICES ASSUME k + 1 <= n PROVE \E f : Good(f, k + 1)
    OBVIOUS
  <2>1. PICK f : Good(f, k)
    BY <1>2
  <2> DEFINE g == [i \in 0..(k + 1) |-> IF i = k + 1 THEN st[<<f[k], k + 1>>] ELSE f[i]]
  <2>2. f[k] \in S /\ k + 1 \in 1..n
    BY <2>1
  <2>3. g \in [0..(k + 1) -> S]
    BY <2>1, <2>2
  <2>4. ASSUME NEW i \in 1..(k + 1) PROVE g[i] = st[<<g[i - 1], i>>]
    <3>1. CASE i = k + 1
      <4>1. g[k + 1] = st[<<f[k], k + 1>>] /\ g[k] = f[k]
        OBVIOUS
      <4>2. k + 1 - 1 = k
        OBVIOUS
      <4> HIDE DEF g
      <4> QED BY <3>1, <4>1, <4>2
    <3>2. CASE i # k + 1
      <4>1. i \in 1..k /\ g[i] = f[i] /\ g[i - 1] = f[i - 1]
        BY <3>2
      <4> HIDE DEF g
      <4> QED BY <4>1, <2>1
    <3> QED BY <3>1, <3>2
  <2>5. g[0] = b
    BY <2>1
  <2> HIDE DEF g
  <2> QED BY <2>3, <2>4, <2>5
<1> HIDE DEF T
<1>3. n \in T
  BY <1>1, <1>2, NatSet
<1> QED BY <1>3 DEF T

\* A function defined by recursion from n + 1 down to m.
RecursesDown(f, m, n, S, b, st) ==
  /\ f \in [m..(n + 1) -> S] /\ f[n + 1] = b
  /\ \A i \in m..n : f[i] = st[<<f[i + 1], i>>]

\* The same, read backwards.
LEMMA DownwardRecursion ==
  ASSUME NEW m \in Nat, NEW n \in Nat, m <= n + 1,
         NEW S, NEW b \in S, NEW st \in [S \X (m..n) -> S]
  PROVE  \E f : RecursesDown(f, m, n, S, b, st)
<1> DEFINE len == n + 1 - m
           back == [a \in S \X (1..len) |-> st[<<a[1], n + 1 - a[2]>>]]
<1>1. len \in Nat
  OBVIOUS
<1>2. \A k \in 1..len : n + 1 - k \in m..n
  OBVIOUS
<1>3. back \in [S \X (1..len) -> S]
  <2> HIDE DEF len
  <2>1. \A a \in S \X (1..len) : <<a[1], n + 1 - a[2]>> \in S \X (m..n)
    BY <1>2
  <2> QED BY <2>1
<1>4. \A x \in S : \A k \in 1..len : back[<<x, k>>] = st[<<x, n + 1 - k>>]
  <2> HIDE DEF len
  <2> QED OBVIOUS
<1> HIDE DEF back
<1>5. PICK g : Recurses(g, len, S, b, back)
  <2> HIDE DEF len
  <2>1. \E g : Recurses(g, len, S, b, back)
    BY <1>1, <1>3, UpwardRecursion
  <2> QED BY <2>1
<1>6. g \in [0..len -> S] /\ g[0] = b /\ \A k \in 1..len : g[k] = back[<<g[k - 1], k>>]
  BY <1>5 DEF Recurses
<1> DEFINE f == [i \in m..(n + 1) |-> g[n + 1 - i]]
<1>7. f \in [m..(n + 1) -> S]
  <2>1. \A i \in m..(n + 1) : n + 1 - i \in 0..len
    OBVIOUS
  <2> QED BY <1>6, <2>1
<1>8. f[n + 1] = b
  BY <1>6
<1>9. ASSUME NEW i \in m..n PROVE f[i] = st[<<f[i + 1], i>>]
  <2> DEFINE k == n + 1 - i
  <2>1. k \in 1..len /\ k - 1 \in 0..len /\ n + 1 - k = i /\ n + 1 - (i + 1) = k - 1
    OBVIOUS
  <2>2. f[i] = g[k] /\ f[i + 1] = g[k - 1]
    BY <2>1
  <2> HIDE DEF k, f, len
  <2>3. g[k] = back[<<g[k - 1], k>>] /\ g[k - 1] \in S
    BY <1>6, <2>1
  <2>4. back[<<g[k - 1], k>>] = st[<<g[k - 1], i>>]
    BY <1>4, <2>1, <2>3
  <2> QED BY <2>2, <2>3, <2>4
<1> HIDE DEF f
<1> QED BY <1>7, <1>8, <1>9 DEF RecursesDown
-----------------------------------------------------------------------------
(***************************************************************************)
(* Leaving out elements of a sequence from its first to its last.          *)
(***************************************************************************)
\* f[i] is what is left of the first i elements of s.
Filters(f, s, drop) ==
  /\ f[0] = <<>>
  /\ \A i \in 1..Len(s) : f[i] = IF i \in drop THEN f[i - 1] ELSE Append(f[i - 1], s[i])

\* r consists of the elements of s that are not left out: g says which is which.
Leaves(g, r, s, drop) ==
  /\ g \in [DOMAIN r -> (DOMAIN s) \ drop]
  /\ \A a \in DOMAIN g : r[a] = s[g[a]]
  /\ \A a, b \in DOMAIN g : g[a] = g[b] => a = b
  /\ \A j \in (DOMAIN s) \ drop : \E a \in DOMAIN g : g[a] = j

\* There is such a function for every sequence ...
LEMMA FilterExists ==
  ASSUME NEW T, NEW s \in Seq(T), NEW drop
  PROVE  \E f \in [0..Len(s) -> Seq(T)] : Filters(f, s, drop)
<1> DEFINE n == Len(s)
           step(k, i) == IF i \in drop THEN k ELSE Append(k, s[i])
           st == [p \in Seq(T) \X (1..n) |-> step(p[1], p[2])]
<1>1. n \in Nat /\ \A i \in 1..n : s[i] \in T
  OBVIOUS
<1>2. \A k \in Seq(T), i \in 1..n : step(k, i) \in Seq(T)
  BY <1>1
<1>3. st \in [Seq(T) \X (1..n) -> Seq(T)]
  BY <1>2
<1>4. <<>> \in Seq(T)
  OBVIOUS
<1>5. PICK f \in [0..n -> Seq(T)] : f[0] = <<>> /\ \A i \in 1..n : f[i] = st[<<f[i - 1], i>>]
  <2> DEFINE SS == Seq(T)
             b == <<>>
  <2>1. n \in Nat /\ b \in SS /\ st \in [SS \X (1..n) -> SS]
    BY <1>1, <1>3, <1>4
  <2> HIDE DEF st, n, SS, b
  <2>2. \E f : Recurses(f, n, SS, b, st)
    BY <2>1, UpwardRecursion
  <2> QED BY <2>2 DEF Recurses, SS, b
<1>6. ASSUME NEW i \in 1..n PROVE f[i] = step(f[i - 1], i)
  <2>1. f[i - 1] \in Seq(T)
    BY <1>1, <1>5
  <2>2. st[<<f[i - 1], i>>] = step(f[i - 1], i)
    BY <2>1
  <2> HIDE DEF st
  <2> QED BY <2>2, <1>5
<1> QED BY <1>5, <1>6 DEF Filters

\* ... and what it gives in the end is what was not left out.
LEMMA FilterKeeps ==
  ASSUME NEW T, NEW s \in Seq(T), NEW drop, NEW f, Filters(f, s, drop)
  PROVE  f[Len(s)] \in Seq(T) /\ \E g : Leaves(g, f[Len(s)], s, drop)
<1> DEFINE n == Len(s)
           Goes(g, r, i) ==
             /\ r \in Seq(T)
             /\ g \in [DOMAIN r -> (1..i) \ drop]
             /\ \A a \in DOMAIN g : r[a] = s[g[a]]
             /\ \A a, b \in DOMAIN g : g[a] = g[b] => a = b
             /\ \A j \in (1..i) \ drop : \E a \in DOMAIN g : g[a] = j
           G == {i \in Nat : i <= n => \E g : Goes(g, f[i], i)}
<1>1. n \in Nat /\ DOMAIN s = 1..n /\ \A i \in 1..n : s[i] \in T
  OBVIOUS
<1>2. 0 \in G
  <2>1. Goes(<<>>, <<>>, 0) /\ f[0] = <<>>
    BY DEF Filters
  <2> HIDE DEF Goes
  <2>2. \E g : Goes(g, f[0], 0)
    BY <2>1
  <2> QED BY <1>1, <2>2
<1>3. ASSUME NEW i \in Nat, i \in G PROVE i + 1 \in G
  <2> SUFFICES ASSUME i + 1 <= n PROVE \E g : Goes(g, f[i + 1], i + 1)
    OBVIOUS
  <2> DEFINE k == f[i]
  <2>0. i <= n => \E g : Goes(g, k, i)
    <3> HIDE DEF Goes
    <3> QED BY <1>3
  <2>1. i + 1 \in 1..n /\ (i + 1) - 1 = i /\ \E g : Goes(g, k, i)
    <3> HIDE DEF Goes
    <3> QED BY <2>0, <1>1
  <2>2. PICK g : Goes(g, k, i)
    BY <2>1
  <2>3. f[i + 1] = IF i + 1 \in drop THEN k ELSE Append(k, s[i + 1])
    BY <2>1 DEF Filters
  <2> HIDE DEF k
  <2>4. CASE i + 1 \in drop
    <3>1. f[i + 1] = k
      BY <2>3, <2>4
    <3>2. (1..(i + 1)) \ drop = (1..i) \ drop
      BY <2>4
    <3>3. Goes(g, k, i + 1)
      BY <2>2, <3>2
    <3> QED BY <3>1, <3>3
  <2>5. CASE i + 1 \notin drop
    <3> DEFINE r == Append(k, s[i + 1])
               m == Len(k)
               h == [a \in 1..(m + 1) |-> IF a = m + 1 THEN i + 1 ELSE g[a]]
    <3>1. f[i + 1] = r
      BY <2>3, <2>5
    <3>2. k \in Seq(T) /\ s[i + 1] \in T /\ m \in Nat /\ DOMAIN k = 1..m /\ DOMAIN g = 1..m
      BY <2>1, <2>2, <1>1
    <3>3. /\ r \in Seq(T) /\ DOMAIN r = 1..(m + 1)
          /\ r[m + 1] = s[i + 1] /\ \A a \in 1..m : r[a] = k[a]
      BY <3>2
    <3>4. (1..(i + 1)) \ drop = ((1..i) \ drop) \cup {i + 1} /\ i + 1 \notin 1..i
      BY <2>5
    <3>5. /\ DOMAIN h = 1..(m + 1) /\ h[m + 1] = i + 1
          /\ \A a \in 1..m : h[a] = g[a] /\ a # m + 1 /\ a \in 1..(m + 1)
          /\ m + 1 \in 1..(m + 1) /\ \A a \in 1..(m + 1) : a = m + 1 \/ a \in 1..m
      BY <3>2
    <3>6. h = [a \in 1..(m + 1) |-> h[a]]
      OBVIOUS
    <3> HIDE DEF r, m, h
    <3>7. \A a \in 1..m : g[a] \in (1..i) \ drop
      BY <2>2, <3>2
    <3>8. h \in [DOMAIN r -> (1..(i + 1)) \ drop]
      BY <3>3, <3>4, <3>5, <3>6, <3>7
    <3>9. \A a \in DOMAIN h : r[a] = s[h[a]]
      BY <2>2, <3>2, <3>3, <3>5
    <3>10. \A a, b \in DOMAIN h : h[a] = h[b] => a = b
      BY SMTT(30), <2>2, <3>2, <3>4, <3>5, <3>7
    <3>11. \A j \in (1..(i + 1)) \ drop : \E a \in DOMAIN h : h[a] = j
      BY <2>2, <3>2, <3>4, <3>5
    <3>12. Goes(h, r, i + 1)
      BY <3>3, <3>8, <3>9, <3>10, <3>11
    <3> HIDE DEF Goes
    <3> QED BY <3>1, <3>12
  <2> QED BY <2>4, <2>5
<1>4. n \in G
  <2> HIDE DEF G
  <2> QED BY <1>1, <1>2, <1>3, NatSet
<1> QED BY <1>1, <1>4 DEF Leaves
-----------------------------------------------------------------------------
(***************************************************************************)
(* The elements of a finite set, in some order.                            *)
(***************************************************************************)
\* f lists n elements of S, each once.
ListsSet(f, n, S) ==
  /\ f \in [1..n -> S]
  /\ \A i, j \in 1..n : f[i] = f[j] => i = j

\* A finite set can be listed ...
LEMMA ListExists ==
  ASSUME NEW S, IsFiniteSet(S)
  PROVE  Cardinality(S) \in Nat /\ \E f : ListsSet(f, Cardinality(S), S)
<1> DEFINE n == Cardinality(S)
<1>1. n \in Nat /\ IsFiniteSet(1..n) /\ Cardinality(1..n) = n
  BY FS_CardinalityType, FS_Interval
<1>2. ExistsBijection(1..n, S)
  <2>1. Cardinality(1..n) = Cardinality(S)
    BY <1>1
  <2> QED BY <1>1, <2>1, FS_SameCardinalityBij
<1>3. PICK f : f \in Bijection(1..n, S)
  BY <1>2 DEF ExistsBijection
<1>4. f \in [1..n -> S] /\ \A i, j \in 1..n : f[i] = f[j] => i = j
  BY <1>3 DEF Bijection, Injection, IsInjective
<1>5. ListsSet(f, n, S)
  BY <1>4 DEF ListsSet
<1> QED BY <1>1, <1>5

\* ... and a list of it as long as the set has all of it.
LEMMA ListCovers ==
  ASSUME NEW S, IsFiniteSet(S), NEW f, ListsSet(f, Cardinality(S), S)
  PROVE  \A y \in S : \E i \in 1..Cardinality(S) : f[i] = y
<1> DEFINE n == Cardinality(S)
<1>1. n \in Nat /\ IsFiniteSet(1..n) /\ Cardinality(1..n) = n
  BY FS_CardinalityType, FS_Interval
<1>2. f \in Injection(1..n, S)
  BY DEF ListsSet, Injection, IsInjective
<1>3. f \in Surjection(1..n, S)
  <2>1. Cardinality(1..n) = Cardinality(S)
    BY <1>1
  <2> QED BY <1>2, <2>1, FS_Injection
<1> QED BY <1>3 DEF Surjection
-----------------------------------------------------------------------------
(***************************************************************************)
(* ConstraintEngine implements Trail.                                      *)
(***************************************************************************)
\* The engine starts where the protocol does.
LEMMA EngineInitMaps == EngineInit => Init
BY DEF EngineInit

\* Each step of the engine is one of the protocol or leaves it alone.
LEMMA EngineStepMaps == [EngineNext]_vars => [Next]_trailVars
<1> SUFFICES ASSUME [EngineNext]_vars PROVE [Next]_trailVars
  OBVIOUS
<1>1. CASE EAddConstraint
  BY <1>1 DEF EAddConstraint, Next
<1>2. CASE EEnqueue
  <2>1. Imply(Head(enq)) /\ Head(enq) \in Lit
    BY <1>2 DEF EEnqueue, Imply, IsUndef
  <2> QED BY <2>1 DEF Next, Propagation
<1>3. CASE EInitialized
  BY <1>3 DEF EInitialized, Next
<1>4. CASE EReturnTrue \/ EReturnFalse
  BY <1>4 DEF EReturnTrue, EReturnFalse, Next, Propagation
<1>5. CASE EAnalyzeUndo \/ ECancel \/ ECancelDone \/ ELearn
  BY <1>5 DEF EAnalyzeUndo, ECancel, ECancelDone, ELearn, Next, Backtracking
<1>6. CASE EUnchanged
  BY <1>6 DEF EUnchanged, Next, Propagation
<1>7. ASSUME NEW c \in Constr, ECall(c) PROVE Next
  BY <1>7 DEF ECall, Next, Propagation
<1>8. ASSUME NEW l \in Lit, EImplyByClause(l) \/ EAddUnit(l) \/ EDecide(l) PROVE Next
  BY <1>8 DEF EImplyByClause, EAddUnit, EDecide, Next, Propagation
<1>9. CASE UNCHANGED vars
  BY <1>9 DEF vars
<1> QED
  BY <1>1, <1>2, <1>3, <1>4, <1>5, <1>6, <1>7, <1>8, <1>9 DEF EngineNext

\* Every behaviour of the constraints at work is one of the protocol.
THEOREM EngineImplementsTrail == EngineSpec => SafetySpec
BY EngineInitMaps, EngineStepMaps, PTL DEF EngineSpec, SafetySpec
-----------------------------------------------------------------------------
(***************************************************************************)
(* Which constraint is running.                                            *)
(***************************************************************************)
\* The constraint blamed for a literal or for a conflict is one that has been
\* added, and propagate() of a constraint runs on a literal it watches.
Blamed ==
  /\ nc_reason \in [Var -> 0..NConstr] /\ confl \in 0..NConstr
  /\ confl <= nconstr /\ \A x \in Var : nc_reason[x] <= nconstr
  /\ pc = "init" => nconstr > 0
  /\ pc = "called" => Watchers(trail[at]) \ todo # {}

\* The constraint whose code is running is one.
LEMMA RunningIsConstr ==
  ASSUME TypeOK, Blamed, pc \in {"init", "called"}
  PROVE  Running \in Constr /\ Running \in Added
<1>1. nconstr \in 0..NConstr /\ NConstr \in Nat
  BY TrailAssumption DEF TypeOK
<1>2. CASE pc = "init"
  BY <1>1, <1>2 DEF Running, Blamed, Constr, Added
<1>3. CASE pc = "called"
  <2> DEFINE T == Watchers(trail[at]) \ todo
  <2>1. T # {} /\ T \in SUBSET Nat /\ T \subseteq Constr /\ T \subseteq Added
        /\ \A k \in T : k <= NConstr
    BY <1>1, <1>3 DEF Blamed, Watchers, Added, Constr
  <2> HIDE DEF T
  <2>2. \E m \in T : \A k \in T : k <= m
    BY <1>1, <2>1, GreatestNat
  <2>3. Running = CHOOSE m \in T : \A k \in T : k <= m
    BY <1>3 DEF Running, T
  <2> QED BY <2>1, <2>2, <2>3
<1> QED BY <1>2, <1>3

\* Nobody is blamed at first ...
LEMMA BlamedInit == EngineInit => Blamed
BY TrailAssumption DEF EngineInit, Init, Blamed

\* ... and every step blames a constraint that runs.
LEMMA BlamedStep == Base /\ Blamed /\ [EngineNext]_vars => Blamed'
<1> SUFFICES ASSUME Base, Blamed, [EngineNext]_vars PROVE Blamed'
  OBVIOUS
<1>0. TypeOK /\ Queue /\ nconstr \in Nat
  BY TrailAssumption DEF Base, TypeOK
<1>1. CASE EAddConstraint
  <2>1. nconstr \in Nat /\ nconstr' = nconstr + 1 /\ pc' = "init"
    BY <1>0, <1>1, TrailAssumption DEF EAddConstraint, AddConstraint, TypeOK
  <2>2. UNCHANGED <<nc_reason, confl>>
    BY <1>1 DEF EAddConstraint, Leave
  <2> QED BY <2>1, <2>2 DEF Blamed
<1>2. CASE EEnqueue
  <2>1. /\ pc \in {"init", "called"} /\ pc' = pc /\ nconstr' = nconstr /\ at' = at /\ todo' = todo
        /\ confl' = confl
        /\ nc_reason' = [nc_reason EXCEPT ![VarOf(Head(enq))] = Running]
        /\ Head(enq) \in Lit /\ IsUndef(Head(enq)) /\ Enqueue(Head(enq))
    BY <1>2 DEF EEnqueue, Imply, IsUndef
  <2>2. Running \in 0..NConstr /\ Running <= nconstr
    BY <1>0, <2>1, RunningIsConstr DEF Constr, Added
  <2>3. pc = "called" => trail'[at] = trail[at]
    <3> SUFFICES ASSUME pc = "called" PROVE trail'[at] = trail[at]
      OBVIOUS
    <3>1. at \in DOMAIN trail
      BY <1>0 DEF Queue, TypeOK
    <3>2. trail' = Append(trail, Head(enq)) /\ trail \in Seq(Lit)
      BY <1>0, <2>1 DEF Enqueue, TypeOK
    <3> QED BY <3>1, <3>2
  <2> QED BY <2>1, <2>2, <2>3 DEF Blamed, Watchers, Added
<1>3. CASE EInitialized \/ EReturnTrue
  BY <1>3 DEF EInitialized, Initialized, EReturnTrue, ReturnTrue, engineVars, Blamed
<1>4. CASE EReturnFalse
  <2>1. Running \in 0..NConstr /\ Running <= nconstr
    BY <1>0, <1>4, RunningIsConstr DEF Constr, Added, EReturnFalse, ReturnFalse
  <2> QED BY <1>4, <2>1 DEF EReturnFalse, ReturnFalse, Blamed
<1>5. CASE EAnalyzeUndo \/ ECancel
  BY <1>5 DEF EAnalyzeUndo, ECancel, AnalyzeUndo, Cancel, Blamed
<1>6. CASE ECancelDone
  <2>1. 0 \in 0..NConstr
    BY TrailAssumption
  <2> QED BY <1>0, <1>6, <2>1 DEF ECancelDone, CancelDone, Blamed
<1>7. ASSUME NEW c \in Constr, ECall(c) PROVE Blamed'
  <2>1. /\ pc = "constr" /\ c \in todo /\ todo' = todo \ {c} /\ pc' = "called" /\ at' = at
        /\ trail' = trail /\ nconstr' = nconstr /\ UNCHANGED <<nc_reason, confl>>
    BY <1>7 DEF ECall, Call, Leave
  <2>2. c \in Watchers(trail[at])
    BY <1>0, <2>1 DEF Queue
  <2> QED BY <2>1, <2>2 DEF Blamed, Watchers, Added
<1>8. ASSUME NEW l, Unconstrained(l), l \in Lit, nconstr' = nconstr, pc' = pc \/ pc' = "ready", pc \in {"ready", "clauses", "learn"}
      PROVE  Blamed'
  <2>1. 0 \in 0..NConstr
    BY TrailAssumption
  <2>2. /\ nc_reason \in [Var -> 0..NConstr] /\ nc_reason' = [nc_reason EXCEPT ![VarOf(l)] = 0]
        /\ \A x \in Var : nc_reason[x] <= nconstr
    BY <1>8 DEF Unconstrained, Blamed
  <2>3. nc_reason' \in [Var -> 0..NConstr]
    BY <2>1, <2>2
  <2>4. \A x \in Var : nc_reason'[x] = nc_reason[x] \/ nc_reason'[x] = 0
    BY <2>2
  <2>5. \A x \in Var : nc_reason'[x] <= nconstr
    BY <1>0, <2>2, <2>4
  <2> QED BY <1>0, <1>8, <2>3, <2>5 DEF Unconstrained, Blamed
<1>9. CASE ELearn
  <2>1. learnt \in Lit
    BY <1>9 DEF Base, Backtrack, ELearn, Learn
  <2> QED BY <1>8, <1>9, <2>1 DEF ELearn, Learn
<1>10. ASSUME NEW l \in Lit, EImplyByClause(l) \/ EAddUnit(l) \/ EDecide(l) PROVE Blamed'
  BY <1>8, <1>10 DEF EImplyByClause, EAddUnit, EDecide, Imply, AddUnit, Decide, Fixpoint
<1>11. CASE EUnchanged
  <2>1. UNCHANGED <<nc_reason, confl, nconstr>>
    BY <1>11 DEF EUnchanged, engineVars, AddEmpty, DummyLevel, Dequeue, ClauseConflict, ClausesDone,
       CallsDone, Drain, DrainDone, ConflictAtRoot, StartAnalyze, StartCancel, AnalyzeDone
  <2>2. pc' = pc \/ pc' \notin {"init", "called"}
    BY <1>11 DEF EUnchanged, AddEmpty, DummyLevel, Dequeue, ClauseConflict, ClausesDone, CallsDone,
       Drain, DrainDone, ConflictAtRoot, StartAnalyze, StartCancel, AnalyzeDone
  <2>3. pc' = pc => UNCHANGED <<nconstr, trail, at, todo>>
    BY <1>11 DEF EUnchanged, AddEmpty, DummyLevel, Dequeue, ClauseConflict, ClausesDone, CallsDone,
       Drain, DrainDone, ConflictAtRoot, StartAnalyze, StartCancel, AnalyzeDone, Fixpoint
  <2> QED BY <2>1, <2>2, <2>3 DEF Blamed, Watchers, Added
<1>12. CASE UNCHANGED vars
  BY <1>12 DEF vars, trailVars, engineVars, Blamed, Watchers, Added
<1> QED
  BY <1>1, <1>2, <1>3, <1>4, <1>5, <1>6, <1>7, <1>9, <1>10, <1>11, <1>12 DEF EngineNext

-----------------------------------------------------------------------------
(***************************************************************************)
(* AtMost at work.  Its invariants hold in any problem, whatever the other *)
(* constraints do.  A constraint is plain if no literal stands in it       *)
(* together with its negation (AtMost::calcReason is wrong otherwise).     *)
(***************************************************************************)
Plain ==
  {c \in Constr : /\ Problem[c].kind = "AtMost"
                  /\ Problem[c].lits \in Seq(Lit) /\ Problem[c].threshold \in Int
                  /\ \A l \in Watch[c] : -l \notin Watch[c]}
Limit(c) == Problem[c].threshold

\* The literals c has been told of, and those on the first n trail entries.
Heard(c)  == {l \in Lit : told[c][l] = 1}
Before(n) == {trail[i] : i \in 1..n}

\* What c has made of the true literals S when those of A are assigned.
ForcesRest(c, S, A) ==
  /\ Cardinality(S) <= Limit(c)
  /\ Cardinality(S) = Limit(c) => \A l \in Watch[c] : l \in A \/ -l \in A

InCall(c) == pc \in {"init", "called"} /\ Running = c

\* The constraints are called in their order, and what a call leaves to do is
\* done when it returns.
CallsInOrder ==
  /\ DOMAIN cs = Constr
  /\ pc \in {"constr", "called"} => \A c \in Watchers(trail[at]) \ todo, d \in todo : c < d
  /\ pc \notin {"init", "called"} => enq = <<>> /\ ret = TRUE
  /\ confl # 0 => ~ok \/ pc \in {"drain", "conflict", "analyze", "cancel"}

\* n_true_ counts the literals it was told of, unless initialize gave up.
Counted(c) ==
  /\ cs[c] \in [n_true : Int]
  /\ ok /\ (pc = "init" /\ InCall(c) => ret) => cs[c].n_true = Cardinality(Heard(c))

\* What the running call has still to enqueue, and what it will return.
InOrder(c) == InCall(c) =>
  /\ enq \in Seq(Lit) /\ ret \in BOOLEAN
  /\ \A a \in DOMAIN enq : -enq[a] \in Watch[c] /\ IsUndef(enq[a])
  /\ \A a, b \in DOMAIN enq : enq[a] = enq[b] => a = b
  /\ enq # <<>> => Cardinality(Heard(c)) >= Limit(c)
  /\ ret => ForcesRest(c, Heard(c), assigns \cup {enq[a] : a \in DOMAIN enq})
  /\ ~ret => Cardinality(Heard(c)) > Limit(c)
  /\ pc = "called" => enqueue_failure = lit_Undef

\* The conflict it has reported.
Overfull(c) == confl = c /\ pc \in {"drain", "conflict"} =>
  /\ trail[at] \in Watch[c]
  /\ Cardinality(Watch[c] \cap assigns) > Limit(c)
  /\ enqueue_failure = lit_Undef

\* The literals it has implied: their negations are its own, and it was full
\* before the first, so that none of its literals has become true since.
ImpliedBy(c) == {i \in DOMAIN trail : nc_reason[VarOf(trail[i])] = c}
Forced(c) == \A i \in ImpliedBy(c) :
  /\ -trail[i] \in Watch[c]
  /\ \A j \in DOMAIN trail : j > i => trail[j] \notin Watch[c]
  /\ Cardinality(Watch[c] \cap Before(i - 1)) >= Limit(c)
Ripe(c) == ok /\ pc \in Lively /\ ImpliedBy(c) # {} => Cardinality(Heard(c)) >= Limit(c)

\* Its work is done whenever it is not running, and was at each decision.
AtRest(c) == ok /\ pc \in Lively /\ ~InCall(c) => ForcesRest(c, Heard(c), assigns)
AtDecisions(c) == \A k \in DOMAIN trail_lim : (pc = "cancel" => k <= target + 1) =>
  ForcesRest(c, Watch[c] \cap Before(trail_lim[k]), Before(trail_lim[k]))

CountsRight(c) ==
  /\ Counted(c) /\ InOrder(c) /\ Overfull(c) /\ Forced(c)
  /\ Ripe(c) /\ AtRest(c) /\ AtDecisions(c)

\* The watches of a plain constraint.
LEMMA PlainWatch ==
  ASSUME NEW c \in Plain
  PROVE  /\ c \in Constr /\ Problem[c].kind = "AtMost" /\ Limit(c) \in Int
         /\ Watch[c] = {Problem[c].lits[i] : i \in DOMAIN Problem[c].lits}
         /\ WatchesOf(Problem[c]) = Watch[c]
         /\ Watch[c] \subseteq Lit /\ IsFiniteSet(Watch[c])
         /\ \A l \in Watch[c] : -l \notin Watch[c]
<1>1. c \in Constr /\ Problem[c].kind = "AtMost" /\ Limit(c) \in Int /\ Problem[c].lits \in Seq(Lit)
      /\ \A l \in Watch[c] : -l \notin Watch[c]
  BY DEF Plain, Limit
<1>2. Watch[c] = WatchesOf(Problem[c]) /\ Watch[c] \subseteq Lit
  BY <1>1, EngineAssumption, TrailAssumption
<1>3. WatchesOf(Problem[c]) = AM!Watches(Problem[c])
  BY <1>1 DEF WatchesOf
<1>4. WatchesOf(Problem[c]) = {Problem[c].lits[i] : i \in DOMAIN Problem[c].lits}
  BY <1>3 DEF AM!Watches
<1>5. IsFiniteSet(Watch[c])
  <2>1. IsFiniteSet(-NVars..NVars) /\ Lit \subseteq -NVars..NVars
    BY TrailAssumption, FS_Interval DEF Lit
  <2> QED BY <1>2, <2>1, FS_Subset
<1> QED BY <1>1, <1>2, <1>4, <1>5

\* What it has been told of is what it is to know, and at the end of the queue
\* that is all that is true of its literals.
HeardRight(c) ==
  /\ Heard(c) = KnownTo(c)
  /\ Heard(c) \subseteq Watch[c] \cap assigns
  /\ ok /\ pc \in {"ready", "init", "learn"} /\ qhead = Len(trail) /\ c \in Added =>
       Heard(c) = Watch[c] \cap assigns

LEMMA HeardIsKnown == Base /\ Calls => \A c \in Constr : HeardRight(c)
<1> SUFFICES ASSUME Base, Calls, NEW c \in Constr PROVE HeardRight(c)
  OBVIOUS
<1>1. /\ \A i \in DOMAIN trail : told[c][trail[i]] = IF Knows(c, i) THEN 1 ELSE 0
      /\ \A l \in Lit \ assigns : told[c][l] = 0
  BY DEF Calls, ToldRight
<1>2. assigns = {trail[i] : i \in DOMAIN trail} /\ assigns \subseteq Lit
  BY DEF Base, TypeOK, TrailOK
<1>3. \A i \in DOMAIN trail : trail[i] \in Heard(c) <=> Knows(c, i)
  BY <1>1, <1>2 DEF Heard
<1>4. Heard(c) \subseteq assigns
  BY <1>1 DEF Heard
<1>5. Heard(c) = KnownTo(c)
  BY <1>2, <1>3, <1>4 DEF KnownTo
<1>6. KnownTo(c) \subseteq Watch[c]
  BY DEF KnownTo, Knows
<1>7. ASSUME ok, pc \in {"ready", "init", "learn"}, qhead = Len(trail), c \in Added,
             NEW i \in DOMAIN trail, trail[i] \in Watch[c]
      PROVE  Knows(c, i)
  <2>1. at = Len(trail) /\ todo = {} /\ DOMAIN trail = 1..Len(trail) /\ Len(trail) \in Nat
    BY <1>7 DEF Base, TypeOK, Queue
  <2> QED BY <1>7, <2>1 DEF Knows
<1>8. ASSUME ok, pc \in {"ready", "init", "learn"}, qhead = Len(trail), c \in Added
      PROVE  Watch[c] \cap assigns \subseteq Heard(c)
  BY <1>2, <1>3, <1>7, <1>8
<1> QED BY <1>4, <1>5, <1>6, <1>8 DEF HeardRight

\* The sets counted are finite.
LEMMA PlainCount ==
  ASSUME NEW c \in Plain, NEW S, S \subseteq Watch[c]
  PROVE  /\ IsFiniteSet(S) /\ Cardinality(S) \in Nat /\ Limit(c) \in Int
         /\ \A T \in SUBSET S : Cardinality(T) \in Nat /\ Cardinality(T) <= Cardinality(S)
BY PlainWatch, FS_Subset, FS_CardinalityType
-----------------------------------------------------------------------------
\* A run of the constraint's code, and what it may have enqueued.
AtMostRuns ==
  [s : [n_true : Int], A : SUBSET Lit, enq : Seq(Lit), failure : {enqueue_failure, lit_Undef},
   good : BOOLEAN, calls : Int, pending : Int]
Orders(c, r) ==
  /\ r \in AtMostRuns
  /\ r.A = assigns \cup {r.enq[a] : a \in DOMAIN r.enq}
  /\ \A a \in DOMAIN r.enq : -r.enq[a] \in Watch[c] /\ IsUndef(r.enq[a])
  /\ \A a, b \in DOMAIN r.enq : r.enq[a] = r.enq[b] => a = b

\* AtMost enqueues only what is unassigned, and never fails to.
LEMMA TryOrders ==
  ASSUME NEW c \in Plain, NEW r, Orders(c, r), NEW l \in Lit, -l \in Watch[c],
         NEW q, q = TryEnqueue(Problem[c], r, l)
  PROVE  /\ Orders(c, q) /\ q.s = r.s /\ q.good = r.good /\ q.failure = r.failure
         /\ r.A \subseteq q.A /\ (r.good => l \in q.A \/ -l \in q.A)
<1> DEFINE k == Problem[c]
<1>0. k.kind = "AtMost" /\ WatchesOf(k) = Watch[c] /\ SkipsAssignedOf(k)
  <2>1. Problem[c].kind = "AtMost" /\ WatchesOf(Problem[c]) = Watch[c]
    BY PlainWatch
  <2> QED BY <2>1 DEF SkipsAssignedOf, AM!SkipsAssigned
<1> HIDE DEF k
<1>1. r \in AtMostRuns /\ r.good \in BOOLEAN
  BY DEF Orders, AtMostRuns
<1>2. CASE q = r /\ (r.good => l \in r.A \/ -l \in r.A)
  BY <1>2
<1>3. CASE r.good /\ l \notin r.A /\ -l \notin r.A
  <2> DEFINE pn == IF l \in WatchesOf(k) THEN r.pending + 1 ELSE r.pending
             e == Append(r.enq, l)
  <2>1. q = [r EXCEPT !.A = @ \cup {l}, !.enq = Append(@, l),
                      !.pending = IF l \in WatchesOf(k) THEN @ + 1 ELSE @]
    BY <1>3 DEF TryEnqueue, k
  <2>2. /\ r.pending \in Int /\ pn \in Int /\ r.enq \in Seq(Lit) /\ e \in Seq(Lit) /\ r.A \in SUBSET Lit
    BY <1>1 DEF AtMostRuns
  <2>3. q = [s |-> r.s, A |-> r.A \cup {l}, enq |-> e, failure |-> r.failure, good |-> r.good,
             calls |-> r.calls, pending |-> pn]
    BY <1>1, <2>1 DEF AtMostRuns
  <2> HIDE DEF pn
  <2>4. q \in AtMostRuns
    BY <1>1, <2>2, <2>3 DEF AtMostRuns
  <2>5. /\ DOMAIN e = 1..(Len(r.enq) + 1) /\ DOMAIN r.enq = 1..Len(r.enq) /\ Len(r.enq) \in Nat
        /\ e[Len(r.enq) + 1] = l /\ \A a \in DOMAIN r.enq : e[a] = r.enq[a]
    BY <2>2
  <2> HIDE DEF e
  <2>6. /\ r.A = assigns \cup {r.enq[a] : a \in DOMAIN r.enq}
        /\ \A a \in DOMAIN r.enq : -r.enq[a] \in Watch[c] /\ IsUndef(r.enq[a])
        /\ \A a, b \in DOMAIN r.enq : r.enq[a] = r.enq[b] => a = b
    BY DEF Orders
  <2>7. IsUndef(l)
    BY <1>3, <2>6 DEF IsUndef, IsTrue, IsFalse
  <2>8. \A a \in DOMAIN e : a \in DOMAIN r.enq \/ a = Len(r.enq) + 1
    BY <2>5
  <2>9. {e[a] : a \in DOMAIN e} = {r.enq[a] : a \in DOMAIN r.enq} \cup {l}
    BY <2>5, <2>8
  <2>10. \A a \in DOMAIN r.enq : r.enq[a] # l
    BY <1>3, <2>6
  <2>11. /\ \A a \in DOMAIN e : -e[a] \in Watch[c] /\ IsUndef(e[a])
         /\ \A a, b \in DOMAIN e : e[a] = e[b] => a = b
    BY <2>5, <2>6, <2>7, <2>8, <2>10
  <2> QED BY <2>3, <2>4, <2>6, <2>9, <2>11 DEF Orders
<1>4. CASE ~(r.good /\ l \notin r.A /\ -l \notin r.A)
  <2>1. q = r
    BY <1>0, <1>4 DEF TryEnqueue, k
  <2> QED BY <1>2, <1>4, <2>1
<1> QED BY <1>3, <1>4

\* The same of everything it wants to enqueue.
LEMMA FinishOrders ==
  ASSUME NEW c \in Plain, NEW r, Orders(c, r), NEW o, o.s \in [n_true : Int],
         o.accepts \in BOOLEAN, o.wanted \in Seq(Lit),
         \A i \in DOMAIN o.wanted : -o.wanted[i] \in Watch[c],
         NEW q, q = Finish(Problem[c], r, o)
  PROVE  /\ Orders(c, q) /\ q.s = o.s /\ q.good = (r.good /\ o.accepts) /\ q.failure = r.failure
         /\ r.A \subseteq q.A
         /\ r.good => \A i \in DOMAIN o.wanted : o.wanted[i] \in q.A \/ -o.wanted[i] \in q.A
         /\ o.wanted = <<>> => q.enq = r.enq
<1> DEFINE k == Problem[c]
           n == Len(o.wanted)
           try(x, i) == TryEnqueue(k, x, o.wanted[i])
           first == [r EXCEPT !.s = o.s]
           body(f) == [i \in 0..n |-> IF i = 0 THEN first ELSE try(f[i - 1], i)]
           tried == CHOOSE f : f = body(f)
           RR == {x \in AtMostRuns : Orders(c, x) /\ x.s = o.s /\ x.good = r.good
                                     /\ x.failure = r.failure}
           st == [a \in RR \X (1..n) |-> try(a[1], a[2])]
<1>1. n \in Nat /\ DOMAIN o.wanted = 1..n /\ \A i \in 1..n : o.wanted[i] \in Lit /\ -o.wanted[i] \in Watch[c]
  OBVIOUS
<1>2. q = [tried[n] EXCEPT !.good = @ /\ o.accepts]
  BY DEF Finish
<1> HIDE DEF n
<1>3. first \in RR
  <2>1. r \in AtMostRuns
    BY DEF Orders
  <2>2. first = [s |-> o.s, A |-> r.A, enq |-> r.enq, failure |-> r.failure, good |-> r.good,
                 calls |-> r.calls, pending |-> r.pending]
    BY <2>1 DEF AtMostRuns
  <2>3. first \in AtMostRuns
    BY <2>1, <2>2 DEF AtMostRuns
  <2> QED BY <2>2, <2>3 DEF Orders
<1>4. \A x \in RR : \A i \in 1..n : /\ try(x, i) \in RR /\ x.A \subseteq try(x, i).A
                                    /\ x.good => o.wanted[i] \in try(x, i).A \/ -o.wanted[i] \in try(x, i).A
  <2> SUFFICES ASSUME NEW x \in RR, NEW i \in 1..n
               PROVE  /\ try(x, i) \in RR /\ x.A \subseteq try(x, i).A
                      /\ x.good => o.wanted[i] \in try(x, i).A \/ -o.wanted[i] \in try(x, i).A
    OBVIOUS
  <2>1. Orders(c, x) /\ o.wanted[i] \in Lit /\ -o.wanted[i] \in Watch[c]
    BY <1>1
  <2> DEFINE y == try(x, i)
  <2>2. /\ Orders(c, y) /\ y.s = x.s /\ y.good = x.good /\ y.failure = x.failure
        /\ x.A \subseteq y.A /\ (x.good => o.wanted[i] \in y.A \/ -o.wanted[i] \in y.A)
    BY <2>1, TryOrders
  <2> HIDE DEF y, try
  <2> QED BY <2>2 DEF Orders, y
<1> HIDE DEF RR, try, first
<1>5. \E f : f = body(f)
  <2>1. st \in [RR \X (1..n) -> RR]
    BY <1>4
  <2>2. \A x \in RR, i \in 1..n : st[<<x, i>>] = try(x, i)
    OBVIOUS
  <2> HIDE DEF st
  <2>3. PICK f : Recurses(f, n, RR, first, st)
    BY <1>1, <1>3, <2>1, UpwardRecursion
  <2>4. f \in [0..n -> RR] /\ f[0] = first /\ \A i \in 1..n : f[i] = st[<<f[i - 1], i>>]
    BY <2>3 DEF Recurses
  <2>5. ASSUME NEW i \in 1..n PROVE f[i] = try(f[i - 1], i)
    <3>1. i - 1 \in 0..n
      BY <1>1
    <3> QED BY <2>2, <2>4, <3>1
  <2>6. \A i \in 0..n : i # 0 => i \in 1..n
    BY <1>1
  <2>7. f = body(f)
    BY <1>1, <2>4, <2>5, <2>6
  <2> QED BY <2>7
<1>6. tried = body(tried)
  <2> HIDE DEF body
  <2> QED BY <1>5
<1> HIDE DEF tried
<1>7. tried[0] = first /\ \A i \in 1..n : tried[i] = try(tried[i - 1], i)
  <2>1. 0 \in 0..n /\ \A i \in 1..n : i \in 0..n /\ i # 0
    BY <1>1
  <2>2. \A i \in 0..n : tried[i] = IF i = 0 THEN first ELSE try(tried[i - 1], i)
    BY <1>6
  <2> QED BY <2>1, <2>2
<1> HIDE DEF body
\* After i of them.
<1>8. \A m \in Nat : m <= n =>
         /\ tried[m] \in RR /\ r.A \subseteq tried[m].A
         /\ r.good => \A i \in 1..m : o.wanted[i] \in tried[m].A \/ -o.wanted[i] \in tried[m].A
  <2> DEFINE P(m) == m <= n =>
               /\ tried[m] \in RR /\ r.A \subseteq tried[m].A
               /\ r.good => \A i \in 1..m : o.wanted[i] \in tried[m].A \/ -o.wanted[i] \in tried[m].A
             T == {m \in Nat : P(m)}
  <2>1. first.A = r.A
    BY DEF first, Orders, AtMostRuns
  <2>2. 0 \in T
    BY <1>3, <1>7, <2>1
  <2>3. ASSUME NEW m \in Nat, m \in T PROVE m + 1 \in T
    <3> SUFFICES ASSUME m + 1 <= n PROVE P(m + 1)
      OBVIOUS
    <3>1. m <= n /\ m + 1 \in 1..n /\ (m + 1) - 1 = m
      <4> HIDE DEF n, P
      <4> QED BY SMTT(30), <1>1
    <3>2. P(m) /\ tried[m + 1] = try(tried[m], m + 1)
      BY <1>7, <2>3, <3>1
    <3>3. /\ tried[m + 1] \in RR /\ tried[m].A \subseteq tried[m + 1].A
          /\ tried[m].good => o.wanted[m + 1] \in tried[m + 1].A \/ -o.wanted[m + 1] \in tried[m + 1].A
      BY <1>4, <3>1, <3>2
    <3>4. tried[m].good = r.good
      BY <3>1, <3>2 DEF RR
    <3>5. \A i \in 1..(m + 1) : i \in 1..m \/ i = m + 1
      OBVIOUS
    <3> QED BY <3>1, <3>2, <3>3, <3>4, <3>5
  <2> HIDE DEF T
  <2>4. \A m \in Nat : m \in T
    BY <2>2, <2>3, NatSet
  <2> QED BY <2>4 DEF T
<1> DEFINE last == tried[n]
<1>9. /\ last \in RR /\ r.A \subseteq last.A
      /\ r.good => \A i \in 1..n : o.wanted[i] \in last.A \/ -o.wanted[i] \in last.A
  BY <1>1, <1>8
<1>10. o.wanted = <<>> => last = first
  BY <1>7 DEF n
<1>11. q = [last EXCEPT !.good = @ /\ o.accepts]
  BY <1>2
<1> HIDE DEF last
<1>12. /\ last \in AtMostRuns /\ Orders(c, last) /\ last.s = o.s /\ last.good = r.good
       /\ last.failure = r.failure
  BY <1>9 DEF RR
<1>13. q = [s |-> last.s, A |-> last.A, enq |-> last.enq, failure |-> last.failure,
            good |-> (last.good /\ o.accepts), calls |-> last.calls, pending |-> last.pending]
  BY <1>11, <1>12 DEF AtMostRuns
<1>14. q \in AtMostRuns
  BY <1>12, <1>13 DEF AtMostRuns
<1>15. Orders(c, q)
  BY <1>12, <1>13, <1>14 DEF Orders
<1>16. first.enq = r.enq
  BY DEF first, Orders, AtMostRuns
<1> QED BY <1>1, <1>9, <1>10, <1>12, <1>13, <1>15, <1>16

\* What AtMost makes of m true literals, in propagate and at the end of initialize.
Outcome(c, m) ==
  [s |-> [n_true |-> m], accepts |-> m <= Limit(c),
   wanted |-> IF m = Limit(c) THEN [i \in DOMAIN Problem[c].lits |-> -Problem[c].lits[i]] ELSE <<>>]

LEMMA AtMostOutcome ==
  ASSUME NEW c \in Plain, NEW s \in [n_true : Int], NEW A, NEW p, NEW late
  PROVE  /\ PropagateOf(Problem[c], s, A, p, late) = Outcome(c, s.n_true + 1)
         /\ InitEndOf(Problem[c], s, A) = Outcome(c, s.n_true)
<1> DEFINE k == Problem[c]
<1>1. k.kind = "AtMost" /\ k.threshold = Limit(c) /\ k.threshold \in Int /\ s.n_true \in Int
  BY PlainWatch DEF Limit
<1> HIDE DEF k
<1>2. PropagateOf(k, s, A, p, late) = AM!Propagate(k, s, p)
  BY <1>1 DEF PropagateOf
<1>3. InitEndOf(k, s, A) = AM!InitEnd(k, s, A)
  BY <1>1 DEF InitEndOf
<1>4. AM!Called(k, s, p) = [n_true |-> s.n_true + 1] /\ s = [n_true |-> s.n_true]
  BY DEF AM!Called
<1> DEFINE negs == [i \in DOMAIN k.lits |-> -k.lits[i]]
<1>5. ASSUME NEW m \in Int
      PROVE  /\ AM!Accepts(k, [n_true |-> m]) = (m <= Limit(c))
             /\ AM!Wanted(k, [n_true |-> m]) = IF m = Limit(c) THEN negs ELSE <<>>
  BY <1>1 DEF AM!Accepts, AM!Wanted
<1>6. ASSUME NEW m \in Int
      PROVE  Outcome(c, m) = IF AM!Accepts(k, [n_true |-> m])
                             THEN [s |-> [n_true |-> m], accepts |-> TRUE, wanted |-> AM!Wanted(k, [n_true |-> m])]
                             ELSE [s |-> [n_true |-> m], accepts |-> FALSE, wanted |-> <<>>]
  <2>1. Outcome(c, m) = [s |-> [n_true |-> m], accepts |-> m <= Limit(c),
                         wanted |-> IF m = Limit(c) THEN negs ELSE <<>>]
    BY DEF Outcome, k
  <2>2. ~(m <= Limit(c)) => m # Limit(c)
    BY <1>1
  <2>3. CASE m <= Limit(c)
    BY <1>5, <2>1, <2>3
  <2>4. CASE ~(m <= Limit(c))
    <3>1. (m <= Limit(c)) = FALSE
      BY <2>4
    <3>2. Outcome(c, m) = [s |-> [n_true |-> m], accepts |-> FALSE, wanted |-> <<>>]
      BY <2>1, <2>2, <2>4, <3>1
    <3> QED BY <1>5, <2>4, <3>2
  <2> QED BY <2>3, <2>4
<1>7. s.n_true + 1 \in Int
  BY <1>1
<1>8. AM!Propagate(k, s, p) = Outcome(c, s.n_true + 1)
  BY <1>4, <1>6, <1>7 DEF AM!Propagate
<1>9. AM!InitEnd(k, s, A) = Outcome(c, s.n_true)
  <2>1. AM!InitAccepts(k, s) = AM!Accepts(k, s) /\ AM!InitWanted(k, s) = AM!Wanted(k, s)
    BY DEF AM!InitAccepts, AM!InitWanted
  <2>2. AM!Failing(k, A) = {}
    <3>1. ASSUME NEW i \in DOMAIN k.lits, NEW j \in DOMAIN k.lits PROVE k.lits[j] # -k.lits[i]
      <4>1. k.lits[i] \in Watch[c] /\ k.lits[j] \in Watch[c]
        BY PlainWatch DEF k
      <4> QED BY <4>1, PlainWatch
    <3> QED BY <3>1 DEF AM!Failing
  <2>3. AM!InitEnd(k, s, A) = IF AM!Accepts(k, s)
                              THEN [s |-> s, accepts |-> TRUE, wanted |-> AM!Wanted(k, s)]
                              ELSE [s |-> s, accepts |-> FALSE, wanted |-> <<>>]
    BY <2>1, <2>2 DEF AM!InitEnd
  <2> QED BY <1>1, <1>4, <1>6, <2>3
<1> QED BY <1>2, <1>3, <1>8, <1>9 DEF k

\* The same carried through to the literals enqueued.
LEMMA OutcomeOrders ==
  ASSUME NEW c \in Plain, NEW r, Orders(c, r), NEW m \in Int,
         NEW q, q = Finish(Problem[c], r, Outcome(c, m))
  PROVE  /\ Orders(c, q) /\ q.s = [n_true |-> m] /\ q.failure = r.failure /\ r.A \subseteq q.A
         /\ q.good = (r.good /\ m <= Limit(c))
         /\ r.good /\ m = Limit(c) => \A l \in Watch[c] : l \in q.A \/ -l \in q.A
         /\ q.enq # <<>> => r.enq # <<>> \/ m = Limit(c)
<1> DEFINE o == Outcome(c, m)
           lits == Problem[c].lits
<1>1. /\ Problem[c].kind = "AtMost" /\ Limit(c) \in Int /\ lits \in Seq(Lit)
      /\ Watch[c] = {lits[i] : i \in DOMAIN lits} /\ Watch[c] \subseteq Lit
  BY PlainWatch DEF Plain
<1>2. o.s = [n_true |-> m] /\ o.accepts = (m <= Limit(c))
      /\ o.wanted = IF m = Limit(c) THEN [i \in DOMAIN lits |-> -lits[i]] ELSE <<>>
  BY DEF Outcome
<1> HIDE DEF o
<1> HIDE DEF lits
<1>3. DOMAIN lits = 1..Len(lits) /\ Len(lits) \in Nat /\ \A i \in DOMAIN lits : -lits[i] \in Lit /\ -(-lits[i]) = lits[i]
  <2>1. DOMAIN lits = 1..Len(lits) /\ Len(lits) \in Nat /\ \A i \in DOMAIN lits : lits[i] \in Lit
    BY <1>1
  <2>2. \A l \in Lit : -l \in Lit /\ -(-l) = l
    BY VarOfLit DEF Lit
  <2> QED BY <2>1, <2>2
<1>4. o.wanted \in Seq(Lit) /\ \A i \in DOMAIN o.wanted : -o.wanted[i] \in Watch[c]
  <2>1. CASE m = Limit(c)
    <3>1. o.wanted = [i \in 1..Len(lits) |-> -lits[i]]
      BY <1>2, <1>3, <2>1
    <3>2. o.wanted \in [1..Len(lits) -> Lit]
      BY <1>3, <3>1
    <3> QED BY <1>1, <1>3, <3>1, <3>2
  <2>2. CASE m # Limit(c)
    BY <1>2, <2>2
  <2> QED BY <2>1, <2>2
<1>5. o.s \in [n_true : Int] /\ o.accepts \in BOOLEAN
  BY <1>2
<1>6. q = Finish(Problem[c], r, o)
  BY DEF o
<1>7. /\ Orders(c, q) /\ q.s = o.s /\ q.good = (r.good /\ o.accepts) /\ q.failure = r.failure
      /\ r.A \subseteq q.A
      /\ r.good => \A i \in DOMAIN o.wanted : o.wanted[i] \in q.A \/ -o.wanted[i] \in q.A
      /\ o.wanted = <<>> => q.enq = r.enq
  BY <1>4, <1>5, <1>6, FinishOrders
<1>8. ASSUME r.good, m = Limit(c), NEW l \in Watch[c] PROVE l \in q.A \/ -l \in q.A
  <2>1. PICK i \in DOMAIN lits : l = lits[i]
    BY <1>1
  <2>2. i \in DOMAIN o.wanted /\ o.wanted[i] = -l /\ -(-l) = l
    BY <1>2, <1>3, <1>8, <2>1
  <2> QED BY <1>7, <1>8, <2>2
<1> QED BY <1>2, <1>7, <1>8

\* A run with one more call in it.
LEMMA CountedCall ==
  ASSUME NEW r \in AtMostRuns
  PROVE  [r EXCEPT !.calls = @ + 1] =
           [s |-> r.s, A |-> r.A, enq |-> r.enq, failure |-> r.failure, good |-> r.good,
            calls |-> r.calls + 1, pending |-> r.pending]
BY DEF AtMostRuns

\* propagate(p) when the constraint has counted the literals S.
LEMMA CallOrders ==
  ASSUME NEW c \in Plain, NEW r, Orders(c, r), r.good, NEW S, IsFiniteSet(S),
         r.s.n_true = Cardinality(S), NEW p, p \notin S,
         NEW q, q = Propagated(Problem[c], r, p)
  PROVE  /\ Orders(c, q) /\ q.failure = r.failure /\ r.A \subseteq q.A
         /\ q.s.n_true = Cardinality(S \cup {p})
         /\ q.good = (Cardinality(S \cup {p}) <= Limit(c))
         /\ q.good => ForcesRest(c, S \cup {p}, q.A)
         /\ q.enq # <<>> => r.enq # <<>> \/ Cardinality(S \cup {p}) >= Limit(c)
<1> DEFINE m == Cardinality(S \cup {p})
           r1 == [r EXCEPT !.calls = @ + 1]
           late == Postponed(Problem[c], r)
<1>1. m = Cardinality(S) + 1 /\ m \in Int /\ Limit(c) \in Int
  BY PlainWatch, FS_AddElement, FS_CardinalityType
<1>2. r \in AtMostRuns
  BY DEF Orders
<1>3. r1 = [s |-> r.s, A |-> r.A, enq |-> r.enq, failure |-> r.failure, good |-> r.good,
            calls |-> r.calls + 1, pending |-> r.pending]
  BY <1>2, CountedCall
<1> HIDE DEF r1
<1>4. r1 \in AtMostRuns
  BY <1>2, <1>3 DEF AtMostRuns
<1>5. Orders(c, r1)
  BY <1>3, <1>4 DEF Orders
<1>6. r.s \in [n_true : Int] /\ r1.s = r.s /\ r1.A = r.A /\ r1.enq = r.enq /\ r1.good /\ r1.failure = r.failure
  BY <1>2, <1>3 DEF AtMostRuns
<1>7. q = Finish(Problem[c], r1, PropagateOf(Problem[c], r.s, r.A, p, late))
  BY DEF Propagated, r1
<1> HIDE DEF late
<1>8. PropagateOf(Problem[c], r.s, r.A, p, late) = Outcome(c, m)
  <2>1. PropagateOf(Problem[c], r.s, r.A, p, late) = Outcome(c, r.s.n_true + 1)
    BY <1>6, AtMostOutcome
  <2>2. r.s.n_true + 1 = m
    BY <1>1
  <2> QED BY <2>1, <2>2
<1>9. q = Finish(Problem[c], r1, Outcome(c, m))
  BY <1>7, <1>8
<1>10. /\ Orders(c, q) /\ q.s = [n_true |-> m] /\ q.failure = r1.failure /\ r1.A \subseteq q.A
       /\ q.good = (r1.good /\ m <= Limit(c))
       /\ r1.good /\ m = Limit(c) => \A l \in Watch[c] : l \in q.A \/ -l \in q.A
       /\ q.enq # <<>> => r1.enq # <<>> \/ m = Limit(c)
  BY <1>1, <1>5, <1>9, OutcomeOrders
<1> HIDE DEF m
<1>11. q.s.n_true = m /\ q.good = (m <= Limit(c)) /\ r.A \subseteq q.A /\ q.failure = r.failure
  BY <1>6, <1>10
<1>12. q.good => ForcesRest(c, S \cup {p}, q.A)
  BY <1>6, <1>10, <1>11 DEF ForcesRest, m
<1>13. q.enq # <<>> => r.enq # <<>> \/ m >= Limit(c)
  BY <1>1, <1>6, <1>10
<1> QED BY <1>10, <1>11, <1>12, <1>13 DEF m

\* How far initialize has come: it has met the literals H of the true ones S.
Met(c, r, S, H) ==
  /\ Orders(c, r) /\ r.failure = enqueue_failure
  /\ r.good => r.s.n_true = Cardinality(H)
  /\ ~r.good => Cardinality(S) > Limit(c)
  /\ r.enq # <<>> => Cardinality(S) >= Limit(c)

\* A watched literal is met if it was true before: AtMost enqueues none.
LEMMA StepMet ==
  ASSUME NEW c \in Plain, NEW S, S = Watch[c] \cap assigns, NEW H \in SUBSET S,
         NEW r, Met(c, r, S, H), NEW l, l \notin H,
         NEW q, q = InitStep(Problem[c], r, l)
  PROVE  Met(c, q, S, H \cup ({l} \cap S))
<1>1. /\ Problem[c].kind = "AtMost" /\ Limit(c) \in Int /\ WatchesOf(Problem[c]) = Watch[c]
      /\ IsFiniteSet(Watch[c]) /\ \A m \in Watch[c] : -m \notin Watch[c]
  BY PlainWatch
<1>2. /\ Orders(c, r) /\ r \in AtMostRuns /\ r.A = assigns \cup {r.enq[a] : a \in DOMAIN r.enq}
      /\ \A a \in DOMAIN r.enq : -r.enq[a] \in Watch[c]
  BY DEF Met, Orders
<1>3. InitLits(Problem[c]) = Watch[c]
  BY <1>1 DEF InitLits
<1>4. l \in InitLits(Problem[c]) \cap r.A <=> l \in S
  BY <1>1, <1>2, <1>3
<1>5. IsFiniteSet(S) /\ IsFiniteSet(H) /\ Cardinality(S) \in Int
      /\ \A G \in SUBSET S : IsFiniteSet(G) /\ Cardinality(G) \in Int /\ Cardinality(G) <= Cardinality(S)
  BY <1>1, FS_Subset, FS_CardinalityType
<1>6. CASE r.good /\ l \in S
  <2> DEFINE G == H \cup {l}
  <2>1. q = Propagated(Problem[c], r, l) /\ r.s.n_true = Cardinality(H)
    BY <1>4, <1>6 DEF InitStep, Met
  <2>2. /\ Orders(c, q) /\ q.failure = r.failure /\ q.s.n_true = Cardinality(G)
        /\ q.good = (Cardinality(G) <= Limit(c))
        /\ q.enq # <<>> => r.enq # <<>> \/ Cardinality(G) >= Limit(c)
    BY <1>2, <1>5, <1>6, <2>1, CallOrders
  <2>3. G \in SUBSET S /\ H \cup ({l} \cap S) = G
    BY <1>6
  <2> HIDE DEF G
  <2>4. Cardinality(G) \in Int /\ Cardinality(G) <= Cardinality(S)
    BY <1>5, <2>3
  <2>5. ~q.good => Cardinality(S) > Limit(c)
    <3>1. ~q.good => ~(Cardinality(G) <= Limit(c))
      BY <2>2
    <3> QED BY <1>1, <1>5, <2>4, <3>1
  <2>6. q.enq # <<>> => Cardinality(S) >= Limit(c)
    BY <1>1, <1>5, <2>2, <2>4 DEF Met
  <2> QED BY <2>2, <2>3, <2>5, <2>6 DEF Met
<1>7. CASE ~r.good \/ l \notin S
  <2>1. q = r
    BY <1>4, <1>7 DEF InitStep
  <2>2. CASE l \notin S
    <3>1. H \cup ({l} \cap S) = H
      BY <2>2
    <3> QED BY <2>1, <3>1
  <2>3. CASE ~r.good
    BY <2>1, <2>3 DEF Met
  <2> QED BY <1>7, <2>2, <2>3
<1> QED BY <1>6, <1>7

\* initialize counts the true literals and closes what they leave open, or
\* gives up because they are too many.
LEMMA InitializeOrders ==
  ASSUME TypeOK, NEW c \in Plain,
         NEW S, S = Watch[c] \cap assigns, NEW q, q = Initialize(Problem[c])
  PROVE  /\ Orders(c, q) /\ q.failure = enqueue_failure
         /\ q.good => q.s.n_true = Cardinality(S) /\ ForcesRest(c, S, q.A)
         /\ ~q.good => Cardinality(S) > Limit(c)
         /\ q.enq # <<>> => Cardinality(S) >= Limit(c)
<1> DEFINE k == Problem[c]
           step(r, x) == InitStep(k, InitStep(k, r, x), -x)
           first == Run(StartOf(k, assigns), 0, enqueue_failure)
           body(f) == [x \in 0..NVars |-> IF x = 0 THEN first ELSE step(f[x - 1], x)]
           met == CHOOSE f : f = body(f)
           H(x) == {l \in S : VarOf(l) <= x}
           RR == {r \in AtMostRuns : \E G \in SUBSET S : Met(c, r, S, G)}
           OK(r, x) == Met(c, r, S, H(x))
<1>1. /\ k.kind = "AtMost" /\ Limit(c) \in Int /\ IsFiniteSet(Watch[c]) /\ Watch[c] \subseteq Lit
      /\ \A m \in Watch[c] : -m \notin Watch[c]
  BY PlainWatch
<1>2. NVars \in Nat /\ S \subseteq Lit /\ IsFiniteSet(S) /\ assigns \in SUBSET Lit /\ Cardinality(S) \in Int
  BY <1>1, TrailAssumption, FS_Subset, FS_CardinalityType DEF TypeOK
<1>3. q = InitLast(k, met[NVars])
  BY DEF Initialize
<1>4. \A l \in S : l \in Int /\ VarOf(l) \in 1..NVars /\ (l = VarOf(l) \/ l = -VarOf(l))
  <2>1. \A l \in Lit : l \in Int /\ VarOf(l) \in 1..NVars /\ (l = VarOf(l) \/ l = -VarOf(l))
    BY <1>2 DEF Lit, VarOf
  <2> QED BY <1>2, <2>1
<1> HIDE DEF k
<1>5. OK(first, 0)
  <2>1. StartOf(k, assigns) = [n_true |-> 0]
    BY <1>1 DEF StartOf, AM!Start
  <2>2. first = [s |-> [n_true |-> 0], A |-> assigns, enq |-> <<>>, failure |-> enqueue_failure,
                 good |-> TRUE, calls |-> 0, pending |-> 0]
    BY <2>1 DEF Run
  <2> HIDE DEF first
  <2>3. first \in AtMostRuns
    BY <1>2, <2>2 DEF AtMostRuns
  <2>4. H(0) = {} /\ Cardinality({}) = 0
    BY <1>4, FS_EmptySet
  <2>5. Orders(c, first)
    BY <2>2, <2>3 DEF Orders
  <2> QED BY <2>2, <2>4, <2>5 DEF Met
<1> HIDE DEF first
\* A turn of the loop meets the two literals of a variable.
<1>6. ASSUME NEW x \in 1..NVars, NEW r, OK(r, x - 1) PROVE OK(step(r, x), x)
  <2> DEFINE q1 == InitStep(k, r, x)
             q2 == InitStep(k, q1, -x)
             H1 == H(x - 1) \cup ({x} \cap S)
  <2>1. H(x - 1) \in SUBSET S /\ H1 \in SUBSET S
    OBVIOUS
  <2>2. x \notin H(x - 1) /\ -x \notin H1 /\ H1 \cup ({-x} \cap S) = H(x)
    <3>1. x \in Int /\ x > 0 /\ VarOf(x) = x /\ VarOf(-x) = x
      BY <1>2 DEF VarOf
    <3>2. \A l \in S : VarOf(l) <= x <=> VarOf(l) <= x - 1 \/ l = x \/ l = -x
      BY <1>4, <3>1
    <3> QED BY <3>1, <3>2
  <2> HIDE DEF H
  <2>3. Met(c, q1, S, H1)
    BY <1>6, <2>1, <2>2, StepMet DEF k
  <2> HIDE DEF q1
  <2>4. Met(c, q2, S, H1 \cup ({-x} \cap S))
    BY <2>1, <2>2, <2>3, StepMet DEF k
  <2>5. step(r, x) = q2
    BY DEF q1
  <2> HIDE DEF q2, step
  <2> QED BY <2>2, <2>4, <2>5
\* Such a function exists.
<1>7. \E f : f = body(f)
  <2> DEFINE RN == [0..NVars -> AtMostRuns]
             S1 == {a \in AtMostRuns \X (0..NVars) : OK(a[1], a[2])}
             st == [a \in S1 \X (1..NVars) |->
                      IF a[1][2] = a[2] - 1 THEN <<step(a[1][1], a[2]), a[2]>> ELSE a[1]]
  <2>1. \A r, x : OK(r, x) => r \in AtMostRuns
    BY DEF Met, Orders
  <2>2. <<first, 0>> \in S1
    <3>1. first \in AtMostRuns /\ 0 \in 0..NVars
      BY <1>2, <1>5, <2>1
    <3> HIDE DEF OK
    <3> QED BY <1>5, <3>1
  <2>3. st \in [S1 \X (1..NVars) -> S1]
    <3> SUFFICES ASSUME NEW a \in S1 \X (1..NVars) PROVE st[a] \in S1
      OBVIOUS
    <3>1. CASE a[1][2] = a[2] - 1
      <4>1. a[2] \in 1..NVars /\ OK(a[1][1], a[2] - 1)
        BY <3>1
      <4>2. OK(step(a[1][1], a[2]), a[2])
        BY <1>6, <4>1
      <4>3. st[a] = <<step(a[1][1], a[2]), a[2]>>
        BY <3>1
      <4>4. a[2] \in 0..NVars
        BY <1>2, <4>1
      <4> HIDE DEF step, OK, st
      <4> QED BY <2>1, <4>2, <4>3, <4>4
    <3>2. CASE a[1][2] # a[2] - 1
      BY <3>2
    <3> QED BY <3>1, <3>2
  <2>4. \A a \in S1, x \in 1..NVars : st[<<a, x>>] = IF a[2] = x - 1 THEN <<step(a[1], x), x>> ELSE a
    OBVIOUS
  <2> HIDE DEF st, S1, OK
  <2>5. PICK g : Recurses(g, NVars, S1, <<first, 0>>, st)
    BY <1>2, <2>2, <2>3, UpwardRecursion
  <2>6. g \in [0..NVars -> S1] /\ g[0] = <<first, 0>> /\ \A i \in 1..NVars : g[i] = st[<<g[i - 1], i>>]
    BY <2>5 DEF Recurses
  <2>7. ASSUME NEW i \in 1..NVars, g[i - 1][2] = i - 1
        PROVE  g[i] = <<step(g[i - 1][1], i), i>>
    <3>1. g[i - 1] \in S1
      BY <1>2, <2>6
    <3>2. st[<<g[i - 1], i>>] = IF g[i - 1][2] = i - 1 THEN <<step(g[i - 1][1], i), i>> ELSE g[i - 1]
      BY <2>4, <3>1
    <3> QED BY <2>6, <2>7, <3>2
  <2>8. \A i \in Nat : i <= NVars => g[i][2] = i
    <3> DEFINE T == {i \in Nat : i <= NVars => g[i][2] = i}
    <3>1. 0 \in T
      BY <2>6
    <3>2. ASSUME NEW i \in Nat, i \in T PROVE i + 1 \in T
      <4> SUFFICES ASSUME i + 1 <= NVars PROVE g[i + 1][2] = i + 1
        OBVIOUS
      <4>1. i + 1 \in 1..NVars /\ (i + 1) - 1 = i /\ g[i][2] = i
        BY <1>2, <3>2
      <4> QED BY <2>7, <4>1
    <3> HIDE DEF T
    <3>3. \A i \in Nat : i \in T
      BY <3>1, <3>2, NatSet
    <3> QED BY <3>3 DEF T
  <2> DEFINE f == [x \in 0..NVars |-> g[x][1]]
  <2> HIDE DEF step
  <2>9. f[0] = first
    BY <1>2, <2>6
  <2>10. ASSUME NEW i \in 1..NVars PROVE f[i] = step(f[i - 1], i)
    <3>1. i - 1 \in 0..NVars /\ i - 1 \in Nat /\ i - 1 <= NVars /\ i \in 0..NVars
      BY <1>2
    <3>2. g[i] = <<step(g[i - 1][1], i), i>>
      BY <2>7, <2>8, <3>1
    <3>3. f[i - 1] = g[i - 1][1] /\ f[i] = g[i][1]
      BY <3>1
    <3> QED BY <3>2, <3>3
  <2>11. \A i \in 0..NVars : i # 0 => i \in 1..NVars
    BY <1>2
  <2>12. DOMAIN f = 0..NVars /\ f = [x \in 0..NVars |-> f[x]]
    OBVIOUS
  <2> HIDE DEF f
  <2>13. \A i \in 0..NVars : f[i] = IF i = 0 THEN first ELSE step(f[i - 1], i)
    BY <2>9, <2>10, <2>11
  <2>14. f = body(f)
    BY <2>12, <2>13
  <2> QED BY <2>14
<1>8. met = body(met)
  <2> HIDE DEF body
  <2> QED BY <1>7
<1> HIDE DEF met, step
<1>9. met[0] = first /\ \A x \in 1..NVars : met[x] = step(met[x - 1], x)
  <2>1. 0 \in 0..NVars /\ \A x \in 1..NVars : x \in 0..NVars /\ x # 0
    BY <1>2
  <2>2. \A x \in 0..NVars : met[x] = IF x = 0 THEN first ELSE step(met[x - 1], x)
    BY <1>8
  <2> QED BY <2>1, <2>2
<1> HIDE DEF body, OK
<1>10. \A x \in Nat : x <= NVars => OK(met[x], x)
  <2> DEFINE T == {x \in Nat : x <= NVars => OK(met[x], x)}
  <2>1. 0 \in T
    BY <1>5, <1>9
  <2>2. ASSUME NEW x \in Nat, x \in T PROVE x + 1 \in T
    <3> SUFFICES ASSUME x + 1 <= NVars PROVE OK(met[x + 1], x + 1)
      OBVIOUS
    <3>1. x + 1 \in 1..NVars /\ (x + 1) - 1 = x /\ OK(met[x], x)
      BY <1>2, <2>2
    <3> QED BY <1>6, <1>9, <3>1
  <2> HIDE DEF T
  <2>3. \A x \in Nat : x \in T
    BY <2>1, <2>2, NatSet
  <2> QED BY <2>3 DEF T
<1> DEFINE r == met[NVars]
<1>11. Met(c, r, S, S)
  <2>1. OK(r, NVars)
    BY <1>2, <1>10
  <2>2. H(NVars) = S
    BY <1>2, <1>4
  <2> QED BY <2>1, <2>2 DEF OK
<1>12. q = InitLast(k, r)
  BY <1>3
<1> HIDE DEF r
<1>13. CASE r.good
  <2> DEFINE m == Cardinality(S)
  <2>1. Orders(c, r) /\ r.s.n_true = m /\ r.s \in [n_true : Int] /\ r.failure = enqueue_failure
    BY <1>11, <1>13 DEF Met, Orders, AtMostRuns
  <2>2. q = Finish(k, r, InitEndOf(k, r.s, r.A))
    BY <1>12, <1>13 DEF InitLast
  <2>3. InitEndOf(k, r.s, r.A) = Outcome(c, r.s.n_true)
    BY <2>1, AtMostOutcome DEF k
  <2>4. q = Finish(Problem[c], r, Outcome(c, m))
    BY <2>1, <2>2, <2>3 DEF k
  <2> HIDE DEF m
  <2>5. m \in Int
    BY <1>2 DEF m
  <2>6. /\ Orders(c, q) /\ q.s = [n_true |-> m] /\ q.failure = r.failure /\ r.A \subseteq q.A
        /\ q.good = (r.good /\ m <= Limit(c))
        /\ r.good /\ m = Limit(c) => \A l \in Watch[c] : l \in q.A \/ -l \in q.A
        /\ q.enq # <<>> => r.enq # <<>> \/ m = Limit(c)
    BY <2>1, <2>4, <2>5, OutcomeOrders
  <2>7. q.s.n_true = m
    BY <2>6
  <2>8. q.good => ForcesRest(c, S, q.A)
    BY <1>13, <2>6 DEF ForcesRest, m
  <2>9. ~q.good => m > Limit(c)
    <3>1. ~q.good => ~(m <= Limit(c))
      BY <1>13, <2>6
    <3> QED BY <1>1, <2>5, <3>1
  <2>10. q.enq # <<>> => m >= Limit(c)
    BY <1>1, <1>11, <2>5, <2>6 DEF Met, m
  <2> QED BY <2>1, <2>6, <2>7, <2>8, <2>9, <2>10 DEF m
<1>14. CASE ~r.good
  <2>1. q = r
    BY <1>12, <1>14 DEF InitLast
  <2> QED BY <1>11, <1>14, <2>1 DEF Met
<1> QED BY <1>13, <1>14
-----------------------------------------------------------------------------
\* A call goes to the constraint that is then running, the last one called.
LastIsRunning ==
  pc = "called" => \A c \in Watchers(trail[at]) \ todo :
                     (\A d \in Watchers(trail[at]) \ todo : d <= c) => Running = c
LEMMA LastCalled == TypeOK => LastIsRunning
<1> SUFFICES ASSUME TypeOK, pc = "called", NEW c \in Watchers(trail[at]) \ todo,
                    \A d \in Watchers(trail[at]) \ todo : d <= c
             PROVE  Running = c
  BY DEF LastIsRunning
<1> DEFINE T == Watchers(trail[at]) \ todo
<1>1. T \subseteq Nat
  BY TrailAssumption DEF TypeOK, Watchers, Added
<1>2. Running = CHOOSE m \in T : \A d \in T : d <= m
  BY DEF Running
<1>3. c \in T /\ \A d \in T : d <= c
  OBVIOUS
<1> HIDE DEF T
<1>4. \A m \in T : (\A d \in T : d <= m) => m = c
  BY <1>1, <1>3
<1> QED BY <1>2, <1>3, <1>4

\* Whoever calls or is called is unchanged by a step of the running constraint.
LEMMA RunningStays ==
  ASSUME pc \in {"init", "called"}, pc' = pc, nconstr' = nconstr, todo' = todo, at' = at,
         pc = "called" => trail'[at] = trail[at]
  PROVE  Running' = Running
<1>1. CASE pc = "init"
  BY <1>1 DEF Running
<1>2. CASE pc = "called"
  <2>1. Watchers(trail[at])' = Watchers(trail[at])
    BY <1>2 DEF Watchers, Added
  <2>2. (Watchers(trail[at]) \ todo)' = Watchers(trail[at]) \ todo
    BY <2>1
  <2> QED BY <1>2, <2>2 DEF Running
<1> QED BY <1>1, <1>2

LEMMA CallsInOrderInit == EngineInit => CallsInOrder
BY DEF EngineInit, Init, CallsInOrder

LEMMA CallsInOrderStep ==
  Base /\ CallsInOrder /\ [EngineNext]_vars => CallsInOrder'
<1> SUFFICES ASSUME Base, CallsInOrder, [EngineNext]_vars PROVE CallsInOrder'
  OBVIOUS
<1> USE DEF CallsInOrder
<1>0. TypeOK /\ Queue /\ nconstr \in Nat
  BY TrailAssumption DEF Base, TypeOK
<1>1. CASE EAddConstraint
  BY <1>0, <1>1 DEF EAddConstraint, AddConstraint, Leave, Fixpoint
<1>2. CASE EEnqueue
  <2>1. /\ pc \in {"init", "called"} /\ pc' = pc /\ nconstr' = nconstr /\ at' = at /\ todo' = todo
        /\ confl' = confl /\ ok' = ok /\ trail' = Append(trail, Head(enq)) /\ cs' = cs
    BY <1>2 DEF EEnqueue, Imply, Enqueue
  <2>2. pc = "called" => trail'[at] = trail[at]
    <3> SUFFICES ASSUME pc = "called" PROVE trail'[at] = trail[at]
      OBVIOUS
    <3>1. at \in DOMAIN trail
      BY <1>0 DEF Queue, TypeOK
    <3> QED BY <1>0, <2>1, <3>1 DEF TypeOK
  <2>3. pc = "called" => Watchers(trail[at])' = Watchers(trail[at])
    BY <2>1, <2>2 DEF Watchers, Added
  <2> QED BY <2>1, <2>3
<1>3. CASE EInitialized \/ EReturnTrue
  <2>1. pc' \in {"ready", "constr"} /\ enq' = <<>> /\ ret' = TRUE /\ confl' = confl /\ confl = 0
        /\ cs' = cs /\ UNCHANGED <<trail, at, todo, nconstr>> /\ (pc' = "constr" => pc = "called")
    BY <1>0, <1>3 DEF EInitialized, Initialized, EReturnTrue, ReturnTrue, engineVars, Queue
  <2>2. Watchers(trail[at])' = Watchers(trail[at])
    BY <2>1 DEF Watchers, Added
  <2> QED BY <2>1, <2>2
<1>4. CASE EReturnFalse
  BY <1>4 DEF EReturnFalse, ReturnFalse
<1>5. CASE EAnalyzeUndo \/ ECancel
  BY <1>5 DEF EAnalyzeUndo, ECancel, AnalyzeUndo, Cancel, EForget
<1>6. CASE ECancelDone
  BY <1>6 DEF ECancelDone, CancelDone
<1>7. ASSUME NEW c \in Constr, ECall(c) PROVE CallsInOrder'
  <2>1. /\ pc = "constr" /\ c \in todo /\ (\A d \in todo : c <= d) /\ todo' = todo \ {c} /\ pc' = "called"
        /\ UNCHANGED <<ok, at, trail, nconstr, confl>>
    BY <1>7 DEF ECall, Call, Leave
  <2>2. Watchers(trail[at])' = Watchers(trail[at]) /\ todo \subseteq Constr
    BY <1>0, <2>1 DEF Watchers, Added, TypeOK
  <2>3. \A d \in Constr : d \in Nat
    BY DEF Constr
  <2>4. ok /\ confl = 0
    BY <1>0, <2>1 DEF Queue
  <2>5. \A e \in Watchers(trail[at]) \ todo', d \in todo' : e < d
    <3> SUFFICES ASSUME NEW e \in Watchers(trail[at]), e \notin todo', NEW d \in todo' PROVE e < d
      OBVIOUS
    <3>1. d \in todo /\ d # c /\ c <= d /\ c \in Nat /\ d \in Nat
      BY <2>1, <2>2, <2>3
    <3>2. CASE e \in todo
      BY <2>1, <3>1, <3>2
    <3>3. CASE e \notin todo
      BY <2>1, <3>1, <3>3
    <3> QED BY <3>2, <3>3
  <2>6. DOMAIN cs' = Constr
    BY <1>7 DEF ECall, Leave
  <2> QED BY <2>1, <2>2, <2>4, <2>5, <2>6
<1>8. ASSUME NEW l, Unconstrained(l), pc' = pc \/ pc' = "ready", pc \in {"ready", "clauses", "learn"},
             UNCHANGED ok
      PROVE  CallsInOrder'
  BY <1>8 DEF Unconstrained
<1>9. CASE ELearn
  BY <1>8, <1>9 DEF ELearn, Learn
<1>10. ASSUME NEW l \in Lit, EImplyByClause(l) \/ EAddUnit(l) \/ EDecide(l) PROVE CallsInOrder'
  BY <1>8, <1>10 DEF EImplyByClause, EAddUnit, EDecide, Imply, AddUnit, Decide, Fixpoint
<1>11. CASE EUnchanged
  <2>1. UNCHANGED engineVars
    BY <1>11 DEF EUnchanged
  <2>2. CASE AddEmpty \/ DummyLevel \/ Dequeue
    BY <1>0, <2>1, <2>2 DEF engineVars, AddEmpty, DummyLevel, Dequeue, Fixpoint, Queue
  <2>3. CASE ClausesDone
    <3>1. Watchers(trail[at])' = Watchers(trail[at]) /\ todo = Watchers(trail[at]) /\ todo' = todo
      BY <1>0, <2>3 DEF Watchers, Added, Queue, ClausesDone
    <3> QED BY <1>0, <2>1, <2>3, <3>1 DEF engineVars, ClausesDone, Queue
  <2>4. CASE ClauseConflict \/ CallsDone \/ Drain \/ DrainDone
    BY <1>0, <2>1, <2>4 DEF engineVars, ClauseConflict, CallsDone, Drain, DrainDone, Queue
  <2>5. CASE ConflictAtRoot \/ StartAnalyze \/ \E l \in 0..decisionLevel : StartCancel(l) \/ AnalyzeDone(l)
    BY <1>0, <2>1, <2>5 DEF engineVars, ConflictAtRoot, StartAnalyze, StartCancel, AnalyzeDone, Fixpoint, Queue
  <2> QED BY <1>11, <2>2, <2>3, <2>4, <2>5 DEF EUnchanged
<1>12. CASE UNCHANGED vars
  <2>1. Watchers(trail[at])' = Watchers(trail[at])
    BY <1>12 DEF vars, trailVars, Watchers, Added
  <2> QED BY <1>12, <2>1 DEF vars, trailVars, engineVars
<1> QED
  BY <1>1, <1>2, <1>3, <1>4, <1>5, <1>6, <1>7, <1>9, <1>10, <1>11, <1>12 DEF EngineNext

\* The running constraint watches the literal it is called for.
LEMMA RunningWatches ==
  ASSUME TypeOK, Blamed, pc = "called"
  PROVE  trail[at] \in Watch[Running]
<1> DEFINE T == Watchers(trail[at]) \ todo
<1>1. T # {} /\ T \in SUBSET Nat /\ nconstr \in Nat /\ \A m \in T : m <= nconstr
  BY TrailAssumption DEF TypeOK, Blamed, Watchers, Added
<1>2. Running = CHOOSE m \in T : \A d \in T : d <= m
  BY DEF Running
<1> HIDE DEF T
<1>3. \E m \in T : \A d \in T : d <= m
  BY <1>1, GreatestNat
<1>4. Running \in T
  BY <1>2, <1>3
<1> QED BY <1>4 DEF T, Watchers

\* At the end of the queue its literals on the trail are those it has counted.
LEMMA FixpointCloses ==
  ASSUME TypeOK, TrailOK, NEW c \in Plain, c \in Added, CountsRight(c), HeardRight(c), Fixpoint
  PROVE  /\ Heard(c) = Watch[c] \cap assigns /\ Before(Len(trail)) = assigns
         /\ ForcesRest(c, Watch[c] \cap assigns, assigns)
         /\ ForcesRest(c, Watch[c] \cap Before(Len(trail)), Before(Len(trail)))
<1>1. Heard(c) = Watch[c] \cap assigns
  BY DEF HeardRight, Fixpoint
<1>2. Before(Len(trail)) = assigns
  BY DEF Before, TrailOK, TypeOK
<1>3. ForcesRest(c, Heard(c), assigns)
  BY DEF CountsRight, AtRest, Fixpoint, Lively, InCall
<1> QED BY <1>1, <1>2, <1>3
-----------------------------------------------------------------------------
\* Counting right depends on little, and less of it the further a step is
\* from the constraint.  First the steps that enqueue and tell nothing.
LEMMA QuietCounts ==
  ASSUME Base, Blamed, NEW c \in Plain, c \in Added, CountsRight(c), HeardRight(c),
         UNCHANGED <<trail, assigns, told, cs, nc_reason, nconstr, enqueue_failure>>,
         \/ trail_lim' = trail_lim
         \/ trail_lim' = Append(trail_lim, Len(trail)) /\ Fixpoint /\ pc' = "ready",
         pc = "cancel" => pc' = "cancel" /\ target' = target,
         ok' => ok,
         pc' \in Lively /\ ok' => pc \in Lively,
         \/ pc' \notin {"init", "called"}
         \/ pc' = pc /\ UNCHANGED <<enq, ret, at, todo>>,
         pc = "init" => pc' \in {"init", "ready"},
         InCall(c) /\ pc' \in Lively /\ ok' => InCall(c)' \/ (ret /\ enq = <<>>),
         confl' = c /\ pc' \in {"drain", "conflict"} =>
            at' = at /\ ((confl = c /\ pc \in {"drain", "conflict"}) \/ (InCall(c) /\ pc = "called" /\ ~ret))
  PROVE  CountsRight(c)'
<1>1. /\ Heard(c)' = Heard(c) /\ Limit(c)' = Limit(c) /\ ImpliedBy(c)' = ImpliedBy(c)
      /\ \A n : Before(n)' = Before(n)
  BY DEF Heard, Limit, ImpliedBy, Before
<1>2. pc' \in {"init", "called"} => (InCall(c)' <=> InCall(c))
  <2> SUFFICES ASSUME pc' \in {"init", "called"} PROVE InCall(c)' <=> InCall(c)
    OBVIOUS
  <2>1. Running' = Running
    BY RunningStays
  <2> QED BY <2>1 DEF InCall
<1>3. pc' \notin {"init", "called"} => ~InCall(c)'
  BY DEF InCall
<1>4. Counted(c)'
  <2>1. ok' /\ (pc' = "init" /\ InCall(c)' => ret') => ok /\ (pc = "init" /\ InCall(c) => ret)
    <3> SUFFICES ASSUME ok', pc' = "init" /\ InCall(c)' => ret', pc = "init", InCall(c) PROVE ret
      OBVIOUS
    <3>1. CASE pc' \in {"init", "called"}
      BY <1>2, <3>1
    <3>2. CASE pc' \notin {"init", "called"} /\ pc' \in Lively
      BY <1>3, <3>2
    <3>3. CASE pc' \notin Lively
      BY <3>3 DEF Lively
    <3> QED BY <3>1, <3>2, <3>3
  <2> QED BY <1>1, <2>1 DEF CountsRight, Counted
<1>5. InOrder(c)'
  <2> SUFFICES ASSUME InCall(c)' PROVE InOrder(c)'
    BY DEF InOrder
  <2>1. pc' = pc /\ UNCHANGED <<enq, ret, at, todo>> /\ InCall(c)
    BY <1>2, <1>3
  <2>2. \A l : IsUndef(l)' <=> IsUndef(l)
    BY DEF IsUndef, IsTrue, IsFalse
  <2> QED BY <1>1, <2>1, <2>2 DEF CountsRight, InOrder, ForcesRest
<1>6. Overfull(c)'
  <2> SUFFICES ASSUME confl' = c, pc' \in {"drain", "conflict"} PROVE Overfull(c)'
    BY DEF Overfull
  <2>1. CASE confl = c /\ pc \in {"drain", "conflict"}
    BY <1>1, <2>1 DEF CountsRight, Overfull
  <2>2. CASE InCall(c) /\ pc = "called" /\ ~ret
    <3>1. Cardinality(Heard(c)) > Limit(c) /\ enqueue_failure = lit_Undef
      BY <2>2 DEF CountsRight, InOrder
    <3>2. Cardinality(Watch[c] \cap assigns) > Limit(c)
      <4>1. Heard(c) \subseteq Watch[c] \cap assigns /\ Watch[c] \cap assigns \subseteq Watch[c]
        BY DEF HeardRight
      <4> QED BY <3>1, <4>1, PlainCount
    <3>3. trail[at] \in Watch[c]
      BY <2>2, RunningWatches DEF InCall, Base
    <3> QED BY <1>1, <3>1, <3>2, <3>3 DEF Overfull
  <2> QED BY <2>1, <2>2
<1>7. Forced(c)' /\ Ripe(c)'
  BY <1>1 DEF CountsRight, Forced, Ripe
<1>8. AtRest(c)'
  <2> SUFFICES ASSUME ok', pc' \in Lively, ~InCall(c)' PROVE ForcesRest(c, Heard(c), assigns)
    BY <1>1 DEF AtRest, ForcesRest
  <2>1. CASE ~InCall(c)
    BY <2>1 DEF CountsRight, AtRest
  <2>2. CASE InCall(c)
    <3>1. ret /\ enq = <<>>
      BY <2>2
    <3>2. assigns \cup {enq[a] : a \in DOMAIN enq} = assigns
      BY <3>1
    <3> QED BY <2>2, <3>1, <3>2 DEF CountsRight, InOrder
  <2> QED BY <2>1, <2>2
<1>9. AtDecisions(c)'
  <2>1. CASE trail_lim' = trail_lim
    BY <1>1, <2>1 DEF CountsRight, AtDecisions, ForcesRest
  <2>2. CASE trail_lim' = Append(trail_lim, Len(trail)) /\ Fixpoint /\ pc' = "ready"
    <3>1. ForcesRest(c, Watch[c] \cap Before(Len(trail)), Before(Len(trail)))
      BY <2>2, FixpointCloses DEF Base
    <3> SUFFICES ASSUME NEW k \in DOMAIN trail_lim' 
                 PROVE  ForcesRest(c, Watch[c] \cap Before(trail_lim'[k]), Before(trail_lim'[k]))
      BY <1>1 DEF AtDecisions, ForcesRest
    <3>2. trail_lim \in Seq(Nat) /\ Len(trail) \in Nat /\ pc # "cancel"
      BY <2>2 DEF Base, TypeOK, Fixpoint
    <3>3. (k \in DOMAIN trail_lim /\ trail_lim'[k] = trail_lim[k]) \/ trail_lim'[k] = Len(trail)
      BY <2>2, <3>2
    <3> QED BY <3>1, <3>2, <3>3 DEF CountsRight, AtDecisions
  <2> QED BY <2>1, <2>2
<1> QED BY <1>4, <1>5, <1>6, <1>7, <1>8, <1>9 DEF CountsRight

\* A literal is enqueued, by whom is nc_reason's new entry.
LEMMA EnqueueCounts ==
  ASSUME Base, Blamed, NEW c \in Plain, c \in Added, CountsRight(c), HeardRight(c),
         NEW l \in Lit, IsUndef(l), Enqueue(l), NEW d,
         UNCHANGED <<told, cs, nconstr, enqueue_failure, at, todo, ok, ret>>,
         nc_reason' = [nc_reason EXCEPT ![VarOf(l)] = d],
         ok, pc \in Lively, pc' \in Lively,
         \/ trail_lim' = trail_lim
         \/ trail_lim' = Append(trail_lim, Len(trail)) /\ Fixpoint,
         \/ pc \notin {"init", "called"} /\ pc' \notin {"init", "called"} /\ d = 0
         \/ /\ pc \in {"init", "called"} /\ pc' = pc /\ d = Running
            /\ enq # <<>> /\ l = Head(enq) /\ enq' = Tail(enq)
  PROVE  CountsRight(c)'
<1> DEFINE n == Len(trail)
<1>0. /\ TypeOK /\ TrailOK /\ n \in Nat /\ DOMAIN trail = 1..n /\ DOMAIN trail' = 1..(n + 1)
      /\ trail'[n + 1] = l /\ \A i \in 1..n : trail'[i] = trail[i]
      /\ c # 0 /\ Limit(c) \in Int /\ Watch[c] \subseteq Lit /\ \A m \in Watch[c] : -m \notin Watch[c]
      /\ nc_reason \in [Var -> 0..NConstr] /\ Len(trail') = n + 1
  <2>1. TypeOK /\ TrailOK
    BY DEF Base
  <2>2. /\ n \in Nat /\ DOMAIN trail = 1..n /\ trail \in Seq(Lit)
        /\ trail' \in Seq(Lit) /\ Len(trail') = n + 1
        /\ trail'[n + 1] = l /\ \A i \in DOMAIN trail : trail'[i] = trail[i]
    BY <2>1, EnqueueTrail DEF TypeOK
  <2>3. c # 0 /\ nc_reason \in [Var -> 0..NConstr]
    BY PlainWatch DEF Blamed, Constr
  <2>4. Limit(c) \in Int /\ Watch[c] \subseteq Lit /\ \A m \in Watch[c] : -m \notin Watch[c]
    BY PlainWatch
  <2> QED BY <2>1, <2>2, <2>3, <2>4
<1>1. /\ Heard(c)' = Heard(c) /\ Limit(c)' = Limit(c)
      /\ \A m \in 0..n : Before(m)' = Before(m)
      /\ Before(n) = assigns /\ assigns' = assigns \cup {l}
  <2>1. \A m \in 0..n : \A i \in 1..m : i \in 1..n
    BY <1>0
  <2>2. \A m \in 0..n : Before(m)' = Before(m)
    BY <1>0, <2>1 DEF Before
  <2> QED BY <1>0, <2>2 DEF Heard, Limit, Before, TrailOK, Enqueue
<1>2. InCall(c)' <=> InCall(c)
  <2>1. CASE pc \notin {"init", "called"} /\ pc' \notin {"init", "called"}
    BY <2>1 DEF InCall
  <2>2. CASE pc \in {"init", "called"} /\ pc' = pc
    <3>1. pc = "called" => trail'[at] = trail[at]
      BY <1>0 DEF Base, Queue, TypeOK
    <3>2. Running' = Running
      BY <2>2, <3>1, RunningStays
    <3> QED BY <2>2, <3>2 DEF InCall
  <2> QED BY <2>1, <2>2
<1>3. /\ \A i \in 1..n : VarOf(trail[i]) # VarOf(l)
      /\ ImpliedBy(c)' = ImpliedBy(c) \cup (IF d = c THEN {n + 1} ELSE {})
  <2>1. \A i \in 1..n : trail[i] \in Lit /\ trail[i] \in assigns
    BY <1>0 DEF TypeOK, TrailOK
  <2>2. \A i \in 1..n : VarOf(trail[i]) # VarOf(l)
    BY <2>1, VarOfLit DEF IsUndef, IsTrue, IsFalse
  <2>3. VarOf(l) \in Var /\ \A i \in 1..n : VarOf(trail[i]) \in Var
    BY <2>1, VarOfLit
  <2>4. \A i \in 1..n : nc_reason'[VarOf(trail'[i])] = nc_reason[VarOf(trail[i])]
    BY <1>0, <2>2, <2>3
  <2>5. nc_reason'[VarOf(trail'[n + 1])] = d
    BY <1>0, <2>3
  <2>6. \A i \in 1..(n + 1) : i \in 1..n \/ i = n + 1
    BY <1>0
  <2>7. \A i : i \in ImpliedBy(c)' <=> i \in ImpliedBy(c) \/ (i = n + 1 /\ d = c)
    BY <1>0, <2>4, <2>5, <2>6 DEF ImpliedBy
  <2> QED BY <2>2, <2>7
\* Who is running enqueues what it owes.
<1>4. ASSUME d = c
      PROVE  /\ InCall(c) /\ -l \in Watch[c] /\ Cardinality(Heard(c)) >= Limit(c)
             /\ Cardinality(Watch[c] \cap assigns) >= Limit(c)
  <2>1. InCall(c) /\ enq # <<>> /\ l = Head(enq)
    BY <1>0, <1>4 DEF InCall
  <2>2. /\ enq \in Seq(Lit) /\ \A a \in DOMAIN enq : -enq[a] \in Watch[c]
        /\ Cardinality(Heard(c)) >= Limit(c)
    BY <2>1 DEF CountsRight, InOrder
  <2>3. l = enq[1] /\ 1 \in DOMAIN enq
    BY <2>1, <2>2
  <2>4. Heard(c) \subseteq Watch[c] \cap assigns /\ Watch[c] \cap assigns \subseteq Watch[c]
    BY DEF HeardRight
  <2>5. /\ Cardinality(Heard(c)) <= Cardinality(Watch[c] \cap assigns)
        /\ Cardinality(Heard(c)) \in Nat /\ Cardinality(Watch[c] \cap assigns) \in Nat
    BY <2>4, PlainCount
  <2> QED BY <1>0, <2>1, <2>2, <2>3, <2>5
\* Once it has implied something no literal of its own can become true.
<1>5. ASSUME ImpliedBy(c) # {} PROVE l \notin Watch[c]
  <2>1. CASE InCall(c)
    <3>1. d = c
      BY <2>1 DEF InCall
    <3> QED BY <1>0, <1>4, <3>1
  <2>2. CASE ~InCall(c)
    <3>1. Cardinality(Heard(c)) >= Limit(c) /\ ForcesRest(c, Heard(c), assigns)
      BY <1>5, <2>2 DEF CountsRight, Ripe, AtRest
    <3>2. Cardinality(Heard(c)) \in Nat
      BY PlainCount DEF HeardRight
    <3>3. \A m \in Watch[c] : m \in assigns \/ -m \in assigns
      BY <1>0, <3>1, <3>2 DEF ForcesRest
    <3> QED BY <3>3 DEF IsUndef, IsTrue, IsFalse
  <2> QED BY <2>1, <2>2
<1>6. Counted(c)'
  BY <1>1, <1>2 DEF CountsRight, Counted
<1>7. InOrder(c)'
  <2> SUFFICES ASSUME InCall(c) PROVE InOrder(c)'
    BY <1>2 DEF InOrder
  <2>1. pc' = pc /\ enq # <<>> /\ l = Head(enq) /\ enq' = Tail(enq)
    BY DEF InCall
  <2>2. /\ enq \in Seq(Lit) /\ ret \in BOOLEAN
        /\ \A a \in DOMAIN enq : -enq[a] \in Watch[c] /\ IsUndef(enq[a])
        /\ \A a, b \in DOMAIN enq : enq[a] = enq[b] => a = b
        /\ enq # <<>> => Cardinality(Heard(c)) >= Limit(c)
        /\ ret => ForcesRest(c, Heard(c), assigns \cup {enq[a] : a \in DOMAIN enq})
        /\ ~ret => Cardinality(Heard(c)) > Limit(c)
        /\ pc = "called" => enqueue_failure = lit_Undef
    BY DEF CountsRight, InOrder
  <2>3. /\ enq' \in Seq(Lit) /\ DOMAIN enq = 1..Len(enq) /\ DOMAIN enq' = 1..(Len(enq) - 1) /\ Len(enq) \in Nat
        /\ Len(enq) >= 1 /\ l = enq[1] /\ \A a \in DOMAIN enq' : enq'[a] = enq[a + 1]
    BY <2>1, <2>2
  <2>4. \A a \in DOMAIN enq' : a + 1 \in DOMAIN enq /\ a + 1 # 1
    BY <2>3
  <2>5. \A a \in DOMAIN enq : a = 1 \/ (a - 1 \in DOMAIN enq' /\ (a - 1) + 1 = a)
    BY <2>3
  <2>6. assigns' \cup {enq'[a] : a \in DOMAIN enq'} = assigns \cup {enq[a] : a \in DOMAIN enq}
    BY <1>1, <2>3, <2>4, <2>5
  <2>7. \A a \in DOMAIN enq' : enq'[a] # l /\ -enq'[a] # l
    <3>1. \A a \in DOMAIN enq : -enq[a] \in Watch[c]
      BY <2>2
    <3>2. 1 \in DOMAIN enq /\ -l \in Watch[c] /\ l \in Lit
      BY <2>2, <2>3
    <3>3. \A a \in DOMAIN enq' : enq'[a] # l
      BY <2>2, <2>3, <2>4, <3>2
    <3>4. \A a \in DOMAIN enq' : -enq'[a] \in Watch[c]
      BY <2>3, <2>4, <3>1
    <3>5. l \notin Watch[c]
      BY <1>0, <1>4, <3>2 DEF InCall
    <3> QED BY <3>3, <3>4, <3>5
  <2>8. \A a \in DOMAIN enq' : -enq'[a] \in Watch[c] /\ IsUndef(enq[a])'
    <3> SUFFICES ASSUME NEW a \in DOMAIN enq' PROVE -enq'[a] \in Watch[c] /\ IsUndef(enq[a])'
      OBVIOUS
    <3>1. -enq'[a] \in Watch[c] /\ IsUndef(enq'[a])
      BY <2>2, <2>3, <2>4
    <3> QED BY <1>1, <2>7, <3>1 DEF IsUndef, IsTrue, IsFalse
  <2>9. \A a, b \in DOMAIN enq' : enq'[a] = enq'[b] => a = b
    BY <2>2, <2>3, <2>4
  <2>10. ret => ForcesRest(c, Heard(c), assigns \cup {enq[a] : a \in DOMAIN enq})'
    BY <1>1, <2>2, <2>6 DEF ForcesRest
  <2> QED BY <1>1, <2>1, <2>2, <2>3, <2>8, <2>9, <2>10 DEF InOrder
<1>8. Overfull(c)'
  BY DEF Overfull, Lively
<1>9. Forced(c)'
  <2> SUFFICES ASSUME NEW i \in ImpliedBy(c)'
               PROVE  /\ -trail'[i] \in Watch[c]
                      /\ \A j \in DOMAIN trail' : j > i => trail'[j] \notin Watch[c]
                      /\ Cardinality(Watch[c] \cap Before(i - 1)') >= Limit(c)
    BY <1>1 DEF Forced
  <2>1. CASE i \in ImpliedBy(c)
    <3>1. i \in 1..n /\ i - 1 \in 0..n
      BY <1>0, <2>1 DEF ImpliedBy
    <3>2. /\ -trail[i] \in Watch[c] /\ \A j \in DOMAIN trail : j > i => trail[j] \notin Watch[c]
          /\ Cardinality(Watch[c] \cap Before(i - 1)) >= Limit(c)
      BY <2>1 DEF CountsRight, Forced
    <3>3. \A j \in DOMAIN trail' : j \in DOMAIN trail \/ j = n + 1
      BY <1>0
    <3>4. \A j \in DOMAIN trail' : j > i => trail'[j] \notin Watch[c]
      BY <1>0, <1>5, <2>1, <3>2, <3>3
    <3> QED BY <1>0, <1>1, <3>1, <3>2, <3>4
  <2>2. CASE i \notin ImpliedBy(c)
    <3>1. d = c /\ i = n + 1 /\ i - 1 = n /\ n \in 0..n
      BY <1>0, <1>3, <2>2
    <3>2. -l \in Watch[c] /\ Cardinality(Watch[c] \cap Before(i - 1)') >= Limit(c)
      BY <1>1, <1>4, <3>1
    <3> QED BY <1>0, <3>1, <3>2
  <2> QED BY <2>1, <2>2
<1>10. Ripe(c)'
  <2>1. ImpliedBy(c)' # {} => ImpliedBy(c) # {} \/ d = c
    BY <1>3
  <2> QED BY <1>1, <1>4, <2>1 DEF CountsRight, Ripe
<1>11. AtRest(c)'
  BY <1>1, <1>2 DEF CountsRight, AtRest, ForcesRest
<1>12. AtDecisions(c)'
  <2> SUFFICES ASSUME NEW k \in DOMAIN trail_lim'
               PROVE  ForcesRest(c, Watch[c] \cap Before(trail_lim[k])', Before(trail_lim[k])')
    BY <1>1 DEF AtDecisions, ForcesRest
  <2>1. trail_lim \in Seq(Nat) /\ pc # "cancel" /\ \A j \in DOMAIN trail_lim : trail_lim[j] \in 0..n
    BY <1>0 DEF Base, TypeOK, Levels, Lively
  <2>2. CASE k \in DOMAIN trail_lim /\ trail_lim'[k] = trail_lim[k]
    <3>1. ForcesRest(c, Watch[c] \cap Before(trail_lim[k]), Before(trail_lim[k]))
      BY <2>1, <2>2 DEF CountsRight, AtDecisions
    <3> QED BY <1>1, <2>1, <2>2, <3>1
  <2>3. CASE Fixpoint /\ trail_lim'[k] = n
    <3>1. ForcesRest(c, Watch[c] \cap Before(n), Before(n))
      BY <1>0, <2>3, FixpointCloses
    <3>2. n \in 0..n
      BY <1>0
    <3> QED BY <1>1, <2>3, <3>1, <3>2
  <2>4. \/ k \in DOMAIN trail_lim /\ trail_lim'[k] = trail_lim[k]
        \/ Fixpoint /\ trail_lim'[k] = n
    BY SMTT(30), <2>1
  <2> QED BY <2>2, <2>3, <2>4
<1> QED BY <1>6, <1>7, <1>8, <1>9, <1>10, <1>11, <1>12 DEF CountsRight

\* A trail entry is forgotten, by analyze or by cancelUntil.
LEMMA UndoCounts ==
  ASSUME Base, Calls, NEW c \in Plain, c \in Added, CountsRight(c), HeardRight(c),
         NEW i \in DOMAIN trail, UndoEntry(i), EForget(i), pc \in {"analyze", "cancel"},
         UNCHANGED <<nc_reason, enqueue_failure, enq, ret, confl, ok, nconstr, trail_lim, pc, target>>,
         \/ trail' = trail
         \/ /\ pc = "cancel" /\ trail' = SubSeq(trail, 1, Len(trail) - 1)
            /\ Len(trail) > trail_lim[target + 1]
  PROVE  CountsRight(c)'
<1> DEFINE p == trail[i]
           n == Len(trail)
<1>0. /\ TypeOK /\ TrailOK /\ n \in Nat /\ DOMAIN trail = 1..n /\ trail \in Seq(Lit)
      /\ c \in Constr /\ Limit(c) \in Int /\ Problem[c].kind = "AtMost" /\ p \in Lit /\ p \in assigns
  <2>1. TypeOK /\ TrailOK
    BY DEF Base
  <2>2. n \in Nat /\ DOMAIN trail = 1..n /\ trail \in Seq(Lit) /\ p \in Lit /\ p \in assigns
    BY <2>1 DEF TypeOK, TrailOK
  <2> QED BY <2>1, <2>2, PlainWatch
<1>1. Heard(c)' = Heard(c) \ {p} /\ Limit(c)' = Limit(c)
  <2>1. \A l \in Lit : told'[c][l] = IF l = p THEN 0 ELSE told[c][l]
    BY <1>0, CallsAfterUndo
  <2> QED BY <2>1 DEF Heard, Limit
<1>2. undo[VarOf(p)][c] = IF p \in Heard(c) THEN 1 ELSE 0
  <2>1. VarOf(p) \in Var /\ -p \in Lit /\ (VarOf(p) = p \/ VarOf(p) = -p) /\ -(-p) = p
    BY <1>0, VarOfLit DEF VarOf, Lit
  <2>2. -p \notin assigns
    <3> SUFFICES ASSUME -p \in assigns PROVE FALSE
      OBVIOUS
    <3>1. PICK j \in DOMAIN trail : trail[j] = -p
      BY DEF Base, TrailOK
    <3>2. VarOf(-p) = VarOf(p) /\ -p # p
      BY <1>0, VarOfLit DEF Lit, VarOf
    <3>3. i = j
      BY <3>1, <3>2 DEF Base, TrailOK
    <3> QED BY <3>1, <3>2, <3>3
  <2>3. told[c][-p] = 0
    BY <1>0, <2>1, <2>2 DEF Calls, ToldRight
  <2>4. told[c][p] = IF Knows(c, i) THEN 1 ELSE 0
    BY <1>0 DEF Calls, ToldRight
  <2>5. undo[VarOf(p)][c] = told[c][VarOf(p)] + told[c][-VarOf(p)]
    BY <1>0, <2>1 DEF Calls, UndoRight
  <2>6. undo[VarOf(p)][c] = told[c][p]
    BY <2>1, <2>3, <2>4, <2>5
  <2> QED BY <1>0, <2>4, <2>6 DEF Heard
<1>3. cs'[c] = IF p \in Heard(c) THEN UndoneOf(Problem[c], cs[c], p) ELSE cs[c]
  BY <1>0, <1>2 DEF EForget
<1>4. Counted(c)'
  <2>1. /\ cs[c] \in [n_true : Int]
        /\ ok => cs[c].n_true = Cardinality(Heard(c))
    BY DEF CountsRight, Counted
  <2>2. UndoneOf(Problem[c], cs[c], p) = [n_true |-> cs[c].n_true - 1]
    <3>1. UndoneOf(Problem[c], cs[c], p) = AM!Undone(Problem[c], cs[c], p)
      BY <1>0 DEF UndoneOf
    <3> QED BY <2>1, <3>1 DEF AM!Undone
  <2>3. IsFiniteSet(Heard(c)) /\ Cardinality(Heard(c)) \in Nat
    BY PlainCount DEF HeardRight
  <2>4. CASE p \in Heard(c)
    <3>1. Cardinality(Heard(c) \ {p}) = Cardinality(Heard(c)) - 1
      BY <2>3, <2>4, FS_RemoveElement
    <3>2. cs'[c] = [n_true |-> cs[c].n_true - 1]
      BY <1>3, <2>2, <2>4
    <3>3. cs'[c] \in [n_true : Int] /\ cs'[c].n_true = cs[c].n_true - 1
      BY <2>1, <3>2
    <3> QED BY <1>1, <2>1, <3>1, <3>3 DEF Counted
  <2>5. CASE p \notin Heard(c)
    <3>1. cs'[c] = cs[c] /\ Heard(c) \ {p} = Heard(c)
      BY <1>3, <2>5
    <3> QED BY <1>1, <2>1, <3>1 DEF Counted
  <2> QED BY <2>4, <2>5
<1>5. InOrder(c)' /\ Overfull(c)' /\ Ripe(c)' /\ AtRest(c)'
  BY DEF InOrder, Overfull, Ripe, AtRest, InCall, Lively
\* What is left of the trail is as it was.
<1>6. \E m \in 0..n : /\ Len(trail') = m /\ DOMAIN trail' = 1..m /\ \A j \in 1..m : trail'[j] = trail[j]
                      /\ \A k \in DOMAIN trail_lim : (pc = "cancel" => k <= target + 1) =>
                           trail_lim[k] \in 0..m
  <2>1. \A k \in DOMAIN trail_lim : trail_lim[k] \in Nat /\ (pc = "cancel" /\ k <= target + 1 => trail_lim[k] <= n)
    <3>1. trail_lim \in Seq(Nat)
      BY DEF Base, TypeOK
    <3>2. \A k \in DOMAIN trail_lim : trail_lim[k] \in Nat
      BY <3>1
    <3>3. \A k \in DOMAIN trail_lim : (pc = "cancel" => k <= target + 1) => trail_lim[k] <= n
      BY DEF Base, Levels
    <3> HIDE DEF n
    <3> QED BY <3>2, <3>3
  <2>2. CASE trail' = trail
    <3>1. \A k \in DOMAIN trail_lim : (pc = "cancel" => k <= target + 1) => trail_lim[k] \in 0..n
      BY <1>0, <2>1 DEF Base, Levels
    <3>2. Len(trail') = n /\ DOMAIN trail' = 1..n /\ \A j \in 1..n : trail'[j] = trail[j]
      BY <1>0, <2>2
    <3>3. n \in 0..n
      BY <1>0
    <3> HIDE DEF n
    <3> QED BY <3>1, <3>2, <3>3
  <2>3. CASE pc = "cancel" /\ trail' = SubSeq(trail, 1, n - 1) /\ n > trail_lim[target + 1]
    <3>1. target + 1 \in DOMAIN trail_lim
      BY <1>0, <2>3, CancelPosition DEF Base
    <3>2. \A k \in DOMAIN trail_lim : k <= target + 1 => trail_lim[k] <= trail_lim[target + 1]
      BY <3>1 DEF Base, Levels
    <3>3. n >= 1 /\ Len(trail') = n - 1 /\ DOMAIN trail' = 1..(n - 1) /\ \A j \in 1..(n - 1) : trail'[j] = trail[j]
      <4>1. trail_lim[target + 1] \in Nat /\ n > trail_lim[target + 1]
        BY <2>1, <2>3, <3>1
      <4>2. n >= 1 /\ n - 1 \in Nat /\ n - 1 <= n
        BY <1>0, <4>1
      <4>3. \A b \in Nat : b <= n => /\ Len(SubSeq(trail, 1, b)) = b /\ DOMAIN SubSeq(trail, 1, b) = 1..b
                                    /\ \A j \in 1..b : SubSeq(trail, 1, b)[j] = trail[j]
        BY <1>0
      <4> QED BY <2>3, <4>2, <4>3
    <3>4. \A k \in DOMAIN trail_lim : k <= target + 1 => trail_lim[k] \in 0..(n - 1)
      <4>1. trail_lim[target + 1] \in Nat /\ n > trail_lim[target + 1]
        BY <2>1, <2>3, <3>1
      <4> SUFFICES ASSUME NEW k \in DOMAIN trail_lim, k <= target + 1 PROVE trail_lim[k] \in 0..(n - 1)
        OBVIOUS
      <4>2. trail_lim[k] \in Nat /\ trail_lim[k] <= trail_lim[target + 1]
        BY <2>1, <3>2
      <4> QED BY <1>0, <4>1, <4>2
    <3>5. n - 1 \in 0..n
      BY <1>0, <3>3
    <3> QED BY <2>3, <3>3, <3>4, <3>5
  <2> QED BY <2>2, <2>3
<1>7. PICK m \in 0..n : /\ Len(trail') = m /\ DOMAIN trail' = 1..m /\ \A j \in 1..m : trail'[j] = trail[j]
                        /\ \A k \in DOMAIN trail_lim : (pc = "cancel" => k <= target + 1) =>
                             trail_lim[k] \in 0..m
  BY <1>6
<1>8. \A j \in 0..m : Before(j)' = Before(j)
  <2>1. \A j \in 0..m : \A a \in 1..j : a \in 1..m
    BY <1>0
  <2> QED BY <1>7, <2>1 DEF Before
<1>9. Forced(c)'
  <2>1. ImpliedBy(c)' = ImpliedBy(c) \cap 1..m
    BY <1>0, <1>7 DEF ImpliedBy
  <2>2. \A j \in 1..m : j \in DOMAIN trail /\ j - 1 \in 0..m
    BY <1>0
  <2> SUFFICES ASSUME NEW j \in ImpliedBy(c)'
               PROVE  /\ -trail'[j] \in Watch[c]
                      /\ \A b \in DOMAIN trail' : b > j => trail'[b] \notin Watch[c]
                      /\ Cardinality(Watch[c] \cap Before(j - 1)') >= Limit(c)
    BY <1>1 DEF Forced
  <2>3. /\ -trail[j] \in Watch[c] /\ \A b \in DOMAIN trail : b > j => trail[b] \notin Watch[c]
        /\ Cardinality(Watch[c] \cap Before(j - 1)) >= Limit(c)
    BY <2>1 DEF CountsRight, Forced
  <2> QED BY <1>7, <1>8, <2>1, <2>2, <2>3
<1>10. AtDecisions(c)'
  BY <1>1, <1>7, <1>8 DEF CountsRight, AtDecisions, ForcesRest
<1> QED BY <1>4, <1>5, <1>9, <1>10 DEF CountsRight

\* cancelUntil is done: what was settled at the decision undone is the case.
LEMMA CancelDoneCounts ==
  ASSUME Base, NEW c \in Plain, c \in Added, CountsRight(c), HeardRight(c), HeardRight(c)', Base',
         ECancelDone
  PROVE  CountsRight(c)'
<1> DEFINE n == Len(trail)
<1>0. /\ pc = "cancel" /\ n = trail_lim[target + 1] /\ pc' \in {"ready", "learn"}
      /\ trail_lim' = SubSeq(trail_lim, 1, target) /\ qhead' = n
      /\ UNCHANGED <<ok, trail, assigns, told, cs, nc_reason, enqueue_failure, nconstr, enq, ret>>
      /\ confl' = 0
  BY DEF ECancelDone, CancelDone
<1>1. /\ Heard(c)' = Heard(c) /\ Limit(c)' = Limit(c) /\ ImpliedBy(c)' = ImpliedBy(c)
      /\ \A m : Before(m)' = Before(m)
  BY <1>0 DEF Heard, Limit, ImpliedBy, Before
<1>2. /\ target \in Nat /\ target < Len(trail_lim) /\ target + 1 \in DOMAIN trail_lim /\ trail_lim \in Seq(Nat)
      /\ n \in Nat /\ DOMAIN trail = 1..n /\ c \in Constr /\ c # 0 /\ ok
  <2>1. TypeOK /\ Backtrack /\ ok
    BY <1>0 DEF Base, Queue
  <2>2. target \in Nat /\ target < Len(trail_lim) /\ target + 1 \in DOMAIN trail_lim
    BY <1>0, <2>1, CancelPosition DEF decisionLevel
  <2>3. trail_lim \in Seq(Nat) /\ n \in Nat /\ DOMAIN trail = 1..n
    BY <2>1 DEF TypeOK
  <2>4. c \in Constr /\ c # 0
    BY PlainWatch DEF Constr
  <2> QED BY <2>1, <2>2, <2>3, <2>4
<1>3. Heard(c) = Watch[c] \cap assigns
  BY <1>0, <1>1, <1>2 DEF HeardRight, Added
<1>4. Before(n) = assigns
  BY <1>2 DEF Before, Base, TrailOK
<1>5. ForcesRest(c, Heard(c), assigns)
  <2>1. ForcesRest(c, Watch[c] \cap Before(trail_lim[target + 1]), Before(trail_lim[target + 1]))
    BY <1>0, <1>2 DEF CountsRight, AtDecisions
  <2> QED BY <1>0, <1>3, <1>4, <2>1
<1>6. ~InCall(c)' /\ pc' \notin {"init", "called", "drain", "conflict", "cancel"}
  BY <1>0 DEF InCall
<1>7. Counted(c)'
  BY <1>0, <1>1, <1>6 DEF CountsRight, Counted, InCall
<1>8. InOrder(c)' /\ Overfull(c)' /\ AtRest(c)'
  BY <1>0, <1>1, <1>5, <1>6 DEF InOrder, Overfull, AtRest, ForcesRest
<1>9. Forced(c)'
  BY <1>0, <1>1 DEF CountsRight, Forced
<1>10. Ripe(c)'
  <2> SUFFICES ASSUME NEW i \in ImpliedBy(c) PROVE Cardinality(Heard(c)) >= Limit(c)
    BY <1>1 DEF Ripe
  <2>1. Cardinality(Watch[c] \cap Before(i - 1)) >= Limit(c) /\ i \in 1..n
    BY <1>2 DEF CountsRight, Forced, ImpliedBy
  <2>2. Before(i - 1) \subseteq Before(n)
    BY <1>2, <2>1 DEF Before
  <2>3. Watch[c] \cap Before(i - 1) \in SUBSET Heard(c) /\ Heard(c) \subseteq Watch[c]
    BY <1>3, <1>4, <2>2
  <2> QED BY <2>1, <2>3, PlainCount
<1>11. AtDecisions(c)'
  <2>1. \A k \in DOMAIN trail_lim' : k \in DOMAIN trail_lim /\ trail_lim'[k] = trail_lim[k] /\ k <= target + 1
    BY <1>0, <1>2
  <2> SUFFICES ASSUME NEW k \in DOMAIN trail_lim'
               PROVE  ForcesRest(c, Watch[c] \cap Before(trail_lim'[k]), Before(trail_lim'[k]))
    BY <1>1 DEF AtDecisions, ForcesRest
  <2>2. ForcesRest(c, Watch[c] \cap Before(trail_lim[k]), Before(trail_lim[k]))
    BY <1>0, <2>1 DEF CountsRight, AtDecisions
  <2> QED BY <2>1, <2>2
<1> QED BY <1>7, <1>8, <1>9, <1>10, <1>11 DEF CountsRight

\* Another constraint is called or added.
LEMMA OtherCounts ==
  ASSUME NEW c \in Plain, CountsRight(c), ok, pc \in {"ready", "constr"}, pc' \in {"init", "called"},
         ~InCall(c)', UNCHANGED <<ok, trail, assigns, trail_lim, nc_reason>>,
         told'[c] = told[c], cs'[c] = cs[c]
  PROVE  CountsRight(c)'
<1>1. /\ Heard(c)' = Heard(c) /\ Limit(c)' = Limit(c) /\ ImpliedBy(c)' = ImpliedBy(c)
      /\ \A m : Before(m)' = Before(m)
  BY DEF Heard, Limit, ImpliedBy, Before
<1>2. ~InCall(c) /\ pc \in Lively
  BY DEF InCall, Lively
<1>3. Counted(c)' /\ InOrder(c)' /\ Overfull(c)'
  BY <1>1, <1>2 DEF CountsRight, Counted, InOrder, Overfull
<1>4. Forced(c)'
  BY <1>1 DEF CountsRight, Forced
<1>5. Ripe(c)' /\ AtRest(c)'
  BY <1>1, <1>2 DEF CountsRight, Ripe, AtRest, ForcesRest
<1>6. AtDecisions(c)'
  BY <1>1 DEF CountsRight, AtDecisions, ForcesRest
<1> QED BY <1>3, <1>4, <1>5, <1>6 DEF CountsRight

\* A constraint is called for the literal that is worked on.
LEMMA CallCounts ==
  ASSUME Base, Base', Calls, CallsInOrder, NEW c \in Plain, c \in Added, CountsRight(c), HeardRight(c),
         NEW e \in Constr, ECall(e)
  PROVE  CountsRight(c)'
<1> DEFINE p == trail[at]
<1>0. /\ pc = "constr" /\ e \in todo /\ todo' = todo \ {e} /\ pc' = "called" /\ ok
      /\ (\A d \in todo : e <= d) /\ told' = [told EXCEPT ![e][p] = @ + 1]
      /\ UNCHANGED <<ok, nconstr, assigns, trail, trail_lim, at, nc_reason, confl>>
      /\ e \in Watchers(p) /\ at \in DOMAIN trail /\ p \in Lit /\ p \in Watch[e]
      /\ todo \subseteq Constr /\ told \in [Constr -> [Lit -> Int]] /\ pend[e] \in Int
  <2>1. TypeOK /\ Queue /\ TrailOK
    BY DEF Base
  <2>2. /\ pc = "constr" /\ e \in todo /\ todo' = todo \ {e} /\ pc' = "called"
        /\ (\A d \in todo : e <= d) /\ told' = [told EXCEPT ![e][p] = @ + 1]
        /\ UNCHANGED <<ok, nconstr, assigns, trail, trail_lim, at, nc_reason, confl>>
    BY DEF ECall, Call, Leave
  <2>3. ok /\ e \in Watchers(p) /\ at \in DOMAIN trail
    BY <2>1, <2>2 DEF Queue, TypeOK
  <2>4. p \in Lit /\ p \in Watch[e] /\ todo \subseteq Constr /\ told \in [Constr -> [Lit -> Int]]
        /\ pend[e] \in Int
    BY <2>1, <2>3 DEF TypeOK, Watchers
  <2> QED BY <2>2, <2>3, <2>4
<1>1. Running' = e
  <2>1. Watchers(trail[at])' = Watchers(p)
    BY <1>0 DEF Watchers, Added
  <2>2. TypeOK' => LastIsRunning'
    BY LastCalled, PTL
  <2>3. e \in Watchers(p) \ todo' /\ \A d \in Watchers(p) \ todo' : d <= e
    <3> SUFFICES ASSUME NEW d \in Watchers(p), d \notin todo' PROVE d <= e
      BY <1>0
    <3>1. d \in Nat /\ e \in Nat
      BY TrailAssumption DEF Watchers, Added, Constr, Base, TypeOK
    <3>2. d = e \/ d \notin todo
      BY <1>0
    <3>3. d \notin todo => d < e
      BY <1>0 DEF CallsInOrder
    <3> QED BY <3>1, <3>2, <3>3
  <2>4. (Watchers(trail[at]) \ todo)' = Watchers(p) \ todo'
    BY <2>1
  <2>5. LastIsRunning'
    BY <2>2 DEF Base
  <2>6. e \in (Watchers(trail[at]) \ todo)' /\ \A d \in (Watchers(trail[at]) \ todo)' : d <= e
    BY <2>3, <2>4
  <2> QED BY <1>0, <2>5, <2>6 DEF LastIsRunning
<1>2. CASE c # e
  <2>1. told'[c] = told[c]
    BY <1>0, <1>2, PlainWatch
  <2>2. cs'[c] = cs[c]
    BY <1>2, PlainWatch DEF ECall, Leave, CallsInOrder
  <2>3. ~InCall(c)'
    BY <1>1, <1>2 DEF InCall
  <2> QED BY <1>0, <2>1, <2>2, <2>3, OtherCounts
<1>3. CASE c = e
  <2> DEFINE S == Heard(c)
             r == Run(cs[c], pend[c] - 1, lit_Undef)
             q == Propagated(Problem[c], r, p)
  <2>1. cs'[c] = q.s /\ enq' = q.enq /\ ret' = q.good /\ enqueue_failure' = q.failure
    BY <1>3 DEF ECall, Leave, CallsInOrder
  <2>2. cs[c] \in [n_true : Int] /\ cs[c].n_true = Cardinality(S)
    BY <1>0 DEF CountsRight, Counted
  <2>3. Orders(c, r) /\ r.good /\ r.s = cs[c] /\ r.enq = <<>> /\ r.failure = lit_Undef
    <3>1. r = [s |-> cs[c], A |-> assigns, enq |-> <<>>, failure |-> lit_Undef, good |-> TRUE,
               calls |-> 0, pending |-> pend[c] - 1]
      BY DEF Run
    <3>2. assigns \in SUBSET Lit
      BY DEF Base, TypeOK
    <3> HIDE DEF r
    <3>3. r \in AtMostRuns
      BY <1>0, <1>3, <2>2, <3>1, <3>2 DEF AtMostRuns
    <3> QED BY <3>1, <3>3 DEF Orders
  <2> HIDE DEF r
  <2>4. IsFiniteSet(S) /\ Cardinality(S) \in Nat /\ S \subseteq Watch[c]
    BY PlainCount DEF HeardRight
  <2>5. p \notin S
    <3>1. told[c][p] = IF Knows(c, at) THEN 1 ELSE 0
      BY <1>0, <1>3 DEF Calls, ToldRight
    <3>2. ~Knows(c, at)
      BY <1>0, <1>3 DEF Knows, Base, TypeOK
    <3> QED BY <3>1, <3>2 DEF Heard
  <2>6. Heard(c)' = S \cup {p} /\ Limit(c)' = Limit(c) /\ ImpliedBy(c)' = ImpliedBy(c)
        /\ \A m : Before(m)' = Before(m)
    <3>1. told[c][p] = 0
      <4>1. told[c][p] = IF Knows(c, at) THEN 1 ELSE 0
        BY <1>0, <1>3 DEF Calls, ToldRight
      <4>2. ~Knows(c, at)
        BY <1>0, <1>3 DEF Knows, Base, TypeOK
      <4> QED BY <4>1, <4>2
    <3>2. told'[c] = [told[c] EXCEPT ![p] = @ + 1]
      BY <1>0, <1>3
    <3>3. \A l \in Lit : told'[c][l] = IF l = p THEN 1 ELSE told[c][l]
      BY <1>0, <1>3, <3>1, <3>2
    <3>4. Heard(c)' = S \cup {p}
      BY <1>0, <3>3 DEF Heard
    <3> QED BY <1>0, <3>4 DEF Limit, ImpliedBy, Before
  <2>7. /\ Orders(c, q) /\ q.failure = r.failure
        /\ q.s.n_true = Cardinality(S \cup {p})
        /\ q.good = (Cardinality(S \cup {p}) <= Limit(c))
        /\ q.good => ForcesRest(c, S \cup {p}, q.A)
        /\ q.enq # <<>> => r.enq # <<>> \/ Cardinality(S \cup {p}) >= Limit(c)
    <3>1. p \in Watch[c] /\ r.s.n_true = Cardinality(S)
      BY <1>0, <1>3, <2>2, <2>3
    <3>2. q = Propagated(Problem[c], r, p)
      OBVIOUS
    <3> HIDE DEF q, S, p
    <3> QED BY <2>3, <2>4, <2>5, <3>1, <3>2, CallOrders
  <2> HIDE DEF q
  <2> DEFINE S1 == S \cup {p}
  <2>8. Cardinality(S) <= Cardinality(S1) /\ Cardinality(S1) \in Nat /\ Limit(c) \in Int
    <3>1. S1 \subseteq Watch[c]
      BY <1>0, <1>3, <2>4
    <3> QED BY <3>1, PlainCount
  <2>9. /\ q \in AtMostRuns /\ q.A = assigns \cup {q.enq[a] : a \in DOMAIN q.enq}
        /\ \A a \in DOMAIN q.enq : -q.enq[a] \in Watch[c] /\ IsUndef(q.enq[a])
        /\ \A a, b \in DOMAIN q.enq : q.enq[a] = q.enq[b] => a = b
    BY <2>7 DEF Orders
  <2>10. q.s \in [n_true : Int] /\ q.good \in BOOLEAN /\ q.enq \in Seq(Lit)
    BY <2>9 DEF AtMostRuns
  <2>11. Counted(c)'
    BY <2>1, <2>6, <2>7, <2>10 DEF Counted
  <2>12. InOrder(c)'
    <3>1. \A l : IsUndef(l)' <=> IsUndef(l)
      BY <1>0 DEF IsUndef, IsTrue, IsFalse
    <3>2. q.enq # <<>> => Cardinality(S1) >= Limit(c)
      BY <2>3, <2>7
    <3>3. ~q.good => Cardinality(S1) > Limit(c)
      <4>1. ~q.good => ~(Cardinality(S1) <= Limit(c))
        BY <2>7
      <4> QED BY <2>8, <4>1
    <3> HIDE DEF S, S1
    <3>4. Heard(c)' = S1
      BY <2>6 DEF S1
    <3>5. q.good => ForcesRest(c, S1, assigns \cup {q.enq[a] : a \in DOMAIN q.enq})
      BY <2>7, <2>9 DEF S1
    <3>6. ret' => ForcesRest(c, Heard(c), assigns \cup {enq[a] : a \in DOMAIN enq})'
      BY <1>0, <2>1, <2>6, <3>4, <3>5 DEF ForcesRest
    <3> QED BY <1>0, <2>1, <2>3, <2>6, <2>7, <2>9, <2>10, <3>1, <3>2, <3>3, <3>4, <3>6 DEF InOrder
  <2>13. Overfull(c)' /\ AtRest(c)'
    BY <1>0, <1>1, <1>3 DEF Overfull, AtRest, InCall
  <2>14. Forced(c)'
    BY <1>0, <2>6 DEF CountsRight, Forced
  <2>15. Ripe(c)'
    <3>1. ImpliedBy(c) # {} => Cardinality(S) >= Limit(c)
      BY <1>0 DEF CountsRight, Ripe, Lively
    <3> QED BY <2>4, <2>6, <2>8, <3>1 DEF Ripe
  <2>16. AtDecisions(c)'
    BY <1>0, <2>6 DEF CountsRight, AtDecisions, ForcesRest
  <2> QED BY <2>11, <2>12, <2>13, <2>14, <2>15, <2>16 DEF CountsRight
<1> QED BY <1>2, <1>3

\* A constraint is added: an old one stays as it was.
LEMMA AddCountsOld ==
  ASSUME Base, CallsInOrder, NEW c \in Plain, c \in Added, CountsRight(c), EAddConstraint
  PROVE  CountsRight(c)'
<1>1. /\ pc = "ready" /\ ok /\ pc' = "init" /\ nconstr' = nconstr + 1 /\ nconstr \in Nat /\ c # nconstr + 1
      /\ UNCHANGED <<ok, trail, assigns, trail_lim, nc_reason>> /\ c \in Constr
      /\ told' = [told EXCEPT ![nconstr + 1] = [l \in Lit |-> IF l \in Watch[nconstr + 1] \cap assigns THEN 1 ELSE 0]]
  BY PlainWatch, TrailAssumption DEF EAddConstraint, AddConstraint, Leave, Fixpoint, Base, TypeOK, Added
<1>2. told'[c] = told[c]
  BY <1>1 DEF Base, TypeOK
<1>3. cs'[c] = cs[c]
  BY <1>1 DEF EAddConstraint, Leave, CallsInOrder
<1>4. ~InCall(c)'
  BY <1>1 DEF InCall, Running
<1> QED BY <1>1, <1>2, <1>3, <1>4, OtherCounts

\* ... and the new one has counted what was true.
LEMMA AddCountsNew ==
  ASSUME Base, Blamed, CallsInOrder, NEW c \in Plain, c = nconstr + 1, EAddConstraint
  PROVE  CountsRight(c)'
<1> DEFINE S == Watch[c] \cap assigns
           q == Initialize(Problem[c])
<1>1. /\ pc' = "init" /\ nconstr' = c /\ ok' = ok /\ trail_lim = <<>> /\ trail_lim' = trail_lim
      /\ UNCHANGED <<trail, assigns, nc_reason>> /\ c \in Constr
      /\ told' = [told EXCEPT ![c] = [l \in Lit |-> IF l \in S THEN 1 ELSE 0]]
      /\ cs' = [cs EXCEPT ![c] = q.s] /\ enq' = q.enq /\ ret' = q.good /\ enqueue_failure' = q.failure
  <2>1. TypeOK /\ decisionLevel = 0
    BY DEF Base, EAddConstraint, AddConstraint
  <2>2. trail_lim = <<>>
    BY <2>1 DEF TypeOK, decisionLevel
  <2> QED BY <2>2, PlainWatch DEF EAddConstraint, AddConstraint, Leave
<1>2. TypeOK /\ assigns \in SUBSET Lit /\ S \subseteq Lit /\ S \subseteq Watch[c]
  BY PlainWatch DEF Base, TypeOK
<1>3. Heard(c)' = S /\ Limit(c)' = Limit(c)
  <2>1. told'[c] = [l \in Lit |-> IF l \in S THEN 1 ELSE 0]
    BY <1>1, <1>2 DEF TypeOK
  <2> HIDE DEF S
  <2>2. \A l \in Lit : told'[c][l] = IF l \in S THEN 1 ELSE 0
    BY <2>1
  <2> QED BY <1>2, <2>2 DEF Heard, Limit
<1>4. ImpliedBy(c)' = {}
  <2>1. \A x \in Var : nc_reason[x] # c
    BY <1>2, TrailAssumption DEF Blamed, TypeOK
  <2>2. \A i \in DOMAIN trail : VarOf(trail[i]) \in Var
    BY <1>2, VarOfLit DEF TypeOK
  <2> QED BY <1>1, <2>1, <2>2 DEF ImpliedBy
<1>5. /\ Orders(c, q)
      /\ q.good => q.s.n_true = Cardinality(S) /\ ForcesRest(c, S, q.A)
      /\ ~q.good => Cardinality(S) > Limit(c)
      /\ q.enq # <<>> => Cardinality(S) >= Limit(c)
  BY <1>2, InitializeOrders
<1> HIDE DEF q, S
<1>6. /\ q \in AtMostRuns /\ q.A = assigns \cup {q.enq[a] : a \in DOMAIN q.enq}
      /\ \A a \in DOMAIN q.enq : -q.enq[a] \in Watch[c] /\ IsUndef(q.enq[a])
      /\ \A a, b \in DOMAIN q.enq : q.enq[a] = q.enq[b] => a = b
  BY <1>5 DEF Orders
<1>7. q.s \in [n_true : Int] /\ q.good \in BOOLEAN /\ q.enq \in Seq(Lit)
  BY <1>6 DEF AtMostRuns
<1>8. Running' = c /\ InCall(c)' /\ cs'[c] = q.s
  BY <1>1 DEF Running, InCall, CallsInOrder
<1>9. Counted(c)'
  BY <1>1, <1>3, <1>5, <1>7, <1>8 DEF Counted
<1>10. InOrder(c)'
  <2>1. \A l : IsUndef(l)' <=> IsUndef(l)
    BY <1>1 DEF IsUndef, IsTrue, IsFalse
  <2>2. q.good => ForcesRest(c, S, assigns \cup {q.enq[a] : a \in DOMAIN q.enq})
    BY <1>5, <1>6
  <2>3. ret' => ForcesRest(c, Heard(c), assigns \cup {enq[a] : a \in DOMAIN enq})'
    BY <1>1, <1>3, <2>2 DEF ForcesRest
  <2> QED BY <1>1, <1>3, <1>5, <1>6, <1>7, <2>1, <2>3 DEF InOrder
<1>11. Overfull(c)' /\ AtRest(c)' /\ Forced(c)' /\ Ripe(c)'
  BY <1>1, <1>4, <1>8 DEF Overfull, AtRest, Forced, Ripe
<1>12. AtDecisions(c)'
  BY <1>1 DEF AtDecisions
<1> QED BY <1>9, <1>10, <1>11, <1>12 DEF CountsRight
-----------------------------------------------------------------------------
(***************************************************************************)
(* All of it together.                                                     *)
(***************************************************************************)
AllHeard == \A c \in Constr : HeardRight(c)
AtMostRight == \A c \in Plain : c \in Added => CountsRight(c)

\* Steps that assign nothing and forget nothing.
LEMMA UnchangedCounts ==
  ASSUME Base, Blamed, CallsInOrder, NEW c \in Plain, c \in Added, CountsRight(c), HeardRight(c),
         EUnchanged
  PROVE  CountsRight(c)'
<1>0. c # 0 /\ Queue /\ TypeOK
  BY PlainWatch DEF Constr, Base
<1>1. UNCHANGED <<cs, nc_reason, enqueue_failure, enq, ret, confl>>
  BY DEF EUnchanged, engineVars
<1> USE <1>0, <1>1
<1>2. CASE AddEmpty \/ Dequeue \/ ClausesDone \/ CallsDone
  BY <1>2, QuietCounts
     DEF AddEmpty, Dequeue, ClausesDone, CallsDone, Fixpoint, Lively, InCall
<1>3. CASE DummyLevel
  BY <1>3, QuietCounts DEF DummyLevel, Fixpoint, Lively, InCall
<1>4. CASE ClauseConflict
  <2>1. confl = 0
    BY <1>4 DEF ClauseConflict, CallsInOrder, Queue
  <2> QED BY <1>4, <2>1, QuietCounts DEF ClauseConflict, Lively, InCall
<1>5. CASE Drain \/ DrainDone
  <2>1. /\ pc = "drain" /\ pc' \in {"drain", "conflict"}
        /\ UNCHANGED <<trail, assigns, told, nconstr, ok, at, trail_lim>>
    BY <1>5 DEF Drain, DrainDone
  <2>2. ~InCall(c)
    BY <2>1 DEF InCall
  <2>3. confl' = c /\ pc' \in {"drain", "conflict"} =>
           at' = at /\ ((confl = c /\ pc \in {"drain", "conflict"}) \/ (InCall(c) /\ pc = "called" /\ ~ret))
    BY <2>1
  <2>4. pc \notin Lively /\ pc' \notin Lively
    BY <2>1 DEF Lively
  <2>5. UNCHANGED <<trail, assigns, told, cs, nc_reason, nconstr, enqueue_failure>>
    BY <2>1
  <2>6. pc # "cancel" /\ pc # "init" /\ pc' \notin {"init", "called"} /\ (ok' => ok) /\ trail_lim' = trail_lim
    BY <2>1
  <2> QED BY <2>2, <2>3, <2>4, <2>5, <2>6, QuietCounts
<1>6. CASE ConflictAtRoot \/ StartAnalyze
  BY <1>6, QuietCounts DEF ConflictAtRoot, StartAnalyze, Lively, InCall
<1>7. ASSUME NEW level, StartCancel(level) \/ AnalyzeDone(level) PROVE CountsRight(c)'
  BY <1>7, QuietCounts DEF StartCancel, AnalyzeDone, Fixpoint, Lively, InCall
<1> QED BY <1>2, <1>3, <1>4, <1>5, <1>6, <1>7 DEF EUnchanged

\* Every constraint that counts goes on counting, whatever is done.
LEMMA AtMostStep ==
  ASSUME Base, Base', Calls, AllHeard, AllHeard', Blamed, CallsInOrder, AtMostRight, [EngineNext]_vars
  PROVE  AtMostRight'
<1> SUFFICES ASSUME NEW c \in Plain, (c \in Added)' PROVE CountsRight(c)'
  BY DEF AtMostRight
<1>0. /\ c # 0 /\ c \in Constr /\ Queue /\ TypeOK /\ HeardRight(c) /\ HeardRight(c)' /\ TrailOK /\ Backtrack
      /\ nconstr \in Nat
  <2>1. c \in Constr /\ Queue /\ TypeOK /\ TrailOK /\ Backtrack
    BY PlainWatch DEF Base
  <2>2. c # 0
    BY <2>1 DEF Constr
  <2>3. nconstr \in Nat
    BY <2>1, TrailAssumption DEF TypeOK
  <2> QED BY <2>1, <2>2, <2>3 DEF AllHeard
<1>1. CASE c \notin Added
  <2>1. nconstr' # nconstr
    BY <1>1 DEF Added
  <2>2. EAddConstraint
    BY <2>1 DEF EngineNext, EEnqueue, EInitialized, EReturnTrue, EReturnFalse, EAnalyzeUndo, ECancel,
       ECancelDone, ELearn, EUnchanged, ECall, EImplyByClause, EAddUnit, EDecide, vars, trailVars,
       Imply, Initialized, ReturnTrue, ReturnFalse, AnalyzeUndo, Cancel, CancelDone, Learn, Call,
       AddUnit, Decide, AddEmpty, DummyLevel, Dequeue, ClauseConflict, ClausesDone, CallsDone, Drain,
       DrainDone, ConflictAtRoot, StartAnalyze, StartCancel, AnalyzeDone
  <2>3. nconstr' = nconstr + 1
    BY <2>2 DEF EAddConstraint, AddConstraint
  <2>4. c = nconstr + 1
    BY <1>0, <1>1, <2>3 DEF Added, Constr
  <2> QED BY <2>2, <2>4, AddCountsNew
<1>2. CASE c \in Added
  <2>0. CountsRight(c)
    BY <1>2 DEF AtMostRight
  <2> USE <1>0, <1>2, <2>0
  <2>1. CASE EAddConstraint
    BY <2>1, AddCountsOld
  <2>2. ASSUME NEW e \in Constr, ECall(e) PROVE CountsRight(c)'
    BY <2>2, CallCounts
  <2>3. CASE EEnqueue
    <3>1. Imply(Head(enq)) /\ Head(enq) \in Lit
      BY <2>3 DEF EEnqueue, Imply, IsUndef
    <3>2. pc \in Lively /\ ok
      BY <2>3 DEF EEnqueue, Lively, Queue
    <3> QED BY <2>3, <3>1, <3>2, EnqueueCounts DEF EEnqueue, Imply
  <2>4. CASE EInitialized
    BY <2>4, QuietCounts DEF EInitialized, Initialized, Lively, InCall, Queue
  <2>5. CASE EReturnTrue
    BY <2>5, QuietCounts DEF EReturnTrue, ReturnTrue, engineVars, Lively, InCall
  <2>6. CASE EReturnFalse
    BY <2>6, QuietCounts DEF EReturnFalse, ReturnFalse, Lively, InCall
  <2>7. CASE EAnalyzeUndo
    <3>1. index \in DOMAIN trail
      BY <2>7 DEF EAnalyzeUndo, AnalyzeUndo, Backtrack, TypeOK, decisionLevel
    <3> QED BY <2>7, <3>1, UndoCounts DEF EAnalyzeUndo, AnalyzeUndo
  <2>8. CASE ECancel
    <3>1. Len(trail) \in DOMAIN trail
      BY <2>8, CancelPosition DEF ECancel, Cancel, TypeOK, decisionLevel
    <3> QED BY <2>8, <3>1, UndoCounts DEF ECancel, Cancel
  <2>9. CASE ECancelDone
    BY <2>9, CancelDoneCounts
  <2>10. CASE ELearn
    <3>1. learnt \in Lit /\ IsUndef(learnt) /\ ok
      BY <2>10, LearntFree DEF ELearn, Learn, Queue
    <3> QED BY <2>10, <3>1, EnqueueCounts DEF ELearn, Learn, Unconstrained, Lively
  <2>11. CASE EUnchanged
    BY <2>11, UnchangedCounts
  <2>12. ASSUME NEW l \in Lit, EImplyByClause(l) \/ EAddUnit(l) \/ EDecide(l) PROVE CountsRight(c)'
    <3>1. IsUndef(l) /\ Enqueue(l) /\ ok
      BY <2>12 DEF EImplyByClause, EAddUnit, EDecide, Imply, AddUnit, Decide, Fixpoint, Queue
    <3>2. CASE EImplyByClause(l)
      BY <3>1, <3>2, EnqueueCounts DEF EImplyByClause, Imply, Unconstrained, Lively
    <3>3. CASE EAddUnit(l) \/ EDecide(l)
      BY <3>1, <3>3, EnqueueCounts DEF EAddUnit, EDecide, AddUnit, Decide, Unconstrained, Lively, Fixpoint
    <3> QED BY <2>12, <3>2, <3>3
  <2>13. CASE UNCHANGED vars
    <3>1. /\ UNCHANGED <<trail, assigns, told, cs, nc_reason, nconstr, enqueue_failure, trail_lim, pc>>
          /\ UNCHANGED <<target, ok, enq, ret, at, todo, confl>>
      BY <2>13 DEF vars, trailVars, engineVars
    <3>2. InCall(c) => InCall(c)'
      BY <3>1, RunningStays DEF InCall
    <3>3. pc' \notin {"init", "called"} \/ (pc' = pc /\ UNCHANGED <<enq, ret, at, todo>>)
      BY <3>1
    <3>4. confl' = c /\ pc' \in {"drain", "conflict"} =>
           at' = at /\ ((confl = c /\ pc \in {"drain", "conflict"}) \/ (InCall(c) /\ pc = "called" /\ ~ret))
      BY <3>1
    <3>5. pc = "init" => pc' \in {"init", "ready"}
      BY <3>1
    <3>6. (pc' \in Lively /\ ok' => pc \in Lively) /\ (ok' => ok)
      BY <3>1
    <3>7. pc = "cancel" => pc' = "cancel" /\ target' = target
      BY <3>1
    <3>8. UNCHANGED <<trail, assigns, told, cs, nc_reason, nconstr, enqueue_failure>> /\ trail_lim' = trail_lim
      BY <3>1
    <3> QED BY <3>2, <3>3, <3>4, <3>5, <3>6, <3>7, <3>8, QuietCounts
  <2> QED BY <2>1, <2>2, <2>3, <2>4, <2>5, <2>6, <2>7, <2>8, <2>9, <2>10, <2>11, <2>12, <2>13 DEF EngineNext
<1> QED BY <1>1, <1>2

LEMMA AtMostInit == EngineInit => AtMostRight
BY DEF EngineInit, Init, AtMostRight, Added

\* n_true_ and all that hangs on it is right in every reachable state.
THEOREM EngineAtMost ==
  EngineSpec => [](Base /\ AllHeard /\ Blamed /\ CallsInOrder /\ AtMostRight)
<1>1. EngineSpec => []Base /\ []Calls
  BY EngineImplementsTrail, SpecBase, CallsInit, CallsStep, PTL DEF SafetySpec
<1>2. Base /\ Calls => AllHeard
  BY HeardIsKnown DEF AllHeard
<1>3. EngineSpec => []Blamed /\ []CallsInOrder
  BY <1>1, BlamedInit, BlamedStep, CallsInOrderInit, CallsInOrderStep, PTL DEF EngineSpec
<1>4. Base /\ Base' /\ Calls /\ AllHeard /\ AllHeard' /\ Blamed /\ CallsInOrder /\ AtMostRight
        /\ [EngineNext]_vars => AtMostRight'
  BY AtMostStep
<1> QED BY <1>1, <1>2, <1>3, <1>4, AtMostInit, PTL DEF EngineSpec
-----------------------------------------------------------------------------
(***************************************************************************)
(* What AtMost tells the solver is so.                                     *)
(***************************************************************************)
\* The meaning of a plain constraint.
LEMMA PlainSolutions ==
  ASSUME NEW c \in Plain, NEW R
  PROVE  Solutions(c, R) = {A \in TotalAssignments : Cardinality(Watch[c] \cap A) <= Limit(c) /\ R \subseteq A}
<1>1. c \in Constr /\ Problem[c].kind = "AtMost" /\ AM!Watches(Problem[c]) = Watch[c]
  BY PlainWatch DEF AM!Watches
<1>2. \A S : AM!Cardinality(S) = Cardinality(S)
  BY DEF AM!Cardinality, Cardinality
<1>3. \A A : HoldsFor(Problem[c], A) <=> AM!Holds(Problem[c], A)
  BY <1>1 DEF HoldsFor
<1>4. \A A : HoldsFor(Problem[c], A) <=> Cardinality(Watch[c] \cap A) <= Limit(c)
  BY <1>1, <1>2, <1>3 DEF AM!Holds, Limit
<1>5. Meeting[c] = {A \in TotalAssignments : Cardinality(Watch[c] \cap A) <= Limit(c)}
  BY <1>1, <1>4 DEF Meeting
<1> QED BY <1>5 DEF Solutions

\* A total assignment makes every literal true or its negation, and not both.
LEMMA TotalTakes ==
  ASSUME NEW A \in TotalAssignments
  PROVE  A \subseteq Lit /\ \A l \in Lit : l \in A <=> -l \notin A
<1>1. PICK f \in [Var -> BOOLEAN] : A = {IF f[x] THEN x ELSE -x : x \in Var}
  BY DEF TotalAssignments
<1>2. NVars \in Nat /\ \A x \in Var : x \in Int /\ x > 0 /\ x \in Lit /\ -x \in Lit
  BY TrailAssumption DEF Var, Lit
<1>3. A \subseteq Lit
  BY <1>1, <1>2
<1>4. ASSUME NEW x \in Var PROVE (x \in A <=> f[x]) /\ (-x \in A <=> ~f[x])
  <2>1. ASSUME x \in A PROVE f[x]
    <3>1. PICK y \in Var : x = IF f[y] THEN y ELSE -y
      BY <1>1, <2>1
    <3> QED BY <1>2, <3>1
  <2>2. ASSUME -x \in A PROVE ~f[x]
    <3>1. PICK y \in Var : -x = IF f[y] THEN y ELSE -y
      BY <1>1, <2>2
    <3>2. y = x
      BY <1>2, <3>1
    <3> QED BY <1>2, <3>1, <3>2
  <2>3. f[x] => x \in A
    BY <1>1
  <2>4. ~f[x] => -x \in A
    BY <1>1
  <2> QED BY <2>1, <2>2, <2>3, <2>4
<1>5. ASSUME NEW l \in Lit PROVE l \in A <=> -l \notin A
  <2>1. l \in Int /\ (l \in Var \/ -l \in Var) /\ -(-l) = l
    BY <1>2 DEF Lit, Var
  <2>2. CASE l \in Var
    BY <1>4, <2>2
  <2>3. CASE -l \in Var
    <3>1. (-l \in A <=> f[-l]) /\ (-(-l) \in A <=> ~f[-l])
      BY <1>4, <2>3
    <3> QED BY <2>1, <3>1
  <2> QED BY <2>1, <2>2, <2>3
<1> QED BY <1>3, <1>5

\* Once it is full, none of its other literals can be true.
LEMMA FullForces ==
  ASSUME NEW c \in Plain, NEW R, Cardinality(Watch[c] \cap R) >= Limit(c),
         NEW A \in Solutions(c, R), NEW l \in Watch[c], l \notin R
  PROVE  -l \in A
<1> DEFINE S == Watch[c] \cap R
           T == Watch[c] \cap A
<1>1. /\ A \in TotalAssignments /\ Cardinality(T) <= Limit(c) /\ R \subseteq A
  BY PlainSolutions
<1>2. l \in Lit /\ Limit(c) \in Int
  BY PlainWatch
<1>3. IsFiniteSet(T) /\ Cardinality(T) \in Nat /\ IsFiniteSet(S) /\ Cardinality(S) \in Nat
  BY PlainCount
<1>4. ASSUME l \in A PROVE FALSE
  <2>1. S \cup {l} \subseteq T /\ l \notin S
    BY <1>1, <1>4
  <2> HIDE DEF S, T
  <2>2. Cardinality(S \cup {l}) = Cardinality(S) + 1
    BY <1>3, <2>1, FS_AddElement
  <2>3. Cardinality(S \cup {l}) <= Cardinality(T)
    BY <1>3, <2>1, FS_Subset
  <2> QED BY <1>1, <1>2, <1>3, <2>2, <2>3 DEF S
<1> QED BY <1>1, <1>2, <1>4, TotalTakes

\* Too many of its literals are true.
LEMMA OverfullFails ==
  ASSUME NEW c \in Plain, NEW R, NEW S, S \subseteq Watch[c] \cap R, Cardinality(S) > Limit(c)
  PROVE  Solutions(c, R) = {}
<1> SUFFICES ASSUME NEW A \in Solutions(c, R) PROVE FALSE
  OBVIOUS
<1>1. Cardinality(Watch[c] \cap A) <= Limit(c) /\ R \subseteq A
  BY PlainSolutions
<1>2. Cardinality(S) <= Cardinality(Watch[c] \cap A) /\ Cardinality(S) \in Nat
      /\ Cardinality(Watch[c] \cap A) \in Nat /\ Limit(c) \in Int
  BY <1>1, PlainCount
<1> QED BY <1>1, <1>2

\* An assignment that does not overfill it can be completed.
LEMMA RoomLeft ==
  ASSUME NEW c \in Plain, NEW B, B \subseteq Lit, \A l \in B : -l \notin B,
         Cardinality(Watch[c] \cap B) <= Limit(c)
  PROVE  Solutions(c, B) # {}
<1> DEFINE f == [x \in Var |-> x \in B \/ (-x \notin B /\ x \notin Watch[c])]
           A == {IF f[x] THEN x ELSE -x : x \in Var}
<1>1. NVars \in Nat /\ \A x \in Var : x \in Int /\ x > 0
  BY TrailAssumption DEF Var
<1>2. f \in [Var -> BOOLEAN] /\ A \in TotalAssignments
  BY DEF TotalAssignments
<1>3. B \subseteq A
  <2> SUFFICES ASSUME NEW l \in B PROVE l \in A
    OBVIOUS
  <2>1. l \in Int /\ (l \in Var \/ -l \in Var) /\ -(-l) = l /\ -l \notin B
    BY <1>1 DEF Lit, Var
  <2>2. CASE l \in Var
    BY <2>2
  <2>3. CASE -l \in Var
    <3>1. ~f[-l]
      BY <2>1, <2>3
    <3> QED BY <2>1, <2>3, <3>1
  <2> QED BY <2>1, <2>2, <2>3
<1>4. Watch[c] \cap A \subseteq Watch[c] \cap B
  <2> SUFFICES ASSUME NEW l \in Watch[c], l \in A PROVE l \in B
    OBVIOUS
  <2>1. PICK x \in Var : l = IF f[x] THEN x ELSE -x
    OBVIOUS
  <2>2. -l \notin Watch[c] /\ x \in Int /\ -(-x) = x
    BY <1>1, PlainWatch
  <2> QED BY <2>1, <2>2
<1> HIDE DEF A
<1>5. Cardinality(Watch[c] \cap A) <= Cardinality(Watch[c] \cap B)
      /\ Cardinality(Watch[c] \cap A) \in Nat /\ Cardinality(Watch[c] \cap B) \in Nat /\ Limit(c) \in Int
  BY <1>4, PlainCount
<1>6. A \in Solutions(c, B)
  BY <1>2, <1>3, <1>5, PlainSolutions
<1> QED BY <1>6

\* The trail of a plain constraint's own literals and of others.
LEMMA TrailSets ==
  ASSUME TypeOK, TrailOK
  PROVE  /\ assigns \subseteq Lit /\ \A l \in assigns : -l \notin assigns
         /\ \A i \in DOMAIN trail : /\ i \in Nat /\ i >= 1 /\ trail[i] \in Lit /\ -trail[i] \notin assigns
                                    /\ Before(i - 1) \subseteq assigns /\ trail[i] \notin Before(i - 1)
                                    /\ Before(i - 1) = {trail[j] : j \in 1..(i - 1)}
<1>1. assigns = {trail[i] : i \in DOMAIN trail} /\ trail \in Seq(Lit) /\ DOMAIN trail = 1..Len(trail)
      /\ Len(trail) \in Nat /\ assigns \subseteq Lit
  BY DEF TypeOK, TrailOK
<1>2. \A l \in assigns : -l \notin assigns
  <2> SUFFICES ASSUME NEW l \in assigns, -l \in assigns PROVE FALSE
    OBVIOUS
  <2>1. PICK i \in DOMAIN trail : trail[i] = l
    BY <1>1
  <2>2. PICK j \in DOMAIN trail : trail[j] = -l
    BY <1>1
  <2>3. l \in Lit /\ VarOf(l) = VarOf(-l) /\ l # -l
    BY <1>1, TrailAssumption DEF VarOf, Lit
  <2> QED BY <2>1, <2>2, <2>3 DEF TrailOK
<1>3. ASSUME NEW i \in DOMAIN trail
      PROVE  /\ i \in Nat /\ i >= 1 /\ trail[i] \in Lit /\ -trail[i] \notin assigns
             /\ Before(i - 1) \subseteq assigns /\ trail[i] \notin Before(i - 1)
             /\ Before(i - 1) = {trail[j] : j \in 1..(i - 1)}
  <2>1. \A j \in 1..(i - 1) : j \in DOMAIN trail /\ j # i
    BY <1>1
  <2>2. \A j \in DOMAIN trail : trail[j] = trail[i] => j = i
    BY DEF TrailOK
  <2> QED BY <1>1, <1>2, <2>1, <2>2 DEF Before
<1> QED BY <1>1, <1>2, <1>3

\* A literal it implied stands in every solution with what stood before it,
\* and the reason it gives for it says so.
LEMMA PlainForces ==
  ASSUME TypeOK, TrailOK, NEW c \in Plain, CountsRight(c), NEW i \in ImpliedBy(c)
  PROVE  /\ i \in DOMAIN trail
         /\ \A A \in Solutions(c, Before(i - 1)) : trail[i] \in A
         /\ LET R == Watch[c] \cap (assigns \ {trail[i]})
            IN R \subseteq Before(i - 1) /\ \A A \in Solutions(c, R) : trail[i] \in A
<1> DEFINE l == -trail[i]
           R == Watch[c] \cap (assigns \ {trail[i]})
<1>1. /\ i \in DOMAIN trail /\ l \in Watch[c] /\ Cardinality(Watch[c] \cap Before(i - 1)) >= Limit(c)
      /\ \A j \in DOMAIN trail : j > i => trail[j] \notin Watch[c]
  BY DEF CountsRight, Forced, ImpliedBy
<1>2. /\ i \in Nat /\ trail[i] \in Lit /\ l \notin assigns /\ Before(i - 1) \subseteq assigns
      /\ trail[i] \notin Before(i - 1) /\ Before(i - 1) = {trail[j] : j \in 1..(i - 1)}
      /\ -l = trail[i]
  BY <1>1, TrailSets DEF Lit
<1>3. \A A \in Solutions(c, Before(i - 1)) : trail[i] \in A
  <2> HIDE DEF l
  <2> QED BY <1>1, <1>2, FullForces
<1>4. R \subseteq Before(i - 1)
  <2> SUFFICES ASSUME NEW m \in Watch[c], m \in assigns, m # trail[i] PROVE m \in Before(i - 1)
    OBVIOUS
  <2>1. PICK j \in DOMAIN trail : trail[j] = m
    BY DEF TrailOK
  <2>2. j \in Nat /\ j >= 1 /\ ~(j > i) /\ j # i
    BY <1>1, <2>1, TrailSets
  <2> QED BY <1>2, <2>1, <2>2
<1>5. Watch[c] \cap R = Watch[c] \cap Before(i - 1)
  BY <1>2, <1>4
<1>6. \A A \in Solutions(c, R) : trail[i] \in A
  <2>1. l \notin R /\ Cardinality(Watch[c] \cap R) >= Limit(c)
    BY <1>1, <1>2, <1>5
  <2> HIDE DEF l, R
  <2> QED BY <1>1, <1>2, <2>1, FullForces
<1> QED BY <1>1, <1>3, <1>4, <1>6

\* The reason it gives: those of its literals that are true.
LEMMA PlainReason ==
  ASSUME NEW c \in Plain, NEW s, NEW p
  PROVE  /\ ReasonOf(Problem[c], s, p, lit_Undef) = Watch[c] \cap (assigns \ {p})
         /\ InSyncOf(Problem[c], s, KnownTo(c)) <=> s.n_true = Cardinality(Watch[c] \cap KnownTo(c))
         /\ \A A : PresumesOf(Problem[c], A)
<1>1. Problem[c].kind = "AtMost" /\ AM!Watches(Problem[c]) = Watch[c]
  BY PlainWatch DEF AM!Watches
<1>2. ReasonOf(Problem[c], s, p, lit_Undef) = AM!Reason(Problem[c], s, assigns, p, lit_Undef)
  BY <1>1 DEF ReasonOf
<1>3. AM!Reason(Problem[c], s, assigns, p, lit_Undef) = Watch[c] \cap (assigns \ {p})
  BY <1>1 DEF AM!Reason, lit_Undef
<1>4. InSyncOf(Problem[c], s, KnownTo(c)) <=> AM!InSync(Problem[c], s, KnownTo(c))
  BY <1>1 DEF InSyncOf
<1>5. AM!Cardinality(Watch[c] \cap KnownTo(c)) = Cardinality(Watch[c] \cap KnownTo(c))
  BY DEF AM!Cardinality, Cardinality
<1>6. AM!InSync(Problem[c], s, KnownTo(c)) <=> s.n_true = Cardinality(Watch[c] \cap KnownTo(c))
  BY <1>1, <1>5 DEF AM!InSync
<1>7. \A A : PresumesOf(Problem[c], A)
  BY <1>1 DEF PresumesOf, AM!Presumes
<1> QED BY <1>2, <1>3, <1>4, <1>6, <1>7

\* A conflict it reports has a reason that no solution meets, with a literal
\* of the current level in it.
LEMMA PlainConflict ==
  ASSUME Base, NEW c \in Plain, CountsRight(c), confl = c, pc = "conflict"
  PROVE  LET R == ReasonOf(Problem[c], cs[c], lit_Undef, enqueue_failure)
         IN /\ R \subseteq assigns /\ Solutions(c, R) = {}
            /\ decisionLevel > 0 => \E i \in (trail_lim[decisionLevel] + 1)..Len(trail) : trail[i] \in R
<1>1. /\ trail[at] \in Watch[c] /\ Cardinality(Watch[c] \cap assigns) > Limit(c) /\ enqueue_failure = lit_Undef
  BY DEF CountsRight, Overfull
<1>2. TypeOK /\ TrailOK /\ Queue /\ assigns \subseteq Lit /\ lit_Undef \notin Lit
  BY DEF Base, TypeOK, lit_Undef, Lit
<1>3. ReasonOf(Problem[c], cs[c], lit_Undef, enqueue_failure) = Watch[c] \cap assigns
  <2>1. ReasonOf(Problem[c], cs[c], lit_Undef, lit_Undef) = Watch[c] \cap (assigns \ {lit_Undef})
    BY PlainReason
  <2>2. Watch[c] \cap (assigns \ {lit_Undef}) = Watch[c] \cap assigns
    BY <1>2
  <2> QED BY <1>1, <2>1, <2>2
<1>4. Solutions(c, Watch[c] \cap assigns) = {}
  BY <1>1, OverfullFails
<1>5. ASSUME decisionLevel > 0
      PROVE  \E i \in (trail_lim[decisionLevel] + 1)..Len(trail) : trail[i] \in Watch[c] \cap assigns
  <2>1. decisionLevel \in DOMAIN trail_lim /\ trail_lim[decisionLevel] \in Nat
    BY <1>2, <1>5 DEF TypeOK, decisionLevel
  <2>2. trail_lim[decisionLevel] < at /\ at <= Len(trail) /\ at \in Nat /\ Len(trail) \in Nat
    BY <1>2, <2>1 DEF Queue, TypeOK
  <2>3. at \in DOMAIN trail /\ at \in (trail_lim[decisionLevel] + 1)..Len(trail)
    BY <1>2, <2>1, <2>2 DEF TypeOK
  <2>4. trail[at] \in assigns
    BY <1>2, <2>3 DEF TrailOK
  <2> QED BY <1>1, <2>3, <2>4
<1> QED BY <1>3, <1>4, <1>5

(***************************************************************************)
(* The theorems about a problem of plain AtMost constraints and clauses.   *)
(***************************************************************************)
AtMostOnly == Constr \subseteq Plain

\* They fail to enqueue nothing, and the one that is running does it right.
NoFailure == enqueue_failure = lit_Undef
RunsRight == pc \in {"init", "called"} => /\ Running \in Plain /\ Running \in Added
                                          /\ InOrder(Running)
CallsRight == Base /\ AllHeard /\ Blamed /\ CallsInOrder /\ AtMostRight

LEMMA RunningIsRight ==
  ASSUME AtMostOnly, CallsRight
  PROVE  RunsRight
<1> SUFFICES ASSUME pc \in {"init", "called"} PROVE Running \in Plain /\ Running \in Added /\ InOrder(Running)
  BY DEF RunsRight
<1>1. Running \in Plain /\ Running \in Added
  BY RunningIsConstr DEF CallsRight, Base, AtMostOnly
<1> QED BY <1>1 DEF CallsRight, AtMostRight, CountsRight

LEMMA NoFailureStep ==
  ASSUME AtMostOnly, Base, RunsRight', NoFailure, [EngineNext]_vars
  PROVE  NoFailure'
<1>1. CASE EAddConstraint
  <2> DEFINE c == nconstr + 1
  <2>1. c \in Plain /\ TypeOK
    BY <1>1 DEF EAddConstraint, AddConstraint, AtMostOnly, Base
  <2>2. enqueue_failure' = Initialize(Problem[c]).failure
    BY <1>1 DEF EAddConstraint, Leave
  <2> HIDE DEF c
  <2> QED BY <2>1, <2>2, InitializeOrders DEF NoFailure
<1>2. ASSUME NEW c \in Constr, ECall(c) PROVE NoFailure'
  <2>1. pc' = "called"
    BY <1>2 DEF ECall, Call
  <2>2. Running' \in Plain /\ InOrder(Running)'
    BY <2>1 DEF RunsRight
  <2>3. InCall(Running)'
    BY <2>1 DEF InCall
  <2> QED BY <2>1, <2>2, <2>3 DEF InOrder, NoFailure
<1>3. CASE ~EAddConstraint /\ ~(\E c \in Constr : ECall(c))
  BY <1>3 DEF NoFailure, EngineNext, vars, engineVars, EEnqueue, EInitialized, EReturnTrue, EReturnFalse,
     EAnalyzeUndo, ECancel, ECancelDone, ELearn, EUnchanged, EImplyByClause, EAddUnit, EDecide, Unconstrained
<1> QED BY <1>1, <1>2, <1>3

LEMMA EngineRunsRight == AtMostOnly => (EngineSpec => [](CallsRight /\ RunsRight /\ NoFailure))
<1> SUFFICES ASSUME AtMostOnly PROVE EngineSpec => [](CallsRight /\ RunsRight /\ NoFailure)
  OBVIOUS
<1>1. CallsRight => RunsRight /\ Base
  BY RunningIsRight DEF CallsRight
<1>2. Base /\ RunsRight' /\ NoFailure /\ [EngineNext]_vars => NoFailure'
  BY NoFailureStep
<1>3. EngineInit => NoFailure
  BY DEF EngineInit, NoFailure
<1>4. EngineSpec => []CallsRight
  BY EngineAtMost, PTL DEF CallsRight
<1> QED BY <1>1, <1>2, <1>3, <1>4, PTL DEF EngineSpec

\* Whoever is blamed for a literal is one of them.
LEMMA BlamedIsPlain ==
  ASSUME AtMostOnly, CallsRight, NEW i \in DOMAIN trail, nc_reason[VarOf(trail[i])] # 0
  PROVE  nc_reason[VarOf(trail[i])] \in Plain /\ nc_reason[VarOf(trail[i])] \in Added
<1> DEFINE c == nc_reason[VarOf(trail[i])]
<1>1. VarOf(trail[i]) \in Var
  BY VarOfLit DEF CallsRight, Base, TypeOK
<1>2. c \in 0..NConstr /\ c <= nconstr /\ nconstr \in 0..NConstr /\ NConstr \in Nat
  BY <1>1, TrailAssumption DEF CallsRight, Blamed, Base, TypeOK
<1> QED BY <1>2 DEF AtMostOnly, Constr, Added

\* n_true_ is the number of its literals that a constraint knows to be true.
THEOREM AtMostInSync == AtMostOnly => (EngineSpec => []StateInSync)
<1> SUFFICES ASSUME AtMostOnly PROVE EngineSpec => []StateInSync
  OBVIOUS
<1>1. CallsRight => StateInSync
  <2> SUFFICES ASSUME CallsRight, ok, pc # "init", NEW c \in Added PROVE InSyncOf(Problem[c], cs[c], KnownTo(c))
    BY DEF StateInSync
  <2>1. c \in Plain /\ c \in Constr
    BY TrailAssumption DEF AtMostOnly, CallsRight, Base, TypeOK, Added, Constr
  <2>2. cs[c].n_true = Cardinality(Heard(c))
    BY <2>1 DEF CallsRight, AtMostRight, CountsRight, Counted
  <2>3. Heard(c) = KnownTo(c) /\ Heard(c) \subseteq Watch[c]
    BY <2>1 DEF CallsRight, AllHeard, HeardRight
  <2>4. Heard(c) = Watch[c] \cap KnownTo(c)
    BY <2>3
  <2> QED BY <2>1, <2>2, <2>4, PlainReason
<1> QED BY <1>1, EngineRunsRight, PTL

\* What a constraint enqueues, it implies.
THEOREM AtMostImplies == AtMostOnly => (EngineSpec => []ImpliedFollows)
<1> SUFFICES ASSUME AtMostOnly PROVE EngineSpec => []ImpliedFollows
  OBVIOUS
<1>1. CallsRight => ImpliedFollows
  <2> SUFFICES ASSUME CallsRight, NEW i \in DOMAIN trail, nc_reason[VarOf(trail[i])] # 0
               PROVE  \A A \in Solutions(nc_reason[VarOf(trail[i])], {trail[j] : j \in 1..(i - 1)}) : trail[i] \in A
    BY DEF ImpliedFollows
  <2> DEFINE c == nc_reason[VarOf(trail[i])]
  <2>1. c \in Plain /\ c \in Added
    BY BlamedIsPlain
  <2> QED BY <2>1, PlainForces DEF CallsRight, AtMostRight, ImpliedBy, Before, Base
<1> QED BY <1>1, EngineRunsRight, PTL

\* What a constraint tells the solver is so.
THEOREM AtMostExplains == AtMostOnly => (EngineSpec => []Explained)
<1> SUFFICES ASSUME AtMostOnly PROVE EngineSpec => []Explained
  OBVIOUS
<1>1. CallsRight /\ RunsRight /\ NoFailure => Explained
  <2> SUFFICES ASSUME CallsRight, RunsRight, NoFailure PROVE Explained
    OBVIOUS
  <2>0. Base /\ TypeOK /\ TrailOK /\ Blamed
    BY DEF CallsRight, Base
  <2>1. enq \in Seq(Lit) /\ enqueue_failure \in Lit \cup {lit_Undef} /\ ret \in BOOLEAN
    <3>1. CASE pc \in {"init", "called"}
      BY <3>1 DEF RunsRight, InOrder, InCall, NoFailure
    <3>2. CASE pc \notin {"init", "called"}
      BY <3>2 DEF CallsRight, CallsInOrder, NoFailure
    <3> QED BY <3>1, <3>2
  <2>2. ASSUME pc = "init", enq = <<>>, ~ret PROVE Solutions(nconstr, assigns) = {}
    <3>1. nconstr \in Plain /\ InOrder(nconstr) /\ InCall(nconstr)
      BY <2>2 DEF RunsRight, Running, InCall
    <3>2. Cardinality(Heard(nconstr)) > Limit(nconstr)
      BY <2>2, <3>1 DEF InOrder
    <3>3. nconstr \in Constr
      BY <3>1, PlainWatch
    <3>4. Heard(nconstr) \subseteq Watch[nconstr] \cap assigns
      BY <3>3 DEF CallsRight, AllHeard, HeardRight
    <3> QED BY <3>1, <3>2, <3>4, OverfullFails
  <2>3. ASSUME pc = "analyze", index < Len(trail), nc_reason[VarOf(trail[index + 1])] # 0
        PROVE  LET p == trail[index + 1]
                   c == nc_reason[VarOf(p)]
                   R == ReasonOf(Problem[c], cs[c], p, lit_Undef)
               IN /\ R \subseteq {trail[i] : i \in 1..index}
                  /\ \A A \in Solutions(c, R) : p \in A
    <3> DEFINE i == index + 1
               p == trail[i]
               c == nc_reason[VarOf(p)]
    <3>1. i \in DOMAIN trail /\ index \in Int
      BY <2>0, <2>3 DEF TypeOK
    <3>2. c \in Plain /\ c \in Added
      BY <2>3, <3>1, BlamedIsPlain
    <3>3. CountsRight(c) /\ i \in ImpliedBy(c)
      BY <3>1, <3>2 DEF CallsRight, AtMostRight, ImpliedBy
    <3>4. ReasonOf(Problem[c], cs[c], p, lit_Undef) = Watch[c] \cap (assigns \ {p})
      BY <3>2, PlainReason
    <3>5. Before(i - 1) = {trail[j] : j \in 1..index}
      BY <3>1 DEF Before
    <3> QED BY <2>0, <3>2, <3>3, <3>4, <3>5, PlainForces
  <2>4. ASSUME pc = "conflict", confl # 0
        PROVE  LET R == ReasonOf(Problem[confl], cs[confl], lit_Undef, enqueue_failure)
               IN /\ R \subseteq assigns
                  /\ Solutions(confl, R) = {}
                  /\ decisionLevel > 0 =>
                       \E i \in (trail_lim[decisionLevel] + 1)..Len(trail) : trail[i] \in R
    <3>1. confl \in Added /\ confl \in Constr
      BY <2>0, <2>4, TrailAssumption DEF Blamed, Added, Constr, TypeOK
    <3>2. confl \in Plain /\ CountsRight(confl)
      BY <3>1 DEF AtMostOnly, CallsRight, AtMostRight
    <3> QED BY <2>0, <2>4, <3>2, PlainConflict
  <2> QED BY <2>1, <2>2, <2>3, <2>4 DEF Explained
<1> QED BY <1>1, EngineRunsRight, PTL

\* At a decision or a model every constraint can still be met, and with each
\* literal it leaves open.
THEOREM AtMostPropagates == AtMostOnly => (EngineSpec => []PropagatedFully)
<1> SUFFICES ASSUME AtMostOnly PROVE EngineSpec => []PropagatedFully
  OBVIOUS
<1>1. CallsRight => PropagatedFully
  <2> SUFFICES ASSUME CallsRight, Fixpoint, NEW c \in Added
               PROVE  /\ Solutions(c, assigns) # {}
                      /\ \A x \in Watch[c] \cup {-y : y \in Watch[c]} :
                           IsUndef(x) => Solutions(c, assigns \cup {x}) # {}
    BY DEF PropagatedFully
  <2>1. c \in Plain /\ c \in Constr
    BY TrailAssumption DEF AtMostOnly, CallsRight, Base, TypeOK, Added, Constr
  <2>2. TypeOK /\ TrailOK /\ CountsRight(c) /\ HeardRight(c)
    BY <2>1 DEF CallsRight, Base, AtMostRight, AllHeard
  <2> DEFINE S == Watch[c] \cap assigns
  <2>3. ForcesRest(c, S, assigns)
    BY <2>1, <2>2, FixpointCloses
  <2>4. Solutions(c, assigns) # {}
    BY <2>1, <2>2, <2>3, TrailSets, RoomLeft DEF ForcesRest
  <2>5. ASSUME NEW x \in Watch[c] \cup {-y : y \in Watch[c]}, IsUndef(x)
        PROVE  Solutions(c, assigns \cup {x}) # {}
    <3>1. x \in Lit /\ x \notin assigns /\ -x \notin assigns /\ -(-x) = x /\ x # -x
      BY <2>5 DEF IsUndef, IsTrue, IsFalse, Lit
    <3>2. assigns \cup {x} \subseteq Lit /\ \A l \in assigns \cup {x} : -l \notin assigns \cup {x}
      BY <2>2, <3>1, TrailSets DEF Lit
    <3>3. IsFiniteSet(S) /\ Cardinality(S) \in Nat /\ Limit(c) \in Int
      BY <2>1, PlainCount
    <3>4. Cardinality(Watch[c] \cap (assigns \cup {x})) <= Limit(c)
      <4>1. CASE x \in Watch[c]
        <5>1. Cardinality(S) < Limit(c)
          BY <2>3, <3>1, <3>3, <4>1 DEF ForcesRest
        <5>2. Watch[c] \cap (assigns \cup {x}) = S \cup {x} /\ x \notin S
          BY <3>1, <4>1
        <5> HIDE DEF S
        <5>3. Cardinality(S \cup {x}) = Cardinality(S) + 1
          BY <3>3, <5>2, FS_AddElement
        <5>4. Cardinality(S) + 1 <= Limit(c)
          BY <3>3, <5>1
        <5> QED BY <5>2, <5>3, <5>4
      <4>2. CASE x \notin Watch[c]
        <5>1. Watch[c] \cap (assigns \cup {x}) = S
          BY <4>2
        <5> QED BY <2>3, <5>1 DEF ForcesRest
      <4> QED BY <4>1, <4>2
    <3> QED BY <2>1, <3>2, <3>4, RoomLeft
  <2> QED BY <2>4, <2>5
<1> QED BY <1>1, EngineRunsRight, PTL
=============================================================================
