---------------------------- MODULE SolverProofs ----------------------------
(***************************************************************************)
(* The search of Solver keeps to ConstraintEngine and so to the protocol   *)
(* of Trail, whatever clauses, constraints, assumptions and calls it is    *)
(* given; and its heap of decision variables is complete.                  *)
(***************************************************************************)
EXTENDS Solver, EngineProofs
LOCAL INSTANCE SequencesExt
LOCAL INSTANCE FiniteSetsExt

(***************************************************************************)
(* Solver implements ConstraintEngine.                                     *)
(***************************************************************************)
\* The steps of the engine that change no object of a constraint.
LEMMA EngineKeeps ==
  ASSUME UNCHANGED engineVars,
         \/ AddEmpty \/ DummyLevel \/ Dequeue \/ ClauseConflict \/ ClausesDone \/ CallsDone
         \/ Drain \/ DrainDone \/ ConflictAtRoot \/ StartAnalyze
         \/ \E l \in 0..decisionLevel : StartCancel(l) \/ AnalyzeDone(l)
  PROVE  EngineNext
BY DEF EngineNext, EUnchanged

\* cancelUntil(0), and the level analyze() finds.
LEMMA CancelLevel ==
  ASSUME TypeOK, NEW l, StartCancel(l) \/ AnalyzeDone(l)
  PROVE  l \in 0..decisionLevel
<1>1. decisionLevel \in Nat
  BY DEF TypeOK, decisionLevel
<1> QED BY <1>1 DEF StartCancel, AnalyzeDone

\* What a clause implies or a user fixes is a literal.
LEMMA ImplyByClause ==
  ASSUME NEW l, EImplyByClause(l) \/ EAddUnit(l) \/ EDecide(l)
  PROVE  EngineNext
<1>1. l \in Lit
  BY DEF EImplyByClause, EAddUnit, EDecide, Imply, AddUnit, Decide, IsUndef
<1> QED BY <1>1 DEF EngineNext

\* Each step of the search is one of the engine or leaves it alone.
LEMMA SolverStepMaps == TypeOK /\ [SolverNext]_allVars => [EngineNext]_vars
<1> SUFFICES ASSUME TypeOK, [SolverNext]_allVars PROVE [EngineNext]_vars
  OBVIOUS
<1>1. CASE SDequeue
  BY <1>1, EngineKeeps DEF SDequeue
<1>2. CASE ScanBinary
  BY <1>2, EngineKeeps, ImplyByClause DEF ScanBinary, ImplyFrom, SClauseConflict
<1>3. CASE ScanSatisfied \/ ScanMove
  BY <1>3 DEF ScanSatisfied, ScanMove
<1>4. CASE ScanUnitOrFalse
  BY <1>4, EngineKeeps, ImplyByClause DEF ScanUnitOrFalse, ImplyFrom, SClauseConflict
<1>5. CASE ScanNextList
  BY <1>5, EngineKeeps DEF ScanNextList
<1>6. CASE SEngineStep \/ SEnqueue
  BY <1>6, EngineKeeps DEF SEngineStep, SEnqueue, EngineNext
<1>7. ASSUME NEW value, Stop(value) PROVE [EngineNext]_vars
  <2>1. CASE decisionLevel = 0
    BY <1>7, <2>1 DEF Stop, vars
  <2>2. CASE decisionLevel # 0
    BY <1>7, <2>2, CancelLevel, EngineKeeps DEF Stop
  <2> QED BY <2>1, <2>2
<1>8. CASE Restart
  BY <1>8, CancelLevel, EngineKeeps DEF Restart
<1>9. CASE GiveUp \/ AssumeFailed \/ ModelFound
  BY <1>7, <1>9 DEF GiveUp, AssumeFailed, ModelFound
<1>10. CASE Simplify \/ ReduceDB \/ AdaptSolver \/ Return
  BY <1>10 DEF Simplify, ReduceDB, AdaptSolver, Return
<1>11. CASE AssumeHeld
  BY <1>11, EngineKeeps DEF AssumeHeld
<1>12. CASE Assume \/ PickBranch
  BY <1>12, ImplyByClause DEF Assume, PickBranch
<1>13. CASE SConflictAtRoot \/ SStartAnalyze
  BY <1>13, EngineKeeps DEF SConflictAtRoot, SStartAnalyze
<1>14. CASE SAnalyzeUndo \/ SCancel \/ SCancelDone \/ SLearn
  BY <1>14 DEF SAnalyzeUndo, SCancel, SCancelDone, SLearn, EngineNext
<1>15. CASE SAnalyzeDone
  BY <1>15, CancelLevel, EngineKeeps DEF SAnalyzeDone
<1>16. CASE AddRedundantClause \/ AddLongClause \/ Solve \/ EndScript
  BY <1>16 DEF AddRedundantClause, AddLongClause, Solve, EndScript
<1>17. CASE AddEmptyClause
  BY <1>17, EngineKeeps DEF AddEmptyClause
<1>18. CASE AddUnitClause
  BY <1>18, ImplyByClause DEF AddUnitClause
<1>19. CASE SAddConstraint
  BY <1>19 DEF SAddConstraint, EngineNext
<1>20. CASE Finished \/ UNCHANGED allVars
  BY <1>20 DEF Finished, allVars
<1> QED
  BY <1>1, <1>2, <1>3, <1>4, <1>5, <1>6, <1>8, <1>9, <1>10, <1>11, <1>12, <1>13, <1>14,
     <1>15, <1>16, <1>17, <1>18, <1>19, <1>20 DEF SolverNext, SearchStep

\* Every behaviour of the solver is one of the constraints at work.
THEOREM SolverImplementsEngine == SolverSpec => EngineSpec
<1>1. SolverInit => EngineInit
  BY DEF SolverInit
<1>2. EngineInit => Base
  BY EngineInitMaps, BaseInit
<1>3. Base /\ [SolverNext]_allVars => [EngineNext]_vars
  BY SolverStepMaps DEF Base
<1>4. Base /\ [EngineNext]_vars => Base'
  BY EngineStepMaps, BaseStep
<1> QED BY <1>1, <1>2, <1>3, <1>4, PTL DEF SolverSpec, EngineSpec

\* Every behaviour of the solver is one of the protocol.
THEOREM SolverImplementsTrail == SolverSpec => SafetySpec
BY SolverImplementsEngine, EngineImplementsTrail, PTL

\* So that whatever is added, assumed and learnt, pending counts are the calls
\* owed, constraints know exactly what is on the trail and forget the newest
\* first, lazy ones have done their work at every fixpoint, and the asserting
\* literal is unassigned when search() enqueues it.
THEOREM SolverKeepsProtocol ==
  SolverSpec => /\ [](PendingCountsOwed /\ FixpointSettled /\ UndoMatchesCalls)
                /\ [](LazyWorkDone /\ LearntIsUndef)
                /\ UndoIsLIFO
BY SolverImplementsTrail, SpecPendingCountsOwed, SpecFixpointSettled, SpecUndoMatchesCalls,
   SpecLazyWorkDone, SpecLearntIsUndef, SpecUndoIsLIFO, PTL
-----------------------------------------------------------------------------
(***************************************************************************)
(* The heap.                                                               *)
(***************************************************************************)
Complete == \A x \in Var : IsUndef(x) => x \in order_heap

\* Only cancelUntil() takes a value away.
LEMMA ValuesStay ==
  ASSUME TypeOK, [SolverNext]_allVars, ~SCancel
  PROVE  assigns \subseteq assigns'
<1>1. ASSUME NEW l, EAddUnit(l) \/ EDecide(l) \/ EImplyByClause(l) PROVE assigns \subseteq assigns'
  BY <1>1 DEF EAddUnit, EDecide, EImplyByClause, AddUnit, Decide, Imply, Enqueue
<1>2. ASSUME \/ UNCHANGED vars \/ UNCHANGED trailVars \/ AddEmpty \/ DummyLevel \/ Dequeue
             \/ ClauseConflict \/ ClausesDone \/ CallsDone \/ Drain \/ DrainDone
             \/ ConflictAtRoot \/ StartAnalyze \/ (\E l : StartCancel(l) \/ AnalyzeDone(l))
      PROVE  assigns \subseteq assigns'
  BY <1>2 DEF vars, trailVars, AddEmpty, DummyLevel, Dequeue, ClauseConflict, ClausesDone, CallsDone,
     Drain, DrainDone, ConflictAtRoot, StartAnalyze, StartCancel, AnalyzeDone
<1>3. ASSUME EAddConstraint \/ EEnqueue \/ EInitialized \/ EReturnTrue \/ EReturnFalse
             \/ (\E c \in Constr : ECall(c)) \/ EAnalyzeUndo \/ ECancelDone \/ ELearn
      PROVE  assigns \subseteq assigns'
  BY <1>3 DEF EAddConstraint, EEnqueue, EInitialized, EReturnTrue, EReturnFalse, ECall, EAnalyzeUndo,
     ECancelDone, ELearn, AddConstraint, Imply, Initialized, ReturnTrue, ReturnFalse, Call,
     AnalyzeUndo, CancelDone, Learn, Enqueue
<1>4. CASE SDequeue \/ ScanNextList \/ SEngineStep \/ SEnqueue
  BY <1>4, <1>2, <1>3 DEF SDequeue, ScanNextList, SEngineStep, SEnqueue
<1>5. CASE ScanBinary \/ ScanUnitOrFalse
  BY <1>5, <1>1, <1>2 DEF ScanBinary, ScanUnitOrFalse, ImplyFrom, SClauseConflict
<1>6. CASE \/ ScanSatisfied \/ ScanMove \/ Simplify \/ ReduceDB \/ AdaptSolver \/ Return
           \/ AddRedundantClause \/ AddLongClause \/ Solve \/ EndScript
  BY <1>6, <1>2 DEF ScanSatisfied, ScanMove, Simplify, ReduceDB, AdaptSolver, Return,
     AddRedundantClause, AddLongClause, Solve, EndScript
<1>7. CASE Restart \/ GiveUp \/ AssumeFailed \/ ModelFound \/ AssumeHeld
  BY <1>7, <1>2 DEF Restart, GiveUp, AssumeFailed, ModelFound, AssumeHeld, Stop
<1>8. CASE Assume \/ PickBranch \/ AddUnitClause
  BY <1>8, <1>1 DEF Assume, PickBranch, AddUnitClause
<1>9. CASE SConflictAtRoot \/ SStartAnalyze \/ SAnalyzeDone \/ AddEmptyClause
  BY <1>9, <1>2 DEF SConflictAtRoot, SStartAnalyze, SAnalyzeDone, AddEmptyClause
<1>10. CASE SAnalyzeUndo \/ SCancelDone \/ SLearn \/ SAddConstraint
  BY <1>10, <1>2, <1>3 DEF SAnalyzeUndo, SCancelDone, SLearn, SAddConstraint
<1>11. CASE Finished \/ UNCHANGED allVars
  BY <1>11, <1>2 DEF Finished, allVars
<1> QED
  BY <1>4, <1>5, <1>6, <1>7, <1>8, <1>9, <1>10, <1>11 DEF SolverNext, SearchStep

\* Steps that take no value and nothing from the heap.
LEMMA HeapStays ==
  ASSUME Complete, assigns \subseteq assigns', order_heap \subseteq order_heap'
  PROVE  Complete'
BY DEF Complete, IsUndef, IsTrue, IsFalse

\* The steps that write to the heap.
HeapStep == SCancel \/ Simplify \/ PickBranch \/ ModelFound

\* No other step does.
LEMMA HeapUntouched ==
  ASSUME [SolverNext]_allVars, ~HeapStep
  PROVE  order_heap' = order_heap
BY DEF HeapStep, SolverNext, SearchStep, allVars, solverVars, varVars, SDequeue, ScanBinary, ImplyFrom,
   SetVar, ScanSatisfied, ScanMove, ScanUnitOrFalse, ScanNextList, SEngineStep, SEnqueue, Restart,
   GiveUp, ReduceDB, AdaptSolver, AssumeHeld, Assume, AssumeFailed, Return, SConflictAtRoot,
   SStartAnalyze, SAnalyzeUndo, SAnalyzeDone, SCancelDone, SLearn, AddRedundantClause, AddEmptyClause,
   AddUnitClause, AddLongClause, SAddConstraint, Solve, EndScript, Finished

\* Every step leaves the unassigned variables in the heap.
LEMMA CompleteStep == Base /\ Complete /\ [SolverNext]_allVars => Complete'
<1> SUFFICES ASSUME Base, Complete, [SolverNext]_allVars PROVE Complete'
  OBVIOUS
<1>1. CASE SCancel
  <2>1. assigns' = assigns \ {trail[Len(trail)]} /\ order_heap' = order_heap \cup {VarOf(trail[Len(trail)])}
    BY <1>1 DEF SCancel, ECancel, Cancel
  <2>2. trail[Len(trail)] \in Lit
    BY <1>1, CancelPosition DEF SCancel, ECancel, Cancel, Base, TypeOK
  <2> SUFFICES ASSUME NEW x \in Var, IsUndef(x)' PROVE x \in order_heap'
    BY DEF Complete
  <2>3. CASE trail[Len(trail)] = x \/ trail[Len(trail)] = -x
    BY <2>1, <2>3 DEF VarOf, Var
  <2>4. CASE trail[Len(trail)] # x /\ trail[Len(trail)] # -x
    BY <2>1, <2>4 DEF Complete, IsUndef, IsTrue, IsFalse
  <2> QED BY <2>3, <2>4
<1>2. CASE Simplify
  <2>1. order_heap' = {x \in Var : IsUndef(x)} /\ assigns' = assigns
    BY <1>2 DEF Simplify, vars, trailVars
  <2> QED BY <2>1 DEF Complete, IsUndef, IsTrue, IsFalse
<1>3. CASE PickBranch
  <2>1. PICK x \in order_heap : \E l \in {x, -x} :
          EDecide(l) /\ order_heap' = {y \in order_heap : IsUndef(y)} \ {x}
    BY <1>3 DEF PickBranch
  <2>2. assigns' = assigns \cup {x} \/ assigns' = assigns \cup {-x}
    BY <2>1 DEF EDecide, Decide, Enqueue
  <2> QED BY <2>1, <2>2 DEF Complete, IsUndef, IsTrue, IsFalse
<1>4. CASE ModelFound
  <2>1. \A x \in Var : ~IsUndef(x)
    BY <1>4 DEF ModelFound, Complete
  <2>2. assigns' = assigns
    BY <1>4 DEF ModelFound, Stop, trailVars, StartCancel
  <2> QED BY <2>1, <2>2 DEF Complete, IsUndef, IsTrue, IsFalse
<1>5. CASE ~HeapStep
  BY <1>5, ValuesStay, HeapUntouched, HeapStays DEF HeapStep, Base
<1> QED BY <1>1, <1>2, <1>3, <1>4, <1>5 DEF HeapStep

\* Every unassigned variable is in the heap pickBranchLit() draws from, so
\* that a model leaves none open.
THEOREM SolverHeapComplete == SolverSpec => []HeapComplete
<1>1. SolverInit => Complete
  BY DEF SolverInit, Complete
<1>2. SolverSpec => []Base
  BY SolverImplementsTrail, SpecBase, PTL
<1>3. Complete => HeapComplete
  BY DEF Complete, HeapComplete
<1> QED BY <1>1, <1>2, <1>3, CompleteStep, PTL DEF SolverSpec
-----------------------------------------------------------------------------
(***************************************************************************)
(* The clause database and its lists of watchers, as data: what storing,   *)
(* removing and reordering clauses and moving watchers does to them.       *)
(***************************************************************************)
\* Without leaves the watchers of the other clauses, each once.
LEMMA WithoutKeeps ==
  ASSUME NEW T, NEW ws \in Seq(T), NEW S
  PROVE  /\ Without(S, ws) \in Seq(T)
         /\ \E g : Leaves(g, Without(S, ws), ws, {i \in DOMAIN ws : ws[i].cref \in S})
<1> DEFINE n == Len(ws)
           drop == {i \in DOMAIN ws : ws[i].cref \in S}
           body(f) == [i \in 0..n |-> IF i = 0 THEN <<>>
                                      ELSE IF ws[i].cref \in S THEN f[i - 1]
                                           ELSE Append(f[i - 1], ws[i])]
           kept == CHOOSE f : f = body(f)
<1>1. n \in Nat /\ DOMAIN ws = 1..n
  OBVIOUS
<1>2. PICK f \in [0..n -> Seq(T)] : Filters(f, ws, drop)
  BY FilterExists
<1>3. f = body(f)
  <2>1. ASSUME NEW i \in 0..n PROVE f[i] = body(f)[i]
    <3>1. CASE i = 0
      BY <3>1, <1>2 DEF Filters
    <3>2. CASE i # 0
      <4>1. i \in 1..n /\ i \in DOMAIN ws
        BY <1>1, <3>2
      <4> QED BY <4>1, <3>2, <1>2 DEF Filters
    <3> QED BY <3>1, <3>2
  <2> HIDE DEF n
  <2> QED BY <2>1
<1>4. kept = body(kept)
  <2> HIDE DEF body
  <2> QED BY <1>3
<1>5. Without(S, ws) = kept[n]
  BY DEF Without
<1>6. Filters(kept, ws, drop)
  <2>1. \A i \in 0..n : kept[i] = body(kept)[i]
    <3> HIDE DEF body, kept
    <3> QED BY <1>4
  <2>2. kept[0] = <<>>
    <3> HIDE DEF kept, n
    <3> QED BY <2>1, <1>1
  <2>3. ASSUME NEW i \in 1..n
        PROVE  kept[i] = IF i \in drop THEN kept[i - 1] ELSE Append(kept[i - 1], ws[i])
    <3>1. i \in 0..n /\ i # 0 /\ i \in DOMAIN ws
      BY <1>1
    <3>2. kept[i] = IF ws[i].cref \in S THEN kept[i - 1] ELSE Append(kept[i - 1], ws[i])
      <4> HIDE DEF kept, n
      <4> QED BY <2>1, <3>1
    <3> HIDE DEF kept, n
    <3> QED BY <3>1, <3>2
  <2> HIDE DEF kept, drop
  <2> QED BY <2>2, <2>3 DEF Filters
<1>7. kept[n] \in Seq(T) /\ \E g : Leaves(g, kept[n], ws, drop)
  <2> HIDE DEF kept, drop
  <2> QED BY <1>6, FilterKeeps
<1> QED BY <1>5, <1>7
-----------------------------------------------------------------------------
(***************************************************************************)
(* The clause database and the lists of watchers.                          *)
(***************************************************************************)
\* No variable occurs twice in a clause, and units are not kept as clauses.
IsClause(c) ==
  /\ c \in Seq(Lit) /\ Len(c) >= 2
  /\ \A i, j \in DOMAIN c : VarOf(c[i]) = VarOf(c[j]) => i = j

\* d holds the clauses of L and nothing else.
Holds(d, L) ==
  /\ d \in Seq(Seq(Lit))
  /\ L \subseteq DOMAIN d
  /\ \A cr \in L : IsClause(d[cr])
  /\ \A cr \in (DOMAIN d) \ L : d[cr] = <<>>

\* -l is one of the first two literals of the clause.
Watched(c, l) == c[1] = -l \/ c[2] = -l

\* The lists ws for the clauses of two literals (bin) or for the longer ones:
\* each is in the lists of the negations of its first two literals, once, and
\* in no other list; the blocker is one of its literals, and not the watched one.
WatcherOf(w, d, L, bin, l) ==
  /\ w.cref \in L /\ (Binary(d[w.cref]) <=> bin)
  /\ Watched(d[w.cref], l)
  /\ w.blocker \in ToSet(d[w.cref]) /\ w.blocker # -l

Once(s) == \A i, j \in DOMAIN s : s[i].cref = s[j].cref => i = j
Lists(s, cr) == \E i \in DOMAIN s : s[i].cref = cr

WatchersOf(ws, d, L, bin) ==
  /\ ws \in [Lit -> Seq([cref : Nat, blocker : Lit])]
  /\ \A l \in Lit : Once(ws[l]) /\ \A i \in DOMAIN ws[l] : WatcherOf(ws[l][i], d, L, bin, l)
  /\ \A cr \in L : \A l \in Lit :
       (Binary(d[cr]) <=> bin) /\ Watched(d[cr], l) => Lists(ws[l], cr)

Swap(c, a, b) == [c EXCEPT ![a] = c[b], ![b] = c[a]]

\* The negation of a literal is another literal.
LEMMA NegLit == \A l \in Lit : -l \in Lit /\ l # -l /\ \A m \in Lit : m = -l <=> l = -m
BY TrailAssumption DEF Lit

\* Two literals of a clause change places.
LEMMA SwapKeeps ==
  ASSUME NEW c, IsClause(c), NEW a \in DOMAIN c, NEW b \in DOMAIN c
  PROVE  /\ IsClause(Swap(c, a, b)) /\ Len(Swap(c, a, b)) = Len(c)
         /\ DOMAIN Swap(c, a, b) = DOMAIN c
         /\ Swap(c, a, b)[a] = c[b] /\ Swap(c, a, b)[b] = c[a]
         /\ \A i \in DOMAIN c : i # a /\ i # b => Swap(c, a, b)[i] = c[i]
         /\ ToSet(Swap(c, a, b)) = ToSet(c)
<1> DEFINE s == Swap(c, a, b)
<1>1. c \in Seq(Lit) /\ DOMAIN c = 1..Len(c) /\ Len(c) \in Nat /\ c[a] \in Lit /\ c[b] \in Lit
  BY DEF IsClause
<1>2. s \in Seq(Lit) /\ Len(s) = Len(c) /\ DOMAIN s = DOMAIN c
  BY <1>1 DEF Swap
<1>3. s[a] = c[b] /\ s[b] = c[a] /\ \A i \in DOMAIN c : i # a /\ i # b => s[i] = c[i]
  BY <1>1 DEF Swap
<1> HIDE DEF s
<1>4. \A i, j \in DOMAIN s : VarOf(s[i]) = VarOf(s[j]) => i = j
  BY <1>2, <1>3 DEF IsClause
<1>5. ToSet(s) = ToSet(c)
  <2>1. \A i \in DOMAIN c : \E j \in DOMAIN c : s[j] = c[i]
    BY <1>3
  <2>2. \A i \in DOMAIN c : \E j \in DOMAIN c : s[i] = c[j]
    BY <1>3
  <2>3. ASSUME NEW y \in ToSet(s) PROVE y \in ToSet(c)
    <3>1. PICK i \in DOMAIN c : y = s[i]
      BY <1>2, <2>3 DEF ToSet
    <3>2. PICK j \in DOMAIN c : s[i] = c[j]
      BY <2>2
    <3> QED BY <3>1, <3>2 DEF ToSet
  <2>4. ASSUME NEW y \in ToSet(c) PROVE y \in ToSet(s)
    <3>1. PICK i \in DOMAIN c : y = c[i]
      BY <2>4 DEF ToSet
    <3>2. PICK j \in DOMAIN c : s[j] = c[i]
      BY <2>1
    <3> QED BY <1>2, <3>1, <3>2 DEF ToSet
  <2> QED BY <2>3, <2>4
<1>6. IsClause(s)
  BY <1>2, <1>4 DEF IsClause
<1> QED BY <1>2, <1>3, <1>5, <1>6 DEF s

\* The order of the first two literals makes no difference, nor that of the rest.
Alike(c, d) ==
  /\ Len(c) = Len(d) /\ ToSet(c) = ToSet(d)
  /\ \A l \in Lit : Watched(c, l) <=> Watched(d, l)

\* Such a change of the clauses leaves the lists right.
LEMMA AlikeKeeps ==
  ASSUME NEW ws, NEW d, NEW L, NEW bin, WatchersOf(ws, d, L, bin),
         NEW e, \A cr \in L : Alike(e[cr], d[cr])
  PROVE  WatchersOf(ws, e, L, bin)
<1>1. \A cr \in L : Binary(e[cr]) <=> Binary(d[cr])
  BY DEF Alike, Binary
<1>2. ASSUME NEW l \in Lit, NEW w, WatcherOf(w, d, L, bin, l)
      PROVE  WatcherOf(w, e, L, bin, l)
  BY <1>1, <1>2 DEF WatcherOf, Alike
<1>3. \A cr \in L : \A l \in Lit :
        (Binary(e[cr]) <=> bin) /\ Watched(e[cr], l) => Lists(ws[l], cr)
  BY <1>1 DEF WatchersOf, Alike
<1> QED BY <1>2, <1>3 DEF WatchersOf

\* What is left of a list after some watchers are taken out.
LEMMA LeavesOnce ==
  ASSUME NEW g, NEW r, NEW s, NEW drop, Leaves(g, r, s, drop), Once(s)
  PROVE  /\ Once(r)
         /\ DOMAIN g = DOMAIN r
         /\ \A a \in DOMAIN r : g[a] \in DOMAIN s /\ g[a] \notin drop /\ r[a] = s[g[a]]
         /\ \A i \in (DOMAIN s) \ drop : Lists(r, s[i].cref)
BY DEF Leaves, Once, Lists

\* One more watcher at the end of a list.
LEMMA AppendOnce ==
  ASSUME NEW T, NEW s \in Seq(T), NEW w \in T
  PROVE  /\ \A i \in DOMAIN Append(s, w) : (i \in DOMAIN s /\ Append(s, w)[i] = s[i]) \/ Append(s, w)[i] = w
         /\ Once(s) /\ ~Lists(s, w.cref) => Once(Append(s, w))
         /\ Lists(Append(s, w), w.cref)
         /\ \A cr : Lists(s, cr) => Lists(Append(s, w), cr)
<1> DEFINE n == Len(s)
           t == Append(s, w)
<1>1. /\ n \in Nat /\ DOMAIN s = 1..n /\ DOMAIN t = 1..(n + 1) /\ t[n + 1] = w
      /\ \A i \in 1..n : t[i] = s[i]
  OBVIOUS
<1>2. \A i \in 1..(n + 1) : i \in 1..n \/ i = n + 1
  BY <1>1
<1>3. n + 1 \in 1..(n + 1) /\ \A i \in 1..n : i \in 1..(n + 1)
  BY <1>1
<1> HIDE DEF t, n
<1>4. \A i \in DOMAIN t : (i \in DOMAIN s /\ t[i] = s[i]) \/ t[i] = w
  BY <1>1, <1>2
<1>5. Once(s) /\ ~Lists(s, w.cref) => Once(t)
  BY <1>1, <1>2 DEF Once, Lists
<1>6. Lists(t, w.cref) /\ \A cr : Lists(s, cr) => Lists(t, cr)
  BY <1>1, <1>3 DEF Lists
<1> QED BY <1>4, <1>5, <1>6 DEF t

\* ca.alloc and attachClause: the lists of the new clause's length get it.
LEMMA AttachKeeps ==
  ASSUME NEW ws, NEW d, NEW L, NEW bin \in BOOLEAN, Holds(d, L), WatchersOf(ws, d, L, bin),
         NEW c, IsClause(c)
  PROVE  /\ Holds(Append(d, c), L \cup {Len(d) + 1})
         /\ WatchersOf(IF Binary(c) <=> bin THEN Attached(ws, Len(d) + 1, c) ELSE ws,
                       Append(d, c), L \cup {Len(d) + 1}, bin)
<1> DEFINE e == Append(d, c)
           cr0 == Len(d) + 1
           L1 == L \cup {cr0}
           T == [cref : Nat, blocker : Lit]
<1>1. d \in Seq(Seq(Lit)) /\ Len(d) \in Nat /\ DOMAIN d = 1..Len(d) /\ c \in Seq(Lit)
  BY DEF Holds, IsClause
<1>2. /\ e \in Seq(Seq(Lit)) /\ DOMAIN e = 1..(Len(d) + 1) /\ e[cr0] = c
      /\ \A cr \in DOMAIN d : e[cr] = d[cr]
      /\ cr0 \notin DOMAIN d /\ cr0 \in DOMAIN e /\ cr0 \in Nat
  BY <1>1
<1>3. Holds(e, L1)
  <2> HIDE DEF e, cr0
  <2>1. \A cr \in DOMAIN e : cr \in DOMAIN d \/ cr = cr0
    BY <1>1, <1>2 DEF cr0
  <2>2. \A cr \in DOMAIN d : cr \in DOMAIN e
    BY <1>1, <1>2
  <2>3. L1 \subseteq DOMAIN e
    BY <1>2, <2>2 DEF Holds
  <2>4. \A cr \in L1 : IsClause(e[cr])
    BY <1>2 DEF Holds
  <2>5. \A cr \in (DOMAIN e) \ L1 : e[cr] = <<>>
    BY <1>2, <2>1 DEF Holds
  <2> QED BY <1>2, <2>3, <2>4, <2>5 DEF Holds
<1>4. cr0 \notin L /\ \A cr \in L : e[cr] = d[cr]
  <2> HIDE DEF e, cr0
  <2> QED BY <1>2 DEF Holds
<1> HIDE DEF e, cr0
<1>w. ASSUME NEW l \in Lit, NEW i \in DOMAIN ws[l]
      PROVE  WatcherOf(ws[l][i], e, L1, bin, l) /\ ws[l][i].cref # cr0
  <2>1. WatcherOf(ws[l][i], d, L, bin, l)
    BY DEF WatchersOf
  <2> QED BY <2>1, <1>4 DEF WatcherOf
<1>x. \A l \in Lit : ~Lists(ws[l], cr0) /\ Once(ws[l]) /\ ws[l] \in Seq(T)
  BY <1>w DEF Lists, WatchersOf
<1>y. \A cr \in L : \A l \in Lit :
        (Binary(e[cr]) <=> bin) /\ Watched(e[cr], l) => Lists(ws[l], cr)
  BY <1>4 DEF WatchersOf
<1>5. CASE ~(Binary(c) <=> bin)
  <2>1. \A cr \in L1 : (Binary(e[cr]) <=> bin) => cr \in L
    BY <1>2, <1>5
  <2>2. ws \in [Lit -> Seq(T)]
    BY DEF WatchersOf
  <2>3. WatchersOf(ws, e, L1, bin)
    BY <1>w, <1>x, <1>y, <2>1, <2>2 DEF WatchersOf
  <2> QED BY <1>3, <1>5, <2>3 DEF e, cr0
<1>6. CASE Binary(c) <=> bin
  <2> DEFINE l1 == -c[1]
             l2 == -c[2]
             w1 == Watcher(cr0, c[2])
             w2 == Watcher(cr0, c[1])
             vs == Attached(ws, cr0, c)
  <2>1. /\ 1 \in DOMAIN c /\ 2 \in DOMAIN c /\ c[1] \in Lit /\ c[2] \in Lit
        /\ l1 \in Lit /\ l2 \in Lit /\ l1 # l2 /\ -l1 = c[1] /\ -l2 = c[2] /\ c[1] # c[2]
        /\ \A l \in Lit : Watched(c, l) <=> l = l1 \/ l = l2
    BY TrailAssumption DEF IsClause, Lit, Watched
  <2>2. /\ w1 \in T /\ w2 \in T
        /\ w1.cref = cr0 /\ w2.cref = cr0 /\ w1.blocker = c[2] /\ w2.blocker = c[1]
    BY <2>1, <1>2 DEF Watcher
  <2>3. vs = [l \in Lit |-> IF l = l1 THEN Append(ws[l], w1)
                            ELSE IF l = l2 THEN Append(ws[l], w2) ELSE ws[l]]
    <3>1. vs = [[ws EXCEPT ![l1] = Append(@, w1)] EXCEPT ![l2] = Append(@, w2)]
      BY DEF Attached, Push
    <3> HIDE DEF w1, w2, vs, l1, l2
    <3> QED BY <3>1, <2>1 DEF WatchersOf
  <2>4. c[1] \in ToSet(c) /\ c[2] \in ToSet(c)
    BY <2>1 DEF ToSet
  <2> HIDE DEF vs, w1, w2, l1, l2, T
  <2>5. WatcherOf(w1, e, L1, bin, l1) /\ WatcherOf(w2, e, L1, bin, l2)
    BY <1>2, <1>6, <2>1, <2>2, <2>4 DEF WatcherOf
  <2>6. ASSUME NEW l \in Lit, NEW w \in T, vs[l] = Append(ws[l], w), w.cref = cr0,
               WatcherOf(w, e, L1, bin, l)
        PROVE  /\ vs[l] \in Seq(T) /\ Once(vs[l]) /\ Lists(vs[l], cr0)
               /\ \A i \in DOMAIN vs[l] : WatcherOf(vs[l][i], e, L1, bin, l)
               /\ \A cr : Lists(ws[l], cr) => Lists(vs[l], cr)
    <3>1. ws[l] \in Seq(T) /\ Once(ws[l]) /\ ~Lists(ws[l], cr0)
      BY <1>x DEF T
    <3>2. vs[l] \in Seq(T)
      BY <2>6, <3>1
    <3>3. Once(vs[l]) /\ Lists(vs[l], cr0) /\ \A cr : Lists(ws[l], cr) => Lists(vs[l], cr)
      BY <2>6, <3>1, AppendOnce
    <3>4. \A i \in DOMAIN vs[l] : (i \in DOMAIN ws[l] /\ vs[l][i] = ws[l][i]) \/ vs[l][i] = w
      BY <2>6, <3>1, AppendOnce
    <3>5. \A i \in DOMAIN vs[l] : WatcherOf(vs[l][i], e, L1, bin, l)
      BY <1>w, <2>6, <3>4
    <3> QED BY <3>2, <3>3, <3>5
  <2>7. ASSUME NEW l \in Lit
        PROVE  /\ vs[l] \in Seq(T) /\ Once(vs[l])
               /\ \A i \in DOMAIN vs[l] : WatcherOf(vs[l][i], e, L1, bin, l)
               /\ \A cr : Lists(ws[l], cr) => Lists(vs[l], cr)
               /\ l = l1 \/ l = l2 => Lists(vs[l], cr0)
    <3>1. CASE l = l1
      BY <2>1, <2>2, <2>3, <2>5, <2>6, <3>1
    <3>2. CASE l = l2
      BY <2>1, <2>2, <2>3, <2>5, <2>6, <3>2
    <3>3. CASE l # l1 /\ l # l2
      BY <2>3, <1>w, <1>x, <3>3 DEF T
    <3> QED BY <3>1, <3>2, <3>3
  <2>8. vs \in [Lit -> Seq(T)]
    BY <2>3, <2>7
  <2>9. ASSUME NEW cr \in L1, NEW l \in Lit, Binary(e[cr]) <=> bin, Watched(e[cr], l)
        PROVE  Lists(vs[l], cr)
    BY <1>2, <1>y, <2>1, <2>7, <2>9
  <2>10. WatchersOf(vs, e, L1, bin)
    BY <2>7, <2>8, <2>9 DEF WatchersOf, T
  <2> QED BY <1>3, <1>6, <2>10 DEF vs, e, cr0
<1> QED BY <1>5, <1>6

\* removeClause, with the lists cleaned.
LEMMA RemoveKeeps ==
  ASSUME NEW ws, NEW d, NEW L, NEW bin \in BOOLEAN, Holds(d, L), WatchersOf(ws, d, L, bin), NEW S
  PROVE  /\ Holds([cr \in DOMAIN d |-> IF cr \in S THEN <<>> ELSE d[cr]], L \ S)
         /\ WatchersOf([l \in Lit |-> Without(S, ws[l])],
                       [cr \in DOMAIN d |-> IF cr \in S THEN <<>> ELSE d[cr]], L \ S, bin)
<1> DEFINE e == [cr \in DOMAIN d |-> IF cr \in S THEN <<>> ELSE d[cr]]
           vs == [l \in Lit |-> Without(S, ws[l])]
           T == [cref : Nat, blocker : Lit]
<1>1. d \in Seq(Seq(Lit)) /\ Len(d) \in Nat /\ DOMAIN d = 1..Len(d) /\ L \subseteq DOMAIN d
  BY DEF Holds
<1>2. \A cr \in DOMAIN d : e[cr] = IF cr \in S THEN <<>> ELSE d[cr]
  OBVIOUS
<1>3. e \in Seq(Seq(Lit)) /\ DOMAIN e = DOMAIN d
  <2>1. \A i \in 1..Len(d) : (IF i \in S THEN <<>> ELSE d[i]) \in Seq(Lit)
    BY <1>1
  <2>2. e = [i \in 1..Len(d) |-> IF i \in S THEN <<>> ELSE d[i]]
    BY <1>1
  <2> QED BY <1>1, <2>1, <2>2
<1> HIDE DEF e
<1>4. Holds(e, L \ S)
  BY <1>1, <1>2, <1>3 DEF Holds
<1>5. ASSUME NEW l \in Lit
      PROVE  /\ vs[l] \in Seq(T) /\ Once(vs[l])
             /\ \A i \in DOMAIN vs[l] : WatcherOf(vs[l][i], e, L \ S, bin, l)
             /\ \A cr \in L \ S : Lists(ws[l], cr) => Lists(vs[l], cr)
  <2> DEFINE drop == {i \in DOMAIN ws[l] : ws[l][i].cref \in S}
             r == Without(S, ws[l])
  <2>1. ws[l] \in Seq(T) /\ Once(ws[l])
    BY DEF WatchersOf
  <2>2. r \in Seq(T) /\ \E g : Leaves(g, r, ws[l], drop)
    BY <2>1, WithoutKeeps
  <2>3. vs[l] = r
    OBVIOUS
  <2> HIDE DEF r, vs
  <2>4. PICK g : Leaves(g, r, ws[l], drop)
    BY <2>2
  <2>5. /\ Once(r)
        /\ \A a \in DOMAIN r : g[a] \in DOMAIN ws[l] /\ g[a] \notin drop /\ r[a] = ws[l][g[a]]
        /\ \A i \in (DOMAIN ws[l]) \ drop : Lists(r, ws[l][i].cref)
    <3> HIDE DEF drop
    <3> QED BY <2>1, <2>4, LeavesOnce
  <2>6. ASSUME NEW i \in DOMAIN ws[l], ws[l][i].cref \notin S
        PROVE  WatcherOf(ws[l][i], e, L \ S, bin, l)
    <3>1. WatcherOf(ws[l][i], d, L, bin, l)
      BY DEF WatchersOf
    <3> QED BY <3>1, <2>6, <1>1, <1>2 DEF WatcherOf
  <2>7. \A a \in DOMAIN r : WatcherOf(r[a], e, L \ S, bin, l)
    BY <2>5, <2>6
  <2>8. \A cr \in L \ S : Lists(ws[l], cr) => Lists(r, cr)
    BY <2>5 DEF Lists
  <2> QED BY <2>2, <2>3, <2>5, <2>7, <2>8
<1>6. vs \in [Lit -> Seq(T)]
  BY <1>5
<1>7. ASSUME NEW cr \in L \ S, NEW l \in Lit, Binary(e[cr]) <=> bin, Watched(e[cr], l)
      PROVE  Lists(vs[l], cr)
  <2>1. e[cr] = d[cr]
    BY <1>1, <1>2
  <2>2. Lists(ws[l], cr)
    BY <1>7, <2>1 DEF WatchersOf
  <2> QED BY <1>5, <2>2
<1> HIDE DEF vs
<1>8. WatchersOf(vs, e, L \ S, bin)
  BY <1>5, <1>6, <1>7 DEF WatchersOf
<1> QED BY <1>4, <1>8 DEF e, vs

\* A watcher gets another blocker.
LEMMA BlockerKeeps ==
  ASSUME NEW ws, NEW d, NEW L, NEW bin, WatchersOf(ws, d, L, bin),
         NEW l0 \in Lit, NEW i0 \in DOMAIN ws[l0], NEW b \in Lit,
         b \in ToSet(d[ws[l0][i0].cref]), b # -l0
  PROVE  WatchersOf([ws EXCEPT ![l0][i0] = Watcher(ws[l0][i0].cref, b)], d, L, bin)
<1> DEFINE cr0 == ws[l0][i0].cref
           w == Watcher(cr0, b)
           vs == [ws EXCEPT ![l0][i0] = w]
           T == [cref : Nat, blocker : Lit]
<1>1. ws \in [Lit -> Seq(T)] /\ ws[l0] \in Seq(T)
  BY DEF WatchersOf
<1>2. ws[l0][i0] \in T /\ w \in T /\ w.cref = cr0 /\ w.blocker = b
  <2>1. ws[l0][i0] \in T
    <3> HIDE DEF T
    <3> QED BY <1>1
  <2>2. cr0 \in Nat
    BY <2>1
  <2> HIDE DEF cr0
  <2> QED BY <2>1, <2>2 DEF Watcher
<1>3. vs \in [Lit -> Seq(T)] /\ \A l \in Lit : DOMAIN vs[l] = DOMAIN ws[l]
  <2> DEFINE s0 == [ws[l0] EXCEPT ![i0] = w]
  <2>1. s0 \in Seq(T) /\ DOMAIN s0 = DOMAIN ws[l0]
    <3> HIDE DEF w, T
    <3> QED BY <1>1, <1>2
  <2>2. vs = [ws EXCEPT ![l0] = s0]
    OBVIOUS
  <2> HIDE DEF s0, T, w
  <2> QED BY <1>1, <2>1, <2>2
<1>4. vs[l0][i0] = w /\ \A l \in Lit : \A i \in DOMAIN ws[l] : l # l0 \/ i # i0 => vs[l][i] = ws[l][i]
  BY <1>1
<1>5. \A l \in Lit : \A i \in DOMAIN ws[l] : vs[l][i].cref = ws[l][i].cref
  <2> HIDE DEF vs, w
  <2> QED BY <1>2, <1>4
<1> HIDE DEF vs, w, cr0
<1>6. WatcherOf(w, d, L, bin, l0)
  <2>1. WatcherOf(ws[l0][i0], d, L, bin, l0)
    BY DEF WatchersOf
  <2> QED BY <1>2, <2>1 DEF WatcherOf, cr0
<1>7. ASSUME NEW l \in Lit, NEW i \in DOMAIN vs[l] PROVE WatcherOf(vs[l][i], d, L, bin, l)
  <2>1. i \in DOMAIN ws[l] /\ WatcherOf(ws[l][i], d, L, bin, l)
    BY <1>3 DEF WatchersOf
  <2> QED BY <1>4, <1>6, <2>1
<1>8. \A l \in Lit : Once(ws[l])
  BY DEF WatchersOf
<1>9. \A l \in Lit : Once(vs[l]) /\ \A cr : Lists(ws[l], cr) => Lists(vs[l], cr)
  BY ZenonT(40), <1>3, <1>5, <1>8 DEF Once, Lists
<1>10. \A cr \in L : \A l \in Lit : (Binary(d[cr]) <=> bin) /\ Watched(d[cr], l) => Lists(vs[l], cr)
  BY <1>9 DEF WatchersOf
<1>11. WatchersOf(vs, d, L, bin)
  BY <1>3, <1>7, <1>9, <1>10 DEF WatchersOf
<1> QED BY <1>11 DEF vs, w, cr0

\* What a list is without its entry i0.
LEMMA RemoveAtEntries ==
  ASSUME NEW T, NEW s \in Seq(T), NEW i0 \in DOMAIN s
  PROVE  /\ RemoveAt(s, i0) \in Seq(T) /\ Len(RemoveAt(s, i0)) = Len(s) - 1
         /\ \A a \in 1..(Len(s) - 1) : RemoveAt(s, i0)[a] = IF a < i0 THEN s[a] ELSE s[a + 1]
<1> DEFINE n == Len(s)
           r == RemoveAt(s, i0)
<1>1. n \in Nat /\ DOMAIN s = 1..n /\ i0 \in 1..n /\ i0 \in Nat
  OBVIOUS
<1> DEFINE u == SubSeq(s, 1, i0 - 1)
           v == SubSeq(s, i0 + 1, n)
<1>2. u \in Seq(T) /\ Len(u) = i0 - 1 /\ \A a \in 1..(i0 - 1) : u[a] = s[a]
  BY <1>1
<1>3. v \in Seq(T) /\ Len(v) = n - i0 /\ \A a \in 1..(n - i0) : v[a] = s[a + i0]
  BY <1>1
<1>4. r = u \o v
  BY DEF RemoveAt
<1> HIDE DEF r, u, v, n
<1>5. r \in Seq(T) /\ Len(r) = Len(u) + Len(v)
  BY <1>2, <1>3, <1>4
<1>6. r \in Seq(T) /\ Len(r) = n - 1 /\ DOMAIN r = 1..(n - 1)
  BY <1>1, <1>2, <1>3, <1>5
<1>7. \A a \in 1..(n - 1) : r[a] = IF a <= Len(u) THEN u[a] ELSE v[a - Len(u)]
  BY SMTT(30), <1>1, <1>6, <1>2, <1>3, <1>4
<1>8. \A a \in 1..(n - 1) : r[a] = IF a < i0 THEN s[a] ELSE s[a + 1]
  <2> TAKE a \in 1..(n - 1)
  <2>1. CASE a < i0
    BY <1>1, <1>2, <1>7, <2>1
  <2>2. CASE a >= i0
    <3>1. r[a] = v[a - (i0 - 1)]
      BY <1>1, <1>2, <1>7, <2>2
    <3>2. a - (i0 - 1) \in 1..(n - i0) /\ a - (i0 - 1) + i0 = a + 1
      BY <1>1, <2>2
    <3> QED BY <1>1, <1>3, <2>2, <3>1, <3>2
  <2> QED BY <1>1, <2>1, <2>2
<1> QED BY <1>6, <1>8 DEF r, n

\* One watcher is taken out of a list.
LEMMA RemoveAtLeaves ==
  ASSUME NEW T, NEW s \in Seq(T), NEW i0 \in DOMAIN s
  PROVE  RemoveAt(s, i0) \in Seq(T) /\ \E g : Leaves(g, RemoveAt(s, i0), s, {i0})
<1> DEFINE n == Len(s)
           r == RemoveAt(s, i0)
           g == [a \in 1..(n - 1) |-> IF a < i0 THEN a ELSE a + 1]
<1>1. n \in Nat /\ DOMAIN s = 1..n /\ i0 \in 1..n /\ i0 \in Nat
  OBVIOUS
<1> HIDE DEF r
<1>2. r \in Seq(T) /\ Len(r) = n - 1
  BY RemoveAtEntries DEF r
<1>3. \A a \in 1..(n - 1) : r[a] = IF a < i0 THEN s[a] ELSE s[a + 1]
  BY RemoveAtEntries DEF r
<1> HIDE DEF n
<1>4. g \in [1..(n - 1) -> (1..n) \ {i0}]
  BY <1>1
<1>5. \A a \in 1..(n - 1) : r[a] = s[g[a]]
  BY <1>3
<1>6. \A a, b \in 1..(n - 1) : g[a] = g[b] => a = b
  BY <1>1
<1>7. ASSUME NEW j \in (1..n) \ {i0} PROVE \E a \in 1..(n - 1) : g[a] = j
  <2>1. CASE j < i0
    BY <2>1, <1>1
  <2>2. CASE j > i0
    <3>1. j - 1 \in 1..(n - 1) /\ g[j - 1] = j
      BY <2>2, <1>1
    <3> QED BY <3>1
  <2> QED BY <2>1, <2>2, <1>1
<1>8. Leaves(g, r, s, {i0})
  <2>1. DOMAIN r = 1..(n - 1)
    BY <1>1, <1>2
  <2> HIDE DEF g, n
  <2> QED BY <1>1, <2>1, <1>4, <1>5, <1>6, <1>7 DEF Leaves
<1> HIDE DEF g
<1> QED BY <1>2, <1>8 DEF r

\* A clause is rewritten in place.
LEMMA RewriteHolds ==
  ASSUME NEW d, NEW L, Holds(d, L), NEW cr0 \in L, NEW c, IsClause(c)
  PROVE  /\ Holds([d EXCEPT ![cr0] = c], L)
         /\ [d EXCEPT ![cr0] = c][cr0] = c
         /\ \A cr \in L : cr # cr0 => [d EXCEPT ![cr0] = c][cr] = d[cr]
<1>1. d \in Seq(Seq(Lit)) /\ cr0 \in DOMAIN d /\ c \in Seq(Lit) /\ L \subseteq DOMAIN d
  BY DEF Holds, IsClause
<1>2. [d EXCEPT ![cr0] = c] \in Seq(Seq(Lit)) /\ DOMAIN [d EXCEPT ![cr0] = c] = DOMAIN d
  BY <1>1
<1>3. \A cr \in DOMAIN d : [d EXCEPT ![cr0] = c][cr] = IF cr = cr0 THEN c ELSE d[cr]
  BY <1>1
<1> QED BY <1>1, <1>2, <1>3 DEF Holds

\* A clause that keeps its two watched literals, in either order.
LEMMA AlikeSelf == \A c : Alike(c, c)
BY DEF Alike

\* So does one of a single clause.
LEMMA ReorderKeeps ==
  ASSUME NEW ws, NEW d, NEW L, NEW bin, Holds(d, L), WatchersOf(ws, d, L, bin),
         NEW cr0 \in L, NEW c, Alike(c, d[cr0]), IsClause(c)
  PROVE  WatchersOf(ws, [d EXCEPT ![cr0] = c], L, bin)
<1> DEFINE e == [d EXCEPT ![cr0] = c]
<1>1. \A cr \in L : Alike(e[cr], d[cr])
  BY RewriteHolds, AlikeSelf
<1> HIDE DEF e
<1>2. WatchersOf(ws, e, L, bin)
  BY <1>1, AlikeKeeps
<1> QED BY <1>2 DEF e

\* The swap of the first two literals.
LEMMA TurnKeeps ==
  ASSUME NEW c, IsClause(c)
  PROVE  /\ <<c[2], c[1]>> \o SubSeq(c, 3, Len(c)) = Swap(c, 1, 2)
         /\ Len(c) = 2 => <<c[2], c[1]>> = Swap(c, 1, 2)
         /\ IsClause(Swap(c, 1, 2)) /\ Alike(Swap(c, 1, 2), c)
         /\ Swap(c, 1, 2)[1] = c[2] /\ Swap(c, 1, 2)[2] = c[1]
<1> DEFINE s == Swap(c, 1, 2)
           n == Len(c)
           v == SubSeq(c, 3, n)
           t == <<c[2], c[1]>> \o v
<1>1. c \in Seq(Lit) /\ n \in Nat /\ n >= 2 /\ DOMAIN c = 1..n /\ 1 \in DOMAIN c /\ 2 \in DOMAIN c
  BY DEF IsClause
<1>2. /\ IsClause(s) /\ Len(s) = n /\ DOMAIN s = 1..n /\ s[1] = c[2] /\ s[2] = c[1]
      /\ \A i \in DOMAIN c : i # 1 /\ i # 2 => s[i] = c[i]
      /\ ToSet(s) = ToSet(c)
  BY SMTT(30), <1>1, SwapKeeps
<1> HIDE DEF s
<1>3. v \in Seq(Lit) /\ Len(v) = n - 2 /\ \A i \in 1..(n - 2) : v[i] = c[i + 2]
  BY <1>1
<1>4. c[1] \in Lit /\ c[2] \in Lit /\ <<c[2], c[1]>> \in Seq(Lit) /\ Len(<<c[2], c[1]>>) = 2
  BY <1>1
<1> HIDE DEF v, n
<1>5. t \in Seq(Lit) /\ Len(t) = n
  BY <1>1, <1>3, <1>4
<1>6. ASSUME NEW i \in 1..n PROVE t[i] = s[i]
  <2>1. CASE i > 2
    <3>1. t[i] = v[i - 2]
      BY <1>1, <1>3, <1>4, <1>5, <2>1
    <3>2. i - 2 \in 1..(n - 2) /\ i - 2 + 2 = i
      BY <1>1, <2>1
    <3>3. v[i - 2] = c[i - 2 + 2]
      BY <1>3, <3>2
    <3>4. i \in DOMAIN c /\ i # 1 /\ i # 2 /\ s[i] = c[i]
      BY <1>1, <1>2, <2>1
    <3> HIDE DEF t
    <3> QED BY <3>1, <3>2, <3>3, <3>4
  <2>2. CASE i = 1
    BY <1>1, <1>2, <1>3, <1>4, <2>2
  <2>3. CASE i = 2
    BY <1>1, <1>2, <1>3, <1>4, <2>3
  <2> HIDE DEF t
  <2> QED BY <1>1, <2>1, <2>2, <2>3
<1>7. s \in Seq(Lit)
  BY <1>2 DEF IsClause
<1> HIDE DEF t
<1>8. t = s
  BY <1>2, <1>5, <1>6, <1>7
<1>9. ASSUME n = 2 PROVE <<c[2], c[1]>> = s
  BY <1>2, <1>4, <1>7, <1>9
<1>10. Alike(s, c)
  BY <1>2 DEF Alike, Watched, n
<1> QED BY <1>2, <1>8, <1>9, <1>10 DEF s, t, v, n

\* The watcher at ws[l0][i0] moves on: its clause c now has in second place a
\* literal that was not watched before.
LEMMA MoveKeeps ==
  ASSUME NEW ws, NEW d, NEW L, NEW bin \in BOOLEAN, Holds(d, L), WatchersOf(ws, d, L, bin),
         NEW l0 \in Lit, NEW i0 \in DOMAIN ws[l0], NEW c, IsClause(c),
         Len(c) = Len(d[ws[l0][i0].cref]), ToSet(c) = ToSet(d[ws[l0][i0].cref]),
         c[2] # -l0, Watched(d[ws[l0][i0].cref], -c[1]), c[1] # -l0,
         ~Watched(d[ws[l0][i0].cref], -c[2])
  PROVE  LET cr0 == ws[l0][i0].cref
             e   == [d EXCEPT ![cr0] = c]
         IN /\ Holds(e, L)
            /\ WatchersOf(Push([ws EXCEPT ![l0] = RemoveAt(@, i0)], -c[2], Watcher(cr0, c[1])),
                          e, L, bin)
<1> DEFINE cr0 == ws[l0][i0].cref
           c0 == d[cr0]
           e == [d EXCEPT ![cr0] = c]
           l2 == -c[2]
           w == Watcher(cr0, c[1])
           us == [ws EXCEPT ![l0] = RemoveAt(@, i0)]
           vs == Push(us, l2, w)
           T == [cref : Nat, blocker : Lit]
<1>1. cr0 \in L /\ (Binary(c0) <=> bin) /\ Watched(c0, l0)
  BY DEF WatchersOf, WatcherOf
<1>2. Holds(e, L) /\ e[cr0] = c /\ \A cr \in L : cr # cr0 => e[cr] = d[cr]
  BY <1>1, RewriteHolds
<1>3. /\ c[1] \in Lit /\ c[2] \in Lit /\ c[1] # c[2] /\ c[1] \in ToSet(c) /\ c[2] \in ToSet(c)
      /\ l2 \in Lit /\ -l2 = c[2] /\ -c[1] \in Lit /\ -(-c[1]) = c[1]
  <2>1. 1 \in DOMAIN c /\ 2 \in DOMAIN c
    BY DEF IsClause
  <2>2. c[1] \in Lit /\ c[2] \in Lit /\ c[1] # c[2] /\ c[1] \in ToSet(c) /\ c[2] \in ToSet(c)
    BY <2>1 DEF IsClause, ToSet
  <2> QED BY SMTT(30), <2>2, TrailAssumption DEF Lit
<1>4. cr0 \in Nat
  <2>1. ws[l0] \in Seq(T)
    BY DEF WatchersOf
  <2>2. ws[l0][i0] \in T
    <3> HIDE DEF T
    <3> QED BY <2>1
  <2> QED BY <2>2
<1>5. w \in T /\ w.cref = cr0 /\ w.blocker = c[1]
  <2> HIDE DEF cr0
  <2> QED BY <1>3, <1>4 DEF Watcher
<1>6. Binary(c) <=> bin
  BY <1>1 DEF Binary
<1>7. \A l \in Lit : Watched(c0, l) <=> l = l0 \/ l = -c[1]
  <2>1. c0[1] \in Lit /\ c0[2] \in Lit /\ c0[1] # c0[2]
    <3> HIDE DEF c0, cr0
    <3>1. IsClause(d[cr0])
      BY <1>1 DEF Holds
    <3>2. 1 \in DOMAIN c0 /\ 2 \in DOMAIN c0
      BY <3>1 DEF IsClause, c0
    <3> QED BY <3>1, <3>2 DEF IsClause, c0
  <2>2. -l0 # c[1] /\ Watched(c0, l0) /\ Watched(c0, -c[1])
    BY <1>1
  <2> HIDE DEF c0, l2
  <2>3. \A l \in Lit : (c0[1] = -l <=> l = -c0[1]) /\ (c0[2] = -l <=> l = -c0[2])
    BY <2>1, NegLit
  <2> QED BY <1>3, <2>1, <2>2, <2>3, NegLit DEF Watched
<1>8. l2 # l0 /\ l2 # -c[1]
  <2> HIDE DEF c0
  <2> QED BY <1>3
<1>9. \A l \in Lit : Watched(c, l) <=> l = l2 \/ l = -c[1]
  BY <1>3, NegLit DEF Watched
<1> DEFINE r == RemoveAt(ws[l0], i0)
<1>10. ws \in [Lit -> Seq(T)] /\ ws[l0] \in Seq(T) /\ \A l \in Lit : Once(ws[l]) /\ ws[l] \in Seq(T)
  BY DEF WatchersOf
<1>11. r \in Seq(T) /\ \E g : Leaves(g, r, ws[l0], {i0})
  <2> HIDE DEF T
  <2> QED BY <1>10, RemoveAtLeaves
<1>12. vs = [l \in Lit |-> IF l = l0 THEN r ELSE IF l = l2 THEN Append(ws[l2], w) ELSE ws[l]]
  <2>1. us = [l \in Lit |-> IF l = l0 THEN r ELSE ws[l]]
    <3> HIDE DEF T
    <3> QED BY <1>10
  <2>2. vs = [us EXCEPT ![l2] = Append(@, w)]
    BY DEF Push
  <2> HIDE DEF us, vs, w, l2, r
  <2> QED BY <2>1, <2>2, <1>3, <1>8
<1> HIDE DEF vs, us, r, e, w, l2, c0, cr0, T
<1>13. ASSUME NEW l \in Lit, NEW i \in DOMAIN ws[l], ws[l][i].cref # cr0
       PROVE  WatcherOf(ws[l][i], e, L, bin, l)
  <2>1. WatcherOf(ws[l][i], d, L, bin, l)
    BY DEF WatchersOf
  <2> QED BY <2>1, <1>2, <1>13 DEF WatcherOf
<1>14. ASSUME NEW i \in DOMAIN ws[-c[1]], ws[-c[1]][i].cref = cr0
       PROVE  WatcherOf(ws[-c[1]][i], e, L, bin, -c[1])
  <2>1. WatcherOf(ws[-c[1]][i], d, L, bin, -c[1])
    BY <1>3 DEF WatchersOf
  <2>2. Watched(c, -c[1])
    BY <1>3 DEF Watched
  <2> QED BY <1>2, <1>6, <1>14, <2>1, <2>2 DEF WatcherOf, c0, cr0
<1>15. \A l \in Lit : Lists(ws[l], cr0) => l = l0 \/ l = -c[1]
  <2> SUFFICES ASSUME NEW l \in Lit, NEW i \in DOMAIN ws[l], ws[l][i].cref = cr0
               PROVE  l = l0 \/ l = -c[1]
    BY DEF Lists
  <2>1. Watched(d[ws[l][i].cref], l)
    BY DEF WatchersOf, WatcherOf
  <2> QED BY <1>7, <2>1 DEF c0
<1>16. ASSUME NEW l \in Lit
       PROVE  /\ vs[l] \in Seq(T) /\ Once(vs[l])
              /\ \A i \in DOMAIN vs[l] : WatcherOf(vs[l][i], e, L, bin, l)
              /\ \A cr : Lists(ws[l], cr) /\ ~(cr = cr0 /\ l = l0) => Lists(vs[l], cr)
              /\ l = l2 => Lists(vs[l], cr0)
  <2>1. CASE l = l0
    <3>1. vs[l] = r
      BY <1>12, <2>1
    <3>2. PICK g : Leaves(g, r, ws[l0], {i0})
      BY <1>11
    <3>3. Once(r) /\ \A a \in DOMAIN r : g[a] \in DOMAIN ws[l0] /\ g[a] # i0 /\ r[a] = ws[l0][g[a]]
      BY <1>10, <3>2, LeavesOnce
    <3>4. \A i \in DOMAIN ws[l0] : i # i0 => Lists(r, ws[l0][i].cref)
      BY <1>10, <3>2, LeavesOnce
    <3>5. \A i \in DOMAIN ws[l0] : i # i0 => ws[l0][i].cref # cr0
      BY <1>10 DEF Once, cr0
    <3>6. \A a \in DOMAIN r : WatcherOf(r[a], e, L, bin, l0)
      BY <1>13, <3>3, <3>5
    <3>7. \A cr : Lists(ws[l0], cr) /\ cr # cr0 => Lists(r, cr)
      BY <3>4 DEF Lists, cr0
    <3> QED BY <1>8, <1>11, <2>1, <3>1, <3>3, <3>6, <3>7
  <2>2. CASE l = l2
    <3>0. vs[l] = Append(ws[l2], w) /\ l # l0
      BY <1>8, <1>12, <2>2
    <3>1. ws[l2] \in Seq(T) /\ Once(ws[l2]) /\ ~Lists(ws[l2], cr0)
      BY <1>3, <1>8, <1>10, <1>15
    <3>2. /\ \A i \in DOMAIN vs[l] : (i \in DOMAIN ws[l2] /\ vs[l][i] = ws[l2][i]) \/ vs[l][i] = w
          /\ Once(vs[l]) /\ Lists(vs[l], cr0)
          /\ \A cr : Lists(ws[l2], cr) => Lists(vs[l], cr)
      BY <1>5, <3>0, <3>1, AppendOnce
    <3>3. WatcherOf(w, e, L, bin, l2)
      BY <1>1, <1>2, <1>3, <1>5, <1>6, <1>9 DEF WatcherOf
    <3>4. \A i \in DOMAIN ws[l2] : WatcherOf(ws[l2][i], e, L, bin, l2)
      BY <1>3, <1>13, <3>1 DEF Lists
    <3>5. vs[l] \in Seq(T)
      BY <1>5, <3>0, <3>1
    <3> QED BY <2>2, <3>2, <3>3, <3>4, <3>5
  <2>3. CASE l # l0 /\ l # l2
    <3>1. vs[l] = ws[l]
      BY <1>12, <2>3
    <3>2. \A i \in DOMAIN ws[l] : WatcherOf(ws[l][i], e, L, bin, l)
      BY <1>13, <1>14, <1>15, <2>3 DEF Lists
    <3> QED BY <1>10, <2>3, <3>1, <3>2
  <2> QED BY <2>1, <2>2, <2>3
<1>17. vs \in [Lit -> Seq(T)]
  BY <1>12, <1>16
<1>18. ASSUME NEW cr \in L, NEW l \in Lit, Binary(e[cr]) <=> bin, Watched(e[cr], l)
       PROVE  Lists(vs[l], cr)
  <2>1. CASE cr # cr0
    <3>1. Lists(ws[l], cr)
      BY <1>2, <1>18, <2>1 DEF WatchersOf
    <3> QED BY <1>16, <2>1, <3>1
  <2>2. CASE cr = cr0
    <3>1. l = l2 \/ l = -c[1]
      BY <1>2, <1>9, <1>18, <2>2
    <3>2. CASE l = l2
      BY <1>16, <2>2, <3>2
    <3>3. CASE l = -c[1]
      <4>1. Watched(c0, l)
        BY <1>7, <3>3
      <4>2. Lists(ws[l], cr0)
        BY <1>1, <4>1 DEF WatchersOf, c0
      <4>3. l # l0
        BY <1>3, <3>3
      <4> QED BY <1>16, <2>2, <4>2, <4>3
    <3> QED BY <3>1, <3>2, <3>3
  <2> QED BY <2>1, <2>2
<1>19. WatchersOf(vs, e, L, bin)
  BY <1>16, <1>17, <1>18 DEF WatchersOf, T
<1> QED BY <1>2, <1>19 DEF vs, us, r, e, w, l2, cr0
=============================================================================
