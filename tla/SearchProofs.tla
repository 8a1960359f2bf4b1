---------------------------- MODULE SearchProofs ----------------------------
(***************************************************************************)
(* The invariants of the search: the clause database, reasons, conflicts   *)
(* and what analyze() makes of them.                                       *)
(***************************************************************************)
EXTENDS SolverProofs
LOCAL INSTANCE SequencesExt
LOCAL INSTANCE FiniteSetsExt

(***************************************************************************)
(* The ways in which a step can touch the trail.                           *)
(***************************************************************************)
\* Not at all.
Stays == UNCHANGED <<assigns, trail, trail_lim, level>>

\* A literal is assigned at the current level.
Pushes(l) ==
  /\ l \in Lit /\ IsUndef(l) /\ Enqueue(l) /\ pc # "cancel" /\ pc' # "cancel"
  /\ trail_lim' = trail_lim /\ level' = [level EXCEPT ![VarOf(l)] = decisionLevel]

\* A literal is assigned at a new level.
Decides(l) ==
  /\ l \in Lit /\ IsUndef(l) /\ Enqueue(l) /\ Fixpoint /\ pc' = pc
  /\ trail_lim' = Append(trail_lim, Len(trail))
  /\ level' = [level EXCEPT ![VarOf(l)] = decisionLevel + 1]

\* A level is opened and left empty.
Opens ==
  /\ Fixpoint /\ pc' = pc /\ trail_lim' = Append(trail_lim, Len(trail))
  /\ UNCHANGED <<assigns, trail, level>>

\* The last literal goes.
Pops == ECancel /\ level' = level

\* The levels above `target' are closed.
Closes == ECancelDone /\ level' = level

\* There are no others.
LEMMA TrailKinds ==
  ASSUME Base, order_heap \subseteq Var, [SolverNext]_allVars
  PROVE  Stays \/ (\E l : Pushes(l)) \/ (\E l : Decides(l)) \/ Opens \/ Pops \/ Closes
<1>1. ASSUME NEW l, EAddUnit(l) \/ EImplyByClause(l), NEW cr, NEW lv, SetVar(l, cr, lv), lv = decisionLevel
      PROVE  Pushes(l)
  BY <1>1 DEF EAddUnit, EImplyByClause, AddUnit, Imply, SetVar, Pushes, IsUndef, Fixpoint
<1>2. ASSUME UNCHANGED level,
             \/ UNCHANGED vars \/ UNCHANGED trailVars \/ AddEmpty \/ Dequeue \/ ClauseConflict
             \/ ClausesDone \/ CallsDone \/ Drain \/ DrainDone \/ ConflictAtRoot \/ StartAnalyze
             \/ EAddConstraint \/ EInitialized \/ EReturnTrue \/ EReturnFalse \/ EAnalyzeUndo
             \/ (\E c : ECall(c)) \/ (\E l : StartCancel(l) \/ AnalyzeDone(l))
      PROVE  Stays
  BY <1>2 DEF Stays, vars, trailVars, AddEmpty, Dequeue, ClauseConflict, ClausesDone, CallsDone, Drain,
     DrainDone, ConflictAtRoot, StartAnalyze, EAddConstraint, AddConstraint, EInitialized, Initialized,
     EReturnTrue, ReturnTrue, EReturnFalse, ReturnFalse, EAnalyzeUndo, AnalyzeUndo, ECall, Call,
     StartCancel, AnalyzeDone
<1>3. CASE SDequeue \/ ScanNextList \/ SEngineStep
  BY <1>2, <1>3 DEF SDequeue, ScanNextList, SEngineStep, varVars, solverVars
<1>4. CASE ScanBinary \/ ScanUnitOrFalse
  <2>1. \/ UNCHANGED level /\ (UNCHANGED vars \/ ClauseConflict)
        \/ \E l, cr : EImplyByClause(l) /\ SetVar(l, cr, decisionLevel)
    BY <1>4 DEF ScanBinary, ScanUnitOrFalse, SClauseConflict, ImplyFrom, varVars
  <2> QED BY <1>1, <1>2, <2>1
<1>5. CASE SEnqueue
  <2>1. Pushes(Head(enq))
    BY <1>5 DEF SEnqueue, EEnqueue, Imply, SetVar, Pushes, IsUndef
  <2> QED BY <2>1
<1>6. CASE \/ ScanSatisfied \/ ScanMove \/ Simplify \/ ReduceDB \/ AdaptSolver \/ Return
           \/ AddRedundantClause \/ AddLongClause \/ Solve \/ EndScript \/ AddEmptyClause
           \/ SAddConstraint
  BY <1>2, <1>6 DEF ScanSatisfied, ScanMove, Simplify, ReduceDB, AdaptSolver, Return,
     AddRedundantClause, AddLongClause, Solve, EndScript, AddEmptyClause, SAddConstraint, varVars
<1>7. CASE Restart \/ GiveUp \/ AssumeFailed \/ ModelFound
  BY <1>2, <1>7 DEF Restart, GiveUp, AssumeFailed, ModelFound, Stop, varVars
<1>8. CASE SConflictAtRoot \/ SStartAnalyze \/ SAnalyzeUndo \/ SAnalyzeDone
  BY <1>2, <1>8 DEF SConflictAtRoot, SStartAnalyze, SAnalyzeUndo, SAnalyzeDone, varVars
<1>9. CASE AddUnitClause
  <2>1. PICK l : EAddUnit(l) /\ SetVar(l, CRef_Undef, 0)
    BY <1>9 DEF AddUnitClause
  <2>2. decisionLevel = 0
    BY <2>1 DEF EAddUnit, AddUnit
  <2> QED BY <1>1, <2>1, <2>2
<1>10. CASE Assume
  <2>1. Decides(NextAssumption)
    BY <1>10 DEF Assume, EDecide, Decide, SetVar, Decides, IsUndef
  <2> QED BY <2>1
<1>11. CASE PickBranch
  <2>1. \E x \in order_heap : \E l \in {x, -x} :
           EDecide(l) /\ level' = [level EXCEPT ![x] = decisionLevel + 1]
    BY <1>11 DEF PickBranch
  <2>2. PICK x, l : /\ x \in Var /\ l \in {x, -x} /\ EDecide(l)
                    /\ level' = [level EXCEPT ![x] = decisionLevel + 1]
    BY <2>1
  <2>3. VarOf(l) = x
    BY <2>2 DEF VarOf, Var
  <2>4. Decides(l)
    BY <2>2, <2>3 DEF EDecide, Decide, Decides, IsUndef
  <2> QED BY <2>4
<1>12. CASE AssumeHeld
  BY <1>12 DEF AssumeHeld, DummyLevel, Opens, Fixpoint, solverVars
<1>13. CASE SCancel \/ SCancelDone
  BY <1>13 DEF SCancel, SCancelDone, Pops, Closes, varVars
<1>14. CASE SLearn
  <2>1. ELearn /\ \E cr : SetVar(learnt, cr, decisionLevel)
    BY <1>14 DEF SLearn
  <2>2. learnt \in Lit /\ IsUndef(learnt)
    BY <2>1, LearntFree DEF Base, ELearn, Learn
  <2>3. Pushes(learnt)
    BY <2>1, <2>2 DEF ELearn, Learn, SetVar, Pushes
  <2> QED BY <2>3
<1>15. CASE Finished \/ UNCHANGED allVars
  BY <1>2, <1>15 DEF Finished, allVars, solverVars
<1> QED
  BY <1>3, <1>4, <1>5, <1>6, <1>7, <1>8, <1>9, <1>10, <1>11, <1>12, <1>13, <1>14, <1>15
     DEF SolverNext, SearchStep

\* level[x] of a variable on the trail says between which entries of trail_lim
\* it stands.
Layered ==
  /\ order_heap \subseteq Var
  /\ level \in [Var -> Nat]
  /\ \A i \in DOMAIN trail :
       /\ level[VarOf(trail[i])] <= decisionLevel
       /\ \A k \in DOMAIN trail_lim : trail_lim[k] < i <=> k <= level[VarOf(trail[i])]

\* The types of the trail, as the proofs below use them.
LEMMA TrailFacts ==
  ASSUME TypeOK
  PROVE  /\ trail \in Seq(Lit) /\ DOMAIN trail = 1..Len(trail) /\ Len(trail) \in Nat
         /\ trail_lim \in Seq(Nat) /\ DOMAIN trail_lim = 1..decisionLevel /\ decisionLevel \in Nat
         /\ decisionLevel = Len(trail_lim)
         /\ \A i \in DOMAIN trail : trail[i] \in Lit /\ VarOf(trail[i]) \in Var
BY VarOfLit DEF TypeOK, decisionLevel

\* No level is open at first.
LEMMA LayeredInit == SolverInit => Layered
BY DEF SolverInit, EngineInit, Init, Layered

\* The heap holds variables.
LEMMA HeapVarsStep ==
  ASSUME Base, Layered, [SolverNext]_allVars PROVE order_heap' \subseteq Var
<1>1. CASE SCancel
  <2>1. trail[Len(trail)] \in Lit
    BY <1>1, CancelPosition DEF SCancel, ECancel, Cancel, Base, TypeOK
  <2> QED BY <1>1, <2>1, VarOfLit DEF SCancel, Layered
<1>2. CASE Simplify \/ PickBranch \/ ModelFound
  BY <1>2 DEF Simplify, PickBranch, ModelFound, Layered
<1>3. CASE ~HeapStep
  BY <1>3, HeapUntouched DEF Layered
<1> QED BY <1>1, <1>2, <1>3 DEF HeapStep

\* Every step keeps the levels of the variables right.
LEMMA LayeredStep == Base /\ Layered /\ [SolverNext]_allVars => Layered'
<1> SUFFICES ASSUME Base, Layered, [SolverNext]_allVars PROVE Layered'
  OBVIOUS
<1> DEFINE dl == decisionLevel
<1>0. TypeOK /\ TrailOK /\ Levels /\ Backtrack /\ order_heap' \subseteq Var
  BY HeapVarsStep DEF Base
<1>1. /\ trail \in Seq(Lit) /\ DOMAIN trail = 1..Len(trail) /\ Len(trail) \in Nat
      /\ trail_lim \in Seq(Nat) /\ DOMAIN trail_lim = 1..dl /\ dl \in Nat /\ dl = Len(trail_lim)
      /\ \A i \in DOMAIN trail : trail[i] \in Lit /\ VarOf(trail[i]) \in Var
  BY <1>0, TrailFacts
<1>2. CASE Stays
  BY <1>0, <1>2 DEF Stays, Layered, decisionLevel
<1>3. ASSUME NEW l \in Lit, IsUndef(l), Enqueue(l), NEW n \in Nat, level' = [level EXCEPT ![VarOf(l)] = n]
      PROVE  /\ level' \in [Var -> Nat] /\ DOMAIN trail' = 1..(Len(trail) + 1)
             /\ trail'[Len(trail) + 1] = l /\ level'[VarOf(l)] = n
             /\ \A i \in DOMAIN trail :
                  trail'[i] = trail[i] /\ level'[VarOf(trail'[i])] = level[VarOf(trail[i])]
             /\ \A i \in DOMAIN trail' : i \in DOMAIN trail \/ i = Len(trail) + 1
  <2>1. /\ trail' \in Seq(Lit) /\ Len(trail') = Len(trail) + 1 /\ trail'[Len(trail) + 1] = l
        /\ \A i \in DOMAIN trail : trail'[i] = trail[i]
    BY <1>0, <1>3, EnqueueTrail
  <2>2. DOMAIN trail' = 1..(Len(trail) + 1)
    BY <2>1
  <2>3. VarOf(l) \in Var
    BY VarOfLit
  <2>4. ASSUME NEW i \in DOMAIN trail PROVE VarOf(trail[i]) # VarOf(l)
    <3>1. trail[i] \in assigns
      BY <1>0 DEF TrailOK
    <3> QED BY <1>1, <1>3, <3>1, VarOfLit DEF IsUndef, IsTrue, IsFalse
  <2>5. level' \in [Var -> Nat] /\ level'[VarOf(l)] = n
    BY <1>3, <2>3 DEF Layered
  <2>6. \A i \in DOMAIN trail : level'[VarOf(trail[i])] = level[VarOf(trail[i])]
    BY <1>1, <1>3, <2>4 DEF Layered
  <2> QED BY <1>1, <2>1, <2>2, <2>5, <2>6
<1>4. ASSUME NEW l, Pushes(l) PROVE Layered'
  <2>1. /\ level' \in [Var -> Nat] /\ DOMAIN trail' = 1..(Len(trail) + 1)
        /\ trail'[Len(trail) + 1] = l /\ level'[VarOf(l)] = dl
        /\ \A i \in DOMAIN trail :
             trail'[i] = trail[i] /\ level'[VarOf(trail'[i])] = level[VarOf(trail[i])]
        /\ \A i \in DOMAIN trail' : i \in DOMAIN trail \/ i = Len(trail) + 1
    BY <1>1, <1>3, <1>4 DEF Pushes
  <2>2. \A k \in DOMAIN trail_lim : trail_lim[k] <= Len(trail) /\ trail_lim[k] \in Nat
    BY <1>0, <1>1, <1>4 DEF Levels, Pushes
  <2>3. trail_lim' = trail_lim /\ decisionLevel' = dl
    BY <1>4 DEF Pushes, decisionLevel
  <2> HIDE DEF dl
  <2>4. \A k \in DOMAIN trail_lim : trail_lim[k] < Len(trail) + 1 /\ k <= dl
    BY <1>1, <2>2
  <2>5. ASSUME NEW i \in DOMAIN trail'
        PROVE  /\ level'[VarOf(trail'[i])] <= dl
               /\ \A k \in DOMAIN trail_lim : trail_lim[k] < i <=> k <= level'[VarOf(trail'[i])]
    <3>1. CASE i \in DOMAIN trail
      BY <2>1, <3>1 DEF Layered, dl
    <3>2. CASE i = Len(trail) + 1
      BY <1>1, <2>1, <2>4, <3>2
    <3> QED BY <2>1, <3>1, <3>2
  <2> QED BY <1>0, <2>1, <2>3, <2>5 DEF Layered
<1>5. ASSUME trail_lim' = Append(trail_lim, Len(trail)), pc # "cancel"
      PROVE  /\ DOMAIN trail_lim' = 1..(dl + 1) /\ trail_lim'[dl + 1] = Len(trail) /\ decisionLevel' = dl + 1
             /\ \A k \in DOMAIN trail_lim : trail_lim'[k] = trail_lim[k] /\ trail_lim[k] <= Len(trail) /\ trail_lim[k] \in Nat
             /\ \A k \in DOMAIN trail_lim' : k \in DOMAIN trail_lim \/ k = dl + 1
  <2>1. \A k \in DOMAIN trail_lim : trail_lim[k] <= Len(trail) /\ trail_lim[k] \in Nat
    BY <1>0, <1>1, <1>5 DEF Levels
  <2>2. trail_lim' \in Seq(Nat) /\ Len(trail_lim') = dl + 1
    BY <1>1, <1>5
  <2>3. DOMAIN trail_lim' = 1..(dl + 1) /\ trail_lim'[dl + 1] = Len(trail) /\ \A k \in DOMAIN trail_lim : trail_lim'[k] = trail_lim[k]
    BY <1>1, <1>5, <2>2
  <2> QED BY <1>1, <2>1, <2>2, <2>3 DEF decisionLevel
<1>6. ASSUME NEW l, Decides(l) PROVE Layered'
  <2>1. pc # "cancel" /\ l \in Lit /\ dl + 1 \in Nat
    BY <1>1, <1>6 DEF Decides, Fixpoint
  <2>2. /\ level' \in [Var -> Nat] /\ DOMAIN trail' = 1..(Len(trail) + 1)
        /\ trail'[Len(trail) + 1] = l /\ level'[VarOf(l)] = dl + 1
        /\ \A i \in DOMAIN trail :
             trail'[i] = trail[i] /\ level'[VarOf(trail'[i])] = level[VarOf(trail[i])]
        /\ \A i \in DOMAIN trail' : i \in DOMAIN trail \/ i = Len(trail) + 1
    BY <1>3, <1>6, <2>1 DEF Decides
  <2>3. /\ DOMAIN trail_lim' = 1..(dl + 1) /\ trail_lim'[dl + 1] = Len(trail) /\ decisionLevel' = dl + 1
        /\ \A k \in DOMAIN trail_lim : trail_lim'[k] = trail_lim[k] /\ trail_lim[k] <= Len(trail) /\ trail_lim[k] \in Nat
        /\ \A k \in DOMAIN trail_lim' : k \in DOMAIN trail_lim \/ k = dl + 1
    BY <1>5, <1>6, <2>1 DEF Decides
  <2> HIDE DEF dl
  <2>4. ASSUME NEW i \in DOMAIN trail
        PROVE  /\ level[VarOf(trail[i])] <= dl + 1 /\ level[VarOf(trail[i])] \in Nat
               /\ \A k \in DOMAIN trail_lim' : trail_lim'[k] < i <=> k <= level[VarOf(trail[i])]
    <3>1. level[VarOf(trail[i])] <= dl /\ level[VarOf(trail[i])] \in Nat
      BY <1>1 DEF Layered, dl
    <3>2. i <= Len(trail) /\ i \in Nat
      BY <1>1
    <3>3. \A k \in DOMAIN trail_lim : trail_lim'[k] < i <=> k <= level[VarOf(trail[i])]
      BY <2>3 DEF Layered
    <3>4. ~(trail_lim'[dl + 1] < i) /\ ~(dl + 1 <= level[VarOf(trail[i])])
      BY <1>1, <2>3, <3>1, <3>2
    <3> QED BY <1>1, <2>3, <3>1, <3>3, <3>4
  <2>5. \A k \in DOMAIN trail_lim' : trail_lim'[k] < Len(trail) + 1 /\ k <= dl + 1
    BY <1>1, <2>3
  <2>6. ASSUME NEW i \in DOMAIN trail'
        PROVE  /\ level'[VarOf(trail'[i])] <= dl + 1
               /\ \A k \in DOMAIN trail_lim' : trail_lim'[k] < i <=> k <= level'[VarOf(trail'[i])]
    BY <1>1, <2>2, <2>4, <2>5
  <2> QED BY <1>0, <2>2, <2>3, <2>6 DEF Layered
<1>7. CASE Opens
  <2>1. pc # "cancel" /\ UNCHANGED <<trail, level>>
    BY <1>7 DEF Opens, Fixpoint
  <2>3. /\ DOMAIN trail_lim' = 1..(dl + 1) /\ trail_lim'[dl + 1] = Len(trail) /\ decisionLevel' = dl + 1
        /\ \A k \in DOMAIN trail_lim : trail_lim'[k] = trail_lim[k] /\ trail_lim[k] <= Len(trail) /\ trail_lim[k] \in Nat
        /\ \A k \in DOMAIN trail_lim' : k \in DOMAIN trail_lim \/ k = dl + 1
    BY <1>5, <1>7, <2>1 DEF Opens
  <2> HIDE DEF dl
  <2>4. ASSUME NEW i \in DOMAIN trail
        PROVE  /\ level[VarOf(trail[i])] <= dl + 1
               /\ \A k \in DOMAIN trail_lim' : trail_lim'[k] < i <=> k <= level[VarOf(trail[i])]
    <3>1. level[VarOf(trail[i])] <= dl /\ level[VarOf(trail[i])] \in Nat
      BY <1>1 DEF Layered, dl
    <3>2. i <= Len(trail) /\ i \in Nat
      BY <1>1
    <3>3. \A k \in DOMAIN trail_lim : trail_lim'[k] < i <=> k <= level[VarOf(trail[i])]
      BY <2>3 DEF Layered
    <3>4. ~(trail_lim'[dl + 1] < i) /\ ~(dl + 1 <= level[VarOf(trail[i])])
      BY <1>1, <2>3, <3>1, <3>2
    <3> QED BY <1>1, <2>3, <3>1, <3>3, <3>4
  <2> QED BY <1>0, <2>1, <2>3, <2>4 DEF Layered
<1>8. CASE Pops
  <2>1. trail' = SubSeq(trail, 1, Len(trail) - 1) /\ UNCHANGED <<trail_lim, level>> /\ pc = "cancel" /\ Len(trail) > trail_lim[target + 1]
    BY <1>8 DEF Pops, ECancel, Cancel
  <2>2. Len(trail) \in DOMAIN trail
    BY <1>0, <2>1, CancelPosition
  <2>3. DOMAIN trail' = 1..(Len(trail) - 1) /\ \A i \in DOMAIN trail' : i \in DOMAIN trail /\ trail'[i] = trail[i]
    BY <1>1, <2>1, <2>2
  <2> QED BY <1>0, <2>1, <2>3 DEF Layered, decisionLevel
<1>9. CASE Closes
  <2>1. trail_lim' = SubSeq(trail_lim, 1, target) /\ UNCHANGED <<trail, level>> /\ pc = "cancel" /\ Len(trail) = trail_lim[target + 1]
    BY <1>9 DEF Closes, ECancelDone, CancelDone
  <2>2. target \in Nat /\ target < dl /\ target + 1 \in DOMAIN trail_lim
    BY <1>0, <2>1, CancelPosition
  <2>3. /\ decisionLevel' = target /\ DOMAIN trail_lim' = 1..target
        /\ \A k \in DOMAIN trail_lim' : k \in DOMAIN trail_lim /\ trail_lim'[k] = trail_lim[k]
    BY <1>1, <2>1, <2>2 DEF decisionLevel
  <2>4. ASSUME NEW i \in DOMAIN trail PROVE level[VarOf(trail[i])] <= target
    <3>1. ~(trail_lim[target + 1] < i)
      BY <1>1, <2>1, <2>2
    <3>2. ~(target + 1 <= level[VarOf(trail[i])]) /\ level[VarOf(trail[i])] \in Nat
      BY <1>1, <2>2, <3>1 DEF Layered
    <3> QED BY <2>2, <3>2
  <2> QED BY <1>0, <2>1, <2>3, <2>4 DEF Layered
<1> QED
  BY <1>2, <1>4, <1>6, <1>7, <1>8, <1>9, TrailKinds DEF Layered
-----------------------------------------------------------------------------
(***************************************************************************)
(* The calls of a script are about literals.                               *)
(***************************************************************************)
Literals ==
  /\ script \in Seq(ApiCalls) /\ model \subseteq Lit /\ assumptions \in Seq(Lit)
  /\ formula \in SUBSET SUBSET Lit

\* So is what the next call passes.
LEMMA CallLiterals ==
  ASSUME Literals, script # <<>>
  PROVE  /\ Tail(script) \in Seq(ApiCalls)
         /\ IsClauseCall => CallLits \subseteq Lit
         /\ Head(script).op = "solve" => Head(script).assumptions \in Seq(Lit)
<1>1. Head(script) \in ApiCalls /\ Tail(script) \in Seq(ApiCalls)
  BY DEF Literals
<1>a. ASSUME NEW call \in ApiCalls
      PROVE  /\ call.op = "clause" => call.lits \in Seq(Lit)
             /\ call.op = "solve" => call.assumptions \in Seq(Lit)
  BY SolverAssumption
<1>2. Head(script).op = "clause" => Head(script).lits \in Seq(Lit)
  BY <1>1, <1>a
<1>3. Head(script).op = "solve" => Head(script).assumptions \in Seq(Lit)
  BY <1>1, <1>a
<1>4. \A l \in model : -l \in Lit
  BY NegLit DEF Literals
<1>5. ASSUME IsClauseCall PROVE CallLits \subseteq Lit
  <2>1. CASE Head(script).op = "block"
    BY <1>4, <2>1 DEF CallLits
  <2>2. CASE Head(script).op # "block"
    <3>1. Head(script).lits \in Seq(Lit)
      BY <1>2, <1>5, <2>2 DEF IsClauseCall
    <3>2. ToSet(Head(script).lits) \subseteq Lit
      BY <3>1 DEF ToSet
    <3> QED BY <2>2, <3>2 DEF CallLits
  <2> QED BY <2>1, <2>2
<1> QED BY <1>1, <1>3, <1>5

\* Scripts are about literals ...
LEMMA LiteralsInit == SolverInit => Literals
BY SolverAssumption DEF SolverInit, Literals

\* The steps that write to what the user sees.
ApiStep == AddClauseCommon \/ SAddConstraint \/ Solve \/ EndScript \/ ModelFound

\* What the user sees is written by no other step.
LEMMA ApiUntouched ==
  ASSUME [SolverNext]_allVars, ~ApiStep
  PROVE  UNCHANGED <<script, formula, model, assumptions>>
BY DEF ApiStep, SolverNext, SearchStep, allVars, solverVars, apiVars, SDequeue, ScanBinary,
   ScanSatisfied, ScanMove, ScanUnitOrFalse, ScanNextList, SEngineStep, SEnqueue, Restart,
   GiveUp, Stop, Simplify, ReduceDB, AdaptSolver, AssumeHeld, Assume, AssumeFailed, PickBranch, Return,
   SConflictAtRoot, SStartAnalyze, SAnalyzeUndo, SAnalyzeDone, SCancel, SCancelDone, SLearn,
   AddRedundantClause, AddEmptyClause, AddUnitClause, AddLongClause, Finished

\* ... and stay so while their calls are made.
LEMMA LiteralsStep == Base /\ Literals /\ [SolverNext]_allVars => Literals'
<1> SUFFICES ASSUME Base, Literals, [SolverNext]_allVars PROVE Literals'
  OBVIOUS
<1>1. CASE AddClauseCommon
  <2>1. /\ script # <<>> /\ IsClauseCall /\ script' = Tail(script) /\ formula' = formula \cup {CallLits}
        /\ UNCHANGED <<model, assumptions>>
    BY <1>1 DEF AddClauseCommon, IsClauseCall, Idle
  <2>2. Tail(script) \in Seq(ApiCalls) /\ CallLits \subseteq Lit
    BY <2>1, CallLiterals
  <2>3. formula' \in SUBSET SUBSET Lit
    BY <2>1, <2>2 DEF Literals
  <2> QED BY <2>1, <2>2, <2>3 DEF Literals
<1>2. CASE SAddConstraint \/ EndScript
  <2>1. /\ (script # <<>> /\ script' = Tail(script)) \/ script' = <<>>
        /\ UNCHANGED <<formula, model, assumptions>>
    BY <1>2 DEF SAddConstraint, EndScript, NextCall, Idle
  <2>2. Tail(script) \in Seq(ApiCalls)
    BY <1>2, CallLiterals DEF SAddConstraint, EndScript, NextCall, Idle
  <2>3. script' \in Seq(ApiCalls)
    <3>1. <<>> \in Seq(ApiCalls)
      OBVIOUS
    <3> QED BY <2>1, <2>2, <3>1
  <2> QED BY <2>1, <2>3 DEF Literals
<1>3. CASE Solve
  <2>1. /\ script # <<>> /\ script' = Tail(script) /\ formula' = formula /\ model' = {}
        /\ assumptions' = Head(script).assumptions /\ Head(script).op = "solve"
    BY <1>3 DEF Solve, NextCall, Idle
  <2> QED BY <2>1, CallLiterals DEF Literals
<1>4. CASE ModelFound
  BY <1>4 DEF ModelFound, Stop, Base, TypeOK, Literals
<1>5. CASE ~ApiStep
  BY <1>5, ApiUntouched DEF Literals
<1> QED BY <1>1, <1>2, <1>3, <1>4, <1>5 DEF ApiStep
-----------------------------------------------------------------------------
(***************************************************************************)
(* The clause database.                                                    *)
(***************************************************************************)
Live == clauses \cup learnts

Stored ==
  /\ Holds(db, Live) /\ clauses \cap learnts = {}
  /\ WatchersOf(watches, db, Live, FALSE)
  /\ WatchersOf(watchesBin, db, Live, TRUE)

\* What analyze() and search() hand on as a learnt clause, or nothing.
LearntIsClause ==
  pc = "learn" => /\ learntLits \in Seq(Lit) /\ Len(learntLits) >= 1
                  /\ Len(learntLits) # 1 => IsClause(learntLits)

\* The clauses addClause_ stores are clauses.
LEMMA KeptIsClause ==
  ASSUME TypeOK, Literals, IsClauseCall, ~Redundant, Cardinality(Kept) > 1, NEW c \in SetToSeqs(Kept)
  PROVE  IsClause(c) /\ ToSet(c) = Kept
<1>1. script # <<>>
  BY DEF IsClauseCall, Idle
<1>2. Kept \subseteq Lit /\ \A l \in Kept : -l \notin Kept
  BY <1>1, CallLiterals DEF Kept, Redundant
<1>3. IsFiniteSet(Lit)
  <2>1. IsFiniteSet(-NVars..NVars)
    BY TrailAssumption, FS_Interval
  <2> QED BY <2>1, FS_Subset DEF Lit
<1>4. IsFiniteSet(Kept) /\ Cardinality(Kept) \in Nat
  BY <1>2, <1>3, FS_Subset, FS_CardinalityType
<1> DEFINE n == Cardinality(Kept)
<1>5. c \in [1..n -> Kept] /\ \A i, j \in 1..n : i # j => c[i] # c[j]
  BY DEF SetToSeqs
<1>6. n \in Nat /\ n >= 2
  BY <1>4
<1> HIDE DEF n
<1>7. c \in Seq(Lit) /\ Len(c) = n /\ DOMAIN c = 1..n /\ \A i \in DOMAIN c : c[i] \in Kept
  BY <1>2, <1>5, <1>6
<1>8. \A i, j \in DOMAIN c : VarOf(c[i]) = VarOf(c[j]) => i = j
  <2> SUFFICES ASSUME NEW i \in DOMAIN c, NEW j \in DOMAIN c, VarOf(c[i]) = VarOf(c[j]) PROVE i = j
    OBVIOUS
  <2>1. c[i] \in Kept /\ c[j] \in Kept /\ c[i] \in Lit /\ c[j] \in Lit
    BY <1>2, <1>7
  <2>2. c[i] = c[j] \/ c[i] = -c[j]
    BY <2>1, VarOfLit
  <2>3. c[i] = c[j]
    BY <1>2, <2>1, <2>2
  <2> QED BY <1>5, <1>7, <2>3
<1>9. ToSet(c) = Kept
  <2>1. ListsSet(c, Cardinality(Kept), Kept)
    BY <1>5 DEF ListsSet, n
  <2>2. \A y \in Kept : \E i \in 1..n : c[i] = y
    BY <1>4, <2>1, ListCovers DEF n
  <2> QED BY <1>7, <2>2 DEF ToSet
<1> QED BY <1>6, <1>7, <1>8, <1>9 DEF IsClause

\* Where propagate() is in a list of watchers.
LEMMA ScanPosition ==
  ASSUME TypeOK, Queue, Stored, Scanning, wi \in Nat, wi >= 1
  PROVE  /\ trail[at] \in Lit /\ at \in DOMAIN trail
         /\ wi \in DOMAIN Scanned /\ W = Scanned[wi]
         /\ W.cref \in Live /\ (Binary(db[W.cref]) <=> wbin) /\ IsClause(db[W.cref])
         /\ Watched(db[W.cref], trail[at])
         /\ W.blocker \in Lit /\ W.blocker \in ToSet(db[W.cref]) /\ W.blocker # -trail[at]
<1>1. at \in DOMAIN trail /\ trail[at] \in Lit
  <2>1. at \in Nat /\ at >= 1 /\ at <= Len(trail) /\ trail \in Seq(Lit)
    BY DEF Scanning, Queue, TypeOK
  <2> QED BY <2>1
<1>3. ASSUME NEW ws, NEW bin, WatchersOf(ws, db, Live, bin), Scanned = ws[trail[at]], bin <=> wbin
      PROVE  /\ wi \in DOMAIN Scanned /\ W.cref \in Live /\ (Binary(db[W.cref]) <=> wbin)
             /\ Watched(db[W.cref], trail[at])
             /\ W.blocker \in Lit /\ W.blocker \in ToSet(db[W.cref]) /\ W.blocker # -trail[at]
  <2> DEFINE T == [cref : Nat, blocker : Lit]
  <2>1. ws[trail[at]] \in Seq(T)
    BY <1>1, <1>3 DEF WatchersOf
  <2>2. wi \in DOMAIN ws[trail[at]]
    <3> HIDE DEF T
    <3> QED BY <1>3, <2>1 DEF Scanning
  <2>3. ws[trail[at]][wi] \in T
    <3> HIDE DEF T
    <3> QED BY <2>1, <2>2
  <2>4. W = ws[trail[at]][wi]
    BY <1>3 DEF W
  <2>5. WatcherOf(W, db, Live, bin, trail[at])
    BY <1>1, <1>3, <2>2, <2>4 DEF WatchersOf
  <2>6. W.blocker \in Lit
    BY <2>3, <2>4
  <2> QED BY <1>3, <2>2, <2>5, <2>6 DEF WatcherOf
<1>4. CASE wbin
  <2>1. WatchersOf(watchesBin, db, Live, TRUE) /\ Scanned = watchesBin[trail[at]]
    BY <1>4 DEF Stored, Scanned
  <2> QED BY <1>1, <1>3, <1>4, <2>1 DEF W, Stored, Holds
<1>5. CASE ~wbin
  <2>1. WatchersOf(watches, db, Live, FALSE) /\ Scanned = watches[trail[at]]
    BY <1>5 DEF Stored, Scanned
  <2> QED BY <1>1, <1>3, <1>5, <2>1 DEF W, Stored, Holds
<1> QED BY <1>4, <1>5

\* The clause with ~p in second place.
LEMMA TurnedFacts ==
  ASSUME TypeOK, Queue, Stored, Scanning, ~wbin, wi \in Nat, wi >= 1
  PROVE  /\ IsClause(Turned) /\ Alike(Turned, db[W.cref]) /\ Len(Turned) > 2
         /\ Turned[2] = -trail[at] /\ Turned[1] # -trail[at]
         /\ Turned[1] \in Lit /\ Turned[1] \in ToSet(db[W.cref])
<1> DEFINE c == db[W.cref]
<1>1. /\ trail[at] \in Lit /\ W.cref \in Live /\ ~Binary(c) /\ IsClause(c) /\ Watched(c, trail[at])
  BY ScanPosition
<1>2. Turned = IF c[1] = -trail[at] THEN Swap(c, 1, 2) ELSE c
  BY <1>1, TurnKeeps DEF Turned
<1> HIDE DEF c
<1>3. IsClause(Turned) /\ Alike(Turned, c)
  BY <1>1, <1>2, TurnKeeps, AlikeSelf
<1>4. Turned[2] = -trail[at]
  BY <1>1, <1>2, TurnKeeps DEF Watched
<1>5. Len(Turned) > 2
  BY <1>1, <1>3 DEF Alike, IsClause, Binary
<1>6. 1 \in DOMAIN Turned /\ 2 \in DOMAIN Turned
  BY <1>3 DEF IsClause
<1>7. Turned[1] # Turned[2] /\ Turned[1] \in Lit /\ Turned[1] \in ToSet(Turned)
  BY <1>3, <1>6 DEF IsClause, ToSet
<1> QED BY <1>3, <1>4, <1>5, <1>7 DEF Alike, c

\* The first literal that is not false and not watched.
LEMMA NewWatch ==
  ASSUME NewWatches # {}
  PROVE  Min(NewWatches) \in NewWatches
<1>1. NewWatches \in SUBSET Nat
  BY DEF NewWatches
<1>2. \E k \in NewWatches : \A j \in NewWatches : k <= j
  BY <1>1, LeastNat
<1> QED BY <1>2 DEF Min

\* There are no clauses at first.
LEMMA StoredInit == SolverInit => Stored
<1> SUFFICES ASSUME SolverInit PROVE Stored
  OBVIOUS
<1>1. db = <<>> /\ clauses = {} /\ learnts = {}
      /\ watches = [l \in Lit |-> <<>>] /\ watchesBin = [l \in Lit |-> <<>>]
  BY DEF SolverInit
<1>2. Live = {} /\ clauses \cap learnts = {} /\ DOMAIN db = {} /\ db \in Seq(Seq(Lit))
  BY <1>1 DEF Live
<1>3. Holds(db, Live)
  BY <1>2 DEF Holds
<1>4. ASSUME NEW bin PROVE WatchersOf([l \in Lit |-> <<>>], db, Live, bin)
  <2>1. [l \in Lit |-> <<>>] \in [Lit -> Seq([cref : Nat, blocker : Lit])]
    OBVIOUS
  <2>2. \A l \in Lit : DOMAIN [m \in Lit |-> <<>>][l] = {}
    OBVIOUS
  <2> QED BY <1>2, <2>1, <2>2 DEF WatchersOf, Once
<1> QED BY <1>1, <1>2, <1>3, <1>4 DEF Stored

\* The steps that write to the database.
DbStep == \/ AddLongClause \/ SLearn \/ ScanSatisfied \/ ScanMove \/ ScanUnitOrFalse \/ SAnalyzeUndo
          \/ Simplify \/ ReduceDB \/ AdaptSolver

\* No other step writes to it.
LEMMA DbUntouched ==
  ASSUME [SolverNext]_allVars, ~DbStep
  PROVE  UNCHANGED dbVars
BY DEF DbStep, dbVars, SolverNext, SearchStep, allVars, solverVars, SDequeue, ScanBinary, ScanNextList,
   SEngineStep, SEnqueue, Restart, GiveUp, Stop, AssumeHeld, Assume, AssumeFailed, PickBranch,
   ModelFound, Return, SConflictAtRoot, SStartAnalyze, SAnalyzeDone, SCancel, SCancelDone,
   AddRedundantClause, AddEmptyClause, AddUnitClause, SAddConstraint, Solve, EndScript, Finished

\* A new clause is stored and watched ...
LEMMA AllocStored ==
  ASSUME Stored, NEW c, IsClause(c), Alloc(c),
         \/ clauses' = clauses \cup {Len(db) + 1} /\ learnts' = learnts
         \/ learnts' = learnts \cup {Len(db) + 1} /\ clauses' = clauses
  PROVE  Stored'
<1>1. db' = Append(db, c) /\ Live' = Live \cup {Len(db) + 1}
  BY DEF Alloc, Live
<1>2. Holds(db', Live')
  BY <1>1, AttachKeeps DEF Stored
<1>3. WatchersOf(watches', db', Live', FALSE)
  <2>1. watches' = IF Binary(c) <=> FALSE THEN Attached(watches, Len(db) + 1, c) ELSE watches
    BY DEF Alloc
  <2> QED BY <1>1, <2>1, AttachKeeps DEF Stored
<1>4. WatchersOf(watchesBin', db', Live', TRUE)
  <2>1. watchesBin' = IF Binary(c) <=> TRUE THEN Attached(watchesBin, Len(db) + 1, c) ELSE watchesBin
    BY DEF Alloc
  <2> QED BY <1>1, <2>1, AttachKeeps DEF Stored
<1>5. Len(db) + 1 \notin Live
  BY DEF Stored, Holds
<1> QED BY <1>2, <1>3, <1>4, <1>5 DEF Stored, Live

\* ... and removed ones are in no list any more.
LEMMA RemoveStored ==
  ASSUME Stored, NEW S, RemoveClauses(S)
  PROVE  Stored'
<1>1. /\ db' = [cr \in DOMAIN db |-> IF cr \in S THEN <<>> ELSE db[cr]]
      /\ clauses' = clauses \ S /\ learnts' = learnts \ S /\ Live' = Live \ S
      /\ watches' = [l \in Lit |-> Without(S, watches[l])]
      /\ watchesBin' = [l \in Lit |-> Without(S, watchesBin[l])]
  BY DEF RemoveClauses, Live
<1>2. Holds(db', Live') /\ WatchersOf(watches', db', Live', FALSE)
  BY <1>1, RemoveKeeps DEF Stored
<1>3. WatchersOf(watchesBin', db', Live', TRUE)
  BY <1>1, RemoveKeeps DEF Stored
<1> QED BY <1>1, <1>2, <1>3 DEF Stored

\* A clause is put in another order, its two watched literals staying in front.
LEMMA ReorderStored ==
  ASSUME Stored, NEW cr \in Live, NEW c, IsClause(c), Alike(c, db[cr]),
         db' = [db EXCEPT ![cr] = c], UNCHANGED <<clauses, learnts, watchesBin>>
  PROVE  /\ Holds(db', Live') /\ clauses' \cap learnts' = {} /\ Live' = Live
         /\ WatchersOf(watches, db', Live', FALSE)
         /\ WatchersOf(watchesBin', db', Live', TRUE)
<1>1. Live' = Live
  BY DEF Live
<1> QED BY <1>1, RewriteHolds, ReorderKeeps DEF Stored

\* Every step leaves the clauses stored and watched as they should be.
LEMMA StoredStep ==
  ASSUME TypeOK, Queue, Literals, Stored, LearntIsClause, wi \in Nat, wi >= 1, [SolverNext]_allVars
  PROVE  Stored'
<1>1. CASE AddLongClause
  <2>1. PICK c \in SetToSeqs(Kept) : Alloc(c)
    BY <1>1 DEF AddLongClause
  <2>2. IsClause(c)
    BY <1>1, <2>1, KeptIsClause DEF AddLongClause, AddClauseCommon
  <2> QED BY <1>1, <2>1, <2>2, AllocStored DEF AddLongClause
<1>2. CASE SLearn
  <2>1. pc = "learn"
    BY <1>2 DEF SLearn, ELearn, Learn
  <2>2. CASE Len(learntLits) = 1
    BY <1>2, <2>2 DEF SLearn, dbVars, Stored, Live
  <2>3. CASE Len(learntLits) # 1
    BY <1>2, <2>1, <2>3, AllocStored DEF SLearn, LearntIsClause
  <2> QED BY <2>2, <2>3
<1>3. ASSUME Scanning, ~wbin, db' = [db EXCEPT ![W.cref] = Turned], watches' = SetBlocker(Turned[1]),
             UNCHANGED <<clauses, learnts, watchesBin>>
      PROVE  Stored'
  <2>1. W.cref \in Live /\ IsClause(Turned) /\ Alike(Turned, db[W.cref])
    BY <1>3, ScanPosition, TurnedFacts
  <2>2. /\ Holds(db', Live') /\ clauses' \cap learnts' = {} /\ Live' = Live
        /\ WatchersOf(watches, db', Live', FALSE)
        /\ WatchersOf(watchesBin', db', Live', TRUE)
    BY <1>3, <2>1, ReorderStored
  <2>3. trail[at] \in Lit /\ wi \in DOMAIN watches[trail[at]] /\ W = watches[trail[at]][wi]
    BY <1>3, ScanPosition DEF Scanned
  <2>4. db'[W.cref] = Turned
    BY <1>3, <2>1, RewriteHolds DEF Stored
  <2>5. Turned[1] \in Lit /\ Turned[1] \in ToSet(Turned) /\ Turned[1] # -trail[at]
    BY <1>3, TurnedFacts DEF Alike
  <2>6. watches' = [watches EXCEPT ![trail[at]][wi] = Watcher(watches[trail[at]][wi].cref, Turned[1])]
    BY <1>3, <2>3 DEF SetBlocker
  <2>7. WatchersOf(watches', db', Live', FALSE)
    BY <2>2, <2>3, <2>4, <2>5, <2>6, BlockerKeeps
  <2> QED BY <2>2, <2>7 DEF Stored
<1>4. CASE ScanSatisfied
  <2>1. CASE UNCHANGED <<db, watches>>
    BY <1>4, <2>1 DEF ScanSatisfied, Stored, Live
  <2>2. CASE db' = [db EXCEPT ![W.cref] = Turned] /\ watches' = SetBlocker(Turned[1])
    BY <1>3, <1>4, <2>2 DEF ScanSatisfied
  <2> QED BY <1>4, <2>1, <2>2 DEF ScanSatisfied
<1>5. CASE ScanUnitOrFalse
  BY <1>3, <1>5 DEF ScanUnitOrFalse, ScanVisit
<1>6. CASE ScanMove
  <2> DEFINE k == Min(NewWatches)
             c == Swap(Turned, 2, k)
             p == trail[at]
             c0 == db[W.cref]
  <2>1. Scanning /\ ~wbin /\ NewWatches # {}
    BY <1>6 DEF ScanMove, ScanVisit
  <2>2. /\ db' = [db EXCEPT ![W.cref] = c]
        /\ watches' = Push([watches EXCEPT ![p] = RemoveAt(@, wi)], -c[2], Watcher(W.cref, c[1]))
        /\ UNCHANGED <<clauses, learnts, watchesBin>>
    BY <1>6 DEF ScanMove, Swap
  <2>3. k \in 3..Len(Turned)
    BY <2>1, NewWatch DEF NewWatches
  <2> HIDE DEF k
  <2>4. /\ IsClause(Turned) /\ Alike(Turned, c0) /\ Len(Turned) > 2
        /\ Turned[2] = -p /\ Turned[1] # -p /\ Turned[1] \in Lit
    BY <2>1, TurnedFacts
  <2>5. /\ W.cref \in Live /\ p \in Lit /\ wi \in DOMAIN watches[p] /\ W = watches[p][wi]
        /\ ~Binary(c0) /\ Watched(c0, p) /\ IsClause(c0)
    BY <2>1, ScanPosition DEF Scanned
  <2>6. 1 \in DOMAIN Turned /\ 2 \in DOMAIN Turned /\ k \in DOMAIN Turned /\ k # 1 /\ k # 2
    BY <2>3, <2>4 DEF IsClause
  <2>7. /\ IsClause(c) /\ Len(c) = Len(Turned) /\ c[1] = Turned[1] /\ c[2] = Turned[k]
        /\ ToSet(c) = ToSet(Turned)
    BY <2>4, <2>6, SwapKeeps
  <2>8. Turned[k] # Turned[1] /\ Turned[k] # Turned[2] /\ Turned[k] \in Lit
    BY <2>4, <2>6 DEF IsClause
  <2>9. Watched(c0, -c[1]) /\ ~Watched(c0, -c[2])
    <3>1. /\ Watched(Turned, -c[1]) <=> Watched(c0, -c[1])
          /\ Watched(Turned, -c[2]) <=> Watched(c0, -c[2])
      BY <2>4, <2>7, <2>8, NegLit DEF Alike
    <3>2. -(-c[1]) = c[1] /\ -(-c[2]) = c[2]
      BY <2>4, <2>7, <2>8, NegLit
    <3> HIDE DEF c
    <3> QED BY <2>7, <2>8, <3>1, <3>2 DEF Watched
  <2>10. Len(c) = Len(c0) /\ ToSet(c) = ToSet(c0)
    BY <2>4, <2>7 DEF Alike
  <2>11. c[2] # -p /\ c[1] # -p
    BY <2>4, <2>7, <2>8
  <2> HIDE DEF c
  <2>12. /\ Holds([db EXCEPT ![W.cref] = c], Live)
         /\ WatchersOf(Push([watches EXCEPT ![p] = RemoveAt(@, wi)], -c[2], Watcher(W.cref, c[1])),
                       [db EXCEPT ![W.cref] = c], Live, FALSE)
    <3> DEFINE cr0 == watches[p][wi].cref
    <3>1. cr0 = W.cref
      BY <2>5
    <3>2. /\ Holds([db EXCEPT ![cr0] = c], Live)
          /\ WatchersOf(Push([watches EXCEPT ![p] = RemoveAt(@, wi)], -c[2], Watcher(cr0, c[1])),
                        [db EXCEPT ![cr0] = c], Live, FALSE)
      BY <2>5, <2>7, <2>9, <2>10, <2>11, MoveKeeps DEF Stored
    <3> QED BY <3>1, <3>2
  <2>13. Live' = Live
    BY <2>2 DEF Live
  <2>14. \A cr \in Live : Binary(db'[cr]) <=> Binary(db[cr])
    <3>1. db'[W.cref] = c /\ \A cr \in Live : cr # W.cref => db'[cr] = db[cr]
      BY SMTT(30), <2>2, <2>5, <2>7, RewriteHolds DEF Stored
    <3> QED BY <2>10, <3>1 DEF Binary
  <2>15. WatchersOf(watchesBin, db', Live, TRUE)
    <3>1. \A cr \in Live : cr # W.cref => db'[cr] = db[cr]
      BY SMTT(30), <2>2, <2>5, <2>7, RewriteHolds DEF Stored
    <3>2. \A l \in Lit : \A i \in DOMAIN watchesBin[l] : WatcherOf(watchesBin[l][i], db, Live, TRUE, l)
      BY DEF Stored, WatchersOf
    <3>3. \A l \in Lit : \A i \in DOMAIN watchesBin[l] : WatcherOf(watchesBin[l][i], db', Live, TRUE, l)
      BY <2>5, <3>1, <3>2 DEF WatcherOf
    <3>4. \A cr \in Live : Binary(db'[cr]) => db'[cr] = db[cr]
      BY <2>5, <2>14, <3>1
    <3> QED BY <3>3, <3>4 DEF Stored, WatchersOf
  <2> QED BY <2>2, <2>12, <2>13, <2>15 DEF Stored
<1>7. CASE SAnalyzeUndo
  <2>0. UNCHANGED <<clauses, learnts, watches, watchesBin>> /\ Live' = Live
    BY <1>7 DEF SAnalyzeUndo, Live
  <2>1. CASE db' = db
    BY <2>0, <2>1 DEF Stored
  <2>2. CASE db' # db
    <3> DEFINE cr == reason[VarOf(trail[index])]
               c == db[cr]
    <3>1. db' = TrueFirst(cr)
      BY <1>7, <2>2 DEF SAnalyzeUndo
    <3>2. Binary(c) /\ db' = [db EXCEPT ![cr] = <<c[2], c[1]>>]
      BY <2>2, <3>1 DEF TrueFirst
    <3>3. db \in Seq(Seq(Lit)) /\ \A d \in (DOMAIN db) \ Live : ~Binary(db[d])
      <4>1. \A d \in (DOMAIN db) \ Live : db[d] = <<>>
        BY DEF Stored, Holds
      <4>2. ~Binary(<<>>)
        BY DEF Binary
      <4> QED BY <4>1, <4>2 DEF Stored, Holds
    <3> HIDE DEF cr
    <3>4. cr \in DOMAIN db
      BY <2>2, <3>2, <3>3
    <3>5. cr \in Live /\ IsClause(c)
      BY <3>2, <3>3, <3>4 DEF Stored, Holds
    <3>6. /\ <<c[2], c[1]>> = Swap(c, 1, 2)
          /\ IsClause(Swap(c, 1, 2)) /\ Alike(Swap(c, 1, 2), c)
      BY <3>2, <3>5, TurnKeeps DEF Binary
    <3> QED BY <2>0, <3>2, <3>5, <3>6, ReorderStored DEF Stored
  <2> QED BY <2>1, <2>2
<1>8. CASE Simplify \/ ReduceDB \/ AdaptSolver
  <2>1. \E S : RemoveClauses(S)
    BY <1>8 DEF Simplify, ReduceDB, AdaptSolver
  <2> QED BY <2>1, RemoveStored
<1>9. CASE ~DbStep
  BY <1>9, DbUntouched DEF dbVars, Stored, Live
<1> QED BY <1>1, <1>2, <1>4, <1>5, <1>6, <1>7, <1>8, <1>9 DEF DbStep
-----------------------------------------------------------------------------
(***************************************************************************)
(* Reasons.                                                                *)
(***************************************************************************)
\* trail[i] was implied by the clause cr, which d holds: it is in the clause,
\* first if that is a long one, and the others were false before.
FromClause(cr, i, d, tr, L) ==
  /\ cr \in L /\ tr[i] \in ToSet(d[cr])
  /\ ~Binary(d[cr]) => d[cr][1] = tr[i]
  /\ \A q \in ToSet(d[cr]) \ {tr[i]} : \E j \in 1..(i - 1) : tr[j] = -q

\* trail[i] is above level 0.
Above(i) == trail_lim # <<>> /\ i > trail_lim[1]

\* The first literal of a level.
Decision(i) == \E k \in DOMAIN trail_lim : i = trail_lim[k] + 1

\* What is above level 0 was implied by a clause or a constraint or decided.
Reasoned ==
  /\ reason \in [Var -> Nat]
  /\ \A i \in DOMAIN trail : Above(i) =>
       IF reason[VarOf(trail[i])] # CRef_Undef
       THEN FromClause(reason[VarOf(trail[i])], i, db, trail, Live)
       ELSE nc_reason[VarOf(trail[i])] # 0 \/ Decision(i)

\* The clauses that are reasons stay as they are, but for the order of literals.
LEMMA ReasonedFrame ==
  ASSUME Reasoned, UNCHANGED <<trail, trail_lim, reason, nc_reason>>, Live \subseteq Live',
         \A cr \in Live :
           /\ ToSet(db'[cr]) = ToSet(db[cr]) /\ Len(db'[cr]) = Len(db[cr])
           /\ db'[cr][1] = db[cr][1] \/ Binary(db[cr])
                \/ \A i \in DOMAIN trail : db[cr][1] # trail[i]
  PROVE  Reasoned'
<1>1. ASSUME NEW i \in DOMAIN trail, NEW cr, FromClause(cr, i, db, trail, Live)
      PROVE  FromClause(cr, i, db', trail, Live')
  BY <1>1 DEF FromClause, Binary
<1> QED BY <1>1 DEF Reasoned, Above, Decision

\* Nor is anything lost when nothing of it changes.
LEMMA ReasonedSame ==
  ASSUME Reasoned, UNCHANGED <<trail, trail_lim, reason, nc_reason, db, clauses, learnts>>
  PROVE  Reasoned'
BY DEF Reasoned, Above, Decision, Live

\* A literal and its negation are not both on the trail.
LEMMA TrailConsistent ==
  ASSUME TypeOK, TrailOK
  PROVE  /\ \A i, j \in DOMAIN trail : trail[i] # -trail[j]
         /\ \A l : IsFalse(l) <=> \E j \in DOMAIN trail : trail[j] = -l
         /\ \A l : IsTrue(l) <=> \E j \in DOMAIN trail : trail[j] = l
<1>1. \A i \in DOMAIN trail : trail[i] \in Lit
  BY DEF TypeOK
<1>2. ASSUME NEW i \in DOMAIN trail, NEW j \in DOMAIN trail, trail[i] = -trail[j] PROVE FALSE
  <2>1. VarOf(trail[i]) = VarOf(trail[j]) /\ trail[i] # trail[j]
    BY <1>1, <1>2, VarOfLit, NegLit
  <2> QED BY <2>1 DEF TrailOK
<1>3. \A l : (l \in assigns <=> \E j \in DOMAIN trail : trail[j] = l)
  BY DEF TrailOK
<1> QED BY <1>2, <1>3 DEF IsTrue, IsFalse

\* The steps in which a literal is implied, or analyze() and propagate() write
\* to the clauses.
ReasonStep == \/ AddLongClause \/ AddUnitClause \/ ScanBinary \/ ScanSatisfied \/ ScanMove
              \/ ScanUnitOrFalse \/ SEnqueue \/ Simplify \/ ReduceDB \/ AdaptSolver
              \/ Assume \/ PickBranch \/ AssumeHeld \/ SAnalyzeUndo \/ SCancel \/ SCancelDone \/ SLearn

\* No other step touches what reasons are about.
LEMMA ReasonUntouched ==
  ASSUME [SolverNext]_allVars, ~ReasonStep
  PROVE  UNCHANGED <<trail, trail_lim, reason, nc_reason, db, clauses, learnts>>
<1>1. ASSUME UNCHANGED solverVars \/ UNCHANGED <<dbVars, varVars>> \/ UNCHANGED <<dbVars, reason>>
      PROVE  UNCHANGED <<reason, db, clauses, learnts>>
  BY <1>1 DEF solverVars, dbVars, varVars
<1>2. ASSUME \/ UNCHANGED vars \/ UNCHANGED <<trailVars, engineVars>>
             \/ UNCHANGED engineVars /\
                  \/ AddEmpty \/ Dequeue \/ ClauseConflict \/ ClausesDone \/ CallsDone \/ Drain \/ DrainDone
                  \/ ConflictAtRoot \/ StartAnalyze \/ (\E l : StartCancel(l) \/ AnalyzeDone(l))
             \/ EAddConstraint \/ EInitialized \/ EReturnTrue \/ EReturnFalse \/ (\E c : ECall(c))
      PROVE  UNCHANGED <<trail, trail_lim, nc_reason>>
  BY <1>2 DEF vars, trailVars, engineVars, AddEmpty, Dequeue, ClauseConflict, ClausesDone, CallsDone, Drain,
     DrainDone, ConflictAtRoot, StartAnalyze, EAddConstraint, AddConstraint, EInitialized, Initialized,
     EReturnTrue, ReturnTrue, EReturnFalse, ReturnFalse, ECall, Call, StartCancel, AnalyzeDone, Leave
<1>3. CASE SDequeue \/ ScanNextList \/ SEngineStep
  BY <1>1, <1>2, <1>3 DEF SDequeue, ScanNextList, SEngineStep
<1>4. CASE Restart \/ GiveUp \/ AssumeFailed \/ ModelFound \/ Return
  BY <1>1, <1>2, <1>4 DEF Restart, GiveUp, AssumeFailed, ModelFound, Return, Stop
<1>5. CASE SConflictAtRoot \/ SStartAnalyze \/ SAnalyzeDone
  BY <1>1, <1>2, <1>5 DEF SConflictAtRoot, SStartAnalyze, SAnalyzeDone
<1>6. CASE AddRedundantClause \/ AddEmptyClause \/ Solve \/ EndScript \/ SAddConstraint
  BY <1>1, <1>2, <1>6 DEF AddRedundantClause, AddEmptyClause, Solve, EndScript, SAddConstraint
<1>7. CASE Finished \/ UNCHANGED allVars
  BY <1>1, <1>2, <1>7 DEF Finished, allVars
<1> QED BY <1>3, <1>4, <1>5, <1>6, <1>7 DEF ReasonStep, SolverNext, SearchStep

\* Nothing is on the trail at first.
LEMMA ReasonedInit == SolverInit => Reasoned
BY DEF SolverInit, EngineInit, Init, Reasoned, CRef_Undef

\* One more literal on the trail.
LEMMA ReasonedPush ==
  ASSUME TypeOK, TrailOK, Reasoned, nc_reason \in [Var -> 0..NConstr], NEW l \in Lit, IsUndef(l), Enqueue(l),
         NEW cr \in Nat, NEW nc \in Nat, reason' = [reason EXCEPT ![VarOf(l)] = cr],
         nc_reason' = [nc_reason EXCEPT ![VarOf(l)] = nc], Live \subseteq Live',
         NEW n \in Nat, n = Len(trail), trail_lim' = trail_lim \/ trail_lim' = Append(trail_lim, n),
         \A i \in DOMAIN trail : \A r : FromClause(r, i, db, trail, Live) => FromClause(r, i, db', trail, Live'),
         Above(n + 1)' => IF cr # CRef_Undef THEN FromClause(cr, n + 1, db', trail', Live')
                                             ELSE nc # 0 \/ Decision(n + 1)'
  PROVE  Reasoned'
<1>1. /\ trail \in Seq(Lit) /\ DOMAIN trail = 1..n /\ n \in Nat
      /\ trail_lim \in Seq(Nat) /\ DOMAIN trail_lim = 1..decisionLevel /\ decisionLevel \in Nat
      /\ decisionLevel = Len(trail_lim)
      /\ \A i \in DOMAIN trail : trail[i] \in Lit /\ VarOf(trail[i]) \in Var
  BY TrailFacts
<1>2. /\ trail' \in Seq(Lit) /\ Len(trail') = n + 1 /\ trail'[n + 1] = l
      /\ \A i \in DOMAIN trail : trail'[i] = trail[i]
  BY EnqueueTrail
<1>3. DOMAIN trail' = 1..(n + 1) /\ \A i \in DOMAIN trail' : i \in DOMAIN trail \/ i = n + 1
  BY <1>1, <1>2
<1>4. VarOf(l) \in Var
  BY VarOfLit
<1>5. ASSUME NEW i \in DOMAIN trail PROVE VarOf(trail[i]) # VarOf(l)
  <2>1. trail[i] \in assigns
    BY DEF TrailOK
  <2> QED BY <1>1, <2>1, VarOfLit DEF IsUndef, IsTrue, IsFalse
<1>6. reason' \in [Var -> Nat] /\ reason'[VarOf(l)] = cr /\ nc_reason'[VarOf(l)] = nc
  BY <1>4 DEF Reasoned
<1>7. \A i \in DOMAIN trail : /\ reason'[VarOf(trail'[i])] = reason[VarOf(trail[i])]
                              /\ nc_reason'[VarOf(trail'[i])] = nc_reason[VarOf(trail[i])]
  BY <1>1, <1>2, <1>5 DEF Reasoned
<1>8. ASSUME NEW i \in DOMAIN trail, Above(i)' PROVE Above(i)
  <2>1. CASE trail_lim' = trail_lim
    BY <1>8, <2>1 DEF Above
  <2>2. CASE trail_lim' = Append(trail_lim, n)
    <3>1. CASE trail_lim = <<>>
      <4>1. trail_lim'[1] = n
        BY <1>1, <2>2, <3>1
      <4>2. i > n /\ i \in 1..n
        BY <1>1, <1>8, <4>1 DEF Above
      <4> QED BY <1>1, <4>2
    <3>2. CASE trail_lim # <<>>
      <4>1. trail_lim'[1] = trail_lim[1]
        BY <1>1, <2>2, <3>2
      <4> QED BY <1>8, <3>2, <4>1 DEF Above
    <3> QED BY <3>1, <3>2
  <2> QED BY <2>1, <2>2
<1>9. ASSUME NEW i \in DOMAIN trail, Decision(i) PROVE Decision(i)'
  <2>1. PICK k \in DOMAIN trail_lim : i = trail_lim[k] + 1
    BY <1>9 DEF Decision
  <2>2. k \in DOMAIN trail_lim' /\ trail_lim'[k] = trail_lim[k]
    BY <1>1, <2>1
  <2> QED BY <2>1, <2>2 DEF Decision
<1>10. ASSUME NEW i \in DOMAIN trail, NEW r, FromClause(r, i, db', trail, Live')
       PROVE  FromClause(r, i, db', trail', Live')
  <2>1. i \in 1..n /\ n \in Nat
    BY <1>1
  <2>2. \A j \in 1..(i - 1) : j \in 1..n
    BY <2>1
  <2>3. trail'[i] = trail[i] /\ \A j \in 1..(i - 1) : trail'[j] = trail[j]
    BY <1>1, <1>2, <2>2
  <2> QED BY <1>10, <2>3 DEF FromClause
<1>11. ASSUME NEW i \in DOMAIN trail, Above(i)'
       PROVE  IF reason'[VarOf(trail'[i])] # CRef_Undef
              THEN FromClause(reason'[VarOf(trail'[i])], i, db', trail', Live')
              ELSE nc_reason'[VarOf(trail'[i])] # 0 \/ Decision(i)'
  <2>1. IF reason[VarOf(trail[i])] # CRef_Undef
        THEN FromClause(reason[VarOf(trail[i])], i, db, trail, Live)
        ELSE nc_reason[VarOf(trail[i])] # 0 \/ Decision(i)
    BY <1>8, <1>11 DEF Reasoned
  <2> QED BY <1>7, <1>9, <1>10, <2>1
<1>12. ASSUME Above(n + 1)'
       PROVE  IF reason'[VarOf(trail'[n + 1])] # CRef_Undef
              THEN FromClause(reason'[VarOf(trail'[n + 1])], n + 1, db', trail', Live')
              ELSE nc_reason'[VarOf(trail'[n + 1])] # 0 \/ Decision(n + 1)'
  BY <1>2, <1>6, <1>12
<1>13. ASSUME NEW i \in DOMAIN trail', Above(i)'
       PROVE  IF reason'[VarOf(trail'[i])] # CRef_Undef
              THEN FromClause(reason'[VarOf(trail'[i])], i, db', trail', Live')
              ELSE nc_reason'[VarOf(trail'[i])] # 0 \/ Decision(i)'
  <2>1. CASE i \in DOMAIN trail
    BY <1>11, <1>13, <2>1
  <2>2. CASE i = n + 1
    BY <1>12, <1>13, <2>2
  <2> QED BY <1>3, <2>1, <2>2
<1> QED BY <1>6, <1>13 DEF Reasoned

\* At level 0 nothing needs a reason.
LEMMA ReasonedRoot ==
  ASSUME TypeOK, trail_lim' = trail_lim, decisionLevel = 0, reason' \in [Var -> Nat]
  PROVE  Reasoned'
<1>1. trail_lim' = <<>>
  BY DEF TypeOK, decisionLevel
<1> QED BY <1>1 DEF Reasoned, Above

\* propagate() leaves the first literal of a clause alone if it is true.
LEMMA ScanFrame ==
  ASSUME TypeOK, TrailOK, Queue, Stored, Scanning, ~wbin, wi \in Nat, wi >= 1,
         NEW c, IsClause(c), ToSet(c) = ToSet(Turned), Len(c) = Len(Turned), c[1] = Turned[1],
         db' = [db EXCEPT ![W.cref] = c]
  PROVE  \A cr \in Live :
           /\ ToSet(db'[cr]) = ToSet(db[cr]) /\ Len(db'[cr]) = Len(db[cr])
           /\ db'[cr][1] = db[cr][1] \/ Binary(db[cr])
                \/ \A i \in DOMAIN trail : db[cr][1] # trail[i]
<1>1. at \in DOMAIN trail /\ W.cref \in Live
  BY ScanPosition
<1>2. ToSet(c) = ToSet(db[W.cref]) /\ Len(c) = Len(db[W.cref])
  BY TurnedFacts DEF Alike
<1>3. db'[W.cref] = c /\ \A cr \in Live : cr # W.cref => db'[cr] = db[cr]
  BY <1>1, RewriteHolds DEF Stored
<1>4. ASSUME NEW i \in DOMAIN trail, db[W.cref][1] = trail[i] PROVE c[1] = db[W.cref][1]
  <2>1. trail[i] # -trail[at]
    BY <1>1, TrailConsistent
  <2> QED BY <1>4, <2>1 DEF Turned
<1> QED BY <1>2, <1>3, <1>4

\* ... and so is the clause whose last literal it implies.
LEMMA ScanFromClause ==
  ASSUME TypeOK, TrailOK, Reasoned, NEW n \in Nat, n = Len(trail), NEW l \in Lit, trail'[n + 1] = l,
         \A j \in 1..n : trail'[j] = trail[j],
         NEW cr \in Live', l \in ToSet(db'[cr]), ~Binary(db'[cr]) => db'[cr][1] = l,
         \A q \in ToSet(db'[cr]) \ {l} : IsFalse(q)
  PROVE  FromClause(cr, n + 1, db', trail', Live')
<1>1. DOMAIN trail = 1..n
  BY DEF TypeOK
<1>2. ASSUME NEW q \in ToSet(db'[cr]) \ {l} PROVE \E j \in 1..(n + 1 - 1) : trail'[j] = -q
  <2>1. PICK j \in DOMAIN trail : trail[j] = -q
    BY TrailConsistent
  <2>2. j \in 1..(n + 1 - 1) /\ trail'[j] = trail[j]
    BY <1>1
  <2> QED BY <2>1, <2>2
<1> QED BY <1>2 DEF FromClause

\* The learnt clause on its way from analyze() to search(): the asserting
\* literal, then false ones of levels that cancelUntil() leaves, the second of
\* the level it goes back to.
Learning == pc \in {"cancel", "learn"} /\ learnt # lit_Undef

Asserting ==
  IF Learning
  THEN /\ learntLits \in Seq(Lit) /\ Len(learntLits) >= 1 /\ learntLits[1] = learnt
       /\ Len(learntLits) # 1 => IsClause(learntLits)
       /\ \A k \in 2..Len(learntLits) : \E i \in DOMAIN trail :
            trail[i] = -learntLits[k] /\ (pc = "cancel" => i <= trail_lim[target + 1])
       /\ IF Len(learntLits) = 1 THEN target = 0
          ELSE level[VarOf(learntLits[2])] = target
       /\ pc = "learn" => decisionLevel = target
  ELSE learntLits = <<>>

\* The clause about to be attached, once cancelUntil() is done.
LEMMA LearntClause ==
  ASSUME Base, Asserting, pc = "learn"
  PROVE  /\ learntLits \in Seq(Lit) /\ Len(learntLits) >= 1 /\ learntLits[1] = learnt
         /\ Len(learntLits) # 1 => IsClause(learntLits)
         /\ \A k \in 2..Len(learntLits) : IsFalse(learntLits[k])
         /\ decisionLevel = target
         /\ IF Len(learntLits) = 1 THEN target = 0 ELSE level[VarOf(learntLits[2])] = target
<1>1. Learning
  BY DEF Learning, Base, Backtrack, Lit, lit_Undef
<1>2. \A k \in 2..Len(learntLits) : \E i \in DOMAIN trail : trail[i] = -learntLits[k]
  BY <1>1 DEF Asserting
<1>3. \A k \in 2..Len(learntLits) : IsFalse(learntLits[k])
  BY <1>2, TrailConsistent DEF Base
<1> QED BY <1>1, <1>3 DEF Asserting

\* It can be stored.
LEMMA LearntWellFormed == Base /\ Asserting => LearntIsClause
BY LearntClause DEF LearntIsClause

\* Every step leaves each literal above level 0 with the reason it had, or gives it one.
LEMMA ReasonedStep ==
  ASSUME Base, Blamed, Layered, Literals, Stored, Asserting, Reasoned, wi \in Nat, wi >= 1, [SolverNext]_allVars
  PROVE  Reasoned'
<1>0. TypeOK /\ TrailOK /\ Levels /\ Queue /\ Backtrack
  BY DEF Base
<1>n. PICK n \in Nat : n = Len(trail)
  BY <1>0, TrailFacts
<1>1. /\ trail \in Seq(Lit) /\ DOMAIN trail = 1..n /\ n \in Nat
      /\ trail_lim \in Seq(Nat) /\ DOMAIN trail_lim = 1..decisionLevel /\ decisionLevel \in Nat
      /\ decisionLevel = Len(trail_lim)
      /\ \A i \in DOMAIN trail : trail[i] \in Lit /\ VarOf(trail[i]) \in Var
  BY <1>0, <1>n, TrailFacts
<1>2. nc_reason \in [Var -> 0..NConstr] /\ reason \in [Var -> Nat]
  BY DEF Blamed, Reasoned
<1>3. db \in Seq(Seq(Lit)) /\ Len(db) \in Nat /\ DOMAIN db = 1..Len(db) /\ Live \subseteq DOMAIN db
      /\ \A cr \in Live : IsClause(db[cr]) /\ cr \in Nat /\ cr # CRef_Undef
  BY DEF Stored, Holds, CRef_Undef
\* Appending a clause.
<1>4. ASSUME NEW c, Alloc(c)
      PROVE  /\ \A cr \in Live : db'[cr] = db[cr]
             /\ db'[Len(db) + 1] = c
  BY <1>3, <1>4 DEF Alloc
<1>5. CASE AddLongClause
  <2>1. \E c : Alloc(c)
    BY <1>5 DEF AddLongClause
  <2>2. \A cr \in Live : db'[cr] = db[cr]
    BY <1>4, <2>1
  <2>3. UNCHANGED <<trail, trail_lim, reason, nc_reason>> /\ Live \subseteq Live'
    BY <1>5 DEF AddLongClause, vars, trailVars, engineVars, varVars, Live
  <2> QED BY <2>2, <2>3, ReasonedFrame
<1>6. CASE AddUnitClause
  <2>1. PICK l : EAddUnit(l) /\ SetVar(l, CRef_Undef, 0)
    BY <1>6 DEF AddUnitClause
  <2>2. decisionLevel = 0 /\ trail_lim' = trail_lim
    BY <2>1 DEF EAddUnit, AddUnit
  <2>3. reason' \in [Var -> Nat]
    BY <1>2, <2>1 DEF SetVar, CRef_Undef
  <2> QED BY <1>0, <2>2, <2>3, ReasonedRoot
<1>7. CASE Simplify \/ AdaptSolver
  <2>1. decisionLevel = 0 /\ trail_lim' = trail_lim
    BY <1>7 DEF Simplify, AdaptSolver, vars, trailVars
  <2>2. \E S : RemoveClauses(S)
    BY <1>7 DEF Simplify, AdaptSolver
  <2>3. reason' \in [Var -> Nat]
    BY <1>2, <2>2 DEF RemoveClauses, CRef_Undef
  <2> QED BY <1>0, <2>1, <2>3, ReasonedRoot
\* A literal implied by a clause.
<1>8. ASSUME NEW l, NEW cr \in Live', ImplyFrom(cr, l), Live' = Live,
             \A d \in Live :
               /\ ToSet(db'[d]) = ToSet(db[d]) /\ Len(db'[d]) = Len(db[d])
               /\ db'[d][1] = db[d][1] \/ Binary(db[d])
                    \/ \A i \in DOMAIN trail : db[d][1] # trail[i],
             l \in ToSet(db'[cr]), ~Binary(db'[cr]) => db'[cr][1] = l,
             \A q \in ToSet(db'[cr]) \ {l} : IsFalse(q)
      PROVE  Reasoned'
  <2>1. /\ l \in Lit /\ IsUndef(l) /\ Enqueue(l) /\ trail_lim' = trail_lim
        /\ reason' = [reason EXCEPT ![VarOf(l)] = cr]
        /\ nc_reason' = [nc_reason EXCEPT ![VarOf(l)] = 0]
    BY <1>8 DEF ImplyFrom, EImplyByClause, Imply, Unconstrained, IsUndef, SetVar
  <2>2. trail'[n + 1] = l /\ \A i \in DOMAIN trail : trail'[i] = trail[i]
    BY <1>0, <1>n, <2>1, EnqueueTrail
  <2>3. FromClause(cr, n + 1, db', trail', Live')
    BY <1>0, <1>n, <1>1, <1>8, <2>1, <2>2, ScanFromClause
  <2>4. ASSUME NEW i \in DOMAIN trail, NEW r, FromClause(r, i, db, trail, Live)
        PROVE  FromClause(r, i, db', trail, Live')
    BY <1>8, <2>4 DEF FromClause, Binary
  <2>5. cr \in Nat /\ cr # CRef_Undef
    BY <1>3, <1>8
  <2> QED BY <1>0, <1>1, <1>2, <1>8, <2>1, <2>3, <2>4, <2>5, <1>n, ReasonedPush
<1>9. CASE ScanBinary
  <2>1. CASE ImplyFrom(W.cref, W.blocker)
    <3>1. Scanning /\ wbin /\ UNCHANGED <<db, clauses, learnts>> /\ Live' = Live
      BY <1>9 DEF ScanBinary, dbVars, Live
    <3>2. /\ trail[at] \in Lit /\ at \in DOMAIN trail
          /\ W.cref \in Live /\ Binary(db[W.cref]) /\ IsClause(db[W.cref])
          /\ Watched(db[W.cref], trail[at])
          /\ W.blocker \in Lit /\ W.blocker \in ToSet(db[W.cref]) /\ W.blocker # -trail[at]
      BY <1>0, <3>1, ScanPosition
    <3>3. \A q \in ToSet(db[W.cref]) : q = W.blocker \/ q = -trail[at]
      BY <3>2 DEF ToSet, IsClause, Binary, Watched
    <3>4. IsFalse(-trail[at])
      <4>1. -(-trail[at]) = trail[at]
        BY <3>2, NegLit
      <4> QED BY <1>0, <3>2, <4>1, TrailConsistent
    <3> QED BY <1>8, <2>1, <3>1, <3>2, <3>3, <3>4
  <2>2. CASE ~ImplyFrom(W.cref, W.blocker)
    BY <1>9, <2>2, ReasonedSame DEF ScanBinary, vars, trailVars, engineVars, varVars, dbVars,
       SClauseConflict, ClauseConflict
  <2> QED BY <2>1, <2>2
<1>10. CASE ScanSatisfied
  <2>1. Scanning /\ ~wbin /\ Live' = Live /\ UNCHANGED <<trail, trail_lim, reason, nc_reason>>
    BY <1>10 DEF ScanSatisfied, vars, trailVars, engineVars, varVars, Live
  <2>2. CASE db' = db
    BY <2>1, <2>2, ReasonedFrame
  <2>3. CASE db' = [db EXCEPT ![W.cref] = Turned]
    <3>1. IsClause(Turned)
      BY <1>0, <2>1, TurnedFacts
    <3> QED BY <1>0, <2>1, <2>3, <3>1, ScanFrame, ReasonedFrame
  <2> QED BY <1>10, <2>2, <2>3 DEF ScanSatisfied
<1>11. CASE ScanMove
  <2> DEFINE k == Min(NewWatches)
             c == Swap(Turned, 2, k)
  <2>1. /\ Scanning /\ ~wbin /\ Live' = Live /\ UNCHANGED <<trail, trail_lim, reason, nc_reason>>
        /\ db' = [db EXCEPT ![W.cref] = c] /\ NewWatches # {}
    BY <1>11 DEF ScanMove, ScanVisit, vars, trailVars, engineVars, varVars, Live, Swap
  <2>2. k \in 3..Len(Turned)
    BY <2>1, NewWatch DEF NewWatches
  <2>3. IsClause(Turned) /\ Len(Turned) > 2
    BY <1>0, <2>1, TurnedFacts
  <2> HIDE DEF k
  <2>4. 1 \in DOMAIN Turned /\ 2 \in DOMAIN Turned /\ k \in DOMAIN Turned /\ 1 # 2 /\ 1 # k
    BY <2>2, <2>3 DEF IsClause
  <2>5. IsClause(c) /\ Len(c) = Len(Turned) /\ ToSet(c) = ToSet(Turned) /\ c[1] = Turned[1]
    BY <2>3, <2>4, SwapKeeps
  <2> HIDE DEF c
  <2> QED BY <1>0, <2>1, <2>5, ScanFrame, ReasonedFrame
<1>12. CASE ScanUnitOrFalse
  <2>1. /\ Scanning /\ ~wbin /\ Live' = Live /\ NewWatches = {}
        /\ db' = [db EXCEPT ![W.cref] = Turned]
    BY <1>12 DEF ScanUnitOrFalse, ScanVisit, Live
  <2>2. /\ IsClause(Turned) /\ Alike(Turned, db[W.cref]) /\ Len(Turned) > 2
        /\ Turned[2] = -trail[at] /\ Turned[1] \in Lit /\ trail[at] \in Lit /\ at \in DOMAIN trail
        /\ W.cref \in Live
    BY <1>0, <2>1, TurnedFacts, ScanPosition
  <2>3. \A d \in Live :
           /\ ToSet(db'[d]) = ToSet(db[d]) /\ Len(db'[d]) = Len(db[d])
           /\ db'[d][1] = db[d][1] \/ Binary(db[d])
                \/ \A i \in DOMAIN trail : db[d][1] # trail[i]
    BY <1>0, <2>1, <2>2, ScanFrame
  <2>4. CASE ImplyFrom(W.cref, Turned[1])
    <3>1. db'[W.cref] = Turned
      BY <2>1, <2>2, RewriteHolds DEF Stored
    <3>2. IsFalse(Turned[2])
      <4>1. -(-trail[at]) = trail[at]
        BY <2>2, NegLit
      <4> QED BY <1>0, <2>2, <4>1, TrailConsistent
    <3>3. ASSUME NEW q \in ToSet(Turned), q # Turned[1] PROVE IsFalse(q)
      <4>1. PICK k \in DOMAIN Turned : q = Turned[k]
        BY <3>3 DEF ToSet
      <4>2. k = 1 \/ k = 2 \/ k \in 3..Len(Turned)
        BY <2>2 DEF IsClause
      <4> QED BY <2>1, <3>2, <3>3, <4>1, <4>2 DEF NewWatches
    <3>4. Turned[1] \in ToSet(Turned)
      BY <2>2 DEF IsClause, ToSet
    <3> QED BY <1>8, <2>1, <2>2, <2>3, <2>4, <3>1, <3>3, <3>4
  <2>5. CASE ~ImplyFrom(W.cref, Turned[1])
    <3>1. UNCHANGED <<trail, trail_lim, reason, nc_reason>>
      BY <1>12, <2>5 DEF ScanUnitOrFalse, SClauseConflict, ClauseConflict, engineVars, varVars
    <3> QED BY <2>1, <2>3, <3>1, ReasonedFrame
  <2> QED BY <2>4, <2>5
\* Steps that push a literal and write no clause.
<1>13. ASSUME NEW i \in DOMAIN trail, NEW r, UNCHANGED <<db, clauses, learnts>>, FromClause(r, i, db, trail, Live)
       PROVE  FromClause(r, i, db', trail, Live')
  BY <1>13 DEF Live
<1>14. CASE SEnqueue
  <2>1. /\ Head(enq) \in Lit /\ IsUndef(Head(enq)) /\ Enqueue(Head(enq)) /\ trail_lim' = trail_lim
        /\ reason' = [reason EXCEPT ![VarOf(Head(enq))] = CRef_Undef]
        /\ nc_reason' = [nc_reason EXCEPT ![VarOf(Head(enq))] = Running]
        /\ pc \in {"init", "called"} /\ UNCHANGED <<db, clauses, learnts>> /\ Live' = Live
    BY <1>14 DEF SEnqueue, EEnqueue, Imply, SetVar, IsUndef, dbVars, Live
  <2>2. Running # 0 /\ Running \in Nat
    BY <1>0, <2>1, RunningIsConstr DEF Constr
  <2>3. CRef_Undef \in Nat
    BY DEF CRef_Undef
  <2>4. PICK nc \in Nat : nc = Running
    BY <2>2
  <2>5. PICK l : l = Head(enq)
    OBVIOUS
  <2>6. /\ l \in Lit /\ IsUndef(l) /\ Enqueue(l) /\ trail_lim' = trail_lim
        /\ reason' = [reason EXCEPT ![VarOf(l)] = CRef_Undef]
        /\ nc_reason' = [nc_reason EXCEPT ![VarOf(l)] = nc] /\ nc # 0 /\ Live \subseteq Live'
    BY <2>1, <2>2, <2>4, <2>5
  <2>7. \A i \in DOMAIN trail : \A r : FromClause(r, i, db, trail, Live) => FromClause(r, i, db', trail, Live')
    BY <1>13, <2>1
  <2>8. PICK cr \in Nat : cr = CRef_Undef
    BY <2>3
  <2>9. reason' = [reason EXCEPT ![VarOf(l)] = cr]
    BY <2>6, <2>8
  <2>10. Above(n + 1)' => IF cr # CRef_Undef THEN FromClause(cr, n + 1, db', trail', Live')
                                             ELSE nc # 0 \/ Decision(n + 1)'
    BY <2>6, <2>8
  <2> QED BY <1>0, <1>2, <2>6, <2>7, <2>9, <2>10, <1>n, ReasonedPush
<1>15. ASSUME NEW l \in Lit, EDecide(l), reason' = [reason EXCEPT ![VarOf(l)] = CRef_Undef], UNCHANGED dbVars
       PROVE  Reasoned'
  <2>1. /\ IsUndef(l) /\ Enqueue(l) /\ trail_lim' = Append(trail_lim, n)
        /\ nc_reason' = [nc_reason EXCEPT ![VarOf(l)] = 0]
        /\ UNCHANGED <<db, clauses, learnts>> /\ Live' = Live
    BY <1>15, <1>n DEF EDecide, Decide, Unconstrained, dbVars, Live
  <2>2. CRef_Undef \in Nat
    BY DEF CRef_Undef
  <2>3. DOMAIN trail_lim' = 1..(decisionLevel + 1) /\ trail_lim'[decisionLevel + 1] = n
    BY <1>1, <2>1
  <2>4. Decision(n + 1)'
    <3>1. decisionLevel + 1 \in DOMAIN trail_lim'
      BY <1>1, <2>3
    <3> QED BY <2>3, <3>1 DEF Decision
  <2> QED BY <1>0, <1>1, <1>2, <1>13, <1>15, <2>1, <2>2, <2>4, <1>n, ReasonedPush
<1>16. CASE Assume
  <2>1. NextAssumption \in Lit
    BY <1>16 DEF Assume, IsUndef
  <2> QED BY <1>15, <1>16, <2>1 DEF Assume, SetVar
<1>17. CASE PickBranch
  <2>1. \E x \in order_heap : \E l \in {x, -x} :
           EDecide(l) /\ reason' = [reason EXCEPT ![x] = CRef_Undef]
    BY <1>17 DEF PickBranch
  <2>2. PICK x, l : l \in {x, -x} /\ x \in order_heap /\ EDecide(l) /\ reason' = [reason EXCEPT ![x] = CRef_Undef]
    BY <2>1
  <2>3. VarOf(l) = x /\ l \in Lit
    <3>1. l \in Lit
      BY <2>2 DEF EDecide, Decide, IsUndef
    <3>2. x \in Var
      BY <2>2 DEF Layered
    <3> QED BY <2>2, <3>1, <3>2 DEF VarOf, Var
  <2> QED BY <1>15, <1>17, <2>2, <2>3 DEF PickBranch
<1>18. CASE AssumeHeld
  <2>1. trail_lim' = Append(trail_lim, n) /\ UNCHANGED <<trail, reason, nc_reason, db, clauses, learnts>>
    BY <1>18, <1>n DEF AssumeHeld, DummyLevel, engineVars, solverVars
  <2>2. ASSUME NEW i \in DOMAIN trail, Above(i)' PROVE Above(i)
    <3>1. CASE trail_lim = <<>>
      <4>1. trail_lim'[1] = n
        BY <1>1, <2>1, <3>1
      <4>2. i > n /\ i \in 1..n
        BY <1>1, <2>2, <4>1 DEF Above
      <4> QED BY <1>1, <4>2
    <3>2. CASE trail_lim # <<>>
      <4>1. trail_lim'[1] = trail_lim[1]
        BY <1>1, <2>1, <3>2
      <4> QED BY <2>2, <3>2, <4>1 DEF Above
    <3> QED BY <3>1, <3>2
  <2>3. ASSUME NEW i \in DOMAIN trail, Decision(i) PROVE Decision(i)'
    <3>1. PICK k \in DOMAIN trail_lim : i = trail_lim[k] + 1
      BY <2>3 DEF Decision
    <3>2. k \in DOMAIN trail_lim' /\ trail_lim'[k] = trail_lim[k]
      BY <1>1, <2>1, <3>1
    <3> QED BY <3>1, <3>2 DEF Decision
  <2> QED BY <2>1, <2>2, <2>3 DEF Reasoned, Live
<1>19. CASE ReduceDB
  <2>1. PICK S \in SUBSET {cr \in learnts : ~Binary(db[cr]) /\ ~Locked(cr)} : RemoveClauses(S)
    BY <1>19 DEF ReduceDB
  <2>2. UNCHANGED <<trail, trail_lim, nc_reason>>
    BY <1>19 DEF ReduceDB, vars, trailVars, engineVars
  <2>3. reason' = reason
    BY <1>2, <2>1 DEF RemoveClauses
  <2>4. ASSUME NEW i \in DOMAIN trail,
               FromClause(reason[VarOf(trail[i])], i, db, trail, Live)
        PROVE  FromClause(reason[VarOf(trail[i])], i, db', trail', Live')
    <3> DEFINE r == reason[VarOf(trail[i])]
    <3>1. r \notin S
      <4>1. SUFFICES ASSUME r \in S PROVE FALSE
        OBVIOUS
      <4>2. ~Binary(db[r]) /\ ~Locked(r)
        BY <2>1, <4>1
      <4>3. db[r][1] = trail[i] /\ IsTrue(trail[i])
        BY <1>0, <2>4, <4>2 DEF FromClause, TrailOK, IsTrue
      <4> QED BY <4>2, <4>3 DEF Locked
    <3>2. Live' = Live \ S /\ \A cr \in Live : cr \notin S => db'[cr] = db[cr]
      BY <1>3, <2>1 DEF RemoveClauses, Live
    <3> QED BY <2>2, <2>4, <3>1, <3>2 DEF FromClause
  <2> QED BY <2>2, <2>3, <2>4 DEF Reasoned, Above, Decision
<1>20. CASE SAnalyzeUndo
  <2>1. Live' = Live /\ UNCHANGED <<trail, trail_lim, reason, nc_reason>>
    BY <1>20 DEF SAnalyzeUndo, EAnalyzeUndo, AnalyzeUndo, varVars, Live
  <2>2. CASE db' = db
    BY <2>1, <2>2, ReasonedFrame
  <2>3. CASE db' # db
    <3> DEFINE r == reason[VarOf(trail[index])]
               c == db[r]
    <3>1. db' = TrueFirst(r)
      BY <1>20, <2>3 DEF SAnalyzeUndo
    <3>2. Binary(c) /\ db' = [db EXCEPT ![r] = <<c[2], c[1]>>]
      BY <2>3, <3>1 DEF TrueFirst
    <3> HIDE DEF r
    <3>3. ASSUME NEW d \in Live
          PROVE  ToSet(db'[d]) = ToSet(db[d]) /\ Len(db'[d]) = Len(db[d]) /\ (db'[d] = db[d] \/ Binary(db[d]))
      <4>1. CASE d # r
        BY <1>3, <3>2, <4>1
      <4>2. CASE d = r
        <5>1. /\ IsClause(c) /\ <<c[2], c[1]>> = Swap(c, 1, 2) /\ Alike(Swap(c, 1, 2), c)
          BY <1>3, <3>2, <4>2, TurnKeeps DEF Binary
        <5>2. db'[d] = Swap(c, 1, 2)
          BY <1>3, <3>2, <4>2, <5>1
        <5> QED BY <3>2, <4>2, <5>1, <5>2 DEF Alike
      <4> QED BY <4>1, <4>2
    <3> QED BY <2>1, <3>3, ReasonedFrame
  <2> QED BY <2>2, <2>3
<1>21. CASE SCancel
  <2>1. /\ trail' = SubSeq(trail, 1, n - 1) /\ pc = "cancel" /\ n > trail_lim[target + 1]
        /\ UNCHANGED <<trail_lim, reason, nc_reason, db, clauses, learnts>>
    BY <1>21, <1>n DEF SCancel, ECancel, Cancel, dbVars
  <2>2. n \in DOMAIN trail
    BY <1>0, <1>n, <2>1, CancelPosition
  <2>3. DOMAIN trail' = 1..(n - 1) /\ \A i \in 1..(n - 1) : i \in DOMAIN trail /\ trail'[i] = trail[i]
    BY <1>1, <2>1, <2>2
  <2>4. ASSUME NEW i \in DOMAIN trail', NEW r, FromClause(r, i, db, trail, Live)
        PROVE  FromClause(r, i, db', trail', Live')
    <3>1. i \in 1..(n - 1) /\ trail'[i] = trail[i] /\ \A j \in 1..(i - 1) : j \in 1..(n - 1) /\ trail'[j] = trail[j]
      BY <1>1, <2>3
    <3> QED BY <2>1, <2>4, <3>1 DEF FromClause, Live
  <2>5. ASSUME NEW i \in DOMAIN trail', Above(i)'
        PROVE  IF reason'[VarOf(trail'[i])] # CRef_Undef
               THEN FromClause(reason'[VarOf(trail'[i])], i, db', trail', Live')
               ELSE nc_reason'[VarOf(trail'[i])] # 0 \/ Decision(i)'
    <3>1. i \in DOMAIN trail /\ trail'[i] = trail[i]
      BY <2>3
    <3>2. Above(i) /\ (Decision(i) => Decision(i)')
      BY <2>1, <2>5 DEF Above, Decision
    <3> QED BY <2>1, <2>4, <3>1, <3>2 DEF Reasoned
  <2> QED BY <1>2, <2>1, <2>5 DEF Reasoned
<1>22. CASE SCancelDone
  <2>1. /\ trail_lim' = SubSeq(trail_lim, 1, target) /\ pc = "cancel" /\ n = trail_lim[target + 1]
        /\ UNCHANGED <<trail, reason, nc_reason, db, clauses, learnts>> /\ Live' = Live
    BY <1>22, <1>n DEF SCancelDone, ECancelDone, CancelDone, varVars, dbVars, Live
  <2>2. target \in Nat /\ target < decisionLevel /\ target + 1 \in DOMAIN trail_lim
    BY <1>0, <1>n, <2>1, CancelPosition
  <2>3. DOMAIN trail_lim' = 1..target /\ \A k \in 1..target : trail_lim'[k] = trail_lim[k] /\ k \in DOMAIN trail_lim
    BY <1>1, <2>1, <2>2
  <2>4. ASSUME NEW i \in DOMAIN trail, Above(i)' PROVE Above(i)
    <3>1. trail_lim' # <<>> /\ i > trail_lim'[1]
      BY <2>4 DEF Above
    <3>2. 1 \in 1..target
      BY <2>1, <2>2, <2>3, <3>1
    <3> QED BY <2>3, <3>1, <3>2 DEF Above
  <2>5. ASSUME NEW i \in DOMAIN trail, Decision(i) PROVE Decision(i)'
    <3>1. PICK k \in DOMAIN trail_lim : i = trail_lim[k] + 1
      BY <2>5 DEF Decision
    <3>2. target + 1 <= k => trail_lim[target + 1] <= trail_lim[k]
      BY <1>0, <2>2, <3>1 DEF Levels
    <3>3. k \in 1..target
      BY <1>1, <2>1, <2>2, <3>1, <3>2
    <3> QED BY <2>3, <3>1, <3>3 DEF Decision
  <2> QED BY <2>1, <2>4, <2>5 DEF Reasoned
<1>23. CASE SLearn
  <2>1. pc = "learn" /\ Enqueue(learnt) /\ trail_lim' = trail_lim
        /\ nc_reason' = [nc_reason EXCEPT ![VarOf(learnt)] = 0]
    BY <1>23 DEF SLearn, ELearn, Learn, Unconstrained
  <2>2. learnt \in Lit /\ IsUndef(learnt)
    BY <1>0, <2>1, LearntFree
  <2>3. /\ learntLits \in Seq(Lit) /\ Len(learntLits) >= 1 /\ learntLits[1] = learnt
        /\ Len(learntLits) # 1 => IsClause(learntLits)
        /\ \A k \in 2..Len(learntLits) : IsFalse(learntLits[k])
        /\ Len(learntLits) = 1 => decisionLevel = 0
    BY <2>1, LearntClause
  <2>4. CASE Len(learntLits) = 1
    <3>1. reason' \in [Var -> Nat]
      BY <1>2, <1>23, <2>4 DEF SLearn, SetVar, CRef_Undef
    <3> QED BY <1>0, <2>1, <2>3, <2>4, <3>1, ReasonedRoot
  <2>5. CASE Len(learntLits) # 1
    <3> DEFINE cr == Len(db) + 1
    <3>1. /\ Alloc(learntLits) /\ learnts' = learnts \cup {cr} /\ clauses' = clauses
          /\ reason' = [reason EXCEPT ![VarOf(learnt)] = cr]
      BY <1>23, <2>5 DEF SLearn, SetVar
    <3>2. Live' = Live \cup {cr} /\ db'[cr] = learntLits /\ \A d \in Live : db'[d] = db[d]
      BY <1>4, <3>1 DEF Live
    <3>3. trail'[n + 1] = learnt /\ \A i \in DOMAIN trail : trail'[i] = trail[i]
      BY <1>0, <1>n, <2>1, <2>2, EnqueueTrail
    <3>4. cr \in Nat /\ cr # CRef_Undef
      BY <1>3 DEF CRef_Undef
    <3> HIDE DEF cr
    <3>5. learnt \in ToSet(learntLits) /\ \A q \in ToSet(learntLits) \ {learnt} : IsFalse(q)
      <4>1. DOMAIN learntLits = 1..Len(learntLits) /\ 1 \in DOMAIN learntLits
        BY <2>3
      <4>2. \A k \in DOMAIN learntLits : k = 1 \/ k \in 2..Len(learntLits)
        BY <2>3
      <4> QED BY <2>3, <4>1, <4>2 DEF ToSet
    <3>6. FromClause(cr, n + 1, db', trail', Live')
      BY <1>0, <1>n, <1>1, <2>2, <2>3, <3>2, <3>3, <3>5, ScanFromClause
    <3>7. ASSUME NEW i \in DOMAIN trail, NEW r, FromClause(r, i, db, trail, Live)
          PROVE  FromClause(r, i, db', trail, Live')
      BY <3>2, <3>7 DEF FromClause
    <3> QED BY <1>0, <1>1, <1>2, <2>1, <2>2, <3>1, <3>2, <3>4, <3>6, <3>7, <1>n, ReasonedPush
  <2> QED BY <2>4, <2>5
<1>24. CASE ~ReasonStep
  BY <1>24, ReasonUntouched, ReasonedSame
<1> QED
  BY <1>5, <1>6, <1>7, <1>9, <1>10, <1>11, <1>12, <1>14, <1>16, <1>17, <1>18, <1>19, <1>20, <1>21,
     <1>22, <1>23, <1>24 DEF ReasonStep
=============================================================================
