--------------------------- MODULE AnalysisProofs ---------------------------
(***************************************************************************)
(* Conflict analysis: that analyze() finds its way down the trail, and     *)
(* that the clause it learns is asserting.                                 *)
(***************************************************************************)
EXTENDS SearchProofs
LOCAL INSTANCE SequencesExt
LOCAL INSTANCE FiniteSetsExt

(***************************************************************************)
(* Which steps can be taken where search() and propagate() are.            *)
(***************************************************************************)
\* While a conflict is looked for and worked on, nothing else happens.
LEMMA StepsAt ==
  ASSUME [SolverNext]_allVars, ~UNCHANGED allVars
  PROVE  /\ pc = "analyze" => SAnalyzeUndo \/ SAnalyzeDone
         /\ pc = "cancel" => SCancel \/ SCancelDone
         /\ pc = "learn" => SLearn
         /\ pc = "drain" => SEngineStep /\ (Drain \/ DrainDone)
         /\ pc = "conflict" => SConflictAtRoot \/ SStartAnalyze \/ Restart
<1>1. CASE SDequeue \/ ScanBinary \/ ScanSatisfied \/ ScanMove \/ ScanUnitOrFalse \/ ScanNextList
  BY <1>1 DEF SDequeue, Dequeue, ScanBinary, ScanSatisfied, ScanMove, ScanVisit, ScanUnitOrFalse, Scanning,
     ScanNextList
<1>2. CASE SEnqueue
  BY <1>2 DEF SEnqueue, EEnqueue
<1>3. CASE SEngineStep
  BY <1>3 DEF SEngineStep, EInitialized, Initialized, EReturnTrue, ReturnTrue, EReturnFalse, ReturnFalse,
     ECall, Call, CallsDone, Drain, DrainDone
<1>4. CASE GiveUp \/ Simplify \/ ReduceDB \/ AdaptSolver \/ AssumeHeld \/ Assume \/ AssumeFailed
           \/ PickBranch \/ ModelFound \/ Return
  BY <1>4 DEF GiveUp, Simplify, ReduceDB, AdaptSolver, AssumeHeld, Assume, AssumeFailed, PickBranch,
     ModelFound, Return, Assuming, Searching, Fixpoint
<1>5. CASE Restart
  BY <1>5 DEF Restart, StartCancel, Fixpoint
<1>6. CASE SConflictAtRoot \/ SStartAnalyze
  BY <1>6 DEF SConflictAtRoot, ConflictAtRoot, SStartAnalyze, StartAnalyze
<1>7. CASE SAnalyzeUndo \/ SAnalyzeDone \/ SCancel \/ SCancelDone \/ SLearn
  BY <1>7 DEF SAnalyzeUndo, EAnalyzeUndo, AnalyzeUndo, SAnalyzeDone, SCancel, ECancel, Cancel,
     SCancelDone, ECancelDone, CancelDone, SLearn, ELearn, Learn
<1>8. CASE AddRedundantClause \/ AddEmptyClause \/ AddUnitClause \/ AddLongClause
  BY <1>8 DEF AddRedundantClause, AddEmptyClause, AddUnitClause, AddLongClause, AddClauseCommon,
     IsClauseCall, Idle
<1>9. CASE SAddConstraint \/ Solve \/ EndScript
  BY <1>9 DEF SAddConstraint, Solve, EndScript, NextCall, Idle
<1>10. CASE Finished
  BY <1>10 DEF Finished
<1> QED
  BY <1>1, <1>2, <1>3, <1>4, <1>5, <1>6, <1>7, <1>8, <1>9, <1>10 DEF SolverNext, SearchStep

\* ... and it is begun and ended by few.
LEMMA StepsTo ==
  ASSUME [SolverNext]_allVars, pc' # pc
  PROVE  /\ pc' = "analyze" => SStartAnalyze
         /\ pc' = "cancel" => \/ SAnalyzeDone
                              \/ learnt' = lit_Undef /\ (Fixpoint \/ pc = "conflict") /\ UNCHANGED anaVars
         /\ pc' = "learn" => SCancelDone
         /\ pc' \in {"drain", "conflict"} => \/ pc = "clauses" /\ (ScanBinary \/ ScanUnitOrFalse)
                                             \/ pc = "called" /\ EReturnFalse
                                             \/ pc = "drain"
<1>1. CASE SDequeue \/ ScanBinary \/ ScanSatisfied \/ ScanMove \/ ScanUnitOrFalse \/ ScanNextList
  BY <1>1 DEF SDequeue, Dequeue, ScanBinary, ScanSatisfied, ScanMove, ScanVisit, ScanUnitOrFalse, Scanning,
     ScanNextList, ImplyFrom, EImplyByClause, Imply, SClauseConflict, ClauseConflict, ClausesDone, vars, trailVars
<1>2. CASE SEnqueue
  BY <1>2 DEF SEnqueue, EEnqueue, Imply
<1>3. CASE SEngineStep
  BY <1>3 DEF SEngineStep, EInitialized, Initialized, EReturnTrue, ReturnTrue, EReturnFalse, ReturnFalse,
     ECall, Call, CallsDone, Drain, DrainDone
<1>4. CASE Simplify \/ ReduceDB \/ AdaptSolver \/ AssumeHeld \/ Assume \/ PickBranch \/ Return
  BY <1>4 DEF Simplify, ReduceDB, AdaptSolver, AssumeHeld, Assume, PickBranch, Return, DummyLevel,
     EDecide, Decide, vars, trailVars
<1>5. CASE Restart \/ GiveUp \/ AssumeFailed \/ ModelFound
  BY <1>5 DEF Restart, GiveUp, AssumeFailed, ModelFound, Stop, StartCancel, trailVars
<1>6. CASE SConflictAtRoot \/ SStartAnalyze
  BY <1>6 DEF SConflictAtRoot, ConflictAtRoot, SStartAnalyze, StartAnalyze
<1>7. CASE SAnalyzeUndo \/ SAnalyzeDone \/ SCancel \/ SCancelDone \/ SLearn
  BY <1>7 DEF SAnalyzeUndo, EAnalyzeUndo, AnalyzeUndo, SAnalyzeDone, AnalyzeDone, SCancel, ECancel, Cancel,
     SCancelDone, ECancelDone, CancelDone, SLearn, ELearn, Learn
<1>8. CASE AddRedundantClause \/ AddEmptyClause \/ AddUnitClause \/ AddLongClause
  BY <1>8 DEF AddRedundantClause, AddEmptyClause, AddUnitClause, AddLongClause, AddEmpty, EAddUnit, AddUnit,
     vars, trailVars
<1>9. CASE SAddConstraint \/ Solve \/ EndScript
  BY <1>9 DEF SAddConstraint, EAddConstraint, AddConstraint, Solve, EndScript, vars, trailVars
<1>10. CASE Finished \/ UNCHANGED allVars
  BY <1>10 DEF Finished, allVars, vars, trailVars
<1> QED
  BY <1>1, <1>2, <1>3, <1>4, <1>5, <1>6, <1>7, <1>8, <1>9, <1>10 DEF SolverNext, SearchStep

\* The steps that write to the variables of analyze().
LEMMA AnaUntouched ==
  ASSUME [SolverNext]_allVars, ~(SStartAnalyze \/ SAnalyzeUndo \/ SAnalyzeDone \/ SLearn)
  PROVE  UNCHANGED anaVars
BY DEF SolverNext, SearchStep, allVars, solverVars, anaVars, SDequeue, ScanBinary, ScanSatisfied, ScanMove,
   ScanUnitOrFalse, ScanNextList, SEngineStep, SEnqueue, Restart, GiveUp, Stop, Simplify, ReduceDB,
   AdaptSolver, AssumeHeld, Assume, AssumeFailed, PickBranch, ModelFound, Return, SConflictAtRoot,
   SCancel, SCancelDone, AddRedundantClause, AddEmptyClause, AddUnitClause, AddLongClause,
   AddClauseCommon, SAddConstraint, Solve, EndScript, Finished
-----------------------------------------------------------------------------
(***************************************************************************)
(* Where propagate() is among the watchers.                                *)
(***************************************************************************)
ScanAt == wi \in Nat /\ wi >= 1

\* Entries are counted from 1.
LEMMA ScanAtStep == ScanAt /\ [SolverNext]_allVars => ScanAt'
<1>1. ASSUME [SolverNext]_allVars PROVE wi' = wi \/ wi' = wi + 1 \/ wi' = 1
  BY <1>1 DEF SolverNext, SearchStep, allVars, solverVars, scanVars, SDequeue, ScanBinary, ScanSatisfied,
     ScanMove, ScanUnitOrFalse, ScanNextList, SEngineStep, SEnqueue, Restart, GiveUp, Stop, Simplify,
     ReduceDB, AdaptSolver, AssumeHeld, Assume, AssumeFailed, PickBranch, ModelFound, Return,
     SConflictAtRoot, SStartAnalyze, SAnalyzeUndo, SAnalyzeDone, SCancel, SCancelDone, SLearn,
     AddRedundantClause, AddEmptyClause, AddUnitClause, AddLongClause, AddClauseCommon, SAddConstraint,
     Solve, EndScript, Finished
<1> QED BY <1>1 DEF ScanAt
-----------------------------------------------------------------------------
(***************************************************************************)
(* The clause propagate() returns is false.                                *)
(***************************************************************************)
Conflicting ==
  (pc \in {"drain", "conflict"} /\ confl = 0) =>
     conflCref \in Live /\ \A q \in ToSet(db[conflCref]) : IsFalse(q)

\* A clause all of whose literals propagate() finds false, the watched ones included.
LEMMA FalseClause ==
  ASSUME TypeOK, TrailOK, Queue, Stored, ScanAt, [SolverNext]_allVars,
         pc = "clauses", pc' = "drain", ScanBinary \/ ScanUnitOrFalse
  PROVE  /\ conflCref' \in Live' /\ \A q \in ToSet(db'[conflCref']) : IsFalse(q)
         /\ assigns' = assigns
<1>0. wi \in Nat /\ wi >= 1
  BY DEF ScanAt
<1>1. CASE ScanBinary
  <2>1. /\ Scanning /\ wbin /\ IsFalse(W.blocker) /\ conflCref' = W.cref
        /\ UNCHANGED <<assigns, db, clauses, learnts>> /\ Live' = Live
    BY <1>1 DEF ScanBinary, ImplyFrom, EImplyByClause, Imply, SClauseConflict, ClauseConflict, vars, trailVars,
       dbVars, Live
  <2>2. /\ trail[at] \in Lit /\ at \in DOMAIN trail
        /\ W.cref \in Live /\ Binary(db[W.cref]) /\ IsClause(db[W.cref])
        /\ Watched(db[W.cref], trail[at])
        /\ W.blocker \in Lit /\ W.blocker \in ToSet(db[W.cref]) /\ W.blocker # -trail[at]
    BY <1>0, <2>1, ScanPosition
  <2>3. \A q \in ToSet(db[W.cref]) : q = W.blocker \/ q = -trail[at]
    BY <2>2 DEF ToSet, IsClause, Binary, Watched
  <2>4. IsFalse(-trail[at])
    <3>1. -(-trail[at]) = trail[at]
      BY <2>2, NegLit
    <3> QED BY <2>2, <3>1, TrailConsistent
  <2> QED BY <2>1, <2>2, <2>3, <2>4
<1>2. CASE ScanUnitOrFalse
  <2>1. /\ Scanning /\ ~wbin /\ NewWatches = {} /\ IsFalse(Turned[1]) /\ conflCref' = W.cref
        /\ db' = [db EXCEPT ![W.cref] = Turned]
        /\ UNCHANGED <<assigns, clauses, learnts>> /\ Live' = Live
    BY <1>2 DEF ScanUnitOrFalse, ScanVisit, ImplyFrom, EImplyByClause, Imply, SClauseConflict, ClauseConflict, Live
  <2>2. /\ IsClause(Turned) /\ Len(Turned) > 2 /\ Turned[2] = -trail[at] /\ trail[at] \in Lit
        /\ at \in DOMAIN trail /\ W.cref \in Live
    BY <1>0, <2>1, TurnedFacts, ScanPosition
  <2>3. db'[W.cref] = Turned
    BY <2>1, <2>2, RewriteHolds DEF Stored
  <2>4. IsFalse(Turned[2])
    <3>1. -(-trail[at]) = trail[at]
      BY <2>2, NegLit
    <3> QED BY <2>2, <3>1, TrailConsistent
  <2>5. ASSUME NEW q \in ToSet(Turned) PROVE IsFalse(q)
    <3>1. PICK k \in DOMAIN Turned : q = Turned[k]
      BY DEF ToSet
    <3>2. k = 1 \/ k = 2 \/ k \in 3..Len(Turned)
      BY <2>2 DEF IsClause
    <3> QED BY <2>1, <2>4, <3>1, <3>2 DEF NewWatches
  <2> QED BY <2>1, <2>2, <2>3, <2>5
<1> QED BY <1>1, <1>2

\* Every step keeps it so until analyze() has read the clause.
LEMMA ConflictingStep ==
  ASSUME Base, Blamed, Stored, ScanAt, Conflicting, [SolverNext]_allVars
  PROVE  Conflicting'
<1>0. TypeOK /\ TrailOK /\ Queue
  BY DEF Base
<1> SUFFICES ASSUME pc' \in {"drain", "conflict"}, confl' = 0
             PROVE  conflCref' \in Live' /\ \A q \in ToSet(db'[conflCref']) : IsFalse(q)'
  BY DEF Conflicting
<1>1. CASE pc = "clauses"
  <2>1. ScanBinary \/ ScanUnitOrFalse
    BY <1>1, StepsTo
  <2>2. pc' = "drain"
    BY <1>1, <2>1 DEF ScanBinary, ScanUnitOrFalse, ImplyFrom, EImplyByClause, Imply, SClauseConflict,
       ClauseConflict, vars, trailVars
  <2> QED BY <1>0, <1>1, <2>1, <2>2, FalseClause DEF IsFalse
<1>2. CASE pc = "called"
  <2>1. EReturnFalse /\ pc = "called"
    BY <1>2, StepsTo
  <2> QED BY <1>0, <2>1, RunningIsConstr DEF EReturnFalse, Constr
<1>3. CASE pc \in {"drain", "conflict"}
  <2>1. UNCHANGED <<assigns, db, clauses, learnts, conflCref, confl>>
    <3>1. CASE UNCHANGED allVars
      BY <3>1 DEF allVars, vars, trailVars, engineVars, solverVars
    <3>2. CASE pc = "drain" /\ SEngineStep /\ (Drain \/ DrainDone)
      <4>1. UNCHANGED engineVars
        BY <3>2 DEF SEngineStep, EInitialized, Initialized, EReturnTrue, ReturnTrue, EReturnFalse, ReturnFalse,
           ECall, Call
      <4> QED BY <3>2, <4>1 DEF Drain, DrainDone, SEngineStep, solverVars, engineVars
    <3>3. CASE pc = "conflict" /\ (SConflictAtRoot \/ SStartAnalyze \/ Restart)
      BY <3>3 DEF SConflictAtRoot, ConflictAtRoot, SStartAnalyze, StartAnalyze, Restart, StartCancel
    <3> QED BY <1>3, <3>1, <3>2, <3>3, StepsAt
  <2>2. conflCref \in Live /\ \A q \in ToSet(db[conflCref]) : IsFalse(q)
    BY <1>3, <2>1 DEF Conflicting
  <2> QED BY <2>1, <2>2 DEF Live, IsFalse
<1> QED BY <1>1, <1>2, <1>3, StepsTo
-----------------------------------------------------------------------------
(***************************************************************************)
(* What analyze() has collected: seen[] marks literals it has still to     *)
(* pass, above level 0, and the learnt clause so far holds the negations   *)
(* of those below the current level.                                       *)
(***************************************************************************)
SeenBelow(n) == \A x \in seen : level[x] > 0 /\ \E i \in 1..n : x = VarOf(trail[i])

Collected ==
  /\ \A q \in out_learnt : \E i \in DOMAIN trail :
       q = -trail[i] /\ VarOf(trail[i]) \in seen /\ ~CurrentLevel(VarOf(trail[i]))
  /\ \A i \in DOMAIN trail :
       VarOf(trail[i]) \in seen /\ ~CurrentLevel(VarOf(trail[i])) => -trail[i] \in out_learnt

Analysed ==
  IF pc = "analyze" THEN SeenBelow(index) /\ Collected ELSE seen = {} /\ out_learnt = {}

\* Resolving on literals that were true before the n-th.
LEMMA ResolveKeeps ==
  ASSUME TypeOK, TrailOK, Layered, NEW n \in Nat, n <= Len(trail),
         NEW R, \A q \in R : \E i \in 1..n : q = trail[i],
         NEW S, \A x \in S : level[x] > 0 /\ \E i \in 1..n : x = VarOf(trail[i]),
         \A q \in out_learnt : \E i \in DOMAIN trail :
           q = -trail[i] /\ VarOf(trail[i]) \in S /\ ~CurrentLevel(VarOf(trail[i])),
         \A i \in DOMAIN trail :
           VarOf(trail[i]) \in S /\ ~CurrentLevel(VarOf(trail[i])) => -trail[i] \in out_learnt,
         Resolve(R, S), UNCHANGED <<trail, trail_lim, level>>
  PROVE  Collected' /\ SeenBelow(n)'
<1> DEFINE new == {VarOf(q) : q \in R} \ S
           up  == {x \in new : level[x] > 0}
<1>1. /\ seen' = S \cup up
      /\ out_learnt' = out_learnt \cup {-q : q \in {r \in R : VarOf(r) \in up /\ ~CurrentLevel(VarOf(r))}}
  BY DEF Resolve
<1>2. DOMAIN trail = 1..Len(trail) /\ Len(trail) \in Nat /\ 1..n \subseteq DOMAIN trail
  BY DEF TypeOK
<1>3. \A x : CurrentLevel(x)' <=> CurrentLevel(x)
  BY DEF CurrentLevel, decisionLevel
<1>4. \A x \in up : level[x] > 0 /\ \E i \in 1..n : trail[i] \in R /\ x = VarOf(trail[i])
  OBVIOUS
<1>5. SeenBelow(n)'
  BY <1>1, <1>4 DEF SeenBelow
<1>6. ASSUME NEW q \in out_learnt'
      PROVE  \E i \in DOMAIN trail :
               q = -trail[i] /\ VarOf(trail[i]) \in seen' /\ ~CurrentLevel(VarOf(trail[i]))
  <2>1. CASE q \in out_learnt
    BY <1>1, <2>1
  <2>2. CASE q \notin out_learnt
    <3>1. PICK r \in R : q = -r /\ VarOf(r) \in up /\ ~CurrentLevel(VarOf(r))
      BY <1>1, <2>2
    <3>2. PICK i \in 1..n : r = trail[i]
      OBVIOUS
    <3> QED BY <1>1, <1>2, <3>1, <3>2
  <2> QED BY <2>1, <2>2
<1>7. ASSUME NEW i \in DOMAIN trail, VarOf(trail[i]) \in seen', ~CurrentLevel(VarOf(trail[i]))
      PROVE  -trail[i] \in out_learnt'
  <2>1. CASE VarOf(trail[i]) \in S
    BY <1>1, <1>7, <2>1
  <2>2. CASE VarOf(trail[i]) \notin S
    <3>1. VarOf(trail[i]) \in up
      BY <1>1, <1>7, <2>2
    <3>2. PICK k \in 1..n : trail[k] \in R /\ VarOf(trail[i]) = VarOf(trail[k])
      BY <1>4, <3>1
    <3>3. i = k
      BY <1>2, <3>2 DEF TrailOK
    <3> HIDE DEF up
    <3> QED BY <1>1, <1>7, <3>1, <3>2, <3>3
  <2> QED BY <2>1, <2>2
<1>8. Collected'
  BY <1>3, <1>6, <1>7 DEF Collected
<1> QED BY <1>5, <1>8

\* The literals that implied trail[i] stood before it.
LEMMA ReasonBefore ==
  ASSUME Stored, NEW i \in DOMAIN trail, NEW cr, FromClause(cr, i, db, trail, Live), trail[i] \in Lit
  PROVE  /\ ClauseReason(cr, trail[i]) = {-q : q \in ToSet(db[cr]) \ {trail[i]}}
         /\ \A q \in ClauseReason(cr, trail[i]) : \E j \in 1..(i - 1) : q = trail[j]
<1> DEFINE c == db[cr]
           p == trail[i]
<1>1. IsClause(c) /\ p \in ToSet(c) /\ (~Binary(c) => c[1] = p)
  BY DEF FromClause, Stored, Holds
<1>2. ~Binary(c) => ToSet(Tail(c)) = ToSet(c) \ {p}
  <2> SUFFICES ASSUME ~Binary(c) PROVE ToSet(Tail(c)) = ToSet(c) \ {p}
    OBVIOUS
  <2> DEFINE t == Tail(c)
             m == Len(c)
  <2>1. c \in Seq(Lit) /\ m \in Nat /\ m >= 2 /\ DOMAIN c = 1..m /\ c[1] = p
    BY <1>1 DEF IsClause
  <2>2. DOMAIN t = 1..(m - 1) /\ \A k \in 1..(m - 1) : t[k] = c[k + 1]
    BY <2>1
  <2> HIDE DEF t, m
  <2>3. ASSUME NEW q \in ToSet(t) PROVE q \in ToSet(c) \ {p}
    <3>1. PICK k \in 1..(m - 1) : q = c[k + 1]
      BY <2>2 DEF ToSet
    <3>2. k + 1 \in DOMAIN c /\ k + 1 # 1 /\ 1 \in DOMAIN c
      BY <2>1
    <3>3. c[k + 1] # c[1]
      BY <1>1, <3>2 DEF IsClause
    <3> QED BY <2>1, <3>1, <3>2, <3>3 DEF ToSet
  <2>4. ASSUME NEW q \in ToSet(c) \ {p} PROVE q \in ToSet(t)
    <3>1. PICK k \in 1..m : q = c[k]
      BY <2>1 DEF ToSet
    <3>2. k - 1 \in 1..(m - 1) /\ (k - 1) + 1 = k
      BY <2>1, <2>4, <3>1
    <3>3. t[k - 1] = q
      BY <2>2, <3>1, <3>2
    <3> QED BY <2>2, <3>2, <3>3 DEF ToSet
  <2> QED BY <2>3, <2>4 DEF t
<1>3. ClauseReason(cr, p) = {-q : q \in ToSet(c) \ {p}}
  BY <1>2 DEF ClauseReason
<1>4. ASSUME NEW q \in ToSet(c) \ {p} PROVE \E j \in 1..(i - 1) : -q = trail[j]
  BY <1>4 DEF FromClause
<1> QED BY <1>3, <1>4

\* A constraint reads the assignment when it is asked for a reason, and the
\* objects of constraints are not shared.
LEMMA ReasonOfPrimed ==
  ASSUME assigns' = assigns, NEW k, NEW s, NEW p, NEW e
  PROVE  ReasonOf(k, s, p, e)' = ReasonOf(k, s, p, e)
BY DEF ReasonOf

\* There is a variable of the current level to be resolved.
LEMMA PathLeft ==
  ASSUME NEW S, pathC(S) > 0
  PROVE  \E x \in S : CurrentLevel(x)
BY FS_EmptySet DEF pathC

\* The variables of the current level stand above its opening.
LEMMA CurrentAbove ==
  ASSUME Base, Layered, pc = "analyze", NEW i \in DOMAIN trail, CurrentLevel(VarOf(trail[i]))
  PROVE  trail_lim[decisionLevel] < i
<1>1. decisionLevel \in DOMAIN trail_lim
  BY AnalyzePosition DEF Base
<1>2. level[VarOf(trail[i])] \in Nat /\ VarOf(trail[i]) \in Var /\ decisionLevel \in Nat
  BY TrailFacts DEF Layered, Base
<1>3. decisionLevel <= level[VarOf(trail[i])]
  BY <1>2 DEF CurrentLevel
<1> QED BY <1>1, <1>3 DEF Layered

\* What stands above a variable of the current level is not the decision: it
\* has a reason.
LEMMA AboveCurrent ==
  ASSUME Base, Layered, Reasoned, pc = "analyze", NEW i \in DOMAIN trail, NEW j \in DOMAIN trail, j < i,
         CurrentLevel(VarOf(trail[j]))
  PROVE  /\ trail_lim[decisionLevel] + 1 < i
         /\ IF reason[VarOf(trail[i])] # CRef_Undef
            THEN FromClause(reason[VarOf(trail[i])], i, db, trail, Live)
            ELSE nc_reason[VarOf(trail[i])] # 0
<1>1. /\ decisionLevel \in DOMAIN trail_lim /\ trail_lim[decisionLevel] \in Nat
      /\ \A k \in DOMAIN trail_lim : k <= decisionLevel
  BY AnalyzePosition DEF Base
<1>2. DOMAIN trail = 1..Len(trail) /\ Len(trail) \in Nat /\ DOMAIN trail_lim = 1..decisionLevel
      /\ decisionLevel \in Nat /\ trail_lim \in Seq(Nat)
  BY TrailFacts DEF Base
<1>3. trail_lim[decisionLevel] < j
  BY CurrentAbove
<1>4. trail_lim[decisionLevel] + 1 < i
  BY <1>1, <1>2, <1>3
<1>5. \A k \in DOMAIN trail_lim : trail_lim[k] <= trail_lim[decisionLevel] /\ trail_lim[k] \in Nat
  BY <1>1, <1>2 DEF Base, Levels
<1>6. Above(i)
  <2>1. 1 \in DOMAIN trail_lim /\ trail_lim # <<>>
    BY <1>1, <1>2
  <2> QED BY <1>1, <1>2, <1>4, <1>5, <2>1 DEF Above
<1>7. ~Decision(i)
  BY <1>1, <1>2, <1>4, <1>5 DEF Decision
<1> QED BY <1>4, <1>6, <1>7 DEF Reasoned

\* While more than the last one is left, analyze() is above the decision, at a
\* literal that has a reason.
LEMMA WalkHasReason ==
  ASSUME Base, Layered, Reasoned, pc = "analyze", NEW S, pathC(S) > 0,
         \A x \in S : \E j \in 1..(index - 1) : x = VarOf(trail[j])
  PROVE  /\ index \in DOMAIN trail /\ trail_lim[decisionLevel] + 1 < index
         /\ IF reason[VarOf(trail[index])] # CRef_Undef
            THEN FromClause(reason[VarOf(trail[index])], index, db, trail, Live)
            ELSE nc_reason[VarOf(trail[index])] # 0
<1>1. PICK x \in S : CurrentLevel(x)
  BY PathLeft
<1>2. PICK j \in 1..(index - 1) : x = VarOf(trail[j])
  OBVIOUS
<1>3. index \in Nat /\ index <= Len(trail) /\ DOMAIN trail = 1..Len(trail) /\ Len(trail) \in Nat
  BY AnalyzePosition, TrailFacts DEF Base
<1>4. j \in DOMAIN trail /\ index \in DOMAIN trail /\ j < index
  BY <1>3
<1> QED BY <1>1, <1>2, <1>4, AboveCurrent

\* The reason analyze() asks for at trail[index] is made of earlier literals.
LEMMA ResolvedReason ==
  ASSUME Base, Layered, Stored, Reasoned, Explained', SAnalyzeUndo, NEW S, pathC(S) > 0,
         \A x \in S : \E j \in 1..(index - 1) : x = VarOf(trail[j])
  PROVE  \A q \in IF nc_reason[VarOf(trail[index])] # 0
                  THEN ReasonOf(Problem[nc_reason[VarOf(trail[index])]],
                                cs'[nc_reason[VarOf(trail[index])]], trail[index], lit_Undef)
                  ELSE ClauseReason(reason[VarOf(trail[index])], trail[index]) :
           \E j \in 1..(index - 1) : q = trail[j]
<1> DEFINE x == VarOf(trail[index])
           c == nc_reason[x]
<1>0. /\ pc = "analyze" /\ pc' = "analyze" /\ index' = index - 1
      /\ UNCHANGED <<trail, assigns, nc_reason>>
  BY DEF SAnalyzeUndo, EAnalyzeUndo, AnalyzeUndo
<1>1. /\ index \in DOMAIN trail
      /\ IF reason[x] # CRef_Undef THEN FromClause(reason[x], index, db, trail, Live) ELSE c # 0
  BY <1>0, WalkHasReason
<1>2. index \in Nat /\ index <= Len(trail) /\ Len(trail) \in Nat /\ trail[index] \in Lit
  BY <1>1, TrailFacts DEF Base
<1>3. CASE c = 0
  BY <1>1, <1>2, <1>3, ReasonBefore
<1>4. CASE c # 0
  <2>1. index' < Len(trail') /\ index' + 1 = index
    BY <1>0, <1>2
  <2>2. PICK k, s, p, e : k = Problem[c] /\ s = cs'[c] /\ p = trail[index] /\ e = lit_Undef
    OBVIOUS
  <2>3. ReasonOf(k, s, p, e)' \subseteq {trail'[i] : i \in 1..index'}
    <3>1. LET pp == trail[index + 1]
              cc == nc_reason[VarOf(pp)]
              R == ReasonOf(Problem[cc], cs[cc], pp, lit_Undef)
          IN (cc # 0 => R \subseteq {trail[i] : i \in 1..index})'
      BY <1>0, <2>1 DEF Explained
    <3>2. trail'[index' + 1] = trail[index] /\ nc_reason' = nc_reason
      BY <1>0, <2>1
    <3> QED BY <1>4, <2>2, <3>1, <3>2
  <2>4. ReasonOf(k, s, p, e) \subseteq {trail[i] : i \in 1..(index - 1)}
    BY <1>0, <2>3, ReasonOfPrimed
  <2> QED BY <1>4, <2>2, <2>4
<1> QED BY <1>3, <1>4

\* The conflict analyze() starts from is made of true literals.
LEMMA ConflictReason ==
  ASSUME Base, Stored, Conflicting, Explained, pc = "conflict"
  PROVE  \A q \in IF confl # 0 THEN ReasonOf(Problem[confl], cs[confl], lit_Undef, enqueue_failure)
                  ELSE {-r : r \in ToSet(db[conflCref])} :
           \E i \in 1..Len(trail) : q = trail[i]
<1>1. DOMAIN trail = 1..Len(trail)
  BY DEF Base, TypeOK
<1>2. CASE confl # 0
  BY <1>1, <1>2 DEF Explained, Base, TrailOK
<1>3. CASE confl = 0
  <2>1. \A r \in ToSet(db[conflCref]) : IsFalse(r)
    BY <1>3 DEF Conflicting
  <2>2. \A r \in ToSet(db[conflCref]) : \E i \in DOMAIN trail : trail[i] = -r
    BY <2>1, TrailConsistent DEF Base
  <2> QED BY <1>1, <1>3, <2>2
<1> QED BY <1>2, <1>3

\* Every step of analyze() keeps the marks and the learnt literals in accord.
LEMMA AnalysedStep ==
  ASSUME Base, Layered, Stored, Reasoned, Conflicting, Analysed, Explained, Explained', [SolverNext]_allVars
  PROVE  Analysed'
<1>0. TypeOK /\ TrailOK /\ Len(trail) \in Nat /\ DOMAIN trail = 1..Len(trail)
  BY DEF Base, TypeOK
<1>1. CASE SStartAnalyze
  <2>1. /\ pc = "conflict" /\ pc' = "analyze" /\ index' = Len(trail)
        /\ UNCHANGED <<trail, trail_lim, level>>
    BY <1>1 DEF SStartAnalyze, StartAnalyze, varVars
  <2>2. seen = {} /\ out_learnt = {}
    BY <2>1 DEF Analysed
  <2>3. PICK R : /\ Resolve(R, {})
                 /\ \A q \in R : \E i \in 1..Len(trail) : q = trail[i]
    BY <1>1, <2>1, ConflictReason DEF SStartAnalyze
  <2>4. PICK n \in Nat : n = Len(trail)
    BY <1>0
  <2>5. Collected' /\ SeenBelow(n)'
    BY <1>0, <2>1, <2>2, <2>3, <2>4, ResolveKeeps
  <2> QED BY <2>1, <2>4, <2>5 DEF Analysed, SeenBelow
<1>2. CASE SAnalyzeUndo
  <2> DEFINE x == VarOf(trail[index])
             S == seen \ {x}
  <2>1. /\ pc = "analyze" /\ pc' = "analyze" /\ index' = index - 1 /\ pathC(seen) > 0
        /\ index > trail_lim[decisionLevel] /\ index \in DOMAIN trail
        /\ UNCHANGED <<trail, trail_lim, level>>
    BY <1>2, AnalyzePosition DEF SAnalyzeUndo, EAnalyzeUndo, AnalyzeUndo, varVars, Base
  <2>2. index \in 1..Len(trail)
    BY <1>0, <2>1
  <2>3. PICK n \in Nat : n = index - 1 /\ n <= Len(trail)
    BY <1>0, <2>2
  <2>4. SeenBelow(index) /\ Collected
    BY <2>1 DEF Analysed
  <2>5. \A y \in S : level[y] > 0 /\ \E i \in 1..n : y = VarOf(trail[i])
    <3>1. ASSUME NEW y \in S PROVE \E i \in 1..n : y = VarOf(trail[i])
      <4>1. PICK i \in 1..index : y = VarOf(trail[i])
        BY <2>4 DEF SeenBelow
      <4>2. i \in 1..n
        BY <2>2, <2>3, <4>1
      <4> QED BY <4>1, <4>2
    <3> QED BY <2>4, <3>1 DEF SeenBelow
  <2>6. CurrentLevel(x)
    <3>1. decisionLevel \in DOMAIN trail_lim /\ decisionLevel \in Nat
      BY <2>1, AnalyzePosition, TrailFacts DEF Base
    <3> QED BY <2>1, <3>1 DEF Layered, CurrentLevel
  <2>7. /\ \A q \in out_learnt : \E i \in DOMAIN trail :
             q = -trail[i] /\ VarOf(trail[i]) \in S /\ ~CurrentLevel(VarOf(trail[i]))
        /\ \A i \in DOMAIN trail :
             VarOf(trail[i]) \in S /\ ~CurrentLevel(VarOf(trail[i])) => -trail[i] \in out_learnt
    BY <2>4, <2>6 DEF Collected
  <2>8. CASE x \in seen /\ pathC(S) > 0
    <3>1. PICK R : /\ Resolve(R, S)
                   /\ \A q \in R : \E i \in 1..n : q = trail[i]
      <4>1. \A y \in S : \E i \in 1..(index - 1) : y = VarOf(trail[i])
        BY <2>3, <2>5
      <4>2. \A q \in IF nc_reason[x] # 0
                     THEN ReasonOf(Problem[nc_reason[x]], cs'[nc_reason[x]], trail[index], lit_Undef)
                     ELSE ClauseReason(reason[x], trail[index]) :
               \E i \in 1..n : q = trail[i]
        BY <1>2, <2>3, <2>8, <4>1, ResolvedReason
      <4>3. Resolve(IF nc_reason[x] # 0
                    THEN ReasonOf(Problem[nc_reason[x]], cs'[nc_reason[x]], trail[index], lit_Undef)
                    ELSE ClauseReason(reason[x], trail[index]), S)
        BY <1>2, <2>8 DEF SAnalyzeUndo
      <4> QED BY <4>2, <4>3
    <3>2. PICK T : T = S
      OBVIOUS
    <3> HIDE DEF x
    <3>3. Collected' /\ SeenBelow(n)'
      BY <1>0, <2>1, <2>3, <2>5, <2>7, <3>1, <3>2, ResolveKeeps
    <3> QED BY <2>1, <2>3, <3>3 DEF Analysed, SeenBelow
  <2>9. CASE ~(x \in seen /\ pathC(S) > 0)
    <3>1. seen' = S /\ out_learnt' = out_learnt
      BY <1>2, <2>9 DEF SAnalyzeUndo
    <3>2. \A y : CurrentLevel(y)' <=> CurrentLevel(y)
      BY <2>1 DEF CurrentLevel, decisionLevel
    <3>3. Collected'
      BY <2>1, <2>7, <3>1, <3>2 DEF Collected
    <3>4. SeenBelow(index)'
      BY <2>1, <2>3, <2>5, <3>1 DEF SeenBelow
    <3> QED BY <2>1, <3>3, <3>4 DEF Analysed
  <2> QED BY <2>8, <2>9
<1>3. CASE SAnalyzeDone
  <2>1. pc' = "cancel"
    BY <1>3 DEF SAnalyzeDone, AnalyzeDone
  <2> QED BY <1>3, <2>1 DEF SAnalyzeDone, Analysed
<1>4. CASE UNCHANGED allVars
  BY <1>4 DEF allVars, vars, trailVars, solverVars, Analysed, SeenBelow, Collected, CurrentLevel, decisionLevel
<1>5. CASE ~(SStartAnalyze \/ SAnalyzeUndo \/ SAnalyzeDone \/ UNCHANGED allVars)
  <2>1. pc # "analyze" /\ pc' # "analyze"
    BY <1>5, StepsAt, StepsTo
  <2>2. UNCHANGED <<seen, out_learnt>>
    BY <1>5, AnaUntouched DEF anaVars, SLearn
  <2> QED BY <2>1, <2>2 DEF Analysed
<1> QED BY <1>1, <1>2, <1>3, <1>4, <1>5
-----------------------------------------------------------------------------
(***************************************************************************)
(* The learnt clause.                                                      *)
(***************************************************************************)
\* The literal of a set of false ones with the highest level.
LEMMA HighestExists ==
  ASSUME Base, Layered, NEW T, T # {}, \A q \in T : \E i \in DOMAIN trail : q = -trail[i]
  PROVE  \E q \in T : q \in HighestOf(T)
<1>1. \A q \in T : level[VarOf(q)] \in Nat /\ level[VarOf(q)] <= decisionLevel
  <2> SUFFICES ASSUME NEW q \in T PROVE level[VarOf(q)] \in Nat /\ level[VarOf(q)] <= decisionLevel
    OBVIOUS
  <2>1. PICK i \in DOMAIN trail : q = -trail[i]
    OBVIOUS
  <2>2. trail[i] \in Lit
    BY TrailFacts DEF Base
  <2>3. VarOf(q) = VarOf(trail[i]) /\ VarOf(q) \in Var
    BY <2>1, <2>2, VarOfLit
  <2> QED BY <2>3 DEF Layered
<1> DEFINE N == {level[VarOf(q)] : q \in T}
<1>2. N \in SUBSET Nat /\ N # {} /\ \A k \in N : k <= decisionLevel
  BY <1>1
<1>3. decisionLevel \in Nat
  BY TrailFacts DEF Base
<1> HIDE DEF N
<1>4. \E m \in N : \A k \in N : k <= m
  BY <1>2, <1>3, GreatestNat
<1> QED BY <1>4 DEF HighestOf, N

\* c is a clause of a, then b, then literals of T.
StartsWith(c, a, b, T) ==
  /\ IsClause(c) /\ c[1] = a /\ c[2] = b
  /\ \A k \in 2..Len(c) : c[k] \in T

\* A clause put together from its first two literals and a set with the rest.
LEMMA Assembled ==
  ASSUME NEW T, NEW a \in Lit, NEW b \in T, T \subseteq Lit,
         \A q \in T : VarOf(q) # VarOf(a), \A q, r \in T : VarOf(q) = VarOf(r) => q = r
  PROVE  StartsWith(<<a, b>> \o Listed(T \ {b}), a, b, T)
<1> DEFINE U == T \ {b}
           n == Cardinality(U)
           s == Listed(U)
           c == <<a, b>> \o s
<1>1. IsFiniteSet(Lit)
  <2>1. IsFiniteSet(-NVars..NVars)
    BY TrailAssumption, FS_Interval
  <2> QED BY <2>1, FS_Subset DEF Lit
<1>2. IsFiniteSet(U)
  BY <1>1, FS_Subset
<1>3. n \in Nat /\ \E f : ListsSet(f, n, U)
  BY <1>2, ListExists
<1>4. PICK f : ListsSet(f, n, U)
  BY <1>3
<1>5. f \in SetToSeqs(U)
  BY <1>4 DEF SetToSeqs, ListsSet
<1>a. s \in SetToSeqs(U)
  BY <1>5 DEF Listed
<1> HIDE DEF s
<1>6. s \in [1..n -> U] /\ \A i, j \in 1..n : s[i] = s[j] => i = j
  BY <1>a DEF SetToSeqs
<1> HIDE DEF n
<1>7. s \in Seq(Lit) /\ Len(s) = n /\ \A i \in 1..n : s[i] \in U
  BY <1>3, <1>6
<1>8. c \in Seq(Lit) /\ Len(c) = n + 2 /\ DOMAIN c = 1..(n + 2) /\ c[1] = a /\ c[2] = b
  BY <1>3, <1>7
<1>9. \A k \in 3..(n + 2) : k - 2 \in 1..n /\ c[k] = s[k - 2]
  BY <1>3, <1>7
<1> HIDE DEF c
<1>10. \A k \in 2..(n + 2) : c[k] \in T
  <2> SUFFICES ASSUME NEW k \in 2..(n + 2) PROVE c[k] \in T
    OBVIOUS
  <2>1. CASE k = 2
    BY <1>8, <2>1
  <2>2. CASE k \in 3..(n + 2)
    BY <1>7, <1>9, <2>2
  <2> QED BY <1>3, <2>1, <2>2
<1>11. ASSUME NEW i \in 1..(n + 2), NEW j \in 1..(n + 2), VarOf(c[i]) = VarOf(c[j]) PROVE i = j
  <2>1. CASE i = 1 \/ j = 1
    <3>1. i \in 2..(n + 2) => VarOf(c[i]) # VarOf(c[1])
      BY <1>8, <1>10
    <3>2. j \in 2..(n + 2) => VarOf(c[j]) # VarOf(c[1])
      BY <1>8, <1>10
    <3> QED BY <1>3, <1>11, <2>1, <3>1, <3>2
  <2>2. CASE i # 1 /\ j # 1
    <3>1. i \in 2..(n + 2) /\ j \in 2..(n + 2)
      BY <1>3, <2>2
    <3>2. c[i] = c[j]
      BY <1>10, <1>11, <3>1
    <3>3. CASE i = 2 /\ j = 2
      BY <3>3
    <3>4. CASE i = 2 /\ j # 2
      BY <1>3, <1>7, <1>8, <1>9, <3>1, <3>2, <3>4
    <3>5. CASE i # 2 /\ j = 2
      BY <1>3, <1>7, <1>8, <1>9, <3>1, <3>2, <3>5
    <3>6. CASE i # 2 /\ j # 2
      <4>1. i - 2 \in 1..n /\ j - 2 \in 1..n /\ s[i - 2] = s[j - 2]
        BY <1>3, <1>9, <3>1, <3>2, <3>6
      <4>2. i - 2 = j - 2
        BY <1>6, <4>1
      <4> QED BY <1>3, <3>1, <4>2
    <3> QED BY <3>3, <3>4, <3>5, <3>6
  <2> QED BY <2>1, <2>2
<1>12. IsClause(c) /\ Len(c) = n + 2
  BY <1>3, <1>8, <1>11 DEF IsClause
<1> QED BY <1>8, <1>10, <1>12 DEF c, s, StartsWith

\* What SAnalyzeDone makes of the literals of analyze().
LEMMA LearntMade ==
  ASSUME Base, Layered, Analysed, SAnalyzeDone
  PROVE  Asserting'
<1> DEFINE a == -trail[index + 1]
<1>p. PICK T \in Shortened(a) :
         /\ learntLits' = IF T = {} THEN <<a>>
                          ELSE <<a, CHOOSE q \in HighestOf(T) : TRUE>>
                               \o Listed(T \ {CHOOSE q \in HighestOf(T) : TRUE})
         /\ target' = IF T = {} THEN 0 ELSE level[VarOf(CHOOSE q \in HighestOf(T) : TRUE)]
  BY DEF SAnalyzeDone, AnalyzeDone
<1> DEFINE b == CHOOSE q \in HighestOf(T) : TRUE
<1>0. /\ pc = "analyze" /\ pc' = "cancel" /\ learnt' = a /\ index < Len(trail)
      /\ target' \in Nat /\ target' < decisionLevel
      /\ UNCHANGED <<trail, trail_lim, level>>
  BY DEF SAnalyzeDone, AnalyzeDone, varVars
<1>1. /\ trail \in Seq(Lit) /\ DOMAIN trail = 1..Len(trail) /\ Len(trail) \in Nat /\ index \in Nat
      /\ trail_lim \in Seq(Nat) /\ DOMAIN trail_lim = 1..decisionLevel /\ decisionLevel \in Nat
      /\ \A i \in DOMAIN trail : trail[i] \in Lit /\ VarOf(trail[i]) \in Var
  BY TrailFacts DEF Base, TypeOK
<1>2. index + 1 \in DOMAIN trail
  BY <1>0, <1>1
<1>3. a \in Lit /\ a # lit_Undef /\ VarOf(a) = VarOf(trail[index + 1])
  BY <1>1, <1>2, VarOfLit DEF Lit, lit_Undef
<1>4. ASSUME NEW q \in T
      PROVE  \E i \in DOMAIN trail : q = -trail[i] /\ VarOf(q) = VarOf(trail[i]) /\ i <= index /\ q \in Lit
  <2>1. q \in out_learnt
    BY DEF Shortened, BinaryMinimized, Minimized
  <2>2. PICK i \in DOMAIN trail : q = -trail[i] /\ VarOf(trail[i]) \in seen
    BY <1>0, <2>1 DEF Analysed, Collected
  <2>3. PICK j \in 1..index : VarOf(trail[i]) = VarOf(trail[j])
    BY <1>0, <2>2 DEF Analysed, SeenBelow
  <2>4. i = j /\ i <= index
    <3>1. j \in DOMAIN trail
      BY <1>0, <1>1
    <3> QED BY <1>1, <2>3, <3>1 DEF Base, TrailOK
  <2>5. q \in Lit /\ VarOf(q) = VarOf(trail[i])
    BY <1>1, <2>2, VarOfLit
  <2> QED BY <2>2, <2>4, <2>5
<1>5. Learning'
  BY <1>0, <1>3 DEF Learning
<1>6. learntLits' = IF T = {} THEN <<a>> ELSE <<a, b>> \o Listed(T \ {b})
  BY <1>p
<1>7. target' = IF T = {} THEN 0 ELSE level[VarOf(b)]
  BY <1>p
<1>8. CASE T = {}
  <2>1. learntLits' = <<a>> /\ target' = 0
    BY <1>6, <1>7, <1>8
  <2> HIDE DEF a
  <2>2. learntLits' \in Seq(Lit) /\ Len(learntLits') = 1 /\ learntLits'[1] = a
    BY <1>3, <2>1
  <2> QED BY <1>0, <1>5, <2>1, <2>2 DEF Asserting
<1>9. CASE T # {}
  <2>1. \A q \in T : \E i \in DOMAIN trail : q = -trail[i]
    BY <1>4
  <2>2. \E q \in T : q \in HighestOf(T)
    <3>1. PICK U : U = T
      OBVIOUS
    <3> QED BY <1>9, <2>1, <3>1, HighestExists
  <2>3. b \in HighestOf(T)
    BY <2>2
  <2> HIDE DEF b
  <2>4. b \in T /\ \A q \in T : level[VarOf(q)] <= level[VarOf(b)]
    BY <2>3 DEF HighestOf
  <2>5. learntLits' = <<a, b>> \o Listed(T \ {b}) /\ target' = level[VarOf(b)]
    BY <1>6, <1>7, <1>9
  <2>6. T \subseteq Lit
    BY <1>4
  <2>7. \A q \in T : VarOf(q) # VarOf(a)
    <3> SUFFICES ASSUME NEW q \in T, VarOf(q) = VarOf(a) PROVE FALSE
      OBVIOUS
    <3>1. PICK i \in DOMAIN trail : VarOf(q) = VarOf(trail[i]) /\ i <= index
      BY <1>4
    <3>2. i = index + 1
      BY <1>2, <1>3, <3>1 DEF Base, TrailOK
    <3> QED BY <1>1, <3>1, <3>2
  <2>8. \A q, r \in T : VarOf(q) = VarOf(r) => q = r
    <3> SUFFICES ASSUME NEW q \in T, NEW r \in T, VarOf(q) = VarOf(r) PROVE q = r
      OBVIOUS
    <3>1. PICK i \in DOMAIN trail : VarOf(q) = VarOf(trail[i]) /\ q = -trail[i]
      BY <1>4
    <3>2. PICK k \in DOMAIN trail : VarOf(r) = VarOf(trail[k]) /\ r = -trail[k]
      BY <1>4
    <3>3. i = k
      BY <3>1, <3>2 DEF Base, TrailOK
    <3> QED BY <3>1, <3>2, <3>3
  <2>9. ASSUME NEW q \in T
        PROVE  \E i \in DOMAIN trail' : trail'[i] = -q /\ i <= trail_lim'[target' + 1]
    <3>1. PICK i \in DOMAIN trail : q = -trail[i] /\ VarOf(q) = VarOf(trail[i])
      BY <1>4
    <3>2. trail[i] = -q
      BY <1>1, <3>1, NegLit
    <3>a. PICK t \in Nat : t = target'
      BY <1>0
    <3>b. PICK m \in Nat : m = level[VarOf(trail[i])]
      BY <1>1, <3>1 DEF Layered
    <3>3. t + 1 \in DOMAIN trail_lim /\ m <= t
      <4>1. level[VarOf(q)] <= t
        BY <2>4, <2>5, <3>a
      <4>2. m <= t
        BY <3>1, <3>b, <4>1
      <4>3. t < decisionLevel
        BY <1>0, <3>a
      <4> QED BY <1>1, <4>2, <4>3
    <3>4. ~(trail_lim[t + 1] < i)
      BY <3>3, <3>b DEF Layered
    <3>5. trail_lim[t + 1] \in Nat
      BY <1>1, <3>3
    <3>6. i <= trail_lim[t + 1]
      BY <1>1, <3>4, <3>5
    <3> QED BY <1>0, <3>2, <3>6, <3>a
  <2> HIDE DEF a
  <2>10. /\ IsClause(learntLits') /\ learntLits'[1] = a /\ learntLits'[2] = b
         /\ \A k \in 2..Len(learntLits') : learntLits'[k] \in T
    <3>1. PICK U, e, f : U = T /\ e = a /\ f = b
      OBVIOUS
    <3>2. StartsWith(<<e, f>> \o Listed(U \ {f}), e, f, U)
      BY <1>3, <2>4, <2>6, <2>7, <2>8, <3>1, Assembled
    <3> QED BY <2>5, <3>1, <3>2 DEF StartsWith
  <2>11. learntLits' \in Seq(Lit) /\ Len(learntLits') >= 2
    BY <2>10 DEF IsClause
  <2>12. \A k \in 2..Len(learntLits') : \E i \in DOMAIN trail' :
            trail'[i] = -learntLits'[k] /\ i <= trail_lim'[target' + 1]
    BY <2>9, <2>10
  <2>13. level'[VarOf(learntLits'[2])] = target'
    BY <1>0, <2>5, <2>10
  <2> QED BY <1>0, <1>5, <2>10, <2>11, <2>12, <2>13 DEF Asserting
<1> QED BY <1>8, <1>9

\* Every step on the way to the attachment keeps the learnt clause asserting.
LEMMA AssertingStep ==
  ASSUME Base, Layered, Analysed, Asserting, [SolverNext]_allVars
  PROVE  Asserting'
<1>1. CASE UNCHANGED allVars
  BY <1>1 DEF allVars, vars, trailVars, solverVars, Asserting, Learning, decisionLevel
<1>2. CASE SAnalyzeDone
  BY <1>2, LearntMade
<1>3. CASE SCancel
  <2>1. /\ pc = "cancel" /\ Len(trail) > trail_lim[target + 1] /\ trail' = SubSeq(trail, 1, Len(trail) - 1)
        /\ UNCHANGED <<pc, trail_lim, learnt, target, level, learntLits>>
    BY <1>3 DEF SCancel, ECancel, Cancel, anaVars
  <2>2. Len(trail) \in DOMAIN trail /\ trail_lim[target + 1] \in Nat /\ trail \in Seq(Lit)
    BY <2>1, CancelPosition, TrailFacts DEF Base
  <2>3. \A i \in DOMAIN trail : i <= trail_lim[target + 1] => i \in DOMAIN trail' /\ trail'[i] = trail[i]
    BY <2>1, <2>2
  <2> QED BY <2>1, <2>3 DEF Asserting, Learning
<1>4. CASE SCancelDone
  <2>1. /\ pc = "cancel" /\ pc' = IF learnt = lit_Undef THEN "ready" ELSE "learn"
        /\ trail_lim' = SubSeq(trail_lim, 1, target)
        /\ UNCHANGED <<trail, learnt, target, level, learntLits>>
    BY <1>4 DEF SCancelDone, ECancelDone, CancelDone, anaVars, varVars
  <2>2. decisionLevel' = target
    <3>1. target \in Nat /\ target < decisionLevel /\ trail_lim \in Seq(Nat) /\ decisionLevel = Len(trail_lim)
      BY <2>1, CancelPosition, TrailFacts DEF Base
    <3> QED BY <2>1, <3>1 DEF decisionLevel
  <2> QED BY <2>1, <2>2 DEF Asserting, Learning
<1>5. CASE SLearn
  BY <1>5 DEF SLearn, ELearn, Learn, Asserting, Learning
<1>6. CASE ~(SAnalyzeDone \/ SCancel \/ SCancelDone \/ SLearn \/ UNCHANGED allVars)
  <2>1. pc \notin {"cancel", "learn"}
    BY <1>6, StepsAt
  <2>2. ~Learning'
    BY <1>6, <2>1, StepsTo DEF Learning
  <2>3. learntLits' = learntLits
    <3>1. CASE SStartAnalyze \/ SAnalyzeUndo
      BY <3>1 DEF SStartAnalyze, SAnalyzeUndo
    <3>2. CASE ~(SStartAnalyze \/ SAnalyzeUndo)
      BY <1>6, <3>2, AnaUntouched DEF anaVars
    <3> QED BY <3>1, <3>2
  <2> QED BY <2>1, <2>2, <2>3 DEF Asserting, Learning
<1> QED BY <1>1, <1>2, <1>3, <1>4, <1>5, <1>6
-----------------------------------------------------------------------------
(***************************************************************************)
(* The types of the rest.                                                  *)
(***************************************************************************)
\* The CRefs of reasons are in the database, and answers are literals.
ReasonRange == reason \in [Var -> 0..Len(db)]
Answers ==
  /\ status \in {"idle", "search", "stop"}
  /\ result \in {"none", "l_True", "l_False", "l_Undef"}
  /\ conflict \subseteq Lit

\* The database only grows in length.
LEMMA ReasonRangeStep ==
  ASSUME TypeOK, Queue, Stored, ReasonRange, wi \in Nat, wi >= 1, [SolverNext]_allVars
  PROVE  ReasonRange'
<1>1. PICK n \in Nat : n = Len(db)
  BY DEF Stored, Holds
<1>2. db \in Seq(Seq(Lit)) /\ DOMAIN db = 1..n /\ reason \in [Var -> 0..n] /\ Live \subseteq 1..n
  BY <1>1 DEF Stored, Holds, ReasonRange
<1>b. /\ 0 \in 0..n /\ n + 1 \in 0..(n + 1) /\ n + 1 \in Nat
      /\ reason \in [Var -> 0..(n + 1)]
  BY <1>2
<1>3. ASSUME NEW m \in Nat, m = Len(db'), n <= m, \/ reason' = reason \/ reason' \in [Var -> 0..m]
      PROVE  ReasonRange'
  <2>1. reason \in [Var -> 0..m]
    BY <1>2, <1>3
  <2> QED BY <1>3, <2>1 DEF ReasonRange
<1>4. ASSUME NEW c, Alloc(c) PROVE Len(db') = n + 1
  BY <1>1, <1>2, <1>4 DEF Alloc
<1>5. ASSUME NEW S, RemoveClauses(S) PROVE ReasonRange'
  <2>1. db' = [cr \in 1..n |-> IF cr \in S THEN <<>> ELSE db[cr]]
    BY <1>2, <1>5 DEF RemoveClauses
  <2>2. \A cr \in 1..n : (IF cr \in S THEN <<>> ELSE db[cr]) \in Seq(Lit)
    BY <1>2
  <2>3. Len(db') = n
    BY <1>1, <2>1, <2>2
  <2>4. PICK heads : reason' = [x \in Var |-> IF x \in heads THEN CRef_Undef ELSE reason[x]]
    BY <1>5 DEF RemoveClauses
  <2>5. \A x \in Var : (IF x \in heads THEN CRef_Undef ELSE reason[x]) \in 0..n
    BY <1>2 DEF CRef_Undef
  <2>6. reason' \in [Var -> 0..n]
    BY <2>4, <2>5
  <2> QED BY <1>3, <2>3, <2>6
<1>6. CASE AddLongClause
  <2>1. \E c : Alloc(c)
    BY <1>6 DEF AddLongClause
  <2>2. Len(db') = n + 1 /\ reason' = reason
    BY <1>4, <1>6, <2>1 DEF AddLongClause, varVars
  <2> QED BY <1>3, <2>2
<1>7. CASE AddUnitClause \/ SEnqueue \/ Assume \/ PickBranch
  <2>1. db' = db
    BY <1>7 DEF AddUnitClause, SEnqueue, Assume, PickBranch, dbVars
  <2>2. \E x : reason' = [reason EXCEPT ![x] = 0]
    BY <1>7 DEF AddUnitClause, SEnqueue, Assume, PickBranch, SetVar, CRef_Undef
  <2>3. reason' \in [Var -> 0..n]
    BY <1>2, <1>b, <2>2
  <2> QED BY <1>1, <1>3, <2>1, <2>3
<1>8. CASE ScanBinary \/ ScanUnitOrFalse
  <2>1. Scanning
    BY <1>8 DEF ScanBinary, ScanUnitOrFalse, ScanVisit
  <2>2. PICK r : r = W.cref
    OBVIOUS
  <2>3. r \in Live
    BY <2>1, <2>2, ScanPosition
  <2>4. Len(db') = n
    BY <1>1, <1>2, <1>8 DEF ScanBinary, ScanUnitOrFalse, dbVars
  <2>5. reason' = reason \/ \E x : reason' = [reason EXCEPT ![x] = r]
    BY <1>8, <2>2 DEF ScanBinary, ScanUnitOrFalse, ImplyFrom, SetVar, varVars
  <2>6. reason' \in [Var -> 0..n]
    <3>1. reason \in [Var -> 0..n] /\ r \in 0..n
      BY <1>2, <2>3
    <3>2. \A x : [reason EXCEPT ![x] = r] \in [Var -> 0..n]
      BY <3>1
    <3> QED BY <2>5, <3>1, <3>2
  <2> QED BY <1>3, <2>4, <2>6
<1>9. CASE ScanSatisfied \/ ScanMove \/ SAnalyzeUndo
  <2>1. reason' = reason
    BY <1>9 DEF ScanSatisfied, ScanMove, SAnalyzeUndo, varVars
  <2>2. \/ db' = db \/ \E r, c : db' = [db EXCEPT ![r] = c]
    BY <1>9 DEF ScanSatisfied, ScanMove, SAnalyzeUndo, TrueFirst
  <2>3. Len(db') = n
    BY <1>1, <1>2, <2>2
  <2> QED BY <1>3, <2>1, <2>3
<1>10. CASE Simplify \/ ReduceDB \/ AdaptSolver
  BY <1>5, <1>10 DEF Simplify, ReduceDB, AdaptSolver
<1>11. CASE SLearn
  <2>1. CASE Len(learntLits) = 1
    <3>1. db' = db
      BY <1>11, <2>1 DEF SLearn, dbVars
    <3>2. \E x : reason' = [reason EXCEPT ![x] = 0]
      BY <1>11, <2>1 DEF SLearn, SetVar, CRef_Undef
    <3>3. reason' \in [Var -> 0..n]
      BY <1>2, <1>b, <3>2
    <3> QED BY <1>1, <1>3, <3>1, <3>3
  <2>2. CASE Len(learntLits) # 1
    <3>1. Alloc(learntLits)
      BY <1>11, <2>2 DEF SLearn
    <3>2. \E x : reason' = [reason EXCEPT ![x] = n + 1]
      BY <1>1, <1>11, <2>2 DEF SLearn, SetVar
    <3>3. reason' \in [Var -> 0..(n + 1)]
      BY <1>b, <3>2
    <3> QED BY <1>3, <1>4, <3>1, <3>3
  <2> QED BY <2>1, <2>2
<1>12. CASE SCancel \/ SCancelDone \/ AssumeHeld
  <2>1. reason' = reason /\ db' = db
    BY <1>12 DEF SCancel, SCancelDone, AssumeHeld, varVars, dbVars, solverVars
  <2> QED BY <1>1, <1>3, <2>1
<1>13. CASE ~ReasonStep
  BY <1>1, <1>3, <1>13, ReasonUntouched
<1> QED
  BY <1>6, <1>7, <1>8, <1>9, <1>10, <1>11, <1>12, <1>13 DEF ReasonStep

\* The literals analyzeFinal() gives are literals.
LEMMA FinalLiterals ==
  ASSUME TypeOK, NEW p \in Lit
  PROVE  analyzeFinal(p) \subseteq Lit
<1>1. decisionLevel # 0 => \A i \in (trail_lim[1] + 1)..Len(trail) : i \in DOMAIN trail
  <2> SUFFICES ASSUME decisionLevel # 0, NEW i \in (trail_lim[1] + 1)..Len(trail) PROVE i \in DOMAIN trail
    OBVIOUS
  <2>1. 1 \in DOMAIN trail_lim /\ trail_lim \in Seq(Nat) /\ DOMAIN trail = 1..Len(trail) /\ Len(trail) \in Nat
    BY TrailFacts
  <2>2. trail_lim[1] \in Nat
    BY <2>1
  <2> QED BY <2>1, <2>2
<1>2. \A i \in DOMAIN trail : -trail[i] \in Lit
  BY TrailFacts, NegLit
<1> QED BY <1>1, <1>2 DEF analyzeFinal

\* A step writes nothing else to what solve() answers.
LEMMA AnswersStep ==
  ASSUME TypeOK, Literals, Answers, [SolverNext]_allVars
  PROVE  Answers'
<1>1. ASSUME NEW value, Stop(value), value \in {"l_True", "l_False", "l_Undef"}, conflict' \subseteq Lit
      PROVE  Answers'
  BY <1>1 DEF Stop, Answers
<1>2. CASE AssumeFailed
  <2>1. NextAssumption \in Lit
    <3>1. decisionLevel \in Nat /\ decisionLevel < Len(assumptions) /\ assumptions \in Seq(Lit)
      BY <1>2, TrailFacts DEF AssumeFailed, Assuming, Literals
    <3>2. decisionLevel + 1 \in DOMAIN assumptions
      BY <3>1
    <3> QED BY <3>1, <3>2 DEF NextAssumption
  <2>2. -NextAssumption \in Lit
    BY <2>1, NegLit
  <2> QED BY <1>1, <1>2, <2>2, FinalLiterals DEF AssumeFailed
<1>3. CASE GiveUp \/ ModelFound
  BY <1>1, <1>3 DEF GiveUp, ModelFound, Answers
<1>4. CASE Solve \/ Return \/ SConflictAtRoot
  BY <1>4 DEF Solve, Return, SConflictAtRoot, Answers
<1>5. CASE ~(AssumeFailed \/ GiveUp \/ ModelFound \/ Solve \/ Return \/ SConflictAtRoot)
  <2>1. UNCHANGED <<status, result, conflict>>
    BY <1>5 DEF SolverNext, SearchStep, allVars, solverVars, apiVars, SDequeue, ScanBinary, ScanSatisfied,
       ScanMove, ScanUnitOrFalse, ScanNextList, SEngineStep, SEnqueue, Restart, Simplify, ReduceDB, AdaptSolver,
       AssumeHeld, Assume, PickBranch, SStartAnalyze, SAnalyzeUndo, SAnalyzeDone, SCancel, SCancelDone, SLearn,
       AddRedundantClause, AddEmptyClause, AddUnitClause, AddLongClause, AddClauseCommon, SAddConstraint,
       EndScript, Finished
  <2> QED BY <2>1 DEF Answers
<1> QED BY <1>2, <1>3, <1>4, <1>5

-----------------------------------------------------------------------------
(***************************************************************************)
(* The inductive invariant.                                                *)
(***************************************************************************)
Searched ==
  /\ Base /\ Blamed /\ Layered /\ Literals /\ ScanAt
  /\ Stored /\ Reasoned /\ Conflicting /\ Analysed /\ Asserting
  /\ ReasonRange /\ Answers

\* It holds at first ...
LEMMA SearchedInit == SolverInit => Searched
<1> SUFFICES ASSUME SolverInit PROVE Searched
  OBVIOUS
<1>1. EngineInit
  BY DEF SolverInit
<1>2. Base /\ Blamed
  BY <1>1, EngineInitMaps, BaseInit, BlamedInit
<1>3. ScanAt
  BY DEF SolverInit, ScanAt
<1>4. Conflicting /\ Analysed /\ Asserting
  BY DEF SolverInit, EngineInit, Init, Conflicting, Analysed, Asserting, Learning
<1>5. ReasonRange /\ Answers
  BY DEF SolverInit, ReasonRange, Answers, CRef_Undef
<1> QED BY <1>2, <1>3, <1>4, <1>5, LayeredInit, LiteralsInit, StoredInit, ReasonedInit DEF Searched

\* ... and every step between states in which constraints explain themselves keeps it.
LEMMA SearchedStep == Searched /\ Explained /\ Explained' /\ [SolverNext]_allVars => Searched'
<1> SUFFICES ASSUME Searched, Explained, Explained', [SolverNext]_allVars PROVE Searched'
  OBVIOUS
<1>1. /\ Base /\ Blamed /\ Layered /\ Literals /\ ScanAt
      /\ Stored /\ Reasoned /\ Conflicting /\ Analysed /\ Asserting
      /\ ReasonRange /\ Answers
      /\ TypeOK /\ Queue /\ wi \in Nat /\ wi >= 1 /\ LearntIsClause
  BY LearntWellFormed DEF Searched, Base, ScanAt
<1>2. [EngineNext]_vars
  BY <1>1, SolverStepMaps
<1>3. Base' /\ Blamed'
  BY <1>1, <1>2, EngineStepMaps, BaseStep, BlamedStep
<1>4. Layered' /\ Literals' /\ ScanAt'
  BY <1>1, LayeredStep, LiteralsStep, ScanAtStep
<1>5. Stored'
  BY <1>1, StoredStep
<1>6. Reasoned'
  BY <1>1, ReasonedStep
<1>7. Conflicting'
  BY <1>1, ConflictingStep
<1>8. Analysed' /\ Asserting'
  BY <1>1, AnalysedStep, AssertingStep
<1>9. ReasonRange' /\ Answers'
  BY <1>1, ReasonRangeStep, AnswersStep
<1> QED BY <1>3, <1>4, <1>5, <1>6, <1>7, <1>8, <1>9 DEF Searched

\* As long as the constraints explain themselves, as Explained has it, the
\* search keeps its invariant.
THEOREM SolverSearched == SolverSpec /\ []Explained => []Searched
BY SearchedInit, SearchedStep, PTL DEF SolverSpec
-----------------------------------------------------------------------------
(***************************************************************************)
(* What follows.                                                           *)
(***************************************************************************)
\* Each long clause is in two lists, and in each once.
LEMMA StoredWatched == Base /\ Stored => WatchedTwice
<1> SUFFICES ASSUME Base, Stored, NEW cr \in DOMAIN db, NEW l \in Lit
             PROVE  Cardinality({i \in DOMAIN watches[l] : watches[l][i].cref = cr})
                      = IF Len(db[cr]) > 2 /\ -l \in {db[cr][1], db[cr][2]} THEN 1 ELSE 0
  BY DEF WatchedTwice
<1> DEFINE I == {i \in DOMAIN watches[l] : watches[l][i].cref = cr}
<1>1. cr \in Live => IsClause(db[cr]) /\ (Binary(db[cr]) <=> ~(Len(db[cr]) > 2))
  <2> SUFFICES ASSUME cr \in Live PROVE IsClause(db[cr]) /\ (Binary(db[cr]) <=> ~(Len(db[cr]) > 2))
    OBVIOUS
  <2>1. IsClause(db[cr])
    BY DEF Stored, Holds
  <2>2. Len(db[cr]) \in Nat /\ Len(db[cr]) >= 2
    BY <2>1 DEF IsClause
  <2>a. PICK m \in Nat : m = Len(db[cr])
    BY <2>2
  <2>3. Len(db[cr]) = 2 <=> ~(Len(db[cr]) > 2)
    <3>1. m >= 2
      BY <2>2, <2>a
    <3> QED BY <2>a, <3>1
  <2> QED BY <2>1, <2>3 DEF Binary
<1>2. cr \notin Live => db[cr] = <<>>
  BY DEF Stored, Holds
<1>3. Watched(db[cr], l) <=> -l \in {db[cr][1], db[cr][2]}
  BY DEF Watched
<1>4. CASE Len(db[cr]) > 2 /\ -l \in {db[cr][1], db[cr][2]}
  <2>1. cr \in Live
    BY <1>2, <1>4
  <2>2. Lists(watches[l], cr) /\ Once(watches[l])
    BY <1>1, <1>3, <1>4, <2>1 DEF Stored, WatchersOf
  <2>3. PICK i \in DOMAIN watches[l] : watches[l][i].cref = cr
    BY <2>2 DEF Lists
  <2>4. I = {i}
    BY <2>2, <2>3 DEF Once
  <2> QED BY <1>4, <2>4, FS_Singleton
<1>5. CASE ~(Len(db[cr]) > 2 /\ -l \in {db[cr][1], db[cr][2]})
  <2>1. ASSUME NEW i \in I PROVE FALSE
    <3>1. WatcherOf(watches[l][i], db, Live, FALSE, l)
      BY DEF Stored, WatchersOf
    <3>2. cr \in Live /\ ~Binary(db[cr]) /\ Watched(db[cr], l)
      BY <3>1 DEF WatcherOf
    <3> QED BY <1>1, <1>3, <1>5, <3>2
  <2>2. I = {}
    BY <2>1
  <2> QED BY <1>5, <2>2, FS_EmptySet
<1> QED BY <1>4, <1>5

\* Two variables of the current level in a set: without one, another is left.
LEMMA PathLeftWithout ==
  ASSUME NEW S, pathC(S) > 1, NEW x
  PROVE  \E y \in S : y # x /\ CurrentLevel(y)
<1> SUFFICES ASSUME \A y \in S : CurrentLevel(y) => y = x PROVE FALSE
  OBVIOUS
<1>1. {y \in S : CurrentLevel(y)} = {} \/ {y \in S : CurrentLevel(y)} = {x}
  OBVIOUS
<1>2. pathC(S) = Cardinality({y \in S : CurrentLevel(y)})
  BY DEF pathC
<1>3. Cardinality({}) = 0 /\ Cardinality({x}) = 1
  BY FS_EmptySet, FS_Singleton
<1>4. pathC(S) = 0 \/ pathC(S) = 1
  BY <1>1, <1>2, <1>3
<1> QED BY <1>4

\* Reasons are clauses as propagate() left them, and analyze() finds one for
\* each literal it resolves on.
LEMMA ReasonedStands == Base /\ Layered /\ Stored /\ Reasoned /\ Analysed => ReasonsStand
<1> SUFFICES ASSUME Base, Layered, Stored, Reasoned, Analysed PROVE ReasonsStand
  OBVIOUS
<1>1. ASSUME NEW i \in DOMAIN trail, trail_lim # <<>>, i > trail_lim[1], reason[VarOf(trail[i])] # CRef_Undef
      PROVE  /\ trail[i] \in ToSet(db[reason[VarOf(trail[i])]])
             /\ ~Binary(db[reason[VarOf(trail[i])]]) => db[reason[VarOf(trail[i])]][1] = trail[i]
             /\ ToSet(db[reason[VarOf(trail[i])]]) \ {trail[i]} \subseteq {-trail[j] : j \in 1..(i - 1)}
  <2> DEFINE cr == reason[VarOf(trail[i])]
  <2>1. FromClause(cr, i, db, trail, Live)
    BY <1>1 DEF Reasoned, Above
  <2>2. IsClause(db[cr])
    BY <2>1 DEF FromClause, Stored, Holds
  <2>3. ASSUME NEW q \in ToSet(db[cr]) \ {trail[i]} PROVE \E j \in 1..(i - 1) : q = -trail[j]
    <3>1. PICK j \in 1..(i - 1) : trail[j] = -q
      BY <2>1 DEF FromClause
    <3>2. q \in Int
      BY <2>2 DEF IsClause, ToSet, Lit
    <3> QED BY <3>1, <3>2
  <2> QED BY <2>1, <2>3 DEF FromClause
<1>2. ASSUME pc = "analyze", pathC(seen) > 1,
             NEW i, i = CHOOSE j \in 1..index : /\ VarOf(trail[j]) \in seen
                                                /\ \A m \in (j + 1)..index : VarOf(trail[m]) \notin seen
      PROVE  reason[VarOf(trail[i])] # CRef_Undef \/ nc_reason[VarOf(trail[i])] # 0
  <2>1. index \in Nat /\ index <= Len(trail) /\ DOMAIN trail = 1..Len(trail) /\ Len(trail) \in Nat
    BY <1>2, AnalyzePosition, TrailFacts DEF Base
  <2>2. \A x \in seen : \E j \in 1..index : x = VarOf(trail[j])
    BY <1>2 DEF Analysed, SeenBelow
  <2> DEFINE T == {j \in 1..index : VarOf(trail[j]) \in seen}
  <2>3. \E j \in T : \A m \in T : m <= j
    <3>1. PICK y \in seen : y # 0 /\ CurrentLevel(y)
      BY <1>2, PathLeftWithout
    <3>2. T # {} /\ T \in SUBSET Nat /\ \A j \in T : j <= index
      BY <2>1, <2>2, <3>1
    <3> HIDE DEF T
    <3> QED BY <2>1, <3>2, GreatestNat
  <2>4. PICK j \in 1..index : /\ VarOf(trail[j]) \in seen
                              /\ \A m \in 1..index : VarOf(trail[m]) \in seen => m <= j
    BY <2>3
  <2>5. \A m \in (j + 1)..index : m \in 1..index /\ ~(m <= j)
    BY <2>1
  <2>6. i \in 1..index /\ VarOf(trail[i]) \in seen /\ \A m \in (i + 1)..index : VarOf(trail[m]) \notin seen
    BY <1>2, <2>4, <2>5
  <2>7. PICK y \in seen : y # VarOf(trail[i]) /\ CurrentLevel(y)
    BY <1>2, PathLeftWithout
  <2>8. PICK k \in 1..index : y = VarOf(trail[k])
    BY <2>2
  <2>9. k < i
    BY <2>1, <2>6, <2>7, <2>8
  <2>10. i \in DOMAIN trail /\ k \in DOMAIN trail
    BY <2>1, <2>6
  <2> QED BY <1>2, <2>7, <2>8, <2>9, <2>10, AboveCurrent
<1> QED BY <1>1, <1>2 DEF ReasonsStand

\* What search() attaches is the clause analyze() made.
LEMMA LearntAsserts == Base /\ Layered /\ Asserting => LearntIsAsserting
<1> SUFFICES ASSUME Base, Layered, Asserting, pc = "learn"
             PROVE  /\ learntLits[1] = learnt
                    /\ \A i \in 2..Len(learntLits) : IsFalse(learntLits[i])
                    /\ IF Len(learntLits) = 1 THEN decisionLevel = 0
                       ELSE level[VarOf(learntLits[2])] = decisionLevel
  BY DEF LearntIsAsserting
<1> QED BY LearntClause

\* Everything the search keeps is of its type.
LEMMA SearchedTyped == Searched /\ Explained => SolverTypeOK
<1> SUFFICES ASSUME Searched, Explained PROVE SolverTypeOK
  OBVIOUS
<1>1. Base /\ Layered /\ Literals /\ Stored /\ Analysed /\ ReasonRange /\ Answers
  BY DEF Searched
<1>2. /\ db \in Seq(Seq(Lit)) /\ DOMAIN db = 1..Len(db)
      /\ clauses \cup learnts \subseteq DOMAIN db /\ clauses \cap learnts = {}
  BY <1>1 DEF Stored, Holds, Live
<1>3. \A cr \in DOMAIN db : ToSet(db[cr]) \subseteq Lit
  BY <1>2 DEF ToSet
<1>4. seen \subseteq Var /\ out_learnt \subseteq Lit
  <2>1. CASE pc = "analyze"
    <3>1. /\ index \in Nat /\ index <= Len(trail) /\ DOMAIN trail = 1..Len(trail) /\ Len(trail) \in Nat
          /\ \A i \in DOMAIN trail : -trail[i] \in Lit /\ VarOf(trail[i]) \in Var
      BY <1>1, <2>1, AnalyzePosition, TrailFacts, NegLit DEF Base
    <3>2. \A i \in 1..index : i \in DOMAIN trail
      BY <3>1
    <3> QED BY <1>1, <2>1, <3>1, <3>2 DEF Analysed, SeenBelow, Collected
  <2>2. CASE pc # "analyze"
    BY <1>1, <2>2 DEF Analysed
  <2> QED BY <2>1, <2>2
<1>5. EngineTypeOK
  BY DEF Searched, Blamed, Explained, EngineTypeOK
<1> QED BY <1>1, <1>2, <1>3, <1>4, <1>5 DEF SolverTypeOK, Layered, Literals, ReasonRange, Answers

\* What the runs check of the search, apart from what is about the models.
Claimed == SolverTypeOK /\ WatchedTwice /\ ReasonsStand /\ LearntIsAsserting

\* All of it follows from the inductive invariant.
LEMMA SearchedClaimed == Searched /\ Explained => Claimed
BY SearchedTyped, StoredWatched, ReasonedStands, LearntAsserts DEF Searched, Claimed

\* With constraints that explain themselves, everything the search keeps is of
\* its type; ...
THEOREM SearchTypeOK == SolverSpec /\ []Explained => []SolverTypeOK
BY SolverSearched, SearchedTyped, PTL

\* ... each clause of more than two literals is watched twice, and a clause
\* that was removed nowhere; ...
THEOREM SearchWatchedTwice == SolverSpec /\ []Explained => []WatchedTwice
<1>1. Searched /\ Explained => WatchedTwice
  BY SearchedClaimed DEF Claimed
<1> QED BY <1>1, SolverSearched, PTL

\* ... the reasons of literals are clauses not yet freed that did imply them,
\* and analyze() always finds one; ...
THEOREM SearchReasonsStand == SolverSpec /\ []Explained => []ReasonsStand
<1>1. Searched /\ Explained => ReasonsStand
  BY SearchedClaimed DEF Claimed
<1> QED BY <1>1, SolverSearched, PTL

\* ... and what is learnt is asserting at the level search() goes back to.
THEOREM SearchLearntIsAsserting == SolverSpec /\ []Explained => []LearntIsAsserting
<1>1. Searched /\ Explained => LearntIsAsserting
  BY SearchedClaimed DEF Claimed
<1> QED BY <1>1, SolverSearched, PTL

\* Where there are only clauses, no constraint is ever blamed or called.
Quiet == Base /\ Blamed /\ enq = <<>> /\ enqueue_failure = lit_Undef /\ ret = TRUE

LEMMA QuietStep == NConstr = 0 /\ Quiet /\ [EngineNext]_vars => Quiet'
<1> SUFFICES ASSUME NConstr = 0, Quiet, [EngineNext]_vars PROVE Quiet'
  OBVIOUS
<1>1. Base' /\ Blamed'
  BY EngineStepMaps, BaseStep, BlamedStep DEF Quiet
<1>2. nconstr = 0 /\ Constr = {}
  BY DEF Quiet, Base, TypeOK, Constr
<1>3. ~EAddConstraint /\ ~EEnqueue /\ ~EReturnFalse /\ ~(\E c \in Constr : ECall(c))
  BY <1>2 DEF Quiet, EAddConstraint, AddConstraint, EEnqueue, EReturnFalse
<1>4. UNCHANGED <<enq, enqueue_failure>> /\ (ret' = ret \/ ret' = TRUE)
  BY <1>3 DEF EngineNext, vars, engineVars, EInitialized, EReturnTrue, EAnalyzeUndo, ECancel,
     ECancelDone, ELearn, EUnchanged, EImplyByClause, EAddUnit, EDecide, Unconstrained
<1> QED BY <1>1, <1>4 DEF Quiet

LEMMA ClausesExplained == NConstr = 0 /\ Quiet => Explained
<1> SUFFICES ASSUME NConstr = 0, Quiet PROVE Explained
  OBVIOUS
<1>0. Base /\ Blamed
  BY DEF Quiet
<1>1. \A x \in Var : nc_reason[x] = 0
  BY <1>0 DEF Blamed
<1>2. confl = 0
  BY <1>0 DEF Blamed
<1>3. pc # "init"
  BY <1>0 DEF Blamed, Base, TypeOK
<1>4. pc = "analyze" /\ index < Len(trail) => VarOf(trail[index + 1]) \in Var
  <2> SUFFICES ASSUME pc = "analyze", index < Len(trail) PROVE VarOf(trail[index + 1]) \in Var
    OBVIOUS
  <2>1. index \in Nat /\ DOMAIN trail = 1..Len(trail) /\ Len(trail) \in Nat
    BY <1>0, AnalyzePosition, TrailFacts DEF Base
  <2>2. index + 1 \in DOMAIN trail
    BY <2>1
  <2> QED BY <1>0, <2>2, TrailFacts DEF Base
<1>5. enq \in Seq(Lit) /\ enqueue_failure \in Lit \cup {lit_Undef} /\ ret \in BOOLEAN
  BY DEF Quiet
<1> QED BY <1>1, <1>2, <1>3, <1>4, <1>5 DEF Explained

LEMMA QuietImplied == NConstr = 0 /\ Quiet => ImpliedFollows
<1> SUFFICES ASSUME NConstr = 0, Quiet PROVE ImpliedFollows
  OBVIOUS
<1>1. \A x \in Var : nc_reason[x] = 0
  BY DEF Quiet, Blamed
<1>2. \A i \in DOMAIN trail : VarOf(trail[i]) \in Var
  BY TrailFacts DEF Quiet, Base
<1> QED BY <1>1, <1>2 DEF ImpliedFollows

LEMMA QuietSearch == NConstr = 0 => (SolverSpec => []Explained /\ []ImpliedFollows)
<1> SUFFICES ASSUME NConstr = 0 PROVE SolverSpec => []Explained /\ []ImpliedFollows
  OBVIOUS
<1>1. SolverInit => Quiet
  BY SearchedInit DEF Searched, Quiet, SolverInit, EngineInit
<1>2. Quiet /\ [SolverNext]_allVars => Quiet'
  BY SolverStepMaps, QuietStep DEF Quiet, Base
<1>3. Quiet => Explained /\ ImpliedFollows
  BY ClausesExplained, QuietImplied
<1> QED BY <1>1, <1>2, <1>3, PTL DEF SolverSpec

\* So that for a problem in clauses nothing is asked: whatever the clauses, the
\* assumptions and the calls, and whatever the search chooses, all of it holds.
THEOREM ClausesClaimed == NConstr = 0 => (SolverSpec => []Claimed)
<1>1. Searched /\ Explained => Claimed
  BY SearchedClaimed
<1> QED BY <1>1, QuietSearch, SolverSearched, PTL

(***************************************************************************)
(* What every step leaves of the trail and of the watches, for the proofs  *)
(* about clauses that follow.                                              *)
(***************************************************************************)
\* Once the problem is unsatisfiable it stays so.
LEMMA OkStays ==
  ASSUME Base, [Next]_trailVars, ok'
  PROVE  ok
BY DEF Base, Queue, Next, Propagation, Backtracking, trailVars, AddEmpty, AddConstraint, DummyLevel, ConflictAtRoot,
   StartAnalyze, AddUnit, Decide, Initialized, StartCancel, AnalyzeDone, Dequeue, ClauseConflict, ClausesDone,
   ReturnTrue, ReturnFalse, CallsDone, Drain, DrainDone, Imply, Call, AnalyzeUndo, Cancel, CancelDone, Learn

\* What a step does to the trail from which trail[i] and all that was true by
\* the end of its level stay.
Lasting(i) ==
  /\ i \in DOMAIN trail'
  /\ \A j \in DOMAIN trail : level[VarOf(trail[j])] <= level[VarOf(trail[i])] =>
       j \in DOMAIN trail' /\ trail'[j] = trail[j] /\ level'[VarOf(trail[j])] = level[VarOf(trail[j])]

\* Every step, if i is not above what cancelUntil() is going back to.
LEMMA TrailLasts ==
  ASSUME Base, Layered, [SolverNext]_allVars, NEW i \in DOMAIN trail,
         pc = "cancel" => i <= trail_lim[target + 1]
  PROVE  Lasting(i)
<1>1. /\ trail \in Seq(Lit) /\ DOMAIN trail = 1..Len(trail) /\ Len(trail) \in Nat
      /\ \A j \in DOMAIN trail : trail[j] \in Lit /\ VarOf(trail[j]) \in Var
  BY TrailFacts DEF Base
<1>2. TypeOK /\ TrailOK /\ level \in [Var -> Nat] /\ order_heap \subseteq Var
  BY DEF Base, Layered
<1>3. CASE Stays \/ Opens \/ Closes
  <2>1. trail' = trail /\ level' = level
    BY <1>3 DEF Stays, Opens, Closes, ECancelDone, CancelDone
  <2> QED BY <2>1 DEF Lasting
<1>4. ASSUME NEW l, Pushes(l) \/ Decides(l) PROVE Lasting(i)
  <2>1. l \in Lit /\ IsUndef(l) /\ Enqueue(l) /\ \E lv : level' = [level EXCEPT ![VarOf(l)] = lv]
    BY <1>4 DEF Pushes, Decides
  <2>2. /\ Len(trail') = Len(trail) + 1 /\ trail' \in Seq(Lit)
        /\ \A j \in DOMAIN trail : trail'[j] = trail[j]
    BY <1>2, <2>1, EnqueueTrail
  <2>3. \A j \in DOMAIN trail : VarOf(trail[j]) # VarOf(l)
    BY <1>1, <1>2, <2>1, VarOfLit DEF IsUndef, IsTrue, IsFalse, TrailOK
  <2> QED BY <1>1, <1>2, <2>1, <2>2, <2>3 DEF Lasting
<1>5. CASE Pops
  <2> DEFINE n == Len(trail)
  <2>1. /\ pc = "cancel" /\ n > trail_lim[target + 1] /\ level' = level
        /\ trail' = SubSeq(trail, 1, n - 1)
    BY <1>5 DEF Pops, ECancel, Cancel
  <2>2. n \in DOMAIN trail /\ target + 1 \in DOMAIN trail_lim /\ trail_lim[target + 1] \in Nat /\ target \in Nat
    BY <2>1, CancelPosition DEF Base
  <2> HIDE DEF n
  <2>3. target + 1 <= level[VarOf(trail[n])] /\ ~(target + 1 <= level[VarOf(trail[i])])
    <3>1. \A j \in DOMAIN trail : trail_lim[target + 1] < j <=> target + 1 <= level[VarOf(trail[j])]
      BY <2>2 DEF Layered
    <3>2. i \in Nat /\ i <= trail_lim[target + 1]
      BY <1>1, <2>1
    <3> QED BY <2>1, <2>2, <3>1, <3>2
  <2>4. \A j \in DOMAIN trail : level[VarOf(trail[j])] <= level[VarOf(trail[i])] => j # n
    BY <1>1, <1>2, <2>2, <2>3
  <2>5. DOMAIN trail' = 1..(n - 1) /\ \A j \in 1..(n - 1) : trail'[j] = trail[j]
    BY <1>1, <2>1, <2>2
  <2>6. n \in Nat /\ DOMAIN trail = 1..n
    BY <1>1 DEF n
  <2>7. \A j \in DOMAIN trail : j # n => j \in DOMAIN trail' /\ trail'[j] = trail[j]
    BY <2>5, <2>6
  <2>8. i # n
    BY <1>1, <1>2, <2>4
  <2> QED BY <2>1, <2>4, <2>7, <2>8 DEF Lasting
<1> QED BY <1>2, <1>3, <1>4, <1>5, TrailKinds

\* No step has a clause watched by a literal that was true before.
LEMMA WatchesKept ==
  ASSUME Base, Stored, ScanAt, [SolverNext]_allVars, NEW cr \in Live, cr \in Live'
  PROVE  /\ ToSet(db'[cr]) = ToSet(db[cr]) /\ Len(db'[cr]) = Len(db[cr])
         /\ \A i \in DOMAIN trail : Watched(db'[cr], trail[i]) => Watched(db[cr], trail[i])
<1>0. TypeOK /\ TrailOK /\ Queue /\ wi \in Nat /\ wi >= 1 /\ \A i \in DOMAIN trail : trail[i] \in Lit
  BY TrailFacts DEF Base, ScanAt
<1>1. CASE ScanSatisfied \/ ScanUnitOrFalse
  <2>1. Scanning /\ ~wbin /\ (db' = db \/ db' = [db EXCEPT ![W.cref] = Turned])
    BY <1>1 DEF ScanSatisfied, ScanUnitOrFalse, ScanVisit
  <2>2. Alike(Turned, db[W.cref])
    BY <1>0, <2>1, TurnedFacts
  <2>3. db'[cr] = db[cr] \/ Alike(db'[cr], db[cr])
    BY <2>1, <2>2 DEF Stored, Holds
  <2> QED BY <1>0, <2>3 DEF Alike
<1>2. CASE ScanMove
  <2> DEFINE k == Min(NewWatches)
             c == Swap(Turned, 2, k)
  <2>1. Scanning /\ ~wbin /\ db' = [db EXCEPT ![W.cref] = c] /\ NewWatches # {}
    BY <1>2 DEF ScanMove, ScanVisit, Swap
  <2>2. k \in 3..Len(Turned) /\ ~IsFalse(Turned[k])
    BY <2>1, NewWatch DEF NewWatches
  <2>3. IsClause(Turned) /\ Alike(Turned, db[W.cref])
    BY <1>0, <2>1, TurnedFacts
  <2> HIDE DEF k
  <2>4. 1 \in DOMAIN Turned /\ 2 \in DOMAIN Turned /\ k \in DOMAIN Turned /\ 1 # 2 /\ 1 # k
    BY <2>2, <2>3 DEF IsClause
  <2>5. ToSet(c) = ToSet(Turned) /\ Len(c) = Len(Turned) /\ c[1] = Turned[1] /\ c[2] = Turned[k]
    BY <2>3, <2>4, SwapKeeps
  <2> HIDE DEF c
  <2>6. \A i \in DOMAIN trail : Watched(c, trail[i]) => Watched(db[W.cref], trail[i])
    <3>1. \A i \in DOMAIN trail : c[2] # -trail[i]
      BY <1>0, <2>2, <2>5, NegLit DEF IsFalse, TrailOK
    <3> QED BY <1>0, <2>3, <2>5, <3>1 DEF Watched, Alike
  <2>7. db'[cr] = IF cr = W.cref THEN c ELSE db[cr]
    BY <2>1 DEF Stored, Holds
  <2> QED BY <2>3, <2>5, <2>6, <2>7 DEF Alike
<1>3. CASE SAnalyzeUndo
  <2> DEFINE r == reason[VarOf(trail[index])]
  <2>1. db' = db \/ db' = TrueFirst(r)
    BY <1>3 DEF SAnalyzeUndo
  <2> HIDE DEF r
  <2>2. IsClause(db[cr]) /\ cr \in DOMAIN db
    BY DEF Stored, Holds
  <2>3. db'[cr] = db[cr] \/ db'[cr] = Swap(db[cr], 1, 2)
    BY <2>1, <2>2, TurnKeeps DEF TrueFirst, Binary
  <2>4. db'[cr] = db[cr] \/ Alike(db'[cr], db[cr])
    BY <2>2, <2>3, TurnKeeps
  <2> QED BY <1>0, <2>4 DEF Alike
<1>4. CASE Simplify \/ ReduceDB \/ AdaptSolver
  <2>1. PICK S : RemoveClauses(S)
    BY <1>4 DEF Simplify, ReduceDB, AdaptSolver
  <2> QED BY <2>1 DEF RemoveClauses, Live, Stored, Holds
<1>5. CASE AddLongClause \/ SLearn
  <2>1. db' = db \/ \E c : db' = Append(db, c)
    BY <1>5 DEF AddLongClause, SLearn, Alloc, dbVars
  <2>2. db \in Seq(Seq(Lit)) /\ cr \in DOMAIN db
    BY DEF Stored, Holds
  <2>3. ASSUME NEW c, db' = Append(db, c) PROVE db'[cr] = db[cr]
    <3> DEFINE T == Seq(Lit) \cup {c}
    <3>1. db \in Seq(T) /\ c \in T
      BY <2>2
    <3> HIDE DEF T
    <3> QED BY <2>2, <2>3, <3>1
  <2>4. db'[cr] = db[cr]
    BY <2>1, <2>3
  <2> QED BY <2>4
<1>6. CASE ~DbStep
  BY <1>6, DbUntouched DEF dbVars
<1> QED BY <1>1, <1>2, <1>3, <1>4, <1>5, <1>6 DEF DbStep

=============================================================================
