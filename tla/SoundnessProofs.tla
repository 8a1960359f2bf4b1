--------------------------- MODULE SoundnessProofs ---------------------------
(***************************************************************************)
(* What the search believes follows from what has been added: the clauses  *)
(* it keeps and learns, the literals of level 0, and that the problem is   *)
(* unsatisfiable; and what has been added follows from what it keeps.      *)
(***************************************************************************)
EXTENDS AnalysisProofs
LOCAL INSTANCE SequencesExt

(***************************************************************************)
(* Where the search is at level 0.                                         *)
(***************************************************************************)
\* Nobody but search() works above level 0, which solve_ leaves as it returns.
Rooted ==
  /\ status # "search" => decisionLevel = 0 \/ (pc = "cancel" /\ target = 0 /\ learnt = lit_Undef)
  /\ pc = "init" => decisionLevel = 0

\* Outside of search() no level is opened.
LEMMA LevelsStay ==
  ASSUME [SolverNext]_allVars, status # "search", ~SCancelDone
  PROVE  trail_lim' = trail_lim
BY ZenonT(40) DEF SolverNext, SearchStep, allVars, vars, trailVars, Searching, Assuming, AddClauseCommon, IsClauseCall, Idle,
   AddRedundantClause, AddEmptyClause, AddEmpty, AddUnitClause, EAddUnit, AddUnit, AddLongClause,
   SAddConstraint, EAddConstraint, AddConstraint, Solve, EndScript, Finished,
   SDequeue, Dequeue, ScanBinary, ImplyFrom, EImplyByClause, Imply, SClauseConflict, ClauseConflict,
   ScanSatisfied, ScanMove, ScanUnitOrFalse, ScanNextList, ClausesDone, SEngineStep,
   EInitialized, Initialized, EReturnTrue, ReturnTrue, EReturnFalse, ReturnFalse, ECall, Call,
   CallsDone, Drain, DrainDone, SEnqueue, EEnqueue, Restart, StartCancel, GiveUp, Stop, Simplify,
   ReduceDB, AdaptSolver, AssumeHeld, Assume, AssumeFailed, PickBranch, ModelFound, Return,
   SConflictAtRoot, ConflictAtRoot, SStartAnalyze, StartAnalyze, SAnalyzeUndo, EAnalyzeUndo, AnalyzeUndo,
   SAnalyzeDone, AnalyzeDone, SCancel, ECancel, Cancel, SLearn, ELearn, Learn

\* The steps in which a call begins or ends.
LEMMA StatusKinds ==
  ASSUME [SolverNext]_allVars
  PROVE  \/ status' = status
         \/ Solve \/ SConflictAtRoot \/ Return
         \/ Searching /\ \E v \in {"l_True", "l_False", "l_Undef"} : Stop(v)
BY DEF SolverNext, SearchStep, allVars, solverVars, apiVars, Searching, Assuming, AddClauseCommon,
   AddRedundantClause, AddEmptyClause, AddUnitClause, AddLongClause,
   SAddConstraint, EndScript, Finished, SDequeue, ScanBinary, ScanSatisfied, ScanMove, ScanUnitOrFalse,
   ScanNextList, SEngineStep, SEnqueue, Restart, GiveUp, Simplify, ReduceDB, AdaptSolver, AssumeHeld,
   Assume, AssumeFailed, PickBranch, ModelFound, SStartAnalyze, SAnalyzeUndo, SAnalyzeDone, SCancel,
   SCancelDone, SLearn

\* A constraint is added at level 0.
LEMMA InitAtRoot ==
  ASSUME [Next]_trailVars, pc' = "init", pc # "init"
  PROVE  decisionLevel' = 0
<1>1. AddConstraint
  BY DEF Next, Propagation, Backtracking, trailVars, AddEmpty, AddUnit, Initialized, Decide, DummyLevel,
     StartCancel, Dequeue, Imply, ClauseConflict, ClausesDone, Call, ReturnTrue, ReturnFalse, CallsDone,
     Drain, DrainDone, ConflictAtRoot, StartAnalyze, AnalyzeUndo, AnalyzeDone, Cancel, CancelDone, Learn
<1> QED BY <1>1 DEF AddConstraint, decisionLevel

\* cancelUntil(0) leaves no level.
LEMMA CancelDoneLevels ==
  ASSUME Base, SCancelDone
  PROVE  decisionLevel' = target /\ pc' # "cancel" /\ pc' # "init"
<1>1. /\ pc = "cancel" /\ Len(trail) = trail_lim[target + 1] /\ trail_lim' = SubSeq(trail_lim, 1, target)
      /\ pc' \in {"ready", "learn"}
  BY DEF SCancelDone, ECancelDone, CancelDone
<1>2. trail_lim \in Seq(Nat) /\ target \in Nat /\ target < Len(trail_lim)
  BY <1>1, CancelPosition, TrailFacts DEF Base
<1> QED BY <1>1, <1>2 DEF decisionLevel

\* Every step leaves whoever is not searching at level 0, or on the way to it.
LEMMA RootedStep ==
  ASSUME Base, Layered, Rooted, [SolverNext]_allVars
  PROVE  Rooted'
<1>1. status' # "search" => (decisionLevel = 0 \/ (pc = "cancel" /\ target = 0 /\ learnt = lit_Undef))'
  <2> SUFFICES ASSUME status' # "search"
               PROVE  decisionLevel' = 0 \/ (pc' = "cancel" /\ target' = 0 /\ learnt' = lit_Undef)
    OBVIOUS
  <2>1. CASE \E v \in {"l_True", "l_False", "l_Undef"} : Stop(v)
    BY <2>1 DEF Stop, StartCancel, trailVars, decisionLevel
  <2>2. CASE SConflictAtRoot
    BY <2>2 DEF SConflictAtRoot, ConflictAtRoot, decisionLevel
  <2>3. CASE Return
    BY <2>3 DEF Return, Fixpoint, vars, trailVars, Rooted, decisionLevel
  <2>4. CASE Solve
    BY <2>4 DEF Solve, NextCall, Idle, Rooted, vars, trailVars, decisionLevel
  <2>5. CASE status' = status
    <3>1. CASE SCancelDone
      <4>1. pc = "cancel" /\ target < decisionLevel /\ target \in Nat
        BY <3>1, CancelPosition DEF SCancelDone, ECancelDone, CancelDone, Base
      <4> QED BY <2>5, <3>1, <4>1, CancelDoneLevels DEF Rooted
    <3>2. CASE ~SCancelDone
      <4>1. trail_lim' = trail_lim
        BY <2>5, <3>2, LevelsStay
      <4>2. pc = "cancel" => pc' = pc /\ target' = target /\ learnt' = learnt
        BY <3>2, StepsAt DEF SCancel, ECancel, Cancel, allVars, vars, trailVars
      <4> QED BY <2>5, <4>1, <4>2 DEF Rooted, decisionLevel
    <3> QED BY <3>1, <3>2
  <2> QED BY <2>1, <2>2, <2>3, <2>4, <2>5, StatusKinds
<1>2. pc' = "init" => decisionLevel' = 0
  <2> SUFFICES ASSUME pc' = "init" PROVE decisionLevel' = 0
    OBVIOUS
  <2>1. CASE pc # "init"
    <3>1. [Next]_trailVars
      BY SolverStepMaps, EngineStepMaps DEF Base
    <3> QED BY <2>1, <3>1, InitAtRoot
  <2>2. CASE pc = "init"
    <3>1. Stays \/ (\E l : Pushes(l)) \/ (\E l : Decides(l)) \/ Opens \/ Pops \/ Closes
      BY TrailKinds DEF Layered
    <3>2. ~(\E l : Decides(l)) /\ ~Opens /\ ~Pops /\ ~Closes
      BY <2>2 DEF Decides, Opens, Fixpoint, Pops, ECancel, Cancel, Closes, ECancelDone, CancelDone
    <3> QED BY <2>2, <3>1, <3>2 DEF Stays, Pushes, Rooted, decisionLevel
  <2> QED BY <2>1, <2>2
<1> QED BY <1>1, <1>2 DEF Rooted
-----------------------------------------------------------------------------
(***************************************************************************)
(* A model of the problem, and what it makes true.                         *)
(***************************************************************************)
\* A total assignment makes one of two opposite literals true.
LEMMA TotalFacts ==
  ASSUME NEW A \in TotalAssignments
  PROVE  A \subseteq Lit /\ \A l \in Lit : l \in A <=> -l \notin A
<1>1. PICK f \in [Var -> BOOLEAN] : A = {IF f[x] THEN x ELSE -x : x \in Var}
  BY DEF TotalAssignments
<1>2. Var = 1..NVars /\ Lit = (-NVars..NVars) \ {0} /\ NVars \in Nat
  BY TrailAssumption DEF Var, Lit
<1>3. A \subseteq Lit
  BY <1>1, <1>2
<1>4. ASSUME NEW x \in Var PROVE (x \in A <=> f[x]) /\ (-x \in A <=> ~f[x])
  BY <1>1, <1>2
<1>5. \A l \in Lit : l \in Var \/ (-l \in Var /\ -(-l) = l)
  BY <1>2
<1> QED BY <1>3, <1>4, <1>5

\* A constraint that A meets has A among its solutions.
LEMMA ModelFacts ==
  ASSUME NEW A \in Sat!Models
  PROVE  /\ A \in TotalAssignments
         /\ \A f \in formula : f \cap A # {}
         /\ \A c \in Added : \A R : R \subseteq A => A \in Solutions(c, R)
BY DEF Sat!Models, MeetsConstraint, Solutions

\* The clauses in the database are true.
ClausesHit(A) == \A cr \in Live : ToSet(db[cr]) \cap A # {}

\* So are the literals of level 0.
RootHolds(A) == \A i \in DOMAIN trail : ~Above(i) => trail[i] \in A

\* So is the clause analyze() works on, whose literals are the negations of the
\* ones seen; the last one of the current level is no longer seen.
Refuted(A) ==
  pc = "analyze" =>
    \/ \E i \in 1..index : VarOf(trail[i]) \in seen /\ -trail[i] \in A
    \/ (\A x \in seen : ~CurrentLevel(x)) /\ index < Len(trail) /\ -trail[index + 1] \in A

SoundFor(A) ==
  /\ ok /\ ClausesHit(A)
  /\ learntLits # <<>> => ToSet(learntLits) \cap A # {}
  /\ RootHolds(A) /\ Refuted(A)

Sound == \A A \in Sat!Models : SoundFor(A)

\* What is true at level 0 is true in A.
LEMMA RootTrue ==
  ASSUME TypeOK, TrailOK, decisionLevel = 0, NEW A, RootHolds(A)
  PROVE  assigns \subseteq A
<1>1. trail_lim = <<>>
  BY TrailFacts DEF decisionLevel
<1>2. ASSUME NEW l \in assigns PROVE l \in A
  <2>1. PICK j \in DOMAIN trail : trail[j] = l
    BY TrailConsistent DEF IsTrue
  <2> QED BY <1>1, <2>1 DEF RootHolds, Above
<1> QED BY <1>2

\* So a clause that A makes true is not false there, ...
LEMMA NoneAtRoot ==
  ASSUME TypeOK, TrailOK, decisionLevel = 0, NEW A \in TotalAssignments, RootHolds(A),
         NEW C, C \cap A # {}
  PROVE  \E q \in C : q \in A /\ ~IsFalse(q)
<1>1. PICK q \in C : q \in A
  OBVIOUS
<1>2. q \in Lit /\ -q \notin A
  BY <1>1, TotalFacts
<1> QED BY <1>1, <1>2, RootTrue DEF IsFalse

\* ... and if all but one of its literals are, that one is true in A.
LEMMA UnitAtRoot ==
  ASSUME TypeOK, TrailOK, decisionLevel = 0, NEW A \in TotalAssignments, RootHolds(A),
         NEW C, C \cap A # {}, NEW l, \A q \in C \ {l} : IsFalse(q)
  PROVE  l \in A
BY NoneAtRoot

\* What addClause_ keeps of a clause is as true as the clause.
LEMMA KeptHit ==
  ASSUME TypeOK, TrailOK, NEW A \in TotalAssignments, RootHolds(A), decisionLevel = 0,
         CallLits \cap A # {}
  PROVE  Kept \cap A # {}
BY NoneAtRoot DEF Kept

\* A clause is added at level 0, and every model of what there is then makes it
\* true, and made true what there was.
LEMMA ModelsShrink ==
  ASSUME NEW A \in Sat!Models', TypeOK, [SolverNext]_allVars
  PROVE  A \in Sat!Models
<1>1. formula \subseteq formula'
  BY DEF SolverNext, SearchStep, allVars, solverVars, apiVars, AddClauseCommon,
     AddRedundantClause, AddEmptyClause, AddUnitClause, AddLongClause, Solve, Stop,
     SAddConstraint, EndScript, Finished, SDequeue, ScanBinary, ScanSatisfied, ScanMove, ScanUnitOrFalse,
     ScanNextList, SEngineStep, SEnqueue, Restart, GiveUp, Simplify, ReduceDB, AdaptSolver, AssumeHeld,
     Assume, AssumeFailed, PickBranch, ModelFound, Return, SConflictAtRoot, SStartAnalyze, SAnalyzeUndo,
     SAnalyzeDone, SCancel, SCancelDone, SLearn
<1>2. Added \subseteq Added'
  <2>1. [Next]_trailVars
    BY SolverStepMaps, EngineStepMaps
  <2>2. nconstr' = nconstr \/ AddConstraint
    BY <2>1 DEF Next, Propagation, Backtracking, trailVars, AddEmpty, AddUnit, Initialized, Decide, DummyLevel,
       StartCancel, Dequeue, Imply, Enqueue, ClauseConflict, ClausesDone, Call, ReturnTrue, ReturnFalse, CallsDone,
       Drain, DrainDone, ConflictAtRoot, StartAnalyze, AnalyzeUndo, AnalyzeDone, Cancel, CancelDone, Learn
  <2>3. nconstr' = nconstr \/ nconstr' = nconstr + 1
    BY <2>2 DEF AddConstraint
  <2>4. nconstr \in Nat
    BY TrailAssumption DEF TypeOK
  <2> QED BY <2>3, <2>4 DEF Added
<1> QED BY <1>1, <1>2 DEF Sat!Models, MeetsConstraint
-----------------------------------------------------------------------------
(***************************************************************************)
(* Clauses that are added or learnt, and those that stay.                  *)
(***************************************************************************)
\* The literals of a clause stay the same while it is in the database.
LEMMA ContentsStep ==
  ASSUME Base, Stored, ScanAt, [SolverNext]_allVars, ~AddLongClause, ~SLearn
  PROVE  \A cr \in Live' : cr \in Live /\ ToSet(db'[cr]) = ToSet(db[cr])
<1>0. TypeOK /\ TrailOK /\ Queue /\ wi \in Nat /\ wi >= 1
  BY DEF Base, ScanAt
<1>1. CASE ScanSatisfied \/ ScanUnitOrFalse
  <2>1. Scanning /\ ~wbin /\ Live' = Live /\ (db' = db \/ db' = [db EXCEPT ![W.cref] = Turned])
    BY <1>1 DEF ScanSatisfied, ScanUnitOrFalse, ScanVisit, Live
  <2>2. IsClause(Turned)
    BY <1>0, <2>1, TurnedFacts
  <2> QED BY <1>0, <2>1, <2>2, ScanFrame
<1>2. CASE ScanMove
  <2> DEFINE k == Min(NewWatches)
             c == Swap(Turned, 2, k)
  <2>1. /\ Scanning /\ ~wbin /\ Live' = Live
        /\ db' = [db EXCEPT ![W.cref] = c] /\ NewWatches # {}
    BY <1>2 DEF ScanMove, ScanVisit, Live, Swap
  <2>2. k \in 3..Len(Turned)
    BY <2>1, NewWatch DEF NewWatches
  <2>3. IsClause(Turned) /\ Len(Turned) > 2
    BY <1>0, <2>1, TurnedFacts
  <2> HIDE DEF k
  <2>4. 1 \in DOMAIN Turned /\ 2 \in DOMAIN Turned /\ k \in DOMAIN Turned /\ 1 # 2 /\ 1 # k
    BY <2>2, <2>3 DEF IsClause
  <2>5. IsClause(c) /\ Len(c) = Len(Turned) /\ ToSet(c) = ToSet(Turned) /\ c[1] = Turned[1]
    BY <2>3, <2>4, SwapKeeps
  <2> HIDE DEF c
  <2> QED BY <1>0, <2>1, <2>5, ScanFrame
<1>3. CASE SAnalyzeUndo
  <2> DEFINE r == reason[VarOf(trail[index])]
             c == db[r]
  <2>1. Live' = Live /\ (db' = db \/ db' = TrueFirst(r))
    BY <1>3 DEF SAnalyzeUndo, Live
  <2> HIDE DEF r
  <2>2. CASE db' = db
    BY <2>1, <2>2
  <2>3. CASE db' # db
    <3>1. Binary(c) /\ db' = [db EXCEPT ![r] = <<c[2], c[1]>>]
      BY <2>1, <2>3 DEF TrueFirst
    <3>2. ASSUME NEW cr \in Live PROVE ToSet(db'[cr]) = ToSet(db[cr])
      <4>1. CASE cr # r
        BY <3>1, <4>1 DEF Stored, Holds
      <4>2. CASE cr = r
        <5>1. IsClause(c) /\ r \in DOMAIN db
          BY <4>2 DEF Stored, Holds
        <5>2. db'[r] = Swap(c, 1, 2) /\ Alike(Swap(c, 1, 2), c)
          BY <3>1, <5>1, TurnKeeps DEF Binary
        <5> QED BY <4>2, <5>2 DEF Alike
      <4> QED BY <4>1, <4>2
    <3> QED BY <2>1, <3>2
  <2> QED BY <2>2, <2>3
<1>4. CASE Simplify \/ ReduceDB \/ AdaptSolver
  <2>1. PICK S : RemoveClauses(S)
    BY <1>4 DEF Simplify, ReduceDB, AdaptSolver
  <2> QED BY <2>1 DEF RemoveClauses, Live, Stored, Holds
<1>5. CASE ~DbStep
  BY <1>5, DbUntouched DEF dbVars, Live
<1> QED BY <1>1, <1>2, <1>3, <1>4, <1>5 DEF DbStep

\* Clauses are added at level 0.
LEMMA CallsAtRoot == Rooted /\ IsClauseCall => decisionLevel = 0
BY DEF Rooted, IsClauseCall, Idle

\* The clauses in the database stay true in a model of what is added.
LEMMA ClausesHitStep ==
  ASSUME Base, Literals, Stored, ScanAt, Asserting, Rooted, [SolverNext]_allVars,
         NEW A \in TotalAssignments, \A f \in formula' : f \cap A # {}, SoundFor(A)
  PROVE  ClausesHit(A)'
<1>0. db \in Seq(Seq(Lit)) /\ Live \subseteq DOMAIN db /\ ClausesHit(A) /\ RootHolds(A)
  BY DEF Stored, Holds, SoundFor
<1>1. ASSUME NEW c, Alloc(c), Live' = Live \cup {Len(db) + 1}, ToSet(c) \cap A # {}
      PROVE  ClausesHit(A)'
  <2>1. db' = Append(db, c)
    BY <1>1 DEF Alloc
  <2>2. db'[Len(db) + 1] = c /\ \A cr \in Live : db'[cr] = db[cr]
    BY <1>0, <2>1
  <2> QED BY <1>0, <1>1, <2>2 DEF ClausesHit
<1>2. CASE AddLongClause
  <2>1. PICK c \in SetToSeqs(Kept) : Alloc(c)
    BY <1>2 DEF AddLongClause
  <2>2. IsClauseCall /\ ~Redundant /\ Cardinality(Kept) > 1 /\ CallLits \in formula'
    BY <1>2 DEF AddLongClause, AddClauseCommon
  <2>3. ToSet(c) = Kept
    BY <2>1, <2>2, KeptIsClause DEF Base
  <2>4. Kept \cap A # {}
    BY <1>0, <2>2, CallsAtRoot, KeptHit DEF Base
  <2>5. Live' = Live \cup {Len(db) + 1}
    BY <1>2 DEF AddLongClause, Live
  <2> QED BY <1>1, <2>1, <2>3, <2>4, <2>5
<1>3. CASE SLearn
  <2>1. pc = "learn"
    BY <1>3 DEF SLearn, ELearn, Learn
  <2>2. CASE Len(learntLits) = 1
    BY <1>0, <1>3, <2>2 DEF SLearn, dbVars, ClausesHit, Live
  <2>3. CASE Len(learntLits) # 1
    <3>1. Alloc(learntLits) /\ Live' = Live \cup {Len(db) + 1}
      BY <1>3, <2>3 DEF SLearn, Live
    <3>2. learntLits # <<>>
      BY <2>1, LearntClause
    <3> QED BY <1>1, <3>1, <3>2 DEF SoundFor
  <2> QED BY <2>2, <2>3
<1>4. CASE ~AddLongClause /\ ~SLearn
  BY <1>0, <1>4, ContentsStep DEF ClausesHit
<1> QED BY <1>2, <1>3, <1>4

\* The steps in which the problem is found unsatisfiable.
LEMMA OkKinds ==
  ASSUME [SolverNext]_allVars, ok
  PROVE  ok' \/ AddEmptyClause \/ SConflictAtRoot \/ (EInitialized /\ ~ret)
<1>1. UNCHANGED ok \/ AddEmptyClause \/ SConflictAtRoot \/ EInitialized
  <2>1. CASE SDequeue \/ ScanBinary \/ ScanSatisfied \/ ScanMove \/ ScanUnitOrFalse \/ ScanNextList
    BY <2>1 DEF SDequeue, Dequeue, ScanBinary, ImplyFrom, EImplyByClause, Imply, SClauseConflict, ClauseConflict,
       ScanSatisfied, ScanMove, ScanUnitOrFalse, ScanNextList, ClausesDone, vars, trailVars
  <2>2. CASE SEngineStep \/ SEnqueue
    BY <2>2 DEF SEngineStep, EReturnTrue, ReturnTrue, EReturnFalse, ReturnFalse, ECall, Call, CallsDone, Drain,
       DrainDone, SEnqueue, EEnqueue, Imply
  <2>3. CASE Restart \/ GiveUp \/ Simplify \/ ReduceDB \/ AdaptSolver \/ AssumeHeld \/ Assume \/ AssumeFailed
             \/ PickBranch \/ ModelFound \/ Return
    BY <2>3 DEF Restart, StartCancel, GiveUp, Stop, Simplify, ReduceDB, AdaptSolver, AssumeHeld, DummyLevel,
       Assume, EDecide, Decide, AssumeFailed, PickBranch, ModelFound, Return, vars, trailVars
  <2>4. CASE SStartAnalyze \/ SAnalyzeUndo \/ SAnalyzeDone \/ SCancel \/ SCancelDone \/ SLearn
    BY <2>4 DEF SStartAnalyze, StartAnalyze, SAnalyzeUndo, EAnalyzeUndo, AnalyzeUndo, SAnalyzeDone, AnalyzeDone,
       SCancel, ECancel, Cancel, SCancelDone, ECancelDone, CancelDone, SLearn, ELearn, Learn, Imply, EDecide, Decide
  <2>5. CASE AddRedundantClause \/ AddUnitClause \/ AddLongClause \/ SAddConstraint \/ Solve \/ EndScript \/ Finished
             \/ UNCHANGED allVars
    BY <2>5 DEF AddRedundantClause, AddUnitClause, EAddUnit, AddUnit, AddLongClause, SAddConstraint, EAddConstraint,
       AddConstraint, Solve, EndScript, Finished, allVars, vars, trailVars
  <2> QED BY <2>1, <2>2, <2>3, <2>4, <2>5 DEF SolverNext, SearchStep
<1>2. EInitialized => ok' = ret
  BY DEF EInitialized, Initialized
<1> QED BY <1>1, <1>2

\* It is not while it has a model.
LEMMA OkStep ==
  ASSUME Base, Blamed, Stored, Conflicting, Rooted, Explained, [SolverNext]_allVars,
         NEW A \in Sat!Models, \A f \in formula' : f \cap A # {}, SoundFor(A)
  PROVE  ok'
<1>0. /\ A \in TotalAssignments /\ TypeOK /\ TrailOK /\ ok /\ ClausesHit(A) /\ RootHolds(A)
      /\ \A c \in Added : \A R : R \subseteq A => A \in Solutions(c, R)
  BY ModelFacts DEF Base, SoundFor
<1>1. ~AddEmptyClause
  <2> SUFFICES ASSUME AddEmptyClause PROVE FALSE
    OBVIOUS
  <2>1. IsClauseCall /\ CallLits \in formula' /\ Kept = {}
    BY DEF AddEmptyClause, AddClauseCommon
  <2> QED BY <1>0, <2>1, CallsAtRoot, KeptHit
<1>2. ~(EInitialized /\ ~ret)
  <2> SUFFICES ASSUME EInitialized, ~ret PROVE FALSE
    OBVIOUS
  <2>1. pc = "init" /\ enq = <<>>
    BY DEF EInitialized, Initialized
  <2>2. Solutions(nconstr, assigns) = {}
    BY <2>1 DEF Explained
  <2>3. assigns \subseteq A
    BY <1>0, <2>1, RootTrue DEF Rooted
  <2>4. nconstr \in Added
    BY <1>0, <2>1 DEF Blamed, Added, TypeOK
  <2> QED BY <1>0, <2>2, <2>3, <2>4
<1>3. ~SConflictAtRoot
  <2> SUFFICES ASSUME SConflictAtRoot PROVE FALSE
    OBVIOUS
  <2>1. pc = "conflict" /\ decisionLevel = 0
    BY DEF SConflictAtRoot, ConflictAtRoot
  <2>2. assigns \subseteq A
    BY <1>0, <2>1, RootTrue
  <2>3. CASE confl = 0
    <3>1. conflCref \in Live /\ \A q \in ToSet(db[conflCref]) : IsFalse(q)
      BY <2>1, <2>3 DEF Conflicting
    <3> QED BY <1>0, <2>1, <3>1, NoneAtRoot DEF ClausesHit
  <2>4. CASE confl # 0
    <3>1. confl \in Added
      BY <1>0, <2>4 DEF Blamed, Added, TypeOK
    <3>2. PICK R : R \subseteq assigns /\ Solutions(confl, R) = {}
      BY <2>1, <2>4 DEF Explained
    <3> QED BY <1>0, <2>2, <3>1, <3>2
  <2> QED BY <2>3, <2>4
<1> QED BY <1>0, <1>1, <1>2, <1>3, OkKinds
-----------------------------------------------------------------------------
(***************************************************************************)
(* The literals of level 0.                                                *)
(***************************************************************************)
\* What a constraint asks for does not change.
LEMMA MeetingPrimed == Meeting' = Meeting
BY DEF Meeting

\* A literal propagate() implies is in a clause all of whose other literals are false.
LEMMA ImpliedByClause ==
  ASSUME Base, Stored, ScanAt, NEW l \in Lit,
         \/ Scanning /\ wbin /\ l = W.blocker
         \/ ScanVisit /\ NewWatches = {} /\ l = Turned[1]
  PROVE  \E cr \in Live : l \in ToSet(db[cr]) /\ \A q \in ToSet(db[cr]) \ {l} : IsFalse(q)
<1>0. TypeOK /\ TrailOK /\ Queue /\ wi \in Nat /\ wi >= 1 /\ Scanning
  BY DEF Base, ScanAt, ScanVisit
<1>1. /\ trail[at] \in Lit /\ at \in DOMAIN trail /\ W.cref \in Live
      /\ IsClause(db[W.cref]) /\ (Binary(db[W.cref]) <=> wbin) /\ Watched(db[W.cref], trail[at])
      /\ W.blocker \in ToSet(db[W.cref]) /\ W.blocker # -trail[at]
  BY <1>0, ScanPosition
<1>2. IsFalse(-trail[at])
  <2>1. -(-trail[at]) = trail[at]
    BY <1>1, NegLit
  <2> QED BY <1>0, <1>1, <2>1, TrailConsistent
<1>3. CASE wbin /\ l = W.blocker
  <2>1. \A q \in ToSet(db[W.cref]) : q = W.blocker \/ q = -trail[at]
    BY <1>1, <1>3 DEF ToSet, IsClause, Binary, Watched
  <2> QED BY <1>1, <1>2, <1>3, <2>1
<1>4. CASE ScanVisit /\ NewWatches = {} /\ l = Turned[1]
  <2>1. /\ IsClause(Turned) /\ Alike(Turned, db[W.cref]) /\ Len(Turned) > 2
        /\ Turned[2] = -trail[at] /\ Turned[1] \in ToSet(db[W.cref])
    BY <1>0, <1>4, TurnedFacts DEF ScanVisit
  <2>2. ASSUME NEW q \in ToSet(Turned), q # Turned[1] PROVE IsFalse(q)
    <3>1. PICK k \in DOMAIN Turned : q = Turned[k]
      BY <2>2 DEF ToSet
    <3>2. k = 1 \/ k = 2 \/ k \in 3..Len(Turned)
      BY <2>1 DEF IsClause
    <3> QED BY <1>2, <1>4, <2>1, <2>2, <3>1, <3>2 DEF NewWatches
  <2>3. ToSet(Turned) = ToSet(db[W.cref])
    BY <2>1 DEF Alike
  <2> QED BY <1>1, <1>4, <2>1, <2>2, <2>3
<1> QED BY <1>0, <1>3, <1>4

\* The steps that may put a literal on the trail without opening a level.
LEMMA PushKinds ==
  ASSUME [SolverNext]_allVars, trail' # trail, trail_lim' = trail_lim
  PROVE  \/ AddUnitClause \/ SEnqueue \/ SLearn \/ SCancel \/ Assume \/ PickBranch
         \/ ScanBinary /\ ImplyFrom(W.cref, W.blocker)
         \/ ScanUnitOrFalse /\ ImplyFrom(W.cref, Turned[1])
BY ZenonT(40) DEF SolverNext, SearchStep, allVars, vars, trailVars, Searching, Assuming, AddClauseCommon, IsClauseCall, Idle,
   AddRedundantClause, AddEmptyClause, AddEmpty, AddLongClause,
   SAddConstraint, EAddConstraint, AddConstraint, Solve, EndScript, Finished,
   SDequeue, Dequeue, ScanBinary, SClauseConflict, ClauseConflict,
   ScanSatisfied, ScanMove, ScanUnitOrFalse, ScanNextList, ClausesDone, SEngineStep,
   EInitialized, Initialized, EReturnTrue, ReturnTrue, EReturnFalse, ReturnFalse, ECall, Call,
   CallsDone, Drain, DrainDone, Restart, StartCancel, GiveUp, Stop, Simplify,
   ReduceDB, AdaptSolver, AssumeHeld, DummyLevel, AssumeFailed, ModelFound, Return,
   SConflictAtRoot, ConflictAtRoot, SStartAnalyze, StartAnalyze, SAnalyzeUndo, EAnalyzeUndo, AnalyzeUndo,
   SAnalyzeDone, AnalyzeDone, SCancelDone, ECancelDone, CancelDone

\* What is put there at level 0 is true in every model.
LEMMA PushedAtRoot ==
  ASSUME Base, Blamed, Stored, ScanAt, Asserting, Rooted, ImpliedFollows', [SolverNext]_allVars,
         NEW A \in Sat!Models, \A f \in formula' : f \cap A # {}, SoundFor(A),
         NEW l, Pushes(l), decisionLevel = 0
  PROVE  l \in A
<1>0. /\ A \in TotalAssignments /\ TypeOK /\ TrailOK /\ ClausesHit(A) /\ RootHolds(A)
      /\ \A c \in Added : \A R : R \subseteq A => A \in Solutions(c, R)
  BY ModelFacts DEF Base, SoundFor
<1>n. PICK n \in Nat : n = Len(trail)
  BY <1>0, TrailFacts
<1>1. /\ trail \in Seq(Lit) /\ DOMAIN trail = 1..n
      /\ trail' = Append(trail, l) /\ trail_lim' = trail_lim /\ l \in Lit /\ pc # "cancel"
  BY <1>0, <1>n, TrailFacts DEF Pushes, Enqueue
<1>2. trail' # trail /\ trail'[n + 1] = l /\ DOMAIN trail' = 1..(n + 1) /\ \A i \in 1..n : trail'[i] = trail[i]
  <2>1. /\ trail' \in Seq(Lit) /\ Len(trail') = n + 1 /\ trail'[n + 1] = l
        /\ \A i \in DOMAIN trail : trail'[i] = trail[i]
    BY <1>0, <1>n, EnqueueTrail DEF Pushes
  <2>2. trail' # trail
    BY <1>n, <2>1
  <2> QED BY <1>1, <2>1, <2>2
<1>3. \A m \in Lit : trail' = Append(trail, m) => m = l
  <2> SUFFICES ASSUME NEW m \in Lit, trail' = Append(trail, m) PROVE m = l
    OBVIOUS
  <2>1. Append(trail, m)[n + 1] = m
    <3>1. trail \in Seq(Lit)
      BY <1>1
    <3>2. Append(trail, m)[Len(trail) + 1] = m
      BY <3>1
    <3> QED BY <1>n, <3>2
  <2> QED BY <1>2, <2>1
<1>4. ASSUME NEW cr \in Live, l \in ToSet(db[cr]), \A q \in ToSet(db[cr]) \ {l} : IsFalse(q)
      PROVE  l \in A
  BY <1>0, <1>4, UnitAtRoot DEF ClausesHit
<1>5. CASE AddUnitClause
  <2>1. PICK m \in Kept : Kept = {m} /\ EAddUnit(m)
    BY <1>5 DEF AddUnitClause
  <2>2. m = l
    BY <1>3, <2>1 DEF EAddUnit, AddUnit, Enqueue, IsUndef
  <2>3. IsClauseCall /\ CallLits \in formula'
    BY <1>5 DEF AddUnitClause, AddClauseCommon
  <2> QED BY <1>0, <2>1, <2>2, <2>3, KeptHit
<1>6. CASE ScanBinary /\ ImplyFrom(W.cref, W.blocker)
  <2>1. Scanning /\ wbin /\ W.blocker = l
    BY <1>3, <1>6 DEF ScanBinary, ImplyFrom, EImplyByClause, Imply, Enqueue, IsUndef
  <2> QED BY <1>1, <1>4, <2>1, ImpliedByClause
<1>7. CASE ScanUnitOrFalse /\ ImplyFrom(W.cref, Turned[1])
  <2>1. ScanVisit /\ NewWatches = {} /\ Turned[1] = l
    BY <1>3, <1>7 DEF ScanUnitOrFalse, ImplyFrom, EImplyByClause, Imply, Enqueue, IsUndef
  <2> QED BY <1>1, <1>4, <2>1, ImpliedByClause
<1>8. CASE SEnqueue
  <2>1. pc \in {"init", "called"} /\ Head(enq) = l /\ nc_reason' = [nc_reason EXCEPT ![VarOf(l)] = Running]
    BY <1>3, <1>8 DEF SEnqueue, EEnqueue, Imply, Enqueue, IsUndef
  <2>2. Running \in Added /\ Running # 0
    BY <1>0, <2>1, RunningIsConstr DEF Added
  <2>3. VarOf(l) \in Var /\ nc_reason \in [Var -> 0..NConstr]
    BY <1>1, VarOfLit DEF Blamed
  <2>4. nc_reason'[VarOf(l)] = Running
    BY <2>1, <2>3
  <2>5. PICK c, R : c = Running /\ R = {trail'[j] : j \in 1..n}
    OBVIOUS
  <2>6. \A B \in Meeting[c] : R \subseteq B => l \in B
    <3>1. (\A i \in DOMAIN trail :
             nc_reason[VarOf(trail[i])] # 0 =>
               \A B \in Meeting[nc_reason[VarOf(trail[i])]] :
                 {trail[j] : j \in 1..(i - 1)} \subseteq B => trail[i] \in B)'
      BY DEF ImpliedFollows, Solutions
    <3>2. n + 1 \in DOMAIN trail' /\ n + 1 - 1 = n
      BY <1>2
    <3> QED BY <1>2, <2>2, <2>4, <2>5, <3>1, <3>2, MeetingPrimed
  <2>7. R \subseteq A
    <3>1. R \subseteq assigns
      BY <1>1, <1>2, <2>5, <1>0 DEF TrailOK
    <3> QED BY <1>0, <3>1, RootTrue
  <2> QED BY <1>0, <2>2, <2>5, <2>6, <2>7 DEF Solutions
<1>9. CASE SLearn
  <2>1. pc = "learn" /\ learnt = l
    BY <1>3, <1>9 DEF SLearn, ELearn, Learn, Enqueue, Base, Backtrack
  <2>2. /\ learntLits \in Seq(Lit) /\ Len(learntLits) >= 1 /\ learntLits[1] = l
        /\ \A k \in 2..Len(learntLits) : IsFalse(learntLits[k])
    BY <2>1, LearntClause
  <2>3. ToSet(learntLits) \cap A # {}
    BY <2>2 DEF SoundFor
  <2>4. \A q \in ToSet(learntLits) \ {l} : IsFalse(q)
    <3> SUFFICES ASSUME NEW q \in ToSet(learntLits), q # l PROVE IsFalse(q)
      OBVIOUS
    <3>1. PICK k \in DOMAIN learntLits : q = learntLits[k]
      BY DEF ToSet
    <3>2. k \in 2..Len(learntLits)
      BY <2>2, <3>1
    <3> QED BY <2>2, <3>1, <3>2
  <2> QED BY <1>0, <2>3, <2>4, UnitAtRoot
<1>10. ~SCancel /\ ~Assume /\ ~PickBranch
  <2>1. ~SCancel
    BY <1>1 DEF SCancel, ECancel, Cancel
  <2>2. trail_lim' # Append(trail_lim, Len(trail))
    BY <1>0, <1>1, TrailFacts
  <2> QED BY <2>1, <2>2 DEF Assume, PickBranch, EDecide, Decide
<1> QED BY <1>1, <1>2, <1>5, <1>6, <1>7, <1>8, <1>9, <1>10, PushKinds

\* The literals of level 0 stay true in a model of what is added.
LEMMA RootHoldsStep ==
  ASSUME Base, Blamed, Layered, Stored, ScanAt, Asserting, Rooted, ImpliedFollows', [SolverNext]_allVars,
         NEW A \in Sat!Models, \A f \in formula' : f \cap A # {}, SoundFor(A)
  PROVE  RootHolds(A)'
<1>0. TypeOK /\ TrailOK /\ Levels /\ RootHolds(A)
  BY DEF Base, SoundFor
<1>n. PICK n \in Nat : n = Len(trail)
  BY <1>0, TrailFacts
<1>1. /\ trail \in Seq(Lit) /\ DOMAIN trail = 1..n
      /\ trail_lim \in Seq(Nat) /\ DOMAIN trail_lim = 1..decisionLevel /\ decisionLevel \in Nat
      /\ decisionLevel = Len(trail_lim)
  BY <1>0, <1>n, TrailFacts
<1>2. trail_lim # <<>> => 1 \in DOMAIN trail_lim /\ trail_lim[1] \in Nat
  BY <1>1
<1>3. trail_lim # <<>> /\ pc # "cancel" => trail_lim[1] <= n
  BY <1>0, <1>2, <1>n DEF Levels
<1>4. CASE Stays
  BY <1>0, <1>4 DEF Stays, RootHolds, Above
<1>5. ASSUME NEW l, l \in Lit, IsUndef(l), Enqueue(l)
      PROVE  DOMAIN trail' = 1..(n + 1) /\ trail'[n + 1] = l /\ \A i \in 1..n : trail'[i] = trail[i]
  <2>1. /\ trail' \in Seq(Lit) /\ Len(trail') = n + 1 /\ trail'[n + 1] = l
        /\ \A i \in DOMAIN trail : trail'[i] = trail[i]
    BY <1>0, <1>n, <1>5, EnqueueTrail
  <2> QED BY <1>1, <2>1
<1>6. ASSUME NEW l, Pushes(l) PROVE RootHolds(A)'
  <2>1. trail_lim' = trail_lim /\ pc # "cancel"
    BY <1>6 DEF Pushes
  <2>2. DOMAIN trail' = 1..(n + 1) /\ trail'[n + 1] = l /\ \A i \in 1..n : trail'[i] = trail[i]
    BY <1>5, <1>6 DEF Pushes
  <2>3. ASSUME ~Above(n + 1)' PROVE l \in A
    <3>1. decisionLevel = 0
      BY <1>1, <1>2, <1>3, <2>1, <2>3 DEF Above
    <3> QED BY <1>6, <3>1, PushedAtRoot
  <2>4. ASSUME NEW i \in DOMAIN trail', ~Above(i)' PROVE trail'[i] \in A
    <3>1. CASE i = n + 1
      BY <2>2, <2>3, <2>4, <3>1
    <3>2. CASE i \in 1..n
      BY <1>0, <1>1, <2>1, <2>2, <2>4, <3>2 DEF RootHolds, Above
    <3> QED BY <2>2, <3>1, <3>2
  <2> QED BY <2>4 DEF RootHolds
\* The entries below the level that is opened are those there were.
<1>7. ASSUME trail_lim' = Append(trail_lim, n), pc # "cancel", NEW i \in Nat, ~Above(i)'
      PROVE  i <= n /\ ~Above(i)
  <2>1. trail_lim' # <<>> /\ trail_lim'[1] = IF trail_lim = <<>> THEN n ELSE trail_lim[1]
    BY <1>1, <1>7
  <2> QED BY <1>2, <1>3, <1>7, <2>1 DEF Above
<1>8. ASSUME NEW l, Decides(l) PROVE RootHolds(A)'
  <2>1. trail_lim' = Append(trail_lim, n) /\ pc # "cancel"
    BY <1>8, <1>n DEF Decides, Fixpoint
  <2>2. DOMAIN trail' = 1..(n + 1) /\ \A i \in 1..n : trail'[i] = trail[i]
    BY <1>5, <1>8 DEF Decides
  <2>3. ASSUME NEW i \in DOMAIN trail', ~Above(i)' PROVE trail'[i] \in A
    <3>1. i <= n /\ ~Above(i) /\ i \in 1..n
      BY <1>7, <2>1, <2>2, <2>3
    <3> QED BY <1>0, <1>1, <2>2, <3>1 DEF RootHolds
  <2> QED BY <2>3 DEF RootHolds
<1>9. CASE Opens
  <2>1. trail_lim' = Append(trail_lim, n) /\ pc # "cancel" /\ trail' = trail
    BY <1>9, <1>n DEF Opens, Fixpoint
  <2> QED BY <1>0, <1>1, <1>7, <2>1 DEF RootHolds
<1>10. CASE Pops
  <2>1. /\ trail_lim' = trail_lim /\ pc = "cancel" /\ trail' = SubSeq(trail, 1, n - 1)
        /\ n > trail_lim[target + 1]
    BY <1>10, <1>n DEF Pops, ECancel, Cancel
  <2>2. n >= 1
    BY <1>0, <2>1, CancelPosition DEF Base
  <2>3. DOMAIN trail' \subseteq DOMAIN trail /\ \A i \in DOMAIN trail' : trail'[i] = trail[i]
    BY <1>1, <1>n, <2>1, <2>2
  <2> QED BY <1>0, <2>1, <2>3 DEF RootHolds, Above
<1>11. CASE Closes
  <2>1. /\ trail_lim' = SubSeq(trail_lim, 1, target) /\ pc = "cancel" /\ trail' = trail
        /\ n = trail_lim[target + 1]
    BY <1>11, <1>n DEF Closes, ECancelDone, CancelDone
  <2>2. target \in Nat /\ target < decisionLevel
    BY <1>0, <2>1, CancelPosition DEF Base
  <2>3. CASE target = 0
    <3>1. trail_lim # <<>> /\ trail_lim[1] = n
      BY <1>1, <2>1, <2>2, <2>3
    <3>2. \A i \in DOMAIN trail : ~Above(i)
      BY <1>1, <3>1 DEF Above
    <3> QED BY <1>0, <2>1, <3>2 DEF RootHolds
  <2>4. CASE target # 0
    <3>1. trail_lim # <<>> /\ trail_lim' # <<>> /\ trail_lim'[1] = trail_lim[1]
      BY <1>1, <2>1, <2>2, <2>4
    <3> QED BY <1>0, <2>1, <3>1 DEF RootHolds, Above
  <2> QED BY <2>3, <2>4
<1> QED BY <1>4, <1>6, <1>8, <1>9, <1>10, <1>11, TrailKinds DEF Layered
-----------------------------------------------------------------------------
(***************************************************************************)
(* The clause analyze() works on.                                          *)
(***************************************************************************)
\* No variable of the current level is left.
LEMMA NoPathLeft ==
  ASSUME NEW S, S \subseteq Var, ~(pathC(S) > 0)
  PROVE  \A x \in S : ~CurrentLevel(x)
<1> DEFINE C == {x \in S : CurrentLevel(x)}
<1>1. IsFiniteSet(C)
  <2>1. IsFiniteSet(Var)
    BY TrailAssumption, FS_Interval DEF Var
  <2> QED BY <2>1, FS_Subset
<1>2. Cardinality(C) \in Nat /\ (Cardinality(C) = 0 <=> C = {})
  BY <1>1, FS_CardinalityType, FS_EmptySet
<1>3. Cardinality(C) = 0
  BY <1>2 DEF pathC
<1> QED BY <1>2, <1>3

\* A literal of the reason that is false in A is above level 0, so that it is
\* marked.
LEMMA MarkedIfFalse ==
  ASSUME Base, Layered, NEW A \in TotalAssignments, RootHolds(A),
         NEW R, NEW S, Resolve(R, S), NEW i \in DOMAIN trail, trail[i] \in R, -trail[i] \in A
  PROVE  VarOf(trail[i]) \in seen'
<1>1. trail[i] \in Lit /\ VarOf(trail[i]) \in Var /\ decisionLevel \in Nat /\ DOMAIN trail_lim = 1..decisionLevel
      /\ trail_lim \in Seq(Nat) /\ decisionLevel = Len(trail_lim)
  BY TrailFacts DEF Base
<1>2. Above(i)
  BY <1>1, TotalFacts DEF RootHolds
<1>3. 1 \in DOMAIN trail_lim /\ trail_lim[1] < i
  BY <1>1, <1>2 DEF Above, Base, TypeOK
<1>4. level[VarOf(trail[i])] > 0 /\ level[VarOf(trail[i])] \in Nat
  BY <1>1, <1>3 DEF Layered
<1> QED BY <1>4 DEF Resolve

\* The reason of a constraint for a literal forces it.
LEMMA ResolvedForces ==
  ASSUME Base, Explained', SAnalyzeUndo, nc_reason[VarOf(trail[index])] # 0
  PROVE  \A B \in Meeting[nc_reason[VarOf(trail[index])]] :
           ReasonOf(Problem[nc_reason[VarOf(trail[index])]], cs'[nc_reason[VarOf(trail[index])]],
                    trail[index], lit_Undef) \subseteq B => trail[index] \in B
<1> DEFINE x == VarOf(trail[index])
           c == nc_reason[x]
<1>0. /\ pc = "analyze" /\ pc' = "analyze" /\ index' = index - 1 /\ index > trail_lim[decisionLevel]
      /\ UNCHANGED <<trail, assigns, nc_reason>>
  BY DEF SAnalyzeUndo, EAnalyzeUndo, AnalyzeUndo
<1>1. index \in Nat /\ index <= Len(trail) /\ Len(trail) \in Nat
  BY <1>0, AnalyzePosition, TrailFacts DEF Base
<1>2. index' < Len(trail') /\ index' + 1 = index
  BY <1>0, <1>1
<1>3. PICK k, s, p, e : k = Problem[c] /\ s = cs'[c] /\ p = trail[index] /\ e = lit_Undef
  OBVIOUS
<1>4. (LET pp == trail[index + 1]
           cc == nc_reason[VarOf(pp)]
           R  == ReasonOf(Problem[cc], cs[cc], pp, lit_Undef)
       IN cc # 0 => \A B \in Meeting[cc] : R \subseteq B => pp \in B)'
  BY <1>0, <1>2 DEF Explained, Solutions
<1>5. trail'[index' + 1] = trail[index] /\ nc_reason' = nc_reason
  BY <1>0, <1>2
<1>6. \A B \in Meeting[c] : ReasonOf(k, s, p, e)' \subseteq B => p \in B
  BY <1>3, <1>4, <1>5, MeetingPrimed
<1>7. \A B \in Meeting[c] : ReasonOf(k, s, p, e) \subseteq B => p \in B
  BY <1>0, <1>6, ReasonOfPrimed
<1> QED BY <1>3, <1>7

\* No literal of the clause is true only as long as the problem has no model.
LEMMA RefutedStep ==
  ASSUME Base, Blamed, Layered, Stored, Reasoned, Conflicting, Analysed, Explained, Explained',
         [SolverNext]_allVars, NEW A \in Sat!Models, SoundFor(A)
  PROVE  Refuted(A)'
<1>0. /\ A \in TotalAssignments /\ TypeOK /\ TrailOK /\ ClausesHit(A) /\ RootHolds(A) /\ Refuted(A)
      /\ \A c \in Added : \A R : R \subseteq A => A \in Solutions(c, R)
      /\ \A l \in Lit : l \in A <=> -l \notin A
      /\ Len(trail) \in Nat /\ DOMAIN trail = 1..Len(trail)
      /\ \A i \in DOMAIN trail : trail[i] \in Lit /\ VarOf(trail[i]) \in Var
  BY ModelFacts, TotalFacts, TrailFacts DEF Base, SoundFor
<1>1. CASE SStartAnalyze
  <2>1. /\ pc = "conflict" /\ pc' = "analyze" /\ index' = Len(trail) /\ trail' = trail
    BY <1>1 DEF SStartAnalyze, StartAnalyze
  <2> DEFINE Q == IF confl # 0 THEN ReasonOf(Problem[confl], cs[confl], lit_Undef, enqueue_failure)
                  ELSE {-r : r \in ToSet(db[conflCref])}
  <2>2. Resolve(Q, {})
    BY <1>1 DEF SStartAnalyze
  <2>3. \A q \in Q : \E i \in 1..Len(trail) : q = trail[i]
    BY <2>1, ConflictReason
  <2>4. \E q \in Q : -q \in A
    <3>1. CASE confl # 0
      <4>1. confl \in Added
        BY <1>0, <3>1 DEF Blamed, Added, TypeOK
      <4>2. Solutions(confl, Q) = {}
        BY <2>1, <3>1 DEF Explained
      <4>3. PICK q \in Q : q \notin A
        BY <1>0, <4>1, <4>2
      <4> QED BY <1>0, <2>3, <4>3
    <3>2. CASE confl = 0
      <4>1. conflCref \in Live
        BY <2>1, <3>2 DEF Conflicting
      <4>2. PICK r \in ToSet(db[conflCref]) : r \in A
        BY <1>0, <4>1 DEF ClausesHit
      <4>3. r \in Lit
        BY <1>0, <4>2, TotalFacts
      <4> QED BY <3>2, <4>2, <4>3, NegLit
    <3> QED BY <3>1, <3>2
  <2> HIDE DEF Q
  <2>5. PICK i \in 1..Len(trail) : trail[i] \in Q /\ -trail[i] \in A
    BY <2>3, <2>4
  <2>6. VarOf(trail[i]) \in seen'
    BY <1>0, <2>2, <2>5, MarkedIfFalse
  <2> QED BY <2>1, <2>5, <2>6 DEF Refuted
<1>2. CASE SAnalyzeUndo
  <2> DEFINE x == VarOf(trail[index])
             S == seen \ {x}
  <2>1. /\ pc = "analyze" /\ pc' = "analyze" /\ index' = index - 1 /\ pathC(seen) > 0
        /\ index > trail_lim[decisionLevel] /\ index \in DOMAIN trail
        /\ UNCHANGED <<trail, trail_lim, level>>
    BY <1>2, AnalyzePosition DEF SAnalyzeUndo, EAnalyzeUndo, AnalyzeUndo, varVars, Base
  <2>2. index \in 1..Len(trail)
    BY <1>0, <2>1
  <2>3. PICK n \in Nat : n = index - 1 /\ n + 1 = index /\ n < Len(trail)
    BY <1>0, <2>2
  <2>4. PICK i \in 1..index : VarOf(trail[i]) \in seen /\ -trail[i] \in A
    BY <1>0, <2>1, PathLeft DEF Refuted
  <2>5. seen \subseteq Var /\ \A y \in seen : \E j \in 1..index : y = VarOf(trail[j])
    <3>1. \A y \in seen : \E j \in 1..index : y = VarOf(trail[j])
      BY <2>1 DEF Analysed, SeenBelow
    <3>2. \A j \in 1..index : j \in DOMAIN trail
      BY <1>0, <2>2
    <3> QED BY <1>0, <3>1, <3>2
  <2>6. S \subseteq seen'
    BY <1>2 DEF SAnalyzeUndo, Resolve
  <2>7. ASSUME NEW j \in 1..n, VarOf(trail[j]) \in seen', -trail[j] \in A PROVE Refuted(A)'
    BY <2>1, <2>3, <2>7 DEF Refuted
  <2>8. CASE i # index
    <3>1. i \in 1..n /\ i \in DOMAIN trail
      BY <1>0, <2>2, <2>3, <2>4, <2>8
    <3>2. VarOf(trail[i]) # x
      BY <1>0, <2>1, <2>8, <3>1 DEF TrailOK
    <3> QED BY <2>4, <2>6, <2>7, <3>1, <3>2
  <2>9. CASE i = index /\ ~(pathC(S) > 0)
    <3>1. seen' = S
      BY <1>2, <2>9 DEF SAnalyzeUndo
    <3>2. \A y \in S : ~CurrentLevel(y)
      BY <2>5, <2>9, NoPathLeft
    <3>3. \A y : CurrentLevel(y)' <=> CurrentLevel(y)
      BY <2>1 DEF CurrentLevel, decisionLevel
    <3> QED BY <2>1, <2>3, <2>4, <2>9, <3>1, <3>2, <3>3 DEF Refuted
  <2>10. CASE i = index /\ pathC(S) > 0
    <3> DEFINE p == trail[index]
               Q == IF nc_reason[x] # 0
                    THEN ReasonOf(Problem[nc_reason[x]], cs'[nc_reason[x]], p, lit_Undef)
                    ELSE ClauseReason(reason[x], p)
    <3>1. Resolve(Q, S)
      BY <1>2, <2>4, <2>10 DEF SAnalyzeUndo
    <3>2. \A y \in S : \E j \in 1..(index - 1) : y = VarOf(trail[j])
      <4> SUFFICES ASSUME NEW y \in S PROVE \E j \in 1..(index - 1) : y = VarOf(trail[j])
        OBVIOUS
      <4>1. PICK j \in 1..index : y = VarOf(trail[j])
        BY <2>5
      <4>2. j # index
        BY <4>1
      <4>3. j \in 1..(index - 1)
        BY <2>2, <4>1, <4>2
      <4> QED BY <4>1, <4>3
    <3>3. \A q \in Q : \E j \in 1..(index - 1) : q = trail[j]
      BY <1>2, <2>10, <3>2, ResolvedReason
    <3>4. p \in Lit /\ p \notin A /\ -p \in A
      BY <1>0, <2>1, <2>4, <2>10
    <3>5. \E q \in Q : -q \in A
      <4>1. CASE nc_reason[x] # 0
        <5>1. nc_reason[x] \in Added
          BY <1>0, <2>1, <4>1 DEF Blamed, Added, TypeOK
        <5>2. A \in Meeting[nc_reason[x]]
          BY <1>0, <5>1 DEF Solutions
        <5>3. ~(Q \subseteq A)
          BY <1>2, <3>4, <4>1, <5>2, ResolvedForces
        <5>4. PICK q \in Q : q \notin A
          BY <5>3
        <5>5. q \in Lit
          <6>1. PICK j \in 1..(index - 1) : q = trail[j]
            BY <3>3
          <6>2. j \in DOMAIN trail
            BY <1>0, <2>2, <6>1
          <6> QED BY <1>0, <6>1, <6>2
        <5> QED BY <1>0, <5>4, <5>5
      <4>2. CASE nc_reason[x] = 0
        <5>1. FromClause(reason[x], index, db, trail, Live)
          BY <2>1, <2>10, <3>2, <4>2, WalkHasReason
        <5>2. Q = {-q : q \in ToSet(db[reason[x]]) \ {p}}
          BY <2>1, <3>4, <4>2, <5>1, ReasonBefore
        <5>3. PICK q \in ToSet(db[reason[x]]) : q \in A
          BY <1>0, <5>1 DEF FromClause, ClausesHit
        <5>4. q # p /\ q \in Lit /\ -(-q) = q
          <6>1. q # p /\ q \in Lit
            BY <1>0, <3>4, <5>3, TotalFacts
          <6> QED BY <6>1, NegLit
        <5> QED BY <5>2, <5>3, <5>4
      <4> QED BY <4>1, <4>2
    <3> HIDE DEF Q
    <3>6. PICK j \in 1..n : trail[j] \in Q /\ -trail[j] \in A
      BY <2>3, <3>3, <3>5
    <3>7. j \in DOMAIN trail
      BY <1>0, <2>3, <3>6
    <3>8. VarOf(trail[j]) \in seen'
      BY <1>0, <3>1, <3>6, <3>7, MarkedIfFalse
    <3> QED BY <2>7, <3>6, <3>8
  <2> QED BY <2>8, <2>9, <2>10
<1>3. CASE UNCHANGED allVars
  BY <1>0, <1>3 DEF allVars, vars, trailVars, solverVars, Refuted, CurrentLevel, decisionLevel
<1>4. CASE ~(SStartAnalyze \/ SAnalyzeUndo \/ UNCHANGED allVars)
  <2>1. pc' # "analyze"
    <3>1. SAnalyzeDone => pc' = "cancel"
      BY DEF SAnalyzeDone, AnalyzeDone
    <3>2. pc # "analyze" => pc' # "analyze"
      BY <1>4, StepsTo
    <3> QED BY <1>4, <3>1, <3>2, StepsAt
  <2> QED BY <2>1 DEF Refuted
<1> QED BY <1>1, <1>2, <1>3, <1>4
-----------------------------------------------------------------------------
(***************************************************************************)
(* The learnt clause.                                                      *)
(***************************************************************************)
\* Where a variable is implied by literals seen, redundant, or of level 0.
ImpliedWithin(x, S) ==
  \E j \in DOMAIN trail :
    /\ x = VarOf(trail[j]) /\ level[x] > 0 /\ reason[x] # CRef_Undef
    /\ \A q \in ClauseReason(reason[x], trail[j]) :
         level[VarOf(q)] = 0 \/ VarOf(q) \in seen \/ VarOf(q) \in S

\* That is so of each variable litRedundant() answers for.
LEMMA RedundantReason ==
  ASSUME TypeOK
  PROVE  \A x \in litRedundant : ImpliedWithin(x, litRedundant)
<1> DEFINE n == Len(trail)
           levels == {level[VarOf(q)] : q \in out_learnt}
           implied(y, S) == level[y] = 0 \/ y \in seen \/ (level[y] \in levels /\ y \in S)
           holds(i, S) == /\ level[VarOf(trail[i])] > 0 /\ reason[VarOf(trail[i])] # CRef_Undef
                          /\ \A q \in ClauseReason(reason[VarOf(trail[i])], trail[i]) : implied(VarOf(q), S)
           stepTo(i, S) == IF holds(i, S) THEN S \cup {VarOf(trail[i])} ELSE S
           body(f) == [i \in 0..n |-> IF i = 0 THEN {} ELSE stepTo(i, f[i - 1])]
           red == CHOOSE f : f = body(f)
           st == [a \in (SUBSET Var) \X (1..n) |-> stepTo(a[2], a[1])]
<1>1. n \in Nat /\ DOMAIN trail = 1..n /\ \A i \in 1..n : VarOf(trail[i]) \in Var
  BY TrailFacts
<1>2. litRedundant = red[n]
  BY DEF litRedundant
<1>3. \E f : f = body(f)
  <2>1. st \in [(SUBSET Var) \X (1..n) -> SUBSET Var]
    <3>1. \A i \in 1..n : \A S \in SUBSET Var : stepTo(i, S) \in SUBSET Var
      <4> HIDE DEF holds
      <4> QED BY <1>1
    <3> HIDE DEF stepTo
    <3> QED BY <3>1
  <2>2. {} \in SUBSET Var
    OBVIOUS
  <2> HIDE DEF st, n
  <2>3. \E f : Recurses(f, n, SUBSET Var, {}, st)
    BY <1>1, <2>1, <2>2, UpwardRecursion
  <2>4. PICK f : Recurses(f, n, SUBSET Var, {}, st)
    BY <2>3
  <2>5. f \in [0..n -> SUBSET Var] /\ f[0] = {} /\ \A i \in 1..n : f[i] = st[<<f[i - 1], i>>]
    BY <2>4 DEF Recurses
  <2>6. ASSUME NEW i \in 1..n PROVE f[i] = stepTo(i, f[i - 1])
    <3>1. f[i - 1] \in SUBSET Var
      BY <1>1, <2>5
    <3>2. <<f[i - 1], i>> \in (SUBSET Var) \X (1..n)
      BY <3>1
    <3> HIDE DEF stepTo
    <3> QED BY <2>5, <3>2 DEF st
  <2> HIDE DEF stepTo
  <2>7. f = body(f)
    <3>1. \A i \in 0..n : i # 0 => i \in 1..n
      BY <1>1
    <3> QED BY <1>1, <2>5, <2>6, <3>1
  <2> QED BY <2>7
<1>4. red = body(red)
  <2> HIDE DEF body
  <2> QED BY <1>3
<1> HIDE DEF n, red, stepTo
<1>5. red[0] = {} /\ \A i \in 1..n : red[i] = stepTo(i, red[i - 1])
  <2>1. 0 \in 0..n /\ \A i \in 1..n : i \in 0..n /\ i # 0
    BY <1>1
  <2>2. \A i \in 0..n : red[i] = IF i = 0 THEN {} ELSE stepTo(i, red[i - 1])
    BY <1>4
  <2> QED BY <2>1, <2>2
\* The set grows.
<1>6. \A i \in 0..n : red[i] \subseteq red[n]
  <2> DEFINE T == {k \in Nat : k <= n => \A i \in 0..k : red[i] \subseteq red[k]}
  <2>1. 0 \in T
    BY <1>1
  <2>2. ASSUME NEW k \in Nat, k \in T PROVE k + 1 \in T
    <3> SUFFICES ASSUME k + 1 <= n, NEW i \in 0..(k + 1) PROVE red[i] \subseteq red[k + 1]
      OBVIOUS
    <3>1. k + 1 \in 1..n /\ k + 1 - 1 = k
      BY <1>1
    <3>2. red[k] \subseteq red[k + 1]
      <4>1. red[k + 1] = stepTo(k + 1, red[k])
        BY <1>5, <3>1
      <4> HIDE DEF holds
      <4> QED BY <4>1 DEF stepTo
    <3>3. CASE i = k + 1
      BY <3>3
    <3>4. CASE i \in 0..k
      BY <1>1, <2>2, <3>1, <3>2, <3>4
    <3> QED BY <3>3, <3>4
  <2> HIDE DEF T
  <2>3. n \in T
    BY <1>1, <2>1, <2>2, NatSet
  <2> QED BY <1>1, <2>3 DEF T
<1>7. ASSUME NEW x \in red[n] PROVE ImpliedWithin(x, red[n])
  <2> DEFINE T == {i \in 0..n : x \in red[i]}
  <2>1. T \in SUBSET Nat /\ T # {}
    BY <1>1, <1>7
  <2>2. PICK i \in T : \A k \in T : i <= k
    <3> HIDE DEF T
    <3> QED BY <2>1, LeastNat
  <2>3. i \in 1..n /\ i - 1 \in 0..n
    BY <1>1, <1>5, <2>2
  <2>4. x \notin red[i - 1] /\ x \in red[i]
    BY <1>1, <2>2, <2>3
  <2>5. red[i] = stepTo(i, red[i - 1])
    BY <1>5, <2>3
  <2>6. x = VarOf(trail[i]) /\ holds(i, red[i - 1])
    <3> HIDE DEF holds
    <3> QED BY <2>4, <2>5 DEF stepTo
  <2>7. red[i - 1] \subseteq red[n] /\ i \in DOMAIN trail
    BY <1>1, <1>6, <2>3
  <2> HIDE DEF levels
  <2> QED BY <2>6, <2>7 DEF ImpliedWithin
<1> QED BY <1>2, <1>7

\* Listed() lists the whole set.
LEMMA ListedAll ==
  ASSUME NEW U, IsFiniteSet(U)
  PROVE  /\ Listed(U) \in Seq(U)
         /\ \A y \in U : \E i \in DOMAIN Listed(U) : Listed(U)[i] = y
<1> DEFINE n == Cardinality(U)
           s == Listed(U)
<1>1. n \in Nat /\ \E f : ListsSet(f, n, U)
  BY ListExists
<1>2. PICK f : ListsSet(f, n, U)
  BY <1>1
<1>3. f \in SetToSeqs(U)
  BY <1>2 DEF SetToSeqs, ListsSet
<1>4. s \in SetToSeqs(U)
  BY <1>3 DEF Listed
<1> HIDE DEF s
<1>5. s \in [1..n -> U] /\ \A i, j \in 1..n : s[i] = s[j] => i = j
  BY <1>4 DEF SetToSeqs
<1>l. ListsSet(s, n, U)
  BY <1>5 DEF ListsSet
<1>6. \A y \in U : \E i \in 1..n : s[i] = y
  BY <1>l, ListCovers
<1> HIDE DEF n
<1>7. s \in Seq(U) /\ DOMAIN s = 1..n
  BY <1>1, <1>5
<1>8. s \in Seq(U) /\ \A y \in U : \E i \in DOMAIN s : s[i] = y
  BY <1>6, <1>7
<1> QED BY <1>8 DEF s

\* analyze() leaves nothing of what is not redundant out of the clause.
LEMMA LearntCovers ==
  ASSUME Base, Layered, Analysed, SAnalyzeDone
  PROVE  /\ -trail[index + 1] \in ToSet(learntLits')
         /\ BinaryMinimized(-trail[index + 1], Minimized) \subseteq ToSet(learntLits')
<1> DEFINE a == -trail[index + 1]
<1>p. PICK T \in Shortened(a) :
         learntLits' = IF T = {} THEN <<a>>
                       ELSE <<a, CHOOSE q \in HighestOf(T) : TRUE>>
                            \o Listed(T \ {CHOOSE q \in HighestOf(T) : TRUE})
  BY DEF SAnalyzeDone
<1>r. BinaryMinimized(a, Minimized) \subseteq T /\ T \subseteq Minimized
  BY DEF Shortened, BinaryMinimized
<1> DEFINE b == CHOOSE q \in HighestOf(T) : TRUE
<1>1. learntLits' = IF T = {} THEN <<a>> ELSE <<a, b>> \o Listed(T \ {b})
  BY <1>p
<1>2. pc = "analyze" /\ \A i \in DOMAIN trail : trail[i] \in Lit /\ -trail[i] \in Lit
  BY TrailFacts, NegLit DEF SAnalyzeDone, AnalyzeDone, Base
<1>3. \A q \in T : \E i \in DOMAIN trail : q = -trail[i]
  BY <1>2, <1>r DEF Minimized, Analysed, Collected
<1>4. T \subseteq Lit
  BY <1>2, <1>3
<1>5. IsFiniteSet(Lit)
  <2>1. IsFiniteSet(-NVars..NVars)
    BY TrailAssumption, FS_Interval
  <2> QED BY <2>1, FS_Subset DEF Lit
<1> HIDE DEF a
<1>6. CASE T = {}
  BY <1>1, <1>r, <1>6 DEF ToSet, a
<1>7. CASE T # {}
  <2>1. \E q \in T : q \in HighestOf(T)
    <3>1. PICK U : U = T
      OBVIOUS
    <3> QED BY <1>3, <1>7, <3>1, HighestExists
  <2>2. b \in T
    BY <2>1 DEF HighestOf
  <2> HIDE DEF b
  <2>3. IsFiniteSet(T \ {b})
    BY <1>4, <1>5, FS_Subset
  <2>4. PICK s : s = Listed(T \ {b})
    OBVIOUS
  <2>5. s \in Seq(T \ {b}) /\ \A y \in T \ {b} : \E i \in DOMAIN s : s[i] = y
    BY <2>3, <2>4, ListedAll
  <2>6. PICK c : c = <<a, b>> \o s
    OBVIOUS
  <2>7. DOMAIN c = 1..(Len(s) + 2) /\ c[1] = a /\ c[2] = b /\ \A i \in DOMAIN s : c[i + 2] = s[i]
    BY <2>5, <2>6
  <2>8. Len(s) \in Nat /\ DOMAIN s = 1..Len(s)
    BY <2>5
  <2>9. a \in ToSet(c) /\ b \in ToSet(c)
    BY <2>7, <2>8 DEF ToSet
  <2>10. ASSUME NEW q \in T, q # b PROVE q \in ToSet(c)
    <3>1. PICK i \in DOMAIN s : s[i] = q
      BY <2>5, <2>10
    <3>2. i + 2 \in DOMAIN c /\ c[i + 2] = q
      BY <2>7, <2>8, <3>1
    <3> QED BY <3>2 DEF ToSet
  <2>11. learntLits' = c
    BY <1>1, <1>7, <2>4, <2>6
  <2> QED BY <1>r, <2>9, <2>10, <2>11 DEF a
<1> QED BY <1>6, <1>7

\* What minimisation with binary clauses removes is false if the rest is.
LEMMA BinaryFalse ==
  ASSUME Stored, NEW A \in TotalAssignments, ClausesHit(A), NEW l \in Lit, l \notin A,
         NEW S, S \subseteq Lit, BinaryMinimized(l, S) \cap A = {}
  PROVE  S \cap A = {}
<1>1. SUFFICES ASSUME NEW q \in S, q \in A, q \notin BinaryMinimized(l, S) PROVE FALSE
  OBVIOUS
<1>2. -l \in Lit /\ -(-l) = l /\ q \in Lit
  BY <1>1, NegLit
<1>3. PICK i \in DOMAIN watchesBin[-l] : watchesBin[-l][i].blocker = -q
  BY <1>1 DEF BinaryMinimized
<1>4. WatcherOf(watchesBin[-l][i], db, Live, TRUE, -l)
  BY <1>2 DEF Stored, WatchersOf
<1>5. PICK c : \E cr \in Live : c = db[cr] /\ Len(c) = 2 /\ (c[1] = l \/ c[2] = l) /\ -q \in ToSet(c) /\ -q # l
  BY <1>2, <1>3, <1>4 DEF WatcherOf, Watched, Binary
<1>6. c \in Seq(Lit) /\ ToSet(c) \cap A # {}
  BY <1>5 DEF Stored, Holds, IsClause, ClausesHit
<1>7. \A r \in ToSet(c) : r = l \/ r = -q
  BY <1>5, <1>6 DEF ToSet
<1>8. -q \in A
  BY <1>1, <1>6, <1>7
<1> QED BY <1>1, <1>2, <1>8, TotalFacts

\* What litRedundant() removes is false if the rest is: a literal it answers for
\* is implied by the negations of what stays.
LEMMA RedundantTrue ==
  ASSUME Base, Layered, Stored, Reasoned, Analysed, pc = "analyze", ~(pathC(seen) > 0),
         NEW A \in TotalAssignments, ClausesHit(A), RootHolds(A), Minimized \cap A = {}
  PROVE  \A j \in DOMAIN trail : VarOf(trail[j]) \in seen => trail[j] \in A
<1>0. /\ TypeOK /\ TrailOK /\ Len(trail) \in Nat /\ DOMAIN trail = 1..Len(trail)
      /\ \A i \in DOMAIN trail : trail[i] \in Lit /\ VarOf(trail[i]) \in Var
      /\ \A l \in Lit : l \in A <=> -l \notin A
      /\ trail_lim \in Seq(Nat) /\ DOMAIN trail_lim = 1..decisionLevel /\ decisionLevel \in Nat
      /\ decisionLevel = Len(trail_lim)
  BY TrailFacts, TotalFacts DEF Base
<1>1. \A x \in seen : ~CurrentLevel(x)
  <2>1. seen \subseteq Var
    <3> SUFFICES ASSUME NEW x \in seen PROVE x \in Var
      OBVIOUS
    <3>1. PICK i \in 1..index : x = VarOf(trail[i])
      BY DEF Analysed, SeenBelow
    <3>2. i \in DOMAIN trail
      BY <1>0, <3>1, AnalyzePosition DEF Base
    <3> QED BY <1>0, <3>1, <3>2
  <2> QED BY <2>1, NoPathLeft
<1> DEFINE D == DOMAIN trail
           known(x) == level[x] = 0 \/ x \in seen \/ x \in litRedundant
           T == {j \in D : known(VarOf(trail[j])) => trail[j] \in A}
<1>2. ASSUME NEW j \in D, \A k \in D : k < j => k \in T, known(VarOf(trail[j]))
      PROVE  trail[j] \in A
  <2> DEFINE x == VarOf(trail[j])
  <2>1. CASE ~Above(j)
    BY <2>1 DEF RootHolds
  <2>2. CASE Above(j) /\ x \in litRedundant
    <3>1. ImpliedWithin(x, litRedundant)
      BY <1>0, <2>2, RedundantReason
    <3>2. PICK i \in DOMAIN trail :
            /\ x = VarOf(trail[i]) /\ reason[x] # CRef_Undef
            /\ \A q \in ClauseReason(reason[x], trail[i]) : known(VarOf(q))
      BY <3>1 DEF ImpliedWithin
    <3>3. i = j
      BY <1>0, <3>2 DEF TrailOK
    <3>4. FromClause(reason[x], j, db, trail, Live)
      BY <2>2, <3>2, <3>3 DEF Reasoned
    <3>5. /\ ClauseReason(reason[x], trail[j]) = {-q : q \in ToSet(db[reason[x]]) \ {trail[j]}}
          /\ \A q \in ClauseReason(reason[x], trail[j]) : \E k \in 1..(j - 1) : q = trail[k]
      BY <1>0, <3>4, ReasonBefore
    <3>6. ASSUME NEW q \in ClauseReason(reason[x], trail[j]) PROVE q \in A
      <4>1. PICK k \in 1..(j - 1) : q = trail[k]
        BY <3>5
      <4>2. k \in D /\ k < j
        BY <1>0, <4>1
      <4>3. known(VarOf(trail[k]))
        BY <3>2, <3>3, <4>1
      <4> QED BY <1>2, <4>1, <4>2, <4>3
    <3>7. PICK q \in ToSet(db[reason[x]]) : q \in A
      BY <3>4 DEF FromClause, ClausesHit
    <3>8. q = trail[j]
      <4> SUFFICES ASSUME q # trail[j] PROVE FALSE
        OBVIOUS
      <4>1. -q \in A
        BY <3>5, <3>6, <3>7
      <4>2. q \in Lit
        BY <3>7, TotalFacts
      <4> QED BY <1>0, <3>7, <4>1, <4>2
    <3> QED BY <3>7, <3>8
  <2>3. CASE Above(j) /\ x \notin litRedundant
    <3>1. level[x] # 0
      <4>1. 1 \in DOMAIN trail_lim /\ trail_lim[1] < j
        BY <1>0, <2>3 DEF Above
      <4>2. 1 <= level[x]
        BY <4>1 DEF Layered
      <4> QED BY <4>2
    <3>2. x \in seen /\ ~CurrentLevel(x)
      BY <1>1, <1>2, <2>3, <3>1
    <3>3. -trail[j] \in out_learnt
      BY <3>2 DEF Analysed, Collected
    <3>4. VarOf(-trail[j]) = x
      BY <1>0, VarOfLit
    <3>5. -trail[j] \in Minimized
      BY <2>3, <3>3, <3>4 DEF Minimized
    <3> QED BY <1>0, <3>5
  <2> QED BY <2>1, <2>2, <2>3
<1>3. D \subseteq T
  <2>1. D \in SUBSET Nat
    BY <1>0
  <2>2. \A n \in D : (\A k \in D : k < n => k \in T) => n \in T
    BY <1>2
  <2> HIDE DEF D, T
  <2> QED BY <2>1, <2>2, StrongNat
<1> QED BY <1>3

\* So the learnt clause is true in every model.
LEMMA LearntHit ==
  ASSUME Base, Layered, Stored, Reasoned, Analysed, SAnalyzeDone, NEW A \in TotalAssignments, SoundFor(A)
  PROVE  ToSet(learntLits') \cap A # {}
<1>a. pc = "analyze" /\ pathC(seen) = 0 /\ index < Len(trail)
  BY DEF SAnalyzeDone, AnalyzeDone
<1>b. index \in Nat /\ Len(trail) \in Nat /\ DOMAIN trail = 1..Len(trail)
  BY TrailFacts DEF Base, TypeOK
<1>c. \A i \in DOMAIN trail : trail[i] \in Lit /\ -trail[i] \in Lit
  BY TrailFacts, NegLit DEF Base
<1>0. /\ ClausesHit(A) /\ RootHolds(A) /\ Refuted(A) /\ pc = "analyze" /\ ~(pathC(seen) > 0)
      /\ index < Len(trail) /\ index \in Nat /\ Len(trail) \in Nat /\ DOMAIN trail = 1..Len(trail)
      /\ \A i \in DOMAIN trail : trail[i] \in Lit /\ -trail[i] \in Lit
  BY <1>a, <1>b, <1>c DEF SoundFor
<1>1. SUFFICES ASSUME ToSet(learntLits') \cap A = {} PROVE FALSE
  OBVIOUS
<1> DEFINE a == -trail[index + 1]
<1>2. a \in Lit /\ a \notin A /\ BinaryMinimized(a, Minimized) \cap A = {}
  BY <1>0, <1>1, LearntCovers
<1>3. Minimized \subseteq Lit
  BY <1>0 DEF Minimized, Analysed, Collected
<1>4. Minimized \cap A = {}
  <2>1. PICK l, S : l = a /\ S = Minimized
    OBVIOUS
  <2> QED BY <1>0, <1>2, <1>3, <2>1, BinaryFalse
<1>5. \A j \in DOMAIN trail : VarOf(trail[j]) \in seen => trail[j] \in A
  BY <1>0, <1>4, RedundantTrue
<1>6. PICK i \in 1..index : VarOf(trail[i]) \in seen /\ -trail[i] \in A
  BY <1>0, <1>2 DEF Refuted
<1>7. i \in DOMAIN trail
  BY <1>0, <1>6
<1> QED BY <1>0, <1>5, <1>6, <1>7, TotalFacts

\* It stays so until it is attached.
LEMMA LearntHitStep ==
  ASSUME Base, Layered, Stored, Reasoned, Analysed, [SolverNext]_allVars, NEW A \in TotalAssignments, SoundFor(A)
  PROVE  (learntLits # <<>> => ToSet(learntLits) \cap A # {})'
<1>1. CASE SAnalyzeDone
  BY <1>1, LearntHit
<1>2. CASE SLearn
  BY <1>2 DEF SLearn
<1>3. CASE ~SAnalyzeDone /\ ~SLearn
  <2>1. learntLits' = learntLits
    BY <1>3, AnaUntouched DEF anaVars, SStartAnalyze, SAnalyzeUndo
  <2> QED BY <2>1 DEF SoundFor
<1> QED BY <1>1, <1>2, <1>3
-----------------------------------------------------------------------------
(***************************************************************************)
(* The theorems.                                                           *)
(***************************************************************************)
\* Nothing has been concluded at first ...
LEMMA SoundInit == SolverInit => Rooted /\ Sound
BY DEF SolverInit, EngineInit, Init, Rooted, Sound, SoundFor, ClausesHit, RootHolds, Refuted, Live, decisionLevel

\* ... and each step concludes only what is so in all models of what is added.
LEMMA SoundStep ==
  ASSUME Searched, Explained, Explained', ImpliedFollows', Rooted, Sound, [SolverNext]_allVars
  PROVE  Sound'
<1>1. /\ Base /\ Blamed /\ Layered /\ Literals /\ ScanAt
      /\ Stored /\ Reasoned /\ Conflicting /\ Analysed /\ Asserting
  BY DEF Searched
<1>2. ASSUME NEW A \in Sat!Models' PROVE SoundFor(A)'
  <2>1. A \in Sat!Models
    BY <1>1, ModelsShrink DEF Base
  <2>2. SoundFor(A)
    BY <2>1 DEF Sound
  <2>3. \A f \in formula' : f \cap A # {}
    BY DEF Sat!Models
  <2>4. A \in TotalAssignments
    BY <2>1, ModelFacts
  <2>5. ok'
    BY <1>1, <2>1, <2>2, <2>3, OkStep
  <2>6. ClausesHit(A)'
    BY <1>1, <2>2, <2>3, <2>4, ClausesHitStep
  <2>7. (learntLits # <<>> => ToSet(learntLits) \cap A # {})'
    BY <1>1, <2>2, <2>4, LearntHitStep
  <2>8. RootHolds(A)'
    BY <1>1, <2>1, <2>2, <2>3, RootHoldsStep
  <2>9. Refuted(A)'
    BY <1>1, <2>1, <2>2, RefutedStep
  <2> QED BY <2>5, <2>6, <2>7, <2>8, <2>9 DEF SoundFor
<1> QED BY <1>2 DEF Sound

\* Which is what the runs check.
LEMMA SoundFollows == Base /\ Sound => EverythingFollows
<1> SUFFICES ASSUME Base, Sound, NEW A \in Sat!Models
             PROVE  /\ ok
                    /\ \A cr \in clauses \cup learnts : ToSet(db[cr]) \cap A # {}
                    /\ learntLits # <<>> => ToSet(learntLits) \cap A # {}
                    /\ \A i \in 1..(IF trail_lim = <<>> THEN Len(trail) ELSE trail_lim[1]) : trail[i] \in A
  BY DEF EverythingFollows
<1>1. ok /\ ClausesHit(A) /\ RootHolds(A) /\ (learntLits # <<>> => ToSet(learntLits) \cap A # {})
  BY DEF Sound, SoundFor
<1>2. ASSUME NEW i \in 1..(IF trail_lim = <<>> THEN Len(trail) ELSE trail_lim[1]) PROVE trail[i] \in A
  <2>1. DOMAIN trail = 1..Len(trail) /\ Len(trail) \in Nat
    BY TrailFacts DEF Base
  <2>2. CASE trail_lim = <<>>
    BY <1>1, <2>1, <2>2 DEF RootHolds, Above
  <2>3. CASE trail_lim # <<>>
    <3>1. 1 \in DOMAIN trail_lim /\ trail_lim[1] \in Nat
      BY <2>3, TrailFacts DEF Base
    <3>2. trail_lim[1] <= Len(trail)
      <4>1. pc = "cancel" => 1 <= target + 1
        BY CancelPosition DEF Base
      <4> QED BY <3>1, <4>1 DEF Base, Levels
    <3>3. i \in DOMAIN trail /\ ~Above(i)
      BY <2>1, <2>3, <3>1, <3>2 DEF Above
    <3> QED BY <1>1, <3>3 DEF RootHolds
  <2> QED BY <2>2, <2>3
<1> QED BY <1>1, <1>2 DEF ClausesHit, Live

\* As long as the constraints imply nothing they should not, whatever the calls
\* and the search's choices: every clause that was added, shortened, learnt or
\* minimised, every literal of level 0 and the verdict of unsatisfiability follow
\* from what the user has added.
THEOREM SearchSound == SolverSpec /\ []Explained /\ []ImpliedFollows => []EverythingFollows
<1>1. SolverInit => Rooted /\ Sound
  BY SoundInit
<1>2. Searched /\ Rooted /\ [SolverNext]_allVars => Rooted'
  BY RootedStep DEF Searched
<1>3. Searched /\ Explained /\ Explained' /\ ImpliedFollows' /\ Rooted /\ Sound /\ [SolverNext]_allVars => Sound'
  BY SoundStep
<1>4. Searched /\ Sound => EverythingFollows
  BY SoundFollows DEF Searched
<1> QED BY <1>1, <1>2, <1>3, <1>4, SolverSearched, PTL DEF SolverSpec

\* So that CDCL itself is sound: for a problem in clauses nothing is asked.
THEOREM ClausesSound == NConstr = 0 => (SolverSpec => []EverythingFollows)
BY QuietSearch, SearchSound, PTL

(***************************************************************************)
(* What is added stays.                                                    *)
(***************************************************************************)
\* The entries of level 0 are those of the variables of level 0.
LEMMA RootLevel ==
  ASSUME TypeOK, Layered, NEW i \in DOMAIN trail
  PROVE  Above(i) <=> level[VarOf(trail[i])] > 0
<1>1. /\ i \in Nat /\ VarOf(trail[i]) \in Var /\ trail_lim \in Seq(Nat)
      /\ DOMAIN trail_lim = 1..decisionLevel /\ decisionLevel \in Nat /\ decisionLevel = Len(trail_lim)
  BY TrailFacts
<1>2. level[VarOf(trail[i])] \in Nat /\ level[VarOf(trail[i])] <= decisionLevel
  BY <1>1 DEF Layered
<1>3. CASE trail_lim = <<>>
  BY <1>1, <1>2, <1>3 DEF Above
<1>4. CASE trail_lim # <<>>
  <2>1. 1 \in DOMAIN trail_lim
    BY <1>1, <1>4
  <2>2. trail_lim[1] < i <=> 1 <= level[VarOf(trail[i])]
    BY <2>1 DEF Layered
  <2>3. trail_lim[1] \in Nat
    BY <1>1, <2>1
  <2> QED BY <1>1, <1>2, <1>4, <2>2, <2>3 DEF Above
<1> QED BY <1>3, <1>4

\* They stay where they are.
LEMMA RootLasts ==
  ASSUME Base, Base', Layered, Layered', [SolverNext]_allVars, NEW i \in DOMAIN trail, ~Above(i)
  PROVE  i \in DOMAIN trail' /\ trail'[i] = trail[i] /\ ~Above(i)'
<1>1. VarOf(trail[i]) \in Var /\ i \in Nat /\ trail_lim \in Seq(Nat) /\ DOMAIN trail_lim = 1..decisionLevel
      /\ decisionLevel \in Nat /\ decisionLevel = Len(trail_lim)
  BY TrailFacts DEF Base
<1>2. level[VarOf(trail[i])] = 0
  <2>1. level[VarOf(trail[i])] \in Nat /\ ~(level[VarOf(trail[i])] > 0)
    BY <1>1, RootLevel DEF Base, Layered
  <2> QED BY <2>1
<1>3. pc = "cancel" => i <= trail_lim[target + 1]
  <2> SUFFICES ASSUME pc = "cancel" PROVE i <= trail_lim[target + 1]
    OBVIOUS
  <2>1. target \in Nat /\ target < decisionLevel
    BY DEF Base, TypeOK, Backtrack
  <2>2. target + 1 \in DOMAIN trail_lim
    BY <1>1, <2>1
  <2>3. ~(trail_lim[target + 1] < i)
    BY <1>2, <2>1, <2>2 DEF Layered
  <2>4. trail_lim[target + 1] \in Nat
    BY <1>1, <2>2
  <2> QED BY <1>1, <2>3, <2>4
<1>4. Lasting(i)
  BY <1>3, TrailLasts
<1>5. i \in DOMAIN trail' /\ trail'[i] = trail[i] /\ level'[VarOf(trail[i])] = 0
  BY <1>1, <1>2, <1>4 DEF Lasting
<1>6. ~Above(i)'
  <2> SUFFICES ASSUME Above(i)' PROVE FALSE
    OBVIOUS
  <2>1. trail_lim' # <<>> /\ trail_lim'[1] < i
    BY DEF Above
  <2>2. trail_lim' \in Seq(Nat)
    BY DEF Base, TypeOK
  <2>3. 1 \in DOMAIN trail_lim'
    BY <2>1, <2>2
  <2>4. trail_lim'[1] < i <=> 1 <= level'[VarOf(trail'[i])]
    BY <1>5, <2>3 DEF Layered
  <2> QED BY <1>5, <2>1, <2>4
<1> QED BY <1>5, <1>6

\* Of a clause that was added, a literal is true at level 0, two are opposite, or
\* what addClause_ kept of it is still in the database.
KeptOf(f) ==
  \/ \E i \in DOMAIN trail : ~Above(i) /\ trail[i] \in f
  \/ \E l \in f : -l \in f
  \/ \E cr \in clauses : ToSet(db[cr]) \subseteq f
FormulaKept == ok => \A f \in formula : KeptOf(f)

\* Clauses that were added are removed by simplify() only.
LEMMA ClausesStay ==
  ASSUME [SolverNext]_allVars, clauses \cap learnts = {}, ~Simplify
  PROVE  clauses \subseteq clauses'
<1>1. CASE ReduceDB
  BY <1>1 DEF ReduceDB, RemoveClauses
<1>2. CASE AdaptSolver
  BY <1>2 DEF AdaptSolver, RemoveClauses
<1>3. CASE AddLongClause
  BY <1>3 DEF AddLongClause
<1>4. CASE ~ReduceDB /\ ~AdaptSolver /\ ~AddLongClause
  <2>1. UNCHANGED clauses
    <3>1. CASE DbStep
      BY <1>4, <3>1 DEF DbStep, SLearn, ScanSatisfied, ScanMove, ScanUnitOrFalse, SAnalyzeUndo, dbVars
    <3>2. CASE ~DbStep
      BY <3>2, DbUntouched DEF dbVars
    <3> QED BY <3>1, <3>2
  <2> QED BY <2>1
<1> QED BY <1>1, <1>2, <1>3, <1>4

\* A step that adds no clause keeps what there is of the others, and one that
\* adds a clause keeps that one too.
LEMMA KeptStays ==
  ASSUME Base, Base', Layered, Layered', Stored, ScanAt, [SolverNext]_allVars, NEW f, KeptOf(f)
  PROVE  KeptOf(f)'
<1>1. ASSUME NEW i \in DOMAIN trail, ~Above(i), trail[i] \in f PROVE KeptOf(f)'
  <2>1. i \in DOMAIN trail' /\ trail'[i] = trail[i] /\ ~Above(i)'
    BY <1>1, RootLasts
  <2> QED BY <1>1, <2>1 DEF KeptOf
<1>2. ASSUME NEW cr \in clauses, ToSet(db[cr]) \subseteq f PROVE KeptOf(f)'
  <2>1. CASE cr \in clauses'
    <3>1. cr \in Live /\ cr \in Live'
      BY <1>2, <2>1 DEF Live
    <3>2. ToSet(db'[cr]) = ToSet(db[cr])
      BY <3>1, WatchesKept
    <3> QED BY <1>2, <2>1, <3>2 DEF KeptOf
  <2>2. CASE cr \notin clauses'
    <3>1. Simplify
      BY <1>2, <2>2, ClausesStay DEF Stored
    <3>2. decisionLevel = 0 /\ Satisfied(cr)
      BY <1>2, <2>2, <3>1 DEF Simplify, RemoveClauses
    <3>3. PICK k \in DOMAIN db[cr] : db[cr][k] \in assigns
      BY <3>2 DEF Satisfied, IsTrue
    <3>4. db[cr][k] \in ToSet(db[cr])
      BY <3>3 DEF ToSet
    <3>5. PICK i \in DOMAIN trail : trail[i] = db[cr][k]
      BY <3>3 DEF Base, TrailOK
    <3>6. trail_lim = <<>>
      BY <3>2, TrailFacts DEF Base
    <3> QED BY <1>1, <1>2, <3>4, <3>5, <3>6 DEF Above
  <2> QED BY <2>1, <2>2
<1>3. ASSUME \E l \in f : -l \in f PROVE KeptOf(f)'
  BY <1>3 DEF KeptOf
<1> QED BY <1>1, <1>2, <1>3 DEF KeptOf

AddsClause == AddRedundantClause \/ AddEmptyClause \/ AddUnitClause \/ AddLongClause

LEMMA KeptAdded ==
  ASSUME Base, Base', Literals, Stored, Rooted, AddsClause, ok', NEW f, f = CallLits
  PROVE  KeptOf(f)'
<1>0. IsClauseCall /\ decisionLevel = 0 /\ trail_lim = <<>>
  <2>1. IsClauseCall
    BY DEF AddsClause, AddClauseCommon, AddRedundantClause, AddEmptyClause, AddUnitClause, AddLongClause
  <2>2. decisionLevel = 0
    BY <2>1, CallsAtRoot
  <2> QED BY <2>1, <2>2, TrailFacts DEF Base
<1>1. CASE AddRedundantClause
  <2>1. ok /\ UNCHANGED <<ok, trail, trail_lim>>
    BY <1>1 DEF AddRedundantClause, vars, trailVars
  <2>2. PICK l \in f : IsTrue(l) \/ -l \in f
    BY <1>1, <2>1 DEF AddRedundantClause, Redundant
  <2>3. ASSUME IsTrue(l) PROVE \E i \in DOMAIN trail : trail[i] = l
    BY <2>3 DEF IsTrue, Base, TrailOK
  <2> QED BY <1>0, <2>1, <2>2, <2>3 DEF KeptOf, Above
<1>2. CASE AddEmptyClause
  BY <1>2 DEF AddEmptyClause, AddEmpty
<1>3. CASE AddUnitClause
  <2>1. PICK l \in Kept : EAddUnit(l)
    BY <1>3 DEF AddUnitClause
  <2>2. trail' = Append(trail, l) /\ trail_lim' = trail_lim
    BY <2>1 DEF EAddUnit, AddUnit, Enqueue
  <2>3. Len(trail) + 1 \in DOMAIN trail' /\ trail'[Len(trail) + 1] = l /\ l \in f
    BY <2>1, <2>2 DEF Base, TypeOK, Kept
  <2> QED BY <1>0, <2>2, <2>3 DEF KeptOf, Above
<1>4. CASE AddLongClause
  <2>1. PICK c \in SetToSeqs(Kept) : Alloc(c)
    BY <1>4 DEF AddLongClause
  <2>2. ~Redundant /\ Cardinality(Kept) > 1 /\ Len(db) + 1 \in clauses'
    BY <1>4 DEF AddLongClause
  <2>3. ToSet(c) = Kept
    BY <1>0, <2>1, <2>2, KeptIsClause DEF Base
  <2>4. db'[Len(db) + 1] = c
    BY <2>1 DEF Alloc, Stored, Holds
  <2>5. ToSet(db'[Len(db) + 1]) \subseteq f
    BY <2>3, <2>4 DEF Kept
  <2> QED BY <2>2, <2>5 DEF KeptOf
<1> QED BY <1>1, <1>2, <1>3, <1>4 DEF AddsClause

\* No clause is lost, whatever becomes of it.
LEMMA FormulaKeptStep ==
  ASSUME Base, Base', Layered, Layered', Literals, Stored, ScanAt, Rooted, FormulaKept, [SolverNext]_allVars
  PROVE  FormulaKept'
<1> SUFFICES ASSUME ok', NEW f \in formula' PROVE KeptOf(f)'
  BY DEF FormulaKept
<1>1. [Next]_trailVars
  BY SolverStepMaps, EngineStepMaps DEF Base
<1>2. ok
  BY <1>1, OkStays
<1>3. CASE f \in formula
  BY <1>2, <1>3, KeptStays DEF FormulaKept
<1>4. CASE f \notin formula
  <2>1. formula' # formula
    BY <1>4
  <2>2. AddsClause
    BY <2>1 DEF AddsClause, SolverNext, SearchStep, allVars, solverVars, apiVars, Solve, Stop,
       SAddConstraint, EndScript, Finished, SDequeue, ScanBinary, ScanSatisfied, ScanMove, ScanUnitOrFalse,
       ScanNextList, SEngineStep, SEnqueue, Restart, GiveUp, Simplify, ReduceDB, AdaptSolver, AssumeHeld,
       Assume, AssumeFailed, PickBranch, ModelFound, Return, SConflictAtRoot, SStartAnalyze, SAnalyzeUndo,
       SAnalyzeDone, SCancel, SCancelDone, SLearn
  <2>3. f = CallLits
    BY <1>4, <2>2 DEF AddsClause, AddClauseCommon, AddRedundantClause, AddEmptyClause, AddUnitClause, AddLongClause
  <2> QED BY <2>2, <2>3, KeptAdded
<1> QED BY <1>3, <1>4

=============================================================================
