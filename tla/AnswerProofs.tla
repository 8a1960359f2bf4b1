---------------------------- MODULE AnswerProofs ----------------------------
(***************************************************************************)
(* The trail when search() answers: at a fixpoint no clause is left that   *)
(* is false or has only one literal that is not, and at the levels of the  *)
(* assumptions nothing else has been chosen.                               *)
(***************************************************************************)
EXTENDS SoundnessProofs
LOCAL INSTANCE SequencesExt
LOCAL INSTANCE FiniteSetsExt

(***************************************************************************)
(* The watchers propagate() has served.                                    *)
(***************************************************************************)
\* The entries of the trail whose clauses propagate() has been through, as far
\* as cancelUntil() will leave them.
Visited ==
  CASE pc \in {"ready", "init", "constr", "called", "learn"} -> at
    [] pc = "clauses" -> at - 1
    [] pc = "cancel"  -> trail_lim[target + 1]
    [] OTHER          -> IF decisionLevel = 0 THEN 0 ELSE trail_lim[decisionLevel]

\* Clause cr has been served by propagate() for trail[i]: if it is watched by
\* it, it has a literal that was true by the end of that level.
Served(cr, i) ==
  Watched(db[cr], trail[i]) =>
    \E j \in DOMAIN trail :
      trail[j] \in ToSet(db[cr]) /\ level[VarOf(trail[j])] <= level[VarOf(trail[i])]

\* The scan of the watchers of trail[at] is still to come to clause cr.
ToVisit(cr) ==
  IF Binary(db[cr])
  THEN wbin /\ \E i \in DOMAIN watchesBin[trail[at]] : i >= wi /\ watchesBin[trail[at]][i].cref = cr
  ELSE \E i \in DOMAIN watches[trail[at]] : (wbin \/ i >= wi) /\ watches[trail[at]][i].cref = cr

AllServed == ok => \A cr \in Live : \A i \in 1..Visited : Served(cr, i)
Underway  == pc = "clauses" => \A cr \in Live : Served(cr, at) \/ ToVisit(cr)

\* cancelUntil() leaves visited entries alone.
LEMMA VisitedOnTrail ==
  ASSUME Base, ok
  PROVE  /\ Visited \in 0..Len(trail)
         /\ pc = "cancel" => Visited = trail_lim[target + 1]
         /\ pc = "clauses" => at \in DOMAIN trail /\ Visited = at - 1
<1>1. /\ TypeOK /\ Levels /\ Queue /\ Backtrack
  BY DEF Base
<1>2. /\ Len(trail) \in Nat /\ DOMAIN trail = 1..Len(trail) /\ decisionLevel \in Nat
      /\ DOMAIN trail_lim = 1..decisionLevel /\ at \in Nat /\ qhead \in Nat /\ pc \in PC
      /\ \A k \in DOMAIN trail_lim : trail_lim[k] \in Nat
  BY <1>1, TrailFacts DEF TypeOK
<1>3. CASE pc \in {"ready", "init", "constr", "called", "learn", "clauses"}
  BY <1>1, <1>2, <1>3 DEF Visited, Queue
<1>4. CASE pc = "cancel"
  BY <1>1, <1>2, <1>4, CancelPosition DEF Visited
<1>5. CASE pc \in {"drain", "conflict", "analyze"}
  BY <1>1, <1>2, <1>5 DEF Visited, Levels
<1> QED BY <1>2, <1>3, <1>4, <1>5 DEF PC

\* Only the end of a scan adds to the entries visited.
LEMMA VisitedStep ==
  ASSUME Base, [Next]_trailVars, ok', ~ClausesDone
  PROVE  Visited' <= Visited
<1>1. /\ TypeOK /\ Levels /\ Queue /\ Backtrack /\ ok
  BY OkStays DEF Base
<1>2. /\ Len(trail) \in Nat /\ decisionLevel \in Nat /\ decisionLevel = Len(trail_lim)
      /\ DOMAIN trail_lim = 1..decisionLevel /\ at \in Nat /\ qhead \in Nat
      /\ \A k \in DOMAIN trail_lim : trail_lim[k] \in Nat
      /\ Visited \in Nat
  BY SMTT(30), <1>1, TrailFacts, VisitedOnTrail DEF TypeOK, Base
<1>3. CASE UNCHANGED <<pc, at, trail_lim, target>>
  BY <1>2, <1>3 DEF Visited, decisionLevel
<1>4. CASE Dequeue
  <2>1. pc = "ready" /\ pc' = "clauses" /\ at' = qhead + 1 /\ at = qhead
    BY <1>1, <1>4 DEF Dequeue, Queue
  <2> QED BY <1>2, <2>1 DEF Visited
<1>5. CASE ClauseConflict \/ ReturnFalse
  <2>1. /\ pc \in {"clauses", "called"} /\ pc' = "drain" /\ at >= 1
        /\ UNCHANGED <<at, trail_lim>> /\ \A k \in DOMAIN trail_lim : trail_lim[k] < at
    BY <1>1, <1>5 DEF ClauseConflict, ReturnFalse, Queue
  <2>2. Visited >= at - 1 /\ Visited' = IF decisionLevel = 0 THEN 0 ELSE trail_lim[decisionLevel]
    BY <1>2, <2>1 DEF Visited, decisionLevel
  <2> QED BY <1>2, <2>1, <2>2
<1>6. CASE AddConstraint \/ CallsDone \/ ReturnTrue \/ (\E c \in Constr : Call(c)) \/ Learn
           \/ (\E res \in BOOLEAN : Initialized(res))
  <2>1. /\ pc \in {"ready", "init", "constr", "called", "learn"} /\ at' = at
        /\ pc' \in {"ready", "init", "constr", "called", "learn"}
    BY <1>6 DEF AddConstraint, CallsDone, ReturnTrue, Call, Learn, Initialized, Fixpoint
  <2> QED BY <1>2, <2>1 DEF Visited
<1>7. CASE DrainDone \/ StartAnalyze
  <2>1. /\ pc \in {"drain", "conflict"} /\ pc' \in {"conflict", "analyze"} /\ trail_lim' = trail_lim
    BY <1>7 DEF DrainDone, StartAnalyze
  <2> QED BY <1>2, <2>1 DEF Visited, decisionLevel
<1>8. ASSUME NEW l \in 0..decisionLevel, StartCancel(l) \/ AnalyzeDone(l)
      PROVE  Visited' <= Visited
  <2>1. /\ pc \in {"ready", "conflict", "analyze"} /\ pc' = "cancel" /\ target' = l
        /\ UNCHANGED <<trail_lim, at>> /\ l < decisionLevel
    BY <1>8 DEF StartCancel, AnalyzeDone, Fixpoint
  <2>2. Visited' = trail_lim[l + 1] /\ l + 1 \in DOMAIN trail_lim /\ decisionLevel \in DOMAIN trail_lim
    BY <1>2, <2>1 DEF Visited
  <2>3. CASE pc = "ready"
    BY <1>1, <1>2, <2>1, <2>2, <2>3 DEF Visited, Queue
  <2>4. CASE pc # "ready"
    <3>1. Visited = trail_lim[decisionLevel]
      BY <1>2, <2>1, <2>4 DEF Visited
    <3> QED BY <1>1, <1>2, <2>1, <2>2, <3>1 DEF Levels
  <2> QED BY <2>3, <2>4
<1>9. CASE CancelDone
  <2>1. pc = "cancel" /\ pc' \in {"ready", "learn"} /\ at' = trail_lim[target + 1]
    BY <1>9 DEF CancelDone
  <2> QED BY <1>2, <2>1 DEF Visited
<1>10. CASE AddEmpty \/ ConflictAtRoot
  BY <1>10 DEF AddEmpty, ConflictAtRoot
<1>11. CASE DummyLevel \/ \E l \in Lit : Decide(l)
  <2>1. pc = "ready" /\ pc' = "ready" /\ at' = at
    BY <1>11 DEF DummyLevel, Decide, Fixpoint
  <2> QED BY <1>2, <2>1 DEF Visited
<1>12. CASE Drain \/ AnalyzeUndo \/ Cancel \/ (\E l \in Lit : Imply(l) \/ AddUnit(l)) \/ UNCHANGED trailVars
  <2>1. UNCHANGED <<pc, at, trail_lim, target>>
    BY <1>12 DEF Drain, AnalyzeUndo, Cancel, Imply, AddUnit, trailVars
  <2> QED BY <1>3, <2>1
<1> QED
  BY <1>4, <1>5, <1>6, <1>7, <1>8, <1>9, <1>10, <1>11, <1>12 DEF Next, Propagation, Backtracking

\* A clause that has been served stays so.
LEMMA ServedFrame ==
  ASSUME TypeOK, Layered, NEW cr, NEW i \in DOMAIN trail, Served(cr, i), Lasting(i),
         Watched(db'[cr], trail[i]) => Watched(db[cr], trail[i]), ToSet(db'[cr]) = ToSet(db[cr])
  PROVE  Served(cr, i)'
<1>1. level[VarOf(trail[i])] \in Nat
  BY TrailFacts DEF Layered
<1>2. trail'[i] = trail[i] /\ level'[VarOf(trail[i])] = level[VarOf(trail[i])]
  BY <1>1 DEF Lasting
<1>3. ASSUME Watched(db'[cr], trail[i])
      PROVE  \E j \in DOMAIN trail' :
               trail'[j] \in ToSet(db'[cr]) /\ level'[VarOf(trail'[j])] <= level'[VarOf(trail'[i])]
  <2>1. PICK j \in DOMAIN trail :
          trail[j] \in ToSet(db[cr]) /\ level[VarOf(trail[j])] <= level[VarOf(trail[i])]
    BY <1>3 DEF Served
  <2>2. j \in DOMAIN trail' /\ trail'[j] = trail[j] /\ level'[VarOf(trail[j])] = level[VarOf(trail[j])]
    BY <2>1 DEF Lasting
  <2> QED BY <1>2, <2>1, <2>2
<1> QED BY <1>2, <1>3 DEF Served

\* What happens while clauses are scanned.
LEMMA ScanKinds ==
  ASSUME [SolverNext]_allVars, pc = "clauses" \/ pc' = "clauses", ~UNCHANGED allVars
  PROVE  \/ pc = "ready" /\ SDequeue
         \/ ScanBinary \/ ScanSatisfied \/ ScanMove \/ ScanUnitOrFalse \/ ScanNextList
<1>1. CASE pc = "clauses"
  BY ZenonT(40), <1>1 DEF SolverNext, SearchStep, SDequeue, Dequeue, SEngineStep, EInitialized, Initialized, EReturnTrue,
     ReturnTrue, EReturnFalse, ReturnFalse, ECall, Call, CallsDone, Drain, DrainDone, SEnqueue, EEnqueue, Restart,
     StartCancel, GiveUp, Simplify, ReduceDB, AdaptSolver, AssumeHeld, Assume, AssumeFailed, PickBranch, ModelFound,
     Return, Searching, Assuming, Fixpoint, SConflictAtRoot, ConflictAtRoot, SStartAnalyze, StartAnalyze,
     SAnalyzeUndo, EAnalyzeUndo, AnalyzeUndo, SAnalyzeDone, SCancel, ECancel, Cancel, SCancelDone, ECancelDone,
     CancelDone, SLearn, ELearn, Learn, AddRedundantClause, AddEmptyClause, AddUnitClause, AddLongClause,
     AddClauseCommon, IsClauseCall, Idle, SAddConstraint, Solve, EndScript, NextCall, Finished
<1>2. ASSUME pc # "clauses", pc' = "clauses" PROVE pc = "ready" /\ SDequeue
  <2>1. pc' # pc /\ ~UNCHANGED trailVars /\ ~UNCHANGED vars
    BY <1>2 DEF vars, trailVars
  <2>2. ~(ScanBinary \/ ScanSatisfied \/ ScanMove \/ ScanUnitOrFalse \/ ScanNextList)
    BY <1>2 DEF ScanBinary, ScanSatisfied, ScanMove, ScanVisit, ScanUnitOrFalse, Scanning, ScanNextList
  <2>3. ~(SEngineStep \/ SEnqueue)
    BY <1>2 DEF SEngineStep, EInitialized, Initialized, EReturnTrue, ReturnTrue, EReturnFalse, ReturnFalse, ECall,
       Call, CallsDone, Drain, DrainDone, SEnqueue, EEnqueue, Imply
  <2>4. ~(Restart \/ GiveUp \/ AssumeFailed \/ ModelFound)
    BY <1>2, <2>1 DEF Restart, GiveUp, AssumeFailed, ModelFound, Stop, StartCancel
  <2>5. ~(AssumeHeld \/ Assume \/ PickBranch)
    BY <1>2 DEF AssumeHeld, DummyLevel, Assume, EDecide, Decide, PickBranch
  <2>6. ~(SConflictAtRoot \/ SStartAnalyze \/ SAnalyzeUndo \/ SAnalyzeDone \/ SCancel \/ SCancelDone \/ SLearn)
    BY <1>2 DEF SConflictAtRoot, ConflictAtRoot, SStartAnalyze, StartAnalyze, SAnalyzeUndo, EAnalyzeUndo,
       AnalyzeUndo, SAnalyzeDone, AnalyzeDone, SCancel, ECancel, Cancel, SCancelDone, ECancelDone, CancelDone,
       SLearn, ELearn, Learn
  <2>7. ~(AddEmptyClause \/ AddUnitClause \/ SAddConstraint)
    BY <1>2, <2>1 DEF AddEmptyClause, AddEmpty, AddUnitClause, EAddUnit, AddUnit, SAddConstraint, EAddConstraint,
       AddConstraint
  <2>8. SDequeue
    BY <2>1, <2>2, <2>3, <2>4, <2>5, <2>6, <2>7 DEF SolverNext, SearchStep, Simplify, ReduceDB, AdaptSolver, Return,
       AddRedundantClause, AddLongClause, Solve, EndScript, Finished
  <2> QED BY <2>8 DEF SDequeue, Dequeue
<1> QED BY <1>1, <1>2

\* A clause served for trail[at] has a literal that is true at the current level.
LEMMA TrueServes ==
  ASSUME Base', Layered', pc' = "clauses", NEW cr, NEW l, l \in ToSet(db'[cr]), l \in assigns'
  PROVE  Served(cr, at)'
<1>1. /\ trail' \in Seq(Lit) /\ DOMAIN trail' = 1..Len(trail') /\ Len(trail') \in Nat
      /\ decisionLevel' \in Nat /\ DOMAIN trail_lim' = 1..decisionLevel'
      /\ \A i \in DOMAIN trail' : trail'[i] \in Lit /\ VarOf(trail'[i]) \in Var
  BY VarOfLit DEF Base, TypeOK, decisionLevel
<1>2. at' \in DOMAIN trail' /\ \A k \in DOMAIN trail_lim' : trail_lim'[k] < at'
  BY <1>1 DEF Base, Queue, TypeOK
<1>3. PICK j \in DOMAIN trail' : trail'[j] = l
  BY DEF Base, TrailOK
<1>4. /\ level'[VarOf(trail'[j])] <= decisionLevel' /\ level' \in [Var -> Nat]
      /\ level'[VarOf(trail'[at'])] <= decisionLevel'
      /\ \A k \in DOMAIN trail_lim' : k <= level'[VarOf(trail'[at'])]
  BY <1>2 DEF Layered
<1>5. level'[VarOf(trail'[at'])] = decisionLevel'
  <2>1. level'[VarOf(trail'[at'])] \in Nat
    BY <1>1, <1>2, <1>4
  <2> QED BY <1>1, <1>4, <2>1
<1> QED BY <1>3, <1>4, <1>5 DEF Served

\* A new clause is watched by nothing that is true, or asserts its first literal
\* at the level of the others.
LEMMA NewServed ==
  ASSUME Base, Base', Layered, Literals, Stored, ScanAt, Asserting, [SolverNext]_allVars, ok',
         NEW cr \in Live' \ Live, NEW i \in DOMAIN trail, Lasting(i)
  PROVE  Served(cr, i)'
<1>0. /\ TypeOK /\ TrailOK /\ level[VarOf(trail[i])] \in Nat /\ trail[i] \in Lit /\ -trail[i] \in Lit
      /\ trail' \in Seq(Lit) /\ trail[i] \in assigns
  BY TrailFacts, NegLit DEF Base, TypeOK, TrailOK, Layered
<1>1. i \in DOMAIN trail' /\ trail'[i] = trail[i] /\ level'[VarOf(trail[i])] = level[VarOf(trail[i])]
  BY <1>0 DEF Lasting
<1>2. AddLongClause \/ SLearn
  BY ContentsStep
<1>3. db \in Seq(Seq(Lit))
  BY DEF Stored, Holds
<1>4. CASE AddLongClause
  <2>1. PICK c \in SetToSeqs(Kept) : Alloc(c)
    BY <1>4 DEF AddLongClause
  <2>2. IsClause(c) /\ ToSet(c) = Kept /\ IsClauseCall /\ ~Redundant
    BY <1>0, <1>4, KeptIsClause DEF AddLongClause, AddClauseCommon
  <2>3. cr = Len(db) + 1
    BY <1>4 DEF AddLongClause, Live
  <2>4. db'[cr] = c
    BY <1>3, <2>1, <2>2, <2>3 DEF Alloc, IsClause
  <2>5. c[1] \in Kept /\ c[2] \in Kept
    BY <2>2 DEF IsClause, ToSet
  <2>6. ~Watched(c, trail[i])
    BY <1>0, <2>2, <2>5, NegLit DEF Kept, IsFalse, Watched
  <2> QED BY <1>1, <2>4, <2>6 DEF Served
<1>5. CASE SLearn
  <2>1. pc = "learn" /\ Enqueue(learnt) /\ learnt \in Lit /\ IsUndef(learnt) /\ trail_lim' = trail_lim
    BY <1>5, LearntFree DEF SLearn, ELearn, Learn, Base
  <2>2. Len(learntLits) # 1 /\ Alloc(learntLits) /\ cr = Len(db) + 1
    BY <1>5 DEF SLearn, dbVars, Live
  <2>3. /\ IsClause(learntLits) /\ learntLits[1] = learnt /\ decisionLevel = target
        /\ level[VarOf(learntLits[2])] = target
    BY <2>1, <2>2, LearntClause
  <2>4. db'[cr] = learntLits
    BY <1>3, <2>2, <2>3 DEF Alloc, IsClause
  <2>5. learnt \in ToSet(learntLits)
    BY <2>3 DEF IsClause, ToSet
  <2>6. Len(trail) + 1 \in DOMAIN trail' /\ trail'[Len(trail) + 1] = learnt
    BY <1>0, <2>1, EnqueueTrail
  <2>7. level'[VarOf(learnt)] = decisionLevel /\ decisionLevel \in Nat
    <3>1. VarOf(learnt) \in DOMAIN level
      BY <2>1, VarOfLit DEF Layered
    <3> QED BY <1>0, <1>5, <2>2, <3>1, TrailFacts DEF SLearn, SetVar
  <2>8. ASSUME Watched(learntLits, trail[i]) PROVE level[VarOf(trail[i])] = decisionLevel
    <3>1. learntLits[1] # -trail[i]
      BY <1>0, <2>1, <2>3, NegLit DEF IsUndef, IsFalse
    <3>2. learntLits[2] = -trail[i]
      BY <2>8, <3>1 DEF Watched
    <3>3. VarOf(learntLits[2]) = VarOf(trail[i])
      BY <1>0, <3>2, VarOfLit
    <3> QED BY <2>3, <3>3
  <2> QED BY <1>1, <2>4, <2>5, <2>6, <2>7, <2>8 DEF Served
<1> QED BY <1>2, <1>4, <1>5

\* A scan that is over has left no watcher to visit.
LEMMA ScanOver ==
  ASSUME Base, Stored, ScanAt, Underway, [SolverNext]_allVars, ClausesDone
  PROVE  \A cr \in Live : Served(cr, at)
<1>1. pc = "clauses" /\ pc' = "constr" /\ at \in DOMAIN trail
  BY TrailFacts DEF ClausesDone, Base, Queue, TypeOK
<1>2. wi > Len(watches[trail[at]]) /\ ~wbin
  <2>1. ~UNCHANGED allVars
    BY <1>1 DEF allVars, vars, trailVars
  <2>2. ScanNextList
    BY <1>1, <2>1, ScanKinds DEF ScanBinary, ScanSatisfied, ScanMove, ScanUnitOrFalse, ScanVisit, ImplyFrom,
       EImplyByClause, Imply, SClauseConflict, ClauseConflict, vars, trailVars
  <2> QED BY <1>1, <2>2 DEF ScanNextList, Scanned, vars, trailVars
<1>3. ASSUME NEW cr, ToVisit(cr) PROVE FALSE
  <2>1. trail[at] \in Lit
    BY <1>1, TrailFacts DEF Base
  <2>2. DOMAIN watches[trail[at]] = 1..Len(watches[trail[at]]) /\ Len(watches[trail[at]]) \in Nat
    BY <2>1 DEF Stored, WatchersOf
  <2> QED BY <1>2, <1>3, <2>2 DEF ToVisit, ScanAt
<1> QED BY <1>1, <1>3 DEF Underway

\* So every step leaves the clauses served that were, as far as the entries they
\* were served for stay, and those visited.
LEMMA AllServedStep ==
  ASSUME Base, Base', Layered, Literals, Stored, ScanAt, Asserting, AllServed, Underway, [SolverNext]_allVars
  PROVE  AllServed'
<1> SUFFICES ASSUME ok', NEW cr \in Live', NEW i \in 1..Visited' PROVE Served(cr, i)'
  BY DEF AllServed
<1>1. TypeOK /\ [Next]_trailVars
  BY SolverStepMaps, EngineStepMaps DEF Base
<1>2. ok
  BY <1>1, OkStays
<1>3. Visited \in 0..Len(trail) /\ Visited' \in Nat /\ DOMAIN trail = 1..Len(trail) /\ Len(trail) \in Nat
  <2>1. (Visited \in Nat)'
    <3>1. /\ at' \in Nat /\ (pc' = "clauses" => at' >= 1) /\ decisionLevel' \in Nat
          /\ pc' = "cancel" => target' \in Nat /\ target' < decisionLevel'
          /\ \A k \in 1..decisionLevel' : trail_lim'[k] \in Nat
      <4>1. trail_lim' \in Seq(Nat) /\ decisionLevel' = Len(trail_lim') /\ at' \in Nat /\ target' \in Nat
        BY DEF Base, TypeOK, decisionLevel
      <4>2. (pc' = "clauses" => at' >= 1) /\ (pc' = "cancel" => target' < decisionLevel')
        BY DEF Base, Queue, Backtrack
      <4> QED BY <4>1, <4>2
    <3> QED BY <3>1 DEF Visited
  <2> QED BY <1>1, <1>2, <2>1, VisitedOnTrail, TrailFacts
<1>4. ASSUME ~ClausesDone PROVE i \in 1..Visited
  BY <1>1, <1>3, <1>4, VisitedStep
<1>5. ASSUME ClausesDone
      PROVE  at \in DOMAIN trail /\ Visited = at - 1 /\ i \in 1..at /\ pc = "clauses"
  <2>1. pc = "clauses" /\ pc' = "constr" /\ at' = at
    BY <1>5 DEF ClausesDone
  <2> QED BY <1>2, <1>3, <2>1, VisitedOnTrail DEF Visited
<1>6. i \in DOMAIN trail /\ (pc = "cancel" => i <= trail_lim[target + 1])
  <2>1. pc = "cancel" => Visited = trail_lim[target + 1]
    BY DEF Visited
  <2> QED BY <1>3, <1>4, <1>5, <2>1
<1>7. Lasting(i)
  BY <1>6, TrailLasts
<1>8. CASE cr \in Live
  <2>1. Served(cr, i)
    <3>1. CASE i \in 1..Visited
      BY <1>2, <1>8, <3>1 DEF AllServed
    <3>2. CASE i \notin 1..Visited
      <4>1. ClausesDone /\ i = at
        BY <1>3, <1>4, <1>5, <3>2
      <4> QED BY <1>8, <4>1, ScanOver
    <3> QED BY <3>1, <3>2
  <2> QED BY <1>1, <1>6, <1>7, <1>8, <2>1, WatchesKept, ServedFrame
<1>9. CASE cr \notin Live
  BY <1>6, <1>7, <1>9, NewServed
<1> QED BY <1>8, <1>9

\* A dequeued literal has all the clauses it watches to visit.
LEMMA DequeueVisits ==
  ASSUME Base', Stored', SDequeue, NEW cr \in Live'
  PROVE  Served(cr, at)' \/ ToVisit(cr)'
<1>1. trail'[at'] \in Lit
  <2>1. /\ trail' \in Seq(Lit) /\ at' \in Nat /\ at' >= 1 /\ at' <= Len(trail')
    BY DEF Base, TypeOK, Queue, SDequeue, Dequeue
  <2> QED BY <2>1
<1>2. wbin' = TRUE /\ wi' = 1
  BY DEF SDequeue
<1>3. ASSUME NEW bin, NEW ws, WatchersOf(ws, db', Live', bin), Binary(db'[cr]) <=> bin,
             Watched(db'[cr], trail'[at'])
      PROVE  \E i \in DOMAIN ws[trail'[at']] : i >= 1 /\ ws[trail'[at']][i].cref = cr
  <2>1. \E i \in DOMAIN ws[trail'[at']] : ws[trail'[at']][i].cref = cr
    BY <1>1, <1>3 DEF WatchersOf, Lists
  <2>2. DOMAIN ws[trail'[at']] \subseteq {i \in Nat : i >= 1}
    BY <1>1, <1>3 DEF WatchersOf
  <2> QED BY <2>1, <2>2
<1>4. CASE ~Watched(db'[cr], trail'[at'])
  BY <1>4 DEF Served
<1>5. CASE Watched(db'[cr], trail'[at'])
  <2>1. WatchersOf(watches', db', Live', FALSE) /\ WatchersOf(watchesBin', db', Live', TRUE)
    BY DEF Stored
  <2>2. CASE Binary(db'[cr])
    BY <1>2, <1>3, <1>5, <2>1, <2>2 DEF ToVisit, Binary
  <2>3. CASE ~Binary(db'[cr])
    BY <1>2, <1>3, <1>5, <2>1, <2>3 DEF ToVisit, Binary
  <2> QED BY <2>2, <2>3
<1> QED BY <1>4, <1>5

\* A scan goes on from its list of binary clauses to the other one.
LEMMA NextListVisits ==
  ASSUME Base, Stored, ScanAt, ScanNextList, pc' = "clauses", NEW cr \in Live, ToVisit(cr)
  PROVE  ToVisit(cr)'
<1>1. pc = "clauses" /\ wi > Len(Scanned)
  BY DEF ScanNextList
<1>2. wbin /\ UNCHANGED <<at, trail, db, watches, watchesBin>> /\ wbin' = FALSE /\ wi' = 1
  BY <1>1 DEF ScanNextList, vars, trailVars, dbVars, ClausesDone
<1>3. at \in DOMAIN trail /\ trail[at] \in Lit
  BY <1>1, TrailFacts DEF Base, Queue, TypeOK
<1>4. /\ DOMAIN watches[trail[at]] = 1..Len(watches[trail[at]]) /\ Len(watches[trail[at]]) \in Nat
      /\ DOMAIN watchesBin[trail[at]] = 1..Len(watchesBin[trail[at]]) /\ Len(watchesBin[trail[at]]) \in Nat
  BY <1>3 DEF Stored, WatchersOf
<1>5. CASE Binary(db[cr])
  BY <1>1, <1>2, <1>4, <1>5 DEF ToVisit, Scanned, ScanAt
<1>6. CASE ~Binary(db[cr])
  BY <1>2, <1>4, <1>6 DEF ToVisit, Binary
<1> QED BY <1>5, <1>6

\* The other steps of a scan pass one clause, which then has a true literal.
LEMMA BinaryVisits ==
  ASSUME Base, Base', Layered', Stored, ScanAt, ScanBinary, pc' = "clauses", NEW cr \in Live, ToVisit(cr)
  PROVE  Served(cr, at)' \/ ToVisit(cr)'
<1>1. /\ Scanning /\ wbin /\ wbin' = wbin /\ UNCHANGED <<at, db, watches, watchesBin>>
      /\ wi' = wi + 1 /\ W.blocker \in assigns' /\ \A i \in DOMAIN trail : trail'[i] = trail[i]
  <2>1. Scanning /\ wbin /\ wbin' = wbin /\ UNCHANGED <<db, watches, watchesBin>>
    BY DEF ScanBinary, dbVars
  <2>2. CASE IsTrue(W.blocker) /\ wi' = wi + 1 /\ UNCHANGED vars
    BY <2>1, <2>2 DEF vars, trailVars, IsTrue
  <2>3. CASE IsUndef(W.blocker) /\ ImplyFrom(W.cref, W.blocker) /\ wi' = wi + 1
    <3>1. Imply(W.blocker)
      BY <2>3 DEF ImplyFrom, EImplyByClause
    <3>2. W.blocker \in Lit /\ Enqueue(W.blocker) /\ at' = at
      BY <2>3, <3>1 DEF Imply, IsUndef
    <3> QED BY <2>1, <2>3, <3>2, EnqueueTrail DEF Base, Enqueue
  <2> QED BY <2>1, <2>2, <2>3 DEF ScanBinary, SClauseConflict, ClauseConflict
<1>2. /\ at \in DOMAIN trail /\ W = watchesBin[trail[at]][wi] /\ W.blocker \in ToSet(db[W.cref])
      /\ trail[at] \in Lit
  BY <1>1, ScanPosition DEF Base, ScanAt, Scanned
<1>3. CASE Binary(db[cr])
  <2>1. PICK i \in DOMAIN watchesBin[trail[at]] : i >= wi /\ watchesBin[trail[at]][i].cref = cr
    BY <1>3 DEF ToVisit
  <2>2. CASE i = wi
    BY <1>1, <1>2, <2>1, <2>2, TrueServes
  <2>3. CASE i # wi
    <3>1. i >= wi'
      <4>1. i \in Nat
        BY SMTT(30), <1>2, <2>1 DEF Stored, WatchersOf
      <4> QED BY <1>1, <2>1, <2>3, <4>1 DEF ScanAt
    <3> QED BY <1>1, <1>2, <1>3, <2>1, <3>1 DEF ToVisit, Binary
  <2> QED BY <2>2, <2>3
<1>4. CASE ~Binary(db[cr])
  BY <1>1, <1>2, <1>4 DEF ToVisit, Binary
<1> QED BY <1>3, <1>4

\* So do those that leave the watcher where it is.
LEMMA StaysVisits ==
  ASSUME Base, Base', Layered', Stored, ScanAt, ScanSatisfied \/ ScanUnitOrFalse, pc' = "clauses",
         NEW cr \in Live, ToVisit(cr), Live' = Live, [SolverNext]_allVars
  PROVE  Served(cr, at)' \/ ToVisit(cr)'
<1>1. Scanning /\ ~wbin /\ wbin' = wbin /\ UNCHANGED at /\ wi' = wi + 1 /\ trail'[at] = trail[at]
  <2>1. Scanning /\ ~wbin /\ wbin' = wbin
    BY DEF ScanSatisfied, ScanUnitOrFalse, ScanVisit
  <2>2. CASE ScanSatisfied
    BY <2>1, <2>2 DEF vars, trailVars, ScanSatisfied
  <2>3. CASE ScanUnitOrFalse
    <3>1. Imply(Turned[1]) /\ wi' = wi + 1
      BY <2>3 DEF ScanUnitOrFalse, ImplyFrom, EImplyByClause, SClauseConflict, ClauseConflict
    <3>2. Turned[1] \in Lit /\ Enqueue(Turned[1]) /\ IsUndef(Turned[1]) /\ at' = at
      BY <3>1 DEF Imply, IsUndef
    <3>3. at \in DOMAIN trail
      BY <2>1, ScanPosition DEF Base, ScanAt
    <3> QED BY <2>1, <3>1, <3>2, <3>3, EnqueueTrail DEF Base
  <2> QED BY <2>2, <2>3
<1>2. /\ at \in DOMAIN trail /\ trail[at] \in Lit /\ W = watches[trail[at]][wi] /\ wi \in DOMAIN watches[trail[at]]
      /\ W.blocker \in ToSet(db[W.cref]) /\ Turned[1] \in ToSet(db[W.cref]) /\ ~Binary(db[W.cref])
  BY <1>1, ScanPosition, TurnedFacts DEF Base, ScanAt, Scanned
<1>3. W.blocker \in assigns' \/ Turned[1] \in assigns'
  <2>1. CASE ScanSatisfied
    BY <2>1 DEF ScanSatisfied, vars, trailVars, IsTrue
  <2>2. CASE ScanUnitOrFalse
    <3>1. Imply(Turned[1])
      BY <2>2 DEF ScanUnitOrFalse, ImplyFrom, EImplyByClause, SClauseConflict, ClauseConflict
    <3> QED BY <3>1 DEF Imply, Enqueue
  <2> QED BY <2>1, <2>2
<1>4. \A i \in DOMAIN watches[trail[at]] :
        i \in DOMAIN watches'[trail[at]] /\ watches'[trail[at]][i].cref = watches[trail[at]][i].cref
  <2>1. watches' = watches \/ \E l : watches' = SetBlocker(l)
    BY DEF ScanSatisfied, ScanUnitOrFalse
  <2>2. ASSUME NEW l, watches' = SetBlocker(l)
        PROVE  \A i \in DOMAIN watches[trail[at]] :
                 i \in DOMAIN watches'[trail[at]] /\ watches'[trail[at]][i].cref = watches[trail[at]][i].cref
    <3>1. watches'[trail[at]] = [watches[trail[at]] EXCEPT ![wi] = Watcher(W.cref, l)]
      BY <1>2, <2>2 DEF SetBlocker, Stored, WatchersOf
    <3>2. Watcher(W.cref, l).cref = W.cref
      BY DEF Watcher
    <3> QED BY <1>2, <3>1, <3>2
  <2> QED BY <2>1, <2>2
<1>5. ToSet(db'[cr]) = ToSet(db[cr]) /\ (Binary(db'[cr]) <=> Binary(db[cr]))
  BY WatchesKept DEF Binary
<1>6. PICK i \in DOMAIN watches[trail[at]] : i >= wi /\ watches[trail[at]][i].cref = cr /\ ~Binary(db[cr])
  BY <1>1 DEF ToVisit
<1>7. CASE i = wi
  BY <1>2, <1>3, <1>5, <1>6, <1>7, TrueServes
<1>8. CASE i # wi
  <2>1. i \in Nat
    BY <1>2, <1>6 DEF Stored, WatchersOf
  <2>2. i >= wi'
    BY <1>1, <1>6, <1>8, <2>1 DEF ScanAt
  <2> QED BY <1>1, <1>4, <1>5, <1>6, <2>2 DEF ToVisit
<1> QED BY <1>7, <1>8

\* What stands after a removed watcher moves up.
LEMMA RemoveShifts ==
  ASSUME NEW T, NEW s \in Seq(T), NEW j \in DOMAIN s, NEW i \in DOMAIN s, i > j
  PROVE  i - 1 \in DOMAIN RemoveAt(s, j) /\ RemoveAt(s, j)[i - 1] = s[i]
<1> DEFINE r == RemoveAt(s, j)
<1>1. r \in Seq(T) /\ Len(r) = Len(s) - 1 /\ \A a \in 1..(Len(s) - 1) : r[a] = IF a < j THEN s[a] ELSE s[a + 1]
  BY RemoveAtEntries
<1> HIDE DEF r
<1>2. i \in 1..Len(s) /\ j \in 1..Len(s) /\ Len(s) \in Nat /\ i - 1 \in 1..(Len(s) - 1) /\ DOMAIN r = 1..(Len(s) - 1)
  BY <1>1
<1>3. i - 1 \in DOMAIN r /\ r[i - 1] = s[i]
  BY <1>1, <1>2
<1> QED BY <1>3 DEF r

\* And so does the one that takes the watcher to another list.
LEMMA MoveVisits ==
  ASSUME Base, Stored, ScanAt, ScanMove, NEW cr \in Live, cr \in Live', ToVisit(cr), [SolverNext]_allVars
  PROVE  Served(cr, at)' \/ ToVisit(cr)'
<1> DEFINE k == Min(NewWatches)
           c == Swap(Turned, 2, k)
           p == trail[at]
<1>1. /\ Scanning /\ ~wbin /\ UNCHANGED <<wbin, wi, at, trail>>
      /\ db' = [db EXCEPT ![W.cref] = c] /\ NewWatches # {}
      /\ watches' = Push([watches EXCEPT ![p] = RemoveAt(@, wi)], -c[2], Watcher(W.cref, c[1]))
  BY DEF ScanMove, ScanVisit, scanVars, vars, trailVars, Swap
<1>2. k \in 3..Len(Turned) /\ ~IsFalse(Turned[k])
  BY <1>1, NewWatch DEF NewWatches
<1>3. /\ at \in DOMAIN trail /\ p \in Lit /\ W = watches[p][wi] /\ wi \in DOMAIN watches[p]
      /\ W.cref \in Live /\ IsClause(Turned) /\ Turned[1] # -p
  BY <1>1, ScanPosition, TurnedFacts DEF Base, ScanAt, Scanned
<1> HIDE DEF k
<1>4. 1 \in DOMAIN Turned /\ 2 \in DOMAIN Turned /\ k \in DOMAIN Turned /\ 1 # 2 /\ 1 # k
  BY <1>2, <1>3 DEF IsClause
<1>5. c[1] = Turned[1] /\ c[2] = Turned[k] /\ c[2] \in Lit
  BY <1>3, <1>4, SwapKeeps DEF IsClause
<1> HIDE DEF c
<1>6. c[2] # -p
  <2>1. p \in assigns
    BY <1>3 DEF p, Base, TrailOK
  <2> QED BY <1>2, <1>3, <1>5, <2>1, NegLit DEF IsFalse
<1>7. watches'[p] = RemoveAt(watches[p], wi)
  BY <1>1, <1>3, <1>5, <1>6, NegLit DEF Push, Stored, WatchersOf
<1>8. ~Binary(db[cr]) /\ ~Binary(db'[cr])
  BY <1>1, WatchesKept DEF Binary, ToVisit
<1>9. PICK i \in DOMAIN watches[p] : i >= wi /\ watches[p][i].cref = cr
  BY <1>1, <1>8 DEF ToVisit, p
<1>10. CASE i = wi
  <2>1. db'[cr] = c
    BY <1>1, <1>3, <1>9, <1>10 DEF Stored, Holds
  <2>2. ~Watched(db'[cr], trail'[at'])
    BY <1>1, <1>3, <1>5, <1>6, <2>1 DEF Watched, p
  <2> QED BY <2>2 DEF Served
<1>11. CASE i # wi
  <2> DEFINE T == [cref : Nat, blocker : Lit]
  <2> HIDE DEF p, T
  <2>1. watches[p] \in Seq(T)
    BY <1>3 DEF T, Stored, WatchersOf
  <2>a. i \in Nat
    BY <1>9, <2>1
  <2>2. i > wi /\ i - 1 >= wi
    BY <1>9, <1>11, <2>a DEF ScanAt
  <2>3. i - 1 \in DOMAIN watches'[p] /\ watches'[p][i - 1].cref = cr
    BY <1>3, <1>7, <1>9, <2>1, <2>2, RemoveShifts
  <2> QED BY <1>1, <1>8, <2>2, <2>3 DEF ToVisit, p
<1> QED BY <1>10, <1>11

\* So every step leaves each clause served for the literal at hand, or to visit.
LEMMA UnderwayStep ==
  ASSUME Base, Base', Layered, Layered', Stored, Stored', ScanAt, Underway, [SolverNext]_allVars
  PROVE  Underway'
<1> SUFFICES ASSUME pc' = "clauses", NEW cr \in Live' PROVE Served(cr, at)' \/ ToVisit(cr)'
  BY DEF Underway
<1>1. CASE UNCHANGED allVars
  <2>1. UNCHANGED <<pc, at, trail, db, clauses, learnts, watches, watchesBin, wbin, wi, level>>
    BY <1>1 DEF allVars, vars, trailVars, solverVars
  <2> QED BY <2>1 DEF Underway, Served, ToVisit, Watched, Binary, Live
<1>2. CASE SDequeue
  BY <1>2, DequeueVisits
<1>3. CASE ScanBinary \/ ScanSatisfied \/ ScanMove \/ ScanUnitOrFalse \/ ScanNextList
  <2>1. pc = "clauses" /\ Live' = Live
    BY <1>3 DEF ScanBinary, ScanSatisfied, ScanMove, ScanUnitOrFalse, ScanVisit, ScanNextList, Scanning, dbVars, Live
  <2>2. at' = at
    BY <1>3 DEF ScanBinary, ScanSatisfied, ScanMove, ScanUnitOrFalse, ScanNextList, ClausesDone, ImplyFrom,
       EImplyByClause, Imply, SClauseConflict, ClauseConflict, vars, trailVars
  <2>3. PICK a : a = at
    OBVIOUS
  <2>4. a \in DOMAIN trail
    BY <2>1, <2>3, TrailFacts DEF Base, Queue, TypeOK
  <2>5. ASSUME Served(cr, a) PROVE Served(cr, at)'
    <3>1. Served(cr, a)'
      BY <2>1, <2>4, <2>5, TrailLasts, WatchesKept, ServedFrame DEF Base
    <3> QED BY <2>2, <2>3, <3>1 DEF Served
  <2>6. ASSUME ToVisit(cr) PROVE Served(cr, at)' \/ ToVisit(cr)'
    BY <1>3, <2>1, <2>6, NextListVisits, BinaryVisits, StaysVisits, MoveVisits
  <2>7. Served(cr, at) \/ ToVisit(cr)
    BY <2>1 DEF Underway
  <2> QED BY <2>3, <2>5, <2>6, <2>7 DEF Served
<1> QED BY <1>1, <1>2, <1>3, ScanKinds

\* Nothing is on the trail at first.
LEMMA ServedInit == SolverInit => AllServed /\ Underway
BY DEF SolverInit, EngineInit, Init, AllServed, Underway, Live

\* At a fixpoint every entry of the trail has been visited.
LEMMA ServedPropagated ==
  ASSUME Base, Stored, AllServed
  PROVE  ClausesPropagated
<1> SUFFICES ASSUME Fixpoint, NEW cr \in Live, ~Satisfied(cr)
             PROVE  Cardinality({i \in DOMAIN db[cr] : IsUndef(db[cr][i])}) > 1
  BY DEF ClausesPropagated, Live
<1>1. IsClause(db[cr])
  BY DEF Stored, Holds
<1>2. Visited = Len(trail) /\ ok /\ DOMAIN trail = 1..Len(trail)
  BY TrailFacts DEF Fixpoint, Visited, Base, Queue
<1>3. ASSUME NEW i \in DOMAIN trail, Watched(db[cr], trail[i]) PROVE FALSE
  <2>1. PICK j \in DOMAIN trail : trail[j] \in ToSet(db[cr])
    BY <1>2, <1>3 DEF AllServed, Served
  <2>2. PICK m \in DOMAIN db[cr] : db[cr][m] = trail[j]
    BY <2>1 DEF ToSet
  <2> QED BY <2>2 DEF Satisfied, IsTrue, Base, TrailOK
<1>4. ASSUME NEW m \in {1, 2} PROVE m \in DOMAIN db[cr] /\ IsUndef(db[cr][m])
  <2>1. m \in DOMAIN db[cr] /\ db[cr][m] \in Lit
    BY <1>1 DEF IsClause
  <2>2. ~IsTrue(db[cr][m])
    BY <2>1 DEF Satisfied
  <2>3. ~IsFalse(db[cr][m])
    <3> SUFFICES ASSUME IsFalse(db[cr][m]) PROVE FALSE
      OBVIOUS
    <3>1. PICK i \in DOMAIN trail : trail[i] = -db[cr][m]
      BY DEF IsFalse, Base, TrailOK
    <3>2. db[cr][m] = -trail[i]
      BY <2>1, <3>1, NegLit
    <3> QED BY <1>3, <3>1, <3>2 DEF Watched
  <2> QED BY <2>1, <2>2, <2>3 DEF IsUndef
<1> DEFINE U == {i \in DOMAIN db[cr] : IsUndef(db[cr][i])}
<1>5. IsFiniteSet(DOMAIN db[cr])
  <2>1. DOMAIN db[cr] = 1..Len(db[cr]) /\ Len(db[cr]) \in Int
    BY <1>1 DEF IsClause
  <2>2. 1 \in Int /\ IsFiniteSet(1..Len(db[cr]))
    BY <2>1, FS_Interval
  <2> QED BY <2>1, <2>2
<1>6. U \subseteq DOMAIN db[cr] /\ {1, 2} \subseteq U
  BY <1>4
<1> HIDE DEF U
<1>7. Cardinality({1, 2}) <= Cardinality(U) /\ IsFiniteSet(U)
  BY <1>5, <1>6, FS_Subset
<1>8. Cardinality({1, 2}) = 2
  <2>1. IsFiniteSet({1}) /\ Cardinality({1}) = 1
    BY FS_Singleton
  <2>2. 2 \notin {1} /\ {1} \cup {2} = {1, 2}
    OBVIOUS
  <2>3. Cardinality({1} \cup {2}) = Cardinality({1}) + 1
    BY <2>1, <2>2, FS_AddElement
  <2> QED BY <2>1, <2>2, <2>3
<1> QED BY <1>7, <1>8, FS_CardinalityType DEF U

\* With constraints that explain themselves, propagate() misses no clause: what
\* watches do between lists, and over conflicts, restarts, learning and the
\* removal of clauses, none is false or unit when search() goes on to decide.
THEOREM SearchPropagates == SolverSpec /\ []Explained => []ClausesPropagated
<1>1. SolverInit => AllServed /\ Underway
  BY ServedInit
<1>2. Searched /\ Searched' /\ AllServed /\ Underway /\ [SolverNext]_allVars => (AllServed /\ Underway)'
  BY AllServedStep, UnderwayStep DEF Searched
<1>3. Searched /\ AllServed => ClausesPropagated
  BY ServedPropagated DEF Searched
<1> QED BY <1>1, <1>2, <1>3, SolverSearched, PTL DEF SolverSpec

\* And where there are only clauses, whatever the calls and the choices are.
THEOREM ClausesVisited == NConstr = 0 => (SolverSpec => []ClausesPropagated)
BY QuietSearch, SearchPropagates, PTL

(***************************************************************************)
(* What is assumed is all that is chosen below the decisions.              *)
(***************************************************************************)
\* A literal is assigned, with a clause or a constraint as its reason, or none.
Gives(l, cr, nc) ==
  /\ l \in Lit /\ IsUndef(l) /\ Enqueue(l)
  /\ reason' = [reason EXCEPT ![VarOf(l)] = cr] /\ nc_reason' = [nc_reason EXCEPT ![VarOf(l)] = nc]

\* Above level 0, where no reason is taken back, a literal without a reason is
\* an assumption or a decision.
Given == \E l, cr, nc : /\ Gives(l, cr, nc)
                        /\ \/ cr # CRef_Undef \/ nc # 0
                           \/ Assume /\ l = NextAssumption
                           \/ PickBranch

LEMMA GivenKinds ==
  ASSUME Base, Blamed, Layered, Stored, Reasoned, ScanAt, Asserting, [SolverNext]_allVars, trail_lim' # <<>>
  PROVE  \/ Given
         \/ UNCHANGED <<reason, nc_reason>> /\ DOMAIN trail' \subseteq DOMAIN trail
<1>0. TypeOK /\ TrailOK /\ Levels /\ Queue /\ Backtrack /\ ScanAt
  BY DEF Base
<1>b. decisionLevel = 0 => trail_lim' # trail_lim
  BY TrailFacts DEF Base
<1>1. \A cr \in Live : cr # CRef_Undef
  BY DEF Stored, Holds, CRef_Undef
<1>2. ASSUME NEW l, NEW cr \in Live, ImplyFrom(cr, l)
      PROVE  Given
  <2>1. Gives(l, cr, 0)
    BY <1>2 DEF Gives, ImplyFrom, EImplyByClause, Imply, Unconstrained, IsUndef, SetVar
  <2> QED BY <1>1, <2>1 DEF Given
<1>3. CASE ScanBinary
  <2>1. CASE ImplyFrom(W.cref, W.blocker)
    <3>1. Scanning
      BY <1>3 DEF ScanBinary
    <3>2. W.cref \in Live
      BY <1>0, <3>1, ScanPosition DEF ScanAt
    <3> QED BY <1>2, <2>1, <3>2
  <2>2. CASE ~ImplyFrom(W.cref, W.blocker)
    BY <1>3, <2>2 DEF ScanBinary, vars, trailVars, engineVars, varVars, SClauseConflict, ClauseConflict
  <2> QED BY <2>1, <2>2
<1>4. CASE ScanUnitOrFalse
  <2>1. CASE ImplyFrom(W.cref, Turned[1])
    <3>1. Scanning
      BY <1>4 DEF ScanUnitOrFalse, ScanVisit
    <3>2. W.cref \in Live
      BY <1>0, <3>1, ScanPosition DEF ScanAt
    <3> QED BY <1>2, <2>1, <3>2
  <2>2. CASE ~ImplyFrom(W.cref, Turned[1])
    BY <1>4, <2>2 DEF ScanUnitOrFalse, vars, trailVars, engineVars, varVars, SClauseConflict, ClauseConflict
  <2> QED BY <2>1, <2>2
<1>5. CASE SEnqueue
  <2>1. Gives(Head(enq), CRef_Undef, Running)
    BY <1>5 DEF SEnqueue, EEnqueue, Imply, SetVar, IsUndef, Gives
  <2>2. pc \in {"init", "called"}
    BY <1>5 DEF SEnqueue, EEnqueue
  <2>3. Running # 0
    BY <1>0, <2>2, RunningIsConstr DEF Constr
  <2> QED BY <2>1, <2>3 DEF Given
<1>6. CASE Assume
  <2>1. Gives(NextAssumption, CRef_Undef, 0)
    BY <1>6 DEF Assume, EDecide, Decide, SetVar, IsUndef, Gives, Unconstrained
  <2> QED BY <1>6, <2>1 DEF Given
<1>7. CASE PickBranch
  <2>1. \E x \in order_heap : \E l \in {x, -x} :
           EDecide(l) /\ reason' = [reason EXCEPT ![x] = CRef_Undef]
    BY <1>7 DEF PickBranch
  <2>2. PICK x, l : l \in {x, -x} /\ x \in order_heap /\ EDecide(l) /\ reason' = [reason EXCEPT ![x] = CRef_Undef]
    BY <2>1
  <2>3. l \in Lit /\ IsUndef(l)
    BY <2>2 DEF EDecide, Decide, IsUndef
  <2>4. VarOf(l) = x
    <3>1. x \in Var
      BY <2>2 DEF Layered
    <3> QED BY <2>2, <2>3, <3>1 DEF VarOf, Var
  <2>5. Gives(l, CRef_Undef, 0)
    BY <2>2, <2>3, <2>4 DEF EDecide, Decide, Gives, Unconstrained
  <2> QED BY <1>7, <2>5 DEF Given
<1>8. CASE SLearn
  <2>1. pc = "learn" /\ Enqueue(learnt) /\ nc_reason' = [nc_reason EXCEPT ![VarOf(learnt)] = 0]
    BY <1>8 DEF SLearn, ELearn, Learn, Unconstrained
  <2>2. learnt \in Lit /\ IsUndef(learnt)
    BY <1>0, <2>1, LearntFree
  <2>3. Len(learntLits) # 1
    <3>1. trail_lim' = trail_lim
      BY <1>8 DEF SLearn, ELearn, Learn
    <3> QED BY <1>b, <2>1, <3>1, LearntClause
  <2>4. reason' = [reason EXCEPT ![VarOf(learnt)] = Len(db) + 1]
    BY <1>8, <2>3 DEF SLearn, SetVar
  <2>5. Gives(learnt, Len(db) + 1, 0)
    BY <2>1, <2>2, <2>4 DEF Gives
  <2>6. Len(db) + 1 # CRef_Undef
    BY DEF Stored, Holds, CRef_Undef
  <2> QED BY <2>5, <2>6 DEF Given
<1>9. CASE ReduceDB
  <2>1. PICK S \in SUBSET {cr \in learnts : ~Binary(db[cr]) /\ ~Locked(cr)} : RemoveClauses(S)
    BY <1>9 DEF ReduceDB
  <2>2. reason \in [Var -> Nat]
    BY DEF Reasoned
  <2>3. reason' = reason
    BY <2>1, <2>2 DEF RemoveClauses
  <2> QED BY <1>9, <2>3 DEF ReduceDB, vars, trailVars, engineVars
<1>10. CASE SCancel
  <2>1. trail' = SubSeq(trail, 1, Len(trail) - 1) /\ UNCHANGED <<reason, nc_reason>>
    BY <1>10 DEF SCancel, ECancel, Cancel
  <2>2. DOMAIN trail' \subseteq DOMAIN trail
    BY <2>1, TrailFacts DEF Base
  <2> QED BY <2>1, <2>2
<1>11. ~Simplify /\ ~AdaptSolver /\ ~AddUnitClause
  BY <1>b DEF Simplify, AdaptSolver, AddUnitClause, EAddUnit, AddUnit, vars, trailVars
<1>12. CASE AddLongClause \/ ScanSatisfied \/ ScanMove \/ AssumeHeld \/ SAnalyzeUndo \/ SCancelDone
  BY <1>12 DEF AddLongClause, ScanSatisfied, ScanMove, AssumeHeld, SAnalyzeUndo, SCancelDone, vars, trailVars, engineVars,
     varVars, solverVars, DummyLevel, EAnalyzeUndo, AnalyzeUndo, ECancelDone, CancelDone
<1>13. CASE ~ReasonStep
  BY <1>13, ReasonUntouched
<1> QED BY <1>3, <1>4, <1>5, <1>6, <1>7, <1>8, <1>9, <1>10, <1>11, <1>12, <1>13 DEF ReasonStep

\* What is on the trail without a reason, at a level of an assumption, is one.
Unreasoned(i) == reason[VarOf(trail[i])] = CRef_Undef /\ nc_reason[VarOf(trail[i])] = 0
Chosen ==
  status = "search" =>
    \A i \in DOMAIN trail :
      Above(i) /\ Unreasoned(i) /\ level[VarOf(trail[i])] <= Len(assumptions)
        => trail[i] \in ToSet(assumptions)

\* The assumptions are those of the running call.
LEMMA AssumptionsStay ==
  ASSUME Base, Rooted, [SolverNext]_allVars, status' = "search"
  PROVE  \/ status = "search" /\ assumptions' = assumptions
         \/ decisionLevel = 0 /\ UNCHANGED <<trail, trail_lim>> /\ pc' = "ready"
<1>1. CASE Solve
  <2>1. status = "idle" /\ pc = "ready" /\ UNCHANGED <<trail, trail_lim, pc>>
    BY <1>1 DEF Solve, NextCall, Idle, vars, trailVars
  <2> QED BY <2>1 DEF Rooted
<1>2. CASE ~Solve
  <2>1. status = "search"
    BY <1>2, StatusKinds DEF SConflictAtRoot, Return, Stop
  <2>2. assumptions' = assumptions
    <3>1. CASE ApiStep
      BY <1>2, <2>1, <3>1 DEF ApiStep, AddClauseCommon, IsClauseCall, SAddConstraint, NextCall, EndScript, Idle, ModelFound, Stop
    <3>2. CASE ~ApiStep
      BY <3>2, ApiUntouched
    <3> QED BY <3>1, <3>2
  <2> QED BY <2>1, <2>2
<1> QED BY <1>1, <1>2

LEMMA ChosenStep ==
  ASSUME Base, Base', Blamed, Layered, Layered', Literals, Stored, Reasoned, ScanAt, Asserting, Rooted,
         Chosen, [SolverNext]_allVars
  PROVE  Chosen'
<1> SUFFICES ASSUME status' = "search", NEW i \in DOMAIN trail', Above(i)', Unreasoned(i)',
                    level'[VarOf(trail'[i])] <= Len(assumptions')
             PROVE  trail'[i] \in ToSet(assumptions')
  BY DEF Chosen
<1>0. TypeOK /\ TrailOK
  BY DEF Base
<1>n. PICK n \in Nat : n = Len(trail)
  BY <1>0, TrailFacts
<1>1. /\ trail \in Seq(Lit) /\ DOMAIN trail = 1..n
      /\ trail_lim \in Seq(Nat) /\ decisionLevel \in Nat /\ decisionLevel = Len(trail_lim)
      /\ \A j \in DOMAIN trail : trail[j] \in Lit /\ VarOf(trail[j]) \in Var
  BY <1>0, <1>n, TrailFacts
<1>2. nc_reason \in [Var -> 0..NConstr] /\ reason \in [Var -> Nat] /\ level \in [Var -> Nat] /\ assumptions \in Seq(Lit)
  BY DEF Blamed, Reasoned, Layered, Literals
<1>3. Stays \/ (\E l : Pushes(l)) \/ (\E l : Decides(l)) \/ Opens \/ Pops \/ Closes
  BY TrailKinds DEF Layered
<1>4. trail_lim' # <<>>
  BY DEF Above
<1>5. status = "search" /\ assumptions' = assumptions
  <2>1. decisionLevel = 0 => trail_lim = <<>>
    BY <1>0, TrailFacts
  <2> QED BY <1>4, <2>1, AssumptionsStay
<1>6. Given \/ (UNCHANGED <<reason, nc_reason>> /\ DOMAIN trail' \subseteq DOMAIN trail)
  BY <1>4, GivenKinds
<1>7. ASSUME NEW l \in Lit, IsUndef(l), Enqueue(l)
      PROVE  /\ DOMAIN trail' = 1..(n + 1) /\ trail'[n + 1] = l
             /\ \A j \in DOMAIN trail : trail'[j] = trail[j] /\ VarOf(trail[j]) # VarOf(l)
  <2>1. /\ trail' \in Seq(Lit) /\ Len(trail') = n + 1 /\ trail'[n + 1] = l
        /\ \A j \in DOMAIN trail : trail'[j] = trail[j]
    BY <1>0, <1>n, <1>7, EnqueueTrail
  <2>2. ASSUME NEW j \in DOMAIN trail PROVE VarOf(trail[j]) # VarOf(l)
    <3>1. trail[j] \in assigns /\ trail[j] \in Lit
      BY <1>0, <1>1 DEF TrailOK
    <3>2. l # trail[j] /\ l # -trail[j]
      <4>1. -(-trail[j]) = trail[j]
        BY <3>1, NegLit
      <4> QED BY <1>7, <3>1, <4>1 DEF IsUndef, IsTrue, IsFalse
    <3> QED BY <3>1, <3>2, VarOfLit
  <2> QED BY <2>1, <2>2
<1>8. CASE i \in DOMAIN trail
  <2>1. Above(i)
    BY <1>8, RootLasts
  <2>2. trail'[i] = trail[i] /\ level'[VarOf(trail[i])] = level[VarOf(trail[i])]
    <3>1. CASE Stays \/ Opens
      BY <3>1 DEF Stays, Opens
    <3>2. CASE \E l : Pushes(l) \/ Decides(l)
      <4>1. PICK l : Pushes(l) \/ Decides(l)
        BY <3>2
      <4>2. /\ l \in Lit /\ IsUndef(l) /\ Enqueue(l)
            /\ \E k \in {decisionLevel, decisionLevel + 1} : level' = [level EXCEPT ![VarOf(l)] = k]
        BY <4>1 DEF Pushes, Decides
      <4>3. trail'[i] = trail[i] /\ VarOf(trail[i]) # VarOf(l)
        BY <1>7, <1>8, <4>2
      <4> QED BY <1>1, <1>2, <1>8, <4>2, <4>3
    <3>3. CASE Pops
      <4>1. trail' = SubSeq(trail, 1, Len(trail) - 1) /\ level' = level
        BY <3>3 DEF Pops, ECancel, Cancel
      <4> QED BY <1>1, <1>n, <1>8, <4>1
    <3>4. CASE Closes
      BY <3>4 DEF Closes, ECancelDone, CancelDone
    <3> QED BY <1>3, <3>1, <3>2, <3>3, <3>4
  <2>3. Unreasoned(i)
    <3>1. CASE Given
      <4>1. PICK l, cr, nc : Gives(l, cr, nc)
        BY <3>1 DEF Given
      <4>2. VarOf(trail[i]) # VarOf(l) /\ VarOf(trail[i]) \in Var
        BY <1>1, <1>7, <1>8, <4>1 DEF Gives
      <4> QED BY <1>2, <2>2, <4>1, <4>2 DEF Gives, Unreasoned
    <3>2. CASE UNCHANGED <<reason, nc_reason>>
      BY <2>2, <3>2 DEF Unreasoned
    <3> QED BY <1>6, <3>1, <3>2
  <2> QED BY <1>5, <1>8, <2>1, <2>2, <2>3 DEF Chosen
<1>9. CASE i \notin DOMAIN trail
  <2>1. PICK l, cr, nc : /\ Gives(l, cr, nc)
                         /\ \/ cr # CRef_Undef \/ nc # 0
                            \/ Assume /\ l = NextAssumption
                            \/ PickBranch
    BY <1>6, <1>9 DEF Given
  <2>2. i = n + 1 /\ trail'[i] = l
    BY <1>1, <1>7, <1>9, <2>1 DEF Gives
  <2>3. VarOf(l) \in Var
    BY <2>1, VarOfLit DEF Gives
  <2>4. cr = CRef_Undef /\ nc = 0
    BY <1>2, <2>1, <2>2, <2>3 DEF Gives, Unreasoned
  <2>5. CASE Assume /\ l = NextAssumption
    <3>1. decisionLevel + 1 \in DOMAIN assumptions
      BY <1>1, <1>2, <2>5 DEF Assume, Assuming
    <3> QED BY <1>5, <2>2, <2>5, <3>1 DEF ToSet, NextAssumption
  <2>6. CASE PickBranch
    <3>1. level' = [level EXCEPT ![VarOf(l)] = decisionLevel + 1]
      <4>1. PICK x \in order_heap : \E m \in {x, -x} : EDecide(m) /\ level' = [level EXCEPT ![x] = decisionLevel + 1]
        BY <2>6 DEF PickBranch
      <4>1b. PICK m \in {x, -x} : EDecide(m)
        BY <4>1
      <4>2. m \in Lit /\ IsUndef(m) /\ Enqueue(m)
        BY <4>1b DEF EDecide, Decide, IsUndef
      <4>3. m = l
        BY <1>7, <2>2, <4>2
      <4>4. x \in Var
        BY DEF Layered
      <4>5. VarOf(m) = x
        BY <4>2, <4>4 DEF VarOf, Var
      <4> QED BY <4>1, <4>3, <4>5
    <3>2. decisionLevel >= Len(assumptions)
      BY <2>6 DEF PickBranch
    <3> QED BY <1>1, <1>2, <1>5, <2>2, <2>3, <3>1, <3>2
  <2> QED BY <2>1, <2>4, <2>5, <2>6
<1> QED BY <1>8, <1>9

=============================================================================
