-------------------------- MODULE RefinementProofs --------------------------
(***************************************************************************)
(* Solver implements IncrementalSat: every answer of solve() is right for  *)
(* what has been added and assumed.                                        *)
(***************************************************************************)
EXTENDS AnswerProofs
LOCAL INSTANCE SequencesExt
LOCAL INSTANCE FiniteSetsExt

(***************************************************************************)
(* What is assumed stays.                                                  *)
(***************************************************************************)
\* An assumption whose level has been opened is true by it.
Reached == IF pc = "cancel" THEN target ELSE decisionLevel
HeldAt(k) == \E i \in DOMAIN trail : trail[i] = assumptions[k] /\ level[VarOf(trail[i])] <= k
Held == status = "search" => \A k \in DOMAIN assumptions : k <= Reached => HeldAt(k)

\* The steps that open a level.
LEMMA OpenKinds ==
  ASSUME Base, Layered, [SolverNext]_allVars, trail_lim' # trail_lim, pc # "cancel"
  PROVE  Assume \/ AssumeHeld \/ PickBranch
<1>1. (\E l : Decides(l)) \/ Opens
  <2>1. Stays \/ (\E l : Pushes(l)) \/ (\E l : Decides(l)) \/ Opens \/ Pops \/ Closes
    BY TrailKinds DEF Layered
  <2> QED BY <2>1 DEF Stays, Pushes, Pops, Closes, ECancel, Cancel, ECancelDone, CancelDone
<1>2. UNCHANGED pc /\ pc = "ready" /\ trail_lim' = Append(trail_lim, Len(trail))
  BY <1>1 DEF Decides, Opens, Fixpoint
<1>3. UNCHANGED pc /\ ~UNCHANGED trail_lim /\ pc = "ready"
  BY <1>2
<1>4. ~(SDequeue \/ ScanBinary \/ ScanSatisfied \/ ScanMove \/ ScanUnitOrFalse \/ ScanNextList)
  BY <1>3 DEF SDequeue, Dequeue, ScanBinary, ScanSatisfied, ScanMove, ScanUnitOrFalse, ScanNextList, ScanVisit, Scanning
<1>5. ~(SEngineStep \/ SEnqueue)
  BY <1>3 DEF SEngineStep, SEnqueue, EEnqueue, EInitialized, Initialized, EReturnTrue, ReturnTrue, EReturnFalse,
     ReturnFalse, ECall, Call, CallsDone, Drain, DrainDone
<1>6. ~(Restart \/ GiveUp \/ Simplify \/ ReduceDB \/ AdaptSolver \/ AssumeFailed \/ ModelFound \/ Return)
  BY <1>3 DEF Restart, StartCancel, GiveUp, Stop, Simplify, ReduceDB, AdaptSolver, AssumeFailed, ModelFound, Return,
     vars, trailVars
<1>7. ~(SConflictAtRoot \/ SStartAnalyze \/ SAnalyzeUndo \/ SAnalyzeDone \/ SCancel \/ SCancelDone \/ SLearn)
  BY <1>3 DEF SLearn, ELearn, Learn, SConflictAtRoot, ConflictAtRoot, SStartAnalyze, StartAnalyze, SAnalyzeUndo,
     EAnalyzeUndo, AnalyzeUndo, SAnalyzeDone, AnalyzeDone, SCancel, ECancel, Cancel, SCancelDone, ECancelDone, CancelDone
<1>8. ~(AddRedundantClause \/ AddEmptyClause \/ AddUnitClause \/ AddLongClause)
  BY <1>3 DEF AddRedundantClause, AddEmptyClause, AddEmpty, AddLongClause, AddUnitClause, EAddUnit, AddUnit, vars, trailVars
<1>9. ~(SAddConstraint \/ Solve \/ EndScript \/ Finished \/ UNCHANGED allVars)
  BY <1>3 DEF SAddConstraint, EAddConstraint, AddConstraint, Solve, EndScript, Finished, allVars, vars, trailVars
<1> QED BY <1>4, <1>5, <1>6, <1>7, <1>8, <1>9 DEF SolverNext, SearchStep

\* cancelUntil() goes back to the level it was given.
LEMMA ReachedStep ==
  ASSUME Base, Base', [SolverNext]_allVars
  PROVE  Reached' <= Reached \/ (pc # "cancel" /\ trail_lim' # trail_lim)
<1>1. /\ decisionLevel \in Nat /\ decisionLevel' \in Nat /\ target \in Nat /\ target' \in Nat
      /\ pc' = "cancel" => target' < decisionLevel'
  <2>1. trail_lim \in Seq(Nat) /\ trail_lim' \in Seq(Nat) /\ target \in Nat /\ target' \in Nat
    BY DEF Base, TypeOK
  <2>2. decisionLevel = Len(trail_lim) /\ decisionLevel' = Len(trail_lim')
    BY DEF decisionLevel
  <2>3. pc' = "cancel" => target' < decisionLevel'
    BY DEF Base, Backtrack
  <2> QED BY <2>1, <2>2, <2>3
<1>2. CASE pc = "cancel"
  <2>1. CASE SCancel
    BY <1>1, <1>2, <2>1 DEF SCancel, ECancel, Cancel, Reached
  <2>2. CASE SCancelDone
    BY <1>1, <1>2, <2>2, CancelDoneLevels DEF Reached
  <2>3. CASE UNCHANGED allVars
    BY <1>1, <1>2, <2>3 DEF Reached, allVars, vars, trailVars
  <2> QED BY <1>2, <2>1, <2>2, <2>3, StepsAt
<1>3. CASE pc # "cancel" /\ trail_lim' = trail_lim
  <2>1. decisionLevel' = decisionLevel
    BY <1>3 DEF decisionLevel
  <2> QED BY <1>1, <1>3, <2>1 DEF Reached
<1> QED BY <1>2, <1>3

LEMMA HeldStep ==
  ASSUME Base, Base', Layered, Literals, Rooted, Held, [SolverNext]_allVars
  PROVE  Held'
<1> SUFFICES ASSUME status' = "search", NEW k \in DOMAIN assumptions', k <= Reached'
             PROVE  HeldAt(k)'
  BY DEF Held
<1>0. TypeOK /\ TrailOK
  BY DEF Base
<1>1. /\ trail \in Seq(Lit) /\ DOMAIN trail = 1..Len(trail) /\ Len(trail) \in Nat
      /\ trail_lim \in Seq(Nat) /\ decisionLevel \in Nat /\ decisionLevel = Len(trail_lim)
      /\ DOMAIN trail_lim = 1..decisionLevel
      /\ \A j \in DOMAIN trail : trail[j] \in Lit /\ VarOf(trail[j]) \in Var
  BY <1>0, TrailFacts
<1>2. /\ assumptions \in Seq(Lit) /\ assumptions' \in Seq(Lit) /\ level \in [Var -> Nat]
      /\ decisionLevel' \in Nat /\ target \in Nat /\ target' \in Nat
  <2>1. assumptions' \in Seq(Lit)
    BY LiteralsStep DEF Literals
  <2>2. trail_lim' \in Seq(Nat) /\ target \in Nat /\ target' \in Nat
    BY DEF Base, TypeOK
  <2>3. decisionLevel' = Len(trail_lim')
    BY DEF decisionLevel
  <2> QED BY <2>1, <2>2, <2>3 DEF Literals, Layered
<1>3. k \in Nat /\ k >= 1
  BY <1>2
<1>4. status = "search" /\ assumptions' = assumptions
  <2>1. CASE decisionLevel = 0 /\ trail_lim' = trail_lim /\ pc' = "ready"
    <3>1. Reached' = 0
      BY <2>1 DEF Reached, decisionLevel
    <3> QED BY <1>3, <3>1
  <2> QED BY <2>1, AssumptionsStay
<1>5. ASSUME NEW i \in DOMAIN trail, trail[i] = assumptions[k], level[VarOf(trail[i])] <= k, pc = "cancel" => k <= target
      PROVE  HeldAt(k)'
  <2>1. pc = "cancel" => i <= trail_lim[target + 1]
    <3> SUFFICES ASSUME pc = "cancel" PROVE i <= trail_lim[target + 1]
      OBVIOUS
    <3>1. target < decisionLevel
      BY DEF Base, Backtrack
    <3>2. target + 1 \in DOMAIN trail_lim
      BY <1>1, <1>2, <3>1
    <3>3. level[VarOf(trail[i])] \in Nat
      BY <1>1, <1>2
    <3>4. ~(target + 1 <= level[VarOf(trail[i])])
      BY <1>2, <1>3, <1>5, <3>3
    <3>5. ~(trail_lim[target + 1] < i)
      BY <3>2, <3>4 DEF Layered
    <3>6. trail_lim[target + 1] \in Nat
      BY <1>1, <3>2
    <3> QED BY <1>1, <3>5, <3>6
  <2>2. Lasting(i)
    BY <2>1, TrailLasts
  <2>3. i \in DOMAIN trail' /\ trail'[i] = trail[i] /\ level'[VarOf(trail[i])] = level[VarOf(trail[i])]
    <3>1. level[VarOf(trail[i])] <= level[VarOf(trail[i])]
      BY <1>1, <1>2
    <3> QED BY <2>2, <3>1 DEF Lasting
  <2> QED BY <1>4, <1>5, <2>3 DEF HeldAt
<1>6. CASE k <= Reached
  BY <1>4, <1>5, <1>6 DEF Held, HeldAt, Reached
<1>7. CASE ~(k <= Reached)
  <2>1. pc # "cancel" /\ trail_lim' # trail_lim
    <3>1. Reached \in Nat /\ Reached' \in Nat
      BY <1>1, <1>2 DEF Reached
    <3> QED BY <1>3, <1>7, <3>1, ReachedStep
  <2>2. Assume \/ AssumeHeld \/ PickBranch
    BY <1>0, <2>1, OpenKinds
  <2>3. trail_lim' = Append(trail_lim, Len(trail)) /\ pc' = "ready"
    BY <2>2 DEF Assume, AssumeHeld, PickBranch, DummyLevel, EDecide, Decide, Fixpoint
  <2>4. k = decisionLevel + 1 /\ k \in DOMAIN assumptions
    <3>1. decisionLevel' = decisionLevel + 1
      BY <1>1, <2>3 DEF decisionLevel
    <3>2. k <= decisionLevel' /\ ~(k <= decisionLevel)
      BY <1>7, <2>1, <2>3 DEF Reached
    <3> QED BY <1>1, <1>3, <1>4, <3>1, <3>2
  <2>5. CASE PickBranch
    BY <1>1, <1>2, <2>4, <2>5 DEF PickBranch
  <2>6. CASE AssumeHeld
    <3>1. assumptions[k] \in assigns
      BY <2>4, <2>6 DEF AssumeHeld, NextAssumption, IsTrue
    <3>2. PICK i \in DOMAIN trail : trail[i] = assumptions[k]
      BY <1>0, <3>1 DEF TrailOK
    <3>3. level[VarOf(trail[i])] \in Nat /\ level[VarOf(trail[i])] <= decisionLevel
      BY <1>1, <1>2 DEF Layered
    <3>4. level[VarOf(trail[i])] <= k
      BY <1>1, <2>4, <3>3
    <3> QED BY <1>5, <2>1, <3>2, <3>4
  <2>7. CASE Assume
    <3>1. /\ trail' = Append(trail, assumptions[k])
          /\ level' = [level EXCEPT ![VarOf(assumptions[k])] = k]
      BY <2>4, <2>7 DEF Assume, EDecide, Decide, Enqueue, SetVar, NextAssumption
    <3>2. assumptions[k] \in Lit
      BY <1>2, <2>4
    <3>3. Len(trail) + 1 \in DOMAIN trail' /\ trail'[Len(trail) + 1] = assumptions[k]
      BY <1>1, <3>1, <3>2
    <3>4. level'[VarOf(assumptions[k])] = k
      BY <1>2, <3>1, <3>2, VarOfLit
    <3> QED BY <1>3, <1>4, <3>3, <3>4 DEF HeldAt
  <2> QED BY <2>2, <2>5, <2>6, <2>7
<1> QED BY <1>6, <1>7

-----------------------------------------------------------------------------
(***************************************************************************)
(* What analyzeFinal() marks.                                              *)
(***************************************************************************)
\* The variables of level above 0 that a clause implying x was read to be of.
Enters(x) ==
  IF reason[x] = CRef_Undef THEN {}
  ELSE {VarOf(q) : q \in {r \in AfterFirst(db[reason[x]]) : level[VarOf(r)] > 0}}

\* f[i + 1] has the variables marked when trail[i] is visited.
Marks(f, p) ==
  /\ f[Len(trail) + 1] = {VarOf(p)}
  /\ \A i \in (trail_lim[1] + 1)..Len(trail) :
       f[i] = IF VarOf(trail[i]) \notin f[i + 1] THEN f[i + 1]
              ELSE (f[i + 1] \cup Enters(VarOf(trail[i]))) \ {VarOf(trail[i])}

Visits(f, i) == VarOf(trail[i]) \in f[i + 1]
Finds(f, p) ==
  analyzeFinal(p) =
    {p} \cup {-trail[i] : i \in {j \in (trail_lim[1] + 1)..Len(trail) :
                                   Visits(f, j) /\ reason[VarOf(trail[j])] = CRef_Undef}}

\* The entries above level 0, by number.
LEMMA AboveRange ==
  ASSUME Base, decisionLevel # 0, pc # "cancel"
  PROVE  /\ trail_lim[1] + 1 \in Nat /\ trail_lim[1] + 1 <= Len(trail) + 1
         /\ \A i \in (trail_lim[1] + 1)..Len(trail) : i \in DOMAIN trail /\ Above(i)
         /\ \A i \in DOMAIN trail : Above(i) => i \in (trail_lim[1] + 1)..Len(trail)
<1>1. /\ Len(trail) \in Nat /\ DOMAIN trail = 1..Len(trail) /\ trail_lim \in Seq(Nat)
      /\ 1 \in DOMAIN trail_lim /\ trail_lim # <<>>
  BY TrailFacts DEF Base
<1>2. trail_lim[1] \in Nat /\ trail_lim[1] <= Len(trail)
  BY <1>1 DEF Base, Levels
<1> QED BY <1>1, <1>2 DEF Above

\* The literals of the clause that implied trail[i], but for trail[i], are read.
LEMMA ReasonRead ==
  ASSUME Base, Stored, Reasoned, NEW i \in DOMAIN trail, Above(i), reason[VarOf(trail[i])] # CRef_Undef
  PROVE  /\ FromClause(reason[VarOf(trail[i])], i, db, trail, Live)
         /\ Enters(VarOf(trail[i])) \in SUBSET Var
         /\ \A q \in ToSet(db[reason[VarOf(trail[i])]]) \ {trail[i]} :
              level[VarOf(q)] > 0 => VarOf(q) \in Enters(VarOf(trail[i]))
<1> DEFINE c == db[reason[VarOf(trail[i])]]
<1>1. FromClause(reason[VarOf(trail[i])], i, db, trail, Live)
  BY DEF Reasoned
<1>2. IsClause(c)
  BY <1>1 DEF FromClause, Stored, Holds
<1>3. c \in Seq(Lit) /\ Len(c) \in Nat /\ Len(c) >= 2 /\ DOMAIN c = 1..Len(c)
  BY <1>2 DEF IsClause
<1>t. Tail(c) \in Seq(Lit) /\ Len(Tail(c)) = Len(c) - 1 /\ \A k \in 1..(Len(c) - 1) : Tail(c)[k] = c[k + 1]
  BY <1>3
<1>4. AfterFirst(c) \subseteq Lit
  BY <1>3, <1>t DEF AfterFirst, ToSet
<1>5. ASSUME NEW q \in ToSet(c) \ {trail[i]}, level[VarOf(q)] > 0
      PROVE  VarOf(q) \in Enters(VarOf(trail[i]))
  <2>1. q \in AfterFirst(c)
    <3>1. CASE Binary(c)
      BY <3>1 DEF AfterFirst
    <3>2. CASE ~Binary(c)
      <4>1. c[1] = trail[i]
        BY <1>1, <3>2 DEF FromClause
      <4>2. PICK k \in DOMAIN c : c[k] = q
        BY DEF ToSet
      <4>3. k # 1 /\ k \in 1..Len(c)
        BY <1>3, <1>5, <4>1, <4>2
      <4>4. k - 1 \in 1..(Len(c) - 1) /\ (k - 1) + 1 = k
        BY <1>3, <4>3
      <4>5. k - 1 \in DOMAIN Tail(c) /\ Tail(c)[k - 1] = q
        BY <1>t, <4>2, <4>4
      <4> HIDE DEF c
      <4> QED BY <3>2, <4>5 DEF AfterFirst, ToSet
    <3> QED BY <3>1, <3>2
  <2> QED BY <1>5, <2>1 DEF Enters
<1>6. Enters(VarOf(trail[i])) \in SUBSET Var
  <2>1. \A r \in Lit : VarOf(r) \in Var
    BY VarOfLit
  <2> QED BY <1>4, <2>1 DEF Enters
<1> QED BY <1>1, <1>5, <1>6

\* There is such an f, and analyzeFinal() reads its answer from it.
LEMMA FinalMarks ==
  ASSUME Base, Stored, Reasoned, decisionLevel # 0, pc # "cancel", NEW p \in Lit
  PROVE  \E f : Marks(f, p) /\ Finds(f, p)
<1> DEFINE n == Len(trail)
           m == trail_lim[1] + 1
           stepTo(i, S) == IF VarOf(trail[i]) \notin S THEN S
                           ELSE (S \cup Enters(VarOf(trail[i]))) \ {VarOf(trail[i])}
           body(f) == [i \in m..(n + 1) |-> IF i = n + 1 THEN {VarOf(p)} ELSE stepTo(i, f[i + 1])]
           marked == CHOOSE f : f = body(f)
           st == [a \in (SUBSET Var) \X (m..n) |-> stepTo(a[2], a[1])]
<1>1. /\ n \in Nat /\ m \in Nat /\ m <= n + 1
      /\ \A i \in m..n : i \in DOMAIN trail /\ Above(i)
  BY AboveRange, TrailFacts DEF Base
<1>2. analyzeFinal(p) = {p} \cup {-trail[i] : i \in {j \in m..n :
                          VarOf(trail[j]) \in marked[j + 1] /\ reason[VarOf(trail[j])] = CRef_Undef}}
  BY DEF analyzeFinal, Enters
<1>3. \E f : f = body(f)
  <2>1. st \in [(SUBSET Var) \X (m..n) -> SUBSET Var]
    <3>1. ASSUME NEW i \in m..n PROVE Enters(VarOf(trail[i])) \in SUBSET Var
      <4>1. i \in DOMAIN trail /\ Above(i)
        BY <1>1
      <4>2. CASE reason[VarOf(trail[i])] = CRef_Undef
        BY <4>2 DEF Enters
      <4>3. CASE reason[VarOf(trail[i])] # CRef_Undef
        BY <4>1, <4>3, ReasonRead
      <4> QED BY <4>2, <4>3
    <3>2. \A i \in m..n : \A S \in SUBSET Var : stepTo(i, S) \in SUBSET Var
      BY <3>1
    <3> HIDE DEF stepTo
    <3> QED BY <3>2
  <2>2. {VarOf(p)} \in SUBSET Var
    BY VarOfLit
  <2> HIDE DEF st, n, m
  <2>3. \E f : RecursesDown(f, m, n, SUBSET Var, {VarOf(p)}, st)
    BY <1>1, <2>1, <2>2, DownwardRecursion
  <2>4. PICK f : RecursesDown(f, m, n, SUBSET Var, {VarOf(p)}, st)
    BY <2>3
  <2>5. f \in [m..(n + 1) -> SUBSET Var] /\ f[n + 1] = {VarOf(p)} /\ \A i \in m..n : f[i] = st[<<f[i + 1], i>>]
    BY <2>4 DEF RecursesDown
  <2>6. ASSUME NEW i \in m..n PROVE f[i] = stepTo(i, f[i + 1])
    <3>0. i + 1 \in m..(n + 1)
      BY <1>1
    <3>1. f[i + 1] \in SUBSET Var
      BY <2>5, <3>0
    <3>2. <<f[i + 1], i>> \in (SUBSET Var) \X (m..n)
      BY <3>1
    <3> HIDE DEF stepTo
    <3> QED BY <2>5, <3>2 DEF st
  <2> HIDE DEF stepTo
  <2>7. f = body(f)
    <3>1. \A i \in m..(n + 1) : i # n + 1 => i \in m..n
      BY <1>1
    <3> QED BY <1>1, <2>5, <2>6, <3>1
  <2> QED BY <2>7
<1>4. marked = body(marked)
  <2> HIDE DEF body
  <2> QED BY <1>3
<1> HIDE DEF marked
<1>5. marked[n + 1] = {VarOf(p)} /\ \A i \in m..n : marked[i] = stepTo(i, marked[i + 1])
  <2> HIDE DEF stepTo, n, m
  <2>1. n + 1 \in m..(n + 1) /\ \A i \in m..n : i \in m..(n + 1) /\ i # n + 1
    BY <1>1
  <2>2. \A i \in m..(n + 1) : marked[i] = IF i = n + 1 THEN {VarOf(p)} ELSE stepTo(i, marked[i + 1])
    BY <1>4
  <2> QED BY <2>1, <2>2
<1>6. Marks(marked, p)
  BY <1>5 DEF Marks
<1>7. Finds(marked, p)
  BY <1>2 DEF Finds, Visits
<1> QED BY <1>6, <1>7

\* A variable stays marked until its own entry is visited.
LEMMA MarkStays ==
  ASSUME Base, decisionLevel # 0, pc # "cancel", NEW p, NEW f, Marks(f, p), NEW j \in DOMAIN trail, Above(j),
         NEW i \in (j + 1)..(Len(trail) + 1), VarOf(trail[j]) \in f[i]
  PROVE  Visits(f, j)
<1> DEFINE n == Len(trail)
           x == VarOf(trail[j])
           T == {d \in Nat : i - d >= j + 1 => x \in f[i - d]}
<1>1. /\ n \in Nat /\ DOMAIN trail = 1..n /\ j \in Nat /\ i \in Nat /\ i - (j + 1) \in Nat
      /\ j \in (trail_lim[1] + 1)..n /\ trail_lim[1] \in Nat
      /\ \A a, b \in DOMAIN trail : VarOf(trail[a]) = VarOf(trail[b]) => a = b
  <2>1. trail_lim \in Seq(Nat) /\ 1 \in DOMAIN trail_lim
    BY TrailFacts DEF Base
  <2>2. trail_lim[1] \in Nat /\ DOMAIN trail = 1..n /\ n \in Nat
    BY <2>1, TrailFacts DEF Base
  <2> QED BY <2>2, AboveRange DEF Base, TrailOK
<1>2. 0 \in T
  BY <1>1
<1>3. ASSUME NEW d \in Nat, d \in T PROVE d + 1 \in T
  <2> SUFFICES ASSUME i - (d + 1) >= j + 1 PROVE x \in f[i - (d + 1)]
    OBVIOUS
  <2> DEFINE k == i - (d + 1)
  <2>1. k \in (trail_lim[1] + 1)..n /\ k \in DOMAIN trail /\ k # j /\ k + 1 = i - d
    BY <1>1
  <2>2. VarOf(trail[k]) # x
    BY <1>1, <2>1
  <2>3. x \in f[k + 1]
    <3>1. i - d >= j + 1
      BY <1>1
    <3> QED BY <1>3, <2>1, <3>1
  <2> HIDE DEF x, n, k
  <2>4. f[k] = IF VarOf(trail[k]) \notin f[k + 1] THEN f[k + 1]
               ELSE (f[k + 1] \cup Enters(VarOf(trail[k]))) \ {VarOf(trail[k])}
    BY <2>1 DEF Marks, n
  <2>5. x \in f[k]
    BY <2>2, <2>3, <2>4
  <2> QED BY <2>5 DEF k
<1> HIDE DEF T
<1>4. i - (j + 1) \in T
  BY <1>1, <1>2, <1>3, NatSet
<1>5. i - (i - (j + 1)) = j + 1
  BY <1>1
<1> QED BY <1>1, <1>4, <1>5 DEF T, Visits

-----------------------------------------------------------------------------
(***************************************************************************)
(* The answers.                                                            *)
(***************************************************************************)
\* A literal of a clause true in A, all of whose other literals are false in
\* it, is true in A.
LEMMA ForcedBy ==
  ASSUME TypeOK, NEW A \in TotalAssignments, ClausesHit(A), NEW i \in DOMAIN trail, NEW cr,
         FromClause(cr, i, db, trail, Live),
         \A j \in 1..(i - 1) : -trail[j] \in ToSet(db[cr]) => trail[j] \in A
  PROVE  trail[i] \in A
<1>1. PICK q \in ToSet(db[cr]) : q \in A
  BY DEF FromClause, ClausesHit
<1>2. CASE q = trail[i]
  BY <1>1, <1>2
<1>3. CASE q # trail[i]
  <2>1. PICK j \in 1..(i - 1) : trail[j] = -q
    BY <1>1, <1>3 DEF FromClause
  <2>2. q \in Lit /\ -q \notin A
    BY <1>1, TotalFacts
  <2>3. -trail[j] = q
    BY <2>1, <2>2 DEF Lit
  <2> QED BY <1>1, <2>1, <2>2, <2>3
<1> QED BY <1>2, <1>3

\* The clause analyzeFinal() answers with is true in each model of the problem.
LEMMA FinalHit ==
  ASSUME Base, Layered, Stored, Reasoned, NEW A \in TotalAssignments, ClausesHit(A), RootHolds(A),
         pc # "cancel", NEW p \in Lit, IsTrue(p)
  PROVE  analyzeFinal(p) \cap A # {}
<1>0. /\ TypeOK /\ TrailOK /\ Len(trail) \in Nat /\ DOMAIN trail = 1..Len(trail)
      /\ \A i \in DOMAIN trail : trail[i] \in Lit /\ VarOf(trail[i]) \in Var
      /\ \A l \in Lit : l \in A <=> -l \notin A
  BY TrailFacts, TotalFacts DEF Base
<1>1. PICK i0 \in DOMAIN trail : trail[i0] = p
  BY <1>0 DEF TrailOK, IsTrue
<1>2. p \in analyzeFinal(p)
  BY DEF analyzeFinal
<1>3. CASE ~Above(i0)
  BY <1>1, <1>2, <1>3 DEF RootHolds
<1>4. CASE Above(i0)
  <2>1. decisionLevel # 0
    BY <1>0, <1>4, TrailFacts DEF Above
  <2>2. PICK f : Marks(f, p) /\ Finds(f, p)
    <3>1. \E f : Marks(f, p) /\ Finds(f, p)
      BY <2>1, FinalMarks
    <3> QED BY <3>1
  <2> SUFFICES ASSUME analyzeFinal(p) \cap A = {} PROVE FALSE
    OBVIOUS
  <2> DEFINE D == DOMAIN trail
             T == {i \in D : Above(i) /\ Visits(f, i) => trail[i] \in A}
  <2>3. ASSUME NEW i \in D, \A k \in D : k < i => k \in T, Above(i), Visits(f, i)
        PROVE  trail[i] \in A
    <3>1. i \in (trail_lim[1] + 1)..Len(trail)
      BY <2>1, <2>3, AboveRange
    <3>2. CASE reason[VarOf(trail[i])] = CRef_Undef
      <4>1. -trail[i] \in analyzeFinal(p)
        BY <2>2, <2>3, <3>1, <3>2 DEF Finds
      <4>2. -trail[i] \notin A
        BY <4>1
      <4> QED BY <1>0, <4>2
    <3>3. CASE reason[VarOf(trail[i])] # CRef_Undef
      <4> DEFINE cr == reason[VarOf(trail[i])]
      <4>1. /\ FromClause(cr, i, db, trail, Live)
            /\ \A q \in ToSet(db[cr]) \ {trail[i]} : level[VarOf(q)] > 0 => VarOf(q) \in Enters(VarOf(trail[i]))
        BY <2>3, <3>3, ReasonRead
      <4>2. ASSUME NEW j \in 1..(i - 1), -trail[j] \in ToSet(db[cr]) PROVE trail[j] \in A
        <5>1. j \in D /\ j < i /\ j # i /\ i \in (j + 1)..(Len(trail) + 1)
          BY <1>0
        <5>2. CASE ~Above(j)
          BY <5>1, <5>2 DEF RootHolds
        <5>3. CASE Above(j)
          <6>1. level[VarOf(trail[j])] > 0
            BY <1>0, <5>1, <5>3, RootLevel
          <6>2. VarOf(-trail[j]) = VarOf(trail[j]) /\ VarOf(trail[j]) # VarOf(trail[i])
            BY <1>0, <5>1, VarOfLit DEF TrailOK
          <6>3. -trail[j] # trail[i]
            BY <6>2
          <6>4. VarOf(trail[j]) \in Enters(VarOf(trail[i]))
            BY <4>1, <4>2, <6>1, <6>2, <6>3
          <6>5. f[i] = (f[i + 1] \cup Enters(VarOf(trail[i]))) \ {VarOf(trail[i])}
            BY <2>2, <2>3, <3>1 DEF Marks, Visits
          <6>6. VarOf(trail[j]) \in f[i]
            BY <6>2, <6>4, <6>5
          <6>7. Visits(f, j)
            BY <2>1, <2>2, <5>1, <5>3, <6>6, MarkStays
          <6> QED BY <2>3, <5>1, <5>3, <6>7
        <5> QED BY <5>2, <5>3
      <4> HIDE DEF cr
      <4> QED BY <1>0, <4>1, <4>2, ForcedBy
    <3> QED BY <3>2, <3>3
  <2>4. D \subseteq T
    <3>1. D \in SUBSET Nat
      BY <1>0
    <3>2. \A i \in D : (\A k \in D : k < i => k \in T) => i \in T
      BY <2>3
    <3> HIDE DEF D, T
    <3> QED BY <3>1, <3>2, StrongNat
  <2>5. Visits(f, i0)
    <3>1. VarOf(trail[i0]) \in f[Len(trail) + 1]
      BY <1>1, <2>2 DEF Marks
    <3>2. Len(trail) + 1 \in (i0 + 1)..(Len(trail) + 1)
      BY <1>0
    <3> QED BY <1>4, <2>1, <2>2, <3>1, <3>2, MarkStays
  <2>6. p \in A
    BY <1>1, <1>4, <2>4, <2>5
  <2> QED BY <1>2, <2>6
<1> QED BY <1>3, <1>4

\* Without constraints, its literals are negated assumptions.
LEMMA FinalAssumed ==
  ASSUME Base, Layered, Stored, Reasoned, Literals, Chosen, status = "search", pc # "cancel",
         \A x \in Var : nc_reason[x] = 0, decisionLevel < Len(assumptions)
  PROVE  analyzeFinal(-NextAssumption) \subseteq {-a : a \in ToSet(assumptions)}
<1>1. /\ decisionLevel \in Nat /\ assumptions \in Seq(Lit) /\ Len(assumptions) \in Nat
      /\ DOMAIN assumptions = 1..Len(assumptions)
  BY TrailFacts DEF Base, Literals
<1>2. decisionLevel + 1 \in DOMAIN assumptions
  BY <1>1
<1>3. NextAssumption \in ToSet(assumptions) /\ NextAssumption \in Lit
  BY <1>1, <1>2 DEF NextAssumption, ToSet
<1>4. CASE decisionLevel = 0
  BY <1>3, <1>4 DEF analyzeFinal
<1>5. CASE decisionLevel # 0
  <2>1. -NextAssumption \in Lit
    BY <1>3, NegLit
  <2>2. PICK f : Marks(f, -NextAssumption) /\ Finds(f, -NextAssumption)
    <3>1. \E f : Marks(f, -NextAssumption) /\ Finds(f, -NextAssumption)
      BY <1>5, <2>1, FinalMarks
    <3> QED BY <3>1
  <2>3. ASSUME NEW i \in (trail_lim[1] + 1)..Len(trail), reason[VarOf(trail[i])] = CRef_Undef
        PROVE  trail[i] \in ToSet(assumptions)
    <3>1. i \in DOMAIN trail /\ Above(i)
      BY <1>5, AboveRange
    <3>2. VarOf(trail[i]) \in Var
      BY <3>1, TrailFacts DEF Base
    <3>3. level[VarOf(trail[i])] \in Nat /\ level[VarOf(trail[i])] <= decisionLevel
      BY <3>1, <3>2 DEF Layered
    <3>4. level[VarOf(trail[i])] <= Len(assumptions)
      BY <1>1, <3>3
    <3> QED BY <2>3, <3>1, <3>2, <3>4 DEF Chosen, Unreasoned
  <2> QED BY <1>3, <2>2, <2>3 DEF Finds
<1> QED BY <1>4, <1>5

\* A model of the problem in which all assumptions are true makes everything
\* true that follows from the ones made.
LEMMA AssumedFollows ==
  ASSUME Base, Blamed, Layered, Stored, Reasoned, Literals, ImpliedFollows, Chosen,
         status = "search", decisionLevel < Len(assumptions),
         NEW A \in Sat!Models, SoundFor(A), ToSet(assumptions) \subseteq A
  PROVE  assigns \subseteq A
<1>0. /\ TypeOK /\ TrailOK /\ Len(trail) \in Nat /\ DOMAIN trail = 1..Len(trail)
      /\ \A i \in DOMAIN trail : trail[i] \in Lit /\ VarOf(trail[i]) \in Var
      /\ decisionLevel \in Nat /\ Len(assumptions) \in Nat
  BY TrailFacts DEF Base, Literals
<1>1. /\ A \in TotalAssignments /\ ClausesHit(A) /\ RootHolds(A)
      /\ \A c \in Added : \A R : R \subseteq A => A \in Solutions(c, R)
  BY ModelFacts DEF SoundFor
<1> DEFINE D == DOMAIN trail
           T == {i \in D : trail[i] \in A}
<1>2. ASSUME NEW i \in D, \A k \in D : k < i => k \in T
      PROVE  trail[i] \in A
  <2> DEFINE x == VarOf(trail[i])
  <2>1. \A k \in 1..(i - 1) : k \in D /\ trail[k] \in A
    BY <1>0, <1>2
  <2>2. CASE ~Above(i)
    BY <1>1, <2>2 DEF RootHolds
  <2>3. CASE Above(i) /\ reason[x] # CRef_Undef
    <3>1. FromClause(reason[x], i, db, trail, Live)
      BY <2>3, ReasonRead
    <3> QED BY <1>0, <1>1, <2>1, <3>1, ForcedBy
  <2>4. CASE nc_reason[x] # 0
    <3>1. nc_reason[x] \in Added
      BY <1>0, <2>4 DEF Blamed, Added, TypeOK
    <3>2. {trail[j] : j \in 1..(i - 1)} \subseteq A
      BY <2>1
    <3>3. A \in Solutions(nc_reason[x], {trail[j] : j \in 1..(i - 1)})
      BY <1>1, <3>1, <3>2
    <3> QED BY <2>4, <3>3 DEF ImpliedFollows
  <2>5. CASE Above(i) /\ reason[x] = CRef_Undef /\ nc_reason[x] = 0
    <3>1. level[x] \in Nat /\ level[x] <= decisionLevel
      BY <1>0 DEF Layered
    <3>2. level[x] <= Len(assumptions)
      BY <1>0, <3>1
    <3> QED BY <2>5, <3>2 DEF Chosen, Unreasoned
  <2> QED BY <2>2, <2>3, <2>4, <2>5
<1>3. D \subseteq T
  <2>1. D \in SUBSET Nat
    BY <1>0
  <2>2. \A i \in D : (\A k \in D : k < i => k \in T) => i \in T
    BY <1>2
  <2> HIDE DEF D, T
  <2> QED BY <2>1, <2>2, StrongNat
<1> QED BY <1>0, <1>3 DEF TrailOK

-----------------------------------------------------------------------------
(***************************************************************************)
(* A model.                                                                *)
(***************************************************************************)
\* What the constraints presume of the clauses the user adds with them, such as
\* the order of the literals of a number or that it has one value, is so in
\* every assignment that meets these clauses.
Encoded ==
  status = "search" =>
    \A A \in TotalAssignments :
      (\A f \in formula : f \cap A # {}) => \A c \in Added : PresumesOf(Problem[c], A)

\* With every variable assigned, what is true is a total assignment.
LEMMA AllAssigned ==
  ASSUME TypeOK, TrailOK, \A x \in Var : ~IsUndef(x)
  PROVE  assigns \in TotalAssignments
<1>0. /\ DOMAIN trail = 1..Len(trail) /\ \A i \in DOMAIN trail : trail[i] \in Lit /\ VarOf(trail[i]) \in Var
  BY TrailFacts
<1> DEFINE g == [x \in Var |-> x \in assigns]
<1>1. ASSUME NEW x \in Var PROVE x \in Lit /\ (x \in assigns \/ -x \in assigns)
  <2>1. x \in Lit
    BY TrailAssumption DEF Var, Lit
  <2> QED BY <2>1 DEF IsUndef, IsTrue, IsFalse
<1>2. ASSUME NEW l \in assigns PROVE l \in Lit /\ -l \notin assigns
  <2>1. l \in Lit
    BY <1>0 DEF TrailOK
  <2>2. l # -l /\ VarOf(-l) = VarOf(l)
    BY <2>1, NegLit, VarOfLit
  <2> QED BY <2>1, <2>2 DEF TrailOK
<1>3. \A x \in Var : (IF g[x] THEN x ELSE -x) \in assigns
  BY <1>1
<1>4. ASSUME NEW l \in assigns PROVE \E x \in Var : l = IF g[x] THEN x ELSE -x
  <2>1. l \in Lit /\ -l \notin assigns
    BY <1>2
  <2>2. CASE l > 0
    <3>1. l \in Var
      BY <2>1, <2>2 DEF Lit, Var
    <3> QED BY <3>1
  <2>3. CASE l < 0
    <3>1. -l \in Var /\ -(-l) = l
      <4>1. l \in Int /\ -NVars <= l /\ NVars \in Nat
        BY <2>1, TrailAssumption DEF Lit
      <4> QED BY <2>3, <4>1 DEF Var
    <3>2. ~g[-l]
      BY <2>1, <3>1
    <3> HIDE DEF g
    <3> QED BY <3>1, <3>2
  <2> QED BY <2>1, <2>2, <2>3 DEF Lit
<1>5. assigns = {IF g[x] THEN x ELSE -x : x \in Var}
  <2> HIDE DEF g
  <2> QED BY <1>3, <1>4
<1>6. g \in [Var -> BOOLEAN]
  OBVIOUS
<1> HIDE DEF g
<1> QED BY <1>5, <1>6 DEF TotalAssignments

\* Two total assignments are the same when one contains the other.
LEMMA TotalSame ==
  ASSUME NEW A \in TotalAssignments, NEW B \in TotalAssignments, A \subseteq B
  PROVE  A = B
<1>1. ASSUME NEW l \in B PROVE l \in A
  <2>1. l \in Lit /\ -l \notin B
    BY TotalFacts
  <2> QED BY <2>1, TotalFacts
<1> QED BY <1>1

\* The clauses that were added are met when every variable has its value.
LEMMA FormulaMet ==
  ASSUME Base, Stored, AllServed, FormulaKept, Fixpoint, \A x \in Var : ~IsUndef(x), NEW f \in formula, f \subseteq Lit
  PROVE  f \cap assigns # {}
<1>0. TypeOK /\ TrailOK /\ ok
  BY DEF Base, Fixpoint
<1>1. \A l \in Lit : ~IsUndef(l) /\ (l \in assigns <=> -l \notin assigns)
  <2>1. assigns \in TotalAssignments
    BY <1>0, AllAssigned
  <2> QED BY <2>1, TotalFacts DEF IsUndef, IsTrue, IsFalse
<1>2. KeptOf(f)
  BY <1>0 DEF FormulaKept
<1>3. ASSUME NEW cr \in clauses, ToSet(db[cr]) \subseteq f PROVE f \cap assigns # {}
  <2>1. Satisfied(cr)
    <3>1. Satisfied(cr) \/ Cardinality({i \in DOMAIN db[cr] : IsUndef(db[cr][i])}) > 1
      BY ServedPropagated DEF ClausesPropagated
    <3>2. {i \in DOMAIN db[cr] : IsUndef(db[cr][i])} = {}
      BY <1>1 DEF IsUndef
    <3>3. Cardinality({}) = 0
      BY FS_EmptySet
    <3> QED BY <3>1, <3>2, <3>3
  <2>2. PICK k \in DOMAIN db[cr] : db[cr][k] \in assigns
    BY <2>1 DEF Satisfied, IsTrue
  <2>3. db[cr][k] \in ToSet(db[cr])
    BY <2>2 DEF ToSet
  <2> QED BY <1>3, <2>2, <2>3
<1>4. ASSUME NEW i \in DOMAIN trail, trail[i] \in f PROVE f \cap assigns # {}
  BY <1>0, <1>4 DEF TrailOK
<1>5. ASSUME NEW l \in f, -l \in f PROVE f \cap assigns # {}
  BY <1>1, <1>5
<1> QED BY <1>2, <1>3, <1>4, <1>5 DEF KeptOf

\* A model search() finds is one, and the assumptions are true in it.
LEMMA ModelIsOne ==
  ASSUME Base, Stored, Literals, AllServed, FormulaKept, Held, Complete, PropagatedFully, Encoded, ModelFound
  PROVE  assigns \in {A \in Sat!Models : ToSet(assumptions) \subseteq A}
<1>0. /\ TypeOK /\ TrailOK /\ Fixpoint /\ status = "search" /\ \A x \in Var : ~IsUndef(x)
      /\ decisionLevel >= Len(assumptions)
  BY DEF Base, ModelFound, Searching, Complete
<1>1. assigns \in TotalAssignments
  BY <1>0, AllAssigned
<1>2. \A f \in formula : f \cap assigns # {}
  BY <1>0, FormulaMet DEF Literals
<1>3. ASSUME NEW c \in Added PROVE assigns \in Meeting[c]
  <2>1. PresumesOf(Problem[c], assigns)
    BY <1>0, <1>1, <1>2 DEF Encoded
  <2>2. PICK B \in Solutions(c, assigns) : TRUE
    BY <1>0, <2>1 DEF PropagatedFully
  <2>3. B \in Meeting[c] /\ assigns \subseteq B
    BY <2>2 DEF Solutions
  <2>4. B \in TotalAssignments
    <3>1. c \in Constr
      BY <1>0, TrailAssumption DEF Added, Constr, TypeOK
    <3> QED BY <2>3, <3>1 DEF Meeting
  <2> QED BY <1>1, <2>3, <2>4, TotalSame
<1>4. ASSUME NEW a \in ToSet(assumptions) PROVE a \in assigns
  <2>1. PICK k \in DOMAIN assumptions : assumptions[k] = a
    BY DEF ToSet
  <2>2. k <= decisionLevel
    <3>1. k \in 1..Len(assumptions) /\ Len(assumptions) \in Nat /\ decisionLevel \in Nat
      BY <1>0, TrailFacts DEF Literals
    <3> QED BY <1>0, <3>1
  <2>3. Reached = decisionLevel
    BY <1>0 DEF Reached, Fixpoint
  <2>4. HeldAt(k)
    BY <1>0, <2>2, <2>3 DEF Held
  <2> QED BY <1>0, <2>1, <2>4 DEF HeldAt, TrailOK
<1> QED BY <1>1, <1>2, <1>3, <1>4 DEF Sat!Models, MeetsConstraint

-----------------------------------------------------------------------------
(***************************************************************************)
(* Each step is one of IncrementalSat, or nothing the user sees.           *)
(***************************************************************************)
\* The steps the user sees.
SeenStep == AddsClause \/ SAddConstraint \/ Solve \/ SConflictAtRoot \/ GiveUp \/ AssumeFailed \/ ModelFound

\* Constraints are added by addConstraint() only.
LEMMA AddedStays ==
  ASSUME [SolverNext]_allVars, ~SAddConstraint
  PROVE  nconstr' = nconstr
<1>1. ASSUME NEW l, EAddUnit(l) \/ EDecide(l) \/ EImplyByClause(l) PROVE nconstr' = nconstr
  BY <1>1 DEF EAddUnit, EDecide, EImplyByClause, AddUnit, Decide, Imply
<1>2. ASSUME \/ UNCHANGED vars \/ UNCHANGED trailVars \/ AddEmpty \/ DummyLevel \/ Dequeue
             \/ ClauseConflict \/ ClausesDone \/ CallsDone \/ Drain \/ DrainDone
             \/ ConflictAtRoot \/ StartAnalyze \/ (\E l : StartCancel(l) \/ AnalyzeDone(l))
      PROVE  nconstr' = nconstr
  BY <1>2 DEF vars, trailVars, AddEmpty, DummyLevel, Dequeue, ClauseConflict, ClausesDone, CallsDone,
     Drain, DrainDone, ConflictAtRoot, StartAnalyze, StartCancel, AnalyzeDone
<1>3. ASSUME EEnqueue \/ EInitialized \/ EReturnTrue \/ EReturnFalse \/ ECancel
             \/ (\E c \in Constr : ECall(c)) \/ EAnalyzeUndo \/ ECancelDone \/ ELearn
      PROVE  nconstr' = nconstr
  BY <1>3 DEF EEnqueue, EInitialized, EReturnTrue, EReturnFalse, ECall, EAnalyzeUndo, ECancel,
     ECancelDone, ELearn, Imply, Initialized, ReturnTrue, ReturnFalse, Call, AnalyzeUndo, Cancel, CancelDone, Learn
<1>4. CASE SDequeue \/ ScanNextList \/ SEngineStep \/ SEnqueue
  BY <1>4, <1>2, <1>3 DEF SDequeue, ScanNextList, SEngineStep, SEnqueue
<1>5. CASE ScanBinary \/ ScanUnitOrFalse
  BY <1>5, <1>1, <1>2 DEF ScanBinary, ScanUnitOrFalse, ImplyFrom, SClauseConflict
<1>6. CASE \/ ScanSatisfied \/ ScanMove \/ Simplify \/ ReduceDB \/ AdaptSolver \/ Return
           \/ AddRedundantClause \/ AddLongClause \/ Solve \/ EndScript
  BY <1>6, <1>2 DEF ScanSatisfied, ScanMove, Simplify, ReduceDB, AdaptSolver, Return,
     AddRedundantClause, AddLongClause, Solve, EndScript
<1>7. CASE Restart \/ GiveUp \/ AssumeFailed \/ ModelFound \/ AssumeHeld
  BY <1>7, <1>2 DEF Restart, GiveUp, AssumeFailed, ModelFound, AssumeHeld, Stop
<1>8. CASE Assume \/ PickBranch \/ AddUnitClause
  BY <1>8, <1>1 DEF Assume, PickBranch, AddUnitClause
<1>9. CASE SConflictAtRoot \/ SStartAnalyze \/ SAnalyzeDone \/ AddEmptyClause
  BY <1>9, <1>2 DEF SConflictAtRoot, SStartAnalyze, SAnalyzeDone, AddEmptyClause
<1>10. CASE SAnalyzeUndo \/ SCancel \/ SCancelDone \/ SLearn
  BY <1>10, <1>3 DEF SAnalyzeUndo, SCancel, SCancelDone, SLearn
<1>11. CASE Finished \/ UNCHANGED allVars
  BY <1>11, <1>2 DEF Finished, allVars
<1> QED
  BY <1>4, <1>5, <1>6, <1>7, <1>8, <1>9, <1>10, <1>11 DEF SolverNext, SearchStep

\* The other steps change nothing of what the user sees.
LEMMA UnseenStep ==
  ASSUME [SolverNext]_allVars, ~SeenStep
  PROVE  UNCHANGED Sat!vars
<1>1. UNCHANGED <<formula, assumptions, result, model, conflict>> /\ (status' = status \/ Return)
  BY DEF SeenStep, AddsClause, SolverNext, SearchStep, allVars, solverVars, apiVars, EndScript, Finished, SDequeue,
     ScanBinary, ScanSatisfied, ScanMove, ScanUnitOrFalse, ScanNextList, SEngineStep, SEnqueue, Restart, Simplify,
     ReduceDB, AdaptSolver, AssumeHeld, Assume, PickBranch, Return, SStartAnalyze, SAnalyzeUndo, SAnalyzeDone,
     SCancel, SCancelDone, SLearn
<1>2. (status' = "search") = (status = "search")
  BY <1>1 DEF Return
<1>3. nconstr' = nconstr
  BY AddedStays DEF SeenStep
<1> QED BY <1>1, <1>2, <1>3 DEF Sat!vars, Added

\* Every literal is true in some assignment.
LEMMA AllLiterals == \A S : S \subseteq Lit => S \subseteq UNION TotalAssignments
<1> SUFFICES ASSUME NEW l \in Lit PROVE \E A \in TotalAssignments : l \in A
  OBVIOUS
<1> DEFINE g == [x \in Var |-> x = l]
           A == {IF g[x] THEN x ELSE -x : x \in Var}
<1>1. VarOf(l) \in Var /\ (l = VarOf(l) \/ l = -VarOf(l))
  <2>1. VarOf(l) \in Var
    BY VarOfLit
  <2> QED BY <2>1 DEF VarOf, Lit
<1>2. l = IF g[VarOf(l)] THEN VarOf(l) ELSE -VarOf(l)
  BY <1>1
<1>3. l \in A
  <2> HIDE DEF g
  <2> QED BY <1>1, <1>2
<1>4. g \in [Var -> BOOLEAN]
  OBVIOUS
<1>5. A \in TotalAssignments
  <2> HIDE DEF g
  <2> QED BY <1>4 DEF TotalAssignments
<1> HIDE DEF A
<1> QED BY <1>3, <1>5

\* What the search knows when it answers.
Answering ==
  /\ Searched /\ Rooted /\ Sound /\ Complete /\ AllServed /\ Underway
  /\ FormulaKept /\ Chosen /\ Held

\* The calls that are made between two answers.
LEMMA CallMaps ==
  ASSUME Answering, AddsClause \/ SAddConstraint \/ Solve, [SolverNext]_allVars
  PROVE  [Sat!Next]_(Sat!vars)
<1>0. Literals /\ status = "idle" /\ Base
  BY DEF Answering, Searched, AddsClause, AddClauseCommon, AddRedundantClause, AddEmptyClause, AddUnitClause,
     AddLongClause, IsClauseCall, Idle, SAddConstraint, Solve, NextCall
<1>1. CASE AddsClause
  <2>1. /\ IsClauseCall /\ formula' = formula \cup {CallLits}
        /\ UNCHANGED <<status, assumptions, result, model, conflict>>
    BY <1>1 DEF AddsClause, AddClauseCommon, AddRedundantClause, AddEmptyClause, AddUnitClause, AddLongClause
  <2>2. CallLits \subseteq UNION TotalAssignments
    <3>1. CallLits \subseteq Lit
      BY <1>0, <2>1, CallLiterals DEF IsClauseCall, Idle
    <3> QED BY <3>1, AllLiterals
  <2>3. nconstr' = nconstr
    <3>1. CASE SAddConstraint
      BY <2>1, <3>1 DEF SAddConstraint, NextCall, IsClauseCall
    <3> QED BY <3>1, AddedStays
  <2>4. Sat!AddClause
    BY <1>0, <2>1, <2>2, <2>3 DEF Sat!AddClause, Added
  <2> QED BY <2>4 DEF Sat!Next
<1>2. CASE SAddConstraint
  <2>1. UNCHANGED <<formula, status, assumptions, result, model, conflict>>
    BY <1>2 DEF SAddConstraint
  <2>2. CASE EAddConstraint
    <3>1. nconstr' = nconstr + 1 /\ nconstr \in Nat
      BY <1>0, <2>2, TrailAssumption DEF EAddConstraint, AddConstraint, Base, TypeOK
    <3>2. nconstr' \in Added' /\ Added' = Added \cup {nconstr'}
      BY <3>1 DEF Added
    <3>3. Sat!AddConstraint
      BY <1>0, <2>1, <3>2 DEF Sat!AddConstraint
    <3> QED BY <3>3 DEF Sat!Next
  <2>3. CASE UNCHANGED vars
    <3>1. UNCHANGED Sat!vars
      BY <2>1, <2>3 DEF Sat!vars, Added, vars, trailVars
    <3> QED BY <3>1
  <2> QED BY <1>2, <2>2, <2>3 DEF SAddConstraint
<1>3. CASE Solve
  <2>1. /\ assumptions' = Head(script).assumptions /\ model' = {} /\ conflict' = {}
        /\ status' = (IF ok THEN "search" ELSE "idle") /\ result' = (IF ok THEN "none" ELSE "l_False")
        /\ UNCHANGED <<formula, nconstr>>
        /\ script # <<>> /\ Head(script).op = "solve"
    BY <1>3 DEF Solve, NextCall, Idle, vars, trailVars
  <2>2. ToSet(assumptions') \subseteq UNION TotalAssignments
    <3>1. assumptions' \in Seq(Lit)
      BY <1>0, <2>1, CallLiterals
    <3>2. ToSet(assumptions') \subseteq Lit
      BY <3>1 DEF ToSet
    <3> QED BY <3>2, AllLiterals
  <2>3. CASE ok
    <3>1. Sat!Ask
      BY <1>0, <2>1, <2>2, <2>3 DEF Sat!Ask, Added
    <3> QED BY <3>1 DEF Sat!Next
  <2>4. CASE ~ok
    <3>1. Sat!Models = {}
      BY <2>4 DEF Answering, Sound, SoundFor
    <3>2. Sat!AskInVain
      BY <1>0, <2>1, <2>2, <2>4, <3>1 DEF Sat!AskInVain, Added
    <3> QED BY <3>2 DEF Sat!Next
  <2> QED BY <2>3, <2>4
<1> QED BY <1>1, <1>2, <1>3

\* The answers.
LEMMA AnswerMaps ==
  ASSUME Answering, Answering', ImpliedFollows, PropagatedFully, Encoded,
         SConflictAtRoot \/ GiveUp \/ AssumeFailed \/ ModelFound, [SolverNext]_allVars
  PROVE  [Sat!Next]_(Sat!vars)
<1>0. Literals /\ Base /\ Blamed /\ Layered /\ Stored /\ Reasoned
  BY DEF Answering, Searched
<1>n. nconstr' = nconstr /\ formula' = formula /\ assumptions' = assumptions
  <2>1. formula' = formula /\ assumptions' = assumptions
    BY DEF SConflictAtRoot, GiveUp, AssumeFailed, ModelFound, Stop
  <2>2. ~SAddConstraint
    BY DEF SConflictAtRoot, ConflictAtRoot, GiveUp, AssumeFailed, ModelFound, Searching, Assuming, SAddConstraint, NextCall, Idle
  <2> QED BY <2>1, <2>2, AddedStays
<1>1. CASE SConflictAtRoot
  <2>1. ~ok' /\ status' = "idle" /\ UNCHANGED <<model, conflict>>
        /\ result' = IF status = "search" THEN "l_False" ELSE result
    BY <1>1 DEF SConflictAtRoot, ConflictAtRoot
  <2>2. CASE status = "search"
    <3>1. Sat!Models' = {}
      BY <2>1 DEF Answering, Sound, SoundFor
    <3>2. Sat!Models' = Sat!Models
      BY <1>n DEF Sat!Models, Added, MeetsConstraint
    <3>3. Sat!AnswerUnsat
      BY <1>n, <2>1, <2>2, <3>1, <3>2 DEF Sat!AnswerUnsat, Added
    <3> QED BY <3>3 DEF Sat!Next
  <2>3. CASE status # "search"
    <3>1. UNCHANGED Sat!vars
      BY <1>n, <2>1, <2>3 DEF Sat!vars, Added
    <3> QED BY <3>1
  <2> QED BY <2>2, <2>3
<1>2. CASE GiveUp
  <2>1. /\ status = "search" /\ status' = "stop" /\ result' = "l_Undef" /\ UNCHANGED <<model, conflict>>
    BY <1>2 DEF GiveUp, Searching, Stop
  <2>2. Sat!GiveUp
    BY <1>n, <2>1 DEF Sat!GiveUp, Added
  <2> QED BY <2>2 DEF Sat!Next
<1>3. CASE AssumeFailed
  <2>1. /\ status = "search" /\ status' = "stop" /\ result' = "l_False" /\ UNCHANGED model
        /\ conflict' = analyzeFinal(-NextAssumption) /\ pc # "cancel"
        /\ decisionLevel < Len(assumptions) /\ IsFalse(NextAssumption)
    BY <1>3 DEF AssumeFailed, Assuming, Searching, Fixpoint, Stop
  <2>2. NextAssumption \in ToSet(assumptions) /\ NextAssumption \in Lit
    <3>1. decisionLevel \in Nat /\ assumptions \in Seq(Lit) /\ Len(assumptions) \in Nat
      BY <1>0, TrailFacts DEF Base, Literals
    <3>2. decisionLevel + 1 \in DOMAIN assumptions
      BY <2>1, <3>1
    <3> QED BY <3>1, <3>2 DEF NextAssumption, ToSet
  <2>3. ASSUME NEW A \in Sat!Models PROVE ~(ToSet(assumptions) \subseteq A) /\ conflict' \cap A # {}
    <3>1. A \in TotalAssignments /\ SoundFor(A)
      BY ModelFacts DEF Answering, Sound
    <3>2. conflict' \cap A # {}
      <4>1. -NextAssumption \in Lit /\ IsTrue(-NextAssumption)
        BY <2>1, <2>2, NegLit DEF IsFalse, IsTrue
      <4>2. ClausesHit(A) /\ RootHolds(A)
        BY <3>1 DEF SoundFor
      <4>3. analyzeFinal(-NextAssumption) \cap A # {}
        BY <1>0, <2>1, <3>1, <4>1, <4>2, FinalHit
      <4> QED BY <2>1, <4>3
    <3>3. ASSUME ToSet(assumptions) \subseteq A PROVE FALSE
      <4>1. assigns \subseteq A
        BY <1>0, <2>1, <3>1, <3>3, AssumedFollows DEF Answering
      <4> QED BY <2>1, <2>2, <3>1, <3>3, <4>1, TotalFacts DEF IsFalse
    <3> QED BY <3>2, <3>3
  <2>4. Sat!AnswerUnsat
    BY <1>n, <2>1, <2>3 DEF Sat!AnswerUnsat, Added
  <2> QED BY <2>4 DEF Sat!Next
<1>4. CASE ModelFound
  <2>1. /\ status = "search" /\ status' = "stop" /\ result' = "l_True" /\ model' = assigns /\ UNCHANGED conflict
    BY <1>4 DEF ModelFound, Searching, Stop
  <2>2. assigns \in {A \in Sat!Models : ToSet(assumptions) \subseteq A}
    BY <1>0, <1>4, ModelIsOne DEF Answering
  <2>3. Sat!AnswerSat
    BY <1>n, <2>1, <2>2 DEF Sat!AnswerSat, Added
  <2> QED BY <2>3 DEF Sat!Next
<1> QED BY <1>1, <1>2, <1>3, <1>4

\* All of it holds at first, ...
LEMMA AnsweringInit == SolverInit => Answering /\ Sat!Init /\ ConflictIsAssumptions
<1> SUFFICES ASSUME SolverInit PROVE Answering /\ Sat!Init /\ ConflictIsAssumptions
  OBVIOUS
<1>1. Searched /\ Rooted /\ Sound /\ AllServed /\ Underway
  BY SearchedInit, SoundInit, ServedInit
<1>2. formula = {} /\ nconstr = 0 /\ assumptions = <<>> /\ status = "idle" /\ result = "none" /\ model = {} /\ conflict = {}
      /\ order_heap = Var
  BY DEF SolverInit, EngineInit, Init
<1>3. Complete /\ FormulaKept /\ Chosen /\ Held
  BY <1>2 DEF Complete, FormulaKept, Chosen, Held
<1>4. Sat!Init
  <2>1. Added = {} /\ ToSet(assumptions) = {}
    BY <1>2 DEF Added, ToSet
  <2> QED BY <1>2, <2>1 DEF Sat!Init
<1> QED BY <1>1, <1>2, <1>3, <1>4 DEF Answering, ConflictIsAssumptions

\* ... and every step keeps it, ...
LEMMA AnsweringStep ==
  ASSUME Answering, Explained, Explained', ImpliedFollows', [SolverNext]_allVars
  PROVE  Answering'
<1>1. /\ Searched /\ Rooted /\ Sound /\ Complete /\ AllServed /\ Underway /\ FormulaKept /\ Chosen /\ Held
      /\ Base /\ Blamed /\ Layered /\ Literals /\ ScanAt /\ Stored /\ Reasoned /\ Asserting
  BY DEF Answering, Searched
<1>2. Searched' /\ Sound'
  BY <1>1, SearchedStep, SoundStep
<1>3. Base' /\ Layered' /\ Stored'
  BY <1>2 DEF Searched
<1>4. Rooted' /\ Complete'
  BY <1>1, RootedStep, CompleteStep
<1>5. AllServed' /\ Underway'
  BY <1>1, <1>3, AllServedStep, UnderwayStep
<1>6. FormulaKept'
  BY <1>1, <1>3, FormulaKeptStep
<1>7. Chosen'
  BY <1>1, <1>3, ChosenStep
<1>8. Held'
  BY <1>1, <1>3, HeldStep
<1> QED BY <1>2, <1>4, <1>5, <1>6, <1>7, <1>8 DEF Answering

\* ... being one IncrementalSat allows.
LEMMA StepMaps ==
  ASSUME Answering, Answering', ImpliedFollows, PropagatedFully, Encoded, [SolverNext]_allVars
  PROVE  [Sat!Next]_(Sat!vars)
<1>1. CASE ~SeenStep
  BY <1>1, UnseenStep
<1>2. CASE AddsClause \/ SAddConstraint \/ Solve
  BY <1>2, CallMaps
<1>3. CASE SConflictAtRoot \/ GiveUp \/ AssumeFailed \/ ModelFound
  BY <1>3, AnswerMaps
<1> QED BY <1>1, <1>2, <1>3 DEF SeenStep

\* Without constraints, the final conflict stays one of negated assumptions.
LEMMA ConflictStep ==
  ASSUME NConstr = 0, Answering, ConflictIsAssumptions, [SolverNext]_allVars
  PROVE  ConflictIsAssumptions'
<1>0. Base /\ Blamed /\ Layered /\ Literals /\ Stored /\ Reasoned /\ Chosen
  BY DEF Answering, Searched
<1>1. CASE Solve
  <2>1. conflict' = {}
    BY <1>1 DEF Solve
  <2> QED BY <2>1 DEF ConflictIsAssumptions
<1>2. CASE AssumeFailed
  <2>1. /\ conflict' = analyzeFinal(-NextAssumption) /\ assumptions' = assumptions
        /\ status = "search" /\ pc # "cancel" /\ decisionLevel < Len(assumptions)
    BY <1>2 DEF AssumeFailed, Assuming, Searching, Fixpoint, Stop
  <2>2. \A x \in Var : nc_reason[x] = 0
    BY <1>0 DEF Blamed
  <2>3. analyzeFinal(-NextAssumption) \subseteq {-a : a \in ToSet(assumptions)}
    BY <1>0, <2>1, <2>2, FinalAssumed
  <2> QED BY <2>1, <2>3 DEF ConflictIsAssumptions
<1>3. CASE ~Solve /\ ~AssumeFailed
  <2>1. conflict' = conflict /\ assumptions' = assumptions
    BY ZenonT(40), <1>3 DEF AddClauseCommon, AddRedundantClause, AddEmptyClause, AddUnitClause, AddLongClause, SAddConstraint, GiveUp,
     SConflictAtRoot, ModelFound, Stop,
     SolverNext, SearchStep, allVars, solverVars, apiVars, EndScript, Finished, SDequeue,
     ScanBinary, ScanSatisfied, ScanMove, ScanUnitOrFalse, ScanNextList, SEngineStep, SEnqueue, Restart, Simplify,
     ReduceDB, AdaptSolver, AssumeHeld, Assume, PickBranch, Return, SStartAnalyze, SAnalyzeUndo, SAnalyzeDone,
     SCancel, SCancelDone, SLearn
  <2> QED BY <2>1 DEF ConflictIsAssumptions
<1> QED BY <1>1, <1>2, <1>3

\* While the constraints keep to what Constraint.h asks of them, and the user
\* has added the clauses they presume, every answer of solve() is right, whatever
\* was added, asked and answered before: a model it gives meets all clauses and
\* constraints and the assumptions; when it says there is none, there is none;
\* and the clause analyzeFinal() gives for the assumptions follows.
THEOREM SearchAnswers ==
  SolverSpec /\ []Explained /\ []ImpliedFollows /\ []PropagatedFully /\ []Encoded => AnswersAreRight
<1>1. SolverInit => Answering /\ Sat!Init
  BY AnsweringInit
<1>2. Answering /\ Explained /\ Explained' /\ ImpliedFollows' /\ [SolverNext]_allVars => Answering'
  BY AnsweringStep
<1>3. Answering /\ Answering' /\ ImpliedFollows /\ PropagatedFully /\ Encoded /\ [SolverNext]_allVars
        => [Sat!Next]_(Sat!vars)
  BY StepMaps
<1> QED BY <1>1, <1>2, <1>3, PTL DEF SolverSpec, AnswersAreRight, Sat!Spec

\* For a problem in clauses nothing is asked: every answer is right, and the
\* final conflict is made of negated assumptions only.
THEOREM ClausesAnswered == NConstr = 0 => (SolverSpec => AnswersAreRight /\ []ConflictIsAssumptions)
<1> SUFFICES ASSUME NConstr = 0 PROVE SolverSpec => AnswersAreRight /\ []ConflictIsAssumptions
  OBVIOUS
<1>1. Answering => PropagatedFully /\ Encoded
  <2> SUFFICES ASSUME Answering PROVE PropagatedFully /\ Encoded
    OBVIOUS
  <2>1. Added = {}
    BY DEF Answering, Searched, Base, TypeOK, Added
  <2> QED BY <2>1 DEF PropagatedFully, Encoded
<1>2. SolverInit => Answering /\ ConflictIsAssumptions
  BY AnsweringInit
<1>3. Answering /\ Explained /\ Explained' /\ ImpliedFollows' /\ [SolverNext]_allVars => Answering'
  BY AnsweringStep
<1>4. Answering /\ ConflictIsAssumptions /\ [SolverNext]_allVars => ConflictIsAssumptions'
  BY ConflictStep
<1> QED BY <1>1, <1>2, <1>3, <1>4, QuietSearch, SearchAnswers, PTL DEF SolverSpec

\* Nor is it for one in clauses and AtMost constraints: all that is learnt
\* follows, propagation misses no clause, and every answer is right.
THEOREM AtMostAnswered ==
  AtMostOnly => (SolverSpec => []EverythingFollows /\ []ClausesPropagated /\ AnswersAreRight)
<1> SUFFICES ASSUME AtMostOnly
             PROVE  SolverSpec => []EverythingFollows /\ []ClausesPropagated /\ AnswersAreRight
  OBVIOUS
<1>1. SolverSpec => []Explained /\ []ImpliedFollows /\ []PropagatedFully
  BY SolverImplementsEngine, AtMostExplains, AtMostImplies, AtMostPropagates, PTL
<1>2. Base => Encoded
  <2> SUFFICES ASSUME Base, NEW c \in Added, NEW A PROVE PresumesOf(Problem[c], A)
    BY DEF Encoded
  <2>1. c \in Plain
    BY TrailAssumption DEF Base, TypeOK, Added, Constr, AtMostOnly
  <2> QED BY <2>1, PlainReason
<1>3. SolverSpec => []Encoded
  BY <1>2, SolverImplementsTrail, SpecBase, PTL
<1> QED BY <1>1, <1>3, SearchSound, SearchPropagates, SearchAnswers, PTL
=============================================================================
