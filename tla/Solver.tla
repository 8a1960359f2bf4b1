------------------------------- MODULE Solver -------------------------------
(***************************************************************************)
(* The CDCL search of core/Solver.cc: watched literals, conflict analysis  *)
(* with minimisation, learning, restarts, clause deletion, assumptions and *)
(* repeated calls, over the constraints of ConstraintEngine.               *)
(*                                                                         *)
(* Heuristics are choices: which variable of the heap, which polarity,     *)
(* when to restart, to simplify, and which learnt clauses to delete.       *)
(***************************************************************************)
EXTENDS ConstraintEngine

LOCAL INSTANCE SequencesExt
LOCAL INSTANCE FiniteSetsExt

CONSTANTS
  Scripts  \* the sequences of calls a user of the class may make, with bounds

\* The calls of the scripts.
ApiCalls == UNION {{s.calls[i] : i \in DOMAIN s.calls} : s \in Scripts}

\* Literals are of variables made by newVar().
ASSUME SolverAssumption ==
  /\ \A s \in Scripts : s.calls \in Seq(ApiCalls)
  /\ \A call \in ApiCalls : call.op = "clause" => call.lits \in Seq(Lit)
  /\ \A call \in ApiCalls : call.op = "solve" => call.assumptions \in Seq(Lit)

VARIABLES
  script,      \* calls still to be made
  formula,     \* the clauses passed to addClause so far, as sets
  db,          \* ca: the clause at each CRef (from 1 on), <<>> once freed
  clauses, learnts,   \* the CRefs of the vectors of these names
  watches, watchesBin, \* for each literal, the clauses to visit when it is true
  reason, level,      \* vardata
  wbin, wi,    \* does propagate() scan watchesBin, and the entry it is at
  conflCref,   \* the clause propagate() returned, or 0 (CRef_Undef)
  seen, out_learnt,   \* of analyze(): current-level variables; the rest
  learntLits,  \* the learnt clause, literal 1 is the asserting one
  order_heap,  \* variables the next decision is picked from
  status,      \* "idle", "search", or "stop": search() has an answer
  assumptions, result, model, conflict,
  restarts, reductions,
  limits       \* bounds: restarts and calls of reduceDB in this script

solverVars == <<script, formula, db, clauses, learnts, watches, watchesBin,
                reason, level, wbin, wi, conflCref, seen, out_learnt, learntLits,
                order_heap, status, assumptions, result, model, conflict,
                restarts, reductions, limits>>
apiVars  == <<script, formula, status, assumptions, result, model, conflict>>
dbVars   == <<db, clauses, learnts, watches, watchesBin>>
scanVars == <<wbin, wi, conflCref>>
anaVars  == <<seen, out_learnt, learntLits>>
varVars  == <<reason, level, order_heap>>
cntVars  == <<restarts, reductions, limits>>
allVars  == <<vars, solverVars>>

CRef_Undef == 0
Watcher(cr, blocker) == [cref |-> cr, blocker |-> blocker]

SolverInit ==
  /\ EngineInit
  /\ \E s \in Scripts : script = s.calls /\ limits = s.limits
  /\ formula = {} /\ db = <<>> /\ clauses = {} /\ learnts = {}
  /\ watches = [l \in Lit |-> <<>>] /\ watchesBin = [l \in Lit |-> <<>>]
  /\ reason = [x \in Var |-> CRef_Undef] /\ level = [x \in Var |-> 0]
  /\ wbin = TRUE /\ wi = 1 /\ conflCref = CRef_Undef
  /\ seen = {} /\ out_learnt = {} /\ learntLits = <<>>
  /\ order_heap = Var
  /\ status = "idle" /\ assumptions = <<>> /\ result = "none"
  /\ model = {} /\ conflict = {}
  /\ restarts = 0 /\ reductions = 0

(***************************************************************************)
(* Clauses.                                                                *)
(***************************************************************************)
Binary(c) == Len(c) = 2

\* attachClause.
Push(ws, l, w) == [ws EXCEPT ![l] = Append(@, w)]
Attached(ws, cr, c) ==
  Push(Push(ws, -c[1], Watcher(cr, c[2])), -c[2], Watcher(cr, c[1]))

\* ca.alloc, the push on clauses or learnts, and attachClause.
Alloc(c) ==
  LET cr == Len(db) + 1
  IN /\ db' = Append(db, c)
     /\ watches' = IF Binary(c) THEN watches ELSE Attached(watches, cr, c)
     /\ watchesBin' = IF Binary(c) THEN Attached(watchesBin, cr, c) ELSE watchesBin

\* Variant: the value of the first literal is compared with the wrong sign.
LockedBySign(cr) == IsFalse(db[cr][1]) /\ reason[VarOf(db[cr][1])] = cr

\* removeClause of every clause in S; the lists are cleaned before their next
\* use (cleanAll), so they are cleaned here.  The reason kept by the first
\* literal's variable is cleared if the clause is locked.
Locked(cr) ==
  LET c == db[cr]
      by(l) == IsTrue(l) /\ reason[VarOf(l)] = cr
  IN by(c[1]) \/ (Binary(c) /\ by(c[2]))

\* (Written as a recursive function, and not with SelectSeq, for the proofs.)
Without(S, ws) ==
  LET kept[i \in 0..Len(ws)] ==
        IF i = 0 THEN <<>>
        ELSE IF ws[i].cref \in S THEN kept[i - 1] ELSE Append(kept[i - 1], ws[i])
  IN kept[Len(ws)]

RemoveClauses(S) ==
  LET clean(ws) == [l \in Lit |-> Without(S, ws[l])]
      heads     == {VarOf(db[cr][1]) : cr \in {d \in S : Locked(d)}}
  IN /\ db' = [cr \in DOMAIN db |-> IF cr \in S THEN <<>> ELSE db[cr]]
     /\ clauses' = clauses \ S /\ learnts' = learnts \ S
     /\ watches' = clean(watches) /\ watchesBin' = clean(watchesBin)
     /\ reason' = [x \in Var |-> IF x \in heads THEN CRef_Undef ELSE reason[x]]

\* vardata of a variable that is enqueued, at level lv.
SetVar(l, cr, lv) ==
  /\ reason' = [reason EXCEPT ![VarOf(l)] = cr]
  /\ level' = [level EXCEPT ![VarOf(l)] = lv]
  /\ UNCHANGED order_heap

(***************************************************************************)
(* The calls of a script.                                                  *)
(***************************************************************************)
Idle == status = "idle" /\ pc = "ready" /\ (ok => Fixpoint) /\ script # <<>>
NextCall(op) == Idle /\ Head(script).op = op /\ script' = Tail(script)

\* The argument of addClause; "block" denies the model just found, as
\* CountNumAssignment does (test/TestUtil.cc).
CallLits == IF Head(script).op = "block" THEN {-l : l \in model}
            ELSE ToSet(Head(script).lits)
IsClauseCall ==
  Idle /\ (Head(script).op = "clause" \/ (Head(script).op = "block" /\ result = "l_True"))

\* addClause_: false and repeated literals go, in the order of sort(ps).
LitOrder(a, b) == VarOf(a) < VarOf(b) \/ (VarOf(a) = VarOf(b) /\ a > b)
Kept == {l \in CallLits : ~IsFalse(l)}
Redundant == \E l \in CallLits : IsTrue(l) \/ -l \in CallLits

AddClauseCommon ==
  /\ IsClauseCall
  /\ script' = Tail(script)
  /\ formula' = formula \cup {CallLits}
  /\ UNCHANGED <<status, assumptions, result, model, conflict, scanVars, anaVars,
                 cntVars>>

AddRedundantClause ==
  /\ AddClauseCommon
  /\ ~ok \/ Redundant
  /\ UNCHANGED <<vars, dbVars, varVars>>

AddEmptyClause ==
  /\ AddClauseCommon
  /\ ok /\ ~Redundant /\ Kept = {}
  /\ AddEmpty
  /\ UNCHANGED <<engineVars, dbVars, varVars>>

AddUnitClause ==
  /\ AddClauseCommon
  /\ ok /\ ~Redundant
  /\ \E l \in Kept : /\ Kept = {l}
                     /\ EAddUnit(l)
                     /\ SetVar(l, CRef_Undef, 0)
  /\ UNCHANGED dbVars

AddLongClause ==
  /\ AddClauseCommon
  /\ ok /\ ~Redundant /\ Cardinality(Kept) > 1
  /\ \E c \in SetToSeqs(Kept) : /\ \A i \in 2..Len(c) : LitOrder(c[i - 1], c[i])
                               /\ Alloc(c)
  /\ clauses' = clauses \cup {Len(db) + 1}
  /\ UNCHANGED <<vars, learnts, varVars>>

\* A "block" call with no model to deny ends the script, as the test does.
EndScript ==
  /\ Idle /\ Head(script).op = "block" /\ result # "l_True"
  /\ script' = <<>>
  /\ UNCHANGED <<vars, formula, status, assumptions, result, model, conflict,
                 dbVars, varVars, scanVars, anaVars, cntVars>>

\* Nothing is left to call.
Finished == script = <<>> /\ status = "idle" /\ UNCHANGED allVars

SAddConstraint ==
  /\ NextCall("constraint")
  /\ IF ok THEN EAddConstraint ELSE UNCHANGED vars
  /\ UNCHANGED <<formula, status, assumptions, result, model, conflict, dbVars,
                 varVars, scanVars, anaVars, cntVars>>

\* solve, and solve_ up to its first call of search().
Solve ==
  /\ NextCall("solve")
  /\ assumptions' = Head(script).assumptions
  /\ model' = {} /\ conflict' = {}
  /\ status' = IF ok THEN "search" ELSE "idle"
  /\ result' = IF ok THEN "none" ELSE "l_False"
  /\ UNCHANGED <<vars, formula, dbVars, varVars, scanVars, anaVars, cntVars>>

\* Variant: the scan starts with the lists of longer clauses.
DequeueSkipsBinary ==
  /\ Dequeue
  /\ wbin' = FALSE /\ wi' = 1
  /\ UNCHANGED <<engineVars, apiVars, dbVars, varVars, conflCref, anaVars, cntVars>>

(***************************************************************************)
(* propagate() on the clauses watching trail[at].                          *)
(***************************************************************************)
SDequeue ==
  /\ Dequeue
  /\ wbin' = TRUE /\ wi' = 1
  /\ UNCHANGED <<engineVars, apiVars, dbVars, varVars, conflCref, anaVars, cntVars>>

Scanned == IF wbin THEN watchesBin[trail[at]] ELSE watches[trail[at]]
Scanning == pc = "clauses" /\ wi <= Len(Scanned)
W == Scanned[wi]

ImplyFrom(cr, l) == EImplyByClause(l) /\ SetVar(l, cr, decisionLevel)

SClauseConflict(cr) ==
  /\ ClauseConflict /\ UNCHANGED engineVars
  /\ conflCref' = cr

ScanBinary ==
  /\ Scanning /\ wbin
  /\ \/ /\ IsTrue(W.blocker)
        /\ wi' = wi + 1
        /\ UNCHANGED <<vars, varVars, conflCref>>
     \/ /\ IsUndef(W.blocker)
        /\ ImplyFrom(W.cref, W.blocker)
        /\ wi' = wi + 1
        /\ UNCHANGED conflCref
     \/ /\ IsFalse(W.blocker)
        /\ SClauseConflict(W.cref)
        /\ UNCHANGED <<wi, varVars>>
  /\ UNCHANGED <<apiVars, dbVars, wbin, anaVars, cntVars>>

\* The clause of W with the false literal ~p in second place.
Turned ==
  LET c == db[W.cref]
  IN IF c[1] = -trail[at] THEN <<c[2], c[1]>> \o SubSeq(c, 3, Len(c)) ELSE c
NewWatches == {k \in 3..Len(Turned) : ~IsFalse(Turned[k])}
SetBlocker(l) == [watches EXCEPT ![trail[at]][wi] = Watcher(W.cref, l)]

\* The watcher needs no look at the clause, or the other watched literal is true.
ScanSatisfied ==
  /\ Scanning /\ ~wbin
  /\ \/ IsTrue(W.blocker) /\ UNCHANGED <<db, watches>>
     \/ /\ ~IsTrue(W.blocker) /\ IsTrue(Turned[1])
        /\ db' = [db EXCEPT ![W.cref] = Turned]
        /\ watches' = SetBlocker(Turned[1])
  /\ wi' = wi + 1
  /\ UNCHANGED <<vars, apiVars, clauses, learnts, watchesBin, varVars, wbin,
                 conflCref, anaVars, cntVars>>

ScanVisit == Scanning /\ ~wbin /\ ~IsTrue(W.blocker) /\ ~IsTrue(Turned[1])

\* Variant: the watcher is copied to its new list, but not removed.
ScanCopies ==
  /\ ScanVisit /\ NewWatches # {}
  /\ LET k == Min(NewWatches)
         c == [Turned EXCEPT ![2] = Turned[k], ![k] = Turned[2]]
     IN /\ db' = [db EXCEPT ![W.cref] = c]
        /\ watches' = Push(watches, -c[2], Watcher(W.cref, c[1]))
  /\ wi' = wi + 1
  /\ UNCHANGED <<vars, apiVars, clauses, learnts, watchesBin, varVars, wbin,
                 conflCref, anaVars, cntVars>>

\* Another literal is not false: it is watched instead of ~p.
ScanMove ==
  /\ ScanVisit /\ NewWatches # {}
  /\ LET k == Min(NewWatches)
         c == [Turned EXCEPT ![2] = Turned[k], ![k] = Turned[2]]
     IN /\ db' = [db EXCEPT ![W.cref] = c]
        /\ watches' = Push([watches EXCEPT ![trail[at]] = RemoveAt(@, wi)], -c[2],
                           Watcher(W.cref, c[1]))
  /\ UNCHANGED <<vars, apiVars, clauses, learnts, watchesBin, varVars, scanVars,
                 anaVars, cntVars>>

ScanUnitOrFalse ==
  /\ ScanVisit /\ NewWatches = {}
  /\ db' = [db EXCEPT ![W.cref] = Turned]
  /\ watches' = SetBlocker(Turned[1])
  /\ \/ /\ IsUndef(Turned[1])
        /\ ImplyFrom(W.cref, Turned[1])
        /\ wi' = wi + 1
        /\ UNCHANGED conflCref
     \/ /\ IsFalse(Turned[1])
        /\ SClauseConflict(W.cref)
        /\ UNCHANGED <<wi, varVars>>
  /\ UNCHANGED <<apiVars, clauses, learnts, watchesBin, wbin, anaVars, cntVars>>

ScanNextList ==
  /\ pc = "clauses" /\ wi > Len(Scanned)
  /\ IF wbin THEN UNCHANGED vars ELSE ClausesDone /\ UNCHANGED engineVars
  /\ wbin' = ~wbin /\ wi' = 1
  /\ UNCHANGED <<apiVars, dbVars, varVars, conflCref, anaVars, cntVars>>

\* The steps in which the solver only runs the loop over the constraints.
SEngineStep ==
  /\ \/ EInitialized \/ EReturnTrue \/ EReturnFalse
     \/ \E c \in Constr : ECall(c)
     \/ (CallsDone \/ Drain \/ DrainDone) /\ UNCHANGED engineVars
  /\ UNCHANGED solverVars

SEnqueue ==
  /\ EEnqueue
  /\ SetVar(Head(enq), CRef_Undef, decisionLevel)
  /\ UNCHANGED <<apiVars, dbVars, scanVars, anaVars, cntVars>>

(***************************************************************************)
(* search() at a fixpoint.                                                 *)
(***************************************************************************)
Searching == status = "search" /\ Fixpoint

\* search() returns a value, and solve_ then goes back to level 0.
Stop(value) ==
  /\ status' = "stop" /\ result' = value
  /\ IF decisionLevel = 0 THEN UNCHANGED trailVars ELSE StartCancel(0)
  /\ UNCHANGED <<script, formula, assumptions, engineVars, dbVars, reason, level,
                 scanVars, anaVars>>

\* The other calls of cancelUntil(0): a restart, and adaptSolver(), for which
\* search() drops a conflict.
Restart ==
  /\ status = "search" /\ restarts < limits.restarts
  /\ StartCancel(0)
  /\ restarts' = restarts + 1
  /\ UNCHANGED <<engineVars, apiVars, dbVars, varVars, scanVars, anaVars, reductions, limits>>

\* A restart after which withinBudget() fails: solveLimited gives up.
GiveUp ==
  /\ Searching /\ restarts < limits.restarts
  /\ Stop("l_Undef")
  /\ restarts' = restarts + 1
  /\ UNCHANGED <<model, conflict, reductions, limits, order_heap>>

\* simplify(): clauses satisfied at level 0 go, and the heap is rebuilt.
Satisfied(cr) == \E i \in DOMAIN db[cr] : IsTrue(db[cr][i])
Simplify ==
  /\ Searching /\ decisionLevel = 0
  /\ LET S == {cr \in clauses \cup learnts : Satisfied(cr)}
     IN RemoveClauses(S)
  /\ order_heap' = {x \in Var : IsUndef(x)}
  /\ UNCHANGED <<vars, apiVars, level, scanVars, anaVars, cntVars>>

\* reduceDB(): learnt clauses go, but no binary one and no reason.
ReduceDB ==
  /\ Searching /\ reductions < limits.reductions
  /\ \E S \in SUBSET {cr \in learnts : ~Binary(db[cr]) /\ ~Locked(cr)} :
       S # {} /\ RemoveClauses(S)
  /\ reductions' = reductions + 1
  /\ UNCHANGED <<vars, apiVars, level, order_heap, scanVars, anaVars, restarts, limits>>

\* adaptSolver(), after its cancelUntil(0): depending on how search has gone
\* so far, learnt clauses of the better sort become permanent and the rest may
\* go, reasons and binary ones too.
AdaptSolver ==
  /\ Searching /\ decisionLevel = 0 /\ restarts > 0 /\ reductions < limits.reductions
  /\ \E S \in SUBSET learnts : S # {} /\ RemoveClauses(S)
  /\ reductions' = reductions + 1
  /\ UNCHANGED <<vars, apiVars, level, order_heap, scanVars, anaVars, restarts, limits>>

NextAssumption == assumptions[decisionLevel + 1]
Assuming == Searching /\ decisionLevel < Len(assumptions)

AssumeHeld ==
  /\ Assuming /\ IsTrue(NextAssumption)
  /\ DummyLevel
  /\ UNCHANGED <<engineVars, solverVars>>

Assume ==
  /\ Assuming /\ IsUndef(NextAssumption)
  /\ EDecide(NextAssumption)
  /\ SetVar(NextAssumption, CRef_Undef, decisionLevel + 1)
  /\ UNCHANGED <<apiVars, dbVars, scanVars, anaVars, cntVars>>

\* Variant: binary clauses are read like the others.
AfterFirstAlways(c) == ToSet(Tail(c))

\* analyzeFinal(p): from the negation of a false assumption back to literals
\* without a clause as reason.  A binary reason is read from its first
\* literal on, a longer one from its second.
AfterFirst(c) == IF Binary(c) THEN ToSet(c) ELSE ToSet(Tail(c))
analyzeFinal(p) ==
  LET first == trail_lim[1] + 1
      marked[i \in first..(Len(trail) + 1)] ==  \* seen[] before trail[i - 1] is visited
        IF i = Len(trail) + 1 THEN {VarOf(p)}
        ELSE LET x == VarOf(trail[i])
                 S == marked[i + 1]
             IN IF x \notin S THEN S
                ELSE (S \cup IF reason[x] = CRef_Undef THEN {}
                             ELSE {VarOf(q) : q \in {r \in AfterFirst(db[reason[x]]) :
                                                       level[VarOf(r)] > 0}}) \ {x}
      visited(i) == VarOf(trail[i]) \in marked[i + 1]
  IN {p} \cup IF decisionLevel = 0 THEN {}
              ELSE {-trail[i] : i \in {j \in first..Len(trail) :
                      visited(j) /\ reason[VarOf(trail[j])] = CRef_Undef}}

\* Variant: analyzeFinal is given the assumption and not its negation.
AssumeFailedUnnegated ==
  /\ Assuming /\ IsFalse(NextAssumption)
  /\ conflict' = analyzeFinal(NextAssumption)
  /\ Stop("l_False")
  /\ UNCHANGED <<model, order_heap, cntVars>>

AssumeFailed ==
  /\ Assuming /\ IsFalse(NextAssumption)
  /\ conflict' = analyzeFinal(-NextAssumption)
  /\ Stop("l_False")
  /\ UNCHANGED <<model, order_heap, cntVars>>

\* pickBranchLit and the decision.  On the way to an unassigned variable the
\* heap loses the assigned ones it yields first: here, at worst, all it holds.
PickBranch ==
  /\ Searching /\ decisionLevel >= Len(assumptions)
  /\ \E x \in order_heap : \E l \in {x, -x} :
       /\ EDecide(l)
       /\ reason' = [reason EXCEPT ![x] = CRef_Undef]
       /\ level' = [level EXCEPT ![x] = decisionLevel + 1]
       /\ order_heap' = {y \in order_heap : IsUndef(y)} \ {x}
  /\ UNCHANGED <<apiVars, dbVars, scanVars, anaVars, cntVars>>

ModelFound ==
  /\ Searching /\ decisionLevel >= Len(assumptions)
  /\ \A x \in order_heap : ~IsUndef(x)
  /\ model' = assigns /\ order_heap' = {}
  /\ Stop("l_True")
  /\ UNCHANGED <<conflict, cntVars>>

\* solve_ returns once cancelUntil(0) has.
Return ==
  /\ status = "stop" /\ Fixpoint
  /\ status' = "idle"
  /\ UNCHANGED <<vars, script, formula, assumptions, result, model, conflict,
                 dbVars, varVars, scanVars, anaVars, cntVars>>

(***************************************************************************)
(* A conflict.                                                             *)
(***************************************************************************)
\* At level 0 the problem is unsatisfiable, whoever called propagate().
SConflictAtRoot ==
  /\ ConflictAtRoot
  /\ status' = "idle"
  /\ result' = IF status = "search" THEN "l_False" ELSE result
  /\ UNCHANGED <<script, formula, assumptions, model, conflict, engineVars,
                 dbVars, varVars, scanVars, anaVars, cntVars>>

CurrentLevel(x) == level[x] >= decisionLevel

\* seen[] is set for the literals of a reason above level 0; those below the
\* current level go to out_learnt.
Resolve(R, S) ==
  LET new == {VarOf(q) : q \in R} \ S
      up  == {x \in new : level[x] > 0}
  IN /\ seen' = S \cup up
     /\ out_learnt' = out_learnt \cup
          {-q : q \in {r \in R : VarOf(r) \in up /\ ~CurrentLevel(VarOf(r))}}

SStartAnalyze ==
  /\ StartAnalyze
  /\ Resolve(IF confl # 0
             THEN ReasonOf(Problem[confl], cs[confl], lit_Undef, enqueue_failure)
             ELSE {-q : q \in ToSet(db[conflCref])}, {})
  /\ UNCHANGED <<engineVars, apiVars, dbVars, varVars, scanVars, learntLits, cntVars>>

\* pathC counts the variables of the current level still to be resolved.
pathC(S) == Cardinality({x \in S : CurrentLevel(x)})

\* `The first one has to be SAT': propagate() leaves binary clauses as they are.
TrueFirst(cr) ==
  IF cr = CRef_Undef THEN db
  ELSE LET c == db[cr]
       IN IF Binary(c) /\ IsFalse(c[1]) THEN [db EXCEPT ![cr] = <<c[2], c[1]>>] ELSE db

\* The literals implying p, all but the first one, which is p.
ClauseReason(cr, p) ==
  {-q : q \in IF Binary(db[cr]) THEN ToSet(db[cr]) \ {p} ELSE ToSet(Tail(db[cr]))}

SAnalyzeUndo ==
  LET p == trail[index]
      x == VarOf(p)
      S == seen \ {x}
      k == Problem[nc_reason[x]]
  IN /\ EAnalyzeUndo /\ pathC(seen) > 0
     /\ IF x \in seen /\ pathC(S) > 0
        THEN Resolve(IF nc_reason[x] # 0
                     THEN ReasonOf(k, cs'[nc_reason[x]], p, lit_Undef)
                     ELSE ClauseReason(reason[x], p), S)
             /\ db' = TrueFirst(reason[x])
        ELSE seen' = S /\ UNCHANGED <<out_learnt, db>>
     /\ UNCHANGED <<apiVars, clauses, learnts, watches, watchesBin, varVars,
                    scanVars, learntLits, cntVars>>

\* litRedundant: following clauses as reasons, from a literal one only comes
\* to literals of the clause or of level 0, within the levels of the clause.
\* Here, the variables of which that is so, found from the bottom of the trail.
\* (It too puts the true literal of a binary clause first; only removeClause
\* and analyze(), after doing the same, read that order.)
litRedundant ==
  LET levels == {level[VarOf(q)] : q \in out_learnt}
      redundant[i \in 0..Len(trail)] ==
        IF i = 0 THEN {}
        ELSE LET x == VarOf(trail[i])
                 S == redundant[i - 1]
                 implied(y) == level[y] = 0 \/ y \in seen \/ (level[y] \in levels /\ y \in S)
             IN IF /\ level[x] > 0 /\ reason[x] # CRef_Undef
                   /\ \A q \in ClauseReason(reason[x], trail[i]) : implied(VarOf(q))
                THEN S \cup {x} ELSE S
  IN redundant[Len(trail)]

\* Variant: every literal with a reason is taken for redundant.
MinimizedAll == {q \in out_learnt : reason[VarOf(q)] = CRef_Undef}

Minimized == {q \in out_learnt : VarOf(q) \notin litRedundant}

\* minimisationWithBinaryResolution: a binary clause of the asserting literal
\* with the negation of q removes q.
BinaryMinimized(lit0, S) ==
  {q \in S : \A i \in DOMAIN watchesBin[-lit0] : watchesBin[-lit0][i].blocker # -q}

\* What may be left of the literals behind lit0: that step is for clauses that
\* are short and of few levels, and not for an incremental solver.
Shortened(lit0) == {Minimized, BinaryMinimized(lit0, Minimized)}

\* Variant: the lowest level instead.
LowestOf(S) == {q \in S : \A r \in S : level[VarOf(r)] >= level[VarOf(q)]}

\* The candidates for the second place.
HighestOf(S) == {q \in S : \A r \in S : level[VarOf(r)] <= level[VarOf(q)]}

\* The literals of S, in the order out_learnt happens to have them.
Listed(S) == CHOOSE c \in SetToSeqs(S) : TRUE

\* The end of analyze(): the clause with the asserting literal first and one
\* of the highest level second, and the level to go back to.
SAnalyzeDone ==
  LET lit0 == -trail[index + 1]
      lit1(rest) == CHOOSE q \in HighestOf(rest) : TRUE
  IN /\ pc = "analyze" /\ pathC(seen) = 0
     /\ \E rest \in Shortened(lit0) :
          IF rest = {}
          THEN AnalyzeDone(0) /\ learntLits' = <<lit0>>
          ELSE /\ AnalyzeDone(level[VarOf(lit1(rest))])
               /\ learntLits' = <<lit0, lit1(rest)>> \o Listed(rest \ {lit1(rest)})
     /\ seen' = {} /\ out_learnt' = {}
     /\ UNCHANGED <<engineVars, apiVars, dbVars, varVars, scanVars, cntVars>>

\* Variant: insertVarOrder is left out.
CancelWithoutHeap ==
  /\ ECancel
  /\ UNCHANGED <<apiVars, dbVars, varVars, scanVars, anaVars, cntVars>>

\* cancelUntil, one entry: insertVarOrder puts the variable back in the heap.
SCancel ==
  /\ ECancel
  /\ order_heap' = order_heap \cup {VarOf(trail[Len(trail)])}
  /\ UNCHANGED <<apiVars, dbVars, reason, level, scanVars, anaVars, cntVars>>

SCancelDone ==
  /\ ECancelDone
  /\ conflCref' = CRef_Undef
  /\ UNCHANGED <<apiVars, dbVars, varVars, wbin, wi, anaVars, cntVars>>

\* Variant: the learnt clause is pushed on both vectors.
LearnTwice ==
  /\ ELearn
  /\ IF Len(learntLits) = 1
     THEN UNCHANGED dbVars /\ SetVar(learnt, CRef_Undef, decisionLevel)
     ELSE /\ Alloc(learntLits)
          /\ learnts' = learnts \cup {Len(db) + 1}
          /\ clauses' = clauses \cup {Len(db) + 1}
          /\ SetVar(learnt, Len(db) + 1, decisionLevel)
  /\ learntLits' = <<>>
  /\ UNCHANGED <<apiVars, scanVars, seen, out_learnt, cntVars>>

SLearn ==
  /\ ELearn
  /\ IF Len(learntLits) = 1
     THEN UNCHANGED dbVars /\ SetVar(learnt, CRef_Undef, decisionLevel)
     ELSE /\ Alloc(learntLits)
          /\ learnts' = learnts \cup {Len(db) + 1}
          /\ UNCHANGED clauses
          /\ SetVar(learnt, Len(db) + 1, decisionLevel)
  /\ learntLits' = <<>>
  /\ UNCHANGED <<apiVars, scanVars, seen, out_learnt, cntVars>>

SearchStep ==
  \/ SDequeue \/ ScanBinary \/ ScanSatisfied \/ ScanMove \/ ScanUnitOrFalse
  \/ ScanNextList \/ SEngineStep \/ SEnqueue
  \/ Restart \/ GiveUp \/ Simplify \/ ReduceDB \/ AdaptSolver
  \/ AssumeHeld \/ Assume \/ AssumeFailed \/ PickBranch \/ ModelFound \/ Return
  \/ SConflictAtRoot \/ SStartAnalyze \/ SAnalyzeUndo \/ SAnalyzeDone
  \/ SCancel \/ SCancelDone \/ SLearn

SolverNext ==
  \/ SearchStep
  \/ AddRedundantClause \/ AddEmptyClause \/ AddUnitClause \/ AddLongClause
  \/ SAddConstraint \/ Solve \/ EndScript \/ Finished

\* One thread runs solve() to its end.  (Weak fairness of SearchStep, which is
\* enabled whenever status is "search".)
Fairness == []<>(status # "search") \/ []<><<SearchStep>>_allVars

SolverSpec == SolverInit /\ [][SolverNext]_allVars /\ Fairness
-----------------------------------------------------------------------------
SolverTypeOK ==
  /\ EngineTypeOK
  /\ formula \in SUBSET SUBSET Lit
  /\ DOMAIN db = 1..Len(db) /\ \A cr \in DOMAIN db : ToSet(db[cr]) \subseteq Lit
  /\ clauses \cup learnts \subseteq DOMAIN db /\ clauses \cap learnts = {}
  /\ reason \in [Var -> 0..Len(db)] /\ level \in [Var -> Nat]
  /\ seen \subseteq Var /\ out_learnt \subseteq Lit /\ order_heap \subseteq Var
  /\ status \in {"idle", "search", "stop"}
  /\ result \in {"none", "l_True", "l_False", "l_Undef"}
  /\ model \subseteq Lit /\ conflict \subseteq Lit

MeetsConstraint(A, c) == A \in Meeting[c]
Sat == INSTANCE IncrementalSat WITH
         Total <- TotalAssignments, Meets <- MeetsConstraint,
         constraints <- Added, asked <- ToSet(assumptions),
         busy <- status = "search", answer <- result

\* Solver implements IncrementalSat: every answer of solve(), whatever calls
\* came before it, is right for what has been added and assumed so far, an
\* unsatisfiable core included.
AnswersAreRight == Sat!Spec

\* solve() returns, whatever it decides: no sequence of conflicts is endless,
\* and analyze() and propagate() never get stuck.
SolveReturns == Sat!Answered

\* What the solver believes at any moment follows from the problem alone:
\* every clause in the database and the one about to be learnt, every literal
\* fixed at level 0, and `ok'.
EverythingFollows ==
  \A A \in Sat!Models :
    /\ ok
    /\ \A cr \in clauses \cup learnts : ToSet(db[cr]) \cap A # {}
    /\ learntLits # <<>> => ToSet(learntLits) \cap A # {}
    /\ \A i \in 1..(IF trail_lim = <<>> THEN Len(trail) ELSE trail_lim[1]) : trail[i] \in A

\* Each clause of more than two literals is watched once by the negation of
\* its first two literals and nowhere else, and a removed one nowhere.
WatchedTwice ==
  \A cr \in DOMAIN db, l \in Lit :
    Cardinality({i \in DOMAIN watches[l] : watches[l][i].cref = cr})
      = IF Len(db[cr]) > 2 /\ -l \in {db[cr][1], db[cr][2]} THEN 1 ELSE 0

\* When search() goes on to decide, no clause is false or has all but one
\* literal false and that one unassigned: no watch was lost while the clause
\* was passed from list to list, learnt, or brought back by cancelUntil.
ClausesPropagated ==
  Fixpoint =>
    \A cr \in clauses \cup learnts :
      \/ Satisfied(cr)
      \/ Cardinality({i \in DOMAIN db[cr] : IsUndef(db[cr][i])}) > 1

\* The reason of a literal implied above level 0 is a clause not yet freed,
\* with that literal and otherwise ones false before it was implied; it comes
\* first if the clause has more than two (analyze() skips the first, and
\* propagate() may not move it).  And each variable analyze() resolves on, of
\* the current level and not the last one, has a reason (Solver.cc:801).
ReasonsStand ==
  /\ \A i \in DOMAIN trail :
       LET cr == reason[VarOf(trail[i])]
           c  == db[cr]
       IN (trail_lim # <<>> /\ i > trail_lim[1] /\ cr # CRef_Undef) =>
            /\ trail[i] \in ToSet(c)
            /\ ~Binary(c) => c[1] = trail[i]
            /\ ToSet(c) \ {trail[i]} \subseteq {-trail[j] : j \in 1..(i - 1)}
  /\ (pc = "analyze" /\ pathC(seen) > 1) =>
       LET i == CHOOSE j \in 1..index : /\ VarOf(trail[j]) \in seen
                                       /\ \A m \in (j + 1)..index : VarOf(trail[m]) \notin seen
           x == VarOf(trail[i])
       IN reason[x] # CRef_Undef \/ nc_reason[x] # 0

\* No unassigned variable is missing from the heap pickBranchLit draws from,
\* or a "model" would leave it open.
HeapComplete == pc = "ready" => \A x \in Var : IsUndef(x) => x \in order_heap

\* Solver.cc:784-787, at the moment the learnt clause is attached: its first
\* literal is asserted at this level, the others are false, and the second
\* has the greatest level of them.
LearntIsAsserting ==
  pc = "learn" =>
    /\ learntLits[1] = learnt
    /\ \A i \in 2..Len(learntLits) : IsFalse(learntLits[i])
    /\ IF Len(learntLits) = 1 THEN decisionLevel = 0
       ELSE level[VarOf(learntLits[2])] = decisionLevel

\* The negations of literals of the final conflict are assumptions
\* (Solver.cc:1087, Solver.h:204).
ConflictIsAssumptions == conflict \subseteq {-a : a \in ToSet(assumptions)}
=============================================================================
