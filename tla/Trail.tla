------------------------------- MODULE Trail -------------------------------
(***************************************************************************)
(* The protocol between Glucose's Solver and its non-clause constraints    *)
(* (core/Solver.cc, core/Constraint.h): the trail, the propagation queue,  *)
(* the num_pending_propagation_ counters by which a constraint knows       *)
(* whether it may postpone its work, and the undo lists by which it is     *)
(* told to forget an assignment.                                           *)
(*                                                                         *)
(* Clauses are abstracted here: scanning the watch lists of a literal may  *)
(* imply any unassigned literals and may find a conflict.  So is what a    *)
(* constraint computes: its propagate() may enqueue any unassigned         *)
(* literals and may return false.  Modules ConstraintEngine and Solver     *)
(* refine both.  Literals are DIMACS numbers: ~p is -p.                    *)
(***************************************************************************)
EXTENDS Integers, Sequences, FiniteSets

CONSTANTS
  NVars,    \* number of variables, all made by newVar before the constraints
  NConstr,  \* number of constraints addConstraint is called with
  MaxLevel, \* bound: no dummy decision level is opened from this level on
  Watch     \* Watch[c]: the literals constraint c passes to addWatch

Var    == 1..NVars
Lit    == (-NVars..NVars) \ {0}
Constr == 1..NConstr
lit_Undef == 0
VarOf(l)  == IF l < 0 THEN -l ELSE l

ASSUME TrailAssumption == /\ NVars \in Nat
                          /\ NConstr \in Nat
                          /\ MaxLevel \in Nat
                          /\ Watch \in [Constr -> SUBSET Lit]

VARIABLES
  ok,         \* FALSE once the problem is unsatisfiable at level 0
  nconstr,    \* constraints.size(): constraints 1..nconstr have been added
  assigns,    \* the true literals: l_True, l_False, l_Undef of value(p)
  trail,      \* the assigned literals in order
  trail_lim,  \* trail.size() at each decision
  qhead,      \* trail[1..qhead] has been dequeued
  pend,       \* num_pending_propagation_ of each constraint
  undo,       \* undoLists[x] as a multiset: undo[x][c] entries for c
  told,       \* calls propagate(l) of c not yet matched by a call undo(l)
  fullAt,     \* trail indices at which c was called with nothing pending
  pc,         \* the point reached in search() and propagate()
  at,         \* trail index of the literal propagate() works on
  todo,       \* watchers of that literal not yet called
  index,      \* `index' of analyze(): trail entries above it are undone
  target,     \* `level' of the running cancelUntil(level)
  learnt      \* literal to enqueue when cancelUntil ends, or lit_Undef

trailVars == <<ok, nconstr, assigns, trail, trail_lim, qhead, pend, undo,
               told, fullAt, pc, at, todo, index, target, learnt>>

(***************************************************************************)
(* pc: "ready"    outside propagate(), or at the head of its while loop    *)
(*     "init"     inside Constraint::initialize of constraint nconstr      *)
(*     "clauses"  scanning the clause watchers of trail[at]                *)
(*     "constr"   in the loop over the constraints watching trail[at]      *)
(*     "called"   inside Constraint::propagate of one of them              *)
(*     "drain"    conflict found, emptying the queue                       *)
(*     "conflict" propagate() has returned a conflict                      *)
(*     "analyze"  inside analyze()                                         *)
(*     "cancel"   inside cancelUntil(target)                               *)
(*     "learn"    about to enqueue the asserting literal                   *)
(***************************************************************************)
PC == {"ready", "init", "clauses", "constr", "called", "drain", "conflict",
       "analyze", "cancel", "learn"}

decisionLevel == Len(trail_lim)
IsTrue(l)  == l \in assigns
IsFalse(l) == -l \in assigns
\* Variant: an assigned variable is taken for an unassigned one.
NotTrue(l) == ~IsTrue(l)

IsUndef(l) == l \in Lit /\ ~IsTrue(l) /\ ~IsFalse(l)
Added      == 1..nconstr
Watchers(l) == {c \in Added : l \in Watch[c]}   \* constr_watches[l]

\* propagate() has returned without a conflict, and search() is back in charge.
Fixpoint == pc = "ready" /\ ok /\ qhead = Len(trail)

NoEntries == [c \in Constr |-> 0]
NoCalls   == [l \in Lit |-> 0]

Init ==
  /\ ok = TRUE /\ nconstr = 0
  /\ assigns = {} /\ trail = <<>> /\ trail_lim = <<>> /\ qhead = 0
  /\ pend = NoEntries
  /\ undo = [x \in Var |-> NoEntries]
  /\ told = [c \in Constr |-> NoCalls]
  /\ fullAt = [c \in Constr |-> {}]
  /\ pc = "ready" /\ at = 0 /\ todo = {} /\ index = 0 /\ target = 0
  /\ learnt = lit_Undef

(***************************************************************************)
(* enqueue and uncheckedEnqueue on an unassigned literal, and              *)
(* addNumPendingPropagation on all the watchers of l.                      *)
(***************************************************************************)
AddNumPending(S, inc) ==
  pend' = [c \in Constr |-> IF c \in S THEN pend[c] + inc ELSE pend[c]]

Enqueue(l) ==
  /\ assigns' = assigns \cup {l}
  /\ trail' = Append(trail, l)
  /\ AddNumPending(Watchers(l), 1)

\* Variant: the entries of undoLists[x] are not popped.
UndoKeepsEntries(i) ==
  LET p == trail[i]
  IN /\ undo' = undo
     /\ told' = [c \in Constr |-> [told[c] EXCEPT ![p] = @ - undo[VarOf(p)][c]]]
     /\ fullAt' = [c \in Constr |-> fullAt[c] \ {i}]

\* `while (undoLists[x].size() > 0)': trail[i] is forgotten by whoever is listed.
UndoEntry(i) ==
  LET p == trail[i]
      x == VarOf(p)
  IN /\ undo' = [undo EXCEPT ![x] = NoEntries]
     /\ told' = [c \in Constr |->
                   [told[c] EXCEPT ![p] = @ - undo[x][c]]]
     /\ fullAt' = [c \in Constr |-> fullAt[c] \ {i}]

(***************************************************************************)
(* The public interface at level 0.                                        *)
(***************************************************************************)
\* addClause_ with no literal left after the false ones are removed.
AddEmpty ==
  /\ Fixpoint /\ decisionLevel = 0
  /\ ok' = FALSE
  /\ UNCHANGED <<nconstr, assigns, trail, trail_lim, qhead, pend, undo, told,
                 fullAt, pc, at, todo, index, target, learnt>>

\* addClause_ with one literal left.
AddUnit(l) ==
  /\ Fixpoint /\ decisionLevel = 0 /\ IsUndef(l)
  /\ Enqueue(l)
  /\ UNCHANGED <<ok, nconstr, trail_lim, qhead, undo, told, fullAt, pc, at,
                 todo, index, target, learnt>>

\* addConstraint, up to the enqueues of initialize(): the watches are
\* registered and propagate() is called on each watched literal already true.
AddConstraint ==
  LET c == nconstr + 1
      T == Watch[c] \cap assigns
  IN /\ Fixpoint /\ decisionLevel = 0 /\ c \in Constr
     /\ nconstr' = c
     /\ told' = [told EXCEPT ![c] = [l \in Lit |-> IF l \in T THEN 1 ELSE 0]]
     /\ undo' = [x \in Var |->
                  [undo[x] EXCEPT ![c] = IF x \in T \/ -x \in T THEN 1 ELSE 0]]
     /\ fullAt' = [fullAt EXCEPT ![c] = {i \in DOMAIN trail : trail[i] \in T}]
     /\ pc' = "init"
     /\ UNCHANGED <<ok, assigns, trail, trail_lim, qhead, pend, at, todo,
                    index, target, learnt>>

\* initialize() returns true or false; addConstraint then calls propagate().
Initialized(res) ==
  /\ pc = "init"
  /\ ok' = res
  /\ pc' = "ready"
  /\ UNCHANGED <<nconstr, assigns, trail, trail_lim, qhead, pend, undo, told,
                 fullAt, at, todo, index, target, learnt>>

(***************************************************************************)
(* search(): decisions, and the restarts and returns that go to a lower    *)
(* level without a conflict.                                               *)
(***************************************************************************)
Decide(l) ==
  /\ Fixpoint /\ IsUndef(l)
  /\ trail_lim' = Append(trail_lim, Len(trail))
  /\ Enqueue(l)
  /\ UNCHANGED <<ok, nconstr, qhead, undo, told, fullAt, pc, at, todo, index,
                 target, learnt>>

\* An assumption that already holds opens a level with no decision in it.
DummyLevel ==
  /\ Fixpoint /\ decisionLevel < MaxLevel
  /\ trail_lim' = Append(trail_lim, Len(trail))
  /\ UNCHANGED <<ok, nconstr, assigns, trail, qhead, pend, undo, told, fullAt,
                 pc, at, todo, index, target, learnt>>

StartCancel(level) ==
  /\ Fixpoint \/ pc = "conflict"
  /\ level \in Nat /\ level < decisionLevel
  /\ target' = level /\ learnt' = lit_Undef /\ pc' = "cancel"
  /\ index' = Len(trail)
  /\ UNCHANGED <<ok, nconstr, assigns, trail, trail_lim, qhead, pend, undo,
                 told, fullAt, at, todo>>

(***************************************************************************)
(* propagate().                                                            *)
(***************************************************************************)
Dequeue ==
  /\ pc = "ready" /\ ok /\ qhead < Len(trail)
  /\ qhead' = qhead + 1
  /\ at' = qhead + 1
  /\ todo' = Watchers(trail[qhead + 1])
  /\ pc' = "clauses"
  /\ UNCHANGED <<ok, nconstr, assigns, trail, trail_lim, pend, undo, told,
                 fullAt, index, target, learnt>>

\* A literal implied by a clause or by a constraint's initialize or propagate.
Imply(l) ==
  /\ pc \in {"init", "clauses", "called"} /\ IsUndef(l)
  /\ Enqueue(l)
  /\ UNCHANGED <<ok, nconstr, trail_lim, qhead, undo, told, fullAt, pc, at,
                 todo, index, target, learnt>>

\* Variant: the constraints watching the literal keep it pending.
ConflictKeepsPending ==
  /\ pc = "clauses"
  /\ pc' = "drain"
  /\ UNCHANGED <<ok, nconstr, assigns, trail, trail_lim, qhead, pend, undo, told,
                 fullAt, at, todo, index, target, learnt>>

\* A clause is false: no constraint will be called on this literal.
ClauseConflict ==
  /\ pc = "clauses"
  /\ AddNumPending(Watchers(trail[at]), -1)
  /\ pc' = "drain"
  /\ UNCHANGED <<ok, nconstr, assigns, trail, trail_lim, qhead, undo, told,
                 fullAt, at, todo, index, target, learnt>>

ClausesDone ==
  /\ pc = "clauses"
  /\ pc' = "constr"
  /\ UNCHANGED <<ok, nconstr, assigns, trail, trail_lim, qhead, pend, undo,
                 told, fullAt, at, todo, index, target, learnt>>

\* Variant: num_pending_propagation_ is decremented after the call.
CallThenCount(c) ==
  LET p == trail[at]
  IN /\ pc = "constr" /\ c \in todo /\ \A d \in todo : c <= d
     /\ todo' = todo \ {c}
     /\ AddNumPending({c}, -1)
     /\ told' = [told EXCEPT ![c][p] = @ + 1]
     /\ undo' = [undo EXCEPT ![VarOf(p)][c] = @ + 1]
     /\ fullAt' = [fullAt EXCEPT ![c] = IF pend[c] = 0 THEN @ \cup {at} ELSE @]
     /\ pc' = "called"
     /\ UNCHANGED <<ok, nconstr, assigns, trail, trail_lim, qhead, at, index,
                    target, learnt>>

\* `ncws[k]->num_pending_propagation_ -= 1; ncws[k]->propagate(*this, p)': the
\* constraint registers its undo; it does its whole work if nothing is pending.
Call(c) ==
  LET p == trail[at]
  IN /\ pc = "constr" /\ c \in todo /\ \A d \in todo : c <= d
     /\ todo' = todo \ {c}
     /\ AddNumPending({c}, -1)
     /\ told' = [told EXCEPT ![c][p] = @ + 1]
     /\ undo' = [undo EXCEPT ![VarOf(p)][c] = @ + 1]
     /\ fullAt' = [fullAt EXCEPT ![c] = IF pend[c] = 1 THEN @ \cup {at} ELSE @]
     /\ pc' = "called"
     /\ UNCHANGED <<ok, nconstr, assigns, trail, trail_lim, qhead, at, index,
                    target, learnt>>

ReturnTrue ==
  /\ pc = "called"
  /\ pc' = "constr"
  /\ UNCHANGED <<ok, nconstr, assigns, trail, trail_lim, qhead, pend, undo,
                 told, fullAt, at, todo, index, target, learnt>>

\* Variant: the watchers after the failing one keep the literal pending.
FailKeepsPending ==
  /\ pc = "called"
  /\ pc' = "drain"
  /\ UNCHANGED <<ok, nconstr, assigns, trail, trail_lim, qhead, pend, undo, told,
                 fullAt, at, todo, index, target, learnt>>

\* propagate() of a constraint returns false: the later watchers are skipped.
ReturnFalse ==
  /\ pc = "called"
  /\ AddNumPending(todo, -1)
  /\ pc' = "drain"
  /\ UNCHANGED <<ok, nconstr, assigns, trail, trail_lim, qhead, undo, told,
                 fullAt, at, todo, index, target, learnt>>

\* Variant: the literal is worked on again.
CallsAgain ==
  /\ pc = "constr" /\ todo = {}
  /\ pc' = "clauses"
  /\ UNCHANGED <<ok, nconstr, assigns, trail, trail_lim, qhead, pend, undo,
                 told, fullAt, at, todo, index, target, learnt>>

CallsDone ==
  /\ pc = "constr" /\ todo = {}
  /\ pc' = "ready"
  /\ UNCHANGED <<ok, nconstr, assigns, trail, trail_lim, qhead, pend, undo,
                 told, fullAt, at, todo, index, target, learnt>>

Drain ==
  /\ pc = "drain" /\ qhead < Len(trail)
  /\ qhead' = qhead + 1
  /\ AddNumPending(Watchers(trail[qhead + 1]), -1)
  /\ UNCHANGED <<ok, nconstr, assigns, trail, trail_lim, undo, told, fullAt,
                 pc, at, todo, index, target, learnt>>

DrainDone ==
  /\ pc = "drain" /\ qhead = Len(trail)
  /\ pc' = "conflict"
  /\ UNCHANGED <<ok, nconstr, assigns, trail, trail_lim, qhead, pend, undo,
                 told, fullAt, at, todo, index, target, learnt>>

(***************************************************************************)
(* What search(), addClause_ and addConstraint do about a conflict.        *)
(***************************************************************************)
ConflictAtRoot ==
  /\ pc = "conflict" /\ decisionLevel = 0
  /\ ok' = FALSE
  /\ pc' = "ready"
  /\ UNCHANGED <<nconstr, assigns, trail, trail_lim, qhead, pend, undo, told,
                 fullAt, at, todo, index, target, learnt>>

StartAnalyze ==
  /\ pc = "conflict" /\ decisionLevel > 0
  /\ pc' = "analyze"
  /\ index' = Len(trail)
  /\ UNCHANGED <<ok, nconstr, assigns, trail, trail_lim, qhead, pend, undo,
                 told, fullAt, at, todo, target, learnt>>

\* Variant: the walk goes on below the current level.
WalkTooFar ==
  /\ pc = "analyze" /\ index > 0
  /\ UndoEntry(index)
  /\ index' = index - 1
  /\ UNCHANGED <<ok, nconstr, assigns, trail, trail_lim, qhead, pend, pc, at,
                 todo, target, learnt>>

\* analyze() walks down the current level; the constraints forget each entry
\* it passes, so that calcReason sees the state the literal was implied in.
AnalyzeUndo ==
  /\ pc = "analyze" /\ index > trail_lim[decisionLevel]
  /\ UndoEntry(index)
  /\ index' = index - 1
  /\ UNCHANGED <<ok, nconstr, assigns, trail, trail_lim, qhead, pend, pc, at,
                 todo, target, learnt>>

\* The last entry passed is the UIP; its negation is learnt[0].
AnalyzeDone(level) ==
  /\ pc = "analyze" /\ index < Len(trail)
  /\ level \in Nat /\ level < decisionLevel
  /\ learnt' = -trail[index + 1]
  /\ target' = level /\ pc' = "cancel"
  /\ UNCHANGED <<ok, nconstr, assigns, trail, trail_lim, qhead, pend, undo,
                 told, fullAt, at, todo, index>>

\* Variant: the undo lists are run from the oldest entry up.
CancelOldestFirst ==
  /\ pc = "cancel" /\ Len(trail) > trail_lim[target + 1]
  /\ UndoEntry(CHOOSE i \in (trail_lim[target + 1] + 1)..Len(trail) :
                 \/ i = Len(trail)
                 \/ /\ \E c \in Constr : told[c][trail[i]] > 0
                    /\ \A j \in (trail_lim[target + 1] + 1)..(i - 1) :
                         \A c \in Constr : told[c][trail[j]] = 0)
  /\ assigns' = assigns \ {trail[Len(trail)]}
  /\ trail' = SubSeq(trail, 1, Len(trail) - 1)
  /\ UNCHANGED <<ok, nconstr, trail_lim, qhead, pend, pc, at, todo, index,
                 target, learnt>>

(***************************************************************************)
(* cancelUntil(target), from the last trail entry down.  The code shrinks  *)
(* the trail once, after the loop; nothing reads it in between.            *)
(***************************************************************************)
Cancel ==
  /\ pc = "cancel" /\ Len(trail) > trail_lim[target + 1]
  /\ UndoEntry(Len(trail))
  /\ assigns' = assigns \ {trail[Len(trail)]}
  /\ trail' = SubSeq(trail, 1, Len(trail) - 1)
  /\ UNCHANGED <<ok, nconstr, trail_lim, qhead, pend, pc, at, todo, index,
                 target, learnt>>

\* Variant: a literal is enqueued even if none was learnt.
CancelThenLearn ==
  /\ pc = "cancel" /\ Len(trail) = trail_lim[target + 1]
  /\ qhead' = trail_lim[target + 1]
  /\ at' = trail_lim[target + 1]
  /\ trail_lim' = SubSeq(trail_lim, 1, target)
  /\ todo' = {} /\ index' = 0
  /\ pc' = "learn"
  /\ UNCHANGED <<ok, nconstr, assigns, trail, pend, undo, told, fullAt,
                 target, learnt>>

CancelDone ==
  /\ pc = "cancel" /\ Len(trail) = trail_lim[target + 1]
  /\ qhead' = trail_lim[target + 1]
  /\ at' = trail_lim[target + 1]
  /\ trail_lim' = SubSeq(trail_lim, 1, target)
  /\ todo' = {} /\ index' = 0
  /\ pc' = IF learnt = lit_Undef THEN "ready" ELSE "learn"
  /\ UNCHANGED <<ok, nconstr, assigns, trail, pend, undo, told, fullAt,
                 target, learnt>>

Learn ==
  /\ pc = "learn"
  /\ Enqueue(learnt)
  /\ learnt' = lit_Undef
  /\ pc' = "ready"
  /\ UNCHANGED <<ok, nconstr, trail_lim, qhead, undo, told, fullAt, at, todo,
                 index, target>>

Propagation ==
  \/ Dequeue \/ ClauseConflict \/ ClausesDone \/ ReturnTrue \/ ReturnFalse
  \/ CallsDone \/ Drain \/ DrainDone
  \/ \E l \in Lit : Imply(l)
  \/ \E c \in Constr : Call(c)

Backtracking == AnalyzeUndo \/ Cancel \/ CancelDone \/ Learn

Next ==
  \/ Propagation \/ Backtracking
  \/ AddEmpty \/ AddConstraint \/ DummyLevel \/ ConflictAtRoot \/ StartAnalyze
  \/ \E l \in Lit : AddUnit(l) \/ Decide(l)
  \/ \E res \in BOOLEAN : Initialized(res)
  \/ \E level \in 0..decisionLevel : StartCancel(level) \/ AnalyzeDone(level)

SafetySpec == Init /\ [][Next]_trailVars

\* One thread runs propagate() to its end; the API's caller owes nothing.
Spec == SafetySpec /\ WF_trailVars(Propagation)
-----------------------------------------------------------------------------
TypeOK ==
  /\ ok \in BOOLEAN /\ nconstr \in 0..NConstr
  /\ assigns \in SUBSET Lit /\ trail \in Seq(Lit)
  /\ trail_lim \in Seq(Nat) /\ qhead \in Nat
  /\ pend \in [Constr -> Int]
  /\ undo \in [Var -> [Constr -> Int]]
  /\ told \in [Constr -> [Lit -> Int]]
  /\ fullAt \in [Constr -> SUBSET Nat]
  /\ pc \in PC /\ at \in Nat /\ todo \in SUBSET Constr
  /\ index \in Nat /\ target \in Nat /\ learnt \in Lit \cup {lit_Undef}

\* The trail and the assignment agree: every true literal is on the trail
\* once, and no variable is there twice (Solver.cc:1142 asserts it per call).
TrailOK ==
  /\ assigns = {trail[i] : i \in DOMAIN trail}
  /\ \A i, j \in DOMAIN trail : VarOf(trail[i]) = VarOf(trail[j]) => i = j

\* The trail entries watched by c that c is still owed a call for.
Owed(c) ==
  {i \in DOMAIN trail :
     /\ c \in Added /\ trail[i] \in Watch[c]
     /\ \/ i > qhead
        \/ i = at /\ c \in todo /\ pc \in {"clauses", "constr", "called"}}

\* num_pending_propagation_ counts exactly the calls of propagate() the
\* constraint is still to receive, through every conflict and backtrack: a
\* lazy constraint that reads 0 has seen the whole trail, and one that reads
\* more will be called again.
PendingCountsOwed == \A c \in Constr : pend[c] = Cardinality(Owed(c))

\* Solver.cc:1825: nothing is pending when propagate() returns no conflict.
FixpointSettled == Fixpoint => \A c \in Constr : pend[c] = 0

\* Is c to know of trail entry i now?  It was called on it, and analyze() or
\* cancelUntil() have not made it forget it.
Knows(c, i) ==
  /\ c \in Added /\ trail[i] \in Watch[c]
  /\ i < at \/ (i = at /\ c \notin todo)
  /\ pc \in {"analyze", "cancel"} => i <= index

\* Each constraint has been told once of each literal it knows and of no
\* other, and undoLists holds exactly one entry for each: no undo() is lost,
\* called twice or left behind by analyze(), which runs some of them early.
UndoMatchesCalls ==
  /\ \A c \in Constr, l \in Lit :
       told[c][l] = IF \E i \in DOMAIN trail : trail[i] = l /\ Knows(c, i)
                    THEN 1 ELSE 0
  /\ \A c \in Constr, x \in Var : undo[x][c] = told[c][x] + told[c][-x]

\* uncheckedEnqueue's assertion for the asserting literal (Solver.cc:1142).
LearntIsUndef == pc = "learn" => learnt \in Lit /\ IsUndef(learnt)

\* The last of the first n trail entries that c watches was a call with
\* nothing pending.
Settled(c, n) ==
  \A i \in 1..n : /\ trail[i] \in Watch[c]
                  /\ \A j \in (i + 1)..n : trail[j] \notin Watch[c]
                  => i \in fullAt[c]

\* A constraint that postpones its work to the call with no propagation
\* pending (Graph.cc:149, GraphDivision.cc:88) has done it for the current
\* trail whenever search() goes on to decide or to report a model.
LazyWorkDone == Fixpoint => \A c \in Added : Settled(c, Len(trail))

\* A constraint forgets assignments in the reverse order of the trail.
UndoIsLIFO ==
  [][\A c \in Constr, i \in DOMAIN trail :
       told'[c][trail[i]] < told[c][trail[i]] =>
         \A j \in DOMAIN trail : told[c][trail[j]] > 0 => j <= i]_trailVars

\* propagate() returns: it ends in a fixpoint or in a conflict.
PropagationEnds == pc = "clauses" ~> (Fixpoint \/ pc = "conflict")
=============================================================================
