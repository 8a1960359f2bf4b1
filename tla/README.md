# Glucose with non-clause constraints: a TLA+ development

The repository is the CDCL solver Glucose 4.1 with an addition: constraints that
are not clauses (`src/constraints/`), which the solver calls while it propagates.
This directory models that solver: the protocol between solver and constraints,
the constraints themselves, the search with all it keeps between two calls, the
simplifier with variable elimination around it, and the threads of the parallel
version. TLC checks small instances; TLAPS proves the invariants of the protocol for
any number of variables and constraints, that the search keeps to that protocol, that its
clause database stays in order, that no clause is left unpropagated, that everything it
learns follows from what was added and that every answer of `solve()` is right, that
AtMost constraints do all the search asks of a constraint, and
that the parallel solver returns the answer reported first, for any number of threads.

    tlc -config MCTrail.cfg MCTrail          # one run; PROJECT.json lists them all
    tlapm EngineProofs.tla                   # the proofs of one module

`PROJECT.json` holds the machine-readable side: components, runs, the source lines
behind each definition (`map`), the hazards, and for each property a plausible bug
in a mapped definition that breaks it (`mutants`; the operators commented
"Variant" in the modules).

## 1. Inventory

### Components, state, operations

| component | state | operations | what makes it correct |
|---|---|---|---|
| **Trail and propagation protocol** `core/Solver.cc`, `core/Constraint.h` | `trail`, `trail_lim`, `qhead`, `assigns`, `num_pending_propagation_` of each constraint, `undoLists` of each variable | `enqueue`, `propagate`, `analyze` (which runs `undo` early), `cancelUntil`, `addConstraint` | pending counts are the calls still owed; every call of `propagate` is undone once, newest first; lazy constraints have worked at every fixpoint |
| **Non-clause constraints in the solver** `core/Solver.cc` | `nc_reason`, `enqueue_failure`, the object of each constraint | `initialize`, `propagate`, `calcReason`, `undo` | reasons are earlier true literals that imply the literal; conflicts are explained by literals of which one is of the current level |
| **AtMost** | `n_true_` | the four above | state in step with the trail, full propagation |
| **Xor** | `value_`, `parity_`, `n_undecided_` | the four above | the same |
| **OrderEncodingLinear** | `ub_index_`, `total_ub_`, `undo_list_` | the four above | the same |
| **DirectEncodingExtension** | `known_values_`, `undo_list_`, `active_lits_` | the four above | the same |
| **ActiveVerticesConnected** `constraints/Graph.cc` | `state_`, `decision_order_`, `n_active_vertices_`, `conflict_cause_pos_`, `conflict_cause_lit_` | the four above; lazy | articulation points and reasons by a greedy union-find |
| **GraphDivision** | regions, `reasons_`, `reasons_prop_` | the four above; lazy | bounds of region sizes, reasons kept on a stack |
| **CDCL search** `core/Solver.cc` | clause arena, watch lists, `vardata`, heap, learnt clauses, `ok`, `conflict`, `model` | `addClause`, `addConstraint`, `solve` under assumptions, `search`, `analyze`, `analyzeFinal`, `simplify`, `reduceDB`, `adaptSolver`, restarts | every answer is right for what was added and assumed; `solve` returns |
| **SimpSolver** `simp/` | occurrence lists (cleaned late), `n_occ`, `touched`, `subsumption_queue`, `elim_heap`, `elimclauses`, `frozen`, `eliminated`, `bwdsub_assigns` | `addClause`, `setFrozen`, `eliminate` (`gatherTouchedClauses`, `backwardSubsumptionCheck`, `strengthenClause`, `asymm`, `eliminateVar`, `implied`), `extendModel`, `solve`, `cleanUpClauses` | equisatisfiable at every step, whenever it is interrupted; the extended model satisfies the removed clauses; it ends |
| **Parallel solver** `parallel/` | ring of words, its counters and a position per thread (`ClausesBuffer`); unit literals, the winner (`SharedCompanion`); each thread's loop; the main thread | `pushClause`, `getClause`, `addLearnt`, `getUnary`, `IFinished`, `solve_` of a thread, `solve` of the main thread | every clause is got whole, once, in order; one winner; everybody stops; `solve` returns the answer reported first |
| **Containers** `mtl/` | | | used by their meaning in the modules above |
| **Input, options, statistics** `utils/`, `core/Dimacs.h` | | | pure |

### How they interact

`Solver::propagate` dequeues one literal, scans the clauses it makes false, then
calls `propagate` of each constraint that watches it. A constraint enqueues
literals with itself as `nc_reason` and registers its `undo`. `enqueue` adds 1 to
`num_pending_propagation_` of the watchers of the literal; the loop subtracts it
before the call, and on a conflict for everybody it will not call. When `analyze`
needs the reason of such a literal it calls `calcReason`, which reads the state of
the constraint; so `analyze` runs the `undo` calls for the entries it passes,
and `cancelUntil` runs those that are left.

`SimpSolver` overrides `addClause_` and `solve_`: it keeps occurrence lists beside the
clauses of the base class, simplifies before the first search, and extends the model
after each. `interrupt()` may be called from a signal handler or another thread at any
moment; the flag is read in every loop of `eliminate()` and by the search.

`MultiSolvers::solve` starts a thread for each solver. They share only a
`SharedCompanion`: unit literals in a vector with one position per thread, clauses in
the ring, and a flag that says that somebody has an answer, each under a mutex of its
own, and `jobStatus` under none. The main thread waits on a condition variable with a
time limit, joins the threads and returns `jobStatus`.

### What is hard

The solver proper is sequential; what a test hardly reaches is the *sequence*: a conflict
in the middle of the loop over the constraints, with others not called yet and
literals still queued; the early undo; a reason that is asked for after later
assignments were made; watchers moved from list to list while one is scanned;
clauses freed above level 0; a second `solve` on what the first left behind. In the
simplifier it is the lists that change while they are walked, and the interrupt that
leaves a loop half way; in the parallel solver the threads themselves: positions in
a ring that others move, a signal sent while nobody waits.
"hazards" in `PROJECT.json` lists them by source line.

## 2. Modules

    Trail                      the protocol, clauses and constraints arbitrary
      MCTrail                  instance for TLC
      ConstraintEngine         EXTENDS Trail: what real constraints compute
        AtMost, Xor, OrderEncodingLinear, DirectEncodingExtension,
        Connected, GraphDivision   (INSTANCE)
        EngineProofs           theorems about Trail, ConstraintEngine and AtMost; induction
                               and lists, for all proofs
        MCEngine               instances for TLC
        Solver                 EXTENDS ConstraintEngine: clauses and search
          IncrementalSat       abstract specification, INSTANCE ... WITH
          SolverProofs         it implements ConstraintEngine; the heap
            SearchProofs       trail levels, watch lists, clauses that are reasons
              AnalysisProofs   analyze(); the invariant of the search
                SoundnessProofs  what is learnt follows from what was added
                  AnswerProofs   no clause is left unpropagated
                    RefinementProofs  Solver implements IncrementalSat
          MCSolver             instances for TLC
    Elimination                SimpSolver
      IncrementalSat           the same abstract specification
      MCElimination            options and sequences of calls for TLC
    ClausesBuffer              the ring of words, as operators on a record
      SharedCompanion          EXTENDS it: what the threads share
        MultiSolvers           EXTENDS it: the threads and the main thread
          Blackboard           abstract specification of the sharing
          MultiSolversProofs   one winner
          MCMultiSolvers       instances for TLC

**Trail.** Scanning the clauses may imply any unassigned literals and may find a
conflict; a constraint may enqueue anything and return anything. What remains is
exactly the bookkeeping. `pc` names the point reached in the code
(its values are listed in the module); `told[c][l]` counts calls of `propagate(l)` not
yet matched by `undo(l)`, and `fullAt[c]` remembers at which trail entries `c` was
called with nothing pending. These two are history: no guard reads them, and
`constraint->propagate` and `undo` of a lazy constraint are what they stand for.

| action | code |
|---|---|
| `Enqueue` (in `AddUnit`, `Imply`, `Decide`, `Learn`) | `uncheckedEnqueue`, `enqueue` with a constraint |
| `Dequeue`, `ClauseConflict`, `ClausesDone`, `Call`, `ReturnTrue`, `ReturnFalse`, `CallsDone`, `Drain`, `DrainDone` | `propagate`, one action for each place it can be at when something else is called |
| `StartAnalyze`, `AnalyzeUndo`, `AnalyzeDone` | `analyze`, as far as it undoes |
| `StartCancel`, `Cancel`, `CancelDone` | `cancelUntil` |
| `AddEmpty`, `AddUnit` | `addClause_` with no or one literal left |
| `AddConstraint`, `Initialized` | `addConstraint` and `initialize` |

**ConstraintEngine** keeps every action of Trail and conjoins what the constraints do:
`cs[c]` is the object, `enq` the literals the running call has still to enqueue.
A class of constraint is a module of operators (`Start`, `Called`, `Accepts`,
`Wanted`, `Reason`, `Undone`, ...) over its parameters and its state; it also says
what the constraint means (`Holds`) and what its state has to be (`InSync`).
`Problem[c]` gives the class and the parameters of each constraint. `Connected` (class
`ActiveVerticesConnected`) and `GraphDivision` are lazy: `Postponed` says when a call
does its bookkeeping and no more. The depth-first search, the union-find and the
breadth-first search are modelled by what they compute (components, subtrees left
behind by a vertex, a shortest path); of several shortest paths, and of the orders
in which a region's vertices can be met, the model takes one. What
`GraphDivision::run_check` asserts is part of its state (`broken`): the build
modelled is the default one, with assertions.

**Solver** replaces "clauses may imply anything" by watch lists (`watches`,
`watchesBin` as sequences with blockers, scanned one entry per step), and adds
`analyze` in full (`seen`, `out_learnt`, recursive minimisation, binary
minimisation), learning, restarts, `simplify`, `reduceDB`, the deletions of
`adaptSolver`, assumptions,
`analyzeFinal` and the calls of the user, which follow a script. Heuristics are
choices: any variable of the heap, any polarity, any moment for a restart or a
reduction, any set of learnt clauses the code's conditions allow to delete.

**IncrementalSat** is what a user of the class relies on: a set of clauses and
constraints that grows, and answers to `solve` that are right for it and for the
assumptions, the final conflict included. `AnswersAreRight == Sat!Spec` says Solver
implements it, `SolveReturns == Sat!Answered` that every call gets its answer.

**Elimination** is SimpSolver over a base class taken at its word: `propagate` is unit
propagation, and `Solver::solve_` answers right for the clauses left (what `Solver`
checks). The clauses and what is kept about them are one record, `store`, because the
functions of the class call one another in the middle of their loops
(`RemoveClause`, `Strengthen`, `EnqueueUnit`, ... take a store and return the
next one). `pc` is the loop the running call is in; a step is one turn of a loop, which
is where an interrupt is noticed: one entry of an occurrence list
(`ScanOne`), one entry of the queue (`BackwardPop`, `BackwardUnit`), one clause of
`asymmVar` (`Asymm`), one pair of `eliminateVar` (`AddResolvent`). Of the orders the heap
allows between variables of equal cost each is taken. The same IncrementalSat is
implemented: a user of a solver that eliminates variables may rely on the same answers. One
thing is mended on the way: when `eliminate` refutes the formula, `solve_` returns `l_False` and clears
neither `model` nor `conflict` (`SimpSolver.cc:186-192`), so an earlier call's stay there; the
mapping takes them as empty (`searched`), and a user must not read them.

**ClausesBuffer, SharedCompanion, MultiSolvers.** The ring is modelled word by
word, since what can go wrong is a position between two clauses or a header that is read
as a literal. An operation of the companion runs under its mutex and is one step; so is
each of the accesses that no mutex protects (`Publish` writes `jobStatus`, `Copy` the
model). `pthread_cond_timedwait` may return after its time limit and for no reason.
`Blackboard` says what the threads rely on: a queue of whole clauses for each of
them; `Delivered` says that the ring is that.

The model is of the code as it is written, which does not run as it stands:
`CMakeLists.txt:5` leaves `parallel/` out, `MultiSolvers.cc:206` and `:213` compare the pair
that `propagate()` now returns with `CRef_Undef`, and `Solver::propagate` aborts when
`useUnaryWatched` is set (`core/Solver.cc:1307`), which `ParallelSolver.cc:85` always does. `Conflict`,
`Restart` and `LearnClause` go on as if that line were not there.

| action | code |
|---|---|
| `Begin` ... `ModelFound` | the loop of `ParallelSolver::solve_` with the points of `search` at which it shares, imports and looks at `jobFinished` |
| `Report`, `Publish`, `Copy`, `Signal` | the end of `solve_` |
| `Launch`, `Wait`, `Join` | `MultiSolvers::solve` |

## 3. Runs

| run | instance | what it shows |
|---|---|---|
| `protocol` | 3 variables, 2 constraints, one watching a literal and its negation and one sharing a literal with it; levels without a decision up to 1 | the protocol's invariants, the order of undos, and that `propagate` ends |
| `constraints` | 4 variables; an AtMost and an Xor over the same three, one negated; 2x - y + z >= 2 with z in {0, 1, 3}; a table with a wildcard that shares y | constraints keep their state, propagate fully, explain themselves and the conflicts, and imply only what follows |
| `graphs` | over 3 variables: a star in which two leaves have complementary literals, a path, and a triangle to divide with sizes for two vertices | the same for the lazy constraints; what they imply follows at level 0 too, where no reason is asked for; no assertion of `run_check` fails and `calcReason` never comes to its `abort` |
| `search` | scripts of calls over 5 variables, six of clauses and four with an AtMost and an Xor: pigeons, model counting by blocking clauses, assumptions with a core, a chain that learns non-unit clauses | the search and its clause database, against `IncrementalSat`; every call returns |
| `elimination` | 4 settings of the options, 6 formulas over 4 variables, 4 ways to go on (one is what `simp/Main.cc` does), one interrupt at any moment | nothing is lost in the middle of a simplification, lists and counters agree, the work is done at the end, answers over several calls are right, calls return |
| `sharing` | 3 threads, a ring of 14 words, clauses of 2 and 4 literals; five setups: sharing without end, the same with `removeolder`, contradicting units, answers at any moment, a refuted formula that `eliminate` may find refuted first | the ring is a queue for each thread; `solve` returns the answer reported first, and none only if `eliminate` refuted the formula in every thread; once an answer is reported everybody stops |
| `xor_told_twice` | an Xor of 3 added when a variable is fixed | finding 1 |
| `core_of_constraints` | assumptions refuted through an AtMost | finding 2 |
| `duplicate_edges` | a path of three vertices with its first edge doubled | finding 3 |
| `size_out_of_range` | two vertices, one of size 1 or 3 | finding 4 |
| `rcheck_drops_resolvents` | an unsatisfiable formula of three variables, eliminated with `use_rcheck` | finding 5 |
| `missed_wakeup` | one thread and the main thread, under fairness of both | finding 6 |

**Why the bounds are enough.** In `protocol` both constraints can be owed calls on
the same literal, one can fail while the other waits, and both kinds of trail entry
(watched, not watched) can be queued behind the failing one: the orders of events
the counters depend on need no third party. In the engine runs clauses imply any
literal at any time, so three or four variables meet every order of decisions,
implications, failures and undos of the constraints under test. The graphs are
chosen so that every rule of `run_check` finds its conflict and its implication
before another one does, and so that a failing `enqueue` inside `Connected` happens, which takes
two vertices with one variable. In `search` the scripts are chosen so that each
mechanism happens: clauses of 2, 3 and 4 literals, learnt clauses of length 1 and
more, literals removed by each minimisation, restarts and reductions in the middle of
a call, assumptions that already hold, that fail at once and that fail after
propagation, calls after a failed call. In `elimination` the formulas are chosen so that
clauses subsume and shorten one another in chains down to units, resolvents are
tautologies, units and longer clauses, asymmetric branching removes literals, a
variable costs too much to go, and every formula meets every option and every ending;
one interrupt suffices to stop each loop at each of its turns, and the call after it
meets what it left. In `sharing` the ring holds at most two clauses, and two of 7
words are one word too much for it; a third clause begins at word 10 and wraps inside its
literals, or at word 12 and wraps inside its header; clauses are forgotten under a slow reader; with three
threads one can be ahead of, level with and behind another.

`MaxLevel`, `MaxInterrupts`, the limits of a script on restarts and reductions, the
`exports` of a setup and `AllowRevisits` are bounds; each is named where it is
declared. `AllowRevisits = FALSE` leaves out the additions of finding 1, so that the
other runs say what holds without it. Deadlock is checked for the search, the
simplifier and the threads, where the end of a script and the return of `solve` are
stuttering steps of their own (`Finished`, `EndScript`, `Returned`). `CHECK_DEADLOCK FALSE` stands in
the configurations of Trail and ConstraintEngine because there a solver found
unsatisfiable at level 0 has nothing more to do.

**Fairness.** One thread runs `propagate()`, `solve()` or `eliminate()` to its end:
`WF(Propagation)` in Trail and, written so that TLC need not work out ENABLED, "rests
again and again, or takes a step again and again" in Solver and Elimination, where a step
is enabled whenever the call is running. Nothing is assumed about which step it is, so the
decisions, restarts and reductions that a heuristic chooses are chosen by an
adversary, within their bounds: that restarts become rare is what the code's restart
strategies are for, and it is not modelled. In MultiSolvers every thread runs on, and the
operating system lets each thread that can run do so: weak fairness of `Main` and of each worker. A
worker that shares, imports and restarts for ever is fair; answers, time-outs and spurious
wakeups owe nothing. Calls of a user and interrupts are never fair.

## 4. Proofs

The first part of `EngineProofs` proves, for every `NVars`, `NConstr`, `MaxLevel` and every assignment
of watches (assumption `TrailAssumption`):

| theorem | property |
|---|---|
| `SpecTypeOK`, `SpecTrailOK` | types; trail and assignment agree |
| `SpecPendingCountsOwed` | pending counts are the calls owed |
| `SpecFixpointSettled` | nothing pending at a fixpoint (the assertion at Solver.cc:1825) |
| `SpecUndoMatchesCalls` | every constraint is told of what it is to know, once, and has one undo registered for it |
| `SpecLazyWorkDone` | lazy constraints have worked at every fixpoint |
| `SpecLearntIsUndef` | the asserting literal is unassigned when enqueued |
| `SpecUndoIsLIFO` | constraints forget the newest literal first |

The argument. `TypeOK /\ TrailOK` is not inductive: that `Dequeue` reads an entry that
exists, and that `cancelUntil` ends where the counters expect it, depends on the
levels being increasing (`Levels`), on where `qhead` and `at` may stand at each
`pc` (`Queue`), and on what a backtrack has removed so far and will remove
(`Backtrack`, which also carries that the literal to be learnt is the negation of one
above the target level). Their conjunction `Base` is inductive (`SpecBase`), and
everything else stands on it. `PendingCountsOwed` is inductive
given `Base`; the work is in how the set of owed calls changes when a
literal is put on the trail, dequeued, called or skipped, one lemma each.
`UndoMatchesCalls` needs both directions of `told` and `undo` (`Calls`). `LazyWorkDone` holds
only at fixpoints; the invariant `Lazy` says for each constraint that the last
entry it was called on was a call with nothing pending, *if* nothing is pending
now, and that needs `PendingCountsOwed`. `UndoIsLIFO` is an action property: only two
actions undo, and each undoes the newest entry some constraint still knows. The theorems
are about `SafetySpec`, which is `Spec` without its fairness.

`EngineProofs` and `SolverProofs` carry these theorems from arbitrary clauses and
constraints to the real ones:

| theorem | says |
|---|---|
| `EngineImplementsTrail` | `EngineSpec => SafetySpec`, for any `Problem` |
| `SolverImplementsEngine`, `SolverImplementsTrail` | `SolverSpec => EngineSpec`, `SolverSpec => SafetySpec`, for any scripts |
| `SolverKeepsProtocol` | the six properties of the protocol hold of the search |
| `SolverHeapComplete` | every unassigned variable is in the heap |

The steps of ConstraintEngine and Solver conjoin those of the layer below, so most
cases are immediate; what has to be shown is that the parameters of a step are in range
(the literal a clause implies is a literal; the level analyze() returns to is a
level), for which the invariant `Base` of Trail is needed once more. The heap: `Complete`
(every variable without a value is in `order_heap`) is inductive, because only
`cancelUntil` takes values away and puts each variable back, only `pickBranchLit`
takes a variable out and decides it, and `simplify` rebuilds the heap from the
unassigned ones.

`SearchProofs`, `AnalysisProofs`, `SoundnessProofs`, `AnswerProofs` and `RefinementProofs`
are about the search itself, for any number of variables, any constraints, any scripts of calls (literals of the calls are
literals, `SolverAssumption`) and any choices:

| theorem | says |
|---|---|
| `SolverSearched` | the inductive invariant `Searched` below |
| `SearchTypeOK`, `SearchWatchedTwice`, `SearchReasonsStand`, `SearchLearntIsAsserting` | the properties the run `search` checks under these names |
| `SearchSound` | `EverythingFollows`: clauses, learnt clauses, literals of level 0 and `ok` follow from what was added |
| `SearchPropagates` | `ClausesPropagated`: at a decision or a model no clause has a false watched literal without a true one |
| `SearchAnswers` | `AnswersAreRight`: Solver implements `IncrementalSat` |
| `ClausesClaimed`, `ClausesSound`, `ClausesVisited`, `ClausesAnswered` | all of them without a hypothesis where there are no constraints (`NConstr = 0`); there `ConflictIsAssumptions` holds too |

The hypotheses. A constraint is asked for its reason in the middle of `analyze()`, and
nothing in the solver can make the answer right: a reason with a false literal or with none
of the current level sends `analyze` off the trail. What it owes is stated as one formula
of ConstraintEngine, `Explained`: the literals of a reason stood on the trail before and imply
the literal, those of a conflict exclude every solution and one is of the current level. The
theorems are of the form `SolverSpec /\ []Explained => []...`; soundness also needs
`ImpliedFollows`, that what a constraint enqueues is implied at level 0 too, where no reason
is asked for. Both are invariants that TLC checks of the six real classes in `constraints`
and `graphs`; the findings 1 and 3 are behaviours in which they fail. That the answers are right
needs two more: `PropagatedFully`, that a constraint which holds of no extension of the
assignment says so before a model is reported (an invariant of the same two runs), and `Encoded`, which is
not the solver's business but its user's: a class such as `OrderEncodingLinear` takes it for
granted that the literals of a number are ordered by clauses the user adds (`PresumesOf`),
and is right about models of these clauses only. For AtMost, Xor and the
graphs it asks nothing. Where there are no constraints all
four hold of themselves (`ClausesExplained`, `ClausesAnswered`), and where there are only AtMost
constraints they are proved (below); in both cases nothing is assumed.

The invariant. `Searched` is the conjunction of

- `Base`, and `Blamed`: only constraints that were added are blamed; `Literals`, `Answers`: the calls and answers are about literals;
- `Layered`: `level[x]` says between which entries of `trail_lim` a variable stands;
- `Stored`: each live clause has two literals or more, all of different variables, and is
  in exactly the two watch lists of its first two literals, once in each (binary ones in lists of
  their own), with one of its literals as blocker;
- `ScanAt`, `Conflicting`: the place in the list being scanned, and that the clause `propagate` returns is false;
- `Reasoned`: above level 0 every literal has a live clause as reason whose other literals were false before it
  (`FromClause`, with the literal first if it is not binary), or a constraint, or is the first of its level;
- `Analysed`: the variables in `seen` are on the part of the trail not yet undone, and
  `out_learnt` is what they leave below the current level;
- `Asserting`: from `analyze` to the enqueue, the first literal is the one to be asserted, the
  others stay false under the backtrack, the second is of its level;
- `ReasonRange`: reasons are indices of the database.

No part stands alone: that a deleted clause is no reason needs `Stored` and
`Reasoned` (`locked` looks at the first literal only), that the clause is asserting needs
`Analysed`, and this needs the reasons. The steps are grouped by what they do to the trail
(`TrailKinds`: stays, pushes, decides, opens a level, pops, closes), to the database
(`Stored` when a clause is added, turned, moved to another list, removed) and to the
reasons, with one lemma each.

Soundness takes a model of what was added and shows that it satisfies everything
(`SoundFor(A)`). `Refuted(A)` is what `analyze` keeps: the model makes the negation of
some literal still marked true, or of the last one. `RootHolds(A)`: the literals of level 0
are true in it. That the minimised clause still follows (`RedundantTrue`) is the
argument that is easily got wrong in `litRedundant`: a variable that is marked
redundant is implied by marked ones before it, so the lowest false one would have a reason
that the model falsifies. Both this and the
lemmas about the lists (`Without`, `Listed`) are inductions over data; they are done
with sets (the least number outside of a set of numbers, in `EngineProofs`), since the
library's induction theorems need an operator as parameter.

That no clause is left unpropagated is a statement about fixpoints, and says nothing about the middle
of a scan or a backtrack. The invariant behind it (`AllServed`, `Underway`) is about entries of
the trail: `Served(cr, i)` says that clause `cr`, if it watches the negation of `trail[i]`,
has a literal that was true by the end of the level of that entry. It holds of all entries
before `Visited`, which is where `at` will stand once the backtrack under way is over, and for the entry being
scanned of every clause that is not still to come in the list (`ToVisit`). "By the end of the level" is
what makes blockers right: a blocker may be true later than the watched literal is
false, but a backtrack that takes it away takes the false one away as well. A conflict ends the
scan early, so nothing is claimed of the current level from there on; `analyze` goes
back below it.

That every answer is right is a refinement: with the mapping of `Solver!Sat`, every step of Solver is a
step of `IncrementalSat` or leaves its variables alone.

| step of Solver | of IncrementalSat | rests on |
|---|---|---|
| `addClause_` with any outcome | `AddClause` | |
| `addConstraint` | `AddConstraint` | `AddedStays`: no constraint is ever dropped |
| `Solve`, while `ok` or not | `Ask`, `AskInVain` | `Sound`: `ok` is false only without models |
| `ModelFound` | `AnswerSat` | `ModelIsOne` |
| `SConflictAtRoot` in a search | `AnswerUnsat` | `Sound` |
| `AssumeFailed` | `AnswerUnsat` | `AssumedFollows`, `FinalHit` |
| `GiveUp` | `GiveUp` | |
| every other | stutters | `UnseenStep` |

`ModelIsOne`: all variables have values (`Complete`), each clause of the database has a true literal
(it is served), but what was added is no longer there: `addClause_` dropped literals that were
false at level 0, and `simplify` removed clauses satisfied there. `FormulaKept` (in `SoundnessProofs`) says
what remains of each clause the user added: a literal of it is true at level 0, or it is a tautology, or a
clause of the database is part of it. `reduceDB` and `adaptSolver` keep this since they remove only
learnt clauses.

`AssumedFollows`: if a model makes the assumptions true, it makes the whole trail true, so that the
assumption found false is false in it. It goes up the trail: an entry has a reason, or is of level
0, or is an assumption itself. The last is `Chosen`, the invariant about the levels up to
`Len(assumptions)`, and needs `Held`: an assumption whose level has been opened is still
true at that level, also after a backtrack that ends between the assumptions.

`FinalHit`: the clause `analyzeFinal` gives follows. Its loop marks variables while it
goes down the trail, which the model writes as a recursive function; `FinalMarks` gives the equations this
function meets (by `RecursesDown`, since the library has no theorem for recursion downwards), and
`MarkStays` says that a mark made stays until its variable is visited. If a model makes no literal of
that clause true, the marked literals are all true in it, from the lowest up
(`ForcedBy`), and with them the negation of the failed assumption. That the clause is made of
negated assumptions (`FinalAssumed`) follows only if no literal was implied by a constraint:
finding 2 below is a behaviour in which one was, and the clause, though it
follows, names it. So `ClausesAnswered` states it for `NConstr = 0`.

The last part of `EngineProofs` discharges the hypotheses for AtMost. A constraint is *plain* if it
is an AtMost in which no literal stands together with its negation; with such a pair
`calcReason`, which reads `value()`, may give a literal assigned after the one it explains, so
the condition cannot be dropped.

| theorem | says |
|---|---|
| `EngineAtMost` | in any problem, whatever the other constraints do, every plain AtMost keeps `CountsRight` |
| `AtMostInSync`, `AtMostImplies`, `AtMostExplains`, `AtMostPropagates` | `StateInSync`, `ImpliedFollows`, `Explained` and `PropagatedFully`, if all constraints are plain (`AtMostOnly`) |
| `AtMostAnswered` | then Solver implements `IncrementalSat`, learns only what follows and misses no clause, with no further hypothesis |

`CountsRight(c)` is about the moments between the calls, where most of the work is. With
`Heard(c)` for the literals `c` was told of and not yet made to forget:
`Counted`: `n_true_` is their number, unless `initialize` gave up and is about to return false
(then `ok` becomes false and nobody asks again);
`InOrder`: in a call, what is still to be enqueued is unassigned, negated literals of `c`, and
once it is done (`ForcesRest`) `c` leaves no literal open if it is full;
`AtRest`: that has been achieved whenever no call of `c` is running, and
`AtDecisions`: it had been at every decision still on the trail, which is where a backtrack ends;
`Forced`: `c` was full before each literal it implied, and no literal of its own has become true since,
and so `Ripe`, that it is still full as long as one of these is on the trail. From `Forced` follows that the
reason `calcReason` reads off the present values is one of earlier literals only.
`Overfull`: when it reports a conflict it has too many true literals, the current one among them.
It takes `AllHeard` (at each `pc`, which of the true literals a constraint has been told of), `CallsInOrder`
(constraints are called by their numbers) and the protocol's `Calls`. That nothing is
required of the other constraints is what makes `EngineAtMost` useful in mixed problems; the hypotheses of
`SearchAnswers` speak of all constraints at once, so the four theorems that state them need
`AtMostOnly`. What `initialize` and `propagate` compute in their loops is an induction over the
list of literals; it is done as the ones above.

`MultiSolversProofs` proves `ResultIsWinners` (`ResultOfWinner`) for any number of threads and any
setups, from `BufferAssumption`: when `solve()` returns, all threads have ended, and it returns the
status of the first that called `IFinished`; if none did, it returns `l_Undef`, and every thread
has the status `l_False` from `eliminate()`, which is lost (section 5). The inductive invariant says where the threads can be
(`ThreadsOK`: none before it is created, all done before the last is joined), what is known of
the winner at each place after `IFinished` (`WinnerOK`: its status is written once it is past
`publish`, its model once past `copy`, and nobody else is ever at these places), that a
thread that ends while nobody has reported was refuted in `eliminate()` (`SilentOK`: any other comes to
its end with an answer to report or because another has reported one), and that
the result is `jobStatus`. That is why no mutex is needed around `jobStatus`:
it is written between the one true `IFinished` and the join of its writer.

Only model-checked: liveness (`PropagationEnds`, `SolveReturns`, `CallsReturn`,
`WorkersStop`), since TLAPS does not handle fairness here; what the constraints other than AtMost compute
(`StateInSync`, `Explained`, `ImpliedFollows`, `PropagatedFully`), and `AssertionsHold`, which is
about them alone; `Elimination`, whose operators are folds and recursive functions over data; the ring
(`RingExact`, `Delivered`). `ConflictIsAssumptions` is proved where there are no constraints and false
where there are (finding 2).

## 5. Findings

1. **An Xor is told twice** (`xor_told_twice`, `constraints/Xor.cc:32`). `initialize` walks
   its variables and calls `propagate` for each assigned one. If that leaves one open
   variable, `propagate` enqueues it, the walk then finds it assigned and calls
   `propagate` for it, and the queue calls `propagate` for it again. The assertion at
   `Xor.cc:49` fails; without assertions parity is toggled twice.
2. **The final conflict names literals that are no assumptions**
   (`core_of_constraints`, `core/Solver.cc:1103`): `analyzeFinal` takes a literal
   without a clause as reason for an assumption, which is no longer true of literals implied
   by a constraint.
3. **A doubled edge makes a false articulation point** (`duplicate_edges`,
   `constraints/Graph.cc:199`). The loop over `adj_[v]` counts the subtree of a child once for each
   edge to it, so a leaf-side subtree counts twice and `v` is enqueued as active
   although nothing needs it. At level 0 a satisfiable problem becomes unsatisfiable;
   at a higher level `calcReason` aborts when asked why.
4. **A size known to be out of range fails an assertion** (`size_out_of_range`,
   `constraints/GraphDivision.cc:259`): `initialize` compares only the least value of a size with the
   number of vertices, and `least_ub` starts at that number, so a lower bound above it
   finds no `least_ub_pos`.

5. **`use_rcheck` loses clauses** (`rcheck_drops_resolvents`, `simp/SimpSolver.cc:631`).
   With that option `addClause_` drops a clause that the others imply (line 216).
   `eliminateVar` adds resolvents before it removes the clauses they come from, so all of
   them are dropped and the variable disappears without a trace: an unsatisfiable formula
   gets a model. The option is off by default; the run `elimination` has it on with
   elimination off, where it does no harm.
6. **A wakeup is missed** (`missed_wakeup`, `parallel/MultiSolvers.cc:645`). The main thread
   waits without looking whether a thread is done, again after each time-out, and
   `pthread_cond_signal` (`ParallelSolver.cc:504`) is sent without the mutex. A signal sent
   before the first wait or between two waits is lost, and when it was the last one
   `solve()` never returns.

An answer is lost (`parallel/ParallelSolver.cc:460`). A thread whose `eliminate()` refutes the
formula returns `l_False` before `IFinished` and before the signal. It stops no other thread,
and if all threads end like that nobody wakes the main thread: `solve()` waits for ever or, after a
spurious wakeup, returns `l_Undef` for an unsatisfiable formula. `parallel/Main.cc` does not come
here, as it calls `eliminate()` on the first solver, which turns simplification off before
the others are cloned, and looks at `okay()`; another user of `MultiSolvers::solve()` may. No text
of the repository speaks of this case. `ResultOfWinner` states it: the last branch is the
lost answer, the run `sharing` comes to it (in the setup `Refuting`), and the proof shows that
it is the only way to return `l_Undef`.

Not a finding: `simplify` clears the reason of only the first literal of a clause it
frees (`core/Solver.cc:603`), although `locked` also holds for the second literal of a
binary clause. Nothing reads the reason of a literal of level 0 afterwards;
`ReasonsStand` speaks of the levels above.

## 6. Not modelled, and the plan

In Solver the first minimisation of a learnt clause is that of `ccmin_mode` 2, the default; modes
0 and 1 are not modelled. The second, with binary clauses, is done or left out at will
(`Shortened`): the code does it for clauses that are short and of few levels, and never
when it is incremental.

The constraints take the problems a program may pose them with these limits: in AtMost a literal
together with its negation is modelled (`Failing`) but stands in no run and in no theorem, as
`calcReason` may then name a later literal; in the runs of GraphDivision a size
has two values, so the bisections and the choice among several literals of one size (lines 234, 268 and 299) are
little exercised, and what `StateInSync` says of it is only how many reasons there are and that one of
a conflict is the last; what the reasons contain is said by `Explained`. In `ConnectingPath` one of
the shortest paths is chosen, where the code takes the first its search meets. `Lower` of
OrderEncodingLinear leaves out the work on a bound that follows a negative total, where the code
returns.

Abstracted everywhere: activities, LBD, phase saving and restart strategies (choices),
certified output, time and memory limits (a call that gives up: `GiveUp`), widths of
integers, builds with NDEBUG (which drop the `enqueue` calls inside the assertions of
`GraphDivision`). In Solver the arena is a sequence in which a freed clause is `<<>>`,
and watch lists are cleaned at once, as the code does before each use; garbage
collection moves nothing that the model could see.

Not modelled in `simp/`: `substitute` (never called), the copy constructor, and non-clause
constraints together with elimination: nothing in the code stops it from
eliminating a variable that a constraint watches, and nothing says that it may be done.
Propagation between two steps of `strengthenClause` after an interrupt may miss a clause
watched by a false literal; the model allows it to.

Not modelled in `parallel/` (which `CMakeLists.txt` does not compile): `reduceDB` and panic
mode; clauses watched by one literal; budgets and interrupts;
the number of threads and their parameters (`SolverConfiguration`, `adjustNumberOfCores`);
`addClause` and `newVar` of MultiSolvers; the search of each thread, which is that of Solver.
When the ring becomes empty while `removeolder` makes room, a build with assertions
stops (`queuesize > 0`); the model goes on, as one without them does.

Not modelled at all: parsing, options, statistics (`utils/`, `core/Dimacs.h`), pure
input and output. Containers (`mtl/`) are used by their meaning.

What is left of the plan:

1. What was proved of AtMost for the other classes. Xor is next: its state is a function of
   the literals it was told of, too, but `initialize` may call it twice for one (finding 1), so
   it needs the problems in which that does not happen.
2. The ring for any `maxsize`: that no word is written which a reader has still to read.
3. `OccurrencesExact` and `NothingLost` of Elimination, whose lists are functions of the
   clauses but whose steps are folds over them.
4. Constraints together with elimination, once the code says which variables are frozen.
