----------------------------- MODULE Elimination -----------------------------
(***************************************************************************)
(* SimpSolver (simp/SimpSolver.cc): before a search, clauses are subsumed, *)
(* strengthened and shortened, and variables are eliminated by resolution; *)
(* after it, the model is extended to the eliminated variables.            *)
(*                                                                         *)
(* The base class is taken at its word: propagate() is unit propagation,   *)
(* and Solver::solve_ answers right for the clauses that are left (module  *)
(* Solver checks both).  Another thread may set asynch_interrupt at any    *)
(* moment.  A clause is the set of its literals and keeps its number       *)
(* wherever it is moved; numbers increase along every occurrence list.     *)
(***************************************************************************)
EXTENDS Integers, Sequences, FiniteSets

LOCAL INSTANCE SequencesExt
LOCAL INSTANCE FiniteSetsExt

CONSTANTS
  NVars,
  Sessions,     \* the option values and calls a user of the class may make
  MaxInterrupts \* bound: calls of interrupt()

Var == 1..NVars
Lit == Var \cup {-x : x \in Var}

ASSUME EliminationAssumption == NVars \in Nat \ {0} /\ MaxInterrupts \in Nat

VARIABLES
  script,      \* calls still to be made
  options,     \* use_asymm, use_rcheck, use_elim, grow, clause_lim, subsumption_lim
  formula,     \* the clauses passed to addClause so far
  ok, store,   \* the clauses and what is kept about them, see Empty
  use_simplification,
  frozen, eliminated,
  elimclauses, \* the clauses removed with a variable, its literal apart
  bwdsub_assigns,  \* the literals of level 0 already used to simplify
  asynch_interrupt, interrupts,
  pc,          \* "idle", or the loop the running call is in
  caller,      \* the function backwardSubsumptionCheck() returns to
  cur, best, j,          \* its clause c, the list it scans, the place in it
  elim, was_frozen, i,   \* of eliminate() and asymmVar()
  todo,        \* resolvents eliminateVar() has still to add
  call,        \* the parameters of the running call
  extra_frozen, assumptions, result, model, conflict,
  searched,    \* history: did the last call of solve_() reach Solver::solve_?
  curtailed    \* history: has an interrupt ended a simplification early?

callVars == <<call, extra_frozen, assumptions>>
scanVars == <<cur, best, j>>
varLoop  == <<elim, was_frozen, i, todo>>
answer   == <<result, model, conflict, searched>>
modes    == <<options, use_simplification>>
interruptVars == <<asynch_interrupt, interrupts>>
vars == <<script, formula, ok, store, frozen, eliminated, elimclauses,
          bwdsub_assigns, pc, caller, callVars, scanVars, varLoop, answer,
          modes, interruptVars, curtailed>>

VarOf(l)  == IF l > 0 THEN l ELSE -l
VarsOf(c) == {VarOf(l) : l \in c}
Neg(c)    == {-l : l \in c}

\* The clauses (a removed one is {}), the occurrence list of each variable,
\* which of the lists hold removed clauses, the occurrences of each literal,
\* the variables touched by new clauses, elim_heap, subsumption_queue, and
\* the trail, all of level 0.  good: the function that left it returned true.
Empty == [db |-> <<>>, occurs |-> [x \in Var |-> {}], dirty |-> {},
          n_occ |-> [l \in Lit |-> 0], touched |-> {}, elim_heap |-> Var,
          queue |-> <<>>, trail |-> {}, good |-> TRUE]

Live(s)       == {cr \in DOMAIN s.db : s.db[cr] # {}}
Undef(s, x)   == x \notin s.trail /\ -x \notin s.trail
Satisfied(s, c) == c \cap s.trail # {}

Init ==
  /\ \E session \in Sessions : script = session.script /\ options = session.options
  /\ formula = {} /\ ok = TRUE /\ store = Empty
  /\ use_simplification = TRUE
  /\ frozen = {} /\ eliminated = {} /\ elimclauses = <<>> /\ bwdsub_assigns = {}
  /\ asynch_interrupt = FALSE /\ interrupts = 0
  /\ pc = "idle" /\ caller = "eliminate"
  /\ cur = [cref |-> 0, lits |-> {}] /\ best = 1 /\ j = 1
  /\ elim = 1 /\ was_frozen = FALSE /\ i = 1 /\ todo = <<>>
  /\ call = [op |-> "none"] /\ extra_frozen = {} /\ assumptions = {}
  /\ result = "none" /\ model = {} /\ conflict = {}
  /\ searched = FALSE /\ curtailed = FALSE

(***************************************************************************)
(* Occurrence lists and the heap.                                          *)
(***************************************************************************)
\* OccLists::lookup: a dirty list is cleaned before it is used.
Lookup(s, x) ==
  [s EXCEPT !.occurs[x] = IF x \in s.dirty THEN @ \cap Live(s) ELSE @,
            !.dirty = @ \ {x}]

\* The n-th entry of an occurrence list.
Nth(list, n) == CHOOSE cr \in list : Cardinality({d \in list : d <= cr}) = n

\* updateElimHeap of the variables of X.
UpdateElimHeap(s, X) ==
  [s EXCEPT !.elim_heap =
     @ \cup {x \in X : x \notin frozen /\ x \notin eliminated /\ Undef(s, x)}]

\* removeMin: a variable with the fewest pairs of clauses to resolve.
Cost(s, x) == s.n_occ[x] * s.n_occ[-x]
Cheapest(s) == {x \in s.elim_heap : \A y \in s.elim_heap : Cost(s, x) <= Cost(s, y)}

\* Variant: the occurrences of the literals are not counted down.
RemoveClauseKeepsCount(s, cr) ==
  LET c == s.db[cr]
  IN UpdateElimHeap([s EXCEPT !.db[cr] = {}, !.dirty = @ \cup VarsOf(c)], VarsOf(c))

RemoveClause(s, cr) ==
  LET c == s.db[cr]
  IN UpdateElimHeap([s EXCEPT !.db[cr] = {},
                              !.n_occ = [l \in Lit |-> IF l \in c THEN @[l] - 1 ELSE @[l]],
                              !.dirty = @ \cup VarsOf(c)], VarsOf(c))

RemoveClauses(s, S) == FoldLeft(RemoveClause, s, SetToSortSeq(S, <))

(***************************************************************************)
(* Unit propagation at level 0, over the clauses C.                        *)
(***************************************************************************)
Closure(T, C) ==
  LET step(U)  == U \cup {l \in Lit : \E c \in C : l \in c /\ c \ {l} \subseteq Neg(U)}
      reach[n \in 0..NVars] == IF n = 0 THEN T ELSE step(reach[n - 1])
  IN reach[NVars]
Contradictory(U, C) == U \cap Neg(U) # {} \/ \E c \in C : c \subseteq Neg(U)

\* The clauses propagate() visits.  It may miss one that was strengthened
\* after one of its literals became false: strengthenClause attaches it to
\* its first two literals, whatever their values.
Late(s) == {cr \in Live(s) : s.db[cr] \cap Neg(s.trail) # {}}
Visited(s) == {{s.db[cr] : cr \in Live(s)}, {s.db[cr] : cr \in Live(s) \ Late(s)}}

\* enqueue(l) and propagate() over C.  (After a conflict `ok' is set to
\* false, and the trail is not read again.)
EnqueueUnit(s, l, C) ==
  LET U == Closure(s.trail \cup {l}, C)
  IN CASE l \in s.trail  -> s
       [] -l \in s.trail \/ Contradictory(U, C) -> [s EXCEPT !.good = FALSE]
       [] OTHER -> [s EXCEPT !.trail = U]

(***************************************************************************)
(* Clauses.                                                                *)
(***************************************************************************)
\* Variant: the occurrences of the literals are not counted.
AllocUncounted(s, c) ==
  LET cr == Len(s.db) + 1
      t  == [s EXCEPT !.db = Append(@, c)]
  IN IF ~use_simplification THEN t
     ELSE [t EXCEPT !.queue = Append(@, cr),
                    !.occurs = [x \in Var |-> IF x \in VarsOf(c) THEN @[x] \cup {cr} ELSE @[x]],
                    !.touched = @ \cup VarsOf(c)]

\* ca.alloc, and what addClause_ notes about a new clause.
Alloc(s, c) ==
  LET cr == Len(s.db) + 1
      t  == [s EXCEPT !.db = Append(@, c)]
  IN IF ~use_simplification THEN t
     ELSE [t EXCEPT !.queue = Append(@, cr),
                    !.occurs = [x \in Var |-> IF x \in VarsOf(c) THEN @[x] \cup {cr} ELSE @[x]],
                    !.n_occ = [l \in Lit |-> IF l \in c THEN @[l] + 1 ELSE @[l]],
                    !.touched = @ \cup VarsOf(c)]

\* Assuming every literal of the clause false leads to a conflict.
Implied(s, c, C) ==
  /\ ~ Satisfied(s, c) /\ c \cap Neg(c) = {}
  /\ LET T == s.trail \cup Neg(c) IN Contradictory(Closure(T, C), C)

\* addClause_, after Solver::addClause_.
AddClause_(s, c, C) ==
  LET kept == c \ Neg(s.trail)
  IN CASE options.use_rcheck /\ Implied(s, c, C) -> s
       [] Satisfied(s, c) \/ c \cap Neg(c) # {}  -> s
       [] kept = {}             -> [s EXCEPT !.good = FALSE]
       [] Cardinality(kept) = 1 -> EnqueueUnit(s, CHOOSE l \in kept : TRUE, C)
       [] OTHER                 -> Alloc(s, kept)

\* Variant: a clause made shorter does not join the queue.
StrengthenUnqueued(s, cr, l, C) ==
  LET c == s.db[cr]
  IN IF Cardinality(c) = 2
     THEN EnqueueUnit(RemoveClause(s, cr), CHOOSE k \in c : k # l, C)
     ELSE UpdateElimHeap([s EXCEPT !.db[cr] = @ \ {l}, !.n_occ[l] = @ - 1,
                                   !.occurs[VarOf(l)] = @ \ {cr}], {VarOf(l)})

\* strengthenClause: l is taken out of the clause; what is left of a clause
\* of two literals is enqueued.
Strengthen(s, cr, l, C) ==
  LET c == s.db[cr]
      q == [s EXCEPT !.queue = Append(@, cr)]
  IN IF Cardinality(c) = 2
     THEN EnqueueUnit(RemoveClause(q, cr), CHOOSE k \in c : k # l, C)
     ELSE UpdateElimHeap([q EXCEPT !.db[cr] = @ \ {l}, !.n_occ[l] = @ - 1,
                                   !.occurs[VarOf(l)] = @ \ {cr}], {VarOf(l)})

\* Clause::subsumes: c subsumes d, or all but one literal of c is in d and
\* the negation of that one is, and can be deleted from d.
Subsumes(c, d) == c \subseteq d
Resolvable(c, d) == {l \in d : -l \in c /\ c \ {-l} \subseteq d}

\* cleanUpClauses, relocAll and Solver::relocAll: the clauses left are moved
\* together, and every reference to them is brought up to date.
CollectGarbage(s) ==
  LET new(cr) == Cardinality({d \in Live(s) : d <= cr})
      queued  == SelectSeq(s.queue, LAMBDA cr : cr \in Live(s))
  IN [s EXCEPT !.db = SelectSeq(@, LAMBDA c : c # {}),
               !.occurs = [x \in Var |-> {new(cr) : cr \in @[x] \cap Live(s)}],
               !.dirty = {},
               !.queue = [n \in DOMAIN queued |-> new(queued[n])]]

(***************************************************************************)
(* The calls of a session.                                                 *)
(***************************************************************************)
Idle == pc = "idle" /\ script # <<>>
NextCall(op) == Idle /\ Head(script).op = op /\ script' = Tail(script)
ClauseArg == ToSet(Head(script).lits)
AssumptionArg == ToSet(Head(script).assumptions)

\* Callers may not mention eliminated variables (asserted in addClause_ and
\* solve_): such a call is left out.
Mentioned == CASE Head(script).op = "clause" -> VarsOf(ClauseArg)
               [] Head(script).op = "solve"  -> VarsOf(AssumptionArg)
               [] OTHER -> {}
Forgo ==
  /\ Idle /\ Mentioned \cap eliminated # {}
  /\ script' = Tail(script)
  /\ UNCHANGED <<formula, ok, store, frozen, eliminated, elimclauses, bwdsub_assigns,
                 pc, caller, callVars, scanVars, varLoop, answer, modes,
                 interruptVars, curtailed>>

\* addClause.
AddClause ==
  /\ NextCall("clause") /\ Mentioned \cap eliminated = {}
  /\ formula' = formula \cup {ClauseArg}
  /\ \E C \in Visited(store) :
       LET s == IF ok THEN AddClause_(store, ClauseArg, C) ELSE store
       IN ok' = (ok /\ s.good) /\ store' = [s EXCEPT !.good = TRUE]
  /\ UNCHANGED <<frozen, eliminated, elimclauses, bwdsub_assigns, pc, caller,
                 callVars, scanVars, varLoop, answer, modes, interruptVars, curtailed>>

\* setFrozen(v, b) for the variables of X; those no longer frozen may go back
\* to the heap.
SetFrozen(X, b) ==
  /\ frozen' = IF b THEN frozen \cup X ELSE frozen \ X
  /\ store' = IF b \/ ~use_simplification THEN store
              ELSE [store EXCEPT !.elim_heap =
                      @ \cup {x \in X : x \notin eliminated /\ Undef(store, x)}]

Freeze ==
  /\ NextCall("freeze")
  /\ SetFrozen({Head(script).x}, Head(script).b)
  /\ UNCHANGED <<formula, ok, eliminated, elimclauses, bwdsub_assigns, pc, caller,
                 callVars, scanVars, varLoop, answer, modes, interruptVars, curtailed>>

\* Where a call that simplifies starts: simplify() fails if ok is false, and
\* nothing is done once use_simplification is.
Start(do_simp) ==
  CASE do_simp /\ ~ok -> "failed"
    [] do_simp /\ use_simplification -> "eliminate"
    [] OTHER -> "search"

\* solve_: assumptions are frozen while variables are eliminated.
Solve ==
  LET do_simp == Head(script).simp /\ use_simplification
      fresh   == IF do_simp THEN VarsOf(AssumptionArg) \ frozen ELSE {}
  IN /\ NextCall("solve") /\ Mentioned \cap eliminated = {}
     /\ call' = [op |-> "solve", simp |-> do_simp, off |-> Head(script).off]
     /\ assumptions' = AssumptionArg
     /\ extra_frozen' = fresh /\ SetFrozen(fresh, TRUE)
     /\ result' = "none" /\ searched' = FALSE
     /\ pc' = Start(do_simp)
     /\ UNCHANGED <<formula, ok, eliminated, elimclauses, bwdsub_assigns, caller,
                    scanVars, varLoop, model, conflict, modes, interruptVars, curtailed>>

\* eliminate(), called by the user.
Eliminate ==
  /\ NextCall("eliminate")
  /\ IF ok /\ use_simplification
     THEN pc' = "eliminate" /\ call' = [op |-> "eliminate", off |-> Head(script).off]
     ELSE UNCHANGED <<pc, call>>
  /\ UNCHANGED <<formula, ok, store, frozen, eliminated, elimclauses, bwdsub_assigns,
                 caller, extra_frozen, assumptions, scanVars, varLoop, answer, modes,
                 interruptVars, curtailed>>

\* interrupt(), from any thread, and clearInterrupt().
Interrupt ==
  /\ ~asynch_interrupt /\ interrupts < MaxInterrupts
  /\ asynch_interrupt' = TRUE /\ interrupts' = interrupts + 1
  /\ UNCHANGED <<script, formula, ok, store, frozen, eliminated, elimclauses,
                 bwdsub_assigns, pc, caller, callVars, scanVars, varLoop, answer,
                 modes, curtailed>>
ClearInterrupt ==
  /\ Idle /\ asynch_interrupt
  /\ asynch_interrupt' = FALSE /\ UNCHANGED interrupts
  /\ UNCHANGED <<script, formula, ok, store, frozen, eliminated, elimclauses,
                 bwdsub_assigns, pc, caller, callVars, scanVars, varLoop, answer,
                 modes, curtailed>>

(***************************************************************************)
(* eliminate(), the main loop.                                             *)
(***************************************************************************)
callerVars == <<script, formula, callVars, answer, modes, interruptVars>>
Unsimplified == store.queue # <<>> \/ store.trail # bwdsub_assigns

\* Variant: touched and n_touched are not reset.
GatherKeepsTouched(s) ==
  LET join(t, x) ==
        LET u == Lookup(t, x)
            new == SetToSortSeq((u.occurs[x] \cap Live(u)) \ ToSet(u.queue), <)
        IN [u EXCEPT !.queue = @ \o new]
  IN FoldLeft(join, s, SetToSortSeq(s.touched, <))

\* gatherTouchedClauses: the clauses with a touched variable that are not in
\* the queue join it.
Gather(s) ==
  LET join(t, x) ==
        LET u == Lookup(t, x)
            new == SetToSortSeq((u.occurs[x] \cap Live(u)) \ ToSet(u.queue), <)
        IN [u EXCEPT !.queue = @ \o new]
  IN [FoldLeft(join, s, SetToSortSeq(s.touched, <)) EXCEPT !.touched = {}]

Loop ==
  /\ pc = "eliminate"
  /\ IF store.touched # {} \/ store.trail # bwdsub_assigns \/ store.elim_heap # {}
     THEN pc' = "backward" /\ caller' = "eliminate" /\ store' = Gather(store)
     ELSE pc' = "cleanup" /\ UNCHANGED <<caller, store>>
  /\ UNCHANGED <<callerVars, ok, frozen, eliminated, elimclauses, bwdsub_assigns,
                 scanVars, varLoop, curtailed>>

\* A function returned false, or true and left its work in s.
Proceed(s, next) ==
  /\ ok' = s.good
  /\ store' = [s EXCEPT !.good = TRUE]
  /\ pc' = IF s.good THEN next ELSE "cleanup"

(***************************************************************************)
(* backwardSubsumptionCheck.                                               *)
(***************************************************************************)
\* On an interrupt the queue is emptied.
BackwardInterrupted ==
  /\ pc = "backward" /\ Unsimplified /\ asynch_interrupt
  /\ store' = [store EXCEPT !.queue = <<>>]
  /\ bwdsub_assigns' = store.trail
  /\ curtailed' = TRUE
  /\ UNCHANGED <<callerVars, ok, frozen, eliminated, elimclauses, pc, caller,
                 scanVars, varLoop>>

\* The clause c is compared with the clauses of its rarest variable.
Scan(s, cr, c) ==
  /\ best' \in {x \in VarsOf(c) : \A y \in VarsOf(c) :
                  Cardinality(s.occurs[x]) <= Cardinality(s.occurs[y])}
  /\ store' = Lookup(s, best')
  /\ cur' = [cref |-> cr, lits |-> c] /\ j' = 1
  /\ pc' = "scan"

\* The queue is empty: a unit clause is made of a literal of the trail.
BackwardUnit ==
  /\ pc = "backward" /\ Unsimplified /\ ~asynch_interrupt /\ store.queue = <<>>
  /\ \E l \in store.trail \ bwdsub_assigns :
       bwdsub_assigns' = bwdsub_assigns \cup {l} /\ Scan(store, 0, {l})
  /\ UNCHANGED <<callerVars, ok, frozen, eliminated, elimclauses, caller, varLoop,
                 curtailed>>

BackwardPop ==
  /\ pc = "backward" /\ ~asynch_interrupt /\ store.queue # <<>>
  /\ LET cr == Head(store.queue)
         s  == [store EXCEPT !.queue = Tail(@)]
     IN IF cr \in Live(store) THEN Scan(s, cr, s.db[cr])
        ELSE store' = s /\ UNCHANGED <<pc, scanVars>>
  /\ UNCHANGED <<callerVars, ok, frozen, eliminated, elimclauses, bwdsub_assigns,
                 caller, varLoop, curtailed>>

\* The comparison with the j-th clause of the list.  A clause of more than two
\* literals that loses best leaves the list, and j stands for the next one.
ScanOne ==
  /\ pc = "scan" /\ j <= Cardinality(store.occurs[best])
  /\ LET cr == Nth(store.occurs[best], j)
         d  == store.db[cr]
         short == options.subsumption_lim = -1 \/ Cardinality(d) < options.subsumption_lim
         next(n, s) == j' = n /\ Proceed(s, "scan")
     IN CASE d = {} \/ cr = cur.cref \/ ~short -> next(j + 1, store)
          [] Subsumes(cur.lits, d) -> next(j + 1, RemoveClause(store, cr))
          [] OTHER ->
               IF Resolvable(cur.lits, d) = {} THEN next(j + 1, store)
               ELSE \E l \in Resolvable(cur.lits, d), C \in Visited(store) :
                      next(IF VarOf(l) = best THEN j ELSE j + 1,
                           Strengthen(store, cr, l, C))
  /\ UNCHANGED <<callerVars, frozen, eliminated, elimclauses, bwdsub_assigns,
                 caller, cur, best, varLoop, curtailed>>

ScanEnd ==
  /\ pc = "scan" /\ j > Cardinality(store.occurs[best])
  /\ pc' = "backward"
  /\ UNCHANGED <<callerVars, ok, store, frozen, eliminated, elimclauses,
                 bwdsub_assigns, caller, scanVars, varLoop, curtailed>>

\* checkGarbage, if enough space is wasted.
CheckGarbage(s) == \E gc \in BOOLEAN : store' = IF gc THEN CollectGarbage(s) ELSE s

\* It returns true: eliminate() looks for an interrupt and goes through the
\* heap, asymmVar() unfreezes its variable, eliminateVar() ends.
BackwardDone ==
  /\ pc = "backward" /\ ~Unsimplified
  /\ CASE caller = "eliminate" /\ asynch_interrupt ->
            /\ store' = [store EXCEPT !.elim_heap = {}]
            /\ pc' = "cleanup" /\ curtailed' = TRUE /\ UNCHANGED frozen
       [] caller = "eliminate" /\ ~asynch_interrupt ->
            pc' = "heap" /\ UNCHANGED <<store, curtailed, frozen>>
       [] caller = "asymmVar" ->
            /\ frozen' = IF was_frozen THEN frozen ELSE frozen \ {elim}
            /\ pc' = "eliminateVar" /\ UNCHANGED <<store, curtailed>>
       [] caller = "eliminateVar" ->
            CheckGarbage(store) /\ pc' = "heap" /\ UNCHANGED <<frozen, curtailed>>
  /\ UNCHANGED <<callerVars, ok, eliminated, elimclauses, bwdsub_assigns, caller,
                 scanVars, varLoop>>

(***************************************************************************)
(* The variables of the heap.                                              *)
(***************************************************************************)
HeapEmpty ==
  /\ pc = "heap" /\ store.elim_heap = {}
  /\ pc' = "eliminate"
  /\ UNCHANGED <<callerVars, ok, store, frozen, eliminated, elimclauses,
                 bwdsub_assigns, caller, scanVars, varLoop, curtailed>>

\* removeMin, an interrupt, a variable that needs nothing, or one to treat;
\* asymmVar() keeps it frozen, and returns at once if it has no clauses.
RemoveMin ==
  /\ pc = "heap" /\ store.elim_heap # {}
  /\ \E x \in Cheapest(store) :
       LET s == [store EXCEPT !.elim_heap = @ \ {x}]
           t == Lookup(s, x)
       IN CASE asynch_interrupt ->
                 /\ store' = s /\ pc' = "eliminate" /\ curtailed' = TRUE
                 /\ UNCHANGED <<frozen, elim, was_frozen, i>>
            [] ~asynch_interrupt /\ (x \in eliminated \/ ~Undef(store, x)) ->
                 /\ store' = s
                 /\ UNCHANGED <<pc, curtailed, frozen, elim, was_frozen, i>>
            [] OTHER ->
                 /\ elim' = x /\ was_frozen' = (x \in frozen) /\ i' = 1
                 /\ IF options.use_asymm /\ t.occurs[x] # {}
                    THEN frozen' = frozen \cup {x} /\ store' = t /\ pc' = "asymmVar"
                    ELSE UNCHANGED frozen /\ pc' = "eliminateVar"
                         /\ store' = IF options.use_asymm THEN t ELSE s
                 /\ UNCHANGED curtailed
  /\ UNCHANGED <<callerVars, ok, eliminated, elimclauses, bwdsub_assigns, caller,
                 scanVars, todo>>

\* asymm: if the other literals of a clause cannot all be false, the literal
\* of the variable (or one that is false already) is taken out.
Asymm ==
  /\ pc = "asymmVar" /\ i <= Cardinality(store.occurs[elim])
  /\ LET cr == Nth(store.occurs[elim], i)
         c  == store.db[cr]
         out == {l \in c : VarOf(l) = elim \/ -l \in store.trail}
     IN IF c = {} \/ Satisfied(store, c) THEN Proceed(store, "asymmVar")
        ELSE \E C \in Visited(store), l \in out :
               LET T == store.trail \cup Neg(c \ out)
               IN IF Contradictory(Closure(T, C), C)
                  THEN Proceed(Strengthen(store, cr, l, C), "asymmVar")
                  ELSE Proceed(store, "asymmVar")
  /\ i' = i + 1
  /\ UNCHANGED <<callerVars, frozen, eliminated, elimclauses, bwdsub_assigns, caller,
                 scanVars, elim, was_frozen, todo, curtailed>>

AsymmEnd ==
  /\ pc = "asymmVar" /\ i > Cardinality(store.occurs[elim])
  /\ pc' = "backward" /\ caller' = "asymmVar"
  /\ UNCHANGED <<callerVars, ok, store, frozen, eliminated, elimclauses,
                 bwdsub_assigns, scanVars, varLoop, curtailed>>

(***************************************************************************)
(* eliminateVar.                                                           *)
(***************************************************************************)
Occurrences(s, l) == {cr \in s.occurs[VarOf(l)] \cap Live(s) : l \in s.db[cr]}

\* merge, for each pair of clauses of pos and neg, in the order of the lists.
Resolvents(s, x) ==
  LET pos == SetToSortSeq(Occurrences(s, x), <)
      neg == SetToSortSeq(Occurrences(s, -x), <)
      pair(n) == (s.db[pos[((n - 1) \div Len(neg)) + 1]]
                    \cup s.db[neg[((n - 1) % Len(neg)) + 1]]) \ {x, -x}
  IN SelectSeq([n \in 1..(Len(pos) * Len(neg)) |-> pair(n)],
               LAMBDA c : c \cap Neg(c) = {})

\* Not too many of them, and none too long.
Worthwhile(s, x, resolvents) ==
  /\ Len(resolvents) <= Cardinality(s.occurs[x]) + options.grow
  /\ options.clause_lim # -1 =>
       \A n \in DOMAIN resolvents : Cardinality(resolvents[n]) <= options.clause_lim

\* mkElimClause: the clauses of the rarer literal, and by default the other one.
ElimClause(l, c) == [lit |-> l, others |-> c \ {l}]

\* Variant: the default value is the one of the literal whose clauses are kept.
DefaultSwapped(s, x) ==
  LET P == Occurrences(s, x)
      N == Occurrences(s, -x)
      stored(l, S) == LET q == SetToSortSeq(S, <) IN [n \in DOMAIN q |-> ElimClause(l, s.db[q[n]])]
  IN IF Cardinality(P) > Cardinality(N)
     THEN Append(stored(-x, N), ElimClause(-x, {}))
     ELSE Append(stored(x, P), ElimClause(x, {}))

Stored(s, x) ==
  LET P == Occurrences(s, x)
      N == Occurrences(s, -x)
      stored(l, S) == LET q == SetToSortSeq(S, <) IN [n \in DOMAIN q |-> ElimClause(l, s.db[q[n]])]
  IN IF Cardinality(P) > Cardinality(N)
     THEN Append(stored(-x, N), ElimClause(x, {}))
     ELSE Append(stored(x, P), ElimClause(-x, {}))

EliminateVar ==
  /\ pc = "eliminateVar"
  /\ LET s == Lookup(store, elim)
         resolvents == Resolvents(s, elim)
     IN IF ~options.use_elim \/ ~Undef(store, elim) \/ elim \in frozen
        THEN CheckGarbage(store) /\ pc' = "heap" /\ UNCHANGED <<eliminated, elimclauses, todo>>
        ELSE IF ~Worthwhile(s, elim, resolvents)
        THEN CheckGarbage(s) /\ pc' = "heap" /\ UNCHANGED <<eliminated, elimclauses, todo>>
        ELSE /\ eliminated' = eliminated \cup {elim}
             /\ elimclauses' = elimclauses \o Stored(s, elim)
             /\ todo' = resolvents
             /\ store' = s /\ pc' = "resolve"
  /\ UNCHANGED <<callerVars, ok, frozen, bwdsub_assigns, caller, scanVars, elim,
                 was_frozen, i, curtailed>>

AddResolvent ==
  /\ pc = "resolve" /\ todo # <<>>
  /\ \E C \in Visited(store) : Proceed(AddClause_(store, Head(todo), C), "resolve")
  /\ todo' = Tail(todo)
  /\ UNCHANGED <<callerVars, frozen, eliminated, elimclauses, bwdsub_assigns, caller,
                 scanVars, elim, was_frozen, i, curtailed>>

\* The clauses of the variable are removed, its list is freed.
RemoveVar ==
  /\ pc = "resolve" /\ todo = <<>>
  /\ store' = [RemoveClauses(store, store.occurs[elim]) EXCEPT !.occurs[elim] = {}]
  /\ pc' = "backward" /\ caller' = "eliminateVar"
  /\ UNCHANGED <<callerVars, ok, frozen, eliminated, elimclauses, bwdsub_assigns,
                 scanVars, varLoop, curtailed>>

(***************************************************************************)
(* The end of eliminate(), the search, and the answer of solve_.           *)
(***************************************************************************)
Freed(s) == [s EXCEPT !.occurs = [x \in Var |-> {}], !.n_occ = [l \in Lit |-> 0],
                      !.touched = {}, !.elim_heap = {}, !.queue = <<>>, !.dirty = {}]

Cleanup ==
  /\ pc = "cleanup"
  /\ IF call.off
     THEN store' = CollectGarbage(Freed(store)) /\ use_simplification' = FALSE
     ELSE store' = CollectGarbage(store) /\ UNCHANGED use_simplification
  /\ pc' = CASE call.op = "eliminate" -> "idle"
             [] call.op = "solve" /\ ok -> "search"
             [] OTHER -> "failed"
  /\ UNCHANGED <<script, formula, ok, frozen, eliminated, elimclauses, bwdsub_assigns,
                 caller, callVars, scanVars, varLoop, answer, options, interruptVars,
                 curtailed>>

\* solve_ returns: the assumptions it froze are unfrozen.
Return(s) ==
  /\ pc' = "idle"
  /\ frozen' = frozen \ extra_frozen
  /\ extra_frozen' = {}
  /\ store' = IF ~use_simplification THEN s
              ELSE [s EXCEPT !.elim_heap =
                      @ \cup {x \in extra_frozen : x \notin eliminated /\ Undef(s, x)}]

\* eliminate() returned false: nothing else is done.
Failed ==
  /\ pc = "failed"
  /\ result' = "l_False" /\ Return(store)
  /\ UNCHANGED <<script, formula, ok, eliminated, elimclauses, bwdsub_assigns, caller,
                 call, assumptions, scanVars, varLoop, model, conflict, searched,
                 modes, interruptVars, curtailed>>

TotalAssignments ==
  {{IF f[x] THEN x ELSE -x : x \in Var} : f \in [Var -> BOOLEAN]}

\* The assignments that satisfy what is left.
Models(s) ==
  {A \in TotalAssignments : s.trail \subseteq A /\ \A cr \in Live(s) : s.db[cr] \cap A # {}}
Implies(M, c) == \A A \in M : A \cap c # {}

\* Variant: from the first clause on.
ExtendForwards(A, stored) ==
  FoldLeft(LAMBDA m, e : IF e.others \subseteq Neg(m) THEN (m \ {-e.lit}) \cup {e.lit} ELSE m,
           A, stored)

\* extendModel: backwards through elimclauses, a clause whose other literals
\* are false makes its first one true.
ExtendModel(A, stored) ==
  FoldLeft(LAMBDA m, e : IF e.others \subseteq Neg(m) THEN (m \ {-e.lit}) \cup {e.lit} ELSE m,
           A, Reverse(stored))

\* Solver::solve_ over the clauses left; it may find literals of level 0.
\* Eliminated variables are no decision variables: they have no value.
Search ==
  LET M == Models(store)
      units == {l \in Lit : VarOf(l) \notin eliminated /\ Implies(M, {l})}
      sat == {A \in M : assumptions \subseteq A}
      found(U) == Return([store EXCEPT !.trail = @ \cup U])
  IN /\ pc = "search" /\ searched' = TRUE
     /\ \/ /\ ok /\ \E U \in {{}, units} : found(U)
           /\ \E A \in sat :
                model' = ExtendModel({l \in A : VarOf(l) \notin eliminated}, elimclauses)
           /\ result' = "l_True" /\ conflict' = {} /\ UNCHANGED ok
        \/ /\ ok /\ sat = {} /\ found(IF M = {} THEN {} ELSE units)
           /\ conflict' \in {c \in SUBSET Neg(assumptions) : Implies(M, c)}
           /\ result' = "l_False" /\ model' = {} /\ ok' = (conflict' # {})
        \/ /\ ok /\ asynch_interrupt /\ Return(store)
           /\ result' = "l_Undef" /\ model' = {} /\ conflict' = {} /\ UNCHANGED ok
        \/ /\ ~ok /\ Return(store)
           /\ result' = "l_False" /\ model' = {} /\ conflict' = {} /\ UNCHANGED ok
     /\ UNCHANGED <<script, formula, eliminated, elimclauses, bwdsub_assigns, caller,
                    call, assumptions, scanVars, varLoop, modes, interruptVars, curtailed>>

EndScript == pc = "idle" /\ script = <<>> /\ UNCHANGED vars

SolveStep ==
  \/ Loop \/ BackwardInterrupted \/ BackwardUnit \/ BackwardPop \/ ScanOne \/ ScanEnd
  \/ BackwardDone \/ HeapEmpty \/ RemoveMin \/ Asymm \/ AsymmEnd \/ EliminateVar
  \/ AddResolvent \/ RemoveVar \/ Cleanup \/ Failed \/ Search

Next == \/ SolveStep \/ Forgo \/ AddClause \/ Freeze \/ Solve \/ Eliminate
        \/ Interrupt \/ ClearInterrupt \/ EndScript

\* The thread that called solve() or eliminate() runs on.  (Weak fairness of
\* SolveStep, which is enabled whenever pc is not "idle".)
Fairness == []<>(pc = "idle") \/ []<><<SolveStep>>_vars

Spec == Init /\ [][Next]_vars /\ Fairness
-----------------------------------------------------------------------------
ElimTypeOK ==
  /\ formula \in SUBSET SUBSET Lit
  /\ ok \in BOOLEAN /\ use_simplification \in BOOLEAN /\ was_frozen \in BOOLEAN
  /\ store.good /\ store.n_occ \in [Lit -> 0..Len(store.db)]
  /\ \A cr \in DOMAIN store.db : store.db[cr] \subseteq Lit
  /\ store.occurs \in [Var -> SUBSET DOMAIN store.db]
  /\ store.dirty \cup store.touched \cup store.elim_heap \subseteq Var
  /\ store.trail \subseteq Lit /\ bwdsub_assigns \subseteq store.trail
  /\ ToSet(store.queue) \subseteq DOMAIN store.db
  /\ frozen \cup eliminated \cup extra_frozen \subseteq Var /\ elim \in Var /\ best \in Var
  /\ result \in {"none", "l_True", "l_False", "l_Undef"}

FormulaModels == {A \in TotalAssignments : \A c \in formula : c \cap A # {}}

\* At every moment, in the middle of a simplification too, what is left means
\* what was added: each model of the formula satisfies it, each assignment
\* that satisfies it is extended by extendModel() to a model of the formula,
\* and `ok' is false only if there is none.
NothingLost ==
  IF ~ok THEN FormulaModels = {}
  ELSE LET M == Models(store)
       IN /\ FormulaModels \subseteq M
          /\ \A A \in M : ExtendModel({l \in A : VarOf(l) \notin eliminated}, elimclauses)
                            \in FormulaModels

\* The lists cleaned late agree with the clauses: none is missing from the
\* list of one of its variables, a list that is not dirty holds nothing else,
\* each literal is counted as often as it occurs, and no clause is left with
\* an eliminated variable once eliminateVar() has removed its own.
OccurrencesExact ==
  (use_simplification /\ ok) =>
    /\ \A x \in Var :
         LET with == {cr \in Live(store) : x \in VarsOf(store.db[cr])}
         IN /\ with \subseteq store.occurs[x]
            /\ x \notin store.dirty => store.occurs[x] = with
            /\ (x \in eliminated /\ pc # "resolve") => with = {}
    /\ \A l \in Lit :
         store.n_occ[l] = Cardinality({cr \in Live(store) : l \in store.db[cr]})

\* When eliminate() comes to its end without an interrupt, the work is done:
\* no clause that is left subsumes or shortens another, none is satisfied or
\* holds a literal that is false at level 0.
Simplified ==
  (pc = "cleanup" /\ ok /\ ~curtailed /\ options.subsumption_lim = -1) =>
    \A cr \in Live(store) :
      /\ VarsOf(store.db[cr]) \cap VarsOf(store.trail) = {}
      /\ \A d \in Live(store) \ {cr} :
           ~Subsumes(store.db[cr], store.db[d]) /\ Resolvable(store.db[cr], store.db[d]) = {}

NoConstraint(A, c) == FALSE
Sat == INSTANCE IncrementalSat WITH
         Total <- TotalAssignments, Meets <- NoConstraint, constraints <- {},
         asked <- assumptions, busy <- (call.op = "solve" /\ pc # "idle"),
         answer <- result,
         model <- (IF searched THEN model ELSE {}),
         conflict <- (IF searched THEN conflict ELSE {})

\* A solver that eliminates variables still implements IncrementalSat, over
\* several calls: its models satisfy every clause ever added, its refusals
\* and cores are right.  (When eliminate() refutes the formula, solve_() returns
\* l_False and clears neither model nor conflict, SimpSolver.cc:186-192.  What
\* an earlier call left there is taken as empty: hence `searched'.)
AnswersAreRight == Sat!Spec

\* The loops of eliminate() come to an end, whatever they add and remove.
CallsReturn == pc # "idle" ~> pc = "idle"

\* core/Solver.h:203: `If problem is satisfiable, this vector contains the
\* model', with the clauses that use_rcheck finds implied left out.
ModelIsModel == result = "l_True" => model \in FormulaModels
=============================================================================
