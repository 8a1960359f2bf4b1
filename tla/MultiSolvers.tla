---------------------------- MODULE MultiSolvers ----------------------------
(***************************************************************************)
(* MultiSolvers::solve() and ParallelSolver::solve_() (parallel/): one     *)
(* thread per solver, all on the same formula; they share what they learn  *)
(* and stop when the first of them has an answer, for which the main       *)
(* thread waits.  Search itself is taken at its word: it learns what       *)
(* follows and answers right.  A step ends where a mutex is released.      *)
(*                                                                         *)
(* This is the code as it is written.  CMakeLists.txt does not compile     *)
(* parallel/, MultiSolvers.cc:206 and :213 do not fit the types of         *)
(* core/Solver.h any more, and Solver::propagate() aborts if               *)
(* useUnaryWatched is set (Solver.cc:1307), as ParallelSolver.cc:85 always *)
(* sets it: Conflict, Restart and LearnClause go on as if that line were   *)
(* not there.  Budgets and interrupts are left out.                        *)
(***************************************************************************)
EXTENDS SharedCompanion, FiniteSets

CONSTANTS
  Var,
  Setups \* removeolder: the option of that name; satisfiable: has the formula
         \* a model?  simplify: do the threads run eliminate() themselves?
         \* answers: may search come to its end?  units, lemmas: what search may
         \* learn (lemmas of each thread); exports: bound on what is learnt

VARIABLES
  setup,
  pc, status, \* of each thread: where it is, the status of its solve_()
  fixed,      \* the literals each thread has on its trail at level 0
  exports,    \* clauses and literals learnt so far
  hasModel,   \* the threads that have copied their model
  main,       \* where the main thread is
  launched, joined, \* threads created, threads joined
  result

workerVars == <<pc, status, fixed, exports, hasModel>>
mainVars   == <<main, launched, joined, result>>
vars == <<setup, workerVars, mainVars, unitVars, clauseVars, jobVars>>

Literal == Var \cup {-x : x \in Var}

Init ==
  /\ setup \in Setups
  /\ CompanionInit(Var, setup.removeolder)
  /\ pc = [t \in Thread |-> "none"] /\ status = [t \in Thread |-> "l_Undef"]
  /\ fixed = [t \in Thread |-> {}] /\ exports = 0 /\ hasModel = {}
  /\ main = "launch" /\ launched = 0 /\ joined = 0 /\ result = "l_Undef"

Goto(t, place) == pc' = [pc EXCEPT ![t] = place]
Answer(t, verdict) == status' = [status EXCEPT ![t] = verdict] /\ Goto(t, "report")

(***************************************************************************)
(* A solver thread.                                                        *)
(***************************************************************************)
\* Variant: the threads do not look whether another one is done.
LoopForever(t) == Goto(t, "units")

\* while (status == l_Undef && !sharedcomp->jobFinished()) status = search()
Loop(t) == Goto(t, IF bjobFinished THEN "report" ELSE "units")

\* solve_() up to the loop: with simplification, eliminate() may find the
\* formula unsatisfiable; then solve_ returns at once, and neither IFinished()
\* nor the signal is reached.
Begin(t) ==
  /\ pc[t] = "begin"
  /\ \/ Loop(t) /\ UNCHANGED status
     \/ /\ setup.simplify /\ ~setup.satisfiable
        /\ Goto(t, "done") /\ status' = [status EXCEPT ![t] = "l_False"]
  /\ UNCHANGED <<setup, fixed, exports, hasModel, mainVars, unitVars, clauseVars, jobVars>>

\* parallelImportUnaryClauses, one literal at a time.
ImportUnary(t) ==
  /\ pc[t] = "units"
  /\ IF HasUnary(t)
     THEN /\ GetUnary(t)
          /\ LET l == NextUnary(t)
             IN fixed' = [fixed EXCEPT ![t] = IF -l \in @ THEN @ ELSE @ \cup {l}]
          /\ UNCHANGED pc
     ELSE Goto(t, "clauses") /\ UNCHANGED <<fixed, unitVars>>
  /\ UNCHANGED <<setup, status, exports, hasModel, mainVars, clauseVars, jobVars>>

\* parallelImportClauses, one clause at a time; an empty one ends the search.
ImportClause(t) ==
  /\ pc[t] = "clauses"
  /\ GetNewClause(t)
  /\ \/ got'.from = t /\ Goto(t, "search") /\ UNCHANGED status
     \/ got'.from # t /\ got'.lits = <<>> /\ Answer(t, "l_False")
     \/ got'.from # t /\ got'.lits # <<>> /\ UNCHANGED <<pc, status>>
  /\ UNCHANGED <<setup, fixed, exports, hasModel, mainVars, unitVars, jobVars>>

\* search(): a conflict.  If another thread is done, search() returns and the
\* loop finds the same.
Conflict(t) ==
  /\ pc[t] = "search"
  /\ Goto(t, IF bjobFinished THEN "report" ELSE "conflict")
  /\ UNCHANGED <<setup, status, fixed, exports, hasModel, mainVars, unitVars, clauseVars,
                 jobVars>>

\* A conflict of level 0.
Refute(t) ==
  /\ pc[t] = "conflict" /\ setup.answers /\ ~setup.satisfiable
  /\ Answer(t, "l_False")
  /\ UNCHANGED <<setup, fixed, exports, hasModel, mainVars, unitVars, clauseVars, jobVars>>

Learns(t) ==
  /\ pc[t] = "conflict"
  /\ exports < setup.exports /\ exports' = exports + 1

\* A unit is learnt and exported; the search goes on at level 0.
LearnUnit(t) ==
  /\ Learns(t)
  /\ \E l \in setup.units :
       /\ l \notin fixed[t] /\ -l \notin fixed[t]
       /\ fixed' = [fixed EXCEPT ![t] = @ \cup {l}]
       /\ AddUnary(l)
  /\ Goto(t, "units")
  /\ UNCHANGED <<setup, status, hasModel, mainVars, clauseVars, jobVars>>

\* A clause is shared, at once or when it is used again; its sender does not
\* care whether it was refused.
LearnClause(t) ==
  /\ Learns(t)
  /\ \E c \in setup.lemmas[t] : AddClause(t, c)
  /\ Goto(t, "search")
  /\ UNCHANGED <<setup, status, fixed, hasModel, mainVars, unitVars, jobVars>>

\* What is learnt is kept to oneself.
LearnAlone(t) ==
  /\ pc[t] = "conflict" /\ Goto(t, "search")
  /\ UNCHANGED <<setup, status, fixed, exports, hasModel, mainVars, unitVars, clauseVars,
                 jobVars>>

\* No conflict: a restart, or a model.
Restart(t) ==
  /\ pc[t] = "search" /\ Loop(t)
  /\ UNCHANGED <<setup, status, fixed, exports, hasModel, mainVars, unitVars, clauseVars,
                 jobVars>>

ModelFound(t) ==
  /\ pc[t] = "search" /\ setup.answers /\ setup.satisfiable
  /\ Answer(t, "l_True")
  /\ UNCHANGED <<setup, fixed, exports, hasModel, mainVars, unitVars, clauseVars, jobVars>>

\* After the loop.
Report(t) ==
  /\ pc[t] = "report"
  /\ IF status[t] = "l_Undef" THEN UNCHANGED jobVars ELSE IFinished(t)
  /\ Goto(t, IF status[t] # "l_Undef" /\ First THEN "publish" ELSE "signal")
  /\ UNCHANGED <<setup, status, fixed, exports, hasModel, mainVars, unitVars, clauseVars>>

\* sharedcomp->jobStatus = status, under no mutex.
Publish(t) ==
  /\ pc[t] = "publish"
  /\ jobStatus' = status[t]
  /\ Goto(t, IF status[t] = "l_True" THEN "copy" ELSE "signal")
  /\ UNCHANGED <<setup, status, fixed, exports, hasModel, mainVars, unitVars, clauseVars,
                 bjobFinished, jobFinishedBy>>

Copy(t) ==
  /\ pc[t] = "copy"
  /\ hasModel' = hasModel \cup {t}
  /\ Goto(t, "signal")
  /\ UNCHANGED <<setup, status, fixed, exports, mainVars, unitVars, clauseVars, jobVars>>

\* pthread_cond_signal reaches the main thread only if it is waiting.
Signal(t) ==
  /\ pc[t] = "signal" /\ Goto(t, "done")
  /\ main' = IF main = "waiting" THEN "join" ELSE main
  /\ UNCHANGED <<setup, status, fixed, exports, hasModel, launched, joined, result,
                 unitVars, clauseVars, jobVars>>

Worker(t) ==
  \/ Begin(t) \/ ImportUnary(t) \/ ImportClause(t) \/ Conflict(t) \/ Refute(t) \/ LearnUnit(t)
  \/ LearnClause(t) \/ LearnAlone(t) \/ Restart(t) \/ ModelFound(t)
  \/ Report(t) \/ Publish(t) \/ Copy(t) \/ Signal(t)

(***************************************************************************)
(* The main thread.                                                        *)
(***************************************************************************)
Launch ==
  /\ main = "launch"
  /\ IF launched < nbThreads
     THEN pc' = [pc EXCEPT ![launched] = "begin"] /\ launched' = launched + 1 /\ UNCHANGED main
     ELSE main' = "wait" /\ UNCHANGED <<pc, launched>>
  /\ UNCHANGED <<setup, status, fixed, exports, hasModel, joined, result, unitVars,
                 clauseVars, jobVars>>

\* pthread_cond_timedwait.  It returns after a time-out, and the loop goes
\* round; or for no reason at all, and the loop is left.
Wait ==
  /\ \/ main = "wait" /\ main' = "waiting"
     \/ main = "waiting" /\ main' \in {"wait", "join"}
  /\ UNCHANGED <<setup, workerVars, launched, joined, result, unitVars, clauseVars, jobVars>>

\* pthread_join of each thread, then the result.
Join ==
  /\ main = "join"
  /\ IF joined < nbThreads
     THEN pc[joined] = "done" /\ joined' = joined + 1 /\ UNCHANGED <<main, result>>
     ELSE main' = "returned" /\ result' = jobStatus /\ UNCHANGED joined
  /\ UNCHANGED <<setup, workerVars, launched, unitVars, clauseVars, jobVars>>

Main == Launch \/ Wait \/ Join

Returned == main = "returned" /\ UNCHANGED vars

Next == Main \/ Returned \/ \E t \in Thread : Worker(t)

\* Every thread that can run does so in the end.  (The second part is weak
\* fairness of each solver, which is enabled unless it rests, written so that
\* TLC need not work that out.)
Fairness ==
  /\ WF_vars(Main)
  /\ \A t \in Thread : []<>(pc[t] \in {"none", "done"}) \/ []<><<Worker(t)>>_vars

Spec == Init /\ [][Next]_vars /\ Fairness
-----------------------------------------------------------------------------
\* The ring is what its readers take it for: the sizes lead from `last' over
\* every clause to `first', queuesize counts the words between, each thread
\* stands at the beginning of a clause, a clause has as many readers left as
\* threads that have not passed it, and one that all have read is not kept
\* at the end of the ring.
RingExact ==
  LET b  == clausesBuffer
      ps == Positions(b)
      end == addIndex(b.first, maxsize - 1)
      far(p) == (p - b.last + maxsize) % maxsize
      words[n \in Nat] == IF n = 0 THEN 0 ELSE words[n - 1] + SizeAt(b, ps[n]) + headerSize
  IN /\ \A n \in DOMAIN ps :
          /\ ps[n] # -1 /\ OriginAt(b, ps[n]) \in Thread
          /\ UnseenAt(b, ps[n]) = Cardinality({t \in Thread \ {OriginAt(b, ps[n])} :
                                                far(b.lastOfThread[t]) <= far(ps[n])})
          /\ n = 1 => UnseenAt(b, ps[n]) # 0
     /\ words[Len(ps)] = b.queuesize
     /\ \A t \in Thread : \E p \in {end} \cup {ps[n] : n \in DOMAIN ps} : b.lastOfThread[t] = p

Clause == UNION {UNION {s.lemmas[t] : t \in Thread} : s \in Setups}
Board == INSTANCE Blackboard WITH
           mayForget <- whenFullRemoveOlder,
           unread <- [t \in Thread |-> Unread(clausesBuffer, t)],
           news <- [t \in Thread |-> SubSeq(unitLit, nextUnit[t] + 1, Len(unitLit))],
           known <- {unitLit[n] : n \in DOMAIN unitLit}

\* The ring of words, its counters and its positions are a queue of clauses
\* for each thread: nothing a thread gets is torn, its own, doubled or out of
\* order, and getNewClause() gives nothing only if nothing is left.
Delivered == Board!Spec

\* When solve() returns, no thread is still running, and its answer is that of
\* the first thread to report one with IFinished(), which has left its model.
\* It is l_Undef only if nobody reported: then eliminate() has refuted the
\* formula in every thread, each has ended with l_False, and these answers are
\* lost (ParallelSolver.cc:460 returns before IFinished()).
ResultOfWinner ==
  main = "returned" =>
    /\ \A t \in Thread : pc[t] = "done"
    /\ IF bjobFinished
       THEN /\ result = status[jobFinishedBy] /\ result # "l_Undef"
            /\ result = "l_True" => jobFinishedBy \in hasModel
       ELSE /\ result = "l_Undef"
            /\ setup.simplify /\ ~setup.satisfiable
            /\ \A t \in Thread : status[t] = "l_False"

\* Once one thread has reported an answer, all of them stop.  (A thread that is
\* refuted in eliminate() reports nothing and stops no other.)
WorkersStop == bjobFinished ~> \A t \in Thread : pc[t] \in {"none", "done"}

\* parallel/ParallelSolver.h: `condition variable that says that a thread as
\* finished': when one has, solve() returns.
SolveReturns == bjobFinished ~> main = "returned"
=============================================================================
