------------------------------ MODULE MCSolver ------------------------------
(* Small instances of Solver for TLC: what users of the class call. *)
EXTENDS Solver

clause(lits)     == [op |-> "clause", lits |-> lits]
constraint       == [op |-> "constraint"]
block            == [op |-> "block"]
solve(assumed)   == [op |-> "solve", assumptions |-> assumed]

\* The scripts of S, with bounds on the restarts and reductions in them.
Limited(S, r, d) ==
  {[calls |-> s, limits |-> [restarts |-> r, reductions |-> d]] : s \in S}

\* Clauses only: conflicts that learn long clauses; solving again after more
\* clauses, under assumptions; and the loop that counts models.
ClauseScripts ==
  { <<clause(<<-1, -2, -3, 4>>), clause(<<-1, -2, -3, -4>>), clause(<<1, 2>>),
      clause(<<1, 3, -4>>), solve(<<>>)>>,
    <<clause(<<1, 2, 3>>), clause(<<-1, 2>>), clause(<<-2, 3>>), clause(<<4>>),
      solve(<<>>), block, solve(<<-3>>), block, solve(<<2>>)>>,
    <<clause(<<1, 2>>), clause(<<-1, -2, -4>>), clause(<<-1, 3>>), clause(<<4, 4>>),
      clause(<<4, 1>>),
      solve(<<-3>>), block, solve(<<>>), block, solve(<<>>)>>,
    <<clause(<<1, 2>>), clause(<<-1, 3>>), clause(<<-2, 3>>), clause(<<-3, 4, 1>>),
      solve(<<-1, 3, -2>>), clause(<<-1, -4>>), solve(<<-2, 4>>), clause(<<-3>>), solve(<<>>)>>,
    <<clause(<<-1, 2>>), clause(<<-2, -3, 4>>), clause(<<-2, -3, -4>>),
      solve(<<>>)>>,
    <<clause(<<1>>), clause(<<-1, 2>>), clause(<<-2, -1>>), solve(<<3>>)>> }

\* Constraints among the clauses.
MCProblem == <<[kind |-> "AtMost", lits |-> <<1, 2, 3, 4>>, threshold |-> 2],
               XR!Make(<<3, -4, 5>>, 1)>>
MCWatch == [c \in 1..2 |-> WatchesOf(MCProblem[c])]
RestartScripts ==
  { <<clause(<<1, 2>>), constraint, clause(<<-2, -4, 3>>), constraint, solve(<<-1, 2, 4>>),
      clause(<<-4>>), solve(<<2>>)>> }
ConstraintScripts ==
  { <<constraint, clause(<<1, 3>>), constraint, clause(<<2, -3, 5>>), clause(<<-3, 4>>),
      solve(<<>>), solve(<<-1, 3>>), solve(<<-5, 3>>)>>,
    <<constraint, constraint, clause(<<1, 2, 3>>), clause(<<2, 3, 4>>), clause(<<3, 4, 5>>),
      clause(<<-5, 1, 4>>), clause(<<2, -5, 1>>), solve(<<>>)>>,
    <<clause(<<1, 2>>), constraint, clause(<<-2, -4, 3>>), constraint, solve(<<-1, 2, 4>>),
      clause(<<-4>>), solve(<<2>>), block, clause(<<3>>), solve(<<5>>)>> }

SearchScripts ==
  Limited({<<clause(<<5>>)>> \o s : s \in ClauseScripts}, 1, 1) \cup Limited(ConstraintScripts, 0, 0)
    \cup Limited(RestartScripts, 1, 0)

\* An assumption fails because of a literal a constraint implied.
CoreScripts ==
  Limited({ <<constraint, clause(<<2, 3, 4>>), solve(<<1, 4>>), solve(<<2, 1, 3>>)>> }, 1, 0)
=============================================================================
