-------------------------- MODULE SharedCompanion --------------------------
(***************************************************************************)
(* SharedCompanion (parallel/SharedCompanion.cc): what the threads share,  *)
(* each operation under its mutex and so one step of the thread that calls *)
(* it.                                                                     *)
(***************************************************************************)
EXTENDS ClausesBuffer

VARIABLES
  whenFullRemoveOlder, \* the option removeolder
  clausesBuffer,
  got,                 \* history: what the last getNewClause() gave, and to whom
  unitLit, isUnary, nextUnit,
  bjobFinished, jobFinishedBy, jobStatus

unitVars   == <<unitLit, isUnary, nextUnit>>
clauseVars == <<whenFullRemoveOlder, clausesBuffer, got>>
jobVars    == <<bjobFinished, jobFinishedBy, jobStatus>>

NoThread == -1
VarOf(l) == IF l > 0 THEN l ELSE -l

\* Constructed, newVar() for the variables of X, addSolver() for each thread,
\* setNbThreads().
CompanionInit(X, removeolder) ==
  /\ whenFullRemoveOlder = removeolder
  /\ clausesBuffer = EmptyBuffer /\ got = Nothing(0)
  /\ unitLit = <<>> /\ isUnary = [x \in X |-> "l_Undef"]
  /\ nextUnit = [t \in Thread |-> 0]
  /\ bjobFinished = FALSE /\ jobFinishedBy = NoThread /\ jobStatus = "l_Undef"

\* addLearnt(s, unary).
AddUnary(l) ==
  /\ IF isUnary[VarOf(l)] = "l_Undef"
     THEN /\ unitLit' = Append(unitLit, l)
          /\ isUnary' = [isUnary EXCEPT ![VarOf(l)] = IF l < 0 THEN "l_False" ELSE "l_True"]
     ELSE UNCHANGED <<unitLit, isUnary>>
  /\ UNCHANGED nextUnit

\* getUnary(s), if there is one and if there is none.
HasUnary(t) == nextUnit[t] < Len(unitLit)
NextUnary(t) == unitLit[nextUnit[t] + 1]
GetUnary(t) ==
  /\ nextUnit' = [nextUnit EXCEPT ![t] = @ + 1]
  /\ UNCHANGED <<unitLit, isUnary>>

\* addLearnt(s, c).
AddClause(t, c) ==
  /\ clausesBuffer' = pushClause(clausesBuffer, t, c, whenFullRemoveOlder)
  /\ UNCHANGED <<whenFullRemoveOlder, got>>

GetNewClause(t) ==
  LET r == getClause(clausesBuffer, t)
  IN /\ clausesBuffer' = r.b /\ got' = r.got
     /\ UNCHANGED whenFullRemoveOlder

\* IFinished(s): is s the first one?
First == ~bjobFinished
\* Variant: the last one counts.
FinishAgain(t) ==
  /\ bjobFinished' = TRUE /\ jobFinishedBy' = t
  /\ UNCHANGED jobStatus

IFinished(t) ==
  /\ IF First THEN bjobFinished' = TRUE /\ jobFinishedBy' = t
     ELSE UNCHANGED <<bjobFinished, jobFinishedBy>>
  /\ UNCHANGED jobStatus
=============================================================================
