-------------------------- MODULE ConstraintEngine --------------------------
(***************************************************************************)
(* The constraints of constraints/*.cc at work in the protocol of Trail:   *)
(* every action of Trail is kept, with what the constraints compute in it. *)
(* Clauses stay abstract: between two calls of a constraint they may imply *)
(* any literal.                                                            *)
(***************************************************************************)
EXTENDS Trail

AM == INSTANCE AtMost
XR == INSTANCE Xor
OL == INSTANCE OrderEncodingLinear
DE == INSTANCE DirectEncodingExtension
AV == INSTANCE Connected
GD == INSTANCE GraphDivision

CONSTANTS
  Problem,      \* Problem[c]: the kind and the parameters of constraint c
  AllowRevisits \* bound: FALSE leaves out the additions described at Revisits

VARIABLES
  cs,               \* the state of each constraint object
  nc_reason,        \* the constraint that implied a variable, or 0 (nullptr)
  enqueue_failure,  \* the true literal whose negation a constraint enqueued
  enq,              \* literals the running call has still to enqueue
  ret,              \* what the running call returns
  confl             \* the constraint propagate() returned, or 0 (nullptr)

engineVars == <<cs, nc_reason, enqueue_failure, enq, ret, confl>>
vars == <<trailVars, engineVars>>

(***************************************************************************)
(* Dispatch on the class of a constraint.                                  *)
(***************************************************************************)
WatchesOf(k) ==
  CASE k.kind = "AtMost"    -> AM!Watches(k)
    [] k.kind = "Xor"       -> XR!Watches(k)
    [] k.kind = "Linear"    -> OL!Watches(k)
    [] k.kind = "Direct"    -> DE!Watches(k)
    [] k.kind = "Connected" -> AV!Watches(k)
    [] k.kind = "Division"  -> GD!Watches(k)
StartOf(k, A) ==
  CASE k.kind = "AtMost"    -> AM!Start(k)
    [] k.kind = "Xor"       -> XR!Start(k)
    [] k.kind = "Linear"    -> OL!Start(k)
    [] k.kind = "Direct"    -> DE!Start(k)
    [] k.kind = "Connected" -> AV!Start(k, A)
    [] k.kind = "Division"  -> GD!Start(k)
PropagateOf(k, s, A, p, late) ==
  CASE k.kind = "AtMost"    -> AM!Propagate(k, s, p)
    [] k.kind = "Xor"       -> XR!Propagate(k, s, p)
    [] k.kind = "Linear"    -> OL!Propagate(k, s, p)
    [] k.kind = "Direct"    -> DE!Propagate(k, s, p)
    [] k.kind = "Connected" -> AV!Propagate(k, s, p, late)
    [] k.kind = "Division"  -> GD!Propagate(s, A, GD!Check(k, A), late)
InitEndOf(k, s, A) ==
  CASE k.kind = "AtMost"    -> AM!InitEnd(k, s, A)
    [] k.kind = "Xor"       -> XR!InitEnd(k, s)
    [] k.kind = "Linear"    -> OL!InitEnd(k, s)
    [] k.kind = "Direct"    -> DE!InitEnd(k, s)
    [] k.kind = "Connected" -> AV!InitEnd(k, s)
    [] k.kind = "Division"  -> GD!InitEnd(k, s, GD!Check(k, A))
SkipsAssignedOf(k) ==
  CASE k.kind = "AtMost"    -> AM!SkipsAssigned
    [] k.kind = "Xor"       -> XR!SkipsAssigned
    [] k.kind = "Linear"    -> OL!SkipsAssigned
    [] k.kind = "Direct"    -> DE!SkipsAssigned
    [] k.kind = "Connected" -> AV!SkipsAssigned
    [] k.kind = "Division"  -> GD!SkipsAssigned
ReasonOf(k, s, p, extra) ==
  CASE k.kind = "AtMost"    -> AM!Reason(k, s, assigns, p, extra)
    [] k.kind = "Xor"       -> XR!Reason(k, s, assigns, p, extra)
    [] k.kind = "Linear"    -> OL!Reason(k, s, assigns, p, extra)
    [] k.kind = "Direct"    -> DE!Reason(k, s, assigns, p, extra)
    [] k.kind = "Connected" -> AV!Reason(k, s, p, extra)
    [] k.kind = "Division"  -> GD!Reason(k, s, p, extra)
UndoneOf(k, s, p) ==
  CASE k.kind = "AtMost"    -> AM!Undone(k, s, p)
    [] k.kind = "Xor"       -> XR!Undone(k, s, p)
    [] k.kind = "Linear"    -> OL!Undone(k, s, p)
    [] k.kind = "Direct"    -> DE!Undone(k, s, p)
    [] k.kind = "Connected" -> AV!Undone(k, s, p)
    [] k.kind = "Division"  -> GD!Undone(k, s, p)
HoldsFor(k, A) ==
  CASE k.kind = "AtMost"    -> AM!Holds(k, A)
    [] k.kind = "Xor"       -> XR!Holds(k, A)
    [] k.kind = "Linear"    -> OL!Holds(k, A)
    [] k.kind = "Direct"    -> DE!Holds(k, A)
    [] k.kind = "Connected" -> AV!Holds(k, A)
    [] k.kind = "Division"  -> GD!Holds(k, A)
InSyncOf(k, s, K) ==
  CASE k.kind = "AtMost"    -> AM!InSync(k, s, K)
    [] k.kind = "Xor"       -> XR!InSync(k, s, K)
    [] k.kind = "Linear"    -> OL!InSync(k, s, K)
    [] k.kind = "Direct"    -> DE!InSync(k, s, K)
    [] k.kind = "Connected" -> AV!InSync(k, s, K)
    [] k.kind = "Division"  -> GD!InSync(k, s, K)
PresumesOf(k, A) ==
  CASE k.kind = "AtMost"    -> AM!Presumes(k, A)
    [] k.kind = "Xor"       -> XR!Presumes(k, A)
    [] k.kind = "Linear"    -> OL!Presumes(k, A)
    [] k.kind = "Direct"    -> DE!Presumes(k, A)
    [] k.kind = "Connected" -> AV!Presumes(k, A)
    [] k.kind = "Division"  -> GD!Presumes(k, A)

ASSUME EngineAssumption ==
  /\ AllowRevisits \in BOOLEAN
  /\ \A c \in Constr : Watch[c] = WatchesOf(Problem[c])

(***************************************************************************)
(* One run of code in a constraint.  It starts in a state r of the object  *)
(* and of the assignment, and collects the literals it enqueues, the one   *)
(* it fails to enqueue, and whether it goes on.                            *)
(***************************************************************************)
Run(s, pending, failure) ==
  [s |-> s, A |-> assigns, enq |-> <<>>, failure |-> failure, good |-> TRUE,
   calls |-> 0, pending |-> pending]

\* Solver::enqueue(l, this), after which a false result is returned at once.
TryEnqueue(k, r, l) ==
  CASE ~r.good \/ l \in r.A -> r
    [] -l \in r.A -> IF SkipsAssignedOf(k) THEN r
                     ELSE [r EXCEPT !.failure = -l, !.good = FALSE]
    [] OTHER -> [r EXCEPT !.A = @ \cup {l}, !.enq = Append(@, l),
                          !.pending = IF l \in WatchesOf(k) THEN @ + 1 ELSE @]

\* The run goes on to state o.s, enqueues and returns.  (Only GraphDivision
\* enqueues anything before it finds a conflict.)
Finish(k, r, o) ==
  LET tried[n \in 0..Len(o.wanted)] ==
        IF n = 0 THEN [r EXCEPT !.s = o.s] ELSE TryEnqueue(k, tried[n - 1], o.wanted[n])
  IN [tried[Len(o.wanted)] EXCEPT !.good = @ /\ o.accepts]

\* Variant: the number of pending calls is compared with the wrong bound.
PostponedAlways(k, r) == k.kind \in {"Connected", "Division"} /\ r.pending >= 0

\* The constraints on graphs work only when no other call is pending.
Postponed(k, r) == k.kind \in {"Connected", "Division"} /\ r.pending > 0

\* Constraint::propagate(p).
Propagated(k, r, p) ==
  Finish(k, [r EXCEPT !.calls = @ + 1], PropagateOf(k, r.s, r.A, p, Postponed(k, r)))

\* Constraint::initialize: propagate() on each watched literal found true, in
\* the order of lits_ or vars_, then a last check.  The constraints on graphs
\* look for true literals before the first call; GraphDivision calls none.
InitLits(k) == CASE k.kind = "Connected" -> WatchesOf(k) \cap assigns
                 [] k.kind = "Division"  -> {}
                 [] OTHER -> WatchesOf(k)
InitStep(k, r, l) ==
  IF r.good /\ l \in InitLits(k) \cap r.A THEN Propagated(k, r, l) ELSE r
InitLast(k, r)    == IF r.good THEN Finish(k, r, InitEndOf(k, r.s, r.A)) ELSE r
Initialize(k) ==
  LET met[x \in 0..NVars] ==
        IF x = 0 THEN Run(StartOf(k, assigns), 0, enqueue_failure)
        ELSE InitStep(k, InitStep(k, met[x - 1], x), -x)
  IN InitLast(k, met[NVars])

\* initialize comes to a literal that its own call of propagate() for an
\* earlier one has just enqueued, and calls propagate() for it; the solver,
\* which finds it in the queue, will call propagate() for it again.
Revisits(k) == Initialize(k).calls > Cardinality(WatchesOf(k) \cap assigns)

EngineInit ==
  /\ Init
  /\ cs = [c \in Constr |-> StartOf(Problem[c], {})]
  /\ nc_reason = [x \in Var |-> 0]
  /\ enqueue_failure = lit_Undef /\ enq = <<>> /\ ret = TRUE /\ confl = 0

\* The constraint whose code is running.
Running == IF pc = "init" THEN nconstr
           ELSE CHOOSE c \in Watchers(trail[at]) \ todo :
                  \A d \in Watchers(trail[at]) \ todo : d <= c

\* What a run of constraint c leaves behind.
Leave(c, r) ==
  /\ cs' = [cs EXCEPT ![c] = r.s]
  /\ enq' = r.enq /\ ret' = r.good
  /\ enqueue_failure' = r.failure
  /\ UNCHANGED <<nc_reason, confl>>

EAddConstraint ==
  /\ AddConstraint
  /\ AllowRevisits \/ ~Revisits(Problem[nconstr + 1])
  /\ Leave(nconstr + 1, Initialize(Problem[nconstr + 1]))

\* enqueue_failure is reset before the call.
ECall(c) ==
  /\ Call(c)
  /\ Leave(c, Propagated(Problem[c], Run(cs[c], pend[c] - 1, lit_Undef), trail[at]))

\* The enqueue of one literal by the running constraint.
EEnqueue ==
  /\ pc \in {"init", "called"} /\ enq # <<>>
  /\ Imply(Head(enq))
  /\ nc_reason' = [nc_reason EXCEPT ![VarOf(Head(enq))] = Running]
  /\ enq' = Tail(enq)
  /\ UNCHANGED <<cs, enqueue_failure, ret, confl>>

EInitialized ==
  /\ enq = <<>> /\ \E res \in BOOLEAN : res = ret /\ Initialized(res)
  /\ ret' = TRUE
  /\ UNCHANGED <<cs, nc_reason, enqueue_failure, enq, confl>>

EReturnTrue ==
  /\ enq = <<>> /\ ret /\ ReturnTrue
  /\ UNCHANGED engineVars

EReturnFalse ==
  /\ enq = <<>> /\ ~ret /\ ReturnFalse
  /\ confl' = Running
  /\ ret' = TRUE
  /\ UNCHANGED <<cs, nc_reason, enqueue_failure, enq>>

\* A literal enqueued without a constraint: reason a clause, or none.
Unconstrained(l) ==
  /\ nc_reason' = [nc_reason EXCEPT ![VarOf(l)] = 0]
  /\ UNCHANGED <<cs, enqueue_failure, enq, ret, confl>>

EImplyByClause(l) == pc = "clauses" /\ Imply(l) /\ Unconstrained(l)
EAddUnit(l) == AddUnit(l) /\ Unconstrained(l)
EDecide(l)  == Decide(l) /\ Unconstrained(l)
ELearn      == Learn /\ Unconstrained(learnt)

\* The undo() calls for trail[i].
EForget(i) ==
  LET p == trail[i]
  IN cs' = [c \in Constr |-> IF undo[VarOf(p)][c] > 0
                             THEN UndoneOf(Problem[c], cs[c], p) ELSE cs[c]]

EAnalyzeUndo ==
  /\ AnalyzeUndo /\ EForget(index)
  /\ UNCHANGED <<nc_reason, enqueue_failure, enq, ret, confl>>

ECancel ==
  /\ Cancel /\ EForget(Len(trail))
  /\ UNCHANGED <<nc_reason, enqueue_failure, enq, ret, confl>>

\* The conflict pair is a local variable of search().
ECancelDone ==
  /\ CancelDone
  /\ confl' = 0
  /\ UNCHANGED <<cs, nc_reason, enqueue_failure, enq, ret>>

EUnchanged ==
  /\ \/ AddEmpty \/ DummyLevel \/ Dequeue \/ ClauseConflict \/ ClausesDone \/ CallsDone
     \/ Drain \/ DrainDone \/ ConflictAtRoot \/ StartAnalyze
     \/ \E level \in 0..decisionLevel : StartCancel(level) \/ AnalyzeDone(level)
  /\ UNCHANGED engineVars

EngineNext ==
  \/ EAddConstraint \/ EEnqueue \/ EInitialized \/ EReturnTrue \/ EReturnFalse
  \/ EAnalyzeUndo \/ ECancel \/ ECancelDone \/ ELearn \/ EUnchanged
  \/ \E c \in Constr : ECall(c)
  \/ \E l \in Lit : EImplyByClause(l) \/ EAddUnit(l) \/ EDecide(l)

EngineSpec == EngineInit /\ [][EngineNext]_vars
-----------------------------------------------------------------------------
EngineTypeOK ==
  /\ nc_reason \in [Var -> 0..NConstr]
  /\ enqueue_failure \in Lit \cup {lit_Undef}
  /\ enq \in Seq(Lit) /\ ret \in BOOLEAN /\ confl \in 0..NConstr

TotalAssignments ==
  {{IF f[x] THEN x ELSE -x : x \in Var} : f \in [Var -> BOOLEAN]}

Meeting == [c \in Constr |-> {A \in TotalAssignments : HoldsFor(Problem[c], A)}]

\* The solutions of constraint c that contain the literals of R.
Solutions(c, R) == {A \in Meeting[c] : R \subseteq A}

KnownTo(c) == {trail[i] : i \in {j \in DOMAIN trail : Knows(c, j)}}

\* The incremental state of every constraint (n_true_; value_, parity_ and
\* n_undecided_) is the one its definition gives for the literals it knows,
\* after any sequence of calls, conflicts, early undos and backtracks.
StateInSync ==
  (ok /\ pc # "init") => \A c \in Added : InSyncOf(Problem[c], cs[c], KnownTo(c))

\* The assertions constraints make about themselves hold: propagate() never
\* meets a variable the Xor knows (Xor.cc:49), and in run_check each literal
\* can be enqueued and each bound is as it was read (GraphDivision.cc:193-320).
AssertionsHold ==
  /\ \A c \in todo : pc = "constr" /\ Problem[c].kind = "Xor" =>
                       XR!Fresh(Problem[c], cs[c], trail[at])
  /\ \A c \in Added : Problem[c].kind = "Division" => ~cs[c].broken

\* A constraint enqueues nothing but what it implies, at level 0 too, where
\* nobody asks for a reason.
ImpliedFollows ==
  \A i \in DOMAIN trail :
    nc_reason[VarOf(trail[i])] # 0 =>
      \A A \in Solutions(nc_reason[VarOf(trail[i])], {trail[j] : j \in 1..(i - 1)}) : trail[i] \in A

\* What a constraint tells the solver is so.  It enqueues literals, and when
\* initialize returns false nothing solves it.  While a literal it implied is
\* resolved on, calcReason returns literals that stood before it on the trail
\* and that force it.  The reason for a conflict holds true literals that no
\* solution of the constraint contains, and one of them is of the current
\* level, without which analyze() would run off the trail.
Explained ==
  /\ enq \in Seq(Lit) /\ enqueue_failure \in Lit \cup {lit_Undef} /\ ret \in BOOLEAN
  /\ (pc = "init" /\ enq = <<>> /\ ~ret) => Solutions(nconstr, assigns) = {}
  /\ (pc = "analyze" /\ index < Len(trail)) =>
       LET p == trail[index + 1]
           c == nc_reason[VarOf(p)]
           R == ReasonOf(Problem[c], cs[c], p, lit_Undef)
       IN c # 0 => /\ R \subseteq {trail[i] : i \in 1..index}
                   /\ \A A \in Solutions(c, R) : p \in A
  /\ (pc = "conflict" /\ confl # 0) =>
       LET R == ReasonOf(Problem[confl], cs[confl], lit_Undef, enqueue_failure)
       IN /\ R \subseteq assigns
          /\ Solutions(confl, R) = {}
          /\ decisionLevel > 0 =>
               \E i \in (trail_lim[decisionLevel] + 1)..Len(trail) : trail[i] \in R

\* When search() decides or reports a model, no constraint is violated and
\* none has an implied literal it has not enqueued, as far as the clauses it
\* presumes have been applied.
PropagatedFully ==
  Fixpoint => \A c \in {d \in Added : PresumesOf(Problem[d], assigns)} :
                /\ Solutions(c, assigns) # {}
                /\ \A x \in Watch[c] \cup {-y : y \in Watch[c]} :
                     IsUndef(x) => Solutions(c, assigns \cup {x}) # {}
=============================================================================
