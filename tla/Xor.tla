-------------------------------- MODULE Xor --------------------------------
(***************************************************************************)
(* The constraint "the sum of vars is parity modulo 2"                     *)
(* (constraints/Xor.cc) as functions of its parameters k and its state s:  *)
(* value_ of each variable (-1 when unknown), the parity still to be       *)
(* reached, and the number of unknown variables.                           *)
(***************************************************************************)
EXTENDS Integers, Sequences, FiniteSets

LOCAL INSTANCE SequencesExt

VarIn(l) == IF l < 0 THEN -l ELSE l

\* The constructor: a variable met twice cancels out, a negation flips parity.
Make(lits, parity) ==
  LET Odd(v) == Cardinality({i \in DOMAIN lits : VarIn(lits[i]) = v}) % 2 = 1
      negs   == Cardinality({i \in DOMAIN lits : lits[i] < 0})
  IN [kind |-> "Xor",
      vars |-> SetToSortSeq({v \in {VarIn(l) : l \in ToSet(lits)} : Odd(v)}, <),
      parity |-> (parity + negs) % 2]

Watches(k) == ToSet(k.vars) \cup {-v : v \in ToSet(k.vars)}
Start(k)   == [value |-> [v \in ToSet(k.vars) |-> -1], parity |-> k.parity,
               undecided |-> Len(k.vars)]

\* The assertion value_[idx] == -1 (Xor.cc:49) is Fresh; without it the build
\* toggles parity_ again and counts the variable twice.
Fresh(k, s, p) == s.value[VarIn(p)] = -1
Called(k, s, p) ==
  LET b == IF p > 0 THEN 1 ELSE 0
  IN [value |-> [s.value EXCEPT ![VarIn(p)] = b],
      parity |-> (s.parity + b) % 2,
      undecided |-> s.undecided - 1]

Accepts(k, s) == s.undecided = 0 => s.parity = 0

Wanted(k, s) ==
  LET unknown == SelectSeq(k.vars, LAMBDA v : s.value[v] = -1)
  IN IF s.undecided # 1 THEN <<>>
     ELSE [i \in DOMAIN unknown |->
             IF s.parity = 0 THEN -unknown[i] ELSE unknown[i]]

InitAccepts(k, s) == k.vars = <<>> => s.parity = 0
InitWanted(k, s)  == <<>>

\* propagate(p), and the last part of initialize: the state they leave, whether
\* they return true, and what they enqueue first.
Propagate(k, s, p) ==
  LET t == Called(k, s, p)
  IN IF Accepts(k, t) THEN [s |-> t, accepts |-> TRUE, wanted |-> Wanted(k, t)]
     ELSE [s |-> t, accepts |-> FALSE, wanted |-> <<>>]
InitEnd(k, s) ==
  IF InitAccepts(k, s) THEN [s |-> s, accepts |-> TRUE, wanted |-> InitWanted(k, s)]
  ELSE [s |-> s, accepts |-> FALSE, wanted |-> <<>>]
SkipsAssigned == FALSE

Reason(k, s, A, p, extra) ==
  {IF s.value[v] = 0 THEN -v ELSE v : v \in {u \in ToSet(k.vars) : s.value[u] # -1}}
  \cup IF p = 0 /\ extra # 0
       THEN {IF s.parity = 1 THEN -v ELSE v :
               v \in {u \in ToSet(k.vars) : s.value[u] = -1}}
       ELSE {}

\* Variant: undo() leaves value_ as it is.
UndoneKeepsValue(k, s, p) ==
  [s EXCEPT !.parity = (@ + s.value[VarIn(p)]) % 2, !.undecided = @ + 1]

Undone(k, s, p) ==
  LET v == VarIn(p)
  IN [value |-> [s.value EXCEPT ![v] = -1],
      parity |-> (s.parity + s.value[v]) % 2,
      undecided |-> s.undecided + 1]

Holds(k, A) == Cardinality(ToSet(k.vars) \cap A) % 2 = k.parity

\* What the state has to be once it knows the literals K.
InSync(k, s, K) ==
  /\ \A v \in ToSet(k.vars) :
       s.value[v] = IF v \in K THEN 1 ELSE IF -v \in K THEN 0 ELSE -1
  /\ s.parity = (k.parity + Cardinality(ToSet(k.vars) \cap K)) % 2
  /\ s.undecided = Cardinality({v \in ToSet(k.vars) : v \notin K /\ -v \notin K})
Presumes(k, A) == TRUE
=============================================================================
