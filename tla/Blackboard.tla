----------------------------- MODULE Blackboard -----------------------------
(***************************************************************************)
(* What SharedCompanion promises to the threads that share clauses: each   *)
(* one has a queue of the clauses of the others and a queue of the unit    *)
(* literals of all.  A clause may be refused when it is shared; once it is *)
(* accepted it is delivered whole, once, in order and to everyone, unless  *)
(* the buffer may forget its oldest clauses.                               *)
(***************************************************************************)
EXTENDS Integers, Sequences

CONSTANTS Thread, Clause, Literal

VARIABLES
  mayForget, \* the option removeolder
  unread,    \* the clauses each thread has still to get
  news,      \* the unit literals each thread has still to get
  known,     \* the unit literals that were accepted
  got        \* what the last call of getNewClause() gave, and to whom

Nothing(t) == [to |-> t, from |-> t, lits |-> <<>>]

Init ==
  /\ mayForget \in BOOLEAN
  /\ unread = [t \in Thread |-> <<>>] /\ news = [t \in Thread |-> <<>>]
  /\ known = {} /\ \E t \in Thread : got = Nothing(t)

Forgotten(u) == IF mayForget THEN 0..Len(unread[u]) ELSE {0}

ShareClause(t, c) ==
  /\ \A u \in Thread : \E n \in Forgotten(u) :
       unread'[u] = SubSeq(unread[u], n + 1, Len(unread[u]))
                      \o (IF u = t THEN <<>> ELSE <<[from |-> t, lits |-> c]>>)
  /\ UNCHANGED <<mayForget, news, known, got>>

GetClause(t) ==
  /\ IF unread[t] = <<>> THEN got' = Nothing(t) /\ UNCHANGED unread
     ELSE /\ got' = [to |-> t, from |-> Head(unread[t]).from, lits |-> Head(unread[t]).lits]
          /\ unread' = [unread EXCEPT ![t] = Tail(@)]
  /\ UNCHANGED <<mayForget, news, known>>

\* The first one to fix a variable is believed.
ShareUnit(l) ==
  /\ l \notin known /\ -l \notin known
  /\ known' = known \cup {l}
  /\ news' = [t \in Thread |-> Append(news[t], l)]
  /\ UNCHANGED <<mayForget, unread, got>>

GetUnit(t) ==
  /\ news[t] # <<>>
  /\ news' = [news EXCEPT ![t] = Tail(@)]
  /\ UNCHANGED <<mayForget, unread, known, got>>

vars == <<mayForget, unread, news, known, got>>

\* A thread does something else, or what it shares is refused.
Elsewhere == UNCHANGED vars

Next == \/ Elsewhere
        \/ \E t \in Thread : GetClause(t) \/ GetUnit(t) \/ \E c \in Clause : ShareClause(t, c)
        \/ \E l \in Literal : ShareUnit(l)

Spec == Init /\ [][Next]_vars
=============================================================================
