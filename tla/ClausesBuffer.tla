--------------------------- MODULE ClausesBuffer ---------------------------
(***************************************************************************)
(* ClausesBuffer (parallel/ClausesBuffer.cc): the ring of words through    *)
(* which threads exchange clauses.  A clause is its size, the number of    *)
(* threads that have still to read it, the thread it comes from, and its   *)
(* literals.  `last' and lastOfThread[t] stand one word before the oldest  *)
(* clause and before the next clause of thread t, `first' is the next word *)
(* to be written.  An operation takes a buffer b and gives the next one.   *)
(***************************************************************************)
EXTENDS Integers, Sequences

CONSTANTS nbThreads, maxsize

headerSize == 3
MaxClauses == maxsize \div headerSize \* there is never room for so many
Thread == 0..(nbThreads - 1)
Index  == 0..(maxsize - 1)

ASSUME BufferAssumption == nbThreads \in Nat \ {0} /\ maxsize \in Nat \ {0}

\* setNbThreads.
EmptyBuffer ==
  [elems |-> [i \in Index |-> 0], first |-> 0, last |-> maxsize - 1, queuesize |-> 0,
   lastOfThread |-> [t \in Thread |-> maxsize - 1]]

addIndex(i, a) == IF i + a >= maxsize THEN i + a - maxsize ELSE i + a
nextIndex(i) == IF i + 1 = maxsize THEN 0 ELSE i + 1

\* The clause that begins after position p.
SizeAt(b, p)   == b.elems[nextIndex(p)]
UnseenAt(b, p) == b.elems[addIndex(p, 2)]
OriginAt(b, p) == b.elems[addIndex(p, 3)]
LitsAt(b, p)   == [n \in 1..SizeAt(b, p) |-> b.elems[addIndex(p, headerSize + n)]]
After(b, p)    == addIndex(p, SizeAt(b, p) + headerSize)

RemoveOne(b) ==
  [b EXCEPT !.last = After(b, b.last),
            !.queuesize = @ - (SizeAt(b, b.last) + headerSize),
            !.lastOfThread = [t \in Thread |-> IF @[t] = b.last THEN After(b, b.last) ELSE @[t]]]

\* Variant: only the oldest clause is removed.
RemoveOldestOnly(b) == RemoveOne(b)

\* The oldest clause is removed, and those after it that everyone has read.
removeLastClause(b) ==
  LET removed[n \in Nat] ==
        IF n = 0 THEN RemoveOne(b)
        ELSE LET c == removed[n - 1]
             IN IF c.queuesize > 0 /\ UnseenAt(c, c.last) = 0 THEN RemoveOne(c) ELSE c
  IN removed[MaxClauses]

\* Variant: a clause may fill the ring to its last word.
FitsExactly(b, c) == b.queuesize + Len(c) + headerSize <= maxsize

Fits(b, c) == b.queuesize + Len(c) + headerSize < maxsize

\* With whenFullRemoveOlder, old clauses make room, read or not.  (The build
\* with assertions stops if the ring becomes empty here; it is no error.)
MakeRoom(b, c) ==
  LET room[n \in Nat] ==
        IF n = 0 THEN b
        ELSE LET d == room[n - 1] IN IF Fits(d, c) THEN d ELSE removeLastClause(d)
  IN room[MaxClauses]

\* noCheckPush, word by word.
Write(b, words) ==
  [b EXCEPT !.elems = [i \in Index |->
                         LET n == (i - b.first) % maxsize
                         IN IF n < Len(words) THEN words[n + 1] ELSE @[i]],
            !.first = addIndex(@, Len(words)),
            !.queuesize = @ + Len(words)]

Readers == IF nbThreads > 1 THEN nbThreads - 1 ELSE 1

pushClause(b, t, c, whenFullRemoveOlder) ==
  IF ~whenFullRemoveOlder /\ ~Fits(b, c) THEN b
  ELSE Write(MakeRoom(b, c), <<Len(c), Readers, t>> \o c)

\* The position of thread t is no longer valid: `last' has overtaken it.
Overtaken(b, p) ==
  \/ p < b.last /\ b.last < b.first
  \/ b.first < p /\ p < b.last
  \/ b.last < b.first /\ b.first < p

\* From p on, the clauses of thread t itself are passed over.
SkipOwn(b, t, p) ==
  LET skipped[n \in Nat] ==
        IF n = 0 THEN p
        ELSE LET q == skipped[n - 1]
             IN IF nextIndex(q) # b.first /\ OriginAt(b, q) = t THEN After(b, q) ELSE q
  IN skipped[MaxClauses]

Nothing(t) == [to |-> t, from |-> t, lits |-> <<>>]

\* getClause(t): the buffer it leaves and the clause it finds, if any.
getClause(b, t) ==
  LET here == b.lastOfThread[t]
      p == SkipOwn(b, t, IF Overtaken(b, here) THEN b.last ELSE here)
      seen == [b EXCEPT !.elems[addIndex(p, 2)] = @ - 1]
      left == IF b.last = p /\ UnseenAt(seen, p) = 0 THEN removeLastClause(seen) ELSE seen
      next == IF left.last = b.last THEN After(b, p) ELSE left.last
  IN CASE nextIndex(here) = b.first -> [b |-> b, got |-> Nothing(t)]
       [] nextIndex(here) # b.first /\ nextIndex(p) = b.first ->
            [b |-> [b EXCEPT !.lastOfThread[t] = p], got |-> Nothing(t)]
       [] OTHER ->
            [b |-> [left EXCEPT !.lastOfThread[t] = next],
             got |-> [to |-> t, from |-> OriginAt(b, p), lits |-> LitsAt(b, p)]]

(***************************************************************************)
(* What is in the ring.                                                    *)
(***************************************************************************)
\* The positions from `last' to the newest clause, one for each; the sequence
\* ends in -1 if the sizes do not lead to `first'.
Positions(b) ==
  LET from[p \in Index, n \in 0..MaxClauses] ==
        CASE nextIndex(p) = b.first -> <<>>
          [] nextIndex(p) # b.first /\ n = 0 -> <<-1>>
          [] OTHER -> <<p>> \o from[After(b, p), n - 1]
  IN from[b.last, MaxClauses]

\* The clauses thread t has still to read, in order.
Unread(b, t) ==
  LET from[p \in Index, n \in 0..MaxClauses] ==
        CASE nextIndex(p) = b.first -> <<>>
          [] nextIndex(p) # b.first /\ n = 0 -> <<Nothing(t)>>
          [] OTHER -> (IF OriginAt(b, p) = t THEN <<>>
                       ELSE <<[from |-> OriginAt(b, p), lits |-> LitsAt(b, p)]>>)
                      \o from[After(b, p), n - 1]
  IN from[b.lastOfThread[t], MaxClauses]
=============================================================================
