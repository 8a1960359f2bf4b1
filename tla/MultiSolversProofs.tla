------------------------- MODULE MultiSolversProofs -------------------------
(***************************************************************************)
(* For any number of threads, solve() returns after all threads have ended *)
(* the answer of the first that reported one; it returns none only if      *)
(* eliminate() refuted the formula in every thread.  The buffer plays no   *)
(* part in it: its operators are never expanded.                           *)
(***************************************************************************)
EXTENDS MultiSolvers, TLAPS

Places == {"none", "begin", "units", "clauses", "search", "conflict", "report",
           "publish", "copy", "signal", "done"}
Verdicts == {"l_Undef", "l_True", "l_False"}

\* Where the threads are, and how many have been created and joined.
ThreadsOK ==
  /\ pc \in [Thread -> Places] /\ status \in [Thread -> Verdicts]
  /\ launched \in 0..nbThreads /\ joined \in 0..nbThreads
  /\ main \in {"launch", "wait", "waiting", "join", "returned"}
  /\ \A t \in Thread : launched <= t => pc[t] = "none"
  /\ \A t \in Thread : t < joined => pc[t] = "done"
  /\ main = "launch" => joined = 0
  /\ main = "returned" => joined = nbThreads

\* What is known of the winner w.
Settled(w) ==
  /\ w \in Thread /\ status[w] # "l_Undef"
  /\ pc[w] \in {"publish", "copy", "signal", "done"}
  /\ pc[w] # "publish" => jobStatus = status[w]
  /\ pc[w] \in {"signal", "done"} /\ status[w] = "l_True" => w \in hasModel

\* There is a winner once the job is finished, and only the winner writes.
WinnerOK ==
  /\ bjobFinished \in BOOLEAN
  /\ ~bjobFinished => jobFinishedBy = NoThread /\ jobStatus = "l_Undef"
  /\ bjobFinished => Settled(jobFinishedBy)
  /\ \A t \in Thread : pc[t] \in {"publish", "copy"} => bjobFinished /\ t = jobFinishedBy

\* A thread that has ended while nobody has reported was refuted in eliminate(),
\* and one that comes to its report has an answer.
SilentOK == \A t \in Thread : ~bjobFinished =>
  /\ pc[t] \in {"signal", "done"} => status[t] = "l_False" /\ setup.simplify /\ ~setup.satisfiable
  /\ pc[t] = "report" => status[t] # "l_Undef"

ResultOK == main = "returned" => result = jobStatus

IInv == ThreadsOK /\ WinnerOK /\ SilentOK /\ ResultOK

USE DEF Thread

\* The invariant holds at first.
LEMMA InitInv == Init => IInv
<1>. SUFFICES ASSUME Init PROVE IInv
  OBVIOUS
<1>1. ThreadsOK
  BY BufferAssumption DEF Init, ThreadsOK, Places, Verdicts
<1>2. WinnerOK
  <2>1. bjobFinished = FALSE /\ jobFinishedBy = NoThread /\ jobStatus = "l_Undef"
    BY DEF Init, CompanionInit
  <2>2. \A t \in Thread : pc[t] \notin {"publish", "copy"}
    BY DEF Init
  <2>. QED
    BY <2>1, <2>2 DEF WinnerOK
<1>3. ResultOK
  BY DEF Init, ResultOK
<1>4. SilentOK
  BY DEF Init, SilentOK
<1>. QED
  BY <1>1, <1>2, <1>3, <1>4 DEF IInv

\* A thread that moves between places before its answer disturbs nobody.
LEMMA EarlySteps ==
  ASSUME IInv, NEW t \in Thread,
         Begin(t) \/ ImportUnary(t) \/ ImportClause(t) \/ Conflict(t) \/ Refute(t)
         \/ LearnUnit(t) \/ LearnClause(t) \/ LearnAlone(t) \/ Restart(t) \/ ModelFound(t)
  PROVE  IInv'
<1>1. /\ pc[t] \in {"begin", "units", "clauses", "search", "conflict"}
      /\ \E p \in {"units", "clauses", "search", "conflict", "report", "done"} :
           pc' = [pc EXCEPT ![t] = p]
      /\ status' = status \/ \E v \in Verdicts : status' = [status EXCEPT ![t] = v]
      /\ UNCHANGED <<hasModel, mainVars, jobVars>>
  <2>1. pc = [pc EXCEPT ![t] = pc[t]]
    BY DEF IInv, ThreadsOK
  <2>. QED
    BY <2>1 DEF Begin, Loop, ImportUnary, ImportClause, Conflict, Refute, LearnUnit, LearnClause,
           LearnAlone, Restart, ModelFound, Learns, Goto, Answer, Verdicts, mainVars, jobVars
<1>2. ThreadsOK'
  BY <1>1 DEF IInv, ThreadsOK, Places, Verdicts, mainVars
<1>3. WinnerOK'
  BY <1>1 DEF IInv, ThreadsOK, WinnerOK, Settled, mainVars, jobVars, NoThread
<1>4. ResultOK'
  BY <1>1 DEF IInv, ResultOK, mainVars, jobVars
<1>5. SilentOK'
  <2>1. UNCHANGED setup
    BY DEF Begin, ImportUnary, ImportClause, Conflict, Refute, LearnUnit, LearnClause, LearnAlone,
           Restart, ModelFound
  <2>2. ~bjobFinished =>
          /\ pc'[t] \in {"signal", "done"} =>
               status'[t] = "l_False" /\ setup.simplify /\ ~setup.satisfiable
          /\ pc'[t] = "report" => status'[t] # "l_Undef"
    BY DEF IInv, ThreadsOK, Begin, Loop, ImportUnary, ImportClause, Conflict, Refute, LearnUnit,
           LearnClause, LearnAlone, Restart, ModelFound, Goto, Answer
  <2>3. \A u \in Thread \ {t} : pc'[u] = pc[u] /\ status'[u] = status[u]
    BY <1>1 DEF IInv, ThreadsOK
  <2>4. bjobFinished' = bjobFinished
    BY <1>1 DEF jobVars
  <2>. QED
    BY <2>1, <2>2, <2>3, <2>4 DEF IInv, SilentOK
<1>. QED
  BY <1>2, <1>3, <1>4, <1>5 DEF IInv

\* The first thread to report becomes the winner.
LEMMA ReportStep ==
  ASSUME IInv, NEW t \in Thread, Report(t)
  PROVE  IInv'
<1>1. ThreadsOK'
  BY DEF IInv, ThreadsOK, Report, Goto, Places, mainVars
<1>2. WinnerOK'
  <2>1. CASE status[t] # "l_Undef" /\ ~bjobFinished
    BY <2>1 DEF IInv, ThreadsOK, WinnerOK, Settled, Report, IFinished, First, Goto, NoThread
  <2>2. CASE status[t] = "l_Undef" \/ bjobFinished
    BY <2>2 DEF IInv, ThreadsOK, WinnerOK, Settled, Report, IFinished, First, Goto, NoThread,
                jobVars
  <2>. QED
    BY <2>1, <2>2 DEF IInv, WinnerOK
<1>3. ResultOK'
  BY DEF IInv, ResultOK, Report, IFinished, mainVars, jobVars
<1>4. SilentOK'
  \* From now on the job is finished.
  <2>1. bjobFinished'
    BY DEF IInv, SilentOK, WinnerOK, Report, IFinished, First, jobVars
  <2>. QED
    BY <2>1 DEF SilentOK
<1>. QED
  BY <1>1, <1>2, <1>3, <1>4 DEF IInv

\* The winner publishes its status and copies its model; every thread signals
\* at its end.
LEMMA LateSteps ==
  ASSUME IInv, NEW t \in Thread, Publish(t) \/ Copy(t) \/ Signal(t)
  PROVE  IInv'
<1>1. ThreadsOK'
  BY DEF IInv, ThreadsOK, Publish, Copy, Signal, Goto, Places, mainVars
<1>2. WinnerOK'
  <2>1. CASE Publish(t)
    BY <2>1 DEF IInv, ThreadsOK, WinnerOK, Settled, Publish, Goto, NoThread, Verdicts
  <2>2. CASE Copy(t)
    BY <2>2 DEF IInv, ThreadsOK, WinnerOK, Settled, Copy, Goto, NoThread, jobVars
  <2>3. CASE Signal(t)
    BY <2>3 DEF IInv, ThreadsOK, WinnerOK, Settled, Signal, Goto, NoThread, jobVars
  <2>. QED
    BY <2>1, <2>2, <2>3
<1>3. ResultOK'
  \* No thread publishes once solve() has returned: all of them are done.
  <2>1. Publish(t) => main # "returned"
    BY DEF IInv, ThreadsOK, Publish
  <2>. QED
    BY <2>1 DEF IInv, ResultOK, Publish, Copy, Signal, mainVars, jobVars
<1>4. SilentOK'
  <2>1. UNCHANGED <<setup, status, bjobFinished>>
    BY DEF Publish, Copy, Signal, jobVars
  <2>2. bjobFinished \/ pc[t] = "signal"
    BY DEF IInv, WinnerOK, Publish, Copy, Signal
  <2>3. ~bjobFinished => pc' = [pc EXCEPT ![t] = "done"]
    BY <2>2 DEF Publish, Copy, Signal, Goto
  <2>. QED
    BY <2>1, <2>2, <2>3 DEF IInv, ThreadsOK, SilentOK
<1>. QED
  BY <1>1, <1>2, <1>3, <1>4 DEF IInv

\* The steps of the main thread keep it ...
LEMMA MainSteps ==
  ASSUME IInv, Main
  PROVE  IInv'
<1>1. CASE Launch
  <2>1. CASE launched < nbThreads
    <3>1. launched \in Thread /\ pc[launched] = "none" /\ pc' = [pc EXCEPT ![launched] = "begin"]
      BY <1>1, <2>1, BufferAssumption DEF IInv, ThreadsOK, Launch
    <3>2. ThreadsOK'
      BY <1>1, <2>1, <3>1, BufferAssumption DEF IInv, ThreadsOK, Launch, Places
    <3>3. WinnerOK'
      BY <1>1, <3>1 DEF IInv, ThreadsOK, WinnerOK, Settled, Launch, NoThread, jobVars
    <3>4. ResultOK'
      BY <1>1, <2>1 DEF IInv, ResultOK, Launch, jobVars
    <3>5. SilentOK'
      BY <1>1, <3>1 DEF IInv, ThreadsOK, SilentOK, Launch, jobVars
    <3>. QED
      BY <3>2, <3>3, <3>4, <3>5 DEF IInv
  <2>2. CASE ~(launched < nbThreads)
    BY <1>1, <2>2 DEF IInv, ThreadsOK, WinnerOK, Settled, SilentOK, ResultOK, Launch, jobVars,
                      NoThread
  <2>. QED
    BY <2>1, <2>2
<1>2. CASE Wait
  BY <1>2 DEF IInv, ThreadsOK, WinnerOK, Settled, SilentOK, ResultOK, Wait, workerVars, jobVars,
              NoThread
<1>3. CASE Join
  <2>1. ThreadsOK'
    BY <1>3, BufferAssumption DEF IInv, ThreadsOK, Join, workerVars
  <2>2. WinnerOK'
    BY <1>3 DEF IInv, WinnerOK, Settled, Join, workerVars, jobVars, NoThread
  <2>3. ResultOK'
    BY <1>3 DEF IInv, ResultOK, Join, jobVars
  <2>4. SilentOK'
    BY <1>3 DEF IInv, SilentOK, Join, workerVars, jobVars
  <2>. QED
    BY <2>1, <2>2, <2>3, <2>4 DEF IInv
<1>. QED
  BY <1>1, <1>2, <1>3 DEF Main

\* ... and so does every step.
LEMMA NextInv == IInv /\ [Next]_vars => IInv'
<1>. SUFFICES ASSUME IInv, [Next]_vars PROVE IInv'
  OBVIOUS
<1>1. CASE Main
  BY <1>1, MainSteps
<1>2. CASE UNCHANGED vars
  BY <1>2 DEF vars, workerVars, mainVars, jobVars, IInv, ThreadsOK, WinnerOK, Settled, SilentOK,
              ResultOK, NoThread
<1>3. ASSUME NEW t \in Thread, Worker(t) PROVE IInv'
  BY <1>3, EarlySteps, ReportStep, LateSteps DEF Worker
<1>. QED
  BY <1>1, <1>2, <1>3 DEF Next, Returned

\* When solve() returns, every thread has ended and the result is the answer
\* of the thread that was the first to call IFinished(), whose model is there
\* to be copied.  It is l_Undef only if no thread called it, and then each of
\* them was refuted in eliminate() and has the answer l_False, which is lost.
THEOREM ResultIsWinners == Spec => []ResultOfWinner
<1>1. IInv => ResultOfWinner
  <2>. SUFFICES ASSUME IInv, main = "returned" PROVE ResultOfWinner
    BY DEF ResultOfWinner
  <2>1. \A t \in Thread : pc[t] = "done"
    BY DEF IInv, ThreadsOK
  <2>2. CASE bjobFinished
    BY <2>1, <2>2 DEF IInv, WinnerOK, Settled, ResultOK, ResultOfWinner
  <2>3. CASE ~bjobFinished
    <3>1. 0 \in Thread
      BY BufferAssumption
    <3>. QED
      BY <2>1, <2>3, <3>1 DEF IInv, WinnerOK, SilentOK, ResultOK, ResultOfWinner
  <2>. QED
    BY <2>2, <2>3
<1>. QED
  BY InitInv, NextInv, <1>1, PTL DEF Spec
=============================================================================
