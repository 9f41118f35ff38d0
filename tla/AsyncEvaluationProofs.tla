------------------------ MODULE AsyncEvaluationProofs ------------------------
(***************************************************************************)
(* Proofs about AsyncEvaluation, for every number of pairs, repetitions    *)
(* and workers, with or without a timeout, and for every reaction of a     *)
(* provider.                                                               *)
(***************************************************************************)
EXTENDS AsyncEvaluation, TLAPS

\* A product of positive numbers is one, so there are jobs and workers.
LEMMA JobCountPositive == JobCount \in Nat /\ JobCount >= 1
<1>. DEFINE R == Repetitions
<1>1. Pairs \in Nat /\ Pairs >= 1 /\ Repetitions \in Nat /\ Repetitions >= 1
  BY ConstantsAssumption
<1>2. Pairs * Repetitions \in Nat
  BY <1>1
<1>3. Pairs * Repetitions >= 1
  BY <1>1, Z3
<1>. QED
  BY <1>2, <1>3 DEF JobCount

LEMMA WorkersNonEmpty == /\ 1 \in Workers
                         /\ \A w \in Workers : w \in Nat /\ w # 0
BY JobCountPositive, ConstantsAssumption DEF Workers

\* The first steps of the pool: nothing was taken, finished or requested.
LEMMA InitIInv == Init => IInv
<1>. SUFFICES ASSUME Init PROVE IInv
  OBVIOUS
<1>. USE JobCountPositive, WorkersNonEmpty DEF Init
<1>1. TypeOK
  <2>1. next \in 1 .. JobCount + 1
    OBVIOUS
  <2>2. job \in [Workers -> 0 .. JobCount]
    OBVIOUS
  <2>3. pend \in [Workers -> BOOLEAN] /\ asked \in [Workers -> BOOLEAN] /\ expired \in [Workers -> BOOLEAN]
    OBVIOUS
  <2>4. state \in [Workers -> {"scheduled", "calling", "done"}]
    OBVIOUS
  <2>5. result \in [Workers -> {"none", "ok", "cancelled"} \cup Failures]
    OBVIOUS
  <2>6. completed \in [Jobs -> Rankings \cup {NoRanking}]
    OBVIOUS
  <2>. QED
    BY <2>1, <2>2, <2>3, <2>4, <2>5, <2>6 DEF TypeOK
<1>2. WorkerInv /\ OneTaker
  BY DEF WorkerInv, OneTaker
<1>3. JobInv
  BY DEF JobInv, Jobs
<1>4. GatherInv /\ ParentInv
  BY DEF GatherInv, ParentInv, AllDone, Undone
<1>. QED
  BY <1>1, <1>2, <1>3, <1>4 DEF IInv

\* A worker that stops: its task is done, and what ended it is on record.
LEMMA FinishIInv ==
    ASSUME IInv, NEW w \in Workers, Undone(w),
           NEW how \in {"ok", "cancelled"} \cup Failures, Finish(w, how),
           how = "ok" => /\ next > JobCount
                         /\ state[w] = "calling" => completed'[job[w]] \in Rankings,
           how = "cancelled" => requested \/ phase # "gather",
           completed' \in [Jobs -> Rankings \cup {NoRanking}],
           \A k \in Jobs : completed[k] \in Rankings => completed'[k] \in Rankings,
           UNCHANGED <<gatherVars, parentVars>>
    PROVE  IInv'
<1>. USE JobCountPositive, WorkersNonEmpty DEF IInv, Finish, Undone, gatherVars, parentVars
<1>1. TypeOK'
  BY DEF TypeOK
<1>2. WorkerInv' /\ OneTaker'
  BY DEF TypeOK, WorkerInv, OneTaker, Failures
<1>3. JobInv'
  BY DEF TypeOK, WorkerInv, JobInv
<1>4. GatherInv'
  BY DEF TypeOK, WorkerInv, GatherInv, Failures
<1>5. ParentInv'
  BY DEF TypeOK, WorkerInv, ParentInv, GatherInv, AllDone
<1>. QED
  BY <1>1, <1>2, <1>3, <1>4, <1>5

\* A worker between two jobs: it starts the next one, or there is none left.
LEMMA TakeJobIInv ==
    ASSUME IInv, NEW w \in Workers, Undone(w), TakeJob(w),
           state[w] = "calling" => completed'[job[w]] \in Rankings,
           completed' \in [Jobs -> Rankings \cup {NoRanking}],
           \A k \in Jobs : completed[k] \in Rankings => completed'[k] \in Rankings,
           UNCHANGED <<gatherVars, parentVars>>
    PROVE  IInv'
<1>1. CASE next > JobCount /\ Finish(w, "ok")
  BY <1>1, FinishIInv
<1>2. CASE /\ next <= JobCount
           /\ next' = next + 1
           /\ job' = [job EXCEPT ![w] = next]
           /\ state' = [state EXCEPT ![w] = "calling"]
           /\ pend' = [pend EXCEPT ![w] = FALSE]
           /\ asked' = [asked EXCEPT ![w] = FALSE]
           /\ expired' = [expired EXCEPT ![w] = FALSE]
           /\ UNCHANGED result
  <2>. USE <1>2, JobCountPositive, WorkersNonEmpty DEF IInv, Undone, gatherVars, parentVars
  <2>0. next \in Jobs
    BY DEF TypeOK, Jobs
  <2>1. TypeOK'
    BY <2>0 DEF TypeOK, Jobs
  <2>2. WorkerInv' /\ OneTaker'
    BY <2>0 DEF TypeOK, WorkerInv, OneTaker, Jobs
  <2>3. JobInv'
    <3>1. ASSUME NEW k \in Jobs, k < next', completed'[k] \notin Rankings
          PROVE  \E v \in Workers : job'[v] = k /\ result'[v] # "ok" /\ state'[v] # "scheduled"
      <4>1. CASE k = next
        BY <4>1 DEF TypeOK, WorkerInv
      <4>2. CASE k < next
        BY <3>1, <4>2 DEF TypeOK, JobInv, WorkerInv
      <4>. QED
        BY <3>1, <4>1, <4>2 DEF TypeOK, Jobs
    <3>2. \A v \in Workers : result'[v] = "ok" => next' > JobCount
      BY DEF TypeOK, JobInv
    <3>. QED
      BY <3>1, <3>2 DEF JobInv
  <2>4. GatherInv'
    BY DEF TypeOK, WorkerInv, GatherInv, Failures
  <2>5. ParentInv'
    BY DEF TypeOK, WorkerInv, ParentInv, GatherInv, AllDone
  <2>. QED
    BY <2>1, <2>2, <2>3, <2>4, <2>5
<1>. QED
  BY <1>1, <1>2 DEF TakeJob

LEMMA StartIInv == ASSUME IInv, NEW w \in Workers, Start(w) PROVE IInv'
<1>1. Undone(w) /\ state[w] # "calling"
  BY DEF Start, Undone
<1>2. /\ completed' \in [Jobs -> Rankings \cup {NoRanking}]
      /\ \A k \in Jobs : completed[k] \in Rankings => completed'[k] \in Rankings
  BY DEF Start, IInv, TypeOK
<1>3. CASE pend[w] /\ Finish(w, "cancelled")
  <2>1. requested \/ phase # "gather"
    BY <1>3 DEF Start, IInv, WorkerInv
  <2>. QED
    BY <1>1, <1>2, <1>3, <2>1, FinishIInv DEF Start
<1>4. CASE ~pend[w] /\ TakeJob(w)
  BY <1>1, <1>2, <1>4, TakeJobIInv DEF Start
<1>. QED
  BY <1>3, <1>4 DEF Start

LEMMA ReturnsIInv == ASSUME IInv, NEW w \in Workers, Returns(w) PROVE IInv'
<1>1. Undone(w) /\ job[w] \in Jobs
  BY JobCountPositive DEF Returns, May, Undone, IInv, WorkerInv, TypeOK, Jobs
<1>2. PICK r \in Rankings : completed' = [completed EXCEPT ![job[w]] = r]
  BY DEF Returns
<1>3. /\ completed' \in [Jobs -> Rankings \cup {NoRanking}]
      /\ completed'[job[w]] \in Rankings
      /\ \A k \in Jobs : completed[k] \in Rankings => completed'[k] \in Rankings
  BY <1>1, <1>2 DEF IInv, TypeOK
<1>. QED
  BY <1>1, <1>3, TakeJobIInv DEF Returns

LEMMA RaisesIInv == ASSUME IInv, NEW w \in Workers, Raises(w) PROVE IInv'
<1>1. Undone(w)
  BY DEF Raises, May, Undone
<1>2. completed' \in [Jobs -> Rankings \cup {NoRanking}] /\ completed' = completed
  BY DEF Raises, IInv, TypeOK
<1>. QED
  BY <1>1, <1>2, FinishIInv DEF Raises, Failures

LEMMA CancelledIInv == ASSUME IInv, NEW w \in Workers, Cancelled(w) PROVE IInv'
<1>1. Undone(w)
  BY DEF Cancelled, May, Undone
<1>2. completed' \in [Jobs -> Rankings \cup {NoRanking}] /\ completed' = completed
  BY DEF Cancelled, IInv, TypeOK
<1>3. CASE expired[w] /\ ~asked[w]
  BY <1>1, <1>2, <1>3, FinishIInv DEF Cancelled, Failures
<1>4. CASE ~(expired[w] /\ ~asked[w]) /\ requested
  BY <1>1, <1>2, <1>4, FinishIInv DEF Cancelled
<1>5. CASE ~(expired[w] /\ ~asked[w]) /\ ~requested
  BY <1>1, <1>2, <1>5, FinishIInv DEF Cancelled, Failures
<1>. QED
  BY <1>3, <1>4, <1>5

\* A suppressed CancelledError and a timer change no worker's fate yet.
LEMMA SignalIInv ==
    ASSUME IInv, NEW w \in Workers, Ignores(w) \/ TimerFires(w)
    PROVE  IInv'
<1>. USE DEF Ignores, TimerFires, May, IInv, workerVars, gatherVars, parentVars
<1>1. TypeOK'
  <2>1. CASE Ignores(w)
    BY <2>1 DEF TypeOK
  <2>2. CASE TimerFires(w)
    BY <2>2 DEF TypeOK
  <2>. QED
    BY <2>1, <2>2
<1>2. WorkerInv' /\ OneTaker'
  BY DEF TypeOK, WorkerInv, OneTaker
<1>3. JobInv'
  BY DEF TypeOK, JobInv
<1>4. GatherInv'
  BY DEF GatherInv, Undone
<1>5. ParentInv'
  BY DEF ParentInv, AllDone, Undone
<1>. QED
  BY <1>1, <1>2, <1>3, <1>4, <1>5

LEMMA NoticeIInv == ASSUME IInv, NEW w \in Workers, Notice(w) PROVE IInv'
<1>. USE DEF Notice, IInv, workerVars, cancelVars, parentVars
<1>1. TypeOK'
  BY DEF TypeOK
<1>2. WorkerInv' /\ OneTaker'
  BY DEF WorkerInv, OneTaker
<1>3. JobInv'
  BY DEF JobInv
<1>4. GatherInv'
  BY DEF TypeOK, WorkerInv, GatherInv, ParentInv, Undone, Failures
<1>5. ParentInv'
  BY DEF ParentInv, AllDone, Undone
<1>. QED
  BY <1>1, <1>2, <1>3, <1>4, <1>5

LEMMA ParentWakeIInv == ASSUME IInv, ParentWake PROVE IInv'
<1>. USE DEF ParentWake, EnterCleanup, CancelUndone, IInv,
             workerVars, cancelVars, gatherVars
<1>1. TypeOK'
  BY DEF TypeOK
<1>2. WorkerInv' /\ OneTaker'
  BY DEF TypeOK, WorkerInv, OneTaker
<1>3. JobInv'
  BY DEF JobInv
<1>4. GatherInv'
  <2>0. gather = "failed" => first \in Workers /\ ~Undone(first)
    BY DEF WorkerInv, GatherInv, Undone, Failures
  <2>1. ASSUME gather = "failed" PROVE asked'[first] <=> asked[first]
    BY <2>0, <2>1 DEF Undone
  <2>2. /\ UNCHANGED <<gather, noticed, first, result, state>>
        /\ requested' = requested
    OBVIOUS
  <2>. QED
    BY <2>1, <2>2 DEF GatherInv, Undone
<1>5. ParentInv'
  BY DEF TypeOK, WorkerInv, GatherInv, ParentInv, AllDone, Undone
<1>. QED
  BY <1>1, <1>2, <1>3, <1>4, <1>5

LEMMA CleanupDoneIInv == ASSUME IInv, CleanupDone PROVE IInv'
<1>. USE DEF CleanupDone, IInv, workerVars, cancelVars, gatherVars
<1>1. TypeOK'
  BY DEF TypeOK
<1>2. WorkerInv' /\ OneTaker' /\ JobInv'
  BY DEF WorkerInv, OneTaker, JobInv
<1>3. GatherInv'
  BY DEF GatherInv, Undone
<1>4. ParentInv'
  BY DEF TypeOK, ParentInv, AllDone, Undone
<1>. QED
  BY <1>1, <1>2, <1>3, <1>4

LEMMA RequestCancelIInv == ASSUME IInv, RequestCancel PROVE IInv'
<1>. USE DEF RequestCancel, CancelUndone, IInv, workerVars, cancelVars, gatherVars
<1>1. TypeOK'
  BY DEF TypeOK
<1>2. WorkerInv' /\ OneTaker' /\ JobInv'
  BY DEF TypeOK, WorkerInv, OneTaker, JobInv
<1>3. GatherInv'
  BY DEF GatherInv, Undone
<1>4. ParentInv'
  BY DEF TypeOK, ParentInv, AllDone, Undone
<1>. QED
  BY <1>1, <1>2, <1>3, <1>4

\* The invariant holds in every state the pool can reach.
THEOREM Invariance == Spec => []IInv
<1>1. IInv /\ [Next]_vars => IInv'
  <2>. SUFFICES ASSUME IInv, [Next]_vars PROVE IInv'
    OBVIOUS
  <2>1. ASSUME NEW w \in Workers, Start(w) PROVE IInv'
    BY <2>1, StartIInv
  <2>2. ASSUME NEW w \in Workers, CallEnds(w) \/ TimerFires(w) PROVE IInv'
    BY <2>2, ReturnsIInv, RaisesIInv, CancelledIInv, SignalIInv DEF CallEnds
  <2>3. ASSUME NEW w \in Workers, Notice(w) PROVE IInv'
    BY <2>3, NoticeIInv
  <2>4. CASE ParentWake \/ CleanupDone \/ RequestCancel
    BY <2>4, ParentWakeIInv, CleanupDoneIInv, RequestCancelIInv
  <2>5. CASE UNCHANGED vars
    BY <2>5 DEF vars, workerVars, cancelVars, gatherVars, parentVars, IInv, TypeOK,
                WorkerInv, OneTaker, JobInv, GatherInv, ParentInv, AllDone, Undone
  <2>. QED
    BY <2>1, <2>2, <2>3, <2>4, <2>5 DEF Next, Returned
<1>. QED
  BY InitIInv, <1>1, PTL DEF Spec

\* No worker task outlives the evaluation.
THEOREM NoOrphansHolds == Spec => []NoOrphans
<1>1. IInv => NoOrphans
  BY DEF IInv, ParentInv, NoOrphans
<1>. QED
  BY <1>1, Invariance, PTL

\* The caller gets a CancelledError if and only if it asked for one.
THEOREM CancellationDecidesHolds == Spec => []CancellationDecides
<1>1. IInv => CancellationDecides
  BY DEF IInv, ParentInv, CancellationDecides
<1>. QED
  BY <1>1, Invariance, PTL

\* The error reported is one that no cancellation of ours brought about.
THEOREM OriginalFailureHolds == Spec => []OriginalFailure
<1>1. IInv => OriginalFailure
  BY DEF IInv, ParentInv, GatherInv, OriginalFailure
<1>. QED
  BY <1>1, Invariance, PTL

\* When gather() has the results of all workers, the iterator is exhausted
\* and nobody lost a job.
LEMMA IInvSuccess == IInv => SuccessIsComplete
<1>. SUFFICES ASSUME IInv, verdict = "ok" PROVE SuccessIsComplete
  BY DEF SuccessIsComplete
<1>1. \A w \in Workers : result[w] = "ok"
  BY DEF IInv, ParentInv, GatherInv
<1>2. next > JobCount
  BY <1>1, WorkersNonEmpty DEF IInv, JobInv
<1>3. \A k \in Jobs : completed[k] \in Rankings
  BY <1>1, <1>2, JobCountPositive DEF IInv, TypeOK, JobInv, Jobs
<1>. QED
  BY <1>1, <1>3 DEF SuccessIsComplete

\* A result stands on an answer to every job.
THEOREM SuccessIsCompleteHolds == Spec => []SuccessIsComplete
BY IInvSuccess, Invariance, PTL

\* The outcome that the caller gets says what happened to the evaluation.
THEOREM OutcomeIsTrueHolds == Spec => []OutcomeIsTrue
<1>1. CancellationDecides /\ OriginalFailure /\ SuccessIsComplete => OutcomeIsTrue
  BY DEF OutcomeIsTrue
<1>. QED
  BY <1>1, CancellationDecidesHolds, OriginalFailureHolds, SuccessIsCompleteHolds, PTL

\* Once the pool was told to stop, every unfinished worker has a CancelledError
\* to come, which no provider keeps to itself.
StopInv == phase = "cleanup" \/ swept => \A w \in Workers : Undone(w) => pend[w]

\* A worker's step under StopInv starts no call once the pool was told to stop.
LEMMA WorkerStops ==
    ASSUME "return" \notin Reactions, "ignore" \notin Reactions,
           TypeOK, StopInv, NEW w \in Workers, Start(w) \/ CallEnds(w) \/ TimerFires(w)
    PROVE  /\ phase = "cleanup" \/ swept => next' = next
           /\ StopInv'
<1>. USE DEF Undone
<1>1. phase' = phase /\ swept' = swept
  BY DEF Start, CallEnds, Returns, Raises, Cancelled, Ignores, TimerFires, parentVars
<1>2. CASE ~ (phase = "cleanup" \/ swept)
  BY <1>1, <1>2 DEF StopInv
<1>3. CASE phase = "cleanup" \/ swept
  <2>1. \A v \in Workers : state[v] # "done" => pend[v]
    BY <1>3 DEF StopInv
  <2>2. \/ \E how : Finish(w, how)
        \/ TimerFires(w)
    <3>1. CASE Start(w)
      BY <2>1, <3>1 DEF Start
    <3>2. CASE CallEnds(w)
      BY <2>1, <3>2 DEF CallEnds, Returns, Raises, Cancelled, Ignores, May
    <3>. QED
      BY <3>1, <3>2
  <2>3. next' = next
    BY <2>2 DEF Finish, TimerFires
  <2>4. \A v \in Workers : state'[v] # "done" => pend'[v]
    <3>1. CASE \E how : Finish(w, how)
      BY <2>1, <3>1 DEF Finish, TypeOK
    <3>2. CASE TimerFires(w)
      BY <2>1, <3>2 DEF TimerFires, TypeOK
    <3>. QED
      BY <2>2, <3>1, <3>2
  <2>. QED
    BY <2>3, <2>4 DEF StopInv
<1>. QED
  BY <1>2, <1>3

\* The parent's steps start no call, and tell every unfinished worker to stop.
LEMMA ParentStops ==
    ASSUME TypeOK, StopInv,
           \/ \E w \in Workers : Notice(w)
           \/ ParentWake \/ CleanupDone \/ RequestCancel
    PROVE  next' = next /\ StopInv'
<1>. USE DEF workerVars, cancelVars, gatherVars, parentVars, Undone, AllDone, StopInv
<1>1. CASE \E w \in Workers : Notice(w)
  BY <1>1 DEF Notice
<1>. DEFINE Told == \A w \in Workers : Undone(w) => pend[w]
<1>2. CancelUndone /\ state' = state => Told'
  BY DEF CancelUndone
<1>3. CASE ParentWake
  <2>1. next' = next /\ state' = state
    BY <1>3 DEF ParentWake
  <2>2. CASE CancelUndone
    BY <1>2, <2>1, <2>2
  <2>3. CASE UNCHANGED <<pend, swept>> /\ phase' = "returned"
    BY <2>1, <2>3
  <2>. QED
    BY <1>3, <2>1, <2>2, <2>3 DEF ParentWake, EnterCleanup
<1>4. CASE CleanupDone
  BY <1>4 DEF CleanupDone
<1>5. CASE RequestCancel
  <2>1. next' = next /\ state' = state /\ phase' = phase
    BY <1>5 DEF RequestCancel
  <2>2. CASE CancelUndone
    BY <1>2, <2>1, <2>2
  <2>3. CASE UNCHANGED <<pend, swept>>
    BY <2>1, <2>3
  <2>. QED
    BY <1>5, <2>2, <2>3 DEF RequestCancel
<1>. QED
  BY <1>1, <1>3, <1>4, <1>5

\* With providers that let a CancelledError end their call, no job is begun once
\* the pool was told to stop: see NoCallOnceStopped.
THEOREM NoCallOnceStoppedHolds ==
    ASSUME "return" \notin Reactions, "ignore" \notin Reactions
    PROVE  Spec => NoCallOnceStopped
<1>1. Init => StopInv
  BY DEF Init, StopInv
<1>2. ASSUME TypeOK, StopInv, [Next]_vars
      PROVE  StopInv' /\ [phase = "cleanup" \/ swept => next' = next]_vars
  <2>1. CASE \E w \in Workers : Start(w) \/ CallEnds(w) \/ TimerFires(w)
    BY <1>2, <2>1, WorkerStops
  <2>2. CASE \/ \E w \in Workers : Notice(w)
             \/ ParentWake \/ CleanupDone \/ RequestCancel
    BY <1>2, <2>2, ParentStops
  <2>3. CASE UNCHANGED vars
    BY <1>2, <2>3 DEF vars, workerVars, cancelVars, parentVars, StopInv, Undone
  <2>. QED
    BY <1>2, <2>1, <2>2, <2>3 DEF Next, Returned
<1>3. IInv => TypeOK
  BY DEF IInv
<1>. QED
  BY <1>1, <1>2, <1>3, Invariance, PTL DEF Spec, NoCallOnceStopped

----------------------------------------------------------------------------
(* The worker pool implements EvaluationPromise.  Each step of a worker    *)
(* that is in a call settles that call's retrieval and may begin another;  *)
(* only the parent's last step returns; every other step is invisible to   *)
(* the caller.                                                             *)

InFlight == {job[w] : w \in {v \in Workers : state[v] = "calling"}}
Faulty == \E w \in Workers : result[w] \in Failures
Outcome == IF phase = "returned" THEN verdict ELSE "none"

\* A pool that still has an unfinished worker has not returned.
LEMMA UndoneNotReturned ==
    ASSUME IInv, NEW w \in Workers, Undone(w)
    PROVE  phase # "returned" /\ Outcome = "none"
BY DEF IInv, ParentInv, AllDone, Outcome

LEMMA InitPromise == Init => Promise!Init
<1>. SUFFICES ASSUME Init PROVE Promise!Init
  OBVIOUS
<1>1. 1 .. (next - 1) = {} /\ InFlight = {}
  BY DEF Init, InFlight
<1>2. ~Faulty
  BY DEF Init, Faulty, Failures
<1>. QED
  BY <1>1, <1>2 DEF Init, Promise!Init, InFlight, Faulty

\* A worker that stops without taking a job leaves the calls of the others.
LEMMA FinishOpen ==
    ASSUME IInv, NEW w \in Workers, Undone(w),
           NEW how \in {"ok", "cancelled"} \cup Failures, Finish(w, how)
    PROVE  /\ state[w] = "calling" => InFlight' = InFlight \ {job[w]}
           /\ state[w] = "scheduled" => InFlight' = InFlight
           /\ Faulty' <=> (Faulty \/ how \in Failures)
<1>. USE DEF IInv, TypeOK, Finish, Undone
<1>1. ASSUME state[w] = "calling" PROVE InFlight' = InFlight \ {job[w]}
  BY <1>1 DEF OneTaker, InFlight
<1>2. ASSUME state[w] = "scheduled" PROVE InFlight' = InFlight
  BY <1>2 DEF InFlight
<1>3. Faulty' <=> (Faulty \/ how \in Failures)
  BY DEF WorkerInv, Faulty, Failures
<1>. QED
  BY <1>1, <1>2, <1>3

\* A worker that takes a job puts just that one in flight.
LEMMA TakeOpen ==
    ASSUME IInv, NEW w \in Workers, Undone(w),
           next <= JobCount,
           next' = next + 1,
           job' = [job EXCEPT ![w] = next],
           state' = [state EXCEPT ![w] = "calling"]
    PROVE  /\ next \in Jobs /\ next \notin 1 .. (next - 1)
           /\ 1 .. (next' - 1) = (1 .. (next - 1)) \cup {next}
           /\ state[w] = "calling" => InFlight' = (InFlight \ {job[w]}) \cup {next}
           /\ state[w] = "scheduled" => InFlight' = InFlight \cup {next}
<1>. USE JobCountPositive DEF IInv, TypeOK, Undone
<1>1. next \in Jobs /\ next \notin 1 .. (next - 1)
  BY DEF Jobs
<1>2. 1 .. (next' - 1) = (1 .. (next - 1)) \cup {next}
  OBVIOUS
<1>3. ASSUME state[w] = "calling" PROVE InFlight' = (InFlight \ {job[w]}) \cup {next}
  BY <1>3 DEF OneTaker, InFlight
<1>4. ASSUME state[w] = "scheduled" PROVE InFlight' = InFlight \cup {next}
  BY <1>4 DEF InFlight
<1>. QED
  BY <1>1, <1>2, <1>3, <1>4

\* What the promise sees of a step: the expressions its variables stand for.
LEMMA Seen ==
    ASSUME UNCHANGED <<requested, completed>>, 1 .. (next' - 1) = 1 .. (next - 1),
           InFlight' = InFlight, Faulty' <=> Faulty, Outcome' = Outcome
    PROVE  UNCHANGED Promise!promised
BY DEF Promise!promised, InFlight, Faulty, Outcome

LEMMA StartPromise ==
    ASSUME IInv, NEW w \in Workers, Start(w)
    PROVE  [Promise!Next]_Promise!promised
<1>0. /\ state[w] = "scheduled" /\ Undone(w)
      /\ UNCHANGED <<completed, requested, phase, verdict>>
  BY DEF Start, Undone, parentVars
<1>1. Outcome = "none" /\ Outcome' = Outcome
  BY <1>0, UndoneNotReturned DEF Outcome
<1>2. CASE Finish(w, "cancelled") \/ Finish(w, "ok")
  <2>0. \A how \in {"ok", "cancelled"} :
            how \in {"ok", "cancelled"} \cup Failures /\ how \notin Failures
    BY DEF Failures
  <2>1. InFlight' = InFlight /\ (Faulty' <=> Faulty) /\ next' = next
    BY <1>0, <1>2, <2>0, FinishOpen DEF Finish
  <2>. QED
    BY <1>0, <1>1, <2>1, Seen
<1>3. CASE /\ next <= JobCount
           /\ next' = next + 1
           /\ job' = [job EXCEPT ![w] = next]
           /\ state' = [state EXCEPT ![w] = "calling"]
           /\ UNCHANGED result
  <2>1. /\ next \in Jobs /\ next \notin 1 .. (next - 1)
        /\ 1 .. (next' - 1) = (1 .. (next - 1)) \cup {next}
        /\ InFlight' = InFlight \cup {next}
    BY <1>0, <1>3, TakeOpen
  <2>2. Faulty' <=> Faulty
    BY <1>3 DEF Faulty
  <2>3. Promise!Begin(next)
    BY <1>0, <1>1, <2>1, <2>2
       DEF Promise!Begin, Promise!Move, InFlight, Faulty, Outcome
  <2>. QED
    BY <2>1, <2>3 DEF Promise!Next
<1>. QED
  BY <1>2, <1>3 DEF Start, TakeJob

LEMMA ReturnsPromise ==
    ASSUME IInv, NEW w \in Workers, Returns(w)
    PROVE  [Promise!Next]_Promise!promised
<1>0. /\ state[w] = "calling" /\ Undone(w)
      /\ UNCHANGED <<requested, phase, verdict>>
  BY DEF Returns, May, Undone, parentVars
<1>1. Outcome = "none" /\ Outcome' = Outcome
  BY <1>0, UndoneNotReturned DEF Outcome
<1>2. PICK k \in Jobs : k = job[w] /\ k \in InFlight
  BY <1>0, JobCountPositive DEF IInv, TypeOK, WorkerInv, Jobs, InFlight
<1>3. \E r \in Rankings : completed' = [completed EXCEPT ![job[w]] = r]
  BY DEF Returns
<1>4. CASE Finish(w, "ok")
  <2>0. "ok" \in {"ok", "cancelled"} \cup Failures /\ "ok" \notin Failures
    BY DEF Failures
  <2>1. InFlight' = InFlight \ {job[w]} /\ (Faulty' <=> Faulty) /\ next' = next
    BY <1>0, <1>4, <2>0, FinishOpen DEF Finish
  <2>2. Promise!Move({k}, {})
    BY <1>0, <1>1, <1>2, <2>1 DEF Promise!Move, InFlight, Outcome
  <2>3. Promise!Answer(k)
    BY <1>2, <1>3, <2>1, <2>2 DEF Promise!Answer, InFlight, Faulty
  <2>. QED
    BY <1>2, <2>3 DEF Promise!Next
<1>5. CASE /\ next <= JobCount
           /\ next' = next + 1
           /\ job' = [job EXCEPT ![w] = next]
           /\ state' = [state EXCEPT ![w] = "calling"]
           /\ UNCHANGED result
  <2>1. /\ next \in Jobs /\ next \notin 1 .. (next - 1)
        /\ 1 .. (next' - 1) = (1 .. (next - 1)) \cup {next}
        /\ InFlight' = (InFlight \ {job[w]}) \cup {next}
    BY <1>0, <1>5, TakeOpen
  <2>2. Faulty' <=> Faulty
    BY <1>5 DEF Faulty
  <2>3. PICK j \in Jobs : j = next
    BY <2>1
  <2>4. Promise!Move({k}, {j})
    BY <1>0, <1>1, <1>2, <2>1, <2>3 DEF Promise!Move, InFlight, Outcome
  <2>5. Promise!Answer(k)
    BY <1>2, <1>3, <2>2, <2>4 DEF Promise!Answer, InFlight, Faulty
  <2>. QED
    BY <1>2, <2>5 DEF Promise!Next
<1>. QED
  BY <1>4, <1>5 DEF Returns, TakeJob

\* A call that ends without an answer: abandoned for the caller's request,
\* or a failure.
LEMMA BreaksPromise ==
    ASSUME IInv, NEW w \in Workers, Raises(w) \/ Cancelled(w)
    PROVE  [Promise!Next]_Promise!promised
<1>0. /\ state[w] = "calling" /\ Undone(w)
      /\ UNCHANGED <<completed, requested, phase, verdict>>
  BY DEF Raises, Cancelled, May, Undone, parentVars
<1>1. Outcome = "none" /\ Outcome' = Outcome
  BY <1>0, UndoneNotReturned DEF Outcome
<1>2. PICK k \in Jobs : k = job[w] /\ k \in InFlight
  BY <1>0, JobCountPositive DEF IInv, TypeOK, WorkerInv, Jobs, InFlight
<1>3. ASSUME NEW how \in {"ok", "cancelled"} \cup Failures, Finish(w, how)
      PROVE  /\ Promise!Move({k}, {})
             /\ Faulty' <=> (Faulty \/ how \in Failures)
  <2>1. /\ InFlight' = InFlight \ {job[w]} /\ next' = next
        /\ Faulty' <=> (Faulty \/ how \in Failures)
    BY <1>0, <1>3, FinishOpen DEF Finish
  <2>. QED
    BY <1>0, <1>1, <1>2, <2>1 DEF Promise!Move, InFlight, Outcome
<1>4. CASE Finish(w, "failed") \/ Finish(w, "timed out")
  <2>1. Promise!Move({k}, {}) /\ Faulty'
    BY <1>3, <1>4 DEF Failures
  <2>2. Promise!Fail(k)
    BY <1>0, <1>2, <2>1 DEF Promise!Fail, InFlight, Faulty
  <2>. QED
    BY <1>2, <2>2 DEF Promise!Next
<1>5. CASE requested /\ Finish(w, "cancelled")
  <2>0. "cancelled" \in {"ok", "cancelled"} \cup Failures /\ "cancelled" \notin Failures
    BY DEF Failures
  <2>1. Promise!Move({k}, {}) /\ (Faulty' <=> Faulty)
    BY <1>3, <1>5, <2>0
  <2>2. Promise!Abandon(k)
    BY <1>0, <1>2, <1>5, <2>1 DEF Promise!Abandon, InFlight, Faulty
  <2>. QED
    BY <1>2, <2>2 DEF Promise!Next
<1>. QED
  BY <1>4, <1>5 DEF Raises, Cancelled

\* Until the parent's last step nothing it does is seen from outside, but
\* for the request itself.
LEMMA ParentPromise ==
    ASSUME IInv, IInv', ParentWake \/ CleanupDone
    PROVE  [Promise!Next]_Promise!promised
<1>0. UNCHANGED <<next, state, job, result, completed, requested>>
  BY DEF ParentWake, CleanupDone, EnterCleanup, workerVars
<1>1. /\ InFlight' = InFlight /\ (Faulty' <=> Faulty)
      /\ 1 .. (next' - 1) = 1 .. (next - 1)
  BY <1>0 DEF InFlight, Faulty
<1>2. phase # "returned" /\ Outcome = "none"
  BY DEF ParentWake, CleanupDone, Outcome
<1>3. CASE phase' # "returned"
  BY <1>0, <1>1, <1>2, <1>3, Seen DEF Outcome
<1>4. CASE phase' = "returned"
  <2>1. InFlight = {}
    <3>1. \A v \in Workers : state[v] # "calling"
      BY <1>0, <1>4 DEF IInv, ParentInv, AllDone, Undone
    <3>. QED
      BY <3>1 DEF InFlight
  <2>2. requested => verdict' = "cancelled"
    BY <1>0, <1>4 DEF IInv, ParentInv
  <2>3. ~requested /\ Faulty => verdict' = "failed"
    BY <1>0, <1>4 DEF IInv, TypeOK, ParentInv, GatherInv, ParentWake, CleanupDone,
                     Faulty, Failures, EnterCleanup
  <2>4. ~requested /\ ~Faulty => verdict' = IF Promise!Drift THEN "drift" ELSE "ok"
    BY <1>0, <1>4 DEF IInv, ParentInv, GatherInv, ParentWake, CleanupDone,
                     Faulty, Drift, Promise!Drift, EnterCleanup
  <2>5. verdict' = "ok" => \A k \in Jobs : completed[k] \in Rankings
    <3>1. IInv' => SuccessIsComplete'
      BY IInvSuccess, PTL
    <3>. QED
      BY <1>0, <3>1 DEF SuccessIsComplete
  <2>6. Promise!Return
    BY <1>0, <1>1, <1>2, <1>4, <2>1, <2>2, <2>3, <2>4, <2>5
       DEF Promise!Return, InFlight, Faulty, Outcome
  <2>. QED
    BY <2>6 DEF Promise!Next
<1>. QED
  BY <1>3, <1>4

LEMMA RequestPromise ==
    ASSUME IInv, RequestCancel
    PROVE  [Promise!Next]_Promise!promised
<1>0. /\ UNCHANGED <<next, state, job, result, completed, phase, verdict>>
      /\ requested' = TRUE /\ phase # "returned"
  BY DEF RequestCancel, workerVars
<1>1. /\ InFlight' = InFlight /\ (Faulty' <=> Faulty)
      /\ 1 .. (next' - 1) = 1 .. (next - 1)
      /\ Outcome = "none" /\ Outcome' = Outcome
  BY <1>0 DEF InFlight, Faulty, Outcome
<1>2. Promise!RequestCancel
  BY <1>0, <1>1 DEF Promise!RequestCancel, InFlight, Faulty, Outcome
<1>. QED
  BY <1>2 DEF Promise!Next

\* The pool keeps the promise it makes to its caller.
THEOREM PoolKeepsPromise == Spec => KeepsPromise
<1>1. IInv /\ IInv' /\ [Next]_vars => [Promise!Next]_Promise!promised
  <2>. SUFFICES ASSUME IInv, IInv', [Next]_vars
                PROVE  [Promise!Next]_Promise!promised
    OBVIOUS
  <2>1. ASSUME NEW w \in Workers, Start(w) PROVE [Promise!Next]_Promise!promised
    BY <2>1, StartPromise
  <2>2. ASSUME NEW w \in Workers, Returns(w) PROVE [Promise!Next]_Promise!promised
    BY <2>2, ReturnsPromise
  <2>3. ASSUME NEW w \in Workers, Raises(w) \/ Cancelled(w)
        PROVE  [Promise!Next]_Promise!promised
    BY <2>3, BreaksPromise
  <2>4. ASSUME NEW w \in Workers, Ignores(w) \/ TimerFires(w) \/ Notice(w)
        PROVE  [Promise!Next]_Promise!promised
    BY <2>4, Seen DEF Ignores, TimerFires, Notice, workerVars, parentVars,
                      InFlight, Faulty, Outcome
  <2>5. CASE ParentWake \/ CleanupDone
    BY <2>5, ParentPromise
  <2>6. CASE RequestCancel
    BY <2>6, RequestPromise
  <2>7. CASE UNCHANGED vars
    BY <2>7, Seen DEF vars, workerVars, parentVars, InFlight, Faulty, Outcome
  <2>. QED
    BY <2>1, <2>2, <2>3, <2>4, <2>5, <2>6, <2>7 DEF Next, CallEnds, Returned
<1>. QED
  BY InitPromise, <1>1, Invariance, PTL DEF Spec, KeepsPromise, Promise!Spec
=============================================================================
