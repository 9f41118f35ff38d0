--------------------------- MODULE AsyncEvaluation ---------------------------
(***************************************************************************)
(* evaluate_async_retrievers() of retrievers/async_callable.py: a fixed    *)
(* pool of asyncio worker tasks takes retrieval jobs from one shared       *)
(* iterator, each call under its own asyncio.timeout(), while the calling  *)
(* task awaits gather() over the pool, and cleans the pool up when a call  *)
(* fails or when the calling task is itself cancelled.                     *)
(*                                                                         *)
(* asyncio is cooperative, so a step of the model is what one task does    *)
(* between two suspensions: the end of a call, the bookkeeping after it    *)
(* and the start of the worker's next call are ONE action.  asyncio's own  *)
(* rules (gather, Task.cancel, timeout) are modelled as CPython 3.11's     *)
(* asyncio applies them to this caller.                                    *)
(***************************************************************************)
EXTENDS Integers, FiniteSets

CONSTANTS
    Pairs,          \* number of (retriever, query) pairs
    Repetitions,    \* repetitions of each pair
    Concurrency,    \* the concurrency argument
    Rankings,       \* ranking identities a provider may return
    NoRanking,      \* the job has no entry in `completed`
    HasTimeout,     \* timeout_s is not None
    Reactions       \* what a provider may do with a CancelledError

(* "reraise" lets it propagate, "raise" replaces it by an exception of its *)
(* own, "return" suppresses it and returns, "ignore" suppresses it and     *)
(* goes on waiting.                                                        *)
AllReactions == {"reraise", "raise", "return", "ignore"}

ASSUME ConstantsAssumption ==
    /\ Pairs \in Nat \ {0} /\ Repetitions \in Nat \ {0} /\ Concurrency \in Nat \ {0}
    /\ NoRanking \notin Rankings
    /\ HasTimeout \in BOOLEAN
    /\ Reactions \subseteq AllReactions

JobCount == Pairs * Repetitions
Jobs == 1 .. JobCount
Workers == 1 .. (IF Concurrency < JobCount THEN Concurrency ELSE JobCount)

\* Jobs are generated pair by pair, repetitions innermost.
PairOf == [k \in Jobs |-> (k - 1) \div Repetitions]

VARIABLES
    next,           \* the job the shared iterator yields next
    state,          \* [Workers -> "scheduled", "calling" or "done"]
    job,            \* [Workers -> the job being called (0 before the first)]
    result,         \* [Workers -> how the task ended]
    pend,           \* [Workers -> a CancelledError is thrown in at the next step]
    asked,          \* [Workers -> cancelled by the parent during this call]
    expired,        \* [Workers -> the deadline of this call has passed]
    completed,      \* [Jobs -> the ranking recorded, or NoRanking]
    gather,         \* the awaited gather(): "pending", then its result
    noticed,        \* the finished workers whose callback gather() has run
    first,          \* the worker whose exception gather() took (0: none)
    phase,          \* the parent: "gather", "cleanup" or "returned"
    verdict,        \* what the parent returns or raises
    requested,      \* parent_task.cancelling() > parent_cancellation_count
    swept,          \* _cancel_requested of the gather() being awaited
    mustCancel      \* the parent gets a CancelledError when it wakes

workerVars == <<next, state, job, result, expired, completed>>
cancelVars == <<pend, asked>>
gatherVars == <<gather, noticed, first>>
parentVars == <<phase, verdict, requested, swept, mustCancel>>
vars == <<workerVars, cancelVars, gatherVars, parentVars>>

Failures == {"failed", "timed out"}
Undone(w) == state[w] # "done"
AllDone == \A w \in Workers : ~Undone(w)

Init ==
    /\ next = 1
    /\ state = [w \in Workers |-> "scheduled"]
    /\ job = [w \in Workers |-> 0]
    /\ result = [w \in Workers |-> "none"]
    /\ pend = [w \in Workers |-> FALSE]
    /\ asked = [w \in Workers |-> FALSE]
    /\ expired = [w \in Workers |-> FALSE]
    /\ completed = [k \in Jobs |-> NoRanking]
    /\ gather = "pending"
    /\ noticed = {}
    /\ first = 0
    /\ phase = "gather"
    /\ verdict = "none"
    /\ requested = FALSE
    /\ swept = FALSE
    /\ mustCancel = FALSE

----------------------------------------------------------------------------
(* Worker tasks.                                                           *)

Finish(w, how) ==
    /\ state' = [state EXCEPT ![w] = "done"]
    /\ result' = [result EXCEPT ![w] = how]
    /\ pend' = [pend EXCEPT ![w] = FALSE]
    /\ UNCHANGED <<next, job, asked, expired>>

\* Mutant: two workers can be handed the same job.
TakeJobShared(w) ==
    \/ /\ next > JobCount
       /\ Finish(w, "ok")
    \/ /\ next <= JobCount
       /\ next' \in {next, next + 1}
       /\ job' = [job EXCEPT ![w] = next]
       /\ state' = [state EXCEPT ![w] = "calling"]
       /\ pend' = [pend EXCEPT ![w] = FALSE]
       /\ asked' = [asked EXCEPT ![w] = FALSE]
       /\ expired' = [expired EXCEPT ![w] = FALSE]
       /\ UNCHANGED result

\* worker(): next(jobs), then either a new call or, on StopIteration, the end.
TakeJob(w) ==
    \/ /\ next > JobCount
       /\ Finish(w, "ok")
    \/ /\ next <= JobCount
       /\ next' = next + 1
       /\ job' = [job EXCEPT ![w] = next]
       /\ state' = [state EXCEPT ![w] = "calling"]
       /\ pend' = [pend EXCEPT ![w] = FALSE]
       /\ asked' = [asked EXCEPT ![w] = FALSE]
       /\ expired' = [expired EXCEPT ![w] = FALSE]
       /\ UNCHANGED result

\* The task's first step; cancelled before it, the task ends without a call.
Start(w) ==
    /\ state[w] = "scheduled"
    /\ \/ pend[w] /\ Finish(w, "cancelled")
       \/ ~pend[w] /\ TakeJob(w)
    /\ UNCHANGED <<completed, gatherVars, parentVars>>

\* A provider's step under a pending CancelledError depends on its reaction.
May(w, reaction) == state[w] = "calling" /\ (pend[w] => reaction \in Reactions)

Returns(w) ==
    /\ May(w, "return")
    /\ \E r \in Rankings : completed' = [completed EXCEPT ![job[w]] = r]
    /\ TakeJob(w)
    /\ UNCHANGED <<gatherVars, parentVars>>

\* A provider's exception, or a return value that _validate_items rejects.
Raises(w) ==
    /\ May(w, "raise") \/ May(w, "return")
    /\ Finish(w, "failed")
    /\ UNCHANGED <<completed, gatherVars, parentVars>>

\* A CancelledError leaves retrieve(): asyncio.timeout() turns it into a
\* TimeoutError if only its own timer cancelled the task; otherwise run_one
\* re-raises it if the parent is being cancelled, else reports a failure.
Cancelled(w) ==
    /\ May(w, "reraise")
    /\ Finish(w, IF expired[w] /\ ~asked[w] THEN "timed out"
                 ELSE IF requested THEN "cancelled" ELSE "failed")
    /\ UNCHANGED <<completed, gatherVars, parentVars>>

Ignores(w) ==
    /\ pend[w] /\ May(w, "ignore")
    /\ pend' = [pend EXCEPT ![w] = FALSE]
    /\ UNCHANGED <<workerVars, asked, gatherVars, parentVars>>

\* Mutant: only the first call of the evaluation has a deadline.
TimerFiresOnFirst(w) ==
    /\ HasTimeout
    /\ state[w] = "calling" /\ ~expired[w] /\ job[w] = 1
    /\ expired' = [expired EXCEPT ![w] = TRUE]
    /\ pend' = [pend EXCEPT ![w] = TRUE]
    /\ UNCHANGED <<next, state, job, result, completed, asked, gatherVars, parentVars>>

\* The deadline passes at most once a call.
TimerFires(w) ==
    /\ HasTimeout
    /\ state[w] = "calling" /\ ~expired[w]
    /\ expired' = [expired EXCEPT ![w] = TRUE]
    /\ pend' = [pend EXCEPT ![w] = TRUE]
    /\ UNCHANGED <<next, state, job, result, completed, asked, gatherVars, parentVars>>

----------------------------------------------------------------------------
(* The parent task.                                                        *)

\* Mutant: only the workers that are in a call are cancelled.
CancelCalling ==
    /\ pend' = [w \in Workers |-> pend[w] \/ state[w] = "calling"]
    /\ asked' = [w \in Workers |-> asked[w] \/ state[w] = "calling"]

\* Mutant: nobody is cancelled.
CancelNobody == UNCHANGED cancelVars

CancelUndone ==
    /\ pend' = [w \in Workers |-> pend[w] \/ Undone(w)]
    /\ asked' = [w \in Workers |-> asked[w] \/ Undone(w)]

\* gather() runs the done-callback of a finished worker: the first exception
\* settles it, and so does the last worker, whose results lose against a
\* cancellation request.
Notice(w) ==
    /\ phase = "gather"
    /\ ~Undone(w) /\ w \notin noticed
    /\ noticed' = noticed \cup {w}
    /\ \/ /\ gather = "pending" /\ result[w] \in Failures
          /\ gather' = "failed" /\ first' = w
       \/ /\ gather = "pending" /\ result[w] = "cancelled"
          /\ gather' = "cancelled" /\ first' = w
       \/ /\ gather = "pending" /\ result[w] = "ok" /\ noticed' = Workers
          /\ gather' = IF swept THEN "cancelled" ELSE "ok"
          /\ UNCHANGED first
       \/ /\ gather = "pending" => result[w] = "ok" /\ noticed' # Workers
          /\ UNCHANGED <<gather, first>>
    /\ UNCHANGED <<workerVars, cancelVars, parentVars>>

EnterCleanup(reason) ==
    /\ phase' = "cleanup"
    /\ verdict' = reason
    /\ CancelUndone
    /\ swept' = FALSE
    /\ mustCancel' = FALSE
    /\ UNCHANGED requested

\* The assembly loop raises when two repetitions of a pair disagree.
Drift == \E j, k \in Jobs : PairOf[j] = PairOf[k] /\ completed[j] # completed[k]

\* Mutant: a failure is reported without looking for a cancellation request.
ParentWakeUnchecked ==
    /\ phase = "gather" /\ gather # "pending"
    /\ \/ /\ mustCancel \/ gather = "cancelled"
          /\ EnterCleanup("cancelled")
       \/ /\ ~mustCancel /\ gather = "failed"
          /\ EnterCleanup("failed")
       \/ /\ ~mustCancel /\ gather = "ok"
          /\ phase' = "returned"
          /\ verdict' = IF Drift THEN "drift" ELSE "ok"
          /\ UNCHANGED <<cancelVars, requested, swept, mustCancel>>
    /\ UNCHANGED <<workerVars, gatherVars>>

ParentWake ==
    /\ phase = "gather" /\ gather # "pending"
    /\ \/ /\ mustCancel \/ gather = "cancelled"
          /\ EnterCleanup("cancelled")
       \/ /\ ~mustCancel /\ gather = "failed"
          /\ EnterCleanup(IF requested THEN "cancelled" ELSE "failed")
       \/ /\ ~mustCancel /\ gather = "ok"
          /\ phase' = "returned"
          /\ verdict' = IF Drift THEN "drift" ELSE "ok"
          /\ UNCHANGED <<cancelVars, requested, swept, mustCancel>>
    /\ UNCHANGED <<workerVars, gatherVars>>

\* Mutant: the workers are cancelled and not awaited.
CleanupNotAwaited ==
    /\ phase = "cleanup"
    /\ phase' = "returned"
    /\ verdict' = IF swept \/ mustCancel THEN "cancelled" ELSE verdict
    /\ UNCHANGED <<workerVars, cancelVars, gatherVars, requested, swept, mustCancel>>

CleanupDone ==
    /\ phase = "cleanup" /\ AllDone
    /\ phase' = "returned"
    /\ verdict' = IF swept \/ mustCancel THEN "cancelled" ELSE verdict
    /\ UNCHANGED <<workerVars, cancelVars, gatherVars, requested, swept, mustCancel>>

\* parent_task.cancel() by the caller, at any time and any number of times:
\* passed on to the unfinished workers of the gather() being awaited, or kept
\* for the parent's next step when there is none.
RequestCancel ==
    /\ phase # "returned"
    /\ requested' = TRUE
    /\ \/ /\ (phase = "cleanup" \/ gather = "pending") /\ ~AllDone
          /\ CancelUndone
          /\ swept' = TRUE
          /\ UNCHANGED mustCancel
       \/ /\ (phase = "gather" /\ gather # "pending") \/ AllDone
          /\ mustCancel' = TRUE
          /\ UNCHANGED <<cancelVars, swept>>
    /\ UNCHANGED <<workerVars, gatherVars, phase, verdict>>

CallEnds(w) == Returns(w) \/ Raises(w) \/ Cancelled(w) \/ Ignores(w)

Returned == phase = "returned" /\ UNCHANGED vars

Next ==
    \/ \E w \in Workers : Start(w) \/ CallEnds(w) \/ TimerFires(w) \/ Notice(w)
    \/ ParentWake \/ CleanupDone \/ RequestCancel
    \/ Returned

Spec == Init /\ [][Next]_vars

(* asyncio runs every ready callback and steps a task into which a         *)
(* CancelledError was thrown; it cannot make a provider that was not       *)
(* cancelled answer.  That timers fire is not assumed here: timeout_s may  *)
(* be longer than anybody waits.                                           *)
Delivered(w) == pend[w] /\ CallEnds(w)
Fairness ==
    /\ \A w \in Workers :
          /\ WF_vars(Start(w)) /\ WF_vars(Notice(w))
          /\ WF_vars(Delivered(w))
    /\ WF_vars(ParentWake) /\ WF_vars(CleanupDone)
FairSpec == Spec /\ Fairness

----------------------------------------------------------------------------
(* Properties.                                                             *)

TypeOK ==
    /\ next \in 1 .. JobCount + 1
    /\ state \in [Workers -> {"scheduled", "calling", "done"}]
    /\ job \in [Workers -> 0 .. JobCount]
    /\ result \in [Workers -> {"none", "ok", "cancelled"} \cup Failures]
    /\ pend \in [Workers -> BOOLEAN]
    /\ asked \in [Workers -> BOOLEAN]
    /\ expired \in [Workers -> BOOLEAN]
    /\ completed \in [Jobs -> Rankings \cup {NoRanking}]
    /\ gather \in {"pending", "ok", "failed", "cancelled"}
    /\ noticed \subseteq Workers
    /\ first \in Workers \cup {0}
    /\ phase \in {"gather", "cleanup", "returned"}
    /\ verdict \in {"none", "ok", "drift", "failed", "cancelled"}
    /\ requested \in BOOLEAN /\ swept \in BOOLEAN /\ mustCancel \in BOOLEAN

\* However the evaluation ends (result, failure, drift, cancellation), no
\* worker task outlives it: lines 227-241 await the pool before raising.
NoOrphans == phase = "returned" => AllDone

\* The caller sees CancelledError exactly when it asked for cancellation:
\* neither a provider's own CancelledError nor one that the cleanup sends to
\* the siblings turns a failure into a cancellation, and no failure, not even
\* one raised while unwinding, hides a request that came before the end.
CancellationDecides == phase = "returned" => (verdict = "cancelled" <=> requested)

\* The error that the caller gets is the original failure: it comes from a
\* call the evaluation had not cancelled, never from one its own cleanup
\* broke off.
OriginalFailure ==
    phase = "returned" /\ verdict = "failed" =>
        /\ first \in Workers
        /\ result[first] \in Failures
        /\ ~asked[first]

\* A result is built only when every worker ended well and every job has its
\* ranking, whichever worker took it and in whichever order they ended.
SuccessIsComplete ==
    verdict = "ok" =>
        /\ \A w \in Workers : result[w] = "ok"
        /\ \A k \in Jobs : completed[k] \in Rankings

\* What the caller gets says what happened: how an evaluation ends is decided
\* by its request and by the calls, not by the order in which its tasks stop.
OutcomeIsTrue == CancellationDecides /\ OriginalFailure /\ SuccessIsComplete

\* With providers that do not suppress a cancellation, no provider is called
\* again once the pool was told to stop, by the cleanup or by the caller.
NoCallOnceStopped == [][phase = "cleanup" \/ swept => next' = next]_vars

\* When timers do fire, an evaluation whose providers let a CancelledError
\* end their calls always ends, although any call may never be answered ...
Terminates == (\A w \in Workers : WF_vars(TimerFires(w))) => <>(phase = "returned")

\* ... and it need not wait for a timer once the caller asked to cancel ...
CancelEnds == requested ~> phase = "returned"

\* ... or one call failed, whatever its siblings await.
FailureEnds == (\E w \in Workers : result[w] \in Failures) ~> phase = "returned"

----------------------------------------------------------------------------
(* The inductive invariant behind the safety properties.                   *)

\* A worker is told to stop only for the caller's request or in the cleanup.
WorkerInv ==
    \A w \in Workers :
        /\ state[w] = "done" <=> result[w] # "none"
        /\ state[w] = "calling" => job[w] \in 1 .. next - 1
        /\ result[w] = "cancelled" \/ asked[w] => requested \/ phase # "gather"
        /\ state[w] = "scheduled" /\ pend[w] => requested \/ phase # "gather"

\* No job is in the hands of two workers.
OneTaker ==
    \A v, w \in Workers :
        state[v] = "calling" /\ state[w] = "calling" /\ job[v] = job[w] => v = w

\* Every job handed out is answered, in flight, or was lost with its worker.
JobInv ==
    /\ \A k \in Jobs : k < next =>
          \/ completed[k] \in Rankings
          \/ \E w \in Workers : job[w] = k /\ result[w] # "ok" /\ state[w] # "scheduled"
    /\ \A w \in Workers : result[w] = "ok" => next > JobCount

\* gather() is settled by its first exception, or by its last result.
GatherInv ==
    /\ \A w \in noticed : ~Undone(w)
    /\ gather = "pending" => \A w \in noticed : result[w] = "ok"
    /\ gather = "ok" => \A w \in Workers : result[w] = "ok"
    /\ gather = "failed" => /\ first \in Workers
                           /\ result[first] \in Failures
                           /\ (asked[first] => requested)
    /\ gather = "cancelled" => requested

\* A request is remembered in the gather() it swept, in the parent's next
\* step, or in the verdict, and nowhere else does a cancellation come from.
ParentInv ==
    /\ swept \/ mustCancel \/ verdict = "cancelled" => requested
    /\ phase = "gather" => verdict = "none" /\ (requested => swept \/ mustCancel)
    /\ phase = "gather" /\ gather = "ok" => ~swept
    /\ phase = "cleanup" => /\ verdict \in {"failed", "cancelled"}
                           /\ (requested => verdict = "cancelled" \/ swept \/ mustCancel)
    /\ verdict = "failed" => gather = "failed"
    /\ verdict \in {"ok", "drift"} => gather = "ok"
    /\ phase = "returned" => AllDone /\ (requested => verdict = "cancelled")

IInv == TypeOK /\ WorkerInv /\ OneTaker /\ JobInv /\ GatherInv /\ ParentInv

----------------------------------------------------------------------------
(* The pool keeps the promise of EvaluationPromise.                        *)
Promise == INSTANCE EvaluationPromise WITH
    Retrievals <- Jobs,
    begun <- 1 .. (next - 1),
    open <- {job[w] : w \in {v \in Workers : state[v] = "calling"}},
    answer <- completed,
    fault <- \E w \in Workers : result[w] \in Failures,
    outcome <- IF phase = "returned" THEN verdict ELSE "none"

\* Every step of the pool is a step of the promise, or none of its business.
KeepsPromise == Promise!Spec
=============================================================================
