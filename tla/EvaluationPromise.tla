-------------------------- MODULE EvaluationPromise --------------------------
(***************************************************************************)
(* What evaluate_async_retrievers() promises its caller, without a word on *)
(* worker tasks, gather() or timers (retrievers/async_callable.py, the     *)
(* docstring at lines 121-133).  Every planned retrieval is begun at most  *)
(* once; the caller gets its answer only when no retrieval is in flight;   *)
(* a cancellation request of the caller decides the outcome; and a success *)
(* means every retrieval was answered, alike across its repetitions.       *)
(***************************************************************************)
CONSTANTS
    Retrievals,     \* the planned (retriever, query, repetition) calls
    PairOf,         \* [Retrievals -> its (retriever, query) pair]
    Rankings,       \* the ranking identities a provider may answer with
    NoRanking       \* no answer yet

VARIABLES
    begun,          \* the retrievals that were handed to a provider
    open,           \* the retrievals in flight
    answer,         \* [Retrievals -> Rankings \cup {NoRanking}]
    fault,          \* some retrieval failed or missed its deadline
    requested,      \* the caller asked for cancellation
    outcome         \* "none", then what the caller gets

promised == <<begun, open, answer, fault, requested, outcome>>

\* Two repetitions of one pair were answered differently.
Drift == \E j, k \in Retrievals : PairOf[j] = PairOf[k] /\ answer[j] # answer[k]

Init ==
    /\ begun = {}
    /\ open = {}
    /\ answer = [k \in Retrievals |-> NoRanking]
    /\ fault = FALSE
    /\ requested = FALSE
    /\ outcome = "none"

\* A step ends the calls in `ended` and begins those in `fresh`.
Move(ended, fresh) ==
    /\ outcome = "none"
    /\ fresh \subseteq Retrievals \ begun
    /\ begun' = begun \cup fresh
    /\ open' = (open \ ended) \cup fresh
    /\ UNCHANGED <<requested, outcome>>

Begin(k) == Move({}, {k}) /\ UNCHANGED <<answer, fault>>

\* An answer is recorded; whoever waited for it may begin another retrieval.
Answer(k) ==
    /\ k \in open
    /\ \E r \in Rankings : answer' = [answer EXCEPT ![k] = r]
    /\ \/ Move({k}, {})
       \/ \E j \in Retrievals : Move({k}, {j})
    /\ UNCHANGED fault

Fail(k) == k \in open /\ Move({k}, {}) /\ fault' = TRUE /\ UNCHANGED answer

\* Only the caller's cancellation lets a retrieval end without a verdict.
Abandon(k) ==
    k \in open /\ requested /\ Move({k}, {}) /\ UNCHANGED <<answer, fault>>

RequestCancel ==
    /\ outcome = "none"
    /\ requested' = TRUE
    /\ UNCHANGED <<begun, open, answer, fault, outcome>>

Return ==
    /\ outcome = "none"
    /\ open = {}
    /\ outcome' = IF requested THEN "cancelled"
                  ELSE IF fault THEN "failed"
                  ELSE IF Drift THEN "drift" ELSE "ok"
    /\ outcome' = "ok" => \A k \in Retrievals : answer[k] \in Rankings
    /\ UNCHANGED <<begun, open, answer, fault, requested>>

Next ==
    \/ \E k \in Retrievals : Begin(k) \/ Answer(k) \/ Fail(k) \/ Abandon(k)
    \/ RequestCancel
    \/ Return

Spec == Init /\ [][Next]_promised
=============================================================================
