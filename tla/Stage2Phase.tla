----------------------------- MODULE Stage2Phase -----------------------------
(***************************************************************************)
(* The second stage of classify-real (engine/cli/pipeline.py with          *)
(* engine/classify/stage2.py): a pool of threads asks the model about each *)
(* routed incident with one classifier object, whose call counters and     *)
(* cost tracker they share without a lock.  The main thread collects what  *)
(* is done; the first exception it meets ends the command, but only after  *)
(* the pool has worked off its queue.                                      *)
(*                                                                         *)
(* An increment is one step, and so are two in a row: CPython 3.12, which  *)
(* the project requires, switches threads at calls and jumps only.  What   *)
(* an answer says is in Classification.                                    *)
(***************************************************************************)
EXTENDS Naturals, FiniteSets

CONSTANTS
    Threads,        \* max_concurrent worker threads
    Routed,         \* number of incidents routed to Stage 2, in queue order
    Ceiling,        \* charged calls from which the cost check aborts
    Window,         \* calls below which the fallback rate is not looked at
    PerFallback     \* one fallback in so many calls is the rate allowed

Stage2Assumption ==
    /\ IsFiniteSet(Threads) /\ Threads # {}
    /\ {Routed, Ceiling, Window, PerFallback} \subseteq Nat
    /\ PerFallback > 0 /\ Ceiling > 0

Queue == 1 .. Routed

VARIABLES
    next,           \* the next incident of the queue
    pc,             \* what each thread is at: [at, incident]
    future,         \* how each incident's future stands
    spent,          \* calls charged to the tracker
    total,          \* _total_count
    fallbacks,      \* _fallback_count
    collected,      \* incidents whose result the main thread has
    main            \* what the command is at

s2vars == <<next, pc, future, spent, total, fallbacks, collected, main>>

Idle == [at |-> "idle", incident |-> 0]
Finished == {"written", "aborted"}

Stage2TypeOK ==
    /\ next \in 1 .. Routed + 1
    /\ pc \in [Threads -> {Idle} \cup [at : {"check", "rate", "call", "retry"}, incident : Queue]]
    /\ future \in [Queue -> {"waiting", "answered", "fallback", "raised"}]
    /\ spent \in 0 .. Routed /\ total \in 0 .. Routed /\ fallbacks \in 0 .. Routed
    /\ collected \subseteq Queue
    /\ main \in {"ready", "collecting", "draining"} \cup Finished

Stage2Init ==
    /\ next = 1 /\ pc = [t \in Threads |-> Idle]
    /\ future = [i \in Queue |-> "waiting"]
    /\ spent = 0 /\ total = 0 /\ fallbacks = 0
    /\ collected = {} /\ main = "ready"

StartPool ==
    /\ main = "ready" /\ main' = "collecting"
    /\ UNCHANGED <<next, pc, future, spent, total, fallbacks, collected>>

-----------------------------------------------------------------------------
(* A worker thread.                                                        *)

Take(t) ==
    /\ main \in {"collecting", "draining"} /\ pc[t] = Idle /\ next <= Routed
    /\ pc' = [pc EXCEPT ![t] = [at |-> "check", incident |-> next]]
    /\ next' = next + 1
    /\ UNCHANGED <<future, spent, total, fallbacks, collected, main>>

\* The thread is done with its incident, whose future becomes f.
Done(t, f) ==
    /\ pc' = [pc EXCEPT ![t] = Idle]
    /\ future' = [future EXCEPT ![pc[t].incident] = f]
    /\ UNCHANGED <<next, collected, main>>

\* Mutant: the check lets the call pass that reaches the ceiling.
OverCeiling_Reached == spent > Ceiling

OverCeiling == spent >= Ceiling
RateExceeded == total > Window /\ fallbacks * PerFallback > total

\* classify: two guards look at the counters before the call, one after the
\* other, and none does after it.
CheckCost(t) ==
    /\ pc[t].at = "check"
    /\ \/ OverCeiling /\ Done(t, "raised")
       \/ /\ ~OverCeiling
          /\ pc' = [pc EXCEPT ![t].at = "rate"]
          /\ UNCHANGED <<next, future, collected, main>>
    /\ UNCHANGED <<spent, total, fallbacks>>

CheckRate(t) ==
    /\ pc[t].at = "rate"
    /\ \/ RateExceeded /\ Done(t, "raised")
       \/ /\ ~RateExceeded
          /\ pc' = [pc EXCEPT ![t].at = "call"]
          /\ UNCHANGED <<next, future, collected, main>>
    /\ UNCHANGED <<spent, total, fallbacks>>

\* The model answered: the call is charged and counted, then the text is read.
\* An unreadable or rejected text is a label too, one out of scope; a JSON list
\* raises.
Answer(t) ==
    /\ pc[t].at \in {"call", "retry"}
    /\ spent' = spent + 1 /\ total' = total + 1
    /\ \E f \in {"answered", "raised"} : Done(t, f)
    /\ UNCHANGED fallbacks

\* The body of the response is no JSON: run_sync raises what classify does not
\* catch, and nothing was charged.
Garbled(t) ==
    /\ pc[t].at \in {"call", "retry"}
    /\ Done(t, "raised")
    /\ UNCHANGED <<spent, total, fallbacks>>

\* Mutant: a failed retry is followed by another call.
FailCall_Again(t) ==
    /\ pc[t].at \in {"call", "retry"}
    /\ pc' = [pc EXCEPT ![t].at = IF pc[t].at = "call" THEN "retry" ELSE "call"]
    /\ UNCHANGED <<next, future, collected, main, spent, total, fallbacks>>

\* A RunPodError: the first is retried, the second makes a fallback.
FailCall(t) ==
    \/ /\ pc[t].at = "call"
       /\ pc' = [pc EXCEPT ![t].at = "retry"]
       /\ UNCHANGED <<next, future, collected, main, spent, total, fallbacks>>
    \/ /\ pc[t].at = "retry"
       /\ total' = total + 1 /\ fallbacks' = fallbacks + 1
       /\ Done(t, "fallback")
       /\ UNCHANGED spent

Worker(t) ==
    Take(t) \/ CheckCost(t) \/ CheckRate(t) \/ Answer(t) \/ Garbled(t) \/ FailCall(t)

-----------------------------------------------------------------------------
(* The main thread.                                                        *)

Quiet == next > Routed /\ \A t \in Threads : pc[t] = Idle

\* as_completed hands the futures over in the order they are done; the first
\* that raised is raised again, and leaving the pool waits for all the others.
Collect ==
    /\ main = "collecting"
    /\ \E i \in Queue \ collected :
         /\ future[i] # "waiting"
         /\ IF future[i] = "raised"
            THEN main' = "draining" /\ UNCHANGED collected
            ELSE collected' = collected \cup {i} /\ UNCHANGED main
    /\ UNCHANGED <<next, pc, future, spent, total, fallbacks>>

\* The labels are merged and written when every future gave one.
WriteLabels ==
    /\ main = "collecting" /\ collected = Queue /\ main' = "written"
    /\ UNCHANGED <<next, pc, future, spent, total, fallbacks, collected>>

Abort ==
    /\ main = "draining" /\ Quiet /\ main' = "aborted"
    /\ UNCHANGED <<next, pc, future, spent, total, fallbacks, collected>>

Main == Collect \/ WriteLabels \/ Abort

Stage2Next == StartPool \/ Main \/ \E t \in Threads : Worker(t)

\* A call ends, its time-out sees to that; threads and main thread are run.
Fairness == WF_s2vars(Main) /\ \A t \in Threads : WF_s2vars(Worker(t))

Stage2Spec == Stage2Init /\ [][Stage2Next]_s2vars /\ Fairness

-----------------------------------------------------------------------------
\* The guards are checked before a call and the counters are changed after it,
\* by threads that do not wait for each other: what a guard lets through is
\* bounded by the number of threads, for the money of the run whether it ends
\* well or not, and for the incidents labelled out of scope because the model
\* could not be reached.  stage2.py classify, cost_tracker.py.
GuardsLagByThreads ==
    LET threads  == Cardinality(Threads)
        unheard  == Cardinality({i \in Queue : future[i] = "fallback"})
    IN  /\ spent <= Ceiling + threads - 1
        /\ main = "written" /\ Routed > Window + threads =>
             unheard * PerFallback <= Routed + threads * PerFallback

\* Labels are written only when every routed incident has one of its own, and
\* the command, once started, ends either way: an exception in one thread
\* neither hangs the pool nor leaves a label out.  pipeline.py classify_real.
PhaseEnds ==
    /\ (main = "collecting") ~> (main \in Finished)
    /\ [](main = "written" => \A i \in Queue : future[i] \in {"answered", "fallback"})
=============================================================================
