---------------------------- MODULE BakeoffSweep ----------------------------
(***************************************************************************)
(* The sweep of the classifier bake-off (engine/cli/bakeoff.py and         *)
(* engine/classify/bakeoff_predict.py): every model of the grid labels     *)
(* every incident of the gold set through paid calls made by a pool of     *)
(* worker threads, under a cost ceiling that the workers share, with a     *)
(* checkpoint file per model (outer) and a line per labelled incident      *)
(* (inner) that let a later run resume after a crash, an abort or Ctrl-C.  *)
(*                                                                         *)
(* Models are numbered by their place in the grid.  What a model answers   *)
(* does not matter here: a set of predictions is the set of the incidents  *)
(* it covers.  Every call costs one unit.                                  *)
(***************************************************************************)
EXTENDS Naturals, FiniteSets

CONSTANTS
    NumConfigs,   \* length of the grid
    Incidents,    \* the incidents that are or may come to be in the gold set
    InitialGold,  \* the gold set when the first sweep starts
    MaxWorkers,   \* max_workers of the thread pool
    MaxRetries,   \* max_retries of classify_one
    Ceiling       \* ceiling_usd x abort_factor, in calls

ASSUME GridAssumption == NumConfigs \in Nat \ {0}
ASSUME IncidentsAssumption ==
    IsFiniteSet(Incidents) /\ InitialGold \subseteq Incidents
ASSUME LimitsAssumption ==
    MaxWorkers \in Nat \ {0} /\ MaxRetries \in Nat \ {0} /\ Ceiling \in Nat \ {0}

Configs == 1 .. NumConfigs

VARIABLES
    \* files
    gold,        \* incidents with an adjudicated label
    inner,       \* predict/predict_{config}.jsonl: incidents with a line
    outerState,  \* {config}.json is absent, torn (opened, not yet written)
                 \* or whole
    outer,       \* {config}.json: incidents in it
    scored,      \* classify_provenance.json: [written, lockbox, preds]
    \* the process: main thread
    pc,          \* where the main thread is
    cur,         \* config of the loop over config_names
    lockbox,     \* held-back incidents the winner is selected on
    preds,       \* config_predictions, and results of the config in hand
    \* the process: worker threads of the config in hand
    work,        \* what became of each incident's job
    tries,       \* attempts of the job that failed
    spent,       \* CostTracker: calls recorded
    \* history
    labelled     \* incidents for which a job of some process got a label

files == <<gold, inner, outerState, outer, scored>>
main  == <<pc, cur, lockbox, preds>>
jobs  == <<work, tries, spent>>
vars  == <<files, main, jobs, labelled>>

Jobs == {"none",      \* nothing to do: not in the gold set, or in the inner file
         "queued",    \* submitted to the pool
         "calling",   \* a call is under way
         "answered",  \* the call was answered and recorded
         "erred",     \* the call failed with RunPodError and was recorded
         "finished",  \* the future holds a label
         "failed",    \* the future holds an exception
         "drained"}   \* the main thread has checkpointed the label

TypeOK ==
    /\ gold \subseteq Incidents
    /\ inner \in [Configs -> SUBSET Incidents]
    /\ outerState \in [Configs -> {"absent", "torn", "whole"}]
    /\ outer \in [Configs -> SUBSET Incidents]
    /\ scored \in [written : BOOLEAN, lockbox : SUBSET Incidents,
                   preds : [Configs -> SUBSET Incidents]]
    /\ pc \in {"down", "next", "predict", "unwind", "open", "write"}
    /\ cur \in 1 .. NumConfigs + 1
    /\ lockbox \subseteq Incidents
    /\ preds \in [Configs -> SUBSET Incidents]
    /\ work \in [Incidents -> Jobs]
    /\ tries \in [Incidents -> 0 .. MaxRetries]
    /\ spent \in Nat
    /\ labelled \in [Configs -> SUBSET Incidents]

Nothing == [c \in Configs |-> {}]

Init ==
    /\ gold = InitialGold
    /\ inner = Nothing
    /\ outerState = [c \in Configs |-> "absent"]
    /\ outer = Nothing
    /\ scored = [written |-> FALSE, lockbox |-> {}, preds |-> Nothing]
    /\ pc = "down"
    /\ cur = 1
    /\ lockbox = {}
    /\ preds = Nothing
    /\ work = [i \in Incidents |-> "none"]
    /\ tries = [i \in Incidents |-> 0]
    /\ spent = 0
    /\ labelled = Nothing

\* The process is gone, with its threads and its cost tracker.
ProcessEnds ==
    /\ pc' = "down"
    /\ cur' = 1
    /\ lockbox' = {}
    /\ preds' = Nothing
    /\ work' = [i \in Incidents |-> "none"]
    /\ tries' = [i \in Incidents |-> 0]
    /\ spent' = 0

-----------------------------------------------------------------------------
(* The main thread *)

\* bakeoff_cmd: a fresh cost tracker; lockbox_split of the gold set.
Start ==
    /\ pc = "down"
    /\ lockbox' \in SUBSET gold
    /\ pc' = "next"
    /\ UNCHANGED <<files, cur, preds, jobs, labelled>>

\* The outer checkpoint of the config exists and is loaded.
LoadOuter ==
    /\ pc = "next" /\ cur <= NumConfigs
    /\ outerState[cur] = "whole"
    /\ preds' = [preds EXCEPT ![cur] = outer[cur]]
    /\ cur' = cur + 1
    /\ UNCHANGED <<files, pc, lockbox, jobs, labelled>>

\* It exists and is no JSON: json.loads raises, and will in every later run.
OuterUnreadable ==
    /\ pc = "next" /\ cur <= NumConfigs
    /\ outerState[cur] = "torn"
    /\ ProcessEnds
    /\ UNCHANGED <<files, labelled>>

\* Seeded fault: the inner checkpoint is not consulted.
BeginPredict_Afresh ==
    /\ pc = "next" /\ cur <= NumConfigs
    /\ outerState[cur] = "absent"
    /\ preds' = [preds EXCEPT ![cur] = inner[cur]]
    /\ work' = [i \in Incidents |-> IF i \in gold THEN "queued" ELSE "none"]
    /\ tries' = [i \in Incidents |-> 0]
    /\ pc' = "predict"
    /\ UNCHANGED <<files, cur, lockbox, spent, labelled>>

\* Seeded fault: a config whose checkpoint lacks an incident of the gold set is
\* predicted again.
BeginPredict_WhenGoldHasGrown ==
    /\ pc = "next" /\ cur <= NumConfigs
    /\ outerState[cur] = "absent"
         \/ (outerState[cur] = "whole" /\ ~(gold \subseteq outer[cur]))
    /\ preds' = [preds EXCEPT ![cur] = inner[cur]]
    /\ work' = [i \in Incidents |->
                   IF i \in gold \ inner[cur] THEN "queued" ELSE "none"]
    /\ tries' = [i \in Incidents |-> 0]
    /\ pc' = "predict"
    /\ UNCHANGED <<files, cur, lockbox, spent, labelled>>

\* predict_fn: load the inner checkpoint, submit a job for everything else.
BeginPredict ==
    /\ pc = "next" /\ cur <= NumConfigs
    /\ outerState[cur] = "absent"
    /\ preds' = [preds EXCEPT ![cur] = inner[cur]]
    /\ work' = [i \in Incidents |->
                   IF i \in gold \ inner[cur] THEN "queued" ELSE "none"]
    /\ tries' = [i \in Incidents |-> 0]
    /\ pc' = "predict"
    /\ UNCHANGED <<files, cur, lockbox, spent, labelled>>

\* A finished future: its label goes to the results and to the inner file.
Drain(i) ==
    /\ pc = "predict"
    /\ work[i] = "finished"
    /\ work' = [work EXCEPT ![i] = "drained"]
    /\ preds' = [preds EXCEPT ![cur] = @ \cup {i}]
    /\ inner' = [inner EXCEPT ![cur] = @ \cup {i}]
    /\ UNCHANGED <<gold, outerState, outer, scored, pc, cur, lockbox, tries,
                   spent, labelled>>

Leave ==
    /\ pc = "predict"
    /\ pc' = "unwind"
    /\ UNCHANGED <<files, cur, lockbox, preds, jobs, labelled>>

\* The result of a failed future raises: retries exhausted, cost ceiling, a
\* malformed reply.  The with-statement of the pool is left.
PredictRaises == (\E i \in Incidents : work[i] = "failed") /\ Leave

Ended(i) == work[i] \in {"none", "finished", "failed", "drained"}

\* Leaving the with-statement waits for every job, the queued ones included,
\* and drains no label; then the exception ends the command.
Unwind ==
    /\ pc = "unwind"
    /\ \A i \in Incidents : Ended(i)
    /\ ProcessEnds
    /\ UNCHANGED <<files, labelled>>

\* Seeded fault: failed futures are logged and skipped.
PredictReturns_Swallowing ==
    /\ pc = "predict"
    /\ \A i \in Incidents : work[i] \in {"none", "failed", "drained"}
    /\ pc' = "open"
    /\ UNCHANGED <<files, cur, lockbox, preds, jobs, labelled>>

PredictReturns ==
    /\ pc = "predict"
    /\ \A i \in Incidents : work[i] \in {"none", "drained"}
    /\ pc' = "open"
    /\ UNCHANGED <<files, cur, lockbox, preds, jobs, labelled>>

\* write_text opens the outer checkpoint, then writes it.
OpenOuter ==
    /\ pc = "open"
    /\ outerState' = [outerState EXCEPT ![cur] = "torn"]
    /\ pc' = "write"
    /\ UNCHANGED <<gold, inner, outer, scored, cur, lockbox, preds, jobs,
                   labelled>>

WriteOuter ==
    /\ pc = "write"
    /\ outerState' = [outerState EXCEPT ![cur] = "whole"]
    /\ outer' = [outer EXCEPT ![cur] = preds[cur]]
    /\ pc' = "next"
    /\ cur' = cur + 1
    /\ UNCHANGED <<gold, inner, scored, lockbox, preds, jobs, labelled>>

Covered == \A c \in Configs : lockbox \subseteq preds[c]

\* A lockbox incident lacks a prediction of the floor or of a config, or
\* select_winner refuses a class outside the vocabulary.
SelectionRefused ==
    /\ pc = "next" /\ cur > NumConfigs
    /\ ProcessEnds
    /\ UNCHANGED <<files, labelled>>

\* The winner is selected and its provenance is written.
SelectWinner ==
    /\ pc = "next" /\ cur > NumConfigs
    /\ Covered
    /\ scored' = [written |-> TRUE, lockbox |-> lockbox, preds |-> preds]
    /\ ProcessEnds
    /\ UNCHANGED <<gold, inner, outerState, outer, labelled>>

-----------------------------------------------------------------------------
(* The worker threads: classify_one *)

Job(i, from, to) == work[i] = from /\ work' = [work EXCEPT ![i] = to]

Calling == {i \in Incidents : work[i] = "calling"}

Busy == {i \in Incidents : work[i] \in {"calling", "answered", "erred"}}

\* Seeded fault: a flag set by the failure stops the workers, but nobody
\* resolves the futures that are still queued.
StartJob_UnlessUnwinding(i) ==
    /\ pc = "predict"
    /\ Cardinality(Busy) < MaxWorkers
    /\ Job(i, "queued", "calling")
    /\ UNCHANGED <<files, main, tries, spent, labelled>>

\* A free worker takes a job from the queue, also after another has failed.
StartJob(i) ==
    /\ Cardinality(Busy) < MaxWorkers
    /\ Job(i, "queued", "calling")
    /\ UNCHANGED <<files, main, tries, spent, labelled>>

CallAnswered(i) ==
    /\ Job(i, "calling", "answered")
    /\ spent' = spent + 1
    /\ UNCHANGED <<files, main, tries, labelled>>

\* RunPodError: HTTP error, timeout, no choices.
CallErrs(i) ==
    /\ Job(i, "calling", "erred")
    /\ tries' = [tries EXCEPT ![i] = @ + 1]
    /\ spent' = spent + 1
    /\ UNCHANGED <<files, main, labelled>>

\* A reply that is no JSON raises past the retry loop, and is not recorded.
CallBreaks(i) ==
    /\ Job(i, "calling", "failed")
    /\ UNCHANGED <<files, main, tries, spent, labelled>>

CeilingExceeded == spent >= Ceiling

\* check_or_abort after an answer: an abort loses it.
AnswerKept(i) ==
    /\ ~CeilingExceeded
    /\ Job(i, "answered", "finished")
    /\ labelled' = [labelled EXCEPT ![cur] = @ \cup {i}]
    /\ UNCHANGED <<files, main, tries, spent>>

AnswerLost(i) ==
    /\ CeilingExceeded
    /\ Job(i, "answered", "failed")
    /\ UNCHANGED <<files, main, tries, spent, labelled>>

\* Seeded fault: one attempt too many.
Retry_OneMore(i) ==
    /\ ~CeilingExceeded
    /\ tries[i] <= MaxRetries
    /\ Job(i, "erred", "calling")
    /\ UNCHANGED <<files, main, tries, spent, labelled>>

\* Seeded fault: the ceiling is checked after answers only.
Retry_Unchecked(i) ==
    /\ tries[i] < MaxRetries
    /\ Job(i, "erred", "calling")
    /\ UNCHANGED <<files, main, tries, spent, labelled>>

\* check_or_abort after an error, then the next attempt.
Retry(i) ==
    /\ ~CeilingExceeded
    /\ tries[i] < MaxRetries
    /\ Job(i, "erred", "calling")
    /\ UNCHANGED <<files, main, tries, spent, labelled>>

GiveUp(i) ==
    /\ CeilingExceeded \/ tries[i] = MaxRetries
    /\ Job(i, "erred", "failed")
    /\ UNCHANGED <<files, main, tries, spent, labelled>>

Worker(i) ==
    \/ StartJob(i)
    \/ CallAnswered(i)
    \/ CallErrs(i)
    \/ CallBreaks(i)
    \/ AnswerKept(i)
    \/ AnswerLost(i)
    \/ Retry(i)
    \/ GiveUp(i)

-----------------------------------------------------------------------------

Main ==
    \/ LoadOuter
    \/ OuterUnreadable
    \/ BeginPredict
    \/ \E i \in Incidents : Drain(i)
    \/ PredictRaises
    \/ Unwind
    \/ PredictReturns
    \/ OpenOuter
    \/ WriteOuter
    \/ SelectionRefused
    \/ SelectWinner

\* SIGKILL, power loss, or os._exit by the monitor of a live run.
Crash ==
    /\ pc # "down"
    /\ ProcessEnds
    /\ UNCHANGED <<files, labelled>>

\* Ctrl-C while the main thread waits for the next finished job.
Interrupt == Leave

\* More of the gold set is adjudicated between two sweeps.
GoldGrows(i) ==
    /\ pc = "down"
    /\ gold' = gold \cup {i}
    /\ UNCHANGED <<inner, outerState, outer, scored, main, jobs, labelled>>

Next ==
    \/ Start
    \/ Main
    \/ \E i \in Incidents : Worker(i)
    \/ Crash
    \/ Interrupt
    \/ \E i \in Incidents : GoldGrows(i)

Spec == Init /\ [][Next]_vars

\* Threads are scheduled, calls have a timeout, and the main thread of a
\* command without a prompt goes on.
FairSpec ==
    /\ Spec
    /\ WF_vars(Main)
    /\ \A i \in Incidents : WF_vars(Worker(i))
-----------------------------------------------------------------------------
(* Properties *)

\* The overspend past the ceiling is bounded by the jobs of one config: after
\* the ceiling each job that is under way or queued is charged at most once
\* more, whatever the workers' interleaving and retries, and no further config
\* is started.
OverspendBounded == spent < Ceiling + Cardinality(Incidents)

\* A checkpoint that makes later sweeps skip a config covers the gold set the
\* first sweep began with, and all that is in it was paid for and persisted
\* first.
SkippedIsComplete ==
    \A c \in Configs : outerState[c] = "whole" =>
        InitialGold \subseteq outer[c] /\ outer[c] \subseteq inner[c]

\* A recorded winner can be selected again from the files at any later time:
\* the outer checkpoint of every config is whole and still holds the very
\* predictions the winner was scored on, they cover its lockbox, and each has
\* its line in the inner file; whatever crashed before or after, however the
\* gold set has grown and however many sweeps have been started since.
WinnerReproducible ==
    scored.written => \A c \in Configs :
        /\ outerState[c] = "whole" /\ outer[c] = scored.preds[c]
        /\ scored.lockbox \subseteq outer[c] /\ outer[c] \subseteq inner[c]

\* No crash or abort makes a sweep pay again for a label it has persisted.
PersistedNotRepeated ==
    [][\A i \in Calling' \ Calling : i \notin inner[cur]]_vars

\* A command ends whatever fails: leaving the pool never waits for ever.
SweepEnds == (pc # "down") ~> (pc = "down")

\* "A mid-config crash resumes without re-invoking the LLM for finished work."
FinishedNotRepeated ==
    [][\A i \in Calling' \ Calling : work[i] = "queued" => i \notin labelled[cur]]_vars

\* "A mid-sweep failure resumes": what the cache holds can be loaded.
CheckpointLoads == pc = "down" => \A c \in Configs : outerState[c] # "torn"
=============================================================================
