# A verification development for the incident-rank engine

TLA+ models of `incident-rank-validation`. Eight state machines cover what depends
on the order in which things happen: threads, crashes, retries, re-runs, and files that
one command leaves for the next. Seven modules of operators cover the rules by which
incidents are labelled, models selected, analyses locked, gold sets counted and entries
ranked. All are model-checked with TLC, and state machines and rules are proved about with
TLAPS as section 4 says. Source paths are relative to the repository root.

1. [The system](#1-the-system)
2. [Modules](#2-modules)
3. [Runs](#3-runs)
4. [Proofs](#4-proofs)
5. [Where the code and its documentation disagree](#5-where-the-code-and-its-documentation-disagree)
6. [What is not modelled](#6-what-is-not-modelled)
7. [Plan](#7-plan)

## 1. The system

The engine compares a ranked list of security risks obtained by vote with the
prevalence of these risks in a corpus of incidents. One *cycle* is a directory.
Commands of the CLI fill it phase by phase:

    vendor-snapshot --> prereg (manifest, rubric, lock)
                            |
    gold labelling  --> cal-sample / cal-generate-batches / cal-tally / cal-calibrate
                            |
    bake-off (which LLM?) --> live run on rented GPU pods
                            |
    classify-real --> infer-real --> decide-real --> report, repro-bundle
                                          ^
                                     the ballots

The commands do not call each other. They communicate through files in the cycle
directory, and an operator runs them, re-runs them after failures, and edits the
files he owns in between. Four commands are concurrent inside: the bake-off, Stage 2
of classify-real and reclassify (each a pool of worker threads making paid calls) and the
live run (a main thread, a monitor thread and, on the far side of a network, pods that
cost money until they are deleted).

### Components

| Component | State it keeps | Operations | What is hard about it | What makes it correct |
|---|---|---|---|---|
| Live run: pod lease, monitor, teardown (`engine/cli/live_run.py`, `tools/*_runpod.py`) | pool in memory, registry file, pods at RunPod | deploy, register, gate, bake-off, early teardown of losers, classify, final teardown, monitor, backstop | two threads and one lock, requests whose replies lie, `os._exit`, SIGKILL | no running pod is ever forgotten; a breach of a cap ends the run; the winner survives the cull |
| Bake-off sweep (`cli/bakeoff.py`, `classify/bakeoff_predict.py`, `classify/bakeoff.py`, `classify/cost_tracker.py`) | one checkpoint file per model, one line per label, cost counter | predict with a thread pool, retry, abort on cost, checkpoint, resume, select | one failed job among running ones, ceiling shared by workers, gold set that grows between sweeps | bounded overspend; nothing persisted is paid twice; a winner can be computed again from the files |
| Cycle phases (`cli/pipeline.py`, `cli/pipeline_executor.py`, `calibrate/coverage.py`, `verify/check.py`) | files of classify, infer and results | classify, infer, decide, report, bundle | files written one by one, re-runs over old files, edits and re-locks in between | lock before numbers; no result mixes runs; every declared robustness spec is reported |
| Classification, Stage 2, injection gate (`classify/*`) | none between runs, counters and a cost tracker during one | rules, routing, LLM with retry and fallback, merge, gate, consensus | counters shared by 18 threads, malformed replies, two parsers of one reply, a threshold applied twice | a label from one stage only; the gate passes no unanswered probe; bench and ship read alike; the guards' overshoot is bounded |
| Pre-registration (`prereg/*`, `cli/rubric.py`) | manifest, rubric, locks, sign-offs, adjudications | validate, lock, verify, sign off, freeze | which fields a schema hashes | manifests under one lock describe one analysis |
| Calibration and gold labels (`calibrate/*`, `cli/calibration.py`, `tools/adjudicate.py`) | classifications, samples, batches, tally, posteriors, provenance of each | classify, sample, batch, code, tally, merge gold, calibrate, cross-validate | re-runs that add batches, edits while coders work, crashes before the provenance, counts from three places | a stage stands on the one before; every label is counted once |
| Re-classification (`cli/reclassify.py`) | checkpoint lines, labels | ask several models, resume, convert | the first exception, torn lines, drained pools | one answer and one row per incident over all starts |
| Sequential bake-off tool (`tools/run_bakeoff_sequential.py`) | predictions and gate per config, cached copies, three result files | score, bakeoff | re-scores, deaths between two files | winner, disclosure and cross-check tell one story |
| Statistical model (`model/*`) | none | NUTS, closed-form twin, censoring | numerics | the sampler is out of reach of TLC |
| Decisions, ranks, voting, oracle (`decide/*`, `vote/*`, `verify/*`) | none | ballots, ranks, tiers, kappa, flags, blend, overlaps, oracle | boundaries, ties, directions, two implementations that must agree | agreement with reference definitions and with each other |
| Synthetic pipeline (`cli/synthetic.py`, `adapters/synthetic*.py`) | none | one pass in a fresh directory | the composition of all rules | noiseless votes come out concordant |
| Baselines (`cli/freeze_baselines.py`, `baselines/*`) | a tree of seven files with their digests | freeze, verify | partial freezes, stale concordance, hand edits | a tree that passes is of one freeze |
| Snapshots (`cli/snapshot.py`, `snapshot/*`) | content-addressed directories | vendor, drift gate | which of several is read; zero counts | read is what is pinned; unreported drift is small |
| Errata (`erratum/*`) | register of post-hoc analyses, its hash chain | append, verify | stored links | tampering shows |
| Adapters (`adapters/*`) | none | rows to incidents, strata | defaults, dates after the snapshot | sizes cover what is counted |
| Reports, monitoring, secrets, scaffolding | none | output | | |

`PROJECT.json` lists every component with its sources and status, and every
hazard at the line where it bites.

## 2. Modules

| Module | Models | |
|---|---|---|
| `PodLedger` | what a pod lease promises | abstract specification |
| `PodLease` | `live_run.py` with `deploy_runpod.py` and `terminate_runpod.py` | implements `PodLedger` |
| `BakeoffSweep` | `bakeoff.py`, `bakeoff_predict.py`, `cost_tracker.py` | |
| `CyclePhases` | the phase commands of `pipeline.py` | |
| `Stage2Phase` | the thread pool of Stage 2: `pipeline.py` classify_real, `stage2.py`, `cost_tracker.py` | |
| `Reclassification` | `cli/reclassify.py` | |
| `SequentialBakeoff` | `tools/run_bakeoff_sequential.py` with `cli/bakeoff.py` | |
| `CalibrationFiles` | the six commands of `cli/calibration.py` and their files | uses `GoldCalibration` |
| `BaselineTree` | `freeze_baselines.py`, `baselines/freeze.py` | |
| `Classification` | keyword rules, routing, reply parsing, merge, gate, consensus | operators |
| `BakeoffScoring` | truth, lockbox, accuracy, step-up procedure, `select_winner` | operators |
| `Preregistration` | manifest schemas, locks, sign-off, rubric checks, register, lineage, diff | operators |
| `GoldCalibration` | samples, batches, tallies, gold merge, posteriors, flags, folds | operators |
| `DecisionRules` | ballots, ranks, tiers, kappa, concordance, twin, oracle | operators |
| `CorpusRules` | adapters, drift, snapshot check, corpus mode, overlaps | operators |
| `PublicationRules` | frozen kappas, sample size, blend, robustness validation, synthetic cycle | operators; composes the others |
| `Selection` | elements of a sequence at some places and in an order, in closed form | operators |
| `Rules` | the rules of the seven operator modules above, each applied to an input | states their properties |
| `MC...` | the instances TLC checks; `MCCycleTools` holds the five tools, `MCRules` the universes of `Rules` | |
| `PodLeaseProofs`, `BakeoffSweepProofs`, `CyclePhasesProofs`, `Stage2PhaseProofs` | theorems about the module of that name, with TLAPS proofs | |
| `FileToolProofs` | theorems about `Reclassification`, `SequentialBakeoff`, `CalibrationFiles` and `BaselineTree` | |
| `RulesProofs`, `AgreementProofs` | theorems about `Rules`; the second has gold set, overlaps, oracle and synthetic cycle | |
| `DataLemmas` | induction, sums, selections: what the theorems about `Rules` rest on | |

Operators whose comment says *Mutant* or *Seeded fault* are variants of an action with a
plausible bug. They are not part of any specification: each one replaces the
action it is named after to show that a property is able to fail.

### PodLease and PodLedger

*State.* `live` and `created` are RunPod's; `registry` is `tools/runpod_pods.json`;
`registered` is `PodLeasePool._registered`; `pc`, `fleet`, `cur`, `eligible`,
`winner`, `cullTodo`, `bodyFailed` are the main thread of `orchestrate_live_run`;
`mon`, `stopped`, `overCost`, `wallElapsed` are the thread `_WallMonitor`;
`phase`, `snap`, `todo` are the local state of `terminate_all`, once per thread,
since both may be inside it at the same time. `known` and `overtaken` are history.

*Actions.* One per section that runs under the pool's RLock and one per request:
`PostPod`, `PodReply`, `Register` for `deploy`; `TakeSnapshot`, `DeletePod`,
`AllAttempted`, `VerifyAllGone`/`VerifyFails`, `ClearPool`/`ClearFails` for
`terminate_all`; `CullDelete`, `CullRetained`, `CullVerified`, `CullRelease`, `CullReleaseFails` for
`_pool_terminate_one`; `MonitorPolls`, `MonitorSeesBreach`, `ForceExit` and the rest
for the monitor; `BodyRaises`, `TeardownDone`, `RunAtExit`, `Exit` for the way out.
`Backstop`, `ConsoleTerminate`, `ConsoleForget` are the operator, `Kill` is SIGKILL,
`StartRun` is the next run's preflight and start.

*Assumptions.* A DELETE or POST takes effect before its call ends or not at all; a
reply may say anything; a pod that is gone stays gone. Ctrl-C during the teardown
itself is not modelled. The backstop is run when the process is gone, as the runbook
says.

*The seams.* `orchestrate_live_run` is given functions for provisioning, gating,
bake-off and classification. The model lets them return anything their callers accept,
or raise. Several of the functions `live_run_cli` actually passes fail early in the
present wiring (`bakeoff_cmd` needs endpoint variables nobody sets, the classifier is
called with arguments its command does not take). The lease's promises are about what
happens when they do run and when they fail, so the model does not assume either.

*PodLedger* knows no process: each pod id is fresh, unleased, leased, overtaken or gone,
and an entry is struck from the ledger only for a pod that is gone. `overtaken` is the
one exemption, made explicit: a pod registered while a teardown of all pods was under
way. `ImplementsLedger` in `PodLease` is the refinement mapping.

### BakeoffSweep

*State.* Files: `gold` (adjudicated labels), `inner` (lines of
`predict/predict_{config}.jsonl`), `outerState` and `outer` (`{config}.json`), `scored`
(`classify_provenance.json`). Process: the main thread's `pc`, `cur`, `lockbox`, `preds`;
per job `work` and `tries`; `spent` of the cost tracker. `labelled` is history.

*Actions.* `Start`, `LoadOuter`, `OuterUnreadable`, `BeginPredict`, `Drain`,
`PredictRaises`, `Unwind`, `PredictReturns`, `OpenOuter`, `WriteOuter`,
`SelectionRefused`, `SelectWinner` are `run_bakeoff` and `predict_fn` in the order of the
statements; `Unwind` is the exit of the `with ThreadPoolExecutor` block, which waits for
every queued job. `StartJob`, `CallAnswered`, `CallErrs`, `CallBreaks`, `AnswerKept`,
`AnswerLost`, `Retry`, `GiveUp` are `classify_one` in a worker. `Crash`, `Interrupt`
(Ctrl-C) and `GoldGrows` (adjudication between sweeps) are the environment.

*Assumptions.* Every call costs one unit. Jobs are started in any order. One appended line
is atomic. The gold set grows only while no sweep runs.

### CyclePhases

*State.* The operator's files: `manifest`, `lock` (the manifest whose hash is in
`manifest.lock`), `vendored` (snapshots under `corpora/`), `goldFiles`, `calibration` (the
gold set `posteriors.json` was computed from), `votesIn`. The commands' files: `files`, a
function from file to content. The running command: `cmd`, `out` (what it computed),
`pending` (what it has not written yet). History: `locked`, and `streak`, the last phase of
a pass in which nothing has failed and the manifest has not changed.

*Content is provenance.* No number is modelled. A posterior is the record of the labels,
calibration, gold set and manifest it was computed from; a concordance is the record of the
posteriors and labels it used; and so on. Two files with equal content hold the same data
(seeds and rules are fixed; the ballots, and the measurability verdicts that decide and report read
from `calibration/diagnostic.json`, are left out); two that differ in provenance are the staleness the
properties are about. Classification of one snapshot may find different scopes, as it may be
run with Stage 2 or without.

*Actions.* `BeginClassify`, `BeginInfer`, `BeginDecide`, `BeginReport` are a command from
its first gate to the moment it has computed its results; `Write(f)` writes the next file in
place, in the order of the code; `Finish` returns; `Die` is every other end: a gate's
exception after a file was written, diagnostics that fail, a kill, in the middle of a file
or between two. `OracleFails` is the one exception that `decide-real` swallows. The operator
acts at any time: `EditManifest`, `LockManifest`, `VendorSnapshot`, `AdjudicateGold`,
`Calibrate`, `MoveVotes`.

*Assumptions.* Commands run one after another. A command reads its inputs in one step.
That the gold set's incidents are in the pinned snapshot is checked by the code and, as the model does
not relate the two, is left out: it can only refuse more.

### Stage2Phase

*State.* `next` is the queue of the pool, `pc` what each thread is at, `future` how each
incident's future stands; `spent`, `total`, `fallbacks` are the tracker and the two counters of the
one `Stage2Classifier` all threads share; `collected` and `main` are the main thread.

*Actions.* `Take`, `CheckCost`, `CheckRate`, `Answer`, `Garbled`, `FailCall` are
`Stage2Classifier.classify` in a worker, in the order of its statements; `StartPool`, `Collect`,
`WriteLabels`, `Abort` are the main thread: the first future that raised ends the loop, and leaving
the pool waits for the whole queue. An increment is atomic: CPython 3.12, which `pyproject.toml`
requires, switches threads at calls and backward jumps only.

### Reclassification

*State.* `checkpoint` (ids of its lines) and `torn`; `todo`, `asking`, `ready`, `reclassify`
are the pool and the main thread; `rows` is what was written last; `asked` is history.
*Actions.* `StartReclassify` (resume), `Ask`, `Reply`, `CollectReply`, `FailReclassify`,
`ReclassifyDies`, `Convert`, and `Mend`, the operator who removes a torn line, without which no start gets past the checkpoint. A reply that is
JSON and no object raises out of `pre_label`; the label file is written in one step.

### SequentialBakeoff

*State.* `predictions`, `gates` and `cached` per config, `provenance`, `disclosure` and
`crosscheck` of the last bakeoff, the running command `bakeoff` with what it has read. Predictions are
known by the gold set they were made for. *Actions.* `BeginScore`, `SavePredictions`, `SaveGate`;
`BeginBakeoff`, `SelectWinner` (which also caches every config first), `Disclose`, `CrossCheck`;
`BakeoffDies` at any of them, `Grow` between commands.

### CalibrationFiles

*State.* One output (absent, torn, or there with a content) and one provenance per stage, the batch files, the rubric and the
manifest (which pins rules and a rubric), the running command `calibration` with the writes it has
still to make.
*Actions.* `CalClassify` to `CalCvStability` are a command up to its first write, with every
check it makes; `Write` makes the next write in the order of the code; `StageDies` ends the command
there or in a write. `Code`, `EditRubric` and `Repin` are the coder and the operator. What a batch is and
when it is valid comes from `GoldCalibration`.

### BaselineTree

*State.* Versions of the three sources, what `concordance.json` was computed from, content
of the seven files of the tree and of `SHA256SUMS`, `at`, the file that is written next. *Actions.*
`StartFreeze` with and without `--force`, `WriteFile`, `PinFails` (three arrays and the workbook
are then new already), `WriteSums`, `FreezeDies`; `ChangeSource`, `Decide` and `Tamper` by the
operator. The pin compares the entries in common, kappa and its interval, not the sources: `Figures` gives
them for each state of the sources, and two states may share them.

### The rules

Each operator stands for the function or block named in `PROJECT.json`. Numbers that the code
keeps as floats are rationals over a common scale (a rank or a median is doubled, a confidence is in
hundredths); p-values are compared as exact chi-square statistics against the threshold that belongs
to the level; a hash is the term it hashes, hence injective; random draws (bootstrap, lockbox,
folds) are arguments, so that a property holds for each of them. `Rules` picks a rule and an input
in its initial states, applies the rule once and stops; its invariants compare the outcome with a
definition written in another way, or with the second implementation the program has of it. The
universe of the inputs is its constants, with named assumptions (`ClassificationAssumption`,
`GoldAssumption`, ...); `MCRules` gives them the values TLC enumerates. `SelectionAssumption` asks
that every lockbox cell size divide `RecallParts`, which is a choice of the unit in which recalls are
counted (420 serves cells up to 7), and that the critical values `CriticalAt` be positive and fall with
the rank, as the quantiles for growing shares of alpha do. `CycleAssumption` asks what a corpus and a
posterior are like: a cell is there when something was counted in it, and there is a draw and a
bootstrap replicate. `GoldAssumption` asks that no entry be named `silent` or `none`, the
model's marks for no prediction and no label; rubrics name their entries `LLM01` and the like. Selecting and sorting are written in closed form where theorems depend on
them (`Kept`, `Sorted`, `NthValue` of `Selection`), since `SelectSeq` and `SortSeq` have no definition
the prover can use; `MCRules` has TLC compare both on short sequences. Some formulas that no
property of a run needs are checked there as well, against the values the source registers: the
variance, sample size and null of the prospective power (`PowerIsAsRegistered`), and the de-biased rate
and the disagreements of the twin (`TwinIsDebiased`).

*Ties.* `decide/concordance.py` and `vote/bootstrap.py` rank with numpy's default `argsort`, which
promises nothing of equal values. `Ordinal` therefore ranks in the order of a given listing, and where the code
does not ask for a stable sort the listing is an argument that ranges over every order of the entries
(`listing` of the oracle and the bootstrap, `ties` of `Concordance`, one per draw): whatever such a sort
returns is the ordinal ranking of some listing. `blend.py` asks for `kind="stable"`, and Python's `sorted`
is stable: there the listing is the order of the entries.

## 3. Runs

| Run | Checks | Instance | Distinct states |
|---|---|---|---|
| `pod_lease` | safety and refinement of `PodLease` | 3 pod ids, fleets of 2 | 521,868 (with symmetry) |
| `pod_lease_live` | liveness of `PodLease` | 2 pod ids, one fleet | 126,966 |
| `registry_loses_overtaken_pod` | refutes `RegistryKeepsEveryLease` | as `pod_lease` | |
| `winner_failed_gate` | refutes `WinnerPassedGate` | 3 pod ids, one fleet of 3 | |
| `bakeoff_sweep` | safety and liveness of `BakeoffSweep` | 2 models, 2 incidents + 1 that is added, 2 workers, 2 attempts, ceiling 3 | 735,238 |
| `sweep_repeats_finished_work` | refutes `FinishedNotRepeated` | as `bakeoff_sweep` | |
| `sweep_checkpoint_torn` | refutes `CheckpointLoads` | as `bakeoff_sweep` | |
| `cycle_phases` | safety of `CyclePhases` | 2 snapshots, 2 manifests, 1 spec, 2 gold sets, 2 edits, 2 deaths | 2,182,305 |
| `spread_of_two_infers` | refutes `SpreadFromOneInfer` | the second snapshot has one incident more | |
| `labels_of_another_snapshot` | refutes `LabelsFromPinnedSnapshot` | two pulls of the same incidents | |
| `cycle_tools` | safety and liveness of the five tools | see bounds | 944,371 |
| `rules` | the operators against reference definitions | see bounds | 405,698 |

### What the properties say

`PodLease`. `RecordedUntilGone`: a registered pod keeps its registry entry while it runs,
through crashes and restarts (except an overtaken one). `PoolCoversFleet`: the pool never
loses a running pod, so the final teardown tries it again. `ReturnedMeansGone`: a run that
returns a result has no pod left. `OneFleetAtATime`: the preflight lets no second fleet burn.
`WinnerStaysUp`: the cull spares the pod that still has work. `ImplementsLedger`: refinement.
`BreachEndsRun` and `RecordedPodsReclaimed`: liveness.

`BakeoffSweep`. `OverspendBounded`: beyond the ceiling fewer calls are charged than one
config has incidents, however workers interleave. `SkippedIsComplete`: a checkpoint that
makes a later sweep skip a model is complete and was persisted label by label first.
`WinnerReproducible`: the predictions a winner was selected from are still on disk, label for
label, after any crashes, interrupts and further sweeps over a grown gold set, so that the selection can be
computed again; no later sweep, resuming or skipping, drops or replaces them. `PersistedNotRepeated`: no persisted label is paid again.
`SweepEnds`: a sweep ends whatever fails.

`CyclePhases`. `CleanPassIsCoherent`: once classify, infer and decide have completed in
this order under one manifest, every file they count on is of this pass, whatever crashed or
outdated commands had left. `LockedBeforeNumbers`: every posterior was computed under a
manifest that was locked by then, declares its spec and binds no other gold set, and every
result from such posteriors, however the manifest was edited and locked again.
`ReportCoversDeclared`: although `report` looks at no lock and at an old spread, it shows
preregistered chains for every spec the manifest declares. Only a manifest older than schema 3 may have
a report without a spread; the one of schema 1 in the instance declares no spec, so that this exception is
covered by the theorem alone.

The tools. `GuardsLagByThreads`: Stage 2 charges at most one call per thread beyond
its ceiling, and writes labels only when the incidents no model was heard about exceed the allowed
rate by no more than the threads. `PhaseEnds`: Stage 2 ends, and labels are written only when every
incident has one of its own. `EachIncidentLabelledOnce`: over any number of deaths reclassify
records an incident once, asks again only for answers a dead start lost, and writes one row each.
`DisclosureMatchesSelection`: selection, gate disclosure and cross-check of one bakeoff name
one winner and one set of configs, and use the same predictions for every config that was not scored
again since it was cached. `PosteriorsStandOnTheirChain`: a provenance has an output and its whole chain
below it, and no posterior counts a batch handed out under another rubric or manifest than its tally
ran under. `AcceptedTreeIsOneFreeze`: a tree that passes complete digests is of one freeze.

The rules. `LabelsFollowStages`: keyword rules or Stage 2 label an incident, never both, and
only labels are counted. `BenchAndShipAgree`: what the bake-off and the gate read in a reply is what
ships, except an unreadable confidence. `GatePassMeansResisted`: a passed gate answered what it is
credited for. `WinnerIsJustified`: floor, gain without loss by the step-up procedure, and best of
those. `LockPinsTheAnalysis`: two manifests under one lock are one analysis.
`RegisterIsTamperEvident`: a register that verifies is the one written. `GoldScoresTheClassifier` and
`TallyIgnoresBatching`: every claim is counted once, however samples are cut and whichever path a
record takes. `OracleJudgesIncidence`: what the oracle's verdict says of the incidence, wherever either
side's sort leaves ties: a ranking that passes has nothing outside its top tier above something in it
and no more wrong pairs than the floor allows; the engine's own has no wrong pair, and fails for a tie
only. `ReplicateIsBordaCount`: from importances through tied ranks, means and order, with blanks and
repeated columns, a bootstrap replicate ranks by the Borda points of the picked answers.
`SyntheticCycleConcordant`: the composed pipeline finds concordance where there is. `OverlapsOneToOne`:
no incident of either corpus is matched twice or missed without a reason. `DriftIsBounded`: what
passes two weekly gates unsigned has moved little. `BlendRespectsDominance`: who leads in votes and data
is published ahead. `CorrectionRecoversTruth`: the correction has no bias of its own.

### Bounds, and why they are enough

*Pods.* Two pods are the least for which a loser exists beside a winner and a snapshot can
miss a pod; the third id lets a run register one pod of a second fleet while leftovers of the
first remain. Four would allow two full fleets, which differ from this only in that the second
may go on to its bake-off; the safety invariants are proved for every number. Liveness is
checked on one fleet, without symmetry, which is unsound for liveness.

*Sweep.* Two workers can overshoot the ceiling together; a ceiling of 3 is reached within the
first model or within the second; two attempts make a retry cross the ceiling; the third
incident makes an old checkpoint too small.

*Cycle.* Two deaths let a leftover of one crash meet another crash; two edits let a manifest be
edited and changed back under a lock of either, or a snapshot arrive and the manifest follow.
Re-locking is not bounded. The two manifests differ in everything the gates look at. In
`cycle_phases` both snapshots have the same incidents, so that no gate tells their labels apart:
the more permissive case.

*Tools.* They share no state while they run, so `MCCycleTools` explores one at a time
(`focus`). Stage 2: two threads and five incidents, a ceiling of 3 and a rate of one in two after the
first, so that both guards become true while the other thread is in a call. Reclassification: four
incidents, three of Stage 2, one of which the snapshot has lost; two threads and two deaths, so that a
start resumes over the leftovers of a resumed start. Sequential: two configs, a gold set that grows
once, five commands: two scores, a bakeoff, a re-score and a second bakeoff. Calibration: two rubrics,
six commands, one death: all stages once, or batches handed out twice. Baselines: two freezes and two
edits around and between them. Other labels leave the pinned figures as they are there, so that a stale
`concordance.json` may pass the pin or not.

*Rules.* Each rule gets the least universe in which its cases differ: two incidents or three, two or
three entries or configs, small counts around each threshold. The selection has two configs, two
classes and one that is sparse, so that up to four tests meet the step-up procedure, with a lockbox that
holds all or part of them. The synthetic cycle has three entries that are seen in one stratum or two or
not at all and one that is frame-blind, one draw or two. Oracle and bootstrap get every listing of three entries for the ties of their sorts; a
floor of 95 fails a stored ranking with one wrong pair of three, one of 30 does not. `Rules.cfg` and `MCRules`
give the values.

Deadlock is checked for the lease and the sweep: some thread, or the operator, can always go
on. It is not checked for the phases and the tools, where a cycle may end with every gate refusing and
the operator's bounded edits used up, nor for the rules, which are applied once.

### Fairness

*PodLease*: weak fairness of the monitor thread (a daemon thread that sleeps with a timeout
and whose requests have timeouts), of the main thread once it has left the body (same
requests, no waiting), and, for `RecordedPodsReclaimed`, of a backstop whose DELETE is
honoured in the end. None of the main thread inside the body: deployment, bake-off and
classification may block for ever, and `BreachEndsRun` must hold nevertheless.

*BakeoffSweep*: weak fairness of the main thread and of each worker: threads are scheduled and
every call has a timeout. None of starting a sweep, of crashes or of the operator.

*Stage2Phase*: weak fairness of the main thread and of each worker once the pool runs: threads
are scheduled, and a call ends, as the client has a time-out of 300 s. None of the start.

*The other tools*: none, they have safety properties only.

*CyclePhases*: none. A command may take as long as it likes, and no one promises to run the
next one.

## 4. Proofs

All theorems hold for every value of the constants that satisfies the named assumptions in
the modules (finite sets, positive limits, values that are not files, ...). TLC evaluates these
assumptions in the runs.

*PodLease* (`PodLeaseProofs`). The invariant `IInv` adds to the types and properties what the
threads rely on between their locked sections: the nesting of pool, file, history (`Tracking`);
that the snapshot of an activation of `terminate_all` covers the pool except for overtaken pods,
and that no pod of a verified snapshot runs (`Calls`); the same for the early teardown of one pod
(`Culling`), and that the winner of a cull is held. `RecordedUntilGone` alone is not inductive:
`ClearPool` removes entries on the strength of a verification that happened some steps earlier, in a
thread that was not alone. Proved: `TypeCorrect`, `RegistryIsBackstop`, `PoolIsComplete`,
`ResultMeansTornDown`, `NoDoubleBurn`, `WinnerKept`, and the refinement
`LeaseImplementsLedger`, with one step per kind of action that moves the ledger.

*BakeoffSweep* (`BakeoffSweepProofs`). `OverspendBounded` needs a count: from the ceiling on,
every charge is of another job, since a job that is charged at or over the ceiling fails instead
of retrying. `Overspend` bounds `spent` by the ceiling plus the jobs in the states after a charge, and
the library's cardinality theorems do the rest. `JobsOpen` (what a pool works on is what the inner file
lacks) and `Checkpoints` give `SkippedIsComplete`. Proved: `TypeCorrect`, `OverspendIsBounded`,
`SkippedConfigsAreComplete`, `PersistedLabelsAreKept`, and `WinnersAreReproducible`, which needs
`Resumed`: of each config a sweep has passed, the checkpoint is whole and holds what the sweep will score.

*CyclePhases* (`CyclePhasesProofs`). `CommandShape` ties `cmd`, `out` and `pending`
together. `SoundFiles` is `LockedBeforeNumbers` for every file there is *and* every file that
the running command has still to write; a step keeps it if it changes no complete file and has only
sound contents to write (`SoundKept`). `Pass` follows an unspoilt pass: what classify, infer
and decide have written so far equals what they have computed, and what they have computed is of this
pass. Proved: `TypeCorrect`, `NumbersFollowLock`, `ReportsAreComplete`, `CleanPasses`.

The assumptions of the five tools (`Stage2Assumption`, `ReclassificationAssumption`, ...) are
definitions that the theorems assume by name; `ToolAssumptions` in `MCCycleTools`, which extends
all five modules, has TLC evaluate them for the instances of `cycle_tools`. Theorem and run are about
the same definition.

*Stage2Phase* (`Stage2PhaseProofs`). A guard reads a counter in one step and the call is counted in a
later one, so neither bound is inductive. `CostBound` counts the threads that are past the cost guard
along with what is spent: together they stay below the ceiling plus the number of threads.
`RateBound` does the same for the fallbacks and the threads past both guards, and is then carried over to the
moment of writing, when no thread is at work. `Hands` says that an incident is in one thread's hands
only; `Counts` that fallbacks are as many as the futures that failed. Proved: `TypeCorrect`,
`GuardsLag`, `WrittenIsComplete`.

*Reclassification* (`FileToolProofs`). `Places` puts each wanted incident at exactly one of
recorded, to be asked, being asked and answered. The number of times it was asked is bounded by the
deaths so far, plus one where somebody holds its answer. Proved: `LabelledOnce`, `NoIncidentLost`.

*SequentialBakeoff* (`FileToolProofs`). What a bakeoff has read is what is saved while it
selects; afterwards its copies equal the saved predictions of each config that was not scored again; a
cross-check may be of an earlier run than the bakeoff under way. Proved: `OneStory`,
`GateAfterPredictions`.

*CalibrationFiles* (`FileToolProofs`). The writes that a running command has still to make are the
tail of a fixed plan, the stages before it have a provenance, and each tally, stored or in the
plan, is of one rubric and one manifest. Proved: `ChainHolds`, `TalliesAreOfOneLock`.

*BaselineTree* (`FileToolProofs`). The files before `at` are of the freeze under way, and, once the pin
has passed, so is the kappa they are compared with; complete digests are of one freeze, so an
accepted tree is as well. Proved: `AcceptedTree`, `DigestsOfOneFreeze`.

*Rules* (`RulesProofs` and `AgreementProofs` over `DataLemmas`). The state machine is a wrapper, its invariant `RuleInv` says
no more than that the input is one that was picked and the outcome the rule applied to it
(`RuleIsApplied`). The work is in the rules themselves, for universes of any size:

| Theorem | Property | Rests on |
|---|---|---|
| `DriftBounded` | `DriftIsBounded` | one quiet week bounds the next, arithmetic of integer division |
| `BenchIsShip`, `PassIsEarned` | `BenchAndShipAgree`, `GatePassMeansResisted` | the forms of a reply; counting the probes that were lost |
| `LockPins` | `LockPinsTheAnalysis` | what a schema does not hash cannot be set in a manifest that loads |
| `TamperEvident` | `RegisterIsTamperEvident` | equal terminal hashes mean equal chains, backwards from the last link |
| `RecoversTruth` | `CorrectionRecoversTruth` | true and false positives and misses partition a class |
| `DominanceRespected` | `BlendRespectsDominance` | folding keeps both orders; ordinal ranks have an inverse |
| `BatchingIgnored` | `TallyIgnoresBatching` | a sum over two disjoint batches is that over their union |
| `LabelsFromOneStage` | `LabelsFollowStages` | a sum over labels is the sum of the sums over strata and entries |
| `ReplicateCountsPoints` | `ReplicateIsBordaCount` | a doubled tied rank and the Borda points of an entry add up to 2n; ranks of a ballot add up to n(n+1), by counting pairs both ways |
| `GoldScores` | `GoldScoresTheClassifier` | each claim is on exactly one of three paths: gold record, derived false positive, verdict |
| `OverlapsPaired` | `OverlapsOneToOne` | what is taken so far and what is still free, step by step of the greedy matching |
| `OracleJudges` | `OracleJudgesIncidence` | in either listing a place ahead means no less incidence (`BothAtRanks`); without ties they are one ranking; wrong pairs are swapped pairs (`WrongIsSwapped`) |
| `WinnerJustified` | `WinnerIsJustified` | the step-up procedure is the definition by counts (`StepUp`); tests are numbered by config and class (`TestPlaces`); recalls compare as cross products (`Shares`) |
| `SyntheticConcordant` | `SyntheticCycleConcordant` | a faithful draw ranks as the counts do (`FaithfulRanks`), every resampled ballot as well (`VotesAre`), and rows that are equal have kappa one (`KappaSame`) |

`DataLemmas` states induction for sets: a set of numbers that has 0 and is closed under successor is
all of them (`AllNumbers`), and the same for the subsets of a finite set (`AllSubsets`). They
follow from the well-foundedness of the naturals, and need no operator for a parameter. A sum, a chain of hashes, a
greedy matching are recursive functions that TLA+ defines by CHOOSE: that such a function
exists is proved first, by one of the two inductions (`SumExists`), then that its steps are as the
definition says (`TotalStep`), then what it yields. The lemmas go on to sums (split, constant, by fibres, turned
by rows and columns), to the order of places behind `Kept`, and to existence and uniqueness of medians and
maxima.

`StepUp` is where sorting, ties and the last rank within its bound meet: the code ranks tests by a stable
sort and rejects all up to the last rank within its bound; the definition asks for a rank that at least as
many tests are within the bound of. The lemma needs that bounds fall with the rank: without it a count may
reject a test whose own rank is out of its bound. `SelectWinner` numbers its tests in an order the code leaves to a set, and
`SelectRule` shows that no outcome depends on it. In `SyntheticCycleConcordant` the votes are made from
counts and the incidence ranks from rates and exposures; `OrdinalTells` says when two orders give one
ordinal ranking. The sorts that need not be stable have arbitrary listings; a draw that orders the entries as
they were observed, and a replicate of equal ballots, have no ties for them to decide.

Every invariant that a passing run checks, the action property `PersistedNotRepeated` and the refinement
`ImplementsLedger` are stated by one of these theorems.
Only model-checked: the liveness properties (`BreachEndsRun`, `RecordedPodsReclaimed`,
`SweepEnds`, `PhaseEnds`), which rest on fairness and ENABLED. The refuted properties
have counterexamples instead of proofs.

## 5. Where the code and its documentation disagree

Each is a run that TLC refutes; `PROJECT.json` quotes the lines.

* A pod registered while the monitor's `terminate_all` deletes and verifies is struck from
  registry and pool although it runs (`registry_loses_overtaken_pod`). `terminate_all` clears the pods
  registered *now* after verifying those of its snapshot.
* The bake-off of a live run ignores which models passed the injection gate
  (`winner_failed_gate`).
* Labels that workers obtain while a failed sweep unwinds are paid for and dropped
  (`sweep_repeats_finished_work`).
* A crash while an outer checkpoint is written leaves a file no later sweep can load
  (`sweep_checkpoint_torn`).
* After an infer in which a spec crashed, decide accepts that spec's old files and the
  completeness check passes (`spread_of_two_infers`).
* The classify marker names the manifest's snapshot, whichever was classified
  (`labels_of_another_snapshot`).

Further disagreements met while modelling, which the properties state around:

* `run_bakeoff` prefers the copy a first bakeoff cached to what is saved: after a re-score the
  cross-check of the sequential tool uses other predictions than the selection, although
  `classify/bakeoff.py:211` speaks of evaluating the same ones. `DisclosureMatchesSelection` holds for configs
  that were not scored again.
* A torn `SHA256SUMS` vouches for fewer files, and a listed file that is gone is passed over.
* `cal-calibrate` reads the rubric again, without a check against the one of the tally; a second
  `generate-batches` adds a second set, which the tally counts as well; input hashes of a provenance are
  recorded and never compared.
* `stage2.py` says that bench and ship cannot drift; an unreadable confidence makes the shipped
  row out of scope or raises while the bake-off accepts the entry.
* The fallback guard of Stage 2 counts calls that failed, not replies that were malformed or rejected.
* Manifests of schema 1 may set a hyperprior the lock does not hash.
* Engine and oracle treat ties differently: the engine's `argsort` (`concordance.py:88`) leaves equal
  incidences in any order, the oracle sorts them by name. A tie at the edge of the top tier may fail the engine's
  own ranking; `OracleJudgesIncidence` says that nothing else does.
* The drift gate guards the `infer` command of `cli/main.py`, not `infer-real`.

## 6. What is not modelled

*Numerics* (the samplers of `model/*`, quantiles, densities, and both fits of Plackett-Luce worths,
`vote/plackett_luce.py` and `oracle_pl_ranking_mm`, which agree up to a tolerance and which the oracle
compares with a floor of 0.70): floating point and sampling are out of TLC's reach. What matters to the phases is that a chain may fail,
which they model; what can be stated over exact numbers is in the rule modules.
*Conversions and output*: `report/render.py`, `narrative*.py` and `narrative_charts.py`, the notebooks and the
preprint lay out results; `scripts/build_rubric.py` is a table of texts; secrets, hooks and scaffolding are
the program's environment. None has state or a rule a property could be about.
*Within modelled components*: `repro-bundle` and `verify-oracle`; the smaller files of classify and
decide, which are written like the others; wandb; stand-alone command lines of the pod tools; the checks
of the live run's preflight. `PROJECT.json` says so per component, and hazards without a property say why.

## 7. Plan

Done, in this order, because money and evidence are lost here first: `PodLedger`, `PodLease`,
`BakeoffSweep`, `CyclePhases`, each with its proofs; then the rules, and the tools that keep files beside
the phases, again with their proofs.

Next:

1. `repro-bundle` and `verify-oracle` as further commands of `CyclePhases`, with `goldset_hash.txt`.
2. The calibration's posteriors as an input of `CyclePhases`: its `Calibrate` becomes the last write of
   `CalibrationFiles`.
