----------------------------- MODULE CyclePhases -----------------------------
(***************************************************************************)
(* The phases of a cycle over real data: classify-real, infer-real,        *)
(* decide-real and report (engine/cli/pipeline.py with                     *)
(* pipeline_executor.py).  Each phase is a command of its own that checks  *)
(* its gates, reads files earlier commands left in the cycle directory and *)
(* writes its own files in place, one by one; a command may fail or crash  *)
(* in between, and what it and its predecessors left stays there for the   *)
(* next one.  One operator runs the commands one after another, and edits, *)
(* re-locks, recalibrates and vendors at any time.                         *)
(*                                                                         *)
(* Numbers are not modelled.  The content of a file is what it was computed*)
(* from: labels, calibration, gold set, manifest and posteriors.  Seeds and*)
(* rules are fixed; the ballots, and the measurability verdicts that decide*)
(* and report read from calibration/diagnostic.json, are left out.         *)
(***************************************************************************)
EXTENDS Naturals, FiniteSets

CONSTANTS
    NumSnapshots,   \* snapshots, numbered in the order of their hashes
    Incidents,      \* incident ids
    Universe,       \* incident ids of each snapshot
    Scopes,         \* the sets of incidents that may be found in scope
    NumSpecs,       \* robustness specs, numbered in the order a manifest
                    \* lists them
    Golds,          \* contents of the gold-set files
    Manifests,      \* manifests the operator may write
    Absent,         \* no such file
    Torn,           \* a file of which only a part was written
    MaxEdits,       \* bound: edits of the operator
    MaxDeaths       \* bound: commands that die

Snapshots == 1 .. NumSnapshots
Specs     == 1 .. NumSpecs

ASSUME UniverseAssumption ==
    /\ NumSnapshots \in Nat \ {0} /\ NumSpecs \in Nat
    /\ Universe \in [Snapshots -> SUBSET Incidents]
    /\ Scopes \subseteq SUBSET Incidents
    /\ IsFiniteSet(Incidents)
ASSUME ManifestsAssumption ==
    Manifests \subseteq [schema : 1 .. 4, snapshot : Snapshots, specs : SUBSET Specs,
                         gold : Golds \cup {Absent}]
ASSUME BoundsAssumption == MaxEdits \in Nat /\ MaxDeaths \in Nat

-----------------------------------------------------------------------------
(* Files.  A chain (a NUTS run) is a robustness spec, or 0 for the primary. *)

Chains == 0 .. NumSpecs

Labels      == <<"labeled_incidents", 0>>
Marker      == <<"classify_coverage", 0>>
Lambda(c)   == <<"lambda_samples", c>>
Summary(c)  == <<"inference_summary", c>>
Concordance == <<"concordance", 0>>
Spread      == <<"robustness_spread", 0>>
Oracle      == <<"oracle_report", 0>>
Report      == <<"report", 0>>

ChainFiles(cs) == {Lambda(c) : c \in cs} \cup {Summary(c) : c \in cs}
ResultFiles    == {Concordance, Spread, Oracle}
Files == {Labels, Marker} \cup ChainFiles(Chains) \cup ResultFiles

\* No command reads the report: it is written, and what it said is not kept.
Outputs == Files \cup {Report}

\* The place of a file in the order in which its command writes.
Rank(f) ==
    CASE f[1] = "lambda_samples"    -> 2 * f[2] + 1
      [] f[1] = "inference_summary" -> 2 * f[2] + 2
      [] f \in {Marker, Spread}     -> 1
      [] f = Oracle                 -> 2
      [] OTHER                      -> 0

\* What the files' contents are computed from.
Labellings == [snapshot : Snapshots, ids : SUBSET Incidents]
Coverages  == [snapshot : Snapshots, corpus : Nat, scope : Nat]
Posteriors == [labels : Labellings, calibration : Golds,
               gold : Golds \cup {Absent}, manifest : Manifests]
Pairs      == [lambda : Posteriors, summary : Posteriors]
Results    == [manifest : Manifests, labels : Labellings, primary : Pairs,
               robustness : UNION {[S -> Pairs] : S \in SUBSET Specs}]
Reports    == [manifest : Manifests, concordance : Results,
               spread : Results \cup {Absent}]
Verdicts   == {"verdict"}   \* only that there is one

Contents(f) ==
    IF f = Labels THEN Labellings
    ELSE IF f = Marker THEN Coverages
    ELSE IF f = Oracle THEN Verdicts
    ELSE IF f = Report THEN Reports
    ELSE IF f \in {Concordance, Spread} THEN Results
    ELSE Posteriors

ASSUME NoFileAssumption ==
    /\ Absent \notin Manifests
    /\ \A f \in Outputs : Absent \notin Contents(f) /\ Torn \notin Contents(f)

-----------------------------------------------------------------------------
VARIABLES
    \* the operator's files
    manifest,     \* prereg/manifest.json
    lock,         \* the manifest whose hash is in prereg/manifest.lock
    vendored,     \* snapshots under corpora/
    goldFiles,    \* gold-set files in calibration/
    calibration,  \* the gold set calibration/posteriors.json comes from
    votesIn,      \* the directory vote/ is not empty
    \* the files of the commands
    files,
    \* the running command
    cmd,          \* its name
    out,          \* what it writes, computed from what it has read
    pending,      \* the files it has still to write
    \* history
    locked,       \* manifests that have ever been locked
    streak,       \* the last phase of an unspoilt pass that is complete
    edits, deaths

operatorVars == <<manifest, lock, vendored, goldFiles, calibration, votesIn>>
commandVars  == <<cmd, out, pending>>
vars == <<operatorVars, files, commandVars, locked, streak, edits, deaths>>

Phases == {"classified", "inferred", "decided"}
NoFiles  == [f \in Files |-> Absent]
NoOutput == [f \in Outputs |-> Absent]

TypeOK ==
    /\ manifest \in Manifests
    /\ lock \in Manifests \cup {Absent}
    /\ vendored \subseteq Snapshots
    /\ goldFiles \in Golds \cup {Absent}
    /\ calibration \in Golds \cup {Absent}
    /\ votesIn \in BOOLEAN
    /\ DOMAIN files = Files
    /\ \A f \in Files : files[f] \in Contents(f) \cup {Absent, Torn}
    /\ cmd \in {"none", "classify", "infer", "decide", "report"}
    /\ DOMAIN out = Outputs
    /\ pending \subseteq Outputs
    /\ \A f \in Outputs : out[f] \in Contents(f) \cup {Absent}
    /\ \A f \in pending : out[f] \in Contents(f)
    /\ locked \subseteq Manifests
    /\ streak \in Phases \cup {"none"}
    /\ edits \in 0 .. MaxEdits
    /\ deaths \in 0 .. MaxDeaths

Init ==
    /\ manifest \in Manifests
    /\ lock = Absent
    /\ vendored \in SUBSET Snapshots
    /\ goldFiles \in Golds \cup {Absent}
    /\ calibration = goldFiles
    /\ votesIn = FALSE
    /\ files = NoFiles
    /\ cmd = "none"
    /\ out = NoOutput
    /\ pending = {}
    /\ locked = {}
    /\ streak = "none"
    /\ edits = 0
    /\ deaths = 0

Readable(f) == files[f] \notin {Absent, Torn}

\* Seeded fault: the lock has to be there, its hash is not compared.
LockHolds_Present == lock # Absent

\* _verify_manifest_lock: the lock holds the hash of the manifest as it is.
LockHolds == lock = manifest

\* A command has passed its gates: what it will write, and where.
Begin(name, fs, content) ==
    /\ cmd' = name
    /\ pending' = fs
    /\ out' = [f \in Outputs |-> IF f \in fs THEN content[f] ELSE Absent]
    /\ UNCHANGED <<operatorVars, files, locked, edits, deaths>>

-----------------------------------------------------------------------------
(* classify-real *)

\* It classifies snapshot_dirs[0], the first one under corpora/, whichever
\* snapshot the manifest pins.  labeled_incidents.json lists the in-scope
\* incidents.  The marker records the counts, and the snapshot of the manifest.
BeginClassify ==
    /\ cmd = "none"
    /\ LockHolds /\ ~votesIn /\ calibration # Absent
    /\ streak' = "none"
    /\ \E s \in vendored, ids \in Scopes :
          /\ \A t \in vendored : s <= t
          /\ ids \subseteq Universe[s]
          /\ Begin("classify", {Labels, Marker},
                   [f \in {Labels, Marker} |->
                       IF f = Labels
                       THEN [snapshot |-> s, ids |-> ids]
                       ELSE [snapshot |-> manifest.snapshot,
                             corpus |-> Cardinality(Universe[s]),
                             scope |-> Cardinality(ids)]])

-----------------------------------------------------------------------------
(* infer-real *)

\* verify_labeled_completeness: labels and marker reconcile with the pinned
\* snapshot, if that snapshot is vendored.  (The same check of the gold set's
\* incidents depends on nothing else here: one more reason to refuse.)
Covered ==
    manifest.snapshot \in vendored =>
        /\ files[Labels].ids \subseteq Universe[manifest.snapshot]
        /\ Readable(Marker)
        /\ files[Marker].snapshot = manifest.snapshot
        /\ files[Marker].corpus = Cardinality(Universe[manifest.snapshot])
        /\ files[Marker].scope = Cardinality(files[Labels].ids)

\* _verify_goldset_hash: a gold set that is loaded is the one the manifest
\* binds, if it binds one.
GoldVerified == goldFiles # Absent => manifest.gold \in {Absent, goldFiles}

\* Seeded fault: the chains of specs that have their files are not run again.
InferFiles_Resumed ==
    ChainFiles({0} \cup {s \in manifest.specs : ~Readable(Summary(s))})

\* The primary chain, then the chain of each spec the manifest declares.
InferFiles == ChainFiles({0} \cup manifest.specs)

BeginInfer ==
    /\ cmd = "none"
    /\ LockHolds /\ ~votesIn /\ calibration # Absent /\ Readable(Labels)
    /\ Covered /\ GoldVerified
    /\ streak' = IF streak = "none" THEN "none" ELSE "classified"
    /\ Begin("infer", InferFiles,
             [f \in InferFiles |->
                 [labels |-> files[Labels], calibration |-> calibration,
                  gold |-> goldFiles, manifest |-> manifest]])

-----------------------------------------------------------------------------
(* decide-real *)

Pair(c) == [lambda |-> files[Lambda(c)], summary |-> files[Summary(c)]]

\* The concordance of the vote with the primary chain and with the chains of
\* the declared specs, over the strata of the labels.
DecideResult ==
    [manifest |-> manifest, labels |-> files[Labels], primary |-> Pair(0),
     robustness |-> [s \in manifest.specs |-> Pair(s)]]

\* Seeded fault: decide does not look whether every declared spec was run.
BeginDecide_Incomplete ==
    /\ cmd = "none"
    /\ LockHolds
    /\ Readable(Labels)
    /\ \A f \in ChainFiles({0}) : Readable(f)
    /\ streak' = IF streak \in {"inferred", "decided"} THEN "inferred" ELSE "none"
    /\ Begin("decide", ResultFiles,
             [f \in ResultFiles |->
                 IF f = Oracle THEN "verdict" ELSE DecideResult])

\* assert_robustness_complete raises unless every declared spec has its files.
BeginDecide ==
    /\ cmd = "none"
    /\ LockHolds
    /\ Readable(Labels)
    /\ \A f \in InferFiles : Readable(f)
    /\ streak' = IF streak \in {"inferred", "decided"} THEN "inferred" ELSE "none"
    /\ Begin("decide", ResultFiles,
             [f \in ResultFiles |->
                 IF f = Oracle THEN "verdict" ELSE DecideResult])

\* run_oracle raises; decide reports it and goes on, and the oracle_report of
\* an earlier decide stays.
OracleFails ==
    /\ cmd = "decide" /\ pending = {Oracle}
    /\ pending' = {}
    /\ UNCHANGED <<operatorVars, files, cmd, out, locked, streak, edits, deaths>>

-----------------------------------------------------------------------------
(* report *)

\* Seeded fault: a spread that is there is taken as it is.
BeginReport_Trusting ==
    /\ cmd = "none"
    /\ Readable(Concordance)
    /\ \A f \in {Spread, Oracle, Summary(0)} : files[f] # Torn
    /\ files[Spread] = Absent => manifest.specs = {} \/ manifest.schema < 3
    /\ streak' = streak
    /\ Begin("report", {Report},
             [f \in {Report} |->
                 [manifest |-> manifest, concordance |-> files[Concordance],
                  spread |-> files[Spread]]])

\* The manifest is read without its lock.  A spread there is must cover the
\* declared specs; there must be one if any is declared, by a manifest of schema
\* 3 or later (earlier cycles wrote none).  Selection bias, vote
\* ranking, summary and oracle verdict are read if they are there.
BeginReport ==
    /\ cmd = "none"
    /\ Readable(Concordance)
    /\ \A f \in {Spread, Oracle, Summary(0)} : files[f] # Torn
    /\ IF files[Spread] = Absent
       THEN manifest.specs = {} \/ manifest.schema < 3
       ELSE manifest.specs \subseteq DOMAIN files[Spread].robustness
    /\ streak' = streak
    /\ Begin("report", {Report},
             [f \in {Report} |->
                 [manifest |-> manifest, concordance |-> files[Concordance],
                  spread |-> files[Spread]]])

-----------------------------------------------------------------------------
(* Every command *)

\* The next file is written in place.
Write(f) ==
    /\ f \in pending /\ \A g \in pending : Rank(f) <= Rank(g)
    /\ files' = [g \in Files |-> IF g = f THEN out[f] ELSE files[g]]
    /\ pending' = pending \ {f}
    /\ UNCHANGED <<operatorVars, cmd, out, locked, streak, edits, deaths>>

\* The command returns.
Finish ==
    /\ cmd # "none" /\ pending = {}
    /\ cmd' = "none"
    /\ out' = NoOutput
    /\ streak' = IF cmd = "classify" THEN "classified"
                 ELSE IF cmd = "infer" /\ streak = "classified" THEN "inferred"
                 ELSE IF cmd = "decide" /\ streak = "inferred" THEN "decided"
                 ELSE streak
    /\ UNCHANGED <<operatorVars, files, pending, locked, edits, deaths>>

\* It raises or is killed: between two files, as when the diagnostics of a
\* chain fail, or while it writes one.
Die ==
    /\ cmd # "none" /\ deaths < MaxDeaths
    /\ \/ files' = files
       \/ \E f \in pending :
             /\ \A g \in pending : Rank(f) <= Rank(g)
             /\ files' = [g \in Files |-> IF g = f THEN Torn ELSE files[g]]
    /\ cmd' = "none"
    /\ out' = NoOutput
    /\ pending' = {}
    /\ deaths' = deaths + 1
    /\ UNCHANGED <<operatorVars, locked, streak, edits>>

Command == BeginClassify \/ BeginInfer \/ BeginDecide \/ BeginReport
Step    == (\E f \in Outputs : Write(f)) \/ OracleFails \/ Finish \/ Die

-----------------------------------------------------------------------------
(* The operator *)

Edit == /\ edits < MaxEdits
        /\ edits' = edits + 1
        /\ UNCHANGED <<files, commandVars, deaths>>

EditManifest ==
    /\ Edit
    /\ manifest' \in Manifests \ {manifest}
    /\ streak' = "none"
    /\ UNCHANGED <<lock, vendored, goldFiles, calibration, votesIn, locked>>

\* write_lock
LockManifest ==
    /\ lock # manifest
    /\ lock' = manifest
    /\ locked' = locked \cup {manifest}
    /\ UNCHANGED <<manifest, vendored, goldFiles, calibration, votesIn, files,
                   commandVars, streak, edits, deaths>>

VendorSnapshot ==
    /\ Edit
    /\ \E s \in Snapshots \ vendored : vendored' = vendored \cup {s}
    /\ UNCHANGED <<manifest, lock, goldFiles, calibration, votesIn, locked, streak>>

AdjudicateGold ==
    /\ Edit
    /\ goldFiles' \in Golds \ {goldFiles}
    /\ UNCHANGED <<manifest, lock, vendored, calibration, votesIn, locked, streak>>

\* cal-tally is given the path of its gold set: any, then cal-calibrate.
Calibrate ==
    /\ Edit
    /\ calibration' \in Golds \ {calibration}
    /\ UNCHANGED <<manifest, lock, vendored, goldFiles, votesIn, locked, streak>>

MoveVotes ==
    /\ Edit
    /\ votesIn' = ~votesIn
    /\ UNCHANGED <<manifest, lock, vendored, goldFiles, calibration, locked, streak>>

Operator == \/ EditManifest \/ LockManifest \/ VendorSnapshot
            \/ AdjudicateGold \/ Calibrate \/ MoveVotes

Next == Command \/ Step \/ Operator

Spec == Init /\ [][Next]_vars

-----------------------------------------------------------------------------
(* Properties *)

\* Whatever failed, crashed and outdated commands have left behind: once
\* classify, infer and decide have completed in this order under one manifest,
\* marker, posteriors and results are those of these three runs, and nothing
\* older has come through.  Every file a phase reads has to be rewritten by
\* the phase before, in an order in which a command that dies spoils nothing
\* that counts as complete.
CleanPassIsCoherent ==
    LET Fresh(cs) == \A f \in ChainFiles(cs) :
            /\ Readable(f)
            /\ files[f] = files[Lambda(0)]
            /\ files[f].labels = files[Labels] /\ files[f].manifest = manifest
    IN /\ streak \in Phases =>
            /\ Readable(Labels) /\ Readable(Marker)
            /\ files[Marker].corpus = Cardinality(Universe[files[Labels].snapshot])
            /\ files[Marker].scope = Cardinality(files[Labels].ids)
       /\ streak \in {"inferred", "decided"} => Fresh({0} \cup manifest.specs)
       /\ streak = "decided" =>
            \A f \in {Concordance, Spread} : files[f] = DecideResult

\* Lock before numbers: every posterior was computed under a manifest that was
\* locked by then, that declares its spec and that binds no other gold set than
\* the one it used, and every result under a locked manifest from such
\* posteriors, however manifests and gold sets were edited and re-locked since.
Preregistered(posterior, c) ==
    /\ posterior.manifest \in locked
    /\ c # 0 => c \in posterior.manifest.specs
    /\ posterior.gold # Absent => posterior.manifest.gold \in {Absent, posterior.gold}
PairPreregistered(pair, c) ==
    Preregistered(pair.lambda, c) /\ Preregistered(pair.summary, c)
ResultPreregistered(r) ==
    /\ r.manifest \in locked
    /\ PairPreregistered(r.primary, 0)
    /\ \A s \in DOMAIN r.robustness : PairPreregistered(r.robustness[s], s)
LockedBeforeNumbers ==
    /\ \A c \in Chains : \A f \in ChainFiles({c}) :
          Readable(f) => Preregistered(files[f], c)
    /\ \A f \in {Concordance, Spread} : Readable(f) => ResultPreregistered(files[f])

\* A report shows, for every spec its manifest declares, the chains of that
\* spec from under a locked manifest that declared it, although it is written
\* from a spread that an earlier decide may have left and without the lock; only
\* a manifest older than schema 3 may have a report without any spread.
ReportCoversDeclared ==
    cmd = "report" =>
        LET r == out[Report]
        IN \A s \in r.manifest.specs : r.manifest.schema >= 3 \/ r.spread # Absent =>
              /\ r.spread # Absent
              /\ s \in DOMAIN r.spread.robustness
              /\ PairPreregistered(r.spread.robustness[s], s)

\* What the completeness check is to ensure (refuted): beside a primary chain
\* that was written as a whole, a spread shows specs run on the same labels.
SpreadFromOneInfer ==
    Readable(Spread) =>
        LET r == files[Spread]
        IN r.primary.lambda = r.primary.summary =>
              \A s \in DOMAIN r.robustness :
                  r.robustness[s].lambda.labels = r.primary.lambda.labels

\* What the coverage marker is to ensure (refuted): labels that inference has
\* reconciled with the pinned snapshot were made from that snapshot.
LabelsFromPinnedSnapshot ==
    [][BeginInfer /\ manifest.snapshot \in vendored =>
          files[Labels].snapshot = manifest.snapshot]_vars
=============================================================================
