--------------------------- MODULE CalibrationFiles ---------------------------
(***************************************************************************)
(* The six commands of the calibration (engine/cli/calibration.py):        *)
(* classify, sample, generate-batches, tally, calibrate and cv-stability.  *)
(* Each reads what earlier ones left in the calibration directory, with    *)
(* the provenance of its predecessor as the gate, and writes its output    *)
(* and then its own provenance.  Between commands a coder fills in batches *)
(* and the operator edits the rubric and the manifest.                     *)
(*                                                                         *)
(* What the commands compute is in GoldCalibration; here a content is what *)
(* it was made from.  There is one entry and one stratum.                  *)
(***************************************************************************)
EXTENDS Naturals, FiniteSets, Sequences

CONSTANTS
    SnapshotIncidents,  \* incidents of the vendored snapshot
    Labelled,           \* those the rules of each rubric put in the entry
    Entry, Stratum,
    MaxCommands,        \* bound: commands
    MaxStageDeaths      \* bound: commands that die

Gold == INSTANCE GoldCalibration

Rubrics == DOMAIN Labelled

CalibrationAssumption ==
    /\ Rubrics = 1 .. Cardinality(Rubrics)
    /\ \A r \in Rubrics : Labelled[r] \subseteq SnapshotIncidents
    /\ IsFiniteSet(SnapshotIncidents) /\ MaxCommands \in Nat /\ MaxStageDeaths \in Nat

Classify   == 1
Sample     == 2
Generate   == 3
Tally      == 4
Calibrate  == 5
CvStability == 6
Stages == Classify .. CvStability

VARIABLES
    rubric,           \* the rubric, by its number
    manifest,         \* the rubric whose rules the manifest pins; also its hash
    output,           \* the output of each stage: absent, torn or there with a content
    stageProvenance,  \* <stage>_provenance.json: "absent", "torn" or "there"
    batches,          \* the files of batches/, each with a name of its own
    calibration,      \* the stage under way: [stage, writes, content]
    commands, stageDeaths

cfvars == <<rubric, manifest, output, stageProvenance, batches, calibration, commands, stageDeaths>>
files == <<output, stageProvenance, batches>>

NoStage == [stage |-> 0, writes |-> <<>>]
Absent == [is |-> "absent"]
Torn == [is |-> "torn"]
There(content) == [is |-> "there", content |-> content]

CalibrationTypeOK ==
    /\ rubric \in Rubrics /\ manifest \in Rubrics
    /\ DOMAIN output = Stages /\ \A s \in Stages : output[s].is \in {"absent", "torn", "there"}
    /\ stageProvenance \in [Stages -> {"absent", "torn", "there"}]
    /\ \A k \in DOMAIN batches : batches[k].rubric \in Rubrics /\ batches[k].lock \in Rubrics
    /\ calibration.stage \in {0} \cup Stages
    /\ commands \in 0 .. MaxCommands /\ stageDeaths \in 0 .. MaxStageDeaths

CalibrationInit ==
    /\ rubric = 1 /\ manifest = 1
    /\ output = [s \in Stages |-> Absent]
    /\ stageProvenance = [s \in Stages |-> "absent"]
    /\ batches = <<>> /\ calibration = NoStage /\ commands = 0 /\ stageDeaths = 0

-----------------------------------------------------------------------------
(* Commands.                                                               *)

Readable(s) == output[s].is = "there"

\* Of every sample a batch is drawn again, from the classifications as they
\* are now; the precision frame of an empty pool has none.
Drawn(classified) ==
    LET batch(frame, pool) ==
          [to |-> "batches",
           batch |-> Gold!Batch(frame, Entry, Stratum, pool, rubric, manifest)]
        pool == Labelled[classified.rubric]
    IN  (IF pool = {} THEN <<>> ELSE <<batch("precision", pool)>>)
          \o <<batch("recall", SnapshotIncidents)>>

\* Mutant: the hashes a batch is held against are those in the batch.
BatchesValid_OwnHashes == batches # <<>>

\* validate_and_tally: one batch of another rubric or manifest stops the tally.
BatchesValid ==
    \A k \in DOMAIN batches :
      Gold!BatchValid(batches[k], [hash |-> batches[k].hash, rubric |-> rubric, lock |-> manifest],
                      {Entry}, SnapshotIncidents)

\* A command needs the provenance of the stage before, and writes its output
\* and then its own provenance after what else it writes.
BeginStage(s, writes, content) ==
    /\ calibration = NoStage /\ commands < MaxCommands
    /\ s > Classify => stageProvenance[s - 1] = "there"
    /\ calibration' = [stage |-> s, content |-> content,
                   writes |-> writes \o <<[to |-> "output"], [to |-> "provenance"]>>]
    /\ commands' = commands + 1
    /\ UNCHANGED <<rubric, manifest, files, stageDeaths>>

\* The rules of the rubric have to be those the manifest pins.
CalClassify ==
    rubric = manifest /\ BeginStage(Classify, <<>>, [rubric |-> rubric])

CalSample ==
    Readable(Classify) /\ BeginStage(Sample, <<>>, [from |-> output[Classify].content])

CalGenerateBatches ==
    /\ Readable(Classify) /\ Readable(Sample)
    /\ BeginStage(Generate, Drawn(output[Classify].content), [rubric |-> rubric, lock |-> manifest])

CalTally ==
    /\ BatchesValid
    /\ BeginStage(Tally, <<>>, [rubric |-> rubric, lock |-> manifest, counted |-> batches])

\* Its diagnostic is written between the two files; nothing here reads it.
CalCalibrate ==
    /\ Readable(Tally) /\ Readable(Sample)
    /\ BeginStage(Calibrate, <<>>, [from |-> output[Tally].content, entries |-> rubric])

CalCvStability ==
    /\ batches = <<>> \/ Readable(Tally)
    /\ BeginStage(CvStability, <<>>, [folds |-> batches])

NextWrite == Head(calibration.writes)

WriteOutput ==
    /\ NextWrite.to = "output"
    /\ output' = [output EXCEPT ![calibration.stage] = There(calibration.content)]
    /\ UNCHANGED <<stageProvenance, batches>>

WriteProvenance ==
    /\ NextWrite.to = "provenance"
    /\ stageProvenance' = [stageProvenance EXCEPT ![calibration.stage] = "there"]
    /\ UNCHANGED <<output, batches>>

WriteBatch ==
    /\ NextWrite.to = "batches"
    /\ batches' = Append(batches, NextWrite.batch)
    /\ UNCHANGED <<output, stageProvenance>>

Write ==
    /\ calibration # NoStage
    /\ WriteOutput \/ WriteProvenance \/ WriteBatch
    /\ calibration' = IF Len(calibration.writes) = 1 THEN NoStage
                  ELSE [calibration EXCEPT !.writes = Tail(@)]
    /\ UNCHANGED <<rubric, manifest, commands, stageDeaths>>

\* A command dies between two writes or in one; a torn batch cannot be read
\* and is deleted by the operator.
StageDies ==
    /\ calibration # NoStage /\ stageDeaths < MaxStageDeaths
    /\ calibration' = NoStage /\ stageDeaths' = stageDeaths + 1
    /\ \/ UNCHANGED <<output, stageProvenance>>
       \/ NextWrite.to = "output" /\ UNCHANGED stageProvenance
          /\ output' = [output EXCEPT ![calibration.stage] = Torn]
       \/ NextWrite.to = "provenance" /\ UNCHANGED output
          /\ stageProvenance' = [stageProvenance EXCEPT ![calibration.stage] = "torn"]
    /\ UNCHANGED <<rubric, manifest, batches, commands>>

-----------------------------------------------------------------------------
(* Coder and operator, while no command runs.                              *)

\* The coder fills in a batch and finds the entry in every incident.
Code ==
    /\ calibration = NoStage
    /\ \E k \in DOMAIN batches :
         /\ Gold!Coded(batches[k]) = {}
         /\ batches' = [batches EXCEPT ![k] =
                          Gold!CodeSynthetic(@, [i \in SnapshotIncidents |-> {Entry}], {Entry})]
    /\ UNCHANGED <<rubric, manifest, output, stageProvenance, calibration, commands, stageDeaths>>

EditRubric ==
    /\ calibration = NoStage /\ rubric + 1 \in Rubrics /\ rubric' = rubric + 1
    /\ UNCHANGED <<manifest, files, calibration, commands, stageDeaths>>

\* The manifest is written anew and pins the rules of the rubric.
Repin ==
    /\ calibration = NoStage /\ manifest # rubric /\ manifest' = rubric
    /\ UNCHANGED <<rubric, files, calibration, commands, stageDeaths>>

CalibrationNext ==
    \/ CalClassify \/ CalSample \/ CalGenerateBatches
    \/ CalTally \/ CalCalibrate \/ CalCvStability
    \/ Write \/ StageDies \/ Code \/ EditRubric \/ Repin

CalibrationSpec == CalibrationInit /\ [][CalibrationNext]_cfvars

-----------------------------------------------------------------------------
\* What inference reads stands on its chain.  A provenance vouches for an
\* output that was written and for the stages before it, whatever crashed (a
\* repeated stage that dies in its output leaves it torn beside the earlier
\* provenance, and what reads it next fails); and the
\* posteriors count only batches that were handed out under the very rubric and
\* manifest the tally ran under, so that an edit while the coders work, or the
\* rest of an earlier set of batches, cannot slip in.  That calibrate reads the
\* rubric once more, after such an edit, is not prevented.  calibration.py.
PosteriorsStandOnTheirChain ==
    /\ \A s \in Stages : stageProvenance[s] = "there" =>
         output[s] # Absent /\ \A r \in 1 .. s - 1 : stageProvenance[r] # "absent"
    /\ Readable(Calibrate) =>
         LET tally == output[Calibrate].content.from
         IN  \A k \in DOMAIN tally.counted :
               /\ tally.counted[k].rubric = tally.rubric
               /\ tally.counted[k].lock = tally.lock
=============================================================================
