------------------------- MODULE CyclePhasesProofs -------------------------
(* Theorems about CyclePhases, for every set of snapshots, specs, gold sets *)
(* and manifests.                                                           *)
EXTENDS CyclePhases, FiniteSetTheorems, TLAPS

-----------------------------------------------------------------------------
(* The inductive invariant *)

\* A command writes its own files only, in the course of a pass.
CommandShape ==
    /\ cmd = "none"     => pending = {}
    /\ cmd = "classify" => pending \subseteq {Labels, Marker} /\ streak = "none"
    /\ cmd = "infer"    => /\ pending \subseteq ChainFiles(Chains)
                           /\ streak \in {"none", "classified"}
    /\ cmd = "decide"   => /\ pending \subseteq ResultFiles
                           /\ streak \in {"none", "inferred"}
    /\ cmd = "report"   => pending \subseteq {Report}

\* What may be written to a file.
Sound(f, v) ==
    /\ \A c \in Chains : f \in ChainFiles({c}) => Preregistered(v, c)
    /\ f \in {Concordance, Spread} => ResultPreregistered(v)

\* What is or will be in the files is preregistered.
SoundFiles ==
    /\ lock # Absent => lock \in locked
    /\ \A f \in Files : Readable(f) => Sound(f, files[f])
    /\ \A f \in pending : Sound(f, out[f])

\* Labels and a marker that certifies them.
Certified(labels, marker) ==
    /\ labels \in Labellings /\ marker \in Coverages
    /\ marker.corpus = Cardinality(Universe[labels.snapshot])
    /\ marker.scope = Cardinality(labels.ids)

\* classify has written what it has no longer to write.
Classifying ==
    cmd = "classify" =>
        /\ Certified(out[Labels], out[Marker])
        /\ \A f \in {Labels, Marker} \ pending : files[f] = out[f]
Classified ==
    streak \in Phases => Certified(files[Labels], files[Marker])

\* The posterior of an unspoilt pass.
Fresh(p) == p \in Posteriors /\ p.labels = files[Labels] /\ p.manifest = manifest

Inferring ==
    cmd = "infer" /\ streak = "classified" =>
        /\ Fresh(out[Lambda(0)])
        /\ pending \subseteq InferFiles
        /\ \A f \in InferFiles : out[f] = out[Lambda(0)]
        /\ \A f \in InferFiles \ pending : files[f] = out[f]
Inferred ==
    streak \in {"inferred", "decided"} =>
        /\ Fresh(files[Lambda(0)])
        /\ \A f \in InferFiles : files[f] = files[Lambda(0)]

Deciding ==
    cmd = "decide" /\ streak = "inferred" =>
        \A f \in {Concordance, Spread} :
            out[f] = DecideResult /\ (f \notin pending => files[f] = out[f])
Decided ==
    streak = "decided" =>
        \A f \in {Concordance, Spread} : files[f] = DecideResult

-----------------------------------------------------------------------------
(* Files and their contents *)

LEMMA FileKinds ==
    /\ Labels # Marker /\ Concordance # Spread
    /\ {Labels, Marker} \cap ResultFiles = {}
    /\ Report \notin Files
    /\ Files \subseteq Outputs /\ Report \in Outputs
    /\ {Labels, Marker} \subseteq Files /\ ResultFiles \subseteq Files
    /\ {Concordance, Spread, Oracle} = ResultFiles
    /\ Oracle \notin {Concordance, Spread}
    /\ ChainFiles(Chains) \subseteq Files
    /\ \A f \in ChainFiles(Chains) :
          f \notin {Labels, Marker, Report} /\ f \notin ResultFiles
BY DEF Labels, Marker, Concordance, Spread, Oracle, Report, Files, Outputs,
       ResultFiles, ChainFiles, Lambda, Summary

LEMMA ContentKinds ==
    /\ Contents(Labels) = Labellings /\ Contents(Marker) = Coverages
    /\ \A f \in ChainFiles(Chains) : Contents(f) = Posteriors
    /\ \A f \in {Concordance, Spread} : Contents(f) = Results
    /\ Contents(Oracle) = Verdicts /\ Contents(Report) = Reports
BY FileKinds DEF Contents

\* The files of a set of chains.
LEMMA ChainFilesOf ==
    /\ \A cs \in SUBSET Chains : ChainFiles(cs) \subseteq ChainFiles(Chains)
    /\ \A c \in Chains : Lambda(c) \in ChainFiles({c}) /\ Summary(c) \in ChainFiles({c})
    /\ \A cs \in SUBSET Chains : \A c \in cs : ChainFiles({c}) \subseteq ChainFiles(cs)
    /\ \A cs \in SUBSET Chains, c \in Chains :
          \A f \in ChainFiles(cs) : f \in ChainFiles({c}) => c \in cs
    /\ \A f \in ChainFiles(Chains) : \E c \in Chains : f \in ChainFiles({c})
BY DEF ChainFiles, Lambda, Summary

LEMMA ManifestShape ==
    ASSUME TypeOK
    PROVE  /\ manifest \in Manifests /\ manifest # Absent
           /\ manifest.snapshot \in Snapshots /\ manifest.specs \subseteq Specs
           /\ {0} \cup manifest.specs \subseteq Chains
           /\ InferFiles \subseteq ChainFiles(Chains)
           /\ InferFiles \subseteq Files
           /\ Lambda(0) \in InferFiles /\ Summary(0) \in InferFiles
<1>1. /\ manifest \in Manifests /\ manifest # Absent
      /\ manifest.snapshot \in Snapshots /\ manifest.specs \subseteq Specs
  BY ManifestsAssumption, NoFileAssumption DEF TypeOK
<1>2. {0} \cup manifest.specs \subseteq Chains
  BY <1>1, UniverseAssumption DEF Chains, Specs
<1>3. InferFiles \subseteq ChainFiles(Chains)
  BY <1>2, ChainFilesOf DEF InferFiles
<1>4. Lambda(0) \in InferFiles /\ Summary(0) \in InferFiles
  BY DEF InferFiles, ChainFiles
<1> QED
  BY <1>1, <1>2, <1>3, <1>4, FileKinds

\* A file that can be read has content of its kind.
LEMMA ReadableContent ==
    ASSUME TypeOK, NEW f \in Files, Readable(f)
    PROVE  files[f] \in Contents(f)
BY DEF TypeOK, Readable

\* Content makes a file readable.
LEMMA ContentReadable ==
    ASSUME NEW f \in Files, files[f] \in Contents(f)
    PROVE  Readable(f)
BY NoFileAssumption, FileKinds DEF Readable

-----------------------------------------------------------------------------
(* Type correctness *)

\* A command begins with content of the right kind for every file it writes.
LEMMA BeginTyped ==
    ASSUME TypeOK, NEW name \in {"classify", "infer", "decide", "report"},
           NEW fs \in SUBSET Outputs, NEW content, Begin(name, fs, content),
           \A f \in fs : content[f] \in Contents(f),
           streak' \in Phases \cup {"none"}
    PROVE  TypeOK'
BY DEF TypeOK, Begin, operatorVars

\* What the commands compute has the right kind.
LEMMA ClassifyTyped ==
    ASSUME TypeOK, BeginClassify
    PROVE  TypeOK'
<1>1. PICK s \in vendored, ids \in Scopes :
          /\ ids \subseteq Universe[s]
          /\ Begin("classify", {Labels, Marker},
                   [f \in {Labels, Marker} |->
                       IF f = Labels
                       THEN [snapshot |-> s, ids |-> ids]
                       ELSE [snapshot |-> manifest.snapshot,
                             corpus |-> Cardinality(Universe[s]),
                             scope |-> Cardinality(ids)]])
  BY DEF BeginClassify
<1>2. s \in Snapshots /\ ids \subseteq Incidents /\ Universe[s] \subseteq Incidents
  BY <1>1, UniverseAssumption DEF TypeOK
<1>3. Cardinality(Universe[s]) \in Nat /\ Cardinality(ids) \in Nat
  BY <1>2, UniverseAssumption, FS_Subset, FS_CardinalityType
<1>4. [snapshot |-> s, ids |-> ids] \in Labellings
  BY <1>2 DEF Labellings
<1>5. [snapshot |-> manifest.snapshot, corpus |-> Cardinality(Universe[s]),
       scope |-> Cardinality(ids)] \in Coverages
  BY <1>3, ManifestShape DEF Coverages
<1>6. {Labels, Marker} \in SUBSET Outputs
  BY FileKinds
<1>7. streak' \in Phases \cup {"none"}
  BY DEF BeginClassify
<1> DEFINE content == [f \in {Labels, Marker} |->
                       IF f = Labels
                       THEN [snapshot |-> s, ids |-> ids]
                       ELSE [snapshot |-> manifest.snapshot,
                             corpus |-> Cardinality(Universe[s]),
                             scope |-> Cardinality(ids)]]
<1>8. \A f \in {Labels, Marker} : content[f] \in Contents(f)
  BY <1>4, <1>5, ContentKinds, FileKinds
<1>9. Begin("classify", {Labels, Marker}, content)
  BY <1>1
<1> HIDE DEF content
<1> QED
  BY <1>6, <1>7, <1>8, <1>9, BeginTyped

LEMMA InferTyped ==
    ASSUME TypeOK, BeginInfer
    PROVE  TypeOK'
<1> DEFINE p == [labels |-> files[Labels], calibration |-> calibration,
                 gold |-> goldFiles, manifest |-> manifest]
           content == [f \in InferFiles |-> p]
<1>1. files[Labels] \in Labellings
  BY ReadableContent, FileKinds, ContentKinds DEF BeginInfer
<1>2. p \in Posteriors
  BY <1>1, ManifestShape DEF BeginInfer, Posteriors, TypeOK
<1>3. \A f \in InferFiles : content[f] \in Contents(f)
  BY <1>2, ManifestShape, ContentKinds
<1>4. InferFiles \in SUBSET Outputs
  BY ManifestShape, FileKinds
<1>5. streak' \in Phases \cup {"none"} /\ Begin("infer", InferFiles, content)
  BY DEF BeginInfer, Phases
<1> HIDE DEF content
<1> QED
  BY <1>3, <1>4, <1>5, BeginTyped

\* The result of a decide whose gates are passed.
LEMMA DecideResultTyped ==
    ASSUME TypeOK, Readable(Labels), \A f \in InferFiles : Readable(f)
    PROVE  DecideResult \in Results
<1>1. files[Labels] \in Labellings
  BY ReadableContent, FileKinds, ContentKinds
<1>2. \A f \in InferFiles : files[f] \in Posteriors
  BY ReadableContent, ManifestShape, ContentKinds
<1>3. \A c \in {0} \cup manifest.specs :
          Lambda(c) \in InferFiles /\ Summary(c) \in InferFiles
  BY DEF InferFiles, ChainFiles
<1>4. \A c \in {0} \cup manifest.specs : Pair(c) \in Pairs
  BY <1>2, <1>3 DEF Pair, Pairs
<1>5. [s \in manifest.specs |-> Pair(s)] \in [manifest.specs -> Pairs]
  BY <1>4
<1>6. [s \in manifest.specs |-> Pair(s)] \in UNION {[S -> Pairs] : S \in SUBSET Specs}
  BY <1>5, ManifestShape
<1> QED
  BY <1>1, <1>4, <1>6, ManifestShape DEF DecideResult, Results

LEMMA DecideTyped ==
    ASSUME TypeOK, BeginDecide
    PROVE  TypeOK'
<1> DEFINE content == [f \in ResultFiles |->
                          IF f = Oracle THEN "verdict" ELSE DecideResult]
<1>1. DecideResult \in Results
  BY DecideResultTyped DEF BeginDecide
<1>2. \A f \in ResultFiles : content[f] \in Contents(f)
  BY <1>1, FileKinds, ContentKinds DEF Verdicts
<1>3. ResultFiles \in SUBSET Outputs
  BY FileKinds
<1>4. streak' \in Phases \cup {"none"} /\ Begin("decide", ResultFiles, content)
  BY DEF BeginDecide, Phases
<1> HIDE DEF content
<1> QED
  BY <1>2, <1>3, <1>4, BeginTyped

LEMMA ReportTyped ==
    ASSUME TypeOK, BeginReport
    PROVE  TypeOK'
<1> DEFINE r == [manifest |-> manifest, concordance |-> files[Concordance],
                 spread |-> files[Spread]]
           content == [f \in {Report} |-> r]
<1>1. files[Concordance] \in Results
  BY ReadableContent, FileKinds, ContentKinds DEF BeginReport
<1>2. files[Spread] \in Results \cup {Absent}
  BY FileKinds, ContentKinds DEF BeginReport, TypeOK
<1>3. r \in Reports
  BY <1>1, <1>2 DEF Reports, TypeOK
<1>4. \A f \in {Report} : content[f] \in Contents(f)
  BY <1>3, ContentKinds
<1>5. {Report} \in SUBSET Outputs
  BY FileKinds
<1>6. streak' \in Phases \cup {"none"} /\ Begin("report", {Report}, content)
  BY DEF BeginReport, TypeOK
<1> HIDE DEF content
<1> QED
  BY <1>4, <1>5, <1>6, BeginTyped

LEMMA WriteTyped ==
    ASSUME TypeOK, NEW f \in Outputs, Write(f)
    PROVE  TypeOK'
<1>1. out[f] \in Contents(f)
  BY DEF Write, TypeOK
<1>2. DOMAIN files' = Files /\ \A g \in Files : files'[g] \in Contents(g) \cup {Absent, Torn}
  BY <1>1 DEF Write, TypeOK
<1>3. pending' \subseteq pending
  BY DEF Write
<1> QED
  BY <1>2, <1>3 DEF Write, TypeOK, operatorVars

\* The idle command has nothing to write.
LEMMA IdleTyped ==
    ASSUME TypeOK, out' = NoOutput, pending' = {}
    PROVE  /\ DOMAIN out' = Outputs
           /\ pending' \subseteq Outputs
           /\ \A f \in Outputs : out'[f] \in Contents(f) \cup {Absent}
           /\ \A f \in pending' : out'[f] \in Contents(f)
BY DEF NoOutput

LEMMA TypeStep == TypeOK /\ [Next]_vars => TypeOK'
<1> SUFFICES ASSUME TypeOK, Next \/ UNCHANGED vars PROVE TypeOK'
  OBVIOUS
<1>1. CASE Command
  BY <1>1, ClassifyTyped, InferTyped, DecideTyped, ReportTyped DEF Command
<1>2. CASE \E f \in Outputs : Write(f)
  BY <1>2, WriteTyped
<1>3. CASE OracleFails
  BY <1>3 DEF OracleFails, TypeOK, operatorVars
<1>4. CASE Finish
  BY <1>4, IdleTyped DEF Finish, TypeOK, Phases, operatorVars
<1>5. CASE Die
  <2>1. \A f \in Files : files'[f] \in Contents(f) \cup {Absent, Torn}
    BY <1>5 DEF Die, TypeOK
  <2>2. DOMAIN files' = Files
    BY <1>5 DEF Die, TypeOK
  <2>3. deaths' \in 0 .. MaxDeaths
    BY <1>5, BoundsAssumption DEF Die, TypeOK
  <2> QED
    BY <1>5, <2>1, <2>2, <2>3, IdleTyped DEF Die, TypeOK, operatorVars
<1>6. CASE Operator
  <2>1. edits' \in 0 .. MaxEdits
    BY <1>6, BoundsAssumption
       DEF Operator, EditManifest, LockManifest, VendorSnapshot,
           AdjudicateGold, Calibrate, MoveVotes, Edit, TypeOK
  <2>2. /\ manifest' \in Manifests /\ lock' \in Manifests \cup {Absent}
        /\ vendored' \subseteq Snapshots
        /\ goldFiles' \in Golds \cup {Absent}
        /\ calibration' \in Golds \cup {Absent} /\ votesIn' \in BOOLEAN
        /\ locked' \subseteq Manifests /\ streak' \in Phases \cup {"none"}
    BY <1>6
       DEF Operator, EditManifest, LockManifest, VendorSnapshot,
           AdjudicateGold, Calibrate, MoveVotes, TypeOK
  <2>3. UNCHANGED <<files, cmd, out, pending, deaths>>
    BY <1>6
       DEF Operator, EditManifest, LockManifest, VendorSnapshot,
           AdjudicateGold, Calibrate, MoveVotes, Edit, commandVars
  <2> QED
    BY <2>1, <2>2, <2>3 DEF TypeOK
<1>7. CASE UNCHANGED vars
  BY <1>7 DEF vars, operatorVars, commandVars, TypeOK
<1> QED
  BY <1>1, <1>2, <1>3, <1>4, <1>5, <1>6, <1>7 DEF Next, Step

LEMMA TypeInit == Init => TypeOK
<1> SUFFICES ASSUME Init PROVE TypeOK
  OBVIOUS
<1>1. 0 \in 0 .. MaxEdits /\ 0 \in 0 .. MaxDeaths
  BY BoundsAssumption
<1>2. DOMAIN files = Files /\ \A f \in Files : files[f] \in Contents(f) \cup {Absent, Torn}
  BY DEF Init, NoFiles
<1>3. DOMAIN out = Outputs /\ \A f \in Outputs : out[f] \in Contents(f) \cup {Absent}
  BY DEF Init, NoOutput
<1> QED
  BY <1>1, <1>2, <1>3 DEF Init, TypeOK

\* Type correctness.
THEOREM TypeCorrect == Spec => []TypeOK
BY TypeInit, TypeStep, PTL DEF Spec

-----------------------------------------------------------------------------
(* Commands write their own files, in the course of a pass *)

LEMMA ShapeStep == TypeOK /\ CommandShape /\ [Next]_vars => CommandShape'
<1> SUFFICES ASSUME TypeOK, CommandShape, Next \/ UNCHANGED vars
             PROVE  CommandShape'
  OBVIOUS
<1> USE DEF CommandShape
<1>1. CASE BeginClassify
  BY <1>1 DEF BeginClassify, Begin
<1>2. CASE BeginInfer
  BY <1>2, ManifestShape DEF BeginInfer, Begin
<1>3. CASE BeginDecide
  BY <1>3 DEF BeginDecide, Begin
<1>4. CASE BeginReport
  BY <1>4 DEF BeginReport, Begin
<1>5. CASE \E f \in Outputs : Write(f)
  BY <1>5 DEF Write
<1>6. CASE OracleFails
  BY <1>6 DEF OracleFails
<1>7. CASE Finish
  BY <1>7 DEF Finish
<1>8. CASE Die
  BY <1>8 DEF Die
<1>9. CASE Operator
  BY <1>9 DEF Operator, EditManifest, LockManifest, VendorSnapshot,
              AdjudicateGold, Calibrate, MoveVotes, Edit, commandVars
<1>10. CASE UNCHANGED vars
  BY <1>10 DEF vars, commandVars
<1> QED
  BY <1>1, <1>2, <1>3, <1>4, <1>5, <1>6, <1>7, <1>8, <1>9, <1>10
     DEF Next, Command, Step

-----------------------------------------------------------------------------
(* Lock before numbers *)

LEMMA SoundGrows ==
    ASSUME NEW f \in Outputs, NEW v, Sound(f, v), locked \subseteq locked'
    PROVE  Sound(f, v)'
BY DEF Sound, Preregistered, PairPreregistered, ResultPreregistered

\* A step that changes no complete file, loses no lock and has only sound
\* contents still to write.
LEMMA SoundKept ==
    ASSUME TypeOK, SoundFiles, locked \subseteq locked',
           lock' # Absent => lock' \in locked',
           \A f \in Files : Readable(f)' => Readable(f) /\ files'[f] = files[f],
           \A f \in pending' : f \in Outputs /\ Sound(f, out'[f])
    PROVE  SoundFiles'
<1>1. \A f \in Files : Readable(f)' => Sound(f, files'[f])
  BY DEF SoundFiles
<1>2. \A f \in Files : Readable(f)' => Sound(f, files[f])'
  BY <1>1, SoundGrows, FileKinds
<1>3. \A f \in pending' : Sound(f, out[f])'
  BY SoundGrows
<1> QED
  BY <1>2, <1>3 DEF SoundFiles

\* Under a lock that holds, the manifest has been locked.
LEMMA LockedManifest ==
    ASSUME TypeOK, SoundFiles, LockHolds PROVE manifest \in locked
BY ManifestShape DEF SoundFiles, LockHolds

LEMMA SoundClassify ==
    ASSUME TypeOK, SoundFiles, BeginClassify PROVE SoundFiles'
<1>1. pending' = {Labels, Marker}
  BY DEF BeginClassify, Begin
<1>2. UNCHANGED <<files, lock, locked>>
  BY DEF BeginClassify, Begin, operatorVars
<1>3. \A f \in {Labels, Marker} :
         f \notin ChainFiles(Chains) /\ f \notin {Concordance, Spread}
  BY FileKinds
<1>4. \A f \in pending' : f \in Outputs /\ Sound(f, out'[f])
  BY <1>1, <1>3, ChainFilesOf, FileKinds DEF Sound
<1> QED
  BY <1>2, <1>4, SoundKept DEF SoundFiles, Readable

LEMMA SoundInfer ==
    ASSUME TypeOK, SoundFiles, BeginInfer PROVE SoundFiles'
<1> DEFINE p == [labels |-> files[Labels], calibration |-> calibration,
                 gold |-> goldFiles, manifest |-> manifest]
<1>1. pending' = InferFiles /\ \A f \in InferFiles : out'[f] = p
  <2>1. InferFiles \subseteq Outputs
    BY ManifestShape, FileKinds
  <2> QED
    BY <2>1 DEF BeginInfer, Begin
<1>2. UNCHANGED <<files, lock, locked>>
  BY DEF BeginInfer, Begin, operatorVars
<1>3. manifest \in locked
  BY LockedManifest DEF BeginInfer
<1>4. \A f \in InferFiles : f \notin {Concordance, Spread}
  BY ManifestShape, FileKinds
<1>5. ASSUME NEW f \in InferFiles, NEW c \in Chains, f \in ChainFiles({c})
      PROVE  Preregistered(p, c)
  <2>1. c \in {0} \cup manifest.specs
    BY <1>5, ManifestShape, ChainFilesOf DEF InferFiles
  <2>2. goldFiles # Absent => manifest.gold \in {Absent, goldFiles}
    BY DEF BeginInfer, GoldVerified
  <2> QED
    BY <1>3, <2>1, <2>2 DEF Preregistered
<1>6. \A f \in InferFiles : f \in Outputs
  BY ManifestShape, FileKinds
<1> HIDE DEF p
<1>7. \A f \in pending' : f \in Outputs /\ Sound(f, out'[f])
  BY <1>1, <1>4, <1>5, <1>6 DEF Sound
<1> QED
  BY <1>2, <1>7, SoundKept DEF SoundFiles, Readable

LEMMA SoundDecide ==
    ASSUME TypeOK, SoundFiles, BeginDecide PROVE SoundFiles'
<1>1. /\ pending' = ResultFiles
      /\ \A f \in {Concordance, Spread} : out'[f] = DecideResult
  BY FileKinds DEF BeginDecide, Begin
<1>2. UNCHANGED <<files, lock, locked>>
  BY DEF BeginDecide, Begin, operatorVars
<1>3. manifest \in locked
  BY LockedManifest DEF BeginDecide
<1>4. \A c \in {0} \cup manifest.specs :
         Lambda(c) \in InferFiles /\ Summary(c) \in InferFiles /\ c \in Chains
  BY ManifestShape DEF InferFiles, ChainFiles
<1>5. ASSUME NEW c \in {0} \cup manifest.specs PROVE PairPreregistered(Pair(c), c)
  <2>1. Readable(Lambda(c)) /\ Readable(Summary(c))
    BY <1>4 DEF BeginDecide
  <2>2. Lambda(c) \in Files /\ Summary(c) \in Files
    BY <1>4, ManifestShape
  <2>3. Sound(Lambda(c), files[Lambda(c)]) /\ Sound(Summary(c), files[Summary(c)])
    BY <2>1, <2>2 DEF SoundFiles
  <2>4. Lambda(c) \in ChainFiles({c}) /\ Summary(c) \in ChainFiles({c})
    BY <1>4, ChainFilesOf
  <2> QED
    BY <1>4, <2>3, <2>4 DEF Sound, PairPreregistered, Pair
<1>6. ResultPreregistered(DecideResult)
  BY <1>3, <1>5 DEF ResultPreregistered, DecideResult
<1>7. \A f \in ResultFiles : f \notin ChainFiles(Chains)
  BY FileKinds
<1>8. \A f \in pending' : f \in Outputs /\ Sound(f, out'[f])
  BY <1>1, <1>6, <1>7, ChainFilesOf, FileKinds DEF Sound
<1> QED
  BY <1>2, <1>8, SoundKept DEF SoundFiles, Readable

LEMMA SoundReport ==
    ASSUME TypeOK, SoundFiles, BeginReport PROVE SoundFiles'
<1>1. pending' = {Report} /\ UNCHANGED <<files, lock, locked>>
  BY DEF BeginReport, Begin, operatorVars
<1>2. Report \notin ChainFiles(Chains) /\ Report \notin {Concordance, Spread}
  BY FileKinds
<1>3. \A f \in pending' : f \in Outputs /\ Sound(f, out'[f])
  BY <1>1, <1>2, ChainFilesOf, FileKinds DEF Sound
<1> QED
  BY <1>1, <1>3, SoundKept DEF SoundFiles, Readable

LEMMA SoundStep == TypeOK /\ SoundFiles /\ [Next]_vars => SoundFiles'
<1> SUFFICES ASSUME TypeOK, SoundFiles, Next \/ UNCHANGED vars
             PROVE  SoundFiles'
  OBVIOUS
<1>1. CASE Command
  BY <1>1, SoundClassify, SoundInfer, SoundDecide, SoundReport DEF Command
<1>2. ASSUME NEW g \in Outputs, Write(g) PROVE SoundFiles'
  <2>1. UNCHANGED <<lock, locked, out>> /\ pending' = pending \ {g} /\ g \in pending
    BY <1>2 DEF Write, operatorVars
  <2>2. \A f \in Files : files'[f] = IF f = g THEN out[g] ELSE files[f]
    BY <1>2 DEF Write
  <2>3. \A f \in Files : Readable(f)' => Sound(f, files'[f])
    BY <2>1, <2>2 DEF SoundFiles, Readable
  <2>4. \A f \in Files : Readable(f)' => Sound(f, files[f])'
    BY <2>1, <2>3, SoundGrows, FileKinds
  <2>5. \A f \in pending' : Sound(f, out[f])'
    BY <2>1, SoundGrows DEF SoundFiles, TypeOK
  <2> QED
    BY <2>1, <2>4, <2>5 DEF SoundFiles
<1>3. CASE OracleFails \/ Finish
  <2>1. UNCHANGED <<files, lock, locked>> /\ pending' = {}
    BY <1>3 DEF OracleFails, Finish, operatorVars
  <2> QED
    BY <2>1, SoundKept DEF SoundFiles, Readable
<1>4. CASE Die
  <2>1. UNCHANGED <<lock, locked>> /\ pending' = {}
    BY <1>4 DEF Die, operatorVars
  <2>2. \A f \in Files : files'[f] \in {files[f], Torn}
    BY <1>4 DEF Die, TypeOK
  <2> QED
    BY <2>1, <2>2, SoundKept DEF SoundFiles, Readable
<1>5. CASE Operator
  <2>1. UNCHANGED <<files, pending, out>> /\ locked \subseteq locked'
    BY <1>5 DEF Operator, EditManifest, LockManifest, VendorSnapshot,
                AdjudicateGold, Calibrate, MoveVotes, Edit, commandVars
  <2>2. lock' # Absent => lock' \in locked'
    BY <1>5 DEF Operator, EditManifest, LockManifest, VendorSnapshot,
                AdjudicateGold, Calibrate, MoveVotes, SoundFiles
  <2>3. \A f \in Files : Readable(f)' => Sound(f, files[f])'
    BY <2>1, SoundGrows, FileKinds DEF SoundFiles, Readable
  <2>4. \A f \in pending' : Sound(f, out[f])'
    BY <2>1, SoundGrows DEF SoundFiles, TypeOK
  <2> QED
    BY <2>2, <2>3, <2>4 DEF SoundFiles
<1>6. CASE UNCHANGED vars
  BY <1>6, SoundKept DEF vars, operatorVars, commandVars, SoundFiles, Readable,
                         TypeOK
<1> QED
  BY <1>1, <1>2, <1>3, <1>4, <1>5, <1>6 DEF Next, Step

LEMMA SoundInit == Init => SoundFiles
BY DEF Init, SoundFiles, NoFiles, Readable

LEMMA SoundIsLocked == TypeOK /\ SoundFiles => LockedBeforeNumbers
<1> SUFFICES ASSUME TypeOK, SoundFiles PROVE LockedBeforeNumbers
  OBVIOUS
<1>1. ASSUME NEW c \in Chains, NEW f \in ChainFiles({c}), Readable(f)
      PROVE  Preregistered(files[f], c)
  <2>1. f \in Files
    BY ChainFilesOf, FileKinds
  <2> QED
    BY <1>1, <2>1 DEF SoundFiles, Sound
<1>2. \A f \in {Concordance, Spread} : Readable(f) => ResultPreregistered(files[f])
  BY FileKinds DEF SoundFiles, Sound
<1> QED
  BY <1>1, <1>2 DEF LockedBeforeNumbers

\* Every number comes from under a locked manifest that declares its spec.
THEOREM NumbersFollowLock == Spec => []LockedBeforeNumbers
<1>1. Init => TypeOK /\ SoundFiles
  BY TypeInit, SoundInit
<1>2. TypeOK /\ SoundFiles /\ [Next]_vars => (TypeOK /\ SoundFiles)'
  BY TypeStep, SoundStep
<1> QED
  BY <1>1, <1>2, SoundIsLocked, PTL DEF Spec

-----------------------------------------------------------------------------
(* Reports *)

LEMMA ReportBegins ==
    ASSUME TypeOK, SoundFiles, BeginReport PROVE ReportCoversDeclared'
<1>1. /\ out'[Report].manifest = manifest
      /\ out'[Report].spread = files[Spread]
      /\ locked' = locked
  BY FileKinds DEF BeginReport, Begin
<1>2. CASE files[Spread] = Absent
  <2>1. manifest.specs = {} \/ manifest.schema < 3
    BY <1>2 DEF BeginReport
  <2>2. manifest.schema \in 1 .. 4
    BY ManifestsAssumption DEF TypeOK
  <2>3. manifest.schema < 3 => ~(manifest.schema >= 3)
    BY <2>2, SMTT(30)
  <2> QED BY <1>1, <1>2, <2>1, <2>3 DEF ReportCoversDeclared
<1>3. CASE files[Spread] # Absent
  <2>1. manifest.specs \subseteq DOMAIN files[Spread].robustness /\ Readable(Spread)
    BY <1>3 DEF BeginReport, Readable
  <2>2. ResultPreregistered(files[Spread])
    BY <2>1, FileKinds DEF SoundFiles, Sound
  <2> QED
    BY <1>1, <1>3, <2>1, <2>2
       DEF ReportCoversDeclared, ResultPreregistered, PairPreregistered,
           Preregistered
<1> QED
  BY <1>2, <1>3

LEMMA ReportStep ==
    TypeOK /\ SoundFiles /\ ReportCoversDeclared /\ [Next]_vars
        => ReportCoversDeclared'
<1> SUFFICES ASSUME TypeOK, SoundFiles, ReportCoversDeclared,
                    Next \/ UNCHANGED vars
             PROVE  ReportCoversDeclared'
  OBVIOUS
<1>1. CASE BeginReport
  BY <1>1, ReportBegins
<1>2. CASE cmd' # "report"
  BY <1>2, ZenonT(30) DEF ReportCoversDeclared
<1>3. CASE UNCHANGED <<cmd, out>> /\ locked \subseteq locked'
  BY <1>3, ZenonT(30) DEF ReportCoversDeclared, PairPreregistered, Preregistered
<1>4. BeginReport \/ cmd' # "report"
          \/ (UNCHANGED <<cmd, out>> /\ locked \subseteq locked')
  BY DEF Next, Command, Step, BeginClassify, BeginInfer, BeginDecide, Begin,
         Write, OracleFails, Finish, Die, Operator, EditManifest,
         LockManifest, VendorSnapshot, AdjudicateGold, Calibrate, MoveVotes,
         Edit, vars, commandVars
<1> QED
  BY <1>1, <1>2, <1>3, <1>4

\* A report shows preregistered chains for every spec its manifest declares.
THEOREM ReportsAreComplete == Spec => []ReportCoversDeclared
<1>1. Init => TypeOK /\ SoundFiles /\ ReportCoversDeclared
  BY TypeInit, SoundInit DEF Init, ReportCoversDeclared
<1>2. TypeOK /\ SoundFiles /\ ReportCoversDeclared /\ [Next]_vars
          => (TypeOK /\ SoundFiles /\ ReportCoversDeclared)'
  BY TypeStep, SoundStep, ReportStep
<1> QED
  BY <1>1, <1>2, PTL DEF Spec

-----------------------------------------------------------------------------
(* An unspoilt pass *)

Pass == Classifying /\ Classified /\ Inferring /\ Inferred /\ Deciding /\ Decided

LEMMA PassClassify ==
    ASSUME TypeOK, BeginClassify PROVE Pass'
<1>1. streak' = "none" /\ cmd' = "classify"
  BY DEF BeginClassify, Begin
<1>2. pending' = {Labels, Marker}
  BY DEF BeginClassify, Begin
<1>3. Certified(out[Labels], out[Marker])'
  <2>1. PICK s \in vendored, ids \in Scopes :
          /\ out'[Labels] = [snapshot |-> s, ids |-> ids]
          /\ out'[Marker] = [snapshot |-> manifest.snapshot,
                             corpus |-> Cardinality(Universe[s]),
                             scope |-> Cardinality(ids)]
    BY FileKinds DEF BeginClassify, Begin
  <2>2. out'[Labels] \in Labellings /\ out'[Marker] \in Coverages
    BY <1>2, ClassifyTyped, ContentKinds DEF TypeOK
  <2> QED
    BY <2>1, <2>2 DEF Certified
<1> QED
  BY <1>1, <1>2, <1>3
     DEF Pass, Classifying, Classified, Inferring, Inferred, Deciding, Decided,
         Phases

LEMMA PassInfer ==
    ASSUME TypeOK, Pass, BeginInfer PROVE Pass'
<1> DEFINE p == [labels |-> files[Labels], calibration |-> calibration,
                 gold |-> goldFiles, manifest |-> manifest]
<1>1. /\ cmd' = "infer" /\ pending' = InferFiles
      /\ streak' = IF streak = "none" THEN "none" ELSE "classified"
      /\ UNCHANGED <<files, manifest>>
  BY DEF BeginInfer, Begin, operatorVars
<1>2. \A f \in InferFiles : out'[f] = p
  BY ManifestShape, FileKinds DEF BeginInfer, Begin
<1>3. InferFiles' = InferFiles
  BY <1>1 DEF InferFiles
<1>4. out'[Lambda(0)] = p
  BY <1>2, ManifestShape
<1>5. p \in Posteriors
  <2>1. files[Labels] \in Labellings
    BY ReadableContent, FileKinds, ContentKinds DEF BeginInfer
  <2> QED
    BY <2>1, ManifestShape DEF BeginInfer, Posteriors, TypeOK
<1>6. Fresh(out[Lambda(0)])'
  BY <1>1, <1>4, <1>5 DEF Fresh
<1>7. Classified'
  BY <1>1 DEF Pass, Classified, Phases, TypeOK
<1> HIDE DEF p
<1>8. Inferring'
  BY <1>1, <1>2, <1>3, <1>4, <1>6 DEF Inferring
<1> QED
  BY <1>1, <1>7, <1>8 DEF Pass, Classifying, Inferred, Deciding, Decided

LEMMA PassDecide ==
    ASSUME TypeOK, Pass, BeginDecide PROVE Pass'
<1>1. /\ cmd' = "decide" /\ pending' = ResultFiles
      /\ streak' = IF streak \in {"inferred", "decided"} THEN "inferred" ELSE "none"
      /\ UNCHANGED <<files, manifest>>
  BY DEF BeginDecide, Begin, operatorVars
<1>2. \A f \in {Concordance, Spread} : out'[f] = DecideResult /\ f \in ResultFiles
  BY FileKinds DEF BeginDecide, Begin
<1>3. DecideResult' = DecideResult /\ InferFiles' = InferFiles
  BY <1>1 DEF DecideResult, InferFiles, Pair
<1>4. Classified' /\ Inferred'
  BY <1>1, <1>3 DEF Pass, Classified, Inferred, Fresh, Phases
<1>5. Deciding'
  BY <1>1, <1>2, <1>3 DEF Deciding
<1> QED
  BY <1>1, <1>4, <1>5 DEF Pass, Classifying, Inferring, Decided

LEMMA PassReport ==
    ASSUME TypeOK, Pass, BeginReport PROVE Pass'
<1>1. cmd' = "report" /\ UNCHANGED <<files, manifest, streak>>
  BY DEF BeginReport, Begin, operatorVars
<1>2. DecideResult' = DecideResult /\ InferFiles' = InferFiles
  BY <1>1 DEF DecideResult, InferFiles, Pair
<1> QED
  BY <1>1, <1>2 DEF Pass, Classifying, Classified, Inferring, Inferred,
                    Deciding, Decided, Fresh

\* A command touches no file of an earlier phase, whole or torn.
Inputs == {Labels, Marker} \cup (IF cmd = "infer" THEN {} ELSE InferFiles)
              \cup (IF cmd = "report" THEN {Concordance, Spread} ELSE {})

LEMMA InputsUntouched ==
    ASSUME TypeOK, CommandShape, cmd # "classify",
           NEW g \in pending, NEW v,
           files' = [f \in Files |-> IF f = g THEN v ELSE files[f]]
    PROVE  \A f \in Inputs : files'[f] = files[f]
<1>1. Inputs \subseteq Files
  BY FileKinds, ManifestShape DEF Inputs
<1>2. g \notin Inputs
  BY FileKinds, ManifestShape DEF CommandShape, Inputs, TypeOK
<1> QED
  BY <1>1, <1>2

LEMMA PassWrite ==
    ASSUME TypeOK, CommandShape, Pass, NEW g \in Outputs, Write(g)
    PROVE  Pass'
<1>1. /\ g \in pending /\ pending' = pending \ {g}
      /\ files' = [f \in Files |-> IF f = g THEN out[g] ELSE files[f]]
      /\ UNCHANGED <<manifest, cmd, out, streak>>
  BY DEF Write, operatorVars
<1>2. InferFiles' = InferFiles
  BY <1>1 DEF InferFiles
<1>3. CASE cmd = "classify"
  <2>1. streak = "none"
    BY <1>3 DEF CommandShape
  <2>2. Classifying'
    BY <1>1, FileKinds DEF Pass, Classifying
  <2> QED
    BY <1>1, <1>3, <2>1, <2>2
       DEF Pass, Classified, Inferring, Inferred, Deciding, Decided, Phases
<1>4. CASE cmd # "classify"
  <2>1. \A f \in Inputs : files'[f] = files[f]
    BY <1>1, <1>4, InputsUntouched
  <2>2. files'[Labels] = files[Labels] /\ files'[Marker] = files[Marker]
    BY <2>1 DEF Inputs
  <2>3. Classifying' /\ Classified'
    BY <1>1, <1>4, <2>2 DEF Pass, Classifying, Classified
  <2>4. CASE cmd = "infer"
    <3>1. Inferring'
      BY <1>1, <1>2, <2>2, <2>4, ManifestShape DEF Pass, Inferring, Fresh
    <3>2. streak \in {"none", "classified"}
      BY <2>4 DEF CommandShape
    <3> QED
      BY <1>1, <2>3, <2>4, <3>1, <3>2 DEF Pass, Inferred, Deciding, Decided
  <2>5. CASE cmd # "infer"
    <3>1. \A f \in InferFiles : files'[f] = files[f]
      BY <2>1, <2>5 DEF Inputs
    <3>2. \A c \in {0} \cup manifest.specs : Pair(c)' = Pair(c)
      BY <3>1 DEF Pair, InferFiles, ChainFiles
    <3>3. DecideResult' = DecideResult
      BY <1>1, <2>2, <3>2 DEF DecideResult
    <3>4. Inferring' /\ Inferred'
      BY <1>1, <1>2, <2>2, <2>5, <3>1, ManifestShape
         DEF Pass, Inferring, Inferred, Fresh
    <3>5. Deciding'
      BY <1>1, <3>3, FileKinds DEF Pass, Deciding
    <3>6. Decided'
      <4>1. streak = "decided" => cmd = "report"
        BY <1>1, <1>4, <2>5 DEF CommandShape, TypeOK
      <4>2. cmd = "report" =>
              \A f \in {Concordance, Spread} : files'[f] = files[f]
        BY <2>1 DEF Inputs
      <4> QED
        BY <1>1, <3>3, <4>1, <4>2 DEF Pass, Decided
    <3> QED
      BY <2>3, <3>4, <3>5, <3>6 DEF Pass
  <2> QED
    BY <2>4, <2>5
<1> QED
  BY <1>3, <1>4

LEMMA PassFinish ==
    ASSUME TypeOK, CommandShape, Pass, Finish PROVE Pass'
<1>1. /\ cmd' = "none" /\ pending = {}
      /\ UNCHANGED <<files, manifest>>
  BY DEF Finish, operatorVars
<1>2. InferFiles' = InferFiles /\ DecideResult' = DecideResult
  BY <1>1 DEF InferFiles, DecideResult, Pair
<1>3. Classified'
  <2>1. CASE cmd = "classify"
    BY <1>1, <2>1, FileKinds DEF Pass, Classifying, Classified
  <2>2. CASE cmd # "classify"
    BY <1>1, <2>2 DEF Pass, Classified, Finish, Phases
  <2> QED
    BY <2>1, <2>2
<1>4. Inferred'
  <2>1. CASE cmd = "infer" /\ streak = "classified"
    BY <1>1, <1>2, <2>1, ManifestShape DEF Pass, Inferring, Inferred, Fresh
  <2>2. CASE ~(cmd = "infer" /\ streak = "classified")
    BY <1>1, <1>2, <2>2 DEF Pass, Inferred, Fresh, Finish, CommandShape
  <2> QED
    BY <2>1, <2>2
<1>5. Decided'
  <2>1. CASE cmd = "decide" /\ streak = "inferred"
    BY <1>1, <1>2, <2>1 DEF Pass, Deciding, Decided
  <2>2. CASE ~(cmd = "decide" /\ streak = "inferred")
    BY <1>1, <1>2, <2>2 DEF Pass, Decided, Finish
  <2> QED
    BY <2>1, <2>2
<1> QED
  BY <1>1, <1>3, <1>4, <1>5 DEF Pass, Classifying, Inferring, Deciding

LEMMA PassDie ==
    ASSUME TypeOK, CommandShape, Pass, Die PROVE Pass'
<1>1. cmd' = "none" /\ UNCHANGED <<manifest, streak>>
  BY DEF Die, operatorVars
<1>2. CASE cmd = "classify"
  BY <1>1, <1>2 DEF CommandShape, Pass, Classifying, Classified, Inferring,
                    Inferred, Deciding, Decided, Phases
<1>3. CASE cmd # "classify"
  <2>1. \A f \in Inputs : files'[f] = files[f]
    BY <1>3, InputsUntouched DEF Die
  <2>2. InferFiles' = InferFiles
    BY <1>1 DEF InferFiles
  <2>3. Classified'
    BY <1>1, <2>1 DEF Pass, Classified, Inputs
  <2>4. Inferred'
    <3>1. streak \in {"inferred", "decided"} => cmd # "infer"
      BY DEF CommandShape
    <3> QED
      BY <1>1, <2>1, <2>2, <3>1, ManifestShape DEF Pass, Inferred, Fresh, Inputs
  <2>5. Decided'
    <3>1. streak = "decided" => cmd = "report"
      BY <1>3 DEF CommandShape, TypeOK, Die
    <3>2. cmd = "report" => \A f \in {Concordance, Spread} : files'[f] = files[f]
      BY <2>1 DEF Inputs
    <3>3. cmd = "report" => \A c \in {0} \cup manifest.specs : Pair(c)' = Pair(c)
      BY <2>1 DEF Pair, InferFiles, ChainFiles, Inputs
    <3>4. cmd = "report" => DecideResult' = DecideResult
      BY <1>1, <2>1, <3>3 DEF DecideResult, Inputs
    <3> QED
      BY <1>1, <3>1, <3>2, <3>4 DEF Pass, Decided
  <2> QED
    BY <1>1, <2>3, <2>4, <2>5 DEF Pass, Classifying, Inferring, Deciding
<1> QED
  BY <1>2, <1>3

LEMMA PassOracle ==
    ASSUME TypeOK, Pass, OracleFails PROVE Pass'
<1>1. /\ UNCHANGED <<files, manifest, cmd, out, streak>>
      /\ cmd = "decide" /\ pending = {Oracle} /\ pending' = {}
  BY DEF OracleFails, operatorVars
<1>2. InferFiles' = InferFiles /\ DecideResult' = DecideResult
  BY <1>1 DEF InferFiles, DecideResult, Pair
<1>3. Oracle \notin {Concordance, Spread}
  BY FileKinds
<1> QED
  BY <1>1, <1>2, <1>3 DEF Pass, Classifying, Classified, Inferring, Inferred,
                          Deciding, Decided, Fresh

LEMMA PassOperator ==
    ASSUME Pass, Operator \/ UNCHANGED vars PROVE Pass'
<1>1. UNCHANGED <<files, cmd, out, pending>>
  BY DEF Operator, EditManifest, LockManifest, VendorSnapshot, AdjudicateGold,
         Calibrate, MoveVotes, Edit, commandVars, vars
<1>2. streak' = "none" \/ UNCHANGED <<manifest, streak>>
  BY DEF Operator, EditManifest, LockManifest, VendorSnapshot, AdjudicateGold,
         Calibrate, MoveVotes, vars, operatorVars
<1>3. CASE streak' = "none"
  BY <1>1, <1>3 DEF Pass, Classifying, Classified, Inferring, Inferred,
                    Deciding, Decided, Phases
<1>4. CASE UNCHANGED <<manifest, streak>>
  <2>1. InferFiles' = InferFiles /\ DecideResult' = DecideResult
    BY <1>1, <1>4 DEF InferFiles, DecideResult, Pair
  <2> QED
    BY <1>1, <1>4, <2>1 DEF Pass, Classifying, Classified, Inferring, Inferred,
                            Deciding, Decided, Fresh
<1> QED
  BY <1>2, <1>3, <1>4

LEMMA PassStep == TypeOK /\ CommandShape /\ Pass /\ [Next]_vars => Pass'
BY PassClassify, PassInfer, PassDecide, PassReport, PassWrite, PassFinish,
   PassDie, PassOracle, PassOperator
   DEF Next, Command, Step

LEMMA PassIsCoherent == TypeOK /\ Pass => CleanPassIsCoherent
<1> SUFFICES ASSUME TypeOK, Pass PROVE CleanPassIsCoherent
  OBVIOUS
<1>1. streak \in Phases =>
        /\ Readable(Labels) /\ Readable(Marker)
        /\ files[Marker].corpus = Cardinality(Universe[files[Labels].snapshot])
        /\ files[Marker].scope = Cardinality(files[Labels].ids)
  BY ContentReadable, FileKinds, ContentKinds DEF Pass, Classified, Certified
<1>2. ASSUME streak \in {"inferred", "decided"}, NEW f \in InferFiles
      PROVE  /\ Readable(f)
             /\ files[f] = files[Lambda(0)]
             /\ files[f].labels = files[Labels] /\ files[f].manifest = manifest
  <2>1. Fresh(files[Lambda(0)]) /\ files[f] = files[Lambda(0)]
    BY <1>2 DEF Pass, Inferred
  <2>2. f \in Files /\ files[f] \in Contents(f)
    BY <2>1, ManifestShape, ContentKinds DEF Fresh
  <2> QED
    BY <2>1, <2>2, ContentReadable DEF Fresh
<1>3. streak = "decided" => \A f \in {Concordance, Spread} : files[f] = DecideResult
  BY DEF Pass, Decided
<1> QED
  BY <1>1, <1>2, <1>3 DEF CleanPassIsCoherent, InferFiles

\* A pass that completes holds only what this pass has computed.
THEOREM CleanPasses == Spec => []CleanPassIsCoherent
<1> DEFINE Inv == TypeOK /\ CommandShape /\ Pass
<1>1. Init => Inv
  BY TypeInit DEF Init, CommandShape, Pass, Classifying, Classified, Inferring,
                  Inferred, Deciding, Decided, Phases
<1>2. Inv /\ [Next]_vars => Inv'
  BY TypeStep, ShapeStep, PassStep
<1>3. Inv => CleanPassIsCoherent
  BY PassIsCoherent
<1> QED
  BY <1>1, <1>2, <1>3, PTL DEF Spec
=============================================================================
